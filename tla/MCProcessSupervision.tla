------------------------ MODULE MCProcessSupervision ------------------------
(* Instances of ProcessSupervision for TLC: two runs, the first with a       *)
(* configure-with script, and two destroys, the first of which waits.        *)
EXTENDS ProcessSupervision

CONSTANTS run1, run2, destroy1, destroy2
BothRuns == {run1, run2}
OneRun == {run1}
OneConfigured == {run1}
BothDestroys == {destroy1, destroy2}
OneDestroy == {destroy1}
OneWaits == {destroy1}
=============================================================================
