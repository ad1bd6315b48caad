---------------------------- MODULE MCCorrelation ----------------------------
(* One client that waits for two StartTunnels at a time: both declare that    *)
(* TunnelStatusUpdated may come, and one of them PortsRebound too; the        *)
(* on_event of that one may raise.                                            *)
EXTENDS Correlation

CONSTANTS start1, start2, updated, rebound
TwoStarts == {start1, start2}
AllEvents == {updated, rebound}
DeclaredByStarts ==
    [r \in TwoStarts |-> IF r = start1 THEN {updated} ELSE {updated, rebound}]
OneMayRaise == {start2}
==============================================================================
