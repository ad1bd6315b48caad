----------------------------- MODULE MCCommands -----------------------------
(* Instances of Commands for TLC. *)
EXTENDS Commands, TLC

CONSTANTS first, second, third, red, uuid

ThreeProcs == {first, second, third}
TwoNames == {red, uuid}

Given(kind) == [kind |-> kind, name |-> red, temporary |-> FALSE]
Made(kind) == [kind |-> kind, name |-> uuid, temporary |-> TRUE]
Destroys(name) == [kind |-> "destroy", name |-> name, temporary |-> FALSE]
Absent == [kind |-> "absent", name |-> red, temporary |-> FALSE]
Cast(a, b, c) == first :> a @@ second :> b @@ third :> c

\* Temporary tunnels that somebody else destroys; a process inside a tunnel
\* that is started or created; several commands that want one name.
SixCasts ==
    {Cast(Made("run"), Destroys(uuid), Absent),
     Cast(Made("debug"), Destroys(uuid), Absent),
     Cast(Given("run"), Given("start"), Absent),
     Cast(Given("run"), Given("create"), Absent),
     Cast(Given("create"), Given("create"), Destroys(red)),
     Cast(Given("start"), Given("create"), Absent)}
=============================================================================
