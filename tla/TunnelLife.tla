----------------------------- MODULE TunnelLife -----------------------------
(***************************************************************************)
(* What the server promises of tunnels to clients that overlap neither the  *)
(* setups nor the destroys of a name and that wait for listed tunnels only: *)
(* a tunnel is listed under a name only between the moment everything it    *)
(* needs has been acquired and the moment the first of it is released; a    *)
(* name lists one tunnel at a time, and no tunnel is listed twice.          *)
(***************************************************************************)
CONSTANTS
    Tunnels, Names,
    None             \* not a tunnel

VARIABLES life, listed

Stages == {"new", "held", "closing", "gone"}

Init ==
    /\ life = [t \in Tunnels |-> "new"]
    /\ listed = [n \in Names |-> None]

Move(t, stage) == life' = [life EXCEPT ![t] = stage]

Acquire(t) == life[t] = "new" /\ Move(t, "held") /\ UNCHANGED listed

\* A setup that fails, or a request that never sets a tunnel up.
Abandon(t) == life[t] = "new" /\ Move(t, "gone") /\ UNCHANGED listed

List(t, n) ==
    /\ life[t] = "held"
    /\ listed[n] = None
    /\ \A m \in Names : listed[m] # t
    /\ listed' = [listed EXCEPT ![n] = t]
    /\ UNCHANGED life

Unlist(n) ==
    /\ listed[n] # None
    /\ listed' = [listed EXCEPT ![n] = None]
    /\ Move(listed[n], "closing")

Release(t) ==
    /\ life[t] \in {"held", "closing"}
    /\ \A n \in Names : listed[n] # t
    /\ Move(t, "gone")
    /\ UNCHANGED listed

Next ==
    \/ \E t \in Tunnels : Acquire(t) \/ Abandon(t) \/ Release(t)
    \/ \E t \in Tunnels, n \in Names : List(t, n)
    \/ \E n \in Names : Unlist(n)

Spec == Init /\ [][Next]_<<life, listed>>
=============================================================================
