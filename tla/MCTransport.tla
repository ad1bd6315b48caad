---------------------------- MODULE MCTransport ----------------------------
(* Four frames of one, two, three and five pieces; all but the shortest carry *)
(* descriptors. The socket holds three pieces, one recvmsg returns two.       *)
EXTENDS Transport

CONSTANTS short, middle, long, huge
Frames == {short, middle, long, huge}
FrameLength ==
    [f \in Frames |-> CASE f = short -> 1 [] f = middle -> 2 [] f = long -> 3 [] f = huge -> 5]
WithFds == {middle, long, huge}
=============================================================================
