-------------------------- MODULE MCTunnelService --------------------------
(* Instances of TunnelService for TLC. *)
EXTENDS TunnelService, TLC

Message(kind, name, vpn, rebinds, waiting) ==
    [kind |-> kind, name |-> name, vpn |-> vpn, rebind |-> rebinds, wait |-> waiting]

\* Everything a client can ask of one tunnel.
FullMenu(n) ==
    { Message("create", n, FALSE, FALSE, FALSE),
      Message("create", n, TRUE, TRUE, FALSE),
      Message("start", n, TRUE, FALSE, FALSE),
      Message("start", n, TRUE, TRUE, FALSE),
      Message("run", n, FALSE, FALSE, FALSE),
      Message("destroy", n, FALSE, FALSE, FALSE),
      Message("destroy", n, FALSE, FALSE, TRUE) }

CONSTANTS red, blue, slot1

OneName == {red}
TwoNames == {red, blue}
OneSlot == {slot1}
OneNameSlot == [n \in OneName |-> slot1]
TwoNameSlot == [n \in TwoNames |-> slot1]

OneNameMenu == FullMenu(red)

\* A second name in the same slot, whose veth pair has the same name.
TwoNameMenu ==
    FullMenu(red) \cup { Message("create", blue, FALSE, FALSE, FALSE),
                        Message("destroy", blue, FALSE, FALSE, FALSE) }
Symmetry == Permutations(Requests)
=============================================================================
