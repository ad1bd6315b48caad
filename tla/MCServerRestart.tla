-------------------------- MODULE MCServerRestart --------------------------
(* Instances of ServerRestart for TLC. *)
EXTENDS ServerRestart

CONSTANTS t1, t2, t3, red, blue, slot1, slot2, ident

\* Two tunnels of one name, one after the other or overlapping, and one of
\* another name and slot whose nftables identifier is the same.
ThreeTunnels == {t1, t2, t3}
TwoNames == {red, blue}
TwoSlots == {slot1, slot2}
OneIdent == {ident}
ThreeNames == t1 :> red @@ t2 :> red @@ t3 :> blue
NameSlot == red :> slot1 @@ blue :> slot2
NameIdent == [n \in TwoNames |-> ident]

Forgetful == {t1}
Asked(vpn, kills, forward, port) ==
    [vpn |-> vpn, kill |-> kills, forward |-> forward, port |-> port]
ThreeConfigs ==
    t1 :> Asked(TRUE, TRUE, TRUE, TRUE)
      @@ t2 :> Asked(TRUE, TRUE, FALSE, FALSE)
      @@ t3 :> Asked(FALSE, FALSE, FALSE, FALSE)
=============================================================================
