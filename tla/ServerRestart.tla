--------------------------- MODULE ServerRestart ---------------------------
(***************************************************************************)
(* The server ends and another one is started.  Service.create has nothing  *)
(* behind its yield and Service.__init__ looks at nothing on the host: the  *)
(* exit stacks are gone with the process, what they would have undone stays *)
(* unless something else removes it, and the next server begins with empty  *)
(* dictionaries.  Its tunnels are the ones still "idle" here.               *)
(***************************************************************************)
EXTENDS HostServices

Live == {t \in Tunnels : pc[t] \notin {"idle", "over", "lost"}}
Lost == {t \in Tunnels : pc[t] = "lost"}

\* In every case: no handler, no stack, no task goes on.  Bound: one server
\* ends in a behaviour, one with tunnels.
Forget ==
    /\ Live # {} /\ Lost = {}
    /\ pc' = [t \in Tunnels |-> IF t \in Live THEN "lost" ELSE pc[t]]
    /\ stack' = [t \in Tunnels |-> <<>>]
    /\ said' = [t \in Tunnels |-> "nothing"]
    /\ loops' = {}
    /\ failed' = [t \in Tunnels |-> IF t \in Live THEN "none" ELSE failed[t]]
    /\ UNCHANGED <<nat, accepted, forgotten, kill, temp>>

\* The processes of the server die with it, the one that holds a namespace
\* included, and the veth pair goes with the namespace.
ProcessesDie ==
    /\ link' = [s \in Slots |-> IF link[s] \in Live THEN None ELSE link[s]]
    /\ openvpn' = [t \in Tunnels |->
                      IF t \in Live /\ openvpn[t] # "none" THEN "dead" ELSE openvpn[t]]
    /\ dnsmasq' = [t \in Tunnels |->
                      IF t \in Live /\ dnsmasq[t] = "up" THEN "dead" ELSE dnsmasq[t]]

\* Only the server is killed: what it started runs on.
KilledAlone ==
    /\ Forget
    /\ UNCHANGED <<link, openvpn, dnsmasq, files>>

\* Stopped in its terminal: so is what it started, the folder stays.
Interrupted ==
    /\ Forget
    /\ ProcessesDie
    /\ UNCHANGED files

\* The unit is stopped, or fails and is restarted: systemd ends the control
\* group and removes the RuntimeDirectory, in which the folders are.
UnitEnds ==
    /\ Forget
    /\ ProcessesDie
    /\ files' = [n \in Names |-> None]

ServerEnds == KilledAlone \/ Interrupted \/ UnitEnds

RestartSpec == Init /\ [][Next \/ ServerEnds]_vars

\* ---- Properties

\* What an ended server left under a name is in the way of nobody for good:
\* a tunnel that is set up and torn down without a failure takes the table of
\* its identifier, the kill switch of its slot and the files of its name with
\* it, those of ended servers included.  Accept rules are not among them: no
\* later tunnel removes another one's.
NextTunnelHeals ==
    [][\A t \in Tunnels :
          pc[t] = "closing" /\ pc'[t] = "over" /\ failed[t] = "none" =>
              /\ nat'[TunnelIdent(t)] \cap Lost = {}
              /\ Config[t].vpn /\ Config[t].kill => kill'[TunnelSlot(t)] \cap Lost = {}
              /\ dnsmasq[t] # "dead" => files'[NameOf[t]] \notin Lost]_vars
=============================================================================
