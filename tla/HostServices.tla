---------------------------- MODULE HostServices ----------------------------
(***************************************************************************)
(* What _setup_tunnel enters behind the namespace, context manager by       *)
(* context manager: the veth pair, Internet, VpeerPortForward, the VPN      *)
(* session with its OpenVPN process, DNS, KillSwitch and a forwarded port.  *)
(* TunnelService has these as "link", "services" and "port"; here tunnels   *)
(* meet in what they name on the host: a veth pair and a kill switch by     *)
(* slot, an nftables table by the identifier made of the name, files by     *)
(* the name.                                                                *)
(*                                                                         *)
(* A tunnel is the identity of one setup; two of them may have one name.    *)
(***************************************************************************)
EXTENDS Naturals, Sequences, SequencesExt

CONSTANTS
    Tunnels, Names,
    NameOf,          \* the name of each tunnel
    Slots, Slot,     \* the md5 slot of each name
    Idents, Ident,   \* the nftables identifier _nft_ident makes of each name
    Config,          \* what each tunnel was asked to have
    MayForget,       \* bound: the tunnels that may come to be in forgotten
    None             \* not a tunnel

Requested == [vpn : BOOLEAN, kill : BOOLEAN, forward : BOOLEAN, port : BOOLEAN]

ASSUME ServicesAssumption ==
    /\ NameOf \in [Tunnels -> Names]
    /\ Slot \in [Names -> Slots]
    /\ Ident \in [Names -> Idents]
    /\ Config \in [Tunnels -> Requested]
    /\ MayForget \subseteq Tunnels
    /\ None \notin Tunnels

VARIABLES
    pc,        \* the step a setup is at, or "idle", "listed", "closing", "over";
               \* "lost" when its server ended (module ServerRestart)
    failed,    \* the step the setup failed at, "none" when it did not, "clean"
               \* when what it had done by then was undone
    stack,     \* the AsyncExitStack: managers in the order they were entered
    link,      \* the veth pair of each slot
    nat,       \* table vpt_<ident>: tunnels whose rules it holds
    accepted,  \* tunnels with accept rules in the forward chains of the host that
               \* Internet.share remembers by their handles
    forgotten, \* tunnels with accept rules there that nothing remembers
    kill,      \* table kill_switch_<veth>: tunnels whose rules it holds
    files,     \* resolv.conf, nsswitch.conf, dnsmasq.conf in <name>/: who wrote them
    dnsmasq,   \* the resolver process of a tunnel
    openvpn,   \* the OpenVPN process of a tunnel
    said,      \* what its --up script has written to the pipe, while that is open
    temp,      \* the temporary files of a session
    loops      \* tunnels whose port PIABackend._rebind_loop keeps bound

processes == <<dnsmasq, openvpn, said>>
vars == <<pc, failed, stack, link, nat, accepted, forgotten, kill, files, processes, temp, loops>>

\* The steps of a setup in their order, each what runs up to the end of one
\* await, or of several when only the last of them changes what others see.
Order == <<"link", "table", "chains", "vpeer", "server", "spawn", "connect", "dns",
           "kill", "port", "listed">>

\* Those that this tunnel's setup takes.
Wanted(t, step) ==
    /\ step = "vpeer" => Config[t].forward
    /\ step \in {"server", "spawn", "connect", "kill", "port"} => Config[t].vpn
    /\ step = "kill" => Config[t].kill
    /\ step = "port" => Config[t].port

StepLabels ==
    {"link", "table", "chains", "vpeer", "server", "spawn", "connect", "dns", "kill", "port"}
Managers == {"link", "internet", "vpeer", "session", "dns", "kill", "port"}

Init ==
    /\ pc = [t \in Tunnels |-> "idle"]
    /\ failed = [t \in Tunnels |-> "none"]
    /\ stack = [t \in Tunnels |-> <<>>]
    /\ link = [s \in Slots |-> None]
    /\ nat = [i \in Idents |-> {}]
    /\ accepted = {}
    /\ forgotten = {}
    /\ kill = [s \in Slots |-> {}]
    /\ files = [n \in Names |-> None]
    /\ dnsmasq = [t \in Tunnels |-> "none"]
    /\ openvpn = [t \in Tunnels |-> "none"]
    /\ said = [t \in Tunnels |-> "nothing"]
    /\ temp = [t \in Tunnels |-> {}]
    /\ loops = {}

TunnelSlot(t)  == Slot[NameOf[t]]
TunnelIdent(t) == Ident[NameOf[t]]

Goto(t, label) == pc' = [pc EXCEPT ![t] = label]

\* The step is done; go on to the next one wanted, "listed" after the last.
At(t, step) == pc[t] = step
Proceed(t) ==
    \E i, j \in DOMAIN Order :
        /\ i < j /\ Order[i] = pc[t] /\ Wanted(t, Order[j])
        /\ \A k \in (i + 1)..(j - 1) : ~Wanted(t, Order[k])
        /\ Goto(t, Order[j])

\* AsyncExitStack.enter_async_context
PushTwice(t, manager) == stack' = [stack EXCEPT ![t] = @ \o <<manager, manager>>]
Push(t, manager) == stack' = [stack EXCEPT ![t] = Append(@, manager)]

Begin(t) ==
    /\ pc[t] = "idle"
    /\ Goto(t, "link")
    /\ UNCHANGED <<failed, stack, link, nat, accepted, forgotten, kill, files, processes, temp, loops>>

\* `ip link add` fails when the slot's interface name is taken.
LinkUnchecked(t) == TRUE
LinkFree(t) == link[TunnelSlot(t)] = None

EnterLink(t) ==
    /\ At(t, "link")
    /\ LinkFree(t)
    /\ link' = [link EXCEPT ![TunnelSlot(t)] = t]
    /\ Push(t, "link")
    /\ Proceed(t)
    /\ UNCHANGED <<failed, nat, accepted, forgotten, kill, files, processes, temp, loops>>

\* Internet.share: `nft -f -` adds to a table that exists already.
LoadTable(t) ==
    /\ At(t, "table")
    /\ nat' = [nat EXCEPT ![TunnelIdent(t)] = @ \cup {t}]
    /\ Proceed(t)
    /\ UNCHANGED <<failed, stack, link, accepted, forgotten, kill, files, processes, temp, loops>>

\* The forward chains of the host are listed and each is offered two accept
\* rules.  One that is refused is passed over, one whose handle is not found
\* in what nft prints stays and is not remembered; nothing is raised.
AcceptForward(t) ==
    /\ At(t, "chains")
    /\ accepted' \in {accepted, accepted \cup {t}}
    /\ forgotten' \in {forgotten, forgotten \cup ({t} \cap MayForget)}
    /\ Push(t, "internet")
    /\ Proceed(t)
    /\ UNCHANGED <<failed, link, nat, kill, files, processes, temp, loops>>

\* What it changes is inside the namespace and goes with it.
ForwardFromVpeer(t) ==
    /\ At(t, "vpeer")
    /\ Push(t, "vpeer")
    /\ Proceed(t)
    /\ UNCHANGED <<failed, link, nat, accepted, forgotten, kill, files, processes, temp, loops>>

\* The server is looked up; then, without an await, the credentials file, the
\* pipe and the --up script are made.
FetchServer(t) ==
    /\ At(t, "server")
    /\ temp' = [temp EXCEPT ![t] = {"credentials", "script"}]
    /\ Proceed(t)
    /\ UNCHANGED <<failed, stack, link, nat, accepted, forgotten, kill, files, processes, loops>>

SpawnOpenVPN(t) ==
    /\ At(t, "spawn")
    /\ openvpn' = [openvpn EXCEPT ![t] = "starting"]
    /\ Proceed(t)
    /\ UNCHANGED <<failed, stack, link, nat, accepted, forgotten, kill, files, dnsmasq, said, temp, loops>>

\* The gateway was read, and every line behind it up to the empty line; the
\* end of the pipe reads as an empty line too.
EnterSession(t) ==
    /\ At(t, "connect")
    /\ \/ said[t] = "all"
       \/ said[t] = "gateway" /\ openvpn[t] = "dead"
    /\ said' = [said EXCEPT ![t] = "nothing"]
    /\ Push(t, "session")
    /\ Proceed(t)
    /\ UNCHANGED <<failed, link, nat, accepted, forgotten, kill, files, dnsmasq, openvpn, temp, loops>>

EnterDNS(t) ==
    /\ At(t, "dns")
    /\ files' = [files EXCEPT ![NameOf[t]] = t]
    /\ dnsmasq' = [dnsmasq EXCEPT ![t] = "up"]
    /\ Push(t, "dns")
    /\ Proceed(t)
    /\ UNCHANGED <<failed, link, nat, accepted, forgotten, kill, openvpn, said, temp, loops>>

ActivateKillSwitch(t) ==
    /\ At(t, "kill")
    /\ kill' = [kill EXCEPT ![TunnelSlot(t)] = @ \cup {t}]
    /\ Push(t, "kill")
    /\ Proceed(t)
    /\ UNCHANGED <<failed, link, nat, accepted, forgotten, files, processes, temp, loops>>

\* A port is allocated and bound; its loop rebinds it from then on.
ForwardPort(t) ==
    /\ At(t, "port")
    /\ loops' = loops \cup {t}
    /\ Push(t, "port")
    /\ Proceed(t)
    /\ UNCHANGED <<failed, link, nat, accepted, forgotten, kill, files, processes, temp>>

\* The wait for the connection ends: OpenVPN exited without a word, or the
\* timer of _CONNECT_TIMEOUT fired, maybe as the last line came in.
GivesUpOnExit(t) == said[t] = "nothing" /\ openvpn[t] = "dead"
GivesUp(t) == TRUE

\* What OpenVPN.connect and credentials_file release on the way out.
TempKept(t, step) == temp[t]
TempLeft(t, step) == CASE step = "connect" -> {}
                       [] step = "spawn"   -> {"script"}
                       [] OTHER            -> temp[t]

\* Steps that leave something behind when they fail.
Lasting == {"chains", "spawn", "dns"}

\* The step raises.  The loop that inserts the accept rules runs before the
\* try that undoes them: the table stays, and so do the rules inserted by
\* then, if any.  Files stay when a mount or dnsmasq cannot be started.
Fail(t) ==
    /\ pc[t] \in StepLabels
    /\ At(t, "connect") => GivesUp(t)
    /\ failed' = [failed EXCEPT ![t] = IF pc[t] \in Lasting THEN pc[t] ELSE "clean"]
    /\ openvpn' = [openvpn EXCEPT ![t] = IF At(t, "connect") THEN "dead" ELSE @]
    /\ temp' = [temp EXCEPT ![t] = TempLeft(t, pc[t])]
    /\ files' = [files EXCEPT ![NameOf[t]] = IF At(t, "dns") THEN t ELSE @]
    /\ Goto(t, IF stack[t] = <<>> THEN "over" ELSE "closing")
    /\ said' = [said EXCEPT ![t] = "nothing"]
    /\ \/ UNCHANGED forgotten
       \/ At(t, "chains") /\ forgotten' = forgotten \cup ({t} \cap MayForget)
    /\ UNCHANGED <<stack, link, nat, accepted, kill, dnsmasq, loops>>

Destroy(t) ==
    /\ pc[t] = "listed"
    /\ Goto(t, "closing")
    /\ UNCHANGED <<failed, stack, link, nat, accepted, forgotten, kill, files, processes, temp, loops>>

\* ---- Leaving

\* The manager that aclose() leaves next: the one entered last.
OldestOf(held) == Head(held)
NewestOf(held) == Last(held)

\* `ip link delete` by name.
LeaveLink(t) ==
    /\ link' = [link EXCEPT ![TunnelSlot(t)] = None]
    /\ UNCHANGED <<nat, accepted, forgotten, kill, files, processes, temp, loops>>

\* Rules go by the handles remembered, the table by its name.
LeaveInternetOwn(t) ==
    /\ accepted' = accepted \ {t}
    /\ nat' = [nat EXCEPT ![TunnelIdent(t)] = @ \ {t}]
    /\ UNCHANGED <<forgotten, link, kill, files, processes, temp, loops>>
LeaveInternet(t) ==
    /\ accepted' = accepted \ {t}
    /\ nat' = [nat EXCEPT ![TunnelIdent(t)] = {}]
    /\ UNCHANGED <<forgotten, link, kill, files, processes, temp, loops>>

\* Terminated, killed after five seconds, or dead already.
LeaveSession(t) ==
    /\ openvpn' = [openvpn EXCEPT ![t] = "dead"]
    /\ temp' = [temp EXCEPT ![t] = {}]
    /\ UNCHANGED <<link, nat, accepted, forgotten, kill, files, dnsmasq, said, loops>>

\* terminate() raises when dnsmasq is known to have exited: the files stay.
LeaveDNS(t) ==
    /\ dnsmasq' = [dnsmasq EXCEPT ![t] = IF @ = "up" THEN "stopped" ELSE @]
    /\ \/ files' = [files EXCEPT ![NameOf[t]] = None]
       \/ dnsmasq[t] = "dead" /\ UNCHANGED files
    /\ UNCHANGED <<link, nat, accepted, forgotten, kill, openvpn, said, temp, loops>>

LeaveKillSwitch(t) ==
    /\ kill' = [kill EXCEPT ![TunnelSlot(t)] = {}]
    /\ UNCHANGED <<link, nat, accepted, forgotten, files, processes, temp, loops>>

LeavePort(t) ==
    /\ loops' = loops \ {t}
    /\ UNCHANGED <<link, nat, accepted, forgotten, kill, files, processes, temp>>

\* One manager is left, also after another one raised.
Leave(t) ==
    /\ pc[t] = "closing"
    /\ LET m == NewestOf(stack[t])
       IN  /\ stack' = [stack EXCEPT ![t] = Front(@)]
           /\ \/ m = "link" /\ LeaveLink(t)
              \/ m = "internet" /\ LeaveInternet(t)
              \/ m = "vpeer" /\ UNCHANGED <<link, nat, accepted, forgotten, kill, files, processes, temp, loops>>
              \/ m = "session" /\ LeaveSession(t)
              \/ m = "dns" /\ LeaveDNS(t)
              \/ m = "kill" /\ LeaveKillSwitch(t)
              \/ m = "port" /\ LeavePort(t)
    /\ IF Len(stack[t]) = 1 THEN Goto(t, "over") ELSE UNCHANGED pc
    /\ UNCHANGED failed

\* ---- What the programs do by themselves

OpenVPNWrites(t) ==
    /\ openvpn[t] = "starting" /\ At(t, "connect")
    /\ \/ said[t] = "nothing" /\ said' = [said EXCEPT ![t] = "gateway"] /\ UNCHANGED openvpn
       \/ /\ said[t] = "gateway"
          /\ said' = [said EXCEPT ![t] = "all"]
          /\ openvpn' = [openvpn EXCEPT ![t] = "up"]
    /\ UNCHANGED <<pc, failed, stack, link, nat, accepted, forgotten, kill, files, dnsmasq, temp, loops>>

OpenVPNDies(t) ==
    /\ openvpn[t] \in {"starting", "up"}
    /\ openvpn' = [openvpn EXCEPT ![t] = "dead"]
    /\ UNCHANGED <<pc, failed, stack, link, nat, accepted, forgotten, kill, files, dnsmasq, said, temp, loops>>

DnsmasqDies(t) ==
    /\ dnsmasq[t] = "up"
    /\ dnsmasq' = [dnsmasq EXCEPT ![t] = "dead"]
    /\ UNCHANGED <<pc, failed, stack, link, nat, accepted, forgotten, kill, files, openvpn, said, temp, loops>>

\* The handler's own steps.
Handler(t) ==
    \/ EnterLink(t)
    \/ LoadTable(t)
    \/ AcceptForward(t)
    \/ ForwardFromVpeer(t)
    \/ FetchServer(t)
    \/ SpawnOpenVPN(t)
    \/ EnterSession(t)
    \/ EnterDNS(t)
    \/ ActivateKillSwitch(t)
    \/ ForwardPort(t)
    \/ Fail(t)
    \/ Leave(t)

Next ==
    \E t \in Tunnels : \/ Begin(t) \/ Handler(t) \/ Destroy(t)
                       \/ OpenVPNWrites(t) \/ OpenVPNDies(t) \/ DnsmasqDies(t)

Spec == Init /\ [][Next]_vars

\* Every command that is awaited ends; the wait for OpenVPN has its timer.
FairSpec == Spec /\ \A t \in Tunnels : WF_vars(Handler(t))

\* ---- Properties

\* Every variable has its type, and no manager is on a stack twice.
TypeOK ==
    /\ pc \in [Tunnels -> StepLabels \cup {"idle", "listed", "closing", "over", "lost"}]
    /\ failed \in [Tunnels -> Lasting \cup {"none", "clean"}]
    /\ \A t \in Tunnels : ToSet(stack[t]) \subseteq Managers /\ IsInjective(stack[t])
    /\ link \in [Slots -> Tunnels \cup {None}]
    /\ nat \in [Idents -> SUBSET Tunnels]
    /\ accepted \subseteq Tunnels /\ forgotten \subseteq Tunnels
    /\ kill \in [Slots -> SUBSET Tunnels]
    /\ files \in [Names -> Tunnels \cup {None}]
    /\ dnsmasq \in [Tunnels -> {"none", "up", "dead", "stopped"}]
    /\ openvpn \in [Tunnels -> {"none", "starting", "up", "dead"}]
    /\ said \in [Tunnels -> {"nothing", "gateway", "all"}]
    /\ temp \in [Tunnels -> SUBSET {"credentials", "script"}]
    /\ loops \subseteq Tunnels

\* A listed tunnel that asked for a kill switch has one that holds its own
\* rules, whatever became of OpenVPN, and besides only rules of tunnels whose
\* server has ended: the table is named after the interface, which tunnels of
\* one slot have in turn.
KillSwitchCovers ==
    \A t \in Tunnels :
        pc[t] = "listed" /\ Config[t].vpn /\ Config[t].kill =>
            /\ t \in kill[TunnelSlot(t)]
            /\ \A u \in kill[TunnelSlot(t)] : u = t \/ pc[u] = "lost"

\* A listed tunnel loses its masquerading only to the teardown of a tunnel of
\* another name that _nft_ident maps to the same identifier.
NatStands ==
    \A t \in Tunnels :
        pc[t] = "listed" /\ t \notin nat[TunnelIdent(t)] =>
            \E u \in Tunnels : /\ TunnelIdent(u) = TunnelIdent(t)
                               /\ NameOf[u] # NameOf[t]
                               /\ pc[u] \in {"closing", "over"}

\* What works on the interface or through the VPN ends before the interface
\* is given up, unless the server ended: the next tunnel of the slot never
\* meets it.  Of the accept rules this is said of the remembered ones; those
\* in forgotten stay for good, and the next tunnel of the slot does meet them.
NothingOutlivesLink ==
    \A t \in Tunnels :
        /\ pc[t] # "lost"
        /\ \/ t \in accepted \/ t \in loops \/ t \in kill[TunnelSlot(t)]
           \/ openvpn[t] \in {"starting", "up"} \/ dnsmasq[t] = "up"
        => link[TunnelSlot(t)] = t

\* A tunnel that is over has left nothing on the host, but for what the code
\* does not undo: accept rules that Internet.share inserted and could not name
\* by a handle or had not finished inserting when it failed, the table when it
\* failed at the chains, the script when OpenVPN could not be spawned, the
\* files when DNS.setup failed or dnsmasq had died.
Remains(t) ==
    {"link" : x \in {t} \cap {link[TunnelSlot(t)]}}
      \cup {"table" : x \in {t} \cap nat[TunnelIdent(t)]}
      \cup {"rule" : x \in {t} \cap accepted}
      \cup {"forgotten rule" : x \in {t} \cap forgotten}
      \cup {"kill" : x \in {t} \cap kill[TunnelSlot(t)]}
      \cup {"files" : x \in {t} \cap {files[NameOf[t]]}}
      \cup {"dnsmasq" : x \in {t} \cap {u \in Tunnels : dnsmasq[u] = "up"}}
      \cup {"openvpn" : x \in {t} \cap {u \in Tunnels : openvpn[u] \in {"starting", "up"}}}
      \cup {"loop" : x \in {t} \cap loops}
      \cup temp[t]
NotUndone(t) ==
    (CASE failed[t] = "chains" -> {"table"}
       [] failed[t] = "spawn"  -> {"script"}
       [] failed[t] = "dns"    -> {"files"}
       [] OTHER                -> {})
      \cup (IF dnsmasq[t] = "dead" THEN {"files"} ELSE {})
      \cup {"forgotten rule"}
NothingRemains == \A t \in Tunnels : pc[t] = "over" => Remains(t) \subseteq NotUndone(t)

\* Every setup ends listed or undone and every teardown ends, although OpenVPN
\* may never say a word, unless the server ends first.
EverySetupEnds ==
    \A t \in Tunnels :
        pc[t] \in StepLabels \cup {"closing"} ~> pc[t] \in {"listed", "over", "lost"}
=============================================================================
