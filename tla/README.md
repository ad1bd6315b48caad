# vpn-passthrough in TLA+

Specifications of the daemon of vpn-passthrough, the TLC instances that check
them and proofs about them. Paths are those of the repository; `service.py`,
`namespace.py`, `network_interfaces.py` and so on are in
`app/packages/server/src/radium226/vpn_passthrough/server/`, `transport.py`,
`client.py` and `server.py` (of the ipc package) in
`app/packages/ipc/src/radium226/vpn_passthrough/ipc/`.

## The system

A daemon running as root keeps *tunnels*: a network namespace, held open by a
process, joined to the host by a veth pair, with NAT, DNS, optionally a VPN
connection with forwarded ports and a kill switch. Clients speak to it over a
Unix socket; they pass their stdin, stdout and stderr as file descriptors and
the daemon runs processes inside the tunnel on them. Everything in the daemon
happens in one asyncio event loop: code between two awaits is atomic, and any
other handler may run at an await.

| Component | State it keeps | Operations | Hard part |
|---|---|---|---|
| Service, tunnels (`service.py`) | `namespaces`, `exit_stacks`, `tunnel_contexts`, `_tunnel_stop_signals`, `_tunnel_emit_fns`, `_tunnel_rebind_tasks`, `_shutting_down` | CreateTunnel, StartTunnel, DestroyTunnel, the lazy setup of RunProcess, `_rebind_loop`, list-tunnels | every operation is a chain of awaits that writes dictionaries keyed by *name*; they overlap freely |
| Service, processes (`service.py`) | `processes`, `_active_processes`, `_tunnel_rebind_waiters`, descriptors | RunProcess, KillProcess | the restart loop against rebinds, exits and DestroyTunnel |
| Namespace, NetworkInterfaces | the holder process, `<base>/<name>/pid`, the veth pair of the name's slot | enter, leave | the pid file and the interface belong to a name and a slot, not to a tunnel |
| Internet, KillSwitch, VpeerPortForward, DNS | nftables tables and rules, files, dnsmasq | enter, leave | partial failure; table names shared between tunnels |
| linux.py | descriptors of `make_preexec_fn` | open, close | released on every way out? |
| IPC transport | buffer, waiters | `send_frame`, `receive_frame`, `aclose` | partial sends, one waiter slot, descriptors as ancillary data |
| IPC client and server | pending requests, event routing, a task per request | request, emit, respond, close | correlation, order, closing |
| PIA backend | the OpenVPN process, a bind loop per port | connect, forward_port | timeouts |
| Client library and commands | the stop future or flag, the first pid, whether a tunnel was created | run-process, debug-tunnel, create-tunnel, start-tunnel, destroy-tunnel, signals | a signal before the pid or the tunnel is known; what has to be undone on which way out; everything goes by name |
| Server start and stop | none that survives | listen, aclose, the end of the unit | nothing is cleaned up; the next server finds what is left |

What makes each correct: a listed tunnel is complete and is nobody else's; what
is acquired is released once, by one handler; a destroy ends in nothing left; a
process runs once per RunProcess and its end is reported truly; a frame and its
descriptors arrive as they were sent; an answer reaches the request it belongs
to, after that request's events; a command undoes what it made and nothing else;
what an ended server left is in nobody's way for good. `PROJECT.json` lists the hazards behind these
sentences line by line.

## Modules

`TunnelService` models `_setup_tunnel`, the three tunnel handlers, the tunnel
part of RunProcess and `_rebind_loop`, with the host objects they acquire. A
request is the identity of a handler call and of the tunnel it sets up, so the
dictionaries map a name to a request. One action is one stretch between two
awaits: `BeginSetup` runs to the spawn of `unshare`, `EnterNamespace` to the
first `ip link`, `AddLink`, `AttachLink` (which reads the pid file),
`ConfigureLink`, `StartServices`, `Publish` (the three dictionary writes and the
rest of the create handler), `Serve` (StartTunnel once TunnelStarted is sent).
Where several awaits touch nothing shared they are one action: the addresses and
routes of the link, and the services from Internet to the forwarded ports.
`FailLink` and `FailSetup` are the failures of any of these commands, `Release`
leaves one context manager of a stack, the top first. `BeginDestroy`,
`DestroyAfterRebind`, `DestroyAfterWait` and `Release` are handle_destroy_tunnel
cut at its three awaits. `LosePid` is a setup that finds its folder removed by
the teardown of an earlier tunnel of the name. `SpawnRun`, `RestartRun` and
`EndRun` are what RunProcess does to the two books that a destroy reads:
`processes` (names with an entry) and `active_processes` (runs whose process is in
`_active_processes`, which SpawnRun fills whether or not its tunnel is still
listed). `waits` is the destroys that popped processes and were asked to wait.

`TunnelLife` is what a client may rely on: a tunnel is listed only between
having everything and releasing the first of it, and a name lists one tunnel at
a time. `TunnelService!Life` maps to it: a tunnel is *held* when its stack has
namespace, link and services, *closing* when a destroy closes it.

`HostServices` takes apart what TunnelService enters as "link", "services" and
"port": a setup runs through the steps of `Order` that the tunnel `Wanted` (the
VPN, the ports and the kill switch are optional), pushes a manager at the end of each, and `Leave` pops them
newest first. Tunnels meet on the host: in the veth pair and the kill switch
table of a slot, the table `vpt_<ident>` and the files of a name. `Fail` is the
exception of any step with what the code undoes on that way out (`TempLeft`) and
what it does not (`Lasting`). `accepted` is the accept rules Internet.share
remembers by their handles, `forgotten` those that nothing remembers: inserted
with a handle that is not found in the output of nft, or inserted before the loop
over the chains raises (`internet.py:73-79`, `:108-114`). Nobody removes the latter.
OpenVPN and dnsmasq are processes that write and
die by themselves; `GivesUp` is the timer of the connect. `EnterLink` is all of
NetworkInterfaces.add, whose parts and failures TunnelService has.

`ProcessSupervision` is RunProcess in one tunnel: rendering, the configure-with
script, the spawn, the two books, the rebind future, the kill and the restart,
against `Rebind`, `Exit` (a process ends by itself or by KillProcess) and
DestroyTunnel. It takes from TunnelService only that a tunnel exists or not; a
lazily created tunnel appears in one step after a wait. A process is a pair of
its run and its restart number.

`Transport` is one direction of a Connection: `SendWhatFits` is the loop over
sendmsg up to a full socket, `Wait`, `OnWritable` and `ResumeSend` are
`_wait_writable`, `Receive` and `Deliver` are `receive_frame`. A frame is a
sequence of pieces, the last carries the delimiter. The socket is a queue of
pieces that remember where a sendmsg ended. `Brings`, `Stops` and `Reads` are the
kernel's recvmsg on a stream socket: it joins what is queued, up to the chunk, and
stops behind a segment that brought descriptors.

`Correlation` is the client's `request`, its tables and receive loop, and the
server's task per request, over a channel that keeps frames whole and in order
(which is what Transport shows). The frame of an event carries its ordinal among
the events of its handler (`nth`), which only properties read. It composes with TunnelService through
`EmitSuspends`: whether a handler that emits an event is held up.

`Commands` is the other end: the commands, each a process with one connection,
against a server that promises TunnelLife, which TunnelService keeps in the
serialised use described below (`INSTANCE TunnelLife`, whose `Acquire`,
`List`, `Unlist`, `Release` and `Abandon` are the steps its handlers take). What
a command sends and hears goes through two queues, in the order Correlation
shows; of Service only what a command can tell apart is left: the look at
the books, the guard of a destroy, the process of a run, the StartTunnel that
serves. `role` says what each command is. `LeaveAtOnce`, `UndoesAlways`,
`ForwardKnown` and `StopEachSignal` are not part of the specification: they are
the nearby mistakes that show the properties at work, as are the definitions
of the other modules that are commented so.

`ServerRestart` extends HostServices by the ends of a server. `Forget` takes the
stacks, handlers and tasks away and leaves the host as it is; a tunnel that was
under way is "lost". `KilledAlone`, `Interrupted` and `UnitEnds` say what ends
with the server: nothing, its processes (the holder of the namespace, so the
veth pair goes too), or also the RuntimeDirectory of the unit. The tunnels that
are still "idle" are the next server's.

`...Proofs` modules hold the proofs, each about the module it is named after:
`TunnelServiceProofs`, `TunnelHostProofs` and `TunnelSerialProofs` (each of which
extends the one before) about TunnelService, then `ProcessSupervisionProofs`,
`ServerRestartProofs`, `TransportProofs`, `CorrelationProofs` and `CommandsProofs`.
`MC...` modules hold the instances.

## Environment

Constants state what the code takes from its surroundings, so that a run says
under which of them a property holds.

- `SetupsSerialised`, `DestroysSerialised` (TunnelService): clients never
  overlap two setups, or two destroys, of one name. The command line has one
  start-tunnel per systemd unit and a name per run-process, which is the use
  this describes; nothing in the daemon enforces it. The runs with FALSE show
  what holds without it, `tunnels_overlap` what does not.
- `WaitsListed` (TunnelService): clients ask a destroy to wait for processes
  (`destroy-tunnel --wait`) only of a tunnel that is listed. The daemon waits on
  whatever it popped from `_active_processes`, and a process spawned during an
  earlier destroy makes that entry anew (`service.py:405-406`, `:601-604`). A
  destroy that waits on such an entry has popped the rebind tasks of a name that
  is not listed; if a tunnel is created under it meanwhile, the destroy closes
  that tunnel's stack and leaves its loop running. Without WaitsListed, setups and
  destroys serialised, TLC finds RebindOwnTunnel, NothingLeaks and ListedIsHealthy
  violated with five requests on one name. It is TRUE in `tunnels_serial` and
  `tunnels_live`, FALSE in `tunnels_any` and `tunnels_overlap`.
- `MayForget` (HostServices): a bound of the instances, the tunnels that may come
  to be in `forgotten`. The theorems hold for any set of tunnels.
- `EmitSuspends` (TunnelService): `send_frame` suspends only when the socket is
  full. FALSE makes the stretch from Publish to Serve atomic, as it is for a
  client that reads its events. TRUE lets every other handler in between.
- `Exclusive` (Transport): one send_frame at a time on a connection. The daemon
  does not enforce it; it follows as long as no send is held up. With
  `Exclusive = FALSE` TLC finds FramesIntact and EverySendReturns violated: a
  second sender cuts into a frame, and takes the single waiter slot.
  `Pipelined` lets a frame be sent before the one ahead of it was received.
- `MayRaise` (Correlation): requests whose on_event may raise. on_response never
  raises: in every caller of Client.request it stores the response.
- `Casts` (Commands): which commands there are. The name of a temporary tunnel is
  a fresh uuid, so only a destroy-tunnel, whose user read it in list-tunnels, may
  share it; any commands may share a given name.
- Signals (Commands): SIGINT, SIGTERM or SIGKILL at any moment of a command; what
  each does depends on where the command is (`Handled`).
- A request with a VPN forwards at least one port: without one, a rebind loop
  only sleeps.

## Runs

| Run | Instance | Shows |
|---|---|---|
| `tunnels_any` | 3 requests, 2 names in 1 slot, any overlap, events may suspend | types, ListedIsComplete, SingleCloser, HostIsOwned, GuardLifted |
| `tunnels_serial` | 4 requests, 2 names in 1 slot, one setup and one destroy of a name at a time, waits for listed tunnels | ListedIsHealthy, NothingLeaks, ShutGuard, RebindOwnTunnel |
| `tunnels_live` | 3 requests, 1 name, serialised, fair | refinement of TunnelLife, EveryAnswer, StartReturns |
| `tunnels_overlap` | 2 requests, 1 name, any overlap | violated: ListedIsHealthy |
| `host_services` | 3 tunnels, two of one name, the third of another slot but the same nftables identifier, fair | EverySetupEnds |
| `server_restart` | the same tunnels and a server that ends once | KillSwitchCovers, NatStands, NothingOutlivesLink, NothingRemains, NextTunnelHeals |
| `processes_safe` | 2 runs (one with a script), 2 destroys (one waits), 2 rebinds | OneProcessPerRun, NoGhostProcess, TerminatedIsTrue, FdsReleased, ExitsAndRebindsNoticed, WatchedAreWaitedFor |
| `processes_ports` | 1 run with a script | violated: FreshPorts |
| `transport_turns` | frames of 1, 2, 3 and 5 pieces, socket of 3, reads of 2 | FramesIntact, FdsNotLate, EverySendReturns |
| `transport_fds` | the same | violated: FdsBelong |
| `correlation_answers` | 2 requests sharing an event type, 2 events | AnswerIsOwn, EventsComplete, ResponseIsLast, RoutingIsCurrent, EveryRequestReturns |
| `commands` | six casts of 2 or 3 commands, 2 names, 2 signals, fair | CreatedGoes, DestroysOwn, SignalsTakeEffect |

Why these bounds are enough for the hazards: an overlap in the tunnel handlers
needs a tunnel, its destroyer and a third party (a second setup, a second
destroy, the loop of an earlier tunnel), which are three requests; the
serialised run has a fourth so that a name can be set up, destroyed, set up
again and still be interfered with. Two names in one slot is the smallest
collision. In `host_services` two
tunnels contend for a slot with everything switched on in one of them, and the
third can only meet them in the shared table; one tunnel (`Forgetful`) may have
accept rules that nobody remembers, since rules of different tunnels never meet. Two restarts are needed for a process to be killed, respawned and
killed again. One end of
the server is enough: after a second one the leftovers of the first are as lost
as before, and the run has two tunnels left to meet them. `server_restart` includes every behaviour of
`host_services`, which is why the invariants are checked there only. The casts of `commands` are the ways two
commands can want one name: a temporary tunnel somebody destroys, a run in a
tunnel that starts, is created or is stopped meanwhile, two creates and a
destroy, a start against a create. Two signals are what it takes to repeat one,
or to signal both commands; ports are rebound once, since only the first process and its
successors are told apart. A frame of five pieces with room for three and reads of two is
sent in several parts and received together with its neighbours.

Every request is sent at most once, and no request needs to be sent, no process
needs to exit and no port needs to be rebound: these can stop, which is why
deadlock is not checked. Symmetry under permutations of requests is used in the
runs that check invariants only.

Fairness: weak fairness for a handler's own steps (the event loop runs whatever
is ready, and each awaited command ends), for the receive loop and for a task
per request. Setup is fair as a whole: a command succeeds or fails. In
HostServices the timer of the connect may fire at any time, which is what makes
a setup end. In Commands both ends are fair, task by task; launching and signalling commands,
rebinds and the ends of processes are not. ServerRestart is checked for safety
only: liveness across a restart is too large for TLC. Nothing is assumed of clients, of processes in a tunnel or of the
VPN, so a destroy that waits for processes is exempt from EveryAnswer.

## Findings

Three runs end in a violation that shows the code and a statement of the
repository disagree; `PROJECT.json` quotes both.

1. `tunnels_overlap`: two overlapping setups of a name; the loser's cleanup
   removes the context of the winner.
2. `processes_ports`: a process can start with ports that were rebound while its
   configure-with script ran, and is not restarted for them.
3. `transport_fds`: descriptors are handed over with the frame that was
   completed by the read that brought them, not with their own.

## Proofs

TLAPS proves, for every value of the constants, the safety properties of the
runs above. Each theorem rests on an inductive invariant, which TLC checked on
the instance of the run before it was proved.

### TunnelService, any overlap of requests

- `TypeCorrect`: TypeOK. The invariant is `TypeInv`, which adds that a handler
  that has left "idle" carries a message of the menu.
- `ListedTunnelsAreComplete` and `StacksHaveOneCloser`. Neither is inductive by
  itself. `LifeInv` adds `StageInv` (what a setup has entered by the time it
  reaches an await), `RegistryInv` (a listed tunnel is complete, is listed under
  its own name beside its own stack, and its handler has left the setup) and
  `CloserInv` (a failed setup closes its own stack; a destroy closes a stack
  that nobody lists and no other destroy closes). A destroy moves a tunnel from
  RegistryInv to CloserInv in the one step that pops all dictionaries, which is
  why the pops must not be separated by an await.
- `HostStaysOwned`: HostIsOwned, by `HostInv`, which adds that a rebind loop
  pushes only on stacks of tunnels once listed (`LoopInv`), that a handler holds
  nothing before its namespace (`EmptyInv`), and that a veth pair sits in its
  tunnel's slot (`SlotInv`). Deleting by name is then deleting one's own, since
  a taken name makes `ip link add` fail. Steps that leave the host alone share
  the lemma `HarmlessStep`.
- `GuardIsLifted`: GuardLifted, by a case split over who adds or removes a name.

No proof of these uses SetupsSerialised, DestroysSerialised or EmitSuspends.

### TunnelService, requests that clients serialise

`Serialised` says that clients overlap neither two setups nor two destroys of a
name, that a destroy waits for processes only of a listed tunnel, and that no
event suspends its sender: the constants of `tunnels_serial`. It is a hypothesis
on the four Booleans, any sets of requests, names and slots
stay allowed, and every other overlap does: setups of different names in one
slot, a destroy against the setup, the process or the rebind loop of its
tunnel. Without it the properties are false: `tunnels_overlap` shows it for the
first, four or five requests break the others too, and five do when only
WaitsListed is dropped.

- `ListedTunnelsAreHealthy`, `StacksAreLeft` and `RebindsItsOwn`: ListedIsHealthy,
  NothingLeaks and RebindOwnTunnel, by `SerialInv`, which adds to HostInv who may
  be at work on a name. `OneSetupInv`: one setup, and nobody lists the name
  meanwhile. `OneDestroyInv`: one destroy; before it pops the dictionaries the
  tunnel is still listed and has no rebind loop, afterwards its target had that
  name. `OwnHostInv`: so the pid file of the name is written by its own tunnel
  between EnterNamespace and the read in AttachLink, and `Namespace.pid` is right
  for good. `ServeInv` and `RebindInv` follow a tunnel into its StartTunnel and
  its loop: a StartTunnel that still serves is listed or told to stop by a
  destroy at work, so a loop never looks up the successor of its tunnel.
- `DestroysAreGuarded`: ShutGuard, from DestroysSerialised alone.
- `TunnelLifeKept`: TunnelService implements TunnelLife under the mapping of
  `TunnelService!Life`. `PartInv` says that a setup has entered its services only
  once it can publish; then each step of a handler is shown to be the step of
  the abstract tunnel, or to leave it alone (`LifeSetup`, `LifeServing`,
  `LifeDestroying`, `LifeRelease`, `LifeRebinding`).

### ProcessSupervision

- `ProcessTypesHold`, `OneProcessAtATime`, `ListedProcessesHaveHandlers`,
  `TerminationIsTrue`, `CleanAnswersHoldNoFd` and `WatchedProcessesAreWaitedFor`,
  all from `SupInv`. `RestartInv`: a process is restarted at most once per
  rebind, since the future it waits for is replaced in the step that fires it.
  `RunInv`: only the latest process of a run may be running, once its handler
  spawned it. `BookInv`: until the first destroy, whoever runs is in the book
  that destroy will read; while it waits no handler begins to watch. From the last the action
  property follows: a destroy that waits goes on when all of its book has exited.

### HostServices and ServerRestart

The theorems are about `RestartSpec`, of which every behaviour of HostServices
is one. `HostInv` says what an exit stack contains by the step its setup is at
(`StackInv`, `SetupInv`), and that what a tunnel has on the host is what its
stack says, or what the failed step left behind (`HoldInv`).

- `NothingOutlivesItsLink`, `KillSwitchHolds`: the first is about accept rules that
  are remembered, which the teardown removes by handle; forgotten ones outlive the
  interface and the next tunnel of the slot meets them. The link is entered first and left
  last and a slot has one, so whoever works in a slot holds its link, and two
  tunnels never do.
- `NatIsLostToAliasesOnly`: `NatInv`; two tunnels of one name have one slot, so the
  one that could delete the table of the other has another name.
- `NothingRemainsBehind`: an empty stack and HoldInv. What it allows to stay is
  named in `NotUndone`, forgotten accept rules among it.
- `NextTunnelOfTheNameHeals`: `HealInv` follows a teardown: once it has left a
  manager, what an ended server had under the same name is gone too. It speaks of
  tables, kill switches and files, not of accept rules.
- `HostTypesHold`: TypeOK.

### Transport

- `TransportTyped`: TypeOK, the capacity of the socket included. It needs no more
  than what a sendmsg takes (`SendWhatFits` never exceeds `Room`).
- `FramesArriveIntact`: FramesIntact, under the hypothesis `Exclusive`; without it
  TLC finds a second sender that cuts into a frame. The invariant is `FrameInv`,
  over `Stream`, which is the buffer followed by the socket: a read moves pieces
  from one to the other and leaves the stream as it is. `SentInv` relates where a
  sender is to how much of its frame is sent. `RunInv`: a piece has all earlier
  pieces of its frame right before it, and is in the stream once. `TurnInv` is where
  Exclusive enters: one sender waits at most, and the stream ends within a frame
  only while its sender waits, so that the next piece sent continues it.
  `WholeInv`: what was handed over is whole frames of senders that are done, each
  once, and the stream has nothing left of them.
- `DescriptorsArriveInTime`: FdsNotLate, for any number of senders at a time.
  `CarrierInv`: the descriptors of a frame are in one place only (with its first
  piece in the socket, with the receive_frame under way, or handed over), and the
  pieces of a frame are in the socket in order. `ArrivalInv`: once something of the
  frame was sent they are in one of these places, and not in the first when a
  piece of it is in the buffer.

### Correlation

- `CallersGetTheirOwnAnswer`: AnswerIsOwn. `UpInv`: a request is sent once, so its
  handler begins once; `DownInv` and `FutureInv`: the frames under way and the
  futures say how the handler ended.
- `NothingAfterTheResponse`: ResponseIsLast, by `HandedInv`: whoever got a response
  has left `_pending` in the same step.
- `RoutingListsWhoWaits` and `TablesKeepTheirTypes`: RoutingIsCurrent and TypeOK, by
  `RoutingInv`. A request is registered while no list holds it (its caller was
  idle), so lists have no repetitions and one removal is enough: `Unregister`
  takes out the one entry where the code filters the list.
- `EventsPrecedeTheAnswer`: EventsComplete, by `EventInv`. `SoundInv`: a frame of an
  event names one its handler emitted. `OrderInv`: the events of a request are in
  order in flight, behind the one the receive loop is calling about, which is
  behind those handed on; the answer is behind all of them. `ListenInv`: whoever
  is listed for a type declares it, and whoever awaits is pending as long as the
  loop lives. `ArriveInv` is the heart: every event of a request that can still
  be answered is handed on, in the loop or in flight, and once the request is
  settled it is handed on. `OrderOf` and `ArriveOf` take the loop and the channel
  as parameters, because the step that receives a frame moves it from the one to
  the other and makes the first call at once.

### Commands

- `CommandTypesHold`: TypeOK, whose bounds on the queues are what is hard about it.
  `TurnInv` says of every command: one request is under way at a time, in its queue,
  in its handler or in its answer (`OneAtATime`); its process is told of once when
  it starts and once when it restarts (`ToldOnce`); it asks for one destroy, by
  whoever leaves or by the signal that stops a start-tunnel (`UndoneOnce`); and
  the kills are no more than the signals (`Kept`). So an inbox has a request or a
  destroy besides the kills, and an outbox one message of each of four
  classes.
- `CreatedTunnelsGo`: CreatedGoes, by `PhaseInv`, which says for the commands that
  own a tunnel (temporary runs and debugs, creates) what is under way in the two
  queues of the connection and in the server's handlers, by where the command
  is. The client sends one request at a time until the run, so before it is told
  "created" at most one request, handler or answer exists (`Creating`); a run that
  was answered has no handler left that could make a tunnel (`AtWork`); and a
  destroy answers when the name lists no tunnel of the command (`Undoing`). That
  an answer "not destroyed" is no exception for a temporary tunnel needs the
  uniqueness of its name: the failing destroy meets a create-tunnel's rebind loop.
  A debug-tunnel that got a signal may send its destroy while its RunProcess is
  still at work (`Awaits`), so for it only the tunnel it asked for is followed.
- `NobodyElsesTunnelGoes`: DestroysOwn, by `UndoInv`: a destroy is asked for only
  by who may (`MayUndo`): a command that was told that its tunnel is created, a
  start-tunnel that got a signal, or a destroy-tunnel. `ListInv` (a tunnel is listed under the name of its command)
  is what lets PhaseInv follow a destroy by name.

### Assumptions

Those of the modules: `None` is not a request, a message, a tunnel or a set of processes;
messages are request records; every name has a slot and an nftables identifier;
the event types of a request are event types; frames, the socket and a read have
at least one piece, and what carries descriptors is a frame; bounds are numbers.

### Only model-checked

Every invariant and every action property of the passing runs has a theorem, and so
has the refinement of TunnelLife. What is left to TLC is liveness under fairness
(EverySetupEnds, EveryAnswer, StartReturns, ExitsAndRebindsNoticed, EverySendReturns,
EveryRequestReturns, SignalsTakeEffect), which is outside what the prover does.

## Not claimed

- Accept rules that were inserted with a handle nft did not print as expected, or
  before the insertion loop raised, stay in the host's forward chains for ever and
  outlive their interface (`internet.py:73-79`, `:108-114`).
- Clients that ask a destroy to wait for processes under a name that is not listed:
  see WaitsListed.
- Answers that are errors: a handler that ends with an exception closes no
  descriptor and may leave a process running (a KeyError at `service.py:405`
  after a destroy). FdsReleased and TerminatedIsTrue are about the other answers.
- A rebind loop that died of an exception makes the next DestroyTunnel of its
  tunnel fail (`service.py:597`) before it has removed anything. The model has
  this behaviour; no property forbids it.
- The kill switch and the VPN are left before NAT and the interface
  (`service.py:195-214`, in reverse), and a destroy that does not wait leaves
  processes running. KillSwitchCovers is about listed tunnels, not about the
  time of their teardown.
- Two names with one nftables identifier share a table, and the first teardown
  deletes it (`internet.py:24`, `:121`); NatStands allows exactly that loss.
- OpenVPN may exit after the gateway line and before the rest of what the --up
  script writes: the end of the pipe reads as the empty line (`_openvpn.py:136-143`)
  and the session is entered without a process. HostServices has this behaviour.
- Nobody watches OpenVPN or dnsmasq once they run; a listed tunnel may have lost
  either.
- A StartTunnel held up in the send of TunnelStarted misses its stop signal;
  StartReturns is checked for sends that do not suspend.
- `destroy-tunnel --wait` waits for the processes that are watched at that
  moment (WatchedAreWaitedFor). One that was killed to be restarted, or is
  about to be spawned, is missed (`service.py:602`).
- Events carry no request id: every pending request of a connection that
  declares the type gets them (`client.py:110`). EventsComplete says that nobody
  loses one to another.
- run-process forwards signals to the first process only (`run_process.py:43`).
  After a restart for new ports its successor gets none, although README.md:181 of
  the repository says that signals are forwarded transparently.
- A signal during the setup of a start-tunnel is a destroy of nothing, and the
  following ones are ignored (`start_tunnel.py:72`): such a start-tunnel cannot be
  stopped by signals any more. SignalsTakeEffect is about a first signal whose
  destroy is still to be handled when the tunnel is known to be up.
- A start-tunnel that is refused because the name is in use, and is signalled
  before it hears so, sends a DestroyTunnel all the same (`start_tunnel.py:70-76`)
  and takes the tunnel of another command away. DestroysOwn allows it, and no other
  refused command.
- run-process `--in-tunnel` looks a tunnel up and then runs in it by name: after a
  destroy in between the server makes a tunnel of its own, without a VPN, which
  nobody destroys. CreatedGoes is about temporary tunnels. Of these a debug-tunnel
  that got a signal may leave such a lazy tunnel too: its destroy may come before
  RunProcess has made it.
- Commands takes TunnelLife as given. That TunnelService keeps it is shown for
  serialised clients only; the casts with two creates, or two destroys, of a name
  go beyond that use, and their results rest on TunnelLife as an assumption.
- A command that is killed, or interrupted while its temporary tunnel is created,
  leaves it. A create-tunnel or signalled start-tunnel destroys by name, so it may take
  away a tunnel that somebody else set up after its own was gone.
- After a kill of the server alone the namespaces and veth pairs stay with their
  processes, and the next setup in such a slot fails at `ip link add`. Tables,
  kill switches, accept rules and temporary files of an ended server stay until a
  tunnel of the same identifier, slot or name is torn down, and the accept rules
  and temporary files also after that; NextTunnelHeals says which.

## Plan

1. Done: TunnelService, TunnelLife, HostServices, ProcessSupervision, Transport,
   Correlation; the theorems of `tunnels_any`; ServerRestart and Commands.
2. Done: the proofs about TunnelService, in any and in serialised use with its
   refinement of TunnelLife, ProcessSupervision, ServerRestart, Transport,
   Correlation and Commands.
3. The ports a rebind loop keeps adding to a stack; liveness across a restart of
   the server on a smaller instance.
4. Review of every definition against the source, and of every property for
   depth.

## Not modelled

- The dummy backend (a stub) and the protocol class of backends: no state.
- The DNS leak guard: no module imports it.
- list-regions, list-tunnels, list-backends and show-config change nothing;
  Commands has the first two where another command makes the same request. Option
  parsing, configuration files, messages and logs are left out.
- What the child of a spawn does between fork and exec: system calls in a straight
  line on its own state.
- Addresses, routes, rules and files beyond who owns them and in which order they
  come and go; HTTP requests beyond success and failure.
- Listening, socket activation, sd_notify, the pseudo terminal of debug-tunnel, the
  buffer limit of a frame.

## Running

    tlc -config TunnelService_any.cfg MCTunnelService
    tlapm TunnelServiceProofs.tla

Each run's module and configuration are in `PROJECT.json`; the longest takes
about two minutes with two workers.
