------------------------------ MODULE Commands ------------------------------
(***************************************************************************)
(* The commands of the command line against what the server promises of     *)
(* tunnels (module TunnelLife).  A command is a process of its own: it       *)
(* holds one connection, sends requests, waits for their answers, and may    *)
(* get signals at any moment.  run-process and debug-tunnel use an existing  *)
(* tunnel or a temporary one; create-tunnel holds its tunnel until a signal; *)
(* start-tunnel stays as long as its tunnel; destroy-tunnel is one request.  *)
(*                                                                           *)
(* The server's handlers are reduced to what a command can tell apart.  The  *)
(* answers of KillProcess, which nobody heeds, are left out, and so are the  *)
(* commands that change nothing and the --wait of destroy-tunnel.            *)
(***************************************************************************)
EXTENDS Naturals, Sequences, FiniteSets

CONSTANTS
    Procs,           \* commands, each launched at most once
    Names,           \* of tunnels
    Casts,           \* what the commands are: their Roles, chosen at the start
    MaxSignals,      \* bound: how many signals the commands get, in all
    None

\* A temporary command makes up its name, a uuid: run-process and
\* debug-tunnel without --in-tunnel.
Kinds == {"run", "debug", "create", "start", "destroy", "absent"}
Roles == [kind : Kinds, name : Names, temporary : BOOLEAN]

ASSUME CommandsAssumption ==
    /\ \A cast \in Casts : \A c \in Procs :
          /\ cast[c] \in Roles
          /\ cast[c].temporary =>
                /\ cast[c].kind \in {"run", "debug"}
                /\ \A d \in Procs \ {c} :
                      cast[d].name = cast[c].name => cast[d].kind = "destroy"
    /\ MaxSignals \in Nat

\* A tunnel is known by the command whose request sets it up: the one asked
\* for, or one RunProcess makes of its own when it finds none of the name.
Tunnels == Procs \X {"asked", "lazy"}
ASSUME NoneAssumption == None \notin Tunnels

Asked(c) == <<c, "asked">>
Lazy(c) == <<c, "lazy">>

VARIABLES
    role,            \* of each command
    pc,              \* where the command is
    signals,         \* how many signals it got
    stopping,        \* create-tunnel's stop future, start-tunnel's flag
    created,         \* it was told that its tunnel is created
    knows,           \* the first pid, or that the tunnel is started
    owed,            \* signals to forward once the first pid is known
    inbox, outbox,   \* its connection, to the server and back
    work,            \* the server's handler of its create, start or run
    tun,             \* the tunnel its RunProcess found or made
    proc, signalled, \* its process, and whether the first one was signalled
    closing, tearing,\* the server's handler of its destroy; what it closes
    shut,            \* Service._shutting_down
    life, listed

command == <<pc, signals, stopping, created, knows, owed>>
processes == <<proc, signalled>>
destroys == <<closing, tearing, shut>>
tunnels == <<life, listed>>
vars == <<role, command, inbox, outbox, work, tun, processes, destroys, tunnels>>

Life == INSTANCE TunnelLife

Kind(c) == role[c].kind
Name(c) == role[c].name
Runs == {c \in Procs : Kind(c) \in {"run", "debug"}}
Temporary == {c \in Procs : role[c].temporary}

Ended == {"over", "failed", "gone"}
Asking == {"choosing", "creating", "starting"}

TypeOK ==
    /\ role \in Casts
    /\ pc \in [Procs -> {"idle", "looking", "running", "holding", "undoing"}
                            \cup Asking \cup Ended]
    /\ signals \in [Procs -> 0..MaxSignals]
    /\ owed \in [Procs -> 0..MaxSignals]
    /\ \A f \in {stopping, created, knows, signalled} : f \in [Procs -> BOOLEAN]
    /\ \A c \in Procs :
          /\ Len(inbox[c]) <= IF Kind(c) = "start" THEN 2 ELSE MaxSignals + 1
          /\ Len(outbox[c]) <= 4
    /\ work \in [Procs -> {"none", "setup", "held", "lazy", "lazy_held",
                           "spawning", "waiting", "serving", "stopped", "done"}]
    /\ tun \in [Procs -> Tunnels \cup {None}]
    /\ proc \in [Procs -> {"none", "first", "between", "later", "ended"}]
    /\ closing \in [Procs -> {"none", "begun", "tearing", "done"}]
    /\ tearing \in [Procs -> Tunnels \cup {None}]
    /\ shut \subseteq Names
    /\ life \in [Tunnels -> Life!Stages]
    /\ listed \in [Names -> Tunnels \cup {None}]

Init ==
    /\ role \in Casts
    /\ pc = [c \in Procs |-> "idle"]
    /\ signals = [c \in Procs |-> 0]
    /\ owed = [c \in Procs |-> 0]
    /\ stopping = [c \in Procs |-> FALSE]
    /\ created = [c \in Procs |-> FALSE]
    /\ knows = [c \in Procs |-> FALSE]
    /\ signalled = [c \in Procs |-> FALSE]
    /\ inbox = [c \in Procs |-> <<>>]
    /\ outbox = [c \in Procs |-> <<>>]
    /\ work = [c \in Procs |-> "none"]
    /\ tun = [c \in Procs |-> None]
    /\ proc = [c \in Procs |-> "none"]
    /\ closing = [c \in Procs |-> "none"]
    /\ tearing = [c \in Procs |-> None]
    /\ shut = {}
    /\ Life!Init

\* ---- The command

Goto(c, place) == pc' = [pc EXCEPT ![c] = place]
Send(c, request) == inbox' = [inbox EXCEPT ![c] = Append(@, request)]

AskFor(c) == IF Kind(c) = "start" THEN "start" ELSE "create"
Asks(c) == IF Kind(c) = "start" THEN "starting" ELSE "creating"

\* The command is launched and connects.  Without a region it first asks for
\* the regions.
Launch(c) ==
    /\ pc[c] = "idle"
    /\ \/ /\ Kind(c) = "destroy"
          /\ Send(c, "destroy") /\ Goto(c, "undoing")
       \/ /\ c \in Runs \ Temporary
          /\ Send(c, "list") /\ Goto(c, "looking")
       \/ /\ c \in Temporary \/ Kind(c) \in {"create", "start"}
          /\ \/ Send(c, "regions") /\ Goto(c, "choosing")
             \/ Send(c, AskFor(c)) /\ Goto(c, Asks(c))
    /\ UNCHANGED <<signals, stopping, created, knows, owed, outbox, work, tun,
                   processes, destroys, tunnels>>

\* What a command does on its way out: the finally clauses.  A create that
\* failed has nothing to undo.
UndoesAlways(c) == created[c] \/ Kind(c) = "create"
Undoes(c) == created[c]
LeaveAtOnce(c, place) ==
    IF Undoes(c) /\ place = "over"
    THEN Send(c, "destroy") /\ Goto(c, "undoing")
    ELSE Goto(c, place) /\ UNCHANGED inbox
Leave(c, place) ==
    IF Undoes(c)
    THEN Send(c, "destroy") /\ Goto(c, "undoing")
    ELSE Goto(c, place) /\ UNCHANGED inbox

Kills(c, n) == [i \in 1..n |-> "kill"]

\* An answer or an event is received.
Hear(c, message) ==
    /\ pc[c] \notin {"idle"} \cup Ended
    /\ outbox[c] # <<>> /\ Head(outbox[c]) = message
    /\ outbox' = [outbox EXCEPT ![c] = Tail(@)]
    /\ UNCHANGED <<signals, stopping, work, tun, processes, destroys, tunnels>>

HearRegions(c) ==
    /\ Hear(c, "regions")
    /\ Send(c, AskFor(c)) /\ Goto(c, Asks(c))
    /\ UNCHANGED <<created, knows, owed>>

HearCreated(c) ==
    /\ Hear(c, "created")
    /\ created' = [created EXCEPT ![c] = TRUE]
    /\ IF c \in Runs THEN Send(c, "run") /\ Goto(c, "running")
                     ELSE Goto(c, "holding") /\ UNCHANGED inbox
    /\ UNCHANGED <<knows, owed>>

HearFound(c) ==
    /\ Hear(c, "found")
    /\ Send(c, "run") /\ Goto(c, "running")
    /\ UNCHANGED <<created, knows, owed>>

\* handle_pid takes the first pid only; the tasks that wait for it go on.
HearStarted(c) ==
    /\ pc[c] # "undoing"
    /\ Hear(c, "started")
    /\ knows' = [knows EXCEPT ![c] = TRUE]
    /\ owed' = [owed EXCEPT ![c] = 0]
    /\ inbox' = [inbox EXCEPT ![c] = @ \o Kills(c, owed[c])]
    /\ UNCHANGED <<pc, created>>

\* What needs no reaction: a later pid, and the answer of the run or of the
\* destroy when the command does not wait for it (any more).
HearIdly(c) ==
    /\ \/ Hear(c, "restarted")
       \/ pc[c] = "undoing" /\ (Hear(c, "terminated") \/ Hear(c, "started") \/ Hear(c, "error"))
       \/ pc[c] # "undoing" /\ (Hear(c, "destroyed") \/ Hear(c, "not destroyed"))
    /\ UNCHANGED <<pc, created, knows, owed, inbox>>

\* The run is answered, the tunnel is stopped, or a request fails.
HearEnd(c) ==
    /\ pc[c] # "undoing"
    /\ \/ (Hear(c, "terminated") \/ Hear(c, "stopped")) /\ Leave(c, "over")
       \/ Hear(c, "error") /\ Leave(c, "failed")
    /\ UNCHANGED <<created, knows, owed>>

HearDestroyed(c) ==
    /\ pc[c] = "undoing"
    /\ \/ Hear(c, "destroyed") /\ Goto(c, "over")
       \/ Hear(c, "not destroyed") /\ Goto(c, "failed")
    /\ UNCHANGED <<created, knows, owed, inbox>>

\* create-tunnel's `await stop' returns.
Released(c) ==
    /\ pc[c] = "holding" /\ stopping[c]
    /\ Leave(c, "over")
    /\ UNCHANGED <<signals, stopping, created, knows, owed, outbox, work, tun,
                   processes, destroys, tunnels>>

Client(c) ==
    \/ HearRegions(c) \/ HearCreated(c) \/ HearFound(c) \/ HearStarted(c)
    \/ HearIdly(c) \/ HearEnd(c) \/ HearDestroyed(c) \/ Released(c)

\* ---- Signals

Handled(c) ==
    \/ Kind(c) = "run" /\ pc[c] = "running"
    \/ Kind(c) \in {"create", "start"} /\ pc[c] \in Asking \cup {"holding"}

\* The signals so far, counted over all commands: what MaxSignals bounds.
AllSignals == {s \in Procs \X (1..MaxSignals) : s[2] <= signals[s[1]]}

Signalled(c) ==
    /\ pc[c] \notin {"idle"} \cup Ended
    /\ Cardinality(AllSignals) < MaxSignals
    /\ signals' = [signals EXCEPT ![c] = @ + 1]
    /\ UNCHANGED <<created, knows, work, tun, processes, destroys, tunnels>>

\* A bug it could have: a signal that comes before the pid is dropped.
ForwardKnown(c) ==
    /\ Handled(c) /\ Kind(c) = "run" /\ Signalled(c)
    /\ IF knows[c] THEN Send(c, "kill") ELSE UNCHANGED inbox
    /\ UNCHANGED <<pc, owed, stopping, outbox>>

\* run-process: a task waits for the first pid and sends KillProcess.
ForwardSignal(c) ==
    /\ Handled(c) /\ Kind(c) = "run" /\ Signalled(c)
    /\ IF knows[c] THEN Send(c, "kill") /\ UNCHANGED owed
                   ELSE owed' = [owed EXCEPT ![c] = @ + 1] /\ UNCHANGED inbox
    /\ UNCHANGED <<pc, stopping, outbox>>

\* A bug it could have: no flag.
StopEachSignal(c) ==
    /\ Handled(c) /\ Kind(c) # "run" /\ Signalled(c)
    /\ stopping' = [stopping EXCEPT ![c] = TRUE]
    /\ IF Kind(c) = "start" THEN Send(c, "destroy") ELSE UNCHANGED inbox
    /\ UNCHANGED <<pc, owed, outbox>>

\* create-tunnel resolves a future; start-tunnel sends one DestroyTunnel.
StopSignal(c) ==
    /\ Handled(c) /\ Kind(c) # "run" /\ Signalled(c)
    /\ stopping' = [stopping EXCEPT ![c] = TRUE]
    /\ IF Kind(c) = "start" /\ ~stopping[c] THEN Send(c, "destroy") ELSE UNCHANGED inbox
    /\ UNCHANGED <<pc, owed, outbox>>

\* No handler: SIGINT cancels the command, which leaves its `with' blocks.
\* Only a debug-tunnel at work has something to undo there.
Interrupt(c) ==
    /\ Kind(c) = "debug" /\ pc[c] = "running" /\ Signalled(c)
    /\ Leave(c, "failed")
    /\ UNCHANGED <<stopping, owed, outbox>>

\* SIGKILL, SIGTERM without a handler, SIGINT where there is nothing to undo
\* or for the second time.  What was sent is still handled.
Terminate(c) ==
    /\ Signalled(c)
    /\ Goto(c, "gone")
    /\ outbox' = [outbox EXCEPT ![c] = <<>>]
    /\ UNCHANGED <<stopping, owed, inbox>>

Environment(c) ==
    Launch(c) \/ ForwardSignal(c) \/ StopSignal(c) \/ Interrupt(c) \/ Terminate(c)

\* ---- The server

Found(c) == listed[Name(c)]

\* Who has gone gets no answer.
Reply(c, message) ==
    outbox' = [outbox EXCEPT ![c] = IF pc[c] \in Ended THEN @ ELSE Append(@, message)]
Work(c, stage) == work' = [work EXCEPT ![c] = stage]

Take(c, request) ==
    /\ inbox[c] # <<>> /\ Head(inbox[c]) = request
    /\ inbox' = [inbox EXCEPT ![c] = Tail(@)]
    /\ UNCHANGED <<command, life, listed>>

ListRegions(c) ==
    /\ Take(c, "regions")
    /\ Reply(c, "regions") \/ Reply(c, "error")
    /\ UNCHANGED <<work, tun, processes, destroys>>

\* lookup_tunnel: the client looks for the name in what list-tunnels answers.
ListTunnels(c) ==
    /\ Take(c, "list")
    /\ Reply(c, IF Found(c) # None THEN "found" ELSE "error")
    /\ UNCHANGED <<work, tun, processes, destroys>>

\* CreateTunnel and StartTunnel: a name that is listed is refused.
SetUpTunnel(c) ==
    /\ Take(c, "create") \/ Take(c, "start")
    /\ IF Found(c) # None
       THEN Reply(c, "error") /\ UNCHANGED work
       ELSE Work(c, "setup") /\ UNCHANGED outbox
    /\ UNCHANGED <<tun, processes, destroys>>

RunProcess(c) ==
    /\ Take(c, "run")
    /\ \/ /\ Name(c) \in shut
          /\ Reply(c, "terminated")
          /\ UNCHANGED <<work, tun>>
       \/ /\ Name(c) \notin shut /\ Found(c) = None
          /\ Work(c, "lazy")
          /\ UNCHANGED <<outbox, tun>>
       \/ /\ Name(c) \notin shut /\ Found(c) # None
          /\ Work(c, "spawning")
          /\ tun' = [tun EXCEPT ![c] = Found(c)]
          /\ UNCHANGED outbox
    /\ UNCHANGED <<processes, destroys>>

\* For a pid that is gone os.getpgid raises; no command heeds the answer.
KillProcess(c) ==
    /\ Take(c, "kill")
    /\ signalled' = [signalled EXCEPT ![c] = @ \/ proc[c] = "first"]
    /\ UNCHANGED <<outbox, work, tun, proc, destroys>>

DestroyTunnel(c) ==
    /\ Take(c, "destroy")
    /\ closing' = [closing EXCEPT ![c] = "begun"]
    /\ shut' = shut \cup {Name(c)}
    /\ UNCHANGED <<outbox, work, tun, processes, tearing>>

Handle(c) ==
    \/ ListRegions(c) \/ ListTunnels(c) \/ SetUpTunnel(c) \/ RunProcess(c)
    \/ KillProcess(c) \/ DestroyTunnel(c)

\* A setup, in the terms of TunnelLife: it acquires, then lists, or fails.
Making(c) == IF work[c] \in {"setup", "held"} THEN Asked(c) ELSE Lazy(c)

Acquires(c) ==
    /\ work[c] \in {"setup", "lazy"}
    /\ Life!Acquire(Making(c))
    /\ Work(c, IF work[c] = "setup" THEN "held" ELSE "lazy_held")
    /\ UNCHANGED <<command, inbox, outbox, tun, processes, destroys>>

Lists(c) ==
    /\ work[c] \in {"held", "lazy_held"}
    /\ Life!List(Making(c), Name(c))
    /\ \/ /\ work[c] = "lazy_held"
          /\ Work(c, "spawning")
          /\ tun' = [tun EXCEPT ![c] = Lazy(c)]
          /\ UNCHANGED outbox
       \/ /\ work[c] = "held" /\ Kind(c) = "start"
          /\ Work(c, "serving") /\ Reply(c, "started") /\ UNCHANGED tun
       \/ /\ work[c] = "held" /\ Kind(c) # "start"
          /\ Work(c, "done") /\ Reply(c, "created") /\ UNCHANGED tun
    /\ UNCHANGED <<command, inbox, processes, destroys>>

Fails(c) ==
    /\ \/ work[c] \in {"setup", "lazy"} /\ Life!Abandon(Making(c))
       \/ work[c] \in {"held", "lazy_held"} /\ Life!Release(Making(c))
    /\ Work(c, "done") /\ Reply(c, "error")
    /\ UNCHANGED <<command, inbox, tun, processes, destroys>>

\* The command is not found, or its configure-with script aborts it.
NotSpawned(c) ==
    /\ work[c] = "spawning"
    /\ proc' = [proc EXCEPT ![c] = "ended"]
    /\ Work(c, "done") /\ Reply(c, "terminated")
    /\ UNCHANGED <<command, inbox, tun, signalled, destroys, tunnels>>

\* The process is entered in the book of its tunnel, which a destroy may have
\* removed: then the request fails while the process runs on.
Spawns(c) ==
    /\ work[c] = "spawning"
    /\ proc' = [proc EXCEPT ![c] = IF @ = "none" THEN "first" ELSE "later"]
    /\ \/ /\ Work(c, "waiting")
          /\ Reply(c, IF proc[c] = "none" THEN "started" ELSE "restarted")
       \/ /\ Found(c) # tun[c]
          /\ Work(c, "done") /\ Reply(c, "error")
    /\ UNCHANGED <<command, inbox, tun, signalled, destroys, tunnels>>

\* The ports are rebound: the process is replaced.  Bound: once.
Rebind(c) ==
    /\ work[c] = "waiting" /\ proc[c] = "first" /\ Found(c) = tun[c]
    /\ proc' = [proc EXCEPT ![c] = "between"]
    /\ Work(c, "spawning")
    /\ UNCHANGED <<command, inbox, outbox, tun, signalled, destroys, tunnels>>

ProcessEnds(c) ==
    /\ proc[c] \in {"first", "later"}
    /\ proc' = [proc EXCEPT ![c] = "ended"]
    /\ UNCHANGED <<command, inbox, outbox, work, tun, signalled, destroys, tunnels>>

RunAnswers(c) ==
    /\ work[c] = "waiting" /\ proc[c] = "ended"
    /\ Work(c, "done") /\ Reply(c, "terminated")
    /\ UNCHANGED <<command, inbox, tun, processes, destroys, tunnels>>

\* StartTunnel's stop signal is set; a rebind loop that died makes it fail.
StartAnswers(c) ==
    /\ work[c] = "stopped"
    /\ Work(c, "done")
    /\ Reply(c, "stopped") \/ Reply(c, "error")
    /\ UNCHANGED <<command, inbox, tun, processes, destroys, tunnels>>

Finish(c, answer) ==
    /\ closing' = [closing EXCEPT ![c] = "done"]
    /\ tearing' = [tearing EXCEPT ![c] = None]
    /\ shut' = shut \ {Name(c)}
    /\ Reply(c, answer)
    /\ UNCHANGED <<command, inbox, tun, processes>>

\* A rebind loop that died of an exception raises it here, and only
\* CreateTunnel leaves one where a destroy finds it.
DestroyFails(c) ==
    /\ closing[c] = "begun"
    /\ Found(c) # None /\ Kind(Found(c)[1]) = "create" /\ Found(c)[2] = "asked"
    /\ Finish(c, "not destroyed")
    /\ UNCHANGED <<work, tunnels>>

DestroyNothing(c) ==
    /\ closing[c] = "begun" /\ Found(c) = None
    /\ Finish(c, "destroyed")
    /\ UNCHANGED <<work, tunnels>>

\* The tunnel leaves the books, and the StartTunnel that serves it wakes.
Unlists(c) ==
    /\ closing[c] = "begun" /\ Found(c) # None
    /\ Life!Unlist(Name(c))
    /\ closing' = [closing EXCEPT ![c] = "tearing"]
    /\ tearing' = [tearing EXCEPT ![c] = Found(c)]
    /\ work' = [d \in Procs |-> IF work[d] = "serving" /\ Name(d) = Name(c)
                                THEN "stopped" ELSE work[d]]
    /\ UNCHANGED <<command, inbox, outbox, tun, processes, shut>>

TornDown(c) ==
    /\ closing[c] = "tearing"
    /\ Life!Release(tearing[c])
    /\ Finish(c, "destroyed") \/ Finish(c, "not destroyed")
    /\ UNCHANGED work

Setup(c) == Acquires(c) \/ Lists(c) \/ Fails(c)
Running(c) == NotSpawned(c) \/ Spawns(c) \/ RunAnswers(c)
Handler(c) == Setup(c) \/ Running(c) \/ StartAnswers(c)
Destroying(c) == DestroyFails(c) \/ DestroyNothing(c) \/ Unlists(c) \/ TornDown(c)

Server(c) == Handle(c) \/ Handler(c) \/ Destroying(c)

Next ==
    /\ \E c \in Procs :
          Environment(c) \/ Client(c) \/ Server(c) \/ Rebind(c) \/ ProcessEnds(c)
    /\ UNCHANGED role

\* Both ends are asyncio programs: a task that can go on does so.  Commands
\* are launched and signalled, ports rebound and processes ended by others.
Spec ==
    /\ Init /\ [][Next]_vars
    /\ \A c \in Procs :
          /\ WF_vars(Client(c) /\ UNCHANGED role)
          /\ WF_vars(Handle(c) /\ UNCHANGED role)
          /\ WF_vars(Handler(c) /\ UNCHANGED role)
          /\ WF_vars(Destroying(c) /\ UNCHANGED role)

\* ---- Properties

OwnListed(c, kind) == \E n \in Names : listed[n] = <<c, kind>>

\* Once a run-process or debug-tunnel without --in-tunnel has ended other than
\* by Terminate (killed, or interrupted where it has no `finally' to run), the
\* tunnel it asked for is gone from the server's books, whatever failed and
\* whoever else destroyed the name; and so is the tunnel
\* that RunProcess makes when somebody else destroyed the first one, but for a
\* debug-tunnel that was interrupted: its destroy may come before RunProcess
\* has made that tunnel, which then stays.  Once a create-tunnel has ended with
\* its destroy answered, its tunnel is gone.  (With --in-tunnel the tunnel that
\* RunProcess makes stays; nothing is said of it here.)
CreatedGoes ==
    \A c \in Procs :
        /\ c \in Temporary /\ pc[c] \in {"over", "failed"} =>
              /\ ~OwnListed(c, "asked")
              /\ Kind(c) = "run" \/ signals[c] = 0 => ~OwnListed(c, "lazy")
        /\ Kind(c) = "create" /\ pc[c] = "over" => ~OwnListed(c, "asked")

\* A tunnel is unlisted for a destroy-tunnel, for a command that was told that
\* a tunnel of the name is created for it, or for a start-tunnel that got a
\* signal.  So a create-tunnel or a temporary command that was refused, because
\* the name is in use, takes nobody's tunnel away.  A refused start-tunnel does
\* when it is signalled before it hears of the refusal.
DestroysOwn ==
    [][\A n \in Names : listed[n] # None /\ listed'[n] = None =>
          \E c \in Procs :
              /\ Name(c) = n /\ closing[c] = "begun" /\ closing'[c] = "tearing"
              /\ created[c] \/ Kind(c) = "destroy" \/ (Kind(c) = "start" /\ stopping[c])]_vars

Sent(c, request) == \E i \in DOMAIN inbox[c] : inbox[c][i] = request

\* What a signal is certain to do.  run-process: one that comes while it runs
\* reaches the first process, or that one is gone; a process that replaces it
\* after a rebind gets none.  start-tunnel: the DestroyTunnel of its first
\* signal, if it is still to be handled when the command knows that its tunnel
\* is up, ends both; it is when the first signal comes from then on.  A first
\* signal during the setup may be spent on nothing, and all later ones are
\* ignored: of these nothing is said.  create-tunnel: it ends.
SignalsTakeEffect ==
    \A c \in Procs :
        /\ (Kind(c) = "run" /\ pc[c] = "running" /\ signals[c] > 0) ~>
              (pc[c] # "running" \/ signalled[c] \/ proc[c] \notin {"none", "first"})
        /\ (Kind(c) = "start" /\ pc[c] = "starting" /\ knows[c] /\ Sent(c, "destroy")) ~>
              (pc[c] # "starting" /\ ~OwnListed(c, "asked"))
        /\ (Kind(c) = "create" /\ pc[c] # "idle" /\ stopping[c]) ~> (pc[c] \in Ended)
=============================================================================
