------------------------- MODULE ProcessSupervision -------------------------
(***************************************************************************)
(* RunProcess (Service.handle_run_process) in one tunnel: the loop that     *)
(* renders the command, runs the configure-with script, spawns the process  *)
(* and either waits for it or kills and respawns it when the tunnel's ports *)
(* are rebound; against the rebind loop, the exits of the processes and     *)
(* DestroyTunnel.  The setup of the tunnel itself is module TunnelService;  *)
(* here a lazily created tunnel appears in one step after a wait.           *)
(***************************************************************************)
EXTENDS Naturals, FiniteSets

CONSTANTS
    Runs,         \* RunProcess calls
    Configured,   \* those that name a configure-with script
    Destroys,     \* DestroyTunnel calls
    Waiting,      \* those sent with wait
    MaxRebinds,   \* bound on how often the ports are rebound
    None

ASSUME ConfiguredAssumption == Configured \subseteq Runs
ASSUME WaitingAssumption == Waiting \subseteq Destroys
ASSUME RebindsAssumption == MaxRebinds \in Nat

\* The process of a run after its n-th restart.
Pids == Runs \X (0..MaxRebinds)

ASSUME NoneAssumption == \A dict \in SUBSET Pids : dict # None

VARIABLES
    \* the service's entries for the tunnel
    up,             \* it is in Service.namespaces
    rebinding,      \* a rebind loop works for it
    ports,          \* how often its forwarded ports have changed
    processes,      \* Service.processes[name], None when there is no entry
    active,         \* Service._active_processes[name]
    waiters,        \* Service._tunnel_rebind_waiters[name], futures by pid
    fired,          \* the rebind futures that have their result
    shutting_down,  \* name in Service._shutting_down
    \* handle_run_process
    pc,
    restarts,       \* restart_count
    seen,           \* the ports in the context the command was rendered with
    open,           \* descriptors this call still holds in the server
    outcome,
    \* the processes
    proc,
    \* handle_destroy_tunnel
    dpc,
    procs           \* the processes a waiting destroy waits for

tunnel   == <<up, rebinding, ports>>
books    == <<processes, active, waiters, fired>>
handlers == <<pc, restarts, seen, open, outcome>>
destroys == <<dpc, procs>>
vars == <<tunnel, books, shutting_down, handlers, proc, destroys>>

Fds == {"client", "namespace"}   \* stdin/out/err, and those of make_preexec_fn

Init ==
    /\ up = TRUE /\ rebinding = TRUE /\ ports = 0
    /\ processes = None /\ active = None /\ waiters = {} /\ fired = {}
    /\ shutting_down = FALSE
    /\ pc = [r \in Runs |-> "idle"]
    /\ restarts = [r \in Runs |-> 0]
    /\ seen = [r \in Runs |-> 0]
    /\ open = [r \in Runs |-> {}]
    /\ outcome = [r \in Runs |-> "none"]
    /\ proc = [p \in Pids |-> "none"]
    /\ dpc = [d \in Destroys |-> "idle"]
    /\ procs = [d \in Destroys |-> {}]

Entries(dict) == IF dict = None THEN {} ELSE dict
Without(dict, p) == IF dict = None THEN None ELSE dict \ {p}
Pid(r) == <<r, restarts[r]>>
Exited(r) == proc[Pid(r)] = "exited"

Goto(r, label) == pc' = [pc EXCEPT ![r] = label]

Answer(r, what) ==
    /\ Goto(r, "done")
    /\ outcome' = [outcome EXCEPT ![r] = what]

CloseLess(r) == open' = [open EXCEPT ![r] = @ \ {"namespace"}]
CloseAll(r) == open' = [open EXCEPT ![r] = {}]

\* ---- RunProcess

\* The tunnel is being destroyed: the client's descriptors are closed.
Reject(r) ==
    /\ pc[r] = "idle"
    /\ shutting_down
    /\ Answer(r, "exited")
    /\ UNCHANGED <<tunnel, books, shutting_down, restarts, seen, open, proc, destroys>>

\* The tunnel does not exist: set it up first.
BeginLazily(r) ==
    /\ pc[r] = "idle"
    /\ ~shutting_down /\ ~up
    /\ waiters' = {}
    /\ open' = [open EXCEPT ![r] = {"client"}]
    /\ Goto(r, "setup")
    /\ UNCHANGED <<tunnel, processes, active, fired, shutting_down, restarts, seen,
                   outcome, proc, destroys>>

\* The top of the loop, up to the first await: read the context, render.
Render(r) ==
    /\ seen' = [seen EXCEPT ![r] = ports]
    /\ Goto(r, IF r \in Configured THEN "configure" ELSE "spawn")

\* From make_preexec_fn on: the namespace descriptors are opened.
EnterLoop(r) ==
    /\ open' = [open EXCEPT ![r] = Fds]
    /\ processes' = Entries(processes)
    /\ Render(r)
    /\ UNCHANGED <<active, fired, shutting_down, restarts, outcome, proc, destroys>>

Begin(r) ==
    /\ pc[r] = "idle"
    /\ ~shutting_down /\ up
    /\ EnterLoop(r)
    /\ UNCHANGED <<tunnel, waiters>>

\* A lazily created tunnel has no port to rebind.
TunnelReady(r) ==
    /\ pc[r] = "setup"
    /\ ~up
    /\ up' = TRUE
    /\ EnterLoop(r)
    /\ UNCHANGED <<rebinding, ports, waiters>>

\* The setup, or make_preexec_fn, raises: nothing closes the descriptors, nor
\* those make_preexec_fn had opened by then.
FailBegin(r) ==
    /\ \/ pc[r] = "setup"
       \/ pc[r] = "idle" /\ ~shutting_down /\ up
    /\ open' \in {[open EXCEPT ![r] = {"client"}], [open EXCEPT ![r] = Fds]}
    /\ Answer(r, "error")
    /\ UNCHANGED <<tunnel, books, shutting_down, restarts, seen, proc, destroys>>

\* The script ended well, or could not be run at all: go on.
ConfigureDone(r) ==
    /\ pc[r] = "configure"
    /\ Goto(r, "spawn")
    /\ UNCHANGED <<tunnel, books, shutting_down, restarts, seen, open, outcome, proc,
                   destroys>>

\* The script declines: no process on the first start, no restart later.
ConfigureFails(r) ==
    /\ pc[r] = "configure"
    /\ CloseAll(r)
    /\ Answer(r, "exited")
    /\ UNCHANGED <<tunnel, books, shutting_down, restarts, seen, proc, destroys>>

\* The command does not exist, or (before the script) its template is wrong.
CommandNotFound(r) ==
    /\ pc[r] \in {"configure", "spawn"}
    /\ CloseAll(r)
    /\ Answer(r, "not found")
    /\ UNCHANGED <<tunnel, books, shutting_down, restarts, seen, proc, destroys>>

\* Any other exception of create_subprocess_exec ends the handler.
FailSpawn(r) ==
    /\ pc[r] = "spawn"
    /\ Answer(r, "error")
    /\ UNCHANGED <<tunnel, books, shutting_down, restarts, seen, open, proc, destroys>>

\* The process runs and is entered in both books; when a destroy has removed
\* the entry of the tunnel meanwhile, that raises KeyError.
Spawn(r) ==
    /\ pc[r] = "spawn"
    /\ proc' = [proc EXCEPT ![Pid(r)] = "running"]
    /\ IF processes = None
         THEN /\ Answer(r, "error")
              /\ UNCHANGED <<processes, active>>
         ELSE /\ processes' = processes \cup {Pid(r)}
              /\ active' = Entries(active) \cup {Pid(r)}
              /\ Goto(r, "announce")
              /\ UNCHANGED outcome
    /\ UNCHANGED <<tunnel, waiters, fired, shutting_down, restarts, seen, open, destroys>>

\* The events are sent: wait for the exit, and for a rebind if there can be one.
Watch(r) ==
    /\ pc[r] = "announce"
    /\ IF waiters = None
         THEN Goto(r, "wait") /\ UNCHANGED waiters
         ELSE Goto(r, "watch") /\ waiters' = waiters \cup {Pid(r)}
    /\ UNCHANGED <<tunnel, processes, active, fired, shutting_down, restarts, seen, open,
                   outcome, proc, destroys>>

PopProcessForgotten(r) == UNCHANGED <<processes, active>>
PopProcess(r) ==
    /\ processes' = Without(processes, Pid(r))
    /\ active' = Without(active, Pid(r))

\* asyncio.wait returns with the future of the rebind among what is done.
RebindSeenAfterExit(r) == Pid(r) \in fired /\ Exited(r)
RebindSeen(r) == Pid(r) \in fired

\* The ports were rebound: kill the process group. getpgid raises when the
\* process has exited too.
KillForRestart(r) ==
    /\ pc[r] = "watch"
    /\ RebindSeen(r)
    /\ PopProcess(r)
    /\ IF Exited(r)
         THEN Answer(r, "error") /\ waiters' = Without(waiters, Pid(r))
         ELSE Goto(r, "stopping") /\ UNCHANGED <<waiters, outcome>>
    /\ UNCHANGED <<tunnel, fired, shutting_down, restarts, seen, open, proc, destroys>>

\* process.wait() after the kill, before the next turn of the loop.
StoppedAtOnce(r) == TRUE
Stopped(r) == Exited(r)

NextRestartTwice(n) == n + 2
NextRestart(n) == n + 1

Respawn(r) ==
    /\ pc[r] = "stopping"
    /\ Stopped(r)
    /\ waiters' = Without(waiters, Pid(r))
    /\ restarts' = [restarts EXCEPT ![r] = NextRestart(@)]
    /\ Render(r)
    /\ UNCHANGED <<tunnel, processes, active, fired, shutting_down, open, outcome, proc,
                   destroys>>

\* The process has exited by itself: clean up and answer ProcessTerminated.
Ended(r) ==
    \/ pc[r] = "wait"
    \/ pc[r] = "watch" /\ Pid(r) \notin fired

Terminate(r) ==
    /\ Ended(r)
    /\ Exited(r)
    /\ PopProcess(r)
    /\ waiters' = Without(waiters, Pid(r))
    /\ CloseAll(r)
    /\ Answer(r, "exited")
    /\ UNCHANGED <<tunnel, fired, shutting_down, restarts, seen, proc, destroys>>

\* ---- The world around it

\* A process ends, by itself or by a signal, of KillProcess among others.
Exit(p) ==
    /\ proc[p] = "running"
    /\ proc' = [proc EXCEPT ![p] = "exited"]
    /\ UNCHANGED <<tunnel, books, shutting_down, handlers, destroys>>

\* _rebind_loop has new ports: it writes the context and wakes the waiters.
Rebind ==
    /\ up /\ rebinding /\ ports < MaxRebinds
    /\ ports' = ports + 1
    /\ fired' = fired \cup Entries(waiters)
    /\ UNCHANGED <<up, rebinding, processes, active, waiters, shutting_down, handlers,
                   proc, destroys>>

\* ---- DestroyTunnel

DestroyStep(d, label) == dpc' = [dpc EXCEPT ![d] = label]

\* The bookkeeping ends; the exit stack is closed next, if there is one.
Unregister(d) ==
    /\ up' = FALSE
    /\ rebinding' = FALSE
    /\ processes' = None
    /\ IF up
         THEN DestroyStep(d, "closing") /\ shutting_down' = TRUE
         ELSE DestroyStep(d, "done") /\ shutting_down' = FALSE

\* Destroys of one tunnel do not overlap here; TunnelService lets them.
BeginDestroy(d) ==
    /\ dpc[d] = "idle"
    /\ \A e \in Destroys : dpc[e] \notin {"waiting", "closing"}
    /\ active' = None
    /\ waiters' = None
    /\ procs' = [procs EXCEPT ![d] = IF d \in Waiting THEN Entries(active) ELSE {}]
    /\ IF d \in Waiting /\ Entries(active) # {}
         THEN /\ DestroyStep(d, "waiting")
              /\ shutting_down' = TRUE
              /\ UNCHANGED <<up, rebinding, processes>>
         ELSE Unregister(d)
    /\ UNCHANGED <<ports, fired, handlers, proc>>

\* asyncio.gather of their exits.
GatheredFirst(d) == \E p \in procs[d] : proc[p] = "exited"
Gathered(d) == \A p \in procs[d] : proc[p] = "exited"

DestroyAfterWait(d) ==
    /\ dpc[d] = "waiting"
    /\ Gathered(d)
    /\ Unregister(d)
    /\ UNCHANGED <<ports, active, waiters, fired, handlers, proc, procs>>

FinishDestroy(d) ==
    /\ dpc[d] = "closing"
    /\ DestroyStep(d, "done")
    /\ shutting_down' = FALSE
    /\ UNCHANGED <<tunnel, books, handlers, proc, procs>>

\* ---- The specification

Handle(r) ==
    \/ TunnelReady(r)
    \/ ConfigureDone(r) \/ ConfigureFails(r)
    \/ Spawn(r) \/ FailSpawn(r) \/ CommandNotFound(r)
    \/ Watch(r)
    \/ KillForRestart(r)
    \/ Respawn(r)
    \/ Terminate(r)

Arrive(r) ==
    \/ Reject(r) \/ Begin(r) \/ BeginLazily(r) \/ FailBegin(r)

Next ==
    \/ \E r \in Runs : Arrive(r) \/ Handle(r)
    \/ \E p \in Pids : Exit(p)
    \/ Rebind
    \/ \E d \in Destroys : BeginDestroy(d) \/ DestroyAfterWait(d) \/ FinishDestroy(d)

\* Handlers that are ready run, and commands that were started end; processes
\* need not exit and nothing has to be rebound.
Fairness ==
    /\ \A r \in Runs : WF_vars(Handle(r) \/ (pc[r] = "setup" /\ FailBegin(r)))
    /\ \A d \in Destroys : WF_vars(DestroyAfterWait(d) \/ FinishDestroy(d))

Spec == Init /\ [][Next]_vars /\ Fairness

\* ---- Properties

\* The books hold processes of this tunnel's runs or do not exist.
TypeOK ==
    /\ up \in BOOLEAN /\ rebinding \in BOOLEAN /\ shutting_down \in BOOLEAN
    /\ ports \in 0..MaxRebinds
    /\ \A dict \in {processes, active, waiters} : dict = None \/ dict \subseteq Pids
    /\ fired \subseteq Pids
    /\ pc \in [Runs -> {"idle", "setup", "configure", "spawn", "announce", "watch",
                        "wait", "stopping", "done"}]
    /\ restarts \in [Runs -> 0..MaxRebinds]
    /\ seen \in [Runs -> 0..MaxRebinds]
    /\ open \in [Runs -> SUBSET Fds]
    /\ outcome \in [Runs -> {"none", "exited", "not found", "error"}]
    /\ proc \in [Pids -> {"none", "running", "exited"}]
    /\ dpc \in [Destroys -> {"idle", "waiting", "closing", "done"}]
    /\ procs \in [Destroys -> SUBSET Pids]

\* One command line never runs twice at a time: the process that a rebind
\* kills is gone before its successor is spawned.
OneProcessPerRun ==
    \A r \in Runs :
        \A m, n \in 0..MaxRebinds :
            proc[<<r, m>>] = "running" /\ proc[<<r, n>>] = "running" => m = n

\* A handler is there for every process that list-tunnels shows: none stays
\* listed after its request was answered, also across destroy and recreation.
NoGhostProcess ==
    \A p \in Entries(processes) \cup Entries(active) :
        p = Pid(p[1]) /\ pc[p[1]] \in {"announce", "watch", "wait"}

\* ProcessTerminated is the truth: only a handler that raised may leave a
\* process running behind its back.
TerminatedIsTrue ==
    \A r \in Runs :
        outcome[r] \in {"exited", "not found"} =>
            \A n \in 0..MaxRebinds : proc[<<r, n>>] # "running"

\* A handler that answers without raising has closed the client's descriptors
\* and those make_preexec_fn opened.
FdsReleased == \A r \in Runs : outcome[r] \in {"exited", "not found"} => open[r] = {}

\* The handler notices every exit of its process, and every rebind that wakes
\* the future it waits on, whether or not the process ever exits: it answers or
\* kills the process for a restart.  (A rebind that finds no future, because
\* the handler is not waiting yet, is not meant: see FreshPorts.)
ExitsAndRebindsNoticed ==
    \A r \in Runs, n \in 0..MaxRebinds :
        /\ pc[r] \in {"watch", "wait", "stopping"} /\ restarts[r] = n /\ Exited(r)
               ~> pc[r] = "done" \/ restarts[r] > n
        /\ pc[r] = "watch" /\ restarts[r] = n /\ Pid(r) \in fired
               ~> pc[r] \in {"stopping", "done"} \/ restarts[r] > n

\* A destroy that waits does not tear the tunnel down under a process whose
\* handler watches it for rebinds.  It may do so under one that was killed for
\* a restart, or spawned since the wait began, and has not exited: neither was
\* in the book that was read.  (After an earlier destroy that did not wait,
\* processes of the tunnel it destroyed may still run.)
WatchedAreWaitedFor ==
    [][\A d \in Waiting :
          /\ dpc[d] # "closing" /\ dpc'[d] = "closing"
          /\ \A e \in Destroys \ {d} : dpc[e] = "idle"
          => \A r \in Runs : pc[r] = "watch" => proc[Pid(r)] # "running"]_vars

\* The command handed to create_subprocess_exec was rendered with the ports
\* the tunnel has then: "resolved from the tunnel context at spawn time".
FreshPorts ==
    [][\A r \in Runs :
          pc[r] = "configure" /\ pc'[r] = "spawn" => seen[r] = ports]_vars
=============================================================================
