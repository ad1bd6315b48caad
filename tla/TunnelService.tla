--------------------------- MODULE TunnelService ---------------------------
(***************************************************************************)
(* The life of tunnels in server/service.py: CreateTunnel, StartTunnel,     *)
(* DestroyTunnel and the tunnel part of RunProcess, as asyncio handlers     *)
(* that interleave at their awaits, together with the host objects they     *)
(* acquire (the process that holds the namespace, its pid file, the veth    *)
(* pair) and the loops that rebind forwarded ports.                         *)
(*                                                                         *)
(* A request is the identity of one handler call; a tunnel is the identity  *)
(* of the request that set it up.  One action is one stretch of code        *)
(* between two awaits (or several, when nothing shared is touched between). *)
(***************************************************************************)
EXTENDS Naturals, FiniteSets

CONSTANTS
    Requests,            \* handler calls
    Names,               \* tunnel names
    None,                \* an absent dictionary entry, file or object
    Menu,                \* the request messages clients may send
    Slots,               \* values of the md5 slot of a name
    Slot,                \* the slot of each name
    SetupsSerialised,    \* clients never overlap two setups of one name
    DestroysSerialised,  \* clients never overlap two destroys of one name
    WaitsListed,         \* clients wait for processes of listed tunnels only
    EmitSuspends         \* sending an event may wait for the client to read

Kinds == {"create", "start", "destroy", "run"}

RequestRecord ==
    [kind : Kinds, name : Names, vpn : BOOLEAN, rebind : BOOLEAN, wait : BOOLEAN]

ASSUME NoneAssumption == None \notin Requests /\ None \notin Menu
ASSUME MenuAssumption == Menu \subseteq RequestRecord
ASSUME SlotAssumption == Slot \in [Names -> Slots]
ASSUME SerialAssumption ==
    /\ SetupsSerialised \in BOOLEAN
    /\ DestroysSerialised \in BOOLEAN
    /\ WaitsListed \in BOOLEAN
    /\ EmitSuspends \in BOOLEAN

VARIABLES
    \* Service's dictionaries, each entry naming the tunnel it belongs to
    namespaces, exit_stacks, tunnel_contexts,
    tunnel_stop_signals,  \* with _tunnel_emit_fns, set and popped beside it
    tunnel_rebind_tasks,
    shutting_down,        \* Service._shutting_down
    \* handlers
    req,                  \* the message a request carries, None before it arrives
    pc,                   \* the await the handler is at
    target,               \* the tunnel whose task or stack the handler awaits
    outcome,              \* what the client is told
    stopped,              \* start handlers whose stop future is done
    \* the rebind loop of a tunnel
    rebind, rctx, rstack, \* its state, the context and the stack it read
    \* AsyncExitStacks
    stack,                \* the context managers entered for a tunnel
    \* the host
    holder,               \* tunnels whose namespace process runs
    pidfile,              \* <name>/pid: the tunnel whose process it names
    nspid,                \* Namespace._pid, once read from the pid file
    link,                 \* the veth pair of each slot
    folders,              \* names whose folder <name>/ exists
    \* the processes that RunProcess runs in tunnels
    run,                  \* where a RunProcess that was admitted is
    processes,            \* names that have an entry in Service.processes
    active_processes,     \* runs whose process is in Service._active_processes
    waits                 \* destroys that found processes to wait for

registry == <<namespaces, exit_stacks, tunnel_contexts>>
signals  == <<tunnel_stop_signals, stopped>>
loops    == <<rebind, rctx, rstack>>
host     == <<holder, pidfile, nspid, link, folders>>
books    == <<run, processes, active_processes, waits>>
vars == <<registry, signals, tunnel_rebind_tasks, shutting_down, req, pc, target,
          outcome, loops, stack, host, books>>

SettingUp  == {"namespace", "link", "attach", "configure", "services", "publish"}
Failing    == {"failed", "unwind"}
Destroying == {"d_rebind", "d_wait", "d_close"}
Labels == SettingUp \cup Failing \cup Destroying
            \cup {"idle", "started", "serving", "done"}

\* The context managers of _setup_tunnel; "services" stands for Internet,
\* VpeerPortForward, the VPN session, DNS and KillSwitch, "port" for every
\* port that the rebind loop adds later.
Managers == {"namespace", "link", "services", "port"}
Complete == {"namespace", "link", "services"}

Maybe(S) == S \cup {None}
Name(t)  == req[t].name

Init ==
    /\ namespaces = [n \in Names |-> None]
    /\ exit_stacks = [n \in Names |-> None]
    /\ tunnel_contexts = [n \in Names |-> None]
    /\ tunnel_stop_signals = [n \in Names |-> None]
    /\ tunnel_rebind_tasks = [n \in Names |-> None]
    /\ shutting_down = {}
    /\ req = [t \in Requests |-> None]
    /\ pc = [t \in Requests |-> "idle"]
    /\ target = [t \in Requests |-> None]
    /\ outcome = [t \in Requests |-> "none"]
    /\ stopped = {}
    /\ rebind = [t \in Requests |-> "none"]
    /\ rctx = [t \in Requests |-> None]
    /\ rstack = [t \in Requests |-> None]
    /\ stack = [t \in Requests |-> {}]
    /\ holder = {}
    /\ pidfile = [n \in Names |-> None]
    /\ nspid = [t \in Requests |-> None]
    /\ link = [s \in Slots |-> None]
    /\ folders = {}
    /\ run = [t \in Requests |-> "none"]
    /\ processes = {}
    /\ active_processes = {}
    /\ waits = {}

Goto(t, label) == pc' = [pc EXCEPT ![t] = label]

Answer(t, what) ==
    /\ Goto(t, "done")
    /\ outcome' = [outcome EXCEPT ![t] = what]

Push(t, manager) == stack' = [stack EXCEPT ![t] = @ \cup {manager}]

\* ---- Setting a tunnel up

KnownNever(n) == FALSE
Known(n) == namespaces[n] # None

\* The environment: which requests may arrive while others are under way.
InFlight(n, labels) == \E u \in Requests : pc[u] \in labels /\ Name(u) = n
MayArrive(r) ==
    /\ SetupsSerialised /\ r.kind # "destroy"
         => ~InFlight(r.name, SettingUp \cup Failing)
    /\ DestroysSerialised /\ r.kind = "destroy" => ~InFlight(r.name, Destroying)
    /\ WaitsListed /\ r.kind = "destroy" /\ r.wait => Known(r.name)

Arrive(t, r) ==
    /\ pc[t] = "idle"
    /\ MayArrive(r)
    /\ req' = [req EXCEPT ![t] = r]

\* The name is known already: CreateTunnel and StartTunnel raise.
Refuse(t, r) ==
    /\ r.kind \in {"create", "start"}
    /\ Arrive(t, r)
    /\ Known(r.name)
    /\ Answer(t, "error")
    /\ UNCHANGED <<registry, signals, tunnel_rebind_tasks, shutting_down, target,
                   loops, stack, host, books>>

\* RunProcess for a tunnel that is being destroyed.
RejectRun(t, r) ==
    /\ r.kind = "run"
    /\ Arrive(t, r)
    /\ r.name \in shutting_down
    /\ Answer(t, "rejected")
    /\ UNCHANGED <<registry, signals, tunnel_rebind_tasks, shutting_down, target,
                   loops, stack, host, books>>

\* The run goes on in its loop, and makes an entry of the name if there is none.
BeginRun(t, n) ==
    /\ run' = [run EXCEPT ![t] = "spawning"]
    /\ processes' = processes \cup {n}
    /\ UNCHANGED <<active_processes, waits>>

\* RunProcess for an existing tunnel.  Its answer is left to ProcessSupervision:
\* "ok" is that it was admitted.
AdmitRun(t, r) ==
    /\ r.kind = "run"
    /\ Arrive(t, r)
    /\ r.name \notin shutting_down
    /\ Known(r.name)
    /\ Answer(t, "ok")
    /\ BeginRun(t, r.name)
    /\ UNCHANGED <<registry, signals, tunnel_rebind_tasks, shutting_down, target,
                   loops, stack, host>>

\* Up to the await on the namespace process: the folder <name>/ is made.
BeginSetup(t, r) ==
    /\ r.kind \in {"create", "start", "run"}
    /\ Arrive(t, r)
    /\ r.kind = "run" => r.name \notin shutting_down
    /\ ~Known(r.name)
    /\ Goto(t, "namespace")
    /\ folders' = folders \cup {r.name}
    /\ UNCHANGED <<registry, signals, tunnel_rebind_tasks, shutting_down, target,
                   outcome, loops, stack, holder, pidfile, nspid, link, books>>

\* `unshare ... tail` runs; its pid replaces whatever <name>/pid held.
EnterNamespace(t) ==
    /\ pc[t] = "namespace"
    /\ Name(t) \in folders
    /\ holder' = holder \cup {t}
    /\ pidfile' = [pidfile EXCEPT ![Name(t)] = t]
    /\ Push(t, "namespace")
    /\ Goto(t, "link")
    /\ UNCHANGED <<registry, signals, tunnel_rebind_tasks, shutting_down, req, target,
                   outcome, loops, nspid, link, folders, books>>

\* The teardown of a tunnel of that name has removed the folder meanwhile: the
\* pid cannot be written, and nothing terminates the process any more.
LosePid(t) ==
    /\ pc[t] = "namespace"
    /\ Name(t) \notin folders
    /\ holder' = holder \cup {t}
    /\ Goto(t, "failed")
    /\ UNCHANGED <<registry, signals, tunnel_rebind_tasks, shutting_down, req, target,
                   outcome, loops, stack, pidfile, nspid, link, folders, books>>

\* `ip link add`: fails when the slot's interface name is taken.
AddLink(t) ==
    /\ pc[t] = "link"
    /\ link[Slot[Name(t)]] = None
    /\ link' = [link EXCEPT ![Slot[Name(t)]] = t]
    /\ Push(t, "link")
    /\ Goto(t, "attach")
    /\ UNCHANGED <<registry, signals, tunnel_rebind_tasks, shutting_down, req, target,
                   outcome, loops, holder, pidfile, nspid, folders, books>>

\* Namespace.pid is read, and kept, from the file as it is now.
AttachLink(t) ==
    /\ pc[t] = "attach"
    /\ pidfile[Name(t)] # None
    /\ nspid' = [nspid EXCEPT ![t] = pidfile[Name(t)]]
    /\ Goto(t, "configure")
    /\ UNCHANGED <<registry, signals, tunnel_rebind_tasks, shutting_down, req, target,
                   outcome, loops, stack, holder, pidfile, link, folders, books>>

\* Both ends get their addresses and routes.
ConfigureLink(t) ==
    /\ pc[t] = "configure"
    /\ nspid[t] \in holder
    /\ link[Slot[Name(t)]] = t
    /\ Goto(t, "services")
    /\ UNCHANGED <<registry, signals, tunnel_rebind_tasks, shutting_down, req, target,
                   outcome, loops, stack, host, books>>

\* Internet, VpeerPortForward, the VPN session, DNS and KillSwitch, by
\* commands that run inside the namespace nspid[t] names.
StartServices(t) ==
    /\ pc[t] = "services"
    /\ nspid[t] \in holder
    /\ Name(t) \in folders
    /\ req[t].vpn => link[Slot[Name(t)]] = t
    /\ Push(t, "services")
    /\ Goto(t, "publish")
    /\ UNCHANGED <<registry, signals, tunnel_rebind_tasks, shutting_down, req, target,
                   outcome, loops, host, books>>

DeleteLinkSkipped(t) == UNCHANGED link
DeleteLink(t) == link' = [link EXCEPT ![Slot[Name(t)]] = None]

\* A command of NetworkInterfaces.add fails after `ip link add`: its finally
\* clause deletes the interface by name before the exception leaves it.
FailLink(t) ==
    /\ pc[t] \in {"attach", "configure"}
    /\ DeleteLink(t)
    /\ stack' = [stack EXCEPT ![t] = @ \ {"link"}]
    /\ Goto(t, "failed")
    /\ UNCHANGED <<registry, signals, tunnel_rebind_tasks, shutting_down, req, target,
                   outcome, loops, holder, pidfile, nspid, folders, books>>

\* The except clause of _setup_tunnel: any other step may raise. After the
\* last service only an event is sent (RunProcess sends none), which raises
\* nothing but the cancellation of a send that waits when the connection is
\* closed.
FailSetup(t) ==
    /\ pc[t] \in {"namespace", "link", "services", "publish", "failed"}
    /\ pc[t] = "publish" => EmitSuspends /\ req[t].kind # "run"
    /\ tunnel_contexts' = [tunnel_contexts EXCEPT ![Name(t)] = None]
    /\ IF stack[t] = {}
         THEN Answer(t, "error") /\ UNCHANGED target
         ELSE /\ Goto(t, "unwind")
              /\ target' = [target EXCEPT ![t] = t]
              /\ UNCHANGED outcome
    /\ UNCHANGED <<namespaces, exit_stacks, signals, tunnel_rebind_tasks, shutting_down,
                   req, loops, stack, host, books>>

\* The last statements of _setup_tunnel: no await between them.
Register(t) ==
    /\ tunnel_contexts' = [tunnel_contexts EXCEPT ![Name(t)] = t]
    /\ namespaces' = [namespaces EXCEPT ![Name(t)] = t]
    /\ exit_stacks' = [exit_stacks EXCEPT ![Name(t)] = t]

\* The tunnel becomes visible; CreateTunnel and RunProcess have no await left.
Publish(t) ==
    /\ pc[t] = "publish"
    /\ Register(t)
    /\ IF req[t].kind = "start"
         THEN Goto(t, "started") /\ UNCHANGED outcome
         ELSE Answer(t, "ok")
    /\ IF req[t].kind = "create" /\ req[t].rebind
         THEN /\ rebind' = [rebind EXCEPT ![t] = "sleep"]
              /\ tunnel_rebind_tasks' = [tunnel_rebind_tasks EXCEPT ![Name(t)] = t]
         ELSE UNCHANGED <<rebind, tunnel_rebind_tasks>>
    /\ IF req[t].kind = "run" THEN BeginRun(t, Name(t)) ELSE UNCHANGED books
    /\ UNCHANGED <<signals, shutting_down, req, target, rctx, rstack, stack, host>>

\* StartTunnel, after TunnelStarted was sent: wait for the stop signal.
Serve(t) ==
    /\ pc[t] = "started"
    /\ tunnel_stop_signals' = [tunnel_stop_signals EXCEPT ![Name(t)] = t]
    /\ rebind' = [rebind EXCEPT ![t] = IF req[t].rebind THEN "sleep" ELSE @]
    /\ Goto(t, "serving")
    /\ UNCHANGED <<registry, stopped, tunnel_rebind_tasks, shutting_down, req, target,
                   outcome, rctx, rstack, stack, host, books>>

\* The send of TunnelStarted is cancelled: the handler ends, the tunnel stays.
FailServe(t) ==
    /\ pc[t] = "started"
    /\ EmitSuspends
    /\ Answer(t, "error")
    /\ UNCHANGED <<registry, signals, tunnel_rebind_tasks, shutting_down, req, target,
                   loops, stack, host, books>>

\* What task.cancel() followed by `await task` leaves of a rebind loop.
CancelledNever(state) == state
CancelledUnawaited(state) == IF state \in {"sleep", "alloc"} THEN "cancelling" ELSE state
Cancelled(state) == IF state \in {"sleep", "alloc"} THEN "cancelled" ELSE state

\* The stop future is done: cancel the loop; if the loop had already died of
\* an exception that exception ends the handler before the two pops.
StartStops(t) ==
    /\ pc[t] = "serving"
    /\ t \in stopped
    /\ rebind' = [rebind EXCEPT ![t] = Cancelled(@)]
    /\ IF rebind[t] = "failed"
         THEN Answer(t, "error") /\ UNCHANGED tunnel_stop_signals
         ELSE /\ Answer(t, "ok")
              /\ tunnel_stop_signals' = [tunnel_stop_signals EXCEPT ![Name(t)] = None]
    /\ UNCHANGED <<registry, stopped, tunnel_rebind_tasks, shutting_down, req, target,
                   rctx, rstack, stack, host, books>>

\* ---- Destroying a tunnel

\* The finally clause: _shutting_down.discard(name).
GuardKept(n, down) == down
LiftGuard(n, down) == down \ {n}

\* Release the start handler of the name, if its future is not done yet.
SetStopForgotten(n) == UNCHANGED stopped
SetStop(n) == stopped' = stopped \cup ({tunnel_stop_signals[n]} \ {None})

\* exit_stacks.pop(name)
PopStackGet(n) == UNCHANGED exit_stacks
PopStack(n) == exit_stacks' = [exit_stacks EXCEPT ![n] = None]

PopNamespaceForgotten(n) == UNCHANGED namespaces
PopNamespace(n) == namespaces' = [namespaces EXCEPT ![n] = None]

\* From the first pop to the await on aclose(); down is _shutting_down then.
Unregister(d, n, down) ==
    /\ PopNamespace(n)
    /\ tunnel_contexts' = [tunnel_contexts EXCEPT ![n] = None]
    /\ processes' = processes \ {n}
    /\ SetStop(n)
    /\ PopStack(n)
    /\ target' = [target EXCEPT ![d] = exit_stacks[n]]
    /\ IF exit_stacks[n] = None
         THEN Answer(d, "ok") /\ shutting_down' = LiftGuard(n, down)
         ELSE Goto(d, "d_close") /\ UNCHANGED outcome /\ shutting_down' = down
    /\ UNCHANGED tunnel_stop_signals

\* waiting: the destroy was asked to wait, and processes of the name were in
\* the entry it popped, which an earlier tunnel may have left (SpawnRun).
WaitOrUnregister(d, n, waiting, down) ==
    IF waiting
      THEN /\ Goto(d, "d_wait")
           /\ shutting_down' = down
           /\ UNCHANGED <<registry, signals, target, outcome, processes>>
      ELSE Unregister(d, n, down)

GuardForgotten(n) == shutting_down
Guarded(n) == shutting_down \cup {n}

\* Up to the first await. The exception of a dead rebind loop is raised here
\* by `await rebind_task`, and ends the handler.
BeginDestroy(d, r) ==
    LET task == tunnel_rebind_tasks[r.name]
        down == Guarded(r.name)
        popped == {t \in active_processes : Name(t) = r.name}
        waiting == r.wait /\ popped # {}
    IN  /\ r.kind = "destroy"
        /\ Arrive(d, r)
        /\ active_processes' = active_processes \ popped
        /\ waits' = IF waiting THEN waits \cup {d} ELSE waits
        /\ tunnel_rebind_tasks' = [tunnel_rebind_tasks EXCEPT ![r.name] = None]
        /\ \/ /\ task # None
              /\ rebind[task] = "failed"
              /\ Answer(d, "error")
              /\ shutting_down' = LiftGuard(r.name, down)
              /\ UNCHANGED <<registry, signals, target, rebind, processes>>
           \/ /\ task # None
              /\ rebind[task] \in {"sleep", "alloc"}
              /\ rebind' = [rebind EXCEPT ![task] = Cancelled(@)]
              /\ target' = [target EXCEPT ![d] = task]
              /\ shutting_down' = down
              /\ Goto(d, "d_rebind")
              /\ UNCHANGED <<registry, signals, outcome, processes>>
           \/ /\ task # None => rebind[task] \notin {"sleep", "alloc", "failed"}
              /\ WaitOrUnregister(d, r.name, waiting, down)
              /\ UNCHANGED rebind
        /\ UNCHANGED <<rctx, rstack, stack, host, run>>

DestroyAfterRebind(d) ==
    /\ pc[d] = "d_rebind"
    /\ rebind[target[d]] \notin {"sleep", "alloc"}
    /\ WaitOrUnregister(d, Name(d), d \in waits, shutting_down)
    /\ UNCHANGED <<tunnel_rebind_tasks, req, loops, stack, host, run, active_processes, waits>>

\* The processes that it popped have exited.
DestroyAfterWait(d) ==
    /\ pc[d] = "d_wait"
    /\ Unregister(d, Name(d), shutting_down)
    /\ UNCHANGED <<tunnel_rebind_tasks, req, loops, stack, host, run, active_processes, waits>>

\* The top of an exit stack: context managers are left in reverse order.
TopOf(held) == IF "port" \in held THEN "port"
               ELSE IF "services" \in held THEN "services"
               ELSE IF "link" \in held THEN "link" ELSE "namespace"

\* The stop future was set before aclose() was awaited and its waiter needs no
\* I/O: the event loop runs the start handler before any exit callback ends.
StarterWoken(n) == \E t \in Requests : pc[t] = "serving" /\ t \in stopped /\ Name(t) = n

\* Deleting a veth pair is by name; killing the holder of a namespace takes
\* along the interfaces inside it, unless a service still runs there. The
\* folder stays while it holds files of another tunnel of that name, or of a
\* setup that failed in DNS.setup.
LeaveManager(s, manager) ==
    CASE manager = "link" ->
           /\ DeleteLink(s)
           /\ UNCHANGED <<holder, pidfile, nspid, folders>>
      [] manager = "namespace" ->
           /\ holder' = holder \ {s}
           /\ pidfile' = [pidfile EXCEPT ![Name(s)] = None]
           /\ link' = [x \in Slots |->
                         IF \E t \in Requests : /\ link[x] = t
                                                /\ nspid[t] = s
                                                /\ "services" \notin stack[t]
                           THEN None ELSE link[x]]
           /\ \/ UNCHANGED folders
              \/ /\ \A t \in Requests \ {s} :
                       "services" \in stack[t] => Name(t) # Name(s)
                 /\ folders' = folders \ {Name(s)}
           /\ UNCHANGED nspid
      [] OTHER -> UNCHANGED host

\* aclose() leaves one context manager; with the last one the handler ends. An
\* exit callback that raises lets the others run and then fails the handler.
Release(c) ==
    /\ pc[c] \in {"unwind", "d_close"}
    /\ ~StarterWoken(Name(c))
    /\ LET s == target[c]
           m == TopOf(stack[s])
       IN  /\ stack' = [stack EXCEPT ![s] = @ \ {m}]
           /\ LeaveManager(s, m)
           /\ IF stack[s] # {m}
                THEN UNCHANGED <<pc, outcome, shutting_down>>
                ELSE IF pc[c] = "unwind"
                  THEN Answer(c, "error") /\ UNCHANGED shutting_down
                  ELSE /\ \E what \in {"ok", "error"} : Answer(c, what)
                       /\ shutting_down' = LiftGuard(Name(c), shutting_down)
    /\ UNCHANGED <<registry, signals, tunnel_rebind_tasks, req, target, loops, books>>

\* ---- The rebind loop

\* sleep() ends: read the context, and the stack for the first port.
RebindWake(t) ==
    LET c == tunnel_contexts[Name(t)]
        s == exit_stacks[Name(t)]
    IN  /\ rebind[t] = "sleep"
        /\ IF c # None /\ req[c].vpn
             THEN /\ rebind' = [rebind EXCEPT ![t] = IF s = None THEN "failed" ELSE "alloc"]
                  /\ rctx' = [rctx EXCEPT ![t] = c]
                  /\ rstack' = [rstack EXCEPT ![t] = s]
             ELSE /\ rebind' = [rebind EXCEPT ![t] = "ended"]
                  /\ UNCHANGED <<rctx, rstack>>
        /\ UNCHANGED <<registry, signals, tunnel_rebind_tasks, shutting_down, req, pc,
                       target, outcome, stack, host, books>>

\* A port was bound and there is another: look the stack up again.
RebindNextPort(t) ==
    LET s == exit_stacks[Name(t)]
    IN  /\ rebind[t] = "alloc"
        /\ Push(rstack[t], "port")
        /\ rebind' = [rebind EXCEPT ![t] = IF s = None THEN "failed" ELSE @]
        /\ rstack' = [rstack EXCEPT ![t] = s]
        /\ UNCHANGED <<registry, signals, tunnel_rebind_tasks, shutting_down, req, pc,
                       target, outcome, rctx, host, books>>

\* The last port was bound: write the context read before the awaits. A
\* cancelled send of the events that follow ends the loop.
RebindDone(t) ==
    /\ rebind[t] = "alloc"
    /\ Push(rstack[t], "port")
    /\ tunnel_contexts' = [tunnel_contexts EXCEPT ![Name(t)] = rctx[t]]
    /\ \E after \in {"sleep"} \cup (IF EmitSuspends THEN {"cancelled"} ELSE {}) :
          rebind' = [rebind EXCEPT ![t] = after]
    /\ UNCHANGED <<namespaces, exit_stacks, signals, tunnel_rebind_tasks, shutting_down,
                   req, pc, target, outcome, rctx, rstack, host, books>>

\* forward_port() raises: nothing catches it.
RebindRaises(t) ==
    /\ rebind[t] = "alloc"
    /\ rebind' = [rebind EXCEPT ![t] = "failed"]
    /\ UNCHANGED <<registry, signals, tunnel_rebind_tasks, shutting_down, req, pc,
                   target, outcome, rctx, rstack, stack, host, books>>

\* ---- The processes that run in tunnels

\* A process was spawned: it is entered in both books of its name. Without an
\* entry of the name in processes the handler ends with KeyError. While a
\* destroy awaits, the entry of _active_processes that it popped first is made
\* anew, and is there when the tunnel is not any more.
SpawnRun(t) ==
    /\ run[t] = "spawning"
    /\ IF Name(t) \in processes
         THEN /\ run' = [run EXCEPT ![t] = "running"]
              /\ active_processes' = active_processes \cup {t}
         ELSE /\ run' = [run EXCEPT ![t] = "ended"]
              /\ UNCHANGED active_processes
    /\ UNCHANGED <<registry, signals, tunnel_rebind_tasks, shutting_down, req, pc, target,
                   outcome, loops, stack, host, processes, waits>>

\* Its ports were rebound, or the process has exited or was never spawned.
LeaveBooks(t, state) ==
    /\ run' = [run EXCEPT ![t] = state]
    /\ active_processes' = active_processes \ {t}
    /\ UNCHANGED <<registry, signals, tunnel_rebind_tasks, shutting_down, req, pc, target,
                   outcome, loops, stack, host, processes, waits>>

RestartRun(t) == run[t] = "running" /\ LeaveBooks(t, "spawning")
EndRun(t) == run[t] \in {"spawning", "running"} /\ LeaveBooks(t, "ended")

Arrival(t) ==
    \E r \in Menu : \/ Refuse(t, r)
                    \/ RejectRun(t, r)
                    \/ AdmitRun(t, r)
                    \/ BeginSetup(t, r)
                    \/ BeginDestroy(t, r)

Setup(t) ==
    \/ EnterNamespace(t)
    \/ LosePid(t)
    \/ AddLink(t)
    \/ AttachLink(t)
    \/ ConfigureLink(t)
    \/ StartServices(t)
    \/ FailLink(t)
    \/ FailSetup(t)
    \/ Publish(t)

Serving(t) == Serve(t) \/ FailServe(t) \/ StartStops(t)

Rebinding(t) == RebindWake(t) \/ RebindNextPort(t) \/ RebindDone(t) \/ RebindRaises(t)

Running(t) == SpawnRun(t) \/ RestartRun(t) \/ EndRun(t)

Step(t) ==
    \/ Arrival(t)
    \/ Setup(t)
    \/ Serving(t)
    \/ DestroyAfterRebind(t)
    \/ DestroyAfterWait(t)
    \/ Release(t)
    \/ Rebinding(t)
    \/ Running(t)

\* A frame that fits in the socket buffer is sent without suspending, and the
\* stretch from Publish to Serve is then free of other handlers' steps.
Undisturbed(t) == EmitSuspends \/ \A u \in Requests \ {t} : pc[u] # "started"

Next == \E t \in Requests : Undisturbed(t) /\ Step(t)

Spec == Init /\ [][Next]_vars

\* The event loop runs every ready handler, and each command that is awaited
\* ends. Nothing makes a client send, a process exit or a port be rebound.
Fairness ==
    \A t \in Requests : /\ WF_vars(Setup(t))
                        /\ WF_vars(Serving(t))
                        /\ WF_vars(DestroyAfterRebind(t))
                        /\ WF_vars(Release(t))

FairSpec == Spec /\ Fairness

\* ---- Properties

\* Every variable has its type: dictionaries map names to tunnels or nothing,
\* exit stacks hold known context managers.
TypeOK ==
    /\ namespaces \in [Names -> Maybe(Requests)]
    /\ exit_stacks \in [Names -> Maybe(Requests)]
    /\ tunnel_contexts \in [Names -> Maybe(Requests)]
    /\ tunnel_stop_signals \in [Names -> Maybe(Requests)]
    /\ tunnel_rebind_tasks \in [Names -> Maybe(Requests)]
    /\ shutting_down \in SUBSET Names
    /\ req \in [Requests -> Maybe(Menu)]
    /\ pc \in [Requests -> Labels]
    /\ target \in [Requests -> Maybe(Requests)]
    /\ outcome \in [Requests -> {"none", "ok", "error", "rejected"}]
    /\ stopped \in SUBSET Requests
    /\ rebind \in [Requests -> {"none", "sleep", "alloc", "ended", "cancelled", "failed"}]
    /\ rctx \in [Requests -> Maybe(Requests)]
    /\ rstack \in [Requests -> Maybe(Requests)]
    /\ stack \in [Requests -> SUBSET Managers]
    /\ holder \in SUBSET Requests
    /\ pidfile \in [Names -> Maybe(Requests)]
    /\ nspid \in [Requests -> Maybe(Requests)]
    /\ link \in [Slots -> Maybe(Requests)]
    /\ folders \in SUBSET Names
    /\ run \in [Requests -> {"none", "spawning", "running", "ended"}]
    /\ processes \in SUBSET Names
    /\ active_processes \in SUBSET Requests
    /\ waits \in SUBSET Requests

Closing(c, s) == pc[c] \in {"unwind", "d_close"} /\ target[c] = s

\* list-tunnels never shows a tunnel whose teardown began: as long as it is
\* listed all its context managers are entered, its stack is the one destroy
\* will close, and nobody closes it yet (the comment at service.py:606-608).
ListedIsComplete ==
    \A n \in Names :
        namespaces[n] # None =>
            /\ exit_stacks[n] = namespaces[n]
            /\ Complete \subseteq stack[namespaces[n]]
            /\ \A c \in Requests : ~Closing(c, namespaces[n])

\* One exit stack is never closed by two handlers: a failed setup and a
\* destroy, or two destroys of one name, cannot both be unwinding it.
SingleCloser ==
    \A c, d \in Requests, s \in Requests : Closing(c, s) /\ Closing(d, s) => c = d

\* The next two, and RebindOwnTunnel, are promises to clients that overlap
\* neither setups nor destroys of a name and ask a destroy to wait only for a
\* tunnel that is listed. A destroy that waits on an entry left by SpawnRun has
\* popped the tasks before a tunnel gets listed under its name: it would pop
\* that tunnel's stack and leave its loop running.

\* A listed tunnel works: the process behind Namespace.pid is its own and is
\* alive, the veth pair of its slot is its own, and its context is its own
\* although failed setups, destroys and rebind loops all write by name.
ListedIsHealthy ==
    \A n \in Names :
        LET t == namespaces[n]
        IN  t # None => /\ t \in holder
                        /\ nspid[t] = t
                        /\ link[Slot[n]] = t
                        /\ tunnel_contexts[n] = t

\* Whatever is entered on an exit stack has somebody who will leave it: the
\* setup under way, the registry, or a handler closing the stack; ports that a
\* rebind loop pushes while the stack is being closed included.
NothingLeaks ==
    \A t \in Requests :
        stack[t] # {} => \/ pc[t] \in SettingUp \cup {"failed"}
                         \/ exit_stacks[Name(t)] = t
                         \/ \E c \in Requests : Closing(c, t)

\* What exists on the host belongs to a context manager that is still entered,
\* but for the process of a setup that failed before it entered any (LosePid).
FailedAtOnce(t) ==
    pc[t] = "failed" \/ (pc[t] = "done" /\ outcome[t] = "error" /\ target[t] = None)
HostIsOwned ==
    /\ \A t \in Requests : "namespace" \in stack[t] => t \in holder
    /\ \A t \in holder : "namespace" \in stack[t] \/ FailedAtOnce(t)
    /\ \A s \in Slots : link[s] # None => "link" \in stack[link[s]]

\* While a DestroyTunnel is at work RunProcess is rejected: it would otherwise
\* start processes in, or lazily recreate, the tunnel that is going away.
ShutGuard ==
    \A d \in Requests : pc[d] \in Destroying => Name(d) \in shutting_down

\* Nothing keeps the name blocked once no destroy is left.
GuardLifted ==
    \A n \in shutting_down : InFlight(n, Destroying)

\* A loop that rebinds ports works for the tunnel it was started for, though it
\* looks the context and the stack up by name (in the use described above).
RebindOwnTunnel ==
    \A t \in Requests : rebind[t] = "alloc" => rctx[t] = t /\ rstack[t] = t

\* Every setup and every destroy that does not wait for processes is answered.
EveryAnswer ==
    \A t \in Requests :
        /\ pc[t] \in SettingUp \cup Failing ~> pc[t] \in {"done", "serving"}
        /\ pc[t] \in {"d_rebind", "d_close"} /\ ~req[t].wait ~> pc[t] = "done"

\* StartTunnel returns once the tunnel it serves has left the registry.
StartReturns ==
    \A t \in Requests :
        pc[t] = "serving" /\ namespaces[Name(t)] # t ~> pc[t] = "done"

\* The promise of TunnelLife is kept: a tunnel holds everything it needs from
\* before it is listed until after it is not, and no request replaces it.
LifeOf(t) ==
    IF Complete \subseteq stack[t]
      THEN IF \E c \in Requests : pc[c] = "d_close" /\ target[c] = t
             THEN "closing" ELSE "held"
      ELSE IF \/ pc[t] \in SettingUp \cup {"idle", "failed"}
              \/ req[t].kind = "destroy"
             THEN "new" ELSE "gone"

Life == INSTANCE TunnelLife
          WITH Tunnels <- Requests, listed <- namespaces,
               life <- [t \in Requests |-> LifeOf(t)]

KeepsTunnelLife == Life!Spec
=============================================================================
