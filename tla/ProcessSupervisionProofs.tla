----------------------- MODULE ProcessSupervisionProofs -----------------------
(* Proofs about ProcessSupervision, for any number of runs, of destroys and of *)
(* rebinds.                                                                    *)
EXTENDS ProcessSupervision, TLAPS

Listed == {"announce", "watch", "wait"}
Quiet  == {"idle", "setup", "configure", "spawn"}

\* A process is restarted at most once for each time the ports are rebound.
RestartInv ==
    /\ \A r \in Runs : restarts[r] <= ports
    /\ \A p \in fired : p[2] < ports
    /\ \A p \in Entries(waiters) : p[2] <= ports
    /\ \A r \in Runs : pc[r] = "stopping" => restarts[r] < ports

\* Only the latest process of a run can be running, once its handler spawned
\* it; a handler that has not begun holds no descriptor, and is not answered
\* before it ends.
RunInv ==
    /\ \A r \in Runs, n \in 0..MaxRebinds :
          proc[<<r, n>>] = "running" => n = restarts[r] /\ pc[r] \notin Quiet
    /\ \A r \in Runs :
          /\ pc[r] = "idle" => open[r] = {}
          /\ outcome[r] # "none" => pc[r] = "done"
          /\ outcome[r] \in {"exited", "not found"} => proc[Pid(r)] # "running"

\* Before the first destroy every listed process is in the book of the active
\* ones. While that destroy waits no handler begins to watch for rebinds, so
\* that whoever still does was in the book the destroy read.
BookInv ==
    /\ (\A e \in Destroys : dpc[e] = "idle") =>
          \A r \in Runs : pc[r] \in Listed => Pid(r) \in Entries(active)
    /\ \A d \in Destroys :
          dpc[d] = "waiting" /\ (\A e \in Destroys \ {d} : dpc[e] = "idle") =>
             /\ shutting_down /\ waiters = None
             /\ d \in Waiting => \A r \in Runs : pc[r] = "watch" => Pid(r) \in procs[d]

SupInv ==
    TypeOK /\ RestartInv /\ RunInv /\ BookInv /\ NoGhostProcess /\ FdsReleased

LEMMA SupInvInit == Init => SupInv
<1> SUFFICES ASSUME Init PROVE SupInv
  OBVIOUS
<1>1. TypeOK
  <2>1. waiters = {} /\ fired = {} /\ waiters \subseteq Pids
    BY DEF Init
  <2>2. 0 \in 0..MaxRebinds
    BY RebindsAssumption
  <2> QED
    BY <2>1, <2>2 DEF Init, TypeOK
<1>2. RestartInv
  BY DEF Init, RestartInv, Entries
<1>3. RunInv
  BY DEF Init, RunInv, Pids, Pid
<1>4. BookInv
  BY DEF Init, BookInv, Listed
<1>5. NoGhostProcess /\ FdsReleased
  BY DEF Init, NoGhostProcess, Entries, FdsReleased
<1> QED
  BY <1>1, <1>2, <1>3, <1>4, <1>5 DEF SupInv

\* The pid of a run's latest process, and the books as sets.
LEMMA PidFacts ==
    ASSUME SupInv
    PROVE  /\ \A r \in Runs : restarts[r] \in 0..MaxRebinds /\ Pid(r) \in Pids
           /\ \A r \in Runs : Pid(r)[1] = r /\ Pid(r)[2] = restarts[r]
           /\ \A r, u \in Runs : Pid(r) = Pid(u) => r = u
           /\ Entries(processes) \subseteq Pids /\ Entries(active) \subseteq Pids
           /\ Entries(waiters) \subseteq Pids
           /\ ports \in Nat /\ MaxRebinds \in Nat
<1>1. TypeOK
  BY DEF SupInv
<1>2. \A r \in Runs : restarts[r] \in 0..MaxRebinds /\ Pid(r) \in Pids
  BY <1>1 DEF TypeOK, Pid, Pids
<1>3. /\ \A r \in Runs : Pid(r)[1] = r /\ Pid(r)[2] = restarts[r]
      /\ \A r, u \in Runs : Pid(r) = Pid(u) => r = u
  BY DEF Pid
<1>4. /\ Entries(processes) \subseteq Pids /\ Entries(active) \subseteq Pids
      /\ Entries(waiters) \subseteq Pids
  BY <1>1 DEF TypeOK, Entries
<1>5. ports \in Nat /\ MaxRebinds \in Nat
  <2>1. ports \in 0..MaxRebinds
    BY <1>1 DEF TypeOK
  <2> QED
    BY <2>1, RebindsAssumption
<1> QED
  BY <1>2, <1>3, <1>4, <1>5

\* A handler's step touches the variables of its own request only, and none of
\* the destroys'.
LEMMA HandlerFacts ==
    ASSUME TypeOK, NEW r \in Runs, Arrive(r) \/ Handle(r)
    PROVE  /\ \A u \in Runs \ {r} : /\ pc'[u] = pc[u] /\ restarts'[u] = restarts[u]
                                    /\ open'[u] = open[u] /\ outcome'[u] = outcome[u]
                                    /\ seen'[u] = seen[u]
           /\ UNCHANGED <<rebinding, ports, fired, shutting_down, dpc, procs>>
           /\ pc[r] # "done"
           /\ proc' = proc \/ Spawn(r)
<1> USE DEF TypeOK, Goto, Answer, CloseAll, destroys, books, tunnel, handlers
<1>1. CASE Arrive(r)
  BY <1>1 DEF Arrive, Reject, BeginLazily, Begin, FailBegin, EnterLoop, Render
<1>2. CASE TunnelReady(r) \/ ConfigureDone(r) \/ ConfigureFails(r) \/ FailSpawn(r)
           \/ CommandNotFound(r) \/ Watch(r)
  BY <1>2 DEF TunnelReady, ConfigureDone, ConfigureFails, FailSpawn, CommandNotFound, Watch, EnterLoop,
     Render
<1>3. CASE Spawn(r)
  BY <1>3 DEF Spawn
<1>4. CASE KillForRestart(r) \/ Respawn(r) \/ Terminate(r)
  BY <1>4 DEF KillForRestart, Respawn, Terminate, Ended, Render
<1> QED
  BY <1>1, <1>2, <1>3, <1>4 DEF Handle

\* The service's books stay sets of this tunnel's pids, or absent.
Books(dict) == dict = None \/ dict \subseteq Pids

LEMMA HandlerBooks ==
    ASSUME SupInv, NEW r \in Runs, Arrive(r) \/ Handle(r)
    PROVE  Books(processes') /\ Books(active') /\ Books(waiters')
<1>1. /\ Books(processes) /\ Books(active) /\ Books(waiters) /\ Pid(r) \in Pids
      /\ Entries(processes) \subseteq Pids /\ Entries(active) \subseteq Pids
      /\ Books({})
  BY PidFacts DEF SupInv, TypeOK, Books
<1>2. \A dict : Books(dict) => Books(Without(dict, Pid(r)))
  BY DEF Books, Without
<1>3. Books(Entries(processes))
  BY <1>1 DEF Books
<1> HIDE DEF Books
<1>4. CASE Arrive(r)
  BY <1>1, <1>3, <1>4 DEF Arrive, Reject, BeginLazily, Begin, FailBegin, EnterLoop, books
<1>5. CASE TunnelReady(r) \/ ConfigureDone(r) \/ ConfigureFails(r) \/ FailSpawn(r) \/ CommandNotFound(r)
  BY <1>1, <1>3, <1>5 DEF TunnelReady, ConfigureDone, ConfigureFails, FailSpawn, CommandNotFound,
     EnterLoop, books
<1>6. CASE Spawn(r)
  <2>1. processes # None => processes \subseteq Pids
    BY <1>1 DEF Books
  <2>2. processes' \in {processes, processes \cup {Pid(r)}} /\ (processes' # processes => processes # None)
    BY <1>6 DEF Spawn
  <2>3. active' \in {active, Entries(active) \cup {Pid(r)}}
    BY <1>6 DEF Spawn
  <2>4. waiters' = waiters
    BY <1>6 DEF Spawn
  <2> QED
    BY <1>1, <2>1, <2>2, <2>3, <2>4 DEF Books
<1>7. CASE Watch(r)
  <2>1. /\ processes' = processes /\ active' = active
        /\ waiters' = waiters \/ (waiters # None /\ waiters' = waiters \cup {Pid(r)})
    BY <1>7 DEF Watch
  <2> QED
    BY <1>1, <2>1 DEF Books
<1>8. CASE KillForRestart(r) \/ Respawn(r) \/ Terminate(r)
  <2>1. /\ processes' \in {processes, Without(processes, Pid(r))}
        /\ active' \in {active, Without(active, Pid(r))}
        /\ waiters' \in {waiters, Without(waiters, Pid(r))}
    BY <1>8 DEF KillForRestart, Respawn, Terminate, PopProcess
  <2> QED
    BY <1>1, <1>2, <2>1
<1> QED
  BY <1>4, <1>5, <1>6, <1>7, <1>8 DEF Handle

LEMMA HandlerTypes ==
    ASSUME SupInv, NEW r \in Runs, Arrive(r) \/ Handle(r)
    PROVE  TypeOK' /\ RestartInv'
<1>0. TypeOK /\ RestartInv
  BY DEF SupInv
<1>1. Books(processes') /\ Books(active') /\ Books(waiters')
  BY HandlerBooks
<1>2. UNCHANGED <<rebinding, ports, fired, shutting_down, dpc, procs>>
  BY <1>0, HandlerFacts
<1>3. up' \in BOOLEAN
  BY <1>0 DEF TypeOK, Arrive, Handle, Reject, BeginLazily, Begin, FailBegin, TunnelReady, ConfigureDone,
     ConfigureFails, FailSpawn, CommandNotFound, Watch, Spawn, KillForRestart, Respawn, Terminate,
     EnterLoop, tunnel
<1>4. /\ pc' \in [Runs -> {"idle", "setup", "configure", "spawn", "announce", "watch",
                           "wait", "stopping", "done"}]
      /\ outcome' \in [Runs -> {"none", "exited", "not found", "error"}]
  <2>1. /\ \E label \in {"setup", "configure", "spawn", "announce", "watch", "wait", "stopping", "done"} :
              Goto(r, label)
        /\ outcome' = outcome \/ \E what \in {"exited", "not found", "error"} :
                                    outcome' = [outcome EXCEPT ![r] = what]
    <3>1. CASE Arrive(r)
      BY <3>1 DEF Arrive, Reject, BeginLazily, Begin, FailBegin, EnterLoop, Render, Answer
    <3>2. CASE TunnelReady(r) \/ ConfigureDone(r) \/ ConfigureFails(r) \/ FailSpawn(r)
               \/ CommandNotFound(r) \/ Watch(r)
      BY <3>2 DEF TunnelReady, ConfigureDone, ConfigureFails, FailSpawn, CommandNotFound, Watch,
         EnterLoop, Render, Answer
    <3>3. CASE Spawn(r)
      BY <3>3 DEF Spawn, Answer
    <3>4. CASE KillForRestart(r) \/ Respawn(r) \/ Terminate(r)
      BY <3>4 DEF KillForRestart, Respawn, Terminate, Render, Answer, handlers
    <3> QED
      BY <3>1, <3>2, <3>3, <3>4 DEF Handle
  <2>2. pc' \in [Runs -> {"idle", "setup", "configure", "spawn", "announce", "watch",
                          "wait", "stopping", "done"}]
    BY <1>0, <2>1 DEF TypeOK, Goto
  <2>3. outcome' \in [Runs -> {"none", "exited", "not found", "error"}]
    BY <1>0, <2>1 DEF TypeOK
  <2> QED
    BY <2>2, <2>3
<1>5. open' \in [Runs -> SUBSET Fds]
  <2>1. open' = open \/ \E held \in SUBSET Fds : open' = [open EXCEPT ![r] = held]
    BY DEF Arrive, Handle, Reject, BeginLazily, Begin, FailBegin, TunnelReady, ConfigureDone,
       ConfigureFails, FailSpawn, CommandNotFound, Watch, Spawn, KillForRestart, Respawn, Terminate,
       EnterLoop, CloseAll, Fds
  <2> QED
    BY <1>0, <2>1 DEF TypeOK
<1>6. proc' \in [Pids -> {"none", "running", "exited"}]
  BY <1>0, HandlerFacts DEF TypeOK, Spawn
<1>7. seen' \in [Runs -> 0..MaxRebinds]
  <2>1. seen' = seen \/ seen' = [seen EXCEPT ![r] = ports]
    BY DEF Arrive, Handle, Reject, BeginLazily, Begin, FailBegin, TunnelReady, ConfigureDone,
       ConfigureFails, FailSpawn, CommandNotFound, Watch, Spawn, KillForRestart, Respawn, Terminate,
       EnterLoop, Render
  <2> QED
    BY <1>0, <2>1 DEF TypeOK
<1>8. /\ restarts' \in [Runs -> 0..MaxRebinds]
      /\ \A u \in Runs : restarts'[u] <= ports
      /\ \A u \in Runs : pc'[u] = "stopping" => restarts'[u] < ports
  <2>1. ports \in 0..MaxRebinds /\ MaxRebinds \in Nat
    BY <1>0, RebindsAssumption DEF TypeOK
  <2>2. CASE Respawn(r)
    <3>1. /\ restarts' = [restarts EXCEPT ![r] = restarts[r] + 1] /\ restarts[r] < ports
          /\ pc'[r] # "stopping"
      BY <1>0, <2>2 DEF Respawn, NextRestart, RestartInv, Render, Goto, TypeOK
    <3>2. restarts \in [Runs -> 0..MaxRebinds]
      BY <1>0 DEF TypeOK
    <3>3. \A u \in Runs \ {r} : pc'[u] = pc[u]
      BY <1>0, HandlerFacts
    <3>4. restarts[r] + 1 \in 0..MaxRebinds /\ restarts[r] + 1 <= ports
      BY <2>1, <3>1, <3>2
    <3> QED
      BY <1>0, <3>1, <3>2, <3>3, <3>4 DEF RestartInv
  <2>3. CASE ~Respawn(r)
    <3>1. UNCHANGED restarts
      BY <2>3 DEF Arrive, Handle, Reject, BeginLazily, Begin, FailBegin, TunnelReady, ConfigureDone,
         ConfigureFails, FailSpawn, CommandNotFound, Watch, Spawn, KillForRestart, Terminate,
         EnterLoop
    <3>2. pc'[r] = "stopping" => KillForRestart(r)
      BY <1>0, <2>3 DEF Arrive, Handle, Reject, BeginLazily, Begin, FailBegin, TunnelReady,
         ConfigureDone, ConfigureFails, FailSpawn, CommandNotFound, Watch, Spawn, Terminate,
         EnterLoop, Render, Goto, Answer, TypeOK
    <3>3. KillForRestart(r) => restarts[r] < ports
      BY <1>0, PidFacts DEF KillForRestart, RebindSeen, RestartInv
    <3>4. \A u \in Runs \ {r} : pc'[u] = pc[u]
      BY <1>0, HandlerFacts
    <3> QED
      BY <1>0, <3>1, <3>2, <3>3, <3>4 DEF RestartInv, TypeOK
  <2> QED
    BY <2>2, <2>3
<1>9. TypeOK'
  BY <1>0, <1>1, <1>2, <1>3, <1>4, <1>5, <1>6, <1>7, <1>8 DEF TypeOK, Books
<1>10. \A p \in Entries(waiters') : p[2] <= ports
  <2>1. Entries(waiters') \subseteq Entries(waiters) \cup {Pid(r)}
    <3>1. \/ waiters' \in {waiters, {}, Without(waiters, Pid(r))}
          \/ waiters # None /\ waiters' = waiters \cup {Pid(r)}
      BY DEF Arrive, Handle, Reject, BeginLazily, Begin, FailBegin, TunnelReady, ConfigureDone,
         ConfigureFails, FailSpawn, CommandNotFound, Watch, Spawn, KillForRestart, Respawn,
         Terminate, books
    <3> QED
      BY <3>1 DEF Entries, Without
  <2>2. Pid(r)[2] <= ports
    BY <1>0, PidFacts DEF RestartInv
  <2> QED
    BY <1>0, <2>1, <2>2 DEF RestartInv
<1> QED
  BY <1>0, <1>2, <1>8, <1>9, <1>10 DEF RestartInv

\* What a handler's step does to its own run.
LEMMA HandlerRun ==
    ASSUME SupInv, NEW r \in Runs, Arrive(r) \/ Handle(r)
    PROVE  /\ proc' = proc \/ (pc[r] = "spawn" /\ proc' = [proc EXCEPT ![Pid(r)] = "running"])
           /\ restarts' = restarts \/ (Respawn(r) /\ outcome' = outcome)
           /\ pc'[r] \in Quiet => pc[r] \in Quiet \/ Respawn(r)
           /\ pc'[r] # "idle"
           /\ outcome'[r] # outcome[r] => pc'[r] = "done"
           /\ outcome'[r] \in {"exited", "not found"} =>
                 open'[r] = {} /\ (pc[r] \in Quiet \/ Exited(r)) /\ ~Spawn(r) /\ ~Respawn(r)
<1>0. TypeOK /\ RunInv /\ FdsReleased
  BY DEF SupInv
<1> USE DEF TypeOK, RunInv, Goto, Answer, CloseAll, Quiet, handlers
<1>1. CASE Arrive(r)
  BY <1>0, <1>1 DEF Arrive, Reject, BeginLazily, Begin, FailBegin, EnterLoop, Render, Spawn, Respawn
<1>2. CASE TunnelReady(r) \/ ConfigureDone(r) \/ ConfigureFails(r)
  BY <1>0, <1>2 DEF TunnelReady, ConfigureDone, ConfigureFails, EnterLoop, Render, Spawn, Respawn
<1>3. CASE FailSpawn(r) \/ CommandNotFound(r) \/ Watch(r)
  <2>1. pc'[r] # "setup" /\ pc'[r] # "configure" /\ pc'[r] # "spawn"
    BY <1>0, <1>3 DEF FailSpawn, CommandNotFound, Watch
  <2> QED
    BY <1>0, <1>3, <2>1 DEF FailSpawn, CommandNotFound, Watch, Spawn, Respawn
<1>4. CASE Spawn(r)
  BY <1>0, <1>4 DEF Spawn, Respawn
<1>5. CASE KillForRestart(r)
  <2>1. /\ pc[r] = "watch" /\ UNCHANGED <<proc, restarts>>
        /\ \/ pc'[r] = "stopping" /\ outcome' = outcome
           \/ pc'[r] = "done" /\ outcome'[r] = "error"
    BY <1>0, <1>5 DEF KillForRestart
  <2>2. outcome'[r] \in {"none", "error"}
    BY <1>0, <2>1
  <2> QED
    BY <2>1, <2>2
<1>6. CASE Respawn(r)
  BY <1>0, <1>6 DEF Respawn, Render
<1>7. CASE Terminate(r)
  BY <1>0, <1>7 DEF Terminate, Ended, Spawn, Respawn
<1> QED
  BY <1>1, <1>2, <1>3, <1>4, <1>5, <1>6, <1>7 DEF Handle

LEMMA HandlerRunInv ==
    ASSUME SupInv, NEW r \in Runs, Arrive(r) \/ Handle(r)
    PROVE  RunInv' /\ FdsReleased'
<1>0. TypeOK /\ RunInv /\ FdsReleased
  BY DEF SupInv
<1>1. \A u \in Runs \ {r} : /\ pc'[u] = pc[u] /\ restarts'[u] = restarts[u]
                            /\ open'[u] = open[u] /\ outcome'[u] = outcome[u]
                            /\ Pid(u)' = Pid(u)
  BY <1>0, HandlerFacts DEF Pid
<1>2. /\ \A p \in Pids : p # Pid(r) => proc'[p] = proc[p]
      /\ ~Spawn(r) => proc' = proc
  <2>1. proc' = proc \/ Spawn(r)
    BY <1>0, HandlerFacts
  <2>2. Spawn(r) => proc' = [proc EXCEPT ![Pid(r)] = "running"]
    BY DEF Spawn
  <2>3. \E kinds : proc \in [Pids -> kinds]
    BY <1>0 DEF TypeOK
  <2> QED
    BY <2>1, <2>2, <2>3
<1>3. /\ pc[r] # "done" /\ outcome[r] = "none"
      /\ pc'[r] # "idle"
      /\ outcome'[r] # "none" => pc'[r] = "done"
  BY <1>0, HandlerFacts, HandlerRun DEF RunInv
<1>4. ASSUME NEW u \in Runs, NEW n \in 0..MaxRebinds, proc'[<<u, n>>] = "running"
      PROVE  n = restarts'[u] /\ pc'[u] \notin Quiet
  <2>1. <<u, n>> \in Pids
    BY DEF Pids
  <2>2. CASE u # r
    <3>1. <<u, n>> # Pid(r)
      BY <2>2 DEF Pid
    <3> QED
      BY <1>0, <1>1, <1>2, <1>4, <2>1, <2>2, <3>1 DEF RunInv
  <2>3. CASE u = r /\ Spawn(r)
    <3>1. pc[r] = "spawn" /\ restarts' = restarts /\ pc'[r] \in {"announce", "done"}
      BY <1>0, <2>3 DEF Spawn, Answer, Goto, TypeOK
    <3>2. n = restarts[r]
      BY <1>0, <1>2, <1>4, <2>1, <2>3, <3>1 DEF RunInv, Quiet, Pid
    <3> QED
      BY <2>3, <3>1, <3>2 DEF Quiet
  <2>4. CASE u = r /\ ~Spawn(r)
    <3>1. proc[<<r, n>>] = "running"
      BY <1>2, <1>4, <2>4
    <3>2. n = restarts[r] /\ pc[r] \notin Quiet
      BY <1>0, <3>1 DEF RunInv
    <3>3. ~Respawn(r)
      BY <3>1, <3>2 DEF Respawn, Stopped, Exited, Pid
    <3> QED
      BY <2>4, <3>2, <3>3, HandlerRun
  <2> QED
    BY <2>2, <2>3, <2>4
<1>5. ASSUME NEW u \in Runs, outcome'[u] \in {"exited", "not found"}
      PROVE  open'[u] = {} /\ proc'[Pid(u)'] # "running"
  <2>1. CASE u # r
    <3>1. open[u] = {} /\ proc[Pid(u)] # "running" /\ Pid(u) \in Pids /\ Pid(u) # Pid(r)
      BY <1>0, <1>1, <1>5, <2>1, PidFacts DEF RunInv, FdsReleased
    <3> QED
      BY <1>1, <1>2, <2>1, <3>1
  <2>2. CASE u = r
    <3>1. open'[r] = {} /\ (pc[r] \in Quiet \/ Exited(r)) /\ ~Spawn(r) /\ ~Respawn(r)
      BY <1>5, <2>2, HandlerRun
    <3>2. proc[Pid(r)] # "running"
      BY <1>0, <3>1, PidFacts DEF RunInv, Exited, Pid
    <3>3. Pid(r)' = Pid(r) /\ proc' = proc
      BY <1>2, <3>1, HandlerRun DEF Pid
    <3> QED
      BY <2>2, <3>1, <3>2, <3>3
  <2> QED
    BY <2>1, <2>2
<1>6. \A u \in Runs : /\ pc'[u] = "idle" => open'[u] = {}
                      /\ outcome'[u] # "none" => pc'[u] = "done"
  BY <1>0, <1>1, <1>3 DEF RunInv
<1> QED
  BY <1>4, <1>5, <1>6 DEF RunInv, FdsReleased

\* The books after a handler's step: only Spawn enters a process, and whoever
\* leaves "announce", "watch" or "wait" takes its process out of them.
LEMMA HandlerEntries ==
    ASSUME SupInv, NEW r \in Runs, Arrive(r) \/ Handle(r),
           NEW p \in Entries(processes') \cup Entries(active')
    PROVE  \/ p = Pid(r) /\ Spawn(r) /\ pc'[r] = "announce" /\ restarts' = restarts
           \/ /\ p \in Entries(processes) \cup Entries(active)
              /\ p # Pid(r) \/ pc[r] \notin Listed \/ Watch(r)
<1>0. /\ TypeOK
      /\ pc \in [Runs -> {"idle", "setup", "configure", "spawn", "announce", "watch",
                          "wait", "stopping", "done"}]
  BY DEF SupInv, TypeOK
<1>1. CASE Arrive(r) \/ TunnelReady(r) \/ ConfigureDone(r) \/ ConfigureFails(r)
           \/ FailSpawn(r) \/ CommandNotFound(r) \/ Respawn(r)
  <2>1. pc[r] \in {"idle", "setup", "configure", "spawn", "stopping"}
    BY <1>1 DEF Arrive, Reject, BeginLazily, Begin, FailBegin, TunnelReady, ConfigureDone,
       ConfigureFails, FailSpawn, CommandNotFound, Respawn
  <2>2. active' = active /\ (processes' = processes \/ processes' = Entries(processes))
    BY <1>1 DEF Arrive, Reject, BeginLazily, Begin, FailBegin, TunnelReady, ConfigureDone,
       ConfigureFails, FailSpawn, CommandNotFound, Respawn, EnterLoop, books
  <2>3. pc[r] \notin Listed
    BY <2>1 DEF Listed
  <2> QED
    BY <2>2, <2>3 DEF Entries
<1>2. CASE Watch(r)
  BY <1>2 DEF Watch
<1>3. CASE Spawn(r)
  <2>0. pc[r] = "spawn" /\ restarts' = restarts
    BY <1>3 DEF Spawn
  <2>1. CASE processes = None
    BY <1>3, <2>0, <2>1 DEF Spawn, Listed
  <2>2. CASE processes # None
    <3>1. /\ processes' = processes \cup {Pid(r)} /\ active' = Entries(active) \cup {Pid(r)}
          /\ pc'[r] = "announce"
      BY <1>0, <1>3, <2>2 DEF Spawn, Goto
    <3>2. Entries(processes') \cup Entries(active')
            \subseteq Entries(processes) \cup Entries(active) \cup {Pid(r)}
      BY <2>2, <3>1 DEF Entries
    <3> QED
      BY <1>3, <2>0, <3>1, <3>2 DEF Listed
  <2> QED
    BY <2>1, <2>2
<1>4. CASE KillForRestart(r) \/ Terminate(r)
  <2>1. processes' = Without(processes, Pid(r)) /\ active' = Without(active, Pid(r))
    BY <1>4 DEF KillForRestart, Terminate, PopProcess
  <2> QED
    BY <2>1 DEF Without, Entries
<1> QED
  BY <1>1, <1>2, <1>3, <1>4 DEF Handle

LEMMA HandlerGhost ==
    ASSUME SupInv, NEW r \in Runs, Arrive(r) \/ Handle(r)
    PROVE  NoGhostProcess'
<1>0. TypeOK /\ NoGhostProcess
  BY DEF SupInv
<1> SUFFICES ASSUME NEW p \in Entries(processes') \cup Entries(active')
             PROVE  p = <<p[1], restarts'[p[1]]>> /\ pc'[p[1]] \in Listed
  BY DEF NoGhostProcess, Pid, Listed
<1>1. \A u \in Runs \ {r} : pc'[u] = pc[u] /\ restarts'[u] = restarts[u]
  BY <1>0, HandlerFacts
<1>2. CASE p = Pid(r) /\ Spawn(r) /\ pc'[r] = "announce" /\ restarts' = restarts
  BY <1>2 DEF Pid, Listed
<1>3. CASE /\ p \in Entries(processes) \cup Entries(active)
           /\ p # Pid(r) \/ pc[r] \notin Listed \/ Watch(r)
  <2>1. p[1] \in Runs /\ p = Pid(p[1]) /\ pc[p[1]] \in Listed
    BY <1>0, <1>3, PidFacts DEF NoGhostProcess, Listed, Pids
  <2>2. CASE p[1] # r
    BY <1>1, <2>1, <2>2 DEF Pid
  <2>3. CASE p[1] = r
    <3>1. Watch(r)
      BY <1>3, <2>1, <2>3
    <3>2. restarts' = restarts /\ pc'[r] \in {"watch", "wait"}
      BY <1>0, <3>1 DEF Watch, Goto, TypeOK
    <3> QED
      BY <2>1, <2>3, <3>2 DEF Pid, Listed
  <2> QED
    BY <2>2, <2>3
<1> QED
  BY <1>2, <1>3, HandlerEntries

LEMMA HandlerBook ==
    ASSUME SupInv, NEW r \in Runs, Arrive(r) \/ Handle(r)
    PROVE  BookInv'
<1>0. TypeOK /\ BookInv
  BY DEF SupInv
<1>1. /\ UNCHANGED <<shutting_down, dpc, procs>>
      /\ \A u \in Runs \ {r} : pc'[u] = pc[u] /\ restarts'[u] = restarts[u]
  BY <1>0, HandlerFacts
<1>2. Entries(active) \ {Pid(r)} \subseteq Entries(active')
  <2>1. active' \in {active, Entries(active) \cup {Pid(r)}, Without(active, Pid(r))}
    BY DEF Arrive, Handle, Reject, BeginLazily, Begin, FailBegin, TunnelReady, ConfigureDone,
       ConfigureFails, FailSpawn, CommandNotFound, Watch, Spawn, KillForRestart, Respawn,
       Terminate, PopProcess, EnterLoop, books
  <2>2. Entries(active) \cup {Pid(r)} # None
    BY PidFacts, NoneAssumption
  <2> QED
    BY <2>1, <2>2, PidFacts, NoneAssumption DEF Entries, Without
<1>3. /\ pc'[r] \in Listed => Spawn(r) \/ Watch(r)
      /\ pc'[r] = "watch" => waiters # None /\ Watch(r)
  <2>1. CASE Arrive(r) \/ TunnelReady(r) \/ Respawn(r) \/ ConfigureDone(r)
    <3>1. pc'[r] \in {"done", "setup", "configure", "spawn"}
      BY <1>0, <2>1 DEF Arrive, TunnelReady, Respawn, Reject, BeginLazily, Begin, FailBegin,
         EnterLoop, Render, ConfigureDone, Goto, Answer, TypeOK
    <3> QED
      BY <3>1 DEF Listed
  <2>2. CASE ConfigureFails(r) \/ FailSpawn(r) \/ CommandNotFound(r) \/ KillForRestart(r)
             \/ Terminate(r)
    <3>1. pc'[r] \in {"done", "stopping"}
      BY <1>0, <2>2 DEF ConfigureFails, FailSpawn, CommandNotFound, KillForRestart, Terminate,
         Goto, Answer, TypeOK
    <3> QED
      BY <3>1 DEF Listed
  <2>3. CASE Spawn(r)
    BY <1>0, <2>3 DEF Spawn, Goto, Answer, TypeOK
  <2>4. CASE Watch(r)
    BY <1>0, <2>4 DEF Watch, Goto, TypeOK
  <2> QED
    BY <2>1, <2>2, <2>3, <2>4 DEF Handle
<1>4. ASSUME \A e \in Destroys : dpc'[e] = "idle", NEW u \in Runs, pc'[u] \in Listed
      PROVE  Pid(u)' \in Entries(active')
  <2>1. \A e \in Destroys : dpc[e] = "idle"
    BY <1>1, <1>4
  <2>2. CASE u # r
    <3>1. Pid(u) \in Entries(active) /\ Pid(u) # Pid(r) /\ Pid(u)' = Pid(u)
      BY <1>0, <1>1, <1>4, <2>1, <2>2, PidFacts DEF BookInv, Pid
    <3> QED
      BY <1>2, <3>1
  <2>3. CASE u = r /\ Spawn(r)
    <3>1. active' = Entries(active) \cup {Pid(r)} /\ Pid(r)' = Pid(r)
      <4>1. pc' # [pc EXCEPT ![r] = "done"]
        BY <1>0, <1>4, <2>3 DEF TypeOK, Listed
      <4> QED
        BY <2>3, <4>1 DEF Spawn, Answer, Goto, Pid
    <3>2. active' # None
      BY <3>1, PidFacts, NoneAssumption
    <3> QED
      BY <2>3, <3>1, <3>2 DEF Entries
  <2>4. CASE u = r /\ Watch(r)
    <3>1. pc[r] \in Listed /\ active' = active /\ Pid(r)' = Pid(r)
      BY <2>4 DEF Watch, Listed, Pid
    <3> QED
      BY <1>0, <2>1, <2>4, <3>1 DEF BookInv
  <2> QED
    BY <1>3, <1>4, <2>2, <2>3, <2>4
<1>5. ASSUME NEW d \in Destroys, dpc'[d] = "waiting",
             \A e \in Destroys \ {d} : dpc'[e] = "idle"
      PROVE  /\ shutting_down' /\ waiters' = None
             /\ d \in Waiting => \A u \in Runs : pc'[u] = "watch" => Pid(u)' \in procs'[d]
  <2>1. /\ shutting_down /\ waiters = None
        /\ d \in Waiting => \A u \in Runs : pc[u] = "watch" => Pid(u) \in procs[d]
    BY <1>0, <1>1, <1>5 DEF BookInv
  <2>2. waiters' = None
    <3>1. \/ waiters' \in {waiters, Without(waiters, Pid(r))}
          \/ waiters # None /\ Watch(r)
          \/ BeginLazily(r)
      BY DEF Arrive, Handle, Reject, Begin, FailBegin, TunnelReady, ConfigureDone, ConfigureFails,
         FailSpawn, CommandNotFound, Watch, Spawn, KillForRestart, Respawn, Terminate, books
    <3> QED
      BY <2>1, <3>1 DEF BeginLazily, Without
  <2>3. pc'[r] # "watch"
    BY <1>3, <2>1
  <2>4. \A u \in Runs \ {r} : Pid(u)' = Pid(u) /\ pc'[u] = pc[u]
    BY <1>1 DEF Pid
  <2> QED
    BY <1>1, <2>1, <2>2, <2>3, <2>4
<1> QED
  BY <1>4, <1>5 DEF BookInv

LEMMA ExitKeeps ==
    ASSUME SupInv, NEW p \in Pids, Exit(p)
    PROVE  SupInv'
<1>0. TypeOK /\ RestartInv /\ RunInv /\ BookInv /\ NoGhostProcess /\ FdsReleased
  BY DEF SupInv
<1>1. /\ proc' = [proc EXCEPT ![p] = "exited"]
      /\ UNCHANGED <<up, rebinding, ports, processes, active, waiters, fired, shutting_down,
                     pc, restarts, seen, open, outcome, dpc, procs>>
  BY DEF Exit, tunnel, books, handlers, destroys
<1>2. \A q \in Pids : proc'[q] = "running" => proc[q] = "running"
  BY <1>0, <1>1 DEF TypeOK
<1>3. TypeOK' /\ RestartInv'
  BY <1>0, <1>1 DEF TypeOK, RestartInv, Entries
<1>4. RunInv'
  <2>1. \A r \in Runs, n \in 0..MaxRebinds : <<r, n>> \in Pids
    BY DEF Pids
  <2>2. \A r \in Runs : Pid(r) \in Pids /\ Pid(r)' = Pid(r)
    BY <1>1, PidFacts DEF Pid
  <2> QED
    BY <1>0, <1>1, <1>2, <2>1, <2>2 DEF RunInv
<1>5. BookInv'
  BY <1>0, <1>1 DEF BookInv, Entries, Pid
<1>6. NoGhostProcess' /\ FdsReleased'
  BY <1>0, <1>1 DEF NoGhostProcess, FdsReleased, Entries, Pid
<1> QED
  BY <1>3, <1>4, <1>5, <1>6 DEF SupInv

LEMMA RebindKeeps ==
    ASSUME SupInv, Rebind
    PROVE  SupInv'
<1>0. TypeOK /\ RestartInv /\ RunInv /\ BookInv /\ NoGhostProcess /\ FdsReleased
  BY DEF SupInv
<1>1. /\ ports' = ports + 1 /\ ports < MaxRebinds /\ fired' = fired \cup Entries(waiters)
      /\ UNCHANGED <<up, rebinding, processes, active, waiters, shutting_down,
                     pc, restarts, seen, open, outcome, proc, dpc, procs>>
  BY DEF Rebind, handlers, destroys
<1>2. ports' \in 0..MaxRebinds /\ fired' \subseteq Pids
  <2>1. ports \in 0..MaxRebinds /\ fired \subseteq Pids
    BY <1>0 DEF TypeOK
  <2> QED
    BY <1>1, <2>1, PidFacts
<1>3. TypeOK'
  BY <1>0, <1>1, <1>2 DEF TypeOK
<1>4. RestartInv'
  <2>1. /\ \A r \in Runs : restarts[r] \in Nat
        /\ \A p \in Pids : p[2] \in Nat
        /\ ports \in Nat
    BY PidFacts DEF Pids
  <2>2. \A p \in fired' : p[2] < ports'
    <3> SUFFICES ASSUME NEW p \in fired' PROVE p[2] < ports'
      OBVIOUS
    <3>1. p[2] <= ports \/ p[2] < ports
      BY <1>0, <1>1 DEF RestartInv
    <3>2. p[2] \in Nat
      BY <1>2, <2>1
    <3> QED
      BY <1>1, <2>1, <3>1, <3>2
  <2>3. \A p \in Entries(waiters') : p[2] <= ports'
    BY <1>0, <1>1, <2>1, PidFacts DEF RestartInv
  <2>4. \A r \in Runs : /\ restarts'[r] <= ports'
                        /\ pc'[r] = "stopping" => restarts'[r] < ports'
    <3> SUFFICES ASSUME NEW r \in Runs
                 PROVE  /\ restarts[r] <= ports + 1
                        /\ pc[r] = "stopping" => restarts[r] < ports + 1
      BY <1>1
    <3>1. restarts[r] <= ports
      BY <1>0 DEF RestartInv
    <3> QED
      BY <2>1, <3>1
  <2> QED
    BY <2>2, <2>3, <2>4 DEF RestartInv
<1>5. RunInv' /\ BookInv' /\ NoGhostProcess' /\ FdsReleased'
  BY <1>0, <1>1 DEF RunInv, BookInv, NoGhostProcess, FdsReleased, Entries, Pid
<1> QED
  BY <1>3, <1>4, <1>5 DEF SupInv

LEMMA BeginDestroyKeeps ==
    ASSUME SupInv, NEW d \in Destroys, BeginDestroy(d)
    PROVE  SupInv'
<1>0. TypeOK /\ RestartInv /\ RunInv /\ BookInv /\ NoGhostProcess /\ FdsReleased
  BY DEF SupInv
<1>1. /\ active' = None /\ waiters' = None /\ dpc[d] = "idle"
      /\ procs' = [procs EXCEPT ![d] = IF d \in Waiting THEN Entries(active) ELSE {}]
      /\ UNCHANGED <<ports, fired, pc, restarts, seen, open, outcome, proc>>
      /\ \A e \in Destroys : dpc[e] \notin {"waiting", "closing"}
  BY DEF BeginDestroy, handlers
<1>2. /\ up' \in BOOLEAN /\ rebinding' \in BOOLEAN /\ shutting_down' \in BOOLEAN
      /\ processes' \in {processes, None}
      /\ \E label \in {"waiting", "closing", "done"} : dpc' = [dpc EXCEPT ![d] = label]
      /\ dpc' = [dpc EXCEPT ![d] = "waiting"] => shutting_down' \/ up' # up
  BY <1>0 DEF BeginDestroy, Unregister, DestroyStep, TypeOK
<1>3. TypeOK'
  <2>1. procs' \in [Destroys -> SUBSET Pids]
    <3>1. (IF d \in Waiting THEN Entries(active) ELSE {}) \in SUBSET Pids
      BY PidFacts
    <3> QED
      BY <1>0, <1>1, <3>1 DEF TypeOK
  <2>2. dpc' \in [Destroys -> {"idle", "waiting", "closing", "done"}]
    BY <1>0, <1>2 DEF TypeOK
  <2> QED
    BY <1>0, <1>1, <1>2, <2>1, <2>2 DEF TypeOK
<1>4. RestartInv' /\ RunInv' /\ FdsReleased'
  BY <1>0, <1>1 DEF RestartInv, RunInv, FdsReleased, Pid, Entries
<1>5. NoGhostProcess'
  <2>1. Entries(processes') \cup Entries(active') \subseteq Entries(processes) \cup Entries(active)
    BY <1>1, <1>2 DEF Entries
  <2> QED
    BY <1>0, <1>1, <2>1 DEF NoGhostProcess, Pid
<1>6. BookInv'
  <2>1. dpc'[d] \in {"waiting", "closing", "done"} /\ \A e \in Destroys \ {d} : dpc'[e] = dpc[e]
    BY <1>0, <1>2 DEF TypeOK
  <2>2. ASSUME NEW e \in Destroys, dpc'[e] = "waiting",
               \A f \in Destroys \ {e} : dpc'[f] = "idle"
        PROVE  /\ shutting_down' /\ waiters' = None
               /\ e \in Waiting => \A r \in Runs : pc'[r] = "watch" => Pid(r)' \in procs'[e]
    <3>1. e = d /\ \A f \in Destroys : dpc[f] = "idle"
      BY <1>1, <2>1, <2>2
    <3>2. shutting_down'
      BY <1>0, <2>2, <3>1 DEF BeginDestroy, Unregister, DestroyStep, TypeOK
    <3>3. \A r \in Runs : pc[r] = "watch" => Pid(r) \in Entries(active)
      BY <1>0, <3>1 DEF BookInv, Listed
    <3>4. d \in Waiting => procs'[d] = Entries(active)
      BY <1>0, <1>1 DEF TypeOK
    <3> QED
      BY <1>1, <3>1, <3>2, <3>3, <3>4 DEF Pid
  <2> QED
    BY <2>1, <2>2 DEF BookInv
<1> QED
  BY <1>3, <1>4, <1>5, <1>6 DEF SupInv

LEMMA EndDestroyKeeps ==
    ASSUME SupInv, NEW d \in Destroys, DestroyAfterWait(d) \/ FinishDestroy(d)
    PROVE  SupInv'
<1>0. TypeOK /\ RestartInv /\ RunInv /\ BookInv /\ NoGhostProcess /\ FdsReleased
  BY DEF SupInv
<1>1. /\ UNCHANGED <<ports, active, waiters, fired, pc, restarts, seen, open, outcome, proc, procs>>
      /\ processes' \in {processes, None}
      /\ dpc[d] \in {"waiting", "closing"}
      /\ \E label \in {"closing", "done"} : dpc' = [dpc EXCEPT ![d] = label]
      /\ up' \in BOOLEAN /\ rebinding' \in BOOLEAN /\ shutting_down' \in BOOLEAN
  BY <1>0 DEF DestroyAfterWait, FinishDestroy, Unregister, DestroyStep, TypeOK, handlers, books,
     tunnel
<1>2. TypeOK'
  BY <1>0, <1>1 DEF TypeOK
<1>3. RestartInv' /\ RunInv' /\ FdsReleased'
  BY <1>0, <1>1 DEF RestartInv, RunInv, FdsReleased, Pid, Entries
<1>4. NoGhostProcess'
  <2>1. Entries(processes') \subseteq Entries(processes)
    BY <1>1 DEF Entries
  <2> QED
    BY <1>0, <1>1, <2>1 DEF NoGhostProcess, Pid, Entries
<1>5. BookInv'
  <2>1. dpc'[d] \in {"closing", "done"}
    BY <1>0, <1>1 DEF TypeOK
  <2> QED
    BY <2>1 DEF BookInv
<1> QED
  BY <1>2, <1>3, <1>4, <1>5 DEF SupInv

LEMMA SupInvNext == SupInv /\ [Next]_vars => SupInv'
<1> SUFFICES ASSUME SupInv, [Next]_vars PROVE SupInv'
  OBVIOUS
<1>1. CASE UNCHANGED vars
  BY <1>1 DEF SupInv, TypeOK, RestartInv, RunInv, BookInv, NoGhostProcess, FdsReleased, Entries, Pid,
     vars, tunnel, books, handlers, destroys
<1>2. CASE \E r \in Runs : Arrive(r) \/ Handle(r)
  <2>1. PICK r \in Runs : Arrive(r) \/ Handle(r)
    BY <1>2
  <2> QED
    BY <2>1, HandlerTypes, HandlerRunInv, HandlerGhost, HandlerBook DEF SupInv
<1>3. CASE \E p \in Pids : Exit(p)
  BY <1>3, ExitKeeps
<1>4. CASE Rebind
  BY <1>4, RebindKeeps
<1>5. CASE \E d \in Destroys : BeginDestroy(d) \/ DestroyAfterWait(d) \/ FinishDestroy(d)
  BY <1>5, BeginDestroyKeeps, EndDestroyKeeps
<1> QED
  BY <1>1, <1>2, <1>3, <1>4, <1>5 DEF Next

LEMMA SupInvAlways == Spec => []SupInv
BY SupInvInit, SupInvNext, PTL DEF Spec

\* The books of handle_run_process keep their types.
THEOREM ProcessTypesHold == Spec => []TypeOK
<1>1. SupInv => TypeOK
  BY DEF SupInv
<1> QED
  BY <1>1, SupInvAlways, PTL

\* A rebind kills the process of a run before its successor is spawned: at no
\* time do two of them run.
THEOREM OneProcessAtATime == Spec => []OneProcessPerRun
<1>1. SupInv => OneProcessPerRun
  <2> SUFFICES ASSUME RunInv, NEW r \in Runs, NEW m \in 0..MaxRebinds, NEW n \in 0..MaxRebinds,
                      proc[<<r, m>>] = "running", proc[<<r, n>>] = "running"
               PROVE  m = n
    BY DEF SupInv, OneProcessPerRun
  <2>1. m = restarts[r] /\ n = restarts[r]
    BY DEF RunInv
  <2> QED
    BY <2>1
<1> QED
  BY <1>1, SupInvAlways, PTL

\* What list-tunnels shows as a process has a handler that waits for it.
THEOREM ListedProcessesHaveHandlers == Spec => []NoGhostProcess
<1>1. SupInv => NoGhostProcess
  BY DEF SupInv
<1> QED
  BY <1>1, SupInvAlways, PTL

\* ProcessTerminated is sent when no process of the run is running, whatever
\* was rebound or destroyed meanwhile.
THEOREM TerminationIsTrue == Spec => []TerminatedIsTrue
<1>1. SupInv => TerminatedIsTrue
  BY DEF SupInv, RunInv, TerminatedIsTrue, Pid
<1> QED
  BY <1>1, SupInvAlways, PTL

\* A run answered with ProcessTerminated or CommandNotFound has no descriptor
\* of its request open any more; one answered with an error may have.
THEOREM CleanAnswersHoldNoFd == Spec => []FdsReleased
<1>1. SupInv => FdsReleased
  BY DEF SupInv
<1> QED
  BY <1>1, SupInvAlways, PTL

\* DestroyTunnel with wait, unless another destroy came first, begins to tear
\* the tunnel down only when every process a handler watches has exited.
THEOREM WatchedProcessesAreWaitedFor == Spec => WatchedAreWaitedFor
<1> DEFINE Waited ==
      \A d \in Waiting :
          /\ dpc[d] # "closing" /\ dpc'[d] = "closing"
          /\ \A e \in Destroys \ {d} : dpc[e] = "idle"
          => \A r \in Runs : pc[r] = "watch" => proc[Pid(r)] # "running"
<1>1. SupInv /\ [Next]_vars => [Waited]_vars
  <2> SUFFICES ASSUME SupInv, Next, NEW d \in Waiting,
                      dpc[d] # "closing", dpc'[d] = "closing",
                      \A e \in Destroys \ {d} : dpc[e] = "idle",
                      NEW r \in Runs, pc[r] = "watch"
               PROVE  proc[Pid(r)] # "running"
    OBVIOUS
  <2>0. TypeOK /\ BookInv /\ d \in Destroys
    BY WaitingAssumption DEF SupInv
  <2>1. PICK e \in Destroys : BeginDestroy(e) \/ DestroyAfterWait(e) \/ FinishDestroy(e)
    <3>1. dpc' # dpc
      OBVIOUS
    <3>2. \A u \in Runs : ~(Arrive(u) \/ Handle(u))
      BY <2>0, <3>1, HandlerFacts
    <3>3. ~Rebind /\ \A p \in Pids : ~Exit(p)
      BY <3>1 DEF Rebind, Exit, destroys
    <3> QED
      BY <3>2, <3>3 DEF Next
  <2>2. e = d
    <3>1. \E label \in {"waiting", "closing", "done"} : dpc' = [dpc EXCEPT ![e] = label]
      BY <2>1 DEF BeginDestroy, DestroyAfterWait, FinishDestroy, Unregister, DestroyStep
    <3> QED
      BY <2>0, <3>1 DEF TypeOK
  <2>3. CASE BeginDestroy(d)
    <3>1. \A f \in Destroys : dpc[f] = "idle"
      BY <2>3 DEF BeginDestroy
    <3>2. Entries(active) = {}
      BY <2>0, <2>3 DEF BeginDestroy, DestroyStep, TypeOK
    <3> QED
      BY <2>0, <3>1, <3>2 DEF BookInv, Listed
  <2>4. CASE DestroyAfterWait(d)
    BY <2>0, <2>4 DEF BookInv, DestroyAfterWait, Gathered
  <2>5. CASE FinishDestroy(d)
    BY <2>5 DEF FinishDestroy
  <2> QED
    BY <2>1, <2>2, <2>3, <2>4, <2>5
<1>2. Spec => [][Waited]_vars
  BY <1>1, SupInvAlways, PTL DEF Spec
<1> QED
  BY <1>2 DEF WatchedAreWaitedFor
=============================================================================
