------------------------ MODULE TunnelServiceProofs ------------------------
(* Proofs about TunnelService, for any set of requests, names and messages. *)
EXTENDS TunnelService, TLAPS

\* A handler that has left "idle", or that has a rebind loop, has a message.
Arrived ==
    \A t \in Requests :
        /\ pc[t] # "idle" => req[t] \in Menu
        /\ rebind[t] # "none" => pc[t] # "idle"

TypeInv == TypeOK /\ Arrived

\* ---- Type correctness

\* The name of a request that has arrived is a tunnel name.
LEMMA ArrivedName ==
    ASSUME TypeInv, NEW t \in Requests, pc[t] # "idle"
    PROVE  req[t] \in Menu /\ Name(t) \in Names
BY MenuAssumption DEF TypeInv, Arrived, Name, RequestRecord

LEMMA TypeInvInit == Init => TypeInv
BY DEF Init, TypeInv, TypeOK, Arrived, Maybe, Labels

LEMMA TypeInvSetup ==
    ASSUME TypeInv, NEW t \in Requests, Setup(t)
    PROVE  TypeInv'
<1>0. pc[t] # "idle" /\ Name(t) \in Names
  <2>1. pc[t] # "idle"
    BY DEF Setup, EnterNamespace, LosePid, AddLink, AttachLink, ConfigureLink,
           StartServices, FailLink, FailSetup, Publish
  <2> QED
    BY <2>1, ArrivedName
<1> USE DEF TypeInv, TypeOK, Arrived, Maybe, registry, signals, loops, host, books, Goto,
            Answer, Push, Labels, SettingUp, Failing, Destroying, Managers
<1>1. CASE EnterNamespace(t)
  BY <1>0, <1>1 DEF EnterNamespace
<1>2. CASE AddLink(t)
  BY <1>0, <1>2 DEF AddLink
<1>3. CASE AttachLink(t)
  BY <1>0, <1>3 DEF AttachLink
<1>4. CASE ConfigureLink(t)
  BY <1>0, <1>4 DEF ConfigureLink
<1>5. CASE StartServices(t)
  BY <1>0, <1>5 DEF StartServices
<1>6. CASE FailLink(t)
  BY <1>0, <1>6 DEF FailLink, DeleteLink
<1>7. CASE FailSetup(t)
  BY <1>0, <1>7 DEF FailSetup
<1>8. CASE Publish(t)
  BY <1>0, <1>8 DEF Publish, Register, BeginRun
<1>9. CASE LosePid(t)
  BY <1>0, <1>9 DEF LosePid
<1> QED
  BY <1>1, <1>2, <1>3, <1>4, <1>5, <1>6, <1>7, <1>8, <1>9 DEF Setup

LEMMA TypeInvServing ==
    ASSUME TypeInv, NEW t \in Requests, Serving(t)
    PROVE  TypeInv'
<1> USE DEF TypeInv, TypeOK, Arrived, Maybe, registry, signals, loops, host, books, Goto,
            Answer, Push, Labels, SettingUp, Failing, Destroying, Managers
<1>1. CASE Serve(t)
  BY <1>1 DEF Serve
<1>2. CASE FailServe(t)
  BY <1>2 DEF FailServe
<1>3. CASE StartStops(t)
  BY <1>3 DEF StartStops, Cancelled
<1> QED
  BY <1>1, <1>2, <1>3 DEF Serving

LEMMA TypeInvRebinding ==
    ASSUME TypeInv, NEW t \in Requests, Rebinding(t)
    PROVE  TypeInv'
<1>0. rebind[t] # "none" /\ Name(t) \in Names
  <2>1. rebind[t] # "none"
    BY DEF Rebinding, RebindWake, RebindNextPort, RebindDone, RebindRaises
  <2> QED
    BY <2>1, ArrivedName DEF TypeInv, Arrived
<1> USE DEF TypeInv, TypeOK, Arrived, Maybe, registry, signals, loops, host, books, Goto,
            Answer, Push, Labels, SettingUp, Failing, Destroying, Managers
<1>1. CASE RebindWake(t)
  BY <1>0, <1>1 DEF RebindWake
<1>2. CASE RebindNextPort(t)
  BY <1>0, <1>2 DEF RebindNextPort
<1>3. CASE RebindDone(t)
  <2>1. stack' \in [Requests -> SUBSET Managers]
    BY <1>3 DEF RebindDone
  <2>2. tunnel_contexts' \in [Names -> Maybe(Requests)]
    BY <1>3 DEF RebindDone
  <2>3. /\ rebind' \in [Requests -> {"none", "sleep", "alloc", "ended", "cancelled", "failed"}]
        /\ \A u \in Requests : rebind'[u] # "none" => pc[u] # "idle"
    BY <1>0, <1>3 DEF RebindDone
  <2> QED
    BY <1>3, <2>1, <2>2, <2>3 DEF RebindDone
<1>4. CASE RebindRaises(t)
  BY <1>0, <1>4 DEF RebindRaises
<1> QED
  BY <1>1, <1>2, <1>3, <1>4 DEF Rebinding

LEMMA TypeInvRunning ==
    ASSUME TypeInv, NEW t \in Requests, Running(t)
    PROVE  TypeInv'
BY DEF TypeInv, TypeOK, Arrived, Maybe, registry, signals, loops, host, Running, SpawnRun,
   RestartRun, EndRun, LeaveBooks

\* What a destroy writes up to its next await, one dictionary at a time.
LEMMA UnregisterTypes ==
    ASSUME TypeOK, NEW d \in Requests, NEW n \in Names,
           NEW down \in SUBSET Names, Unregister(d, n, down)
    PROVE  /\ namespaces' \in [Names -> Maybe(Requests)]
           /\ exit_stacks' \in [Names -> Maybe(Requests)]
           /\ tunnel_contexts' \in [Names -> Maybe(Requests)]
           /\ tunnel_stop_signals' = tunnel_stop_signals
           /\ stopped' \in SUBSET Requests
           /\ target' \in [Requests -> Maybe(Requests)]
           /\ processes' \in SUBSET Names
           /\ outcome' \in [Requests -> {"none", "ok", "error", "rejected"}]
           /\ shutting_down' \in SUBSET Names
           /\ \E label \in {"d_close", "done"} : Goto(d, label)
<1>1. /\ namespaces' \in [Names -> Maybe(Requests)]
      /\ exit_stacks' \in [Names -> Maybe(Requests)]
      /\ tunnel_contexts' \in [Names -> Maybe(Requests)]
      /\ tunnel_stop_signals' = tunnel_stop_signals
  BY DEF TypeOK, Maybe, Unregister, PopNamespace, PopStack
<1>2. stopped' \in SUBSET Requests
  <2>1. stopped' = stopped \cup ({tunnel_stop_signals[n]} \ {None})
    BY DEF Unregister, SetStop
  <2>2. tunnel_stop_signals[n] \in Requests \cup {None}
    BY DEF TypeOK, Maybe
  <2> QED
    BY <2>1, <2>2 DEF TypeOK
<1>3. target' \in [Requests -> Maybe(Requests)] /\ processes' \in SUBSET Names
  BY DEF TypeOK, Maybe, Unregister
<1>4. /\ outcome' \in [Requests -> {"none", "ok", "error", "rejected"}]
      /\ shutting_down' \in SUBSET Names
      /\ \E label \in {"d_close", "done"} : Goto(d, label)
  <2>1. CASE exit_stacks[n] = None
    BY <2>1 DEF TypeOK, Unregister, Answer, LiftGuard
  <2>2. CASE exit_stacks[n] # None
    BY <2>2 DEF TypeOK, Unregister
  <2> QED
    BY <2>1, <2>2
<1> QED
  BY <1>1, <1>2, <1>3, <1>4

LEMMA WaitOrUnregisterTypes ==
    ASSUME TypeOK, NEW d \in Requests, NEW n \in Names, NEW waiting,
           NEW down \in SUBSET Names, WaitOrUnregister(d, n, waiting, down)
    PROVE  /\ namespaces' \in [Names -> Maybe(Requests)]
           /\ exit_stacks' \in [Names -> Maybe(Requests)]
           /\ tunnel_contexts' \in [Names -> Maybe(Requests)]
           /\ tunnel_stop_signals' = tunnel_stop_signals
           /\ stopped' \in SUBSET Requests
           /\ target' \in [Requests -> Maybe(Requests)]
           /\ processes' \in SUBSET Names
           /\ outcome' \in [Requests -> {"none", "ok", "error", "rejected"}]
           /\ shutting_down' \in SUBSET Names
           /\ \E label \in {"d_wait", "d_close", "done"} : Goto(d, label)
<1>1. CASE UNCHANGED <<registry, signals, target, outcome, processes>>
           /\ shutting_down' = down /\ Goto(d, "d_wait")
  BY <1>1 DEF TypeOK, registry, signals
<1>2. CASE Unregister(d, n, down)
  BY <1>2, UnregisterTypes
<1> QED
  BY <1>1, <1>2 DEF WaitOrUnregister

LEMMA TypeInvArrival ==
    ASSUME TypeInv, NEW t \in Requests, Arrival(t)
    PROVE  TypeInv'
<1> USE DEF TypeInv, TypeOK, Arrived, Maybe, registry, signals, loops, host, books, Goto,
            Answer, Push, Labels, SettingUp, Failing, Destroying, Managers, Arrive
<1>1. PICK r \in Menu : \/ Refuse(t, r) \/ RejectRun(t, r) \/ AdmitRun(t, r)
                        \/ BeginSetup(t, r) \/ BeginDestroy(t, r)
  BY DEF Arrival
<1>2. r.name \in Names
  BY MenuAssumption DEF RequestRecord
<1>3. CASE Refuse(t, r)
  BY <1>3 DEF Refuse
<1>4. CASE RejectRun(t, r)
  BY <1>4 DEF RejectRun
<1>5. CASE AdmitRun(t, r)
  BY <1>2, <1>5 DEF AdmitRun, BeginRun
<1>6. CASE BeginSetup(t, r)
  <2>1. /\ r \in Menu /\ pc[t] = "idle"
        /\ req' = [req EXCEPT ![t] = r]
        /\ pc' = [pc EXCEPT ![t] = "namespace"]
        /\ folders' = folders \cup {r.name}
        /\ UNCHANGED <<registry, signals, tunnel_rebind_tasks, shutting_down, target,
                       outcome, loops, stack, holder, pidfile, nspid, link, books>>
    BY <1>6 DEF BeginSetup
  <2>2. folders' \in SUBSET Names
    BY <1>2, <2>1
  <2> QED
    BY <2>1, <2>2
<1>7. CASE BeginDestroy(t, r)
  <2> DEFINE task == tunnel_rebind_tasks[r.name]
             down == Guarded(r.name)
             waiting == r.wait /\ {u \in active_processes : Name(u) = r.name} # {}
  <2>1. /\ r \in Menu /\ pc[t] = "idle" /\ req' = [req EXCEPT ![t] = r]
        /\ tunnel_rebind_tasks' = [tunnel_rebind_tasks EXCEPT ![r.name] = None]
        /\ UNCHANGED <<rctx, rstack, stack, host, run>>
        /\ active_processes' \in SUBSET Requests
        /\ waits' \in SUBSET Requests
    BY <1>7 DEF BeginDestroy
  <2>2. down \in SUBSET Names
    BY <1>2 DEF Guarded
  <2>3. CASE /\ Answer(t, "error")
             /\ shutting_down' = LiftGuard(r.name, down)
             /\ UNCHANGED <<registry, signals, target, rebind, processes>>
    <3>1. shutting_down' \in SUBSET Names
      BY <2>2, <2>3 DEF LiftGuard
    <3> QED
      BY <2>1, <2>3, <3>1
  <2>4. CASE /\ task # None
             /\ rebind[task] \in {"sleep", "alloc"}
             /\ rebind' = [rebind EXCEPT ![task] = Cancelled(@)]
             /\ target' = [target EXCEPT ![t] = task]
             /\ shutting_down' = down
             /\ Goto(t, "d_rebind")
             /\ UNCHANGED <<registry, signals, outcome, processes>>
    <3>1. task \in Requests /\ pc[task] # "idle"
      BY <1>2, <2>4
    <3>2. rebind' = [rebind EXCEPT ![task] = "cancelled"]
      BY <2>4 DEF Cancelled
    <3>3. shutting_down' \in SUBSET Names
      BY <2>2, <2>4
    <3> QED
      BY <2>1, <2>4, <3>1, <3>2, <3>3
  <2>5. CASE WaitOrUnregister(t, r.name, waiting, down) /\ UNCHANGED rebind
    <3> HIDE DEF down, task, waiting
    <3>1. PICK label \in {"d_wait", "d_close", "done"} :
               pc' = [pc EXCEPT ![t] = label]
      BY <1>2, <2>2, <2>5, WaitOrUnregisterTypes
    <3>2. TypeOK'
      BY <1>2, <2>1, <2>2, <2>5, <3>1, WaitOrUnregisterTypes
    <3>3. Arrived'
      BY <2>1, <2>5, <3>1
    <3> QED
      BY <3>2, <3>3
  <2> QED
    BY <1>7, <2>3, <2>4, <2>5 DEF BeginDestroy
<1> QED
  BY <1>1, <1>3, <1>4, <1>5, <1>6, <1>7

LEMMA TypeInvDestroying ==
    ASSUME TypeInv, NEW d \in Requests,
           DestroyAfterRebind(d) \/ DestroyAfterWait(d) \/ Release(d)
    PROVE  TypeInv'
<1>0. pc[d] # "idle" /\ Name(d) \in Names
  <2>1. pc[d] # "idle"
    BY DEF DestroyAfterRebind, DestroyAfterWait, Release
  <2> QED
    BY <2>1, ArrivedName
<1> USE DEF TypeInv, TypeOK, Arrived, Maybe, registry, signals, loops, host, books, Goto,
            Answer, Push, Labels, SettingUp, Failing, Destroying, Managers, LiftGuard, Name
<1>1. CASE DestroyAfterRebind(d)
  <2>1. PICK label \in {"d_wait", "d_close", "done"} : pc' = [pc EXCEPT ![d] = label]
    BY <1>0, <1>1, WaitOrUnregisterTypes DEF DestroyAfterRebind
  <2>2. TypeOK'
    BY <1>0, <1>1, <2>1, WaitOrUnregisterTypes DEF DestroyAfterRebind
  <2>3. Arrived'
    BY <1>0, <1>1, <2>1 DEF DestroyAfterRebind
  <2> QED
    BY <2>2, <2>3
<1>2. CASE DestroyAfterWait(d)
  <2>1. PICK label \in {"d_close", "done"} : pc' = [pc EXCEPT ![d] = label]
    BY <1>0, <1>2, UnregisterTypes DEF DestroyAfterWait
  <2>2. TypeOK'
    BY <1>0, <1>2, <2>1, UnregisterTypes DEF DestroyAfterWait
  <2>3. Arrived'
    BY <1>0, <1>2, <2>1 DEF DestroyAfterWait
  <2> QED
    BY <2>2, <2>3
<1>3. CASE Release(d)
  <2>1. stack' \in [Requests -> SUBSET Managers]
    BY <1>3 DEF Release
  <2>2. \E s : \E m : LeaveManager(s, m)
    BY <1>3 DEF Release
  <2>3. /\ holder' \in SUBSET Requests
        /\ pidfile' \in [Names -> Maybe(Requests)]
        /\ nspid' \in [Requests -> Maybe(Requests)]
        /\ link' \in [Slots -> Maybe(Requests)]
        /\ folders' \in SUBSET Names
    BY <2>2 DEF LeaveManager, DeleteLink
  <2>4. /\ pc' \in [Requests -> Labels]
        /\ outcome' \in [Requests -> {"none", "ok", "error", "rejected"}]
        /\ shutting_down' \in SUBSET Names
        /\ \A u \in Requests : pc[u] # "idle" <=> pc'[u] # "idle"
    BY <1>0, <1>3 DEF Release
  <2> QED
    BY <1>3, <2>1, <2>3, <2>4 DEF Release
<1> QED
  BY <1>1, <1>2, <1>3

LEMMA TypeInvNext == TypeInv /\ [Next]_vars => TypeInv'
<1> SUFFICES ASSUME TypeInv, [Next]_vars PROVE TypeInv'
  OBVIOUS
<1>1. CASE UNCHANGED vars
  BY <1>1 DEF TypeInv, TypeOK, Arrived, vars, registry, signals, loops, host, books
<1>2. ASSUME NEW t \in Requests, Step(t) PROVE TypeInv'
  BY <1>2, TypeInvSetup, TypeInvServing, TypeInvRebinding, TypeInvArrival,
     TypeInvDestroying, TypeInvRunning DEF Step
<1> QED
  BY <1>1, <1>2 DEF Next

LEMMA TypeInvariant == Spec => []TypeInv
BY TypeInvInit, TypeInvNext, PTL DEF Spec

\* Every variable keeps its type, whatever requests arrive and however the
\* handlers of service.py interleave.
THEOREM TypeCorrect == Spec => []TypeOK
BY TypeInvariant, PTL DEF TypeInv

\* ---- A listed tunnel is complete, and has at most one closer

\* Handlers that set nothing up (any more) and close nothing.
Past == {"started", "serving", "done"}

\* What a setup has entered by the time it reaches an await.
StageInv ==
    \A t \in Requests :
        /\ pc[t] = "link" => "namespace" \in stack[t]
        /\ pc[t] \in {"attach", "configure", "services"} =>
              {"namespace", "link"} \subseteq stack[t]
        /\ pc[t] = "publish" => Complete \subseteq stack[t]

\* A listed tunnel is complete, was set up for that name by a handler that has
\* left its setup behind, and its stack is listed beside it.
RegistryInv ==
    \A n \in Names :
        /\ exit_stacks[n] = namespaces[n]
        /\ namespaces[n] # None =>
             /\ Complete \subseteq stack[namespaces[n]]
             /\ pc[namespaces[n]] \in Past
             /\ Name(namespaces[n]) = n

\* A failed setup closes its own stack, a destroy one that is listed no more.
CloserInv ==
    \A c \in Requests :
        /\ pc[c] = "unwind" => target[c] = c
        /\ pc[c] = "d_close" =>
             /\ target[c] \in Requests
             /\ pc[target[c]] \in Past
             /\ \A n \in Names : namespaces[n] # target[c]
             /\ \A d \in Requests :
                   pc[d] = "d_close" /\ target[d] = target[c] => c = d

LifeInv == TypeInv /\ StageInv /\ RegistryInv /\ CloserInv

LEMMA LifeInvInit == Init => LifeInv
BY TypeInvInit DEF Init, LifeInv, StageInv, RegistryInv, CloserInv

\* Steps that move no handler into or out of a closing or a listed position.
LEMMA LifeInvSetup ==
    ASSUME LifeInv, NEW t \in Requests, Setup(t)
    PROVE  LifeInv'
<1>0. TypeInv' /\ Name(t) \in Names /\ req'= req
  <2>1. pc[t] # "idle" /\ req' = req
    BY DEF Setup, EnterNamespace, LosePid, AddLink, AttachLink, ConfigureLink,
           StartServices, FailLink, FailSetup, Publish
  <2> QED
    BY <2>1, ArrivedName, TypeInvSetup DEF LifeInv
<1> USE NoneAssumption DEF LifeInv, TypeInv, TypeOK, StageInv, RegistryInv, CloserInv, Past, Maybe, Name, registry, Goto,
            Answer, Push, Complete
<1>1. CASE EnterNamespace(t)
  BY <1>0, <1>1 DEF EnterNamespace
<1>2. CASE AddLink(t)
  BY <1>0, <1>2 DEF AddLink
<1>3. CASE AttachLink(t)
  BY <1>0, <1>3 DEF AttachLink
<1>4. CASE ConfigureLink(t)
  BY <1>0, <1>4 DEF ConfigureLink
<1>5. CASE StartServices(t)
  BY <1>0, <1>5 DEF StartServices
<1>6. CASE FailLink(t)
  BY <1>0, <1>6 DEF FailLink, DeleteLink
<1>7. CASE FailSetup(t)
  <2>1. pc[t] \notin Past \cup {"d_close"}
    BY <1>7 DEF FailSetup
  <2>2. /\ UNCHANGED <<namespaces, exit_stacks, req, stack>>
        /\ \A u \in Requests \ {t} : pc'[u] = pc[u] /\ target'[u] = target[u]
        /\ \/ pc'[t] = "done"
           \/ pc'[t] = "unwind" /\ target'[t] = t
    BY <1>7 DEF FailSetup
  <2>3. StageInv' /\ RegistryInv'
    BY <2>1, <2>2
  <2>4. CloserInv'
    BY <2>1, <2>2
  <2> QED
    BY <1>0, <2>3, <2>4
<1>8. CASE Publish(t)
  <2>1. /\ pc[t] = "publish"
        /\ namespaces' = [namespaces EXCEPT ![Name(t)] = t]
        /\ exit_stacks' = [exit_stacks EXCEPT ![Name(t)] = t]
        /\ pc'[t] \in Past
        /\ \A u \in Requests \ {t} : pc'[u] = pc[u]
        /\ UNCHANGED <<req, target, stack>>
    BY <1>8 DEF Publish, Register
  <2>2. StageInv' /\ RegistryInv'
    BY <1>0, <2>1
  <2>3. CloserInv'
    BY <1>0, <2>1
  <2> QED
    BY <1>0, <2>2, <2>3
<1>9. CASE LosePid(t)
  BY <1>0, <1>9 DEF LosePid
<1> QED
  BY <1>1, <1>2, <1>3, <1>4, <1>5, <1>6, <1>7, <1>8, <1>9 DEF Setup

\* A destroy takes the stack of a listed tunnel, which nobody closes yet.
LEMMA LifeInvUnregister ==
    ASSUME LifeInv, TypeInv', NEW d \in Requests, NEW n \in Names, NEW down,
           pc[d] \in {"idle", "d_rebind", "d_wait"}, Unregister(d, n, down),
           stack' = stack, \A u \in Requests \ {d} : req'[u] = req[u]
    PROVE  LifeInv'
<1> USE NoneAssumption DEF LifeInv, TypeInv, TypeOK, StageInv, RegistryInv, CloserInv,
            Past, Maybe, Name, Goto, Answer, Complete
<1>1. /\ namespaces' = [namespaces EXCEPT ![n] = None]
      /\ exit_stacks' = [exit_stacks EXCEPT ![n] = None]
      /\ target' = [target EXCEPT ![d] = exit_stacks[n]]
      /\ \A u \in Requests \ {d} : pc'[u] = pc[u]
      /\ IF exit_stacks[n] = None THEN pc'[d] = "done" ELSE pc'[d] = "d_close"
  BY DEF Unregister, PopNamespace, PopStack
<1>2. StageInv' /\ RegistryInv'
  BY <1>1
<1>3. ASSUME NEW c \in Requests, pc'[c] = "unwind"
      PROVE  target'[c] = c
  BY <1>1, <1>3
<1>4. ASSUME NEW c \in Requests, pc'[c] = "d_close"
      PROVE  /\ target'[c] \in Requests
             /\ pc'[target'[c]] \in Past
             /\ \A m \in Names : namespaces'[m] # target'[c]
             /\ \A u \in Requests :
                   pc'[u] = "d_close" /\ target'[u] = target'[c] => c = u
  <2>1. CASE c = d
    BY <1>1, <1>4, <2>1
  <2>2. CASE c # d
    BY <1>1, <1>4, <2>2
  <2> QED
    BY <2>1, <2>2
<1> QED
  BY <1>2, <1>3, <1>4

LEMMA LifeInvArrival ==
    ASSUME LifeInv, NEW t \in Requests, Arrival(t)
    PROVE  LifeInv'
<1>0. TypeInv'
  BY TypeInvArrival DEF LifeInv
<1>1. PICK r \in Menu : \/ Refuse(t, r) \/ RejectRun(t, r) \/ AdmitRun(t, r)
                        \/ BeginSetup(t, r) \/ BeginDestroy(t, r)
  BY DEF Arrival
<1>2. /\ pc[t] = "idle"
      /\ req' = [req EXCEPT ![t] = r]
      /\ r.name \in Names
      /\ stack' = stack
  BY <1>1, MenuAssumption
     DEF Refuse, RejectRun, AdmitRun, BeginSetup, BeginDestroy, Arrive, RequestRecord
<1>3. CASE /\ UNCHANGED <<namespaces, exit_stacks>>
           /\ pc'[t] \in {"namespace", "done", "d_rebind", "d_wait"}
           /\ \A u \in Requests \ {t} : pc'[u] = pc[u] /\ target'[u] = target[u]
  <2> USE NoneAssumption DEF LifeInv, TypeInv, TypeOK, Past, Maybe, Name
  <2>1. StageInv'
    BY <1>2, <1>3 DEF StageInv
  <2>2. RegistryInv'
    BY <1>2, <1>3 DEF RegistryInv
  <2>3. CloserInv'
    BY <1>2, <1>3 DEF CloserInv
  <2> QED
    BY <1>0, <2>1, <2>2, <2>3
<1>4. CASE Unregister(t, r.name, Guarded(r.name))
  BY <1>0, <1>2, <1>4, LifeInvUnregister DEF LifeInv, TypeInv, TypeOK
<1>5. CASE Refuse(t, r) \/ RejectRun(t, r) \/ AdmitRun(t, r) \/ BeginSetup(t, r)
  BY <1>3, <1>5 DEF Refuse, RejectRun, AdmitRun, BeginSetup, registry, Goto, Answer, Arrive,
     LifeInv, TypeInv, TypeOK
<1>6. CASE BeginDestroy(t, r)
  BY <1>3, <1>4, <1>6 DEF BeginDestroy, WaitOrUnregister, registry, Goto, Answer,
     LifeInv, TypeInv, TypeOK
<1> QED
  BY <1>1, <1>5, <1>6

LEMMA LifeInvDestroying ==
    ASSUME LifeInv, NEW d \in Requests, DestroyAfterRebind(d) \/ DestroyAfterWait(d)
    PROVE  LifeInv'
<1>1. /\ TypeInv'
      /\ pc[d] \in {"d_rebind", "d_wait"}
      /\ UNCHANGED <<req, stack>>
      /\ Name(d) = req[d].name
  BY TypeInvDestroying DEF LifeInv, DestroyAfterRebind, DestroyAfterWait, Name
<1>2. Name(d) \in Names
  BY <1>1, ArrivedName DEF LifeInv
<1>3. CASE Unregister(d, Name(d), shutting_down)
  BY <1>1, <1>2, <1>3, LifeInvUnregister
<1>4. CASE /\ UNCHANGED <<namespaces, exit_stacks, target>>
           /\ Goto(d, "d_wait")
  BY <1>1, <1>4, NoneAssumption DEF LifeInv, TypeInv, TypeOK, StageInv, RegistryInv,
     CloserInv, Past, Maybe, Name, Goto
<1> QED
  BY <1>1, <1>3, <1>4 DEF DestroyAfterRebind, DestroyAfterWait, WaitOrUnregister, registry

\* Only what nobody lists, and no setup is still building, is released.
LEMMA LifeInvRelease ==
    ASSUME LifeInv, NEW c \in Requests, Release(c)
    PROVE  LifeInv'
<1> DEFINE s == target[c]
<1> USE NoneAssumption DEF LifeInv, TypeInv, TypeOK, StageInv, RegistryInv, CloserInv,
            Past, Maybe, Name, registry, Answer, Goto
<1>1. /\ TypeInv'
      /\ pc[c] \in {"unwind", "d_close"}
      /\ UNCHANGED <<namespaces, exit_stacks, req, target>>
      /\ \A u \in Requests : u # s => stack'[u] = stack[u]
      /\ \A u \in Requests : u # c => pc'[u] = pc[u]
      /\ pc'[c] \in {pc[c], "done"}
  <2>1. /\ TypeInv'
        /\ pc[c] \in {"unwind", "d_close"}
        /\ UNCHANGED <<namespaces, exit_stacks, req, target>>
    BY TypeInvDestroying DEF Release
  <2>2. \A u \in Requests : u # s => stack'[u] = stack[u]
    BY DEF Release
  <2>3. /\ \A u \in Requests : u # c => pc'[u] = pc[u]
        /\ pc'[c] \in {pc[c], "done"}
    BY DEF Release
  <2> QED
    BY <2>1, <2>2, <2>3
<1>2. /\ s \in Requests
      /\ pc[s] \in Past \cup {"unwind"}
      /\ \A n \in Names : namespaces[n] # s
  BY <1>1
<1>3. StageInv'
  BY <1>1, <1>2
<1>4. RegistryInv'
  BY <1>1, <1>2
<1>5. CloserInv'
  BY <1>1
<1> QED
  BY <1>1, <1>3, <1>4, <1>5

LEMMA LifeInvServing ==
    ASSUME LifeInv, NEW t \in Requests, Serving(t)
    PROVE  LifeInv'
<1>1. /\ TypeInv'
      /\ pc[t] \in Past /\ pc'[t] \in Past
      /\ \A u \in Requests : u # t => pc'[u] = pc[u]
      /\ UNCHANGED <<namespaces, exit_stacks, req, target, stack>>
  BY TypeInvServing DEF LifeInv, TypeInv, TypeOK, Serving, Serve, FailServe, StartStops,
     Past, Goto, Answer, registry
<1>2. \A u \in Requests : pc[u] \in Past => pc'[u] \in Past
  BY <1>1
<1>3. StageInv'
  BY <1>1 DEF LifeInv, StageInv, Past
<1>4. RegistryInv'
  <2>1. \A n \in Names : namespaces[n] # None => namespaces[n] \in Requests
    BY DEF LifeInv, TypeInv, TypeOK, Maybe
  <2> QED
    BY <1>1, <1>2, <2>1 DEF LifeInv, RegistryInv, Name
<1>5. CloserInv'
  BY <1>1, <1>2 DEF LifeInv, CloserInv, Past
<1> QED
  BY <1>1, <1>3, <1>4, <1>5 DEF LifeInv

\* A rebind loop only ever adds to an exit stack.
LEMMA LifeInvRebinding ==
    ASSUME LifeInv, NEW t \in Requests, Rebinding(t)
    PROVE  LifeInv'
<1>1. /\ TypeInv'
      /\ \A u \in Requests : stack[u] \subseteq stack'[u]
      /\ UNCHANGED <<namespaces, exit_stacks, req, target, pc>>
  BY TypeInvRebinding DEF LifeInv, TypeInv, TypeOK, Rebinding, RebindWake, RebindNextPort,
     RebindDone, RebindRaises, Push, registry
<1> QED
  BY <1>1, NoneAssumption DEF LifeInv, TypeInv, TypeOK, StageInv, RegistryInv, CloserInv,
     Past, Maybe, Name

\* What runs in a tunnel enters and leaves the books only.
LEMMA LifeInvRunning ==
    ASSUME LifeInv, NEW t \in Requests, Running(t)
    PROVE  LifeInv'
<1>1. TypeInv' /\ UNCHANGED <<namespaces, exit_stacks, req, target, pc, stack>>
  BY TypeInvRunning DEF LifeInv, Running, SpawnRun, RestartRun, EndRun, LeaveBooks, registry
<1> QED
  BY <1>1 DEF LifeInv, StageInv, RegistryInv, CloserInv, Name

LEMMA LifeInvNext == LifeInv /\ [Next]_vars => LifeInv'
<1> SUFFICES ASSUME LifeInv, [Next]_vars PROVE LifeInv'
  OBVIOUS
<1>1. CASE UNCHANGED vars
  BY <1>1, TypeInvNext DEF LifeInv, StageInv, RegistryInv, CloserInv, Name, vars, registry
<1>2. ASSUME NEW t \in Requests, Step(t) PROVE LifeInv'
  BY <1>2, LifeInvSetup, LifeInvServing, LifeInvRebinding, LifeInvArrival,
     LifeInvDestroying, LifeInvRelease, LifeInvRunning DEF Step
<1> QED
  BY <1>1, <1>2 DEF Next

LEMMA LifeInvariant == Spec => []LifeInv
BY LifeInvInit, LifeInvNext, PTL DEF Spec

\* list-tunnels never shows a tunnel whose teardown has begun, whatever the
\* clients send and however their handlers interleave (service.py:606-608).
THEOREM ListedTunnelsAreComplete == Spec => []ListedIsComplete
<1>1. LifeInv => ListedIsComplete
  BY NoneAssumption DEF LifeInv, TypeInv, TypeOK, RegistryInv, CloserInv, ListedIsComplete, Closing, Past, Maybe
<1> QED
  BY <1>1, LifeInvariant, PTL

\* No exit stack is ever closed by two handlers.
THEOREM StacksHaveOneCloser == Spec => []SingleCloser
<1>1. LifeInv => SingleCloser
  BY NoneAssumption DEF LifeInv, TypeInv, TypeOK, CloserInv, SingleCloser, Closing, Past
<1> QED
  BY <1>1, LifeInvariant, PTL
=============================================================================
