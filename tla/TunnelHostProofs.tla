-------------------------- MODULE TunnelHostProofs --------------------------
(* Proofs about TunnelService: what the host keeps, and the destroy guard,  *)
(* for any set of requests, names, slots and messages.                      *)
EXTENDS TunnelServiceProofs

\* Where a rebind loop pushes a port: on the stack of a tunnel once listed.
LoopInv ==
    \A t \in Requests :
        rebind[t] = "alloc" => rstack[t] \in Requests /\ pc[rstack[t]] \in Past

\* Before its namespace is entered a handler holds nothing, a setup that fails
\* holds the namespace first, and neither awaits a stack's closing.
EmptyInv ==
    \A t \in Requests :
        /\ pc[t] \in SettingUp \cup {"idle", "failed"} => target[t] = None
        /\ pc[t] \in {"idle", "namespace"} => stack[t] = {}
        /\ pc[t] = "failed" => "namespace" \in stack[t] \/ stack[t] = {}

\* The veth pair of a tunnel is the one of its slot.
SlotInv ==
    \A s \in Slots : link[s] # None => Slot[Name(link[s])] = s

HostInv == LifeInv /\ LoopInv /\ EmptyInv /\ SlotInv /\ HostIsOwned

LEMMA HostInvInit == Init => HostInv
BY LifeInvInit DEF Init, HostInv, LoopInv, EmptyInv, SlotInv, HostIsOwned, Past

\* What a step must not do to keep HostInv when it leaves the host alone.
Harmless ==
    /\ UNCHANGED <<holder, link>>
    /\ \A u \in Requests :
          /\ "namespace" \in stack'[u] <=> "namespace" \in stack[u]
          /\ "link" \in stack'[u] <=> "link" \in stack[u]
          /\ pc[u] \in Past => pc'[u] \in Past
          /\ pc[u] # "idle" => req'[u] = req[u]
          /\ FailedAtOnce(u) => FailedAtOnce(u)' \/ "namespace" \in stack[u]
          /\ rebind'[u] = "alloc" => rstack'[u] \in Requests /\ pc'[rstack'[u]] \in Past

LEMMA HarmlessStep ==
    ASSUME HostInv, LifeInv', EmptyInv', Harmless
    PROVE  HostInv'
<1> USE DEF HostInv, LifeInv, TypeInv, TypeOK, Maybe, Harmless
<1>1. LoopInv'
  BY DEF LoopInv
<1>2. SlotInv' /\ HostIsOwned'
  <2>1. ASSUME NEW x \in Slots, link'[x] # None
        PROVE  "link" \in stack'[link'[x]] /\ Slot[req'[link'[x]].name] = x
    <3>1. link[x] \in Requests /\ link'[x] = link[x] /\ "link" \in stack[link[x]]
      BY <2>1 DEF HostIsOwned
    <3>2. pc[link[x]] # "idle"
      BY <3>1 DEF EmptyInv
    <3> QED
      BY <2>1, <3>1, <3>2 DEF SlotInv, Name
  <2>2. ASSUME NEW u \in Requests, u \in holder'
        PROVE  "namespace" \in stack'[u] \/ FailedAtOnce(u)'
    BY <2>2 DEF HostIsOwned
  <2>3. ASSUME NEW u \in Requests, "namespace" \in stack'[u]
        PROVE  u \in holder'
    BY <2>3 DEF HostIsOwned
  <2> QED
    BY <2>1, <2>2, <2>3 DEF SlotInv, HostIsOwned, Name
<1> QED
  BY <1>1, <1>2

LEMMA HostInvServing ==
    ASSUME HostInv, NEW t \in Requests, Serving(t)
    PROVE  HostInv'
<1> USE DEF HostInv, LifeInv, TypeInv, TypeOK, Maybe
<1>1. LifeInv'
  BY LifeInvServing
<1>2. /\ pc[t] \in {"started", "serving"} /\ pc'[t] \in Past
      /\ \A u \in Requests : u # t => pc'[u] = pc[u] /\ outcome'[u] = outcome[u]
      /\ \A u \in Requests : rebind'[u] = "alloc" => rebind[u] = "alloc"
      /\ UNCHANGED <<rstack, req, target, stack, host>>
  BY DEF Serving, Serve, FailServe, StartStops, Past, Goto, Answer, loops, Cancelled
<1>3. EmptyInv'
  BY <1>2 DEF EmptyInv, SettingUp, Past
<1>4. Harmless
  BY <1>2 DEF Harmless, LoopInv, Past, FailedAtOnce, host
<1> QED
  BY <1>1, <1>3, <1>4, HarmlessStep

LEMMA HostInvRebinding ==
    ASSUME HostInv, NEW t \in Requests, Rebinding(t)
    PROVE  HostInv'
<1> USE DEF HostInv, LifeInv, TypeInv, TypeOK, Maybe
<1>1. LifeInv'
  BY LifeInvRebinding
<1>2. /\ UNCHANGED <<req, pc, target, outcome, host>>
      /\ \A u \in Requests : u # t => rebind'[u] = rebind[u] /\ rstack'[u] = rstack[u]
      /\ \/ UNCHANGED stack
         \/ rebind[t] = "alloc" /\ Push(rstack[t], "port")
  BY DEF Rebinding, RebindWake, RebindNextPort, RebindDone, RebindRaises
<1>3. rebind'[t] = "alloc" => rstack'[t] \in Requests /\ pc[rstack'[t]] \in Past
  <2>1. SUFFICES ASSUME rebind'[t] = "alloc"
                 PROVE  rstack'[t] # None /\ rstack'[t] = exit_stacks[Name(t)]
    <3>1. Name(t) \in Names
      BY ArrivedName DEF Arrived, Rebinding, RebindWake, RebindNextPort, RebindDone, RebindRaises
    <3> QED
      BY <2>1, <3>1 DEF RegistryInv
  <2> QED
    BY <2>1 DEF Rebinding, RebindWake, RebindNextPort, RebindDone, RebindRaises
<1>4. EmptyInv'
  BY <1>2 DEF EmptyInv, LoopInv, SettingUp, Past, Push
<1>5. Harmless
  BY <1>2, <1>3 DEF Harmless, LoopInv, Past, FailedAtOnce, host, Push
<1> QED
  BY <1>1, <1>4, <1>5, HarmlessStep

LEMMA HostInvSetup ==
    ASSUME HostInv, NEW t \in Requests, Setup(t)
    PROVE  HostInv'
<1> USE DEF HostInv, LifeInv, TypeInv, TypeOK, Maybe
<1>0. /\ LifeInv' /\ req' = req
      /\ pc[t] \in SettingUp \cup {"failed"}
      /\ Name(t) \in Names /\ Slot[Name(t)] \in Slots
      /\ UNCHANGED loops \/ Publish(t)
  <2>1. LifeInv'
    BY LifeInvSetup
  <2>2. /\ req' = req /\ pc[t] \in SettingUp \cup {"failed"}
        /\ UNCHANGED loops \/ Publish(t)
    BY DEF Setup, EnterNamespace, LosePid, AddLink, AttachLink, ConfigureLink,
           StartServices, FailLink, FailSetup, Publish, SettingUp
  <2>3. Name(t) \in Names
    BY <2>2, ArrivedName DEF SettingUp
  <2> QED
    BY <2>1, <2>2, <2>3, SlotAssumption
<1>1. CASE EnterNamespace(t)
  <2>1. EmptyInv' /\ LoopInv'
    BY <1>0, <1>1 DEF EnterNamespace, EmptyInv, LoopInv, Past, SettingUp, Goto, Push, loops
  <2>2. SlotInv'
    BY <1>0, <1>1 DEF EnterNamespace, SlotInv, Name
  <2>3. HostIsOwned'
    BY <1>0, <1>1 DEF EnterNamespace, HostIsOwned, FailedAtOnce, Goto, Push, SettingUp
  <2> QED
    BY <1>0, <2>1, <2>2, <2>3
<1>2. CASE LosePid(t)
  <2>1. EmptyInv' /\ LoopInv'
    BY <1>0, <1>2 DEF LosePid, EmptyInv, LoopInv, Past, SettingUp, Goto, loops
  <2>2. SlotInv'
    BY <1>0, <1>2 DEF LosePid, SlotInv, Name
  <2>3. HostIsOwned'
    BY <1>0, <1>2 DEF LosePid, HostIsOwned, FailedAtOnce, Goto, SettingUp
  <2> QED
    BY <1>0, <2>1, <2>2, <2>3
<1>3. CASE AddLink(t)
  <2>1. EmptyInv' /\ LoopInv'
    BY <1>0, <1>3 DEF AddLink, EmptyInv, LoopInv, Past, SettingUp, Goto, Push, loops
  <2>2. SlotInv'
    BY <1>0, <1>3 DEF AddLink, SlotInv, Name
  <2>3. HostIsOwned'
    BY <1>0, <1>3 DEF AddLink, HostIsOwned, FailedAtOnce, Goto, Push, SettingUp
  <2> QED
    BY <1>0, <2>1, <2>2, <2>3
<1>4. CASE FailLink(t)
  <2>1. EmptyInv' /\ LoopInv'
    BY <1>0, <1>4 DEF FailLink, EmptyInv, LoopInv, StageInv, Past, SettingUp, Goto, loops
  <2>2. SlotInv'
    BY <1>0, <1>4 DEF FailLink, DeleteLink, SlotInv, Name
  <2>3. HostIsOwned'
    BY <1>0, <1>4 DEF FailLink, DeleteLink, SlotInv, HostIsOwned, FailedAtOnce, Goto, SettingUp, Name
  <2> QED
    BY <1>0, <2>1, <2>2, <2>3
<1>5. CASE AttachLink(t)
  <2>1. EmptyInv'
    BY <1>0, <1>5 DEF AttachLink, EmptyInv, SettingUp, Goto, Push
  <2>2. Harmless
    BY <1>0, <1>5 DEF AttachLink, Harmless, LoopInv, Past, FailedAtOnce, SettingUp, Goto,
       Push, loops, host
  <2> QED
    BY <1>0, <2>1, <2>2, HarmlessStep
<1>6. CASE ConfigureLink(t)
  <2>1. EmptyInv'
    BY <1>0, <1>6 DEF ConfigureLink, EmptyInv, SettingUp, Goto, Push
  <2>2. Harmless
    BY <1>0, <1>6 DEF ConfigureLink, Harmless, LoopInv, Past, FailedAtOnce, SettingUp, Goto,
       Push, loops, host
  <2> QED
    BY <1>0, <2>1, <2>2, HarmlessStep
<1>7. CASE StartServices(t)
  <2>1. EmptyInv'
    BY <1>0, <1>7 DEF StartServices, EmptyInv, SettingUp, Goto, Push
  <2>2. Harmless
    BY <1>0, <1>7 DEF StartServices, Harmless, LoopInv, Past, FailedAtOnce, SettingUp, Goto,
       Push, loops, host
  <2> QED
    BY <1>0, <2>1, <2>2, HarmlessStep
<1>8. CASE FailSetup(t)
  <2>1. EmptyInv'
    BY <1>0, <1>8 DEF FailSetup, EmptyInv, SettingUp, Goto, Answer
  <2>2. /\ UNCHANGED <<stack, rebind, rstack, holder, link>>
        /\ pc[t] \in {"namespace", "link", "services", "publish", "failed"}
        /\ \A u \in Requests \ {t} :
              pc'[u] = pc[u] /\ outcome'[u] = outcome[u] /\ target'[u] = target[u]
    BY <1>8 DEF FailSetup, Goto, Answer, loops, host
  <2>3. \/ /\ stack[t] = {} /\ target'[t] = target[t]
           /\ pc'[t] = "done" /\ outcome'[t] = "error"
        \/ stack[t] # {}
    BY <1>8 DEF FailSetup, Goto, Answer
  <2>4. FailedAtOnce(t) => FailedAtOnce(t)' \/ "namespace" \in stack[t]
    BY <2>2, <2>3 DEF FailedAtOnce, EmptyInv
  <2>5. Harmless
    BY <1>0, <2>2, <2>4 DEF Harmless, LoopInv, Past, FailedAtOnce
  <2> QED
    BY <1>0, <2>1, <2>5, HarmlessStep
<1>9. CASE Publish(t)
  <2>1. EmptyInv'
    BY <1>0, <1>9 DEF Publish, Register, EmptyInv, SettingUp, Goto, Answer
  <2>2. /\ UNCHANGED <<stack, target, rstack, holder, link>>
        /\ pc[t] = "publish" /\ pc'[t] \in Past
        /\ \A u \in Requests \ {t} : pc'[u] = pc[u] /\ outcome'[u] = outcome[u]
        /\ \A u \in Requests : rebind'[u] = "alloc" => rebind[u] = "alloc"
    BY <1>9 DEF Publish, Register, Past, Goto, Answer, host
  <2>3. Harmless
    BY <1>0, <2>2 DEF Harmless, LoopInv, Past, FailedAtOnce
  <2> QED
    BY <1>0, <2>1, <2>3, HarmlessStep
<1> QED
  BY <1>1, <1>2, <1>3, <1>4, <1>5, <1>6, <1>7, <1>8, <1>9 DEF Setup

LEMMA HostInvArrival ==
    ASSUME HostInv, NEW t \in Requests, Arrival(t)
    PROVE  HostInv'
<1> USE DEF HostInv, LifeInv, TypeInv, TypeOK, Maybe
<1>1. LifeInv'
  BY LifeInvArrival
<1>2. /\ pc[t] = "idle"
      /\ pc'[t] \in {"namespace", "done"} \cup Destroying
      /\ pc'[t] = "namespace" => UNCHANGED target
      /\ UNCHANGED <<stack, holder, link, rstack>>
      /\ \A u \in Requests : rebind'[u] = "alloc" => rebind[u] = "alloc"
      /\ \A u \in Requests : u # t => /\ pc'[u] = pc[u] /\ outcome'[u] = outcome[u]
                                      /\ target'[u] = target[u] /\ req'[u] = req[u]
  <2>1. PICK r \in Menu : \/ Refuse(t, r) \/ RejectRun(t, r) \/ AdmitRun(t, r)
                          \/ BeginSetup(t, r) \/ BeginDestroy(t, r)
    BY DEF Arrival
  <2>2. CASE Refuse(t, r) \/ RejectRun(t, r) \/ AdmitRun(t, r) \/ BeginSetup(t, r)
    BY <2>2 DEF Refuse, RejectRun, AdmitRun, BeginSetup, Arrive, Goto, Answer, loops, host,
          Destroying
  <2>3. CASE BeginDestroy(t, r)
    BY <2>3 DEF BeginDestroy, WaitOrUnregister, Unregister, Arrive, Goto, Answer, Cancelled,
          host, Destroying
  <2> QED
    BY <2>1, <2>2, <2>3
<1>3. EmptyInv'
  BY <1>2 DEF EmptyInv, SettingUp, Destroying
<1>4. Harmless
  BY <1>2 DEF Harmless, LoopInv, Past, FailedAtOnce, Destroying
<1> QED
  BY <1>1, <1>3, <1>4, HarmlessStep

LEMMA HostInvDestroying ==
    ASSUME HostInv, NEW d \in Requests, DestroyAfterRebind(d) \/ DestroyAfterWait(d)
    PROVE  HostInv'
<1> USE DEF HostInv, LifeInv, TypeInv, TypeOK, Maybe
<1>1. LifeInv'
  BY LifeInvDestroying
<1>2. /\ pc[d] \in Destroying /\ pc'[d] \in {"done"} \cup Destroying
      /\ UNCHANGED <<req, stack, loops, host>>
      /\ \A u \in Requests : u # d => /\ pc'[u] = pc[u] /\ outcome'[u] = outcome[u]
                                      /\ target'[u] = target[u]
  BY DEF DestroyAfterRebind, DestroyAfterWait, WaitOrUnregister, Unregister, Goto, Answer,
     Destroying
<1>3. EmptyInv'
  BY <1>2 DEF EmptyInv, SettingUp, Destroying
<1>4. Harmless
  BY <1>2 DEF Harmless, LoopInv, Past, FailedAtOnce, Destroying, loops, host
<1> QED
  BY <1>1, <1>3, <1>4, HarmlessStep

\* A context manager that is left takes along what it has put on the host.
LEMMA HostInvRelease ==
    ASSUME HostInv, NEW c \in Requests, Release(c)
    PROVE  HostInv'
<1> DEFINE s == target[c]
           m == TopOf(stack[s])
<1> USE DEF HostInv, LifeInv, TypeInv, TypeOK, Maybe
<1>1. LifeInv'
  BY LifeInvRelease
<1>2. /\ pc[c] \in {"unwind", "d_close"}
      /\ s \in Requests
      /\ pc[s] \in Past \cup {"unwind"}
  BY DEF Release, CloserInv
<1>3. Name(s) \in Names /\ Slot[Name(s)] \in Slots
  BY <1>2, ArrivedName, SlotAssumption DEF Past
<1>4. /\ UNCHANGED <<req, target, loops>>
      /\ pc'[c] \in {pc[c], "done"}
      /\ \A u \in Requests : u # c => pc'[u] = pc[u] /\ outcome'[u] = outcome[u]
  BY DEF Release, Answer, Goto
<1>5. /\ stack' = [stack EXCEPT ![s] = @ \ {m}]
      /\ LeaveManager(s, m)
  BY DEF Release
<1>6. EmptyInv' /\ LoopInv'
  <2>1. \A u \in Requests : u # s => stack'[u] = stack[u]
    BY <1>5
  <2>2. EmptyInv'
    BY <1>2, <1>4, <2>1 DEF EmptyInv, SettingUp, Past
  <2>3. LoopInv'
    BY <1>2, <1>4 DEF LoopInv, Past, loops
  <2> QED
    BY <2>2, <2>3
<1>7. \A x \in Slots : link'[x] \in {link[x], None}
  <2>1. CASE m = "link"
    BY <1>3, <1>5, <2>1 DEF LeaveManager, DeleteLink
  <2>2. CASE m = "namespace"
    BY <1>5, <2>2 DEF LeaveManager
  <2>3. CASE m \notin {"link", "namespace"}
    BY <1>5, <2>3 DEF LeaveManager, host
  <2> QED
    BY <2>1, <2>2, <2>3
<1>8. SlotInv'
  BY <1>4, <1>7 DEF SlotInv, Name
<1>9. HostIsOwned'
  <2>1. \A t \in Requests : "namespace" \in stack'[t] => t \in holder'
    <3>1. CASE m = "namespace"
      BY <1>2, <1>5, <3>1 DEF LeaveManager, HostIsOwned
    <3>2. CASE m # "namespace"
      BY <1>2, <1>5, <3>2 DEF LeaveManager, HostIsOwned, host
    <3> QED
      BY <3>1, <3>2
  <2>2. \A t \in holder' : "namespace" \in stack'[t] \/ FailedAtOnce(t)'
    <3>1. \A t \in Requests : FailedAtOnce(t) => FailedAtOnce(t)'
      BY <1>2, <1>4 DEF FailedAtOnce
    <3>2. CASE m = "namespace"
      BY <1>2, <1>5, <3>1, <3>2 DEF LeaveManager, HostIsOwned
    <3>3. CASE m # "namespace"
      BY <1>2, <1>5, <3>1, <3>3 DEF LeaveManager, HostIsOwned, host
    <3> QED
      BY <3>2, <3>3
  <2>3. ASSUME NEW x \in Slots, link'[x] # None
        PROVE  "link" \in stack'[link'[x]]
    <3>1. link'[x] = link[x] /\ "link" \in stack[link[x]] /\ link[x] \in Requests
      BY <1>7, <2>3 DEF HostIsOwned
    <3>2. CASE link[x] = s /\ m = "link"
      BY <1>3, <1>5, <2>3, <3>1, <3>2 DEF LeaveManager, DeleteLink, SlotInv
    <3>3. CASE link[x] # s \/ m # "link"
      BY <1>2, <1>5, <3>1, <3>3
    <3> QED
      BY <3>2, <3>3
  <2> QED
    BY <2>1, <2>2, <2>3 DEF HostIsOwned
<1> QED
  BY <1>1, <1>6, <1>8, <1>9

LEMMA HostInvRunning ==
    ASSUME HostInv, NEW t \in Requests, Running(t)
    PROVE  HostInv'
<1>1. LifeInv' /\ UNCHANGED <<req, pc, target, outcome, rebind, rstack, stack, holder, link>>
  BY LifeInvRunning DEF HostInv, Running, SpawnRun, RestartRun, EndRun, LeaveBooks, loops, host
<1> QED
  BY <1>1 DEF HostInv, LoopInv, EmptyInv, SlotInv, HostIsOwned, FailedAtOnce, Name

LEMMA HostInvNext == HostInv /\ [Next]_vars => HostInv'
<1> SUFFICES ASSUME HostInv, [Next]_vars PROVE HostInv'
  OBVIOUS
<1>1. CASE UNCHANGED vars
  <2>1. LifeInv'
    BY <1>1, LifeInvNext DEF HostInv
  <2>2. LoopInv' /\ EmptyInv'
    BY <1>1 DEF HostInv, LoopInv, EmptyInv, vars, loops
  <2>3. SlotInv' /\ HostIsOwned'
    BY <1>1 DEF HostInv, SlotInv, HostIsOwned, FailedAtOnce, Name, vars, host
  <2> QED
    BY <2>1, <2>2, <2>3 DEF HostInv
<1>2. ASSUME NEW t \in Requests, Step(t) PROVE HostInv'
  BY <1>2, HostInvSetup, HostInvServing, HostInvRebinding, HostInvArrival,
     HostInvDestroying, HostInvRelease, HostInvRunning DEF Step
<1> QED
  BY <1>1, <1>2 DEF Next

\* Nothing stays on the host that no context manager answers for, whatever the
\* clients send: a namespace process lives exactly as long as its Namespace is
\* entered (but for LosePid's), a veth pair no longer than NetworkInterfaces.
THEOREM HostStaysOwned == Spec => []HostIsOwned
<1>1. HostInv => HostIsOwned
  BY DEF HostInv
<1> QED
  BY <1>1, HostInvInit, HostInvNext, PTL DEF Spec

\* ---- The destroy guard

GuardInv == TypeInv /\ GuardLifted

LEMMA GuardInvInit == Init => GuardInv
BY TypeInvInit DEF Init, GuardInv, GuardLifted

\* A step that adds no name keeps its promise if it ends no destroy.
LEMMA GuardKeptStep ==
    ASSUME GuardInv, TypeInv', shutting_down' \subseteq shutting_down,
           \A u \in Requests : pc[u] \in Destroying => pc'[u] \in Destroying /\ req'[u] = req[u]
    PROVE  GuardInv'
BY DEF GuardInv, GuardLifted, InFlight, Name

\* A destroy that goes on keeps its name, one that ends lifts it.
LEMMA GuardDestroyStep ==
    ASSUME GuardInv, TypeInv', NEW d \in Requests,
           req'[d].name \in Names,
           \A u \in Requests \ {d} : pc'[u] = pc[u] /\ req'[u] = req[u],
           pc[d] \in {"idle"} \cup Destroying,
           pc[d] \in Destroying => req'[d] = req[d],
           \/ /\ pc'[d] \in Destroying
              /\ shutting_down' \subseteq shutting_down \cup {req'[d].name}
           \/ shutting_down' \subseteq shutting_down \ {req'[d].name}
    PROVE  GuardInv'
<1>1. ASSUME NEW n \in shutting_down'
      PROVE  \E u \in Requests : pc'[u] \in Destroying /\ req'[u].name = n
  <2>1. CASE pc'[d] \in Destroying /\ n = req'[d].name
    BY <2>1
  <2>2. CASE n \in shutting_down /\ pc[d] \in Destroying /\ n = req'[d].name
    BY <1>1, <2>2
  <2>3. CASE n \in shutting_down /\ n # req'[d].name
    <3>1. PICK u \in Requests : pc[u] \in Destroying /\ req[u].name = n
      BY <2>3 DEF GuardInv, GuardLifted, InFlight, Name
    <3>2. u # d
      BY <2>3, <3>1
    <3> QED
      BY <3>1, <3>2
  <2>4. CASE n \in shutting_down /\ pc[d] = "idle" /\ n = req'[d].name
    <3>1. PICK u \in Requests : pc[u] \in Destroying /\ req[u].name = n
      BY <2>4 DEF GuardInv, GuardLifted, InFlight, Name
    <3>2. u # d
      BY <2>4, <3>1 DEF Destroying
    <3> QED
      BY <3>1, <3>2
  <2> QED
    BY <1>1, <2>1, <2>2, <2>3, <2>4
<1> QED
  BY <1>1 DEF GuardInv, GuardLifted, InFlight, Name

LEMMA GuardInvNext == GuardInv /\ [Next]_vars => GuardInv'
<1> SUFFICES ASSUME GuardInv, [Next]_vars PROVE GuardInv'
  OBVIOUS
<1>0. TypeInv'
  BY TypeInvNext DEF GuardInv
<1>1. CASE UNCHANGED vars
  BY <1>0, <1>1, GuardKeptStep DEF vars
<1>2. ASSUME NEW t \in Requests, Step(t) PROVE GuardInv'
  <2> USE DEF GuardInv, TypeInv, TypeOK, Destroying
  <2>1. CASE Setup(t) \/ Serving(t)
    <3>1. /\ UNCHANGED <<req, shutting_down>> /\ pc[t] \notin Destroying
          /\ \A u \in Requests \ {t} : pc'[u] = pc[u]
      BY <2>1 DEF Setup, EnterNamespace, LosePid, AddLink, AttachLink, ConfigureLink,
         StartServices, FailLink, FailSetup, Publish, Serving, Serve, FailServe, StartStops,
         SettingUp, Goto, Answer
    <3> QED
      BY <1>0, <3>1, GuardKeptStep
  <2>2. CASE Rebinding(t)
    <3>1. UNCHANGED <<req, shutting_down, pc>>
      BY <2>2 DEF Rebinding, RebindWake, RebindNextPort, RebindDone, RebindRaises
    <3> QED
      BY <1>0, <3>1, GuardKeptStep
  <2>3. CASE Arrival(t)
    <3>1. PICK r \in Menu : \/ Refuse(t, r) \/ RejectRun(t, r) \/ AdmitRun(t, r)
                            \/ BeginSetup(t, r) \/ BeginDestroy(t, r)
      BY <2>3 DEF Arrival
    <3>2. /\ pc[t] = "idle" /\ req' = [req EXCEPT ![t] = r] /\ r.name \in Names
          /\ \A u \in Requests \ {t} : pc'[u] = pc[u]
      <4>1. r.name \in Names
        BY MenuAssumption DEF RequestRecord
      <4>2. pc[t] = "idle" /\ req' = [req EXCEPT ![t] = r]
        BY <3>1 DEF Refuse, RejectRun, AdmitRun, BeginSetup, BeginDestroy, Arrive
      <4>3. \A u \in Requests \ {t} : pc'[u] = pc[u]
        BY <3>1 DEF Refuse, RejectRun, AdmitRun, BeginSetup, BeginDestroy, WaitOrUnregister,
           Unregister, Goto, Answer
      <4> QED
        BY <4>1, <4>2, <4>3
    <3>3. CASE Refuse(t, r) \/ RejectRun(t, r) \/ AdmitRun(t, r) \/ BeginSetup(t, r)
      <4>1. UNCHANGED shutting_down
        BY <3>3 DEF Refuse, RejectRun, AdmitRun, BeginSetup
      <4> QED
        BY <1>0, <3>2, <4>1, GuardKeptStep
    <3>4. CASE BeginDestroy(t, r)
      <4>1. \/ pc'[t] \in Destroying /\ shutting_down' = Guarded(r.name)
            \/ shutting_down' = LiftGuard(r.name, Guarded(r.name))
        BY <3>4 DEF BeginDestroy, WaitOrUnregister, Unregister, Goto
      <4>2. req'[t].name = r.name
        BY <3>2
      <4> QED
        BY <1>0, <3>2, <4>1, <4>2, GuardDestroyStep DEF Guarded, LiftGuard
    <3> QED
      BY <3>1, <3>3, <3>4
  <2>4. CASE DestroyAfterRebind(t) \/ DestroyAfterWait(t)
    <3>1. /\ pc[t] \in Destroying /\ UNCHANGED req
          /\ \A u \in Requests \ {t} : pc'[u] = pc[u]
          /\ \/ pc'[t] \in Destroying /\ shutting_down' = shutting_down
             \/ shutting_down' = LiftGuard(Name(t), shutting_down)
      BY <2>4 DEF DestroyAfterRebind, DestroyAfterWait, WaitOrUnregister, Unregister, Goto,
         Answer, Name
    <3>2. Name(t) \in Names
      BY <3>1, ArrivedName
    <3> QED
      BY <1>0, <3>1, <3>2, GuardDestroyStep DEF LiftGuard, Name
  <2>5. CASE Release(t)
    <3>1. /\ UNCHANGED req
          /\ \A u \in Requests \ {t} : pc'[u] = pc[u]
          /\ pc[t] \in {"unwind", "d_close"}
          /\ \/ pc[t] = "unwind" /\ UNCHANGED shutting_down
             \/ UNCHANGED <<pc, shutting_down>>
             \/ pc[t] = "d_close" /\ shutting_down' = LiftGuard(Name(t), shutting_down)
      BY <2>5 DEF Release, Answer, Goto
    <3>2. Name(t) \in Names
      BY <3>1, ArrivedName
    <3>3. CASE \/ pc[t] = "unwind" /\ UNCHANGED shutting_down
               \/ UNCHANGED <<pc, shutting_down>>
      BY <1>0, <3>1, <3>3, GuardKeptStep
    <3>4. CASE pc[t] = "d_close" /\ shutting_down' = LiftGuard(Name(t), shutting_down)
      BY <1>0, <3>1, <3>2, <3>4, GuardDestroyStep DEF LiftGuard, Name
    <3> QED
      BY <3>1, <3>3, <3>4
  <2>6. CASE Running(t)
    <3>1. UNCHANGED <<req, shutting_down, pc>>
      BY <2>6 DEF Running, SpawnRun, RestartRun, EndRun, LeaveBooks
    <3> QED
      BY <1>0, <3>1, GuardKeptStep
  <2> QED
    BY <1>2, <2>1, <2>2, <2>3, <2>4, <2>5, <2>6 DEF Step
<1> QED
  BY <1>1, <1>2 DEF Next

\* Nothing keeps a name blocked for RunProcess once no DestroyTunnel is left,
\* however many were sent for it at once (the finally clause, service.py:627).
THEOREM GuardIsLifted == Spec => []GuardLifted
BY GuardInvInit, GuardInvNext, PTL DEF Spec, GuardInv
=============================================================================
