-------------------------- MODULE TunnelSerialProofs --------------------------
(* Proofs about TunnelService when clients overlap neither two setups nor     *)
(* two destroys of one name, ask a destroy to wait only for a tunnel that is  *)
(* listed, and every event is sent without suspending.                        *)
EXTENDS TunnelHostProofs

Serialised == SetupsSerialised /\ DestroysSerialised /\ WaitsListed /\ ~EmitSuspends

Building == SettingUp \cup Failing

\* What a request was sent for.
KindInv ==
    \A t \in Requests :
        /\ pc[t] \in Destroying => req[t].kind = "destroy"
        /\ pc[t] \in Building \cup {"started", "serving"} => req[t].kind # "destroy"
        /\ stack[t] # {} => req[t].kind # "destroy"

\* A name is set up by one request at a time, and while nobody lists it.
OneSetupInv ==
    /\ \A t, u \in Requests :
          pc[t] \in Building /\ pc[u] \in Building /\ Name(t) = Name(u) => t = u
    /\ \A t \in Requests : pc[t] \in Building => namespaces[Name(t)] = None

\* It is destroyed by one request at a time.  A destroy that awaits something
\* before it pops the dictionaries finds the tunnel listed and its loop gone.
OneDestroyInv ==
    /\ \A c, d \in Requests :
          pc[c] \in Destroying /\ pc[d] \in Destroying /\ Name(c) = Name(d) => c = d
    /\ ShutGuard
    /\ \A d \in Requests :
          /\ pc[d] \in {"d_rebind", "d_wait"} =>
                namespaces[Name(d)] # None /\ tunnel_rebind_tasks[Name(d)] = None
          /\ pc[d] = "d_close" => Name(target[d]) = Name(d)

\* Namespace.pid is the tunnel's own, since nobody else writes the pid file of
\* its name meanwhile; and whoever has entered the veth pair has it.
OwnHostInv ==
    \A t \in Requests :
        /\ pc[t] \in {"link", "attach"} => pidfile[Name(t)] \in {t, None}
        /\ nspid[t] \in {t, None}
        /\ pc[t] \in {"configure", "services", "publish"} => nspid[t] = t
        /\ "services" \in stack[t] => nspid[t] = t
        /\ "link" \in stack[t] => link[Slot[Name(t)]] = t

ContextInv ==
    \A n \in Names : namespaces[n] # None => tunnel_contexts[n] = namespaces[n]

\* A StartTunnel serves a tunnel that is listed, or whose stop future is done
\* and whose stack a destroy has not begun to unwind.
ServeInv ==
    /\ \A t \in Requests :
          /\ pc[t] = "started" => namespaces[Name(t)] = t /\ rebind[t] = "none"
          /\ pc[t] = "serving" =>
                /\ Complete \subseteq stack[t]
                /\ \/ namespaces[Name(t)] = t /\ tunnel_stop_signals[Name(t)] = t
                   \/ t \in stopped /\ \E d \in Requests : pc[d] = "d_close" /\ target[d] = t
          /\ t \in stopped => pc[t] \in {"serving", "done"} /\ namespaces[Name(t)] # t
    /\ \A n \in Names :
          tunnel_stop_signals[n] # None =>
             /\ pc[tunnel_stop_signals[n]] \in {"serving", "done"}
             /\ Name(tunnel_stop_signals[n]) = n

\* A rebind loop runs while its tunnel is listed, or its StartTunnel serves,
\* and works for that tunnel.
RebindInv ==
    /\ \A t \in Requests :
          /\ rebind[t] \in {"sleep", "alloc"} =>
                \/ namespaces[Name(t)] = t /\ tunnel_rebind_tasks[Name(t)] = t
                \/ pc[t] = "serving"
          /\ rebind[t] # "none" => pc[t] \in {"serving", "done"}
    /\ \A n \in Names :
          tunnel_rebind_tasks[n] # None =>
             /\ pc[tunnel_rebind_tasks[n]] = "done"
             /\ Name(tunnel_rebind_tasks[n]) = n
    /\ RebindOwnTunnel

SerialInv ==
    /\ HostInv
    /\ KindInv /\ OneSetupInv /\ OneDestroyInv /\ OwnHostInv
    /\ ContextInv /\ ServeInv /\ RebindInv /\ NothingLeaks

LEMMA SerialInvInit == Init => SerialInv
<1> SUFFICES ASSUME Init PROVE SerialInv
  OBVIOUS
<1>1. HostInv
  BY HostInvInit
<1>2. KindInv /\ OneSetupInv /\ OneDestroyInv
  BY NoneAssumption DEF Init, KindInv, OneSetupInv, OneDestroyInv, ShutGuard, Building, SettingUp, Failing,
     Destroying
<1>3. OwnHostInv /\ ContextInv /\ ServeInv /\ RebindInv /\ NothingLeaks
  BY DEF Init, OwnHostInv, ContextInv, ServeInv, RebindInv, RebindOwnTunnel, NothingLeaks
<1> QED
  BY <1>1, <1>2, <1>3 DEF SerialInv

\* What is known of the tunnels and requests that an invariant speaks of.
LEMMA SerialTypes ==
    ASSUME SerialInv
    PROVE  /\ TypeOK
           /\ \A t \in Requests : pc[t] # "idle" => Name(t) \in Names /\ Slot[Name(t)] \in Slots
           /\ \A t \in Requests : stack[t] # {} => pc[t] # "idle"
           /\ \A n \in Names : namespaces[n] # None =>
                 /\ namespaces[n] \in Requests /\ exit_stacks[n] = namespaces[n]
                 /\ Complete \subseteq stack[namespaces[n]]
                 /\ pc[namespaces[n]] \in Past /\ Name(namespaces[n]) = n
           /\ \A n \in Names : exit_stacks[n] = namespaces[n]
           /\ \A d \in Requests : pc[d] = "d_close" =>
                 /\ target[d] \in Requests /\ pc[target[d]] \in Past
                 /\ \A n \in Names : namespaces[n] # target[d]
<1> USE DEF SerialInv, HostInv, LifeInv, TypeInv
<1>1. TypeOK
  OBVIOUS
<1>2. \A t \in Requests : pc[t] # "idle" => Name(t) \in Names /\ Slot[Name(t)] \in Slots
  BY ArrivedName, SlotAssumption
<1>3. \A t \in Requests : stack[t] # {} => pc[t] # "idle"
  BY DEF EmptyInv
<1>4. \A n \in Names : namespaces[n] # None => namespaces[n] \in Requests
  BY DEF TypeOK, Maybe
<1>5. /\ \A n \in Names : exit_stacks[n] = namespaces[n]
      /\ \A n \in Names : namespaces[n] # None =>
            /\ Complete \subseteq stack[namespaces[n]]
            /\ pc[namespaces[n]] \in Past /\ Name(namespaces[n]) = n
  BY DEF RegistryInv
<1>6. \A d \in Requests : pc[d] = "d_close" =>
        /\ target[d] \in Requests /\ pc[target[d]] \in Past
        /\ \A n \in Names : namespaces[n] # target[d]
  BY DEF CloserInv
<1> QED
  BY <1>1, <1>2, <1>3, <1>4, <1>5, <1>6

\* A step of a setup that does not end it touches its own tunnel only.
LEMMA SerialBuildStep ==
    ASSUME SerialInv, HostInv', NEW t \in Requests,
           pc[t] \in Building, pc'[t] \in Building \ {"unwind"},
           \A u \in Requests \ {t} : pc'[u] = pc[u] /\ stack'[u] = stack[u],
           UNCHANGED <<registry, signals, tunnel_rebind_tasks, shutting_down, req, target, loops>>,
           OwnHostInv'
    PROVE  SerialInv'
<1> USE DEF Building, SettingUp, Failing, Destroying
<1>0. /\ TypeOK
      /\ UNCHANGED <<namespaces, exit_stacks, tunnel_contexts, tunnel_stop_signals, stopped,
                     rebind, rctx, rstack>>
      /\ \A u \in Requests : Name(u)' = Name(u)
  BY SerialTypes DEF registry, signals, loops, Name
<1>1. KindInv'
  BY <1>0 DEF SerialInv, KindInv
<1>2. OneSetupInv'
  BY <1>0 DEF SerialInv, OneSetupInv
<1>3. OneDestroyInv'
  <2>1. \A d \in Requests : pc'[d] \in Destroying => pc'[d] = pc[d]
    OBVIOUS
  <2>2. \A d \in Requests : pc[d] = "d_close" => target[d] \in Requests
    BY SerialTypes
  <2> QED
    BY <1>0, <2>1, <2>2 DEF SerialInv, OneDestroyInv, ShutGuard
<1>4. ContextInv'
  BY <1>0 DEF SerialInv, ContextInv
<1>5. ServeInv'
  <2>1. \A u \in Requests : pc'[u] \in {"started", "serving"} => u # t /\ pc'[u] = pc[u]
    OBVIOUS
  <2>2. \A u \in Requests : pc[u] \in {"serving", "done", "d_close"} => u # t /\ pc'[u] = pc[u]
    OBVIOUS
  <2>3. \A n \in Names : tunnel_stop_signals[n] # None => tunnel_stop_signals[n] \in Requests
    BY <1>0 DEF TypeOK, Maybe
  <2> QED
    BY <1>0, <2>1, <2>2, <2>3 DEF SerialInv, ServeInv
<1>6. RebindInv'
  <2>1. \A u \in Requests : pc[u] \in {"serving", "done"} => pc'[u] = pc[u]
    OBVIOUS
  <2>2. \A n \in Names : tunnel_rebind_tasks[n] # None => tunnel_rebind_tasks[n] \in Requests
    BY <1>0 DEF TypeOK, Maybe
  <2> QED
    BY <1>0, <2>1, <2>2 DEF SerialInv, RebindInv, RebindOwnTunnel
<1>7. NothingLeaks'
  <2>1. pc'[t] \in SettingUp \cup {"failed"}
    OBVIOUS
  <2>2. \A u \in Requests : pc[u] = "d_close" => u # t
    OBVIOUS
  <2>3. \A u \in Requests : pc[u] = "unwind" => target[u] = u
    BY DEF SerialInv, HostInv, LifeInv, CloserInv
  <2> QED
    BY <1>0, <2>1, <2>2, <2>3 DEF SerialInv, NothingLeaks, Closing
<1> QED
  BY <1>1, <1>2, <1>3, <1>4, <1>5, <1>6, <1>7 DEF SerialInv

\* Where a setup stands, and what it touches of others.
LEMMA BuildFacts ==
    ASSUME SerialInv, NEW t \in Requests, Setup(t), ~FailSetup(t), ~Publish(t)
    PROVE  /\ pc[t] \in Building /\ pc'[t] \in Building \ {"unwind"}
           /\ \A u \in Requests \ {t} : pc'[u] = pc[u] /\ stack'[u] = stack[u]
           /\ UNCHANGED <<registry, signals, tunnel_rebind_tasks, shutting_down, req, target, loops>>
<1>1. TypeOK
  BY SerialTypes
<1> QED
  BY <1>1 DEF TypeOK, Setup, EnterNamespace, LosePid, AddLink, AttachLink, ConfigureLink,
     StartServices, FailLink, Goto, Push, Building, SettingUp, Failing

LEMMA SerialBuilding ==
    ASSUME SerialInv, HostInv', NEW t \in Requests, Setup(t), ~FailSetup(t), ~Publish(t)
    PROVE  SerialInv'
<1>1. /\ TypeOK /\ OwnHostInv /\ HostIsOwned
      /\ Name(t) \in Names /\ Slot[Name(t)] \in Slots
      /\ \A u \in Requests : pc[u] \in Building /\ Name(u) = Name(t) => u = t
  BY SerialTypes, BuildFacts DEF SerialInv, HostInv, OneSetupInv, Building, SettingUp, Failing
<1>2. \A u \in Requests : "link" \in stack[u] => link[Slot[Name(u)]] = u
  BY <1>1 DEF OwnHostInv
<1>3. /\ \A u \in Requests \ {t} : pc'[u] = pc[u] /\ stack'[u] = stack[u]
      /\ \A u \in Requests : Name(u)' = Name(u)
  BY BuildFacts DEF Name
<1>4. OwnHostInv'
  <2> USE DEF TypeOK, Goto, Push
  <2>1. CASE EnterNamespace(t)
    <3>1. \A u \in Requests \ {t} : pc[u] \in {"link", "attach"} => Name(u) # Name(t)
      BY <1>1 DEF Building, SettingUp
    <3> QED
      BY <1>1, <1>3, <2>1, <3>1 DEF EnterNamespace, OwnHostInv
  <2>2. CASE LosePid(t)
    BY <1>1, <1>3, <2>2 DEF LosePid, OwnHostInv
  <2>3. CASE AddLink(t)
    <3>1. /\ link[Slot[Name(t)]] = None
          /\ link' = [link EXCEPT ![Slot[Name(t)]] = t]
          /\ stack' = [stack EXCEPT ![t] = @ \cup {"link"}]
          /\ pc[t] = "link" /\ pc'[t] = "attach"
          /\ UNCHANGED <<pidfile, nspid>>
      BY <1>1, <2>3 DEF AddLink
    <3>2. ASSUME NEW u \in Requests \ {t}, "link" \in stack'[u]
          PROVE  link'[Slot[Name(u)]] = u
      <4>1. link[Slot[Name(u)]] = u
        BY <1>2, <1>3, <3>2
      <4>2. Slot[Name(u)] # Slot[Name(t)]
        BY <3>1, <4>1, NoneAssumption
      <4> QED
        BY <1>1, <3>1, <4>1, <4>2
    <3> QED
      BY <1>1, <1>3, <3>1, <3>2 DEF OwnHostInv
  <2>4. CASE AttachLink(t)
    BY <1>1, <1>3, <2>4 DEF AttachLink, OwnHostInv
  <2>5. CASE ConfigureLink(t)
    BY <1>1, <1>3, <2>5 DEF ConfigureLink, OwnHostInv, host
  <2>6. CASE StartServices(t)
    BY <1>1, <1>3, <2>6 DEF StartServices, OwnHostInv, host
  <2>7. CASE FailLink(t)
    <3>1. "link" \in stack[t] /\ link[Slot[Name(t)]] = t
      BY <1>2, <2>7 DEF FailLink, SerialInv, HostInv, LifeInv, StageInv
    <3>2. /\ link' = [link EXCEPT ![Slot[Name(t)]] = None]
          /\ stack' = [stack EXCEPT ![t] = @ \ {"link"}]
          /\ pc'[t] = "failed"
          /\ UNCHANGED <<pidfile, nspid>>
      BY <1>1, <2>7 DEF FailLink, DeleteLink
    <3>3. ASSUME NEW u \in Requests, "link" \in stack'[u]
          PROVE  link'[Slot[Name(u)]] = u
      <4>1. u # t /\ link[Slot[Name(u)]] = u
        BY <1>1, <1>2, <1>3, <3>2, <3>3
      <4> QED
        BY <1>1, <3>1, <3>2, <4>1
    <3> QED
      BY <1>1, <1>3, <3>2, <3>3 DEF OwnHostInv
  <2> QED
    BY <2>1, <2>2, <2>3, <2>4, <2>5, <2>6, <2>7 DEF Setup
<1> QED
  BY <1>4, BuildFacts, SerialBuildStep

\* A request that arrives and does not unlist anything.
LEMMA SerialArriveStep ==
    ASSUME Serialised, SerialInv, HostInv', NEW t \in Requests, NEW r \in Menu,
           \/ Refuse(t, r) \/ RejectRun(t, r) \/ AdmitRun(t, r) \/ BeginSetup(t, r)
    PROVE  SerialInv'
<1> USE DEF Building, SettingUp, Failing, Destroying
<1>0. TypeOK /\ r.name \in Names
  BY SerialTypes, MenuAssumption DEF RequestRecord
<1>1. /\ pc[t] = "idle" /\ req' = [req EXCEPT ![t] = r]
      /\ pc' = [pc EXCEPT ![t] = "namespace"] \/ pc' = [pc EXCEPT ![t] = "done"]
      /\ pc'[t] = "namespace" =>
            r.kind # "destroy" /\ namespaces[r.name] = None /\ ~InFlight(r.name, Building)
      /\ UNCHANGED <<registry, signals, tunnel_rebind_tasks, shutting_down, target, loops,
                     stack, holder, pidfile, nspid, link>>
  BY <1>0 DEF TypeOK, Refuse, RejectRun, AdmitRun, BeginSetup, Arrive, MayArrive, Known, Goto, Answer,
     host, Serialised
<1>2. /\ UNCHANGED <<namespaces, exit_stacks, tunnel_contexts, tunnel_stop_signals, stopped,
                     rebind, rctx, rstack>>
      /\ \A u \in Requests \ {t} : pc'[u] = pc[u] /\ Name(u)' = Name(u) /\ req'[u] = req[u]
      /\ Name(t)' = r.name /\ pc'[t] \in {"namespace", "done"} /\ stack[t] = {}
  BY <1>0, <1>1 DEF registry, signals, loops, Name, TypeOK, SerialInv, HostInv, EmptyInv
<1>3. KindInv'
  <2>1. req'[t] = r /\ \A u \in Requests : stack'[u] = stack[u]
    BY <1>0, <1>1 DEF TypeOK
  <2>2. KindInv
    BY DEF SerialInv
  <2>3. ASSUME NEW u \in Requests \ {t}
        PROVE  /\ pc'[u] \in Destroying => req'[u].kind = "destroy"
               /\ pc'[u] \in Building \cup {"started", "serving"} => req'[u].kind # "destroy"
               /\ stack'[u] # {} => req'[u].kind # "destroy"
    BY <1>2, <2>1, <2>2 DEF KindInv
  <2>4. /\ pc'[t] \notin Destroying /\ stack'[t] = {}
        /\ pc'[t] \in Building \cup {"started", "serving"} => req'[t].kind # "destroy"
    BY <1>1, <1>2, <2>1
  <2> QED
    BY <2>3, <2>4 DEF KindInv
<1>4. OneSetupInv'
  <2>1. pc'[t] = "namespace" =>
           \A u \in Requests \ {t} : pc[u] \in Building => Name(u) # r.name
    BY <1>1 DEF InFlight
  <2> QED
    BY <1>1, <1>2, <2>1 DEF SerialInv, OneSetupInv
<1>5. OneDestroyInv'
  <2>1. \A d \in Requests : pc'[d] \in Destroying => d # t /\ pc'[d] = pc[d]
    BY <1>2
  <2>2. \A d \in Requests : pc[d] = "d_close" => target[d] \in Requests \ {t}
    BY <1>1, SerialTypes DEF Past
  <2> QED
    BY <1>1, <1>2, <2>1, <2>2 DEF SerialInv, OneDestroyInv, ShutGuard
<1>6. OwnHostInv'
  BY <1>1, <1>2 DEF SerialInv, OwnHostInv
<1>7. ContextInv'
  BY <1>2 DEF SerialInv, ContextInv
<1>8. ServeInv'
  <2>1. \A u \in Requests : pc'[u] \in {"started", "serving"} => u # t /\ pc'[u] = pc[u]
    BY <1>2
  <2>2. \A u \in Requests : pc[u] \in {"serving", "done", "d_close"} => u # t /\ pc'[u] = pc[u]
    BY <1>1, <1>2
  <2>3. \A n \in Names : tunnel_stop_signals[n] # None => tunnel_stop_signals[n] \in Requests
    BY <1>0 DEF TypeOK, Maybe
  <2> QED
    BY <1>1, <1>2, <2>1, <2>2, <2>3 DEF SerialInv, ServeInv
<1>9. RebindInv'
  <2>1. \A u \in Requests : pc[u] \in {"serving", "done"} => u # t /\ pc'[u] = pc[u]
    BY <1>1, <1>2
  <2>2. \A n \in Names : tunnel_rebind_tasks[n] # None => tunnel_rebind_tasks[n] \in Requests
    BY <1>0 DEF TypeOK, Maybe
  <2> QED
    BY <1>1, <1>2, <2>1, <2>2 DEF SerialInv, RebindInv, RebindOwnTunnel
<1>10. NothingLeaks'
  <2>1. \A u \in Requests : pc[u] \in {"unwind", "d_close"} => u # t /\ pc'[u] = pc[u]
    BY <1>1, <1>2
  <2> QED
    BY <1>1, <1>2, <2>1 DEF SerialInv, NothingLeaks, Closing
<1> QED
  BY <1>3, <1>4, <1>5, <1>6, <1>7, <1>8, <1>9, <1>10 DEF SerialInv

\* A setup fails before it has listed anything, for nobody else lists its name.
LEMMA SerialFailSetup ==
    ASSUME Serialised, SerialInv, HostInv', NEW t \in Requests, FailSetup(t)
    PROVE  SerialInv'
<1> USE DEF Building, SettingUp, Failing, Destroying
<1>0. /\ TypeOK
      /\ pc[t] \in {"namespace", "link", "services", "failed"}
      /\ namespaces[Name(t)] = None
      /\ stack[t] # {} => pc'[t] = "unwind" /\ target'[t] = t
      /\ pc'[t] \in {"unwind", "done"}
      /\ \A n \in Names : n # Name(t) => tunnel_contexts'[n] = tunnel_contexts[n]
      /\ UNCHANGED <<namespaces, exit_stacks, tunnel_stop_signals, stopped, tunnel_rebind_tasks,
                     shutting_down, req, rebind, rctx, rstack, stack, pidfile, nspid, link>>
      /\ \A u \in Requests \ {t} : pc'[u] = pc[u] /\ target'[u] = target[u]
      /\ \A u \in Requests : Name(u)' = Name(u)
  <2>1. TypeOK
    BY SerialTypes
  <2>2. /\ pc[t] \in {"namespace", "link", "services", "failed"}
        /\ stack[t] # {} => pc'[t] = "unwind" /\ target'[t] = t
        /\ pc'[t] \in {"unwind", "done"}
        /\ \A n \in Names : n # Name(t) => tunnel_contexts'[n] = tunnel_contexts[n]
        /\ UNCHANGED <<namespaces, exit_stacks, tunnel_stop_signals, stopped, tunnel_rebind_tasks,
                       shutting_down, req, rebind, rctx, rstack, stack, pidfile, nspid, link>>
        /\ \A u \in Requests \ {t} : pc'[u] = pc[u] /\ target'[u] = target[u]
    BY <2>1 DEF FailSetup, Serialised, Goto, Answer, TypeOK, signals, loops, host
  <2>3. namespaces[Name(t)] = None
    BY <2>2 DEF SerialInv, OneSetupInv
  <2> QED
    BY <2>1, <2>2, <2>3 DEF Name
<1>1. KindInv'
  BY <1>0 DEF SerialInv, KindInv
<1>2. OneSetupInv'
  BY <1>0 DEF SerialInv, OneSetupInv
<1>3. OneDestroyInv'
  <2>1. \A d \in Requests : pc'[d] \in Destroying => d # t /\ pc'[d] = pc[d]
    BY <1>0
  <2>2. \A d \in Requests : pc[d] = "d_close" => target[d] \in Requests
    BY SerialTypes
  <2> QED
    BY <1>0, <2>1, <2>2 DEF SerialInv, OneDestroyInv, ShutGuard
<1>4. OwnHostInv'
  BY <1>0 DEF SerialInv, OwnHostInv
<1>5. ContextInv'
  BY <1>0 DEF SerialInv, ContextInv
<1>6. ServeInv'
  <2>1. \A u \in Requests : pc'[u] \in {"started", "serving"} => u # t /\ pc'[u] = pc[u]
    BY <1>0
  <2>2. \A u \in Requests : pc[u] \in {"serving", "done", "d_close"} => u # t /\ pc'[u] = pc[u]
    BY <1>0
  <2>3. \A n \in Names : tunnel_stop_signals[n] # None => tunnel_stop_signals[n] \in Requests
    BY <1>0 DEF TypeOK, Maybe
  <2> QED
    BY <1>0, <2>1, <2>2, <2>3 DEF SerialInv, ServeInv
<1>7. RebindInv'
  <2>1. \A u \in Requests : pc[u] \in {"serving", "done"} => pc'[u] = pc[u]
    BY <1>0
  <2>2. \A n \in Names : tunnel_rebind_tasks[n] # None => tunnel_rebind_tasks[n] \in Requests
    BY <1>0 DEF TypeOK, Maybe
  <2> QED
    BY <1>0, <2>1, <2>2 DEF SerialInv, RebindInv, RebindOwnTunnel
<1>8. NothingLeaks'
  <2>1. stack'[t] # {} => Closing(t, t)'
    BY <1>0 DEF Closing
  <2>2. \A u \in Requests : pc[u] \in {"unwind", "d_close"} => u # t
    BY <1>0
  <2> QED
    BY <1>0, <2>1, <2>2 DEF SerialInv, NothingLeaks, Closing
<1> QED
  BY <1>1, <1>2, <1>3, <1>4, <1>5, <1>6, <1>7, <1>8 DEF SerialInv

\* A setup lists its tunnel under a name that lists none.
LEMMA SerialPublish ==
    ASSUME SerialInv, HostInv', NEW t \in Requests, Publish(t)
    PROVE  SerialInv'
<1> USE DEF Building, SettingUp, Failing, Destroying
<1>0. /\ TypeOK
      /\ pc[t] = "publish" /\ Name(t) \in Names
      /\ namespaces[Name(t)] = None /\ exit_stacks[Name(t)] = None
      /\ \A u \in Requests : Name(u)' = Name(u)
  BY SerialTypes DEF Publish, SerialInv, OneSetupInv, Name
<1>1. /\ namespaces' = [namespaces EXCEPT ![Name(t)] = t]
      /\ exit_stacks' = [exit_stacks EXCEPT ![Name(t)] = t]
      /\ tunnel_contexts' = [tunnel_contexts EXCEPT ![Name(t)] = t]
      /\ UNCHANGED <<tunnel_stop_signals, stopped, shutting_down, req, target, rctx, rstack, stack,
                     pidfile, nspid, link>>
      /\ \A u \in Requests \ {t} : pc'[u] = pc[u] /\ rebind'[u] = rebind[u]
  BY <1>0 DEF Publish, Register, signals, host, Goto, Answer, TypeOK
<1>2. \/ /\ pc'[t] = "started" /\ rebind'[t] = rebind[t]
         /\ UNCHANGED tunnel_rebind_tasks
      \/ /\ pc'[t] = "done" /\ rebind'[t] = rebind[t]
         /\ UNCHANGED tunnel_rebind_tasks
      \/ /\ pc'[t] = "done" /\ rebind'[t] = "sleep"
         /\ tunnel_rebind_tasks' = [tunnel_rebind_tasks EXCEPT ![Name(t)] = t]
  BY <1>0 DEF Publish, Goto, Answer, TypeOK
<1>3. KindInv'
  BY <1>0, <1>1, <1>2 DEF SerialInv, KindInv
<1>4. OneSetupInv'
  <2>1. \A u \in Requests : pc'[u] \in Building => u # t /\ pc[u] \in Building
    BY <1>1, <1>2
  <2>2. \A u \in Requests : pc'[u] \in Building => Name(u) # Name(t)
    BY <1>0, <2>1 DEF SerialInv, OneSetupInv
  <2> QED
    BY <1>0, <1>1, <2>1, <2>2 DEF SerialInv, OneSetupInv
<1>5. OneDestroyInv'
  <2>1. \A d \in Requests : pc'[d] \in Destroying => d # t /\ pc'[d] = pc[d]
    BY <1>1, <1>2
  <2>2. \A d \in Requests : pc[d] = "d_close" => target[d] \in Requests
    BY SerialTypes
  <2>3. ASSUME NEW d \in Requests, pc[d] \in {"d_rebind", "d_wait"}
        PROVE  namespaces'[Name(d)] # None /\ tunnel_rebind_tasks'[Name(d)] = None
    <3>1. /\ namespaces[Name(d)] # None /\ tunnel_rebind_tasks[Name(d)] = None
          /\ Name(d) \in Names
      BY <2>3, SerialTypes DEF SerialInv, OneDestroyInv
    <3>2. Name(d) # Name(t)
      BY <1>0, <3>1
    <3> QED
      BY <1>0, <1>1, <1>2, <3>1, <3>2 DEF TypeOK
  <2> QED
    BY <1>0, <1>1, <2>1, <2>2, <2>3 DEF SerialInv, OneDestroyInv, ShutGuard
<1>6. OwnHostInv'
  BY <1>0, <1>1, <1>2 DEF SerialInv, OwnHostInv
<1>7. ContextInv'
  BY <1>0, <1>1 DEF SerialInv, ContextInv, TypeOK
<1>8. ServeInv'
  <2>1. ASSUME NEW u \in Requests, u # t
        PROVE  /\ namespaces[Name(u)] = u => namespaces'[Name(u)] = u
               /\ pc[u] # "idle" /\ namespaces[Name(u)] # u => namespaces'[Name(u)] # u
    <3>1. namespaces[Name(u)] = u => Name(u) # Name(t)
      BY <1>0, NoneAssumption
    <3>2. Name(u) # Name(t) => namespaces'[Name(u)] = namespaces[Name(u)]
      BY <1>1
    <3>3. Name(u) = Name(t) => namespaces'[Name(u)] = t
      BY <1>0, <1>1 DEF TypeOK
    <3> QED
      BY <2>1, <3>1, <3>2, <3>3
  <2>2. ASSUME NEW u \in Requests, pc'[u] = "started"
        PROVE  namespaces'[Name(u)] = u /\ rebind'[u] = "none"
    <3>1. CASE u = t
      BY <1>0, <1>1, <1>2, <2>2, <3>1 DEF TypeOK, SerialInv, RebindInv
    <3>2. CASE u # t
      BY <1>1, <2>1, <2>2, <3>2 DEF SerialInv, ServeInv
    <3> QED
      BY <3>1, <3>2
  <2>3. ASSUME NEW u \in Requests, pc'[u] = "serving"
        PROVE  /\ Complete \subseteq stack'[u]
               /\ \/ namespaces'[Name(u)] = u /\ tunnel_stop_signals'[Name(u)] = u
                  \/ u \in stopped' /\ \E d \in Requests : pc'[d] = "d_close" /\ target'[d] = u
    <3>1. u # t /\ pc[u] = "serving"
      BY <1>1, <1>2, <2>3
    <3>2. \A d \in Requests : pc[d] = "d_close" => pc'[d] = "d_close"
      BY <1>0, <1>1
    <3> QED
      BY <1>1, <2>1, <3>1, <3>2 DEF SerialInv, ServeInv
  <2>4. \A u \in Requests : u \in stopped' => pc'[u] \in {"serving", "done"} /\ namespaces'[Name(u)] # u
    BY <1>0, <1>1, <2>1 DEF SerialInv, ServeInv
  <2>5. \A n \in Names :
           tunnel_stop_signals'[n] # None =>
              /\ pc'[tunnel_stop_signals'[n]] \in {"serving", "done"}
              /\ Name(tunnel_stop_signals'[n]) = n
    <3>1. \A n \in Names : tunnel_stop_signals[n] # None => tunnel_stop_signals[n] \in Requests \ {t}
      BY <1>0 DEF TypeOK, Maybe, SerialInv, ServeInv
    <3>2. \A u \in Requests : Name(u)' = Name(u)
      BY <1>0
    <3> QED
      BY <1>1, <3>1, <3>2 DEF SerialInv, ServeInv
  <2> QED
    BY <1>1, <2>2, <2>3, <2>4, <2>5 DEF ServeInv, Name
<1>9. RebindInv'
  <2>1. rebind[t] = "none"
    BY <1>0 DEF SerialInv, RebindInv, TypeOK
  <2>2. ASSUME NEW u \in Requests, rebind'[u] \in {"sleep", "alloc"}
        PROVE  \/ namespaces'[Name(u)] = u /\ tunnel_rebind_tasks'[Name(u)] = u
               \/ pc'[u] = "serving"
    <3>1. CASE u = t
      BY <1>0, <1>1, <1>2, <2>1, <2>2, <3>1 DEF TypeOK
    <3>2. CASE u # t
      <4>1. \/ namespaces[Name(u)] = u /\ tunnel_rebind_tasks[Name(u)] = u
            \/ pc[u] = "serving"
        BY <1>1, <2>2, <3>2 DEF SerialInv, RebindInv
      <4>2. namespaces[Name(u)] = u => Name(u) # Name(t)
        BY <1>0, NoneAssumption
      <4>3. Name(u) \in Names
        BY <2>2, <3>2, <1>1, SerialTypes DEF SerialInv, RebindInv
      <4> QED
        BY <1>0, <1>1, <1>2, <3>2, <4>1, <4>2, <4>3 DEF TypeOK
    <3> QED
      BY <3>1, <3>2
  <2>3. \A u \in Requests : rebind'[u] # "none" => pc'[u] \in {"serving", "done"}
    BY <1>1, <1>2, <2>1 DEF SerialInv, RebindInv
  <2>4. \A n \in Names :
           tunnel_rebind_tasks'[n] # None =>
              /\ pc'[tunnel_rebind_tasks'[n]] = "done"
              /\ Name(tunnel_rebind_tasks'[n]) = n
    <3>1. \A n \in Names : tunnel_rebind_tasks[n] # None => tunnel_rebind_tasks[n] \in Requests \ {t}
      BY <1>0 DEF TypeOK, Maybe, SerialInv, RebindInv
    <3> QED
      BY <1>0, <1>1, <1>2, <3>1 DEF SerialInv, RebindInv, TypeOK
  <2>5. \A u \in Requests : rebind'[u] = "alloc" => rctx'[u] = u /\ rstack'[u] = u
    BY <1>1, <1>2, <2>1 DEF SerialInv, RebindInv, RebindOwnTunnel
  <2> QED
    BY <1>1, <2>2, <2>3, <2>4, <2>5 DEF RebindInv, RebindOwnTunnel, Name
<1>10. NothingLeaks'
  <2>1. exit_stacks'[Name(t)] = t
    BY <1>0, <1>1 DEF TypeOK
  <2>2. \A u \in Requests : exit_stacks[Name(u)] = u => exit_stacks'[Name(u)] = u
    BY <1>0, <1>1, NoneAssumption
  <2>3. \A c, u \in Requests : Closing(c, u) => Closing(c, u)'
    BY <1>0, <1>1 DEF Closing
  <2> QED
    BY <1>0, <1>1, <2>1, <2>2, <2>3 DEF SerialInv, NothingLeaks
<1> QED
  BY <1>3, <1>4, <1>5, <1>6, <1>7, <1>8, <1>9, <1>10 DEF SerialInv

\* The veth pair of a name's slot tells its tunnels apart.
LEMMA OneLinkPerName ==
    ASSUME SerialInv, NEW t \in Requests, NEW u \in Requests,
           "link" \in stack[t], "link" \in stack[u], Name(t) = Name(u)
    PROVE  t = u
<1>1. OwnHostInv
  BY DEF SerialInv
<1> QED
  BY <1>1 DEF OwnHostInv

\* A StartTunnel that begins, or ends, to wait for its stop signal.
LEMMA SerialServing ==
    ASSUME Serialised, SerialInv, HostInv', NEW t \in Requests, Serving(t)
    PROVE  SerialInv'
<1> USE DEF Building, SettingUp, Failing, Destroying
<1>0. /\ TypeOK
      /\ pc[t] \in {"started", "serving"} /\ Name(t) \in Names
      /\ pc'[t] \in {"serving", "done"}
      /\ UNCHANGED <<namespaces, exit_stacks, tunnel_contexts, stopped, tunnel_rebind_tasks,
                     shutting_down, req, target, rctx, rstack, stack, pidfile, nspid, link>>
      /\ \A u \in Requests \ {t} : pc'[u] = pc[u] /\ rebind'[u] = rebind[u]
  <2>1. TypeOK
    BY SerialTypes
  <2>2. /\ pc[t] \in {"started", "serving"}
        /\ pc'[t] \in {"serving", "done"}
        /\ UNCHANGED <<namespaces, exit_stacks, tunnel_contexts, stopped, tunnel_rebind_tasks,
                       shutting_down, req, target, rctx, rstack, stack, pidfile, nspid, link>>
        /\ \A u \in Requests \ {t} : pc'[u] = pc[u] /\ rebind'[u] = rebind[u]
    BY <2>1 DEF Serialised, Serving, Serve, FailServe, StartStops, Goto, Answer, TypeOK,
       registry, host
  <2> QED
    BY <2>1, <2>2, SerialTypes
<1>1. \/ /\ Serve(t)
         /\ pc[t] = "started" /\ pc'[t] = "serving"
         /\ tunnel_stop_signals' = [tunnel_stop_signals EXCEPT ![Name(t)] = t]
         /\ rebind'[t] \in {rebind[t], "sleep"}
      \/ /\ StartStops(t)
         /\ pc[t] = "serving" /\ t \in stopped /\ pc'[t] = "done"
         /\ \/ UNCHANGED tunnel_stop_signals
            \/ tunnel_stop_signals' = [tunnel_stop_signals EXCEPT ![Name(t)] = None]
         /\ rebind'[t] \notin {"sleep", "alloc"}
         /\ rebind[t] = "none" => rebind'[t] = "none"
  BY <1>0 DEF Serialised, Serving, Serve, FailServe, StartStops, Goto, Answer, TypeOK, Cancelled
<1>2. \A u \in Requests : Name(u)' = Name(u)
  BY <1>0 DEF Name
<1>3. KindInv'
  BY <1>0 DEF SerialInv, KindInv
<1>4. OneSetupInv'
  BY <1>0, <1>2 DEF SerialInv, OneSetupInv
<1>5. OneDestroyInv'
  <2>1. \A d \in Requests : pc'[d] \in Destroying => d # t /\ pc'[d] = pc[d]
    BY <1>0
  <2>2. \A d \in Requests : pc[d] = "d_close" => target[d] \in Requests
    BY SerialTypes
  <2> QED
    BY <1>0, <1>2, <2>1, <2>2 DEF SerialInv, OneDestroyInv, ShutGuard
<1>6. OwnHostInv'
  BY <1>0, <1>2 DEF SerialInv, OwnHostInv
<1>7. ContextInv'
  BY <1>0 DEF SerialInv, ContextInv
<1>8. ServeInv'
  <2>1. ServeInv
    BY DEF SerialInv
  <2>2. ASSUME NEW u \in Requests, pc'[u] = "started"
        PROVE  namespaces'[Name(u)] = u /\ rebind'[u] = "none"
    BY <1>0, <2>1, <2>2 DEF ServeInv
  <2>3. ASSUME NEW u \in Requests, pc'[u] = "serving"
        PROVE  /\ Complete \subseteq stack'[u]
               /\ \/ namespaces'[Name(u)] = u /\ tunnel_stop_signals'[Name(u)] = u
                  \/ u \in stopped' /\ \E d \in Requests : pc'[d] = "d_close" /\ target'[d] = u
    <3>1. CASE u = t
      <4>1. pc[t] = "started" /\ tunnel_stop_signals' = [tunnel_stop_signals EXCEPT ![Name(t)] = t]
        BY <1>1, <2>3, <3>1
      <4>2. namespaces[Name(t)] = t
        BY <2>1, <4>1 DEF ServeInv
      <4>3. Complete \subseteq stack[t]
        BY <1>0, <4>2, NoneAssumption, SerialTypes
      <4> QED
        BY <1>0, <3>1, <4>1, <4>2, <4>3 DEF TypeOK
    <3>2. CASE u # t
      <4>1. /\ pc[u] = "serving" /\ Name(u) \in Names /\ Complete \subseteq stack[u]
            /\ \/ namespaces[Name(u)] = u /\ tunnel_stop_signals[Name(u)] = u
               \/ u \in stopped /\ \E d \in Requests : pc[d] = "d_close" /\ target[d] = u
        BY <1>0, <2>1, <2>3, <3>2, SerialTypes DEF ServeInv
      <4>2. \A d \in Requests : pc[d] = "d_close" => pc'[d] = "d_close"
        BY <1>0
      <4>3. Complete \subseteq stack[t]
        <5>1. CASE pc[t] = "started"
          <6>1. namespaces[Name(t)] = t
            BY <2>1, <5>1 DEF ServeInv
          <6> QED
            BY <1>0, <6>1, NoneAssumption, SerialTypes
        <5>2. CASE pc[t] = "serving"
          BY <2>1, <5>2 DEF ServeInv
        <5> QED
          BY <1>0, <5>1, <5>2
      <4>4. Name(u) # Name(t)
        BY <3>2, <4>1, <4>3, OneLinkPerName DEF Complete
      <4>5. tunnel_stop_signals'[Name(u)] = tunnel_stop_signals[Name(u)]
        BY <1>0, <1>1, <4>1, <4>4 DEF TypeOK
      <4> QED
        BY <1>0, <4>1, <4>2, <4>5
    <3> QED
      BY <3>1, <3>2
  <2>4. \A u \in Requests : u \in stopped' => pc'[u] \in {"serving", "done"} /\ namespaces'[Name(u)] # u
    BY <1>0, <2>1 DEF ServeInv
  <2>5. ASSUME NEW n \in Names, tunnel_stop_signals'[n] # None
        PROVE  /\ pc'[tunnel_stop_signals'[n]] \in {"serving", "done"}
               /\ Name(tunnel_stop_signals'[n]) = n
    <3>1. CASE tunnel_stop_signals'[n] = tunnel_stop_signals[n]
      <4>1. tunnel_stop_signals[n] \in Requests
        BY <1>0, <2>5, <3>1 DEF TypeOK, Maybe
      <4> QED
        BY <1>0, <2>1, <2>5, <3>1, <4>1 DEF ServeInv
    <3>2. CASE tunnel_stop_signals'[n] # tunnel_stop_signals[n]
      <4>1. n = Name(t) /\ tunnel_stop_signals'[n] = t
        BY <1>0, <1>1, <2>5, <3>2 DEF TypeOK
      <4> QED
        BY <1>0, <4>1
    <3> QED
      BY <3>1, <3>2
  <2> QED
    BY <1>0, <2>2, <2>3, <2>4, <2>5 DEF ServeInv, Name
<1>9. RebindInv'
  <2>1. RebindInv
    BY DEF SerialInv
  <2>2. ASSUME NEW u \in Requests, rebind'[u] \in {"sleep", "alloc"}
        PROVE  \/ namespaces'[Name(u)] = u /\ tunnel_rebind_tasks'[Name(u)] = u
               \/ pc'[u] = "serving"
    <3>1. CASE u = t
      BY <1>1, <2>2, <3>1
    <3>2. CASE u # t
      BY <1>0, <2>1, <2>2, <3>2 DEF RebindInv
    <3> QED
      BY <3>1, <3>2
  <2>3. \A u \in Requests : rebind'[u] # "none" => pc'[u] \in {"serving", "done"}
    BY <1>0, <2>1 DEF RebindInv
  <2>4. \A n \in Names : tunnel_rebind_tasks[n] # None => tunnel_rebind_tasks[n] \in Requests
    BY <1>0 DEF TypeOK, Maybe
  <2>5. rebind'[t] = "alloc" => rebind[t] = "alloc"
    BY <1>1
  <2> QED
    BY <1>0, <1>2, <2>1, <2>2, <2>3, <2>4, <2>5 DEF RebindInv, RebindOwnTunnel
<1>10. NothingLeaks'
  <2>1. \A c \in Requests : pc[c] \in {"unwind", "d_close"} => c # t
    BY <1>0
  <2> QED
    BY <1>0, <1>2, <2>1 DEF SerialInv, NothingLeaks, Closing
<1> QED
  BY <1>3, <1>4, <1>5, <1>6, <1>7, <1>8, <1>9, <1>10 DEF SerialInv

\* A step of the one destroy of name n, which has cancelled the loop of the
\* tunnel that n lists, unless a StartTunnel keeps that loop.
DestroyStep(d, n) ==
    /\ req'[d].kind = "destroy" /\ req'[d].name = n
    /\ \A u \in Requests \ {d} :
          /\ req'[u] = req[u]
          /\ pc[u] \in Destroying => Name(u) # n
          /\ pc[u] # "started"
    /\ UNCHANGED <<rctx, rstack, stack, host>>
    /\ \A u \in Requests :
          rebind'[u] = rebind[u] \/ (rebind[u] # "none" /\ rebind'[u] = "cancelled")
    /\ namespaces[n] # None =>
          rebind'[namespaces[n]] \notin {"sleep", "alloc"} \/ pc[namespaces[n]] = "serving"
    /\ tunnel_rebind_tasks' = [tunnel_rebind_tasks EXCEPT ![n] = None]

\* It pops the other dictionaries, and closes the tunnel it unlists, if any.
LEMMA SerialUnregister ==
    ASSUME SerialInv, HostInv', NEW d \in Requests, NEW n \in Names, NEW down \in SUBSET Names,
           Unregister(d, n, down), DestroyStep(d, n),
           pc[d] \in {"idle", "d_rebind", "d_wait"},
           shutting_down \cup {n} \subseteq down
    PROVE  SerialInv'
<1> USE DEF Building, SettingUp, Failing, Destroying, DestroyStep
<1>0. /\ TypeOK
      /\ \A u \in Requests \ {d} : Name(u)' = Name(u)
      /\ Name(d)' = n
      /\ \A u \in Requests : pc[u] \in Past => u # d
      /\ stack[d] = {}
  <2>1. stack[d] = {}
    BY DEF SerialInv, KindInv, HostInv, EmptyInv
  <2> QED
    BY <2>1, SerialTypes DEF Name, Past
<1>1. /\ namespaces' = [namespaces EXCEPT ![n] = None]
      /\ exit_stacks' = [exit_stacks EXCEPT ![n] = None]
      /\ tunnel_contexts' = [tunnel_contexts EXCEPT ![n] = None]
      /\ stopped' = stopped \cup ({tunnel_stop_signals[n]} \ {None})
      /\ tunnel_stop_signals' = tunnel_stop_signals
      /\ \A u \in Requests \ {d} : pc'[u] = pc[u] /\ target'[u] = target[u]
      /\ pc'[d] \in {"d_close", "done"}
      /\ exit_stacks[n] # None => pc'[d] = "d_close" /\ target'[d] = exit_stacks[n]
      /\ pc'[d] = "d_close" => exit_stacks[n] # None /\ shutting_down' = down
      /\ pc'[d] = "done" => shutting_down' = down \ {n}
  BY <1>0 DEF Unregister, PopNamespace, PopStack, SetStop, LiftGuard, Goto, Answer, TypeOK
<1>2. UNCHANGED <<pidfile, nspid, link>>
  BY DEF host
<1>3. KindInv'
  BY <1>0, <1>1 DEF SerialInv, KindInv
<1>4. OneSetupInv'
  <2>1. \A u \in Requests : pc'[u] \in Building => u # d /\ pc'[u] = pc[u]
    BY <1>1
  <2>2. \A m \in Names : namespaces[m] = None => namespaces'[m] = None
    BY <1>0, <1>1 DEF TypeOK
  <2>3. \A u \in Requests : pc[u] \in Building => Name(u) \in Names
    BY SerialTypes
  <2> QED
    BY <1>0, <2>1, <2>2, <2>3 DEF SerialInv, OneSetupInv
<1>5. OneDestroyInv'
  <2>1. OneDestroyInv
    BY DEF SerialInv
  <2>2. ASSUME NEW u \in Requests, pc'[u] \in Destroying, u # d
        PROVE  /\ pc'[u] = pc[u] /\ Name(u) \in Names
               /\ Name(u) # n /\ Name(u)' # n /\ Name(u) \in shutting_down
    BY <1>0, <1>1, <2>1, <2>2, SerialTypes DEF OneDestroyInv, ShutGuard
  <2>3. \A c, e \in Requests :
           pc'[c] \in Destroying /\ pc'[e] \in Destroying /\ Name(c)' = Name(e)' => c = e
    BY <1>0, <2>1, <2>2 DEF OneDestroyInv
  <2>4. ShutGuard'
    <3>1. ASSUME NEW u \in Requests, pc'[u] \in Destroying
          PROVE  Name(u)' \in shutting_down'
      <4>1. CASE u = d
        BY <1>0, <1>1, <3>1, <4>1
      <4>2. CASE u # d
        BY <1>0, <1>1, <2>2, <3>1, <4>2
      <4> QED
        BY <4>1, <4>2
    <3> QED
      BY <3>1 DEF ShutGuard
  <2>5. ASSUME NEW u \in Requests, pc'[u] \in {"d_rebind", "d_wait"}
        PROVE  namespaces'[Name(u)'] # None /\ tunnel_rebind_tasks'[Name(u)'] = None
    <3>1. u # d
      BY <1>1, <2>5
    <3>2. pc[u] = pc'[u] /\ Name(u)' = Name(u) /\ Name(u) # n /\ Name(u) \in Names
      BY <1>0, <2>2, <2>5, <3>1
    <3>3. namespaces[Name(u)] # None /\ tunnel_rebind_tasks[Name(u)] = None
      BY <2>1, <2>5, <3>2 DEF OneDestroyInv
    <3> QED
      BY <1>0, <1>1, <3>2, <3>3 DEF TypeOK
  <2>6. ASSUME NEW u \in Requests, pc'[u] = "d_close"
        PROVE  Name(target'[u]) = Name(u)' /\ target'[u] \in Requests \ {d}
    <3>1. CASE u = d
      <4>1. /\ exit_stacks[n] = namespaces[n] /\ namespaces[n] # None
            /\ target'[d] = namespaces[n]
        BY <1>1, <2>6, <3>1, SerialTypes
      <4> QED
        BY <1>0, <3>1, <4>1, SerialTypes
    <3>2. CASE u # d
      <4>1. pc[u] = "d_close" /\ target'[u] = target[u]
        BY <1>1, <2>6, <3>2
      <4> QED
        BY <1>0, <2>1, <3>2, <4>1, SerialTypes DEF OneDestroyInv
    <3> QED
      BY <3>1, <3>2
  <2>7. \A u \in Requests : pc'[u] = "d_close" => req'[target'[u]].name = Name(u)'
    BY <1>0, <2>6 DEF Name
  <2> QED
    BY <2>3, <2>4, <2>5, <2>7 DEF OneDestroyInv, Name
<1>6. OwnHostInv'
  <2>1. \A u \in Requests : pc'[u] \in {"link", "attach", "configure", "services", "publish"} => u # d
    BY <1>1
  <2> QED
    BY <1>0, <1>1, <1>2, <2>1 DEF SerialInv, OwnHostInv
<1>7. ContextInv'
  BY <1>0, <1>1 DEF SerialInv, ContextInv, TypeOK
<1>8. ServeInv'
  <2>1. ServeInv
    BY DEF SerialInv
  <2>2. \A u \in Requests : pc'[u] # "started"
    BY <1>1
  <2>3. ASSUME NEW u \in Requests, pc'[u] = "serving"
        PROVE  /\ Complete \subseteq stack'[u]
               /\ \/ namespaces'[Name(u)] = u /\ tunnel_stop_signals'[Name(u)] = u
                  \/ u \in stopped' /\ \E c \in Requests : pc'[c] = "d_close" /\ target'[c] = u
    <3>1. /\ u # d /\ pc[u] = "serving" /\ Name(u) \in Names /\ Complete \subseteq stack[u]
          /\ \/ namespaces[Name(u)] = u /\ tunnel_stop_signals[Name(u)] = u
             \/ u \in stopped /\ \E c \in Requests : pc[c] = "d_close" /\ target[c] = u
      BY <1>1, <2>1, <2>3, SerialTypes DEF ServeInv
    <3>2. CASE namespaces[Name(u)] = u /\ tunnel_stop_signals[Name(u)] = u /\ Name(u) # n
      BY <1>0, <1>1, <3>1, <3>2 DEF TypeOK
    <3>3. CASE namespaces[Name(u)] = u /\ tunnel_stop_signals[Name(u)] = u /\ Name(u) = n
      <4>1. exit_stacks[n] = u /\ u # None
        BY <3>1, <3>3, NoneAssumption, SerialTypes
      <4> QED
        BY <1>1, <3>1, <3>3, <4>1
    <3>4. CASE u \in stopped /\ \E c \in Requests : pc[c] = "d_close" /\ target[c] = u
      <4>1. PICK c \in Requests : pc[c] = "d_close" /\ target[c] = u
        BY <3>4
      <4>2. pc'[c] = "d_close" /\ target'[c] = u
        BY <1>1, <4>1
      <4> QED
        BY <1>1, <3>1, <3>4, <4>2
    <3> QED
      BY <3>1, <3>2, <3>3, <3>4
  <2>4. ASSUME NEW u \in Requests, u \in stopped'
        PROVE  pc'[u] \in {"serving", "done"} /\ namespaces'[Name(u)] # u /\ u # d
    <3>1. CASE u \in stopped
      <4>1. pc[u] \in {"serving", "done"} /\ namespaces[Name(u)] # u /\ u # d /\ Name(u) \in Names
        BY <2>1, <3>1, SerialTypes DEF ServeInv
      <4> QED
        BY <1>0, <1>1, <4>1, NoneAssumption DEF TypeOK
    <3>2. CASE u = tunnel_stop_signals[n]
      <4>1. pc[u] \in {"serving", "done"} /\ Name(u) = n /\ u # d
        BY <2>1, <3>2, NoneAssumption DEF ServeInv
      <4> QED
        BY <1>0, <1>1, <4>1, NoneAssumption DEF TypeOK
    <3> QED
      BY <1>1, <2>4, <3>1, <3>2
  <2>5. ASSUME NEW m \in Names, tunnel_stop_signals'[m] # None
        PROVE  /\ pc'[tunnel_stop_signals'[m]] \in {"serving", "done"}
               /\ Name(tunnel_stop_signals'[m]) = m
               /\ tunnel_stop_signals'[m] \in Requests \ {d}
    <3>1. tunnel_stop_signals[m] \in Requests
      BY <1>0, <1>1, <2>5 DEF TypeOK, Maybe
    <3> QED
      BY <1>1, <2>1, <2>5, <3>1 DEF ServeInv
  <2>6. /\ \A u \in Requests : pc'[u] = "serving" \/ u \in stopped' => u # d
        /\ \A u \in Requests \ {d} : req'[u].name = Name(u)
    BY <1>1, <2>4 DEF Name
  <2> QED
    BY <2>2, <2>3, <2>4, <2>5, <2>6 DEF ServeInv, Name
<1>9. RebindInv'
  <2>1. RebindInv
    BY DEF SerialInv
  <2>2. ASSUME NEW u \in Requests, rebind'[u] # "none"
        PROVE  u # d /\ pc'[u] \in {"serving", "done"}
    BY <1>1, <2>1, <2>2 DEF RebindInv
  <2>3. ASSUME NEW u \in Requests, rebind'[u] \in {"sleep", "alloc"}
        PROVE  \/ namespaces'[Name(u)] = u /\ tunnel_rebind_tasks'[Name(u)] = u
               \/ pc'[u] = "serving"
    <3>1. rebind[u] = rebind'[u] /\ u # d /\ pc'[u] = pc[u] /\ Name(u) \in Names
      BY <1>1, <2>2, <2>3, SerialTypes
    <3>2. \/ namespaces[Name(u)] = u /\ tunnel_rebind_tasks[Name(u)] = u
          \/ pc[u] = "serving"
      BY <2>1, <2>3, <3>1 DEF RebindInv
    <3>3. CASE Name(u) = n
      BY <2>3, <3>1, <3>2, <3>3, NoneAssumption
    <3>4. CASE Name(u) # n
      BY <1>0, <1>1, <3>1, <3>2, <3>4 DEF TypeOK
    <3> QED
      BY <3>3, <3>4
  <2>4. ASSUME NEW m \in Names, tunnel_rebind_tasks'[m] # None
        PROVE  /\ pc'[tunnel_rebind_tasks'[m]] = "done"
               /\ Name(tunnel_rebind_tasks'[m]) = m
               /\ tunnel_rebind_tasks'[m] \in Requests \ {d}
    <3>1. tunnel_rebind_tasks'[m] = tunnel_rebind_tasks[m] /\ tunnel_rebind_tasks[m] \in Requests
      BY <1>0, <2>4 DEF TypeOK, Maybe
    <3> QED
      BY <1>1, <2>1, <2>4, <3>1 DEF RebindInv
  <2>5. \A u \in Requests : rebind'[u] = "alloc" => rctx'[u] = u /\ rstack'[u] = u
    BY <2>1 DEF RebindInv, RebindOwnTunnel
  <2>6. \A u \in Requests \ {d} : req'[u].name = Name(u)
    BY DEF Name
  <2> QED
    BY <2>2, <2>3, <2>4, <2>5, <2>6 DEF RebindInv, RebindOwnTunnel, Name
<1>10. NothingLeaks'
  <2>1. ASSUME NEW u \in Requests, stack'[u] # {}
        PROVE  /\ u # d
               /\ \/ pc'[u] \in SettingUp \cup {"failed"}
                  \/ exit_stacks'[Name(u)] = u
                  \/ \E c \in Requests : Closing(c, u)'
    <3>1. u # d /\ pc'[u] = pc[u] /\ Name(u) \in Names
      BY <1>0, <1>1, <2>1, SerialTypes
    <3>2. \/ pc[u] \in SettingUp \cup {"failed"}
          \/ exit_stacks[Name(u)] = u
          \/ \E c \in Requests : Closing(c, u)
      BY <2>1 DEF SerialInv, NothingLeaks
    <3>3. CASE exit_stacks[Name(u)] = u /\ Name(u) = n
      <4>1. Closing(d, u)'
        BY <1>1, <3>3, NoneAssumption DEF Closing
      <4> QED
        BY <3>1, <4>1
    <3>4. CASE exit_stacks[Name(u)] = u /\ Name(u) # n
      BY <1>0, <1>1, <3>1, <3>4 DEF TypeOK
    <3>5. CASE \E c \in Requests : Closing(c, u)
      <4>1. PICK c \in Requests : Closing(c, u)
        BY <3>5
      <4>2. c # d
        BY <4>1 DEF Closing
      <4>3. Closing(c, u)'
        BY <1>1, <4>1, <4>2 DEF Closing
      <4> QED
        BY <3>1, <4>3
    <3> QED
      BY <3>1, <3>2, <3>3, <3>4, <3>5
  <2>2. \A u \in Requests \ {d} : req'[u].name = Name(u)
    BY DEF Name
  <2> QED
    BY <2>1, <2>2 DEF NothingLeaks, Name
<1> QED
  BY <1>3, <1>4, <1>5, <1>6, <1>7, <1>8, <1>9, <1>10 DEF SerialInv

\* A destroy awaits its tunnel's loop, or its processes: it has popped nothing
\* but the loop's task yet, and finds the tunnel listed.
LEMMA SerialWait ==
    ASSUME SerialInv, HostInv', NEW d \in Requests, NEW n \in Names,
           DestroyStep(d, n), namespaces[n] # None,
           pc[d] \in {"idle", "d_rebind"}, pc'[d] \in {"d_rebind", "d_wait"},
           \A u \in Requests \ {d} : pc'[u] = pc[u] /\ target'[u] = target[u],
           UNCHANGED <<registry, signals>>,
           shutting_down' = shutting_down \cup {n}
    PROVE  SerialInv'
<1> USE DEF Building, SettingUp, Failing, Destroying, DestroyStep
<1>0. /\ TypeOK
      /\ \A u \in Requests \ {d} : Name(u)' = Name(u)
      /\ Name(d)' = n
      /\ \A u \in Requests : pc[u] \in Past => u # d
      /\ stack[d] = {}
      /\ UNCHANGED <<namespaces, exit_stacks, tunnel_contexts, tunnel_stop_signals, stopped,
                     pidfile, nspid, link>>
  <2>1. stack[d] = {}
    BY DEF SerialInv, KindInv, HostInv, EmptyInv
  <2> QED
    BY <2>1, SerialTypes DEF Name, Past, registry, signals, host
<1>1. KindInv'
  BY <1>0 DEF SerialInv, KindInv
<1>2. OneSetupInv'
  BY <1>0 DEF SerialInv, OneSetupInv
<1>3. OneDestroyInv'
  <2>1. OneDestroyInv
    BY DEF SerialInv
  <2>2. \A u \in Requests : pc[u] = "d_close" => target[u] \in Requests \ {d}
    BY <1>0, SerialTypes
  <2>3. \A u \in Requests : pc[u] \in Destroying => Name(u) \in Names
    BY SerialTypes
  <2>4. tunnel_rebind_tasks'[n] = None
        /\ \A m \in Names : tunnel_rebind_tasks[m] = None => tunnel_rebind_tasks'[m] = None
    BY <1>0 DEF TypeOK
  <2> QED
    BY <1>0, <2>1, <2>2, <2>3, <2>4 DEF OneDestroyInv, ShutGuard
<1>4. OwnHostInv'
  BY <1>0 DEF SerialInv, OwnHostInv
<1>5. ContextInv'
  BY <1>0 DEF SerialInv, ContextInv
<1>6. ServeInv'
  <2>1. ServeInv
    BY DEF SerialInv
  <2>2. \A u \in Requests : pc'[u] \in {"started", "serving"} => u # d /\ pc'[u] = pc[u]
    OBVIOUS
  <2>3. \A u \in Requests : pc[u] \in {"started", "serving", "done", "d_close"} =>
           u # d /\ pc'[u] = pc[u] /\ target'[u] = target[u]
    OBVIOUS
  <2>4. \A m \in Names : tunnel_stop_signals[m] # None => tunnel_stop_signals[m] \in Requests
    BY <1>0 DEF TypeOK, Maybe
  <2>5. \A u \in Requests : pc[u] = "started" => rebind'[u] = "none"
    BY <2>1 DEF ServeInv
  <2> QED
    BY <1>0, <2>1, <2>2, <2>3, <2>4, <2>5 DEF ServeInv
<1>7. RebindInv'
  <2>1. RebindInv
    BY DEF SerialInv
  <2>2. ASSUME NEW u \in Requests, rebind'[u] # "none"
        PROVE  u # d /\ pc'[u] = pc[u] /\ pc[u] \in {"serving", "done"}
    BY <2>1, <2>2 DEF RebindInv
  <2>3. ASSUME NEW u \in Requests, rebind'[u] \in {"sleep", "alloc"}
        PROVE  \/ namespaces[Name(u)] = u /\ tunnel_rebind_tasks'[Name(u)] = u
               \/ pc'[u] = "serving"
    <3>1. rebind[u] = rebind'[u] /\ u # d /\ pc'[u] = pc[u] /\ Name(u) \in Names
      BY <2>2, <2>3, SerialTypes
    <3>2. \/ namespaces[Name(u)] = u /\ tunnel_rebind_tasks[Name(u)] = u
          \/ pc[u] = "serving"
      BY <2>1, <2>3, <3>1 DEF RebindInv
    <3>3. CASE Name(u) = n
      BY <2>3, <3>1, <3>2, <3>3
    <3>4. CASE Name(u) # n
      BY <1>0, <3>1, <3>2, <3>4 DEF TypeOK
    <3> QED
      BY <3>3, <3>4
  <2>4. ASSUME NEW m \in Names, tunnel_rebind_tasks'[m] # None
        PROVE  /\ pc'[tunnel_rebind_tasks'[m]] = "done"
               /\ Name(tunnel_rebind_tasks'[m]) = m
               /\ tunnel_rebind_tasks'[m] \in Requests \ {d}
    <3>1. tunnel_rebind_tasks'[m] = tunnel_rebind_tasks[m] /\ tunnel_rebind_tasks[m] \in Requests
      BY <1>0, <2>4 DEF TypeOK, Maybe
    <3> QED
      BY <2>1, <2>4, <3>1 DEF RebindInv
  <2>5. \A u \in Requests : rebind'[u] = "alloc" => rctx'[u] = u /\ rstack'[u] = u
    BY <2>1 DEF RebindInv, RebindOwnTunnel
  <2>6. \A u \in Requests \ {d} : req'[u].name = Name(u)
    BY DEF Name
  <2> QED
    BY <1>0, <2>2, <2>3, <2>4, <2>5, <2>6 DEF RebindInv, RebindOwnTunnel, Name
<1>8. NothingLeaks'
  <2>1. \A u, c \in Requests : Closing(c, u) => Closing(c, u)'
    BY DEF Closing
  <2>2. \A u \in Requests : pc[u] \in SettingUp \cup {"failed"} => pc'[u] = pc[u]
    OBVIOUS
  <2>3. \A u \in Requests : stack[u] # {} => u # d
    BY <1>0
  <2> QED
    BY <1>0, <2>1, <2>2, <2>3 DEF SerialInv, NothingLeaks
<1> QED
  BY <1>1, <1>2, <1>3, <1>4, <1>5, <1>6, <1>7, <1>8 DEF SerialInv

LEMMA SerialWaitOrUnregister ==
    ASSUME SerialInv, HostInv', NEW d \in Requests, NEW n \in Names, NEW waiting,
           WaitOrUnregister(d, n, waiting, shutting_down \cup {n}),
           waiting => namespaces[n] # None,
           DestroyStep(d, n), pc[d] \in {"idle", "d_rebind"}
    PROVE  SerialInv'
<1>1. shutting_down \cup {n} \in SUBSET Names
  BY SerialTypes DEF TypeOK
<1>2. CASE waiting
  <2>1. /\ UNCHANGED <<registry, signals>> /\ shutting_down' = shutting_down \cup {n}
        /\ pc'[d] = "d_wait"
        /\ \A u \in Requests \ {d} : pc'[u] = pc[u] /\ target'[u] = target[u]
    BY <1>2, SerialTypes DEF WaitOrUnregister, Goto, TypeOK
  <2> QED
    BY <1>2, <2>1, SerialWait
<1>3. CASE ~waiting
  <2>1. Unregister(d, n, shutting_down \cup {n})
    BY <1>3 DEF WaitOrUnregister
  <2> QED
    BY <1>1, <2>1, SerialUnregister
<1> QED
  BY <1>2, <1>3

\* The exception of a dead loop ends a destroy: only the task was popped.
LEMMA SerialRaiseDestroy ==
    ASSUME SerialInv, HostInv', NEW d \in Requests, NEW n \in Names,
           DestroyStep(d, n), pc[d] = "idle", Answer(d, "error"),
           UNCHANGED <<registry, signals, target, rebind>>,
           shutting_down' = shutting_down \ {n}
    PROVE  SerialInv'
<1> USE DEF Building, SettingUp, Failing, Destroying, DestroyStep
<1>0. /\ TypeOK
      /\ pc'[d] = "done" /\ stack[d] = {}
      /\ \A u \in Requests \ {d} : pc'[u] = pc[u] /\ Name(u)' = Name(u)
      /\ UNCHANGED <<namespaces, exit_stacks, tunnel_contexts, tunnel_stop_signals, stopped,
                     rebind, rctx, rstack, pidfile, nspid, link>>
  <2>1. TypeOK
    BY SerialTypes
  <2>2. stack[d] = {}
    BY DEF SerialInv, HostInv, EmptyInv
  <2> QED
    BY <2>1, <2>2 DEF Name, Answer, Goto, registry, signals, host, TypeOK
<1>1. KindInv'
  BY <1>0 DEF SerialInv, KindInv
<1>2. OneSetupInv'
  BY <1>0 DEF SerialInv, OneSetupInv
<1>3. OneDestroyInv'
  <2>1. OneDestroyInv
    BY DEF SerialInv
  <2>2. \A u \in Requests : pc'[u] \in Destroying =>
           u # d /\ pc'[u] = pc[u] /\ Name(u) # n /\ Name(u) \in Names
    BY <1>0, SerialTypes
  <2>3. \A u \in Requests : pc[u] = "d_close" => target[u] \in Requests \ {d}
    BY <1>0, SerialTypes DEF Past
  <2>4. \A m \in Names : tunnel_rebind_tasks[m] = None => tunnel_rebind_tasks'[m] = None
    BY <1>0 DEF TypeOK
  <2> QED
    BY <1>0, <2>1, <2>2, <2>3, <2>4 DEF OneDestroyInv, ShutGuard
<1>4. OwnHostInv'
  BY <1>0 DEF SerialInv, OwnHostInv
<1>5. ContextInv'
  BY <1>0 DEF SerialInv, ContextInv
<1>6. ServeInv'
  <2>1. ServeInv
    BY DEF SerialInv
  <2>2. \A u \in Requests : pc'[u] \in {"started", "serving"} => u # d /\ pc'[u] = pc[u]
    BY <1>0
  <2>3. \A u \in Requests : pc[u] \in {"started", "serving", "done", "d_close"} => u # d /\ pc'[u] = pc[u]
    BY <1>0
  <2>4. \A m \in Names : tunnel_stop_signals[m] # None => tunnel_stop_signals[m] \in Requests
    BY <1>0 DEF TypeOK, Maybe
  <2> QED
    BY <1>0, <2>1, <2>2, <2>3, <2>4 DEF ServeInv
<1>7. RebindInv'
  <2>1. RebindInv
    BY DEF SerialInv
  <2>2. ASSUME NEW u \in Requests, rebind'[u] # "none"
        PROVE  u # d /\ pc'[u] = pc[u] /\ pc[u] \in {"serving", "done"}
    BY <1>0, <2>1, <2>2 DEF RebindInv
  <2>3. ASSUME NEW u \in Requests, rebind'[u] \in {"sleep", "alloc"}
        PROVE  \/ namespaces[Name(u)] = u /\ tunnel_rebind_tasks'[Name(u)] = u
               \/ pc'[u] = "serving"
    <3>1. rebind[u] = rebind'[u] /\ u # d /\ pc'[u] = pc[u] /\ Name(u) \in Names
      BY <1>0, <2>2, <2>3, SerialTypes
    <3>2. \/ namespaces[Name(u)] = u /\ tunnel_rebind_tasks[Name(u)] = u
          \/ pc[u] = "serving"
      BY <2>1, <2>3, <3>1 DEF RebindInv
    <3>3. CASE Name(u) = n
      BY <2>3, <3>1, <3>2, <3>3
    <3>4. CASE Name(u) # n
      BY <1>0, <3>1, <3>2, <3>4 DEF TypeOK
    <3> QED
      BY <3>3, <3>4
  <2>4. ASSUME NEW m \in Names, tunnel_rebind_tasks'[m] # None
        PROVE  /\ pc'[tunnel_rebind_tasks'[m]] = "done"
               /\ Name(tunnel_rebind_tasks'[m]) = m
               /\ tunnel_rebind_tasks'[m] \in Requests \ {d}
    <3>1. tunnel_rebind_tasks'[m] = tunnel_rebind_tasks[m] /\ tunnel_rebind_tasks[m] \in Requests
      BY <1>0, <2>4 DEF TypeOK, Maybe
    <3> QED
      BY <1>0, <2>1, <2>4, <3>1 DEF RebindInv
  <2>5. \A u \in Requests : rebind'[u] = "alloc" => rctx'[u] = u /\ rstack'[u] = u
    BY <1>0, <2>1 DEF RebindInv, RebindOwnTunnel
  <2>6. \A u \in Requests \ {d} : req'[u].name = Name(u)
    BY DEF Name
  <2> QED
    BY <1>0, <2>2, <2>3, <2>4, <2>5, <2>6 DEF RebindInv, RebindOwnTunnel, Name
<1>8. NothingLeaks'
  <2>1. \A u, c \in Requests : Closing(c, u) => Closing(c, u)'
    BY <1>0 DEF Closing
  <2>2. \A u \in Requests : pc[u] \in SettingUp \cup {"failed"} => pc'[u] = pc[u]
    BY <1>0
  <2>3. \A u \in Requests : stack[u] # {} => u # d
    BY <1>0
  <2> QED
    BY <1>0, <2>1, <2>2, <2>3 DEF SerialInv, NothingLeaks
<1> QED
  BY <1>1, <1>2, <1>3, <1>4, <1>5, <1>6, <1>7, <1>8 DEF SerialInv

LEMMA SerialBeginDestroy ==
    ASSUME Serialised, SerialInv, HostInv', NEW d \in Requests, NEW r \in Menu,
           Undisturbed(d), BeginDestroy(d, r)
    PROVE  SerialInv'
<1> DEFINE task == tunnel_rebind_tasks[r.name]
           waiting == r.wait /\ {u \in active_processes : Name(u) = r.name} # {}
<1>0. /\ TypeOK /\ r.name \in Names /\ RebindInv
      /\ waiting => namespaces[r.name] # None
      /\ pc[d] = "idle" /\ r.kind = "destroy" /\ req' = [req EXCEPT ![d] = r] /\ req'[d] = r
      /\ tunnel_rebind_tasks' = [tunnel_rebind_tasks EXCEPT ![r.name] = None]
      /\ UNCHANGED <<rctx, rstack, stack, host>>
      /\ \A u \in Requests \ {d} :
            /\ req'[u] = req[u]
            /\ pc[u] \in Destroying => Name(u) # r.name
            /\ pc[u] # "started"
      /\ task # None => task \in Requests /\ pc[task] = "done" /\ Name(task) = r.name
  <2>1. TypeOK /\ r.name \in Names
    BY SerialTypes, MenuAssumption DEF RequestRecord
  <2>2. RebindInv
    BY DEF SerialInv
  <2>3. /\ pc[d] = "idle" /\ r.kind = "destroy" /\ req' = [req EXCEPT ![d] = r]
        /\ tunnel_rebind_tasks' = [tunnel_rebind_tasks EXCEPT ![r.name] = None]
        /\ UNCHANGED <<rctx, rstack, stack, host>>
        /\ ~InFlight(r.name, Destroying)
        /\ waiting => namespaces[r.name] # None
    BY DEF BeginDestroy, Arrive, MayArrive, Known, Serialised
  <2>4. \A u \in Requests \ {d} : pc[u] # "started"
    BY DEF Undisturbed, Serialised
  <2>5. task # None => task \in Requests /\ pc[task] = "done" /\ Name(task) = r.name
    BY <2>1, <2>2 DEF TypeOK, Maybe, RebindInv
  <2> QED
    BY <2>1, <2>2, <2>3, <2>4, <2>5 DEF InFlight, TypeOK
<1>1. \/ /\ task # None /\ rebind[task] = "failed" /\ Answer(d, "error")
         /\ shutting_down' = LiftGuard(r.name, Guarded(r.name))
         /\ UNCHANGED <<registry, signals, target, rebind>>
      \/ /\ task # None /\ rebind[task] \in {"sleep", "alloc"}
         /\ rebind' = [rebind EXCEPT ![task] = "cancelled"]
         /\ target' = [target EXCEPT ![d] = task]
         /\ shutting_down' = Guarded(r.name)
         /\ Goto(d, "d_rebind")
         /\ UNCHANGED <<registry, signals>>
      \/ /\ task # None => rebind[task] \notin {"sleep", "alloc"}
         /\ WaitOrUnregister(d, r.name, waiting, Guarded(r.name))
         /\ UNCHANGED rebind
  BY <1>0 DEF BeginDestroy, Cancelled, TypeOK
<1>2. namespaces[r.name] # None =>
         \/ namespaces[r.name] = task
         \/ rebind[namespaces[r.name]] \notin {"sleep", "alloc"}
         \/ pc[namespaces[r.name]] = "serving"
  BY <1>0, SerialTypes DEF RebindInv
<1>3. Guarded(r.name) = shutting_down \cup {r.name} /\ Guarded(r.name) \in SUBSET Names
  BY <1>0 DEF Guarded, TypeOK
<1>4. CASE /\ task # None /\ rebind[task] = "failed" /\ Answer(d, "error")
           /\ shutting_down' = LiftGuard(r.name, Guarded(r.name))
           /\ UNCHANGED <<registry, signals, target, rebind>>
  <2>1. DestroyStep(d, r.name)
    BY <1>0, <1>2, <1>4 DEF DestroyStep
  <2>2. shutting_down' = shutting_down \ {r.name}
    BY <1>4 DEF LiftGuard, Guarded
  <2> QED
    BY <1>0, <1>4, <2>1, <2>2, SerialRaiseDestroy
<1>5. CASE /\ task # None /\ rebind[task] \in {"sleep", "alloc"}
           /\ rebind' = [rebind EXCEPT ![task] = "cancelled"]
           /\ target' = [target EXCEPT ![d] = task]
           /\ shutting_down' = Guarded(r.name)
           /\ Goto(d, "d_rebind")
           /\ UNCHANGED <<registry, signals>>
  <2>1. namespaces[r.name] = task
    BY <1>0, <1>5 DEF RebindInv
  <2>2. /\ pc'[d] = "d_rebind"
        /\ \A u \in Requests \ {d} : pc'[u] = pc[u] /\ target'[u] = target[u]
        /\ \A u \in Requests : rebind'[u] = rebind[u] \/ (rebind[u] # "none" /\ rebind'[u] = "cancelled")
        /\ rebind'[task] = "cancelled"
    BY <1>0, <1>5 DEF Goto, TypeOK
  <2>3. DestroyStep(d, r.name)
    BY <1>0, <2>1, <2>2 DEF DestroyStep
  <2>4. namespaces[r.name] # None /\ shutting_down' = shutting_down \cup {r.name}
    BY <1>3, <1>5, <2>1
  <2> QED
    BY <1>0, <1>5, <2>2, <2>3, <2>4, SerialWait
<1>6. CASE /\ task # None => rebind[task] \notin {"sleep", "alloc"}
           /\ WaitOrUnregister(d, r.name, waiting, Guarded(r.name))
           /\ UNCHANGED rebind
  <2>1. namespaces[r.name] # None =>
           \/ rebind[namespaces[r.name]] \notin {"sleep", "alloc"}
           \/ pc[namespaces[r.name]] = "serving"
    BY <1>2, <1>6
  <2>2. DestroyStep(d, r.name)
    BY <1>0, <1>6, <2>1 DEF DestroyStep
  <2>3. WaitOrUnregister(d, r.name, waiting, shutting_down \cup {r.name})
    BY <1>3, <1>6
  <2> QED
    BY <1>0, <2>2, <2>3, SerialWaitOrUnregister
<1> QED
  BY <1>1, <1>4, <1>5, <1>6

LEMMA SerialDestroying ==
    ASSUME Serialised, SerialInv, HostInv', NEW d \in Requests, Undisturbed(d),
           DestroyAfterRebind(d) \/ DestroyAfterWait(d)
    PROVE  SerialInv'
<1>1. /\ TypeOK /\ RebindInv /\ OneDestroyInv
      /\ pc[d] \in {"d_rebind", "d_wait"}
      /\ req[d] \in Menu /\ Name(d) \in Names /\ req[d].kind = "destroy"
      /\ UNCHANGED <<tunnel_rebind_tasks, req, loops, stack, host>>
  <2>1. pc[d] \in {"d_rebind", "d_wait"} /\ UNCHANGED <<tunnel_rebind_tasks, req, loops, stack, host>>
    BY DEF DestroyAfterRebind, DestroyAfterWait
  <2>2. req[d] \in Menu /\ Name(d) \in Names
    BY <2>1, ArrivedName DEF SerialInv, HostInv, LifeInv
  <2> QED
    BY <2>1, <2>2, SerialTypes DEF SerialInv, KindInv, Destroying
<1>2. /\ namespaces[Name(d)] # None /\ tunnel_rebind_tasks[Name(d)] = None
      /\ Name(d) \in shutting_down
      /\ \A u \in Requests \ {d} :
            /\ req'[u] = req[u]
            /\ pc[u] \in Destroying => Name(u) # Name(d)
            /\ pc[u] # "started"
  <2>1. \A u \in Requests \ {d} : pc[u] # "started"
    BY DEF Undisturbed, Serialised
  <2> QED
    BY <1>1, <2>1 DEF OneDestroyInv, ShutGuard, Destroying
<1>3. \/ rebind[namespaces[Name(d)]] \notin {"sleep", "alloc"}
      \/ pc[namespaces[Name(d)]] = "serving"
  BY <1>1, <1>2, NoneAssumption, SerialTypes DEF RebindInv
<1>4. /\ tunnel_rebind_tasks' = [tunnel_rebind_tasks EXCEPT ![Name(d)] = None]
      /\ shutting_down = shutting_down \cup {Name(d)}
      /\ shutting_down \in SUBSET Names
  BY <1>1, <1>2 DEF TypeOK
<1>5. DestroyStep(d, Name(d))
  <2>1. req'[d].kind = "destroy" /\ req'[d].name = Name(d)
    BY <1>1 DEF Name
  <2>2. \A u \in Requests : rebind'[u] = rebind[u]
    BY <1>1 DEF loops
  <2>3. UNCHANGED <<rctx, rstack, stack, host>>
    BY <1>1 DEF loops
  <2>4. namespaces[Name(d)] # None =>
           \/ rebind'[namespaces[Name(d)]] \notin {"sleep", "alloc"}
           \/ pc[namespaces[Name(d)]] = "serving"
    BY <1>1, <1>3 DEF loops
  <2> QED
    BY <1>2, <1>4, <2>1, <2>2, <2>3, <2>4 DEF DestroyStep
<1>6. CASE DestroyAfterRebind(d)
  <2>1. /\ WaitOrUnregister(d, Name(d), d \in waits, shutting_down \cup {Name(d)})
        /\ pc[d] = "d_rebind"
    BY <1>4, <1>6 DEF DestroyAfterRebind
  <2> QED
    BY <1>1, <1>2, <1>5, <2>1, SerialWaitOrUnregister
<1>7. CASE DestroyAfterWait(d)
  <2>1. Unregister(d, Name(d), shutting_down)
    BY <1>7 DEF DestroyAfterWait
  <2> QED
    BY <1>1, <1>4, <1>5, <2>1, SerialUnregister
<1> QED
  BY <1>6, <1>7

\* aclose() leaves a context manager of a tunnel that no start handler serves.
LEMMA SerialRelease ==
    ASSUME SerialInv, HostInv', NEW c \in Requests, Release(c)
    PROVE  SerialInv'
<1> DEFINE s == target[c]
           m == TopOf(stack[s])
<1> USE DEF Building, SettingUp, Failing, Destroying
<1>0. /\ TypeOK
      /\ pc[c] \in {"unwind", "d_close"}
      /\ Name(c) \in Names
      /\ UNCHANGED <<namespaces, exit_stacks, tunnel_contexts, tunnel_stop_signals, stopped,
                     tunnel_rebind_tasks, req, target, rebind, rctx, rstack, nspid>>
      /\ \A u \in Requests : Name(u)' = Name(u)
      /\ \A u \in Requests \ {c} : pc'[u] = pc[u]
      /\ pc'[c] \in {pc[c], "done"}
  <2>1. TypeOK /\ pc[c] \in {"unwind", "d_close"}
    BY SerialTypes DEF Release
  <2>2. UNCHANGED <<namespaces, exit_stacks, tunnel_contexts, tunnel_stop_signals, stopped,
                    tunnel_rebind_tasks, req, target, rebind, rctx, rstack>>
    BY DEF Release, registry, signals, loops
  <2>3. UNCHANGED nspid
    BY DEF Release, LeaveManager, host
  <2>4. /\ \A u \in Requests \ {c} : pc'[u] = pc[u]
        /\ pc'[c] \in {pc[c], "done"}
    BY <2>1 DEF Release, Answer, Goto, TypeOK
  <2> QED
    BY <2>1, <2>2, <2>3, <2>4, SerialTypes DEF Name
<1>1. /\ s \in Requests /\ Name(s) = Name(c) /\ pc[s] \in Past \cup {"unwind"}
      /\ pc[c] = "unwind" => s = c
      /\ pc[c] = "d_close" => pc[s] \in Past /\ \A n \in Names : namespaces[n] # s
  BY <1>0, SerialTypes DEF SerialInv, HostInv, LifeInv, CloserInv, OneDestroyInv
<1>2. /\ stack' = [stack EXCEPT ![s] = @ \ {m}]
      /\ LeaveManager(s, m)
      /\ stack[s] # {m} => pc' = pc /\ shutting_down' = shutting_down
      /\ pc'[c] \in Destroying => shutting_down' = shutting_down
      /\ shutting_down' \in {shutting_down, shutting_down \ {Name(c)}}
      /\ pc[c] = "unwind" => shutting_down' = shutting_down
  BY <1>0, <1>1 DEF Release, LiftGuard, Answer, Goto, TypeOK
<1>3. ~StarterWoken(Name(c))
  BY DEF Release
<1>4. /\ \A u \in Requests : stack'[u] \subseteq stack[u]
      /\ \A u \in Requests \ {s} : stack'[u] = stack[u]
  BY <1>0, <1>1, <1>2 DEF TypeOK
<1>5. KindInv'
  BY <1>0, <1>4 DEF SerialInv, KindInv
<1>6. OneSetupInv'
  BY <1>0 DEF SerialInv, OneSetupInv
<1>7. OneDestroyInv'
  <2>1. OneDestroyInv
    BY DEF SerialInv
  <2>2. \A d \in Requests : pc'[d] \in Destroying => pc'[d] = pc[d]
    BY <1>0
  <2>3. ShutGuard'
    <3>1. ASSUME NEW d \in Requests, pc'[d] \in Destroying
          PROVE  Name(d) \in shutting_down'
      <4>1. Name(d) \in shutting_down /\ pc[d] \in Destroying
        BY <2>1, <2>2, <3>1 DEF OneDestroyInv, ShutGuard
      <4>2. CASE d = c
        BY <1>2, <3>1, <4>1, <4>2
      <4>3. CASE d # c /\ pc[c] = "d_close"
        <5>1. Name(d) # Name(c)
          BY <2>1, <4>1, <4>3 DEF OneDestroyInv
        <5> QED
          BY <1>2, <4>1, <5>1
      <4>4. CASE pc[c] = "unwind"
        BY <1>2, <4>1, <4>4
      <4> QED
        BY <1>0, <4>2, <4>3, <4>4
    <3> QED
      BY <1>0, <3>1 DEF ShutGuard
  <2>4. \A d \in Requests : pc[d] = "d_close" => target[d] \in Requests
    BY SerialTypes
  <2> QED
    BY <1>0, <2>1, <2>2, <2>3, <2>4 DEF OneDestroyInv
<1>8. OwnHostInv'
  <2>1. OwnHostInv
    BY DEF SerialInv
  <2>2. \A n \in Names : pidfile'[n] \in {pidfile[n], None}
    <3>1. CASE m = "namespace"
      BY <1>0, <1>2, <3>1 DEF LeaveManager, TypeOK
    <3>2. CASE m # "namespace"
      BY <1>2, <3>2 DEF LeaveManager, host
    <3> QED
      BY <3>1, <3>2
  <2>3. ASSUME NEW u \in Requests, "link" \in stack'[u]
        PROVE  link'[Slot[Name(u)]] = u
    <3>1. "link" \in stack[u] /\ link[Slot[Name(u)]] = u /\ Slot[Name(u)] \in Slots
      BY <1>4, <2>1, <2>3, SerialTypes DEF OwnHostInv
    <3>2. CASE m = "link"
      <4>1. "link" \in stack[s] /\ link[Slot[Name(s)]] = s
        BY <1>1, <2>1, <3>2 DEF TopOf, OwnHostInv
      <4>2. u # s
        BY <1>0, <1>1, <1>2, <2>3, <3>2 DEF TypeOK
      <4>3. Slot[Name(u)] # Slot[Name(s)]
        BY <3>1, <4>1, <4>2
      <4>4. link' = [link EXCEPT ![Slot[Name(s)]] = None]
        BY <1>2, <3>2 DEF LeaveManager, DeleteLink
      <4> QED
        BY <1>0, <3>1, <4>3, <4>4 DEF TypeOK
    <3>3. CASE m = "namespace"
      <4>1. "link" \notin stack[s]
        BY <3>3 DEF TopOf
      <4>2. nspid[u] # s
        BY <1>1, <2>1, <3>1, <4>1, NoneAssumption DEF OwnHostInv
      <4>3. link' = [x \in Slots |->
                        IF \E t \in Requests : /\ link[x] = t
                                               /\ nspid[t] = s
                                               /\ "services" \notin stack[t]
                          THEN None ELSE link[x]]
        BY <1>2, <3>3 DEF LeaveManager
      <4> QED
        BY <3>1, <4>2, <4>3
    <3>4. CASE m \notin {"link", "namespace"}
      BY <1>2, <3>1, <3>4 DEF LeaveManager, host
    <3> QED
      BY <3>2, <3>3, <3>4
  <2>4. \A u \in Requests : pc'[u] \in {"link", "attach", "configure", "services", "publish"} =>
           pc'[u] = pc[u] /\ Name(u) \in Names
    BY <1>0, SerialTypes
  <2> QED
    BY <1>0, <1>4, <2>1, <2>2, <2>3, <2>4 DEF OwnHostInv
<1>9. ContextInv'
  BY <1>0 DEF SerialInv, ContextInv
<1>10. \A u \in Requests : pc[u] = "serving" => u # s
  <2>1. SUFFICES ASSUME pc[s] = "serving" PROVE FALSE
    BY <1>1
  <2>2. pc[c] = "d_close" /\ Name(s) \in Names
    BY <1>0, <1>1, <2>1
  <2>3. namespaces[Name(s)] # s
    BY <1>1, <2>2
  <2>4. s \in stopped
    BY <1>1, <2>1, <2>3 DEF SerialInv, ServeInv
  <2> QED
    BY <1>1, <1>3, <2>1, <2>4 DEF StarterWoken
<1>11. ServeInv'
  <2>1. ServeInv
    BY DEF SerialInv
  <2>2. ASSUME NEW u \in Requests, pc'[u] = "serving"
        PROVE  /\ Complete \subseteq stack'[u]
               /\ \/ namespaces[Name(u)] = u /\ tunnel_stop_signals[Name(u)] = u
                  \/ u \in stopped /\ \E d \in Requests : pc'[d] = "d_close" /\ target[d] = u
    <3>1. /\ pc[u] = "serving" /\ u # s
          /\ Complete \subseteq stack[u]
          /\ \/ namespaces[Name(u)] = u /\ tunnel_stop_signals[Name(u)] = u
             \/ u \in stopped /\ \E d \in Requests : pc[d] = "d_close" /\ target[d] = u
      BY <1>0, <1>10, <2>1, <2>2 DEF ServeInv
    <3>2. \A d \in Requests : pc[d] = "d_close" /\ target[d] = u => pc'[d] = "d_close"
      BY <1>0, <3>1
    <3> QED
      BY <1>4, <3>1, <3>2
  <2>3. \A u \in Requests : pc[u] \in {"serving", "done"} => u # c /\ pc'[u] = pc[u]
    BY <1>0
  <2>4. \A u \in Requests : pc'[u] = "started" => pc[u] = "started"
    BY <1>0
  <2>5. \A n \in Names : tunnel_stop_signals[n] # None => tunnel_stop_signals[n] \in Requests
    BY <1>0 DEF TypeOK, Maybe
  <2> QED
    BY <1>0, <2>1, <2>2, <2>3, <2>4, <2>5 DEF ServeInv
<1>12. RebindInv'
  <2>1. \A u \in Requests : pc[u] \in {"serving", "done"} => u # c /\ pc'[u] = pc[u]
    BY <1>0
  <2>2. \A n \in Names : tunnel_rebind_tasks[n] # None => tunnel_rebind_tasks[n] \in Requests
    BY <1>0 DEF TypeOK, Maybe
  <2> QED
    BY <1>0, <2>1, <2>2 DEF SerialInv, RebindInv, RebindOwnTunnel
<1>13. NothingLeaks'
  <2>1. ASSUME NEW u \in Requests, stack'[u] # {}
        PROVE  \/ pc'[u] \in SettingUp \cup {"failed"}
               \/ exit_stacks[Name(u)] = u
               \/ \E d \in Requests : Closing(d, u)'
    <3>1. CASE u = s
      <4>1. pc' = pc
        BY <1>0, <1>1, <1>2, <2>1, <3>1 DEF TypeOK
      <4>2. Closing(c, u)'
        BY <1>0, <3>1, <4>1 DEF Closing
      <4> QED
        BY <4>2
    <3>2. CASE u # s
      <4>1. \/ pc[u] \in SettingUp \cup {"failed"}
            \/ exit_stacks[Name(u)] = u
            \/ \E d \in Requests : Closing(d, u)
        BY <1>4, <2>1, <3>2 DEF SerialInv, NothingLeaks
      <4>2. \A d \in Requests : Closing(d, u) => Closing(d, u)'
        BY <1>0, <3>2 DEF Closing
      <4> QED
        BY <1>0, <4>1, <4>2
    <3> QED
      BY <3>1, <3>2
  <2> QED
    BY <1>0, <2>1 DEF NothingLeaks
<1> QED
  BY <1>5, <1>6, <1>7, <1>8, <1>9, <1>11, <1>12, <1>13 DEF SerialInv

\* The tunnel of a loop that runs is listed, or its StartTunnel serves and a
\* destroy is about to close it: no other tunnel is listed under its name.
LEMMA LoopFacts ==
    ASSUME SerialInv, NEW t \in Requests, rebind[t] \in {"sleep", "alloc"}
    PROVE  /\ Name(t) \in Names /\ Complete \subseteq stack[t]
           /\ namespaces[Name(t)] \in {t, None}
           /\ exit_stacks[Name(t)] = t \/ \E d \in Requests : Closing(d, t)
<1>1. /\ \/ namespaces[Name(t)] = t
         \/ pc[t] = "serving"
      /\ pc[t] # "idle"
  BY DEF SerialInv, RebindInv
<1>2. Name(t) \in Names /\ exit_stacks[Name(t)] = namespaces[Name(t)]
  BY <1>1, SerialTypes
<1>3. CASE namespaces[Name(t)] = t
  BY <1>2, <1>3, NoneAssumption, SerialTypes
<1>4. CASE pc[t] = "serving"
  <2>1. /\ Complete \subseteq stack[t]
        /\ namespaces[Name(t)] = t \/ \E d \in Requests : pc[d] = "d_close" /\ target[d] = t
    BY <1>4 DEF SerialInv, ServeInv
  <2>2. ASSUME namespaces[Name(t)] # None
        PROVE  namespaces[Name(t)] = t
    <3> DEFINE u == namespaces[Name(t)]
    <3>1. u \in Requests /\ Complete \subseteq stack[u] /\ Name(u) = Name(t)
      BY <1>2, <2>2, SerialTypes
    <3> QED
      BY <2>1, <3>1, OneLinkPerName DEF Complete
  <2> QED
    BY <1>2, <2>1, <2>2 DEF Closing
<1> QED
  BY <1>1, <1>3, <1>4

\* A loop binds the ports of its own tunnel: no other is listed by its name.
LEMMA SerialRebinding ==
    ASSUME Serialised, SerialInv, HostInv', NEW t \in Requests, Rebinding(t)
    PROVE  SerialInv'
<1> USE DEF Building, SettingUp, Failing, Destroying
<1> DEFINE n == Name(t)
<1>0. /\ TypeOK /\ rebind[t] \in {"sleep", "alloc"}
      /\ UNCHANGED <<namespaces, exit_stacks, tunnel_stop_signals, stopped, tunnel_rebind_tasks,
                     shutting_down, req, pc, target, pidfile, nspid, link>>
      /\ \A u \in Requests : Name(u)' = Name(u)
      /\ \A u \in Requests \ {t} : rebind'[u] = rebind[u] /\ rctx'[u] = rctx[u] /\ rstack'[u] = rstack[u]
      /\ rebind'[t] # "none"
      /\ rebind[t] = "alloc" => rctx[t] = t /\ rstack[t] = t
  <2>1. TypeOK /\ rebind[t] \in {"sleep", "alloc"}
    BY SerialTypes DEF Rebinding, RebindWake, RebindNextPort, RebindDone, RebindRaises
  <2>2. UNCHANGED <<namespaces, exit_stacks, tunnel_stop_signals, stopped, tunnel_rebind_tasks,
                    shutting_down, req, pc, target, pidfile, nspid, link>>
    BY DEF Rebinding, RebindWake, RebindNextPort, RebindDone, RebindRaises, registry, signals, host
  <2>3. /\ \A u \in Requests \ {t} : rebind'[u] = rebind[u] /\ rctx'[u] = rctx[u] /\ rstack'[u] = rstack[u]
        /\ rebind'[t] # "none"
    BY <2>1 DEF Rebinding, RebindWake, RebindNextPort, RebindDone, RebindRaises, TypeOK
  <2> QED
    BY <2>1, <2>2, <2>3 DEF Name, SerialInv, RebindInv, RebindOwnTunnel
<1>1. /\ n \in Names /\ Complete \subseteq stack[t]
      /\ namespaces[n] \in {t, None} /\ exit_stacks[n] = namespaces[n]
      /\ exit_stacks[n] = t \/ \E d \in Requests : Closing(d, t)
  BY <1>0, LoopFacts, SerialTypes
<1>2. stack' = stack \/ Push(t, "port")
  BY <1>0 DEF Rebinding, RebindWake, RebindNextPort, RebindDone, RebindRaises
<1>3. \A u \in Requests :
         /\ u # t => stack'[u] = stack[u]
         /\ stack[u] \subseteq stack'[u]
         /\ "services" \in stack'[u] <=> "services" \in stack[u]
         /\ "link" \in stack'[u] <=> "link" \in stack[u]
  BY <1>0, <1>2 DEF TypeOK, Push
<1>4. tunnel_contexts' = tunnel_contexts \/ tunnel_contexts' = [tunnel_contexts EXCEPT ![n] = t]
  BY <1>0 DEF Rebinding, RebindWake, RebindNextPort, RebindDone, RebindRaises, registry
<1>5. rebind'[t] = "alloc" => rctx'[t] = t /\ rstack'[t] = t
  <2>1. CASE RebindWake(t)
    <3>1. rebind'[t] = "alloc" =>
             /\ rctx'[t] = tunnel_contexts[n] /\ rstack'[t] = exit_stacks[n]
             /\ exit_stacks[n] # None
      BY <1>0, <2>1 DEF RebindWake, TypeOK
    <3>2. exit_stacks[n] # None => tunnel_contexts[n] = t
      BY <1>1 DEF SerialInv, ContextInv
    <3> QED
      BY <1>1, <3>1, <3>2
  <2>2. CASE RebindNextPort(t)
    <3>1. rebind'[t] = "alloc" => rctx' = rctx /\ rstack'[t] = exit_stacks[n] /\ exit_stacks[n] # None
      BY <1>0, <2>2 DEF RebindNextPort, TypeOK
    <3>2. rebind[t] = "alloc"
      BY <2>2 DEF RebindNextPort
    <3> QED
      BY <1>0, <1>1, <3>1, <3>2
  <2>3. CASE RebindDone(t)
    BY <1>0, <2>3 DEF RebindDone, TypeOK
  <2>4. CASE RebindRaises(t)
    BY <1>0, <2>4 DEF RebindRaises, TypeOK
  <2> QED
    BY <2>1, <2>2, <2>3, <2>4 DEF Rebinding
<1>6. KindInv'
  <2>1. req[t].kind # "destroy"
    BY <1>1 DEF SerialInv, KindInv, Complete
  <2> QED
    BY <1>0, <1>3, <2>1 DEF SerialInv, KindInv
<1>7. OneSetupInv'
  BY <1>0 DEF SerialInv, OneSetupInv
<1>8. OneDestroyInv'
  <2>1. \A d \in Requests : pc[d] = "d_close" => target[d] \in Requests
    BY SerialTypes
  <2> QED
    BY <1>0, <2>1 DEF SerialInv, OneDestroyInv, ShutGuard
<1>9. OwnHostInv'
  BY <1>0, <1>3 DEF SerialInv, OwnHostInv
<1>10. ContextInv'
  BY <1>0, <1>1, <1>4 DEF SerialInv, ContextInv, TypeOK
<1>11. ServeInv'
  <2>1. ServeInv /\ RebindInv
    BY DEF SerialInv
  <2>2. \A u \in Requests : pc[u] = "started" => u # t
    BY <1>0, <2>1 DEF ServeInv
  <2>3. \A m \in Names : tunnel_stop_signals[m] # None => tunnel_stop_signals[m] \in Requests
    BY <1>0 DEF TypeOK, Maybe
  <2>4. \A u \in Requests : pc[u] = "serving" => Complete \subseteq stack'[u]
    BY <1>3, <2>1 DEF ServeInv
  <2> QED
    BY <1>0, <2>1, <2>2, <2>3, <2>4 DEF ServeInv
<1>12. RebindInv'
  <2>1. RebindInv
    BY DEF SerialInv
  <2>2. \A m \in Names : tunnel_rebind_tasks[m] # None => tunnel_rebind_tasks[m] \in Requests
    BY <1>0 DEF TypeOK, Maybe
  <2>3. \A u \in Requests : rebind'[u] \in {"sleep", "alloc"} => rebind[u] \in {"sleep", "alloc"}
    BY <1>0
  <2>4. \A u \in Requests : rebind'[u] # "none" => rebind[u] # "none"
    BY <1>0
  <2>5. RebindOwnTunnel'
    BY <1>0, <1>5, <2>1 DEF RebindInv, RebindOwnTunnel
  <2> QED
    BY <1>0, <2>1, <2>2, <2>3, <2>4, <2>5 DEF RebindInv
<1>13. NothingLeaks'
  <2>1. \A c, u \in Requests : Closing(c, u)' <=> Closing(c, u)
    BY <1>0 DEF Closing
  <2>2. ASSUME NEW u \in Requests, stack'[u] # {}
        PROVE  \/ pc[u] \in SettingUp \cup {"failed"}
               \/ exit_stacks[Name(u)] = u
               \/ \E c \in Requests : Closing(c, u)
    BY <1>1, <1>3, <2>2 DEF SerialInv, NothingLeaks
  <2> QED
    BY <1>0, <2>1, <2>2 DEF NothingLeaks
<1> QED
  BY <1>6, <1>7, <1>8, <1>9, <1>10, <1>11, <1>12, <1>13 DEF SerialInv

\* A step of a process that runs in a tunnel, or of nobody.
LEMMA SerialKept ==
    ASSUME SerialInv, HostInv',
           UNCHANGED <<registry, signals, tunnel_rebind_tasks, shutting_down, req, pc, target,
                       loops, stack, host>>
    PROVE  SerialInv'
<1>1. UNCHANGED <<namespaces, exit_stacks, tunnel_contexts, tunnel_stop_signals, stopped,
                  rebind, rctx, rstack, pidfile, nspid, link>>
  BY DEF registry, signals, loops, host
<1>2. KindInv' /\ OneSetupInv' /\ OneDestroyInv'
  BY <1>1 DEF SerialInv, KindInv, OneSetupInv, OneDestroyInv, ShutGuard, Name
<1>3. OwnHostInv' /\ ContextInv'
  BY <1>1 DEF SerialInv, OwnHostInv, ContextInv, Name
<1>4. ServeInv' /\ RebindInv' /\ NothingLeaks'
  BY <1>1 DEF SerialInv, ServeInv, RebindInv, RebindOwnTunnel, NothingLeaks, Closing, Name
<1> QED
  BY <1>2, <1>3, <1>4 DEF SerialInv

LEMMA SerialInvNext ==
    ASSUME Serialised, SerialInv, [Next]_vars
    PROVE  SerialInv'
<1>0. HostInv'
  BY HostInvNext DEF SerialInv
<1>1. CASE UNCHANGED vars
  BY <1>0, <1>1, SerialKept DEF vars
<1>2. ASSUME NEW t \in Requests, Undisturbed(t), Step(t)
      PROVE  SerialInv'
  <2>1. CASE Arrival(t)
    <3>1. PICK r \in Menu : \/ Refuse(t, r) \/ RejectRun(t, r) \/ AdmitRun(t, r)
                            \/ BeginSetup(t, r) \/ BeginDestroy(t, r)
      BY <2>1 DEF Arrival
    <3>2. CASE BeginDestroy(t, r)
      BY <1>0, <1>2, <3>2, SerialBeginDestroy
    <3>3. CASE Refuse(t, r) \/ RejectRun(t, r) \/ AdmitRun(t, r) \/ BeginSetup(t, r)
      BY <1>0, <3>3, SerialArriveStep
    <3> QED
      BY <3>1, <3>2, <3>3
  <2>2. CASE Setup(t)
    BY <1>0, <2>2, SerialBuilding, SerialFailSetup, SerialPublish
  <2>3. CASE Serving(t)
    BY <1>0, <2>3, SerialServing
  <2>4. CASE DestroyAfterRebind(t) \/ DestroyAfterWait(t)
    BY <1>0, <1>2, <2>4, SerialDestroying
  <2>5. CASE Release(t)
    BY <1>0, <2>5, SerialRelease
  <2>6. CASE Rebinding(t)
    BY <1>0, <2>6, SerialRebinding
  <2>7. CASE Running(t)
    <3>1. UNCHANGED <<registry, signals, tunnel_rebind_tasks, shutting_down, req, pc, target,
                      loops, stack, host>>
      BY <2>7 DEF Running, SpawnRun, RestartRun, EndRun, LeaveBooks
    <3> QED
      BY <1>0, <3>1, SerialKept
  <2> QED
    BY <1>2, <2>1, <2>2, <2>3, <2>4, <2>5, <2>6, <2>7 DEF Step
<1> QED
  BY <1>1, <1>2 DEF Next

LEMMA SerialInvariant == ASSUME Serialised PROVE Spec => []SerialInv
BY SerialInvInit, SerialInvNext, PTL DEF Spec

\* A listed tunnel works, as long as clients serialise the setups and the
\* destroys of a name and wait for listed tunnels only: the process that
\* Namespace.pid names is alive and its own, and so are the veth pair of its
\* slot and its context, although all are written, and popped, by name.
THEOREM ListedTunnelsAreHealthy == ASSUME Serialised PROVE Spec => []ListedIsHealthy
<1>1. SerialInv => ListedIsHealthy
  <2>1. SUFFICES ASSUME SerialInv, NEW n \in Names, namespaces[n] # None
                 PROVE  /\ namespaces[n] \in holder /\ nspid[namespaces[n]] = namespaces[n]
                        /\ link[Slot[n]] = namespaces[n]
                        /\ tunnel_contexts[n] = namespaces[n]
    BY DEF ListedIsHealthy
  <2>2. /\ namespaces[n] \in Requests /\ Complete \subseteq stack[namespaces[n]]
        /\ Name(namespaces[n]) = n
    BY <2>1, SerialTypes
  <2>3. namespaces[n] \in holder
    BY <2>1, <2>2 DEF SerialInv, HostInv, HostIsOwned, Complete
  <2> QED
    BY <2>1, <2>2, <2>3 DEF SerialInv, OwnHostInv, ContextInv, Complete
<1> QED
  BY <1>1, SerialInvariant, PTL

\* In the same use, whatever is entered on an exit stack has somebody who will
\* leave it, ports that a rebind loop pushes while the stack is being closed
\* included (_setup_tunnel, _rebind_loop and DestroyTunnel).
THEOREM StacksAreLeft == ASSUME Serialised PROVE Spec => []NothingLeaks
<1>1. SerialInv => NothingLeaks
  BY DEF SerialInv
<1> QED
  BY <1>1, SerialInvariant, PTL

\* In the same use, _rebind_loop, which looks its context and its stack up by
\* name after every await, always finds those of the tunnel it was started for.
THEOREM RebindsItsOwn == ASSUME Serialised PROVE Spec => []RebindOwnTunnel
<1>1. SerialInv => RebindOwnTunnel
  BY DEF SerialInv, RebindInv
<1> QED
  BY <1>1, SerialInvariant, PTL

\* ---- The destroy guard, when only the destroys are serialised

ShutInv ==
    /\ TypeInv
    /\ \A c, d \in Requests :
          pc[c] \in Destroying /\ pc[d] \in Destroying /\ Name(c) = Name(d) => c = d
    /\ ShutGuard

\* A step that begins no destroy and lifts no guard.
LEMMA ShutKeptStep ==
    ASSUME ShutInv, TypeInv', shutting_down \subseteq shutting_down',
           \A u \in Requests : pc'[u] \in Destroying => pc[u] \in Destroying /\ req'[u] = req[u]
    PROVE  ShutInv'
BY DEF ShutInv, ShutGuard, Name

\* The one destroy of a name guards it until it ends.
ShutStep(d) ==
    /\ \A u \in Requests \ {d} : pc'[u] = pc[u] /\ req'[u] = req[u]
    /\ \A u \in Requests \ {d} : pc[u] \in Destroying => Name(u) # req'[d].name
    /\ pc'[d] \in Destroying => req'[d].name \in shutting_down'
    /\ shutting_down \ {req'[d].name} \subseteq shutting_down'

LEMMA ShutDestroyStep ==
    ASSUME ShutInv, TypeInv', NEW d \in Requests, ShutStep(d)
    PROVE  ShutInv'
<1> USE DEF ShutStep
<1>1. ASSUME NEW u \in Requests, pc'[u] \in Destroying
      PROVE  req'[u].name \in shutting_down'
  <2>1. CASE u = d
    BY <1>1, <2>1
  <2>2. CASE u # d
    BY <1>1, <2>2 DEF ShutInv, ShutGuard, Name
  <2> QED
    BY <2>1, <2>2
<1>2. \A c, e \in Requests :
         pc'[c] \in Destroying /\ pc'[e] \in Destroying /\ req'[c].name = req'[e].name => c = e
  BY DEF ShutInv, Name
<1> QED
  BY <1>1, <1>2 DEF ShutInv, ShutGuard, Name

LEMMA ShutInvNext ==
    ASSUME DestroysSerialised, ShutInv, [Next]_vars
    PROVE  ShutInv'
<1>0. TypeInv'
  BY TypeInvNext DEF ShutInv
<1>1. CASE UNCHANGED vars
  BY <1>0, <1>1, ShutKeptStep DEF vars
<1>2. ASSUME NEW t \in Requests, Step(t) PROVE ShutInv'
  <2> USE DEF ShutInv, TypeInv, TypeOK, Destroying
  <2>1. CASE Setup(t) \/ Serving(t)
    <3>1. /\ UNCHANGED <<req, shutting_down>> /\ pc'[t] \notin Destroying
          /\ \A u \in Requests \ {t} : pc'[u] = pc[u]
      BY <2>1 DEF Setup, EnterNamespace, LosePid, AddLink, AttachLink, ConfigureLink,
         StartServices, FailLink, FailSetup, Publish, Serving, Serve, FailServe, StartStops,
         SettingUp, Goto, Answer
    <3> QED
      BY <1>0, <3>1, ShutKeptStep
  <2>2. CASE Rebinding(t) \/ Running(t)
    <3>1. UNCHANGED <<req, shutting_down, pc>>
      BY <2>2 DEF Rebinding, RebindWake, RebindNextPort, RebindDone, RebindRaises, Running,
         SpawnRun, RestartRun, EndRun, LeaveBooks
    <3> QED
      BY <1>0, <3>1, ShutKeptStep
  <2>3. CASE Arrival(t)
    <3>1. PICK r \in Menu : \/ Refuse(t, r) \/ RejectRun(t, r) \/ AdmitRun(t, r)
                            \/ BeginSetup(t, r) \/ BeginDestroy(t, r)
      BY <2>3 DEF Arrival
    <3>2. CASE Refuse(t, r) \/ RejectRun(t, r) \/ AdmitRun(t, r) \/ BeginSetup(t, r)
      <4>1. /\ UNCHANGED shutting_down /\ pc'[t] \notin Destroying
            /\ \A u \in Requests \ {t} : pc'[u] = pc[u] /\ req'[u] = req[u]
        BY <3>2 DEF Refuse, RejectRun, AdmitRun, BeginSetup, Arrive, Goto, Answer
      <4> QED
        BY <1>0, <4>1, ShutKeptStep
    <3>3. CASE BeginDestroy(t, r)
      <4>1. /\ \A u \in Requests \ {t} : pc[u] \in Destroying => Name(u) # r.name
            /\ req' = [req EXCEPT ![t] = r]
        BY <3>3 DEF BeginDestroy, Arrive, MayArrive, InFlight
      <4>2. /\ \A u \in Requests \ {t} : pc'[u] = pc[u]
            /\ \/ shutting_down' = Guarded(r.name)
               \/ pc'[t] \notin Destroying /\ shutting_down' = LiftGuard(r.name, Guarded(r.name))
        BY <3>3 DEF BeginDestroy, WaitOrUnregister, Unregister, Goto, Answer
      <4>3. /\ req'[t].name = r.name
            /\ \A u \in Requests \ {t} : pc'[u] = pc[u] /\ req'[u] = req[u]
            /\ pc'[t] \in Destroying => r.name \in shutting_down'
            /\ shutting_down \ {r.name} \subseteq shutting_down'
        BY <4>1, <4>2 DEF Guarded, LiftGuard
      <4>4. ShutStep(t)
        BY <4>1, <4>3 DEF ShutStep
      <4> QED
        BY <1>0, <4>4, ShutDestroyStep
    <3> QED
      BY <3>1, <3>2, <3>3
  <2>4. CASE DestroyAfterRebind(t) \/ DestroyAfterWait(t) \/ Release(t)
    <3>1. /\ UNCHANGED req
          /\ \A u \in Requests \ {t} : pc'[u] = pc[u]
          /\ \/ UNCHANGED shutting_down /\ (pc'[t] \in Destroying => pc[t] \in Destroying)
             \/ /\ pc[t] \in Destroying /\ pc'[t] = "done"
                /\ shutting_down' = LiftGuard(Name(t), shutting_down)
      <4>1. CASE DestroyAfterRebind(t) \/ DestroyAfterWait(t)
        BY <4>1 DEF DestroyAfterRebind, DestroyAfterWait, WaitOrUnregister, Unregister, Goto,
           Answer, Name
      <4>2. CASE Release(t)
        BY <4>2 DEF Release, Answer, Goto
      <4> QED
        BY <2>4, <4>1, <4>2
    <3>2. CASE UNCHANGED shutting_down /\ (pc'[t] \in Destroying => pc[t] \in Destroying)
      BY <1>0, <3>1, <3>2, ShutKeptStep
    <3>3. CASE /\ pc[t] \in Destroying /\ pc'[t] = "done"
               /\ shutting_down' = LiftGuard(Name(t), shutting_down)
      <4>1. req'[t].name = Name(t) /\ pc'[t] \notin Destroying
        BY <3>1, <3>3 DEF Name
      <4>2. shutting_down \ {Name(t)} \subseteq shutting_down'
        BY <3>3 DEF LiftGuard
      <4>3. \A u \in Requests \ {t} : pc[u] \in Destroying => Name(u) # Name(t)
        BY <3>3
      <4>4. ShutStep(t)
        BY <3>1, <4>1, <4>2, <4>3 DEF ShutStep
      <4> QED
        BY <1>0, <4>4, ShutDestroyStep
    <3> QED
      BY <3>1, <3>2, <3>3
  <2> QED
    BY <1>2, <2>1, <2>2, <2>3, <2>4 DEF Step
<1> QED
  BY <1>1, <1>2 DEF Next

\* While a DestroyTunnel is at work RunProcess is rejected, whatever else is
\* sent: _shutting_down.discard() of one destroy never lifts the guard another
\* still needs, as long as clients do not overlap two destroys of one name.
THEOREM DestroysAreGuarded == ASSUME DestroysSerialised PROVE Spec => []ShutGuard
<1>1. Init => ShutInv
  BY TypeInvInit DEF Init, ShutInv, ShutGuard, Destroying
<1>2. ShutInv => ShutGuard
  BY DEF ShutInv
<1> QED
  BY <1>1, <1>2, ShutInvNext, PTL DEF Spec

\* ---- TunnelService implements TunnelLife

\* A setup has entered its services only once nothing can fail any more.
PartInv ==
    \A t \in Requests :
        pc[t] \in (SettingUp \ {"publish"}) \cup Failing \cup {"idle"} => "services" \notin stack[t]

RefineInv == SerialInv /\ PartInv

LEMMA RefineInvInit == Init => RefineInv
BY SerialInvInit DEF Init, RefineInv, PartInv

LEMMA RefineInvNext ==
    ASSUME Serialised, RefineInv, [Next]_vars
    PROVE  RefineInv'
<1>0. SerialInv' /\ SerialInv /\ TypeOK /\ PartInv
  BY SerialInvNext, SerialTypes DEF RefineInv
<1>1. SUFFICES PartInv'
  BY <1>0 DEF RefineInv
<1>2. CASE UNCHANGED vars
  BY <1>0, <1>2 DEF PartInv, vars
<1>3. ASSUME NEW t \in Requests, Step(t)
      PROVE  PartInv'
  <2> USE DEF SettingUp, Failing, Destroying
  <2>1. CASE Setup(t)
    <3>1. /\ \A u \in Requests \ {t} : pc'[u] = pc[u] /\ stack'[u] = stack[u]
          /\ \/ pc'[t] \in {"publish", "started", "done"}
             \/ /\ pc[t] \in (SettingUp \ {"publish"}) \cup Failing
                /\ "services" \in stack'[t] => "services" \in stack[t]
      BY <1>0, <2>1 DEF Serialised, TypeOK, Setup, EnterNamespace, LosePid, AddLink, AttachLink,
         ConfigureLink, StartServices, FailLink, FailSetup, Publish, Goto, Answer, Push
    <3> QED
      BY <1>0, <3>1 DEF PartInv
  <2>2. CASE Arrival(t)
    <3>1. PICK r \in Menu : \/ Refuse(t, r) \/ RejectRun(t, r) \/ AdmitRun(t, r)
                            \/ BeginSetup(t, r) \/ BeginDestroy(t, r)
      BY <2>2 DEF Arrival
    <3>2. pc[t] = "idle" /\ UNCHANGED stack
      BY <3>1 DEF Refuse, RejectRun, AdmitRun, BeginSetup, BeginDestroy, Arrive
    <3>3. \A u \in Requests \ {t} : pc'[u] = pc[u]
      <4>1. CASE Refuse(t, r) \/ RejectRun(t, r) \/ AdmitRun(t, r) \/ BeginSetup(t, r)
        BY <1>0, <4>1 DEF Refuse, RejectRun, AdmitRun, BeginSetup, Goto, Answer, TypeOK
      <4>2. CASE BeginDestroy(t, r)
        BY <1>0, <4>2 DEF BeginDestroy, WaitOrUnregister, Unregister, Goto, Answer, TypeOK
      <4> QED
        BY <3>1, <4>1, <4>2
    <3> QED
      BY <1>0, <3>2, <3>3 DEF PartInv
  <2>3. CASE Serving(t) \/ DestroyAfterRebind(t) \/ DestroyAfterWait(t)
    <3>1. /\ UNCHANGED stack
          /\ \A u \in Requests \ {t} : pc'[u] = pc[u]
          /\ pc'[t] \in {"serving", "done", "d_wait", "d_close"}
      BY <1>0, <2>3 DEF TypeOK, Serving, Serve, FailServe, StartStops, DestroyAfterRebind,
         DestroyAfterWait, WaitOrUnregister, Unregister, Goto, Answer
    <3> QED
      BY <1>0, <3>1 DEF PartInv
  <2>4. CASE Release(t)
    <3>1. /\ \A u \in Requests : stack'[u] \subseteq stack[u]
          /\ \A u \in Requests : pc'[u] \in {pc[u], "done"}
      BY <1>0, <2>4 DEF TypeOK, Release, Goto, Answer
    <3> QED
      BY <1>0, <3>1 DEF PartInv
  <2>5. CASE Rebinding(t) \/ Running(t)
    <3>1. /\ UNCHANGED pc
          /\ \A u \in Requests : "services" \in stack'[u] => "services" \in stack[u]
      BY <1>0, <2>5 DEF TypeOK, Rebinding, RebindWake, RebindNextPort, RebindDone, RebindRaises, Push,
         Running, SpawnRun, RestartRun, EndRun, LeaveBooks
    <3> QED
      BY <1>0, <3>1 DEF PartInv
  <2> QED
    BY <1>3, <2>1, <2>2, <2>3, <2>4, <2>5 DEF Step
<1> QED
  BY <1>2, <1>3 DEF Next

\* ---- How steps map

Closed(t) == \E c \in Requests : pc[c] = "d_close" /\ target[c] = t
Fresh(t) == pc[t] \in SettingUp \cup {"idle", "failed"} \/ req[t].kind = "destroy"

LEMMA LifeValue ==
    ASSUME NEW t \in Requests
    PROVE  /\ LifeOf(t) = IF Complete \subseteq stack[t] THEN IF Closed(t) THEN "closing" ELSE "held"
                          ELSE IF Fresh(t) THEN "new" ELSE "gone"
           /\ LifeOf(t)' = IF Complete \subseteq stack'[t] THEN IF Closed(t)' THEN "closing" ELSE "held"
                           ELSE IF Fresh(t)' THEN "new" ELSE "gone"
BY DEF LifeOf, Closed, Fresh

\* What keeps a tunnel where it is.
Kept(t) ==
    /\ Complete \subseteq stack'[t] <=> Complete \subseteq stack[t]
    /\ Complete \subseteq stack[t] => (Closed(t)' <=> Closed(t))
    /\ ~(Complete \subseteq stack[t]) => (Fresh(t)' <=> Fresh(t))

LEMMA KeptLife ==
    ASSUME NEW t \in Requests, Kept(t)
    PROVE  LifeOf(t)' = LifeOf(t)
BY LifeValue DEF Kept

LEMMA LifeStutters ==
    ASSUME \A u \in Requests : Kept(u), UNCHANGED namespaces
    PROVE  UNCHANGED <<[t \in Requests |-> LifeOf(t)], namespaces>>
BY KeptLife

LEMMA LifeMoves ==
    ASSUME NEW t \in Requests, NEW stage, \A u \in Requests \ {t} : Kept(u), LifeOf(t)' = stage
    PROVE  Life!Move(t, stage)
<1>1. [u \in Requests |-> LifeOf(u)'] = [[u \in Requests |-> LifeOf(u)] EXCEPT ![t] = stage]
  BY KeptLife
<1> QED
  BY <1>1 DEF Life!Move

LifeStep == Life!Next \/ UNCHANGED <<[t \in Requests |-> LifeOf(t)], namespaces>>

LEMMA LifeActions ==
    ASSUME NEW t \in Requests, NEW n \in Names,
           Life!Acquire(t) \/ Life!Abandon(t) \/ Life!Release(t) \/ Life!List(t, n) \/ Life!Unlist(n)
    PROVE  LifeStep
BY DEF LifeStep, Life!Next

\* A setup acquires everything its tunnel needs, gives up, or lists it.
LEMMA LifeSetup ==
    ASSUME Serialised, RefineInv, NEW t \in Requests, Setup(t)
    PROVE  LifeStep
<1> USE DEF SettingUp, Failing, Destroying, Complete
<1>0. /\ SerialInv /\ PartInv /\ TypeOK /\ Name(t) \in Names /\ StageInv
      /\ pc[t] \in SettingUp \cup {"failed"} /\ Fresh(t) /\ ~Closed(t) /\ req[t].kind # "destroy"
      /\ UNCHANGED req
      /\ \A u \in Requests \ {t} : pc'[u] = pc[u] /\ stack'[u] = stack[u] /\ target'[u] = target[u]
      /\ pc'[t] # "d_close"
  <2>1. SerialInv /\ PartInv /\ TypeOK /\ StageInv
    BY SerialTypes DEF RefineInv, SerialInv, HostInv, LifeInv
  <2>2. /\ pc[t] \in SettingUp \cup {"failed"} /\ UNCHANGED req
        /\ \A u \in Requests \ {t} : pc'[u] = pc[u] /\ stack'[u] = stack[u] /\ target'[u] = target[u]
        /\ pc'[t] # "d_close"
    BY <2>1 DEF Setup, EnterNamespace, LosePid, AddLink, AttachLink, ConfigureLink, StartServices,
       FailLink, FailSetup, Publish, Goto, Answer, Push, TypeOK
  <2>3. Name(t) \in Names /\ ~Closed(t)
    BY <2>1, <2>2, SerialTypes DEF Closed, Past
  <2>4. req[t].kind # "destroy"
    BY <2>1, <2>2 DEF SerialInv, KindInv, Building
  <2> QED
    BY <2>1, <2>2, <2>3, <2>4 DEF Fresh
<1>1. \A u \in Requests : Closed(u)' <=> Closed(u)
  BY <1>0 DEF Closed
<1>2. \A u \in Requests \ {t} : Kept(u)
  BY <1>0, <1>1 DEF Kept, Fresh
<1>3. CASE pc'[t] \in {"link", "attach", "configure", "services", "failed"}
  <2>1. "services" \notin stack[t] /\ stack'[t] \subseteq stack[t] \cup {"namespace", "link"}
        /\ UNCHANGED namespaces
    BY <1>0, <1>3 DEF Setup, EnterNamespace, LosePid, AddLink, AttachLink, ConfigureLink, StartServices,
       FailLink, FailSetup, Publish, Goto, Answer, Push, TypeOK, PartInv, registry
  <2>2. Kept(t)
    BY <1>0, <1>3, <2>1 DEF Kept, Fresh
  <2> QED
    BY <1>2, <2>1, <2>2, LifeStutters DEF LifeStep
<1>4. CASE StartServices(t)
  <2>1. Complete \subseteq stack'[t] /\ UNCHANGED namespaces /\ pc[t] = "services"
    BY <1>0, <1>4 DEF StartServices, Push, TypeOK, StageInv, registry
  <2>2. LifeOf(t) = "new" /\ LifeOf(t)' = "held"
    BY <1>0, <1>1, <2>1, LifeValue DEF PartInv
  <2>3. Life!Acquire(t)
    BY <1>2, <2>1, <2>2, LifeMoves DEF Life!Acquire
  <2> QED
    BY <1>0, <2>3, LifeActions
<1>5. CASE FailSetup(t)
  <2>1. /\ UNCHANGED namespaces /\ UNCHANGED stack /\ pc'[t] \in {"unwind", "done"}
        /\ pc[t] \in (SettingUp \ {"publish"}) \cup Failing
    BY <1>0, <1>5 DEF Serialised, FailSetup, Goto, Answer, TypeOK
  <2>2. LifeOf(t) = "new" /\ LifeOf(t)' = "gone"
    BY <1>0, <2>1, LifeValue DEF PartInv, Fresh
  <2>3. Life!Abandon(t)
    BY <1>2, <2>1, <2>2, LifeMoves DEF Life!Abandon
  <2> QED
    BY <1>0, <2>3, LifeActions
<1>6. CASE Publish(t)
  <2>1. /\ pc[t] = "publish" /\ UNCHANGED stack
        /\ namespaces' = [namespaces EXCEPT ![Name(t)] = t]
    BY <1>6 DEF Publish, Register
  <2>2. Complete \subseteq stack[t] /\ namespaces[Name(t)] = None
        /\ \A m \in Names : namespaces[m] # t
    BY <1>0, <2>1, NoneAssumption, SerialTypes DEF StageInv, SerialInv, OneSetupInv, Building, Past
  <2>3. \A u \in Requests : Kept(u)
    BY <1>1, <1>2, <2>1, <2>2 DEF Kept
  <2>4. LifeOf(t) = "held"
    BY <1>0, <2>2, LifeValue
  <2>5. UNCHANGED [u \in Requests |-> LifeOf(u)]
    BY <2>3, KeptLife
  <2>6. Life!List(t, Name(t))
    BY <2>1, <2>2, <2>4, <2>5 DEF Life!List
  <2> QED
    BY <1>0, <2>6, LifeActions
<1> QED
  <2>1. \/ pc'[t] \in {"link", "attach", "configure", "services", "failed"}
        \/ StartServices(t) \/ FailSetup(t) \/ Publish(t)
    BY <1>0 DEF Setup, EnterNamespace, LosePid, AddLink, AttachLink, ConfigureLink,
       FailLink, Goto, TypeOK
  <2> QED
    BY <1>3, <1>4, <1>5, <1>6, <2>1

\* A request that is answered at once never sets a tunnel up.
LEMMA LifeArrive ==
    ASSUME Serialised, RefineInv, NEW t \in Requests, NEW r \in Menu,
           \/ Refuse(t, r) \/ RejectRun(t, r) \/ AdmitRun(t, r) \/ BeginSetup(t, r)
    PROVE  LifeStep
<1>0. /\ SerialInv /\ TypeOK /\ PartInv /\ r.name \in Names
      /\ pc[t] = "idle" /\ r.kind # "destroy" /\ req'[t] = r
      /\ pc'[t] \in {"namespace", "done"}
      /\ UNCHANGED <<namespaces, stack, target>>
      /\ \A u \in Requests \ {t} : pc'[u] = pc[u] /\ req'[u] = req[u]
  <2>1. SerialInv /\ TypeOK /\ PartInv /\ r.name \in Names
    BY SerialTypes, MenuAssumption DEF RefineInv, RequestRecord
  <2>2. /\ pc[t] = "idle" /\ r.kind # "destroy" /\ req' = [req EXCEPT ![t] = r]
        /\ UNCHANGED <<namespaces, stack, target>>
    BY DEF Refuse, RejectRun, AdmitRun, BeginSetup, Arrive, registry
  <2>3. /\ pc'[t] \in {"namespace", "done"}
        /\ \A u \in Requests \ {t} : pc'[u] = pc[u]
    BY <2>1 DEF Refuse, RejectRun, AdmitRun, BeginSetup, Goto, Answer, TypeOK
  <2> QED
    BY <2>1, <2>2, <2>3 DEF TypeOK
<1>1. "services" \notin stack[t] /\ ~(Complete \subseteq stack[t])
  BY <1>0 DEF PartInv, Complete
<1>2. \A u \in Requests : Closed(u)' <=> Closed(u)
  BY <1>0 DEF Closed
<1>3. \A u \in Requests \ {t} : Kept(u)
  BY <1>0, <1>2 DEF Kept, Fresh
<1>4. CASE pc'[t] = "namespace"
  <2>1. Kept(t)
    BY <1>0, <1>1, <1>4 DEF Kept, Fresh, SettingUp
  <2> QED
    BY <1>0, <1>3, <2>1, LifeStutters DEF LifeStep
<1>5. CASE pc'[t] = "done"
  <2>1. LifeOf(t) = "new" /\ LifeOf(t)' = "gone"
    BY <1>0, <1>1, <1>5, LifeValue DEF Fresh, SettingUp
  <2>2. Life!Abandon(t)
    BY <1>0, <1>3, <2>1, LifeMoves DEF Life!Abandon
  <2> QED
    BY <1>0, <2>2, LifeActions
<1> QED
  BY <1>0, <1>4, <1>5

\* Starting to wait for the stop signal, or to return, moves no tunnel.
LEMMA LifeServing ==
    ASSUME RefineInv, NEW t \in Requests, Serving(t)
    PROVE  LifeStep
<1>1. /\ SerialInv /\ TypeOK
      /\ pc[t] \in {"started", "serving"} /\ pc'[t] \in {"serving", "done"}
      /\ UNCHANGED <<namespaces, stack, target, req>>
      /\ \A u \in Requests \ {t} : pc'[u] = pc[u]
  <2>1. SerialInv /\ TypeOK
    BY SerialTypes DEF RefineInv
  <2> QED
    BY <2>1 DEF Serving, Serve, FailServe, StartStops, Goto, Answer, TypeOK, registry
<1>2. \A u \in Requests : Closed(u)' <=> Closed(u)
  BY <1>1 DEF Closed
<1>3. \A u \in Requests : Kept(u)
  BY <1>1, <1>2 DEF Kept, Fresh, SettingUp
<1> QED
  BY <1>1, <1>3, LifeStutters DEF LifeStep

\* Nor does a port that a loop binds.
LEMMA LifeRebinding ==
    ASSUME RefineInv, NEW t \in Requests, Rebinding(t)
    PROVE  LifeStep
<1>1. /\ TypeOK
      /\ UNCHANGED <<namespaces, target, req, pc>>
      /\ \A u \in Requests : Complete \subseteq stack'[u] <=> Complete \subseteq stack[u]
  <2>1. TypeOK
    BY SerialTypes DEF RefineInv
  <2> QED
    BY <2>1 DEF Rebinding, RebindWake, RebindNextPort, RebindDone, RebindRaises, TypeOK, registry,
       Push, Complete
<1>2. \A u \in Requests : Kept(u)
  BY <1>1 DEF Kept, Fresh, Closed
<1> QED
  BY <1>1, <1>2, LifeStutters DEF LifeStep

\* A destroy unlists the tunnel of its name, if there is one.
LEMMA LifeUnregister ==
    ASSUME RefineInv, NEW d \in Requests, NEW n \in Names, NEW down, Unregister(d, n, down),
           pc[d] \in {"idle", "d_rebind", "d_wait"}, req'[d].kind = "destroy",
           \A u \in Requests \ {d} : req'[u] = req[u], UNCHANGED stack
    PROVE  LifeStep
<1>0. SerialInv /\ TypeOK /\ exit_stacks[n] = namespaces[n]
  BY SerialTypes DEF RefineInv
<1>1. /\ namespaces' = [namespaces EXCEPT ![n] = None]
      /\ \A u \in Requests \ {d} : pc'[u] = pc[u] /\ target'[u] = target[u]
      /\ IF namespaces[n] = None THEN pc'[d] = "done"
                                 ELSE pc'[d] = "d_close" /\ target'[d] = namespaces[n]
  BY <1>0 DEF Unregister, PopNamespace, Goto, Answer, TypeOK
<1>2. Kept(d)
  <2>1. stack[d] = {}
    BY <1>0 DEF SerialInv, KindInv, HostInv, EmptyInv, Destroying
  <2>2. Fresh(d) /\ Fresh(d)'
    BY <1>0 DEF Fresh, SerialInv, KindInv, Destroying
  <2> QED
    BY <2>1, <2>2 DEF Kept, Complete
<1>3. \A u \in Requests : u # namespaces[n] => (Closed(u)' <=> Closed(u))
  <2>1. ASSUME NEW u \in Requests, u # namespaces[n], NEW c \in Requests
        PROVE  (pc'[c] = "d_close" /\ target'[c] = u) <=> (pc[c] = "d_close" /\ target[c] = u)
    BY <1>1, <2>1
  <2> QED
    BY <2>1 DEF Closed
<1>4. \A u \in Requests \ {d} : u # namespaces[n] => Kept(u)
  BY <1>1, <1>3 DEF Kept, Fresh
<1>5. CASE namespaces[n] = None
  <2>1. UNCHANGED namespaces
    BY <1>0, <1>1, <1>5 DEF TypeOK
  <2> QED
    BY <1>2, <1>4, <1>5, <2>1, NoneAssumption, LifeStutters DEF LifeStep
<1>6. CASE namespaces[n] # None
  <2>1. PICK s \in Requests : s = namespaces[n] /\ Complete \subseteq stack[s]
    BY <1>0, <1>6, SerialTypes
  <2>2. Closed(s)'
    BY <1>1, <1>6, <2>1 DEF Closed
  <2>3. LifeOf(s)' = "closing"
    BY <2>1, <2>2, LifeValue
  <2>4. \A u \in Requests \ {s} : Kept(u)
    BY <1>2, <1>4, <2>1
  <2>5. Life!Move(s, "closing")
    BY <2>1, <2>3, <2>4, LifeMoves
  <2>6. Life!Unlist(n)
    BY <1>1, <1>6, <2>1, <2>5 DEF Life!Unlist
  <2> QED
    BY <2>6, LifeActions
<1> QED
  BY <1>5, <1>6

\* A destroy that awaits a loop or processes first, or ends at once, moves none.
LEMMA LifeWait ==
    ASSUME RefineInv, NEW d \in Requests,
           pc[d] \in {"idle", "d_rebind", "d_wait"}, pc'[d] # "d_close", req'[d].kind = "destroy",
           \A u \in Requests \ {d} : req'[u] = req[u] /\ pc'[u] = pc[u] /\ target'[u] = target[u],
           UNCHANGED <<namespaces, stack>>
    PROVE  LifeStep
<1>0. SerialInv
  BY DEF RefineInv
<1>1. Kept(d)
  <2>1. stack[d] = {}
    BY <1>0 DEF SerialInv, KindInv, HostInv, EmptyInv, Destroying
  <2>2. Fresh(d) /\ Fresh(d)'
    BY <1>0 DEF Fresh, SerialInv, KindInv, Destroying
  <2> QED
    BY <2>1, <2>2 DEF Kept, Complete
<1>2. \A u \in Requests : Closed(u)' <=> Closed(u)
  BY DEF Closed
<1>3. \A u \in Requests \ {d} : Kept(u)
  BY <1>2 DEF Kept, Fresh
<1> QED
  BY <1>1, <1>3, LifeStutters DEF LifeStep

LEMMA LifeBeginDestroy ==
    ASSUME RefineInv, NEW d \in Requests, NEW r \in Menu, BeginDestroy(d, r)
    PROVE  LifeStep
<1>0. /\ TypeOK /\ r.name \in Names
      /\ pc[d] = "idle" /\ req'[d].kind = "destroy" /\ UNCHANGED stack
      /\ \A u \in Requests \ {d} : req'[u] = req[u]
  <2>1. TypeOK /\ r.name \in Names
    BY SerialTypes, MenuAssumption DEF RequestRecord, RefineInv
  <2>2. pc[d] = "idle" /\ r.kind = "destroy" /\ req' = [req EXCEPT ![d] = r] /\ UNCHANGED stack
    BY DEF BeginDestroy, Arrive
  <2> QED
    BY <2>1, <2>2 DEF TypeOK
<1>1. CASE Unregister(d, r.name, Guarded(r.name))
  BY <1>0, <1>1, LifeUnregister
<1>2. CASE ~Unregister(d, r.name, Guarded(r.name))
  <2>1. /\ pc'[d] # "d_close" /\ UNCHANGED namespaces
        /\ \A u \in Requests \ {d} : pc'[u] = pc[u] /\ target'[u] = target[u]
    BY <1>0, <1>2 DEF BeginDestroy, WaitOrUnregister, Goto, Answer, TypeOK, registry
  <2> QED
    BY <1>0, <2>1, LifeWait
<1> QED
  BY <1>1, <1>2

LEMMA LifeDestroying ==
    ASSUME RefineInv, NEW d \in Requests, DestroyAfterRebind(d) \/ DestroyAfterWait(d)
    PROVE  LifeStep
<1>0. /\ SerialInv /\ TypeOK /\ Name(d) \in Names
      /\ pc[d] \in {"d_rebind", "d_wait"} /\ req'[d].kind = "destroy" /\ UNCHANGED stack
      /\ \A u \in Requests \ {d} : req'[u] = req[u]
  <2>1. SerialInv /\ TypeOK
    BY SerialTypes DEF RefineInv
  <2>2. pc[d] \in {"d_rebind", "d_wait"} /\ UNCHANGED <<stack, req>>
    BY DEF DestroyAfterRebind, DestroyAfterWait
  <2> QED
    BY <2>1, <2>2, SerialTypes DEF SerialInv, KindInv, Destroying
<1>1. CASE Unregister(d, Name(d), shutting_down)
  BY <1>0, <1>1, LifeUnregister
<1>2. CASE ~Unregister(d, Name(d), shutting_down)
  <2>1. /\ pc'[d] # "d_close" /\ UNCHANGED namespaces
        /\ \A u \in Requests \ {d} : pc'[u] = pc[u] /\ target'[u] = target[u]
    BY <1>0, <1>2 DEF DestroyAfterRebind, DestroyAfterWait, WaitOrUnregister, Goto, TypeOK, registry,
       Name
  <2> QED
    BY <1>0, <2>1, LifeWait
<1> QED
  BY <1>1, <1>2

\* The first part of a tunnel that is released ends it.
LEMMA LifeRelease ==
    ASSUME RefineInv, NEW c \in Requests, Release(c)
    PROVE  LifeStep
<1> DEFINE s == target[c]
           m == TopOf(stack[s])
<1>0. /\ SerialInv /\ TypeOK /\ PartInv
      /\ pc[c] \in {"unwind", "d_close"}
      /\ s \in Requests
      /\ pc[c] = "unwind" => s = c
      /\ pc[c] = "d_close" => pc[s] \in Past /\ \A n \in Names : namespaces[n] # s
      /\ UNCHANGED <<namespaces, req, target>>
      /\ stack' = [stack EXCEPT ![s] = @ \ {m}]
      /\ \A u \in Requests \ {c} : pc'[u] = pc[u]
      /\ pc'[c] \in {pc[c], "done"}
      /\ pc'[c] # pc[c] => stack[s] = {m}
  <2>1. SerialInv /\ TypeOK /\ PartInv
    BY SerialTypes DEF RefineInv
  <2>2. /\ pc[c] \in {"unwind", "d_close"}
        /\ UNCHANGED <<namespaces, req, target>>
        /\ stack' = [stack EXCEPT ![s] = @ \ {m}]
    BY DEF Release, registry
  <2>3. /\ \A u \in Requests \ {c} : pc'[u] = pc[u]
        /\ pc'[c] \in {pc[c], "done"}
        /\ pc'[c] # pc[c] => stack[s] = {m}
    BY <2>1, <2>2 DEF Release, Answer, Goto, TypeOK
  <2> QED
    BY <2>1, <2>2, <2>3, SerialTypes DEF SerialInv, HostInv, LifeInv, CloserInv
<1>1. \A u \in Requests \ {s} : Closed(u)' <=> Closed(u)
  BY <1>0 DEF Closed
<1>2. ASSUME NEW u \in Requests \ {s}
      PROVE  Kept(u)
  <2>1. stack'[u] = stack[u]
    BY <1>0 DEF TypeOK
  <2>2. CASE u = c
    <3>1. req[c].kind = "destroy" /\ req'[c].kind = "destroy"
      BY <1>0, <2>2 DEF SerialInv, KindInv, Destroying
    <3> QED
      BY <1>1, <2>1, <2>2, <3>1 DEF Kept, Fresh
  <2>3. CASE u # c
    BY <1>0, <1>1, <2>1, <2>3 DEF Kept, Fresh
  <2> QED
    BY <2>2, <2>3
<1>3. CASE ~(Complete \subseteq stack[s])
  <2>1. ~(Complete \subseteq stack'[s])
    BY <1>0, <1>3 DEF TypeOK
  <2>2. Fresh(s)' <=> Fresh(s)
    BY <1>0 DEF Fresh, Past, SettingUp
  <2>3. Kept(s)
    BY <1>3, <2>1, <2>2 DEF Kept
  <2> QED
    BY <1>0, <1>2, <2>3, LifeStutters DEF LifeStep
<1>4. CASE Complete \subseteq stack[s]
  <2>1. pc[c] = "d_close"
    BY <1>0, <1>4 DEF PartInv, Complete, Failing
  <2>2. CASE m = "port"
    <3>1. Complete \subseteq stack'[s] /\ pc'[c] = pc[c]
      BY <1>0, <1>4, <2>2 DEF TypeOK, Complete
    <3>2. Closed(s) /\ Closed(s)'
      BY <1>0, <2>1, <3>1 DEF Closed
    <3>3. Kept(s)
      BY <1>4, <3>1, <3>2 DEF Kept
    <3> QED
      BY <1>0, <1>2, <3>3, LifeStutters DEF LifeStep
  <2>3. CASE m # "port"
    <3>1. m = "services"
      <4>1. "services" \in stack[s]
        BY <1>4 DEF Complete
      <4>2. "port" \notin stack[s]
        BY <2>3 DEF TopOf
      <4> QED
        BY <4>1, <4>2 DEF TopOf
    <3>2. ~(Complete \subseteq stack'[s])
      BY <1>0, <3>1 DEF TypeOK, Complete
    <3>3. ~Fresh(s)'
      <4>1. req[s].kind # "destroy"
        BY <1>0, <1>4 DEF SerialInv, KindInv, Complete
      <4> QED
        BY <1>0, <2>1, <4>1 DEF Fresh, Past, SettingUp
    <3>4. LifeOf(s) \in {"held", "closing"} /\ LifeOf(s)' = "gone"
      BY <1>0, <1>4, <3>2, <3>3, LifeValue
    <3>5. Life!Release(s)
      BY <1>0, <1>2, <2>1, <3>4, LifeMoves DEF Life!Release
    <3>6. Name(c) \in Names
      BY <1>0, SerialTypes
    <3> QED
      BY <1>0, <3>5, <3>6, LifeActions
  <2> QED
    BY <2>2, <2>3
<1> QED
  BY <1>3, <1>4

LEMMA LifeKept ==
    ASSUME UNCHANGED <<namespaces, stack, pc, target, req>>
    PROVE  LifeStep
<1>1. \A u \in Requests : Kept(u)
  BY DEF Kept, Closed, Fresh
<1> QED
  BY <1>1, LifeStutters DEF LifeStep

LEMMA LifeNext ==
    ASSUME Serialised, RefineInv, [Next]_vars
    PROVE  LifeStep
<1>1. CASE UNCHANGED vars
  BY <1>1, LifeKept DEF vars, registry
<1>2. ASSUME NEW t \in Requests, Step(t)
      PROVE  LifeStep
  <2>1. CASE Arrival(t)
    <3>1. PICK r \in Menu : \/ Refuse(t, r) \/ RejectRun(t, r) \/ AdmitRun(t, r)
                            \/ BeginSetup(t, r) \/ BeginDestroy(t, r)
      BY <2>1 DEF Arrival
    <3>2. CASE BeginDestroy(t, r)
      BY <3>2, LifeBeginDestroy
    <3>3. CASE Refuse(t, r) \/ RejectRun(t, r) \/ AdmitRun(t, r) \/ BeginSetup(t, r)
      BY <3>3, LifeArrive
    <3> QED
      BY <3>1, <3>2, <3>3
  <2>2. CASE Running(t)
    BY <2>2, LifeKept DEF Running, SpawnRun, RestartRun, EndRun, LeaveBooks, registry
  <2> QED
    BY <1>2, <2>1, <2>2, LifeSetup, LifeServing, LifeDestroying, LifeRelease, LifeRebinding DEF Step
<1> QED
  BY <1>1, <1>2 DEF Next

\* The service keeps what TunnelLife promises: a tunnel is listed only between
\* the moment everything it needs has been entered on its exit stack and the
\* moment the first of it is left, under one name, and no request replaces it
\* (_setup_tunnel publishes last, DestroyTunnel pops first).
THEOREM TunnelLifeKept == ASSUME Serialised PROVE Spec => KeepsTunnelLife
<1>1. Init => Life!Init
  BY DEF Init, Life!Init, LifeOf, Complete
<1>2. RefineInv /\ [Next]_vars => RefineInv' /\ LifeStep
  BY RefineInvNext, LifeNext
<1>3. LifeStep => [Life!Next]_<<[t \in Requests |-> LifeOf(t)], namespaces>>
  BY DEF LifeStep
<1> QED
  BY <1>1, <1>2, <1>3, RefineInvInit, PTL DEF Spec, KeepsTunnelLife, Life!Spec
=============================================================================
