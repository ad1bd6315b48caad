------------------------ MODULE ServerRestartProofs ------------------------
(* Proofs about HostServices and ServerRestart, for any number of tunnels, of  *)
(* names, of slots and of nftables identifiers, and whatever each tunnel was    *)
(* asked to have.                                                              *)
EXTENDS ServerRestart, SequenceTheorems, TLAPS

Has(t, m) == m \in ToSet(stack[t])
Setting == StepLabels \cup {"listed"}

\* What runs when a step is the next one: the optional ones were asked for.
WantInv ==
    \A t \in Tunnels :
        /\ pc[t] \in StepLabels => Wanted(t, pc[t])
        /\ pc[t] \in Setting \cup {"idle"} => failed[t] = "none"

\* A stack is entered link first, nothing twice; only a setup or a teardown
\* has one.
StackInv ==
    /\ stack \in [Tunnels -> Seq(Managers)]
    /\ \A t \in Tunnels :
          /\ IsInjective(stack[t])
          /\ stack[t] # <<>> => stack[t][1] = "link"
          /\ pc[t] \in {"idle", "over", "lost"} => stack[t] = <<>>
          /\ pc[t] = "closing" => stack[t] # <<>>

\* What is on the stack of a setup, by the step it is at.
Entered(t) ==
    /\ Has(t, "link") <=> pc[t] # "link"
    /\ Has(t, "internet") <=> pc[t] \notin {"link", "table", "chains"}
    /\ Has(t, "vpeer") => pc[t] \notin {"link", "table", "chains", "vpeer"}
    /\ Has(t, "session") <=> Config[t].vpn /\ pc[t] \in {"dns", "kill", "port", "listed"}
    /\ Has(t, "dns") <=> pc[t] \in {"kill", "port", "listed"}
    /\ Has(t, "kill") <=> Config[t].vpn /\ Config[t].kill /\ pc[t] \in {"port", "listed"}
    /\ Has(t, "port") => pc[t] = "listed"
SetupInv == \A t \in Tunnels : pc[t] \in Setting => Entered(t)

\* What a tunnel whose server has not ended has on the host is what its stack
\* says, the step it is at, or what the step it failed at left behind.
Holds(t) ==
    /\ link[TunnelSlot(t)] = t <=> Has(t, "link")
    /\ t \in kill[TunnelSlot(t)] <=> Has(t, "kill")
    /\ t \in accepted => Has(t, "internet")
    /\ t \in loops => Has(t, "port")
    /\ t \in nat[TunnelIdent(t)] =>
          pc[t] = "chains" \/ Has(t, "internet") \/ failed[t] = "chains"
    /\ openvpn[t] \in {"starting", "up"} => pc[t] = "connect" \/ Has(t, "session")
    /\ dnsmasq[t] = "up" => Has(t, "dns")
    /\ files[NameOf[t]] = t =>
          Has(t, "dns") \/ failed[t] = "dns" \/ dnsmasq[t] = "dead"
    /\ \/ temp[t] = {} \/ pc[t] \in {"spawn", "connect"} \/ Has(t, "session")
       \/ failed[t] = "spawn" /\ temp[t] = {"script"}
HoldInv == \A t \in Tunnels : pc[t] # "lost" => Holds(t)

\* A setup that has loaded its table loses it only to a teardown of a tunnel
\* of another name and the same identifier.
Clobbered(t) ==
    \E u \in Tunnels : /\ TunnelIdent(u) = TunnelIdent(t) /\ NameOf[u] # NameOf[t]
                       /\ pc[u] \in {"closing", "over"}
NatInv ==
    \A t \in Tunnels :
        /\ pc[t] \in Setting \ {"link", "table"}
        /\ t \notin nat[TunnelIdent(t)]
        => Clobbered(t)

\* A teardown without a failure has removed what ended servers left under the
\* names of the managers it has left.
Heals(t) ==
    /\ Has(t, "internet") \/ nat[TunnelIdent(t)] \cap Lost = {}
    /\ Config[t].vpn /\ Config[t].kill =>
          Has(t, "kill") \/ kill[TunnelSlot(t)] \cap Lost = {}
    /\ Has(t, "dns") \/ dnsmasq[t] = "dead" \/ files[NameOf[t]] \notin Lost
HealInv == \A t \in Tunnels : pc[t] = "closing" /\ failed[t] = "none" => Heals(t)

\* A kill switch table has rules of tunnels of its slot only.
KillInv == \A s \in Slots : \A t \in kill[s] : TunnelSlot(t) = s

HostInv ==
    TypeOK /\ WantInv /\ StackInv /\ SetupInv /\ HoldInv /\ NatInv /\ HealInv /\ KillInv

\* ---- Stacks

LEMMA FrontFacts ==
    ASSUME NEW S, NEW s \in Seq(S), s # <<>>
    PROVE  /\ Front(s) \in Seq(S)
           /\ Len(s) \in Nat /\ Len(s) >= 1
           /\ Len(Front(s)) = Len(s) - 1
           /\ \A i \in 1..(Len(s) - 1) : Front(s)[i] = s[i]
           /\ DOMAIN s = 1..Len(s) /\ DOMAIN Front(s) = 1..(Len(s) - 1)
<1>1. Len(s) \in Nat /\ Len(s) >= 1
  BY EmptySeq
<1> DEFINE n == Len(s) - 1
<1>2. n \in Int /\ 1 \in Int /\ \A i \in 1..n : s[i] \in S
  BY <1>1, LenProperties
<1> HIDE DEF n
<1>3. /\ SubSeq(s, 1, n) \in Seq(S)
      /\ Len(SubSeq(s, 1, n)) = IF 1 <= n THEN n - 1 + 1 ELSE 0
      /\ \A i \in 1..(n - 1 + 1) : SubSeq(s, 1, n)[i] = s[1 + i - 1]
  BY <1>2, SubSeqProperties
<1>4. Front(s) = SubSeq(s, 1, n)
  BY DEF Front, n
<1>5. /\ Front(s) \in Seq(S) /\ Len(Front(s)) = n
      /\ \A i \in 1..n : Front(s)[i] = s[i]
  <2>1. n \in Nat
    BY <1>1 DEF n
  <2>2. n - 1 + 1 = n /\ (~(1 <= n) => n = 0) /\ \A i \in 1..n : 1 + i - 1 = i
    BY <2>1
  <2> QED
    BY <1>3, <1>4, <2>2
<1>6. DOMAIN s = 1..Len(s) /\ DOMAIN Front(s) = 1..n
  BY <1>5, LenProperties
<1> QED
  BY <1>1, <1>5, <1>6 DEF n

\* What pop does to a stack that holds nothing twice.
LEMMA PopFacts ==
    ASSUME NEW S, NEW s \in Seq(S), s # <<>>, IsInjective(s)
    PROVE  /\ Front(s) \in Seq(S) /\ IsInjective(Front(s))
           /\ ToSet(Front(s)) = ToSet(s) \ {Last(s)}
           /\ Last(s) \in S /\ Last(s) \in ToSet(s) /\ s[1] \in ToSet(s)
           /\ Front(s) # <<>> => Front(s)[1] = s[1]
           /\ Len(s) = 1 <=> Front(s) = <<>>
           /\ Len(s) = 1 <=> Last(s) = s[1]
<1>1. /\ Front(s) \in Seq(S)
      /\ Len(s) \in Nat /\ Len(s) >= 1
      /\ Len(Front(s)) = Len(s) - 1
      /\ \A i \in 1..(Len(s) - 1) : Front(s)[i] = s[i]
      /\ DOMAIN s = 1..Len(s) /\ DOMAIN Front(s) = 1..(Len(s) - 1)
  BY FrontFacts
<1> HIDE DEF Front
<1>2. IsInjective(Front(s))
  BY <1>1 DEF IsInjective
<1>3. ToSet(Front(s)) = {s[i] : i \in 1..(Len(s) - 1)}
  BY <1>1 DEF ToSet
<1>4. ToSet(s) = {s[i] : i \in 1..Len(s)}
  BY <1>1 DEF ToSet
<1>5. \A i \in 1..(Len(s) - 1) : s[i] # s[Len(s)]
  BY <1>1 DEF IsInjective
<1>6. ToSet(Front(s)) = ToSet(s) \ {Last(s)}
  BY <1>1, <1>3, <1>4, <1>5 DEF Last
<1>7. Last(s) \in S /\ Last(s) \in ToSet(s) /\ s[1] \in ToSet(s)
  <2>1. Len(s) \in 1..Len(s) /\ 1 \in 1..Len(s)
    BY <1>1
  <2> QED
    BY <1>4, <2>1, LenProperties DEF Last
<1>8. Front(s) # <<>> => Front(s)[1] = s[1]
  <2>1. Front(s) # <<>> => Len(Front(s)) >= 1
    BY <1>1, EmptySeq
  <2> QED
    BY <1>1, <2>1
<1>9. Len(s) = 1 <=> Front(s) = <<>>
  <2>1. Front(s) # <<>> => Len(Front(s)) # 0
    BY <1>1, EmptySeq
  <2>2. Front(s) = <<>> => Len(Front(s)) = 0
    BY EmptySeq
  <2> QED
    BY <1>1, <2>1, <2>2
<1>10. Len(s) = 1 <=> Last(s) = s[1]
  <2>1. Len(s) # 1 => 1 \in 1..(Len(s) - 1)
    BY <1>1
  <2> QED
    BY <1>5, <2>1 DEF Last
<1> QED
  BY <1>1, <1>2, <1>6, <1>7, <1>8, <1>9, <1>10

\* What push does to one that does not hold the element yet.
LEMMA PushFacts ==
    ASSUME NEW S, NEW s \in Seq(S), NEW e \in S, IsInjective(s), e \notin ToSet(s)
    PROVE  /\ Append(s, e) \in Seq(S) /\ IsInjective(Append(s, e))
           /\ ToSet(Append(s, e)) = ToSet(s) \cup {e}
           /\ Append(s, e) # <<>>
           /\ Append(s, e)[1] = IF s = <<>> THEN e ELSE s[1]
<1>1. /\ Append(s, e) \in Seq(S) /\ Append(s, e) # <<>>
      /\ Len(Append(s, e)) = Len(s) + 1 /\ Len(s) \in Nat
      /\ \A i \in 1..Len(s) : Append(s, e)[i] = s[i]
      /\ Append(s, e)[Len(s) + 1] = e
      /\ DOMAIN s = 1..Len(s) /\ DOMAIN Append(s, e) = 1..(Len(s) + 1)
  BY AppendProperties, LenProperties
<1>2. /\ ToSet(s) = {s[i] : i \in 1..Len(s)}
      /\ ToSet(Append(s, e)) = {Append(s, e)[i] : i \in 1..(Len(s) + 1)}
  BY <1>1 DEF ToSet
<1>3. ToSet(Append(s, e)) = ToSet(s) \cup {e}
  <2> DEFINE n == Len(s)
  <2>1. n \in Nat /\ 1..(n + 1) = 1..n \cup {n + 1}
    BY <1>1
  <2> QED
    BY <1>1, <1>2, <2>1
<1>4. IsInjective(Append(s, e))
  <2>1. \A i \in 1..Len(s) : s[i] # e
    BY <1>2
  <2>2. \A i, j \in 1..Len(s) : s[i] = s[j] => i = j
    BY <1>1 DEF IsInjective
  <2>3. \A i \in 1..(Len(s) + 1) : i \in 1..Len(s) \/ i = Len(s) + 1
    BY <1>1
  <2> QED
    BY <1>1, <2>1, <2>2, <2>3 DEF IsInjective
<1>5. Append(s, e)[1] = IF s = <<>> THEN e ELSE s[1]
  BY <1>1, EmptySeq
<1> QED
  BY <1>1, <1>3, <1>4, <1>5

\* ---- Steps

\* The step behind each, by what the tunnel was asked to have.
LEMMA ProceedFacts ==
    ASSUME NEW t \in Tunnels, pc \in [Tunnels -> StepLabels \cup {"idle", "listed", "closing", "over", "lost"}],
           Proceed(t)
    PROVE  /\ \A u \in Tunnels \ {t} : pc'[u] = pc[u]
           /\ pc'[t] \in Setting /\ (pc'[t] \in StepLabels => Wanted(t, pc'[t]))
           /\ pc[t] = "link" => pc'[t] = "table"
           /\ pc[t] = "table" => pc'[t] = "chains"
           /\ pc[t] = "chains" => \/ pc'[t] = "vpeer" \/ pc'[t] = "server"
                                  \/ pc'[t] = "dns" /\ ~Config[t].vpn
           /\ pc[t] = "vpeer" => pc'[t] = "server" \/ (pc'[t] = "dns" /\ ~Config[t].vpn)
           /\ pc[t] = "server" /\ Config[t].vpn => pc'[t] = "spawn"
           /\ pc[t] = "spawn" /\ Config[t].vpn => pc'[t] = "connect"
           /\ pc[t] = "connect" => pc'[t] = "dns"
           /\ pc[t] = "dns" => \/ pc'[t] = "kill"
                               \/ pc'[t] \in {"port", "listed"} /\ ~(Config[t].vpn /\ Config[t].kill)
           /\ pc[t] = "kill" => pc'[t] \in {"port", "listed"}
           /\ pc[t] = "port" => pc'[t] = "listed"
<1>1. PICK i \in 1..11, j \in 1..11 :
          /\ i < j /\ Order[i] = pc[t] /\ Wanted(t, Order[j])
          /\ \A k \in (i + 1)..(j - 1) : ~Wanted(t, Order[k])
          /\ pc' = [pc EXCEPT ![t] = Order[j]]
  <2>1. DOMAIN Order = 1..11
    BY DEF Order
  <2> QED
    BY <2>1 DEF Proceed, Goto
<1>2. /\ Order[1] = "link" /\ Order[2] = "table" /\ Order[3] = "chains" /\ Order[4] = "vpeer"
      /\ Order[5] = "server" /\ Order[6] = "spawn" /\ Order[7] = "connect" /\ Order[8] = "dns"
      /\ Order[9] = "kill" /\ Order[10] = "port" /\ Order[11] = "listed"
  BY DEF Order
<1>3. pc'[t] = Order[j] /\ \A u \in Tunnels \ {t} : pc'[u] = pc[u]
  BY <1>1
<1>4. \A k \in 1..11 : i < k /\ Wanted(t, Order[k]) => j <= k
  <2> SUFFICES ASSUME NEW k \in 1..11, i < k, Wanted(t, Order[k]), ~(j <= k)
               PROVE  FALSE
    OBVIOUS
  <2>1. k \in (i + 1)..(j - 1)
    BY <1>1
  <2> QED
    BY <1>1, <2>1
<1>5. /\ Wanted(t, "table") /\ Wanted(t, "chains") /\ Wanted(t, "dns") /\ Wanted(t, "listed")
      /\ Config[t].vpn => Wanted(t, "server") /\ Wanted(t, "spawn") /\ Wanted(t, "connect")
      /\ Config[t].vpn /\ Config[t].kill => Wanted(t, "kill")
  BY DEF Wanted
<1> HIDE DEF Wanted, Order
<1>6. /\ i < 2 => j <= 2
      /\ i < 3 => j <= 3
      /\ i < 8 => j <= 8
      /\ i < 5 /\ Config[t].vpn => j <= 5
      /\ i < 6 /\ Config[t].vpn => j <= 6
      /\ i < 7 /\ Config[t].vpn => j <= 7
      /\ i < 9 /\ Config[t].vpn /\ Config[t].kill => j <= 9
  BY <1>2, <1>4, <1>5
<1>7. j \in {6, 7} => Config[t].vpn
  BY <1>1, <1>2 DEF Wanted
<1>8. pc'[t] \in Setting /\ (pc'[t] \in StepLabels => Wanted(t, pc'[t]))
  BY <1>1, <1>2, <1>3 DEF Setting, StepLabels
<1>9. \A k \in 1..11 : Order[k] = pc[t] => k = i
  BY <1>1, <1>2
<1> QED
  BY <1>1, <1>2, <1>3, <1>6, <1>7, <1>8, <1>9

LEMMA PushKeeps ==
    ASSUME StackInv, NEW t \in Tunnels, NEW m \in Managers, Push(t, m), ~Has(t, m),
           stack[t] = <<>> <=> m = "link"
    PROVE  /\ stack' \in [Tunnels -> Seq(Managers)]
           /\ \A u \in Tunnels : /\ IsInjective(stack'[u])
                                 /\ stack'[u] # <<>> => stack'[u][1] = "link"
           /\ stack'[t] # <<>> /\ \A u \in Tunnels \ {t} : stack'[u] = stack[u]
           /\ \A x : Has(t, x)' <=> Has(t, x) \/ x = m
<1>1. /\ stack \in [Tunnels -> Seq(Managers)] /\ stack[t] \in Seq(Managers)
      /\ \A u \in Tunnels : /\ IsInjective(stack[u])
                            /\ stack[u] # <<>> => stack[u][1] = "link"
  BY DEF StackInv
<1>2. /\ Append(stack[t], m) \in Seq(Managers) /\ IsInjective(Append(stack[t], m))
      /\ ToSet(Append(stack[t], m)) = ToSet(stack[t]) \cup {m}
      /\ Append(stack[t], m) # <<>>
      /\ Append(stack[t], m)[1] = IF stack[t] = <<>> THEN m ELSE stack[t][1]
  <2>1. IsInjective(stack[t]) /\ m \notin ToSet(stack[t])
    BY <1>1 DEF Has
  <2> QED
    BY <1>1, <2>1, PushFacts
<1>3. /\ stack' = [stack EXCEPT ![t] = Append(stack[t], m)]
      /\ stack'[t] = Append(stack[t], m)
  BY <1>1 DEF Push
<1>4. stack' \in [Tunnels -> Seq(Managers)] /\ \A u \in Tunnels \ {t} : stack'[u] = stack[u]
  BY <1>1, <1>2, <1>3
<1>5. stack'[t] # <<>> /\ stack'[t][1] = "link" /\ IsInjective(stack'[t])
  BY <1>1, <1>2, <1>3
<1>6. \A x : Has(t, x)' <=> Has(t, x) \/ x = m
  BY <1>2, <1>3 DEF Has
<1> QED
  BY <1>1, <1>4, <1>5, <1>6

LEMMA PopKeeps ==
    ASSUME StackInv, NEW t \in Tunnels, stack[t] # <<>>,
           stack' = [stack EXCEPT ![t] = Front(@)]
    PROVE  /\ stack' \in [Tunnels -> Seq(Managers)]
           /\ \A u \in Tunnels : /\ IsInjective(stack'[u])
                                 /\ stack'[u] # <<>> => stack'[u][1] = "link"
           /\ \A u \in Tunnels \ {t} : stack'[u] = stack[u]
           /\ NewestOf(stack[t]) \in Managers
           /\ Has(t, "link") /\ Has(t, NewestOf(stack[t]))
           /\ \A x : Has(t, x)' <=> Has(t, x) /\ x # NewestOf(stack[t])
           /\ Len(stack[t]) = 1 <=> stack'[t] = <<>>
           /\ Len(stack[t]) = 1 <=> NewestOf(stack[t]) = "link"
<1>1. /\ stack \in [Tunnels -> Seq(Managers)] /\ stack[t] \in Seq(Managers)
      /\ \A u \in Tunnels : /\ IsInjective(stack[u])
                            /\ stack[u] # <<>> => stack[u][1] = "link"
  BY DEF StackInv
<1>2. /\ Front(stack[t]) \in Seq(Managers) /\ IsInjective(Front(stack[t]))
      /\ ToSet(Front(stack[t])) = ToSet(stack[t]) \ {Last(stack[t])}
      /\ Last(stack[t]) \in Managers /\ Last(stack[t]) \in ToSet(stack[t])
      /\ stack[t][1] \in ToSet(stack[t])
      /\ Front(stack[t]) # <<>> => Front(stack[t])[1] = stack[t][1]
      /\ Len(stack[t]) = 1 <=> Front(stack[t]) = <<>>
      /\ Len(stack[t]) = 1 <=> Last(stack[t]) = stack[t][1]
  BY <1>1, PopFacts
<1> HIDE DEF Front, Last
<1>3. stack' = [stack EXCEPT ![t] = Front(stack[t])] /\ stack'[t] = Front(stack[t])
  BY <1>1
<1>4. stack' \in [Tunnels -> Seq(Managers)] /\ \A u \in Tunnels \ {t} : stack'[u] = stack[u]
  BY <1>1, <1>2, <1>3
<1>5. \A u \in Tunnels : /\ IsInjective(stack'[u])
                         /\ stack'[u] # <<>> => stack'[u][1] = "link"
  BY <1>1, <1>2, <1>3, <1>4
<1>6. stack[t][1] = "link"
  BY <1>1
<1>7. \A x : Has(t, x)' <=> Has(t, x) /\ x # NewestOf(stack[t])
  BY <1>2, <1>3 DEF Has, NewestOf
<1> QED
  BY <1>2, <1>3, <1>4, <1>5, <1>6, <1>7 DEF Has, NewestOf

LEMMA EmptyHas == ASSUME NEW t, stack[t] = <<>> PROVE \A x : ~Has(t, x)
BY DEF Has, ToSet

\* A setup or a teardown that has entered anything has its veth pair.
LEMMA HasLink ==
    ASSUME StackInv, NEW t \in Tunnels
    PROVE  /\ stack[t] = <<>> <=> ~Has(t, "link")
           /\ \A x : Has(t, x) => Has(t, "link")
<1>1. stack[t] = <<>> => \A x : ~Has(t, x)
  BY EmptyHas
<1>2. stack[t] # <<>> => Has(t, "link")
  <2> SUFFICES ASSUME stack[t] # <<>> PROVE Has(t, "link")
    OBVIOUS
  <2>1. stack[t] \in Seq(Managers) /\ stack[t][1] = "link"
    BY DEF StackInv
  <2>2. 1 \in DOMAIN stack[t]
    BY <2>1, FrontFacts
  <2> QED
    BY <2>1, <2>2 DEF Has, ToSet
<1> QED
  BY <1>1, <1>2

\* The variables of the handlers after any step keep what ties them together.
ControlKept ==
    /\ WantInv' /\ StackInv' /\ SetupInv'
    /\ pc' \in [Tunnels -> StepLabels \cup {"idle", "listed", "closing", "over", "lost"}]

\* Entering a context manager at its step of the setup.
Enters(t, m) ==
    /\ Push(t, m) /\ Proceed(t) /\ UNCHANGED failed
    /\ \/ pc[t] = "link" /\ m = "link"
       \/ pc[t] = "chains" /\ m = "internet"
       \/ pc[t] = "vpeer" /\ m = "vpeer"
       \/ pc[t] = "connect" /\ m = "session"
       \/ pc[t] = "dns" /\ m = "dns"
       \/ pc[t] = "kill" /\ m = "kill"
       \/ pc[t] = "port" /\ m = "port"

LEMMA EntersKeeps ==
    ASSUME HostInv, NEW t \in Tunnels, NEW m \in Managers, Enters(t, m)
    PROVE  /\ ControlKept
           /\ \A u \in Tunnels \ {t} : pc'[u] = pc[u] /\ stack'[u] = stack[u]
           /\ pc'[t] \in Setting
           /\ \A x : Has(t, x)' <=> Has(t, x) \/ x = m
<1>0. /\ WantInv /\ StackInv /\ SetupInv
      /\ pc \in [Tunnels -> StepLabels \cup {"idle", "listed", "closing", "over", "lost"}]
  BY DEF HostInv, TypeOK
<1>1. pc[t] \in StepLabels /\ pc[t] \in Setting
  BY DEF Enters, StepLabels, Setting
<1>2. Entered(t)
  BY <1>0, <1>1 DEF SetupInv
<1>3. ~Has(t, m) /\ (stack[t] = <<>> <=> m = "link")
  BY <1>0, <1>2, HasLink DEF Entered, Enters
<1>4. /\ stack' \in [Tunnels -> Seq(Managers)]
      /\ \A u \in Tunnels : /\ IsInjective(stack'[u])
                            /\ stack'[u] # <<>> => stack'[u][1] = "link"
      /\ stack'[t] # <<>> /\ \A u \in Tunnels \ {t} : stack'[u] = stack[u]
      /\ \A x : Has(t, x)' <=> Has(t, x) \/ x = m
  BY <1>0, <1>3, PushKeeps DEF Enters
<1>5. /\ \A u \in Tunnels \ {t} : pc'[u] = pc[u]
      /\ pc'[t] \in Setting /\ (pc'[t] \in StepLabels => Wanted(t, pc'[t]))
  BY <1>0, ProceedFacts DEF Enters
<1>6. pc' \in [Tunnels -> StepLabels \cup {"idle", "listed", "closing", "over", "lost"}]
  <2>1. \E label : pc' = [pc EXCEPT ![t] = label]
    BY DEF Enters, Proceed, Goto
  <2> QED
    BY <1>0, <1>5, <2>1 DEF Setting
<1>7. WantInv'
  BY <1>0, <1>1, <1>5 DEF WantInv, Enters, Wanted
<1>8. StackInv'
  <2>1. pc'[t] \notin {"idle", "over", "lost", "closing"}
    BY <1>5 DEF Setting, StepLabels
  <2> QED
    BY <1>0, <1>4, <1>5, <2>1 DEF StackInv
<1>9. SetupInv'
  <2>1. Wanted(t, pc[t])
    BY <1>0, <1>1 DEF WantInv
  <2>2. Entered(t)'
    <3>1. CASE pc[t] = "link" \/ pc[t] = "chains" \/ pc[t] = "vpeer"
      BY <1>0, <1>2, <1>4, <3>1, ProceedFacts DEF Entered, Enters
    <3>2. CASE pc[t] = "connect" \/ pc[t] = "dns"
      BY <1>0, <1>2, <1>4, <2>1, <3>2, ProceedFacts DEF Entered, Enters, Wanted
    <3>3. CASE pc[t] = "kill" \/ pc[t] = "port"
      BY <1>0, <1>2, <1>4, <2>1, <3>3, ProceedFacts DEF Entered, Enters, Wanted
    <3> QED
      BY <3>1, <3>2, <3>3 DEF Enters
  <2>3. \A u \in Tunnels \ {t} : Entered(u)' <=> Entered(u)
    BY <1>4, <1>5 DEF Entered, Has
  <2> QED
    BY <1>0, <1>5, <2>2, <2>3 DEF SetupInv
<1> QED
  BY <1>4, <1>5, <1>6, <1>7, <1>8, <1>9 DEF ControlKept

\* A step of a setup that enters nothing.
Passes(t) ==
    /\ Proceed(t) /\ UNCHANGED <<failed, stack>>
    /\ pc[t] \in {"table", "server", "spawn"}

LEMMA PassesKeeps ==
    ASSUME HostInv, NEW t \in Tunnels, Passes(t)
    PROVE  /\ ControlKept
           /\ \A u \in Tunnels \ {t} : pc'[u] = pc[u]
           /\ pc'[t] \in Setting
           /\ pc[t] = "table" => pc'[t] = "chains"
           /\ pc[t] = "server" => pc'[t] = "spawn"
           /\ pc[t] = "spawn" => pc'[t] = "connect"
<1>0. /\ WantInv /\ StackInv /\ SetupInv
      /\ pc \in [Tunnels -> StepLabels \cup {"idle", "listed", "closing", "over", "lost"}]
  BY DEF HostInv, TypeOK
<1>1. pc[t] \in StepLabels /\ pc[t] \in Setting
  BY DEF Passes, StepLabels, Setting
<1>2. Entered(t) /\ Wanted(t, pc[t])
  BY <1>0, <1>1 DEF SetupInv, WantInv
<1>3. /\ \A u \in Tunnels \ {t} : pc'[u] = pc[u]
      /\ pc'[t] \in Setting /\ (pc'[t] \in StepLabels => Wanted(t, pc'[t]))
      /\ pc[t] = "table" => pc'[t] = "chains"
      /\ pc[t] = "server" => pc'[t] = "spawn"
      /\ pc[t] = "spawn" => pc'[t] = "connect"
  BY <1>0, <1>2, ProceedFacts DEF Passes, Wanted
<1>4. pc' \in [Tunnels -> StepLabels \cup {"idle", "listed", "closing", "over", "lost"}]
  <2>1. \E label : pc' = [pc EXCEPT ![t] = label]
    BY DEF Passes, Proceed, Goto
  <2> QED
    BY <1>0, <1>3, <2>1 DEF Setting
<1>5. WantInv'
  BY <1>0, <1>1, <1>3 DEF WantInv, Passes, Wanted
<1>6. StackInv'
  <2>1. pc'[t] \notin {"idle", "over", "lost", "closing"}
    BY <1>3 DEF Setting, StepLabels
  <2>2. stack' = stack
    BY DEF Passes
  <2> QED
    BY <1>0, <1>3, <2>1, <2>2 DEF StackInv
<1>7. SetupInv'
  <2>1. stack' = stack
    BY DEF Passes
  <2>2. Entered(t)'
    BY <1>2, <1>3, <2>1 DEF Entered, Has, Passes
  <2>3. \A u \in Tunnels \ {t} : Entered(u)' <=> Entered(u)
    BY <1>3, <2>1 DEF Entered, Has
  <2> QED
    BY <1>0, <1>3, <2>2, <2>3 DEF SetupInv
<1> QED
  BY <1>3, <1>4, <1>5, <1>6, <1>7 DEF ControlKept

\* Begin, Fail and Destroy move a handler and leave its stack as it is.
Turns(t) ==
    /\ UNCHANGED stack
    /\ \/ Begin(t) \/ Fail(t) \/ Destroy(t)

LEMMA TurnsKeeps ==
    ASSUME HostInv, NEW t \in Tunnels, Turns(t)
    PROVE  /\ ControlKept
           /\ \A u \in Tunnels \ {t} : pc'[u] = pc[u] /\ failed'[u] = failed[u]
<1>0. /\ WantInv /\ StackInv /\ SetupInv
      /\ pc \in [Tunnels -> StepLabels \cup {"idle", "listed", "closing", "over", "lost"}]
      /\ failed \in [Tunnels -> Lasting \cup {"none", "clean"}]
  BY DEF HostInv, TypeOK
<1>1. /\ \A u \in Tunnels \ {t} : pc'[u] = pc[u] /\ failed'[u] = failed[u]
      /\ pc' \in [Tunnels -> StepLabels \cup {"idle", "listed", "closing", "over", "lost"}]
      /\ \/ pc[t] = "idle" /\ pc'[t] = "link" /\ failed'[t] = failed[t]
         \/ pc[t] \in Setting /\ pc'[t] = "closing" /\ stack[t] # <<>>
         \/ pc[t] \in Setting /\ pc'[t] = "over" /\ stack[t] = <<>>
  <2>1. CASE Begin(t)
    BY <1>0, <2>1 DEF Begin, Goto, StepLabels
  <2>2. CASE Fail(t)
    BY <1>0, <2>2 DEF Fail, Goto, Setting
  <2>3. CASE Destroy(t)
    <3>1. Entered(t)
      BY <1>0, <2>3 DEF Destroy, SetupInv, Setting
    <3>2. stack[t] # <<>>
      BY <2>3, <3>1, EmptyHas DEF Entered, Destroy
    <3> QED
      BY <1>0, <2>3, <3>2 DEF Destroy, Goto, Setting
  <2> QED
    BY <2>1, <2>2, <2>3 DEF Turns
<1>2. stack' = stack
  BY DEF Turns
<1>3. WantInv'
  <2>1. Wanted(t, "link")
    BY DEF Wanted
  <2> QED
    BY <1>0, <1>1, <2>1 DEF WantInv, Setting, StepLabels, Wanted
<1>4. StackInv'
  BY <1>0, <1>1, <1>2 DEF StackInv, Setting, StepLabels
<1>5. SetupInv'
  <2>1. \A u \in Tunnels \ {t} : Entered(u)' <=> Entered(u)
    BY <1>1, <1>2 DEF Entered, Has
  <2>2. pc'[t] \in Setting => Entered(t)'
    <3>1. pc'[t] \in Setting => pc'[t] = "link" /\ pc[t] = "idle"
      BY <1>1 DEF Setting, StepLabels
    <3>2. pc[t] = "idle" => \A x : ~Has(t, x)
      BY <1>0, EmptyHas DEF StackInv
    <3> QED
      BY <1>2, <3>1, <3>2 DEF Entered, Has
  <2> QED
    BY <1>0, <1>1, <2>1, <2>2 DEF SetupInv
<1> QED
  BY <1>1, <1>3, <1>4, <1>5 DEF ControlKept

LEMMA LeaveKeeps ==
    ASSUME HostInv, NEW t \in Tunnels, Leave(t)
    PROVE  /\ ControlKept
           /\ \A u \in Tunnels \ {t} : pc'[u] = pc[u] /\ stack'[u] = stack[u]
           /\ NewestOf(stack[t]) \in Managers
           /\ Has(t, "link") /\ Has(t, NewestOf(stack[t]))
           /\ \A x : Has(t, x)' <=> Has(t, x) /\ x # NewestOf(stack[t])
           /\ pc[t] = "closing" /\ failed' = failed
           /\ pc'[t] = IF NewestOf(stack[t]) = "link" THEN "over" ELSE "closing"
<1>0. /\ WantInv /\ StackInv /\ SetupInv
      /\ pc \in [Tunnels -> StepLabels \cup {"idle", "listed", "closing", "over", "lost"}]
      /\ pc[t] = "closing" /\ stack[t] # <<>> /\ failed' = failed
      /\ stack' = [stack EXCEPT ![t] = Front(@)]
  BY DEF HostInv, TypeOK, StackInv, Leave
<1>1. /\ stack' \in [Tunnels -> Seq(Managers)]
      /\ \A u \in Tunnels : /\ IsInjective(stack'[u])
                            /\ stack'[u] # <<>> => stack'[u][1] = "link"
      /\ \A u \in Tunnels \ {t} : stack'[u] = stack[u]
      /\ NewestOf(stack[t]) \in Managers
      /\ Has(t, "link") /\ Has(t, NewestOf(stack[t]))
      /\ \A x : Has(t, x)' <=> Has(t, x) /\ x # NewestOf(stack[t])
      /\ Len(stack[t]) = 1 <=> stack'[t] = <<>>
      /\ Len(stack[t]) = 1 <=> NewestOf(stack[t]) = "link"
  BY <1>0, PopKeeps
<1>2. /\ pc'[t] = IF Len(stack[t]) = 1 THEN "over" ELSE "closing"
      /\ \A u \in Tunnels \ {t} : pc'[u] = pc[u]
      /\ pc' \in [Tunnels -> StepLabels \cup {"idle", "listed", "closing", "over", "lost"}]
  BY <1>0 DEF Leave, Goto
<1>3. WantInv'
  BY <1>0, <1>2 DEF WantInv, Setting, StepLabels, Wanted
<1>4. StackInv'
  BY <1>0, <1>1, <1>2 DEF StackInv
<1>5. SetupInv'
  <2>1. \A u \in Tunnels \ {t} : Entered(u)' <=> Entered(u)
    BY <1>1, <1>2 DEF Entered, Has
  <2>2. pc'[t] \notin Setting
    BY <1>2 DEF Setting, StepLabels
  <2> QED
    BY <1>0, <1>2, <2>1, <2>2 DEF SetupInv
<1> QED
  BY <1>0, <1>1, <1>2, <1>3, <1>4, <1>5 DEF ControlKept

\* ---- What a step leaves of the other tunnels

LEMMA NameFacts ==
    ASSUME NEW t \in Tunnels
    PROVE  /\ NameOf[t] \in Names /\ TunnelSlot(t) \in Slots /\ TunnelIdent(t) \in Idents
           /\ t # None
BY ServicesAssumption DEF TunnelSlot, TunnelIdent

TunnelStep(t) ==
    \/ Begin(t) \/ Handler(t) \/ Destroy(t)
    \/ OpenVPNWrites(t) \/ OpenVPNDies(t) \/ DnsmasqDies(t)

\* A host object changes under the name of the tunnel that takes the step, and
\* in its favour; only a manager that is left takes from other tunnels.
HostKept(t) ==
    /\ \A u \in Tunnels \ {t} :
          /\ openvpn'[u] = openvpn[u] /\ dnsmasq'[u] = dnsmasq[u] /\ temp'[u] = temp[u]
          /\ u \in accepted' => u \in accepted
          /\ u \in loops' => u \in loops
    /\ \A s \in Slots :
          \/ link'[s] = link[s]
          \/ s = TunnelSlot(t) /\ (link[s] = None /\ link'[s] = t)
          \/ s = TunnelSlot(t) /\ Has(t, "link") /\ link'[s] = None
    /\ \A i \in Idents :
          \/ nat'[i] = nat[i]
          \/ i = TunnelIdent(t) /\ nat'[i] = nat[i] \cup {t} /\ pc[t] = "table"
          \/ i = TunnelIdent(t) /\ nat'[i] = {} /\ Has(t, "internet") /\ pc[t] = "closing"
    /\ \A s \in Slots :
          \/ kill'[s] = kill[s]
          \/ s = TunnelSlot(t) /\ kill'[s] = kill[s] \cup {t} /\ pc[t] = "kill"
          \/ s = TunnelSlot(t) /\ kill'[s] = {} /\ Has(t, "kill")
    /\ \A n \in Names :
          \/ files'[n] = files[n]
          \/ n = NameOf[t] /\ files'[n] \in {t, None} /\ pc[t] # "lost"

LEMMA HostKeeps ==
    ASSUME HostInv, NEW t \in Tunnels, TunnelStep(t)
    PROVE  HostKept(t)
<1>0. /\ NameOf[t] \in Names /\ TunnelSlot(t) \in Slots /\ TunnelIdent(t) \in Idents
  BY NameFacts
<1>1. /\ link \in [Slots -> Tunnels \cup {None}]
      /\ nat \in [Idents -> SUBSET Tunnels]
      /\ kill \in [Slots -> SUBSET Tunnels]
      /\ files \in [Names -> Tunnels \cup {None}]
      /\ dnsmasq \in [Tunnels -> {"none", "up", "dead", "stopped"}]
      /\ openvpn \in [Tunnels -> {"none", "starting", "up", "dead"}]
      /\ temp \in [Tunnels -> SUBSET {"credentials", "script"}]
  BY DEF HostInv, TypeOK
<1> USE DEF HostKept, processes
<1>2. CASE Begin(t) \/ Destroy(t) \/ AcceptForward(t) \/ ForwardFromVpeer(t) \/ EnterSession(t)
           \/ ForwardPort(t)
  BY <1>2 DEF Begin, Destroy, AcceptForward, ForwardFromVpeer, EnterSession, ForwardPort
<1>3. CASE EnterLink(t)
  BY <1>0, <1>1, <1>3 DEF EnterLink, LinkFree
<1>4. CASE LoadTable(t)
  BY <1>0, <1>1, <1>4 DEF LoadTable, At
<1>5. CASE FetchServer(t) \/ SpawnOpenVPN(t)
  BY <1>0, <1>1, <1>5 DEF FetchServer, SpawnOpenVPN
<1>6. CASE EnterDNS(t)
  BY <1>0, <1>1, <1>6 DEF EnterDNS, At
<1>7. CASE ActivateKillSwitch(t)
  BY <1>0, <1>1, <1>7 DEF ActivateKillSwitch, At
<1>8. CASE Fail(t)
  BY <1>0, <1>1, <1>8 DEF Fail, StepLabels
<1>9. CASE OpenVPNWrites(t) \/ OpenVPNDies(t) \/ DnsmasqDies(t)
  BY <1>0, <1>1, <1>9 DEF OpenVPNWrites, OpenVPNDies, DnsmasqDies
<1>10. CASE Leave(t)
  <2>1. Has(t, NewestOf(stack[t])) /\ pc[t] = "closing"
    BY <1>10, LeaveKeeps
  <2>2. CASE NewestOf(stack[t]) = "link" /\ LeaveLink(t)
    BY <1>0, <1>1, <2>1, <2>2 DEF LeaveLink
  <2>3. CASE NewestOf(stack[t]) = "internet" /\ LeaveInternet(t)
    BY <1>0, <1>1, <2>1, <2>3 DEF LeaveInternet
  <2>4. CASE UNCHANGED <<link, nat, accepted, forgotten, kill, files, processes, temp, loops>>
    BY <2>4
  <2>5. CASE LeaveSession(t) \/ LeavePort(t)
    BY <1>0, <1>1, <2>5 DEF LeaveSession, LeavePort
  <2>6. CASE LeaveDNS(t)
    BY <1>0, <1>1, <2>1, <2>6 DEF LeaveDNS
  <2>7. CASE NewestOf(stack[t]) = "kill" /\ LeaveKillSwitch(t)
    BY <1>0, <1>1, <2>1, <2>7 DEF LeaveKillSwitch
  <2> QED
    BY <1>10, <2>2, <2>3, <2>4, <2>5, <2>6, <2>7 DEF Leave
<1> QED
  BY <1>2, <1>3, <1>4, <1>5, <1>6, <1>7, <1>8, <1>9, <1>10 DEF TunnelStep, Handler

\* The handlers' own variables after any step of a tunnel.
LEMMA ControlKeeps ==
    ASSUME HostInv, NEW t \in Tunnels, TunnelStep(t)
    PROVE  /\ ControlKept
           /\ \A u \in Tunnels \ {t} : pc'[u] = pc[u] /\ stack'[u] = stack[u]
                                       /\ failed'[u] = failed[u]
           /\ pc'[t] = "lost" <=> pc[t] = "lost"
<1>0. /\ TypeOK /\ WantInv /\ StackInv /\ SetupInv
      /\ {"link", "internet", "vpeer", "session", "dns", "kill", "port"} \subseteq Managers
  BY DEF HostInv, Managers
<1>1. CASE \E m \in Managers : Enters(t, m)
  <2>1. PICK m \in Managers : Enters(t, m)
    BY <1>1
  <2>2. pc'[t] \in Setting /\ pc[t] # "lost" /\ failed' = failed
    BY <2>1, EntersKeeps DEF Enters
  <2> QED
    BY <2>1, <2>2, EntersKeeps DEF Setting, StepLabels
<1>2. CASE Passes(t)
  BY <1>2, PassesKeeps DEF Passes, Setting, StepLabels
<1>3. CASE Begin(t) \/ Fail(t) \/ Destroy(t)
  <2>1. Turns(t)
    BY <1>3 DEF Turns, Begin, Fail, Destroy
  <2>2. pc'[t] # "lost" /\ pc[t] # "lost"
    BY <1>0, <1>3 DEF Begin, Fail, Destroy, Goto, StepLabels, TypeOK
  <2> QED
    BY <2>1, <2>2, TurnsKeeps DEF Turns
<1>4. CASE Leave(t)
  BY <1>4, LeaveKeeps
<1>5. CASE UNCHANGED <<pc, stack, failed>>
  <2>1. WantInv' /\ StackInv' /\ TypeOK
    BY <1>0, <1>5 DEF WantInv, StackInv, Wanted
  <2>2. SetupInv'
    BY <1>0, <1>5 DEF SetupInv, Entered, Has
  <2> QED
    BY <1>5, <2>1, <2>2 DEF ControlKept, TypeOK
<1>6. CASE EnterLink(t) \/ AcceptForward(t) \/ ForwardFromVpeer(t) \/ EnterSession(t)
           \/ EnterDNS(t) \/ ActivateKillSwitch(t) \/ ForwardPort(t)
  <2>1. \/ Enters(t, "link") \/ Enters(t, "internet") \/ Enters(t, "vpeer")
        \/ Enters(t, "session") \/ Enters(t, "dns") \/ Enters(t, "kill") \/ Enters(t, "port")
    BY <1>6 DEF EnterLink, AcceptForward, ForwardFromVpeer, EnterSession, EnterDNS,
       ActivateKillSwitch, ForwardPort, Enters, At
  <2> QED
    BY <1>0, <1>1, <2>1
<1>7. CASE LoadTable(t) \/ FetchServer(t) \/ SpawnOpenVPN(t)
  BY <1>2, <1>7 DEF LoadTable, FetchServer, SpawnOpenVPN, Passes, At
<1>8. CASE OpenVPNWrites(t) \/ OpenVPNDies(t) \/ DnsmasqDies(t)
  BY <1>5, <1>8 DEF OpenVPNWrites, OpenVPNDies, DnsmasqDies
<1> QED
  BY <1>3, <1>4, <1>6, <1>7, <1>8 DEF TunnelStep, Handler

\* ---- The host objects

LEMMA OthersHold ==
    ASSUME HostInv, NEW t \in Tunnels, TunnelStep(t), NEW u \in Tunnels \ {t}, pc[u] # "lost"
    PROVE  Holds(u)'
<1>0. HostInv /\ HoldInv /\ StackInv /\ TypeOK
  BY DEF HostInv
<1>1. Holds(u) /\ (pc[t] # "lost" => Holds(t))
  BY <1>0 DEF HoldInv
<1>2. HostKept(t)
  BY HostKeeps
<1>3. pc'[u] = pc[u] /\ failed'[u] = failed[u] /\ \A x : Has(u, x)' <=> Has(u, x)
  BY ControlKeeps DEF Has
<1>4. /\ NameOf[u] \in Names /\ TunnelSlot(u) \in Slots /\ TunnelIdent(u) \in Idents
      /\ u # None /\ t # None
  BY NameFacts
<1>5. /\ Has(t, "link") => link[TunnelSlot(t)] = t
      /\ \A x : Has(u, x) => Has(u, "link") /\ link[TunnelSlot(u)] = u
      /\ Has(t, "kill") => link[TunnelSlot(t)] = t
  <2>1. pc[t] = "lost" => ~Has(t, "link") /\ ~Has(t, "kill")
    BY <1>0, HasLink DEF StackInv
  <2>2. pc[t] # "lost" => (Has(t, "link") <=> link[TunnelSlot(t)] = t)
    BY <1>1 DEF Holds
  <2>3. /\ \A x : Has(t, x) => Has(t, "link")
        /\ \A x : Has(u, x) => Has(u, "link")
    BY <1>0, HasLink
  <2>4. Has(u, "link") => link[TunnelSlot(u)] = u
    BY <1>1 DEF Holds
  <2> QED
    BY <2>1, <2>2, <2>3, <2>4
<1>6. link'[TunnelSlot(u)] = u <=> Has(u, "link")
  BY <1>1, <1>2, <1>4, <1>5 DEF Holds, HostKept
<1>7. u \in kill'[TunnelSlot(u)] <=> Has(u, "kill")
  BY <1>1, <1>2, <1>4, <1>5 DEF Holds, HostKept
<1>8. u \in nat'[TunnelIdent(u)] => u \in nat[TunnelIdent(u)]
  BY <1>2, <1>4 DEF HostKept
<1>9. files'[NameOf[u]] = u => files[NameOf[u]] = u
  BY <1>2, <1>4 DEF HostKept
<1>10. /\ openvpn'[u] = openvpn[u] /\ dnsmasq'[u] = dnsmasq[u] /\ temp'[u] = temp[u]
       /\ u \in accepted' => u \in accepted
       /\ u \in loops' => u \in loops
  BY <1>2 DEF HostKept
<1> QED
  BY <1>1, <1>3, <1>6, <1>7, <1>8, <1>9, <1>10 DEF Holds

LEMMA OwnHolds ==
    ASSUME HostInv, NEW t \in Tunnels, TunnelStep(t), pc'[t] # "lost"
    PROVE  Holds(t)'
<1>0. TypeOK /\ WantInv /\ StackInv /\ SetupInv /\ HoldInv
  BY DEF HostInv
<1>1. /\ link \in [Slots -> Tunnels \cup {None}]
      /\ nat \in [Idents -> SUBSET Tunnels]
      /\ kill \in [Slots -> SUBSET Tunnels]
      /\ files \in [Names -> Tunnels \cup {None}]
      /\ dnsmasq \in [Tunnels -> {"none", "up", "dead", "stopped"}]
      /\ openvpn \in [Tunnels -> {"none", "starting", "up", "dead"}]
      /\ temp \in [Tunnels -> SUBSET {"credentials", "script"}]
      /\ failed \in [Tunnels -> Lasting \cup {"none", "clean"}]
      /\ pc \in [Tunnels -> StepLabels \cup {"idle", "listed", "closing", "over", "lost"}]
  BY <1>0 DEF TypeOK
<1>2. /\ NameOf[t] \in Names /\ TunnelSlot(t) \in Slots /\ TunnelIdent(t) \in Idents
      /\ t # None
  BY NameFacts
<1>3. Holds(t)
  BY <1>0, ControlKeeps DEF HoldInv
<1> USE DEF processes
<1>4. CASE Begin(t) \/ Destroy(t)
  <2>1. stack' = stack /\ failed' = failed /\ pc[t] \notin {"chains", "connect", "spawn"}
    BY <1>4 DEF Begin, Destroy
  <2> QED
    BY <1>3, <1>4, <2>1 DEF Begin, Destroy, Holds, Has
<1>5. CASE LoadTable(t) \/ FetchServer(t) \/ SpawnOpenVPN(t)
  <2>1. Passes(t)
    BY <1>5 DEF LoadTable, FetchServer, SpawnOpenVPN, Passes, At
  <2>2. /\ stack' = stack /\ failed' = failed
        /\ pc[t] = "table" => pc'[t] = "chains"
        /\ pc[t] = "server" => pc'[t] = "spawn"
        /\ pc[t] = "spawn" => pc'[t] = "connect"
    BY <2>1, PassesKeeps DEF Passes
  <2>3. CASE LoadTable(t)
    BY <1>3, <2>2, <2>3 DEF LoadTable, Holds, Has, At
  <2>4. CASE FetchServer(t)
    BY <1>3, <2>2, <2>4 DEF FetchServer, Holds, Has, At
  <2>5. CASE SpawnOpenVPN(t)
    BY <1>3, <2>2, <2>5 DEF SpawnOpenVPN, Holds, Has, At
  <2> QED
    BY <1>5, <2>3, <2>4, <2>5
<1>6. \A m \in Managers : Enters(t, m) =>
          /\ failed' = failed
          /\ \A x : Has(t, x)' <=> Has(t, x) \/ x = m
  BY EntersKeeps DEF Enters
<1>7. \A m \in Managers : m \in {"link", "internet", "vpeer", "session", "dns", "kill", "port"}
  BY DEF Managers
<1>8. CASE EnterLink(t)
  <2>1. Enters(t, "link") /\ "link" \in Managers
    BY <1>8 DEF EnterLink, Enters, At, Managers
  <2> QED
    BY <1>1, <1>2, <1>3, <1>6, <1>8, <2>1 DEF EnterLink, At, Holds
<1>9. CASE AcceptForward(t)
  <2>1. Enters(t, "internet") /\ "internet" \in Managers
    BY <1>9 DEF AcceptForward, Enters, At, Managers
  <2> QED
    BY <1>3, <1>6, <1>9, <2>1 DEF AcceptForward, At, Holds
<1>10. CASE ForwardFromVpeer(t)
  <2>1. Enters(t, "vpeer") /\ "vpeer" \in Managers
    BY <1>10 DEF ForwardFromVpeer, Enters, At, Managers
  <2> QED
    BY <1>3, <1>6, <1>10, <2>1 DEF ForwardFromVpeer, At, Holds
<1>11. CASE EnterSession(t)
  <2>1. Enters(t, "session") /\ "session" \in Managers
    BY <1>11 DEF EnterSession, Enters, At, Managers
  <2> QED
    BY <1>3, <1>6, <1>11, <2>1 DEF EnterSession, At, Holds
<1>12. CASE EnterDNS(t)
  <2>1. Enters(t, "dns") /\ "dns" \in Managers
    BY <1>12 DEF EnterDNS, Enters, At, Managers
  <2> QED
    BY <1>3, <1>6, <1>12, <2>1 DEF EnterDNS, At, Holds
<1>13. CASE ActivateKillSwitch(t)
  <2>1. Enters(t, "kill") /\ "kill" \in Managers
    BY <1>13 DEF ActivateKillSwitch, Enters, At, Managers
  <2> QED
    BY <1>1, <1>2, <1>3, <1>6, <1>13, <2>1 DEF ActivateKillSwitch, At, Holds
<1>14. CASE ForwardPort(t)
  <2>1. Enters(t, "port") /\ "port" \in Managers
    BY <1>14 DEF ForwardPort, Enters, At, Managers
  <2> QED
    BY <1>3, <1>6, <1>14, <2>1 DEF ForwardPort, At, Holds
<1>15. CASE Fail(t)
  <2>1. failed[t] = "none" /\ stack' = stack
    BY <1>0, <1>15 DEF Fail, WantInv, Setting
  <2>2. /\ failed'[t] = IF pc[t] \in Lasting THEN pc[t] ELSE "clean"
        /\ openvpn'[t] = IF pc[t] = "connect" THEN "dead" ELSE openvpn[t]
        /\ temp'[t] = TempLeft(t, pc[t])
        /\ files'[NameOf[t]] = IF pc[t] = "dns" THEN t ELSE files[NameOf[t]]
        /\ UNCHANGED <<link, nat, accepted, kill, dnsmasq, loops>>
    BY <1>1, <1>2, <1>15 DEF Fail, At
  <2>3. \/ temp'[t] = {} \/ Has(t, "session")
        \/ failed'[t] = "spawn" /\ temp'[t] = {"script"}
    BY <1>3, <2>1, <2>2 DEF TempLeft, Holds, Lasting
  <2>4. /\ pc[t] = "chains" => failed'[t] = "chains"
        /\ pc[t] = "dns" => failed'[t] = "dns"
    BY <2>2 DEF Lasting
  <2> QED
    BY <1>3, <2>1, <2>2, <2>3, <2>4 DEF Holds, Has
<1>16. CASE OpenVPNWrites(t) \/ OpenVPNDies(t) \/ DnsmasqDies(t)
  BY <1>1, <1>3, <1>16 DEF OpenVPNWrites, OpenVPNDies, DnsmasqDies, Holds, Has, At
<1>17. CASE Leave(t)
  <2>1. /\ \A x : Has(t, x)' <=> Has(t, x) /\ x # NewestOf(stack[t])
        /\ pc[t] = "closing" /\ failed' = failed
    BY <1>17, LeaveKeeps
  <2>2. CASE NewestOf(stack[t]) = "link" /\ LeaveLink(t)
    BY <1>1, <1>2, <1>3, <2>1, <2>2 DEF LeaveLink, Holds
  <2>3. CASE NewestOf(stack[t]) = "internet" /\ LeaveInternet(t)
    BY <1>1, <1>2, <1>3, <2>1, <2>3 DEF LeaveInternet, Holds
  <2>4. CASE /\ NewestOf(stack[t]) = "vpeer"
             /\ UNCHANGED <<link, nat, accepted, forgotten, kill, files, processes, temp, loops>>
    BY <1>3, <2>1, <2>4 DEF Holds
  <2>5. CASE NewestOf(stack[t]) = "session" /\ LeaveSession(t)
    BY <1>1, <1>3, <2>1, <2>5 DEF LeaveSession, Holds
  <2>6. CASE NewestOf(stack[t]) = "dns" /\ LeaveDNS(t)
    BY <1>1, <1>2, <1>3, <2>1, <2>6 DEF LeaveDNS, Holds
  <2>7. CASE NewestOf(stack[t]) = "kill" /\ LeaveKillSwitch(t)
    BY <1>1, <1>2, <1>3, <2>1, <2>7 DEF LeaveKillSwitch, Holds
  <2>8. CASE NewestOf(stack[t]) = "port" /\ LeavePort(t)
    BY <1>3, <2>1, <2>8 DEF LeavePort, Holds
  <2> QED
    BY <1>17, <2>2, <2>3, <2>4, <2>5, <2>6, <2>7, <2>8 DEF Leave
<1> QED
  BY <1>4, <1>5, <1>8, <1>9, <1>10, <1>11, <1>12, <1>13, <1>14, <1>15, <1>16, <1>17
     DEF TunnelStep, Handler

\* Where a tunnel's step takes it.
LEMMA MoveFacts ==
    ASSUME HostInv, NEW t \in Tunnels, TunnelStep(t)
    PROVE  /\ pc[t] \in {"closing", "over"} => pc'[t] \in {"closing", "over"}
           /\ /\ pc'[t] \in Setting \ {"link", "table"}
              /\ pc[t] \notin Setting \ {"link", "table"}
              => LoadTable(t)
           /\ pc'[t] = "closing" => \/ pc[t] = "closing"
                                    \/ Fail(t) /\ failed'[t] # "none"
                                    \/ Destroy(t)
           /\ pc[t] = "closing" => \/ Leave(t)
                                   \/ OpenVPNDies(t) \/ DnsmasqDies(t)
<1>0. /\ pc \in [Tunnels -> StepLabels \cup {"idle", "listed", "closing", "over", "lost"}]
      /\ failed \in [Tunnels -> Lasting \cup {"none", "clean"}]
  BY DEF HostInv, TypeOK
<1>1. CASE Begin(t) \/ Destroy(t)
  BY <1>0, <1>1 DEF Begin, Destroy, Goto, Setting, StepLabels
<1>2. CASE Fail(t)
  BY <1>0, <1>2 DEF Fail, Goto, StepLabels, Lasting, Setting
<1>3. CASE Leave(t)
  BY <1>3, LeaveKeeps DEF Setting, StepLabels
<1>4. CASE OpenVPNWrites(t) \/ OpenVPNDies(t) \/ DnsmasqDies(t)
  BY <1>4 DEF OpenVPNWrites, OpenVPNDies, DnsmasqDies, At
<1>5. CASE LoadTable(t)
  <2>1. pc[t] = "table" /\ pc'[t] \in Setting
    BY <1>0, <1>5, ProceedFacts DEF LoadTable, At
  <2> QED
    BY <1>5, <2>1 DEF Setting, StepLabels
<1>6. CASE EnterLink(t)
  <2>1. pc[t] = "link" /\ pc'[t] = "table"
    BY <1>0, <1>6, ProceedFacts DEF EnterLink, At
  <2> QED
    BY <2>1
<1>7. CASE AcceptForward(t) \/ ForwardFromVpeer(t) \/ EnterSession(t)
           \/ EnterDNS(t) \/ ActivateKillSwitch(t) \/ ForwardPort(t) \/ FetchServer(t)
           \/ SpawnOpenVPN(t)
  <2>1. Proceed(t) /\ pc[t] \in StepLabels \ {"link", "table"}
    BY <1>7 DEF AcceptForward, ForwardFromVpeer, EnterSession, EnterDNS, ActivateKillSwitch,
       ForwardPort, FetchServer, SpawnOpenVPN, At, StepLabels
  <2>2. pc'[t] \in Setting
    BY <1>0, <2>1, ProceedFacts
  <2> QED
    BY <2>1, <2>2 DEF Setting, StepLabels
<1> QED
  BY <1>1, <1>2, <1>3, <1>4, <1>5, <1>6, <1>7 DEF TunnelStep, Handler

LEMMA NatKeeps ==
    ASSUME HostInv, NEW t \in Tunnels, TunnelStep(t)
    PROVE  NatInv'
<1>0. /\ StackInv /\ SetupInv /\ HoldInv /\ NatInv
      /\ nat \in [Idents -> SUBSET Tunnels]
  BY DEF HostInv, TypeOK
<1>1. /\ \A u \in Tunnels \ {t} : pc'[u] = pc[u]
      /\ HostKept(t)
  BY ControlKeeps, HostKeeps
<1>2. pc[t] \in {"closing", "over"} => pc'[t] \in {"closing", "over"}
  BY MoveFacts
<1> SUFFICES ASSUME NEW v \in Tunnels, pc'[v] \in Setting \ {"link", "table"},
                    v \notin nat'[TunnelIdent(v)]
             PROVE  \E u \in Tunnels : /\ TunnelIdent(u) = TunnelIdent(v) /\ NameOf[u] # NameOf[v]
                                       /\ pc'[u] \in {"closing", "over"}
  BY DEF NatInv, Clobbered
<1>3. TunnelIdent(v) \in Idents /\ TunnelIdent(t) \in Idents
  BY NameFacts
<1>4. pc[v] \in Setting \ {"link", "table"}
  <2>1. CASE v # t
    BY <1>1, <2>1
  <2>2. CASE v = t
    <3>1. ~LoadTable(t)
      BY <1>0, <1>3, <2>2 DEF LoadTable
    <3> QED
      BY <2>2, <3>1, MoveFacts
  <2> QED
    BY <2>1, <2>2
<1>5. CASE v \notin nat[TunnelIdent(v)]
  <2>1. PICK u \in Tunnels : /\ TunnelIdent(u) = TunnelIdent(v) /\ NameOf[u] # NameOf[v]
                             /\ pc[u] \in {"closing", "over"}
    BY <1>0, <1>4, <1>5 DEF NatInv, Clobbered
  <2>2. pc'[u] \in {"closing", "over"}
    BY <1>1, <1>2, <2>1
  <2> QED
    BY <2>1, <2>2
<1>6. CASE v \in nat[TunnelIdent(v)]
  <2>1. TunnelIdent(v) = TunnelIdent(t) /\ Has(t, "internet") /\ pc[t] = "closing"
    BY <1>1, <1>3, <1>6 DEF HostKept
  <2>2. Has(v, "link") /\ Has(t, "link")
    <3>1. Entered(v)
      BY <1>0, <1>4 DEF SetupInv
    <3> QED
      BY <1>0, <1>4, <2>1, <3>1, HasLink DEF Entered
  <2>3. link[TunnelSlot(v)] = v /\ link[TunnelSlot(t)] = t
    <3>1. pc[v] # "lost" /\ pc[t] # "lost"
      BY <1>4, <2>1 DEF Setting, StepLabels
    <3> QED
      BY <1>0, <2>2, <3>1 DEF HoldInv, Holds
  <2>4. v # t
    BY <1>4, <2>1 DEF Setting, StepLabels
  <2>5. NameOf[t] # NameOf[v]
    BY <2>3, <2>4 DEF TunnelSlot
  <2> QED
    BY <1>2, <2>1, <2>5
<1> QED
  BY <1>5, <1>6

LEMMA HealKeeps ==
    ASSUME HostInv, NEW t \in Tunnels, TunnelStep(t)
    PROVE  HealInv' /\ Lost' = Lost
<1>0. TypeOK /\ SetupInv /\ HealInv /\ WantInv
  BY DEF HostInv
<1>1. /\ \A u \in Tunnels \ {t} : pc'[u] = pc[u] /\ stack'[u] = stack[u] /\ failed'[u] = failed[u]
      /\ pc'[t] = "lost" <=> pc[t] = "lost"
      /\ HostKept(t)
  BY ControlKeeps, HostKeeps
<1>2. Lost' = Lost
  BY <1>1 DEF Lost
<1>3. \A u \in Tunnels : /\ NameOf[u] \in Names /\ TunnelSlot(u) \in Slots
                         /\ TunnelIdent(u) \in Idents
  BY NameFacts
<1>4. None \notin Lost /\ (pc[t] # "lost" => t \notin Lost)
  BY ServicesAssumption DEF Lost
<1>5. /\ \A i \in Idents : nat'[i] \cap Lost \subseteq nat[i] \cap Lost
      /\ \A s \in Slots : kill'[s] \cap Lost \subseteq kill[s] \cap Lost
      /\ \A n \in Names : files'[n] \in Lost => files[n] \in Lost
  BY <1>1, <1>4 DEF HostKept
<1>6. ASSUME NEW v \in Tunnels, pc'[v] = "closing", failed'[v] = "none"
      PROVE  Heals(v)'
  <2>1. CASE v # t
    <3>1. Heals(v) /\ dnsmasq'[v] = dnsmasq[v] /\ \A x : Has(v, x)' <=> Has(v, x)
      BY <1>0, <1>1, <1>6, <2>1 DEF HealInv, HostKept, Has
    <3> QED
      BY <1>2, <1>3, <1>5, <3>1 DEF Heals
  <2>2. CASE v = t /\ pc[t] # "closing"
    <3>1. Destroy(t)
      BY <1>6, <2>2, MoveFacts
    <3>2. Entered(t) /\ pc[t] = "listed"
      BY <1>0, <3>1 DEF SetupInv, Destroy, Setting
    <3>3. Has(t, "internet")' /\ Has(t, "dns")'
          /\ (Config[t].vpn /\ Config[t].kill => Has(t, "kill")')
      BY <3>1, <3>2 DEF Destroy, Entered, Has
    <3> QED
      BY <2>2, <3>3 DEF Heals
  <2>3. CASE v = t /\ pc[t] = "closing" /\ ~Leave(t)
    <3>1. OpenVPNDies(t) \/ DnsmasqDies(t)
      BY <2>3, MoveFacts
    <3>2. /\ UNCHANGED <<stack, failed, nat, kill, files>>
          /\ dnsmasq[t] = "dead" => dnsmasq'[t] = "dead"
      BY <3>1 DEF OpenVPNDies, DnsmasqDies
    <3>3. Heals(t)
      BY <1>0, <1>6, <2>3, <3>2 DEF HealInv
    <3> QED
      BY <1>2, <2>3, <3>2, <3>3 DEF Heals, Has
  <2>4. CASE v = t /\ Leave(t)
    <3> DEFINE m == NewestOf(stack[t])
    <3>1. /\ \A x : Has(t, x)' <=> Has(t, x) /\ x # m
          /\ pc[t] = "closing" /\ failed' = failed
      BY <2>4, LeaveKeeps
    <3>2. Heals(t)
      BY <1>0, <1>6, <2>4, <3>1 DEF HealInv
    <3>3. m = "internet" => nat'[TunnelIdent(t)] = {}
      BY <1>0, <1>3, <2>4 DEF Leave, LeaveInternet, TypeOK
    <3>4. m = "kill" => kill'[TunnelSlot(t)] = {}
      BY <1>0, <1>3, <2>4 DEF Leave, LeaveKillSwitch, TypeOK
    <3>5. m = "dns" => files'[NameOf[t]] = None \/ dnsmasq'[t] = "dead"
      BY <1>0, <1>3, <2>4 DEF Leave, LeaveDNS, TypeOK
    <3>6. dnsmasq[t] = "dead" => dnsmasq'[t] = "dead"
      BY <1>0, <2>4 DEF Leave, LeaveLink, LeaveInternet, LeaveSession, LeaveDNS, LeaveKillSwitch,
         LeavePort, processes, TypeOK
    <3> HIDE DEF m
    <3> QED
      BY <1>2, <1>3, <1>4, <1>5, <2>4, <3>1, <3>2, <3>3, <3>4, <3>5, <3>6 DEF Heals
  <2> QED
    BY <2>1, <2>2, <2>3, <2>4
<1> QED
  BY <1>2, <1>6 DEF HealInv

LEMMA TypesKeep ==
    ASSUME HostInv, NEW t \in Tunnels, TunnelStep(t)
    PROVE  TypeOK'
<1>0. TypeOK /\ NameOf[t] \in Names /\ TunnelSlot(t) \in Slots /\ TunnelIdent(t) \in Idents
  BY NameFacts DEF HostInv
<1>1. ControlKept
  BY ControlKeeps
<1>2. \A u \in Tunnels : ToSet(stack'[u]) \subseteq Managers /\ IsInjective(stack'[u])
  <2> SUFFICES ASSUME NEW u \in Tunnels
               PROVE  ToSet(stack'[u]) \subseteq Managers /\ IsInjective(stack'[u])
    OBVIOUS
  <2>1. stack'[u] \in Seq(Managers) /\ IsInjective(stack'[u])
    BY <1>1 DEF ControlKept, StackInv
  <2>2. stack'[u] \in [1..Len(stack'[u]) -> Managers]
    BY <2>1, LenProperties
  <2> QED
    BY <2>1, <2>2 DEF ToSet
<1>3. failed' \in [Tunnels -> Lasting \cup {"none", "clean"}]
  <2>1. failed' = failed \/ \E how \in Lasting \cup {"none", "clean"} :
                               failed' = [failed EXCEPT ![t] = how]
    BY DEF TunnelStep, Handler, Begin, EnterLink, LoadTable, AcceptForward, ForwardFromVpeer,
       FetchServer, SpawnOpenVPN, EnterSession, EnterDNS, ActivateKillSwitch, ForwardPort, Fail,
       Destroy, Leave, OpenVPNWrites, OpenVPNDies, DnsmasqDies
  <2> QED
    BY <1>0, <2>1 DEF TypeOK
<1>4. /\ link' \in [Slots -> Tunnels \cup {None}]
      /\ nat' \in [Idents -> SUBSET Tunnels]
      /\ accepted' \subseteq Tunnels /\ forgotten' \subseteq Tunnels
      /\ kill' \in [Slots -> SUBSET Tunnels]
      /\ files' \in [Names -> Tunnels \cup {None}]
      /\ dnsmasq' \in [Tunnels -> {"none", "up", "dead", "stopped"}]
      /\ openvpn' \in [Tunnels -> {"none", "starting", "up", "dead"}]
      /\ said' \in [Tunnels -> {"nothing", "gateway", "all"}]
      /\ temp' \in [Tunnels -> SUBSET {"credentials", "script"}]
      /\ loops' \subseteq Tunnels
  <2> USE <1>0 DEF TypeOK, processes
  <2>1. CASE \/ Begin(t) \/ Destroy(t) \/ EnterLink(t) \/ LoadTable(t) \/ AcceptForward(t)
             \/ ForwardFromVpeer(t)
    BY <2>1 DEF Begin, Destroy, EnterLink, LoadTable, AcceptForward, ForwardFromVpeer
  <2>2. CASE FetchServer(t) \/ SpawnOpenVPN(t) \/ EnterSession(t) \/ EnterDNS(t)
    BY <2>2 DEF FetchServer, SpawnOpenVPN, EnterSession, EnterDNS
  <2>3. CASE ActivateKillSwitch(t) \/ ForwardPort(t)
    BY <2>3 DEF ActivateKillSwitch, ForwardPort
  <2>4. CASE Fail(t)
    <3>1. TempLeft(t, pc[t]) \in SUBSET {"credentials", "script"}
      BY DEF TempLeft
    <3> QED
      BY <2>4, <3>1 DEF Fail
  <2>5. CASE OpenVPNWrites(t) \/ OpenVPNDies(t) \/ DnsmasqDies(t)
    BY <2>5 DEF OpenVPNWrites, OpenVPNDies, DnsmasqDies
  <2>6. CASE Leave(t)
    <3>1. \/ LeaveLink(t) \/ LeaveInternet(t) \/ LeaveSession(t)
          \/ LeaveDNS(t) \/ LeaveKillSwitch(t) \/ LeavePort(t)
          \/ UNCHANGED <<link, nat, accepted, forgotten, kill, files, processes, temp, loops>>
      BY <2>6 DEF Leave
    <3> QED
      BY <3>1 DEF LeaveLink, LeaveInternet, LeaveSession, LeaveDNS, LeaveKillSwitch, LeavePort
  <2> QED
    BY <2>1, <2>2, <2>3, <2>4, <2>5, <2>6 DEF TunnelStep, Handler
<1> QED
  BY <1>1, <1>2, <1>3, <1>4 DEF TypeOK, ControlKept

LEMMA TunnelStepKeeps ==
    ASSUME HostInv, NEW t \in Tunnels, TunnelStep(t)
    PROVE  HostInv'
<1>1. ControlKept /\ \A u \in Tunnels \ {t} : pc'[u] = pc[u]
  BY ControlKeeps
<1>2. HoldInv'
  BY <1>1, OthersHold, OwnHolds DEF HoldInv
<1>3. TypeOK' /\ NatInv' /\ HealInv'
  BY TypesKeep, NatKeeps, HealKeeps
<1>4. KillInv'
  <2>1. HostKept(t) /\ KillInv
    BY HostKeeps DEF HostInv
  <2> QED
    BY <2>1 DEF HostKept, KillInv
<1> QED
  BY <1>1, <1>2, <1>3, <1>4 DEF HostInv, ControlKept

LEMMA ServerEndsKeeps ==
    ASSUME HostInv, ServerEnds
    PROVE  HostInv'
<1>0. TypeOK /\ WantInv /\ StackInv /\ SetupInv /\ HoldInv /\ NatInv /\ HealInv /\ KillInv
  BY DEF HostInv
<1>1. /\ pc' = [t \in Tunnels |-> IF t \in Live THEN "lost" ELSE pc[t]]
      /\ stack' = [t \in Tunnels |-> <<>>]
      /\ said' = [t \in Tunnels |-> "nothing"]
      /\ loops' = {}
      /\ failed' = [t \in Tunnels |-> IF t \in Live THEN "none" ELSE failed[t]]
      /\ UNCHANGED <<nat, accepted, forgotten, kill, temp>>
      /\ Lost = {}
  BY DEF ServerEnds, KilledAlone, Interrupted, UnitEnds, Forget
<1>2. /\ link' = link \/ link' = [s \in Slots |-> IF link[s] \in Live THEN None ELSE link[s]]
      /\ \/ openvpn' = openvpn
         \/ openvpn' = [t \in Tunnels |->
                           IF t \in Live /\ openvpn[t] # "none" THEN "dead" ELSE openvpn[t]]
      /\ \/ dnsmasq' = dnsmasq
         \/ dnsmasq' = [t \in Tunnels |->
                           IF t \in Live /\ dnsmasq[t] = "up" THEN "dead" ELSE dnsmasq[t]]
      /\ files' = files \/ files' = [n \in Names |-> None]
  BY DEF ServerEnds, KilledAlone, Interrupted, UnitEnds, ProcessesDie
<1>3. \A t \in Tunnels : /\ pc'[t] \in {"idle", "over", "lost"}
                         /\ pc'[t] # "lost" => t \notin Live /\ pc[t] \in {"idle", "over"}
                                               /\ pc'[t] = pc[t] /\ failed'[t] = failed[t]
  BY <1>1 DEF Live, Lost
<1>4. \A t \in Tunnels : stack'[t] = <<>>
  BY <1>1
<1>5. StackInv'
  <2>1. <<>> \in Seq(Managers) /\ IsInjective(<<>>)
    BY EmptySeq DEF IsInjective
  <2>2. stack' \in [Tunnels -> Seq(Managers)]
    BY <1>1, <2>1
  <2> QED
    BY <1>3, <1>4, <2>1, <2>2 DEF StackInv
<1>6. WantInv'
  BY <1>0, <1>1, <1>3 DEF WantInv, Setting, StepLabels
<1>7. SetupInv' /\ NatInv' /\ HealInv'
  BY <1>3 DEF SetupInv, NatInv, HealInv, Setting, StepLabels
<1>8. HoldInv'
  <2> SUFFICES ASSUME NEW t \in Tunnels, pc'[t] # "lost" PROVE Holds(t)'
    BY DEF HoldInv
  <2>1. /\ t \notin Live /\ pc[t] \in {"idle", "over"} /\ pc'[t] = pc[t] /\ failed'[t] = failed[t]
        /\ stack[t] = <<>>
    BY <1>0, <1>3 DEF StackInv
  <2>2. \A x : ~Has(t, x) /\ ~Has(t, x)'
    BY <1>4, <2>1 DEF Has, ToSet
  <2>3. Holds(t)
    BY <1>0, <2>1 DEF HoldInv
  <2>4. /\ NameOf[t] \in Names /\ TunnelSlot(t) \in Slots /\ TunnelIdent(t) \in Idents /\ t # None
    BY NameFacts
  <2>5. /\ link'[TunnelSlot(t)] = t => link[TunnelSlot(t)] = t
        /\ files'[NameOf[t]] = t => files[NameOf[t]] = t
        /\ openvpn'[t] = openvpn[t] /\ dnsmasq'[t] = dnsmasq[t]
    BY <1>2, <2>1, <2>4
  <2> QED
    BY <1>1, <2>1, <2>2, <2>3, <2>5 DEF Holds
<1>9. TypeOK'
  <2>1. /\ link' \in [Slots -> Tunnels \cup {None}]
        /\ files' \in [Names -> Tunnels \cup {None}]
        /\ dnsmasq' \in [Tunnels -> {"none", "up", "dead", "stopped"}]
        /\ openvpn' \in [Tunnels -> {"none", "starting", "up", "dead"}]
        /\ nat' \in [Idents -> SUBSET Tunnels]
        /\ kill' \in [Slots -> SUBSET Tunnels]
        /\ temp' \in [Tunnels -> SUBSET {"credentials", "script"}]
        /\ accepted' \subseteq Tunnels /\ forgotten' \subseteq Tunnels /\ loops' \subseteq Tunnels
    BY <1>0, <1>1, <1>2 DEF TypeOK
  <2>2. /\ pc' \in [Tunnels -> StepLabels \cup {"idle", "listed", "closing", "over", "lost"}]
        /\ failed' \in [Tunnels -> Lasting \cup {"none", "clean"}]
        /\ said' \in [Tunnels -> {"nothing", "gateway", "all"}]
    BY <1>0, <1>1 DEF TypeOK
  <2>3. \A t \in Tunnels : ToSet(stack'[t]) \subseteq Managers /\ IsInjective(stack'[t])
    BY <1>4 DEF ToSet, IsInjective
  <2> QED
    BY <2>1, <2>2, <2>3 DEF TypeOK
<1>10. KillInv'
  BY <1>0, <1>1 DEF KillInv
<1> QED
  BY <1>5, <1>6, <1>7, <1>8, <1>9, <1>10 DEF HostInv

LEMMA HostInvInit == Init => HostInv
<1> SUFFICES ASSUME Init PROVE HostInv
  OBVIOUS
<1>1. \A t \in Tunnels : /\ pc[t] = "idle" /\ failed[t] = "none" /\ stack[t] = <<>>
                         /\ dnsmasq[t] = "none" /\ openvpn[t] = "none" /\ temp[t] = {}
  BY DEF Init
<1>2. \A t \in Tunnels : /\ link[TunnelSlot(t)] # t /\ t \notin kill[TunnelSlot(t)]
                         /\ t \notin nat[TunnelIdent(t)] /\ files[NameOf[t]] # t
                         /\ \A x : ~Has(t, x)
  BY <1>1, NameFacts, EmptyHas DEF Init
<1>3. TypeOK
  BY DEF Init, TypeOK, ToSet, IsInjective
<1>4. StackInv
  <2>1. <<>> \in Seq(Managers) /\ IsInjective(<<>>)
    BY EmptySeq DEF IsInjective
  <2>2. stack \in [Tunnels -> Seq(Managers)]
    BY <2>1 DEF Init
  <2> QED
    BY <1>1, <2>1, <2>2 DEF StackInv
<1>5. WantInv /\ SetupInv /\ NatInv /\ HealInv
  BY <1>1 DEF WantInv, SetupInv, NatInv, HealInv, Setting, StepLabels
<1>6. HoldInv
  BY <1>1, <1>2 DEF HoldInv, Holds, Init
<1>7. KillInv
  BY DEF KillInv, Init
<1> QED
  BY <1>3, <1>4, <1>5, <1>6, <1>7 DEF HostInv

LEMMA HostInvNext == HostInv /\ [Next \/ ServerEnds]_vars => HostInv'
<1> SUFFICES ASSUME HostInv, [Next \/ ServerEnds]_vars PROVE HostInv'
  OBVIOUS
<1>1. CASE Next
  BY <1>1, TunnelStepKeeps DEF Next, TunnelStep
<1>2. CASE ServerEnds
  BY <1>2, ServerEndsKeeps
<1>3. CASE UNCHANGED vars
  BY <1>3 DEF HostInv, TypeOK, WantInv, StackInv, SetupInv, HoldInv, NatInv, HealInv, Entered, Holds,
     Heals, KillInv, Clobbered, Has, Lost, Wanted, vars, processes
<1> QED
  BY <1>1, <1>2, <1>3

LEMMA HostInvAlways == RestartSpec => []HostInv
BY HostInvInit, HostInvNext, PTL DEF RestartSpec

\* ---- The theorems

\* What the host holds and the stacks keep their types, across an end of the
\* server; in particular nothing is entered on a stack twice.
THEOREM HostTypesHold == RestartSpec => []TypeOK
<1>1. HostInv => TypeOK
  BY DEF HostInv
<1> QED
  BY <1>1, HostInvAlways, PTL

\* A listed tunnel with a VPN and kill_switch has its own rules in the table
\* named after its interface, and no live tunnel's beside them.
THEOREM KillSwitchHolds == RestartSpec => []KillSwitchCovers
<1>1. HostInv => KillSwitchCovers
  <2> SUFFICES ASSUME HostInv, NEW t \in Tunnels,
                      pc[t] = "listed", Config[t].vpn, Config[t].kill
               PROVE  /\ t \in kill[TunnelSlot(t)]
                      /\ \A u \in kill[TunnelSlot(t)] : u = t \/ pc[u] = "lost"
    BY DEF KillSwitchCovers
  <2>0. TypeOK /\ StackInv /\ SetupInv /\ HoldInv /\ KillInv
    BY DEF HostInv
  <2>1. Entered(t) /\ Holds(t)
    BY <2>0 DEF SetupInv, HoldInv, Setting
  <2>2. t \in kill[TunnelSlot(t)] /\ link[TunnelSlot(t)] = t
    BY <2>1 DEF Entered, Holds
  <2>3. ASSUME NEW u \in Tunnels, u \in kill[TunnelSlot(t)], TunnelSlot(u) = TunnelSlot(t),
               pc[u] # "lost"
        PROVE  u = t
    <3>1. Has(u, "kill") /\ Holds(u)
      BY <2>0, <2>3 DEF HoldInv, Holds
    <3>2. link[TunnelSlot(u)] = u
      BY <2>0, <3>1, HasLink DEF Holds
    <3> QED
      BY <2>2, <2>3, <3>2
  <2>4. \A u \in kill[TunnelSlot(t)] : u \in Tunnels /\ TunnelSlot(u) = TunnelSlot(t)
    BY <2>0, NameFacts DEF KillInv, TypeOK
  <2> QED
    BY <2>2, <2>3, <2>4
<1> QED
  BY <1>1, HostInvAlways, PTL

\* Two tunnels of different names lose their masquerading to each other only
\* by the identifier _nft_ident gives both.
THEOREM NatIsLostToAliasesOnly == RestartSpec => []NatStands
<1>1. HostInv => NatStands
  BY DEF HostInv, NatInv, NatStands, Clobbered, Setting
<1> QED
  BY <1>1, HostInvAlways, PTL

\* Whatever works on a tunnel's interface is gone before the next tunnel of
\* its slot can have the interface: loops, processes, the kill switch and the
\* accept rules that are remembered, not those in forgotten.
THEOREM NothingOutlivesItsLink == RestartSpec => []NothingOutlivesLink
<1>1. HostInv => NothingOutlivesLink
  <2> SUFFICES ASSUME HostInv, NEW t \in Tunnels, pc[t] # "lost",
                      \/ t \in accepted \/ t \in loops \/ t \in kill[TunnelSlot(t)]
                      \/ openvpn[t] \in {"starting", "up"} \/ dnsmasq[t] = "up"
               PROVE  link[TunnelSlot(t)] = t
    BY DEF NothingOutlivesLink
  <2>0. StackInv /\ Holds(t) /\ (pc[t] \in Setting => Entered(t))
    BY DEF HostInv, HoldInv, SetupInv
  <2>1. \/ pc[t] = "connect" \/ \E m \in Managers : Has(t, m)
    <3>1. /\ "internet" \in Managers /\ "port" \in Managers /\ "kill" \in Managers
          /\ "session" \in Managers /\ "dns" \in Managers
      BY DEF Managers
    <3> QED
      BY <2>0, <3>1 DEF Holds
  <2>2. Has(t, "link")
    <3>1. pc[t] = "connect" => Entered(t)
      BY <2>0 DEF Setting, StepLabels
    <3> QED
      BY <2>0, <2>1, <3>1, HasLink DEF Entered
  <2> QED
    BY <2>0, <2>2 DEF Holds
<1> QED
  BY <1>1, HostInvAlways, PTL

\* A tunnel whose setup failed or whose teardown ended has left nothing on the
\* host but what the code does not undo, the accept rules in forgotten among
\* it.
THEOREM NothingRemainsBehind == RestartSpec => []NothingRemains
<1>1. HostInv => NothingRemains
  <2> SUFFICES ASSUME HostInv, NEW t \in Tunnels, pc[t] = "over"
               PROVE  Remains(t) \subseteq NotUndone(t)
    BY DEF NothingRemains
  <2>0. stack[t] = <<>> /\ Holds(t)
    BY DEF HostInv, StackInv, HoldInv
  <2>1. \A m : ~Has(t, m)
    BY <2>0, EmptyHas
  <2>2. /\ link[TunnelSlot(t)] # t /\ t \notin kill[TunnelSlot(t)]
        /\ t \notin accepted /\ t \notin loops
        /\ openvpn[t] \notin {"starting", "up"} /\ dnsmasq[t] # "up"
        /\ t \in nat[TunnelIdent(t)] => failed[t] = "chains"
        /\ files[NameOf[t]] = t => failed[t] = "dns" \/ dnsmasq[t] = "dead"
        /\ temp[t] = {} \/ (failed[t] = "spawn" /\ temp[t] = {"script"})
    BY <2>0, <2>1 DEF Holds
  <2>3. /\ failed[t] = "chains" => "table" \in NotUndone(t)
        /\ failed[t] = "dns" \/ dnsmasq[t] = "dead" => "files" \in NotUndone(t)
        /\ failed[t] = "spawn" => "script" \in NotUndone(t)
        /\ "forgotten rule" \in NotUndone(t)
    BY DEF NotUndone
  <2> HIDE DEF NotUndone
  <2>4. Remains(t) \subseteq {"table" : x \in {t} \cap nat[TunnelIdent(t)]}
                              \cup {"files" : x \in {t} \cap {files[NameOf[t]]}}
                              \cup {"forgotten rule"}
                              \cup temp[t]
    <3>1. /\ {"link" : x \in {t} \cap {link[TunnelSlot(t)]}} = {}
          /\ {"rule" : x \in {t} \cap accepted} = {}
          /\ {"kill" : x \in {t} \cap kill[TunnelSlot(t)]} = {}
      BY <2>2
    <3>2. /\ {"dnsmasq" : x \in {t} \cap {u \in Tunnels : dnsmasq[u] = "up"}} = {}
          /\ {"openvpn" : x \in {t} \cap {u \in Tunnels : openvpn[u] \in {"starting", "up"}}} = {}
          /\ {"loop" : x \in {t} \cap loops} = {}
      BY <2>2
    <3>3. {"forgotten rule" : x \in {t} \cap forgotten} \subseteq {"forgotten rule"}
      OBVIOUS
    <3> QED
      BY <3>1, <3>2, <3>3 DEF Remains
  <2>5. /\ {"table" : x \in {t} \cap nat[TunnelIdent(t)]} \subseteq NotUndone(t)
        /\ {"files" : x \in {t} \cap {files[NameOf[t]]}} \subseteq NotUndone(t)
        /\ temp[t] \subseteq NotUndone(t)
    BY <2>2, <2>3
  <2> QED
    BY <2>3, <2>4, <2>5
<1> QED
  BY <1>1, HostInvAlways, PTL

\* After an end of the server, a tunnel that comes and goes without a failure
\* takes with it what the ended server left under its names.
THEOREM NextTunnelOfTheNameHeals == RestartSpec => NextTunnelHeals
<1> DEFINE Healed ==
      \A t \in Tunnels :
          pc[t] = "closing" /\ pc'[t] = "over" /\ failed[t] = "none" =>
              /\ nat'[TunnelIdent(t)] \cap Lost = {}
              /\ Config[t].vpn /\ Config[t].kill => kill'[TunnelSlot(t)] \cap Lost = {}
              /\ dnsmasq[t] # "dead" => files'[NameOf[t]] \notin Lost
<1>1. HostInv /\ [Next \/ ServerEnds]_vars => [Healed]_vars
  <2> SUFFICES ASSUME HostInv, Next \/ ServerEnds, NEW t \in Tunnels,
                      pc[t] = "closing", pc'[t] = "over", failed[t] = "none"
               PROVE  /\ nat'[TunnelIdent(t)] \cap Lost = {}
                      /\ Config[t].vpn /\ Config[t].kill => kill'[TunnelSlot(t)] \cap Lost = {}
                      /\ dnsmasq[t] # "dead" => files'[NameOf[t]] \notin Lost
    OBVIOUS
  <2>1. PICK u \in Tunnels : TunnelStep(u)
    <3>1. ~ServerEnds
      BY DEF ServerEnds, KilledAlone, Interrupted, UnitEnds, Forget, Live
    <3> QED
      BY <3>1 DEF Next, TunnelStep
  <2>2. u = t
    BY <2>1, ControlKeeps
  <2>3. Leave(t)
    <3>1. ~OpenVPNDies(t) /\ ~DnsmasqDies(t)
      BY DEF OpenVPNDies, DnsmasqDies
    <3> QED
      BY <2>1, <2>2, <3>1, MoveFacts
  <2>4. NewestOf(stack[t]) = "link"
    BY <2>3, LeaveKeeps
  <2>5. UNCHANGED <<nat, kill, files>>
    BY <2>3, <2>4 DEF Leave, LeaveLink
  <2>6. StackInv /\ stack[t] \in Seq(Managers) /\ IsInjective(stack[t]) /\ stack[t] # <<>>
    BY DEF HostInv, StackInv
  <2>7. \A x : ~(Has(t, x) /\ x # "link")
    <3>1. stack'[t] = <<>>
      BY <2>3, <2>4, <2>6, PopKeeps DEF Leave
    <3>2. \A x : ~Has(t, x)'
      BY <3>1 DEF Has, ToSet
    <3> QED
      BY <2>3, <2>4, <3>2, LeaveKeeps
  <2>8. Heals(t)
    BY DEF HostInv, HealInv
  <2> QED
    BY <2>5, <2>7, <2>8 DEF Heals
<1>2. RestartSpec => [][Healed]_vars
  BY <1>1, HostInvAlways, PTL DEF RestartSpec
<1> QED
  BY <1>2 DEF NextTunnelHeals
=============================================================================
