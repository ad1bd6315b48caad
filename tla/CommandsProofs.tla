---------------------------- MODULE CommandsProofs ----------------------------
(* Proofs about Commands, for any commands, names and casts, and any number of *)
(* signals.                                                                    *)
EXTENDS Commands, SequencesExt, SequenceTheorems, FiniteSetTheorems, TLAPS

\* What the client may send, and the server answer.
Sendable == {"regions", "list", "create", "start", "run", "kill", "destroy"}
Answers == {"regions", "found", "created", "started", "restarted", "terminated", "stopped",
            "destroyed", "not destroyed", "error"}

In(c) == ToSet(inbox[c])
Out(c) == ToSet(outbox[c])

KindInv ==
    /\ role \in Casts
    /\ pc \in [Procs -> {"idle", "looking", "running", "holding", "undoing"}
                            \cup Asking \cup Ended]
    /\ owed \in [Procs -> Nat] /\ signals \in [Procs -> Nat]
    /\ \A f \in {stopping, created, knows, signalled} : f \in [Procs -> BOOLEAN]
    /\ inbox \in [Procs -> Seq(Sendable)]
    /\ outbox \in [Procs -> Seq(Answers)]
    /\ work \in [Procs -> {"none", "setup", "held", "lazy", "lazy_held",
                           "spawning", "waiting", "serving", "stopped", "done"}]
    /\ closing \in [Procs -> {"none", "begun", "tearing", "done"}]
    /\ listed \in [Names -> Tunnels \cup {None}]

\* A tunnel is listed under the name of its command.
ListInv == \A n \in Names : listed[n] # None => n = Name(listed[n][1])

\* A command asks for a destroy only of a tunnel it was told it has, unless it
\* is a start-tunnel that got a signal or a destroy is all it does.
MayUndo(c) == created[c] \/ Kind(c) = "destroy" \/ (Kind(c) = "start" /\ stopping[c])
UndoInv ==
    \A c \in Procs : "destroy" \in In(c) \/ closing[c] = "begun" => MayUndo(c)

\* The commands that CreatedGoes is about.
Owners == {c \in Procs : role[c].temporary \/ role[c].kind = "create"}

Unlisted(c) == ~OwnListed(c, "asked") /\ ~OwnListed(c, "lazy")

\* It asks for its destroy only once its run is answered: no run-process is
\* interrupted at work, and no debug-tunnel was signalled so far.
Awaits(c) == Kind(c) = "run" \/ (Kind(c) = "debug" /\ signals[c] = 0)
Clean(c) == ~OwnListed(c, "asked") /\ (Awaits(c) => ~OwnListed(c, "lazy"))

\* No request or handler is left that could list what Clean speaks of.
Settled(c) ==
    /\ In(c) \cap {"regions", "create"} = {} /\ work[c] \notin {"setup", "held"}
    /\ Awaits(c) => "run" \notin In(c) /\ work[c] \notin {"lazy", "lazy_held"}

Idle(c) ==
    /\ inbox[c] = <<>> /\ outbox[c] = <<>> /\ work[c] = "none" /\ closing[c] = "none"
    /\ ~created[c] /\ ~knows[c] /\ Unlisted(c)

Choosing(c) ==
    /\ Unlisted(c) /\ ~created[c] /\ ~knows[c] /\ work[c] = "none" /\ closing[c] = "none"
    /\ \/ inbox[c] = <<"regions">> /\ outbox[c] = <<>>
       \/ inbox[c] = <<>> /\ outbox[c] \in {<<"regions">>, <<"error">>}

Creating(c) ==
    /\ ~created[c] /\ ~knows[c] /\ closing[c] = "none" /\ ~OwnListed(c, "lazy")
    /\ \/ inbox[c] = <<"create">> /\ outbox[c] = <<>> /\ work[c] = "none" /\ Unlisted(c)
       \/ inbox[c] = <<>> /\ outbox[c] = <<>> /\ work[c] \in {"setup", "held"} /\ Unlisted(c)
       \/ inbox[c] = <<>> /\ outbox[c] = <<"created">> /\ work[c] = "done"
       \/ inbox[c] = <<>> /\ outbox[c] = <<"error">> /\ work[c] \in {"none", "done"} /\ Unlisted(c)

Holding(c) ==
    /\ inbox[c] = <<>> /\ outbox[c] = <<>> /\ work[c] = "done" /\ closing[c] = "none"
    /\ created[c]

\* The answers that end a run.
Final == {"terminated", "stopped", "error"}

AtWork(c) ==
    /\ created[c] /\ closing[c] = "none" /\ role[c].temporary
    /\ Out(c) \cap {"regions", "created", "destroyed", "not destroyed"} = {}
    /\ In(c) \cap {"regions", "create", "destroy"} = {}
    /\ work[c] \notin {"none", "setup", "held"}
    /\ \/ inbox[c] = <<"run">> /\ outbox[c] = <<>> /\ work[c] = "done" /\ ~knows[c]
       \/ "run" \notin In(c) /\ (Out(c) \cap Final # {} => work[c] = "done")

Undoing(c) ==
    /\ created[c] /\ Settled(c)
    /\ Out(c) \cap {"regions", "created"} = {}
    /\ \/ closing[c] = "tearing" \/ "destroyed" \in Out(c)
       \/ role[c].temporary /\ "not destroyed" \in Out(c)
       => Clean(c)

\* What is under way between a command and the server, by where the command is.
Phase(c) ==
    /\ "list" \notin In(c) /\ "start" \notin In(c) /\ "found" \notin Out(c)
    /\ work[c] \notin {"serving", "stopped"}
    /\ pc[c] \notin {"looking", "starting"}
    /\ pc[c] = "idle" => Idle(c)
    /\ pc[c] = "choosing" => Choosing(c)
    /\ pc[c] = "creating" => Creating(c)
    /\ pc[c] = "holding" => Holding(c)
    /\ pc[c] = "running" => AtWork(c)
    /\ pc[c] = "undoing" => Undoing(c)
    /\ pc[c] \in {"over", "failed"} =>
          Settled(c) /\ (role[c].temporary \/ pc[c] = "over" => Clean(c))

PhaseInv == \A c \in Owners : Phase(c)

CommandsInv == KindInv /\ ListInv /\ UndoInv /\ PhaseInv

\* ---- Sequences

\* A queue at whose end something is put.
LEMMA PutFacts ==
    ASSUME NEW S, NEW s \in Seq(S), NEW x \in S
    PROVE  /\ Append(s, x) \in Seq(S)
           /\ ToSet(Append(s, x)) = ToSet(s) \cup {x}
           /\ s = <<>> => Append(s, x) = <<x>>
<1>1. /\ Append(s, x) \in Seq(S) /\ Len(Append(s, x)) = Len(s) + 1 /\ Len(s) \in Nat
      /\ \A i \in 1..Len(s) : Append(s, x)[i] = s[i]
      /\ Append(s, x)[Len(s) + 1] = x
      /\ DOMAIN s = 1..Len(s) /\ DOMAIN Append(s, x) = 1..(Len(s) + 1)
  BY AppendProperties, LenProperties
<1> DEFINE n == Len(s)
           t == Append(s, x)
<1> HIDE DEF n, t
<1>2. 1..(n + 1) = 1..n \cup {n + 1}
  BY <1>1 DEF n
<1>3. {t[i] : i \in 1..(n + 1)} = {s[i] : i \in 1..n} \cup {x}
  BY <1>1, <1>2 DEF n, t
<1>4. ToSet(t) = ToSet(s) \cup {x}
  BY <1>1, <1>3 DEF ToSet, n, t
<1>5. s = <<>> => Append(s, x) = <<x>>
  OBVIOUS
<1> QED
  BY <1>1, <1>4, <1>5 DEF t

\* A queue whose head is taken.
LEMMA TakenFacts ==
    ASSUME NEW S, NEW s \in Seq(S), s # <<>>
    PROVE  /\ Tail(s) \in Seq(S)
           /\ ToSet(Tail(s)) \subseteq ToSet(s)
           /\ Head(s) \in ToSet(s) /\ Head(s) \in S
           /\ \A x : s = <<x>> => Head(s) = x /\ Tail(s) = <<>>
<1>1. /\ Head(s) \in S /\ Tail(s) \in Seq(S) /\ Len(Tail(s)) = Len(s) - 1
      /\ \A i \in 1..Len(Tail(s)) : Tail(s)[i] = s[i + 1]
  BY HeadTailProperties
<1>2. Len(s) \in Nat /\ Len(s) # 0
  BY EmptySeq
<1>3. DOMAIN s = 1..Len(s) /\ DOMAIN Tail(s) = 1..(Len(s) - 1)
  BY <1>1, LenProperties
<1>4. \A i \in 1..(Len(s) - 1) : i + 1 \in 1..Len(s)
  BY <1>2
<1>5. ToSet(Tail(s)) \subseteq ToSet(s)
  BY <1>1, <1>3, <1>4 DEF ToSet
<1>6. Head(s) = s[1] /\ 1 \in 1..Len(s)
  BY <1>2
<1>7. Head(s) \in ToSet(s)
  BY <1>3, <1>6 DEF ToSet
<1>8. \A x : s = <<x>> => Head(s) = x /\ Tail(s) = <<>>
  OBVIOUS
<1> QED
  BY <1>1, <1>5, <1>7, <1>8

\* Queues that hold nothing or one thing.
LEMMA SmallQueues ==
    /\ ToSet(<<>>) = {} /\ \A x : ToSet(<<x>>) = {x}
    /\ \A x : <<x>> # <<>>
    /\ \A x, y : <<x>> = <<y>> => x = y
<1>1. \A x : DOMAIN <<x>> = {1} /\ <<x>>[1] = x
  OBVIOUS
<1>2. DOMAIN <<>> = {}
  BY EmptySeq, LenProperties
<1> QED
  BY <1>1, <1>2 DEF ToSet

\* The signals that were kept back are sent behind what was sent before.
LEMMA KillsFacts ==
    ASSUME NEW s \in Seq(Sendable), NEW c, NEW n \in Nat
    PROVE  /\ s \o Kills(c, n) \in Seq(Sendable)
           /\ ToSet(s \o Kills(c, n)) \subseteq ToSet(s) \cup {"kill"}
<1> DEFINE k == Kills(c, n)
           t == s \o k
<1>1. k \in Seq(Sendable) /\ Len(k) = n /\ \A i \in 1..n : k[i] = "kill"
  <2>1. k \in [1..n -> Sendable] /\ \A i \in 1..n : k[i] = "kill"
    BY DEF Kills, Sendable
  <2>2. k \in Seq(Sendable)
    BY <2>1
  <2> QED
    BY <2>1, <2>2, LenProperties
<1> HIDE DEF k
<1>2. /\ t \in Seq(Sendable)
      /\ Len(t) = Len(s) + n
      /\ \A i \in 1..(Len(s) + n) : t[i] = IF i <= Len(s) THEN s[i] ELSE k[i - Len(s)]
  BY <1>1, ConcatProperties
<1> HIDE DEF t
<1>3. Len(s) \in Nat /\ DOMAIN s = 1..Len(s) /\ DOMAIN t = 1..(Len(s) + n)
  BY <1>2, LenProperties
<1>4. \A i \in 1..(Len(s) + n) : t[i] = "kill" \/ \E j \in 1..Len(s) : t[i] = s[j]
  <2> SUFFICES ASSUME NEW i \in 1..(Len(s) + n)
               PROVE  t[i] = "kill" \/ \E j \in 1..Len(s) : t[i] = s[j]
    OBVIOUS
  <2>1. CASE i <= Len(s)
    <3>1. i \in 1..Len(s)
      BY <1>3, <2>1
    <3> QED
      BY <1>2, <2>1, <3>1
  <2>2. CASE ~(i <= Len(s))
    <3>1. i - Len(s) \in 1..n
      BY <1>3, <2>2
    <3> QED
      BY <1>1, <1>2, <2>2, <3>1
  <2> QED
    BY <2>1, <2>2
<1>5. ToSet(t) \subseteq ToSet(s) \cup {"kill"}
  BY <1>3, <1>4 DEF ToSet
<1> QED
  BY <1>2, <1>5 DEF t, k

LEMMA HearFacts ==
    ASSUME KindInv, NEW c \in Procs, NEW m, Hear(c, m)
    PROVE  /\ m \in Out(c) /\ m \in Answers /\ outbox[c] # <<>>
           /\ outbox' \in [Procs -> Seq(Answers)]
           /\ ToSet(outbox'[c]) \subseteq Out(c)
           /\ \A x : outbox[c] = <<x>> => x = m /\ outbox'[c] = <<>>
           /\ \A d \in Procs \ {c} : outbox'[d] = outbox[d]
           /\ pc[c] \notin {"idle"} \cup Ended
           /\ UNCHANGED <<signals, stopping, work, signalled, closing, shut, listed>>
<1>1. /\ outbox \in [Procs -> Seq(Answers)] /\ outbox[c] # <<>> /\ Head(outbox[c]) = m
      /\ outbox' = [outbox EXCEPT ![c] = Tail(outbox[c])]
      /\ pc[c] \notin {"idle"} \cup Ended
      /\ UNCHANGED <<signals, stopping, work, signalled, closing, shut, listed>>
  BY DEF Hear, KindInv, processes, destroys, tunnels
<1>2. outbox[c] \in Seq(Answers)
  BY <1>1
<1>3. /\ Tail(outbox[c]) \in Seq(Answers)
      /\ ToSet(Tail(outbox[c])) \subseteq ToSet(outbox[c])
      /\ m \in ToSet(outbox[c]) /\ m \in Answers
      /\ \A x : outbox[c] = <<x>> => m = x /\ Tail(outbox[c]) = <<>>
  BY <1>1, <1>2, TakenFacts
<1>4. /\ outbox' \in [Procs -> Seq(Answers)] /\ outbox'[c] = Tail(outbox[c])
      /\ \A d \in Procs \ {c} : outbox'[d] = outbox[d]
  BY <1>1, <1>3
<1> QED
  BY <1>1, <1>3, <1>4 DEF Out

LEMMA TakeFacts ==
    ASSUME KindInv, NEW c \in Procs, NEW q, Take(c, q)
    PROVE  /\ q \in In(c) /\ q \in Sendable
           /\ inbox' \in [Procs -> Seq(Sendable)]
           /\ ToSet(inbox'[c]) \subseteq In(c)
           /\ \A x : inbox[c] = <<x>> => x = q /\ inbox'[c] = <<>>
           /\ inbox[c] # <<>>
           /\ \A d \in Procs \ {c} : inbox'[d] = inbox[d]
           /\ UNCHANGED <<pc, signals, stopping, created, knows, owed, listed>>
<1>1. /\ inbox \in [Procs -> Seq(Sendable)] /\ inbox[c] # <<>> /\ Head(inbox[c]) = q
      /\ inbox' = [inbox EXCEPT ![c] = Tail(inbox[c])]
      /\ UNCHANGED <<pc, signals, stopping, created, knows, owed, listed>>
  BY DEF Take, KindInv, command
<1>2. inbox[c] \in Seq(Sendable)
  BY <1>1
<1>3. /\ Tail(inbox[c]) \in Seq(Sendable)
      /\ ToSet(Tail(inbox[c])) \subseteq ToSet(inbox[c])
      /\ q \in ToSet(inbox[c]) /\ q \in Sendable
      /\ \A x : inbox[c] = <<x>> => q = x /\ Tail(inbox[c]) = <<>>
  BY <1>1, <1>2, TakenFacts
<1>4. /\ inbox' \in [Procs -> Seq(Sendable)] /\ inbox'[c] = Tail(inbox[c])
      /\ \A d \in Procs \ {c} : inbox'[d] = inbox[d]
  BY <1>1, <1>3
<1> QED
  BY <1>1, <1>3, <1>4 DEF In

LEMMA SendFacts ==
    ASSUME KindInv, NEW c \in Procs, NEW q \in Sendable, Send(c, q)
    PROVE  /\ inbox' \in [Procs -> Seq(Sendable)]
           /\ ToSet(inbox'[c]) = In(c) \cup {q}
           /\ inbox[c] = <<>> => inbox'[c] = <<q>>
           /\ \A d \in Procs \ {c} : inbox'[d] = inbox[d]
<1>1. /\ inbox \in [Procs -> Seq(Sendable)] /\ inbox[c] \in Seq(Sendable)
      /\ inbox' = [inbox EXCEPT ![c] = Append(inbox[c], q)]
  BY DEF Send, KindInv
<1>2. /\ Append(inbox[c], q) \in Seq(Sendable)
      /\ ToSet(Append(inbox[c], q)) = ToSet(inbox[c]) \cup {q}
      /\ inbox[c] = <<>> => Append(inbox[c], q) = <<q>>
  BY <1>1, PutFacts
<1>3. /\ inbox' \in [Procs -> Seq(Sendable)] /\ inbox'[c] = Append(inbox[c], q)
      /\ \A d \in Procs \ {c} : inbox'[d] = inbox[d]
  BY <1>1, <1>2
<1> QED
  BY <1>2, <1>3 DEF In

LEMMA ReplyFacts ==
    ASSUME KindInv, NEW c \in Procs, NEW m \in Answers, Reply(c, m)
    PROVE  /\ outbox' \in [Procs -> Seq(Answers)]
           /\ ToSet(outbox'[c]) \subseteq Out(c) \cup {m}
           /\ pc[c] \in Ended => outbox'[c] = outbox[c]
           /\ pc[c] \notin Ended /\ outbox[c] = <<>> => outbox'[c] = <<m>>
           /\ \A d \in Procs \ {c} : outbox'[d] = outbox[d]
<1>1. /\ outbox \in [Procs -> Seq(Answers)] /\ outbox[c] \in Seq(Answers)
      /\ outbox' = [outbox EXCEPT ![c] = IF pc[c] \in Ended THEN outbox[c] ELSE Append(outbox[c], m)]
  BY DEF Reply, KindInv
<1>2. /\ Append(outbox[c], m) \in Seq(Answers)
      /\ ToSet(Append(outbox[c], m)) = ToSet(outbox[c]) \cup {m}
      /\ outbox[c] = <<>> => Append(outbox[c], m) = <<m>>
  BY <1>1, PutFacts
<1>3. /\ outbox' \in [Procs -> Seq(Answers)]
      /\ outbox'[c] = IF pc[c] \in Ended THEN outbox[c] ELSE Append(outbox[c], m)
      /\ \A d \in Procs \ {c} : outbox'[d] = outbox[d]
  BY <1>1, <1>2
<1> QED
  BY <1>2, <1>3 DEF Out

\* A step at one command: what holds of the others is not disturbed.
LEMMA OthersKeep ==
    ASSUME CommandsInv, NEW c \in Procs, UNCHANGED role, KindInv', ListInv',
           \A d \in Procs \ {c} :
              /\ pc'[d] = pc[d] /\ inbox'[d] = inbox[d] /\ outbox'[d] = outbox[d]
              /\ work'[d] \in {work[d], "stopped"}
              /\ work'[d] # work[d] => work[d] = "serving"
              /\ closing'[d] = closing[d] /\ created'[d] = created[d] /\ knows'[d] = knows[d]
              /\ signals'[d] = signals[d] /\ stopping'[d] = stopping[d]
              /\ \A k \in {"asked", "lazy"} : OwnListed(d, k)' => OwnListed(d, k),
           "destroy" \in In(c)' \/ closing'[c] = "begun" =>
              MayUndo(c)',
           c \in Owners => Phase(c)'
    PROVE  CommandsInv'
<1>1. UndoInv'
  <2> SUFFICES ASSUME NEW d \in Procs, "destroy" \in In(d)' \/ closing'[d] = "begun"
               PROVE  MayUndo(d)'
    BY DEF UndoInv
  <2>1. CASE d = c
    BY <2>1
  <2>2. CASE d # c
    <3>1. "destroy" \in In(d) \/ closing[d] = "begun"
      BY <2>2 DEF In
    <3> QED
      BY <2>2, <3>1 DEF CommandsInv, UndoInv, MayUndo, Kind
  <2> QED
    BY <2>1, <2>2
<1>2. PhaseInv'
  <2> SUFFICES ASSUME NEW d \in Owners, d # c PROVE Phase(d)'
    BY DEF PhaseInv, Owners, CommandsInv
  <2>1. d \in Procs /\ Phase(d) /\ Owners' = Owners
    BY DEF Owners, CommandsInv, PhaseInv
  <2>2. work'[d] = work[d]
    BY <2>1 DEF Phase
  <2>3. /\ pc'[d] = pc[d] /\ inbox'[d] = inbox[d] /\ outbox'[d] = outbox[d]
        /\ closing'[d] = closing[d] /\ created'[d] = created[d] /\ knows'[d] = knows[d]
        /\ OwnListed(d, "asked")' => OwnListed(d, "asked")
        /\ OwnListed(d, "lazy")' => OwnListed(d, "lazy")
        /\ Kind(d)' = Kind(d) /\ role'[d] = role[d] /\ Awaits(d)' = Awaits(d)
        /\ In(d)' = In(d) /\ Out(d)' = Out(d)
    BY <2>1 DEF Kind, In, Out, Awaits
  <2>4. (Settled(d)' <=> Settled(d)) /\ (Clean(d) => Clean(d)') /\ (Unlisted(d) => Unlisted(d)')
    BY <2>2, <2>3 DEF Settled, Clean, Unlisted
  <2>5. /\ Idle(d) => Idle(d)'
        /\ Choosing(d) => Choosing(d)'
        /\ Creating(d) => Creating(d)'
        /\ Holding(d) => Holding(d)'
        /\ AtWork(d) => AtWork(d)'
        /\ Undoing(d) => Undoing(d)'
    BY <2>2, <2>3, <2>4 DEF Idle, Choosing, Creating, Holding, AtWork, Undoing
  <2> QED
    BY <2>1, <2>2, <2>3, <2>4, <2>5 DEF Phase
<1> QED
  BY <1>1, <1>2 DEF CommandsInv

LEMMA CommandsInvInit == Init => CommandsInv
<1> SUFFICES ASSUME Init PROVE CommandsInv
  OBVIOUS
<1>1. KindInv
  BY EmptySeq DEF Init, KindInv, Asking, Ended, Life!Init
<1>2. ListInv
  BY DEF Init, ListInv, Life!Init
<1>3. \A c \in Procs : In(c) = {} /\ Out(c) = {}
  BY SmallQueues DEF Init, In, Out
<1>4. UndoInv
  BY <1>3 DEF Init, UndoInv
<1>5. PhaseInv
  <2> SUFFICES ASSUME NEW c \in Owners PROVE Phase(c)
    BY DEF PhaseInv
  <2>1. c \in Procs
    BY DEF Owners
  <2>2. \A k \in {"asked", "lazy"} : ~OwnListed(c, k)
    BY <2>1, NoneAssumption DEF Init, OwnListed, Life!Init, Tunnels
  <2> QED
    BY <1>3, <2>1, <2>2 DEF Init, Phase, Idle, Unlisted
<1> QED
  BY <1>1, <1>2, <1>4, <1>5 DEF CommandsInv

\* ---- The command

\* What is listed of whom does not change with the lists.
LEMMA SameListed ==
    ASSUME UNCHANGED listed
    PROVE  \A d \in Procs, k \in {"asked", "lazy"} : OwnListed(d, k)' <=> OwnListed(d, k)
BY DEF OwnListed

\* A step of a command that leaves the lists alone, and its server at most
\* something in its inbox.
LEMMA ClientStep ==
    ASSUME CommandsInv, NEW c \in Procs, KindInv',
           UNCHANGED <<role, work, closing, listed>>,
           \A d \in Procs \ {c} :
              /\ pc'[d] = pc[d] /\ inbox'[d] = inbox[d] /\ outbox'[d] = outbox[d]
              /\ created'[d] = created[d] /\ knows'[d] = knows[d]
              /\ signals'[d] = signals[d] /\ stopping'[d] = stopping[d],
           created[c] => created'[c], stopping[c] => stopping'[c],
           "destroy" \in In(c)' => "destroy" \in In(c) \/ MayUndo(c)',
           c \in Owners => Phase(c)'
    PROVE  CommandsInv'
<1>1. ListInv'
  BY DEF CommandsInv, ListInv, Name
<1>2. "destroy" \in In(c)' \/ closing'[c] = "begun" =>
          MayUndo(c)'
  BY DEF CommandsInv, UndoInv, MayUndo, Kind
<1>3. \A d \in Procs, k \in {"asked", "lazy"} : OwnListed(d, k)' => OwnListed(d, k)
  BY SameListed
<1>4. \A d \in Procs \ {c} :
        /\ pc'[d] = pc[d] /\ inbox'[d] = inbox[d] /\ outbox'[d] = outbox[d]
        /\ work'[d] \in {work[d], "stopped"}
        /\ work'[d] # work[d] => work[d] = "serving"
        /\ closing'[d] = closing[d] /\ created'[d] = created[d] /\ knows'[d] = knows[d]
        /\ signals'[d] = signals[d] /\ stopping'[d] = stopping[d]
        /\ \A k \in {"asked", "lazy"} : OwnListed(d, k)' => OwnListed(d, k)
  BY <1>3
<1> QED
  BY <1>1, <1>2, <1>4, OthersKeep

\* The operators of a command's phase depend on nothing else.
LEMMA SameOfOwner ==
    ASSUME NEW c, UNCHANGED <<role, listed>>
    PROVE  /\ Kind(c)' = Kind(c) /\ Name(c)' = Name(c) /\ Owners' = Owners
           /\ Unlisted(c)' <=> Unlisted(c)
           /\ (Awaits(c)' => Awaits(c)) => (Clean(c) => Clean(c)')
           /\ signals'[c] = signals[c] => (Clean(c)' <=> Clean(c)) /\ (Awaits(c)' <=> Awaits(c))
<1>1. Kind(c)' = Kind(c) /\ Name(c)' = Name(c) /\ Owners' = Owners
  BY DEF Kind, Name, Owners
<1>2. \A k : OwnListed(c, k)' <=> OwnListed(c, k)
  BY DEF OwnListed
<1>3. signals'[c] = signals[c] => (Awaits(c)' <=> Awaits(c))
  BY <1>1 DEF Awaits
<1> QED
  BY <1>1, <1>2, <1>3 DEF Unlisted, Clean

LEMMA SameAwaits ==
    ASSUME NEW c, role' = role, signals'[c] = signals[c]
    PROVE  Awaits(c)' = Awaits(c)
BY DEF Awaits, Kind

LEMMA GotoFacts ==
    ASSUME KindInv, NEW c \in Procs, NEW place, Goto(c, place)
    PROVE  /\ pc'[c] = place /\ \A d \in Procs \ {c} : pc'[d] = pc[d]
           /\ place \in {"looking", "running", "holding", "undoing"} \cup Asking \cup Ended =>
                pc' \in [Procs -> {"idle", "looking", "running", "holding", "undoing"}
                                      \cup Asking \cup Ended]
BY DEF Goto, KindInv

LEMMA LaunchKeeps ==
    ASSUME CommandsInv, NEW c \in Procs, Launch(c), UNCHANGED role
    PROVE  CommandsInv'
<1>1. /\ pc[c] = "idle"
      /\ UNCHANGED <<role, signals, stopping, created, knows, owed, outbox, work, signalled, closing, listed>>
  BY DEF Launch, processes, destroys, tunnels
<1>2. PICK q \in {"destroy", "list", "regions", "create", "start"},
           place \in {"undoing", "looking"} \cup Asking :
        /\ Send(c, q) /\ Goto(c, place)
        /\ q = "destroy" => Kind(c) = "destroy"
        /\ \/ c \notin Owners
           \/ q = "regions" /\ place = "choosing"
           \/ q = "create" /\ place = "creating"
  <2>1. CASE Kind(c) = "destroy" /\ Send(c, "destroy") /\ Goto(c, "undoing")
    <3>1. c \notin Owners
      <4>1. role \in Casts
        BY DEF CommandsInv, KindInv
      <4> QED
        BY <2>1, <4>1, CommandsAssumption DEF Owners, Kind
    <3> QED
      BY <2>1, <3>1 DEF Asking
  <2>2. CASE c \in Runs \ Temporary /\ Send(c, "list") /\ Goto(c, "looking")
    BY <2>2 DEF Runs, Temporary, Owners, Kind, Asking
  <2>3. CASE /\ c \in Temporary \/ Kind(c) \in {"create", "start"}
             /\ Send(c, "regions") /\ Goto(c, "choosing")
    BY <2>3 DEF Asking
  <2>4. CASE /\ c \in Temporary \/ Kind(c) \in {"create", "start"}
             /\ Send(c, AskFor(c)) /\ Goto(c, Asks(c))
    <3>1. Kind(c) = "start" => c \notin Owners
      <4>1. role \in Casts
        BY DEF CommandsInv, KindInv
      <4> QED
        BY <4>1, CommandsAssumption DEF Owners, Kind
    <3> QED
      BY <2>4, <3>1 DEF AskFor, Asks, Asking
  <2> QED
    BY <2>1, <2>2, <2>3, <2>4 DEF Launch
<1>3. KindInv /\ q \in Sendable
  BY DEF CommandsInv, Sendable
<1>4. /\ inbox' \in [Procs -> Seq(Sendable)]
      /\ ToSet(inbox'[c]) = In(c) \cup {q}
      /\ inbox[c] = <<>> => inbox'[c] = <<q>>
      /\ \A d \in Procs \ {c} : inbox'[d] = inbox[d]
  BY <1>2, <1>3, SendFacts
<1>5. /\ pc'[c] = place /\ \A d \in Procs \ {c} : pc'[d] = pc[d]
      /\ pc' \in [Procs -> {"idle", "looking", "running", "holding", "undoing"}
                              \cup Asking \cup Ended]
  BY <1>2, <1>3, GotoFacts
<1>6. KindInv'
  BY <1>1, <1>3, <1>4, <1>5 DEF KindInv
<1>7. "destroy" \in In(c)' => "destroy" \in In(c) \/ MayUndo(c)'
  BY <1>1, <1>2, <1>4 DEF In, MayUndo, Kind
<1>8. c \in Owners => Phase(c)'
  <2> SUFFICES ASSUME c \in Owners PROVE Phase(c)'
    OBVIOUS
  <2>1. Phase(c) /\ Idle(c)
    BY <1>1 DEF CommandsInv, PhaseInv, Phase
  <2>2. In(c)' = {q} /\ Out(c)' = {} /\ inbox'[c] = <<q>>
    BY <1>1, <1>4, <2>1, SmallQueues DEF Idle, In, Out
  <2>3. Unlisted(c)' /\ work'[c] = "none" /\ closing'[c] = "none" /\ ~created'[c] /\ ~knows'[c]
        /\ outbox'[c] = <<>>
    BY <1>1, <2>1, SameOfOwner DEF Idle
  <2>4. \/ q = "regions" /\ place = "choosing"
        \/ q = "create" /\ place = "creating"
    BY <1>2
  <2>5. q = "regions" => Choosing(c)'
    BY <2>2, <2>3 DEF Choosing
  <2>6. q = "create" => Creating(c)'
    BY <2>2, <2>3 DEF Creating, Unlisted
  <2> QED
    BY <1>5, <2>2, <2>3, <2>4, <2>5, <2>6 DEF Phase
<1> QED
  BY <1>1, <1>4, <1>5, <1>6, <1>7, <1>8, ClientStep

LEMMA LeaveFacts ==
    ASSUME KindInv, NEW c \in Procs, NEW place \in {"over", "failed"}, Leave(c, place)
    PROVE  /\ inbox' \in [Procs -> Seq(Sendable)]
           /\ pc' \in [Procs -> {"idle", "looking", "running", "holding", "undoing"}
                                   \cup Asking \cup Ended]
           /\ \A d \in Procs \ {c} : pc'[d] = pc[d] /\ inbox'[d] = inbox[d]
           /\ created[c] => pc'[c] = "undoing" /\ In(c)' = In(c) \cup {"destroy"}
           /\ ~created[c] => pc'[c] = place /\ inbox'[c] = inbox[c]
<1>1. CASE created[c]
  <2>1. Send(c, "destroy") /\ Goto(c, "undoing")
    BY <1>1 DEF Leave, Undoes
  <2>2. /\ pc'[c] = "undoing" /\ \A d \in Procs \ {c} : pc'[d] = pc[d]
        /\ pc' \in [Procs -> {"idle", "looking", "running", "holding", "undoing"}
                                \cup Asking \cup Ended]
    BY <2>1, GotoFacts
  <2>3. /\ inbox' \in [Procs -> Seq(Sendable)]
        /\ ToSet(inbox'[c]) = In(c) \cup {"destroy"}
        /\ \A d \in Procs \ {c} : inbox'[d] = inbox[d]
    <3>1. "destroy" \in Sendable
      BY DEF Sendable
    <3> QED
      BY <2>1, <3>1, SendFacts
  <2> QED
    BY <1>1, <2>2, <2>3 DEF In
<1>2. CASE ~created[c]
  <2>1. Goto(c, place) /\ UNCHANGED inbox
    BY <1>2 DEF Leave, Undoes
  <2>2. place \in Ended
    BY DEF Ended
  <2>3. /\ pc'[c] = place /\ \A d \in Procs \ {c} : pc'[d] = pc[d]
        /\ pc' \in [Procs -> {"idle", "looking", "running", "holding", "undoing"}
                                \cup Asking \cup Ended]
    BY <2>1, <2>2, GotoFacts
  <2> QED
    BY <1>2, <2>1, <2>3 DEF KindInv
<1> QED
  BY <1>1, <1>2

\* Whoever leaves with something to undo begins to undo it; whoever leaves with
\* nothing to undo has left nothing.
LEMMA LeaveKeeps ==
    ASSUME CommandsInv, NEW c \in Procs, NEW place \in {"over", "failed"}, Leave(c, place),
           UNCHANGED <<role, stopping, created, knows, owed, work, signalled, closing, listed>>,
           signals' \in [Procs -> Nat], \A d \in Procs \ {c} : signals'[d] = signals[d],
           Awaits(c)' => Awaits(c),
           outbox' \in [Procs -> Seq(Answers)], ToSet(outbox'[c]) \subseteq Out(c),
           \A d \in Procs \ {c} : outbox'[d] = outbox[d],
           c \in Owners /\ created[c] =>
              /\ closing[c] = "none"
              /\ In(c) \cap {"regions", "create"} = {} /\ work[c] \notin {"setup", "held"}
              /\ Settled(c) \/ ~Awaits(c)'
              /\ Out(c) \cap {"regions", "created", "destroyed", "not destroyed"} = {},
           c \in Owners /\ ~created[c] => Settled(c) /\ Clean(c)
    PROVE  CommandsInv'
<1>0. KindInv
  BY DEF CommandsInv
<1>1. /\ inbox' \in [Procs -> Seq(Sendable)]
      /\ pc' \in [Procs -> {"idle", "looking", "running", "holding", "undoing"}
                              \cup Asking \cup Ended]
      /\ \A d \in Procs \ {c} : pc'[d] = pc[d] /\ inbox'[d] = inbox[d]
      /\ created[c] => pc'[c] = "undoing" /\ In(c)' = In(c) \cup {"destroy"}
      /\ ~created[c] => pc'[c] = place /\ inbox'[c] = inbox[c]
  BY <1>0, LeaveFacts
<1>2. KindInv'
  BY <1>0, <1>1 DEF KindInv
<1>3. "destroy" \in In(c)' => "destroy" \in In(c) \/ MayUndo(c)'
  BY <1>1 DEF In, MayUndo
<1>4. c \in Owners => Phase(c)'
  <2> SUFFICES ASSUME c \in Owners PROVE Phase(c)'
    OBVIOUS
  <2>1. Phase(c)
    BY DEF CommandsInv, PhaseInv
  <2>2. Out(c)' \subseteq Out(c)
    BY DEF Out
  <2>3. Clean(c) => Clean(c)'
    BY SameOfOwner
  <2>4. CASE created[c]
    <3>1. Settled(c)'
      BY <1>1, <2>4 DEF Settled
    <3>2. /\ Out(c)' \cap {"regions", "created", "destroyed", "not destroyed"} = {}
          /\ created'[c] /\ closing'[c] = "none"
      BY <2>2, <2>4
    <3>3. Undoing(c)'
      BY <3>1, <3>2 DEF Undoing
    <3> QED
      BY <1>1, <2>1, <2>2, <2>4, <3>3 DEF Phase
  <2>5. CASE ~created[c]
    <3>1. Settled(c)' /\ Clean(c)' /\ In(c)' = In(c)
      BY <1>1, <2>3, <2>5 DEF Settled, In
    <3> QED
      BY <1>1, <2>1, <2>2, <2>5, <3>1 DEF Phase
  <2> QED
    BY <2>4, <2>5
<1> QED
  BY <1>1, <1>2, <1>3, <1>4, ClientStep

LEMMA HearRegionsKeeps ==
    ASSUME CommandsInv, NEW c \in Procs, HearRegions(c), UNCHANGED role
    PROVE  CommandsInv'
<1>0. KindInv
  BY DEF CommandsInv
<1>1. /\ Hear(c, "regions") /\ Send(c, AskFor(c)) /\ Goto(c, Asks(c))
      /\ UNCHANGED <<created, knows, owed>>
  BY DEF HearRegions
<1>2. /\ "regions" \in Out(c)
      /\ outbox' \in [Procs -> Seq(Answers)]
      /\ ToSet(outbox'[c]) \subseteq Out(c)
      /\ \A x : outbox[c] = <<x>> => x = "regions" /\ outbox'[c] = <<>>
      /\ \A d \in Procs \ {c} : outbox'[d] = outbox[d]
      /\ pc[c] \notin {"idle"} \cup Ended
      /\ UNCHANGED <<signals, stopping, work, signalled, closing, shut, listed>>
  BY <1>0, <1>1, HearFacts
<1>3. PICK q \in {"create", "start"} : q = AskFor(c)
  BY DEF AskFor
<1>4. /\ inbox' \in [Procs -> Seq(Sendable)]
      /\ ToSet(inbox'[c]) = In(c) \cup {q}
      /\ inbox[c] = <<>> => inbox'[c] = <<q>>
      /\ \A d \in Procs \ {c} : inbox'[d] = inbox[d]
  <2>1. q \in Sendable
    BY DEF Sendable
  <2> QED
    BY <1>0, <1>1, <1>3, <2>1, SendFacts
<1>5. /\ pc'[c] = Asks(c) /\ \A d \in Procs \ {c} : pc'[d] = pc[d]
      /\ pc' \in [Procs -> {"idle", "looking", "running", "holding", "undoing"}
                              \cup Asking \cup Ended]
  <2>1. Asks(c) \in Asking
    BY DEF Asks, Asking
  <2> QED
    BY <1>0, <1>1, <2>1, GotoFacts
<1>6. KindInv'
  BY <1>0, <1>1, <1>2, <1>4, <1>5 DEF KindInv
<1>7. c \in Owners => Phase(c)'
  <2> SUFFICES ASSUME c \in Owners PROVE Phase(c)'
    OBVIOUS
  <2>1. Phase(c)
    BY DEF CommandsInv, PhaseInv
  <2>2. Kind(c) # "start"
    <3>1. role \in Casts
      BY <1>0 DEF KindInv
    <3> QED
      BY <3>1, CommandsAssumption DEF Owners, Kind
  <2>3. q = "create" /\ pc'[c] = "creating"
    BY <1>3, <1>5, <2>2 DEF AskFor, Asks
  <2>4. pc[c] = "choosing"
    BY <1>0, <1>2, <2>1, SmallQueues DEF Phase, Creating, Holding, AtWork, Undoing, KindInv, Asking, Ended, Out
  <2>5. Choosing(c) /\ outbox[c] # <<>>
    BY <1>2, <2>1, <2>4, SmallQueues DEF Phase, Out
  <2>6. inbox[c] = <<>> /\ outbox'[c] = <<>>
    BY <1>2, <2>5 DEF Choosing
  <2>7. inbox'[c] = <<"create">> /\ In(c)' = {"create"} /\ Out(c)' = {}
    BY <1>4, <2>3, <2>6, SmallQueues DEF In, Out
  <2>8. Unlisted(c)' /\ work'[c] = "none" /\ closing'[c] = "none" /\ ~created'[c] /\ ~knows'[c]
    BY <1>1, <1>2, <2>5, SameOfOwner DEF Choosing
  <2>9. Creating(c)'
    BY <2>6, <2>7, <2>8 DEF Creating, Unlisted
  <2> QED
    BY <2>3, <2>7, <2>8, <2>9 DEF Phase
<1>8. "destroy" \in In(c)' => "destroy" \in In(c) \/ MayUndo(c)'
  BY <1>4 DEF In
<1> QED
  BY <1>1, <1>2, <1>4, <1>5, <1>6, <1>7, <1>8, ClientStep

\* What an owner hears tells where it is.
LEMMA HeardWhere ==
    ASSUME CommandsInv, NEW c \in Owners, NEW m, Hear(c, m)
    PROVE  /\ m \notin {"found", "regions"} /\ pc[c] = "choosing" =>
                m = "error" /\ Settled(c) /\ Clean(c) /\ ~created[c]
           /\ pc[c] = "creating" /\ m # "created" =>
                m = "error" /\ Settled(c) /\ Clean(c) /\ ~created[c]
           /\ m # "found"
           /\ m = "created" => /\ pc[c] = "creating" /\ inbox[c] = <<>> /\ outbox[c] = <<"created">>
                               /\ work[c] = "done" /\ closing[c] = "none" /\ ~knows[c]
           /\ pc[c] # "holding"
           /\ pc[c] \in {"choosing", "creating", "running", "undoing"}
           /\ pc[c] = "running" =>
                AtWork(c) /\ "run" \notin In(c) /\ m \notin {"destroyed", "not destroyed"}
<1>0. KindInv /\ c \in Procs /\ Phase(c)
  BY DEF CommandsInv, PhaseInv, Owners
<1>1. /\ m \in Out(c) /\ outbox[c] # <<>>
      /\ \A x : outbox[c] = <<x>> => x = m
      /\ pc[c] \notin {"idle"} \cup Ended
  BY <1>0, HearFacts
<1>2. m # "found" /\ pc[c] # "holding"
  BY <1>0, <1>1 DEF Phase, Holding
<1>3. pc[c] \in {"choosing", "creating", "running", "undoing"}
  BY <1>0, <1>1, <1>2 DEF KindInv, Phase, Asking, Ended
<1>4. CASE pc[c] = "choosing"
  <2>1. Choosing(c) /\ outbox[c] # <<>>
    BY <1>0, <1>1, <1>4 DEF Phase
  <2>2. inbox[c] = <<>> /\ In(c) = {} /\ m \in {"regions", "error"}
    BY <1>1, <2>1, SmallQueues DEF Choosing, In
  <2>3. Settled(c) /\ Clean(c) /\ ~created[c]
    BY <2>1, <2>2 DEF Choosing, Settled, Clean, Unlisted
  <2> QED
    BY <1>2, <1>4, <2>2, <2>3
<1>5. CASE pc[c] = "creating"
  <2>1. Creating(c)
    BY <1>0, <1>5 DEF Phase
  <2>2. inbox[c] = <<>> /\ In(c) = {} /\ m \in {"created", "error"}
    BY <1>1, <2>1, SmallQueues DEF Creating, In
  <2>3. m = "created" => outbox[c] = <<"created">> /\ work[c] = "done"
    BY <1>1, <2>1, SmallQueues DEF Creating
  <2>4. m = "error" => Settled(c) /\ Clean(c)
    BY <1>1, <2>1, <2>2, SmallQueues DEF Creating, Settled, Clean, Unlisted
  <2> QED
    BY <1>2, <1>5, <2>1, <2>2, <2>3, <2>4 DEF Creating
<1>6. CASE pc[c] = "running"
  <2>1. AtWork(c)
    BY <1>0, <1>6 DEF Phase
  <2> QED
    BY <1>1, <1>2, <1>6, <2>1 DEF AtWork
<1>7. CASE pc[c] = "undoing"
  <2>1. Undoing(c)
    BY <1>0, <1>7 DEF Phase
  <2> QED
    BY <1>1, <1>2, <1>7, <2>1 DEF Undoing
<1> QED
  BY <1>3, <1>4, <1>5, <1>6, <1>7

LEMMA HearCreatedKeeps ==
    ASSUME CommandsInv, NEW c \in Procs, HearCreated(c), UNCHANGED role
    PROVE  CommandsInv'
<1>0. KindInv
  BY DEF CommandsInv
<1>1. /\ Hear(c, "created") /\ created' = [created EXCEPT ![c] = TRUE]
      /\ \/ c \in Runs /\ Send(c, "run") /\ Goto(c, "running")
         \/ c \notin Runs /\ Goto(c, "holding") /\ UNCHANGED inbox
      /\ UNCHANGED <<knows, owed>>
  BY DEF HearCreated
<1>2. /\ outbox' \in [Procs -> Seq(Answers)]
      /\ ToSet(outbox'[c]) \subseteq Out(c)
      /\ \A x : outbox[c] = <<x>> => x = "created" /\ outbox'[c] = <<>>
      /\ \A d \in Procs \ {c} : outbox'[d] = outbox[d]
      /\ UNCHANGED <<signals, stopping, work, signalled, closing, shut, listed>>
  BY <1>0, <1>1, HearFacts
<1>3. /\ pc' \in [Procs -> {"idle", "looking", "running", "holding", "undoing"}
                              \cup Asking \cup Ended]
      /\ \A d \in Procs \ {c} : pc'[d] = pc[d]
      /\ pc'[c] = IF c \in Runs THEN "running" ELSE "holding"
  BY <1>0, <1>1, GotoFacts
<1>4. /\ inbox' \in [Procs -> Seq(Sendable)]
      /\ \A d \in Procs \ {c} : inbox'[d] = inbox[d]
      /\ c \in Runs => ToSet(inbox'[c]) = In(c) \cup {"run"}
      /\ c \in Runs /\ inbox[c] = <<>> => inbox'[c] = <<"run">>
      /\ c \notin Runs => inbox'[c] = inbox[c]
  <2>1. CASE c \in Runs
    <3>1. "run" \in Sendable
      BY DEF Sendable
    <3> QED
      BY <1>0, <1>1, <2>1, <3>1, SendFacts
  <2>2. CASE c \notin Runs
    BY <1>0, <1>1, <2>2 DEF KindInv
  <2> QED
    BY <2>1, <2>2
<1>5. /\ created' \in [Procs -> BOOLEAN] /\ created'[c]
      /\ \A d \in Procs \ {c} : created'[d] = created[d]
  BY <1>0, <1>1 DEF KindInv
<1>6. KindInv'
  BY <1>0, <1>1, <1>2, <1>3, <1>4, <1>5 DEF KindInv
<1>7. c \in Owners => Phase(c)'
  <2> SUFFICES ASSUME c \in Owners PROVE Phase(c)'
    OBVIOUS
  <2>1. Phase(c)
    BY DEF CommandsInv, PhaseInv
  <2>2. /\ inbox[c] = <<>> /\ outbox[c] = <<"created">> /\ work[c] = "done"
        /\ closing[c] = "none" /\ ~knows[c]
    BY <1>1, HeardWhere
  <2>3. outbox'[c] = <<>> /\ Out(c)' = {}
    BY <1>2, <2>2, SmallQueues DEF Out
  <2>4. CASE c \in Runs
    <3>1. role[c].temporary
      BY <2>4 DEF Runs, Owners, Kind
    <3>2. inbox'[c] = <<"run">> /\ In(c)' = {"run"} /\ pc'[c] = "running"
      BY <1>3, <1>4, <2>2, <2>4, SmallQueues DEF In
    <3>3. AtWork(c)'
      BY <1>1, <1>2, <1>5, <2>2, <2>3, <3>1, <3>2 DEF AtWork
    <3> QED
      BY <1>2, <2>2, <2>3, <3>2, <3>3 DEF Phase
  <2>5. CASE c \notin Runs
    <3>1. inbox'[c] = <<>> /\ In(c)' = {} /\ pc'[c] = "holding"
      BY <1>3, <1>4, <2>2, <2>5, SmallQueues DEF In
    <3>2. Holding(c)'
      BY <1>2, <1>5, <2>2, <2>3, <3>1 DEF Holding
    <3> QED
      BY <1>2, <2>2, <2>3, <3>1, <3>2 DEF Phase
  <2> QED
    BY <2>4, <2>5
<1>8. "destroy" \in In(c)' => "destroy" \in In(c) \/ MayUndo(c)'
  BY <1>5 DEF MayUndo
<1> QED
  BY <1>1, <1>2, <1>3, <1>4, <1>5, <1>6, <1>7, <1>8, ClientStep

LEMMA HearFoundKeeps ==
    ASSUME CommandsInv, NEW c \in Procs, HearFound(c), UNCHANGED role
    PROVE  CommandsInv'
<1>0. KindInv
  BY DEF CommandsInv
<1>1. /\ Hear(c, "found") /\ Send(c, "run") /\ Goto(c, "running")
      /\ UNCHANGED <<created, knows, owed>>
  BY DEF HearFound
<1>2. /\ outbox' \in [Procs -> Seq(Answers)]
      /\ \A d \in Procs \ {c} : outbox'[d] = outbox[d]
      /\ UNCHANGED <<signals, stopping, work, signalled, closing, shut, listed>>
  BY <1>0, <1>1, HearFacts
<1>3. /\ pc' \in [Procs -> {"idle", "looking", "running", "holding", "undoing"}
                              \cup Asking \cup Ended]
      /\ \A d \in Procs \ {c} : pc'[d] = pc[d]
  BY <1>0, <1>1, GotoFacts
<1>4. /\ inbox' \in [Procs -> Seq(Sendable)]
      /\ \A d \in Procs \ {c} : inbox'[d] = inbox[d]
      /\ ToSet(inbox'[c]) = In(c) \cup {"run"}
  <2>1. "run" \in Sendable
    BY DEF Sendable
  <2> QED
    BY <1>0, <1>1, <2>1, SendFacts
<1>5. KindInv'
  BY <1>0, <1>1, <1>2, <1>3, <1>4 DEF KindInv
<1>6. c \notin Owners
  BY <1>1, HeardWhere
<1>7. "destroy" \in In(c)' => "destroy" \in In(c) \/ MayUndo(c)'
  BY <1>4 DEF In
<1> QED
  BY <1>1, <1>2, <1>3, <1>4, <1>5, <1>6, <1>7, ClientStep

LEMMA HearStartedKeeps ==
    ASSUME CommandsInv, NEW c \in Procs, HearStarted(c), UNCHANGED role
    PROVE  CommandsInv'
<1>0. KindInv
  BY DEF CommandsInv
<1>1. /\ pc[c] # "undoing" /\ Hear(c, "started")
      /\ knows' = [knows EXCEPT ![c] = TRUE] /\ owed' = [owed EXCEPT ![c] = 0]
      /\ inbox' = [inbox EXCEPT ![c] = inbox[c] \o Kills(c, owed[c])]
      /\ UNCHANGED <<pc, created>>
  BY DEF HearStarted
<1>2. /\ outbox' \in [Procs -> Seq(Answers)]
      /\ ToSet(outbox'[c]) \subseteq Out(c)
      /\ \A d \in Procs \ {c} : outbox'[d] = outbox[d]
      /\ UNCHANGED <<signals, stopping, work, signalled, closing, shut, listed>>
  BY <1>0, <1>1, HearFacts
<1>3. /\ inbox[c] \o Kills(c, owed[c]) \in Seq(Sendable)
      /\ ToSet(inbox[c] \o Kills(c, owed[c])) \subseteq In(c) \cup {"kill"}
  <2>1. inbox[c] \in Seq(Sendable) /\ owed[c] \in Nat
    BY <1>0 DEF KindInv
  <2> QED
    BY <2>1, KillsFacts DEF In
<1>4. /\ inbox' \in [Procs -> Seq(Sendable)]
      /\ In(c)' \subseteq In(c) \cup {"kill"}
      /\ \A d \in Procs \ {c} : inbox'[d] = inbox[d]
  BY <1>0, <1>1, <1>3 DEF KindInv, In
<1>5. /\ knows' \in [Procs -> BOOLEAN] /\ owed' \in [Procs -> Nat]
      /\ \A d \in Procs \ {c} : knows'[d] = knows[d]
  BY <1>0, <1>1 DEF KindInv
<1>6. KindInv'
  BY <1>0, <1>1, <1>2, <1>4, <1>5 DEF KindInv
<1>7. c \in Owners => Phase(c)'
  <2> SUFFICES ASSUME c \in Owners PROVE Phase(c)'
    OBVIOUS
  <2>0. "started" \notin {"found", "regions", "created", "error"}
    OBVIOUS
  <2>1. Phase(c) /\ pc[c] = "running" /\ AtWork(c) /\ "run" \notin In(c)
    <3>1. Phase(c)
      BY DEF CommandsInv, PhaseInv
    <3>2. pc[c] = "running"
      BY <1>1, <2>0, HeardWhere
    <3> QED
      BY <1>1, <3>1, <3>2, HeardWhere
  <2>2. Out(c)' \subseteq Out(c)
    BY <1>2 DEF Out
  <2>3. AtWork(c)'
    BY <1>1, <1>2, <1>4, <2>1, <2>2 DEF AtWork
  <2> QED
    BY <1>1, <1>2, <1>4, <2>1, <2>2, <2>3 DEF Phase
<1>8. "destroy" \in In(c)' => "destroy" \in In(c) \/ MayUndo(c)'
  BY <1>4
<1> QED
  BY <1>1, <1>2, <1>4, <1>5, <1>6, <1>7, <1>8, ClientStep

LEMMA HearIdlyKeeps ==
    ASSUME CommandsInv, NEW c \in Procs, HearIdly(c), UNCHANGED role
    PROVE  CommandsInv'
<1>0. KindInv
  BY DEF CommandsInv
<1>1. PICK m \in {"restarted", "terminated", "started", "error", "destroyed", "not destroyed"} :
        /\ Hear(c, m)
        /\ m \in {"terminated", "started", "error"} => pc[c] = "undoing"
        /\ m \in {"destroyed", "not destroyed"} => pc[c] # "undoing"
  BY DEF HearIdly
<1>2. /\ outbox' \in [Procs -> Seq(Answers)]
      /\ ToSet(outbox'[c]) \subseteq Out(c)
      /\ \A d \in Procs \ {c} : outbox'[d] = outbox[d]
      /\ UNCHANGED <<signals, stopping, work, signalled, closing, shut, listed>>
      /\ UNCHANGED <<pc, created, knows, owed, inbox>>
  BY <1>0, <1>1, HearFacts DEF HearIdly
<1>3. KindInv'
  BY <1>0, <1>2 DEF KindInv
<1>4. c \in Owners => Phase(c)'
  <2> SUFFICES ASSUME c \in Owners PROVE Phase(c)'
    OBVIOUS
  <2>1. Phase(c)
    BY DEF CommandsInv, PhaseInv
  <2>2. m \notin {"found", "regions", "created"}
    OBVIOUS
  <2>3. pc[c] \in {"running", "undoing"}
    BY <1>1, <2>2, HeardWhere
  <2>4. pc[c] = "running" => AtWork(c) /\ "run" \notin In(c)
    BY <1>1, HeardWhere
  <2>5. Out(c)' \subseteq Out(c) /\ In(c)' = In(c)
    BY <1>2 DEF Out, In
  <2>6. pc[c] = "running" => AtWork(c)'
    BY <1>2, <2>4, <2>5 DEF AtWork
  <2>7. pc[c] = "undoing" => Undoing(c)'
    <3>1. Clean(c)' <=> Clean(c)
      BY <1>2, SameOfOwner
    <3>2. Awaits(c)' <=> Awaits(c)
      BY <1>2, SameOfOwner
    <3> QED
      BY <1>2, <2>1, <2>5, <3>1, <3>2 DEF Phase, Undoing, Settled
  <2> QED
    BY <1>2, <2>1, <2>3, <2>5, <2>6, <2>7 DEF Phase
<1>5. "destroy" \in In(c)' => "destroy" \in In(c) \/ MayUndo(c)'
  BY <1>2 DEF In
<1> QED
  BY <1>2, <1>3, <1>4, <1>5, ClientStep

LEMMA HearEndKeeps ==
    ASSUME CommandsInv, NEW c \in Procs, HearEnd(c), UNCHANGED role
    PROVE  CommandsInv'
<1>0. KindInv
  BY DEF CommandsInv
<1>1. PICK m \in Final, place \in {"over", "failed"} :
        /\ pc[c] # "undoing" /\ Hear(c, m) /\ Leave(c, place)
  BY DEF HearEnd, Final
<1>2. /\ outbox' \in [Procs -> Seq(Answers)]
      /\ ToSet(outbox'[c]) \subseteq Out(c)
      /\ \A d \in Procs \ {c} : outbox'[d] = outbox[d]
      /\ m \in Out(c)
      /\ UNCHANGED <<signals, stopping, work, signalled, closing, shut, listed>>
      /\ UNCHANGED <<created, knows, owed>>
  BY <1>0, <1>1, HearFacts DEF HearEnd
<1>3. ASSUME c \in Owners
      PROVE  /\ created[c] =>
                   /\ closing[c] = "none" /\ Settled(c)
                   /\ Out(c) \cap {"regions", "created", "destroyed", "not destroyed"} = {}
             /\ ~created[c] => Settled(c) /\ Clean(c)
  <2>1. m \notin {"found", "regions", "created"}
    BY DEF Final
  <2>2. /\ pc[c] \in {"choosing", "creating", "running"}
        /\ pc[c] \in {"choosing", "creating"} => Settled(c) /\ Clean(c) /\ ~created[c]
        /\ pc[c] = "running" => AtWork(c) /\ "run" \notin In(c)
    BY <1>1, <1>3, <2>1, HeardWhere
  <2>3. CASE pc[c] = "running"
    <3>1. Out(c) \cap Final # {}
      BY <1>2
    <3> QED
      BY <2>2, <2>3, <3>1, SmallQueues DEF AtWork, Settled, Out
  <2> QED
    BY <2>2, <2>3
<1>4. /\ signals' \in [Procs -> Nat] /\ \A d \in Procs \ {c} : signals'[d] = signals[d]
      /\ Awaits(c)' <=> Awaits(c)
  BY <1>0, <1>2, SameOfOwner DEF KindInv
<1>5. c \in Owners /\ created[c] =>
        In(c) \cap {"regions", "create"} = {} /\ work[c] \notin {"setup", "held"}
  BY <1>3 DEF Settled
<1> QED
  BY <1>1, <1>2, <1>3, <1>4, <1>5, LeaveKeeps

LEMMA HearDestroyedKeeps ==
    ASSUME CommandsInv, NEW c \in Procs, HearDestroyed(c), UNCHANGED role
    PROVE  CommandsInv'
<1>0. KindInv
  BY DEF CommandsInv
<1>1. PICK m \in {"destroyed", "not destroyed"} :
        /\ pc[c] = "undoing" /\ Hear(c, m)
        /\ Goto(c, IF m = "destroyed" THEN "over" ELSE "failed")
  BY DEF HearDestroyed
<1>2. /\ outbox' \in [Procs -> Seq(Answers)] /\ m \in Out(c)
      /\ ToSet(outbox'[c]) \subseteq Out(c)
      /\ \A d \in Procs \ {c} : outbox'[d] = outbox[d]
      /\ UNCHANGED <<signals, stopping, work, signalled, closing, shut, listed>>
      /\ UNCHANGED <<created, knows, owed, inbox>>
  BY <1>0, <1>1, HearFacts DEF HearDestroyed
<1>3. /\ pc' \in [Procs -> {"idle", "looking", "running", "holding", "undoing"}
                              \cup Asking \cup Ended]
      /\ \A d \in Procs \ {c} : pc'[d] = pc[d]
      /\ pc'[c] = IF m = "destroyed" THEN "over" ELSE "failed"
  <2>1. PICK place \in {"over", "failed"} : place = IF m = "destroyed" THEN "over" ELSE "failed"
    OBVIOUS
  <2>2. place \in Ended
    BY DEF Ended
  <2> QED
    BY <1>0, <1>1, <2>1, <2>2, GotoFacts
<1>4. KindInv'
  BY <1>0, <1>2, <1>3 DEF KindInv
<1>5. c \in Owners => Phase(c)'
  <2> SUFFICES ASSUME c \in Owners PROVE Phase(c)'
    OBVIOUS
  <2>1. Phase(c) /\ Undoing(c)
    BY <1>1 DEF CommandsInv, PhaseInv, Phase
  <2>2. Settled(c)' /\ (Clean(c)' <=> Clean(c)) /\ In(c)' = In(c) /\ Out(c)' \subseteq Out(c)
    <3>1. (Clean(c)' <=> Clean(c)) /\ (Awaits(c)' <=> Awaits(c))
      BY <1>2, SameOfOwner
    <3> QED
      BY <1>2, <2>1, <3>1 DEF Undoing, Settled, In, Out
  <2>3. role[c].temporary \/ m = "destroyed" => Clean(c)
    BY <1>2, <2>1 DEF Undoing
  <2> QED
    BY <1>2, <1>3, <2>1, <2>2, <2>3 DEF Phase
<1>6. "destroy" \in In(c)' => "destroy" \in In(c) \/ MayUndo(c)'
  BY <1>2 DEF In
<1> QED
  BY <1>2, <1>3, <1>4, <1>5, <1>6, ClientStep

LEMMA ReleasedKeeps ==
    ASSUME CommandsInv, NEW c \in Procs, Released(c), UNCHANGED role
    PROVE  CommandsInv'
<1>0. KindInv
  BY DEF CommandsInv
<1>1. /\ pc[c] = "holding" /\ Leave(c, "over")
      /\ UNCHANGED <<signals, stopping, created, knows, owed, outbox, work, signalled, closing, listed>>
  BY DEF Released, processes, destroys, tunnels
<1>2. c \in Owners =>
        /\ created[c] /\ closing[c] = "none" /\ Settled(c)
        /\ Out(c) \cap {"regions", "created", "destroyed", "not destroyed"} = {}
  BY <1>1, SmallQueues DEF CommandsInv, PhaseInv, Phase, Holding, Settled, Out, In
<1>3. outbox' \in [Procs -> Seq(Answers)] /\ ToSet(outbox'[c]) \subseteq Out(c)
  BY <1>1 DEF CommandsInv, KindInv, Out
<1>4. /\ signals' \in [Procs -> Nat] /\ \A d \in Procs \ {c} : signals'[d] = signals[d]
      /\ Awaits(c)' <=> Awaits(c)
  BY <1>0, <1>1, SameOfOwner DEF KindInv
<1>5. c \in Owners /\ created[c] =>
        In(c) \cap {"regions", "create"} = {} /\ work[c] \notin {"setup", "held"}
  BY <1>2 DEF Settled
<1> QED
  BY <1>1, <1>2, <1>3, <1>4, <1>5, LeaveKeeps

LEMMA ClientKeeps ==
    ASSUME CommandsInv, NEW c \in Procs, Client(c), UNCHANGED role
    PROVE  CommandsInv'
BY HearRegionsKeeps, HearCreatedKeeps, HearFoundKeeps, HearStartedKeeps, HearIdlyKeeps,
   HearEndKeeps, HearDestroyedKeeps, ReleasedKeeps DEF Client

\* ---- Signals

LEMMA SignalKeeps ==
    ASSUME CommandsInv, NEW c \in Procs, UNCHANGED role,
           ForwardSignal(c) \/ StopSignal(c) \/ Interrupt(c) \/ Terminate(c)
    PROVE  CommandsInv'
<1>0. KindInv
  BY DEF CommandsInv
<1>1. /\ UNCHANGED <<created, knows, work, signalled, closing, listed>>
      /\ signals' \in [Procs -> Nat] /\ signals'[c] = signals[c] + 1
      /\ \A d \in Procs \ {c} : signals'[d] = signals[d]
  <2>1. /\ UNCHANGED <<created, knows, work, signalled, closing, listed>>
        /\ signals' = [signals EXCEPT ![c] = signals[c] + 1]
    BY DEF ForwardSignal, StopSignal, Interrupt, Terminate, Signalled, processes, destroys, tunnels
  <2>2. signals \in [Procs -> Nat] /\ signals[c] + 1 \in Nat
    BY <1>0 DEF KindInv
  <2> QED
    BY <2>1, <2>2
<1>10. Kind(c)' = Kind(c) /\ (Awaits(c)' => Awaits(c)) /\ (Kind(c) = "debug" => ~Awaits(c)')
  <2>1. signals[c] \in Nat
    BY <1>0 DEF KindInv
  <2>2. signals'[c] # 0
    BY <1>1, <2>1
  <2>3. Kind(c)' = Kind(c)
    BY DEF Kind
  <2> QED
    BY <2>2, <2>3 DEF Awaits
<1>2. ASSUME c \in Owners PROVE Phase(c)
  BY <1>2 DEF CommandsInv, PhaseInv
<1>3. CASE ForwardSignal(c)
  <2>1. /\ Kind(c) = "run" /\ pc[c] = "running" /\ UNCHANGED <<pc, stopping, outbox>>
        /\ \/ knows[c] /\ Send(c, "kill") /\ UNCHANGED owed
           \/ ~knows[c] /\ owed' = [owed EXCEPT ![c] = owed[c] + 1] /\ UNCHANGED inbox
    BY <1>3 DEF ForwardSignal, Handled
  <2>2. /\ inbox' \in [Procs -> Seq(Sendable)] /\ owed' \in [Procs -> Nat]
        /\ \A d \in Procs \ {c} : inbox'[d] = inbox[d]
        /\ In(c)' \subseteq In(c) \cup {"kill"}
        /\ ~knows[c] => inbox'[c] = inbox[c]
    <3>1. CASE knows[c]
      <4>1. "kill" \in Sendable
        BY DEF Sendable
      <4>2. /\ inbox' \in [Procs -> Seq(Sendable)]
            /\ ToSet(inbox'[c]) = In(c) \cup {"kill"}
            /\ \A d \in Procs \ {c} : inbox'[d] = inbox[d]
        BY <1>0, <2>1, <3>1, <4>1, SendFacts
      <4> QED
        BY <1>0, <2>1, <3>1, <4>2 DEF In, KindInv
    <3>2. CASE ~knows[c]
      <4>1. owed \in [Procs -> Nat] /\ owed[c] + 1 \in Nat
        BY <1>0 DEF KindInv
      <4>2. owed' = [owed EXCEPT ![c] = owed[c] + 1] /\ UNCHANGED inbox
        BY <2>1, <3>2
      <4>3. owed' \in [Procs -> Nat]
        BY <4>1, <4>2
      <4>4. inbox' \in [Procs -> Seq(Sendable)] /\ In(c)' = In(c)
        BY <1>0, <4>2 DEF In, KindInv
      <4> QED
        BY <4>2, <4>3, <4>4
    <3> QED
      BY <3>1, <3>2
  <2>3. KindInv'
    BY <1>0, <1>1, <2>1, <2>2 DEF KindInv
  <2>4. ASSUME c \in Owners PROVE Phase(c)'
    <3>1. AtWork(c)' /\ Out(c)' = Out(c)
      BY <1>1, <1>2, <2>1, <2>2, <2>4 DEF Phase, AtWork, Out
    <3> QED
      BY <1>1, <1>2, <2>1, <2>2, <2>4, <3>1 DEF Phase
  <2>5. "destroy" \in In(c)' => "destroy" \in In(c)
    BY <2>2
  <2> QED
    BY <1>1, <2>1, <2>2, <2>3, <2>4, <2>5, ClientStep
<1>4. CASE StopSignal(c)
  <2>1. /\ Kind(c) # "run" /\ pc[c] \in Asking \cup {"holding"} /\ Kind(c) \in {"create", "start"}
        /\ stopping' = [stopping EXCEPT ![c] = TRUE]
        /\ \/ Kind(c) = "start" /\ Send(c, "destroy")
           \/ UNCHANGED inbox
        /\ UNCHANGED <<pc, owed, outbox>>
    BY <1>4 DEF StopSignal, Handled
  <2>2. /\ inbox' \in [Procs -> Seq(Sendable)]
        /\ \A d \in Procs \ {c} : inbox'[d] = inbox[d]
        /\ Kind(c) # "start" => inbox'[c] = inbox[c]
    <3>1. CASE Kind(c) = "start" /\ Send(c, "destroy")
      <4>1. "destroy" \in Sendable
        BY DEF Sendable
      <4> QED
        BY <1>0, <3>1, <4>1, SendFacts
    <3>2. CASE UNCHANGED inbox
      BY <1>0, <3>2 DEF KindInv
    <3> QED
      BY <2>1, <3>1, <3>2
  <2>3. KindInv'
    <3>1. stopping' \in [Procs -> BOOLEAN]
      BY <1>0, <2>1 DEF KindInv
    <3>2. UNCHANGED <<role, pc, owed, outbox>>
      BY <2>1
    <3> QED
      BY <1>0, <1>1, <2>2, <3>1, <3>2 DEF KindInv
  <2>4. ASSUME c \in Owners PROVE Phase(c)'
    <3>1. Kind(c) # "start"
      <4>1. role \in Casts
        BY <1>0 DEF KindInv
      <4> QED
        BY <2>4, <4>1, CommandsAssumption DEF Owners, Kind
    <3>2. /\ UNCHANGED <<pc, outbox>> /\ inbox'[c] = inbox[c] /\ In(c)' = In(c) /\ Out(c)' = Out(c)
          /\ (Unlisted(c)' <=> Unlisted(c))
          /\ \A k : OwnListed(c, k)' <=> OwnListed(c, k)
      BY <1>1, <2>1, <2>2, <3>1, SameOfOwner DEF In, Out, OwnListed
    <3>3. /\ pc[c] \in {"choosing", "creating", "holding"}
      BY <1>2, <2>1, <2>4 DEF Phase, Asking
    <3>4. /\ pc[c] = "choosing" => Choosing(c)'
          /\ pc[c] = "creating" => Creating(c)'
          /\ pc[c] = "holding" => Holding(c)'
      BY <1>1, <1>2, <2>4, <3>2 DEF Phase, Choosing, Creating, Holding
    <3> QED
      BY <1>1, <1>2, <2>4, <3>2, <3>3, <3>4 DEF Phase
  <2>5. "destroy" \in In(c)' => "destroy" \in In(c) \/ MayUndo(c)'
    <3>1. stopping'[c] = TRUE /\ \A d \in Procs \ {c} : stopping'[d] = stopping[d]
      BY <1>0, <2>1 DEF KindInv
    <3> QED
      BY <1>10, <2>2, <3>1 DEF In, MayUndo
  <2>6. stopping'[c] /\ \A d \in Procs \ {c} : stopping'[d] = stopping[d]
    BY <1>0, <2>1 DEF KindInv
  <2> QED
    BY <1>1, <2>1, <2>2, <2>3, <2>4, <2>5, <2>6, ClientStep
<1>5. CASE Interrupt(c)
  <2>1. /\ Kind(c) = "debug" /\ pc[c] = "running" /\ Leave(c, "failed")
        /\ UNCHANGED <<stopping, owed, outbox>>
    BY <1>5 DEF Interrupt
  <2>2. c \in Owners =>
          /\ created[c] /\ closing[c] = "none"
          /\ In(c) \cap {"regions", "create"} = {} /\ work[c] \notin {"setup", "held"}
          /\ Out(c) \cap {"regions", "created", "destroyed", "not destroyed"} = {}
    BY <1>2, <2>1 DEF Phase, AtWork
  <2>3. outbox' \in [Procs -> Seq(Answers)] /\ ToSet(outbox'[c]) \subseteq Out(c)
    BY <1>0, <2>1 DEF KindInv, Out
  <2> QED
    BY <1>1, <1>10, <2>1, <2>2, <2>3, LeaveKeeps
<1>6. CASE Terminate(c)
  <2>1. /\ Goto(c, "gone") /\ outbox' = [outbox EXCEPT ![c] = <<>>]
        /\ UNCHANGED <<stopping, owed, inbox>>
    BY <1>6 DEF Terminate
  <2>2. /\ outbox' \in [Procs -> Seq(Answers)] /\ outbox'[c] = <<>>
        /\ \A d \in Procs \ {c} : outbox'[d] = outbox[d]
    BY <1>0, <2>1, EmptySeq DEF KindInv
  <2>3. /\ pc' \in [Procs -> {"idle", "looking", "running", "holding", "undoing"}
                                \cup Asking \cup Ended]
        /\ pc'[c] = "gone" /\ \A d \in Procs \ {c} : pc'[d] = pc[d]
    <3>1. "gone" \in Ended
      BY DEF Ended
    <3> QED
      BY <1>0, <2>1, <3>1, GotoFacts
  <2>4. KindInv'
    BY <1>0, <1>1, <2>1, <2>2, <2>3 DEF KindInv
  <2>5. ASSUME c \in Owners PROVE Phase(c)'
    BY <1>1, <1>2, <2>1, <2>2, <2>3, <2>5, SmallQueues DEF Phase, In, Out
  <2> QED
    BY <1>1, <2>1, <2>2, <2>3, <2>4, <2>5, ClientStep DEF In
<1> QED
  BY <1>3, <1>4, <1>5, <1>6


\* ---- The server

\* A step of the server for a command that leaves the lists alone.
LEMMA ServerStep ==
    ASSUME CommandsInv, NEW c \in Procs, KindInv',
           UNCHANGED <<role, pc, signals, stopping, created, knows, listed>>,
           \A d \in Procs \ {c} :
              /\ inbox'[d] = inbox[d] /\ outbox'[d] = outbox[d]
              /\ work'[d] = work[d] /\ closing'[d] = closing[d],
           In(c)' \subseteq In(c),
           closing'[c] = "begun" => closing[c] = "begun" \/ "destroy" \in In(c),
           c \in Owners => Phase(c)'
    PROVE  CommandsInv'
<1>1. ListInv'
  BY DEF CommandsInv, ListInv, Name
<1>2. "destroy" \in In(c)' \/ closing'[c] = "begun" =>
          MayUndo(c)'
  BY DEF CommandsInv, UndoInv, MayUndo, Kind
<1>3. \A d \in Procs, k \in {"asked", "lazy"} : OwnListed(d, k)' => OwnListed(d, k)
  BY SameListed
<1>4. \A d \in Procs \ {c} :
        /\ pc'[d] = pc[d] /\ inbox'[d] = inbox[d] /\ outbox'[d] = outbox[d]
        /\ work'[d] \in {work[d], "stopped"}
        /\ work'[d] # work[d] => work[d] = "serving"
        /\ closing'[d] = closing[d] /\ created'[d] = created[d] /\ knows'[d] = knows[d]
        /\ signals'[d] = signals[d] /\ stopping'[d] = stopping[d]
        /\ \A k \in {"asked", "lazy"} : OwnListed(d, k)' => OwnListed(d, k)
  BY <1>3
<1> QED
  BY <1>1, <1>2, <1>4, OthersKeep

WorkStages == {"none", "setup", "held", "lazy", "lazy_held",
               "spawning", "waiting", "serving", "stopped", "done"}

LEMMA WorkFacts ==
    ASSUME KindInv, NEW c \in Procs, NEW stage \in WorkStages, Work(c, stage)
    PROVE  /\ work' \in [Procs -> {"none", "setup", "held", "lazy", "lazy_held",
                           "spawning", "waiting", "serving", "stopped", "done"}]
           /\ work'[c] = stage
           /\ \A d \in Procs \ {c} : work'[d] = work[d]
<1>1. /\ work \in [Procs -> WorkStages] /\ work' = [work EXCEPT ![c] = stage]
  BY DEF KindInv, Work, WorkStages
<1> QED
  BY <1>1 DEF WorkStages

\* What a command of the owners has in its inbox tells where it is.
LEMMA TakenWhere ==
    ASSUME CommandsInv, NEW c \in Owners, NEW q \in In(c)
    PROVE  /\ q \notin {"list", "start"}
           /\ pc[c] # "idle" /\ pc[c] # "holding"
           /\ q = "regions" =>
                \/ pc[c] = "choosing" /\ inbox[c] = <<"regions">> /\ outbox[c] = <<>>
                \/ pc[c] = "gone"
           /\ q = "create" =>
                \/ pc[c] = "creating" /\ inbox[c] = <<"create">> /\ outbox[c] = <<>> /\ work[c] = "none"
                \/ pc[c] = "gone"
           /\ q = "run" =>
                \/ /\ pc[c] = "running" /\ inbox[c] = <<"run">> /\ outbox[c] = <<>>
                   /\ work[c] = "done" /\ ~knows[c]
                \/ pc[c] \in {"undoing"} \cup Ended
           /\ q = "kill" => pc[c] \in {"running", "undoing"} \cup Ended
           /\ q = "destroy" => pc[c] \in {"undoing"} \cup Ended
<1>1. c \in Procs /\ Phase(c) /\ KindInv
  BY DEF Owners, CommandsInv, PhaseInv
<1>2. q \notin {"list", "start"}
  BY <1>1 DEF Phase
<1>3. pc[c] # "idle" /\ pc[c] # "holding"
  BY <1>1, SmallQueues DEF Phase, Idle, Holding, In
<1>4. pc[c] \in {"choosing", "creating", "running", "undoing"} \cup Ended
  BY <1>1, <1>3 DEF KindInv, Phase, Asking, Ended
<1>5. CASE pc[c] = "choosing"
  <2>1. Choosing(c)
    BY <1>1, <1>5 DEF Phase
  <2>2. inbox[c] = <<"regions">> /\ outbox[c] = <<>>
    BY <2>1, SmallQueues DEF Choosing, In
  <2>3. q = "regions"
    BY <2>2, SmallQueues DEF In
  <2> QED
    BY <1>5, <2>2, <2>3
<1>6. CASE pc[c] = "creating"
  <2>1. Creating(c)
    BY <1>1, <1>6 DEF Phase
  <2>2. inbox[c] = <<"create">> /\ outbox[c] = <<>> /\ work[c] = "none" /\ q = "create"
    BY <2>1, SmallQueues DEF Creating, In
  <2> QED
    BY <1>6, <2>2
<1>7. CASE pc[c] = "running"
  <2>1. AtWork(c)
    BY <1>1, <1>7 DEF Phase
  <2> QED
    BY <1>2, <1>7, <2>1 DEF AtWork
<1>8. CASE pc[c] = "undoing"
  <2>1. Undoing(c) /\ Settled(c)
    BY <1>1, <1>8 DEF Phase, Undoing
  <2> QED
    BY <1>2, <1>8, <2>1 DEF Settled
<1>9. CASE pc[c] \in Ended
  <2>1. pc[c] \in {"over", "failed"} => Settled(c)
    BY <1>1 DEF Phase
  <2> QED
    BY <1>2, <1>3, <1>9, <2>1 DEF Settled, Ended
<1> QED
  BY <1>4, <1>5, <1>6, <1>7, <1>8, <1>9


\* A step of the handler of a run: it changes its stage, puts at most an answer
\* behind those under way, and ends with the one that ends the run.
LEMMA RunHandlerPhase ==
    ASSUME CommandsInv, NEW c \in Owners,
           work[c] \in {"lazy", "lazy_held", "spawning", "waiting"},
           work'[c] \in {"lazy_held", "spawning", "waiting", "done"},
           work'[c] = "lazy_held" => work[c] = "lazy",
           UNCHANGED role,
           signals'[c] = signals[c], pc'[c] = pc[c], inbox'[c] = inbox[c], closing'[c] = closing[c],
           created'[c] = created[c], knows'[c] = knows[c],
           NEW m \in {"started", "restarted"} \cup Final,
           Out(c)' \subseteq Out(c) \cup {m},
           m \in Final /\ m \in Out(c)' => work'[c] = "done",
           OwnListed(c, "asked")' => OwnListed(c, "asked"),
           OwnListed(c, "lazy")' => OwnListed(c, "lazy") \/ work[c] = "lazy_held"
    PROVE  Phase(c)'
<1>1. c \in Procs /\ Phase(c) /\ KindInv
  BY DEF Owners, CommandsInv, PhaseInv
<1>2. In(c)' = In(c) /\ Kind(c)' = Kind(c)
  BY DEF In, Kind
<1>3. m \notin {"regions", "found", "created", "destroyed", "not destroyed"}
  BY DEF Final
<1>4. pc[c] \notin {"idle", "choosing", "creating", "holding", "looking", "starting"}
  BY <1>1 DEF Phase, Idle, Choosing, Creating, Holding
<1>5. CASE pc[c] = "running"
  <2>1. AtWork(c)
    BY <1>1, <1>5 DEF Phase
  <2>2. "run" \notin In(c) /\ Out(c) \cap Final = {}
    BY <2>1 DEF AtWork
  <2>3. Out(c)' \cap Final # {} => work'[c] = "done"
    BY <2>2
  <2>4. AtWork(c)'
    BY <1>2, <1>3, <2>1, <2>2, <2>3 DEF AtWork
  <2> QED
    BY <1>1, <1>2, <1>3, <1>5, <2>4 DEF Phase
<1>6. ASSUME pc[c] \in {"undoing", "over", "failed"}
      PROVE  Settled(c)' /\ (Clean(c) => Clean(c)')
  <2>1. Settled(c)
    BY <1>1, <1>6 DEF Phase, Undoing
  <2>2. Awaits(c) => work[c] \notin {"lazy", "lazy_held"}
    BY <2>1 DEF Settled
  <2>3. Awaits(c)' = Awaits(c)
    BY SameAwaits
  <2> QED
    BY <1>2, <2>1, <2>2, <2>3 DEF Settled, Clean
<1>7. CASE pc[c] = "undoing"
  <2>1. Undoing(c)'
    BY <1>1, <1>3, <1>6, <1>7 DEF Phase, Undoing
  <2> QED
    BY <1>1, <1>2, <1>3, <1>7, <2>1 DEF Phase
<1>8. CASE pc[c] \in Ended
  BY <1>1, <1>2, <1>3, <1>6, <1>8 DEF Phase, Ended
<1> QED
  BY <1>1, <1>4, <1>5, <1>7, <1>8 DEF KindInv, Asking

LEMMA ListRegionsKeeps ==
    ASSUME CommandsInv, NEW c \in Procs, ListRegions(c), UNCHANGED role
    PROVE  CommandsInv'
<1>0. KindInv
  BY DEF CommandsInv
<1>1. PICK m \in {"regions", "error"} :
        /\ Take(c, "regions") /\ Reply(c, m) /\ UNCHANGED <<work, signalled, closing>>
  BY DEF ListRegions, processes, destroys
<1>2. /\ "regions" \in In(c)
      /\ inbox' \in [Procs -> Seq(Sendable)]
      /\ ToSet(inbox'[c]) \subseteq In(c)
      /\ \A x : inbox[c] = <<x>> => inbox'[c] = <<>>
      /\ \A d \in Procs \ {c} : inbox'[d] = inbox[d]
      /\ UNCHANGED <<pc, signals, stopping, created, knows, owed, listed>>
  BY <1>0, <1>1, TakeFacts
<1>3. m \in Answers
  BY DEF Answers
<1>4. /\ outbox' \in [Procs -> Seq(Answers)]
      /\ pc[c] \in Ended => outbox'[c] = outbox[c]
      /\ pc[c] \notin Ended /\ outbox[c] = <<>> => outbox'[c] = <<m>>
      /\ \A d \in Procs \ {c} : outbox'[d] = outbox[d]
  BY <1>0, <1>1, <1>3, ReplyFacts
<1>5. KindInv'
  BY <1>0, <1>1, <1>2, <1>4 DEF KindInv
<1>6. c \in Owners => Phase(c)'
  <2> SUFFICES ASSUME c \in Owners PROVE Phase(c)'
    OBVIOUS
  <2>1. Phase(c)
    BY DEF CommandsInv, PhaseInv
  <2>2. \/ pc[c] = "choosing" /\ inbox[c] = <<"regions">> /\ outbox[c] = <<>>
        \/ pc[c] = "gone"
    BY <1>2, TakenWhere
  <2>3. CASE pc[c] = "choosing" /\ inbox[c] = <<"regions">> /\ outbox[c] = <<>>
    <3>1. pc[c] \notin Ended
      BY <2>3 DEF Ended
    <3>2. inbox'[c] = <<>> /\ outbox'[c] = <<m>> /\ In(c)' = {} /\ Out(c)' = {m}
      BY <1>2, <1>4, <2>3, <3>1, SmallQueues DEF In, Out
    <3>3. Choosing(c) /\ (Unlisted(c)' <=> Unlisted(c))
      BY <1>2, <2>1, <2>3, SameOfOwner DEF Phase
    <3>4. Choosing(c)'
      BY <1>1, <1>2, <3>2, <3>3 DEF Choosing
    <3> QED
      BY <1>1, <1>2, <2>1, <2>3, <3>2, <3>4 DEF Phase
  <2>4. CASE pc[c] = "gone"
    <3>1. In(c)' \subseteq In(c) /\ Out(c)' = Out(c)
      BY <1>2, <1>4, <2>4 DEF In, Out, Ended
    <3> QED
      BY <1>1, <1>2, <2>1, <2>4, <3>1 DEF Phase
  <2> QED
    BY <2>2, <2>3, <2>4
<1>7. In(c)' \subseteq In(c)
  BY <1>2 DEF In
<1> QED
  BY <1>1, <1>2, <1>4, <1>5, <1>6, <1>7, ServerStep


LEMMA ListTunnelsKeeps ==
    ASSUME CommandsInv, NEW c \in Procs, ListTunnels(c), UNCHANGED role
    PROVE  CommandsInv'
<1>0. KindInv
  BY DEF CommandsInv
<1>1. PICK m \in {"found", "error"} :
        /\ Take(c, "list") /\ Reply(c, m) /\ UNCHANGED <<work, signalled, closing>>
  BY DEF ListTunnels, processes, destroys
<1>2. /\ "list" \in In(c)
      /\ inbox' \in [Procs -> Seq(Sendable)]
      /\ ToSet(inbox'[c]) \subseteq In(c)
      /\ \A d \in Procs \ {c} : inbox'[d] = inbox[d]
      /\ UNCHANGED <<pc, signals, stopping, created, knows, owed, listed>>
  BY <1>0, <1>1, TakeFacts
<1>3. m \in Answers
  BY DEF Answers
<1>4. /\ outbox' \in [Procs -> Seq(Answers)]
      /\ \A d \in Procs \ {c} : outbox'[d] = outbox[d]
  BY <1>0, <1>1, <1>3, ReplyFacts
<1>5. KindInv'
  BY <1>0, <1>1, <1>2, <1>4 DEF KindInv
<1>6. c \notin Owners
  BY <1>2, TakenWhere
<1>7. In(c)' \subseteq In(c)
  BY <1>2 DEF In
<1> QED
  BY <1>1, <1>2, <1>4, <1>5, <1>6, <1>7, ServerStep

LEMMA SetUpTunnelKeeps ==
    ASSUME CommandsInv, NEW c \in Procs, SetUpTunnel(c), UNCHANGED role
    PROVE  CommandsInv'
<1>0. KindInv
  BY DEF CommandsInv
<1>1. PICK q \in {"create", "start"} :
        /\ Take(c, q) /\ UNCHANGED <<signalled, closing>>
        /\ \/ Reply(c, "error") /\ UNCHANGED work
           \/ Work(c, "setup") /\ UNCHANGED outbox
  BY DEF SetUpTunnel, processes, destroys
<1>2. /\ q \in In(c)
      /\ inbox' \in [Procs -> Seq(Sendable)]
      /\ ToSet(inbox'[c]) \subseteq In(c)
      /\ \A x : inbox[c] = <<x>> => inbox'[c] = <<>>
      /\ \A d \in Procs \ {c} : inbox'[d] = inbox[d]
      /\ UNCHANGED <<pc, signals, stopping, created, knows, owed, listed>>
  BY <1>0, <1>1, TakeFacts
<1>3. /\ outbox' \in [Procs -> Seq(Answers)]
      /\ pc[c] \in Ended => outbox'[c] = outbox[c]
      /\ \A d \in Procs \ {c} : outbox'[d] = outbox[d] /\ work'[d] = work[d]
      /\ work' \in [Procs -> {"none", "setup", "held", "lazy", "lazy_held",
                      "spawning", "waiting", "serving", "stopped", "done"}]
      /\ \/ work'[c] = "setup" /\ outbox'[c] = outbox[c]
         \/ /\ work'[c] = work[c]
            /\ pc[c] \notin Ended /\ outbox[c] = <<>> => outbox'[c] = <<"error">>
  <2>1. CASE Reply(c, "error") /\ UNCHANGED work
    <3>1. "error" \in Answers
      BY DEF Answers
    <3>2. /\ outbox' \in [Procs -> Seq(Answers)]
          /\ pc[c] \in Ended => outbox'[c] = outbox[c]
          /\ pc[c] \notin Ended /\ outbox[c] = <<>> => outbox'[c] = <<"error">>
          /\ \A d \in Procs \ {c} : outbox'[d] = outbox[d]
      BY <1>0, <2>1, <3>1, ReplyFacts
    <3> QED
      BY <1>0, <2>1, <3>2 DEF KindInv
  <2>2. CASE Work(c, "setup") /\ UNCHANGED outbox
    <3>1. "setup" \in WorkStages
      BY DEF WorkStages
    <3>2. /\ work' \in [Procs -> {"none", "setup", "held", "lazy", "lazy_held",
                           "spawning", "waiting", "serving", "stopped", "done"}]
          /\ work'[c] = "setup" /\ \A d \in Procs \ {c} : work'[d] = work[d]
      BY <1>0, <2>2, <3>1, WorkFacts
    <3> QED
      BY <1>0, <2>2, <3>2 DEF KindInv
  <2> QED
    BY <1>1, <2>1, <2>2
<1>4. KindInv'
  BY <1>0, <1>1, <1>2, <1>3 DEF KindInv
<1>5. c \in Owners => Phase(c)'
  <2> SUFFICES ASSUME c \in Owners PROVE Phase(c)'
    OBVIOUS
  <2>1. Phase(c)
    BY DEF CommandsInv, PhaseInv
  <2>2. /\ q = "create"
        /\ \/ pc[c] = "creating" /\ inbox[c] = <<"create">> /\ outbox[c] = <<>> /\ work[c] = "none"
           \/ pc[c] = "gone"
    BY <1>2, TakenWhere
  <2>3. CASE pc[c] = "creating" /\ inbox[c] = <<"create">> /\ outbox[c] = <<>> /\ work[c] = "none"
    <3>1. pc[c] \notin Ended
      BY <2>3 DEF Ended
    <3>2. /\ inbox'[c] = <<>> /\ In(c)' = {}
          /\ \/ work'[c] = "setup" /\ outbox'[c] = <<>>
             \/ work'[c] = "none" /\ outbox'[c] = <<"error">>
      BY <1>2, <1>3, <2>3, <3>1, SmallQueues DEF In
    <3>3. Creating(c) /\ Unlisted(c)
      BY <2>1, <2>3, SmallQueues DEF Phase, Creating
    <3>4. Unlisted(c)'
      BY <1>2, <3>3, SameOfOwner
    <3>5. Creating(c)'
      BY <1>1, <1>2, <3>2, <3>3, <3>4 DEF Creating, Unlisted
    <3>6. Out(c)' = {} \/ Out(c)' = {"error"}
      BY <3>2, SmallQueues DEF Out
    <3>7. "found" \notin Out(c)' /\ work'[c] \notin {"serving", "stopped"}
      BY <3>2, <3>6
    <3> QED
      BY <1>2, <2>3, <3>2, <3>5, <3>7 DEF Phase
  <2>4. CASE pc[c] = "gone"
    <3>1. In(c)' \subseteq In(c) /\ Out(c)' = Out(c) /\ work'[c] \in {"setup", work[c]}
      BY <1>2, <1>3, <2>4 DEF In, Out, Ended
    <3> QED
      BY <1>2, <2>1, <2>4, <3>1 DEF Phase
  <2> QED
    BY <2>2, <2>3, <2>4
<1>6. In(c)' \subseteq In(c)
  BY <1>2 DEF In
<1> QED
  BY <1>1, <1>2, <1>3, <1>4, <1>5, <1>6, ServerStep

LEMMA RunProcessKeeps ==
    ASSUME CommandsInv, NEW c \in Procs, RunProcess(c), UNCHANGED role
    PROVE  CommandsInv'
<1>0. KindInv
  BY DEF CommandsInv
<1>1. PICK stage \in {"none", "lazy", "spawning"} :
        /\ Take(c, "run") /\ UNCHANGED <<signalled, closing>>
        /\ \/ stage = "none" /\ Reply(c, "terminated") /\ UNCHANGED work
           \/ stage # "none" /\ Work(c, stage) /\ UNCHANGED outbox
  BY DEF RunProcess, processes, destroys
<1>2. /\ "run" \in In(c)
      /\ inbox' \in [Procs -> Seq(Sendable)]
      /\ ToSet(inbox'[c]) \subseteq In(c)
      /\ \A x : inbox[c] = <<x>> => inbox'[c] = <<>>
      /\ \A d \in Procs \ {c} : inbox'[d] = inbox[d]
      /\ UNCHANGED <<pc, signals, stopping, created, knows, owed, listed>>
  BY <1>0, <1>1, TakeFacts
<1>3. /\ outbox' \in [Procs -> Seq(Answers)]
      /\ ToSet(outbox'[c]) \subseteq Out(c) \cup {"terminated"}
      /\ \A d \in Procs \ {c} : outbox'[d] = outbox[d] /\ work'[d] = work[d]
      /\ work' \in [Procs -> {"none", "setup", "held", "lazy", "lazy_held",
                      "spawning", "waiting", "serving", "stopped", "done"}]
      /\ \/ work'[c] = work[c]
         \/ work'[c] \in {"lazy", "spawning"} /\ outbox'[c] = outbox[c]
  <2>1. CASE Reply(c, "terminated") /\ UNCHANGED work
    <3>1. "terminated" \in Answers
      BY DEF Answers
    <3>2. /\ outbox' \in [Procs -> Seq(Answers)]
          /\ ToSet(outbox'[c]) \subseteq Out(c) \cup {"terminated"}
          /\ \A d \in Procs \ {c} : outbox'[d] = outbox[d]
      BY <1>0, <2>1, <3>1, ReplyFacts
    <3>3. /\ work' \in [Procs -> {"none", "setup", "held", "lazy", "lazy_held",
                           "spawning", "waiting", "serving", "stopped", "done"}]
          /\ UNCHANGED work
      BY <1>0, <2>1 DEF KindInv
    <3> QED
      BY <3>2, <3>3
  <2>2. CASE stage # "none" /\ Work(c, stage) /\ UNCHANGED outbox
    <3>1. stage \in WorkStages
      BY DEF WorkStages
    <3>2. /\ work' \in [Procs -> {"none", "setup", "held", "lazy", "lazy_held",
                           "spawning", "waiting", "serving", "stopped", "done"}]
          /\ work'[c] = stage /\ \A d \in Procs \ {c} : work'[d] = work[d]
      BY <1>0, <2>2, <3>1, WorkFacts
    <3> QED
      BY <1>0, <2>2, <3>2 DEF KindInv, Out
  <2> QED
    BY <1>1, <2>1, <2>2
<1>4. KindInv'
  BY <1>0, <1>1, <1>2, <1>3 DEF KindInv
<1>5. c \in Owners => Phase(c)'
  <2> SUFFICES ASSUME c \in Owners PROVE Phase(c)'
    OBVIOUS
  <2>1. Phase(c)
    BY DEF CommandsInv, PhaseInv
  <2>2. \/ /\ pc[c] = "running" /\ inbox[c] = <<"run">> /\ outbox[c] = <<>>
           /\ work[c] = "done" /\ ~knows[c]
        \/ pc[c] \in {"undoing"} \cup Ended
    BY <1>2, TakenWhere
  <2>3. /\ In(c)' \subseteq In(c) /\ Out(c)' \subseteq Out(c) \cup {"terminated"}
        /\ Kind(c)' = Kind(c) /\ (Clean(c)' <=> Clean(c)) /\ (Awaits(c)' <=> Awaits(c))
    BY <1>2, <1>3, SameOfOwner DEF In, Out
  <2>4. CASE /\ pc[c] = "running" /\ inbox[c] = <<"run">> /\ outbox[c] = <<>>
             /\ work[c] = "done" /\ ~knows[c]
    <3>1. AtWork(c)
      BY <2>1, <2>4 DEF Phase
    <3>2. In(c)' = {}
      BY <1>2, <2>4, SmallQueues DEF In
    <3>3. Out(c)' \cap Final # {} => work'[c] = "done"
      BY <1>3, <2>4, SmallQueues DEF Out
    <3>4. AtWork(c)'
      BY <1>1, <1>2, <1>3, <2>3, <2>4, <3>1, <3>2, <3>3 DEF AtWork
    <3> QED
      BY <1>2, <1>3, <2>1, <2>3, <2>4, <3>4 DEF Phase
  <2>5. CASE pc[c] \in {"undoing"} \cup Ended
    <3>1. ASSUME Settled(c) PROVE Settled(c)'
      <4>1. ~Awaits(c)
        BY <1>2, <3>1 DEF Settled
      <4> QED
        BY <1>3, <2>3, <3>1, <4>1 DEF Settled
    <3>2. Undoing(c) => Undoing(c)'
      BY <1>1, <1>2, <2>3, <3>1 DEF Undoing
    <3> QED
      BY <1>2, <1>3, <2>1, <2>3, <2>5, <3>1, <3>2 DEF Phase, Ended
  <2> QED
    BY <2>2, <2>4, <2>5
<1>6. In(c)' \subseteq In(c)
  BY <1>2 DEF In
<1> QED
  BY <1>1, <1>2, <1>3, <1>4, <1>5, <1>6, ServerStep


LEMMA KillProcessKeeps ==
    ASSUME CommandsInv, NEW c \in Procs, KillProcess(c), UNCHANGED role
    PROVE  CommandsInv'
<1>0. KindInv
  BY DEF CommandsInv
<1>1. /\ Take(c, "kill")
      /\ signalled' = [signalled EXCEPT ![c] = signalled[c] \/ proc[c] = "first"]
      /\ UNCHANGED <<outbox, work, closing>>
  BY DEF KillProcess, destroys
<1>2. /\ "kill" \in In(c)
      /\ inbox' \in [Procs -> Seq(Sendable)]
      /\ ToSet(inbox'[c]) \subseteq In(c)
      /\ \A x : inbox[c] = <<x>> => x = "kill"
      /\ \A d \in Procs \ {c} : inbox'[d] = inbox[d]
      /\ UNCHANGED <<pc, signals, stopping, created, knows, owed, listed>>
  BY <1>0, <1>1, TakeFacts
<1>3. KindInv'
  <2>1. signalled' \in [Procs -> BOOLEAN]
    <3>1. signalled \in [Procs -> BOOLEAN]
      BY <1>0 DEF KindInv
    <3>2. (signalled[c] \/ proc[c] = "first") \in BOOLEAN
      OBVIOUS
    <3> QED
      BY <1>1, <3>1, <3>2
  <2> QED
    BY <1>0, <1>1, <1>2, <2>1 DEF KindInv
<1>4. c \in Owners => Phase(c)'
  <2> SUFFICES ASSUME c \in Owners PROVE Phase(c)'
    OBVIOUS
  <2>1. Phase(c)
    BY DEF CommandsInv, PhaseInv
  <2>2. pc[c] \in {"running", "undoing"} \cup Ended
    BY <1>2, TakenWhere
  <2>3. /\ In(c)' \subseteq In(c) /\ Out(c)' = Out(c)
        /\ Kind(c)' = Kind(c) /\ (Clean(c)' <=> Clean(c)) /\ (Awaits(c)' <=> Awaits(c))
    BY <1>1, <1>2, SameOfOwner DEF In, Out
  <2>4. CASE pc[c] = "running"
    <3>1. AtWork(c)
      BY <2>1, <2>4 DEF Phase
    <3>2. "run" \notin In(c)
      <4>1. inbox[c] # <<"run">>
        BY <1>2
      <4> QED
        BY <3>1, <4>1 DEF AtWork
    <3>3. AtWork(c)'
      BY <1>1, <1>2, <2>3, <3>1, <3>2 DEF AtWork
    <3> QED
      BY <1>1, <1>2, <2>1, <2>3, <2>4, <3>3 DEF Phase
  <2>5. CASE pc[c] \in {"undoing"} \cup Ended
    <3>1. Settled(c) => Settled(c)'
      BY <1>1, <2>3 DEF Settled
    <3>2. Undoing(c) => Undoing(c)'
      BY <1>1, <1>2, <2>3, <3>1 DEF Undoing
    <3> QED
      BY <1>1, <1>2, <2>1, <2>3, <2>5, <3>1, <3>2 DEF Phase, Ended
  <2> QED
    BY <2>2, <2>4, <2>5
<1>5. In(c)' \subseteq In(c)
  BY <1>2 DEF In
<1> QED
  BY <1>1, <1>2, <1>3, <1>4, <1>5, ServerStep

LEMMA ClosingFacts ==
    ASSUME KindInv, NEW c \in Procs, NEW stage \in {"none", "begun", "tearing", "done"},
           closing' = [closing EXCEPT ![c] = stage]
    PROVE  /\ closing' \in [Procs -> {"none", "begun", "tearing", "done"}]
           /\ closing'[c] = stage
           /\ \A d \in Procs \ {c} : closing'[d] = closing[d]
BY DEF KindInv

LEMMA DestroyTunnelKeeps ==
    ASSUME CommandsInv, NEW c \in Procs, DestroyTunnel(c), UNCHANGED role
    PROVE  CommandsInv'
<1>0. KindInv
  BY DEF CommandsInv
<1>1. /\ Take(c, "destroy") /\ closing' = [closing EXCEPT ![c] = "begun"]
      /\ UNCHANGED <<outbox, work, signalled>>
  BY DEF DestroyTunnel, processes
<1>2. /\ "destroy" \in In(c)
      /\ inbox' \in [Procs -> Seq(Sendable)]
      /\ ToSet(inbox'[c]) \subseteq In(c)
      /\ \A d \in Procs \ {c} : inbox'[d] = inbox[d]
      /\ UNCHANGED <<pc, signals, stopping, created, knows, owed, listed>>
  BY <1>0, <1>1, TakeFacts
<1>3. /\ closing' \in [Procs -> {"none", "begun", "tearing", "done"}]
      /\ closing'[c] = "begun"
      /\ \A d \in Procs \ {c} : closing'[d] = closing[d]
  BY <1>0, <1>1, ClosingFacts
<1>4. KindInv'
  BY <1>0, <1>1, <1>2, <1>3 DEF KindInv
<1>5. c \in Owners => Phase(c)'
  <2> SUFFICES ASSUME c \in Owners PROVE Phase(c)'
    OBVIOUS
  <2>1. Phase(c)
    BY DEF CommandsInv, PhaseInv
  <2>2. pc[c] \in {"undoing"} \cup Ended
    BY <1>2, TakenWhere
  <2>3. /\ In(c)' \subseteq In(c) /\ Out(c)' = Out(c)
        /\ Kind(c)' = Kind(c) /\ (Clean(c)' <=> Clean(c)) /\ (Awaits(c)' <=> Awaits(c))
    BY <1>1, <1>2, SameOfOwner DEF In, Out
  <2>4. Settled(c) => Settled(c)'
    BY <1>1, <2>3 DEF Settled
  <2>5. Undoing(c) => Undoing(c)'
    BY <1>2, <1>3, <2>3, <2>4 DEF Undoing
  <2> QED
    BY <1>1, <1>2, <2>1, <2>2, <2>3, <2>4, <2>5 DEF Phase, Ended
<1>6. In(c)' \subseteq In(c)
  BY <1>2 DEF In
<1> QED
  BY <1>1, <1>2, <1>3, <1>4, <1>5, <1>6, ServerStep

LEMMA HandleKeeps ==
    ASSUME CommandsInv, NEW c \in Procs, Handle(c), UNCHANGED role
    PROVE  CommandsInv'
BY ListRegionsKeeps, ListTunnelsKeeps, SetUpTunnelKeeps, RunProcessKeeps, KillProcessKeeps,
   DestroyTunnelKeeps DEF Handle


\* ---- The handlers of creates, starts and runs

LEMMA WorkReplyFacts ==
    ASSUME KindInv, NEW c \in Procs, NEW stage \in WorkStages, NEW m \in Answers,
           Work(c, stage), Reply(c, m) \/ UNCHANGED outbox,
           UNCHANGED <<role, pc, signals, stopping, created, knows, owed, inbox, signalled, closing>>,
           listed' \in [Names -> Tunnels \cup {None}]
    PROVE  /\ KindInv' /\ work'[c] = stage
           /\ Out(c)' \subseteq Out(c) \cup {m}
           /\ \A d \in Procs \ {c} : work'[d] = work[d] /\ outbox'[d] = outbox[d]
           /\ ~UNCHANGED outbox =>
                /\ pc[c] \in Ended => outbox'[c] = outbox[c]
                /\ pc[c] \notin Ended /\ outbox[c] = <<>> => outbox'[c] = <<m>>
<1>1. /\ work' \in [Procs -> {"none", "setup", "held", "lazy", "lazy_held",
                      "spawning", "waiting", "serving", "stopped", "done"}]
      /\ work'[c] = stage
      /\ \A d \in Procs \ {c} : work'[d] = work[d]
  BY WorkFacts
<1>2. /\ outbox' \in [Procs -> Seq(Answers)]
      /\ ToSet(outbox'[c]) \subseteq Out(c) \cup {m}
      /\ \A d \in Procs \ {c} : outbox'[d] = outbox[d]
      /\ ~UNCHANGED outbox =>
           /\ pc[c] \in Ended => outbox'[c] = outbox[c]
           /\ pc[c] \notin Ended /\ outbox[c] = <<>> => outbox'[c] = <<m>>
  <2>1. CASE UNCHANGED outbox
    BY <2>1 DEF KindInv, Out
  <2>2. CASE Reply(c, m)
    BY <2>2, ReplyFacts
  <2> QED
    BY <2>1, <2>2
<1>3. KindInv'
  BY <1>1, <1>2 DEF KindInv
<1> QED
  BY <1>1, <1>2, <1>3 DEF Out

\* A step of a handler that leaves the lists alone.
LEMMA HandlerStep ==
    ASSUME CommandsInv, NEW c \in Procs, NEW stage \in WorkStages, NEW m \in Answers,
           Work(c, stage), Reply(c, m) \/ UNCHANGED outbox,
           UNCHANGED <<role, pc, signals, stopping, created, knows, owed, inbox, signalled, closing, listed>>,
           c \in Owners => Phase(c)'
    PROVE  CommandsInv'
<1>1. KindInv /\ listed' \in [Names -> Tunnels \cup {None}]
  BY DEF CommandsInv, KindInv
<1>2. /\ KindInv'
      /\ \A d \in Procs \ {c} : work'[d] = work[d] /\ outbox'[d] = outbox[d]
  BY <1>1, WorkReplyFacts
<1>3. In(c)' \subseteq In(c)
  BY DEF In
<1> QED
  BY <1>2, <1>3, ServerStep

\* A step of a run's handler that leaves the lists alone.
LEMMA RunHandlerStep ==
    ASSUME CommandsInv, NEW c \in Procs,
           NEW stage \in {"lazy_held", "spawning", "waiting", "done"},
           NEW m \in {"started", "restarted"} \cup Final,
           Work(c, stage), Reply(c, m) \/ UNCHANGED outbox,
           Reply(c, m) /\ m \in Final => stage = "done",
           work[c] \in {"lazy", "lazy_held", "spawning", "waiting"},
           stage = "lazy_held" => work[c] = "lazy",
           UNCHANGED <<role, pc, signals, stopping, created, knows, owed, inbox, signalled, closing, listed>>
    PROVE  CommandsInv'
<1>1. KindInv /\ listed' \in [Names -> Tunnels \cup {None}]
  BY DEF CommandsInv, KindInv
<1>2. stage \in WorkStages /\ m \in Answers
  BY DEF WorkStages, Answers, Final
<1>3. /\ work'[c] = stage
      /\ Out(c)' \subseteq Out(c) \cup {m}
  BY <1>1, <1>2, WorkReplyFacts
<1>4. PICK k \in {"started", "restarted"} \cup Final :
        /\ Out(c)' \subseteq Out(c) \cup {k}
        /\ k \in Final => stage = "done"
  <2>1. CASE Reply(c, m)
    BY <1>3, <2>1
  <2>2. CASE UNCHANGED outbox
    <3>1. Out(c)' \subseteq Out(c) \cup {"started"} /\ "started" \notin Final
      BY <2>2 DEF Out, Final
    <3> QED
      BY <3>1
  <2> QED
    BY <2>1, <2>2
<1>5. ASSUME c \in Owners PROVE Phase(c)'
  <2>1. /\ OwnListed(c, "asked")' => OwnListed(c, "asked")
        /\ OwnListed(c, "lazy")' => OwnListed(c, "lazy")
    BY SameListed
  <2>2. k \in Final /\ k \in Out(c)' => work'[c] = "done"
    BY <1>3, <1>4
  <2> QED
    BY <1>3, <1>4, <1>5, <2>1, <2>2, RunHandlerPhase
<1> QED
  BY <1>2, <1>5, HandlerStep

LEMMA RunningKeeps ==
    ASSUME CommandsInv, NEW c \in Procs, Running(c) \/ Rebind(c), UNCHANGED role
    PROVE  CommandsInv'
<1>0. /\ "terminated" \in Final /\ "error" \in Final
      /\ "started" \notin Final /\ "restarted" \notin Final
  BY DEF Final
<1>1. UNCHANGED <<pc, signals, stopping, created, knows, owed, inbox, signalled, closing, listed>>
  BY DEF Running, NotSpawned, Spawns, RunAnswers, Rebind, command, destroys, tunnels, processes
<1>2. CASE NotSpawned(c)
  <2>1. work[c] = "spawning" /\ Work(c, "done") /\ Reply(c, "terminated")
    BY <1>2 DEF NotSpawned
  <2> QED
    BY <1>0, <1>1, <2>1, RunHandlerStep
<1>3. CASE Spawns(c)
  <2>1. /\ work[c] = "spawning"
        /\ \/ Work(c, "waiting") /\ Reply(c, "started")
           \/ Work(c, "waiting") /\ Reply(c, "restarted")
           \/ Work(c, "done") /\ Reply(c, "error")
    BY <1>3 DEF Spawns
  <2>2. CASE Work(c, "waiting") /\ Reply(c, "started")
    BY <1>0, <1>1, <2>1, <2>2, RunHandlerStep
  <2>3. CASE Work(c, "waiting") /\ Reply(c, "restarted")
    BY <1>0, <1>1, <2>1, <2>3, RunHandlerStep
  <2>4. CASE Work(c, "done") /\ Reply(c, "error")
    BY <1>0, <1>1, <2>1, <2>4, RunHandlerStep
  <2> QED
    BY <2>1, <2>2, <2>3, <2>4
<1>4. CASE RunAnswers(c)
  <2>1. work[c] = "waiting" /\ Work(c, "done") /\ Reply(c, "terminated")
    BY <1>4 DEF RunAnswers
  <2> QED
    BY <1>0, <1>1, <2>1, RunHandlerStep
<1>5. CASE Rebind(c)
  <2>1. work[c] = "waiting" /\ Work(c, "spawning") /\ UNCHANGED outbox
    BY <1>5 DEF Rebind
  <2>2. ~("started" \in Final)
    BY <1>0
  <2> QED
    BY <1>1, <2>1, <2>2, RunHandlerStep
<1> QED
  BY <1>2, <1>3, <1>4, <1>5 DEF Running

LEMMA StartAnswersKeeps ==
    ASSUME CommandsInv, NEW c \in Procs, StartAnswers(c), UNCHANGED role
    PROVE  CommandsInv'
<1>1. PICK m \in {"stopped", "error"} :
        work[c] = "stopped" /\ Work(c, "done") /\ Reply(c, m)
  BY DEF StartAnswers
<1>2. UNCHANGED <<pc, signals, stopping, created, knows, owed, inbox, signalled, closing, listed>>
  BY DEF StartAnswers, command, destroys, tunnels, processes
<1>3. c \notin Owners
  BY <1>1 DEF CommandsInv, PhaseInv, Phase
<1>4. m \in Answers /\ "done" \in WorkStages
  BY DEF Answers, WorkStages
<1> QED
  BY <1>1, <1>2, <1>3, <1>4, HandlerStep


\* A command of the owners whose setup is under way waits for it, or has gone.
LEMMA SettingUpWhere ==
    ASSUME CommandsInv, NEW c \in Owners, work[c] \in {"setup", "held"}
    PROVE  /\ Phase(c)
           /\ \/ /\ pc[c] = "creating" /\ Creating(c) /\ Unlisted(c)
                 /\ inbox[c] = <<>> /\ outbox[c] = <<>>
              \/ pc[c] = "gone"
<1>1. c \in Procs /\ Phase(c) /\ KindInv
  BY DEF Owners, CommandsInv, PhaseInv
<1>2. pc[c] \notin {"idle", "choosing", "holding", "running"}
  BY <1>1 DEF Phase, Idle, Choosing, Holding, AtWork
<1>3. pc[c] \notin {"undoing", "over", "failed"}
  BY <1>1 DEF Phase, Undoing, Settled
<1>4. pc[c] \in {"creating", "gone"}
  BY <1>1, <1>2, <1>3 DEF KindInv, Phase, Asking, Ended
<1>5. pc[c] = "creating" =>
         Creating(c) /\ Unlisted(c) /\ inbox[c] = <<>> /\ outbox[c] = <<>>
  BY <1>1 DEF Phase, Creating
<1> QED
  BY <1>1, <1>4, <1>5

LEMMA AcquiresKeeps ==
    ASSUME CommandsInv, NEW c \in Procs, Acquires(c), UNCHANGED role
    PROVE  CommandsInv'
<1>1. UNCHANGED <<pc, signals, stopping, created, knows, owed, inbox, outbox, signalled, closing, listed>>
  BY DEF Acquires, command, destroys, processes, Life!Acquire
<1>2. CASE work[c] = "lazy"
  <2>1. Work(c, "lazy_held")
    BY <1>2 DEF Acquires
  <2>2. "started" \notin Final
    BY DEF Final
  <2> QED
    BY <1>1, <1>2, <2>1, <2>2, RunHandlerStep
<1>3. CASE work[c] = "setup"
  <2>1. Work(c, "held") /\ "held" \in WorkStages /\ "error" \in Answers
    BY <1>3 DEF Acquires, WorkStages, Answers
  <2>2. ASSUME c \in Owners PROVE Phase(c)'
    <3>1. work'[c] = "held"
      <4>1. KindInv
        BY DEF CommandsInv
      <4> QED
        BY <2>1, <4>1, WorkFacts
    <3>2. /\ Phase(c)
          /\ \/ /\ pc[c] = "creating" /\ Creating(c) /\ Unlisted(c)
                /\ inbox[c] = <<>> /\ outbox[c] = <<>>
             \/ pc[c] = "gone"
      BY <1>3, <2>2, SettingUpWhere
    <3>3. In(c)' = In(c) /\ Out(c)' = Out(c) /\ (Unlisted(c)' <=> Unlisted(c))
      BY <1>1, SameOfOwner DEF In, Out
    <3>4. pc[c] = "creating" => Creating(c)'
      BY <1>1, <3>1, <3>2, <3>3 DEF Creating, Unlisted
    <3> QED
      BY <1>1, <3>1, <3>2, <3>3, <3>4 DEF Phase
  <2> QED
    BY <1>1, <2>1, <2>2, HandlerStep
<1> QED
  BY <1>2, <1>3 DEF Acquires

LEMMA FailsKeeps ==
    ASSUME CommandsInv, NEW c \in Procs, Fails(c), UNCHANGED role
    PROVE  CommandsInv'
<1>1. /\ UNCHANGED <<pc, signals, stopping, created, knows, owed, inbox, signalled, closing, listed>>
      /\ work[c] \in {"setup", "held", "lazy", "lazy_held"}
      /\ Work(c, "done") /\ Reply(c, "error")
  BY DEF Fails, command, destroys, processes, Life!Abandon, Life!Release
<1>2. CASE work[c] \in {"lazy", "lazy_held"}
  <2>1. "error" \in Final
    BY DEF Final
  <2> QED
    BY <1>1, <1>2, <2>1, RunHandlerStep
<1>3. CASE work[c] \in {"setup", "held"}
  <2>1. "done" \in WorkStages /\ "error" \in Answers /\ KindInv
    BY DEF WorkStages, Answers, CommandsInv
  <2>2. ASSUME c \in Owners PROVE Phase(c)'
    <3>1. /\ work'[c] = "done"
          /\ Out(c)' \subseteq Out(c) \cup {"error"}
      <4>1. listed' \in [Names -> Tunnels \cup {None}]
        BY <1>1, <2>1 DEF KindInv
      <4> QED
        BY <1>1, <2>1, <4>1, WorkReplyFacts
    <3>2. /\ Phase(c)
          /\ \/ /\ pc[c] = "creating" /\ Creating(c) /\ Unlisted(c)
                /\ inbox[c] = <<>> /\ outbox[c] = <<>>
             \/ pc[c] = "gone"
      BY <1>3, <2>2, SettingUpWhere
    <3>3. In(c)' = In(c) /\ (Unlisted(c)' <=> Unlisted(c))
      BY <1>1, SameOfOwner DEF In
    <3>4. ASSUME pc[c] = "creating" PROVE Creating(c)'
      <4>1. pc[c] \notin Ended
        BY <3>4 DEF Ended
      <4>2. outbox'[c] = <<"error">>
        BY <1>1, <2>1, <3>2, <3>4, <4>1, ReplyFacts
      <4> QED
        BY <1>1, <3>1, <3>2, <3>3, <3>4, <4>2 DEF Creating, Unlisted
    <3> QED
      BY <1>1, <3>1, <3>2, <3>3, <3>4 DEF Phase
  <2> QED
    BY <1>1, <2>1, <2>2, HandlerStep
<1> QED
  BY <1>1, <1>2, <1>3

\* Only the tunnel of its own comes on the lists, under the name of its command.
LEMMA ListsFacts ==
    ASSUME CommandsInv, NEW c \in Procs, Life!List(Making(c), Name(c)), UNCHANGED role
    PROVE  /\ listed' \in [Names -> Tunnels \cup {None}]
           /\ ListInv'
           /\ \A d \in Procs, k \in {"asked", "lazy"} :
                 OwnListed(d, k)' => OwnListed(d, k) \/ <<d, k>> = Making(c)
<1>1. Name(c) \in Names
  BY CommandsAssumption DEF CommandsInv, KindInv, Name, Roles
<1>2. /\ listed \in [Names -> Tunnels \cup {None}]
      /\ listed' = [listed EXCEPT ![Name(c)] = Making(c)]
  BY DEF CommandsInv, KindInv, Life!List
<1>3. Making(c) \in Tunnels /\ Making(c)[1] = c
  BY DEF Making, Asked, Lazy, Tunnels
<1>4. listed' \in [Names -> Tunnels \cup {None}]
  BY <1>2, <1>3
<1>5. \A n \in Names :
         listed'[n] = listed[n] \/ (n = Name(c) /\ listed'[n] = Making(c))
  BY <1>1, <1>2
<1>6. ListInv'
  BY <1>3, <1>5 DEF CommandsInv, ListInv, Name
<1>7. \A d \in Procs, k \in {"asked", "lazy"} :
         OwnListed(d, k)' => OwnListed(d, k) \/ <<d, k>> = Making(c)
  BY <1>5 DEF OwnListed
<1> QED
  BY <1>4, <1>6, <1>7

LEMMA ListsKeeps ==
    ASSUME CommandsInv, NEW c \in Procs, Lists(c), UNCHANGED role
    PROVE  CommandsInv'
<1>0. KindInv
  BY DEF CommandsInv
<1>1. PICK stage \in {"spawning", "serving", "done"}, m \in {"started", "created"} :
        /\ UNCHANGED <<pc, signals, stopping, created, knows, owed, inbox, signalled, closing>>
        /\ Life!List(Making(c), Name(c))
        /\ Work(c, stage) /\ (Reply(c, m) \/ UNCHANGED outbox)
        /\ \/ work[c] = "lazy_held" /\ stage = "spawning" /\ UNCHANGED outbox
           \/ work[c] = "held" /\ Kind(c) = "start" /\ stage = "serving"
           \/ /\ work[c] = "held" /\ Kind(c) # "start" /\ stage = "done"
              /\ m = "created" /\ Reply(c, m)
  BY DEF Lists, command, destroys, processes
<1>2. /\ listed' \in [Names -> Tunnels \cup {None}]
      /\ ListInv'
      /\ \A d \in Procs, k \in {"asked", "lazy"} :
            OwnListed(d, k)' => OwnListed(d, k) \/ <<d, k>> = Making(c)
  BY <1>1, ListsFacts
<1>3. stage \in WorkStages /\ m \in Answers
  BY DEF WorkStages, Answers
<1>4. /\ KindInv' /\ work'[c] = stage
      /\ Out(c)' \subseteq Out(c) \cup {m}
      /\ \A d \in Procs \ {c} : work'[d] = work[d] /\ outbox'[d] = outbox[d]
  BY <1>0, <1>1, <1>2, <1>3, WorkReplyFacts
<1>5. \A d \in Procs \ {c}, k \in {"asked", "lazy"} : OwnListed(d, k)' => OwnListed(d, k)
  BY <1>2 DEF Making, Asked, Lazy
<1>6. ASSUME c \in Owners PROVE Phase(c)'
  <2>1. CASE work[c] = "lazy_held" /\ stage = "spawning" /\ UNCHANGED outbox
    <3>1. OwnListed(c, "asked")' => OwnListed(c, "asked")
      BY <1>2, <2>1 DEF Making, Lazy
    <3>2. Out(c)' \subseteq Out(c) \cup {"started"} /\ "started" \notin Final
      BY <2>1 DEF Out, Final
    <3> QED
      BY <1>1, <1>4, <1>6, <2>1, <3>1, <3>2, RunHandlerPhase
  <2>2. CASE work[c] = "held"
    <3>1. Kind(c) # "start"
      <4>1. role \in Casts
        BY <1>0 DEF KindInv
      <4> QED
        BY <1>6, <4>1, CommandsAssumption DEF Owners, Kind
    <3>2. work'[c] = "done" /\ Reply(c, "created")
      BY <1>1, <1>4, <2>2, <3>1
    <3>3. /\ Phase(c)
          /\ \/ /\ pc[c] = "creating" /\ Creating(c) /\ Unlisted(c)
                /\ inbox[c] = <<>> /\ outbox[c] = <<>>
             \/ pc[c] = "gone"
      BY <1>6, <2>2, SettingUpWhere
    <3>4. In(c)' = In(c) /\ Out(c)' \subseteq Out(c) \cup {"started", "created"}
      BY <1>1, <1>4 DEF In
    <3>5. ASSUME pc[c] = "creating" PROVE Creating(c)'
      <4>1. pc[c] \notin Ended
        BY <3>5 DEF Ended
      <4>2. outbox'[c] = <<"created">>
        <5>1. "created" \in Answers
          BY DEF Answers
        <5> QED
          BY <1>0, <3>2, <3>3, <3>5, <4>1, <5>1, ReplyFacts
      <4>3. ~OwnListed(c, "lazy")'
        BY <1>2, <2>2, <3>3, <3>5 DEF Making, Asked, Unlisted
      <4> QED
        BY <1>1, <3>2, <3>3, <3>5, <4>2, <4>3 DEF Creating
    <3> QED
      BY <1>1, <3>2, <3>3, <3>4, <3>5 DEF Phase
  <2> QED
    BY <1>1, <2>1, <2>2
<1>7. "destroy" \in In(c)' \/ closing'[c] = "begun" =>
         MayUndo(c)'
  BY <1>1 DEF CommandsInv, UndoInv, In, MayUndo, Kind
<1> QED
  BY <1>1, <1>2, <1>4, <1>5, <1>6, <1>7, OthersKeep


LEMMA SetupKeeps ==
    ASSUME CommandsInv, NEW c \in Procs, Setup(c), UNCHANGED role
    PROVE  CommandsInv'
BY AcquiresKeeps, ListsKeeps, FailsKeeps DEF Setup

\* ---- The handler of a destroy

\* A command of the owners whose destroy is under way waits for it, or has ended.
LEMMA DestroyingWhere ==
    ASSUME CommandsInv, NEW c \in Owners, closing[c] \in {"begun", "tearing"}
    PROVE  /\ Phase(c)
           /\ pc[c] \in {"undoing"} \cup Ended
           /\ pc[c] = "undoing" => Undoing(c)
<1>1. c \in Procs /\ Phase(c) /\ KindInv
  BY DEF Owners, CommandsInv, PhaseInv
<1>2. pc[c] \notin {"idle", "choosing", "creating", "holding", "running"}
  BY <1>1 DEF Phase, Idle, Choosing, Creating, Holding, AtWork
<1>3. pc[c] \in {"undoing"} \cup Ended
  BY <1>1, <1>2 DEF KindInv, Phase, Asking, Ended
<1> QED
  BY <1>1, <1>3 DEF Phase

\* A step of the handler of a destroy, for the one whose destroy it is.
LEMMA DestroyPhase ==
    ASSUME CommandsInv, NEW c \in Owners, closing[c] \in {"begun", "tearing"},
           closing'[c] \in {"tearing", "done"},
           UNCHANGED role,
           pc'[c] = pc[c], inbox'[c] = inbox[c], work'[c] = work[c], signals'[c] = signals[c],
           created'[c] = created[c], knows'[c] = knows[c],
           \A k \in {"asked", "lazy"} : OwnListed(c, k)' => OwnListed(c, k),
           NEW m \in {"destroyed", "not destroyed"},
           Out(c)' \subseteq Out(c) \cup {m},
           closing[c] = "begun" =>
              \/ Clean(c)'
              \/ closing'[c] = "done" /\ m = "not destroyed" /\ ~role[c].temporary
    PROVE  Phase(c)'
<1>1. c \in Procs /\ Phase(c) /\ KindInv
  BY DEF Owners, CommandsInv, PhaseInv
<1>2. In(c)' = In(c) /\ Kind(c)' = Kind(c)
  BY DEF In, Kind
<1>3. (Settled(c) => Settled(c)') /\ (Clean(c) => Clean(c)')
  <2>1. Awaits(c)' = Awaits(c)
    BY SameAwaits
  <2> QED
    BY <1>2, <2>1 DEF Settled, Clean
<1>4. pc[c] \in {"undoing"} \cup Ended /\ (pc[c] = "undoing" => Undoing(c))
  BY DestroyingWhere
<1>5. CASE pc[c] = "undoing"
  <2>1. Undoing(c)
    BY <1>4, <1>5
  <2>2. \/ closing'[c] = "tearing" \/ "destroyed" \in Out(c)'
        \/ role[c].temporary /\ "not destroyed" \in Out(c)'
        => Clean(c)'
    <3>1. CASE Clean(c)'
      BY <3>1
    <3>2. CASE ~Clean(c)'
      <4>1. /\ closing[c] = "begun" /\ ~Clean(c)
        BY <1>3, <2>1, <3>2 DEF Undoing
      <4>2. closing'[c] = "done" /\ m = "not destroyed" /\ ~role[c].temporary
        BY <3>2, <4>1
      <4>3. "destroyed" \notin Out(c)
        BY <2>1, <4>1 DEF Undoing
      <4> QED
        BY <4>2, <4>3
    <3> QED
      BY <3>1, <3>2
  <2>3. Undoing(c)'
    BY <1>3, <2>1, <2>2 DEF Undoing
  <2> QED
    BY <1>1, <1>2, <1>5, <2>3 DEF Phase
<1>6. CASE pc[c] \in Ended
  BY <1>1, <1>2, <1>3, <1>6 DEF Phase, Ended
<1> QED
  BY <1>4, <1>5, <1>6

LEMMA FinishFacts ==
    ASSUME KindInv, NEW c \in Procs, NEW m \in {"destroyed", "not destroyed"}, Finish(c, m)
    PROVE  /\ outbox' \in [Procs -> Seq(Answers)]
           /\ Out(c)' \subseteq Out(c) \cup {m}
           /\ closing' \in [Procs -> {"none", "begun", "tearing", "done"}]
           /\ closing'[c] = "done"
           /\ \A d \in Procs \ {c} : outbox'[d] = outbox[d] /\ closing'[d] = closing[d]
           /\ UNCHANGED <<pc, signals, stopping, created, knows, owed, inbox, signalled>>
<1>1. /\ Reply(c, m) /\ closing' = [closing EXCEPT ![c] = "done"]
      /\ UNCHANGED <<pc, signals, stopping, created, knows, owed, inbox, signalled>>
  BY DEF Finish, command, processes
<1>2. m \in Answers
  BY DEF Answers
<1>3. /\ outbox' \in [Procs -> Seq(Answers)]
      /\ ToSet(outbox'[c]) \subseteq Out(c) \cup {m}
      /\ \A d \in Procs \ {c} : outbox'[d] = outbox[d]
  BY <1>1, <1>2, ReplyFacts
<1>4. /\ closing' \in [Procs -> {"none", "begun", "tearing", "done"}]
      /\ closing'[c] = "done" /\ \A d \in Procs \ {c} : closing'[d] = closing[d]
  BY <1>1, ClosingFacts
<1> QED
  BY <1>1, <1>3, <1>4 DEF Out

\* A destroy is answered.
LEMMA FinishKeeps ==
    ASSUME CommandsInv, NEW c \in Procs, NEW m \in {"destroyed", "not destroyed"},
           Finish(c, m), UNCHANGED <<role, work, listed>>,
           closing[c] \in {"begun", "tearing"},
           c \in Owners /\ closing[c] = "begun" =>
              Clean(c) \/ (m = "not destroyed" /\ ~role[c].temporary)
    PROVE  CommandsInv'
<1>0. KindInv
  BY DEF CommandsInv
<1>1. /\ outbox' \in [Procs -> Seq(Answers)]
      /\ Out(c)' \subseteq Out(c) \cup {m}
      /\ closing' \in [Procs -> {"none", "begun", "tearing", "done"}]
      /\ closing'[c] = "done"
      /\ \A d \in Procs \ {c} : outbox'[d] = outbox[d] /\ closing'[d] = closing[d]
      /\ UNCHANGED <<pc, signals, stopping, created, knows, owed, inbox, signalled>>
  BY <1>0, FinishFacts
<1>2. KindInv'
  BY <1>0, <1>1 DEF KindInv
<1>3. ASSUME c \in Owners PROVE Phase(c)'
  <2>1. \A k \in {"asked", "lazy"} : OwnListed(c, k)' => OwnListed(c, k)
    BY SameListed
  <2>2. Clean(c)' <=> Clean(c)
    BY <1>1, SameOfOwner
  <2> QED
    BY <1>1, <1>3, <2>1, <2>2, DestroyPhase
<1>4. In(c)' \subseteq In(c)
  BY <1>1 DEF In
<1> QED
  BY <1>1, <1>2, <1>3, <1>4, ServerStep

\* A rebind loop that died is a create-tunnel's: never that of the tunnel a
\* temporary command has, whose name is nobody else's.
LEMMA DestroyFailsKeeps ==
    ASSUME CommandsInv, NEW c \in Procs, DestroyFails(c), UNCHANGED role
    PROVE  CommandsInv'
<1>1. /\ closing[c] = "begun" /\ Found(c) # None /\ Kind(Found(c)[1]) = "create"
      /\ Finish(c, "not destroyed") /\ UNCHANGED <<work, listed>>
  BY DEF DestroyFails, tunnels
<1>2. c \in Owners => ~role[c].temporary
  <2> SUFFICES ASSUME role[c].temporary PROVE FALSE
    OBVIOUS
  <2>1. /\ role \in Casts /\ Name(c) \in Names
        /\ listed \in [Names -> Tunnels \cup {None}]
    BY CommandsAssumption DEF CommandsInv, KindInv, Name, Roles
  <2>2. PICK d \in Procs : d = Found(c)[1]
    BY <1>1, <2>1 DEF Found, Tunnels
  <2>3. Name(d) = Name(c)
    BY <1>1, <2>1, <2>2 DEF CommandsInv, ListInv, Found
  <2>4. role[c].kind \in {"run", "debug"} /\ role[d].kind = "create"
    BY <1>1, <2>1, <2>2, CommandsAssumption DEF Kind
  <2>5. d \in Procs \ {c}
    BY <2>4
  <2>6. role[d].kind = "destroy"
    BY <2>1, <2>3, <2>5, CommandsAssumption DEF Name
  <2> QED
    BY <2>4, <2>6
<1> QED
  BY <1>1, <1>2, FinishKeeps

\* A tunnel that its name does not list is not listed.
LEMMA NotFound ==
    ASSUME ListInv, NEW c \in Procs, Name(c) \in Names, Found(c) = None
    PROVE  Unlisted(c)
<1>1. \A k \in {"asked", "lazy"}, n \in Names : listed[n] # <<c, k>>
  <2> SUFFICES ASSUME NEW k \in {"asked", "lazy"}, NEW n \in Names, listed[n] = <<c, k>>
               PROVE  FALSE
    OBVIOUS
  <2>1. listed[n] \in Tunnels
    BY DEF Tunnels
  <2>2. listed[n] # None
    BY <2>1, NoneAssumption
  <2>3. n = Name(c)
    BY <2>2 DEF ListInv
  <2> QED
    BY <2>2, <2>3 DEF Found
<1> QED
  BY <1>1 DEF Unlisted, OwnListed

LEMMA DestroyNothingKeeps ==
    ASSUME CommandsInv, NEW c \in Procs, DestroyNothing(c), UNCHANGED role
    PROVE  CommandsInv'
<1>1. /\ closing[c] = "begun" /\ Found(c) = None
      /\ Finish(c, "destroyed") /\ UNCHANGED <<work, listed>>
  BY DEF DestroyNothing, tunnels
<1>2. Name(c) \in Names
  BY CommandsAssumption DEF CommandsInv, KindInv, Name, Roles
<1>3. Clean(c)
  BY <1>1, <1>2, NotFound DEF CommandsInv, Unlisted, Clean
<1> QED
  BY <1>1, <1>3, FinishKeeps

LEMMA TornDownKeeps ==
    ASSUME CommandsInv, NEW c \in Procs, TornDown(c), UNCHANGED role
    PROVE  CommandsInv'
<1>1. PICK m \in {"destroyed", "not destroyed"} :
        closing[c] = "tearing" /\ Finish(c, m) /\ UNCHANGED <<work, listed>>
  BY DEF TornDown, Life!Release
<1> QED
  BY <1>1, FinishKeeps


\* Unlisting a name unlists nothing else, and lists nothing.
LEMMA UnlistFacts ==
    ASSUME CommandsInv, NEW c \in Procs, Life!Unlist(Name(c)), UNCHANGED role
    PROVE  /\ listed' \in [Names -> Tunnels \cup {None}]
           /\ \A n \in Names : listed'[n] # None => listed'[n] = listed[n]
           /\ \A n \in Names : n # Name(c) => listed'[n] = listed[n]
           /\ ListInv' /\ Unlisted(c)'
           /\ \A d \in Procs, k \in {"asked", "lazy"} : OwnListed(d, k)' => OwnListed(d, k)
<1>1. Name(c) \in Names /\ listed \in [Names -> Tunnels \cup {None}]
  BY CommandsAssumption DEF CommandsInv, KindInv, Name, Roles
<1>2. listed' = [listed EXCEPT ![Name(c)] = None]
  BY DEF Life!Unlist
<1>3. /\ listed' \in [Names -> Tunnels \cup {None}] /\ listed'[Name(c)] = None
      /\ \A n \in Names : n # Name(c) => listed'[n] = listed[n]
  BY <1>1, <1>2
<1>4. \A n \in Names : listed'[n] # None => listed'[n] = listed[n]
  BY <1>3
<1>5. ListInv'
  BY <1>4 DEF CommandsInv, ListInv, Name
<1>6. \A d \in Procs, k \in {"asked", "lazy"}, n \in Names :
         listed'[n] = <<d, k>> => listed[n] = <<d, k>>
  <2> SUFFICES ASSUME NEW d \in Procs, NEW k \in {"asked", "lazy"}, NEW n \in Names,
                      listed'[n] = <<d, k>>
               PROVE  listed[n] = <<d, k>>
    OBVIOUS
  <2>1. listed'[n] \in Tunnels
    BY DEF Tunnels
  <2> QED
    BY <1>4, <2>1, NoneAssumption
<1>7. \A k \in {"asked", "lazy"}, n \in Names : listed'[n] # <<c, k>>
  <2> SUFFICES ASSUME NEW k \in {"asked", "lazy"}, NEW n \in Names, listed'[n] = <<c, k>>
               PROVE  FALSE
    OBVIOUS
  <2>1. listed[n] = <<c, k>> /\ listed'[n] \in Tunnels
    BY <1>6 DEF Tunnels
  <2>2. listed[n] # None /\ listed'[n] # None
    BY <2>1, NoneAssumption
  <2>3. n = Name(c)
    BY <2>1, <2>2 DEF CommandsInv, ListInv
  <2> QED
    BY <1>3, <2>2, <2>3
<1> QED
  BY <1>3, <1>4, <1>5, <1>6, <1>7 DEF OwnListed, Unlisted

LEMMA UnlistsKeeps ==
    ASSUME CommandsInv, NEW c \in Procs, Unlists(c), UNCHANGED role
    PROVE  CommandsInv'
<1>0. KindInv
  BY DEF CommandsInv
<1>1. /\ closing[c] = "begun" /\ Life!Unlist(Name(c))
      /\ closing' = [closing EXCEPT ![c] = "tearing"]
      /\ work' = [d \in Procs |-> IF work[d] = "serving" /\ Name(d) = Name(c)
                                  THEN "stopped" ELSE work[d]]
      /\ UNCHANGED <<pc, signals, stopping, created, knows, owed, inbox, outbox, signalled>>
  BY DEF Unlists, command, processes
<1>2. /\ listed' \in [Names -> Tunnels \cup {None}]
      /\ ListInv' /\ Unlisted(c)'
      /\ \A d \in Procs, k \in {"asked", "lazy"} : OwnListed(d, k)' => OwnListed(d, k)
  BY <1>1, UnlistFacts
<1>3. /\ closing' \in [Procs -> {"none", "begun", "tearing", "done"}]
      /\ closing'[c] = "tearing" /\ \A d \in Procs \ {c} : closing'[d] = closing[d]
  BY <1>0, <1>1, ClosingFacts
<1>4. work \in [Procs -> {"none", "setup", "held", "lazy", "lazy_held",
                      "spawning", "waiting", "serving", "stopped", "done"}]
  BY <1>0 DEF KindInv
<1>5. /\ work' \in [Procs -> {"none", "setup", "held", "lazy", "lazy_held",
                      "spawning", "waiting", "serving", "stopped", "done"}]
      /\ \A d \in Procs : work'[d] = work[d] \/ (work[d] = "serving" /\ work'[d] = "stopped")
  BY <1>1, <1>4
<1>6. KindInv'
  BY <1>0, <1>1, <1>2, <1>3, <1>5 DEF KindInv
<1>7. ASSUME c \in Owners PROVE Phase(c)'
  <2>1. work'[c] = work[c]
    BY <1>5, <1>7 DEF CommandsInv, PhaseInv, Phase
  <2>2. Clean(c)'
    BY <1>2 DEF Unlisted, Clean
  <2>3. Out(c)' \subseteq Out(c) \cup {"destroyed"}
    BY <1>1 DEF Out
  <2> QED
    BY <1>1, <1>2, <1>3, <1>7, <2>1, <2>2, <2>3, DestroyPhase
<1>8. "destroy" \in In(c)' \/ closing'[c] = "begun" =>
         MayUndo(c)'
  BY <1>1 DEF CommandsInv, UndoInv, MayUndo, Kind
<1> QED
  BY <1>1, <1>2, <1>3, <1>5, <1>6, <1>7, <1>8, OthersKeep

LEMMA DestroyingKeeps ==
    ASSUME CommandsInv, NEW c \in Procs, Destroying(c), UNCHANGED role
    PROVE  CommandsInv'
BY DestroyFailsKeeps, DestroyNothingKeeps, UnlistsKeeps, TornDownKeeps DEF Destroying

LEMMA ServerKeeps ==
    ASSUME CommandsInv, NEW c \in Procs, Server(c), UNCHANGED role
    PROVE  CommandsInv'
BY HandleKeeps, SetupKeeps, RunningKeeps, StartAnswersKeeps, DestroyingKeeps DEF Server, Handler

\* What the invariant speaks of.
LEMMA StillKeeps ==
    ASSUME CommandsInv,
           UNCHANGED <<role, pc, signals, stopping, created, knows, owed, inbox, outbox, work,
                       signalled, closing, listed>>
    PROVE  CommandsInv'
<1>1. KindInv' /\ ListInv'
  BY DEF CommandsInv, KindInv, ListInv, Name
<1>2. UndoInv'
  BY DEF CommandsInv, UndoInv, In, Kind, MayUndo
<1>3. \A c \in Procs : (In(c)' = In(c)) /\ (Out(c)' = Out(c)) /\ (Kind(c)' = Kind(c))
                       /\ (Awaits(c)' <=> Awaits(c))
  BY SameAwaits DEF In, Out, Kind
<1>4. \A c \in Procs : (Clean(c)' <=> Clean(c)) /\ (Unlisted(c)' <=> Unlisted(c))
                       /\ (OwnListed(c, "lazy")' <=> OwnListed(c, "lazy"))
  BY SameOfOwner, SameListed
<1>5. PhaseInv'
  <2> SUFFICES ASSUME NEW c \in Owners PROVE Phase(c)'
    BY DEF PhaseInv, Owners
  <2>1. c \in Procs /\ Phase(c)
    BY DEF CommandsInv, PhaseInv, Owners
  <2>2. Settled(c)' <=> Settled(c)
    BY <1>3, <2>1 DEF Settled
  <2>3. /\ Idle(c)' <=> Idle(c)
        /\ Choosing(c)' <=> Choosing(c)
        /\ Creating(c)' <=> Creating(c)
        /\ Holding(c)' <=> Holding(c)
    BY <1>4, <2>1 DEF Idle, Choosing, Creating, Holding
  <2>4. /\ AtWork(c)' <=> AtWork(c)
        /\ Undoing(c)' <=> Undoing(c)
    BY <1>3, <1>4, <2>1, <2>2 DEF AtWork, Undoing
  <2> QED
    BY <1>3, <1>4, <2>1, <2>2, <2>3, <2>4 DEF Phase
<1> QED
  BY <1>1, <1>2, <1>5 DEF CommandsInv

LEMMA CommandsInvNext == CommandsInv /\ [Next]_vars => CommandsInv'
<1> SUFFICES ASSUME CommandsInv, [Next]_vars PROVE CommandsInv'
  OBVIOUS
<1>1. CASE UNCHANGED vars
  BY <1>1, StillKeeps DEF vars, command, processes, destroys, tunnels
<1>2. CASE Next
  <2>1. PICK c \in Procs :
          /\ Environment(c) \/ Client(c) \/ Server(c) \/ Rebind(c) \/ ProcessEnds(c)
          /\ UNCHANGED role
    BY <1>2 DEF Next
  <2>2. CASE Environment(c)
    BY <2>1, <2>2, LaunchKeeps, SignalKeeps DEF Environment
  <2>3. CASE Client(c)
    BY <2>1, <2>3, ClientKeeps
  <2>4. CASE Server(c)
    BY <2>1, <2>4, ServerKeeps
  <2>5. CASE Rebind(c)
    BY <2>1, <2>5, RunningKeeps
  <2>6. CASE ProcessEnds(c)
    <3>1. UNCHANGED <<pc, signals, stopping, created, knows, owed, inbox, outbox, work,
                      signalled, closing, listed>>
      BY <2>6 DEF ProcessEnds, command, destroys, tunnels
    <3> QED
      BY <2>1, <3>1, StillKeeps
  <2> QED
    BY <2>1, <2>2, <2>3, <2>4, <2>5, <2>6
<1> QED
  BY <1>1, <1>2

LEMMA CommandsInvHolds == Spec => []CommandsInv
<1> QED
  BY CommandsInvInit, CommandsInvNext, PTL DEF Spec

\* Once a run-process or debug-tunnel with a temporary tunnel has ended other
\* than by Terminate, the server does not list the tunnel it asked for, nor the
\* one its RunProcess made, but for the latter when a debug-tunnel got a signal;
\* once a create-tunnel has ended and its destroy was answered, it does not list
\* its tunnel.
THEOREM CreatedTunnelsGo == Spec => []CreatedGoes
<1>1. CommandsInv => CreatedGoes
  <2> SUFFICES ASSUME CommandsInv, NEW c \in Procs
               PROVE  /\ c \in Temporary /\ pc[c] \in {"over", "failed"} =>
                            /\ ~OwnListed(c, "asked")
                            /\ Kind(c) = "run" \/ signals[c] = 0 => ~OwnListed(c, "lazy")
                      /\ Kind(c) = "create" /\ pc[c] = "over" => ~OwnListed(c, "asked")
    BY DEF CreatedGoes
  <2>1. ASSUME c \in Temporary PROVE c \in Owners /\ role[c].temporary
    BY <2>1 DEF Temporary, Owners
  <2>2. ASSUME Kind(c) = "create" PROVE c \in Owners
    BY <2>2 DEF Owners, Kind
  <2>3. c \in Owners => Phase(c)
    BY DEF CommandsInv, PhaseInv
  <2>4. c \in Temporary => Kind(c) \in {"run", "debug"}
    <3>1. role \in Casts
      BY DEF CommandsInv, KindInv
    <3> QED
      BY <3>1, CommandsAssumption DEF Temporary, Kind
  <2>5. ASSUME c \in Temporary, pc[c] \in {"over", "failed"}
        PROVE  /\ ~OwnListed(c, "asked")
               /\ Kind(c) = "run" \/ signals[c] = 0 => ~OwnListed(c, "lazy")
    <3>1. Clean(c)
      BY <2>1, <2>3, <2>5 DEF Phase
    <3> QED
      BY <2>4, <2>5, <3>1 DEF Clean, Awaits
  <2>6. ASSUME Kind(c) = "create", pc[c] = "over" PROVE ~OwnListed(c, "asked")
    BY <2>2, <2>3, <2>6 DEF Phase, Clean
  <2> QED
    BY <2>5, <2>6
<1> QED
  BY <1>1, CommandsInvHolds, PTL

\* A name leaves the lists only by the destroy of a command of that name that
\* was told its tunnel was created, that is a start-tunnel and got a signal, or
\* that is a destroy-tunnel.
THEOREM NobodyElsesTunnelGoes == Spec => DestroysOwn
<1> DEFINE Own == \A n \in Names : listed[n] # None /\ listed'[n] = None =>
                    \E c \in Procs :
                        /\ Name(c) = n /\ closing[c] = "begun" /\ closing'[c] = "tearing"
                        /\ MayUndo(c)
<1>1. CommandsInv /\ [Next]_vars => [Own]_vars
  <2> SUFFICES ASSUME CommandsInv, Next, NEW n \in Names, listed[n] # None, listed'[n] = None
               PROVE  \E c \in Procs :
                        /\ Name(c) = n /\ closing[c] = "begun" /\ closing'[c] = "tearing"
                        /\ MayUndo(c)
    OBVIOUS
  <2>1. PICK c \in Procs :
          /\ Environment(c) \/ Client(c) \/ Server(c) \/ Rebind(c) \/ ProcessEnds(c)
          /\ UNCHANGED role
    BY DEF Next
  <2>2. listed \in [Names -> Tunnels \cup {None}]
    BY DEF CommandsInv, KindInv
  <2>3. Lists(c) \/ Unlists(c)
    <3>1. listed' # listed
      OBVIOUS
    <3>2. ~Environment(c) /\ ~Client(c) /\ ~Rebind(c) /\ ~ProcessEnds(c)
      BY <3>1 DEF Environment, Launch, ForwardSignal, StopSignal, Interrupt, Terminate, Signalled,
                  Client, HearRegions, HearCreated, HearFound, HearStarted, HearIdly, HearEnd,
                  HearDestroyed, Released, Hear, Rebind, ProcessEnds, tunnels
    <3>3. ~Handle(c)
      BY <3>1 DEF Handle, ListRegions, ListTunnels, SetUpTunnel, RunProcess, KillProcess,
                  DestroyTunnel, Take
    <3>4. ~Running(c) /\ ~StartAnswers(c) /\ ~Acquires(c) /\ ~Fails(c)
      BY <3>1 DEF Running, NotSpawned, Spawns, RunAnswers, StartAnswers, Acquires, Fails,
                  tunnels, Life!Acquire, Life!Abandon, Life!Release
    <3>5. ~DestroyFails(c) /\ ~DestroyNothing(c) /\ ~TornDown(c)
      BY <3>1 DEF DestroyFails, DestroyNothing, TornDown, tunnels, Life!Release
    <3> QED
      BY <2>1, <3>2, <3>3, <3>4, <3>5 DEF Server, Handler, Setup, Destroying
  <2>4. ~Lists(c)
    <3> SUFFICES ASSUME Lists(c) PROVE FALSE
      OBVIOUS
    <3>1. listed' = [listed EXCEPT ![Name(c)] = Making(c)]
      BY DEF Lists, Life!List
    <3>2. Making(c) \in Tunnels
      BY DEF Making, Asked, Lazy, Tunnels
    <3>3. listed'[n] \in {listed[n], Making(c)}
      BY <2>2, <3>1
    <3> QED
      BY <3>2, <3>3, NoneAssumption
  <2>5. Unlists(c)
    BY <2>3, <2>4
  <2>6. /\ closing[c] = "begun" /\ Life!Unlist(Name(c))
        /\ closing' = [closing EXCEPT ![c] = "tearing"]
    BY <2>5 DEF Unlists
  <2>7. closing'[c] = "tearing"
    BY <2>6 DEF CommandsInv, KindInv
  <2>8. Name(c) = n
    BY <2>1, <2>6, UnlistFacts
  <2>9. MayUndo(c)
    BY <2>6 DEF CommandsInv, UndoInv
  <2> QED
    BY <2>6, <2>7, <2>8, <2>9
<1> QED
  BY <1>1, CommandsInvHolds, PTL DEF Spec, DestroysOwn, MayUndo

\* ---- The lengths of the queues

\* A queue with messages of a class, and with at most one of it.
Has(queue, class) == \E i \in DOMAIN queue : queue[i] \in class
One(queue, class) ==
    \A i, j \in DOMAIN queue : queue[i] \in class /\ queue[j] \in class => i = j

\* A command waits for the reply to a request before it makes the next one;
\* the preludes are those that come before a run, to which it may reply "first".
Requests == {"regions", "list", "create", "start", "run"}
Preludes == {"regions", "list", "create", "start"}
Undo == {"destroy"}
Kill == {"kill"}
Replies == {"regions", "found", "created", "terminated", "stopped", "error"}
Firsts == {"regions", "found", "created"}
Ends == {"destroyed", "not destroyed"}
Started == {"started"}
Restarted == {"restarted"}

SizeInv ==
    /\ signals \in [Procs -> 0..MaxSignals]
    /\ IsFiniteSet(AllSignals)
    /\ tun \in [Procs -> Tunnels \cup {None}]
    /\ proc \in [Procs -> {"none", "first", "between", "later", "ended"}]
    /\ tearing \in [Procs -> Tunnels \cup {None}]
    /\ shut \subseteq Names
    /\ life \in [Tunnels -> Life!Stages]

\* One request at a time.
OneAtATime(c) ==
    /\ One(inbox[c], Requests) /\ One(outbox[c], Replies)
    /\ Has(inbox[c], Requests) => ~Has(outbox[c], Replies) /\ work[c] \in {"none", "done"}
    /\ work[c] \notin {"none", "done"} => ~Has(outbox[c], Replies)
    /\ pc[c] = "holding" => ~Has(inbox[c], Requests)
    /\ pc[c] = "idle" =>
          /\ inbox[c] = <<>> /\ outbox[c] = <<>> /\ ~created[c]
          /\ work[c] = "none" /\ closing[c] = "none"

\* One process, that is told of once when it starts and once when it restarts.
Early(c) ==
    \/ Has(inbox[c], Requests) \/ Has(outbox[c], Firsts)
    \/ work[c] \in {"none", "setup", "held", "lazy", "lazy_held"}
    \/ work[c] = "spawning" /\ proc[c] = "none"

ToldOnce(c) ==
    /\ One(outbox[c], Started) /\ One(outbox[c], Restarted)
    /\ Early(c) => /\ proc[c] = "none"
                   /\ ~Has(outbox[c], Started) /\ ~Has(outbox[c], Restarted)
    /\ work[c] = "spawning" => proc[c] \in {"none", "between"}
    /\ proc[c] \in {"first", "between"} => ~Has(outbox[c], Restarted)

\* One destroy: by whoever leaves, or by the signal that stops a start-tunnel.
Undid(c) == pc[c] \in {"undoing"} \cup Ended \/ (Kind(c) = "start" /\ stopping[c])
Begun(c) == created[c] \/ Kind(c) = "destroy"

UndoneOnce(c) ==
    /\ One(inbox[c], Undo) /\ One(outbox[c], Ends)
    /\ Has(inbox[c], Undo) \/ closing[c] # "none" \/ Has(outbox[c], Ends) => Undid(c)
    /\ Has(inbox[c], Undo) => closing[c] = "none" /\ ~Has(outbox[c], Ends)
    /\ closing[c] \in {"begun", "tearing"} => ~Has(outbox[c], Ends)
    /\ pc[c] = "undoing" => Begun(c)
    /\ Begun(c) => /\ ~Has(inbox[c], Preludes) /\ ~Has(outbox[c], Firsts)
                   /\ work[c] \notin {"setup", "held"}

\* What a start-tunnel has nothing to do with, and what only a run has.
Kept(c) ==
    /\ Kind(c) = "start" =>
          /\ ~created[c]
          /\ ~Has(inbox[c], {"list", "create", "run"}) /\ ~Has(outbox[c], {"found", "created"})
          /\ work[c] \notin {"lazy", "lazy_held", "spawning", "waiting"}
    /\ Kind(c) # "run" => owed[c] = 0 /\ ~Has(inbox[c], Kill)
    /\ Kind(c) # "start" =>
          Len(inbox[c]) + owed[c] <=
             signals[c] + (IF Has(inbox[c], Requests) \/ Has(inbox[c], Undo) THEN 1 ELSE 0)

Turns(c) == OneAtATime(c) /\ ToldOnce(c) /\ UndoneOnce(c) /\ Kept(c)
TurnInv == SizeInv /\ \A c \in Procs : Turns(c)

\* ---- What is in a queue

LEMMA PutHas ==
    ASSUME NEW S, NEW s \in Seq(S), NEW x \in S
    PROVE  /\ \A K : Has(Append(s, x), K) <=> Has(s, K) \/ x \in K
           /\ \A K : One(s, K) /\ (x \notin K \/ ~Has(s, K)) => One(Append(s, x), K)
           /\ Len(Append(s, x)) = Len(s) + 1
<1>1. /\ Len(Append(s, x)) = Len(s) + 1 /\ Append(s, x) \in Seq(S)
      /\ \A i \in 1..Len(s) : Append(s, x)[i] = s[i]
      /\ Append(s, x)[Len(s) + 1] = x
      /\ DOMAIN s = 1..Len(s) /\ DOMAIN Append(s, x) = 1..(Len(s) + 1)
  BY AppendProperties, LenProperties
<1>2. PICK n \in Nat : n = Len(s)
  BY LenProperties
<1> DEFINE t == Append(s, x)
<1> HIDE DEF t
<1>3. /\ DOMAIN t = 1..(n + 1) /\ DOMAIN s = 1..n
      /\ \A i \in 1..(n + 1) : t[i] = (IF i \in 1..n THEN s[i] ELSE x)
      /\ \A i \in 1..(n + 1) : i \in 1..n \/ i = n + 1
      /\ \A i \in 1..n : i \in 1..(n + 1)
      /\ n + 1 \in 1..(n + 1) /\ n + 1 \notin 1..n
  BY <1>1, <1>2 DEF t
<1>4. \A K : Has(t, K) <=> Has(s, K) \/ x \in K
  BY <1>3 DEF Has
<1>5. \A K : One(s, K) /\ (x \notin K \/ ~Has(s, K)) => One(t, K)
  BY <1>3 DEF Has, One
<1> QED
  BY <1>1, <1>4, <1>5 DEF t

LEMMA TakenHas ==
    ASSUME NEW S, NEW s \in Seq(S), s # <<>>
    PROVE  /\ \A K : Has(Tail(s), K) => Has(s, K)
           /\ \A K : Head(s) \in K => Has(s, K)
           /\ \A K : Has(s, K) => Head(s) \in K \/ Has(Tail(s), K)
           /\ \A K : One(s, K) => One(Tail(s), K)
           /\ \A K : One(s, K) /\ Head(s) \in K => ~Has(Tail(s), K)
           /\ Len(s) = Len(Tail(s)) + 1
<1>1. /\ Tail(s) \in Seq(S) /\ Len(Tail(s)) = Len(s) - 1
      /\ \A i \in 1..Len(Tail(s)) : Tail(s)[i] = s[i + 1]
      /\ Head(s) = s[1]
  BY HeadTailProperties
<1>2. PICK n \in Nat : n = Len(Tail(s))
  BY <1>1, LenProperties
<1>3. Len(s) = n + 1
  BY <1>1, <1>2, LenProperties
<1> DEFINE t == Tail(s)
<1> HIDE DEF t
<1>4. /\ DOMAIN t = 1..n /\ DOMAIN s = 1..(n + 1)
      /\ \A i \in 1..n : t[i] = s[i + 1]
      /\ \A i \in 1..n : i + 1 \in 1..(n + 1) /\ i + 1 # 1
      /\ \A i \in 1..(n + 1) : i = 1 \/ (i - 1 \in 1..n /\ (i - 1) + 1 = i)
      /\ 1 \in 1..(n + 1)
      /\ \A i, j \in 1..n : i + 1 = j + 1 => i = j
  BY <1>1, <1>2, <1>3, LenProperties DEF t
<1>5. \A K : Has(t, K) => Has(s, K)
  BY <1>4 DEF Has
<1>6. \A K : Has(s, K) => s[1] \in K \/ Has(t, K)
  <2> SUFFICES ASSUME NEW K, NEW i \in 1..(n + 1), s[i] \in K, s[1] \notin K PROVE Has(t, K)
    BY <1>4 DEF Has
  <2>1. i - 1 \in 1..n /\ t[i - 1] = s[i]
    BY <1>4
  <2> QED
    BY <1>4, <2>1 DEF Has
<1>7. \A K : One(s, K) => One(t, K)
  BY <1>4 DEF One
<1>8. \A K : One(s, K) /\ s[1] \in K => ~Has(t, K)
  BY <1>4 DEF One, Has
<1>9. \A K : s[1] \in K => Has(s, K)
  BY <1>4 DEF Has
<1> QED
  BY <1>1, <1>2, <1>3, <1>5, <1>6, <1>7, <1>8, <1>9 DEF t

LEMMA KillsHas ==
    ASSUME NEW s \in Seq(Sendable), NEW c, NEW n \in Nat
    PROVE  /\ \A K : "kill" \notin K => (Has(s \o Kills(c, n), K) <=> Has(s, K))
           /\ \A K : "kill" \notin K => (One(s, K) => One(s \o Kills(c, n), K))
           /\ n = 0 => s \o Kills(c, n) = s
           /\ Len(s \o Kills(c, n)) = Len(s) + n
<1> DEFINE k == Kills(c, n)
           t == s \o k
<1>1. k \in Seq(Sendable) /\ Len(k) = n /\ \A i \in 1..n : k[i] = "kill"
  <2>1. k \in [1..n -> Sendable] /\ \A i \in 1..n : k[i] = "kill"
    BY DEF Kills, Sendable
  <2>2. k \in Seq(Sendable)
    BY <2>1
  <2> QED
    BY <2>1, <2>2, LenProperties
<1> HIDE DEF k
<1>2. /\ t \in Seq(Sendable)
      /\ Len(t) = Len(s) + n
      /\ \A i \in 1..(Len(s) + n) : t[i] = IF i <= Len(s) THEN s[i] ELSE k[i - Len(s)]
  BY <1>1, ConcatProperties
<1>0. n = 0 => t = s
  <2> SUFFICES ASSUME n = 0 PROVE t = s
    OBVIOUS
  <2>1. k = <<>>
    BY <1>1, EmptySeq
  <2> QED
    BY <2>1, ConcatEmptySeq
<1> HIDE DEF t
<1>3. PICK l \in Nat : l = Len(s)
  BY LenProperties
<1>4. DOMAIN s = 1..l /\ DOMAIN t = 1..(l + n)
  BY <1>2, <1>3, LenProperties
<1>5. /\ \A i \in 1..l : i \in 1..(l + n) /\ t[i] = s[i]
      /\ \A i \in 1..(l + n) : i \in 1..l \/ t[i] = "kill"
  <2>1. \A i \in 1..l : i \in 1..(l + n) /\ i <= l
    OBVIOUS
  <2>2. \A i \in 1..(l + n) : i \in 1..l \/ (~(i <= l) /\ i - l \in 1..n)
    OBVIOUS
  <2> QED
    BY <1>1, <1>2, <1>3, <2>1, <2>2
<1>6. \A K : "kill" \notin K => (Has(t, K) <=> Has(s, K))
  BY <1>4, <1>5 DEF Has
<1>7. \A K : "kill" \notin K => (One(s, K) => One(t, K))
  BY <1>4, <1>5 DEF One
<1> QED
  BY <1>0, <1>2, <1>6, <1>7 DEF t, k

LEMMA NothingThere == \A K : ~Has(<<>>, K) /\ One(<<>>, K)
BY EmptySeq DEF Has, One

LEMMA SendHas ==
    ASSUME KindInv, NEW c \in Procs, NEW q \in Sendable, Send(c, q)
    PROVE  /\ \A K : Has(inbox'[c], K) <=> Has(inbox[c], K) \/ q \in K
           /\ \A K : One(inbox[c], K) /\ (q \notin K \/ ~Has(inbox[c], K)) => One(inbox'[c], K)
           /\ Len(inbox'[c]) = Len(inbox[c]) + 1
           /\ \A d \in Procs \ {c} : inbox'[d] = inbox[d]
<1>1. /\ inbox \in [Procs -> Seq(Sendable)] /\ inbox[c] \in Seq(Sendable)
      /\ inbox' = [inbox EXCEPT ![c] = Append(inbox[c], q)]
  BY DEF Send, KindInv
<1>2. inbox'[c] = Append(inbox[c], q) /\ \A d \in Procs \ {c} : inbox'[d] = inbox[d]
  BY <1>1
<1> QED
  BY <1>1, <1>2, PutHas

LEMMA HearHas ==
    ASSUME KindInv, NEW c \in Procs, NEW m, Hear(c, m)
    PROVE  /\ \A K : Has(outbox'[c], K) => Has(outbox[c], K)
           /\ \A K : m \in K => Has(outbox[c], K)
           /\ \A K : One(outbox[c], K) => One(outbox'[c], K)
           /\ \A K : One(outbox[c], K) /\ m \in K => ~Has(outbox'[c], K)
           /\ pc[c] \notin {"idle"} \cup Ended
           /\ \A d \in Procs \ {c} : outbox'[d] = outbox[d]
           /\ UNCHANGED <<signals, stopping, work, proc, closing>>
           /\ UNCHANGED <<tun, tearing, shut, life>>
<1>1. /\ outbox \in [Procs -> Seq(Answers)] /\ outbox[c] # <<>> /\ Head(outbox[c]) = m
      /\ outbox' = [outbox EXCEPT ![c] = Tail(outbox[c])]
      /\ pc[c] \notin {"idle"} \cup Ended
      /\ UNCHANGED <<signals, stopping, work, proc, closing, tun, tearing, shut, life>>
  BY DEF Hear, KindInv, processes, destroys, tunnels
<1>2. /\ outbox[c] \in Seq(Answers) /\ outbox'[c] = Tail(outbox[c])
      /\ \A d \in Procs \ {c} : outbox'[d] = outbox[d]
  BY <1>1
<1> QED
  BY <1>1, <1>2, TakenHas

LEMMA TakeHas ==
    ASSUME KindInv, NEW c \in Procs, NEW q, Take(c, q)
    PROVE  /\ \A K : Has(inbox'[c], K) => Has(inbox[c], K)
           /\ \A K : q \in K => Has(inbox[c], K)
           /\ \A K : Has(inbox[c], K) => q \in K \/ Has(inbox'[c], K)
           /\ \A K : One(inbox[c], K) => One(inbox'[c], K)
           /\ \A K : One(inbox[c], K) /\ q \in K => ~Has(inbox'[c], K)
           /\ inbox[c] # <<>> /\ Len(inbox[c]) = Len(inbox'[c]) + 1
           /\ \A d \in Procs \ {c} : inbox'[d] = inbox[d]
           /\ UNCHANGED <<pc, signals, stopping, created, knows, owed, life>>
<1>1. /\ inbox \in [Procs -> Seq(Sendable)] /\ inbox[c] # <<>> /\ Head(inbox[c]) = q
      /\ inbox' = [inbox EXCEPT ![c] = Tail(inbox[c])]
      /\ UNCHANGED <<pc, signals, stopping, created, knows, owed, life>>
  BY DEF Take, KindInv, command
<1>2. /\ inbox[c] \in Seq(Sendable) /\ inbox'[c] = Tail(inbox[c])
      /\ \A d \in Procs \ {c} : inbox'[d] = inbox[d]
  BY <1>1
<1> QED
  BY <1>1, <1>2, TakenHas

LEMMA ReplyHas ==
    ASSUME KindInv, NEW c \in Procs, NEW m \in Answers, Reply(c, m)
    PROVE  /\ \A K : Has(outbox'[c], K) => Has(outbox[c], K) \/ m \in K
           /\ \A K : One(outbox[c], K) /\ (m \notin K \/ ~Has(outbox[c], K)) => One(outbox'[c], K)
           /\ \A d \in Procs \ {c} : outbox'[d] = outbox[d]
<1>1. /\ outbox \in [Procs -> Seq(Answers)] /\ outbox[c] \in Seq(Answers)
      /\ outbox' = [outbox EXCEPT ![c] =
                       IF pc[c] \in Ended THEN outbox[c] ELSE Append(outbox[c], m)]
  BY DEF Reply, KindInv
<1>2. /\ outbox'[c] = (IF pc[c] \in Ended THEN outbox[c] ELSE Append(outbox[c], m))
      /\ \A d \in Procs \ {c} : outbox'[d] = outbox[d]
  BY <1>1
<1>3. CASE pc[c] \in Ended
  BY <1>2, <1>3
<1>4. CASE pc[c] \notin Ended
  <2>1. outbox'[c] = Append(outbox[c], m)
    BY <1>2, <1>4
  <2> QED
    BY <1>1, <1>2, <2>1, PutHas
<1> QED
  BY <1>3, <1>4

\* What a class of messages is part of.
LEMMA Classes ==
    \A s : /\ Has(s, Preludes) => Has(s, Requests)
           /\ Has(s, Firsts) => Has(s, Replies)
           /\ Has(s, {"list", "create", "run"}) => Has(s, Requests)
           /\ Has(s, {"found", "created"}) => Has(s, Firsts)
BY DEF Has, Preludes, Requests, Firsts, Replies

\* A command to which nothing happens but that its StartTunnel is told to stop.
LEMMA TurnsOfOthers ==
    ASSUME NEW d \in Procs, Turns(d), UNCHANGED role,
           pc'[d] = pc[d], inbox'[d] = inbox[d], outbox'[d] = outbox[d],
           work'[d] = work[d] \/ (work[d] = "serving" /\ work'[d] = "stopped"),
           proc'[d] = proc[d], closing'[d] = closing[d], created'[d] = created[d],
           stopping'[d] = stopping[d], owed'[d] = owed[d], signals'[d] = signals[d]
    PROVE  Turns(d)'
<1>1. Kind(d)' = Kind(d)
  BY DEF Kind
<1>2. OneAtATime(d)'
  BY DEF Turns, OneAtATime
<1>3. ToldOnce(d)'
  BY DEF Turns, ToldOnce, Early
<1>4. UndoneOnce(d)'
  BY <1>1 DEF Turns, UndoneOnce, Undid, Begun
<1>5. Kept(d)'
  BY <1>1 DEF Turns, Kept
<1> QED
  BY <1>2, <1>3, <1>4, <1>5 DEF Turns

\* ---- The command

\* What a queue holds less of.
Within(new, old) ==
    /\ \A K : Has(new, K) => Has(old, K)
    /\ \A K : One(old, K) => One(new, K)

\* A reply is heard and the next request is made.
LEMMA GoesOn ==
    ASSUME KindInv, SizeInv, NEW c \in Procs, Turns(c), UNCHANGED role,
           NEW m \in Firsts, Hear(c, m), NEW q \in Requests, Send(c, q),
           pc'[c] \in {"creating", "starting", "running"}, owed'[c] = owed[c],
           created'[c] = (created[c] \/ m = "created"),
           q \in Preludes => m = "regions",
           Kind(c) = "start" => q = "start" \/ m \in {"found", "created"}
    PROVE  Turns(c)'
<1>1. /\ \A K : Has(outbox'[c], K) => Has(outbox[c], K)
      /\ \A K : m \in K => Has(outbox[c], K)
      /\ \A K : One(outbox[c], K) => One(outbox'[c], K)
      /\ \A K : One(outbox[c], K) /\ m \in K => ~Has(outbox'[c], K)
      /\ pc[c] \notin {"idle"} \cup Ended
      /\ UNCHANGED <<signals, stopping, work, proc, closing>>
  BY HearHas
<1>2. q \in Sendable
  BY DEF Requests, Sendable
<1>3. /\ \A K : Has(inbox'[c], K) <=> Has(inbox[c], K) \/ q \in K
      /\ \A K : One(inbox[c], K) /\ (q \notin K \/ ~Has(inbox[c], K)) => One(inbox'[c], K)
      /\ Len(inbox'[c]) = Len(inbox[c]) + 1
  BY <1>2, SendHas
<1>4. q \notin Undo /\ q \notin Kill /\ m \in Replies
  BY DEF Requests, Undo, Kill, Firsts, Replies
<1>5. /\ ~Has(inbox[c], Requests) /\ work[c] \in {"none", "done"}
      /\ ~Has(outbox'[c], Replies) /\ Early(c) /\ ~Begun(c) /\ pc[c] # "undoing"
      /\ ~Has(inbox[c], Preludes) /\ ~Has(outbox'[c], Firsts)
      /\ Has(outbox[c], Firsts)
  BY <1>1, <1>4, Classes DEF Turns, OneAtATime, UndoneOnce, Early
<1>6. Kind(c)' = Kind(c)
  BY DEF Kind
<1>7. OneAtATime(c)'
  BY <1>1, <1>3, <1>5 DEF Turns, OneAtATime
<1>8. ToldOnce(c)'
  BY <1>1, <1>5 DEF Turns, ToldOnce, Early
<1>9. UndoneOnce(c)'
  BY <1>1, <1>3, <1>4, <1>5, <1>6 DEF Turns, UndoneOnce, Undid, Begun
<1>10. Kept(c)'
  <2>1. CASE Kind(c) = "start"
    <3>1. m \notin {"found", "created"}
      BY <1>1, <2>1 DEF Turns, Kept
    <3> QED
      BY <1>1, <1>3, <1>4, <1>5, <1>6, <2>1, <3>1 DEF Turns, Kept
  <2>2. CASE Kind(c) # "start"
    <3>1. ~Has(inbox[c], Undo)
      BY <1>1, <1>5, <2>2 DEF Turns, UndoneOnce, Undid
    <3>2. Len(inbox[c]) \in Nat /\ owed[c] \in Nat /\ signals[c] \in Nat
      BY LenProperties DEF KindInv, SizeInv
    <3> QED
      BY <1>1, <1>3, <1>4, <1>5, <1>6, <2>2, <3>1, <3>2 DEF Turns, Kept
  <2> QED
    BY <2>1, <2>2
<1> QED
  BY <1>7, <1>8, <1>9, <1>10 DEF Turns

\* Nothing is sent, and the command stays where it is or ends.
LEMMA SendsNothing ==
    ASSUME KindInv, SizeInv, NEW c \in Procs, Turns(c), UNCHANGED role,
           pc[c] # "idle", pc'[c] = pc[c] \/ pc'[c] \in Ended,
           inbox'[c] = inbox[c], Within(outbox'[c], outbox[c]),
           stopping'[c] = stopping[c] \/ stopping'[c],
           signals'[c] \in {signals[c], signals[c] + 1},
           created'[c] = created[c], owed'[c] = owed[c],
           work'[c] = work[c], proc'[c] = proc[c], closing'[c] = closing[c]
    PROVE  Turns(c)'
<1>1. Kind(c)' = Kind(c)
  BY DEF Kind
<1>2. /\ \A K : Has(outbox'[c], K) => Has(outbox[c], K)
      /\ \A K : One(outbox[c], K) => One(outbox'[c], K)
  BY DEF Within
<1>3. pc'[c] # "idle" /\ (pc'[c] \in {"holding", "undoing"} => pc'[c] = pc[c])
  BY DEF Ended
<1>4. OneAtATime(c)'
  BY <1>2, <1>3 DEF Turns, OneAtATime
<1>5. ToldOnce(c)'
  BY <1>2 DEF Turns, ToldOnce, Early
<1>6. UndoneOnce(c)'
  BY <1>1, <1>2, <1>3 DEF Turns, UndoneOnce, Undid, Begun
<1>7. Kept(c)'
  <2>1. Len(inbox[c]) \in Nat /\ owed[c] \in Nat /\ signals[c] \in Nat
    BY LenProperties DEF KindInv, SizeInv
  <2> QED
    BY <1>1, <1>2, <2>1 DEF Turns, Kept
<1> QED
  BY <1>4, <1>5, <1>6, <1>7 DEF Turns

\* Whoever has a tunnel to undo leaves, and asks for that once.
LEMMA Leaves ==
    ASSUME KindInv, SizeInv, NEW c \in Procs, Turns(c), UNCHANGED role, created[c],
           pc[c] \notin {"idle", "undoing"} \cup Ended, pc'[c] = "undoing",
           Send(c, "destroy"), Within(outbox'[c], outbox[c]),
           \/ signals'[c] = signals[c] /\ ~Has(inbox[c], Requests)
           \/ signals'[c] = signals[c] + 1,
           UNCHANGED <<stopping, created, owed, work, proc, closing>>
    PROVE  Turns(c)'
<1>1. Kind(c)' = Kind(c)
  BY DEF Kind
<1>2. /\ \A K : Has(outbox'[c], K) => Has(outbox[c], K)
      /\ \A K : One(outbox[c], K) => One(outbox'[c], K)
  BY DEF Within
<1>3. "destroy" \in Sendable /\ "destroy" \notin Requests /\ "destroy" \in Undo
      /\ "destroy" \notin Kill /\ "destroy" \notin Preludes
  BY DEF Sendable, Requests, Undo, Kill, Preludes
<1>4. /\ \A K : Has(inbox'[c], K) <=> Has(inbox[c], K) \/ "destroy" \in K
      /\ \A K : One(inbox[c], K) /\ ("destroy" \notin K \/ ~Has(inbox[c], K)) => One(inbox'[c], K)
      /\ Len(inbox'[c]) = Len(inbox[c]) + 1
  BY <1>3, SendHas
<1>5. Kind(c) # "start" /\ Begun(c)
  BY DEF Turns, Kept, Begun
<1>6. ~Has(inbox[c], Undo) /\ closing[c] = "none" /\ ~Has(outbox[c], Ends)
  BY <1>5 DEF Turns, UndoneOnce, Undid
<1>7. OneAtATime(c)'
  BY <1>2, <1>3, <1>4 DEF Turns, OneAtATime
<1>8. ToldOnce(c)'
  BY <1>2, <1>3, <1>4 DEF Turns, ToldOnce, Early
<1>9. UndoneOnce(c)'
  BY <1>1, <1>2, <1>3, <1>4, <1>5, <1>6 DEF Turns, UndoneOnce, Undid, Begun
<1>10. Kept(c)'
  <2>1. Len(inbox[c]) \in Nat /\ owed[c] \in Nat /\ signals[c] \in Nat
    BY LenProperties DEF KindInv, SizeInv
  <2>2. Has(inbox'[c], Undo)
    BY <1>3, <1>4
  <2>3. Len(inbox[c]) + owed[c] <= signals[c] + (IF Has(inbox[c], Requests) THEN 1 ELSE 0)
    BY <1>5, <1>6 DEF Turns, Kept
  <2>4. Len(inbox'[c]) + owed'[c] <= signals'[c] + 1
    BY <1>4, <2>1, <2>3, SMTT(30)
  <2>5. Kind(c) # "run" => owed'[c] = 0 /\ ~Has(inbox'[c], Kill)
    BY <1>3, <1>4 DEF Turns, Kept
  <2> QED
    BY <1>1, <1>5, <2>2, <2>4, <2>5 DEF Kept
<1> QED
  BY <1>7, <1>8, <1>9, <1>10 DEF Turns

LEMMA LaunchTurns ==
    ASSUME KindInv, SizeInv, NEW c \in Procs, Turns(c), UNCHANGED role, Launch(c)
    PROVE  Turns(c)'
<1>1. /\ pc[c] = "idle"
      /\ UNCHANGED <<signals, stopping, created, owed, outbox, work, proc, closing>>
  BY DEF Launch, processes, destroys
<1>2. /\ inbox[c] = <<>> /\ outbox[c] = <<>> /\ ~created[c]
      /\ work[c] = "none" /\ closing[c] = "none" /\ proc[c] = "none"
  BY <1>1 DEF Turns, OneAtATime, ToldOnce, Early
<1>3. PICK q \in {"destroy", "list", "regions", "create", "start"},
           place \in {"undoing", "looking"} \cup Asking :
        /\ Send(c, q) /\ Goto(c, place)
        /\ q = "destroy" <=> Kind(c) = "destroy"
        /\ q = "destroy" <=> place = "undoing"
        /\ q \in {"list", "create"} => Kind(c) # "start"
  <2>1. CASE Kind(c) = "destroy" /\ Send(c, "destroy") /\ Goto(c, "undoing")
    BY <2>1
  <2>2. CASE c \in Runs \ Temporary /\ Send(c, "list") /\ Goto(c, "looking")
    BY <2>2 DEF Runs
  <2>3. ASSUME c \in Temporary \/ Kind(c) \in {"create", "start"} PROVE Kind(c) # "destroy"
    <3>1. role \in Casts
      BY DEF KindInv
    <3> QED
      BY <2>3, <3>1, CommandsAssumption DEF Temporary, Kind
  <2>4. CASE /\ c \in Temporary \/ Kind(c) \in {"create", "start"}
             /\ Send(c, "regions") /\ Goto(c, "choosing")
    BY <2>3, <2>4 DEF Asking
  <2>5. CASE /\ c \in Temporary \/ Kind(c) \in {"create", "start"}
             /\ Send(c, AskFor(c)) /\ Goto(c, Asks(c))
    BY <2>3, <2>5 DEF AskFor, Asks, Asking
  <2> QED
    BY <2>1, <2>2, <2>4, <2>5 DEF Launch
<1>4. q \in Sendable
  BY DEF Sendable
<1>5. /\ \A K : Has(inbox'[c], K) <=> q \in K
      /\ \A K : One(inbox'[c], K)
      /\ Len(inbox'[c]) = 1
  <2>1. Len(inbox[c]) = 0
    BY <1>2, EmptySeq
  <2>2. \A K : ~Has(inbox[c], K) /\ One(inbox[c], K)
    BY <1>2, NothingThere
  <2>3. /\ \A K : Has(inbox'[c], K) <=> Has(inbox[c], K) \/ q \in K
        /\ \A K : One(inbox[c], K) /\ (q \notin K \/ ~Has(inbox[c], K)) => One(inbox'[c], K)
        /\ Len(inbox'[c]) = Len(inbox[c]) + 1
    BY <1>3, <1>4, SendHas
  <2> QED
    BY <2>1, <2>2, <2>3
<1>6. /\ pc'[c] = place /\ place \notin {"idle", "holding"}
      /\ \A K : ~Has(outbox'[c], K) /\ One(outbox'[c], K)
      /\ Kind(c)' = Kind(c)
  BY <1>1, <1>2, <1>3, GotoFacts, NothingThere DEF Asking, Kind
<1>7. OneAtATime(c)'
  BY <1>1, <1>2, <1>5, <1>6 DEF OneAtATime
<1>8. ToldOnce(c)'
  BY <1>1, <1>2, <1>6 DEF ToldOnce
<1>9. UndoneOnce(c)'
  <2>1. q \in Undo => pc'[c] = "undoing"
    BY <1>3, <1>6 DEF Undo
  <2>2. q \in Preludes => q # "destroy"
    BY DEF Preludes
  <2> QED
    BY <1>1, <1>2, <1>3, <1>5, <1>6, <2>1, <2>2 DEF UndoneOnce, Undid, Begun
<1>10. Kept(c)'
  <2>1. q \notin Kill /\ (q \in Requests \/ q \in Undo)
    BY DEF Kill, Requests, Undo
  <2>2. ~Has(inbox[c], Requests) /\ ~Has(inbox[c], Undo) /\ Len(inbox[c]) = 0
    BY <1>2, NothingThere, EmptySeq
  <2>3. owed[c] \in Nat /\ signals[c] \in Nat
    BY DEF KindInv, SizeInv
  <2>4. Kind(c) # "start" => owed[c] <= signals[c]
    BY <2>2, <2>3 DEF Turns, Kept
  <2>5. q \in {"list", "create", "run"} => Kind(c) # "start"
    BY <1>3
  <2>6. Kind(c) = "start" => q \notin {"list", "create", "run"}
    BY <2>5
  <2>7. Kind(c) # "start" => Len(inbox'[c]) + owed[c] <= signals[c] + 1
    BY <1>5, <2>3, <2>4
  <2> QED
    BY <1>1, <1>2, <1>5, <1>6, <2>1, <2>6, <2>7 DEF Turns, Kept
<1> QED
  BY <1>7, <1>8, <1>9, <1>10 DEF Turns

LEMMA HearCreatedTurns ==
    ASSUME KindInv, SizeInv, NEW c \in Procs, Turns(c), UNCHANGED role, HearCreated(c)
    PROVE  Turns(c)'
<1>1. /\ Hear(c, "created") /\ created' = [created EXCEPT ![c] = TRUE]
      /\ \/ c \in Runs /\ Send(c, "run") /\ Goto(c, "running")
         \/ c \notin Runs /\ Goto(c, "holding") /\ UNCHANGED inbox
      /\ UNCHANGED <<knows, owed>>
  BY DEF HearCreated
<1>2. created'[c]
  BY <1>1 DEF KindInv
<1>3. "created" \in Firsts /\ "created" \in Replies /\ "created" \in {"found", "created"}
  BY DEF Firsts, Replies
<1>4. CASE c \in Runs
  <2>1. "run" \in Requests /\ "run" \notin Preludes
    BY DEF Requests, Preludes
  <2>2. pc'[c] = "running" /\ Send(c, "run")
    BY <1>1, <1>4, GotoFacts
  <2>3. created'[c] = (created[c] \/ "created" = "created")
    BY <1>2, <1>1 DEF KindInv
  <2> QED
    BY <1>1, <1>2, <1>3, <2>1, <2>2, <2>3, GoesOn
<1>5. CASE c \notin Runs
  <2>1. /\ \A K : Has(outbox'[c], K) => Has(outbox[c], K)
        /\ \A K : "created" \in K => Has(outbox[c], K)
        /\ \A K : One(outbox[c], K) => One(outbox'[c], K)
        /\ \A K : One(outbox[c], K) /\ "created" \in K => ~Has(outbox'[c], K)
        /\ pc[c] \notin {"idle"} \cup Ended
        /\ UNCHANGED <<signals, stopping, work, proc, closing>>
    BY <1>1, HearHas
  <2>2. UNCHANGED <<inbox, owed>> /\ pc'[c] = "holding"
    BY <1>1, <1>5, GotoFacts
  <2>3. /\ ~Has(inbox[c], Requests) /\ work[c] \in {"none", "done"}
        /\ ~Has(outbox'[c], Replies) /\ Early(c) /\ ~Begun(c) /\ pc[c] # "undoing"
        /\ ~Has(inbox[c], Preludes) /\ ~Has(outbox'[c], Firsts)
    BY <1>3, <2>1, Classes DEF Turns, OneAtATime, UndoneOnce, Early
  <2>4. Kind(c)' = Kind(c) /\ Kind(c) # "start"
    BY <1>3, <2>1 DEF Kind, Turns, Kept
  <2>5. OneAtATime(c)'
    BY <2>1, <2>2, <2>3 DEF Turns, OneAtATime
  <2>6. ToldOnce(c)'
    BY <2>1, <2>2, <2>3 DEF Turns, ToldOnce, Early
  <2>7. UndoneOnce(c)'
    BY <2>1, <2>2, <2>3, <2>4 DEF Turns, UndoneOnce, Undid, Begun
  <2>8. Kept(c)'
    BY <2>1, <2>2, <2>4 DEF Turns, Kept
  <2> QED
    BY <2>5, <2>6, <2>7, <2>8 DEF Turns
<1> QED
  BY <1>4, <1>5

LEMMA HearStartedTurns ==
    ASSUME KindInv, SizeInv, NEW c \in Procs, Turns(c), UNCHANGED role, HearStarted(c)
    PROVE  Turns(c)'
<1>1. /\ Hear(c, "started") /\ owed' = [owed EXCEPT ![c] = 0]
      /\ inbox' = [inbox EXCEPT ![c] = inbox[c] \o Kills(c, owed[c])]
      /\ UNCHANGED <<pc, created>>
  BY DEF HearStarted
<1>2. /\ \A K : Has(outbox'[c], K) => Has(outbox[c], K)
      /\ \A K : One(outbox[c], K) => One(outbox'[c], K)
      /\ pc[c] \notin {"idle"} \cup Ended
      /\ UNCHANGED <<signals, stopping, work, proc, closing>>
  BY <1>1, HearHas
<1>3. inbox[c] \in Seq(Sendable) /\ owed[c] \in Nat /\ signals[c] \in Nat /\ Len(inbox[c]) \in Nat
  BY LenProperties DEF KindInv, SizeInv
<1>4. inbox'[c] = inbox[c] \o Kills(c, owed[c]) /\ owed'[c] = 0
  BY <1>1 DEF KindInv
<1>5. /\ \A K : "kill" \notin K => (Has(inbox'[c], K) <=> Has(inbox[c], K))
      /\ \A K : "kill" \notin K => (One(inbox[c], K) => One(inbox'[c], K))
      /\ owed[c] = 0 => inbox'[c] = inbox[c]
      /\ Len(inbox'[c]) = Len(inbox[c]) + owed[c]
  <2> DEFINE t == inbox[c] \o Kills(c, owed[c])
  <2>1. /\ \A K : "kill" \notin K => (Has(t, K) <=> Has(inbox[c], K))
        /\ \A K : "kill" \notin K => (One(inbox[c], K) => One(t, K))
        /\ owed[c] = 0 => t = inbox[c]
        /\ Len(t) = Len(inbox[c]) + owed[c]
    BY <1>3, KillsHas
  <2>2. inbox'[c] = t
    BY <1>4
  <2> HIDE DEF t
  <2> QED
    BY <2>1, <2>2
<1>6. "kill" \notin Requests /\ "kill" \notin Preludes /\ "kill" \notin Undo
      /\ "kill" \notin {"list", "create", "run"}
  BY DEF Requests, Preludes, Undo
<1>7. Kind(c)' = Kind(c)
  BY DEF Kind
<1>8. OneAtATime(c)'
  BY <1>1, <1>2, <1>5, <1>6 DEF Turns, OneAtATime
<1>9. ToldOnce(c)'
  BY <1>1, <1>2, <1>5, <1>6 DEF Turns, ToldOnce, Early
<1>10. UndoneOnce(c)'
  BY <1>1, <1>2, <1>5, <1>6, <1>7 DEF Turns, UndoneOnce, Undid, Begun
<1>11. Kept(c)'
  <2>1. Kind(c) # "run" => inbox'[c] = inbox[c]
    BY <1>5 DEF Turns, Kept
  <2>2. Len(inbox'[c]) + owed'[c] = Len(inbox[c]) + owed[c]
    BY <1>3, <1>4, <1>5
  <2> QED
    BY <1>1, <1>2, <1>4, <1>5, <1>6, <1>7, <2>1, <2>2 DEF Turns, Kept
<1> QED
  BY <1>8, <1>9, <1>10, <1>11 DEF Turns

LEMMA LeaveTurns ==
    ASSUME KindInv, SizeInv, NEW c \in Procs, Turns(c), UNCHANGED role,
           NEW place \in {"over", "failed"}, Leave(c, place),
           pc[c] \notin {"idle", "undoing"} \cup Ended, Within(outbox'[c], outbox[c]),
           \/ signals'[c] = signals[c] /\ (created[c] => ~Has(inbox[c], Requests))
           \/ signals'[c] = signals[c] + 1,
           UNCHANGED <<stopping, created, owed, work, proc, closing>>
    PROVE  Turns(c)'
<1>1. CASE created[c]
  <2>1. Send(c, "destroy") /\ pc'[c] = "undoing"
    BY <1>1, GotoFacts DEF Leave, Undoes
  <2> QED
    BY <1>1, <2>1, Leaves
<1>2. CASE ~created[c]
  <2>1. UNCHANGED inbox /\ pc'[c] \in Ended
    BY <1>2, GotoFacts DEF Leave, Undoes, Ended
  <2> QED
    BY <2>1, SendsNothing
<1> QED
  BY <1>1, <1>2

LEMMA ClientTurns ==
    ASSUME KindInv, SizeInv, NEW c \in Procs, Turns(c), UNCHANGED role, Client(c)
    PROVE  Turns(c)'
<1>1. CASE HearRegions(c)
  <2>1. PICK q \in {"create", "start"} : q = AskFor(c) /\ (Kind(c) = "start" => q = "start")
    BY DEF AskFor
  <2>2. /\ Hear(c, "regions") /\ Send(c, q) /\ Goto(c, Asks(c)) /\ UNCHANGED <<created, owed>>
    BY <1>1, <2>1 DEF HearRegions
  <2>3. pc'[c] \in {"creating", "starting"}
    BY <2>2, GotoFacts DEF Asks
  <2>4. q \in Requests /\ "regions" \in Firsts /\ "regions" # "created"
    BY DEF Requests, Firsts
  <2>5. created'[c] = (created[c] \/ "regions" = "created")
    BY <2>2 DEF KindInv
  <2> QED
    BY <2>1, <2>2, <2>3, <2>4, <2>5, GoesOn
<1>2. CASE HearFound(c)
  <2>1. /\ Hear(c, "found") /\ Send(c, "run") /\ pc'[c] = "running" /\ UNCHANGED <<created, owed>>
    BY <1>2, GotoFacts DEF HearFound
  <2>2. "run" \in Requests /\ "run" \notin Preludes /\ "found" \in Firsts
    BY DEF Requests, Firsts, Preludes
  <2>3. created'[c] = (created[c] \/ "found" = "created")
    BY <2>1 DEF KindInv
  <2> QED
    BY <2>1, <2>2, <2>3, GoesOn
<1>3. ASSUME NEW m, Hear(c, m)
      PROVE  /\ Within(outbox'[c], outbox[c]) /\ pc[c] \notin {"idle"} \cup Ended
             /\ m \in Replies => ~Has(inbox[c], Requests)
             /\ UNCHANGED <<signals, stopping, work, proc, closing>>
  BY <1>3, HearHas DEF Within, Turns, OneAtATime
<1>4. CASE HearIdly(c)
  <2>1. \E m : Hear(c, m)
    BY <1>4 DEF HearIdly
  <2>2. UNCHANGED <<pc, created, owed, inbox>>
    BY <1>4 DEF HearIdly
  <2> QED
    BY <1>3, <2>1, <2>2, SendsNothing
<1>5. CASE HearEnd(c)
  <2>1. PICK m \in Final, place \in {"over", "failed"} :
          pc[c] # "undoing" /\ Hear(c, m) /\ Leave(c, place) /\ UNCHANGED <<created, owed>>
    BY <1>5 DEF HearEnd, Final
  <2>2. m \in Replies
    BY DEF Final, Replies
  <2> QED
    BY <1>3, <2>1, <2>2, LeaveTurns
<1>6. CASE HearDestroyed(c)
  <2>1. (\E m : Hear(c, m)) /\ UNCHANGED <<created, owed, inbox>> /\ pc'[c] \in Ended
    BY <1>6, GotoFacts DEF HearDestroyed, Ended
  <2> QED
    BY <1>3, <2>1, SendsNothing
<1>7. CASE Released(c)
  <2>1. /\ pc[c] = "holding" /\ Leave(c, "over")
        /\ UNCHANGED <<signals, stopping, created, owed, outbox, work, proc, closing>>
    BY <1>7 DEF Released, processes, destroys
  <2>2. Within(outbox'[c], outbox[c]) /\ ~Has(inbox[c], Requests)
    BY <2>1 DEF Within, Turns, OneAtATime
  <2> QED
    BY <2>1, <2>2, LeaveTurns DEF Ended
<1> QED
  BY <1>1, <1>2, <1>4, <1>5, <1>6, <1>7, HearCreatedTurns, HearStartedTurns DEF Client

LEMMA SignalTurns ==
    ASSUME KindInv, SizeInv, NEW c \in Procs, Turns(c), UNCHANGED role,
           ForwardSignal(c) \/ StopSignal(c) \/ Interrupt(c) \/ Terminate(c)
    PROVE  Turns(c)'
<1>1. /\ pc[c] \notin {"idle"} \cup Ended /\ signals' = [signals EXCEPT ![c] = signals[c] + 1]
      /\ UNCHANGED <<created, work, proc, closing>>
  BY DEF ForwardSignal, StopSignal, Interrupt, Terminate, Signalled, processes, destroys
<1>2. signals'[c] = signals[c] + 1 /\ signals[c] \in Nat /\ owed[c] \in Nat /\ Len(inbox[c]) \in Nat
  BY <1>1, LenProperties DEF SizeInv, KindInv
<1>3. Kind(c)' = Kind(c)
  BY DEF Kind
<1>4. CASE ForwardSignal(c)
  <2>1. /\ Kind(c) = "run" /\ UNCHANGED <<pc, stopping, outbox>>
        /\ \/ Send(c, "kill") /\ UNCHANGED owed
           \/ owed' = [owed EXCEPT ![c] = owed[c] + 1] /\ UNCHANGED inbox
    BY <1>4 DEF ForwardSignal
  <2>2. /\ \A K : "kill" \notin K => (Has(inbox'[c], K) <=> Has(inbox[c], K))
        /\ \A K : "kill" \notin K => (One(inbox[c], K) => One(inbox'[c], K))
        /\ Len(inbox'[c]) + owed'[c] = Len(inbox[c]) + owed[c] + 1
    <3>1. CASE Send(c, "kill") /\ UNCHANGED owed
      <4>1. "kill" \in Sendable
        BY DEF Sendable
      <4>2. /\ \A K : Has(inbox'[c], K) <=> Has(inbox[c], K) \/ "kill" \in K
            /\ \A K : One(inbox[c], K) /\ ("kill" \notin K \/ ~Has(inbox[c], K)) =>
                         One(inbox'[c], K)
            /\ Len(inbox'[c]) = Len(inbox[c]) + 1
        BY <3>1, <4>1, SendHas
      <4> QED
        BY <1>2, <3>1, <4>2
    <3>2. CASE owed' = [owed EXCEPT ![c] = owed[c] + 1] /\ UNCHANGED inbox
      BY <1>2, <3>2 DEF KindInv
    <3> QED
      BY <2>1, <3>1, <3>2
  <2>3. "kill" \notin Requests /\ "kill" \notin Preludes /\ "kill" \notin Undo
    BY DEF Requests, Preludes, Undo
  <2>4. OneAtATime(c)'
    BY <1>1, <2>1, <2>2, <2>3 DEF Turns, OneAtATime
  <2>5. ToldOnce(c)'
    BY <1>1, <2>1, <2>2, <2>3 DEF Turns, ToldOnce, Early
  <2>6. UndoneOnce(c)'
    BY <1>1, <1>3, <2>1, <2>2, <2>3 DEF Turns, UndoneOnce, Undid, Begun
  <2>7. Kept(c)'
    BY <1>1, <1>2, <1>3, <2>1, <2>2, <2>3 DEF Turns, Kept
  <2> QED
    BY <2>4, <2>5, <2>6, <2>7 DEF Turns
<1>5. CASE StopSignal(c)
  <2>1. /\ pc[c] \in Asking \cup {"holding"} /\ stopping' = [stopping EXCEPT ![c] = TRUE]
        /\ UNCHANGED <<pc, owed, outbox>>
        /\ \/ Kind(c) = "start" /\ ~stopping[c] /\ Send(c, "destroy")
           \/ UNCHANGED inbox
    BY <1>5 DEF StopSignal, Handled
  <2>2. stopping'[c] /\ pc[c] \notin {"undoing"} \cup Ended
    BY <2>1 DEF KindInv, Asking, Ended
  <2>3. CASE UNCHANGED inbox
    <3>1. Within(outbox'[c], outbox[c])
      BY <2>1 DEF Within
    <3> QED
      BY <1>1, <1>2, <2>1, <2>2, <2>3, <3>1, SendsNothing
  <2>4. CASE Kind(c) = "start" /\ ~stopping[c] /\ Send(c, "destroy")
    <3>1. "destroy" \in Sendable /\ "destroy" \notin Requests /\ "destroy" \in Undo
          /\ "destroy" \notin Kill /\ "destroy" \notin Preludes
          /\ "destroy" \notin {"list", "create", "run"}
      BY DEF Sendable, Requests, Undo, Kill, Preludes
    <3>2. /\ \A K : Has(inbox'[c], K) <=> Has(inbox[c], K) \/ "destroy" \in K
          /\ \A K : One(inbox[c], K) /\ ("destroy" \notin K \/ ~Has(inbox[c], K)) =>
                       One(inbox'[c], K)
      BY <2>4, <3>1, SendHas
    <3>3. ~Has(inbox[c], Undo) /\ closing[c] = "none" /\ ~Has(outbox[c], Ends)
      BY <2>2, <2>4 DEF Turns, UndoneOnce, Undid
    <3>4. OneAtATime(c)'
      BY <1>1, <2>1, <3>1, <3>2 DEF Turns, OneAtATime
    <3>5. ToldOnce(c)'
      BY <1>1, <2>1, <3>1, <3>2 DEF Turns, ToldOnce, Early
    <3>6. UndoneOnce(c)'
      BY <1>1, <1>3, <2>1, <2>2, <2>4, <3>1, <3>2, <3>3 DEF Turns, UndoneOnce, Undid, Begun
    <3>7. Kept(c)'
      BY <1>1, <1>3, <2>1, <2>4, <3>1, <3>2 DEF Turns, Kept
    <3> QED
      BY <3>4, <3>5, <3>6, <3>7 DEF Turns
  <2> QED
    BY <2>1, <2>3, <2>4
<1>6. CASE Interrupt(c)
  <2>1. pc[c] = "running" /\ Leave(c, "failed") /\ UNCHANGED <<stopping, owed, outbox>>
    BY <1>6 DEF Interrupt
  <2>2. Within(outbox'[c], outbox[c])
    BY <2>1 DEF Within
  <2> QED
    BY <1>1, <1>2, <2>1, <2>2, LeaveTurns
<1>7. CASE Terminate(c)
  <2>1. /\ Goto(c, "gone") /\ outbox' = [outbox EXCEPT ![c] = <<>>]
        /\ UNCHANGED <<stopping, owed, inbox>>
    BY <1>7 DEF Terminate
  <2>2. outbox'[c] = <<>> /\ pc'[c] \in Ended
    BY <2>1, GotoFacts DEF KindInv, Ended
  <2>3. Within(outbox'[c], outbox[c])
    BY <2>2, NothingThere DEF Within
  <2> QED
    BY <1>1, <1>2, <2>1, <2>2, <2>3, SendsNothing
<1> QED
  BY <1>4, <1>5, <1>6, <1>7

\* ---- The server

\* A request that is answered at once.
LEMMA Replied ==
    ASSUME KindInv, SizeInv, NEW c \in Procs, Turns(c), UNCHANGED role,
           NEW q \in Requests, Take(c, q), NEW m \in Replies, Reply(c, m),
           m \in Firsts => q \in Preludes, m \in {"found", "created"} => q = "list",
           UNCHANGED <<work, proc, closing>>
    PROVE  Turns(c)'
<1>1. /\ \A K : Has(inbox'[c], K) => Has(inbox[c], K)
      /\ \A K : q \in K => Has(inbox[c], K)
      /\ \A K : Has(inbox[c], K) => q \in K \/ Has(inbox'[c], K)
      /\ \A K : One(inbox[c], K) => One(inbox'[c], K)
      /\ \A K : One(inbox[c], K) /\ q \in K => ~Has(inbox'[c], K)
      /\ inbox[c] # <<>> /\ Len(inbox[c]) = Len(inbox'[c]) + 1
      /\ UNCHANGED <<pc, signals, stopping, created, owed>>
  BY TakeHas
<1>2. m \in Answers
  BY DEF Replies, Answers
<1>3. /\ \A K : Has(outbox'[c], K) => Has(outbox[c], K) \/ m \in K
      /\ \A K : One(outbox[c], K) /\ (m \notin K \/ ~Has(outbox[c], K)) => One(outbox'[c], K)
  BY <1>2, ReplyHas
<1>4. m \notin Ends /\ m \notin Started /\ m \notin Restarted /\ q \notin Undo /\ q \notin Kill
  BY DEF Replies, Ends, Started, Restarted, Requests, Undo, Kill
<1>5. /\ ~Has(inbox'[c], Requests) /\ ~Has(outbox[c], Replies) /\ work[c] \in {"none", "done"}
      /\ Early(c) /\ pc[c] # "idle" /\ pc[c] # "holding" /\ (q \in Preludes => ~Begun(c))
  BY <1>1 DEF Turns, OneAtATime, UndoneOnce, Early
<1>6. Kind(c)' = Kind(c)
  BY DEF Kind
<1>7. OneAtATime(c)'
  BY <1>1, <1>3, <1>5 DEF Turns, OneAtATime
<1>8. ToldOnce(c)'
  BY <1>1, <1>3, <1>4, <1>5 DEF Turns, ToldOnce, Early
<1>9. UndoneOnce(c)'
  BY <1>1, <1>3, <1>4, <1>5, <1>6 DEF Turns, UndoneOnce, Undid, Begun
<1>10. Kept(c)'
  <2>1. Len(inbox[c]) \in Nat /\ Len(inbox'[c]) \in Nat /\ owed[c] \in Nat /\ signals[c] \in Nat
    <3>1. inbox'[c] \in Seq(Sendable)
      BY TakeFacts
    <3> QED
      BY <3>1, LenProperties DEF KindInv, SizeInv
  <2>2. Kind(c) = "start" => q # "list"
    BY <1>1 DEF Turns, Kept
  <2>3. Kind(c) # "start" => Len(inbox'[c]) + owed[c] <= signals[c]
    BY <1>1, <2>1 DEF Turns, Kept
  <2>4. Kind(c) = "start" => ~Has(outbox'[c], {"found", "created"})
    BY <1>3, <2>2 DEF Turns, Kept
  <2> QED
    BY <1>1, <1>5, <1>6, <2>1, <2>3, <2>4 DEF Turns, Kept
<1> QED
  BY <1>7, <1>8, <1>9, <1>10 DEF Turns

\* A request for which a handler sets to work.
LEMMA Undertaken ==
    ASSUME KindInv, SizeInv, NEW c \in Procs, Turns(c), UNCHANGED role,
           NEW q \in Requests, Take(c, q), UNCHANGED <<outbox, proc, closing>>,
           \/ work'[c] = "setup" /\ q \in Preludes
           \/ work'[c] \in {"lazy", "spawning"} /\ q = "run"
    PROVE  Turns(c)'
<1>1. /\ \A K : Has(inbox'[c], K) => Has(inbox[c], K)
      /\ \A K : q \in K => Has(inbox[c], K)
      /\ \A K : Has(inbox[c], K) => q \in K \/ Has(inbox'[c], K)
      /\ \A K : One(inbox[c], K) => One(inbox'[c], K)
      /\ \A K : One(inbox[c], K) /\ q \in K => ~Has(inbox'[c], K)
      /\ inbox[c] # <<>> /\ Len(inbox[c]) = Len(inbox'[c]) + 1
      /\ UNCHANGED <<pc, signals, stopping, created, owed>>
  BY TakeHas
<1>2. q \notin Undo /\ q \notin Kill
  BY DEF Requests, Undo, Kill
<1>3. /\ ~Has(inbox'[c], Requests) /\ ~Has(outbox[c], Replies) /\ work[c] \in {"none", "done"}
      /\ Early(c) /\ pc[c] # "idle" /\ pc[c] # "holding" /\ (q \in Preludes => ~Begun(c))
  BY <1>1 DEF Turns, OneAtATime, UndoneOnce, Early
<1>4. Kind(c)' = Kind(c)
  BY DEF Kind
<1>5. OneAtATime(c)'
  BY <1>1, <1>3 DEF Turns, OneAtATime
<1>6. ToldOnce(c)'
  BY <1>1, <1>3 DEF Turns, ToldOnce, Early
<1>7. UndoneOnce(c)'
  BY <1>1, <1>3, <1>4 DEF Turns, UndoneOnce, Undid, Begun
<1>8. Kept(c)'
  <2>1. Len(inbox[c]) \in Nat /\ Len(inbox'[c]) \in Nat /\ owed[c] \in Nat /\ signals[c] \in Nat
    <3>1. inbox'[c] \in Seq(Sendable)
      BY TakeFacts
    <3> QED
      BY <3>1, LenProperties DEF KindInv, SizeInv
  <2>2. Kind(c) = "start" => q # "run"
    BY <1>1 DEF Turns, Kept
  <2>3. Kind(c) # "start" => Len(inbox'[c]) + owed[c] <= signals[c]
    BY <1>1, <2>1 DEF Turns, Kept
  <2> QED
    BY <1>1, <1>3, <1>4, <2>1, <2>2, <2>3 DEF Turns, Kept
<1> QED
  BY <1>5, <1>6, <1>7, <1>8 DEF Turns

LEMMA HandleTurns ==
    ASSUME KindInv, SizeInv, NEW c \in Procs, Turns(c), UNCHANGED role, Handle(c)
    PROVE  Turns(c)'
<1>1. CASE ListRegions(c)
  <2>1. PICK m \in {"regions", "error"} :
          Take(c, "regions") /\ Reply(c, m) /\ UNCHANGED <<work, proc, closing>>
    BY <1>1 DEF ListRegions, processes, destroys
  <2>2. m \in Replies /\ "regions" \in Requests /\ "regions" \in Preludes
    BY DEF Replies, Requests, Preludes
  <2> QED
    BY <2>1, <2>2, Replied
<1>2. CASE ListTunnels(c)
  <2>1. PICK m \in {"found", "error"} :
          Take(c, "list") /\ Reply(c, m) /\ UNCHANGED <<work, proc, closing>>
    BY <1>2 DEF ListTunnels, processes, destroys
  <2>2. m \in Replies /\ "list" \in Requests /\ "list" \in Preludes
    BY DEF Replies, Requests, Preludes
  <2> QED
    BY <2>1, <2>2, Replied
<1>3. CASE SetUpTunnel(c)
  <2>1. PICK q \in {"create", "start"} :
          /\ Take(c, q) /\ UNCHANGED <<proc, closing>>
          /\ \/ Reply(c, "error") /\ UNCHANGED work
             \/ Work(c, "setup") /\ UNCHANGED outbox
    BY <1>3 DEF SetUpTunnel, processes, destroys
  <2>2. /\ "error" \in Replies /\ "error" \notin Firsts /\ q \in Requests /\ q \in Preludes
    BY DEF Replies, Firsts, Requests, Preludes
  <2>3. Work(c, "setup") => work'[c] = "setup"
    BY WorkFacts DEF WorkStages
  <2> QED
    BY <2>1, <2>2, <2>3, Replied, Undertaken
<1>4. CASE RunProcess(c)
  <2>1. /\ Take(c, "run") /\ UNCHANGED <<proc, closing>>
        /\ \/ Reply(c, "terminated") /\ UNCHANGED work
           \/ (Work(c, "lazy") \/ Work(c, "spawning")) /\ UNCHANGED outbox
    BY <1>4 DEF RunProcess, processes, destroys
  <2>2. "terminated" \in Replies /\ "terminated" \notin Firsts /\ "run" \in Requests
    BY DEF Replies, Firsts, Requests
  <2>3. /\ Work(c, "lazy") => work'[c] = "lazy"
        /\ Work(c, "spawning") => work'[c] = "spawning"
    BY WorkFacts DEF WorkStages
  <2> QED
    BY <2>1, <2>2, <2>3, Replied, Undertaken
<1>5. ASSUME NEW q \in {"kill", "destroy"}, Take(c, q), UNCHANGED <<outbox, work, proc>>,
             q = "kill" => closing'[c] = closing[c], q = "destroy" => closing'[c] = "begun"
      PROVE  Turns(c)'
  <2>1. /\ \A K : Has(inbox'[c], K) => Has(inbox[c], K)
        /\ \A K : q \in K => Has(inbox[c], K)
        /\ \A K : Has(inbox[c], K) => q \in K \/ Has(inbox'[c], K)
        /\ \A K : One(inbox[c], K) => One(inbox'[c], K)
        /\ \A K : One(inbox[c], K) /\ q \in K => ~Has(inbox'[c], K)
        /\ inbox[c] # <<>> /\ Len(inbox[c]) = Len(inbox'[c]) + 1
        /\ UNCHANGED <<pc, signals, stopping, created, owed>>
    BY <1>5, TakeHas
  <2>2. /\ q \notin Requests /\ (q \in Undo <=> q = "destroy") /\ (q = "kill" => q \notin Undo)
    BY DEF Requests, Undo
  <2>3. Kind(c)' = Kind(c) /\ pc[c] # "idle"
    BY <2>1 DEF Kind, Turns, OneAtATime
  <2>4. OneAtATime(c)'
    BY <1>5, <2>1, <2>3 DEF Turns, OneAtATime
  <2>5. ToldOnce(c)'
    BY <1>5, <2>1 DEF Turns, ToldOnce, Early
  <2>6. UndoneOnce(c)'
    <3>1. q = "destroy" => ~Has(inbox'[c], Undo) /\ Undid(c) /\ ~Has(outbox[c], Ends)
      BY <2>1, <2>2 DEF Turns, UndoneOnce
    <3> QED
      BY <1>5, <2>1, <2>2, <2>3, <3>1 DEF Turns, UndoneOnce, Undid, Begun
  <2>7. Kept(c)'
    <3>1. Len(inbox[c]) \in Nat /\ Len(inbox'[c]) \in Nat /\ owed[c] \in Nat /\ signals[c] \in Nat
      <4>1. inbox'[c] \in Seq(Sendable)
        BY <1>5, TakeFacts
      <4> QED
        BY <4>1, LenProperties DEF KindInv, SizeInv
    <3>2. Has(inbox[c], Requests) => Has(inbox'[c], Requests)
      BY <2>1, <2>2
    <3> QED
      BY <1>5, <2>1, <2>2, <2>3, <3>1, <3>2 DEF Turns, Kept
  <2> QED
    BY <2>4, <2>5, <2>6, <2>7 DEF Turns
<1>6. CASE KillProcess(c)
  BY <1>5, <1>6 DEF KillProcess, destroys
<1>7. CASE DestroyTunnel(c)
  <2>1. closing'[c] = "begun"
    BY <1>7 DEF DestroyTunnel, KindInv
  <2> QED
    BY <1>5, <1>7, <2>1 DEF DestroyTunnel, processes
<1> QED
  BY <1>1, <1>2, <1>3, <1>4, <1>6, <1>7 DEF Handle

\* A handler ends with its answer.
LEMMA Answered ==
    ASSUME KindInv, SizeInv, NEW c \in Procs, Turns(c), UNCHANGED role,
           work[c] \notin {"none", "done"}, work'[c] = "done",
           NEW m \in Replies, Reply(c, m), m \notin {"regions", "found"},
           m = "created" => work[c] = "held" /\ Kind(c) # "start" /\ proc'[c] = proc[c],
           \/ proc'[c] = proc[c]
           \/ proc'[c] \in {"later", "ended"}
           \/ work[c] = "spawning" /\ proc[c] = "none" /\ proc'[c] = "first",
           UNCHANGED <<pc, signals, stopping, created, owed, inbox, closing>>
    PROVE  Turns(c)'
<1>1. m \in Answers
  BY DEF Replies, Answers
<1>2. /\ \A K : Has(outbox'[c], K) => Has(outbox[c], K) \/ m \in K
      /\ \A K : One(outbox[c], K) /\ (m \notin K \/ ~Has(outbox[c], K)) => One(outbox'[c], K)
  BY <1>1, ReplyHas
<1>3. /\ m \notin Ends /\ m \notin Started /\ m \notin Restarted
      /\ m \in Firsts => m = "created"
      /\ m \in {"found", "created"} => m = "created"
  BY DEF Replies, Ends, Started, Restarted, Firsts
<1>4. /\ ~Has(inbox[c], Requests) /\ ~Has(outbox[c], Replies)
      /\ ~Has(outbox[c], Firsts) /\ pc[c] # "idle"
  BY Classes DEF Turns, OneAtATime
<1>5. work[c] = "held" => Early(c) /\ ~Begun(c)
  BY DEF Turns, Early, UndoneOnce
<1>6. work[c] = "spawning" /\ proc[c] = "none" => ~Has(outbox[c], Restarted)
  BY DEF Turns, ToldOnce, Early
<1>7. Kind(c)' = Kind(c)
  BY DEF Kind
<1>8. OneAtATime(c)'
  BY <1>2, <1>4 DEF Turns, OneAtATime
<1>9. ToldOnce(c)'
  BY <1>2, <1>3, <1>4, <1>5, <1>6 DEF Turns, ToldOnce, Early
<1>10. UndoneOnce(c)'
  BY <1>2, <1>3, <1>4, <1>5, <1>7 DEF Turns, UndoneOnce, Undid, Begun
<1>11. Kept(c)'
  BY <1>2, <1>3, <1>4, <1>7 DEF Turns, Kept
<1> QED
  BY <1>8, <1>9, <1>10, <1>11 DEF Turns

\* A handler goes on, with the news of a process or of a tunnel that is up.
LEMMA Told ==
    ASSUME KindInv, SizeInv, NEW c \in Procs, Turns(c), UNCHANGED role,
           NEW m \in {"started", "restarted"}, Reply(c, m),
           \/ /\ work[c] = "held" /\ Kind(c) = "start"
              /\ m = "started" /\ work'[c] = "serving" /\ proc'[c] = proc[c]
           \/ /\ work[c] = "spawning" /\ work'[c] = "waiting"
              /\ \/ proc[c] = "none" /\ proc'[c] = "first" /\ m = "started"
                 \/ proc[c] # "none" /\ proc'[c] = "later" /\ m = "restarted",
           UNCHANGED <<pc, signals, stopping, created, owed, inbox, closing>>
    PROVE  Turns(c)'
<1>1. m \in Answers
  BY DEF Answers
<1>2. /\ \A K : Has(outbox'[c], K) => Has(outbox[c], K) \/ m \in K
      /\ \A K : One(outbox[c], K) /\ (m \notin K \/ ~Has(outbox[c], K)) => One(outbox'[c], K)
  BY <1>1, ReplyHas
<1>3. /\ m \notin Ends /\ m \notin Replies /\ m \notin Firsts
      /\ m \in Started <=> m = "started"
      /\ m \in Restarted <=> m = "restarted"
      /\ m \notin {"found", "created"}
  BY DEF Replies, Ends, Started, Restarted, Firsts
<1>4. /\ ~Has(inbox[c], Requests) /\ ~Has(outbox[c], Replies)
      /\ ~Has(outbox[c], Firsts) /\ pc[c] # "idle"
  BY Classes DEF Turns, OneAtATime
<1>5. /\ m = "started" => ~Has(outbox[c], Started) /\ ~Has(outbox[c], Restarted)
      /\ m = "restarted" => proc[c] = "between" /\ ~Has(outbox[c], Restarted)
      /\ work[c] = "held" => proc[c] = "none"
  BY DEF Turns, ToldOnce, Early
<1>6. ~Early(c)'
  BY <1>2, <1>3, <1>4 DEF Early
<1>7. Kind(c)' = Kind(c)
  BY DEF Kind
<1>8. OneAtATime(c)'
  BY <1>2, <1>3, <1>4 DEF Turns, OneAtATime
<1>9. ToldOnce(c)'
  BY <1>2, <1>3, <1>5, <1>6 DEF Turns, ToldOnce
<1>10. UndoneOnce(c)'
  BY <1>2, <1>3, <1>4, <1>7 DEF Turns, UndoneOnce, Undid, Begun
<1>11. Kept(c)'
  BY <1>2, <1>3, <1>7 DEF Turns, Kept
<1> QED
  BY <1>8, <1>9, <1>10, <1>11 DEF Turns

\* A handler, or its process, goes on without a word.
LEMMA Silent ==
    ASSUME KindInv, SizeInv, NEW c \in Procs, Turns(c), UNCHANGED role,
           \/ work[c] = "setup" /\ work'[c] = "held" /\ proc'[c] = proc[c]
           \/ work[c] = "lazy" /\ work'[c] = "lazy_held" /\ proc'[c] = proc[c]
           \/ work[c] = "lazy_held" /\ work'[c] = "spawning" /\ proc'[c] = proc[c]
           \/ /\ work[c] = "waiting" /\ work'[c] = "spawning"
              /\ proc[c] = "first" /\ proc'[c] = "between"
           \/ work'[c] = work[c] /\ proc[c] \in {"first", "later"} /\ proc'[c] = "ended",
           UNCHANGED <<pc, signals, stopping, created, owed, inbox, outbox, closing>>
    PROVE  Turns(c)'
<1>1. Kind(c)' = Kind(c)
  BY DEF Kind
<1>2. pc[c] # "idle"
  BY DEF Turns, OneAtATime, ToldOnce, Early
<1>3. OneAtATime(c)'
  BY <1>2 DEF Turns, OneAtATime
<1>4. ToldOnce(c)'
  BY DEF Turns, ToldOnce, Early
<1>5. UndoneOnce(c)'
  BY <1>1 DEF Turns, UndoneOnce, Undid, Begun
<1>6. Kept(c)'
  BY <1>1 DEF Turns, Kept
<1> QED
  BY <1>3, <1>4, <1>5, <1>6 DEF Turns

\* The handler of a destroy goes on, or ends with its answer.
LEMMA Closes ==
    ASSUME KindInv, SizeInv, NEW c \in Procs, Turns(c), UNCHANGED role,
           closing[c] \in {"begun", "tearing"},
           \/ closing'[c] = "tearing" /\ UNCHANGED outbox
           \/ closing'[c] = "done" /\ \E m \in Ends : Reply(c, m),
           work'[c] = work[c] \/ (work[c] = "serving" /\ work'[c] = "stopped"),
           UNCHANGED <<pc, signals, stopping, created, owed, inbox, proc>>
    PROVE  Turns(c)'
<1>1. /\ \A K : Has(outbox'[c], K) =>
                    Has(outbox[c], K) \/ (K \cap Ends # {} /\ closing'[c] = "done")
      /\ \A K : One(outbox[c], K) /\ (K \cap Ends = {} \/ ~Has(outbox[c], K)) => One(outbox'[c], K)
  <2>1. CASE closing'[c] = "tearing" /\ UNCHANGED outbox
    BY <2>1
  <2>2. CASE closing'[c] = "done" /\ \E m \in Ends : Reply(c, m)
    <3>1. PICK m \in Ends : Reply(c, m)
      BY <2>2
    <3>2. m \in Answers
      BY DEF Ends, Answers
    <3>3. /\ \A K : Has(outbox'[c], K) => Has(outbox[c], K) \/ m \in K
          /\ \A K : One(outbox[c], K) /\ (m \notin K \/ ~Has(outbox[c], K)) => One(outbox'[c], K)
      BY <3>1, <3>2, ReplyHas
    <3> QED
      BY <2>2, <3>3
  <2> QED
    BY <2>1, <2>2
<1>2. /\ Replies \cap Ends = {} /\ Firsts \cap Ends = {} /\ Started \cap Ends = {}
      /\ Restarted \cap Ends = {} /\ {"found", "created"} \cap Ends = {}
  BY DEF Replies, Firsts, Started, Restarted, Ends
<1>3. ~Has(outbox[c], Ends) /\ Undid(c) /\ ~Has(inbox[c], Undo) /\ pc[c] # "idle"
  BY DEF Turns, UndoneOnce, OneAtATime
<1>4. Kind(c)' = Kind(c)
  BY DEF Kind
<1>5. OneAtATime(c)'
  BY <1>1, <1>2, <1>3 DEF Turns, OneAtATime
<1>6. ToldOnce(c)'
  BY <1>1, <1>2 DEF Turns, ToldOnce, Early
<1>7. UndoneOnce(c)'
  BY <1>1, <1>2, <1>3, <1>4 DEF Turns, UndoneOnce, Undid, Begun
<1>8. Kept(c)'
  BY <1>1, <1>2, <1>4 DEF Turns, Kept
<1> QED
  BY <1>5, <1>6, <1>7, <1>8 DEF Turns

LEMMA HandlerTurns ==
    ASSUME KindInv, SizeInv, NEW c \in Procs, Turns(c), UNCHANGED role,
           Handler(c) \/ Rebind(c) \/ ProcessEnds(c)
    PROVE  Turns(c)'
<1>0. proc[c] \in {"none", "first", "between", "later", "ended"}
  BY DEF SizeInv
<1>1. \A stage \in WorkStages : Work(c, stage) => work'[c] = stage
  BY WorkFacts
<1>2. /\ {"held", "lazy_held", "spawning", "serving", "waiting", "done"} \subseteq WorkStages
      /\ {"created", "error", "terminated", "stopped"} \subseteq Replies
  BY DEF WorkStages, Replies
<1>3. ASSUME NEW stage, proc' = [proc EXCEPT ![c] = stage] PROVE proc'[c] = stage
  BY <1>3 DEF SizeInv
<1>4. CASE Acquires(c)
  <2>1. /\ work[c] \in {"setup", "lazy"}
        /\ work'[c] = IF work[c] = "setup" THEN "held" ELSE "lazy_held"
        /\ UNCHANGED <<pc, signals, stopping, created, owed, inbox, outbox, proc, closing>>
    BY <1>1, <1>2, <1>4 DEF Acquires, command, processes, destroys
  <2> QED
    BY <2>1, Silent
<1>5. CASE Lists(c)
  <2>1. UNCHANGED <<pc, signals, stopping, created, owed, inbox, proc, closing>>
    BY <1>5 DEF Lists, command, processes, destroys
  <2>2. \/ work[c] = "lazy_held" /\ work'[c] = "spawning" /\ UNCHANGED outbox
        \/ work[c] = "held" /\ Kind(c) = "start" /\ work'[c] = "serving" /\ Reply(c, "started")
        \/ work[c] = "held" /\ Kind(c) # "start" /\ work'[c] = "done" /\ Reply(c, "created")
    BY <1>1, <1>2, <1>5 DEF Lists
  <2>3. CASE work[c] = "lazy_held" /\ work'[c] = "spawning" /\ UNCHANGED outbox
    BY <2>1, <2>3, Silent
  <2>4. CASE work[c] = "held" /\ Kind(c) = "start" /\ work'[c] = "serving" /\ Reply(c, "started")
    BY <2>1, <2>4, Told
  <2>5. CASE work[c] = "held" /\ Kind(c) # "start" /\ work'[c] = "done" /\ Reply(c, "created")
    BY <1>2, <2>1, <2>5, Answered
  <2> QED
    BY <2>2, <2>3, <2>4, <2>5
<1>6. CASE Fails(c)
  <2>1. /\ work[c] \in {"setup", "lazy", "held", "lazy_held"} /\ work'[c] = "done"
        /\ Reply(c, "error")
        /\ UNCHANGED <<pc, signals, stopping, created, owed, inbox, proc, closing>>
    BY <1>1, <1>2, <1>6 DEF Fails, command, processes, destroys
  <2> QED
    BY <1>2, <2>1, Answered
<1>7. CASE NotSpawned(c)
  <2>1. /\ work[c] = "spawning" /\ work'[c] = "done" /\ Reply(c, "terminated")
        /\ proc'[c] = "ended"
        /\ UNCHANGED <<pc, signals, stopping, created, owed, inbox, closing>>
    BY <1>1, <1>2, <1>3, <1>7 DEF NotSpawned, command, destroys
  <2> QED
    BY <1>2, <2>1, Answered
<1>8. CASE Spawns(c)
  <2>1. /\ work[c] = "spawning"
        /\ proc'[c] = IF proc[c] = "none" THEN "first" ELSE "later"
        /\ \/ /\ work'[c] = "waiting"
              /\ Reply(c, IF proc[c] = "none" THEN "started" ELSE "restarted")
           \/ work'[c] = "done" /\ Reply(c, "error")
        /\ UNCHANGED <<pc, signals, stopping, created, owed, inbox, closing>>
    BY <1>1, <1>2, <1>3, <1>8 DEF Spawns, command, destroys
  <2>2. CASE /\ work'[c] = "waiting"
             /\ Reply(c, IF proc[c] = "none" THEN "started" ELSE "restarted")
    BY <2>1, <2>2, Told
  <2>3. CASE work'[c] = "done" /\ Reply(c, "error")
    <3>1. proc'[c] = "later" \/ (proc[c] = "none" /\ proc'[c] = "first")
      BY <2>1
    <3> QED
      BY <1>2, <2>1, <2>3, <3>1, Answered
  <2> QED
    BY <2>1, <2>2, <2>3
<1>9. CASE RunAnswers(c)
  <2>1. /\ work[c] = "waiting" /\ work'[c] = "done" /\ Reply(c, "terminated")
        /\ UNCHANGED <<pc, signals, stopping, created, owed, inbox, proc, closing>>
    BY <1>1, <1>2, <1>9 DEF RunAnswers, command, processes, destroys
  <2> QED
    BY <1>2, <2>1, Answered
<1>10. CASE StartAnswers(c)
  <2>1. PICK m \in {"stopped", "error"} :
          /\ work[c] = "stopped" /\ work'[c] = "done" /\ Reply(c, m)
          /\ UNCHANGED <<pc, signals, stopping, created, owed, inbox, proc, closing>>
    BY <1>1, <1>2, <1>10 DEF StartAnswers, command, processes, destroys
  <2> QED
    BY <1>2, <2>1, Answered
<1>11. CASE Rebind(c)
  <2>1. /\ work[c] = "waiting" /\ work'[c] = "spawning" /\ proc[c] = "first" /\ proc'[c] = "between"
        /\ UNCHANGED <<pc, signals, stopping, created, owed, inbox, outbox, closing>>
    BY <1>1, <1>2, <1>3, <1>11 DEF Rebind, command, destroys
  <2> QED
    BY <2>1, Silent
<1>12. CASE ProcessEnds(c)
  <2>1. /\ proc[c] \in {"first", "later"} /\ proc'[c] = "ended"
        /\ UNCHANGED <<pc, signals, stopping, created, owed, inbox, outbox, closing, work>>
    BY <1>3, <1>12 DEF ProcessEnds, command, destroys
  <2> QED
    BY <2>1, Silent
<1> QED
  BY <1>4, <1>5, <1>6, <1>7, <1>8, <1>9, <1>10, <1>11, <1>12 DEF Handler, Setup, Running

LEMMA DestroyingTurns ==
    ASSUME KindInv, SizeInv, NEW c \in Procs, Turns(c), UNCHANGED role, Destroying(c)
    PROVE  Turns(c)'
<1>1. ASSUME NEW m \in Ends, closing[c] \in {"begun", "tearing"}, Finish(c, m), UNCHANGED work
      PROVE  Turns(c)'
  <2>1. /\ Reply(c, m) /\ closing'[c] = "done"
        /\ UNCHANGED <<pc, signals, stopping, created, owed, inbox, proc>>
    BY <1>1 DEF Finish, KindInv, command, processes
  <2> QED
    BY <1>1, <2>1, Closes
<1>2. "destroyed" \in Ends /\ "not destroyed" \in Ends
  BY DEF Ends
<1>3. CASE DestroyFails(c)
  BY <1>1, <1>2, <1>3 DEF DestroyFails
<1>4. CASE DestroyNothing(c)
  BY <1>1, <1>2, <1>4 DEF DestroyNothing
<1>5. CASE TornDown(c)
  BY <1>1, <1>2, <1>5 DEF TornDown
<1>6. CASE Unlists(c)
  <2>1. /\ closing[c] = "begun" /\ closing'[c] = "tearing"
        /\ UNCHANGED <<pc, signals, stopping, created, owed, inbox, outbox, proc>>
        /\ work' = [d \in Procs |-> IF work[d] = "serving" /\ Name(d) = Name(c)
                                    THEN "stopped" ELSE work[d]]
    BY <1>6 DEF Unlists, KindInv, command, processes
  <2>2. work'[c] = work[c] \/ (work[c] = "serving" /\ work'[c] = "stopped")
    BY <2>1
  <2> QED
    BY <2>1, <2>2, Closes
<1> QED
  BY <1>3, <1>4, <1>5, <1>6 DEF Destroying

\* What a step at one command leaves of the others.
LEMMA OneStep ==
    ASSUME KindInv, SizeInv, NEW c \in Procs, NEW d \in Procs \ {c},
           Environment(c) \/ Client(c) \/ Server(c) \/ Rebind(c) \/ ProcessEnds(c)
    PROVE  /\ pc'[d] = pc[d] /\ inbox'[d] = inbox[d] /\ outbox'[d] = outbox[d]
           /\ work'[d] = work[d] \/ (work[d] = "serving" /\ work'[d] = "stopped")
           /\ proc'[d] = proc[d] /\ closing'[d] = closing[d] /\ created'[d] = created[d]
           /\ stopping'[d] = stopping[d] /\ owed'[d] = owed[d] /\ signals'[d] = signals[d]
<1> DEFINE Same == /\ pc'[d] = pc[d] /\ inbox'[d] = inbox[d] /\ outbox'[d] = outbox[d]
                   /\ work'[d] = work[d] \/ (work[d] = "serving" /\ work'[d] = "stopped")
                   /\ proc'[d] = proc[d] /\ closing'[d] = closing[d] /\ created'[d] = created[d]
                   /\ stopping'[d] = stopping[d] /\ owed'[d] = owed[d] /\ signals'[d] = signals[d]
<1>1. /\ \A place : Goto(c, place) => pc'[d] = pc[d]
      /\ \A q : Send(c, q) => inbox'[d] = inbox[d]
      /\ \A m : Reply(c, m) => outbox'[d] = outbox[d]
      /\ \A stage : Work(c, stage) => work'[d] = work[d]
  BY DEF Goto, Send, Reply, Work, KindInv
<1>2. \A place : Leave(c, place) => pc'[d] = pc[d] /\ inbox'[d] = inbox[d]
  BY <1>1 DEF Leave
<1>3. CASE Launch(c)
  BY <1>1, <1>3 DEF Launch, processes, destroys
<1>4. CASE ForwardSignal(c) \/ StopSignal(c) \/ Interrupt(c) \/ Terminate(c)
  <2>1. /\ signals'[d] = signals[d] /\ UNCHANGED <<created, work, proc, closing>>
    BY <1>4 DEF ForwardSignal, StopSignal, Interrupt, Terminate, Signalled, SizeInv,
                processes, destroys
  <2>2. stopping'[d] = stopping[d] /\ owed'[d] = owed[d] /\ outbox'[d] = outbox[d]
    BY <1>4 DEF ForwardSignal, StopSignal, Interrupt, Terminate, KindInv
  <2>3. pc'[d] = pc[d] /\ inbox'[d] = inbox[d]
    BY <1>1, <1>2, <1>4 DEF ForwardSignal, StopSignal, Interrupt, Terminate
  <2> QED
    BY <2>1, <2>2, <2>3
<1>5. CASE Client(c)
  <2>1. /\ \A m : Hear(c, m) => /\ outbox'[d] = outbox[d]
                                /\ UNCHANGED <<signals, stopping, work, proc, closing>>
    BY DEF Hear, KindInv, processes, destroys
  <2>2. CASE HearRegions(c) \/ HearFound(c) \/ HearIdly(c) \/ HearEnd(c) \/ HearDestroyed(c)
    BY <1>1, <1>2, <2>1, <2>2 DEF HearRegions, HearFound, HearIdly, HearEnd, HearDestroyed
  <2>3. CASE HearCreated(c) \/ HearStarted(c)
    <3>1. created'[d] = created[d] /\ owed'[d] = owed[d]
      BY <2>3 DEF HearCreated, HearStarted, KindInv
    <3>2. pc'[d] = pc[d] /\ inbox'[d] = inbox[d]
      BY <1>1, <2>3 DEF HearCreated, HearStarted, KindInv
    <3> QED
      BY <2>1, <2>3, <3>1, <3>2 DEF HearCreated, HearStarted
  <2>4. CASE Released(c)
    BY <1>2, <2>4 DEF Released, processes, destroys
  <2> QED
    BY <1>5, <2>2, <2>3, <2>4 DEF Client
<1>6. CASE Handle(c)
  <2>1. \A q : Take(c, q) =>
           inbox'[d] = inbox[d] /\ UNCHANGED <<pc, signals, stopping, created, owed>>
    BY DEF Take, KindInv, command
  <2>2. CASE ListRegions(c) \/ ListTunnels(c) \/ SetUpTunnel(c) \/ RunProcess(c)
    BY <1>1, <2>1, <2>2 DEF ListRegions, ListTunnels, SetUpTunnel, RunProcess, processes, destroys
  <2>3. CASE KillProcess(c) \/ DestroyTunnel(c)
    BY <2>1, <2>3 DEF KillProcess, DestroyTunnel, processes, destroys, KindInv
  <2> QED
    BY <1>6, <2>2, <2>3 DEF Handle
<1>7. CASE Handler(c) \/ Rebind(c) \/ ProcessEnds(c)
  <2>1. UNCHANGED <<pc, signals, stopping, created, owed, inbox, closing>>
    BY <1>7 DEF Handler, Setup, Running, Acquires, Lists, Fails, NotSpawned, Spawns, RunAnswers,
                StartAnswers, Rebind, ProcessEnds, command, destroys
  <2>2. proc'[d] = proc[d]
    BY <1>7 DEF Handler, Setup, Running, Acquires, Lists, Fails, NotSpawned, Spawns, RunAnswers,
                StartAnswers, Rebind, ProcessEnds, processes, SizeInv
  <2>3. work'[d] = work[d] /\ outbox'[d] = outbox[d]
    BY <1>1, <1>7 DEF Handler, Setup, Running, Acquires, Lists, Fails, NotSpawned, Spawns,
                      RunAnswers, StartAnswers, Rebind, ProcessEnds
  <2> QED
    BY <2>1, <2>2, <2>3
<1>8. CASE Destroying(c)
  <2>1. UNCHANGED <<pc, signals, stopping, created, owed, inbox, proc>>
    BY <1>8 DEF Destroying, DestroyFails, DestroyNothing, Unlists, TornDown, Finish,
                command, processes
  <2>2. outbox'[d] = outbox[d] /\ closing'[d] = closing[d]
    BY <1>1, <1>8 DEF Destroying, DestroyFails, DestroyNothing, Unlists, TornDown, Finish, KindInv
  <2>3. work'[d] = work[d] \/ (work[d] = "serving" /\ work'[d] = "stopped")
    BY <1>8 DEF Destroying, DestroyFails, DestroyNothing, Unlists, TornDown
  <2> QED
    BY <2>1, <2>2, <2>3
<1> QED
  BY <1>3, <1>4, <1>5, <1>6, <1>7, <1>8 DEF Environment, Server

\* ---- The other types

\* A signal more.
LEMMA SignalsKeep ==
    ASSUME SizeInv, NEW c \in Procs, Signalled(c)
    PROVE  signals' \in [Procs -> 0..MaxSignals] /\ IsFiniteSet(AllSignals')
<1>1. /\ signals \in [Procs -> 0..MaxSignals] /\ IsFiniteSet(AllSignals) /\ MaxSignals \in Nat
      /\ Cardinality(AllSignals) < MaxSignals
      /\ signals' = [signals EXCEPT ![c] = signals[c] + 1]
  BY CommandsAssumption DEF SizeInv, Signalled
<1>2. signals[c] < MaxSignals
  <2> SUFFICES ASSUME ~(signals[c] < MaxSignals) PROVE FALSE
    OBVIOUS
  <2>1. signals[c] = MaxSignals
    BY <1>1
  <2> DEFINE Own == {c} \X (1..MaxSignals)
  <2>2. Own \subseteq AllSignals
    BY <1>1, <2>1 DEF AllSignals
  <2>3. IsFiniteSet(Own) /\ Cardinality(Own) = MaxSignals
    <3>1. IsFiniteSet({c}) /\ Cardinality({c}) = 1
      BY FS_Singleton
    <3>2. IsFiniteSet(1..MaxSignals) /\ Cardinality(1..MaxSignals) = MaxSignals
      BY <1>1, FS_Interval
    <3>3. IsFiniteSet(Own) /\ Cardinality(Own) = Cardinality({c}) * Cardinality(1..MaxSignals)
      BY <3>1, <3>2, FS_Product
    <3> QED
      BY <1>1, <3>1, <3>2, <3>3
  <2>4. Cardinality(Own) <= Cardinality(AllSignals)
    BY <1>1, <2>2, FS_Subset
  <2>5. Cardinality(AllSignals) \in Nat
    BY <1>1, FS_CardinalityType
  <2> QED
    BY <1>1, <2>3, <2>4, <2>5
<1>3. signals' \in [Procs -> 0..MaxSignals]
  BY <1>1, <1>2
<1>4. AllSignals' \subseteq AllSignals \cup {<<c, signals[c] + 1>>}
  <2> SUFFICES ASSUME NEW d \in Procs, NEW i \in 1..MaxSignals, i <= signals'[d]
               PROVE  i <= signals[d] \/ (d = c /\ i = signals[c] + 1)
    BY DEF AllSignals
  <2>1. signals'[d] = IF d = c THEN signals[c] + 1 ELSE signals[d]
    BY <1>1
  <2>2. signals[d] \in Nat /\ signals[c] \in Nat /\ i \in Nat
    BY <1>1
  <2> QED
    BY <2>1, <2>2
<1>5. IsFiniteSet(AllSignals')
  <2>1. IsFiniteSet(AllSignals \cup {<<c, signals[c] + 1>>})
    BY <1>1, FS_AddElement
  <2> QED
    BY <1>4, <2>1, FS_Subset
<1> QED
  BY <1>3, <1>5

LEMMA SizeInvNext ==
    ASSUME KindInv, SizeInv, NEW c \in Procs, UNCHANGED role,
           Environment(c) \/ Client(c) \/ Server(c) \/ Rebind(c) \/ ProcessEnds(c)
    PROVE  SizeInv'
<1>1. ASSUME UNCHANGED signals
      PROVE  signals' \in [Procs -> 0..MaxSignals] /\ IsFiniteSet(AllSignals')
  BY <1>1 DEF SizeInv, AllSignals
<1>2. Name(c) \in Names /\ Found(c) \in Tunnels \cup {None} /\ Lazy(c) \in Tunnels
  BY CommandsAssumption DEF KindInv, Name, Roles, Found, Lazy, Tunnels
<1>3. \A stage \in Life!Stages : \A t : Life!Move(t, stage) => life' \in [Tunnels -> Life!Stages]
  BY DEF SizeInv, Life!Move
<1>4. "held" \in Life!Stages /\ "closing" \in Life!Stages /\ "gone" \in Life!Stages
  BY DEF Life!Stages
<1>5. CASE Launch(c)
  BY <1>1, <1>5 DEF Launch, SizeInv, processes, destroys, tunnels
<1>6. CASE ForwardSignal(c) \/ StopSignal(c) \/ Interrupt(c) \/ Terminate(c)
  <2>1. Signalled(c) /\ UNCHANGED <<tun, proc, tearing, shut, life>>
    BY <1>6 DEF ForwardSignal, StopSignal, Interrupt, Terminate, Signalled,
                processes, destroys, tunnels
  <2> QED
    BY <2>1, SignalsKeep DEF SizeInv
<1>7. CASE Client(c)
  <2>1. UNCHANGED <<signals, tun, proc, tearing, shut, life>>
    BY <1>7 DEF Client, HearRegions, HearCreated, HearFound, HearStarted, HearIdly, HearEnd,
                HearDestroyed, Released, Hear, processes, destroys, tunnels
  <2> QED
    BY <1>1, <2>1 DEF SizeInv
<1>8. CASE Handle(c)
  <2>1. UNCHANGED <<signals, proc, tearing, life>>
    BY <1>8 DEF Handle, ListRegions, ListTunnels, SetUpTunnel, RunProcess, KillProcess,
                DestroyTunnel, Take, command, processes, destroys
  <2>2. tun' \in [Procs -> Tunnels \cup {None}]
    BY <1>2, <1>8 DEF Handle, ListRegions, ListTunnels, SetUpTunnel, RunProcess, KillProcess,
                      DestroyTunnel, SizeInv
  <2>3. shut' \subseteq Names
    BY <1>2, <1>8 DEF Handle, ListRegions, ListTunnels, SetUpTunnel, RunProcess, KillProcess,
                      DestroyTunnel, destroys, SizeInv
  <2> QED
    BY <1>1, <2>1, <2>2, <2>3 DEF SizeInv
<1>9. CASE Setup(c)
  <2>1. UNCHANGED <<signals, proc, tearing, shut>>
    BY <1>9 DEF Setup, Acquires, Lists, Fails, command, processes, destroys
  <2>2. tun' \in [Procs -> Tunnels \cup {None}]
    BY <1>2, <1>9 DEF Setup, Acquires, Lists, Fails, SizeInv
  <2>3. life' \in [Tunnels -> Life!Stages]
    <3>1. UNCHANGED life \/ \E stage \in Life!Stages : \E t : Life!Move(t, stage)
      <4>1. \E t : Life!Acquire(t) \/ Life!List(t, Name(c)) \/ Life!Abandon(t) \/ Life!Release(t)
        BY <1>9 DEF Setup, Acquires, Lists, Fails
      <4>2. PICK t : Life!Acquire(t) \/ Life!List(t, Name(c)) \/ Life!Abandon(t) \/ Life!Release(t)
        BY <4>1
      <4>3. UNCHANGED life \/ Life!Move(t, "held") \/ Life!Move(t, "gone")
        BY <4>2 DEF Life!Acquire, Life!List, Life!Abandon, Life!Release
      <4> QED
        BY <1>4, <4>3
    <3> QED
      BY <1>3, <3>1 DEF SizeInv
  <2> QED
    BY <1>1, <2>1, <2>2, <2>3 DEF SizeInv
<1>10. CASE Running(c) \/ StartAnswers(c) \/ Rebind(c) \/ ProcessEnds(c)
  <2>1. UNCHANGED <<signals, tun, tearing, shut, life>>
    BY <1>10 DEF Running, NotSpawned, Spawns, RunAnswers, StartAnswers, Rebind, ProcessEnds,
                 command, destroys, tunnels
  <2>2. proc' \in [Procs -> {"none", "first", "between", "later", "ended"}]
    BY <1>10 DEF Running, NotSpawned, Spawns, RunAnswers, StartAnswers, Rebind, ProcessEnds,
                 processes, SizeInv
  <2> QED
    BY <1>1, <2>1, <2>2 DEF SizeInv
<1>11. CASE Destroying(c)
  <2>1. UNCHANGED <<signals, tun, proc>>
    BY <1>11 DEF Destroying, DestroyFails, DestroyNothing, Unlists, TornDown, Finish, command,
                 processes
  <2>2. tearing' \in [Procs -> Tunnels \cup {None}] /\ shut' \subseteq Names
    BY <1>2, <1>11 DEF Destroying, DestroyFails, DestroyNothing, Unlists, TornDown, Finish,
                       SizeInv
  <2>3. life' \in [Tunnels -> Life!Stages]
    <3>1. UNCHANGED life \/ \E stage \in Life!Stages : \E t : Life!Move(t, stage)
      <4>1. UNCHANGED life \/ Life!Unlist(Name(c)) \/ Life!Release(tearing[c])
        BY <1>11 DEF Destroying, DestroyFails, DestroyNothing, Unlists, TornDown, tunnels
      <4>2. \/ UNCHANGED life
            \/ Life!Move(listed[Name(c)], "closing") \/ Life!Move(tearing[c], "gone")
        BY <4>1 DEF Life!Unlist, Life!Release
      <4> QED
        BY <1>4, <4>2
    <3> QED
      BY <1>3, <3>1 DEF SizeInv
  <2> QED
    BY <1>1, <2>1, <2>2, <2>3 DEF SizeInv
<1> QED
  BY <1>5, <1>6, <1>7, <1>8, <1>9, <1>10, <1>11 DEF Environment, Server, Handler

\* ---- The invariant

LEMMA TurnInvInit == Init => TurnInv
<1> SUFFICES ASSUME Init PROVE TurnInv
  OBVIOUS
<1>1. SizeInv
  <2>1. AllSignals = {}
    BY CommandsAssumption DEF Init, AllSignals
  <2>2. IsFiniteSet(AllSignals)
    BY <2>1, FS_EmptySet
  <2>3. life \in [Tunnels -> Life!Stages]
    BY DEF Init, Life!Init, Life!Stages
  <2> QED
    BY <2>2, <2>3, CommandsAssumption DEF Init, SizeInv
<1>2. ASSUME NEW c \in Procs PROVE Turns(c)
  <2>1. /\ pc[c] = "idle" /\ signals[c] = 0 /\ owed[c] = 0 /\ ~created[c]
        /\ inbox[c] = <<>> /\ outbox[c] = <<>> /\ work[c] = "none" /\ proc[c] = "none"
        /\ closing[c] = "none"
    BY DEF Init
  <2>2. /\ \A K : ~Has(inbox[c], K) /\ One(inbox[c], K)
        /\ \A K : ~Has(outbox[c], K) /\ One(outbox[c], K)
        /\ Len(inbox[c]) = 0
    BY <2>1, NothingThere, EmptySeq
  <2> QED
    BY <2>1, <2>2 DEF Turns, OneAtATime, ToldOnce, UndoneOnce, Kept
<1> QED
  BY <1>1, <1>2 DEF TurnInv

LEMMA TurnInvNext == KindInv /\ TurnInv /\ [Next]_vars => TurnInv'
<1> SUFFICES ASSUME KindInv, TurnInv, [Next]_vars PROVE TurnInv'
  OBVIOUS
<1>0. SizeInv /\ \A c \in Procs : Turns(c)
  BY DEF TurnInv
<1>1. CASE UNCHANGED vars
  <2>1. SizeInv'
    BY <1>0, <1>1 DEF SizeInv, AllSignals, vars, command, processes, destroys, tunnels
  <2>2. ASSUME NEW d \in Procs PROVE Turns(d)'
    <3>1. Turns(d)
      BY <1>0
    <3> QED
      BY <1>1, <3>1, TurnsOfOthers DEF vars, command, processes, destroys
  <2> QED
    BY <2>1, <2>2 DEF TurnInv
<1>2. CASE Next
  <2>1. PICK c \in Procs :
          /\ Environment(c) \/ Client(c) \/ Server(c) \/ Rebind(c) \/ ProcessEnds(c)
          /\ UNCHANGED role
    BY <1>2 DEF Next
  <2>2. SizeInv'
    BY <1>0, <2>1, SizeInvNext
  <2>3. Turns(c)'
    <3>1. Turns(c)
      BY <1>0
    <3> QED
      BY <1>0, <2>1, <3>1, LaunchTurns, SignalTurns, ClientTurns, HandleTurns, HandlerTurns,
         DestroyingTurns DEF Environment, Server
  <2>4. ASSUME NEW d \in Procs \ {c} PROVE Turns(d)'
    <3>1. Turns(d)
      BY <1>0
    <3> QED
      BY <1>0, <2>1, <3>1, OneStep, TurnsOfOthers
  <2> QED
    BY <2>2, <2>3, <2>4 DEF TurnInv
<1> QED
  BY <1>1, <1>2

LEMMA TurnInvHolds == Spec => [](KindInv /\ TurnInv)
<1>1. Init => TurnInv
  BY TurnInvInit
<1>2. CommandsInv => KindInv
  BY DEF CommandsInv
<1> QED
  BY <1>1, <1>2, CommandsInvHolds, TurnInvNext, PTL DEF Spec

\* A queue of four classes of messages with one of each has four at most.
LEMMA FourClasses ==
    ASSUME NEW s \in Seq(Answers), One(s, Replies), One(s, Ends), One(s, Started), One(s, Restarted)
    PROVE  Len(s) <= 4
<1>1. PICK n \in Nat : n = Len(s)
  BY LenProperties
<1>2. DOMAIN s = 1..n /\ \A i \in 1..n : s[i] \in Answers
  BY <1>1, LenProperties
<1> SUFFICES ASSUME ~(n <= 4) PROVE FALSE
  BY <1>1
<1>3. 1 \in 1..n /\ 2 \in 1..n /\ 3 \in 1..n /\ 4 \in 1..n /\ 5 \in 1..n
  OBVIOUS
<1>4. \A i \in 1..n : \/ s[i] \in Replies \/ s[i] \in Ends \/ s[i] \in Started \/ s[i] \in Restarted
  BY <1>2 DEF Answers, Replies, Ends, Started, Restarted
<1>5. \A i, j \in 1..n : /\ s[i] \in Replies /\ s[j] \in Replies => i = j
                         /\ s[i] \in Ends /\ s[j] \in Ends => i = j
                         /\ s[i] \in Started /\ s[j] \in Started => i = j
                         /\ s[i] \in Restarted /\ s[j] \in Restarted => i = j
  BY <1>2 DEF One
<1> QED
  BY <1>3, <1>4, <1>5

\* The commands' types: among them, that a command gets no more messages than it
\* can still be waiting for, and sends no more than one request at a time, one
\* destroy and its signals.
THEOREM CommandTypesHold == Spec => []TypeOK
<1>1. KindInv /\ TurnInv => TypeOK
  <2> SUFFICES ASSUME KindInv, TurnInv PROVE TypeOK
    OBVIOUS
  <2>1. ASSUME NEW c \in Procs PROVE Len(outbox[c]) <= 4
    <3>1. outbox[c] \in Seq(Answers) /\ Turns(c)
      BY DEF KindInv, TurnInv
    <3> QED
      BY <3>1, FourClasses DEF Turns, OneAtATime, ToldOnce, UndoneOnce
  <2>2. ASSUME NEW c \in Procs, Kind(c) # "start"
        PROVE  Len(inbox[c]) <= MaxSignals + 1 /\ owed[c] \in 0..MaxSignals
    <3>1. /\ Len(inbox[c]) \in Nat /\ owed[c] \in Nat /\ signals[c] \in 0..MaxSignals
          /\ MaxSignals \in Nat
      BY LenProperties, CommandsAssumption DEF KindInv, TurnInv, SizeInv
    <3>2. \/ Len(inbox[c]) + owed[c] <= signals[c]
          \/ inbox[c] # <<>> /\ Len(inbox[c]) + owed[c] <= signals[c] + 1
      <4>1. Kept(c)
        BY DEF TurnInv, Turns
      <4>2. Has(inbox[c], Requests) \/ Has(inbox[c], Undo) => inbox[c] # <<>>
        BY NothingThere
      <4> QED
        BY <2>2, <3>1, <4>1, <4>2 DEF Kept
    <3>3. inbox[c] # <<>> => Len(inbox[c]) # 0
      BY EmptySeq DEF KindInv
    <3> QED
      BY <3>1, <3>2, <3>3
  <2>3. ASSUME NEW c \in Procs, Kind(c) = "start"
        PROVE  Len(inbox[c]) <= 2 /\ owed[c] \in 0..MaxSignals
    <3>1. owed[c] = 0 /\ MaxSignals \in Nat
      BY <2>3, CommandsAssumption DEF TurnInv, Turns, Kept
    <3>2. /\ inbox[c] \in Seq(Sendable) /\ One(inbox[c], Requests) /\ One(inbox[c], Undo)
          /\ ~Has(inbox[c], Kill)
      BY <2>3 DEF KindInv, TurnInv, Turns, Kept, OneAtATime, UndoneOnce
    <3>3. PICK n \in Nat : n = Len(inbox[c])
      BY <3>2, LenProperties
    <3>4. DOMAIN inbox[c] = 1..n /\ \A i \in 1..n : inbox[c][i] \in Sendable
      BY <3>2, <3>3, LenProperties
    <3>5. \A i \in 1..n : inbox[c][i] \in Requests \/ inbox[c][i] \in Undo
      BY <3>2, <3>4 DEF Has, Sendable, Requests, Undo, Kill
    <3>6. \A i, j \in 1..n : /\ inbox[c][i] \in Requests /\ inbox[c][j] \in Requests => i = j
                             /\ inbox[c][i] \in Undo /\ inbox[c][j] \in Undo => i = j
      BY <3>2, <3>4 DEF One
    <3>7. n <= 2
      <4> SUFFICES ASSUME ~(n <= 2) PROVE FALSE
        OBVIOUS
      <4>1. 1 \in 1..n /\ 2 \in 1..n /\ 3 \in 1..n
        OBVIOUS
      <4> QED
        BY <3>5, <3>6, <4>1
    <3> QED
      BY <3>1, <3>3, <3>7
  <2>4. owed \in [Procs -> 0..MaxSignals]
    BY <2>2, <2>3 DEF KindInv
  <2>5. \A c \in Procs : Len(inbox[c]) <= IF Kind(c) = "start" THEN 2 ELSE MaxSignals + 1
    BY <2>2, <2>3
  <2> QED
    BY <2>1, <2>4, <2>5 DEF TypeOK, KindInv, TurnInv, SizeInv
<1> QED
  BY <1>1, TurnInvHolds, PTL
=============================================================================
