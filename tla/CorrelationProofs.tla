-------------------------- MODULE CorrelationProofs --------------------------
(* Proofs about Correlation, for any number of requests on the connection, any *)
(* event types and any declaration of them.                                    *)
EXTENDS Correlation, SequenceTheorems, TLAPS

\* A request is on its way to the server at most once, and only before its
\* handler begins; a handler begins only for a request that was made.
UpInv ==
    /\ IsInjective(up)
    /\ \A i \in DOMAIN up : handler[up[i]] = "none" /\ caller[up[i]] # "idle"
    /\ \A r \in Requests : handler[r] # "none" => caller[r] # "idle"

\* What the server sent says how the handler ended.
DownInv ==
    \A i \in DOMAIN down :
        /\ down[i].kind = "event" => down[i].type \in EventTypes
        /\ down[i].kind = "response" => handler[down[i].of] = "returned"
        /\ down[i].kind = "failure" => handler[down[i].of] = "raised"

\* So does the future.
FutureInv ==
    \A r \in Requests :
        /\ future[r] = "result" => handler[r] = "returned"
        /\ future[r] = "failed" => handler[r] = "raised"
        /\ caller[r] = "waiting" => future[r] # "none"

\* Only who waits is routed to; the loop hands out nothing but events.
RoutingInv ==
    /\ \A e \in EventTypes : \A i \in 1..Len(routing[e]) :
          caller[routing[e][i]] = "waiting"
    /\ receiving.state = "events" =>
          receiving.frame \in Frames /\ receiving.frame.kind = "event"

\* Who got a response is no longer pending and never is again.
HandedInv ==
    \A r \in Requests :
        /\ r \in pending => caller[r] # "idle"
        /\ (\E i \in 1..Len(handed[r]) : handed[r][i].kind = "response")
              => r \notin pending /\ caller[r] # "idle"

CorrInv ==
    TypeOK /\ UpInv /\ DownInv /\ FutureInv /\ RoutingInv /\ HandedInv
    /\ AnswerIsOwn /\ ResponseIsLast /\ RoutingIsCurrent

\* ---- Sequences

\* What a list holds once an element it did not hold is appended.
LEMMA AppendFacts ==
    ASSUME NEW S, NEW s \in Seq(S), NEW x \in S
    PROVE  /\ Append(s, x) \in Seq(S)
           /\ Len(s) \in Nat /\ Len(Append(s, x)) = Len(s) + 1
           /\ DOMAIN s = 1..Len(s) /\ DOMAIN Append(s, x) = 1..(Len(s) + 1)
           /\ \A i \in 1..Len(s) : Append(s, x)[i] = s[i]
           /\ Append(s, x)[Len(s) + 1] = x
           /\ \A i \in 1..(Len(s) + 1) : i \in 1..Len(s) \/ i = Len(s) + 1
           /\ \A i \in 1..Len(s) : i \in 1..(Len(s) + 1)
           /\ Len(s) + 1 \in 1..(Len(s) + 1)
<1>1. Len(s) \in Nat
  BY LenProperties
<1>2. /\ Append(s, x) \in Seq(S) /\ Len(Append(s, x)) = Len(s) + 1
      /\ \A i \in 1..Len(s) : Append(s, x)[i] = s[i]
      /\ Append(s, x)[Len(s) + 1] = x
  BY AppendProperties
<1>3. DOMAIN s = 1..Len(s) /\ DOMAIN Append(s, x) = 1..(Len(s) + 1)
  BY <1>2, LenProperties
<1>4. /\ \A i \in 1..(Len(s) + 1) : i \in 1..Len(s) \/ i = Len(s) + 1
      /\ \A i \in 1..Len(s) : i \in 1..(Len(s) + 1)
      /\ Len(s) + 1 \in 1..(Len(s) + 1)
  BY <1>1
<1> QED
  BY <1>1, <1>2, <1>3, <1>4

\* Appended to a list that does not hold it, an element is in it once.
LEMMA AppendOnce ==
    ASSUME NEW S, NEW s \in Seq(S), NEW x \in S, IsInjective(s),
           \A i \in 1..Len(s) : s[i] # x
    PROVE  IsInjective(Append(s, x))
<1> DEFINE n == Len(s)
           t == Append(s, x)
<1>1. /\ n \in Nat /\ DOMAIN s = 1..n /\ DOMAIN t = 1..(n + 1)
      /\ \A i \in 1..n : t[i] = s[i]
      /\ t[n + 1] = x
      /\ \A i \in 1..(n + 1) : i \in 1..n \/ i = n + 1
  BY AppendFacts
<1>2. \A i, j \in 1..n : s[i] = s[j] => i = j
  BY <1>1 DEF IsInjective
<1>3. \A i \in 1..n : s[i] # x
  OBVIOUS
<1> HIDE DEF n, t
<1>4. IsInjective(t)
  BY <1>1, <1>2, <1>3 DEF IsInjective
<1> QED
  BY <1>4 DEF t

\* What remains once the head is taken.
LEMMA TailFacts ==
    ASSUME NEW S, NEW s \in Seq(S), s # <<>>
    PROVE  /\ Tail(s) \in Seq(S) /\ Head(s) \in S
           /\ 1 \in DOMAIN s /\ Head(s) = s[1]
           /\ \A i \in DOMAIN Tail(s) :
                 i + 1 \in DOMAIN s /\ Tail(s)[i] = s[i + 1] /\ i + 1 # 1
           /\ DOMAIN Tail(s) \subseteq Nat
<1>1. /\ Head(s) \in S /\ Tail(s) \in Seq(S) /\ Len(Tail(s)) = Len(s) - 1
      /\ \A i \in 1..Len(Tail(s)) : Tail(s)[i] = s[i + 1]
  BY HeadTailProperties
<1>2. Len(s) \in Nat /\ Len(s) # 0
  BY EmptySeq
<1>3. DOMAIN s = 1..Len(s) /\ DOMAIN Tail(s) = 1..(Len(s) - 1)
  BY <1>1, LenProperties
<1>4. \A i \in 1..(Len(s) - 1) : i + 1 \in 1..Len(s) /\ i + 1 # 1 /\ i \in Nat
  BY <1>2
<1>5. 1 \in 1..Len(s)
  BY <1>2
<1>6. Head(s) = s[1]
  OBVIOUS
<1> QED
  BY <1>1, <1>3, <1>4, <1>5, <1>6

\* The tail of a list without repetitions has none, nor the head.
LEMMA TailInjective ==
    ASSUME NEW S, NEW s \in Seq(S), s # <<>>, IsInjective(s)
    PROVE  /\ IsInjective(Tail(s))
           /\ \A i \in DOMAIN Tail(s) : Tail(s)[i] # Head(s)
<1> DEFINE t == Tail(s)
           h == Head(s)
<1>1. /\ 1 \in DOMAIN s /\ h = s[1]
      /\ \A i \in DOMAIN t : i + 1 \in DOMAIN s /\ t[i] = s[i + 1] /\ i + 1 # 1
      /\ DOMAIN t \subseteq Nat
  BY TailFacts
<1>2. \A i, j \in DOMAIN s : s[i] = s[j] => i = j
  BY DEF IsInjective
<1> HIDE DEF t, h
<1>3. \A i, j \in DOMAIN t : t[i] = t[j] => i = j
  <2> SUFFICES ASSUME NEW i \in DOMAIN t, NEW j \in DOMAIN t, t[i] = t[j]
               PROVE  i = j
    OBVIOUS
  <2>1. s[i + 1] = s[j + 1]
    BY <1>1
  <2>2. i + 1 = j + 1
    BY <1>1, <1>2, <2>1
  <2> QED
    BY <1>1, <2>2
<1>4. \A i \in DOMAIN t : t[i] # h
  BY <1>1, <1>2
<1> QED
  BY <1>3, <1>4 DEF t, h, IsInjective

\* RemoveAt takes one element out and leaves the others, once each.
LEMMA RemoveFacts ==
    ASSUME NEW S, NEW s \in Seq(S), IsInjective(s), NEW k \in DOMAIN s
    PROVE  /\ RemoveAt(s, k) \in Seq(S) /\ IsInjective(RemoveAt(s, k))
           /\ \A i \in 1..Len(RemoveAt(s, k)) :
                 \E j \in 1..Len(s) : s[j] = RemoveAt(s, k)[i] /\ j # k
           /\ \A j \in 1..Len(s) : j # k =>
                 \E i \in 1..Len(RemoveAt(s, k)) : RemoveAt(s, k)[i] = s[j]
<1> DEFINE n == Len(s)
           a == SubSeq(s, 1, k - 1)
           b == SubSeq(s, k + 1, n)
           t == a \o b
<1>1. n \in Nat /\ DOMAIN s = 1..n /\ \A i \in 1..n : s[i] \in S
  BY LenProperties
<1>2. k \in 1..n
  BY <1>1
<1> HIDE DEF n
<1>3. /\ 1 \in Int /\ k - 1 \in Int /\ k + 1 \in Int /\ n \in Int /\ k \in Nat
      /\ \A i \in 1..(k - 1) : i \in 1..n
      /\ \A i \in (k + 1)..n : i \in 1..n
  BY <1>1, <1>2
<1>4. /\ a \in Seq(S)
      /\ Len(a) = IF 1 <= k - 1 THEN (k - 1) - 1 + 1 ELSE 0
      /\ \A i \in 1..((k - 1) - 1 + 1) : a[i] = s[1 + i - 1]
  <2> DEFINE m == k - 1
  <2>1. 1 \in Int /\ m \in Int /\ \A i \in 1..m : s[i] \in S
    BY <1>1, <1>3
  <2> HIDE DEF m
  <2>2. /\ SubSeq(s, 1, m) \in Seq(S)
        /\ Len(SubSeq(s, 1, m)) = IF 1 <= m THEN m - 1 + 1 ELSE 0
        /\ \A i \in 1..(m - 1 + 1) : SubSeq(s, 1, m)[i] = s[1 + i - 1]
    BY <2>1, SubSeqProperties
  <2> QED
    BY <2>2 DEF m
<1>5. /\ b \in Seq(S)
      /\ Len(b) = IF k + 1 <= n THEN n - (k + 1) + 1 ELSE 0
      /\ \A i \in 1..(n - (k + 1) + 1) : b[i] = s[(k + 1) + i - 1]
  <2> DEFINE m == k + 1
  <2>1. m \in Int /\ n \in Int /\ \A i \in m..n : s[i] \in S
    BY <1>1, <1>3
  <2> HIDE DEF m
  <2>2. /\ SubSeq(s, m, n) \in Seq(S)
        /\ Len(SubSeq(s, m, n)) = IF m <= n THEN n - m + 1 ELSE 0
        /\ \A i \in 1..(n - m + 1) : SubSeq(s, m, n)[i] = s[m + i - 1]
    BY <2>1, SubSeqProperties
  <2> QED
    BY <2>2 DEF m
<1> HIDE DEF a, b
<1>6. Len(a) = k - 1 /\ \A i \in 1..(k - 1) : a[i] = s[i]
  <2>1. (k - 1) - 1 + 1 = k - 1 /\ (~(1 <= k - 1) => k - 1 = 0)
        /\ \A i \in 1..(k - 1) : 1 + i - 1 = i
    BY <1>2, <1>3
  <2> QED
    BY <1>4, <2>1
<1>7. Len(b) = n - k /\ \A i \in 1..(n - k) : b[i] = s[k + i]
  <2>1. n - (k + 1) + 1 = n - k /\ (~(k + 1 <= n) => n - k = 0)
        /\ \A i \in 1..(n - k) : (k + 1) + i - 1 = k + i
    BY <1>1, <1>2, <1>3
  <2> QED
    BY <1>5, <2>1
<1>8. /\ t \in Seq(S)
      /\ Len(t) = Len(a) + Len(b)
      /\ \A i \in 1..(Len(a) + Len(b)) :
            t[i] = IF i <= Len(a) THEN a[i] ELSE b[i - Len(a)]
  BY <1>4, <1>5, ConcatProperties
<1> HIDE DEF t
<1>9. Len(t) = n - 1
  BY <1>1, <1>3, <1>6, <1>7, <1>8
<1>10. DOMAIN t = 1..(n - 1)
  BY <1>8, <1>9, LenProperties
<1>11. \A i \in 1..(n - 1) : i < k => t[i] = s[i]
  <2> SUFFICES ASSUME NEW i \in 1..(n - 1), i < k
               PROVE  t[i] = s[i]
    OBVIOUS
  <2>1. i \in 1..(Len(a) + Len(b)) /\ i <= Len(a) /\ i \in 1..(k - 1)
    BY <1>1, <1>2, <1>6, <1>7
  <2> QED
    BY <1>6, <1>8, <2>1
<1>12. \A i \in 1..(n - 1) : i >= k => t[i] = s[i + 1]
  <2> SUFFICES ASSUME NEW i \in 1..(n - 1), i >= k
               PROVE  t[i] = s[i + 1]
    OBVIOUS
  <2>1. i \in 1..(Len(a) + Len(b)) /\ ~(i <= Len(a))
    BY <1>1, <1>2, <1>6, <1>7
  <2>2. i - Len(a) \in 1..(n - k) /\ k + (i - Len(a)) = i + 1
    BY <1>1, <1>2, <1>6
  <2> QED
    BY <1>7, <1>8, <2>1, <2>2
<1>13. \A i \in 1..(n - 1) : (i < k \/ i >= k) /\ i \in 1..n /\ i + 1 \in 1..n
  BY <1>1, <1>2
<1>14. \A i, j \in 1..n : s[i] = s[j] => i = j
  BY <1>1 DEF IsInjective
<1>15. IsInjective(t)
  <2> SUFFICES ASSUME NEW i \in 1..(n - 1), NEW j \in 1..(n - 1), t[i] = t[j]
               PROVE  i = j
    BY <1>10 DEF IsInjective
  <2>1. CASE i < k /\ j < k
    BY <2>1, <1>11, <1>13, <1>14
  <2>2. CASE i < k /\ j >= k
    <3>1. s[i] = s[j + 1]
      BY <2>2, <1>11, <1>12
    <3>2. i = j + 1
      BY <3>1, <1>13, <1>14
    <3> QED
      BY <3>2, <2>2, <1>3
  <2>3. CASE i >= k /\ j < k
    <3>1. s[i + 1] = s[j]
      BY <2>3, <1>11, <1>12
    <3>2. i + 1 = j
      BY <3>1, <1>13, <1>14
    <3> QED
      BY <3>2, <2>3, <1>3
  <2>4. CASE i >= k /\ j >= k
    <3>1. s[i + 1] = s[j + 1]
      BY <2>4, <1>12
    <3>2. i + 1 = j + 1
      BY <3>1, <1>13, <1>14
    <3> QED
      BY <3>2
  <2> QED
    BY <1>13, <2>1, <2>2, <2>3, <2>4
<1>16. \A i \in 1..(n - 1) : \E j \in 1..n : s[j] = t[i] /\ j # k
  <2> SUFFICES ASSUME NEW i \in 1..(n - 1)
               PROVE  \E j \in 1..n : s[j] = t[i] /\ j # k
    OBVIOUS
  <2>1. CASE i < k
    BY <2>1, <1>11, <1>13
  <2>2. CASE i >= k
    <3>1. i + 1 # k /\ i + 1 \in 1..n /\ s[i + 1] = t[i]
      BY <2>2, <1>3, <1>12, <1>13
    <3> QED
      BY <3>1
  <2> QED
    BY <1>13, <2>1, <2>2
<1>17. \A j \in 1..n : j # k => \E i \in 1..(n - 1) : t[i] = s[j]
  <2> SUFFICES ASSUME NEW j \in 1..n, j # k
               PROVE  \E i \in 1..(n - 1) : t[i] = s[j]
    OBVIOUS
  <2>1. CASE j < k
    <3>1. j \in 1..(n - 1)
      BY <2>1, <1>1, <1>2
    <3> QED
      BY <2>1, <3>1, <1>11
  <2>2. CASE j > k
    <3>1. j - 1 \in 1..(n - 1) /\ j - 1 >= k /\ (j - 1) + 1 = j
      BY <2>2, <1>1, <1>2
    <3>2. t[j - 1] = s[j]
      BY <3>1, <1>12
    <3> QED
      BY <3>1, <3>2
  <2> QED
    BY <2>1, <2>2, <1>2
<1>18. RemoveAt(s, k) = t
  BY DEF RemoveAt, t, a, b, n
<1> QED
  BY <1>8, <1>9, <1>15, <1>16, <1>17, <1>18 DEF n

\* ---- The invariant

LEMMA CorrInvInit == Init => CorrInv
<1> SUFFICES ASSUME Init PROVE CorrInv
  OBVIOUS
<1>1. /\ \A S : <<>> \in Seq(S)
      /\ Len(<<>>) = 0 /\ DOMAIN <<>> = {} /\ 1..0 = {} /\ IsInjective(<<>>)
  <2>1. /\ \A S : <<>> \in Seq(S)
        /\ Len(<<>>) = 0 /\ 1..0 = {}
    BY EmptySeq
  <2>2. DOMAIN <<>> = {}
    BY <2>1, LenProperties
  <2> QED
    BY <2>1, <2>2 DEF IsInjective
<1>2. TypeOK
  BY <1>1 DEF Init, TypeOK, Idle
<1>3. UpInv /\ DownInv
  BY <1>1 DEF Init, UpInv, DownInv
<1>4. FutureInv /\ HandedInv /\ AnswerIsOwn /\ ResponseIsLast
  BY <1>1 DEF Init, FutureInv, HandedInv, AnswerIsOwn, ResponseIsLast
<1>5. RoutingInv /\ RoutingIsCurrent
  BY <1>1, EventsAssumption DEF Init, RoutingInv, RoutingIsCurrent, Idle
<1> QED
  BY <1>2, <1>3, <1>4, <1>5 DEF CorrInv

ListsHoldRequests ==
    /\ \A i \in DOMAIN up : up[i] \in Requests
    /\ \A i \in DOMAIN down : down[i] \in Frames /\ down[i].of \in Requests
    /\ \A e \in EventTypes : \A i \in 1..Len(routing[e]) : routing[e][i] \in Requests

LEMMA ListsHoldRequestsOnly == TypeOK => ListsHoldRequests
<1> SUFFICES ASSUME TypeOK PROVE ListsHoldRequests
  OBVIOUS
<1>1. \A i \in DOMAIN up : up[i] \in Requests
  BY LenProperties, ElementOfSeq DEF TypeOK
<1>2. \A i \in DOMAIN down : down[i] \in Frames
  BY LenProperties, ElementOfSeq DEF TypeOK
<1>3. \A e \in EventTypes : \A i \in 1..Len(routing[e]) : routing[e][i] \in Requests
  BY ElementOfSeq DEF TypeOK
<1> QED
  BY <1>1, <1>2, <1>3 DEF ListsHoldRequests, Frames

\* ---- The callers

LEMMA RequestKeeps ==
    ASSUME CorrInv, NEW r \in Requests, Request(r)
    PROVE  CorrInv'
<1> USE DEF CorrInv
<1>1. /\ caller[r] = "idle" /\ handler[r] = "none"
      /\ \A i \in DOMAIN up : up[i] # r
      /\ \A e \in EventTypes : \A i \in 1..Len(routing[e]) : routing[e][i] # r
      /\ \A i \in 1..Len(handed[r]) : handed[r][i].kind # "response"
      /\ \A i \in DOMAIN up : up[i] \in Requests
      /\ \A e \in EventTypes : \A i \in 1..Len(routing[e]) : routing[e][i] \in Requests
  <2>1. /\ caller[r] = "idle" /\ handler[r] = "none"
        /\ \A i \in DOMAIN up : up[i] # r
        /\ \A e \in EventTypes : \A i \in 1..Len(routing[e]) : routing[e][i] # r
        /\ \A i \in 1..Len(handed[r]) : handed[r][i].kind # "response"
    BY DEF Request, UpInv, RoutingInv, HandedInv, TypeOK
  <2>2. ListsHoldRequests
    BY ListsHoldRequestsOnly
  <2> QED
    BY <2>1, <2>2 DEF ListsHoldRequests
<1>2. /\ caller' \in [Requests -> {"idle", "waiting", "unsent", "result", "failed", "closed",
                                   "cancelled"}]
      /\ future' \in [Requests -> {"none", "pending", "result", "failed", "closed", "cancelled"}]
      /\ pending' \subseteq Requests
      /\ caller'[r] \in {"waiting", "unsent"} /\ future'[r] = "pending"
      /\ \A q \in Requests \ {r} : caller'[q] = caller[q] /\ future'[q] = future[q]
      /\ \A q \in Requests : q \in pending' <=> q \in pending \/ q = r
      /\ UNCHANGED <<receiving, handed, open, raising, down, handler, emitted>>
  BY DEF Request, TypeOK, server
<1>3. CASE open = {"client", "server"}
  <2>1. /\ caller'[r] = "waiting"
        /\ routing' = Register(r) /\ up' = Append(up, r)
    BY <1>3 DEF Request, TypeOK
  <2>2. /\ up' \in Seq(Requests) /\ IsInjective(up')
        /\ \A i \in DOMAIN up' : up'[i] = r \/ \E j \in DOMAIN up : up'[i] = up[j]
    <3>1. up \in Seq(Requests) /\ IsInjective(up) /\ DOMAIN up = 1..Len(up)
      BY AppendFacts DEF TypeOK, UpInv
    <3>2. IsInjective(up')
      BY <1>1, <2>1, <3>1, AppendOnce
    <3>3. /\ up' \in Seq(Requests) /\ DOMAIN up' = 1..(Len(up) + 1)
          /\ \A i \in 1..Len(up) : up'[i] = up[i]
          /\ up'[Len(up) + 1] = r
          /\ \A i \in 1..(Len(up) + 1) : i \in 1..Len(up) \/ i = Len(up) + 1
      BY <2>1, <3>1, AppendFacts
    <3> QED
      BY <3>1, <3>2, <3>3
  <2>3. \A e \in EventTypes :
           /\ routing'[e] \in Seq(Requests) /\ IsInjective(routing'[e])
           /\ \A i \in 1..Len(routing'[e]) :
                 routing'[e][i] = r \/ \E j \in 1..Len(routing[e]) : routing'[e][i] = routing[e][j]
           /\ \A j \in 1..Len(routing[e]) : \E i \in 1..Len(routing'[e]) : routing'[e][i] = routing[e][j]
           /\ e \in EventsOf[r] => \E i \in 1..Len(routing'[e]) : routing'[e][i] = r
    <3> SUFFICES ASSUME NEW e \in EventTypes
                 PROVE  /\ routing'[e] \in Seq(Requests) /\ IsInjective(routing'[e])
                        /\ \A i \in 1..Len(routing'[e]) :
                              routing'[e][i] = r
                              \/ \E j \in 1..Len(routing[e]) : routing'[e][i] = routing[e][j]
                        /\ \A j \in 1..Len(routing[e]) :
                              \E i \in 1..Len(routing'[e]) : routing'[e][i] = routing[e][j]
                        /\ e \in EventsOf[r] =>
                              \E i \in 1..Len(routing'[e]) : routing'[e][i] = r
      OBVIOUS
    <3>1. routing[e] \in Seq(Requests) /\ IsInjective(routing[e])
      BY DEF TypeOK
    <3>2. CASE e \in EventsOf[r]
      <4>1. routing'[e] = Append(routing[e], r)
        BY <2>1, <3>2 DEF Register
      <4>2. /\ Append(routing[e], r) \in Seq(Requests)
            /\ Len(Append(routing[e], r)) = Len(routing[e]) + 1
            /\ \A i \in 1..Len(routing[e]) : Append(routing[e], r)[i] = routing[e][i]
            /\ Append(routing[e], r)[Len(routing[e]) + 1] = r
            /\ \A i \in 1..(Len(routing[e]) + 1) :
                  i \in 1..Len(routing[e]) \/ i = Len(routing[e]) + 1
            /\ \A i \in 1..Len(routing[e]) : i \in 1..(Len(routing[e]) + 1)
            /\ Len(routing[e]) + 1 \in 1..(Len(routing[e]) + 1)
        BY <3>1, AppendFacts
      <4>3. IsInjective(Append(routing[e], r))
        BY <1>1, <3>1, AppendOnce
      <4> QED
        BY <4>1, <4>2, <4>3
    <3>3. CASE e \notin EventsOf[r]
      BY <2>1, <3>1, <3>3 DEF Register
    <3> QED
      BY <3>2, <3>3
  <2>4. TypeOK'
    BY <1>2, <2>2, <2>3 DEF TypeOK
  <2>5. UpInv' /\ DownInv'
    BY <1>1, <1>2, <2>2 DEF UpInv, DownInv
  <2>6. FutureInv' /\ AnswerIsOwn'
    BY <1>2 DEF FutureInv, AnswerIsOwn
  <2>7. HandedInv' /\ ResponseIsLast'
    BY <1>1, <1>2 DEF HandedInv, ResponseIsLast
  <2>8. RoutingInv'
    <3>1. \A e \in EventTypes : \A j \in 1..Len(routing[e]) : caller'[routing[e][j]] = "waiting"
      BY <1>1, <1>2 DEF RoutingInv
    <3>2. \A e \in EventTypes : \A i \in 1..Len(routing'[e]) : caller'[routing'[e][i]] = "waiting"
      <4> SUFFICES ASSUME NEW e \in EventTypes, NEW i \in 1..Len(routing'[e])
                   PROVE  caller'[routing'[e][i]] = "waiting"
        OBVIOUS
      <4>1. routing'[e][i] = r \/ \E j \in 1..Len(routing[e]) : routing'[e][i] = routing[e][j]
        BY <2>3
      <4> QED
        BY <2>1, <3>1, <4>1
    <3> QED
      BY <1>2, <3>2 DEF RoutingInv
  <2>9. RoutingIsCurrent'
    <3> SUFFICES ASSUME receiving # Ended, NEW q \in Requests, NEW e \in EventsOf[q]
                 PROVE  (\E i \in 1..Len(routing'[e]) : routing'[e][i] = q)
                        <=> caller'[q] = "waiting"
      BY <1>2 DEF RoutingIsCurrent, Ended, Idle
    <3>1. e \in EventTypes
      BY EventsAssumption
    <3>2. (\E i \in 1..Len(routing[e]) : routing[e][i] = q) <=> caller[q] = "waiting"
      BY DEF RoutingIsCurrent
    <3>3. CASE q = r
      BY <2>1, <2>3, <3>1, <3>3
    <3>4. CASE q # r
      <4>1. (\E i \in 1..Len(routing'[e]) : routing'[e][i] = q)
            <=> \E i \in 1..Len(routing[e]) : routing[e][i] = q
        BY <2>3, <3>1, <3>4
      <4> QED
        BY <1>2, <3>2, <3>4, <4>1
    <3> QED
      BY <3>3, <3>4
  <2> QED
    BY <2>4, <2>5, <2>6, <2>7, <2>8, <2>9
<1>4. CASE open # {"client", "server"}
  <2>1. caller'[r] = "unsent" /\ UNCHANGED <<routing, up>>
    BY <1>4 DEF Request, TypeOK
  <2>2. TypeOK'
    BY <1>2, <2>1 DEF TypeOK
  <2>3. UpInv' /\ DownInv'
    BY <1>1, <1>2, <2>1 DEF UpInv, DownInv
  <2>4. FutureInv' /\ AnswerIsOwn'
    BY <1>2, <2>1 DEF FutureInv, AnswerIsOwn
  <2>5. HandedInv' /\ ResponseIsLast'
    BY <1>1, <1>2 DEF HandedInv, ResponseIsLast
  <2>6. RoutingInv'
    BY <1>1, <1>2, <2>1 DEF RoutingInv, TypeOK
  <2>7. RoutingIsCurrent'
    BY <1>1, <1>2, <2>1, EventsAssumption DEF RoutingIsCurrent, Ended, Idle
  <2> QED
    BY <2>2, <2>3, <2>4, <2>5, <2>6, <2>7
<1> QED
  BY <1>3, <1>4

LEMMA CancelKeeps ==
    ASSUME CorrInv, NEW r \in Requests, Cancel(r)
    PROVE  CorrInv'
<1> USE DEF CorrInv
<1>1. /\ future' \in [Requests -> {"none", "pending", "result", "failed", "closed", "cancelled"}]
      /\ future'[r] = "cancelled"
      /\ \A q \in Requests \ {r} : future'[q] = future[q]
      /\ UNCHANGED <<caller, pending, routing, receiving, handed, open, raising, up, down,
                     handler, emitted>>
  BY DEF Cancel, TypeOK, server
<1>2. TypeOK'
  BY <1>1 DEF TypeOK
<1>3. UpInv' /\ DownInv'
  BY <1>1 DEF UpInv, DownInv
<1>4. FutureInv' /\ AnswerIsOwn'
  BY <1>1 DEF FutureInv, AnswerIsOwn
<1>5. HandedInv' /\ ResponseIsLast'
  BY <1>1 DEF HandedInv, ResponseIsLast
<1>6. RoutingInv' /\ RoutingIsCurrent'
  BY <1>1 DEF RoutingInv, RoutingIsCurrent, Ended, Idle
<1> QED
  BY <1>2, <1>3, <1>4, <1>5, <1>6

LEMMA ReturnKeeps ==
    ASSUME CorrInv, NEW r \in Requests, Return(r)
    PROVE  CorrInv'
<1> USE DEF CorrInv
<1>1. /\ caller' \in [Requests -> {"idle", "waiting", "unsent", "result", "failed", "closed",
                                   "cancelled"}]
      /\ caller[r] = "waiting"
      /\ caller'[r] = future[r] /\ future[r] \in {"result", "failed", "closed", "cancelled"}
      /\ \A q \in Requests \ {r} : caller'[q] = caller[q]
      /\ UNCHANGED <<future, pending, receiving, handed, open, raising, up, down,
                     handler, emitted>>
  BY DEF Return, TypeOK, server, FutureInv
<1>2. \A e \in EventTypes :
         /\ routing'[e] \in Seq(Requests) /\ IsInjective(routing'[e])
         /\ \A q \in Requests :
               (\E i \in 1..Len(routing'[e]) : routing'[e][i] = q)
               <=> q # r /\ \E j \in 1..Len(routing[e]) : routing[e][j] = q
  <2> SUFFICES ASSUME NEW e \in EventTypes
               PROVE  /\ routing'[e] \in Seq(Requests) /\ IsInjective(routing'[e])
                      /\ \A q \in Requests :
                            (\E i \in 1..Len(routing'[e]) : routing'[e][i] = q)
                            <=> q # r /\ \E j \in 1..Len(routing[e]) : routing[e][j] = q
    OBVIOUS
  <2>1. /\ routing[e] \in Seq(Requests) /\ IsInjective(routing[e])
        /\ DOMAIN routing[e] = 1..Len(routing[e])
    BY LenProperties DEF TypeOK
  <2>2. CASE \E i \in DOMAIN routing[e] : routing[e][i] = r
    <3>1. PICK k \in DOMAIN routing[e] : routing[e][k] = r /\ k = Entry(e, r)
      BY <2>2 DEF Entry
    <3>2. routing'[e] = RemoveAt(routing[e], k)
      BY <2>2, <3>1 DEF Return, Unregister
    <3>3. \A j \in 1..Len(routing[e]) : routing[e][j] = r <=> j = k
      BY <2>1, <3>1 DEF IsInjective
    <3>4. /\ RemoveAt(routing[e], k) \in Seq(Requests) /\ IsInjective(RemoveAt(routing[e], k))
          /\ \A i \in 1..Len(RemoveAt(routing[e], k)) :
                \E j \in 1..Len(routing[e]) : routing[e][j] = RemoveAt(routing[e], k)[i] /\ j # k
          /\ \A j \in 1..Len(routing[e]) : j # k =>
                \E i \in 1..Len(RemoveAt(routing[e], k)) :
                   RemoveAt(routing[e], k)[i] = routing[e][j]
      BY <2>1, <3>1, RemoveFacts
    <3> HIDE DEF RemoveAt
    <3>5. ASSUME NEW q \in Requests, NEW i \in 1..Len(routing'[e]), routing'[e][i] = q
          PROVE  q # r /\ \E j \in 1..Len(routing[e]) : routing[e][j] = q
      BY <3>2, <3>3, <3>4, <3>5
    <3>6. ASSUME NEW q \in Requests, q # r, NEW j \in 1..Len(routing[e]), routing[e][j] = q
          PROVE  \E i \in 1..Len(routing'[e]) : routing'[e][i] = q
      BY <3>2, <3>3, <3>4, <3>6
    <3> QED
      BY <3>2, <3>4, <3>5, <3>6
  <2>3. CASE ~ \E i \in DOMAIN routing[e] : routing[e][i] = r
    BY <2>1, <2>3 DEF Return, Unregister
  <2> QED
    BY <2>2, <2>3
<1>3. TypeOK'
  BY <1>1, <1>2 DEF TypeOK
<1>4. ListsHoldRequests /\ ListsHoldRequests'
  BY <1>3, ListsHoldRequestsOnly, PTL
<1>5. UpInv' /\ DownInv'
  BY <1>1, <1>4 DEF UpInv, DownInv, ListsHoldRequests
<1>6. FutureInv' /\ AnswerIsOwn'
  BY <1>1 DEF FutureInv, AnswerIsOwn
<1>7. HandedInv' /\ ResponseIsLast'
  BY <1>1 DEF HandedInv, ResponseIsLast
<1>8. RoutingInv'
  <2> SUFFICES ASSUME NEW e \in EventTypes, NEW i \in 1..Len(routing'[e])
               PROVE  caller'[routing'[e][i]] = "waiting"
    BY <1>1 DEF RoutingInv
  <2>1. PICK q \in Requests : q = routing'[e][i]
    BY <1>4 DEF ListsHoldRequests
  <2>2. q # r /\ \E j \in 1..Len(routing[e]) : routing[e][j] = q
    BY <1>2, <2>1
  <2> QED
    BY <1>1, <2>1, <2>2 DEF RoutingInv
<1>9. RoutingIsCurrent'
  <2> SUFFICES ASSUME receiving # Ended, NEW q \in Requests, NEW e \in EventsOf[q]
               PROVE  (\E i \in 1..Len(routing'[e]) : routing'[e][i] = q)
                      <=> caller'[q] = "waiting"
    BY <1>1 DEF RoutingIsCurrent, Ended, Idle
  <2>1. e \in EventTypes
    BY EventsAssumption
  <2>2. (\E i \in 1..Len(routing[e]) : routing[e][i] = q) <=> caller[q] = "waiting"
    BY DEF RoutingIsCurrent
  <2>3. (\E i \in 1..Len(routing'[e]) : routing'[e][i] = q)
        <=> q # r /\ \E j \in 1..Len(routing[e]) : routing[e][j] = q
    BY <1>2, <2>1
  <2> QED
    BY <1>1, <2>2, <2>3
<1> QED
  BY <1>3, <1>5, <1>6, <1>7, <1>8, <1>9

\* ---- The end of the connection

\* The finally clause settles the futures of those who wait, and empties the tables.
LEMMA FinallyFacts ==
    ASSUME CorrInv, Finally
    PROVE  /\ future' \in [Requests -> {"none", "pending", "result", "failed", "closed",
                                        "cancelled"}]
           /\ \A q \in Requests : future'[q] = future[q] \/ future'[q] = "closed"
           /\ pending' = {}
           /\ \A e \in EventTypes :
                 /\ routing'[e] \in Seq(Requests) /\ IsInjective(routing'[e])
                 /\ \A i \in 1..Len(routing'[e]) : FALSE
<1>1. /\ future' \in [Requests -> {"none", "pending", "result", "failed", "closed",
                                   "cancelled"}]
      /\ \A q \in Requests : future'[q] = future[q] \/ future'[q] = "closed"
      /\ pending' = {}
  BY DEF CorrInv, TypeOK, Finally
<1>2. /\ <<>> \in Seq(Requests)
      /\ Len(<<>>) = 0 /\ DOMAIN <<>> = {} /\ 1..0 = {} /\ IsInjective(<<>>)
  <2>1. <<>> \in Seq(Requests) /\ Len(<<>>) = 0 /\ 1..0 = {}
    BY EmptySeq
  <2>2. DOMAIN <<>> = {}
    BY <2>1, LenProperties
  <2> QED
    BY <2>1, <2>2 DEF IsInjective
<1>3. \A e \in EventTypes : routing'[e] = <<>>
  BY DEF Finally
<1> QED
  BY <1>1, <1>2, <1>3

LEMMA FinallyKeeps ==
    ASSUME CorrInv, Finally, receiving' = Ended,
           down' \in Seq(Frames), \A i \in DOMAIN down' : i \in DOMAIN down /\ down'[i] = down[i],
           open' \subseteq {"client", "server"},
           UNCHANGED <<caller, handed, raising, up, server>>
    PROVE  CorrInv'
<1> USE DEF CorrInv
<1>1. /\ future' \in [Requests -> {"none", "pending", "result", "failed", "closed",
                                   "cancelled"}]
      /\ \A q \in Requests : future'[q] = future[q] \/ future'[q] = "closed"
      /\ pending' = {}
      /\ \A e \in EventTypes :
            /\ routing'[e] \in Seq(Requests) /\ IsInjective(routing'[e])
            /\ \A i \in 1..Len(routing'[e]) : FALSE
  BY FinallyFacts
<1>2. UNCHANGED <<caller, handed, raising, up, handler, emitted>>
  BY DEF server
<1>3. TypeOK'
  <2>1. receiving'.state = "ended" /\ receiving'.frame = None /\ receiving'.todo \in Seq(Requests)
    BY EmptySeq DEF Ended, Idle
  <2> QED
    BY <1>1, <1>2, <2>1 DEF TypeOK
<1>4. UpInv' /\ DownInv'
  BY <1>2 DEF UpInv, DownInv
<1>5. FutureInv' /\ AnswerIsOwn'
  BY <1>1, <1>2 DEF FutureInv, AnswerIsOwn
<1>6. HandedInv' /\ ResponseIsLast'
  BY <1>1, <1>2 DEF HandedInv, ResponseIsLast
<1>7. RoutingInv' /\ RoutingIsCurrent'
  <2>1. receiving'.state # "events" /\ ~(receiving # Ended)'
    BY DEF Ended, Idle
  <2> QED
    BY <1>1, <2>1 DEF RoutingInv, RoutingIsCurrent
<1> QED
  BY <1>3, <1>4, <1>5, <1>6, <1>7

LEMMA ReceiveEndKeeps == CorrInv /\ ReceiveEnd => CorrInv'
<1> SUFFICES ASSUME CorrInv, ReceiveEnd PROVE CorrInv'
  OBVIOUS
<1>1. <<>> \in Seq(Frames) /\ Len(<<>>) = 0
  BY EmptySeq
<1>2. DOMAIN <<>> = {}
  BY <1>1, LenProperties
<1>3. /\ Finally /\ receiving' = Ended /\ down' = <<>>
      /\ open' \subseteq {"client", "server"}
      /\ UNCHANGED <<caller, handed, raising, up, server>>
  BY DEF CorrInv, TypeOK, ReceiveEnd
<1> QED
  BY <1>1, <1>2, <1>3, FinallyKeeps

LEMMA CloseKeeps == CorrInv /\ Close => CorrInv'
<1> SUFFICES ASSUME CorrInv, Close PROVE CorrInv'
  OBVIOUS
<1>1. /\ open' \subseteq {"client", "server"}
      /\ UNCHANGED <<caller, handed, raising, up, down, server>>
  BY DEF CorrInv, TypeOK, Close
<1>2. CASE receiving = Ended
  <2>1. UNCHANGED <<future, pending, routing, receiving>>
    BY <1>2 DEF Close
  <2> USE DEF CorrInv
  <2>2. UNCHANGED <<caller, handed, raising, up, down, handler, emitted>>
    BY <1>1 DEF server
  <2>3. TypeOK'
    BY <1>1, <2>1, <2>2 DEF TypeOK
  <2>4. UpInv' /\ DownInv'
    BY <2>2 DEF UpInv, DownInv
  <2>5. FutureInv' /\ AnswerIsOwn'
    BY <2>1, <2>2 DEF FutureInv, AnswerIsOwn
  <2>6. HandedInv' /\ ResponseIsLast'
    BY <2>1, <2>2 DEF HandedInv, ResponseIsLast
  <2>7. RoutingInv' /\ RoutingIsCurrent'
    BY <2>1, <2>2 DEF RoutingInv, RoutingIsCurrent, Ended, Idle
  <2> QED
    BY <2>3, <2>4, <2>5, <2>6, <2>7
<1>3. CASE receiving # Ended
  <2>1. Finally /\ receiving' = Ended
    BY <1>3 DEF Close
  <2>2. down' \in Seq(Frames) /\ \A i \in DOMAIN down' : i \in DOMAIN down /\ down'[i] = down[i]
    BY <1>1 DEF CorrInv, TypeOK
  <2> QED
    BY <1>1, <2>1, <2>2, FinallyKeeps
<1> QED
  BY <1>2, <1>3

\* ---- The receive loop

\* A frame that is received is one of those the server sent.
LEMMA IncomingFacts ==
    ASSUME CorrInv, NEW kind, Incoming(kind), UNCHANGED server
    PROVE  /\ Head(down) \in Frames /\ Head(down).of \in Requests
           /\ Head(down).kind = kind /\ 1 \in DOMAIN down /\ Head(down) = down[1]
           /\ down' \in Seq(Frames) /\ DownInv'
<1>1. /\ down \in Seq(Frames) /\ down # <<>> /\ down' = Tail(down)
      /\ Head(down).kind = kind
  BY DEF CorrInv, TypeOK, Incoming
<1>2. /\ Tail(down) \in Seq(Frames) /\ Head(down) \in Frames
      /\ 1 \in DOMAIN down /\ Head(down) = down[1]
      /\ \A i \in DOMAIN Tail(down) : i + 1 \in DOMAIN down /\ Tail(down)[i] = down[i + 1]
  BY <1>1, TailFacts
<1>3. Head(down).of \in Requests
  BY <1>2 DEF Frames
<1>4. DownInv'
  BY <1>1, <1>2 DEF CorrInv, DownInv, server
<1> QED
  BY <1>1, <1>2, <1>3, <1>4

\* Events are handed to requests that are still pending, and to no other.
LEMMA HandKeeps ==
    ASSUME CorrInv, NEW frame \in Frames, frame.kind = "event",
           NEW todo \in Seq(Requests), Hand(frame, todo),
           down' \in Seq(Frames), DownInv', receiving # Ended,
           UNCHANGED <<caller, future, pending, routing, open, raising, up, server>>
    PROVE  CorrInv'
<1> USE DEF CorrInv
<1>1. UNCHANGED <<caller, future, pending, routing, open, raising, up, handler, emitted>>
  BY DEF server
<1>2. /\ receiving'.state \in {"idle", "events"}
      /\ receiving'.frame \in Frames \cup {None} /\ receiving'.todo \in Seq(Requests)
      /\ receiving'.state = "events" => receiving'.frame = frame
  <2>1. Idle.state = "idle" /\ Idle.frame = None /\ Idle.todo \in Seq(Requests)
    BY EmptySeq DEF Idle
  <2>2. todo # <<>> => Tail(todo) \in Seq(Requests)
    BY HeadTailProperties
  <2>3. \/ receiving' = Idle
        \/ todo # <<>> /\ receiving' = [state |-> "events", frame |-> frame, todo |-> Tail(todo)]
    BY DEF Hand
  <2>4. CASE receiving' = Idle
    BY <2>1, <2>4
  <2>5. CASE todo # <<>> /\ receiving' = [state |-> "events", frame |-> frame, todo |-> Tail(todo)]
    <3>1. /\ receiving'.state = "events" /\ receiving'.frame = frame
          /\ receiving'.todo = Tail(todo)
      BY <2>5
    <3> QED
      BY <2>2, <2>5, <3>1
  <2> QED
    BY <2>3, <2>4, <2>5
<1>3. /\ handed' \in [Requests -> Seq(Frames)]
      /\ \A r \in Requests :
            \/ handed'[r] = handed[r]
            \/ r \in pending /\ handed'[r] = Append(handed[r], frame)
  <2>1. handed \in [Requests -> Seq(Frames)]
    BY DEF TypeOK
  <2>2. CASE handed' = handed
    BY <2>1, <2>2
  <2>3. CASE /\ todo # <<>> /\ Head(todo) \in pending
             /\ handed' = [handed EXCEPT ![Head(todo)] = Append(@, frame)]
    <3>1. Head(todo) \in Requests
      BY <2>3, HeadTailProperties
    <3>2. \A r \in Requests : Append(handed[r], frame) \in Seq(Frames)
      BY <2>1, AppendProperties
    <3> QED
      BY <2>1, <2>3, <3>1, <3>2
  <2> QED
    BY <2>2, <2>3 DEF Hand
<1>4. TypeOK'
  BY <1>1, <1>2, <1>3 DEF TypeOK
<1>5. UpInv' /\ FutureInv' /\ AnswerIsOwn'
  BY <1>1 DEF UpInv, FutureInv, AnswerIsOwn
<1>6. HandedInv' /\ ResponseIsLast'
  <2> SUFFICES ASSUME NEW r \in Requests
               PROVE  /\ r \in pending' => caller'[r] # "idle"
                      /\ (\E i \in 1..Len(handed'[r]) : handed'[r][i].kind = "response")
                            => r \notin pending' /\ caller'[r] # "idle"
                      /\ \A i \in 1..Len(handed'[r]) :
                            handed'[r][i].kind = "response" => i = Len(handed'[r])
    BY DEF HandedInv, ResponseIsLast
  <2>1. CASE handed'[r] = handed[r]
    BY <1>1, <2>1 DEF HandedInv, ResponseIsLast
  <2>2. CASE r \in pending /\ handed'[r] = Append(handed[r], frame)
    <3>1. \A i \in 1..Len(handed[r]) : handed[r][i].kind # "response"
      BY <2>2 DEF HandedInv
    <3>2. /\ Len(handed'[r]) = Len(handed[r]) + 1
          /\ \A i \in 1..Len(handed[r]) : handed'[r][i] = handed[r][i]
          /\ handed'[r][Len(handed[r]) + 1] = frame
          /\ \A i \in 1..(Len(handed[r]) + 1) : i \in 1..Len(handed[r]) \/ i = Len(handed[r]) + 1
      <4>1. handed[r] \in Seq(Frames)
        BY DEF TypeOK
      <4> QED
        BY <2>2, <4>1, AppendFacts
    <3>3. \A i \in 1..Len(handed'[r]) : handed'[r][i].kind # "response"
      BY <3>1, <3>2
    <3>4. caller[r] # "idle"
      BY <2>2 DEF HandedInv
    <3> QED
      BY <1>1, <3>3, <3>4
  <2> QED
    BY <1>3, <2>1, <2>2
<1>7. RoutingInv'
  BY <1>1, <1>2 DEF RoutingInv
<1>8. RoutingIsCurrent'
  BY <1>1 DEF RoutingIsCurrent
<1> QED
  BY <1>4, <1>5, <1>6, <1>7, <1>8

LEMMA ReceiveEventKeeps == CorrInv /\ ReceiveEvent => CorrInv'
<1> SUFFICES ASSUME CorrInv, ReceiveEvent PROVE CorrInv'
  OBVIOUS
<1>1. /\ Incoming("event") /\ Hand(Head(down), routing[Head(down).type])
      /\ receiving = Idle
      /\ UNCHANGED <<caller, future, pending, routing, open, raising, up, server>>
  BY DEF ReceiveEvent, Recipients, Incoming
<1>2. /\ Head(down) \in Frames /\ Head(down).kind = "event"
      /\ 1 \in DOMAIN down /\ Head(down) = down[1]
      /\ down' \in Seq(Frames) /\ DownInv'
  BY <1>1, IncomingFacts
<1>3. Head(down).type \in EventTypes
  BY <1>2 DEF CorrInv, DownInv
<1>4. routing[Head(down).type] \in Seq(Requests)
  BY <1>3 DEF CorrInv, TypeOK
<1>5. receiving # Ended
  BY <1>1 DEF Idle, Ended
<1> QED
  BY <1>1, <1>2, <1>4, <1>5, HandKeeps

LEMMA HandOnKeeps == CorrInv /\ HandOn => CorrInv'
<1> SUFFICES ASSUME CorrInv, HandOn PROVE CorrInv'
  OBVIOUS
<1>1. /\ receiving.state = "events" /\ Hand(receiving.frame, receiving.todo)
      /\ UNCHANGED <<caller, future, pending, routing, open, raising, up, down, server>>
  BY DEF HandOn
<1>2. /\ receiving.frame \in Frames /\ receiving.frame.kind = "event"
      /\ receiving.todo \in Seq(Requests)
  BY <1>1 DEF CorrInv, TypeOK, RoutingInv
<1>3. receiving # Ended
  BY <1>1 DEF Idle, Ended
<1>4. down' \in Seq(Frames) /\ DownInv'
  BY <1>1 DEF CorrInv, TypeOK, DownInv, server
<1> QED
  BY <1>1, <1>2, <1>3, <1>4, HandKeeps

LEMMA ReceiveResponseKeeps == CorrInv /\ ReceiveResponse => CorrInv'
<1> SUFFICES ASSUME CorrInv, ReceiveResponse PROVE CorrInv'
  OBVIOUS
<1> USE DEF CorrInv
<1>1. /\ Incoming("response")
      /\ UNCHANGED <<caller, routing, receiving, open, raising, up, handler, emitted>>
      /\ UNCHANGED server
  BY DEF ReceiveResponse, server
<1>2. /\ Head(down) \in Frames /\ Head(down).of \in Requests
      /\ Head(down).kind = "response" /\ 1 \in DOMAIN down /\ Head(down) = down[1]
      /\ down' \in Seq(Frames) /\ DownInv'
  BY <1>1, IncomingFacts
<1>3. PICK frame \in Frames : frame = Head(down)
  BY <1>2
<1>4. PICK r \in Requests : r = frame.of
  BY <1>2, <1>3
<1>5. handler[r] = "returned"
  BY <1>2, <1>3, <1>4 DEF DownInv
<1>6. CASE r \in pending
  <2>1. /\ pending' = pending \ {r}
        /\ handed' = [handed EXCEPT ![r] = Append(@, frame)]
        /\ future' = [future EXCEPT ![r] = IF @ = "pending" THEN "result" ELSE @]
    BY <1>3, <1>4, <1>6 DEF ReceiveResponse, Answered, Pop, Settle
  <2>2. /\ future' \in [Requests -> {"none", "pending", "result", "failed", "closed",
                                     "cancelled"}]
        /\ \A q \in Requests : future'[q] = future[q] \/ (q = r /\ future'[q] = "result")
    BY <2>1 DEF TypeOK
  <2>3. /\ handed' \in [Requests -> Seq(Frames)]
        /\ handed'[r] = Append(handed[r], frame)
        /\ \A q \in Requests \ {r} : handed'[q] = handed[q]
    <3>1. handed \in [Requests -> Seq(Frames)]
      BY DEF TypeOK
    <3>2. Append(handed[r], frame) \in Seq(Frames)
      BY <3>1, AppendProperties
    <3> QED
      BY <2>1, <3>1, <3>2
  <2>4. pending' \subseteq Requests
    BY <2>1 DEF TypeOK
  <2>5. TypeOK'
    BY <1>1, <1>2, <2>2, <2>3, <2>4 DEF TypeOK
  <2>6. UpInv' /\ AnswerIsOwn'
    BY <1>1 DEF UpInv, AnswerIsOwn
  <2>7. FutureInv'
    BY <1>1, <1>5, <2>2 DEF FutureInv
  <2>8. HandedInv' /\ ResponseIsLast'
    <3> SUFFICES ASSUME NEW q \in Requests
                 PROVE  /\ q \in pending' => caller'[q] # "idle"
                        /\ (\E i \in 1..Len(handed'[q]) : handed'[q][i].kind = "response")
                              => q \notin pending' /\ caller'[q] # "idle"
                        /\ \A i \in 1..Len(handed'[q]) :
                              handed'[q][i].kind = "response" => i = Len(handed'[q])
      BY DEF HandedInv, ResponseIsLast
    <3>1. CASE q # r
      BY <1>1, <2>1, <2>3, <3>1 DEF HandedInv, ResponseIsLast
    <3>2. CASE q = r
      <4>1. \A i \in 1..Len(handed[r]) : handed[r][i].kind # "response"
        BY <1>6 DEF HandedInv
      <4>2. /\ Len(handed'[r]) = Len(handed[r]) + 1
            /\ \A i \in 1..Len(handed[r]) : handed'[r][i] = handed[r][i]
            /\ \A i \in 1..(Len(handed[r]) + 1) : i \in 1..Len(handed[r]) \/ i = Len(handed[r]) + 1
        <5>1. handed[r] \in Seq(Frames)
          BY DEF TypeOK
        <5> QED
          BY <2>3, <5>1, AppendFacts
      <4>3. \A i \in 1..Len(handed'[r]) :
               handed'[r][i].kind = "response" => i = Len(handed'[r])
        BY <4>1, <4>2
      <4>4. caller'[r] # "idle" /\ r \notin pending'
        BY <1>1, <1>6, <2>1 DEF HandedInv
      <4> QED
        BY <3>2, <4>3, <4>4
    <3> QED
      BY <3>1, <3>2
  <2>9. RoutingInv' /\ RoutingIsCurrent'
    BY <1>1 DEF RoutingInv, RoutingIsCurrent, Ended, Idle
  <2> QED
    BY <1>2, <2>5, <2>6, <2>7, <2>8, <2>9
<1>7. CASE r \notin pending
  <2>1. UNCHANGED <<pending, handed, future>>
    BY <1>3, <1>4, <1>7 DEF ReceiveResponse, Answered
  <2>2. TypeOK'
    BY <1>1, <1>2, <2>1 DEF TypeOK
  <2>3. UpInv' /\ FutureInv' /\ AnswerIsOwn'
    BY <1>1, <2>1 DEF UpInv, FutureInv, AnswerIsOwn
  <2>4. HandedInv' /\ ResponseIsLast'
    BY <1>1, <2>1 DEF HandedInv, ResponseIsLast
  <2>5. RoutingInv' /\ RoutingIsCurrent'
    BY <1>1 DEF RoutingInv, RoutingIsCurrent, Ended, Idle
  <2> QED
    BY <1>2, <2>2, <2>3, <2>4, <2>5
<1> QED
  BY <1>6, <1>7

LEMMA ReceiveFailureKeeps == CorrInv /\ ReceiveFailure => CorrInv'
<1> SUFFICES ASSUME CorrInv, ReceiveFailure PROVE CorrInv'
  OBVIOUS
<1> USE DEF CorrInv
<1>1. /\ Incoming("failure")
      /\ UNCHANGED <<caller, routing, receiving, handed, open, raising, up, handler, emitted>>
      /\ UNCHANGED server
  BY DEF ReceiveFailure, server
<1>2. /\ Head(down) \in Frames /\ Head(down).of \in Requests
      /\ Head(down).kind = "failure" /\ 1 \in DOMAIN down /\ Head(down) = down[1]
      /\ down' \in Seq(Frames) /\ DownInv'
  BY <1>1, IncomingFacts
<1>3. PICK r \in Requests : r = Head(down).of
  BY <1>2
<1>4. handler[r] = "raised"
  BY <1>2, <1>3 DEF DownInv
<1>5. /\ future' \in [Requests -> {"none", "pending", "result", "failed", "closed",
                                   "cancelled"}]
      /\ \A q \in Requests : future'[q] = future[q] \/ (q = r /\ future'[q] = "failed")
      /\ pending' \subseteq pending
  <2>1. CASE r \in pending
    BY <1>3, <2>1 DEF ReceiveFailure, Answered, Pop, Settle, TypeOK
  <2>2. CASE r \notin pending
    BY <1>3, <2>2 DEF ReceiveFailure, Answered, TypeOK
  <2> QED
    BY <2>1, <2>2
<1>6. TypeOK'
  BY <1>1, <1>2, <1>5 DEF TypeOK
<1>7. UpInv' /\ AnswerIsOwn'
  BY <1>1 DEF UpInv, AnswerIsOwn
<1>8. FutureInv'
  BY <1>1, <1>4, <1>5 DEF FutureInv
<1>9. HandedInv' /\ ResponseIsLast'
  BY <1>1, <1>5 DEF HandedInv, ResponseIsLast
<1>10. RoutingInv' /\ RoutingIsCurrent'
  BY <1>1 DEF RoutingInv, RoutingIsCurrent, Ended, Idle
<1> QED
  BY <1>2, <1>6, <1>7, <1>8, <1>9, <1>10

\* ---- The server

LEMMA AcceptKeeps == CorrInv /\ Accept => CorrInv'
<1> SUFFICES ASSUME CorrInv, Accept PROVE CorrInv'
  OBVIOUS
<1> USE DEF CorrInv
<1>1. /\ up # <<>> /\ up' = Tail(up) /\ up \in Seq(Requests) /\ IsInjective(up)
      /\ handler' = [handler EXCEPT ![Head(up)] = "running"]
      /\ UNCHANGED <<caller, future, pending, routing, receiving, handed, open, raising, down,
                     emitted>>
  BY DEF Accept, TypeOK, UpInv, client
<1>2. /\ up' \in Seq(Requests) /\ Head(up) \in Requests
      /\ 1 \in DOMAIN up /\ Head(up) = up[1]
      /\ \A i \in DOMAIN up' : i + 1 \in DOMAIN up /\ up'[i] = up[i + 1]
  BY <1>1, TailFacts
<1>3. IsInjective(up') /\ \A i \in DOMAIN up' : up'[i] # Head(up)
  BY <1>1, TailInjective
<1>4. PICK r \in Requests : r = Head(up)
  BY <1>2
<1>5. /\ handler[r] = "none" /\ caller[r] # "idle"
      /\ handler' \in [Requests -> {"none", "running", "returned", "raised"}]
      /\ handler'[r] = "running" /\ \A q \in Requests \ {r} : handler'[q] = handler[q]
  BY <1>1, <1>2, <1>4 DEF UpInv, TypeOK
<1>6. TypeOK'
  BY <1>1, <1>2, <1>5 DEF TypeOK
<1>7. ListsHoldRequests /\ ListsHoldRequests'
  BY <1>6, ListsHoldRequestsOnly, PTL
<1>8. UpInv'
  <2>1. \A i \in DOMAIN up' : handler'[up'[i]] = "none" /\ caller'[up'[i]] # "idle"
    BY <1>1, <1>2, <1>3, <1>4, <1>5, <1>7 DEF UpInv, ListsHoldRequests
  <2> QED
    BY <1>1, <1>3, <1>5, <2>1 DEF UpInv
<1>9. DownInv'
  BY <1>1, <1>5, <1>7 DEF DownInv, ListsHoldRequests
<1>10. FutureInv' /\ AnswerIsOwn'
  BY <1>1, <1>5 DEF FutureInv, AnswerIsOwn
<1>11. HandedInv' /\ ResponseIsLast'
  BY <1>1 DEF HandedInv, ResponseIsLast
<1>12. RoutingInv' /\ RoutingIsCurrent'
  BY <1>1 DEF RoutingInv, RoutingIsCurrent, Ended, Idle
<1> QED
  BY <1>6, <1>8, <1>9, <1>10, <1>11, <1>12

\* A frame that says what is true is sent, or dropped on a closed connection.
LEMMA SendFacts ==
    ASSUME CorrInv, NEW frame \in Frames, Send(frame),
           frame.kind = "event" => frame.type \in EventTypes,
           frame.kind = "response" => handler'[frame.of] = "returned",
           frame.kind = "failure" => handler'[frame.of] = "raised",
           \A q \in Requests : handler[q] \in {"returned", "raised"} => handler'[q] = handler[q]
    PROVE  down' \in Seq(Frames) /\ DownInv'
<1>1. down \in Seq(Frames) /\ DOMAIN down = 1..Len(down)
  BY LenProperties DEF CorrInv, TypeOK
<1>2. ListsHoldRequests
  BY ListsHoldRequestsOnly DEF CorrInv
<1>3. \A i \in DOMAIN down :
         /\ down[i].kind = "event" => down[i].type \in EventTypes
         /\ down[i].kind = "response" => handler'[down[i].of] = "returned"
         /\ down[i].kind = "failure" => handler'[down[i].of] = "raised"
  BY <1>2 DEF CorrInv, DownInv, ListsHoldRequests
<1>4. CASE down' = Append(down, frame)
  <2>1. /\ down' \in Seq(Frames) /\ DOMAIN down' = 1..(Len(down) + 1)
        /\ \A i \in 1..Len(down) : down'[i] = down[i]
        /\ down'[Len(down) + 1] = frame
        /\ \A i \in 1..(Len(down) + 1) : i \in 1..Len(down) \/ i = Len(down) + 1
    BY <1>1, <1>4, AppendFacts
  <2>2. DownInv'
    <3> SUFFICES ASSUME NEW i \in DOMAIN down'
                 PROVE  /\ down'[i].kind = "event" => down'[i].type \in EventTypes
                        /\ down'[i].kind = "response" => handler'[down'[i].of] = "returned"
                        /\ down'[i].kind = "failure" => handler'[down'[i].of] = "raised"
      BY DEF DownInv
    <3>1. CASE i \in 1..Len(down)
      BY <1>1, <1>3, <2>1, <3>1
    <3>2. CASE i = Len(down) + 1
      BY <2>1, <3>2
    <3> QED
      BY <2>1, <3>1, <3>2
  <2> QED
    BY <2>1, <2>2
<1>5. CASE down' = down
  BY <1>1, <1>3, <1>5 DEF DownInv
<1> QED
  BY <1>4, <1>5 DEF Send

LEMMA EmitKeeps ==
    ASSUME CorrInv, NEW r \in Requests, NEW e \in EventTypes, Emit(r, e)
    PROVE  CorrInv'
<1> USE DEF CorrInv
<1>1. /\ emitted' = [emitted EXCEPT ![r] = Append(@, e)]
      /\ Send(Event(r, e, Len(emitted[r]) + 1))
      /\ UNCHANGED <<caller, future, pending, routing, receiving, handed, open, raising, up,
                     handler>>
  BY DEF Emit, client
<1>2. emitted' \in [Requests -> Seq(EventTypes)]
  <2>1. emitted \in [Requests -> Seq(EventTypes)]
    BY DEF TypeOK
  <2>2. Append(emitted[r], e) \in Seq(EventTypes)
    BY <2>1, AppendProperties
  <2> QED
    BY <1>1, <2>1, <2>2
<1>3. PICK frame \in Frames : frame = Event(r, e, Len(emitted[r]) + 1)
  <2>1. PICK n \in Nat : n = Len(emitted[r]) + 1
    BY LenProperties DEF TypeOK
  <2>2. Event(r, e, n) \in Frames
    BY DEF Event, Frames
  <2> QED
    BY <2>1, <2>2
<1>4. frame.kind = "event" /\ frame.type = e
  BY <1>3 DEF Event
<1>5. down' \in Seq(Frames) /\ DownInv'
  BY <1>1, <1>3, <1>4, SendFacts
<1>6. TypeOK'
  BY <1>1, <1>2, <1>5 DEF TypeOK
<1>7. UpInv' /\ FutureInv' /\ AnswerIsOwn'
  BY <1>1 DEF UpInv, FutureInv, AnswerIsOwn
<1>8. HandedInv' /\ ResponseIsLast'
  BY <1>1 DEF HandedInv, ResponseIsLast
<1>9. RoutingInv' /\ RoutingIsCurrent'
  BY <1>1 DEF RoutingInv, RoutingIsCurrent, Ended, Idle
<1> QED
  BY <1>5, <1>6, <1>7, <1>8, <1>9

\* A handler that comes to an end says so in its last frame.
LEMMA EndKeeps ==
    ASSUME CorrInv, NEW r \in Requests, NEW end \in {"returned", "raised"},
           NEW frame \in Frames, frame.of = r, Send(frame),
           frame.kind = IF end = "returned" THEN "response" ELSE "failure",
           handler[r] = "running", handler' = [handler EXCEPT ![r] = end],
           UNCHANGED <<client, open, raising, up, emitted>>
    PROVE  CorrInv'
<1> USE DEF CorrInv
<1>1. UNCHANGED <<caller, future, pending, routing, receiving, handed, open, raising, up,
                  emitted>>
  BY DEF client
<1>2. /\ handler' \in [Requests -> {"none", "running", "returned", "raised"}]
      /\ handler'[r] = end /\ \A q \in Requests \ {r} : handler'[q] = handler[q]
      /\ \A q \in Requests : handler[q] \in {"returned", "raised"} => handler'[q] = handler[q]
      /\ \A q \in Requests : handler[q] = "none" <=> handler'[q] = "none"
  BY DEF TypeOK
<1>3. down' \in Seq(Frames) /\ DownInv'
  BY <1>2, SendFacts
<1>4. TypeOK'
  BY <1>1, <1>2, <1>3 DEF TypeOK
<1>5. UpInv'
  <2>1. ListsHoldRequests
    BY ListsHoldRequestsOnly
  <2> QED
    BY <1>1, <1>2, <2>1 DEF UpInv, ListsHoldRequests
<1>6. FutureInv' /\ AnswerIsOwn'
  BY <1>1, <1>2 DEF FutureInv, AnswerIsOwn
<1>7. HandedInv' /\ ResponseIsLast'
  BY <1>1 DEF HandedInv, ResponseIsLast
<1>8. RoutingInv' /\ RoutingIsCurrent'
  BY <1>1 DEF RoutingInv, RoutingIsCurrent, Ended, Idle
<1> QED
  BY <1>3, <1>4, <1>5, <1>6, <1>7, <1>8

LEMMA RespondKeeps ==
    ASSUME CorrInv, NEW r \in Requests, Respond(r)
    PROVE  CorrInv'
<1>1. PICK frame \in Frames : frame = Response(r)
  BY DEF Response, Frames
<1>2. frame.of = r /\ frame.kind = "response"
  BY <1>1 DEF Response
<1>3. /\ handler[r] = "running" /\ handler' = [handler EXCEPT ![r] = "returned"]
      /\ Send(frame) /\ UNCHANGED <<client, open, raising, up, emitted>>
  BY <1>1 DEF Respond
<1> QED
  BY <1>2, <1>3, EndKeeps

LEMMA RaiseKeeps ==
    ASSUME CorrInv, NEW r \in Requests, Raise(r)
    PROVE  CorrInv'
<1>1. PICK frame \in Frames : frame = Failure(r)
  BY DEF Failure, Frames
<1>2. frame.of = r /\ frame.kind = "failure"
  BY <1>1 DEF Failure
<1>3. /\ handler[r] = "running" /\ handler' = [handler EXCEPT ![r] = "raised"]
      /\ Send(frame) /\ UNCHANGED <<client, open, raising, up, emitted>>
  BY <1>1 DEF Raise
<1> QED
  BY <1>2, <1>3, EndKeeps

LEMMA ServerCloseKeeps == CorrInv /\ ServerClose => CorrInv'
<1> SUFFICES ASSUME CorrInv, ServerClose PROVE CorrInv'
  OBVIOUS
<1> USE DEF CorrInv
<1>1. /\ open' \subseteq {"client", "server"} /\ up' = <<>>
      /\ UNCHANGED <<caller, future, pending, routing, receiving, handed, raising, down,
                     handler, emitted>>
  BY DEF ServerClose, TypeOK, client, server
<1>2. <<>> \in Seq(Requests) /\ DOMAIN <<>> = {}
  BY EmptySeq, LenProperties
<1>3. TypeOK'
  BY <1>1, <1>2 DEF TypeOK
<1>4. UpInv' /\ DownInv'
  BY <1>1, <1>2 DEF UpInv, DownInv, IsInjective
<1>5. FutureInv' /\ AnswerIsOwn'
  BY <1>1 DEF FutureInv, AnswerIsOwn
<1>6. HandedInv' /\ ResponseIsLast'
  BY <1>1 DEF HandedInv, ResponseIsLast
<1>7. RoutingInv' /\ RoutingIsCurrent'
  BY <1>1 DEF RoutingInv, RoutingIsCurrent, Ended, Idle
<1> QED
  BY <1>3, <1>4, <1>5, <1>6, <1>7

\* ---- The theorems

LEMMA CorrInvStep == CorrInv /\ [Next]_vars => CorrInv'
<1> SUFFICES ASSUME CorrInv, [Next]_vars PROVE CorrInv'
  OBVIOUS
<1>1. CASE \E r \in Requests : Request(r) \/ Cancel(r) \/ Return(r)
  BY <1>1, RequestKeeps, CancelKeeps, ReturnKeeps
<1>2. CASE Receiving
  BY <1>2, ReceiveEventKeeps, HandOnKeeps, ReceiveResponseKeeps, ReceiveFailureKeeps,
     ReceiveEndKeeps DEF Receiving
<1>3. CASE Close \/ ServerClose
  BY <1>3, CloseKeeps, ServerCloseKeeps
<1>4. CASE Accept
  BY <1>4, AcceptKeeps
<1>5. CASE \E r \in Requests, e \in EventTypes : Emit(r, e)
  BY <1>5, EmitKeeps
<1>6. CASE \E r \in Requests : Respond(r) \/ Raise(r)
  BY <1>6, RespondKeeps, RaiseKeeps
<1>7. CASE UNCHANGED vars
  <2>1. UNCHANGED <<caller, future, pending, routing, receiving, handed, open, raising, up,
                    down, handler, emitted>>
    BY <1>7 DEF vars, client, server
  <2> USE DEF CorrInv
  <2>2. TypeOK' /\ UpInv' /\ DownInv'
    BY <2>1 DEF TypeOK, UpInv, DownInv
  <2>3. FutureInv' /\ HandedInv' /\ AnswerIsOwn' /\ ResponseIsLast'
    BY <2>1 DEF FutureInv, HandedInv, AnswerIsOwn, ResponseIsLast
  <2>4. RoutingInv' /\ RoutingIsCurrent'
    BY <2>1 DEF RoutingInv, RoutingIsCurrent, Ended, Idle
  <2> QED
    BY <2>2, <2>3, <2>4
<1> QED
  BY <1>1, <1>2, <1>3, <1>4, <1>5, <1>6, <1>7 DEF Next

LEMMA CorrInvHolds == Spec => []CorrInv
BY CorrInvInit, CorrInvStep, PTL DEF Spec

\* Every table of the client and of the server keeps its type, and the list of an
\* event type (Client._event_routing) holds a request at most once.
THEOREM TablesKeepTheirTypes == Spec => []TypeOK
<1>1. CorrInv => TypeOK
  BY DEF CorrInv
<1> QED
  BY <1>1, CorrInvHolds, PTL

\* Client.request returns only when the handler of that very request returned,
\* and raises RequestFailedError only when that handler raised, whatever the
\* other requests on the connection do and whenever it is closed.
THEOREM CallersGetTheirOwnAnswer == Spec => []AnswerIsOwn
<1>1. CorrInv => AnswerIsOwn
  BY DEF CorrInv
<1> QED
  BY <1>1, CorrInvHolds, PTL

\* No handler of a request is called after its on_response, though the request
\* stays in the routing until its caller resumes.
THEOREM NothingAfterTheResponse == Spec => []ResponseIsLast
<1>1. CorrInv => ResponseIsLast
  BY DEF CorrInv
<1> QED
  BY <1>1, CorrInvHolds, PTL

\* The routing of Client._receive_loop lists exactly the requests somebody
\* awaits, until the loop ends.
THEOREM RoutingListsWhoWaits == Spec => []RoutingIsCurrent
<1>1. CorrInv => RoutingIsCurrent
  BY DEF CorrInv
<1> QED
  BY <1>1, CorrInvHolds, PTL


\* ---- Events

\* What a frame says of its handler: an event has its number among those the
\* handler emitted, and a type that its request declares.
Sound(f) == f.kind = "event" => f.nth \in 1..Len(emitted[f.of]) /\ f.type \in EventsOf[f.of]

IsEvent(f, r) == f.kind = "event" /\ f.of = r
IsAnswer(f, r) == f.kind \in {"response", "failure"} /\ f.of = r
\* The receive loop, busy with a frame of r, has yet to call r's on_event.
Due(frame, todo, r) == \E i \in 1..Len(todo) : todo[i] = r /\ frame.of = r

SoundInv ==
    /\ \A i \in 1..Len(down) : Sound(down[i])
    /\ receiving.todo # <<>> => receiving.state = "events" /\ Sound(receiving.frame)
    /\ \A r \in Requests : \A k \in 1..Len(handed[r]) : Sound(handed[r][k])
    /\ \A r \in Requests : handler[r] = "none" => Len(emitted[r]) = 0

\* The events of a handler are in flight, in the receive loop and handed on in
\* the order it emitted them, and its answer is behind them. The operators take
\* what the loop holds and what is in flight: to receive a frame is to move it
\* from the one to the other, before the first call.
InOrder(dn, r) ==
    \A i, j \in 1..Len(dn) :
        /\ IsEvent(dn[i], r) /\ IsEvent(dn[j], r) /\ i < j => dn[i].nth < dn[j].nth
        /\ IsEvent(dn[i], r) /\ IsAnswer(dn[j], r) => i < j
Ahead(nth, dn, r) == \A i \in 1..Len(dn) : IsEvent(dn[i], r) => nth < dn[i].nth
OrderOf(frame, todo, dn) ==
    \A r \in Requests :
        /\ InOrder(dn, r)
        /\ Due(frame, todo, r) => Ahead(frame.nth, dn, r)
        /\ \A k \in OwnCalls(r) : /\ Ahead(handed[r][k].nth, dn, r)
                                  /\ Due(frame, todo, r) => handed[r][k].nth < frame.nth
        /\ \A j, k \in OwnCalls(r) : j < k => handed[r][j].nth < handed[r][k].nth
OrderInv == OrderOf(receiving.frame, receiving.todo, down)

\* Who is listed for an event type declares it, and is called once for a frame;
\* the loop lives as long as the connection, and as long as it lives whoever
\* awaits an answer is pending.
Declares(frame, todo) == \A i \in 1..Len(todo) : frame.type \in EventsOf[todo[i]]
ListenInv ==
    /\ \A e \in EventTypes : \A i \in 1..Len(routing[e]) : e \in EventsOf[routing[e][i]]
    /\ IsInjective(receiving.todo) /\ Declares(receiving.frame, receiving.todo)
    /\ open = {"client", "server"} => receiving # Ended
    /\ \A r \in Requests :
          /\ caller[r] = "waiting" /\ future[r] = "pending" => r \in pending /\ receiving # Ended
          /\ caller[r] \in {"result", "failed"} => future[r] = caller[r]

\* A request whose answer is on its way, or may still be sent.
Answerable(dn, r) ==
    /\ caller[r] = "waiting" /\ future[r] = "pending"
    /\ open = {"client", "server"} \/ \E i \in 1..Len(dn) : IsAnswer(dn[i], r)
\* request() has returned what the handler ended with, or is about to.
Settled(r) ==
    caller[r] \in {"waiting", "result", "failed"} /\ future[r] \in {"result", "failed"}

Is(f, r, n) == f = Event(r, emitted[r][n], n)
InHand(r, n) == \E k \in 1..Len(handed[r]) : Is(handed[r][k], r, n)
InFlight(dn, r, n) == \E i \in 1..Len(dn) : Is(dn[i], r, n)
InLoop(frame, todo, r, n) == Due(frame, todo, r) /\ Is(frame, r, n)

\* No event is lost on its way to a request that will be answered, and none is
\* missing once it was.
ArriveOf(frame, todo, dn) ==
    \A r \in Requests : Undisturbed(r) =>
        \A n \in 1..Len(emitted[r]) :
            /\ Answerable(dn, r) =>
                  InHand(r, n) \/ InLoop(frame, todo, r, n) \/ InFlight(dn, r, n)
            /\ Settled(r) => InHand(r, n)
ArriveInv == ArriveOf(receiving.frame, receiving.todo, down)

EventInv == CorrInv /\ SoundInv /\ OrderInv /\ ListenInv /\ ArriveInv


\* What taking the head leaves of a list, from either side.
LEMMA TailMoves ==
    ASSUME NEW S, NEW s \in Seq(S), s # <<>>
    PROVE  /\ 1 \in 1..Len(s) /\ Head(s) = s[1]
           /\ \A i \in 1..Len(Tail(s)) :
                 i + 1 \in 1..Len(s) /\ Tail(s)[i] = s[i + 1] /\ 1 < i + 1
           /\ \A i, j \in 1..Len(Tail(s)) : i < j <=> i + 1 < j + 1
           /\ \A i \in 1..Len(s) : i = 1 \/ \E j \in 1..Len(Tail(s)) : Tail(s)[j] = s[i]
<1>1. /\ Len(Tail(s)) = Len(s) - 1
      /\ \A i \in 1..Len(Tail(s)) : Tail(s)[i] = s[i + 1]
  BY HeadTailProperties
<1>2. PICK n \in Nat : n = Len(s)
  BY LenProperties
<1>3. n # 0
  BY <1>2, EmptySeq
<1>4. /\ 1 \in 1..n
      /\ \A i \in 1..(n - 1) : i + 1 \in 1..n /\ 1 < i + 1
      /\ \A i, j \in 1..(n - 1) : i < j <=> i + 1 < j + 1
      /\ \A i \in 1..n : i = 1 \/ (i - 1 \in 1..(n - 1) /\ (i - 1) + 1 = i)
  BY <1>3
<1>5. \A i \in 1..Len(s) : i = 1 \/ \E j \in 1..Len(Tail(s)) : Tail(s)[j] = s[i]
  <2> SUFFICES ASSUME NEW i \in 1..Len(s), i # 1
               PROVE  \E j \in 1..Len(Tail(s)) : Tail(s)[j] = s[i]
    OBVIOUS
  <2>1. i - 1 \in 1..Len(Tail(s)) /\ (i - 1) + 1 = i
    BY <1>1, <1>2, <1>4
  <2> QED
    BY <1>1, <2>1
<1> QED
  BY <1>1, <1>2, <1>4, <1>5

\* An event says whose it is, and which.
LEMMA EventFields ==
    ASSUME NEW f, NEW r, NEW n, Is(f, r, n)
    PROVE  f.kind = "event" /\ f.of = r /\ f.type = emitted[r][n] /\ f.nth = n
BY DEF Is, Event

\* What has an entry number among the events of a handler has it as a number.
LEMMA Numbers ==
    ASSUME CorrInv, SoundInv
    PROVE  /\ \A r \in Requests : Len(emitted[r]) \in Nat
           /\ \A i \in 1..Len(down) : down[i] \in Frames /\ down[i].of \in Requests
           /\ \A r \in Requests : \A k \in 1..Len(handed[r]) :
                 handed[r][k] \in Frames /\ handed[r][k].nth \in Nat
           /\ receiving.todo # <<>> =>
                 receiving.frame \in Frames /\ receiving.frame.kind = "event"
<1>1. /\ \A r \in Requests : emitted[r] \in Seq(EventTypes) /\ handed[r] \in Seq(Frames)
      /\ down \in Seq(Frames)
  BY DEF CorrInv, TypeOK
<1>2. \A r \in Requests : Len(emitted[r]) \in Nat
  BY <1>1, LenProperties
<1>3. \A i \in 1..Len(down) : down[i] \in Frames
  BY <1>1, ElementOfSeq
<1>4. \A r \in Requests : \A k \in 1..Len(handed[r]) : handed[r][k] \in Frames
  BY <1>1, ElementOfSeq
<1>5. receiving.todo # <<>> =>
         receiving.frame \in Frames /\ receiving.frame.kind = "event"
  BY DEF CorrInv, RoutingInv, SoundInv
<1>6. \A f \in Frames : f.of \in Requests /\ f.nth \in Nat
  BY DEF Frames
<1> QED
  BY <1>2, <1>3, <1>4, <1>5, <1>6

LEMMA EventInvInit == Init => EventInv
<1> SUFFICES ASSUME Init PROVE EventInv
  OBVIOUS
<1>1. CorrInv
  BY CorrInvInit
<1>2. Len(<<>>) = 0 /\ 1..0 = {}
  BY EmptySeq
<1>3. /\ down = <<>> /\ receiving.todo = <<>> /\ receiving.state = "idle"
      /\ \A r \in Requests : /\ handed[r] = <<>> /\ emitted[r] = <<>>
                             /\ caller[r] = "idle"
      /\ \A e \in EventTypes : routing[e] = <<>>
  BY DEF Init, Idle
<1>4. SoundInv
  BY <1>2, <1>3 DEF SoundInv
<1>5. OrderInv
  BY <1>2, <1>3 DEF OrderInv, OrderOf, InOrder, Due, OwnCalls
<1>6. ListenInv
  BY <1>2, <1>3, EmptySeq DEF ListenInv, Declares, IsInjective, Ended, Idle
<1>7. ArriveInv
  BY <1>2, <1>3 DEF ArriveInv, ArriveOf
<1> QED
  BY <1>1, <1>4, <1>5, <1>6, <1>7 DEF EventInv


\* Steps that move no event: at most the loop ends, and what was in flight is lost.
LEMMA NoEventMoves ==
    ASSUME SoundInv, OrderInv, UNCHANGED <<handed, emitted>>,
           receiving' = receiving \/ receiving'.todo = <<>>,
           down' = down \/ down' = <<>>,
           \A q \in Requests : handler'[q] = "none" => handler[q] = "none"
    PROVE  SoundInv' /\ OrderInv'
<1>1. Len(<<>>) = 0 /\ 1..0 = {}
  BY EmptySeq
<1>2. SoundInv'
  BY <1>1 DEF SoundInv, Sound
<1>3. \A q \in Requests : Due(receiving'.frame, receiving'.todo, q) =>
         Due(receiving.frame, receiving.todo, q) /\ receiving' = receiving
  BY <1>1 DEF Due
<1>4. \A q \in Requests : OwnCalls(q)' = OwnCalls(q)
  BY DEF OwnCalls
<1>5. OrderInv'
  <2> SUFFICES ASSUME NEW q \in Requests
               PROVE  /\ InOrder(down, q)'
                      /\ Due(receiving.frame, receiving.todo, q)'
                            => Ahead(receiving.frame.nth, down, q)'
                      /\ \A k \in OwnCalls(q)' :
                            /\ Ahead(handed'[q][k].nth, down', q)
                            /\ Due(receiving.frame, receiving.todo, q)'
                                  => handed'[q][k].nth < receiving'.frame.nth
                      /\ \A j, k \in OwnCalls(q)' :
                            j < k => handed'[q][j].nth < handed'[q][k].nth
    BY DEF OrderInv, OrderOf
  <2>1. InOrder(down, q)'
    BY <1>1 DEF OrderInv, OrderOf, InOrder
  <2>2. \A n : Ahead(n, down, q) => Ahead(n, down', q)
    BY <1>1 DEF Ahead
  <2>3. Due(receiving.frame, receiving.todo, q)' => Ahead(receiving.frame.nth, down, q)'
    BY <1>3, <2>2 DEF OrderInv, OrderOf, Due
  <2>4. \A k \in OwnCalls(q) : /\ Ahead(handed[q][k].nth, down, q)
                               /\ Due(receiving.frame, receiving.todo, q)
                                     => handed[q][k].nth < receiving.frame.nth
    BY DEF OrderInv, OrderOf
  <2>5. ASSUME NEW k \in OwnCalls(q)
        PROVE  /\ Ahead(handed'[q][k].nth, down', q)
               /\ Due(receiving.frame, receiving.todo, q)'
                     => handed'[q][k].nth < receiving'.frame.nth
    BY <1>3, <2>2, <2>4 DEF Due
  <2>6. \A j, k \in OwnCalls(q) : j < k => handed'[q][j].nth < handed'[q][k].nth
    BY DEF OrderInv, OrderOf
  <2> QED
    BY <1>4, <2>1, <2>3, <2>5, <2>6
<1> QED
  BY <1>2, <1>5

\* If no request becomes answerable or settled and no event moves, none is missing.
LEMMA NoEventMissing ==
    ASSUME ArriveInv, UNCHANGED <<handed, emitted, raising, receiving, down>>,
           \A q \in Requests : Len(emitted[q]) # 0 /\ Answerable(down, q)' => Answerable(down, q),
           \A q \in Requests : Len(emitted[q]) # 0 /\ Settled(q)' => Settled(q),
           \A q \in Requests : Len(emitted[q]) \in Nat
    PROVE  ArriveInv'
<1> SUFFICES ASSUME NEW q \in Requests, Undisturbed(q), NEW n \in 1..Len(emitted[q])
             PROVE  /\ Answerable(down, q)' =>
                          \/ InHand(q, n)' \/ InFlight(down, q, n)'
                          \/ InLoop(receiving.frame, receiving.todo, q, n)'
                    /\ Settled(q)' => InHand(q, n)'
  BY DEF ArriveInv, ArriveOf, Undisturbed
<1>1. Len(emitted[q]) # 0
  OBVIOUS
<1>2. /\ InHand(q, n) => InHand(q, n)'
      /\ InFlight(down, q, n) => InFlight(down, q, n)'
      /\ InLoop(receiving.frame, receiving.todo, q, n)
            => InLoop(receiving.frame, receiving.todo, q, n)'
  BY DEF InHand, InFlight, InLoop, Is, Due
<1>3. /\ Answerable(down, q) => \/ InHand(q, n) \/ InFlight(down, q, n)
                                \/ InLoop(receiving.frame, receiving.todo, q, n)
      /\ Settled(q) => InHand(q, n)
  BY DEF ArriveInv, ArriveOf
<1> QED
  BY <1>1, <1>2, <1>3


\* ---- Events: the callers

LEMMA RequestKeepsEvents ==
    ASSUME EventInv, NEW r \in Requests, Request(r)
    PROVE  EventInv'
<1> USE DEF EventInv
<1>1. CorrInv'
  BY RequestKeeps
<1>2. /\ caller[r] = "idle" /\ handler[r] = "none"
      /\ caller'[r] \in {"waiting", "unsent"} /\ future'[r] = "pending"
      /\ \A q \in Requests \ {r} : caller'[q] = caller[q] /\ future'[q] = future[q]
      /\ pending' = pending \cup {r}
      /\ UNCHANGED <<receiving, handed, open, raising, down, handler, emitted>>
      /\ \/ /\ open = {"client", "server"}
            /\ routing' = Register(r)
         \/ caller'[r] = "unsent" /\ UNCHANGED routing
  BY DEF Request, server, CorrInv, TypeOK, UpInv
<1>3. SoundInv' /\ OrderInv'
  BY <1>2, NoEventMoves
<1>4. ListenInv'
  <2>1. \A e \in EventTypes : \A i \in 1..Len(routing'[e]) : e \in EventsOf[routing'[e][i]]
    <3> SUFFICES ASSUME NEW e \in EventTypes, NEW i \in 1..Len(routing'[e])
                 PROVE  e \in EventsOf[routing'[e][i]]
      OBVIOUS
    <3>1. CASE routing'[e] = routing[e]
      BY <3>1 DEF ListenInv
    <3>2. CASE routing'[e] = Append(routing[e], r) /\ e \in EventsOf[r]
      <4>1. routing[e] \in Seq(Requests)
        BY DEF CorrInv, TypeOK
      <4>2. /\ Len(Append(routing[e], r)) = Len(routing[e]) + 1
            /\ \A j \in 1..Len(routing[e]) : Append(routing[e], r)[j] = routing[e][j]
            /\ Append(routing[e], r)[Len(routing[e]) + 1] = r
            /\ \A j \in 1..(Len(routing[e]) + 1) :
                  j \in 1..Len(routing[e]) \/ j = Len(routing[e]) + 1
        BY <4>1, AppendFacts
      <4>3. routing'[e][i] = r \/ \E j \in 1..Len(routing[e]) : routing'[e][i] = routing[e][j]
        BY <3>2, <4>2
      <4> QED
        BY <3>2, <4>3 DEF ListenInv
    <3> QED
      BY <1>2, <3>1, <3>2 DEF Register
  <2>2. \A q \in Requests :
           /\ caller'[q] = "waiting" /\ future'[q] = "pending" =>
                 q \in pending' /\ receiving' # Ended
           /\ caller'[q] \in {"result", "failed"} => future'[q] = caller'[q]
    BY <1>2 DEF ListenInv
  <2> QED
    BY <1>2, <2>1, <2>2 DEF ListenInv, Declares, Ended, Idle
<1>5. ArriveInv'
  <2>1. Len(emitted[r]) = 0 /\ \A q \in Requests : Len(emitted[q]) \in Nat
    BY <1>2, Numbers DEF SoundInv
  <2>2. \A q \in Requests : Len(emitted[q]) # 0 /\ Answerable(down, q)' => Answerable(down, q)
    BY <1>2, <2>1 DEF Answerable
  <2>3. \A q \in Requests : Len(emitted[q]) # 0 /\ Settled(q)' => Settled(q)
    BY <1>2, <2>1 DEF Settled
  <2> QED
    BY <1>2, <2>1, <2>2, <2>3, NoEventMissing
<1> QED
  BY <1>1, <1>3, <1>4, <1>5

LEMMA CancelKeepsEvents ==
    ASSUME EventInv, NEW r \in Requests, Cancel(r)
    PROVE  EventInv'
<1> USE DEF EventInv
<1>1. CorrInv'
  BY CancelKeeps
<1>2. /\ caller[r] = "waiting" /\ future'[r] = "cancelled"
      /\ \A q \in Requests \ {r} : future'[q] = future[q]
      /\ UNCHANGED <<caller, pending, routing, receiving, handed, open, raising, down,
                     handler, emitted>>
  BY DEF Cancel, server, CorrInv, TypeOK
<1>3. SoundInv' /\ OrderInv'
  BY <1>2, NoEventMoves
<1>4. ListenInv'
  BY <1>2 DEF ListenInv, Declares, Ended, Idle
<1>5. ArriveInv'
  <2>1. \A q \in Requests : Len(emitted[q]) \in Nat
    BY Numbers
  <2>2. \A q \in Requests : /\ Answerable(down, q)' => Answerable(down, q)
                            /\ Settled(q)' => Settled(q)
    BY <1>2 DEF Answerable, Settled
  <2> QED
    BY <1>2, <2>1, <2>2, NoEventMissing
<1> QED
  BY <1>1, <1>3, <1>4, <1>5

LEMMA ReturnKeepsEvents ==
    ASSUME EventInv, NEW r \in Requests, Return(r)
    PROVE  EventInv'
<1> USE DEF EventInv
<1>1. CorrInv'
  BY ReturnKeeps
<1>2. /\ caller[r] = "waiting" /\ future[r] # "pending" /\ caller'[r] = future[r]
      /\ future[r] # "none"
      /\ \A q \in Requests \ {r} : caller'[q] = caller[q]
      /\ routing' = Unregister(r)
      /\ UNCHANGED <<future, pending, receiving, handed, open, raising, down, handler, emitted>>
  BY DEF Return, server, CorrInv, TypeOK, FutureInv
<1>3. SoundInv' /\ OrderInv'
  BY <1>2, NoEventMoves
<1>4. ListenInv'
  <2>1. \A e \in EventTypes : \A i \in 1..Len(routing'[e]) :
           \E j \in 1..Len(routing[e]) : routing[e][j] = routing'[e][i]
    <3> SUFFICES ASSUME NEW e \in EventTypes
                 PROVE  \A i \in 1..Len(routing'[e]) :
                           \E j \in 1..Len(routing[e]) : routing[e][j] = routing'[e][i]
      OBVIOUS
    <3>1. routing[e] \in Seq(Requests) /\ IsInjective(routing[e])
      BY DEF CorrInv, TypeOK
    <3>2. CASE \E i \in DOMAIN routing[e] : routing[e][i] = r
      <4>1. PICK k \in DOMAIN routing[e] : k = Entry(e, r)
        BY <3>2 DEF Entry
      <4>2. routing'[e] = RemoveAt(routing[e], k)
        BY <1>2, <3>2, <4>1 DEF Unregister
      <4>3. \A i \in 1..Len(RemoveAt(routing[e], k)) :
               \E j \in 1..Len(routing[e]) : routing[e][j] = RemoveAt(routing[e], k)[i] /\ j # k
        BY <3>1, <4>1, RemoveFacts
      <4> QED
        BY <4>2, <4>3
    <3>3. CASE ~ \E i \in DOMAIN routing[e] : routing[e][i] = r
      BY <1>2, <3>3 DEF Unregister
    <3> QED
      BY <3>2, <3>3
  <2>2. \A e \in EventTypes : \A i \in 1..Len(routing'[e]) : e \in EventsOf[routing'[e][i]]
    <3> SUFFICES ASSUME NEW e \in EventTypes, NEW i \in 1..Len(routing'[e])
                 PROVE  e \in EventsOf[routing'[e][i]]
      OBVIOUS
    <3>1. PICK j \in 1..Len(routing[e]) : routing[e][j] = routing'[e][i]
      BY <2>1
    <3>2. e \in EventsOf[routing[e][j]]
      BY DEF ListenInv
    <3> QED
      BY <3>1, <3>2
  <2>3. \A q \in Requests :
           /\ caller'[q] = "waiting" /\ future'[q] = "pending" =>
                 q \in pending' /\ receiving' # Ended
           /\ caller'[q] \in {"result", "failed"} => future'[q] = caller'[q]
    BY <1>2 DEF ListenInv
  <2> QED
    BY <1>2, <2>2, <2>3 DEF ListenInv, Declares, Ended, Idle
<1>5. ArriveInv'
  <2>1. \A q \in Requests : Len(emitted[q]) \in Nat
    BY Numbers
  <2>2. \A q \in Requests : /\ Answerable(down, q)' => Answerable(down, q)
                            /\ Settled(q)' => Settled(q)
    BY <1>2 DEF Answerable, Settled
  <2> QED
    BY <1>2, <2>1, <2>2, NoEventMissing
<1> QED
  BY <1>1, <1>3, <1>4, <1>5


\* ---- Events: the ends of the connection

LEMMA AcceptKeepsEvents == EventInv /\ Accept => EventInv'
<1> SUFFICES ASSUME EventInv, Accept PROVE EventInv'
  OBVIOUS
<1> USE DEF EventInv
<1>1. CorrInv'
  BY AcceptKeeps
<1>2. /\ UNCHANGED <<caller, future, pending, routing, receiving, handed, open, raising, down,
                     emitted>>
      /\ \A q \in Requests : handler'[q] = "none" => handler[q] = "none"
  BY DEF Accept, client, CorrInv, TypeOK
<1>3. SoundInv' /\ OrderInv'
  BY <1>2, NoEventMoves
<1>4. ListenInv'
  BY <1>2 DEF ListenInv, Declares, Ended, Idle
<1>5. ArriveInv'
  <2>1. \A q \in Requests : Len(emitted[q]) \in Nat
    BY Numbers
  <2>2. \A q \in Requests : /\ Answerable(down, q)' => Answerable(down, q)
                            /\ Settled(q)' => Settled(q)
    BY <1>2 DEF Answerable, Settled
  <2> QED
    BY <1>2, <2>1, <2>2, NoEventMissing
<1> QED
  BY <1>1, <1>3, <1>4, <1>5

LEMMA ServerCloseKeepsEvents == EventInv /\ ServerClose => EventInv'
<1> SUFFICES ASSUME EventInv, ServerClose PROVE EventInv'
  OBVIOUS
<1> USE DEF EventInv
<1>1. CorrInv'
  BY ServerCloseKeeps
<1>2. /\ UNCHANGED <<caller, future, pending, routing, receiving, handed, raising, down,
                     handler, emitted>>
      /\ open' # {"client", "server"}
  BY DEF ServerClose, client, server
<1>3. SoundInv' /\ OrderInv'
  BY <1>2, NoEventMoves
<1>4. ListenInv'
  BY <1>2 DEF ListenInv, Declares, Ended, Idle
<1>5. ArriveInv'
  <2>1. \A q \in Requests : Len(emitted[q]) \in Nat
    BY Numbers
  <2>2. \A q \in Requests : /\ Answerable(down, q)' => Answerable(down, q)
                            /\ Settled(q)' => Settled(q)
    BY <1>2 DEF Answerable, Settled
  <2> QED
    BY <1>2, <2>1, <2>2, NoEventMissing
<1> QED
  BY <1>1, <1>3, <1>4, <1>5

\* Once the loop has ended nobody awaits an answer.
LEMMA FinallyKeepsEvents ==
    ASSUME EventInv, CorrInv', Finally, receiving' = Ended,
           down' = down \/ down' = <<>>, open' # {"client", "server"},
           UNCHANGED <<caller, handed, raising, server>>
    PROVE  EventInv'
<1> USE DEF EventInv
<1>1. /\ receiving'.todo = <<>> /\ UNCHANGED <<handler, emitted>>
      /\ \A q \in Requests :
            future'[q] = IF q \in pending /\ future[q] = "pending" THEN "closed" ELSE future[q]
      /\ \A e \in EventTypes : routing'[e] = <<>>
  BY DEF Finally, Ended, Idle, server
<1>2. SoundInv' /\ OrderInv'
  BY <1>1, NoEventMoves
<1>3. \A q \in Requests : ~(caller'[q] = "waiting" /\ future'[q] = "pending")
  BY <1>1 DEF ListenInv
<1>4. ListenInv'
  <2>1. Len(<<>>) = 0 /\ 1..0 = {} /\ DOMAIN <<>> = {}
    BY EmptySeq
  <2>2. IsInjective(receiving'.todo) /\ Declares(receiving'.frame, receiving'.todo)
    BY <1>1, <2>1 DEF IsInjective, Declares
  <2>3. \A q \in Requests : caller'[q] \in {"result", "failed"} => future'[q] = caller'[q]
    BY <1>1 DEF ListenInv
  <2> QED
    BY <1>1, <1>3, <2>1, <2>2, <2>3 DEF ListenInv
<1>5. ArriveInv'
  <2> SUFFICES ASSUME NEW q \in Requests, Undisturbed(q), NEW n \in 1..Len(emitted[q])
               PROVE  ~Answerable(down, q)' /\ (Settled(q)' => InHand(q, n)')
    BY <1>1 DEF ArriveInv, ArriveOf, Undisturbed
  <2>1. ~Answerable(down, q)'
    BY <1>3 DEF Answerable
  <2>2. Settled(q)' => Settled(q)
    BY <1>1 DEF Settled
  <2>3. Settled(q) => InHand(q, n)
    BY DEF ArriveInv, ArriveOf
  <2>4. InHand(q, n) => InHand(q, n)'
    BY <1>1 DEF InHand, Is
  <2> QED
    BY <2>1, <2>2, <2>3, <2>4
<1> QED
  BY <1>2, <1>4, <1>5

LEMMA ReceiveEndKeepsEvents == EventInv /\ ReceiveEnd => EventInv'
<1> SUFFICES ASSUME EventInv, ReceiveEnd PROVE EventInv'
  OBVIOUS
<1>1. CorrInv'
  BY ReceiveEndKeeps DEF EventInv
<1>2. /\ Finally /\ receiving' = Ended /\ down' = <<>> /\ open' # {"client", "server"}
      /\ UNCHANGED <<caller, handed, raising, server>>
  BY DEF ReceiveEnd
<1> QED
  BY <1>1, <1>2, FinallyKeepsEvents

LEMMA CloseKeepsEvents == EventInv /\ Close => EventInv'
<1> SUFFICES ASSUME EventInv, Close PROVE EventInv'
  OBVIOUS
<1>1. CorrInv'
  BY CloseKeeps DEF EventInv
<1>2. /\ UNCHANGED <<caller, handed, raising, down, server>>
      /\ open' # {"client", "server"}
  BY DEF Close
<1>3. CASE receiving # Ended
  BY <1>1, <1>2, <1>3, FinallyKeepsEvents DEF Close
<1>4. CASE receiving = Ended
  <2> USE DEF EventInv
  <2>1. UNCHANGED <<caller, future, pending, routing, receiving, handed, raising, down,
                    handler, emitted>>
    BY <1>2, <1>4 DEF Close, server
  <2>2. SoundInv' /\ OrderInv'
    BY <2>1, NoEventMoves
  <2>3. ListenInv'
    BY <1>2, <2>1 DEF ListenInv, Declares, Ended, Idle
  <2>4. ArriveInv'
    <3>1. \A q \in Requests : Len(emitted[q]) \in Nat
      BY Numbers
    <3>2. \A q \in Requests : /\ Answerable(down, q)' => Answerable(down, q)
                              /\ Settled(q)' => Settled(q)
      BY <1>2, <2>1 DEF Answerable, Settled
    <3> QED
      BY <2>1, <3>1, <3>2, NoEventMissing
  <2> QED
    BY <1>1, <2>2, <2>3, <2>4
<1> QED
  BY <1>3, <1>4


\* ---- Events: the server

\* A frame that is sent is behind all that are in flight, or is dropped.
LEMMA SentFacts ==
    ASSUME CorrInv, NEW frame \in Frames, Send(frame)
    PROVE  /\ \A i \in 1..Len(down) : i \in 1..Len(down') /\ down'[i] = down[i]
           /\ \A i \in 1..Len(down') :
                 \/ i \in 1..Len(down)
                 \/ /\ open = {"client", "server"} /\ down'[i] = frame
                    /\ \A j \in 1..Len(down') : (j \in 1..Len(down) /\ j < i) \/ j = i
           /\ open = {"client", "server"} => \E i \in 1..Len(down') : down'[i] = frame
<1>1. down \in Seq(Frames)
  BY DEF CorrInv, TypeOK
<1>2. PICK n \in Nat : n = Len(down)
  BY <1>1, LenProperties
<1>3. CASE down' = down /\ open # {"client", "server"}
  BY <1>3
<1>4. CASE down' = Append(down, frame) /\ open = {"client", "server"}
  <2>1. /\ Len(down') = n + 1
        /\ \A i \in 1..n : down'[i] = down[i] /\ i \in 1..(n + 1)
        /\ down'[n + 1] = frame
        /\ \A i \in 1..(n + 1) : i \in 1..n \/ i = n + 1
        /\ n + 1 \in 1..(n + 1)
    BY <1>1, <1>2, <1>4, AppendFacts
  <2>2. \A j \in 1..n : j < n + 1
    OBVIOUS
  <2> QED
    BY <1>2, <1>4, <2>1, <2>2
<1> QED
  BY <1>3, <1>4 DEF Send

\* Nothing is sent for a handler after its answer: an event that comes last
\* keeps the order.
LEMMA SentInOrder ==
    ASSUME CorrInv, OrderInv, NEW frame \in Frames, Send(frame),
           UNCHANGED <<receiving, handed>>,
           \A i \in 1..Len(down) : down[i].nth \in Nat,
           frame.kind = "event" =>
              /\ \A i \in 1..Len(down) :
                    /\ ~IsAnswer(down[i], frame.of)
                    /\ IsEvent(down[i], frame.of) => down[i].nth < frame.nth
              /\ Due(receiving.frame, receiving.todo, frame.of) => receiving.frame.nth < frame.nth
              /\ \A k \in OwnCalls(frame.of) : handed[frame.of][k].nth < frame.nth
    PROVE  OrderInv'
<1>1. /\ \A i \in 1..Len(down) : i \in 1..Len(down') /\ down'[i] = down[i]
      /\ \A i \in 1..Len(down') :
            \/ i \in 1..Len(down)
            \/ /\ open = {"client", "server"} /\ down'[i] = frame
               /\ \A j \in 1..Len(down') : (j \in 1..Len(down) /\ j < i) \/ j = i
  BY SentFacts
<1>2. \A i \in 1..Len(down') : i \in Int
  OBVIOUS
<1> SUFFICES ASSUME NEW r \in Requests
             PROVE  /\ InOrder(down, r)'
                    /\ Due(receiving.frame, receiving.todo, r)'
                          => Ahead(receiving.frame.nth, down, r)'
                    /\ \A k \in OwnCalls(r)' :
                          /\ Ahead(handed'[r][k].nth, down', r)
                          /\ Due(receiving.frame, receiving.todo, r)'
                                => handed'[r][k].nth < receiving'.frame.nth
                    /\ \A j, k \in OwnCalls(r)' :
                          j < k => handed'[r][j].nth < handed'[r][k].nth
  BY DEF OrderInv, OrderOf
<1>3. /\ InOrder(down, r)
      /\ Due(receiving.frame, receiving.todo, r) => Ahead(receiving.frame.nth, down, r)
      /\ \A k \in OwnCalls(r) : /\ Ahead(handed[r][k].nth, down, r)
                                /\ Due(receiving.frame, receiving.todo, r)
                                      => handed[r][k].nth < receiving.frame.nth
      /\ \A j, k \in OwnCalls(r) : j < k => handed[r][j].nth < handed[r][k].nth
  BY DEF OrderInv, OrderOf
<1>4. OwnCalls(r)' = OwnCalls(r)
      /\ (Due(receiving.frame, receiving.todo, r)' <=> Due(receiving.frame, receiving.todo, r))
  BY DEF OwnCalls, Due
<1>5. ASSUME NEW n, Ahead(n, down, r), IsEvent(frame, r) => n < frame.nth
      PROVE  Ahead(n, down', r)
  BY <1>1, <1>5 DEF Ahead
<1>6. InOrder(down, r)'
  <2> SUFFICES ASSUME NEW i \in 1..Len(down'), NEW j \in 1..Len(down'), IsEvent(down'[i], r)
               PROVE  /\ IsEvent(down'[j], r) /\ i < j => down'[i].nth < down'[j].nth
                      /\ IsAnswer(down'[j], r) => i < j
    BY DEF InOrder
  <2>1. CASE i \in 1..Len(down) /\ j \in 1..Len(down)
    BY <1>1, <1>3, <2>1 DEF InOrder
  <2>2. CASE i \in 1..Len(down) /\ j \notin 1..Len(down)
    <3>1. down'[j] = frame /\ i < j /\ down'[i] = down[i]
      BY <1>1, <2>2
    <3> QED
      BY <2>2, <3>1 DEF IsEvent
  <2>3. CASE i \notin 1..Len(down)
    <3>1. /\ down'[i] = frame /\ frame.kind = "event" /\ frame.of = r
          /\ (j \in 1..Len(down) /\ j < i) \/ j = i
      BY <1>1, <2>3 DEF IsEvent
    <3>2. ~(i < j)
      BY <1>2, <3>1
    <3>3. ~IsAnswer(down'[j], r)
      BY <1>1, <3>1 DEF IsAnswer
    <3> QED
      BY <3>2, <3>3
  <2> QED
    BY <2>1, <2>2, <2>3
<1>7. Due(receiving.frame, receiving.todo, r)' => Ahead(receiving'.frame.nth, down', r)
  BY <1>3, <1>4, <1>5 DEF IsEvent
<1>8. ASSUME NEW k \in OwnCalls(r)
      PROVE  /\ Ahead(handed'[r][k].nth, down', r)
             /\ Due(receiving.frame, receiving.todo, r)'
                   => handed'[r][k].nth < receiving'.frame.nth
  BY <1>3, <1>4, <1>5 DEF IsEvent
<1> QED
  BY <1>3, <1>4, <1>6, <1>7, <1>8


LEMMA EmitKeepsEvents ==
    ASSUME EventInv, NEW r \in Requests, NEW e \in EventTypes, Emit(r, e)
    PROVE  EventInv'
<1> USE DEF EventInv
<1>1. CorrInv'
  BY EmitKeeps
<1>2. /\ handler[r] = "running" /\ e \in EventsOf[r]
      /\ Send(Event(r, e, Len(emitted[r]) + 1))
      /\ UNCHANGED <<caller, future, pending, routing, receiving, handed, open, raising, handler>>
  BY DEF Emit, client
<1>3. PICK new \in Nat : new = Len(emitted[r]) + 1
  BY Numbers
<1>4. PICK frame \in Frames : frame = Event(r, e, new)
  BY DEF Event, Frames
<1>5. frame.kind = "event" /\ frame.of = r /\ frame.type = e /\ frame.nth = new
  BY <1>4 DEF Event
<1>6. /\ \A i \in 1..Len(down) : i \in 1..Len(down') /\ down'[i] = down[i]
      /\ \A i \in 1..Len(down') :
            \/ i \in 1..Len(down)
            \/ /\ open = {"client", "server"} /\ down'[i] = frame
               /\ \A j \in 1..Len(down') : (j \in 1..Len(down) /\ j < i) \/ j = i
      /\ open = {"client", "server"} => \E i \in 1..Len(down') : down'[i] = frame
  BY <1>2, <1>3, <1>4, SentFacts
<1>7. /\ \A q \in Requests \ {r} : emitted'[q] = emitted[q]
      /\ Len(emitted'[r]) = new /\ emitted'[r][new] = e
      /\ \A n \in 1..Len(emitted[r]) : emitted'[r][n] = emitted[r][n]
      /\ \A q \in Requests : \A n \in 1..Len(emitted[q]) :
            n \in 1..Len(emitted'[q]) /\ emitted'[q][n] = emitted[q][n]
      /\ \A n \in 1..new : n \in 1..Len(emitted[r]) \/ n = new
      /\ new \in 1..new
      /\ \A n \in 1..Len(emitted[r]) : n < new
  <2>1. emitted[r] \in Seq(EventTypes) /\ emitted' = [emitted EXCEPT ![r] = Append(@, e)]
    BY DEF CorrInv, TypeOK, Emit
  <2>2. emitted'[r] = Append(emitted[r], e) /\ \A q \in Requests \ {r} : emitted'[q] = emitted[q]
    BY <2>1 DEF CorrInv, TypeOK
  <2>3. /\ Len(emitted[r]) \in Nat /\ Len(Append(emitted[r], e)) = new
        /\ \A n \in 1..Len(emitted[r]) : Append(emitted[r], e)[n] = emitted[r][n]
        /\ Append(emitted[r], e)[new] = e
        /\ \A n \in 1..new : n \in 1..Len(emitted[r]) \/ n = new
        /\ \A n \in 1..Len(emitted[r]) : n \in 1..new
        /\ new \in 1..new
    BY <1>3, <2>1, AppendFacts
  <2>4. \A n \in 1..Len(emitted[r]) : n < new
    BY <1>3, <2>3
  <2> QED
    BY <2>2, <2>3, <2>4
<1>8. /\ \A q \in Requests : Len(emitted[q]) \in Nat
      /\ \A i \in 1..Len(down) : down[i] \in Frames /\ down[i].of \in Requests
      /\ \A q \in Requests : \A k \in 1..Len(handed[q]) : handed[q][k] \in Frames
      /\ receiving.todo # <<>> => receiving.frame \in Frames /\ receiving.frame.kind = "event"
      /\ \A f \in Frames : f.of \in Requests /\ f.nth \in Nat
  BY Numbers DEF Frames
<1>9. SoundInv'
  <2>1. \A f \in Frames : Sound(f) => Sound(f)'
    BY <1>7, <1>8 DEF Sound
  <2>2. Sound(frame)'
    BY <1>2, <1>5, <1>7 DEF Sound
  <2>3. ASSUME NEW i \in 1..Len(down')
        PROVE  Sound(down[i])'
    <3>1. CASE i \in 1..Len(down)
      <4>1. PICK f \in Frames : f = down[i]
        BY <1>8, <3>1
      <4>2. Sound(f)'
        BY <2>1, <3>1, <4>1 DEF SoundInv
      <4> QED
        BY <1>6, <3>1, <4>1, <4>2
    <3>2. CASE i \notin 1..Len(down)
      BY <1>6, <2>2, <3>2
    <3> QED
      BY <3>1, <3>2
  <2>4. receiving'.todo # <<>> => receiving'.state = "events" /\ Sound(receiving.frame)'
    <3> SUFFICES ASSUME receiving.todo # <<>>
                 PROVE  receiving.state = "events" /\ Sound(receiving.frame)'
      BY <1>2
    <3>1. PICK f \in Frames : f = receiving.frame
      BY <1>8
    <3>2. Sound(f)' /\ receiving.state = "events"
      BY <2>1, <3>1 DEF SoundInv
    <3> QED
      BY <1>2, <3>1, <3>2
  <2>5. ASSUME NEW q \in Requests, NEW k \in 1..Len(handed[q])
        PROVE  Sound(handed[q][k])'
    <3>1. PICK f \in Frames : f = handed[q][k]
      BY <1>8
    <3>2. Sound(f)'
      BY <2>1, <3>1 DEF SoundInv
    <3> QED
      BY <1>2, <3>1, <3>2
  <2>6. \A q \in Requests : handler'[q] = "none" => Len(emitted'[q]) = 0
    BY <1>2, <1>7 DEF SoundInv
  <2> QED
    BY <1>2, <2>3, <2>4, <2>5, <2>6 DEF SoundInv
<1>10. OrderInv'
  <2>1. \A i \in 1..Len(down) : ~IsAnswer(down[i], r)
    <3>1. \A i \in 1..Len(down) : i \in DOMAIN down
      BY LenProperties DEF CorrInv, TypeOK
    <3> QED
      BY <1>2, <3>1 DEF CorrInv, DownInv, IsAnswer
  <2>2. \A i \in 1..Len(down) : IsEvent(down[i], r) => down[i].nth < new
    BY <1>7 DEF SoundInv, Sound, IsEvent
  <2>3. Due(receiving.frame, receiving.todo, r) => receiving.frame.nth < new
    <3> SUFFICES ASSUME Due(receiving.frame, receiving.todo, r)
                 PROVE  receiving.frame.nth < new
      OBVIOUS
    <3>1. receiving.todo # <<>> /\ receiving.frame.of = r
      BY EmptySeq DEF Due
    <3> QED
      BY <1>7, <1>8, <3>1 DEF SoundInv, Sound
  <2>4. \A k \in OwnCalls(r) : handed[r][k].nth < new
    BY <1>7 DEF SoundInv, Sound, OwnCalls
  <2>5. Send(frame) /\ UNCHANGED <<receiving, handed>>
    BY <1>2, <1>3, <1>4
  <2> QED
    BY <1>5, <1>8, <2>1, <2>2, <2>3, <2>4, <2>5, SentInOrder
<1>11. ListenInv'
  BY <1>2 DEF ListenInv, Declares, Ended, Idle
<1>12. ArriveInv'
  <2> SUFFICES ASSUME NEW q \in Requests, Undisturbed(q), NEW n \in 1..Len(emitted'[q])
               PROVE  /\ Answerable(down, q)' =>
                            \/ InHand(q, n)' \/ InFlight(down, q, n)'
                            \/ InLoop(receiving.frame, receiving.todo, q, n)'
                      /\ Settled(q)' => InHand(q, n)'
    BY <1>2 DEF ArriveInv, ArriveOf, Undisturbed
  <2>1. CASE n \in 1..Len(emitted[q])
    <3>1. \A f : Is(f, q, n) => Is(f, q, n)'
      BY <1>7, <2>1 DEF Is
    <3>2. /\ InHand(q, n) => InHand(q, n)'
          /\ InLoop(receiving.frame, receiving.todo, q, n)
                => InLoop(receiving.frame, receiving.todo, q, n)'
          /\ InFlight(down, q, n) => InFlight(down, q, n)'
      <4>1. InHand(q, n) => InHand(q, n)'
        BY <1>2, <1>7, <2>1 DEF InHand, Is
      <4>2. InLoop(receiving.frame, receiving.todo, q, n)
                => InLoop(receiving.frame, receiving.todo, q, n)'
        BY <1>2, <1>7, <2>1 DEF InLoop, Is, Due
      <4>3. InFlight(down, q, n) => InFlight(down, q, n)'
        BY <1>6, <1>7, <2>1 DEF InFlight, Is
      <4> QED
        BY <4>1, <4>2, <4>3
    <3>3. /\ Answerable(down, q)' => Answerable(down, q)
          /\ Settled(q)' => Settled(q)
      <4>1. \A i \in 1..Len(down') : IsAnswer(down'[i], q) =>
               \E j \in 1..Len(down) : IsAnswer(down[j], q)
        BY <1>5, <1>6 DEF IsAnswer
      <4> QED
        BY <1>2, <4>1 DEF Answerable, Settled
    <3> QED
      BY <2>1, <3>2, <3>3 DEF ArriveInv, ArriveOf
  <2>2. CASE n \notin 1..Len(emitted[q])
    <3>1. q = r /\ n = new
      BY <1>7, <2>2
    <3>2. ~Settled(q)'
      BY <1>2, <3>1 DEF Settled, CorrInv, FutureInv
    <3>3. Answerable(down, q)' => open = {"client", "server"}
      <4>1. \A i \in DOMAIN down' : ~IsAnswer(down'[i], r)
        BY <1>1, <1>2 DEF CorrInv, DownInv, IsAnswer
      <4>2. \A i \in 1..Len(down') : i \in DOMAIN down'
        BY <1>1, LenProperties DEF CorrInv, TypeOK
      <4> QED
        BY <1>2, <3>1, <4>1, <4>2 DEF Answerable
    <3>4. open = {"client", "server"} => InFlight(down, q, n)'
      BY <1>4, <1>6, <1>7, <3>1 DEF InFlight, Is
    <3> QED
      BY <3>2, <3>3, <3>4
  <2> QED
    BY <2>1, <2>2
<1> QED
  BY <1>1, <1>9, <1>10, <1>11, <1>12


\* The answer of a handler is sent behind its events.
LEMMA EndKeepsEvents ==
    ASSUME EventInv, CorrInv', NEW r \in Requests, NEW end \in {"returned", "raised"},
           NEW frame \in Frames, frame.of = r, Send(frame), frame.kind # "event",
           handler[r] = "running", handler' = [handler EXCEPT ![r] = end],
           UNCHANGED <<client, open, raising, up, emitted>>
    PROVE  EventInv'
<1> USE DEF EventInv
<1>1. /\ UNCHANGED <<caller, future, pending, routing, receiving, handed, open, raising, emitted>>
      /\ \A q \in Requests : handler'[q] = "none" => handler[q] = "none"
  BY DEF client, CorrInv, TypeOK
<1>2. /\ \A i \in 1..Len(down) : i \in 1..Len(down') /\ down'[i] = down[i]
      /\ \A i \in 1..Len(down') :
            \/ i \in 1..Len(down)
            \/ /\ open = {"client", "server"} /\ down'[i] = frame
               /\ \A j \in 1..Len(down') : (j \in 1..Len(down) /\ j < i) \/ j = i
  BY SentFacts
<1>3. SoundInv'
  <2>1. \A f : Sound(f) => Sound(f)'
    BY <1>1 DEF Sound
  <2>2. Sound(frame)
    BY DEF Sound
  <2>3. ASSUME NEW i \in 1..Len(down')
        PROVE  Sound(down[i])'
    <3>1. CASE i \in 1..Len(down)
      BY <1>2, <2>1, <3>1, <1>1 DEF SoundInv, Sound
    <3>2. CASE i \notin 1..Len(down)
      BY <1>2, <3>2 DEF Sound
    <3> QED
      BY <3>1, <3>2
  <2> QED
    BY <1>1, <2>3 DEF SoundInv, Sound
<1>4. OrderInv'
  <2>1. \A i \in 1..Len(down) : down[i].nth \in Nat
    BY Numbers DEF Frames
  <2> QED
    BY <1>1, <2>1, SentInOrder
<1>5. ListenInv'
  BY <1>1 DEF ListenInv, Declares, Ended, Idle
<1>6. ArriveInv'
  <2> SUFFICES ASSUME NEW q \in Requests, Undisturbed(q), NEW n \in 1..Len(emitted[q])
               PROVE  /\ Answerable(down, q)' =>
                            \/ InHand(q, n)' \/ InFlight(down, q, n)'
                            \/ InLoop(receiving.frame, receiving.todo, q, n)'
                      /\ Settled(q)' => InHand(q, n)'
    BY <1>1 DEF ArriveInv, ArriveOf, Undisturbed
  <2>1. /\ InHand(q, n) => InHand(q, n)'
        /\ InLoop(receiving.frame, receiving.todo, q, n)
              => InLoop(receiving.frame, receiving.todo, q, n)'
    BY <1>1 DEF InHand, InLoop, Is, Due
  <2>2. InFlight(down, q, n) => InFlight(down, q, n)'
    BY <1>1, <1>2 DEF InFlight, Is
  <2>3. Answerable(down, q)' => Answerable(down, q)
    BY <1>1, <1>2 DEF Answerable
  <2>4. Settled(q)' => Settled(q)
    BY <1>1 DEF Settled
  <2> QED
    BY <2>1, <2>2, <2>3, <2>4 DEF ArriveInv, ArriveOf
<1> QED
  BY <1>3, <1>4, <1>5, <1>6

LEMMA RespondKeepsEvents ==
    ASSUME EventInv, NEW r \in Requests, Respond(r)
    PROVE  EventInv'
<1>1. CorrInv'
  BY RespondKeeps DEF EventInv
<1>2. PICK frame \in Frames : frame = Response(r)
  BY DEF Response, Frames
<1>3. frame.of = r /\ frame.kind # "event"
  BY <1>2 DEF Response
<1>4. /\ handler[r] = "running" /\ handler' = [handler EXCEPT ![r] = "returned"]
      /\ Send(frame) /\ UNCHANGED <<client, open, raising, up, emitted>>
  BY <1>2 DEF Respond
<1> QED
  BY <1>1, <1>3, <1>4, EndKeepsEvents

LEMMA RaiseKeepsEvents ==
    ASSUME EventInv, NEW r \in Requests, Raise(r)
    PROVE  EventInv'
<1>1. CorrInv'
  BY RaiseKeeps DEF EventInv
<1>2. PICK frame \in Frames : frame = Failure(r)
  BY DEF Failure, Frames
<1>3. frame.of = r /\ frame.kind # "event"
  BY <1>2 DEF Failure
<1>4. /\ handler[r] = "running" /\ handler' = [handler EXCEPT ![r] = "raised"]
      /\ Send(frame) /\ UNCHANGED <<client, open, raising, up, emitted>>
  BY <1>2 DEF Raise
<1> QED
  BY <1>1, <1>3, <1>4, EndKeepsEvents

\* ---- Events: the receive loop

\* What a call leaves of the calls before it.
LEMMA HandedFacts ==
    ASSUME CorrInv, NEW r \in Requests, NEW frame \in Frames,
           handed'[r] = handed[r] \/ handed'[r] = Append(handed[r], frame)
    PROVE  /\ \A k \in 1..Len(handed[r]) : k \in 1..Len(handed'[r]) /\ handed'[r][k] = handed[r][k]
           /\ \A k \in 1..Len(handed'[r]) :
                 \/ k \in 1..Len(handed[r])
                 \/ /\ handed'[r] = Append(handed[r], frame) /\ handed'[r][k] = frame
                    /\ \A j \in 1..Len(handed'[r]) : (j \in 1..Len(handed[r]) /\ j < k) \/ j = k
           /\ handed'[r] = Append(handed[r], frame) =>
                 \E k \in 1..Len(handed'[r]) : handed'[r][k] = frame
<1>1. handed[r] \in Seq(Frames)
  BY DEF CorrInv, TypeOK
<1>2. PICK n \in Nat : n = Len(handed[r])
  BY <1>1, LenProperties
<1>3. /\ Len(Append(handed[r], frame)) = n + 1
      /\ \A i \in 1..n : Append(handed[r], frame)[i] = handed[r][i] /\ i \in 1..(n + 1)
      /\ Append(handed[r], frame)[n + 1] = frame
      /\ \A i \in 1..(n + 1) : i \in 1..n \/ i = n + 1
      /\ n + 1 \in 1..(n + 1)
  BY <1>1, <1>2, AppendFacts
<1>4. \A j \in 1..n : j < n + 1
  OBVIOUS
<1>5. CASE handed'[r] = Append(handed[r], frame)
  BY <1>2, <1>3, <1>4, <1>5
<1>6. CASE handed'[r] # Append(handed[r], frame)
  BY <1>6
<1> QED
  BY <1>5, <1>6


\* Once an answer is received, the events it was sent behind have been handed on.
LEMMA AnswerKeepsEvents ==
    ASSUME EventInv, CorrInv', NEW kind \in {"response", "failure"}, Incoming(kind),
           NEW r \in Requests, r = Head(down).of,
           UNCHANGED <<caller, routing, receiving, open, raising, server>>,
           \A q \in Requests :
              handed'[q] = handed[q] \/ handed'[q] = Append(handed[q], Head(down)),
           \A q \in Requests \ {r} : future'[q] = future[q] /\ (q \in pending => q \in pending'),
           \/ future'[r] = future[r]
           \/ future[r] = "pending" /\ future'[r] \in {"result", "failed"},
           r \in pending => future'[r] # "pending"
    PROVE  EventInv'
<1> USE DEF EventInv
<1>1. UNCHANGED <<handler, emitted>>
  BY DEF server
<1>2. /\ receiving = Idle /\ receiving.todo = <<>> /\ down # <<>> /\ down' = Tail(down)
      /\ down \in Seq(Frames)
  BY DEF Incoming, Idle, CorrInv, TypeOK
<1>3. PICK frame \in Frames : frame = Head(down)
  BY <1>2, HeadTailProperties
<1>4. frame.kind \in {"response", "failure"} /\ frame.of = r
  BY <1>3 DEF Incoming
<1>5. /\ 1 \in 1..Len(down) /\ frame = down[1]
      /\ \A i \in 1..Len(down') :
            i + 1 \in 1..Len(down) /\ down'[i] = down[i + 1] /\ 1 < i + 1
      /\ \A i, j \in 1..Len(down') : i < j <=> i + 1 < j + 1
      /\ \A i \in 1..Len(down) : i = 1 \/ \E j \in 1..Len(down') : down'[j] = down[i]
  BY <1>2, <1>3, TailMoves
<1>6. \A q \in Requests :
         /\ \A k \in 1..Len(handed[q]) :
               k \in 1..Len(handed'[q]) /\ handed'[q][k] = handed[q][k]
         /\ \A k \in 1..Len(handed'[q]) : k \in 1..Len(handed[q]) \/ handed'[q][k] = frame
  BY <1>3, HandedFacts
<1>7. \A q \in Requests : ~Due(receiving.frame, receiving.todo, q)
  BY <1>2, EmptySeq DEF Due
<1>8. SoundInv'
  <2>1. ASSUME NEW q \in Requests, NEW k \in 1..Len(handed'[q])
        PROVE  Sound(handed[q][k])'
    <3>1. CASE k \in 1..Len(handed[q])
      BY <1>1, <1>6, <3>1 DEF SoundInv, Sound
    <3>2. CASE k \notin 1..Len(handed[q])
      BY <1>4, <1>6, <3>2 DEF Sound
    <3> QED
      BY <3>1, <3>2
  <2>2. ASSUME NEW i \in 1..Len(down')
        PROVE  Sound(down[i])'
    BY <1>1, <1>5 DEF SoundInv, Sound
  <2>3. \A q \in Requests : handler'[q] = "none" => Len(emitted'[q]) = 0
    BY <1>1 DEF SoundInv
  <2> QED
    BY <1>2, <2>1, <2>2, <2>3 DEF SoundInv
<1>9. OrderInv'
  <2> SUFFICES ASSUME NEW q \in Requests
               PROVE  /\ InOrder(down, q)'
                      /\ \A k \in OwnCalls(q)' : Ahead(handed'[q][k].nth, down', q)
                      /\ \A j, k \in OwnCalls(q)' :
                            j < k => handed'[q][j].nth < handed'[q][k].nth
    BY <1>7 DEF OrderInv, OrderOf, Due
  <2>1. OwnCalls(q)' = OwnCalls(q) /\ \A k \in OwnCalls(q) : handed'[q][k] = handed[q][k]
    BY <1>4, <1>6 DEF OwnCalls
  <2>2. \A n : Ahead(n, down, q) => Ahead(n, down', q)
    BY <1>5 DEF Ahead
  <2>3. InOrder(down, q)'
    <3>1. InOrder(down, q)
      BY DEF OrderInv, OrderOf
    <3> SUFFICES ASSUME NEW i \in 1..Len(down'), NEW j \in 1..Len(down')
                 PROVE  /\ IsEvent(down'[i], q) /\ IsEvent(down'[j], q) /\ i < j
                              => down'[i].nth < down'[j].nth
                        /\ IsEvent(down'[i], q) /\ IsAnswer(down'[j], q) => i < j
      BY DEF InOrder
    <3>2. /\ i + 1 \in 1..Len(down) /\ down'[i] = down[i + 1]
          /\ j + 1 \in 1..Len(down) /\ down'[j] = down[j + 1]
          /\ i < j <=> i + 1 < j + 1
      BY <1>5
    <3> QED
      BY <3>1, <3>2 DEF InOrder
  <2>4. /\ \A k \in OwnCalls(q) : Ahead(handed[q][k].nth, down, q)
        /\ \A j, k \in OwnCalls(q) : j < k => handed[q][j].nth < handed[q][k].nth
    BY DEF OrderInv, OrderOf
  <2> QED
    BY <2>1, <2>2, <2>3, <2>4
<1>10. ListenInv'
  <2>1. ASSUME NEW q \in Requests
        PROVE  /\ caller'[q] = "waiting" /\ future'[q] = "pending" =>
                     q \in pending' /\ receiving' # Ended
               /\ caller'[q] \in {"result", "failed"} => future'[q] = caller'[q]
    <3>1. CASE q = r
      BY <3>1 DEF ListenInv
    <3>2. CASE q # r
      BY <3>2 DEF ListenInv
    <3> QED
      BY <3>1, <3>2
  <2>2. /\ \A e \in EventTypes : \A i \in 1..Len(routing'[e]) : e \in EventsOf[routing'[e][i]]
        /\ IsInjective(receiving'.todo) /\ Declares(receiving'.frame, receiving'.todo)
        /\ open' = {"client", "server"} => receiving' # Ended
    BY DEF ListenInv
  <2> QED
    BY <2>1, <2>2 DEF ListenInv, Declares, Ended, Idle
<1>11. ArriveInv'
  <2> SUFFICES ASSUME NEW q \in Requests, Undisturbed(q), NEW n \in 1..Len(emitted[q])
               PROVE  /\ Answerable(down, q)' => InHand(q, n)' \/ InFlight(down, q, n)'
                      /\ Settled(q)' => InHand(q, n)'
    BY <1>1 DEF ArriveInv, ArriveOf, Undisturbed
  <2>1. InHand(q, n) => InHand(q, n)'
    BY <1>1, <1>6 DEF InHand, Is
  <2>2. ASSUME InFlight(down, q, n)
        PROVE  /\ InFlight(down, q, n)'
               /\ \E i \in 1..Len(down) : IsEvent(down[i], q) /\ 1 < i
    <3>1. PICK i \in 1..Len(down) : Is(down[i], q, n)
      BY <2>2 DEF InFlight
    <3>2. i # 1 /\ IsEvent(down[i], q)
      BY <1>4, <1>5, <3>1, EventFields DEF IsEvent
    <3>3. 1 < i
      BY <3>2
    <3>4. PICK j \in 1..Len(down') : down'[j] = down[i]
      BY <1>5, <3>2
    <3> QED
      BY <1>1, <3>1, <3>2, <3>3, <3>4 DEF InFlight, Is
  <2>3. /\ Answerable(down, q) => InHand(q, n) \/ InFlight(down, q, n)
        /\ Settled(q) => InHand(q, n)
    BY <1>7 DEF ArriveInv, ArriveOf, InLoop
  <2>4. Answerable(down, q)' => Answerable(down, q)
    <3>1. \A i \in 1..Len(down') : IsAnswer(down'[i], q) =>
             \E j \in 1..Len(down) : IsAnswer(down[j], q)
      BY <1>5
    <3>2. future'[q] = "pending" => future[q] = "pending"
      OBVIOUS
    <3> QED
      BY <3>1, <3>2 DEF Answerable
  <2>5. ASSUME Settled(q)', ~Settled(q)
        PROVE  InHand(q, n)
    <3>1. q = r /\ future[r] = "pending" /\ caller[r] \in {"waiting", "result", "failed"}
      BY <2>5 DEF Settled
    <3>2. caller[r] = "waiting"
      BY <3>1 DEF ListenInv
    <3>3. IsAnswer(down[1], r)
      BY <1>4, <1>5 DEF IsAnswer
    <3>4. Answerable(down, q)
      BY <1>5, <3>1, <3>2, <3>3 DEF Answerable
    <3>5. \A i \in 1..Len(down) : IsEvent(down[i], q) => i < 1
      BY <1>5, <3>1, <3>3 DEF OrderInv, OrderOf, InOrder
    <3>6. ~InFlight(down, q, n)
      <4> SUFFICES ASSUME NEW i \in 1..Len(down), i < 1, 1 < i PROVE FALSE
        BY <2>2, <3>5
      <4> QED
        OBVIOUS
    <3> QED
      BY <2>3, <3>4, <3>6
  <2> QED
    BY <2>1, <2>2, <2>3, <2>4, <2>5
<1> QED
  BY <1>8, <1>9, <1>10, <1>11

LEMMA ReceiveResponseKeepsEvents == EventInv /\ ReceiveResponse => EventInv'
<1> SUFFICES ASSUME EventInv, ReceiveResponse PROVE EventInv'
  OBVIOUS
<1>1. CorrInv'
  BY ReceiveResponseKeeps DEF EventInv
<1>2. /\ Incoming("response")
      /\ UNCHANGED <<caller, routing, receiving, open, raising, server>>
  BY DEF ReceiveResponse
<1>3. PICK r \in Requests : r = Head(down).of
  <2>1. down \in Seq(Frames) /\ down # <<>>
    BY <1>2 DEF EventInv, CorrInv, TypeOK, Incoming
  <2>2. PICK frame \in Frames : frame = Head(down)
    BY <2>1, HeadTailProperties
  <2> QED
    BY <2>2 DEF Frames
<1>4. /\ \A q \in Requests :
            handed'[q] = handed[q] \/ handed'[q] = Append(handed[q], Head(down))
      /\ \A q \in Requests \ {r} : future'[q] = future[q] /\ (q \in pending => q \in pending')
      /\ \/ future'[r] = future[r]
         \/ future[r] = "pending" /\ future'[r] \in {"result", "failed"}
      /\ r \in pending => future'[r] # "pending"
  <2>1. /\ handed \in [Requests -> Seq(Frames)]
        /\ future \in [Requests -> {"none", "pending", "result", "failed", "closed",
                                    "cancelled"}]
    BY DEF EventInv, CorrInv, TypeOK
  <2>2. CASE r \in pending
    <3>1. /\ pending' = pending \ {r}
          /\ handed' = [handed EXCEPT ![r] = Append(@, Head(down))]
          /\ future' = [future EXCEPT ![r] = IF @ = "pending" THEN "result" ELSE @]
      BY <1>3, <2>2 DEF ReceiveResponse, Answered, Pop, Settle
    <3> QED
      BY <2>1, <3>1
  <2>3. CASE r \notin pending
    BY <1>3, <2>3 DEF ReceiveResponse, Answered
  <2> QED
    BY <2>2, <2>3
<1> QED
  BY <1>1, <1>2, <1>3, <1>4, AnswerKeepsEvents

LEMMA ReceiveFailureKeepsEvents == EventInv /\ ReceiveFailure => EventInv'
<1> SUFFICES ASSUME EventInv, ReceiveFailure PROVE EventInv'
  OBVIOUS
<1>1. CorrInv'
  BY ReceiveFailureKeeps DEF EventInv
<1>2. /\ Incoming("failure")
      /\ UNCHANGED <<caller, routing, receiving, handed, open, raising, server>>
  BY DEF ReceiveFailure
<1>3. PICK r \in Requests : r = Head(down).of
  <2>1. down \in Seq(Frames) /\ down # <<>>
    BY <1>2 DEF EventInv, CorrInv, TypeOK, Incoming
  <2>2. PICK frame \in Frames : frame = Head(down)
    BY <2>1, HeadTailProperties
  <2> QED
    BY <2>2 DEF Frames
<1>4. /\ \A q \in Requests \ {r} : future'[q] = future[q] /\ (q \in pending => q \in pending')
      /\ \/ future'[r] = future[r]
         \/ future[r] = "pending" /\ future'[r] \in {"result", "failed"}
      /\ r \in pending => future'[r] # "pending"
  <2>1. future \in [Requests -> {"none", "pending", "result", "failed", "closed", "cancelled"}]
    BY DEF EventInv, CorrInv, TypeOK
  <2>2. CASE r \in pending
    BY <1>3, <2>1, <2>2 DEF ReceiveFailure, Answered, Pop, Settle
  <2>3. CASE r \notin pending
    BY <1>3, <2>3 DEF ReceiveFailure, Answered
  <2> QED
    BY <2>2, <2>3
<1> QED
  BY <1>1, <1>2, <1>3, <1>4, AnswerKeepsEvents


\* Whoever is first in the loop's list is called with the frame while it is
\* pending; the rest of the list is given up only if that call raises.
LEMMA HandKeepsEvents ==
    ASSUME CorrInv, CorrInv', NEW frame \in Frames, NEW todo \in Seq(Requests),
           Hand(frame, todo), receiving # Ended,
           frame.kind = "event", Sound(frame), IsInjective(todo), Declares(frame, todo),
           \A i \in 1..Len(down') : Sound(down'[i]),
           SoundInv, ListenInv,
           OrderOf(frame, todo, down'), ArriveOf(frame, todo, down'),
           UNCHANGED <<caller, future, pending, routing, open, raising, server>>
    PROVE  EventInv'
<1>1. UNCHANGED <<handler, emitted>>
  BY DEF server
<1>2. Idle.todo = <<>> /\ Idle.state = "idle" /\ Idle # Ended /\ Len(<<>>) = 0 /\ 1..0 = {}
  BY EmptySeq DEF Idle, Ended
<1>3. /\ \A i \in 1..Len(down') : Sound(down[i])'
      /\ \A q \in Requests : \A k \in 1..Len(handed[q]) : Sound(handed[q][k])
      /\ \A q \in Requests : handler'[q] = "none" => Len(emitted'[q]) = 0
      /\ \A f : Sound(f) => Sound(f)'
  BY <1>1 DEF SoundInv, Sound
<1>4. \A e \in EventTypes : \A i \in 1..Len(routing'[e]) : e \in EventsOf[routing'[e][i]]
  BY DEF ListenInv
<1>5. /\ open' = {"client", "server"} => receiving # Ended
      /\ \A q \in Requests :
            /\ caller'[q] = "waiting" /\ future'[q] = "pending" => q \in pending' /\ receiving # Ended
            /\ caller'[q] \in {"result", "failed"} => future'[q] = caller'[q]
  BY DEF ListenInv
<1>6. CASE todo = <<>>
  <2>1. receiving' = Idle /\ handed' = handed
    BY <1>6 DEF Hand
  <2>2. SoundInv'
    BY <1>2, <1>3, <2>1 DEF SoundInv, Sound
  <2>3. \A q \in Requests : ~Due(receiving.frame, receiving.todo, q)' /\ ~Due(frame, todo, q)
    BY <1>2, <1>6, <2>1 DEF Due
  <2>4. OrderInv'
    <3>1. \A q \in Requests : OwnCalls(q)' = OwnCalls(q)
      BY <2>1 DEF OwnCalls
    <3> QED
      BY <2>1, <2>3, <3>1 DEF OrderInv, OrderOf, InOrder, Ahead, Due
  <2>5. ListenInv'
    <3>1. IsInjective(receiving'.todo) /\ Declares(receiving'.frame, receiving'.todo)
      BY <1>2, <2>1, EmptySeq DEF IsInjective, Declares
    <3>2. (receiving # Ended)'
      BY <1>2, <2>1 DEF Idle, Ended
    <3> QED
      BY <1>4, <1>5, <3>1, <3>2 DEF ListenInv, Ended, Idle
  <2>6. ArriveInv'
    <3> SUFFICES ASSUME NEW q \in Requests, Undisturbed(q), NEW n \in 1..Len(emitted[q])
                 PROVE  /\ Answerable(down, q)' => InHand(q, n)' \/ InFlight(down, q, n)'
                        /\ Settled(q)' => InHand(q, n)'
      BY <1>1 DEF ArriveInv, ArriveOf, Undisturbed
    <3>1. /\ Answerable(down', q) => InHand(q, n) \/ InFlight(down', q, n)
          /\ Settled(q) => InHand(q, n)
      BY <2>3 DEF ArriveOf, InLoop
    <3>2. /\ Answerable(down, q)' => Answerable(down', q)
          /\ Settled(q)' => Settled(q)
          /\ InHand(q, n) => InHand(q, n)'
          /\ InFlight(down', q, n) => InFlight(down, q, n)'
      BY <1>1, <2>1 DEF Answerable, Settled, InHand, InFlight, Is
    <3> QED
      BY <3>1, <3>2
  <2> QED
    BY <2>2, <2>4, <2>5, <2>6 DEF EventInv
<1>7. CASE todo # <<>>
  <2>1. PICK p \in Requests : p = Head(todo)
    BY <1>7, HeadTailProperties
  <2> DEFINE rest == Tail(todo)
  <2>2. /\ \A q \in Requests :
              handed'[q] = IF q = p /\ p \in pending THEN Append(handed[q], frame) ELSE handed[q]
        /\ \/ receiving' = Idle /\ p \in pending \cap raising
           \/ /\ receiving'.state = "events" /\ receiving'.frame = frame
              /\ receiving'.todo = rest /\ receiving' # Ended
    <3>1. receiving' = IF p \in pending \cap raising THEN Idle
                       ELSE [state |-> "events", frame |-> frame, todo |-> rest]
      BY <1>7, <2>1 DEF Hand
    <3>2. handed' = IF p \in pending THEN [handed EXCEPT ![p] = Append(@, frame)] ELSE handed
      BY <1>7, <2>1 DEF Hand
    <3>3. handed \in [Requests -> Seq(Frames)]
      BY DEF CorrInv, TypeOK
    <3>4. \A q \in Requests :
             handed'[q] = IF q = p /\ p \in pending THEN Append(handed[q], frame) ELSE handed[q]
      BY <3>2, <3>3
    <3> QED
      BY <3>1, <3>4 DEF Ended, Idle
  <2>3. /\ 1 \in 1..Len(todo) /\ p = todo[1]
        /\ \A i \in 1..Len(rest) : i + 1 \in 1..Len(todo) /\ rest[i] = todo[i + 1]
        /\ \A i \in 1..Len(todo) : i = 1 \/ \E j \in 1..Len(rest) : rest[j] = todo[i]
    BY <1>7, <2>1, TailMoves
  <2>4. rest \in Seq(Requests) /\ IsInjective(rest) /\ \A i \in 1..Len(rest) : rest[i] # p
    <3>1. rest \in Seq(Requests)
      BY <1>7, HeadTailProperties
    <3>2. DOMAIN rest = 1..Len(rest)
      BY <3>1, LenProperties
    <3> QED
      BY <1>7, <2>1, <3>1, <3>2, TailInjective
  <2> HIDE DEF rest
  <2>5. \A q \in Requests :
           /\ Due(receiving.frame, receiving.todo, q)' =>
                 /\ Due(frame, todo, q) /\ q # p
                 /\ receiving'.frame = frame
           /\ Due(frame, todo, q) /\ q # p => Due(frame, rest, q)
           /\ Due(frame, todo, q) => frame.of = q
    <3> SUFFICES ASSUME NEW q \in Requests
                 PROVE  /\ Due(receiving.frame, receiving.todo, q)' =>
                              /\ Due(frame, todo, q) /\ q # p
                              /\ receiving'.frame = frame
                        /\ Due(frame, todo, q) /\ q # p => Due(frame, rest, q)
                        /\ Due(frame, todo, q) => frame.of = q
      OBVIOUS
    <3>1. Due(frame, rest, q) => Due(frame, todo, q) /\ q # p
      BY <2>3, <2>4 DEF Due
    <3>2. ASSUME Due(receiving.frame, receiving.todo, q)'
          PROVE  Due(frame, rest, q) /\ receiving'.frame = frame
      <4>1. receiving' # Idle
        BY <1>2, <3>2 DEF Due
      <4>2. receiving'.frame = frame /\ receiving'.todo = rest
        BY <2>2, <4>1
      <4> QED
        BY <3>2, <4>2 DEF Due
    <3>3. ASSUME Due(frame, todo, q), q # p
          PROVE  Due(frame, rest, q)
      <4>1. PICK i \in 1..Len(todo) : todo[i] = q /\ frame.of = q
        BY <3>3 DEF Due
      <4>2. i # 1
        BY <2>3, <3>3, <4>1
      <4>3. PICK j \in 1..Len(rest) : rest[j] = todo[i]
        BY <2>3, <4>2
      <4> QED
        BY <4>1, <4>3 DEF Due
    <3>4. Due(frame, todo, q) => frame.of = q
      BY DEF Due
    <3> QED
      BY <3>1, <3>2, <3>3, <3>4
  <2>6. \A q \in Requests :
           /\ \A k \in 1..Len(handed[q]) :
                 k \in 1..Len(handed'[q]) /\ handed'[q][k] = handed[q][k]
           /\ \A k \in 1..Len(handed'[q]) :
                 \/ k \in 1..Len(handed[q])
                 \/ /\ q = p /\ p \in pending /\ handed'[q][k] = frame
                    /\ \A j \in 1..Len(handed'[q]) : (j \in 1..Len(handed[q]) /\ j < k) \/ j = k
           /\ q = p /\ p \in pending => \E k \in 1..Len(handed'[q]) : handed'[q][k] = frame
    <3> SUFFICES ASSUME NEW q \in Requests
                 PROVE  /\ \A k \in 1..Len(handed[q]) :
                              k \in 1..Len(handed'[q]) /\ handed'[q][k] = handed[q][k]
                        /\ \A k \in 1..Len(handed'[q]) :
                              \/ k \in 1..Len(handed[q])
                              \/ /\ q = p /\ p \in pending /\ handed'[q][k] = frame
                                 /\ \A j \in 1..Len(handed'[q]) :
                                       (j \in 1..Len(handed[q]) /\ j < k) \/ j = k
                        /\ q = p /\ p \in pending =>
                              \E k \in 1..Len(handed'[q]) : handed'[q][k] = frame
      OBVIOUS
    <3>1. CASE q = p /\ p \in pending
      <4>1. handed'[q] = Append(handed[q], frame)
        BY <2>2, <3>1
      <4> QED
        BY <3>1, <4>1, HandedFacts
    <3>2. CASE ~(q = p /\ p \in pending)
      <4>1. handed'[q] = handed[q]
        BY <2>2, <3>2
      <4> QED
        BY <3>2, <4>1
    <3> QED
      BY <3>1, <3>2
  <2>7. SoundInv'
    <3>1. ASSUME NEW q \in Requests, NEW k \in 1..Len(handed'[q])
          PROVE  Sound(handed[q][k])'
      <4>1. CASE k \in 1..Len(handed[q])
        BY <1>3, <2>6, <4>1 DEF Sound
      <4>2. CASE k \notin 1..Len(handed[q])
        BY <1>3, <2>6, <4>2 DEF Sound
      <4> QED
        BY <4>1, <4>2
    <3>2. receiving'.todo # <<>> => receiving'.state = "events" /\ Sound(receiving.frame)'
      BY <1>2, <1>3, <2>2 DEF Sound
    <3> QED
      BY <1>3, <3>1, <3>2 DEF SoundInv
  <2>8. OrderInv'
    <3> SUFFICES ASSUME NEW q \in Requests
                 PROVE  /\ InOrder(down, q)'
                        /\ Due(receiving.frame, receiving.todo, q)'
                              => Ahead(receiving'.frame.nth, down', q)
                        /\ \A k \in OwnCalls(q)' :
                              /\ Ahead(handed'[q][k].nth, down', q)
                              /\ Due(receiving.frame, receiving.todo, q)'
                                    => handed'[q][k].nth < receiving'.frame.nth
                        /\ \A j, k \in OwnCalls(q)' :
                              j < k => handed'[q][j].nth < handed'[q][k].nth
      BY DEF OrderInv, OrderOf, Ahead, Due
    <3>1. /\ InOrder(down', q)
          /\ Due(frame, todo, q) => Ahead(frame.nth, down', q)
          /\ \A k \in OwnCalls(q) : /\ Ahead(handed[q][k].nth, down', q)
                                    /\ Due(frame, todo, q) => handed[q][k].nth < frame.nth
          /\ \A j, k \in OwnCalls(q) : j < k => handed[q][j].nth < handed[q][k].nth
      BY DEF OrderOf
    <3>2. InOrder(down, q)'
      BY <3>1 DEF InOrder
    <3>3. Due(receiving.frame, receiving.todo, q)' => Ahead(receiving'.frame.nth, down', q)
      BY <2>5, <3>1
    <3>4. \A k \in OwnCalls(q)' :
             \/ k \in OwnCalls(q) /\ handed'[q][k] = handed[q][k]
             \/ /\ q = p /\ Due(frame, todo, q) /\ handed'[q][k] = frame
                /\ \A j \in OwnCalls(q)' : (j \in OwnCalls(q) /\ j < k) \/ j = k
      <4> SUFFICES ASSUME NEW k \in OwnCalls(q)', k \notin OwnCalls(q)
                   PROVE  /\ q = p /\ Due(frame, todo, q) /\ handed'[q][k] = frame
                          /\ \A j \in OwnCalls(q)' : (j \in OwnCalls(q) /\ j < k) \/ j = k
        BY <2>6 DEF OwnCalls
      <4>1. /\ k \in 1..Len(handed'[q]) /\ k \notin 1..Len(handed[q])
            /\ handed'[q][k].of = q
        BY <2>6 DEF OwnCalls
      <4>2. /\ q = p /\ handed'[q][k] = frame
            /\ \A j \in 1..Len(handed'[q]) : (j \in 1..Len(handed[q]) /\ j < k) \/ j = k
        BY <2>6, <4>1
      <4>3. Due(frame, todo, q)
        BY <2>3, <4>1, <4>2 DEF Due
      <4>4. \A j \in OwnCalls(q)' : (j \in OwnCalls(q) /\ j < k) \/ j = k
        BY <2>6, <4>2 DEF OwnCalls
      <4> QED
        BY <4>2, <4>3, <4>4
    <3>5. \A k \in OwnCalls(q)' :
             /\ Ahead(handed'[q][k].nth, down', q)
             /\ Due(receiving.frame, receiving.todo, q)'
                   => handed'[q][k].nth < receiving'.frame.nth
      BY <2>5, <3>1, <3>4
    <3>6. \A k \in OwnCalls(q)' : k \in Int
      BY DEF OwnCalls
    <3>7. ASSUME NEW j \in OwnCalls(q)', NEW k \in OwnCalls(q)', j < k
          PROVE  handed'[q][j].nth < handed'[q][k].nth
      <4>1. CASE k \in OwnCalls(q) /\ handed'[q][k] = handed[q][k]
        <5>1. ~ \A i \in OwnCalls(q)' : (i \in OwnCalls(q) /\ i < j) \/ i = j
          BY <3>6, <3>7
        <5>2. j \in OwnCalls(q) /\ handed'[q][j] = handed[q][j]
          BY <3>4, <5>1
        <5> QED
          BY <3>1, <3>7, <4>1, <5>2
      <4>2. CASE /\ q = p /\ Due(frame, todo, q) /\ handed'[q][k] = frame
                 /\ \A i \in OwnCalls(q)' : (i \in OwnCalls(q) /\ i < k) \/ i = k
        <5>1. j \in OwnCalls(q)
          BY <3>6, <3>7, <4>2
        <5>2. handed'[q][j] = handed[q][j]
          BY <2>6, <5>1 DEF OwnCalls
        <5> QED
          BY <3>1, <4>2, <5>1, <5>2
      <4> QED
        BY <3>4, <4>1, <4>2
    <3> QED
      BY <3>2, <3>3, <3>5, <3>7
  <2>9. ListenInv'
    <3>1. IsInjective(receiving'.todo) /\ Declares(receiving'.frame, receiving'.todo)
      <4>1. IsInjective(<<>>) /\ \A f : Declares(f, <<>>)
        BY <1>2, EmptySeq DEF IsInjective, Declares
      <4>2. Declares(frame, rest)
        BY <2>3 DEF Declares
      <4> QED
        BY <1>2, <2>2, <2>4, <4>1, <4>2
    <3>2. receiving' # Ended
      BY <1>2, <2>2
    <3> QED
      BY <1>4, <1>5, <3>1, <3>2 DEF ListenInv, Declares, Ended, Idle
  <2>10. ArriveInv'
    <3> SUFFICES ASSUME NEW q \in Requests, Undisturbed(q), NEW n \in 1..Len(emitted[q])
                 PROVE  /\ Answerable(down, q)' =>
                              \/ InHand(q, n)' \/ InFlight(down, q, n)'
                              \/ InLoop(receiving.frame, receiving.todo, q, n)'
                        /\ Settled(q)' => InHand(q, n)'
      BY <1>1 DEF ArriveInv, ArriveOf, Undisturbed
    <3>1. /\ Answerable(down', q) =>
                InHand(q, n) \/ InLoop(frame, todo, q, n) \/ InFlight(down', q, n)
          /\ Settled(q) => InHand(q, n)
      BY DEF ArriveOf
    <3>2. /\ Answerable(down, q)' => Answerable(down', q)
          /\ Settled(q)' => Settled(q)
          /\ InFlight(down', q, n) => InFlight(down, q, n)'
      BY <1>1 DEF Answerable, Settled, InFlight, Is
    <3>3. InHand(q, n) => InHand(q, n)'
      BY <1>1, <2>6 DEF InHand, Is
    <3>4. ASSUME Answerable(down', q), InLoop(frame, todo, q, n)
          PROVE  InHand(q, n)' \/ InLoop(receiving.frame, receiving.todo, q, n)'
      <4>1. Due(frame, todo, q) /\ Is(frame, q, n)
        BY <3>4 DEF InLoop
      <4>2. CASE q = p
        <5>1. q \in pending
          BY <3>4 DEF Answerable, ListenInv
        <5>2. PICK k \in 1..Len(handed'[q]) : handed'[q][k] = frame
          BY <2>6, <4>2, <5>1
        <5> QED
          BY <1>1, <4>1, <5>2 DEF InHand, Is
      <4>3. CASE q # p
        <5>1. Due(frame, rest, q) /\ frame.of = q
          BY <2>5, <4>1, <4>3
        <5>2. frame.type \in EventsOf[p] /\ frame.type \in EventsOf[q]
          BY <2>3, <5>1 DEF Declares, Sound
        <5>3. p \notin raising
          BY <4>3, <5>2 DEF Undisturbed
        <5>4. receiving'.frame = frame /\ receiving'.todo = rest
          BY <2>2, <5>3
        <5>5. Due(receiving.frame, receiving.todo, q)' /\ Is(receiving.frame, q, n)'
          BY <1>1, <4>1, <5>1, <5>4 DEF Due, Is
        <5> QED
          BY <5>5 DEF InLoop
      <4> QED
        BY <4>2, <4>3
    <3> QED
      BY <3>1, <3>2, <3>3, <3>4
  <2> QED
    BY <2>7, <2>8, <2>9, <2>10 DEF EventInv
<1> QED
  BY <1>6, <1>7


LEMMA HandOnKeepsEvents == EventInv /\ HandOn => EventInv'
<1> SUFFICES ASSUME EventInv, HandOn PROVE EventInv'
  OBVIOUS
<1> USE DEF EventInv
<1>1. CorrInv'
  BY HandOnKeeps
<1>2. /\ receiving.state = "events" /\ Hand(receiving.frame, receiving.todo) /\ down' = down
      /\ UNCHANGED <<caller, future, pending, routing, open, raising, server>>
      /\ receiving # Ended
  BY DEF HandOn, Ended, Idle
<1>3. /\ receiving.todo \in Seq(Requests) /\ receiving.frame \in Frames
      /\ receiving.frame.kind = "event"
  BY <1>2 DEF CorrInv, TypeOK, RoutingInv
<1>4. /\ IsInjective(receiving.todo) /\ Declares(receiving.frame, receiving.todo)
      /\ \A i \in 1..Len(down') : Sound(down'[i])
      /\ OrderOf(receiving.frame, receiving.todo, down')
      /\ ArriveOf(receiving.frame, receiving.todo, down')
  BY <1>2 DEF ListenInv, SoundInv, OrderInv, ArriveInv
<1>5. CASE receiving.todo # <<>>
  <2>1. Sound(receiving.frame)
    BY <1>5 DEF SoundInv
  <2> QED
    BY <1>1, <1>2, <1>3, <1>4, <2>1, HandKeepsEvents
<1>6. CASE receiving.todo = <<>>
  <2>1. receiving' = Idle /\ handed' = handed /\ UNCHANGED emitted
    BY <1>2, <1>6 DEF Hand, server
  <2>2. receiving'.todo = <<>> /\ receiving' # Ended
    BY <2>1 DEF Idle, Ended
  <2>3. SoundInv' /\ OrderInv'
    BY <1>2, <2>1, <2>2, NoEventMoves DEF server
  <2>4. ListenInv'
    BY <1>2, <1>6, <2>2 DEF ListenInv, Declares
  <2>5. ArriveInv'
    <3>1. \A q \in Requests : ~Due(receiving.frame, receiving.todo, q)
      BY <1>6, EmptySeq DEF Due
    <3> SUFFICES ASSUME NEW q \in Requests, Undisturbed(q), NEW n \in 1..Len(emitted[q])
                 PROVE  /\ Answerable(down, q)' => InHand(q, n)' \/ InFlight(down, q, n)'
                        /\ Settled(q)' => InHand(q, n)'
      BY <1>2, <2>1 DEF ArriveInv, ArriveOf, Undisturbed
    <3>2. /\ Answerable(down, q) => InHand(q, n) \/ InFlight(down, q, n)
          /\ Settled(q) => InHand(q, n)
      BY <3>1 DEF ArriveInv, ArriveOf, InLoop
    <3>3. /\ Answerable(down, q)' => Answerable(down, q)
          /\ Settled(q)' => Settled(q)
          /\ InHand(q, n) => InHand(q, n)'
          /\ InFlight(down, q, n) => InFlight(down, q, n)'
      BY <1>2, <2>1 DEF Answerable, Settled, InHand, InFlight, Is
    <3> QED
      BY <3>2, <3>3
  <2> QED
    BY <1>1, <2>3, <2>4, <2>5
<1> QED
  BY <1>5, <1>6

\* The event that is received is for everybody who is listed for its type, and
\* whoever awaits an answer and declares it is listed.
LEMMA ReceiveEventKeepsEvents == EventInv /\ ReceiveEvent => EventInv'
<1> SUFFICES ASSUME EventInv, ReceiveEvent PROVE EventInv'
  OBVIOUS
<1> USE DEF EventInv
<1>1. CorrInv'
  BY ReceiveEventKeeps
<1>2. /\ receiving = Idle /\ receiving # Ended /\ receiving.todo = <<>>
      /\ down \in Seq(Frames) /\ down # <<>> /\ down' = Tail(down)
      /\ Head(down).kind = "event" /\ Hand(Head(down), routing[Head(down).type])
      /\ UNCHANGED <<caller, future, pending, routing, open, raising, server>>
  BY DEF ReceiveEvent, Incoming, Recipients, Idle, Ended, CorrInv, TypeOK
<1>3. PICK frame \in Frames : frame = Head(down)
  BY <1>2, HeadTailProperties
<1>4. /\ 1 \in 1..Len(down) /\ frame = down[1]
      /\ \A i \in 1..Len(down') :
            i + 1 \in 1..Len(down) /\ down'[i] = down[i + 1] /\ 1 < i + 1
      /\ \A i, j \in 1..Len(down') : i < j <=> i + 1 < j + 1
      /\ \A i \in 1..Len(down) : i = 1 \/ \E j \in 1..Len(down') : down'[j] = down[i]
  BY <1>2, <1>3, TailMoves
<1>5. frame.kind = "event" /\ Sound(frame) /\ frame.type \in EventTypes /\ frame.of \in Requests
  <2>1. frame.of \in Requests
    BY DEF Frames
  <2> QED
    BY <1>2, <1>3, <1>4, <2>1, EventsAssumption DEF SoundInv, Sound
<1>6. PICK todo \in Seq(Requests) : todo = routing[frame.type]
  BY <1>5 DEF CorrInv, TypeOK
<1>7. IsInjective(todo) /\ Declares(frame, todo)
  BY <1>5, <1>6 DEF CorrInv, TypeOK, ListenInv, Declares
<1>8. \A i \in 1..Len(down') : Sound(down'[i])
  BY <1>4 DEF SoundInv
<1>9. \A q \in Requests : ~Due(receiving.frame, receiving.todo, q)
  BY <1>2, EmptySeq DEF Due
<1>10. OrderOf(frame, todo, down')
  <2> SUFFICES ASSUME NEW q \in Requests
               PROVE  /\ InOrder(down', q)
                      /\ Due(frame, todo, q) => Ahead(frame.nth, down', q)
                      /\ \A k \in OwnCalls(q) : /\ Ahead(handed[q][k].nth, down', q)
                                                /\ Due(frame, todo, q)
                                                      => handed[q][k].nth < frame.nth
                      /\ \A j, k \in OwnCalls(q) : j < k => handed[q][j].nth < handed[q][k].nth
    BY DEF OrderOf
  <2>1. /\ InOrder(down, q)
        /\ \A k \in OwnCalls(q) : Ahead(handed[q][k].nth, down, q)
        /\ \A j, k \in OwnCalls(q) : j < k => handed[q][j].nth < handed[q][k].nth
    BY DEF OrderInv, OrderOf
  <2>2. \A n : Ahead(n, down, q) => Ahead(n, down', q)
    BY <1>4 DEF Ahead
  <2>3. InOrder(down', q)
    <3> SUFFICES ASSUME NEW i \in 1..Len(down'), NEW j \in 1..Len(down')
                 PROVE  /\ IsEvent(down'[i], q) /\ IsEvent(down'[j], q) /\ i < j
                              => down'[i].nth < down'[j].nth
                        /\ IsEvent(down'[i], q) /\ IsAnswer(down'[j], q) => i < j
      BY DEF InOrder
    <3>1. /\ i + 1 \in 1..Len(down) /\ down'[i] = down[i + 1]
          /\ j + 1 \in 1..Len(down) /\ down'[j] = down[j + 1]
          /\ i < j <=> i + 1 < j + 1
      BY <1>4
    <3> QED
      BY <2>1, <3>1 DEF InOrder
  <2>4. ASSUME Due(frame, todo, q)
        PROVE  /\ Ahead(frame.nth, down', q)
               /\ \A k \in OwnCalls(q) : handed[q][k].nth < frame.nth
    <3>1. IsEvent(down[1], q)
      BY <1>4, <1>5, <2>4 DEF Due, IsEvent
    <3>2. Ahead(frame.nth, down', q)
      BY <1>4, <2>1, <3>1 DEF InOrder, Ahead
    <3>3. \A k \in OwnCalls(q) : handed[q][k].nth < frame.nth
      BY <1>4, <2>1, <3>1 DEF Ahead
    <3> QED
      BY <3>2, <3>3
  <2> QED
    BY <2>1, <2>2, <2>3, <2>4
<1>11. ArriveOf(frame, todo, down')
  <2> SUFFICES ASSUME NEW q \in Requests, Undisturbed(q), NEW n \in 1..Len(emitted[q])
               PROVE  /\ Answerable(down', q) =>
                            InHand(q, n) \/ InLoop(frame, todo, q, n) \/ InFlight(down', q, n)
                      /\ Settled(q) => InHand(q, n)
    BY DEF ArriveOf
  <2>1. /\ Answerable(down, q) => InHand(q, n) \/ InFlight(down, q, n)
        /\ Settled(q) => InHand(q, n)
    BY <1>9 DEF ArriveInv, ArriveOf, InLoop
  <2>2. Answerable(down', q) => Answerable(down, q)
    BY <1>4 DEF Answerable
  <2>3. ASSUME InFlight(down, q, n), Answerable(down', q)
        PROVE  InLoop(frame, todo, q, n) \/ InFlight(down', q, n)
    <3>1. PICK i \in 1..Len(down) : Is(down[i], q, n)
      BY <2>3 DEF InFlight
    <3>2. CASE i = 1
      <4>1. Is(frame, q, n) /\ frame.of = q
        BY <1>4, <3>1, <3>2, EventFields
      <4>2. frame.type \in EventsOf[q] /\ caller[q] = "waiting"
        BY <1>5, <2>3, <4>1 DEF Sound, Answerable
      <4>3. \E j \in 1..Len(routing[frame.type]) : routing[frame.type][j] = q
        BY <1>2, <4>2 DEF CorrInv, RoutingIsCurrent
      <4> QED
        BY <1>6, <4>1, <4>3 DEF InLoop, Due
    <3>3. CASE i # 1
      BY <1>4, <3>1, <3>3 DEF InFlight
    <3> QED
      BY <3>2, <3>3
  <2> QED
    BY <2>1, <2>2, <2>3
<1>12. Hand(frame, todo)
  BY <1>2, <1>3, <1>6
<1> QED
  BY <1>1, <1>2, <1>5, <1>7, <1>8, <1>10, <1>11, <1>12, HandKeepsEvents

LEMMA EventInvStep == EventInv /\ [Next]_vars => EventInv'
<1> SUFFICES ASSUME EventInv, [Next]_vars PROVE EventInv'
  OBVIOUS
<1>1. CASE \E r \in Requests : Request(r) \/ Cancel(r) \/ Return(r)
  BY <1>1, RequestKeepsEvents, CancelKeepsEvents, ReturnKeepsEvents
<1>2. CASE Receiving
  BY <1>2, ReceiveEventKeepsEvents, HandOnKeepsEvents, ReceiveResponseKeepsEvents,
     ReceiveFailureKeepsEvents, ReceiveEndKeepsEvents DEF Receiving
<1>3. CASE Close \/ ServerClose
  BY <1>3, CloseKeepsEvents, ServerCloseKeepsEvents
<1>4. CASE Accept
  BY <1>4, AcceptKeepsEvents
<1>5. CASE \E r \in Requests, e \in EventTypes : Emit(r, e)
  BY <1>5, EmitKeepsEvents
<1>6. CASE \E r \in Requests : Respond(r) \/ Raise(r)
  BY <1>6, RespondKeepsEvents, RaiseKeepsEvents
<1>7. CASE UNCHANGED vars
  <2> USE DEF EventInv
  <2>1. UNCHANGED <<caller, future, pending, routing, receiving, handed, open, raising, down,
                    handler, emitted>>
    BY <1>7 DEF vars, client, server
  <2>2. CorrInv'
    BY <1>7, CorrInvStep
  <2>3. SoundInv' /\ OrderInv'
    BY <2>1, NoEventMoves
  <2>4. ListenInv'
    BY <2>1 DEF ListenInv, Declares, Ended, Idle
  <2>5. ArriveInv'
    <3>1. \A q \in Requests : Len(emitted[q]) \in Nat
      BY Numbers
    <3>2. \A q \in Requests : /\ Answerable(down, q)' => Answerable(down, q)
                              /\ Settled(q)' => Settled(q)
      BY <2>1 DEF Answerable, Settled
    <3> QED
      BY <2>1, <3>1, <3>2, NoEventMissing
  <2> QED
    BY <2>2, <2>3, <2>4, <2>5
<1> QED
  BY <1>1, <1>2, <1>3, <1>4, <1>5, <1>6, <1>7 DEF Next

LEMMA EventInvHolds == Spec => []EventInv
BY EventInvInit, EventInvStep, PTL DEF Spec

\* When Client.request returns, or raises what its handler raised, on_event was
\* called with every event that handler emitted, once and in that order: none
\* overtakes the answer or is overtaken by it, whatever the receive loop does for
\* other requests in between, and none is lost unless another request that
\* declares one of its types has an on_event that raises.
THEOREM EventsPrecedeTheAnswer == Spec => []EventsComplete
<1>1. EventInv => EventsComplete
  <2> SUFFICES ASSUME EventInv, NEW r \in Requests,
                      caller[r] \in {"result", "failed"}, Undisturbed(r)
               PROVE  /\ \A n \in 1..Len(emitted[r]) :
                            \E k \in OwnCalls(r) : handed[r][k] = Event(r, emitted[r][n], n)
                      /\ \A k \in OwnCalls(r) : handed[r][k].nth \in 1..Len(emitted[r])
                      /\ \A j, k \in OwnCalls(r) : j < k => handed[r][j].nth < handed[r][k].nth
    BY DEF EventsComplete
  <2> USE DEF EventInv
  <2>1. Settled(r)
    BY DEF Settled, ListenInv
  <2>2. ASSUME NEW n \in 1..Len(emitted[r])
        PROVE  \E k \in OwnCalls(r) : handed[r][k] = Event(r, emitted[r][n], n)
    <3>1. PICK k \in 1..Len(handed[r]) : Is(handed[r][k], r, n)
      BY <2>1 DEF ArriveInv, ArriveOf, InHand
    <3>2. handed[r][k].kind = "event" /\ handed[r][k].of = r
      BY <3>1, EventFields
    <3> QED
      BY <3>1, <3>2 DEF OwnCalls, Is
  <2>3. \A k \in OwnCalls(r) : handed[r][k].nth \in 1..Len(emitted[r])
    BY DEF SoundInv, Sound, OwnCalls
  <2>4. \A j, k \in OwnCalls(r) : j < k => handed[r][j].nth < handed[r][k].nth
    BY DEF OrderInv, OrderOf
  <2> QED
    BY <2>2, <2>3, <2>4
<1> QED
  BY <1>1, EventInvHolds, PTL
=============================================================================
