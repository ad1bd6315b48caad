-------------------------- MODULE TransportProofs --------------------------
(* Proofs about Transport, for any frames of any lengths and any capacity of   *)
(* the socket.                                                                 *)
EXTENDS Transport, FiniteSetTheorems, SequenceTheorems, TLAPS

Flying == [frame : Senders, piece : Nat, ends : BOOLEAN]
Received == [pieces : Seq(Pieces) \ {<<>>}, fds : SUBSET Carriers]

\* ---- Sequences, position by position

LEMMA Joined ==
    ASSUME NEW S, NEW p \in Seq(S), NEW q \in Seq(S)
    PROVE  /\ p \o q \in Seq(S) /\ Len(p \o q) = Len(p) + Len(q)
           /\ \A i \in 1..Len(p) : (p \o q)[i] = p[i]
           /\ \A i \in 1..Len(q) : (p \o q)[Len(p) + i] = q[i]
<1> DEFINE a == Len(p)
           b == Len(q)
           r == p \o q
<1>1. a \in Nat /\ b \in Nat
  BY LenProperties
<1>2. /\ r \in Seq(S) /\ Len(r) = a + b
      /\ \A i \in 1..(a + b) : r[i] = IF i <= a THEN p[i] ELSE q[i - a]
  BY ConcatProperties
<1> HIDE DEF a, b, r
<1>3. \A i \in 1..a : i \in 1..(a + b) /\ i <= a
  BY <1>1
<1>4. \A i \in 1..b : a + i \in 1..(a + b) /\ ~(a + i <= a) /\ (a + i) - a = i
  BY <1>1
<1>5. \A i \in 1..a : r[i] = p[i]
  BY <1>2, <1>3
<1>6. \A i \in 1..b : r[a + i] = q[i]
  BY <1>2, <1>4
<1> QED
  BY <1>2, <1>5, <1>6 DEF a, b, r

LEMMA Taken ==
    ASSUME NEW S, NEW q \in Seq(S), NEW n \in 1..Len(q)
    PROVE  /\ SubSeq(q, 1, n) \in Seq(S) /\ Len(SubSeq(q, 1, n)) = n
           /\ \A i \in 1..n : SubSeq(q, 1, n)[i] = q[i]
<1> DEFINE a == Len(q)
           r == SubSeq(q, 1, n)
<1>1. a \in Nat /\ \A i \in 1..a : q[i] \in S
  BY LenProperties
<1>2. n \in 1..a
  OBVIOUS
<1> HIDE DEF a
<1>3. n \in Nat /\ 1 <= n /\ \A i \in 1..n : i \in 1..a
  BY <1>1, <1>2
<1>4. /\ r \in Seq(S) /\ Len(r) = IF 1 <= n THEN n - 1 + 1 ELSE 0
      /\ \A i \in 1..(n - 1 + 1) : r[i] = q[1 + i - 1]
  <2>1. n \in Int /\ 1 \in Int /\ \A i \in 1..n : q[i] \in S
    BY <1>1, <1>3
  <2> QED
    BY <2>1, SubSeqProperties
<1> HIDE DEF r
<1>5. n - 1 + 1 = n /\ \A i \in 1..n : 1 + i - 1 = i
  BY <1>3
<1>6. Len(r) = n /\ \A i \in 1..n : r[i] = q[i]
  BY <1>3, <1>4, <1>5
<1> QED
  BY <1>4, <1>6 DEF r

LEMMA Dropped ==
    ASSUME NEW S, NEW q \in Seq(S), NEW n \in 1..Len(q)
    PROVE  /\ SubSeq(q, n + 1, Len(q)) \in Seq(S)
           /\ Len(SubSeq(q, n + 1, Len(q))) = Len(q) - n
           /\ \A i \in 1..(Len(q) - n) : SubSeq(q, n + 1, Len(q))[i] = q[i + n]
<1> DEFINE a == Len(q)
           r == SubSeq(q, n + 1, a)
<1>1. a \in Nat /\ \A i \in 1..a : q[i] \in S
  BY LenProperties
<1>2. n \in 1..a
  OBVIOUS
<1> HIDE DEF a
<1>3. n \in Nat /\ 1 <= n /\ n <= a /\ \A i \in (n + 1)..a : i \in 1..a
  BY <1>1, <1>2
<1>4. /\ r \in Seq(S) /\ Len(r) = IF n + 1 <= a THEN a - (n + 1) + 1 ELSE 0
      /\ \A i \in 1..(a - (n + 1) + 1) : r[i] = q[(n + 1) + i - 1]
  <2>1. n + 1 \in Int /\ a \in Int /\ \A i \in (n + 1)..a : q[i] \in S
    BY <1>1, <1>3
  <2> QED
    BY <2>1, SubSeqProperties
<1> HIDE DEF r
<1>5. /\ a - (n + 1) + 1 = a - n
      /\ \A i \in 1..(a - n) : (n + 1) + i - 1 = i + n
      /\ ~(n + 1 <= a) => a - n = 0
  BY <1>1, <1>3
<1>6. Len(r) = a - n /\ \A i \in 1..(a - n) : r[i] = q[i + n]
  BY <1>4, <1>5
<1> QED
  BY <1>4, <1>6 DEF a, r

\* ---- What each step does to the queues

\* Sending appends the next n pieces of a frame to the socket, and leaves the
\* sender waiting unless they were its last.
LEMMA SendSteps ==
    ASSUME TypeOK, NEW s \in Senders, SendWhatFits(s)
    PROVE  \E n \in Nat :
             /\ sent[s] + n <= Length[s]
             /\ sent' = [sent EXCEPT ![s] = sent[s] + n]
             /\ pc' = [pc EXCEPT ![s] = IF sent[s] + n = Length[s]
                                        THEN "done" ELSE "waiting"]
             /\ socket' \in Seq(Flying)
             /\ Len(socket') = Len(socket) + n
             /\ Len(socket') <= Capacity
             /\ \A i \in 1..Len(socket) : socket'[i] = socket[i]
             /\ \A i \in 1..n :
                   /\ socket'[Len(socket) + i].frame = s
                   /\ socket'[Len(socket) + i].piece = sent[s] + i
<1> DEFINE from == NextPiece(s)
           left == Length[s] - from + 1
           m == IF Room < left THEN Room ELSE left
           to == from + m - 1
           seg == Segment(s, from, to)
<1>1. /\ socket \in Seq(Flying) /\ Len(socket) \in Nat /\ Len(socket) <= Capacity
      /\ sent[s] \in Nat /\ sent[s] <= Length[s] /\ Length[s] \in Nat
  BY LengthAssumption DEF TypeOK, Flying
<1>2. from = sent[s] + 1 /\ left = Length[s] - sent[s]
  BY <1>1 DEF NextPiece
<1>3. m \in Nat /\ m <= left /\ Len(socket) + m <= Capacity
  BY <1>1, <1>2, SizeAssumption DEF Room
<1>4. sent' = [sent EXCEPT ![s] = to] /\ socket' = socket \o seg
  BY DEF SendWhatFits
<1>5. pc' = [pc EXCEPT ![s] = IF m = left THEN "done" ELSE "waiting"]
  BY DEF SendWhatFits
<1> HIDE DEF m
<1>6. to = sent[s] + m /\ to - from + 1 = m
  BY <1>1, <1>2, <1>3
<1> HIDE DEF from, left
<1>7. /\ seg \in Seq(Flying) /\ Len(seg) = m
      /\ \A i \in 1..m : seg[i].frame = s /\ seg[i].piece = sent[s] + i
  <2>1. seg = [i \in 1..m |->
                 [frame |-> s, piece |-> from + i - 1, ends |-> from + i - 1 = to]]
    BY <1>6 DEF Segment
  <2>2. \A i \in 1..m : from + i - 1 = sent[s] + i /\ from + i - 1 \in Nat
    BY <1>1, <1>2, <1>3
  <2> HIDE DEF to, seg
  <2>3. \A i \in 1..m :
           seg[i] = [frame |-> s, piece |-> sent[s] + i, ends |-> from + i - 1 = to]
    BY <2>1, <2>2
  <2>4. \A i \in 1..m : sent[s] + i \in Nat
    BY <1>1, <1>3
  <2>5. \A i \in 1..m : seg[i] \in Flying /\ seg[i].frame = s /\ seg[i].piece = sent[s] + i
    <3> SUFFICES ASSUME NEW i \in 1..m
                 PROVE  seg[i] \in Flying /\ seg[i].frame = s /\ seg[i].piece = sent[s] + i
      OBVIOUS
    <3>1. (from + i - 1 = to) \in BOOLEAN
      OBVIOUS
    <3>2. PICK e \in BOOLEAN : seg[i] = [frame |-> s, piece |-> sent[s] + i, ends |-> e]
      BY <2>3, <3>1
    <3>3. sent[s] + i \in Nat
      BY <2>4
    <3> QED
      BY <3>2, <3>3 DEF Flying
  <2>6. seg \in [1..m -> Flying]
    BY <2>1, <2>5
  <2> QED
    BY <2>5, <2>6, <1>3
<1> HIDE DEF to, seg
<1>8. /\ socket' \in Seq(Flying) /\ Len(socket') = Len(socket) + m
      /\ \A i \in 1..Len(socket) : socket'[i] = socket[i]
      /\ \A i \in 1..m : socket'[Len(socket) + i] = seg[i]
  <2>1. socket \in Seq(Flying) /\ seg \in Seq(Flying)
    BY <1>1, <1>7
  <2>2. /\ socket \o seg \in Seq(Flying) /\ Len(socket \o seg) = Len(socket) + Len(seg)
        /\ \A i \in 1..Len(socket) : (socket \o seg)[i] = socket[i]
        /\ \A i \in 1..Len(seg) : (socket \o seg)[Len(socket) + i] = seg[i]
    BY <2>1, Joined
  <2>3. Len(seg) = m
    BY <1>7
  <2> QED
    BY <1>4, <2>2, <2>3
<1>9. \A i \in 1..m : /\ socket'[Len(socket) + i].frame = s
                      /\ socket'[Len(socket) + i].piece = sent[s] + i
  BY <1>7, <1>8
<1>10. m = left <=> sent[s] + m = Length[s]
  BY <1>1, <1>2, <1>3
<1>11. /\ sent' = [sent EXCEPT ![s] = sent[s] + m]
       /\ pc' = [pc EXCEPT ![s] = IF sent[s] + m = Length[s] THEN "done" ELSE "waiting"]
  BY <1>4, <1>5, <1>6, <1>10
<1>12. sent[s] + m <= Length[s] /\ Len(socket') <= Capacity
  BY <1>1, <1>2, <1>3, <1>8
<1>13. m \in Nat
  BY <1>3
<1> QED
  BY <1>8, <1>9, <1>11, <1>12, <1>13

\* Reading moves the first n pieces from the socket to the buffer, with the
\* descriptors of the frames that begin among them.
LEMMA ReceiveSteps ==
    ASSUME TypeOK, Receive
    PROVE  \E n \in 1..Len(socket) :
             /\ buffer' \in Seq(Pieces) /\ Len(buffer') = Len(buffer) + n
             /\ \A i \in 1..Len(buffer) : buffer'[i] = buffer[i]
             /\ \A i \in 1..n :
                   buffer'[Len(buffer) + i] = Piece(socket[i].frame, socket[i].piece)
             /\ socket' \in Seq(Flying) /\ Len(socket') = Len(socket) - n
             /\ \A i \in 1..(Len(socket) - n) : socket'[i] = socket[i + n]
             /\ collected' = collected \cup
                    {s \in Carriers : \E i \in 1..n :
                        Brings(socket[i]) /\ socket[i].frame = s}
<1>1. /\ socket \in Seq(Flying) /\ Len(socket) \in Nat
      /\ buffer \in Seq(Pieces)
      /\ DOMAIN socket = 1..Len(socket)
      /\ \A i \in 1..Len(socket) : socket[i] \in Flying
  <2>1. socket \in Seq(Flying) /\ buffer \in Seq(Pieces)
    BY DEF TypeOK, Flying
  <2> QED
    BY <2>1, LenProperties
<1>2. PICK n \in 1..Len(socket) :
        /\ buffer' = buffer \o [i \in 1..n |-> Piece(socket[i].frame, socket[i].piece)]
        /\ collected' = Extend({s \in Carriers : \E i \in 1..n :
                                    Brings(socket[i]) /\ socket[i].frame = s})
        /\ socket' = SubSeq(socket, n + 1, Len(socket))
  BY <1>1 DEF Receive
<1> DEFINE new == [i \in 1..n |-> Piece(socket[i].frame, socket[i].piece)]
<1>3. n \in Nat /\ n <= Len(socket)
  BY <1>1
<1>4. new \in Seq(Pieces) /\ Len(new) = n
  <2>1. \A i \in 1..n : Piece(socket[i].frame, socket[i].piece) \in Pieces
    BY <1>1, <1>3 DEF Flying, Pieces, Piece
  <2>2. new \in [1..n -> Pieces]
    BY <2>1
  <2> QED
    BY <2>2, <1>3
<1>5. /\ buffer' \in Seq(Pieces) /\ Len(buffer') = Len(buffer) + n
      /\ \A i \in 1..Len(buffer) : buffer'[i] = buffer[i]
      /\ \A i \in 1..n : buffer'[Len(buffer) + i] = new[i]
  BY <1>1, <1>2, <1>4, Joined
<1>6. \A i \in 1..n : new[i] = Piece(socket[i].frame, socket[i].piece)
  OBVIOUS
<1> HIDE DEF new
<1>7. /\ socket' \in Seq(Flying) /\ Len(socket') = Len(socket) - n
      /\ \A i \in 1..(Len(socket) - n) : socket'[i] = socket[i + n]
  BY <1>1, <1>2, Dropped
<1> QED
  BY <1>2, <1>5, <1>6, <1>7 DEF Extend

\* Extracting takes the buffer up to its first delimiter.
LEMMA DeliverSteps ==
    ASSUME TypeOK, Deliver
    PROVE  \E i \in 1..Len(buffer), d \in Received :
             /\ FirstEnd(buffer, i)
             /\ buffer' \in Seq(Pieces) /\ Len(buffer') = Len(buffer) - i
             /\ \A j \in 1..(Len(buffer) - i) : buffer'[j] = buffer[j + i]
             /\ d.pieces \in Seq(Pieces) /\ Len(d.pieces) = i
             /\ \A j \in 1..i : d.pieces[j] = buffer[j]
             /\ d.fds = collected
             /\ delivered' \in Seq(Received) /\ Len(delivered') = Len(delivered) + 1
             /\ \A k \in 1..Len(delivered) : delivered'[k] = delivered[k]
             /\ delivered'[Len(delivered) + 1] = d
<1>1. /\ buffer \in Seq(Pieces) /\ Len(buffer) \in Nat
      /\ DOMAIN buffer = 1..Len(buffer)
      /\ collected \subseteq Carriers /\ delivered \in Seq(Received)
  <2>1. /\ buffer \in Seq(Pieces) /\ collected \subseteq Carriers
        /\ delivered \in Seq(Received)
    BY DEF TypeOK, Received
  <2> QED
    BY <2>1, LenProperties
<1>2. PICK i \in 1..Len(buffer) :
        /\ FirstEnd(buffer, i)
        /\ buffer' = SubSeq(buffer, i + 1, Len(buffer))
        /\ delivered' = Append(delivered,
              [pieces |-> SubSeq(buffer, 1, i), fds |-> collected])
  BY <1>1 DEF Deliver, Extract
<1> DEFINE got == SubSeq(buffer, 1, i)
           d == [pieces |-> got, fds |-> collected]
<1>3. i \in Nat /\ 1 <= i
  BY <1>1
<1>4. /\ buffer' \in Seq(Pieces) /\ Len(buffer') = Len(buffer) - i
      /\ \A j \in 1..(Len(buffer) - i) : buffer'[j] = buffer[j + i]
  BY <1>1, <1>2, Dropped
<1>5. got \in Seq(Pieces) /\ Len(got) = i /\ \A j \in 1..i : got[j] = buffer[j]
  BY <1>1, Taken
<1>6. d \in Received
  <2>1. got # <<>>
    BY <1>3, <1>5, EmptySeq
  <2> QED
    BY <1>1, <1>5, <2>1 DEF Received
<1>7. /\ delivered' \in Seq(Received) /\ Len(delivered') = Len(delivered) + 1
      /\ \A k \in 1..Len(delivered) : delivered'[k] = delivered[k]
      /\ delivered'[Len(delivered) + 1] = d
  BY <1>1, <1>2, <1>6, AppendProperties
<1>8. d.pieces = got /\ d.fds = collected
  OBVIOUS
<1> HIDE DEF got, d
<1>9. FirstEnd(buffer, i)
  BY <1>2
<1> QED
  BY <1>4, <1>5, <1>6, <1>7, <1>8, <1>9

\* ---- Types

LEMMA TypeInit == Init => TypeOK
<1> SUFFICES ASSUME Init PROVE TypeOK
  OBVIOUS
<1>1. sent \in [Senders -> Nat] /\ \A s \in Senders : sent[s] <= Length[s]
  BY LengthAssumption DEF Init
<1>2. /\ socket \in Seq([frame : Senders, piece : Nat, ends : BOOLEAN])
      /\ Len(socket) <= Capacity /\ buffer \in Seq(Pieces)
      /\ delivered \in Seq([pieces : Seq(Pieces) \ {<<>>}, fds : SUBSET Carriers])
  BY SizeAssumption, EmptySeq DEF Init
<1> QED
  BY <1>1, <1>2 DEF Init, TypeOK

LEMMA TypeNext == TypeOK /\ [Next]_vars => TypeOK'
<1> SUFFICES ASSUME TypeOK, [Next]_vars PROVE TypeOK'
  OBVIOUS
<1>1. ASSUME NEW s \in Senders, BeginSend(s) \/ ResumeSend(s) PROVE TypeOK'
  <2>1. SendWhatFits(s)
    BY <1>1 DEF BeginSend, ResumeSend
  <2>2. PICK n \in Nat :
             /\ sent[s] + n <= Length[s]
             /\ sent' = [sent EXCEPT ![s] = sent[s] + n]
             /\ pc' = [pc EXCEPT ![s] = IF sent[s] + n = Length[s]
                                        THEN "done" ELSE "waiting"]
             /\ socket' \in Seq(Flying)
             /\ Len(socket') <= Capacity
    BY <2>1, SendSteps
  <2>3. pc' \in [Senders -> {"idle", "waiting", "done"}]
    BY <2>2 DEF TypeOK
  <2>4. sent' \in [Senders -> Nat]
    <3>1. sent[s] + n \in Nat
      BY DEF TypeOK
    <3> QED
      BY <2>2, <3>1 DEF TypeOK
  <2>5. \A u \in Senders : sent'[u] <= Length[u]
    BY <2>2 DEF TypeOK
  <2>6. waiter' \in Senders \cup {None} /\ writing' \in BOOLEAN /\ woken' \subseteq Senders
    BY <1>1 DEF TypeOK, BeginSend, ResumeSend, Wait
  <2>7. UNCHANGED receiving
    BY <1>1 DEF BeginSend, ResumeSend
  <2> QED
    BY <2>2, <2>3, <2>4, <2>5, <2>6, <2>7 DEF TypeOK, receiving, Flying
<1>2. CASE OnWritable
  BY <1>2 DEF TypeOK, OnWritable, receiving
<1>3. CASE Receive
  <2>1. PICK n \in 1..Len(socket) :
             /\ buffer' \in Seq(Pieces)
             /\ socket' \in Seq(Flying) /\ Len(socket') = Len(socket) - n
             /\ collected' = collected \cup
                    {s \in Carriers : \E i \in 1..n :
                        Brings(socket[i]) /\ socket[i].frame = s}
    BY <1>3, ReceiveSteps
  <2>2. Len(socket') <= Capacity
    BY <2>1, SizeAssumption DEF TypeOK
  <2> QED
    BY <1>3, <2>1, <2>2 DEF TypeOK, Receive, sending, Flying
<1>4. CASE Deliver
  <2>1. buffer' \in Seq(Pieces) /\ delivered' \in Seq(Received)
    BY <1>4, DeliverSteps
  <2> QED
    BY <1>4, <2>1 DEF TypeOK, Deliver, sending, Received
<1>5. CASE UNCHANGED vars
  BY <1>5 DEF TypeOK, vars, sending, receiving
<1> QED
  BY <1>1, <1>2, <1>3, <1>4, <1>5 DEF Next

\* The slots of the connection hold what they are declared to hold, and the
\* socket never more than it has room for.
THEOREM TransportTyped == Spec => []TypeOK
<1> QED
  BY TypeInit, TypeNext, PTL DEF Spec


\* ---- The stream: what was sent and not yet handed over

StreamOf(b, q) ==
    [i \in 1..(Len(b) + Len(q)) |->
        IF i <= Len(b) THEN b[i] ELSE Piece(q[i - Len(b)].frame, q[i - Len(b)].piece)]
End == Len(buffer) + Len(socket)
Stream == StreamOf(buffer, socket)
Whole(s) == [i \in 1..Length[s] |-> Piece(s, i)]

\* A sender is idle until its first piece, and done with its last.
SentInv ==
    \A s \in Senders : /\ pc[s] = "idle" => sent[s] = 0
                       /\ pc[s] = "waiting" => sent[s] < Length[s]
                       /\ pc[s] = "done" => sent[s] = Length[s]

\* A piece in the stream comes right behind all the pieces of its frame that
\* are before it; no piece is in the stream twice.
RunInv ==
    /\ \A i \in 1..End :
          /\ Stream[i].piece \in 1..i
          /\ Stream[i].piece <= sent[Stream[i].frame]
          /\ \A j \in 1..Stream[i].piece :
                Stream[i - Stream[i].piece + j] = Piece(Stream[i].frame, j)
    /\ \A i, j \in 1..End : Stream[i] = Stream[j] => i = j

\* A frame begins where another has ended. The stream ends within a frame only
\* while its sender waits, and no other sender does.
TurnInv ==
    /\ \A s, u \in Senders : pc[s] = "waiting" /\ pc[u] = "waiting" => s = u
    /\ \A i \in 2..End : Stream[i].piece = 1 => IsLast(Stream[i - 1])
    /\ End > 0 /\ ~IsLast(Stream[End]) => pc[Stream[End].frame] = "waiting"
    /\ \A s \in Senders : pc[s] = "waiting" /\ sent[s] > 0 =>
          End > 0 /\ Stream[End] = Piece(s, sent[s])

\* What was handed over is whole frames of senders that are done, each once,
\* and nothing of them is left in the stream.
WholeInv ==
    /\ \A k \in 1..Len(delivered) : \E s \in Senders :
          /\ delivered[k].pieces = Whole(s)
          /\ pc[s] = "done"
          /\ \A i \in 1..End : Stream[i].frame # s
    /\ \A k \in 1..Len(delivered) : \A j \in 1..(k - 1) :
          delivered[j].pieces # delivered[k].pieces

FrameInv == TypeOK /\ SentInv /\ RunInv /\ TurnInv /\ WholeInv

\* Where the descriptors of a frame are: with its first piece in the socket,
\* with the receive_frame under way, or handed over; in one place only. Pieces
\* of a frame are in the socket in the order they were sent, so that none is
\* read before the first one.
CarrierInv ==
    /\ \A i \in 1..Len(socket) : socket[i].piece \in 1..sent[socket[i].frame]
    /\ \A i \in 1..Len(socket) : \A j \in 1..(i - 1) :
          socket[i].frame = socket[j].frame => socket[j].piece < socket[i].piece
    /\ \A s \in collected :
          /\ sent[s] > 0
          /\ \A i \in 1..Len(socket) : socket[i].piece = 1 => socket[i].frame # s
    /\ \A k \in 1..Len(delivered) : \A s \in delivered[k].fds :
          /\ sent[s] > 0 /\ s \notin collected
          /\ \A i \in 1..Len(socket) : socket[i].piece = 1 => socket[i].frame # s
          /\ \A j \in 1..Len(delivered) : s \in delivered[j].fds => j = k

GivenIn(dl, s) == \E k \in 1..Len(dl) : s \in dl[k].fds

ArrivalInv ==
    /\ \A s \in Carriers :
          \/ sent[s] = 0
          \/ s \in collected \/ GivenIn(delivered, s)
          \/ \E i \in 1..Len(socket) : socket[i].frame = s /\ socket[i].piece = 1
    /\ \A i \in 1..Len(buffer) : buffer[i].frame \in Carriers =>
          buffer[i].frame \in collected \/ GivenIn(delivered, buffer[i].frame)
    /\ \A k \in 1..Len(delivered) :
          LET s == delivered[k].pieces[Len(delivered[k].pieces)].frame
          IN  s \in Carriers => \E j \in 1..k : s \in delivered[j].fds

FdsInv == TypeOK /\ CarrierInv /\ ArrivalInv

LEMMA StreamAt ==
    ASSUME NEW b \in Seq(Pieces), NEW q \in Seq(Flying)
    PROVE  /\ Len(b) \in Nat /\ Len(q) \in Nat
           /\ \A i \in 1..Len(b) : StreamOf(b, q)[i] = b[i]
           /\ \A i \in 1..Len(q) : StreamOf(b, q)[Len(b) + i] = Piece(q[i].frame, q[i].piece)
           /\ \A i \in 1..(Len(b) + Len(q)) :
                 i \in 1..Len(b) \/ \E j \in 1..Len(q) : i = Len(b) + j
           /\ \A i \in 1..(Len(b) + Len(q)) : StreamOf(b, q)[i] \in Pieces
<1> DEFINE m == Len(b)
           n == Len(q)
<1>1. /\ m \in Nat /\ n \in Nat
      /\ \A i \in 1..m : b[i] \in Pieces
      /\ \A i \in 1..n : q[i] \in Flying
  BY LenProperties, ElementOfSeq
<1>2. StreamOf(b, q) = [i \in 1..(m + n) |->
           IF i <= m THEN b[i] ELSE Piece(q[i - m].frame, q[i - m].piece)]
  BY DEF StreamOf
<1> HIDE DEF m, n
<1>3. \A i \in 1..m : i \in 1..(m + n) /\ i <= m
  BY <1>1
<1>4. \A i \in 1..n : m + i \in 1..(m + n) /\ ~(m + i <= m) /\ (m + i) - m = i
  BY <1>1
<1>5. \A i \in 1..m : StreamOf(b, q)[i] = b[i]
  BY <1>2, <1>3
<1>6. \A i \in 1..n : StreamOf(b, q)[m + i] = Piece(q[i].frame, q[i].piece)
  BY <1>2, <1>4
<1>7. \A i \in 1..(m + n) : i \in 1..m \/ \E j \in 1..n : i = m + j
  <2>1. \A i \in 1..(m + n) : i \in 1..m \/ (i - m \in 1..n /\ i = m + (i - m))
    BY <1>1
  <2> QED
    BY <2>1
<1>8. \A i \in 1..n : Piece(q[i].frame, q[i].piece) \in Pieces
  BY <1>1 DEF Flying, Pieces, Piece
<1>9. \A i \in 1..(m + n) : StreamOf(b, q)[i] \in Pieces
  BY <1>1, <1>5, <1>6, <1>7, <1>8
<1> QED
  BY <1>1, <1>5, <1>6, <1>7, <1>9 DEF m, n

\* The stream grows at its end by what is sent,
LEMMA StreamSend ==
    ASSUME TypeOK, NEW s \in Senders, SendWhatFits(s), UNCHANGED buffer
    PROVE  \E n \in Nat :
             /\ sent[s] + n <= Length[s]
             /\ sent' = [sent EXCEPT ![s] = sent[s] + n]
             /\ pc' = [pc EXCEPT ![s] = IF sent[s] + n = Length[s]
                                        THEN "done" ELSE "waiting"]
             /\ End' = End + n
             /\ \A i \in 1..End : Stream'[i] = Stream[i]
             /\ \A i \in 1..n : Stream'[End + i] = Piece(s, sent[s] + i)
<1>1. PICK n \in Nat :
             /\ sent[s] + n <= Length[s]
             /\ sent' = [sent EXCEPT ![s] = sent[s] + n]
             /\ pc' = [pc EXCEPT ![s] = IF sent[s] + n = Length[s]
                                        THEN "done" ELSE "waiting"]
             /\ socket' \in Seq(Flying)
             /\ Len(socket') = Len(socket) + n
             /\ \A i \in 1..Len(socket) : socket'[i] = socket[i]
             /\ \A i \in 1..n :
                   /\ socket'[Len(socket) + i].frame = s
                   /\ socket'[Len(socket) + i].piece = sent[s] + i
  BY SendSteps
<1>2. buffer \in Seq(Pieces) /\ socket \in Seq(Flying) /\ buffer' = buffer
  BY DEF TypeOK, Flying
<1>3. PICK m \in Nat, w \in Nat : m = Len(buffer) /\ w = Len(socket)
  BY <1>2, LenProperties
<1>4. End = m + w /\ End' = (m + w) + n
  <2>1. End' = m + (w + n)
    BY <1>1, <1>2, <1>3 DEF End
  <2>2. m + (w + n) = (m + w) + n
    OBVIOUS
  <2> QED
    BY <1>3, <2>1, <2>2 DEF End
<1>5. /\ \A i \in 1..m : Stream[i] = buffer[i]
      /\ \A i \in 1..w : Stream[m + i] = Piece(socket[i].frame, socket[i].piece)
      /\ \A i \in 1..(m + w) : i \in 1..m \/ \E j \in 1..w : i = m + j
  <2>1. buffer \in Seq(Pieces) /\ socket \in Seq(Flying)
    BY <1>2
  <2>2. /\ \A i \in 1..Len(buffer) : Stream[i] = buffer[i]
        /\ \A i \in 1..Len(socket) :
              Stream[Len(buffer) + i] = Piece(socket[i].frame, socket[i].piece)
        /\ \A i \in 1..(Len(buffer) + Len(socket)) :
              i \in 1..Len(buffer) \/ \E j \in 1..Len(socket) : i = Len(buffer) + j
    BY <2>1, StreamAt DEF Stream
  <2> QED
    BY <1>3, <2>2
<1>6. /\ \A i \in 1..m : Stream'[i] = buffer[i]
      /\ \A i \in 1..(w + n) : Stream'[m + i] = Piece(socket'[i].frame, socket'[i].piece)
  <2>1. Stream' = StreamOf(buffer, socket') /\ Len(socket') = w + n
    BY <1>1, <1>2, <1>3 DEF Stream
  <2>2. buffer \in Seq(Pieces) /\ socket' \in Seq(Flying)
    BY <1>1, <1>2
  <2>3. /\ \A i \in 1..Len(buffer) : StreamOf(buffer, socket')[i] = buffer[i]
        /\ \A i \in 1..Len(socket') : StreamOf(buffer, socket')[Len(buffer) + i]
                = Piece(socket'[i].frame, socket'[i].piece)
    BY <2>2, StreamAt
  <2> QED
    BY <1>3, <2>1, <2>3
<1>7. \A i \in 1..(m + w) : Stream'[i] = Stream[i]
  <2>1. \A j \in 1..w : j \in 1..(w + n) /\ socket'[j] = socket[j]
    BY <1>1, <1>3
  <2>2. \A j \in 1..w : Stream'[m + j] = Stream[m + j]
    BY <1>5, <1>6, <2>1
  <2> QED
    BY <1>5, <1>6, <2>2
<1>8. \A i \in 1..n : Stream'[(m + w) + i] = Piece(s, sent[s] + i)
  <2>1. \A i \in 1..n : w + i \in 1..(w + n) /\ m + (w + i) = (m + w) + i
    OBVIOUS
  <2>2. \A i \in 1..n : socket'[w + i].frame = s /\ socket'[w + i].piece = sent[s] + i
    BY <1>1, <1>3
  <2> QED
    BY <1>6, <2>1, <2>2
<1> QED
  BY <1>1, <1>4, <1>7, <1>8

\* is not changed by what is read,
LEMMA StreamReceive ==
    ASSUME TypeOK, Receive
    PROVE  End' = End /\ \A i \in 1..End : Stream'[i] = Stream[i]
<1>1. PICK n \in 1..Len(socket) :
             /\ buffer' \in Seq(Pieces) /\ Len(buffer') = Len(buffer) + n
             /\ \A i \in 1..Len(buffer) : buffer'[i] = buffer[i]
             /\ \A i \in 1..n :
                   buffer'[Len(buffer) + i] = Piece(socket[i].frame, socket[i].piece)
             /\ socket' \in Seq(Flying) /\ Len(socket') = Len(socket) - n
             /\ \A i \in 1..(Len(socket) - n) : socket'[i] = socket[i + n]
  BY ReceiveSteps
<1>2. buffer \in Seq(Pieces) /\ socket \in Seq(Flying)
  BY DEF TypeOK, Flying
<1>3. PICK m \in Nat, w \in Nat : m = Len(buffer) /\ w = Len(socket)
  BY <1>2, LenProperties
<1>4. n \in 1..w /\ End = m + w
  BY <1>3 DEF End
<1>5. /\ \A i \in 1..m : Stream[i] = buffer[i]
      /\ \A i \in 1..w : Stream[m + i] = Piece(socket[i].frame, socket[i].piece)
      /\ \A i \in 1..(m + w) : i \in 1..m \/ \E j \in 1..w : i = m + j
  <2>1. buffer \in Seq(Pieces) /\ socket \in Seq(Flying)
    BY <1>2
  <2>2. /\ \A i \in 1..Len(buffer) : Stream[i] = buffer[i]
        /\ \A i \in 1..Len(socket) :
              Stream[Len(buffer) + i] = Piece(socket[i].frame, socket[i].piece)
        /\ \A i \in 1..(Len(buffer) + Len(socket)) :
              i \in 1..Len(buffer) \/ \E j \in 1..Len(socket) : i = Len(buffer) + j
    BY <2>1, StreamAt DEF Stream
  <2> QED
    BY <1>3, <2>2
<1>6. Len(buffer') = m + n /\ Len(socket') = w - n
  BY <1>1, <1>3
<1>7. /\ \A i \in 1..(m + n) : Stream'[i] = buffer'[i]
      /\ \A i \in 1..(w - n) :
            Stream'[(m + n) + i] = Piece(socket'[i].frame, socket'[i].piece)
  <2>1. Stream' = StreamOf(buffer', socket')
    BY DEF Stream
  <2>2. buffer' \in Seq(Pieces) /\ socket' \in Seq(Flying)
    BY <1>1
  <2>3. /\ \A i \in 1..Len(buffer') : StreamOf(buffer', socket')[i] = buffer'[i]
        /\ \A i \in 1..Len(socket') : StreamOf(buffer', socket')[Len(buffer') + i]
                = Piece(socket'[i].frame, socket'[i].piece)
    BY <2>2, StreamAt
  <2> QED
    BY <1>6, <2>1, <2>3
<1>8. End' = m + w
  <2>1. End' = (m + n) + (w - n)
    BY <1>6 DEF End
  <2> QED
    BY <1>4, <2>1
<1>9. \A i \in 1..m : Stream'[i] = Stream[i]
  <2>1. \A i \in 1..m : i \in 1..(m + n) /\ buffer'[i] = buffer[i]
    BY <1>1, <1>3, <1>4
  <2> QED
    BY <1>5, <1>7, <2>1
<1>10. \A i \in 1..w : Stream'[m + i] = Stream[m + i]
  <2> SUFFICES ASSUME NEW i \in 1..w PROVE Stream'[m + i] = Piece(socket[i].frame, socket[i].piece)
    BY <1>5
  <2>1. CASE i <= n
    <3>1. i \in 1..n /\ m + i \in 1..(m + n)
      BY <1>4, <2>1
    <3> QED
      BY <1>1, <1>3, <1>7, <3>1
  <2>2. CASE ~(i <= n)
    <3>1. i - n \in 1..(w - n) /\ (m + n) + (i - n) = m + i /\ (i - n) + n = i
      BY <1>4, <2>2
    <3>2. socket'[i - n] = socket[i]
      BY <1>1, <1>3, <3>1
    <3> QED
      BY <1>7, <3>1, <3>2
  <2> QED
    BY <2>1, <2>2
<1>11. \A i \in 1..(m + w) : Stream'[i] = Stream[i]
  BY <1>5, <1>9, <1>10
<1> QED
  BY <1>4, <1>8, <1>11

\* and loses at its head what is handed over.
LEMMA StreamDeliver ==
    ASSUME TypeOK, Deliver
    PROVE  \E i \in 1..End, d \in Received :
             /\ IsLast(Stream[i]) /\ \A j \in 1..(i - 1) : ~IsLast(Stream[j])
             /\ End' = End - i
             /\ \A j \in 1..(End - i) : Stream'[j] = Stream[j + i]
             /\ d.pieces \in Seq(Pieces) /\ Len(d.pieces) = i
             /\ \A j \in 1..i : d.pieces[j] = Stream[j]
             /\ Len(delivered') = Len(delivered) + 1
             /\ \A k \in 1..Len(delivered) : delivered'[k] = delivered[k]
             /\ delivered'[Len(delivered) + 1] = d
<1>1. PICK i \in 1..Len(buffer), d \in Received :
             /\ FirstEnd(buffer, i)
             /\ buffer' \in Seq(Pieces) /\ Len(buffer') = Len(buffer) - i
             /\ \A j \in 1..(Len(buffer) - i) : buffer'[j] = buffer[j + i]
             /\ d.pieces \in Seq(Pieces) /\ Len(d.pieces) = i
             /\ \A j \in 1..i : d.pieces[j] = buffer[j]
             /\ Len(delivered') = Len(delivered) + 1
             /\ \A k \in 1..Len(delivered) : delivered'[k] = delivered[k]
             /\ delivered'[Len(delivered) + 1] = d
  BY DeliverSteps
<1>2. buffer \in Seq(Pieces) /\ socket \in Seq(Flying) /\ socket' = socket
  BY DEF TypeOK, Flying, Deliver
<1>3. PICK m \in Nat, w \in Nat : m = Len(buffer) /\ w = Len(socket)
  BY <1>2, LenProperties
<1>4. i \in 1..m /\ End = m + w
  BY <1>3 DEF End
<1>5. /\ \A j \in 1..m : Stream[j] = buffer[j]
      /\ \A j \in 1..w : Stream[m + j] = Piece(socket[j].frame, socket[j].piece)
  <2>1. buffer \in Seq(Pieces) /\ socket \in Seq(Flying)
    BY <1>2
  <2>2. /\ \A j \in 1..Len(buffer) : Stream[j] = buffer[j]
        /\ \A j \in 1..Len(socket) :
              Stream[Len(buffer) + j] = Piece(socket[j].frame, socket[j].piece)
    BY <2>1, StreamAt DEF Stream
  <2> QED
    BY <1>3, <2>2
<1>6. Len(buffer') = m - i /\ Len(socket') = w
  BY <1>1, <1>2, <1>3
<1>7. /\ \A j \in 1..(m - i) : Stream'[j] = buffer'[j]
      /\ \A j \in 1..w : Stream'[(m - i) + j] = Piece(socket[j].frame, socket[j].piece)
  <2>1. Stream' = StreamOf(buffer', socket)
    BY <1>2 DEF Stream
  <2>2. buffer' \in Seq(Pieces) /\ socket \in Seq(Flying)
    BY <1>1, <1>2
  <2>3. /\ \A j \in 1..Len(buffer') : StreamOf(buffer', socket)[j] = buffer'[j]
        /\ \A j \in 1..Len(socket) : StreamOf(buffer', socket)[Len(buffer') + j]
                = Piece(socket[j].frame, socket[j].piece)
    BY <2>2, StreamAt
  <2> QED
    BY <1>3, <1>6, <2>1, <2>3
<1>8. End' = (m + w) - i
  <2>1. End' = (m - i) + w
    BY <1>6 DEF End
  <2> QED
    BY <1>4, <2>1
<1>9. \A j \in 1..((m + w) - i) : Stream'[j] = Stream[j + i]
  <2> SUFFICES ASSUME NEW j \in 1..((m + w) - i) PROVE Stream'[j] = Stream[j + i]
    OBVIOUS
  <2>1. CASE j <= m - i
    <3>1. j \in 1..(m - i) /\ j + i \in 1..m
      BY <1>4, <2>1
    <3>2. buffer'[j] = buffer[j + i]
      BY <1>1, <1>3, <3>1
    <3> QED
      BY <1>5, <1>7, <3>1, <3>2
  <2>2. CASE ~(j <= m - i)
    <3>1. /\ j - (m - i) \in 1..w
          /\ (m - i) + (j - (m - i)) = j /\ m + (j - (m - i)) = j + i
      BY <1>4, <2>2
    <3>2. PICK l \in 1..w : l = j - (m - i)
      BY <3>1
    <3>3. Stream'[j] = Piece(socket[l].frame, socket[l].piece)
      BY <1>7, <3>1, <3>2
    <3>4. Stream[j + i] = Piece(socket[l].frame, socket[l].piece)
      BY <1>5, <3>1, <3>2
    <3> QED
      BY <3>3, <3>4
  <2> QED
    BY <2>1, <2>2
<1>10. \A j \in 1..i : j \in 1..m
  BY <1>4
<1>11. IsLast(Stream[i]) /\ \A j \in 1..(i - 1) : ~IsLast(Stream[j])
  <2>1. \A j \in 1..(i - 1) : j \in 1..m
    BY <1>4
  <2>2. IsLast(buffer[i]) /\ \A j \in 1..(i - 1) : ~IsLast(buffer[j])
    BY <1>1 DEF FirstEnd
  <2> QED
    BY <1>4, <1>5, <2>1, <2>2
<1>12. \A j \in 1..i : d.pieces[j] = Stream[j]
  BY <1>1, <1>5, <1>10
<1>13. i \in 1..End /\ End' = End - i
  BY <1>4, <1>8
<1>14. \A j \in 1..(End - i) : Stream'[j] = Stream[j + i]
  BY <1>4, <1>9
<1> QED
  BY <1>1, <1>11, <1>12, <1>13, <1>14


LEMMA StreamTypes ==
    ASSUME TypeOK
    PROVE  End \in Nat /\ \A i \in 1..End : Stream[i] \in Pieces
<1>1. buffer \in Seq(Pieces) /\ socket \in Seq(Flying)
  BY DEF TypeOK, Flying
<1>2. /\ Len(buffer) \in Nat /\ Len(socket) \in Nat
      /\ \A i \in 1..(Len(buffer) + Len(socket)) : StreamOf(buffer, socket)[i] \in Pieces
  BY <1>1, StreamAt
<1> QED
  BY <1>2 DEF End, Stream

\* ---- Frames arrive intact, when senders take turns

LEMMA SentNext == TypeOK /\ SentInv /\ [Next]_vars => SentInv'
<1> SUFFICES ASSUME TypeOK, SentInv, [Next]_vars PROVE SentInv'
  OBVIOUS
<1>1. ASSUME NEW s \in Senders, BeginSend(s) \/ ResumeSend(s) PROVE SentInv'
  <2>1. SendWhatFits(s)
    BY <1>1 DEF BeginSend, ResumeSend
  <2>2. PICK n \in Nat :
             /\ sent[s] + n <= Length[s]
             /\ sent' = [sent EXCEPT ![s] = sent[s] + n]
             /\ pc' = [pc EXCEPT ![s] = IF sent[s] + n = Length[s]
                                        THEN "done" ELSE "waiting"]
    BY <2>1, SendSteps
  <2>3. /\ pc \in [Senders -> {"idle", "waiting", "done"}] /\ sent \in [Senders -> Nat]
        /\ Length[s] \in Nat
    BY LengthAssumption DEF TypeOK
  <2>4. \A u \in Senders \ {s} : pc'[u] = pc[u] /\ sent'[u] = sent[u]
    BY <2>2, <2>3
  <2>5. /\ sent'[s] = sent[s] + n
        /\ pc'[s] = IF sent[s] + n = Length[s] THEN "done" ELSE "waiting"
    BY <2>2, <2>3
  <2>6. /\ pc'[s] = "idle" => sent'[s] = 0
        /\ pc'[s] = "waiting" => sent'[s] < Length[s]
        /\ pc'[s] = "done" => sent'[s] = Length[s]
    BY <2>2, <2>3, <2>5
  <2> QED
    BY <2>4, <2>6 DEF SentInv
<1>2. CASE OnWritable \/ Receive \/ Deliver \/ UNCHANGED vars
  <2>1. UNCHANGED <<pc, sent>>
    BY <1>2 DEF OnWritable, Receive, Deliver, vars, sending
  <2> QED
    BY <2>1 DEF SentInv
<1> QED
  BY <1>1, <1>2 DEF Next

\* A sender alone at its turn appends to its own pieces, or behind the end of
\* a frame.
LEMMA FrameSend ==
    ASSUME FrameInv, NEW s \in Senders, SendWhatFits(s), UNCHANGED receiving,
           pc[s] # "done", \A u \in Senders : pc[u] = "waiting" => u = s
    PROVE  RunInv' /\ TurnInv' /\ WholeInv'
<1>1. /\ TypeOK /\ SentInv /\ RunInv /\ TurnInv /\ WholeInv
      /\ UNCHANGED <<buffer, delivered>>
  BY DEF FrameInv, receiving
<1>2. PICK n \in Nat :
             /\ sent[s] + n <= Length[s]
             /\ sent' = [sent EXCEPT ![s] = sent[s] + n]
             /\ pc' = [pc EXCEPT ![s] = IF sent[s] + n = Length[s]
                                        THEN "done" ELSE "waiting"]
             /\ End' = End + n
             /\ \A i \in 1..End : Stream'[i] = Stream[i]
             /\ \A i \in 1..n : Stream'[End + i] = Piece(s, sent[s] + i)
  BY <1>1, StreamSend
<1>3. PICK N \in Nat, a \in Nat, L \in Nat : N = End /\ a = sent[s] /\ L = Length[s]
  BY <1>1, StreamTypes, LengthAssumption DEF TypeOK
<1>4. \A i \in 1..N : /\ Stream[i].frame \in Senders /\ Stream[i].piece \in Nat
                      /\ Stream[i] = Piece(Stream[i].frame, Stream[i].piece)
  BY <1>1, <1>3, StreamTypes DEF Pieces, Piece
<1>5. /\ \A i \in 1..N : Stream'[i] = Stream[i]
      /\ \A k \in 1..n : Stream'[N + k] = Piece(s, a + k)
      /\ End' = N + n /\ a + n <= L
  BY <1>2, <1>3
<1>6. /\ sent'[s] = a + n /\ \A u \in Senders \ {s} : sent'[u] = sent[u] /\ pc'[u] = pc[u]
      /\ pc'[s] = IF a + n = L THEN "done" ELSE "waiting"
      /\ sent \in [Senders -> Nat] /\ pc \in [Senders -> {"idle", "waiting", "done"}]
  BY <1>1, <1>2, <1>3 DEF TypeOK
<1>7. \A i \in 1..N : /\ Stream[i].piece \in 1..i
                      /\ Stream[i].piece <= sent[Stream[i].frame]
                      /\ \A j \in 1..Stream[i].piece :
                            Stream[i - Stream[i].piece + j] = Piece(Stream[i].frame, j)
  BY <1>1, <1>3 DEF RunInv
<1>8. \/ a = 0 /\ (N > 0 => IsLast(Stream[N]))
      \/ a > 0 /\ N > 0 /\ Stream[N] = Piece(s, a)
  <2>1. CASE a > 0
    <3>1. pc[s] = "waiting"
      BY <1>1, <1>3, <1>6, <2>1 DEF SentInv
    <3> QED
      BY <1>1, <1>3, <2>1, <3>1 DEF TurnInv
  <2>2. CASE a = 0
    <3>1. SUFFICES ASSUME N > 0, ~IsLast(Stream[N]) PROVE FALSE
      BY <2>2
    <3>2. N \in 1..N
      BY <3>1
    <3>3. pc[Stream[N].frame] = "waiting"
      BY <1>1, <1>3, <3>1 DEF TurnInv
    <3>4. Stream[N].frame = s
      BY <1>4, <3>2, <3>3
    <3>5. Stream[N].piece \in 1..N /\ Stream[N].piece <= sent[s]
      BY <1>7, <3>2, <3>4
    <3> QED
      BY <1>3, <2>2, <3>5
  <2> QED
    BY <2>1, <2>2
<1>9. a <= N /\ \A j \in 1..a : N - a + j \in 1..N /\ Stream[N - a + j] = Piece(s, j)
  <2>1. CASE a > 0 /\ N > 0 /\ Stream[N] = Piece(s, a)
    <3>1. Stream[N].piece = a /\ Stream[N].frame = s /\ N \in 1..N
      BY <2>1 DEF Piece
    <3>2. a \in 1..N /\ \A j \in 1..a : Stream[N - a + j] = Piece(s, j)
      BY <1>7, <3>1
    <3>3. \A j \in 1..a : N - a + j \in 1..N
      BY <3>2
    <3> QED
      BY <3>2, <3>3
  <2>2. CASE a = 0
    BY <2>2
  <2> QED
    BY <1>8, <2>1, <2>2
<1>10. \A i \in 1..(N + n) : i \in 1..N \/ \E k \in 1..n : i = N + k
  <2>1. \A i \in 1..(N + n) : i \in 1..N \/ (i - N \in 1..n /\ i = N + (i - N))
    OBVIOUS
  <2> QED
    BY <2>1
<1>11. \A k \in Nat : Piece(s, a + k).frame = s /\ Piece(s, a + k).piece = a + k
  BY DEF Piece
<1>12. RunInv'
  <2>1. ASSUME NEW i \in 1..N
        PROVE  /\ Stream'[i].piece \in 1..i
               /\ Stream'[i].piece <= sent'[Stream'[i].frame]
               /\ \A j \in 1..Stream'[i].piece :
                     Stream'[i - Stream'[i].piece + j] = Piece(Stream'[i].frame, j)
    <3>1. PICK p \in Nat, f \in Senders : p = Stream[i].piece /\ f = Stream[i].frame
      BY <1>4
    <3>2. p \in 1..i /\ p <= sent[f] /\ \A j \in 1..p : Stream[i - p + j] = Piece(f, j)
      BY <1>7, <3>1
    <3>3. p <= sent'[f]
      BY <1>3, <1>6, <3>2
    <3>4. \A j \in 1..p : i - p + j \in 1..N
      BY <3>2
    <3> QED
      BY <1>5, <3>1, <3>2, <3>3, <3>4
  <2>2. ASSUME NEW k \in 1..n
        PROVE  /\ Stream'[N + k].piece \in 1..(N + k)
               /\ Stream'[N + k].piece <= sent'[Stream'[N + k].frame]
               /\ \A j \in 1..Stream'[N + k].piece :
                     Stream'[N + k - Stream'[N + k].piece + j] = Piece(Stream'[N + k].frame, j)
    <3>1. Stream'[N + k].frame = s /\ Stream'[N + k].piece = a + k
      BY <1>5, <1>11
    <3>2. a + k \in 1..(N + k) /\ a + k <= sent'[s]
      BY <1>6, <1>9
    <3>3. ASSUME NEW j \in 1..(a + k) PROVE Stream'[N + k - (a + k) + j] = Piece(s, j)
      <4>1. CASE j <= a
        <5>1. N + k - (a + k) + j = N - a + j /\ j \in 1..a
          BY <1>9, <4>1
        <5> QED
          BY <1>5, <1>9, <5>1
      <4>2. CASE ~(j <= a)
        <5>1. j - a \in 1..n /\ N + k - (a + k) + j = N + (j - a) /\ a + (j - a) = j
          BY <4>2
        <5>2. Stream'[N + (j - a)] = Piece(s, a + (j - a))
          BY <1>5, <5>1
        <5> QED
          BY <5>1, <5>2
      <4> QED
        BY <4>1, <4>2
    <3> QED
      BY <3>1, <3>2, <3>3
  <2>3. ASSUME NEW i \in 1..End'
        PROVE  /\ Stream'[i].piece \in 1..i
               /\ Stream'[i].piece <= sent'[Stream'[i].frame]
               /\ \A j \in 1..Stream'[i].piece :
                     Stream'[i - Stream'[i].piece + j] = Piece(Stream'[i].frame, j)
    <3>1. i \in 1..N \/ \E k \in 1..n : i = N + k
      BY <1>5, <1>10
    <3>2. CASE i \in 1..N
      BY <2>1, <3>2
    <3>3. CASE \E k \in 1..n : i = N + k
      <4>1. PICK k \in 1..n : i = N + k
        BY <3>3
      <4> QED
        BY <2>2, <4>1
    <3> QED
      BY <3>1, <3>2, <3>3
  <2>4. ASSUME NEW i \in 1..End', NEW j \in 1..End', Stream'[i] = Stream'[j] PROVE i = j
    <3>1. \A x, y \in 1..N : Stream[x] = Stream[y] => x = y
      BY <1>1, <1>3 DEF RunInv
    <3>2. \A x \in 1..N, k \in 1..n : Stream[x] # Piece(s, a + k)
      <4> SUFFICES ASSUME NEW x \in 1..N, NEW k \in 1..n, Stream[x] = Piece(s, a + k)
                   PROVE  FALSE
        OBVIOUS
      <4>1. Stream[x].frame = s /\ Stream[x].piece = a + k
        <5>1. Piece(s, a + k).frame = s /\ Piece(s, a + k).piece = a + k
          BY DEF Piece
        <5> QED
          BY <5>1
      <4> QED
        BY <1>3, <1>7, <4>1
    <3>3. \A k, l \in 1..n : Piece(s, a + k) = Piece(s, a + l) => k = l
      <4>1. \A k, l \in 1..n : Piece(s, a + k) = Piece(s, a + l) => a + k = a + l
        BY <1>11
      <4> QED
        BY <4>1
    <3>4. i \in 1..N \/ \E k \in 1..n : i = N + k
      BY <1>5, <1>10
    <3>5. j \in 1..N \/ \E k \in 1..n : j = N + k
      BY <1>5, <1>10
    <3>6. CASE i \in 1..N
      BY <1>5, <2>4, <3>1, <3>2, <3>5, <3>6
    <3>7. CASE \E k \in 1..n : i = N + k
      BY <1>5, <2>4, <3>2, <3>3, <3>5, <3>7
    <3> QED
      BY <3>4, <3>6, <3>7
  <2> QED
    BY <2>3, <2>4 DEF RunInv
<1>13. TurnInv'
  <2>1. \A u \in Senders : pc'[u] = "waiting" => u = s
    BY <1>6
  <2>2. ASSUME NEW i \in 2..End', Stream'[i].piece = 1 PROVE IsLast(Stream'[i - 1])
    <3>1. CASE i \in 1..N
      <4>1. i \in 2..N /\ i - 1 \in 1..N
        BY <2>2, <3>1
      <4>2. IsLast(Stream[i - 1])
        BY <1>1, <1>3, <1>5, <2>2, <4>1 DEF TurnInv
      <4> QED
        BY <1>5, <4>1, <4>2
    <3>2. ASSUME NEW k \in 1..n, i = N + k PROVE IsLast(Stream'[i - 1])
      <4>1. a + k = 1
        BY <1>5, <1>11, <2>2, <3>2
      <4>2. a = 0 /\ k = 1 /\ i - 1 = N /\ N > 0 /\ N \in 1..N
        BY <3>2, <4>1
      <4> QED
        BY <1>5, <1>8, <4>2
    <3> QED
      BY <1>5, <1>10, <3>1, <3>2
  <2>3. CASE n = 0
    <3>1. End' = N /\ sent'[s] = a /\ pc'[s] = "waiting"
      <4>1. a < L
        <5>1. L > 0 /\ (pc[s] = "idle" \/ pc[s] = "waiting")
          BY <1>3, <1>6, LengthAssumption
        <5>2. pc[s] = "idle" => a = 0
          BY <1>1, <1>3 DEF SentInv
        <5>3. pc[s] = "waiting" => a < L
          BY <1>1, <1>3 DEF SentInv
        <5> QED
          BY <5>1, <5>2, <5>3
      <4> QED
        BY <1>5, <1>6, <2>3, <4>1
    <3>2. ASSUME End' > 0, ~IsLast(Stream'[End']) PROVE pc'[Stream'[End'].frame] = "waiting"
      <4>1. N \in 1..N /\ ~IsLast(Stream[N])
        BY <1>5, <3>1, <3>2
      <4>2. pc[Stream[N].frame] = "waiting"
        BY <1>1, <1>3, <3>1, <3>2, <4>1 DEF TurnInv
      <4>3. Stream[N].frame = s
        BY <1>4, <4>1, <4>2
      <4> QED
        BY <1>5, <3>1, <4>1, <4>3
    <3>3. ASSUME sent'[s] > 0 PROVE End' > 0 /\ Stream'[End'] = Piece(s, sent'[s])
      <4>1. N > 0 /\ Stream[N] = Piece(s, a) /\ N \in 1..N
        BY <1>8, <3>1, <3>3
      <4> QED
        BY <1>5, <3>1, <4>1
    <3> QED
      BY <2>1, <2>2, <3>2, <3>3 DEF TurnInv
  <2>4. CASE n > 0
    <3>1. n \in 1..n /\ End' > 0 /\ Stream'[End'] = Piece(s, a + n)
      BY <1>5, <2>4
    <3>2. ASSUME ~IsLast(Stream'[End']) PROVE pc'[Stream'[End'].frame] = "waiting"
      <4>1. Stream'[End'].frame = s /\ a + n # L
        BY <1>3, <1>11, <3>1, <3>2 DEF IsLast
      <4> QED
        BY <1>6, <4>1
    <3> QED
      BY <1>6, <2>1, <2>2, <3>1, <3>2 DEF TurnInv
  <2> QED
    BY <2>3, <2>4
<1>14. WholeInv'
  <2>1. ASSUME NEW k \in 1..Len(delivered)
        PROVE  \E u \in Senders : /\ delivered[k].pieces = Whole(u)
                                  /\ pc'[u] = "done"
                                  /\ \A i \in 1..End' : Stream'[i].frame # u
    <3>1. PICK u \in Senders : /\ delivered[k].pieces = Whole(u)
                               /\ pc[u] = "done"
                               /\ \A i \in 1..N : Stream[i].frame # u
      BY <1>1, <1>3 DEF WholeInv
    <3>2. u # s /\ pc'[u] = "done"
      BY <1>6, <3>1
    <3>3. \A i \in 1..End' : Stream'[i].frame # u
      <4>1. \A i \in 1..N : Stream'[i].frame # u
        BY <1>5, <3>1
      <4>2. \A i \in 1..n : Stream'[N + i].frame # u
        <5> SUFFICES ASSUME NEW i \in 1..n PROVE Stream'[N + i].frame # u
          OBVIOUS
        <5>1. Stream'[N + i] = Piece(s, a + i)
          BY <1>5
        <5>2. Piece(s, a + i).frame = s
          BY DEF Piece
        <5> QED
          BY <3>2, <5>1, <5>2
      <4>3. \A i \in 1..End' : i \in 1..N \/ \E l \in 1..n : i = N + l
        BY <1>5, <1>10
      <4> QED
        BY <4>1, <4>2, <4>3
    <3> QED
      BY <3>1, <3>2, <3>3
  <2> QED
    BY <1>1, <2>1 DEF WholeInv, Whole
<1> QED
  BY <1>12, <1>13, <1>14


\* What leaves senders, stream and deliveries alone keeps the invariant.
LEMMA FrameStay ==
    ASSUME FrameInv, UNCHANGED <<pc, sent, delivered>>,
           End' = End, \A i \in 1..End : Stream'[i] = Stream[i]
    PROVE  RunInv' /\ TurnInv' /\ WholeInv'
<1>1. PICK N \in Nat : N = End
  BY StreamTypes DEF FrameInv
<1>2. End' = N /\ \A i \in 1..N : Stream'[i] = Stream[i]
  BY <1>1
<1>3. RunInv'
  <2>1. ASSUME NEW i \in 1..N
        PROVE  /\ Stream'[i].piece \in 1..i
               /\ Stream'[i].piece <= sent'[Stream'[i].frame]
               /\ \A j \in 1..Stream'[i].piece :
                     Stream'[i - Stream'[i].piece + j] = Piece(Stream'[i].frame, j)
    <3>1. PICK p \in 1..i : p = Stream[i].piece
      BY <1>1 DEF FrameInv, RunInv
    <3>2. /\ p <= sent[Stream[i].frame]
          /\ \A j \in 1..p : Stream[i - p + j] = Piece(Stream[i].frame, j)
      BY <1>1, <3>1 DEF FrameInv, RunInv
    <3>3. \A j \in 1..p : i - p + j \in 1..N
      BY <3>1
    <3> QED
      BY <1>2, <3>1, <3>2, <3>3
  <2>2. \A i, j \in 1..N : Stream'[i] = Stream'[j] => i = j
    BY <1>1, <1>2 DEF FrameInv, RunInv
  <2> QED
    BY <1>2, <2>1, <2>2 DEF RunInv
<1>4. TurnInv'
  <2>1. \A i \in 2..N : i \in 1..N /\ i - 1 \in 1..N
    OBVIOUS
  <2>2. \A i \in 2..N : Stream'[i].piece = 1 => IsLast(Stream'[i - 1])
    BY <1>1, <1>2, <2>1 DEF FrameInv, TurnInv
  <2>3. N > 0 => N \in 1..N
    OBVIOUS
  <2>4. N > 0 /\ ~IsLast(Stream'[N]) => pc'[Stream'[N].frame] = "waiting"
    BY <1>1, <1>2, <2>3 DEF FrameInv, TurnInv
  <2>5. \A s \in Senders : pc'[s] = "waiting" /\ sent'[s] > 0 =>
           N > 0 /\ Stream'[N] = Piece(s, sent'[s])
    BY <1>1, <1>2, <2>3 DEF FrameInv, TurnInv
  <2>6. \A s, u \in Senders : pc'[s] = "waiting" /\ pc'[u] = "waiting" => s = u
    BY DEF FrameInv, TurnInv
  <2> QED
    BY <1>2, <2>2, <2>4, <2>5, <2>6 DEF TurnInv
<1>5. WholeInv'
  <2>1. ASSUME NEW k \in 1..Len(delivered)
        PROVE  \E u \in Senders : /\ delivered[k].pieces = Whole(u)
                                  /\ pc'[u] = "done"
                                  /\ \A i \in 1..N : Stream'[i].frame # u
    BY <1>1, <1>2 DEF FrameInv, WholeInv
  <2> QED
    BY <1>2, <2>1 DEF FrameInv, WholeInv, Whole
<1> QED
  BY <1>3, <1>4, <1>5

\* The first delimiter of the stream ends the frame the stream begins with.
LEMMA FrameDeliver ==
    ASSUME FrameInv, Deliver
    PROVE  RunInv' /\ TurnInv' /\ WholeInv'
<1>1. /\ TypeOK /\ SentInv /\ RunInv /\ TurnInv /\ WholeInv
      /\ UNCHANGED <<pc, sent>>
  BY DEF FrameInv, Deliver, sending
<1>2. PICK i \in 1..End, d \in Received :
             /\ IsLast(Stream[i]) /\ \A j \in 1..(i - 1) : ~IsLast(Stream[j])
             /\ End' = End - i
             /\ \A j \in 1..(End - i) : Stream'[j] = Stream[j + i]
             /\ d.pieces \in Seq(Pieces) /\ Len(d.pieces) = i
             /\ \A j \in 1..i : d.pieces[j] = Stream[j]
             /\ Len(delivered') = Len(delivered) + 1
             /\ \A k \in 1..Len(delivered) : delivered'[k] = delivered[k]
             /\ delivered'[Len(delivered) + 1] = d
  BY <1>1, StreamDeliver
<1>3. PICK N \in Nat, D \in Nat : N = End /\ D = Len(delivered)
  BY <1>1, StreamTypes, LenProperties DEF TypeOK
<1>4. i \in 1..N /\ End' = N - i /\ \A j \in 1..(N - i) : Stream'[j] = Stream[j + i]
  BY <1>2, <1>3
<1>5. PICK f \in Senders, L \in Nat :
         f = Stream[i].frame /\ L = Length[f] /\ L > 0 /\ Stream[i].piece = L
  <2>1. Stream[i].frame \in Senders
    BY <1>1, <1>3, <1>4, StreamTypes DEF Pieces
  <2>2. Stream[i].piece = Length[Stream[i].frame]
    BY <1>2 DEF IsLast
  <2>3. Length[Stream[i].frame] \in Nat \ {0}
    BY <2>1, LengthAssumption
  <2> QED
    BY <2>1, <2>2, <2>3
<1>6. \A x \in 1..N : /\ Stream[x].piece \in 1..x
                      /\ Stream[x].piece <= sent[Stream[x].frame]
                      /\ \A j \in 1..Stream[x].piece :
                            Stream[x - Stream[x].piece + j] = Piece(Stream[x].frame, j)
  BY <1>1, <1>3 DEF RunInv
<1>7. \A x \in 1..N : Stream[x].frame \in Senders /\ Stream[x].piece \in Nat
  BY <1>1, <1>3, StreamTypes DEF Pieces
<1>8. L <= i /\ \A j \in 1..L : Stream[i - L + j] = Piece(f, j)
  BY <1>4, <1>5, <1>6
<1>9. L = i
  <2> SUFFICES ASSUME L < i PROVE FALSE
    BY <1>4, <1>8
  <2>1. i - L + 1 \in 2..N /\ i - L + 1 - 1 = i - L /\ i - L \in 1..(i - 1) /\ 1 \in 1..L
    BY <1>4, <1>5
  <2>2. Stream[i - L + 1].piece = 1
    <3>1. Stream[i - L + 1] = Piece(f, 1)
      BY <1>8, <2>1
    <3> QED
      BY <3>1 DEF Piece
  <2>3. IsLast(Stream[i - L + 1 - 1])
    BY <1>1, <1>3, <2>1, <2>2 DEF TurnInv
  <2> QED
    BY <1>2, <2>1, <2>3
<1>10. \A j \in 1..i : j \in 1..N /\ Stream[j] = Piece(f, j)
  <2>1. \A j \in 1..i : j \in 1..L /\ i - L + j = j /\ j \in 1..N
    BY <1>4, <1>9
  <2> QED
    BY <1>8, <2>1
<1>11. d.pieces = Whole(f)
  <2>1. Whole(f) \in Seq(Pieces) /\ Len(Whole(f)) = i
    <3>1. Whole(f) \in [1..i -> Pieces]
      BY <1>5, <1>9 DEF Whole, Piece, Pieces
    <3>2. i \in Nat
      BY <1>4
    <3> QED
      BY <3>1, <3>2
  <2>2. \A j \in 1..i : d.pieces[j] = Whole(f)[j]
    BY <1>2, <1>5, <1>9, <1>10 DEF Whole
  <2> QED
    BY <1>2, <2>1, <2>2, SeqEqual
<1>12. pc[f] = "done" /\ sent[f] = L
  <2>1. sent[f] >= L /\ sent[f] <= L /\ sent[f] \in Nat /\ pc[f] \in {"idle", "waiting", "done"}
    BY <1>1, <1>4, <1>5, <1>6 DEF TypeOK
  <2>2. (pc[f] = "idle" => sent[f] = 0) /\ (pc[f] = "waiting" => sent[f] < L)
    BY <1>1, <1>5 DEF SentInv
  <2>3. pc[f] # "idle" /\ pc[f] # "waiting"
    BY <1>5, <2>1, <2>2
  <2> QED
    BY <2>1, <2>3
<1>13. \A x \in (i + 1)..N : Stream[x].frame # f
  <2> SUFFICES ASSUME NEW x \in (i + 1)..N, Stream[x].frame = f PROVE FALSE
    OBVIOUS
  <2>1. x \in 1..N
    BY <1>4
  <2>2. PICK p \in 1..x : p = Stream[x].piece /\ p <= L
    BY <1>6, <1>12, <2>1
  <2>3. p \in 1..p /\ x - p + p = x /\ p \in 1..i
    BY <1>9, <2>2
  <2>4. Stream[x] = Piece(f, p)
    BY <1>6, <2>1, <2>2, <2>3
  <2>5. Stream[x] = Stream[p] /\ p \in 1..N
    BY <1>10, <2>3, <2>4
  <2>6. x = p
    BY <1>1, <1>3, <2>1, <2>5 DEF RunInv
  <2> QED
    BY <1>4, <2>3, <2>6
<1>14. \A x \in 1..(N - i) : x + i \in 1..N /\ x + i \in (i + 1)..N
  BY <1>4
<1>15. RunInv'
  <2>1. ASSUME NEW x \in 1..(N - i)
        PROVE  /\ Stream'[x].piece \in 1..x
               /\ Stream'[x].piece <= sent'[Stream'[x].frame]
               /\ \A j \in 1..Stream'[x].piece :
                     Stream'[x - Stream'[x].piece + j] = Piece(Stream'[x].frame, j)
    <3>1. x + i \in 1..N /\ Stream'[x] = Stream[x + i]
      BY <1>4, <1>14
    <3>2. PICK p \in 1..(x + i), g \in Senders :
             /\ p = Stream[x + i].piece /\ g = Stream[x + i].frame
             /\ p <= sent[g] /\ \A j \in 1..p : Stream[x + i - p + j] = Piece(g, j)
      <4>1. PICK p \in 1..(x + i), g \in Senders :
               p = Stream[x + i].piece /\ g = Stream[x + i].frame
        BY <1>6, <1>7, <3>1
      <4>2. p <= sent[g] /\ \A j \in 1..p : Stream[x + i - p + j] = Piece(g, j)
        BY <1>6, <3>1, <4>1
      <4> QED
        BY <4>1, <4>2
    <3>3. p <= x
      <4> SUFFICES ASSUME p > x PROVE FALSE
        BY <3>2
      <4>1. p - x \in 1..p /\ x + i - p + (p - x) = i
        BY <1>4, <4>1
      <4>2. Stream[i] = Piece(g, p - x)
        BY <3>2, <4>1
      <4>3. g = f
        BY <1>5, <4>2 DEF Piece
      <4> QED
        BY <1>13, <1>14, <3>2, <4>3
    <3>4. \A j \in 1..p : x - p + j \in 1..(N - i) /\ (x - p + j) + i = x + i - p + j
      BY <1>4, <3>2, <3>3
    <3>5. \A j \in 1..p : Stream'[x - p + j] = Piece(g, j)
      BY <1>4, <3>2, <3>4
    <3>6. p \in 1..x /\ p <= sent'[g]
      BY <1>1, <3>2, <3>3
    <3> QED
      BY <3>1, <3>2, <3>5, <3>6
  <2>2. ASSUME NEW x \in 1..(N - i), NEW y \in 1..(N - i), Stream'[x] = Stream'[y]
        PROVE  x = y
    <3>1. Stream[x + i] = Stream[y + i] /\ x + i \in 1..N /\ y + i \in 1..N
      BY <1>4, <1>14, <2>2
    <3>2. x + i = y + i
      BY <1>1, <1>3, <3>1 DEF RunInv
    <3> QED
      BY <1>4, <3>2
  <2> QED
    BY <1>4, <2>1, <2>2 DEF RunInv
<1>16. TurnInv'
  <2>1. \A s, u \in Senders : pc'[s] = "waiting" /\ pc'[u] = "waiting" => s = u
    BY <1>1 DEF TurnInv
  <2>2. ASSUME NEW x \in 2..(N - i), Stream'[x].piece = 1 PROVE IsLast(Stream'[x - 1])
    <3>1. /\ x \in 1..(N - i) /\ x - 1 \in 1..(N - i)
          /\ x + i \in 2..N /\ (x - 1) + i = (x + i) - 1
      BY <1>4
    <3>2. Stream[x + i].piece = 1
      BY <1>4, <2>2, <3>1
    <3>3. IsLast(Stream[(x + i) - 1])
      BY <1>1, <1>3, <3>1, <3>2 DEF TurnInv
    <3> QED
      BY <1>4, <3>1, <3>3
  <2>3. N - i > 0 => /\ N - i \in 1..(N - i) /\ (N - i) + i = N /\ N > 0
                     /\ Stream'[N - i] = Stream[N]
    <3>1. N - i > 0 => N - i \in 1..(N - i) /\ (N - i) + i = N /\ N > 0
      BY <1>4
    <3> QED
      BY <1>4, <3>1
  <2>4. ASSUME N - i > 0, ~IsLast(Stream'[N - i])
        PROVE  pc'[Stream'[N - i].frame] = "waiting"
    <3>1. N > 0 /\ ~IsLast(Stream[N]) /\ Stream'[N - i] = Stream[N]
      BY <2>3, <2>4
    <3>2. pc[Stream[N].frame] = "waiting"
      BY <1>1, <1>3, <3>1 DEF TurnInv
    <3> QED
      BY <1>1, <3>1, <3>2
  <2>5. ASSUME NEW s \in Senders, pc'[s] = "waiting", sent'[s] > 0
        PROVE  N - i > 0 /\ Stream'[N - i] = Piece(s, sent'[s])
    <3>1. N > 0 /\ Stream[N] = Piece(s, sent[s])
      BY <1>1, <1>3, <2>5 DEF TurnInv
    <3>2. N # i
      <4> SUFFICES ASSUME N = i PROVE FALSE
        OBVIOUS
      <4>1. s = f
        BY <1>5, <3>1 DEF Piece
      <4> QED
        BY <1>1, <1>12, <2>5, <4>1
    <3>3. N - i > 0
      BY <1>4, <3>2
    <3> QED
      BY <1>1, <2>3, <3>1, <3>3
  <2> QED
    BY <1>4, <2>1, <2>2, <2>4, <2>5 DEF TurnInv
<1>17. WholeInv'
  <2>1. \A k \in 1..(D + 1) : k \in 1..D \/ k = D + 1
    BY <1>3
  <2>2. /\ Len(delivered') = D + 1 /\ delivered'[D + 1] = d
        /\ \A k \in 1..D : delivered'[k] = delivered[k]
    BY <1>2, <1>3
  <2>3. ASSUME NEW k \in 1..D
        PROVE  \E u \in Senders : /\ delivered[k].pieces = Whole(u) /\ u # f
                                  /\ pc'[u] = "done"
                                  /\ \A x \in 1..(N - i) : Stream'[x].frame # u
    <3>1. PICK u \in Senders : /\ delivered[k].pieces = Whole(u)
                               /\ pc[u] = "done"
                               /\ \A x \in 1..N : Stream[x].frame # u
      BY <1>1, <1>3 DEF WholeInv
    <3>2. u # f
      BY <1>4, <1>5, <3>1
    <3>3. \A x \in 1..(N - i) : Stream'[x].frame # u
      BY <1>4, <1>14, <3>1
    <3> QED
      BY <1>1, <3>1, <3>2, <3>3
  <2>4. \A x \in 1..(N - i) : Stream'[x].frame # f
    BY <1>4, <1>13, <1>14
  <2>5. \A u \in Senders : Whole(u) = Whole(f) => u = f
    <3> SUFFICES ASSUME NEW u \in Senders, Whole(u) = Whole(f) PROVE u = f
      OBVIOUS
    <3>1. 1 \in 1..Length[u] /\ 1 \in 1..Length[f]
      BY LengthAssumption
    <3>2. Whole(u)[1] = Piece(u, 1) /\ Whole(f)[1] = Piece(f, 1)
      BY <3>1 DEF Whole
    <3>3. Piece(u, 1) = Piece(f, 1)
      BY <3>2
    <3> QED
      BY <3>3 DEF Piece
  <2>6. ASSUME NEW k \in 1..Len(delivered')
        PROVE  \E u \in Senders : /\ delivered'[k].pieces = Whole(u)
                                  /\ pc'[u] = "done"
                                  /\ \A x \in 1..End' : Stream'[x].frame # u
    <3>1. CASE k \in 1..D
      BY <1>4, <2>2, <2>3, <3>1
    <3>2. CASE k = D + 1
      BY <1>1, <1>4, <1>11, <1>12, <2>2, <2>4, <3>2
    <3> QED
      BY <2>1, <2>2, <3>1, <3>2
  <2>7. ASSUME NEW k \in 1..Len(delivered'), NEW j \in 1..(k - 1)
        PROVE  delivered'[j].pieces # delivered'[k].pieces
    <3>1. j \in 1..D
      BY <1>3, <2>2
    <3>2. CASE k \in 1..D
      <4>1. delivered[j].pieces # delivered[k].pieces
        BY <1>1, <1>3, <3>2 DEF WholeInv
      <4> QED
        BY <2>2, <3>1, <3>2, <4>1
    <3>3. CASE k = D + 1
      BY <1>11, <2>2, <2>3, <2>5, <3>1, <3>3
    <3> QED
      BY <2>1, <2>2, <3>2, <3>3
  <2>8. /\ \A k \in 1..Len(delivered') : \E u \in Senders :
              /\ delivered'[k].pieces = Whole(u)
              /\ pc'[u] = "done"
              /\ \A x \in 1..End' : Stream'[x].frame # u
        /\ \A k \in 1..Len(delivered') : \A j \in 1..(k - 1) :
              delivered'[j].pieces # delivered'[k].pieces
    BY <2>6, <2>7
  <2> QED
    BY <2>8 DEF WholeInv, Whole
<1> QED
  BY <1>15, <1>16, <1>17

LEMMA FrameInit == Init => FrameInv
<1> SUFFICES ASSUME Init PROVE FrameInv
  OBVIOUS
<1>1. End = 0 /\ Len(delivered) = 0
  BY EmptySeq DEF Init, End
<1>2. \A i \in 1..0 : FALSE
  OBVIOUS
<1>3. RunInv /\ WholeInv
  BY <1>1, <1>2 DEF RunInv, WholeInv
<1>4. SentInv
  BY DEF Init, SentInv
<1>5. TurnInv
  <2>1. \A i \in 2..0 : FALSE
    OBVIOUS
  <2> QED
    BY <1>1, <2>1 DEF Init, TurnInv
<1> QED
  BY <1>3, <1>4, <1>5, TypeInit DEF FrameInv

LEMMA FrameNext == ASSUME Exclusive PROVE FrameInv /\ [Next]_vars => FrameInv'
<1> SUFFICES ASSUME FrameInv, [Next]_vars PROVE FrameInv'
  OBVIOUS
<1>1. TypeOK' /\ SentInv'
  BY TypeNext, SentNext DEF FrameInv
<1>2. ASSUME NEW s \in Senders, BeginSend(s) \/ ResumeSend(s)
      PROVE  RunInv' /\ TurnInv' /\ WholeInv'
  <2>1. SendWhatFits(s) /\ UNCHANGED receiving
    BY <1>2 DEF BeginSend, ResumeSend
  <2>2. pc[s] # "done" /\ \A u \in Senders : pc[u] = "waiting" => u = s
    BY <1>2 DEF BeginSend, ResumeSend, MayBegin, FrameInv, TurnInv
  <2> QED
    BY <2>1, <2>2, FrameSend
<1>3. CASE OnWritable \/ Receive \/ UNCHANGED vars
  <2>1. UNCHANGED <<pc, sent, delivered>>
    BY <1>3 DEF OnWritable, Receive, vars, sending, receiving
  <2>2. End' = End /\ \A i \in 1..End : Stream'[i] = Stream[i]
    <3>1. CASE Receive
      BY <3>1, StreamReceive DEF FrameInv
    <3>2. CASE OnWritable \/ UNCHANGED vars
      <4>1. UNCHANGED <<buffer, socket>>
        BY <3>2 DEF OnWritable, vars, receiving
      <4> QED
        BY <4>1 DEF End, Stream
    <3> QED
      BY <1>3, <3>1, <3>2
  <2> QED
    BY <1>1, <2>1, <2>2, FrameStay DEF FrameInv
<1>4. CASE Deliver
  BY <1>1, <1>4, FrameDeliver DEF FrameInv
<1> QED
  BY <1>1, <1>2, <1>3, <1>4 DEF Next, FrameInv

\* However many pieces each sendmsg and recvmsg moves, what receive_frame hands
\* over is the frames that were sent, whole and each once, as long as no
\* send_frame begins while another waits for room.
THEOREM FramesArriveIntact == ASSUME Exclusive PROVE Spec => []FramesIntact
<1>1. FrameInv => FramesIntact
  BY DEF FrameInv, WholeInv, FramesIntact, Whole
<1> QED
  BY <1>1, FrameInit, FrameNext, PTL DEF Spec


\* ---- Descriptors are neither lost nor late, whoever sends

\* What is sent goes behind what is in the socket already, the descriptors with
\* the first piece.
LEMMA FdsSend ==
    ASSUME FdsInv, NEW s \in Senders, SendWhatFits(s), UNCHANGED receiving
    PROVE  CarrierInv' /\ ArrivalInv'
<1>1. TypeOK /\ CarrierInv /\ ArrivalInv /\ UNCHANGED <<buffer, collected, delivered>>
  BY DEF FdsInv, receiving
<1>2. PICK n \in Nat :
             /\ sent' = [sent EXCEPT ![s] = sent[s] + n]
             /\ Len(socket') = Len(socket) + n
             /\ \A i \in 1..Len(socket) : socket'[i] = socket[i]
             /\ \A i \in 1..n :
                   /\ socket'[Len(socket) + i].frame = s
                   /\ socket'[Len(socket) + i].piece = sent[s] + i
  BY <1>1, SendSteps
<1>3. socket \in Seq(Flying)
  BY <1>1 DEF TypeOK, Flying
<1>4. PICK W \in Nat, a \in Nat : W = Len(socket) /\ a = sent[s]
  BY <1>1, <1>3, LenProperties DEF TypeOK
<1>5. /\ Len(socket') = W + n
      /\ \A i \in 1..W : socket'[i] = socket[i]
      /\ \A k \in 1..n : socket'[W + k].frame = s /\ socket'[W + k].piece = a + k
  BY <1>2, <1>4
<1>6. /\ sent \in [Senders -> Nat] /\ sent'[s] = a + n
      /\ \A u \in Senders \ {s} : sent'[u] = sent[u]
  BY <1>1, <1>2, <1>4 DEF TypeOK
<1>7. \A i \in 1..W : socket[i].frame \in Senders /\ socket[i].piece \in Nat
  <2>1. \A i \in 1..W : socket[i] \in Flying
    BY <1>3, <1>4, ElementOfSeq
  <2> QED
    BY <2>1 DEF Flying
<1>8. \A i \in 1..(W + n) : i \in 1..W \/ \E k \in 1..n : i = W + k
  <2>1. \A i \in 1..(W + n) : i \in 1..W \/ (i - W \in 1..n /\ i = W + (i - W))
    OBVIOUS
  <2> QED
    BY <2>1
<1>9. \A i \in 1..W : socket[i].piece \in 1..sent[socket[i].frame]
  BY <1>1, <1>4 DEF CarrierInv
<1>10. \A u \in Senders : sent'[u] >= sent[u]
  BY <1>4, <1>6
<1>11. \A i \in 1..Len(socket') : socket'[i].piece \in 1..sent'[socket'[i].frame]
  <2>1. ASSUME NEW i \in 1..W PROVE socket'[i].piece \in 1..sent'[socket'[i].frame]
    <3>1. PICK u \in Senders, p \in Nat : u = socket[i].frame /\ p = socket[i].piece
      BY <1>7
    <3>2. p \in 1..sent[u] /\ sent[u] \in Nat /\ sent'[u] \in Nat /\ sent'[u] >= sent[u]
      BY <1>4, <1>6, <1>9, <1>10, <3>1
    <3> QED
      BY <1>5, <3>1, <3>2
  <2>2. ASSUME NEW k \in 1..n PROVE socket'[W + k].piece \in 1..sent'[socket'[W + k].frame]
    BY <1>5, <1>6
  <2> QED
    BY <1>5, <1>8, <2>1, <2>2
<1>12. ASSUME NEW i \in 1..Len(socket'), NEW j \in 1..(i - 1),
              socket'[i].frame = socket'[j].frame
       PROVE  socket'[j].piece < socket'[i].piece
  <2>1. CASE i \in 1..W
    <3>1. j \in 1..W
      BY <2>1
    <3>2. socket[i].frame = socket[j].frame
      BY <1>5, <1>12, <2>1, <3>1
    <3>3. socket[j].piece < socket[i].piece
      BY <1>1, <1>4, <2>1, <3>2 DEF CarrierInv
    <3> QED
      BY <1>5, <2>1, <3>1, <3>3
  <2>2. ASSUME NEW k \in 1..n, i = W + k PROVE socket'[j].piece < socket'[i].piece
    <3>1. socket'[i].frame = s /\ socket'[i].piece = a + k
      BY <1>5, <2>2
    <3>2. j \in 1..(W + n)
      BY <2>2
    <3>3. CASE j \in 1..W
      <4>1. socket[j].frame = s /\ socket'[j].piece = socket[j].piece
        BY <1>5, <1>12, <3>1, <3>3
      <4>2. socket[j].piece \in 1..a
        BY <1>4, <1>9, <3>3, <4>1
      <4> QED
        BY <3>1, <4>1, <4>2
    <3>4. ASSUME NEW l \in 1..n, j = W + l PROVE socket'[j].piece < socket'[i].piece
      <4>1. socket'[j].piece = a + l /\ l < k
        BY <1>5, <2>2, <3>4
      <4> QED
        BY <3>1, <4>1
    <3> QED
      BY <1>8, <3>2, <3>3, <3>4
  <2> QED
    BY <1>5, <1>8, <2>1, <2>2
<1>13. ASSUME NEW u \in Senders, sent[u] > 0,
              \A i \in 1..W : socket[i].piece = 1 => socket[i].frame # u
       PROVE  /\ sent'[u] > 0
              /\ \A i \in 1..Len(socket') : socket'[i].piece = 1 => socket'[i].frame # u
  <2>1. sent'[u] > 0
    BY <1>4, <1>6, <1>10, <1>13
  <2>2. \A i \in 1..W : socket'[i].piece = 1 => socket'[i].frame # u
    BY <1>5, <1>13
  <2>3. \A k \in 1..n : socket'[W + k].piece = 1 => socket'[W + k].frame # u
    <3> SUFFICES ASSUME NEW k \in 1..n, a + k = 1 PROVE s # u
      BY <1>5
    <3> QED
      BY <1>4, <1>13
  <2>4. \A i \in 1..Len(socket') : socket'[i].piece = 1 => socket'[i].frame # u
    <3> SUFFICES ASSUME NEW i \in 1..(W + n), socket'[i].piece = 1
                 PROVE  socket'[i].frame # u
      BY <1>5
    <3>1. i \in 1..W \/ \E k \in 1..n : i = W + k
      BY <1>8
    <3> QED
      BY <2>2, <2>3, <3>1
  <2> QED
    BY <2>1, <2>4
<1>14. Carriers \subseteq Senders /\ collected \subseteq Carriers
  BY <1>1, CarriersAssumption DEF TypeOK
<1>15. \A k \in 1..Len(delivered) : delivered[k].fds \subseteq Carriers
  <2>1. delivered \in Seq(Received)
    BY <1>1 DEF TypeOK, Received
  <2>2. \A k \in 1..Len(delivered) : delivered[k] \in Received
    BY <2>1, ElementOfSeq
  <2> QED
    BY <2>2 DEF Received
<1>16. CarrierInv'
  <2>1. ASSUME NEW u \in collected
        PROVE  /\ sent'[u] > 0
               /\ \A i \in 1..Len(socket') : socket'[i].piece = 1 => socket'[i].frame # u
    <3>1. u \in Senders /\ sent[u] > 0
      BY <1>1, <1>14 DEF CarrierInv
    <3>2. \A i \in 1..W : socket[i].piece = 1 => socket[i].frame # u
      BY <1>1, <1>4 DEF CarrierInv
    <3> QED
      BY <1>13, <3>1, <3>2
  <2>2. ASSUME NEW k \in 1..Len(delivered), NEW u \in delivered[k].fds
        PROVE  /\ sent'[u] > 0
               /\ u \notin collected
               /\ \A i \in 1..Len(socket') : socket'[i].piece = 1 => socket'[i].frame # u
               /\ \A j \in 1..Len(delivered) : u \in delivered[j].fds => j = k
    <3>1. u \in Senders /\ sent[u] > 0
      BY <1>1, <1>14, <1>15 DEF CarrierInv
    <3>2. /\ \A i \in 1..W : socket[i].piece = 1 => socket[i].frame # u
          /\ u \notin collected
          /\ \A j \in 1..Len(delivered) : u \in delivered[j].fds => j = k
      BY <1>1, <1>4 DEF CarrierInv
    <3> QED
      BY <1>13, <3>1, <3>2
  <2> QED
    BY <1>1, <1>11, <1>12, <2>1, <2>2 DEF CarrierInv
<1>17. ArrivalInv'
  <2>1. ASSUME NEW u \in Carriers
        PROVE  \/ sent'[u] = 0
               \/ u \in collected \/ GivenIn(delivered, u)
               \/ \E i \in 1..Len(socket') : socket'[i].frame = u /\ socket'[i].piece = 1
    <3>1. \A i \in 1..W : i \in 1..Len(socket')
      BY <1>5
    <3>2. CASE \E i \in 1..W : socket[i].frame = u /\ socket[i].piece = 1
      BY <1>5, <3>1, <3>2
    <3>3. CASE u # s /\ sent[u] = 0
      BY <1>6, <1>14, <3>3
    <3>4. CASE u = s /\ a = 0
      <4>1. n = 0 => sent'[s] = 0
        BY <1>6, <3>4
      <4>2. n > 0 => /\ W + 1 \in 1..Len(socket')
                     /\ socket'[W + 1].frame = s /\ socket'[W + 1].piece = 1
        <5>1. n > 0 => 1 \in 1..n /\ W + 1 \in 1..(W + n) /\ a + 1 = 1
          BY <3>4
        <5> QED
          BY <1>5, <5>1
      <4> QED
        BY <3>4, <4>1, <4>2
    <3> QED
      BY <1>1, <1>4, <3>2, <3>3, <3>4 DEF ArrivalInv
  <2> QED
    BY <1>1, <2>1 DEF ArrivalInv, GivenIn
<1> QED
  BY <1>16, <1>17

\* What is read is read with its descriptors or behind them.
LEMMA FdsReceive ==
    ASSUME FdsInv, Receive
    PROVE  CarrierInv' /\ ArrivalInv'
<1>1. TypeOK /\ CarrierInv /\ ArrivalInv /\ UNCHANGED <<sent, delivered>>
  BY DEF FdsInv, Receive, sending
<1>2. PICK n \in 1..Len(socket) :
             /\ Len(buffer') = Len(buffer) + n
             /\ \A i \in 1..Len(buffer) : buffer'[i] = buffer[i]
             /\ \A i \in 1..n :
                   buffer'[Len(buffer) + i] = Piece(socket[i].frame, socket[i].piece)
             /\ Len(socket') = Len(socket) - n
             /\ \A i \in 1..(Len(socket) - n) : socket'[i] = socket[i + n]
             /\ collected' = collected \cup
                    {s \in Carriers : \E i \in 1..n :
                        Brings(socket[i]) /\ socket[i].frame = s}
  BY <1>1, ReceiveSteps
<1>3. socket \in Seq(Flying) /\ buffer \in Seq(Pieces)
  BY <1>1 DEF TypeOK, Flying
<1>4. PICK W \in Nat, B \in Nat : W = Len(socket) /\ B = Len(buffer)
  BY <1>3, LenProperties
<1>5. /\ n \in 1..W /\ Len(buffer') = B + n /\ Len(socket') = W - n
      /\ \A i \in 1..B : buffer'[i] = buffer[i]
      /\ \A i \in 1..n : buffer'[B + i].frame = socket[i].frame
      /\ \A i \in 1..(W - n) : socket'[i] = socket[i + n]
  <2>1. \A i \in 1..n : buffer'[B + i] = Piece(socket[i].frame, socket[i].piece)
    BY <1>2, <1>4
  <2>2. \A i \in 1..n : buffer'[B + i].frame = socket[i].frame
    <3>1. \A f, x : Piece(f, x).frame = f
      BY DEF Piece
    <3> QED
      BY <2>1, <3>1
  <2> QED
    BY <1>2, <1>4, <2>2
<1>6. \A i \in 1..W : socket[i].frame \in Senders /\ socket[i].piece \in Nat
  <2>1. \A i \in 1..W : socket[i] \in Flying
    BY <1>3, <1>4, ElementOfSeq
  <2> QED
    BY <2>1 DEF Flying
<1>7. /\ \A i \in 1..W : socket[i].piece \in 1..sent[socket[i].frame]
      /\ \A i \in 1..W : \A j \in 1..(i - 1) :
            socket[i].frame = socket[j].frame => socket[j].piece < socket[i].piece
  BY <1>1, <1>4 DEF CarrierInv
<1>8. \A u : u \in collected' <=>
         \/ u \in collected
         \/ u \in Carriers /\ \E i \in 1..n : socket[i].piece = 1 /\ socket[i].frame = u
  BY <1>2 DEF Brings
<1>9. /\ \A i \in 1..(W - n) : i + n \in 1..W
      /\ \A i \in 1..n : i \in 1..W
      /\ \A i \in 1..W : i \in 1..n \/ (i - n \in 1..(W - n) /\ (i - n) + n = i)
  BY <1>5
<1>10. sent \in [Senders -> Nat] /\ Carriers \subseteq Senders
  BY <1>1, CarriersAssumption DEF TypeOK
<1>11. CarrierInv'
  <2>1. \A i \in 1..Len(socket') : socket'[i].piece \in 1..sent'[socket'[i].frame]
    BY <1>1, <1>5, <1>7, <1>9
  <2>2. ASSUME NEW i \in 1..Len(socket'), NEW j \in 1..(i - 1),
               socket'[i].frame = socket'[j].frame
        PROVE  socket'[j].piece < socket'[i].piece
    <3>1. /\ i \in 1..(W - n) /\ j \in 1..(W - n)
          /\ i + n \in 1..W /\ j + n \in 1..((i + n) - 1)
      BY <1>5
    <3>2. socket[j + n].piece < socket[i + n].piece
      BY <1>5, <1>7, <2>2, <3>1
    <3> QED
      BY <1>5, <3>1, <3>2
  <2>3. ASSUME NEW u, \A i \in 1..W : socket[i].piece = 1 => socket[i].frame # u
        PROVE  \A i \in 1..Len(socket') : socket'[i].piece = 1 => socket'[i].frame # u
    <3> SUFFICES ASSUME NEW i \in 1..(W - n), socket'[i].piece = 1
                 PROVE  socket'[i].frame # u
      BY <1>5
    <3>1. i + n \in 1..W /\ socket'[i] = socket[i + n]
      BY <1>5, <1>9
    <3> QED
      BY <2>3, <3>1
  <2>4. ASSUME NEW u \in collected'
        PROVE  /\ sent'[u] > 0
               /\ \A i \in 1..Len(socket') : socket'[i].piece = 1 => socket'[i].frame # u
    <3>1. CASE u \in collected
      <4>1. sent[u] > 0 /\ \A i \in 1..W : socket[i].piece = 1 => socket[i].frame # u
        BY <1>1, <1>4, <3>1 DEF CarrierInv
      <4> QED
        BY <1>1, <2>3, <4>1
    <3>2. ASSUME NEW i \in 1..n, socket[i].piece = 1, socket[i].frame = u
          PROVE  /\ sent'[u] > 0
                 /\ \A k \in 1..Len(socket') : socket'[k].piece = 1 => socket'[k].frame # u
      <4>1. i \in 1..W /\ u \in Senders
        BY <1>6, <1>9, <3>2
      <4>2. 1 \in 1..sent[u] /\ sent[u] \in Nat
        BY <1>7, <1>10, <3>2, <4>1
      <4>3. ASSUME NEW k \in 1..(W - n), socket[k + n].piece = 1, socket[k + n].frame = u
            PROVE  FALSE
        <5>1. k + n \in 1..W /\ i \in 1..((k + n) - 1)
          BY <1>5
        <5>2. socket[i].piece < socket[k + n].piece
          BY <1>7, <3>2, <4>3, <5>1
        <5> QED
          BY <3>2, <4>3, <5>2
      <4>4. \A k \in 1..Len(socket') : socket'[k].piece = 1 => socket'[k].frame # u
        BY <1>5, <4>3
      <4>5. sent'[u] > 0
        BY <1>1, <4>2
      <4> QED
        BY <4>4, <4>5
    <3> QED
      BY <1>8, <3>1, <3>2
  <2>5. ASSUME NEW k \in 1..Len(delivered), NEW u \in delivered[k].fds
        PROVE  /\ sent'[u] > 0
               /\ u \notin collected'
               /\ \A i \in 1..Len(socket') : socket'[i].piece = 1 => socket'[i].frame # u
               /\ \A j \in 1..Len(delivered) : u \in delivered[j].fds => j = k
    <3>1. /\ sent[u] > 0 /\ u \notin collected
          /\ \A i \in 1..W : socket[i].piece = 1 => socket[i].frame # u
          /\ \A j \in 1..Len(delivered) : u \in delivered[j].fds => j = k
      BY <1>1, <1>4 DEF CarrierInv
    <3>2. u \notin collected'
      BY <1>8, <1>9, <3>1
    <3> QED
      BY <1>1, <2>3, <3>1, <3>2
  <2> QED
    BY <1>1, <2>1, <2>2, <2>4, <2>5 DEF CarrierInv
<1>12. ArrivalInv'
  <2>1. ASSUME NEW u \in Carriers, NEW i \in 1..W, socket[i].frame = u, socket[i].piece = 1
        PROVE  \/ u \in collected'
               \/ \E k \in 1..Len(socket') : socket'[k].frame = u /\ socket'[k].piece = 1
    <3>1. CASE i \in 1..n
      BY <1>8, <2>1, <3>1
    <3>2. CASE i - n \in 1..(W - n) /\ (i - n) + n = i
      <4>1. socket'[i - n] = socket[i] /\ i - n \in 1..Len(socket')
        BY <1>5, <3>2
      <4> QED
        BY <2>1, <4>1
    <3> QED
      BY <1>9, <3>1, <3>2
  <2>2. ASSUME NEW u \in Carriers
        PROVE  \/ sent'[u] = 0
               \/ u \in collected' \/ GivenIn(delivered, u)
               \/ \E i \in 1..Len(socket') : socket'[i].frame = u /\ socket'[i].piece = 1
    <3>1. \/ sent[u] = 0
          \/ u \in collected \/ GivenIn(delivered, u)
          \/ \E i \in 1..W : socket[i].frame = u /\ socket[i].piece = 1
      BY <1>1, <1>4 DEF ArrivalInv
    <3> QED
      BY <1>1, <1>8, <2>1, <3>1
  <2>3. ASSUME NEW i \in 1..n, socket[i].frame \in Carriers
        PROVE  socket[i].frame \in collected' \/ GivenIn(delivered, socket[i].frame)
    <3>1. PICK u \in Carriers : u = socket[i].frame
      BY <2>3
    <3>2. i \in 1..W /\ sent[u] \in Nat
      BY <1>9, <1>10, <3>1
    <3>3. sent[u] # 0 /\ socket[i].piece > 0
      BY <1>7, <3>1, <3>2
    <3>4. \/ u \in collected \/ GivenIn(delivered, u)
          \/ \E j \in 1..W : socket[j].frame = u /\ socket[j].piece = 1
      BY <1>1, <1>4, <3>3 DEF ArrivalInv
    <3>5. ASSUME NEW j \in 1..W, socket[j].frame = u, socket[j].piece = 1
          PROVE  u \in collected'
      <4>1. j \in 1..n
        <5> SUFFICES ASSUME j > n PROVE FALSE
          BY <1>5
        <5>1. i \in 1..(j - 1)
          BY <1>5
        <5>2. socket[i].piece < socket[j].piece
          BY <1>7, <3>1, <3>5, <5>1
        <5>3. socket[i].piece \in Nat
          BY <1>6, <3>2
        <5> QED
          BY <3>3, <3>5, <5>2, <5>3
      <4> QED
        BY <1>8, <3>5, <4>1
    <3> QED
      BY <1>8, <3>1, <3>4, <3>5
  <2>4. ASSUME NEW i \in 1..Len(buffer'), buffer'[i].frame \in Carriers
        PROVE  buffer'[i].frame \in collected' \/ GivenIn(delivered, buffer'[i].frame)
    <3>1. CASE i \in 1..B
      <4>1. buffer'[i] = buffer[i]
        BY <1>5, <3>1
      <4>2. buffer[i].frame \in collected \/ GivenIn(delivered, buffer[i].frame)
        BY <1>1, <1>4, <2>4, <3>1, <4>1 DEF ArrivalInv
      <4> QED
        BY <1>8, <4>1, <4>2
    <3>2. CASE i - B \in 1..n /\ B + (i - B) = i
      BY <1>5, <2>3, <2>4, <3>2
    <3>3. i \in 1..B \/ (i - B \in 1..n /\ B + (i - B) = i)
      BY <1>5
    <3> QED
      BY <3>1, <3>2, <3>3
  <2> QED
    BY <1>1, <2>2, <2>4 DEF ArrivalInv, GivenIn
<1> QED
  BY <1>11, <1>12

\* A frame is handed over with all that was collected.
LEMMA FdsDeliver ==
    ASSUME FdsInv, Deliver
    PROVE  CarrierInv' /\ ArrivalInv'
<1>1. /\ TypeOK /\ CarrierInv /\ ArrivalInv
      /\ UNCHANGED <<sent, socket>> /\ collected' = {}
  BY DEF FdsInv, Deliver, sending
<1>2. PICK i \in 1..Len(buffer), d \in Received :
             /\ Len(buffer') = Len(buffer) - i
             /\ \A j \in 1..(Len(buffer) - i) : buffer'[j] = buffer[j + i]
             /\ Len(d.pieces) = i
             /\ \A j \in 1..i : d.pieces[j] = buffer[j]
             /\ d.fds = collected
             /\ Len(delivered') = Len(delivered) + 1
             /\ \A k \in 1..Len(delivered) : delivered'[k] = delivered[k]
             /\ delivered'[Len(delivered) + 1] = d
  BY <1>1, DeliverSteps
<1>3. PICK B \in Nat, D \in Nat : B = Len(buffer) /\ D = Len(delivered)
  BY <1>1, LenProperties DEF TypeOK
<1>4. /\ i \in 1..B /\ Len(buffer') = B - i /\ Len(delivered') = D + 1
      /\ \A j \in 1..(B - i) : buffer'[j] = buffer[j + i]
      /\ \A k \in 1..D : delivered'[k] = delivered[k]
      /\ delivered'[D + 1] = d
  BY <1>2, <1>3
<1>5. /\ \A k \in 1..(D + 1) : k \in 1..D \/ k = D + 1
      /\ \A k \in 1..D : k \in 1..(D + 1)
      /\ D + 1 \in 1..(D + 1)
  BY <1>3
<1>6. \A k \in 1..D : \A u \in delivered[k].fds :
         /\ sent[u] > 0 /\ u \notin collected
         /\ \A x \in 1..Len(socket) : socket[x].piece = 1 => socket[x].frame # u
         /\ \A j \in 1..D : u \in delivered[j].fds => j = k
  BY <1>1, <1>3 DEF CarrierInv
<1>7. \A u \in collected :
         /\ sent[u] > 0
         /\ \A x \in 1..Len(socket) : socket[x].piece = 1 => socket[x].frame # u
  BY <1>1 DEF CarrierInv
<1>8. CarrierInv'
  <2>1. ASSUME NEW k \in 1..(D + 1), NEW u \in delivered'[k].fds
        PROVE  /\ sent[u] > 0
               /\ \A x \in 1..Len(socket) : socket[x].piece = 1 => socket[x].frame # u
               /\ \A j \in 1..(D + 1) : u \in delivered'[j].fds => j = k
    <3>1. CASE k \in 1..D
      BY <1>2, <1>4, <1>5, <1>6, <2>1, <3>1
    <3>2. CASE k = D + 1
      BY <1>2, <1>4, <1>5, <1>6, <1>7, <2>1, <3>2
    <3> QED
      BY <1>5, <3>1, <3>2
  <2> QED
    BY <1>1, <1>4, <2>1 DEF CarrierInv
<1>9. \A u \in collected : GivenIn(delivered', u)
  BY <1>2, <1>4, <1>5 DEF GivenIn
<1>10. \A u : GivenIn(delivered, u) => GivenIn(delivered', u)
  BY <1>3, <1>4, <1>5 DEF GivenIn
<1>11. ArrivalInv'
  <2>1. ASSUME NEW u \in Carriers
        PROVE  \/ sent[u] = 0
               \/ GivenIn(delivered', u)
               \/ \E x \in 1..Len(socket) : socket[x].frame = u /\ socket[x].piece = 1
    BY <1>1, <1>9, <1>10 DEF ArrivalInv
  <2>2. \A j \in 1..B : buffer[j].frame \in Carriers =>
           buffer[j].frame \in collected \/ GivenIn(delivered, buffer[j].frame)
    BY <1>1, <1>3 DEF ArrivalInv
  <2>3. ASSUME NEW j \in 1..(B - i), buffer'[j].frame \in Carriers
        PROVE  GivenIn(delivered', buffer'[j].frame)
    <3>1. j + i \in 1..B /\ buffer'[j] = buffer[j + i]
      BY <1>4
    <3>2. PICK u \in Carriers : u = buffer[j + i].frame
      BY <2>3, <3>1
    <3>3. u \in collected \/ GivenIn(delivered, u)
      BY <2>2, <3>1, <3>2
    <3>4. GivenIn(delivered', u)
      BY <1>9, <1>10, <3>3
    <3> QED
      BY <1>4, <3>1, <3>2, <3>4 DEF GivenIn
  <2>4. ASSUME NEW k \in 1..(D + 1),
               delivered'[k].pieces[Len(delivered'[k].pieces)].frame \in Carriers
        PROVE  \E j \in 1..k :
                  delivered'[k].pieces[Len(delivered'[k].pieces)].frame \in delivered'[j].fds
    <3>1. CASE k \in 1..D
      <4>1. PICK u \in Carriers : /\ u = delivered[k].pieces[Len(delivered[k].pieces)].frame
                                  /\ delivered'[k] = delivered[k]
        BY <1>4, <2>4, <3>1
      <4>2. PICK j \in 1..k : u \in delivered[j].fds
        BY <1>1, <1>3, <3>1, <4>1 DEF ArrivalInv
      <4>3. j \in 1..D
        BY <3>1
      <4> QED
        BY <1>4, <4>1, <4>2, <4>3
    <3>2. CASE k = D + 1
      <4>1. /\ delivered'[k] = d /\ Len(d.pieces) = i
            /\ i \in 1..i /\ d.pieces[i] = buffer[i]
        BY <1>2, <1>4, <3>2
      <4>2. PICK u \in Carriers : /\ u = buffer[i].frame
                                  /\ u = delivered'[k].pieces[Len(delivered'[k].pieces)].frame
        BY <2>4, <4>1
      <4>3. u \in collected \/ GivenIn(delivered, u)
        BY <1>4, <2>2, <4>2
      <4>4. CASE u \in collected
        BY <1>2, <1>4, <1>5, <3>2, <4>2, <4>4
      <4>5. CASE GivenIn(delivered, u)
        <5>1. PICK j \in 1..D : u \in delivered[j].fds
          BY <1>3, <4>5 DEF GivenIn
        <5> QED
          BY <1>4, <1>5, <3>2, <4>2, <5>1
      <4> QED
        BY <4>3, <4>4, <4>5
    <3> QED
      BY <1>5, <3>1, <3>2
  <2> QED
    BY <1>1, <1>4, <2>1, <2>3, <2>4 DEF ArrivalInv, GivenIn
<1> QED
  BY <1>8, <1>11

LEMMA FdsNext == FdsInv /\ [Next]_vars => FdsInv'
<1> SUFFICES ASSUME FdsInv, [Next]_vars PROVE FdsInv'
  OBVIOUS
<1>1. TypeOK'
  BY TypeNext DEF FdsInv
<1>2. ASSUME NEW s \in Senders, BeginSend(s) \/ ResumeSend(s) PROVE FdsInv'
  <2>1. SendWhatFits(s) /\ UNCHANGED receiving
    BY <1>2 DEF BeginSend, ResumeSend
  <2> QED
    BY <1>1, <2>1, FdsSend DEF FdsInv
<1>3. CASE OnWritable \/ UNCHANGED vars
  <2>1. UNCHANGED <<sent, socket, buffer, collected, delivered>>
    BY <1>3 DEF OnWritable, vars, sending, receiving
  <2>2. CarrierInv' /\ ArrivalInv'
    BY <2>1 DEF FdsInv, CarrierInv, ArrivalInv, GivenIn
  <2> QED
    BY <1>1, <2>2 DEF FdsInv
<1>4. CASE Receive
  BY <1>1, <1>4, FdsReceive DEF FdsInv
<1>5. CASE Deliver
  BY <1>1, <1>5, FdsDeliver DEF FdsInv
<1> QED
  BY <1>2, <1>3, <1>4, <1>5 DEF Next

\* Descriptors go with the first sendmsg of their frame and are kept until a
\* frame is complete: none is handed over twice, and none after its own frame,
\* whoever sends, and also when senders do not take turns.
THEOREM DescriptorsArriveInTime == Spec => []FdsNotLate
<1>1. Init => FdsInv
  <2> SUFFICES ASSUME Init PROVE FdsInv
    OBVIOUS
  <2>1. /\ Len(socket) = 0 /\ Len(buffer) = 0 /\ Len(delivered) = 0 /\ collected = {}
        /\ sent = [s \in Senders |-> 0]
    BY EmptySeq DEF Init
  <2>2. \A i \in 1..0 : FALSE
    OBVIOUS
  <2>3. CarrierInv
    BY <2>1, <2>2 DEF CarrierInv
  <2>4. ArrivalInv
    BY <2>1, <2>2, CarriersAssumption DEF ArrivalInv
  <2> QED
    BY <2>3, <2>4, TypeInit DEF FdsInv
<1>2. FdsInv => FdsNotLate
  <2> SUFFICES ASSUME FdsInv PROVE FdsNotLate
    OBVIOUS
  <2>1. ASSUME NEW s \in Carriers
        PROVE  Cardinality({k \in 1..Len(delivered) : s \in delivered[k].fds}) <= 1
    <3> DEFINE at == {k \in 1..Len(delivered) : s \in delivered[k].fds}
    <3>1. \A k \in at : at = {k}
      BY DEF FdsInv, CarrierInv
    <3>2. Cardinality(at) <= 1
      <4> HIDE DEF at
      <4>1. at = {} => Cardinality(at) = 0
        BY FS_EmptySet
      <4>2. at # {} => Cardinality(at) = 1
        BY <3>1, FS_Singleton
      <4> QED
        BY <4>1, <4>2
    <3> QED
      BY <3>2
  <2>2. \A k \in 1..Len(delivered) :
           LET s == Last(delivered[k].pieces).frame
           IN  s \in Carriers => \E j \in 1..k : s \in delivered[j].fds
    BY DEF FdsInv, ArrivalInv, Last
  <2> QED
    BY <2>1, <2>2 DEF FdsNotLate
<1> QED
  BY <1>1, <1>2, FdsNext, PTL DEF Spec
=============================================================================
