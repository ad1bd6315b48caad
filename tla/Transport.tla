----------------------------- MODULE Transport -----------------------------
(***************************************************************************)
(* One direction of an ipc Connection (ipc/transport.py): send_frame with   *)
(* its partial sends and its single _write_waiter, the stream socket with   *)
(* its ancillary file descriptors, and receive_frame with its buffer.       *)
(*                                                                         *)
(* A frame is known by its sender and cut into pieces of equal size, the    *)
(* last of which carries the delimiter; what a piece says is left out.      *)
(***************************************************************************)
EXTENDS Naturals, Sequences, SequencesExt, FiniteSets

CONSTANTS
    Senders,      \* calls of send_frame, each with a frame of its own
    Length,       \* the pieces of each frame, its delimiter included
    Carriers,     \* the frames that carry file descriptors
    Capacity,     \* the pieces the socket holds
    Chunk,        \* the pieces one recvmsg returns at most
    Exclusive,    \* no send_frame begins while another is under way
    Pipelined,    \* one may begin before the frames sent were received
    None

ASSUME LengthAssumption == Length \in [Senders -> Nat \ {0}]
ASSUME CarriersAssumption == Carriers \subseteq Senders
ASSUME SizeAssumption == Capacity \in Nat \ {0} /\ Chunk \in Nat \ {0}
ASSUME UseAssumption == Exclusive \in BOOLEAN /\ Pipelined \in BOOLEAN

VARIABLES
    pc,           \* send_frame: before, waiting to write, returned
    sent,         \* the pieces of its frame the socket has taken
    waiter,       \* Connection._write_waiter
    writing,      \* add_writer is in force
    woken,        \* waiters whose result is set
    socket,       \* the pieces in flight; "ends" marks the last one of a sendmsg
    buffer,       \* Connection._buffer
    collected,    \* all_fds of the receive_frame under way
    delivered     \* the frames received, with the descriptors handed with them

sending   == <<pc, sent, waiter, writing, woken>>
receiving == <<buffer, collected, delivered>>
vars == <<sending, socket, receiving>>

Init ==
    /\ pc = [s \in Senders |-> "idle"]
    /\ sent = [s \in Senders |-> 0]
    /\ waiter = None /\ writing = FALSE /\ woken = {}
    /\ socket = <<>>
    /\ buffer = <<>> /\ collected = {} /\ delivered = <<>>

Piece(s, i) == [frame |-> s, piece |-> i]
IsLast(p) == p.piece = Length[p.frame]
Segment(s, from, to) ==
    [i \in 1..(to - from + 1) |->
        [frame |-> s, piece |-> from + i - 1, ends |-> from + i - 1 = to]]

Room == Capacity - Len(socket)

\* ---- send_frame

\* sendmsg until everything is sent, or until the socket is full: then the
\* sender takes the one waiter slot and registers its callback. The
\* descriptors go with the first sendmsg that takes a piece.
WaitForgotten(s) == UNCHANGED waiter
Wait(s) == waiter' = s

ResendAll(s) == 1
NextPiece(s) == sent[s] + 1

SendWhatFits(s) ==
    LET from == NextPiece(s)
        left == Length[s] - from + 1
        n == IF Room < left THEN Room ELSE left
    IN  /\ sent' = [sent EXCEPT ![s] = from + n - 1]
        /\ socket' = socket \o Segment(s, from, from + n - 1)
        /\ IF n = left
             THEN pc' = [pc EXCEPT ![s] = "done"]
             ELSE pc' = [pc EXCEPT ![s] = "waiting"]

\* The environment of a connection: who may begin to send, and when.
MayBegin ==
    /\ Exclusive => \A u \in Senders : pc[u] # "waiting"
    /\ ~Pipelined => socket = <<>> /\ buffer = <<>>

BeginSend(s) ==
    /\ pc[s] = "idle"
    /\ MayBegin
    /\ SendWhatFits(s)
    /\ IF pc'[s] = "waiting"
         THEN Wait(s) /\ writing' = TRUE
         ELSE UNCHANGED <<waiter, writing>>
    /\ UNCHANGED <<woken, receiving>>

\* The event loop finds the socket writable: _on_writable wakes whoever is in
\* the waiter slot now, and nobody else.
OnWritable ==
    /\ writing
    /\ Room > 0
    /\ writing' = FALSE
    /\ woken' = woken \cup ({waiter} \ {None})
    /\ UNCHANGED <<pc, sent, waiter, socket, receiving>>

\* _wait_writable returns: its finally clause empties the slot, whoever is in
\* it; then sending goes on.
ResumeSend(s) ==
    /\ pc[s] = "waiting"
    /\ s \in woken
    /\ woken' = woken \ {s}
    /\ SendWhatFits(s)
    /\ IF pc'[s] = "waiting"
         THEN Wait(s) /\ writing' = TRUE
         ELSE waiter' = None /\ UNCHANGED writing
    /\ UNCHANGED receiving

\* ---- The socket and receive_frame

\* The descriptors of a frame are attached to its first piece. One recvmsg
\* reads on until the queue is empty, the chunk is full, or it comes to the
\* end of a segment that brought descriptors.
Brings(p) == p.piece = 1 /\ p.frame \in Carriers
Stops(n) ==
    \/ n = Len(socket)
    \/ n = Chunk
    \/ socket[n].ends /\ \E i \in 1..n : Brings(socket[i])
Reads(n) == Stops(n) /\ \A m \in 1..(n - 1) : ~Stops(m)

HasFrame(pieces) == \E i \in DOMAIN pieces : IsLast(pieces[i])

ExtendReplaces(fds) == fds
Extend(fds) == collected \cup fds

\* recvmsg, when the buffer holds no complete frame.
Receive ==
    /\ ~HasFrame(buffer)
    /\ \E n \in DOMAIN socket :
          /\ Reads(n)
          /\ buffer' = buffer \o [i \in 1..n |-> Piece(socket[i].frame, socket[i].piece)]
          /\ collected' = Extend({s \in Carriers : \E i \in 1..n :
                                       Brings(socket[i]) /\ socket[i].frame = s})
          /\ socket' = SubSeq(socket, n + 1, Len(socket))
    /\ UNCHANGED <<sending, delivered>>

\* NullCharFraming.extract: up to the first delimiter, and what is behind it.
FirstEnd(pieces, i) == IsLast(pieces[i]) /\ \A j \in 1..(i - 1) : ~IsLast(pieces[j])
ExtractKeepsEnd(pieces, i) == <<SubSeq(pieces, 1, i - 1), SubSeq(pieces, i, Len(pieces))>>
Extract(pieces, i) == <<SubSeq(pieces, 1, i), SubSeq(pieces, i + 1, Len(pieces))>>

\* receive_frame returns with all the descriptors it has seen.
Deliver ==
    /\ \E i \in DOMAIN buffer :
          /\ FirstEnd(buffer, i)
          /\ buffer' = Extract(buffer, i)[2]
          /\ delivered' = Append(delivered,
                               [pieces |-> Extract(buffer, i)[1], fds |-> collected])
    /\ collected' = {}
    /\ UNCHANGED <<sending, socket>>

Next ==
    \/ \E s \in Senders : BeginSend(s) \/ ResumeSend(s)
    \/ OnWritable
    \/ Receive
    \/ Deliver

\* The event loop serves whatever is ready; the peer keeps receiving.
Fairness ==
    /\ \A s \in Senders : WF_vars(ResumeSend(s))
    /\ WF_vars(OnWritable)
    /\ WF_vars(Receive)
    /\ WF_vars(Deliver)

Spec == Init /\ [][Next]_vars /\ Fairness

\* ---- Properties

Pieces == [frame : Senders, piece : Nat]

\* The slots of the connection hold what they are declared to hold.
TypeOK ==
    /\ pc \in [Senders -> {"idle", "waiting", "done"}]
    /\ sent \in [Senders -> Nat] /\ \A s \in Senders : sent[s] <= Length[s]
    /\ waiter \in Senders \cup {None}
    /\ writing \in BOOLEAN
    /\ woken \subseteq Senders
    /\ socket \in Seq([frame : Senders, piece : Nat, ends : BOOLEAN])
    /\ Len(socket) <= Capacity
    /\ buffer \in Seq(Pieces)
    /\ collected \subseteq Carriers
    /\ delivered \in Seq([pieces : Seq(Pieces) \ {<<>>}, fds : SUBSET Carriers])

\* Every frame handed to the receiver is one that was sent, whole and in order,
\* however it was cut up on the way.
FramesIntact ==
    \A k \in 1..Len(delivered) :
        LET got == delivered[k].pieces
        IN  \E s \in Senders :
                /\ got = [i \in 1..Length[s] |-> Piece(s, i)]
                /\ \A j \in 1..(k - 1) : delivered[j].pieces # got

\* No descriptor is lost, duplicated or late: once a frame has been handed
\* over, its descriptors have been, with it or with a frame before it.
FdsNotLate ==
    /\ \A s \in Carriers :
          Cardinality({k \in 1..Len(delivered) : s \in delivered[k].fds}) <= 1
    /\ \A k \in 1..Len(delivered) :
          LET s == Last(delivered[k].pieces).frame
          IN  s \in Carriers => \E j \in 1..k : s \in delivered[j].fds

\* A receiver gets with each frame the descriptors sent with it, no others:
\* "the process inherits the client's stdin/stdout/stderr".
FdsBelong ==
    \A k \in 1..Len(delivered) :
        delivered[k].fds = {Last(delivered[k].pieces).frame} \cap Carriers

\* A sender that waits for room is woken and gets done.
EverySendReturns == \A s \in Senders : pc[s] = "waiting" ~> pc[s] = "done"
=============================================================================
