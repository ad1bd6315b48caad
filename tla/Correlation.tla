---------------------------- MODULE Correlation ----------------------------
(***************************************************************************)
(* Requests, events and responses over one ipc Connection: the client's     *)
(* table of pending requests, its routing of events by their type and its   *)
(* receive loop (ipc/client.py), and the server's tasks, one per request    *)
(* (ipc/server.py).  Frames arrive whole and in order, which is what module *)
(* Transport is about.  One action is one stretch of code between awaits.   *)
(***************************************************************************)
EXTENDS Naturals, Sequences, SequencesExt, FiniteSets

CONSTANTS
    Requests,     \* calls of Client.request, all on one connection
    EventTypes,   \* the classes of events
    EventsOf,     \* the event types each request declares
    MayRaise,     \* requests whose on_event may be one that raises
    MaxEvents,    \* bound on the events emitted on the connection
    None

ASSUME EventsAssumption == EventsOf \in [Requests -> SUBSET EventTypes]
ASSUME MayRaiseAssumption == MayRaise \subseteq Requests
ASSUME MaxEventsAssumption == MaxEvents \in Nat
ASSUME NoRequestAssumption == None \notin Requests

VARIABLES
    \* Client
    caller,       \* the coroutine that called request()
    future,       \* its future
    pending,      \* Client._pending
    routing,      \* Client._event_routing: the requests of each event type
    receiving,    \* _receive_loop: idle, ended, or the on_event calls to come
    raising,      \* the requests whose on_event raises
    handed,       \* what on_event and on_response were called with
    open,         \* the ends of the connection that are open
    \* the frames in flight
    up, down,
    \* Server
    handler,      \* handle_request of each request
    emitted       \* the events its handler emitted

client == <<caller, future, pending, routing, receiving, handed>>
server == <<handler, emitted>>
vars == <<client, raising, open, up, down, server>>

\* What an event says is known by its number among the events of its handler;
\* the client does not look at it. The frame of an event carries no request id:
\* its "of" serves the properties alone.
Event(r, e, n) == [kind |-> "event", of |-> r, type |-> e, nth |-> n]
Response(r) == [kind |-> "response", of |-> r, type |-> None, nth |-> 0]
Failure(r)  == [kind |-> "failure", of |-> r, type |-> None, nth |-> 0]

Idle  == [state |-> "idle", frame |-> None, todo |-> <<>>]
Ended == [Idle EXCEPT !.state = "ended"]

Init ==
    /\ caller = [r \in Requests |-> "idle"]
    /\ future = [r \in Requests |-> "none"]
    /\ pending = {}
    /\ routing = [e \in EventTypes |-> <<>>]
    /\ receiving = Idle
    /\ raising \in SUBSET MayRaise
    /\ handed = [r \in Requests |-> <<>>]
    /\ open = {"client", "server"}
    /\ up = <<>> /\ down = <<>>
    /\ handler = [r \in Requests |-> "none"]
    /\ emitted = [r \in Requests |-> <<>>]

\* ---- Client.request

RegisterTwice(r) ==
    [e \in EventTypes |-> IF e \in EventsOf[r] THEN routing[e] \o <<r, r>> ELSE routing[e]]
Register(r) ==
    [e \in EventTypes |-> IF e \in EventsOf[r] THEN Append(routing[e], r) ELSE routing[e]]
UnregisterForgotten(r) == routing
\* The code filters the lists; a list holds a request at most once (TypeOK), so
\* that what it filters out is that one entry.
Entry(e, r) == CHOOSE i \in DOMAIN routing[e] : routing[e][i] = r
Unregister(r) ==
    [e \in EventTypes |-> IF \E i \in DOMAIN routing[e] : routing[e][i] = r
                            THEN RemoveAt(routing[e], Entry(e, r)) ELSE routing[e]]

\* The frame is sent; on a closed connection that raises, and the finally
\* clause takes the request out of the routing but not out of _pending.
Request(r) ==
    /\ caller[r] = "idle"
    /\ pending' = pending \cup {r}
    /\ future' = [future EXCEPT ![r] = "pending"]
    /\ IF open = {"client", "server"}
         THEN /\ caller' = [caller EXCEPT ![r] = "waiting"]
              /\ routing' = Register(r)
              /\ up' = Append(up, r)
         ELSE /\ caller' = [caller EXCEPT ![r] = "unsent"]
              /\ UNCHANGED <<routing, up>>
    /\ UNCHANGED <<receiving, handed, open, raising, down, server>>

\* The task of the caller is cancelled while it awaits the future.
Cancel(r) ==
    /\ caller[r] = "waiting"
    /\ future[r] = "pending"
    /\ future' = [future EXCEPT ![r] = "cancelled"]
    /\ UNCHANGED <<caller, pending, routing, receiving, handed, open, raising, up, down,
                   server>>

\* The future is done: request() returns or raises accordingly.
Return(r) ==
    /\ caller[r] = "waiting"
    /\ future[r] # "pending"
    /\ caller' = [caller EXCEPT ![r] = future[r]]
    /\ routing' = Unregister(r)
    /\ UNCHANGED <<future, pending, receiving, handed, open, raising, up, down, server>>

\* ---- Client._receive_loop

Incoming(kind) ==
    /\ receiving = Idle
    /\ "client" \in open
    /\ down # <<>>
    /\ Head(down).kind = kind
    /\ down' = Tail(down)

\* The next on_event call, for a request that is still pending; when it
\* raises, the frame is given up.
Hand(frame, todo) ==
    IF todo = <<>>
      THEN receiving' = Idle /\ UNCHANGED handed
      ELSE LET q == Head(todo)
           IN  /\ handed' = IF q \in pending
                              THEN [handed EXCEPT ![q] = Append(@, frame)] ELSE handed
               /\ receiving' = IF q \in pending \cap raising THEN Idle
                               ELSE [state |-> "events", frame |-> frame, todo |-> Tail(todo)]

\* Events carry no request id: all requests that declare the type get them.
RecipientsFirst(frame) ==
    IF routing[frame.type] = <<>> THEN <<>> ELSE <<Head(routing[frame.type])>>
Recipients(frame) == routing[frame.type]

ReceiveEvent ==
    /\ Incoming("event")
    /\ Hand(Head(down), Recipients(Head(down)))
    /\ UNCHANGED <<caller, future, pending, routing, open, raising, up, server>>

HandOn ==
    /\ receiving.state = "events"
    /\ Hand(receiving.frame, receiving.todo)
    /\ UNCHANGED <<caller, future, pending, routing, open, raising, up, down, server>>

\* A response or an ErrorResponse finds its request by the id it carries.
AnsweredAny(frame) ==
    CHOOSE r \in pending \cup {frame.of} : pending # {} => r \in pending
Answered(frame) == frame.of

PopGet(r) == UNCHANGED pending
Pop(r) == pending' = pending \ {r}

Settle(r, state) ==
    future' = [future EXCEPT ![r] = IF @ = "pending" THEN state ELSE @]

\* on_response only stores the response, in every caller of Client.request:
\* it neither waits nor raises.
ReceiveResponse ==
    /\ Incoming("response")
    /\ LET r == Answered(Head(down))
       IN  IF r \in pending
             THEN /\ Pop(r)
                  /\ handed' = [handed EXCEPT ![r] = Append(@, Head(down))]
                  /\ Settle(r, "result")
             ELSE UNCHANGED <<pending, handed, future>>
    /\ UNCHANGED <<caller, routing, receiving, open, raising, up, server>>

ReceiveFailure ==
    /\ Incoming("failure")
    /\ LET r == Answered(Head(down))
       IN  IF r \in pending
             THEN Pop(r) /\ Settle(r, "failed")
             ELSE UNCHANGED <<pending, future>>
    /\ UNCHANGED <<caller, routing, receiving, handed, open, raising, up, server>>

\* The loop's finally clause: whoever still waits gets ConnectionError.
FinallyForgotten == UNCHANGED <<future, pending, routing>>
Finally ==
    /\ future' = [r \in Requests |->
                    IF r \in pending /\ future[r] = "pending" THEN "closed" ELSE future[r]]
    /\ pending' = {}
    /\ routing' = [e \in EventTypes |-> <<>>]

\* The server's end was closed; frames that were under way may be lost.
ReceiveEnd ==
    /\ receiving = Idle
    /\ "server" \notin open
    /\ Finally
    /\ receiving' = Ended
    /\ down' = <<>>
    /\ UNCHANGED <<caller, handed, open, raising, up, server>>

\* Client.aclose: the loop is cancelled wherever it awaits.
Close ==
    /\ "client" \in open
    /\ open' = open \ {"client"}
    /\ IF receiving = Ended
         THEN UNCHANGED <<future, pending, routing, receiving>>
         ELSE Finally /\ receiving' = Ended
    /\ UNCHANGED <<caller, handed, raising, up, down, server>>

\* ---- Server

\* A task of its own for each request.
Accept ==
    /\ "server" \in open
    /\ up # <<>>
    /\ up' = Tail(up)
    /\ handler' = [handler EXCEPT ![Head(up)] = "running"]
    /\ UNCHANGED <<client, open, raising, down, emitted>>

\* On a closed connection the frame is dropped and a warning is logged.
Send(frame) == down' = IF open = {"client", "server"} THEN Append(down, frame) ELSE down

\* validate_event refuses event types the request does not declare.
Emit(r, e) ==
    /\ handler[r] = "running"
    /\ MapThenSumSet(LAMBDA q : Len(emitted[q]), Requests) < MaxEvents
    /\ e \in EventsOf[r]
    /\ emitted' = [emitted EXCEPT ![r] = Append(@, e)]
    /\ Send(Event(r, e, Len(emitted[r]) + 1))
    /\ UNCHANGED <<client, open, raising, up, handler>>

Respond(r) ==
    /\ handler[r] = "running"
    /\ handler' = [handler EXCEPT ![r] = "returned"]
    /\ Send(Response(r))
    /\ UNCHANGED <<client, open, raising, up, emitted>>

\* The handler, or the validation of what it returned, raises.
Raise(r) ==
    /\ handler[r] = "running"
    /\ handler' = [handler EXCEPT ![r] = "raised"]
    /\ Send(Failure(r))
    /\ UNCHANGED <<client, open, raising, up, emitted>>

\* The server closes its end: the client is gone, or the server stops.
ServerClose ==
    /\ "server" \in open
    /\ open' = open \ {"server"}
    /\ up' = <<>>
    /\ UNCHANGED <<client, raising, down, server>>

\* ---- The specification

Receiving == ReceiveEvent \/ HandOn \/ ReceiveResponse \/ ReceiveFailure \/ ReceiveEnd

Next ==
    \/ \E r \in Requests : Request(r) \/ Cancel(r) \/ Return(r)
    \/ Receiving
    \/ Close
    \/ Accept
    \/ \E r \in Requests, e \in EventTypes : Emit(r, e)
    \/ \E r \in Requests : Respond(r) \/ Raise(r)
    \/ ServerClose

\* Ready coroutines run on both sides and every handler comes to an end.
Fairness ==
    /\ \A r \in Requests : /\ WF_vars(Return(r))
                           /\ WF_vars(Respond(r) \/ Raise(r))
    /\ WF_vars(Receiving)
    /\ WF_vars(Accept)

Spec == Init /\ [][Next]_vars /\ Fairness

\* ---- Properties

Frames == [kind : {"event", "response", "failure"}, of : Requests,
           type : EventTypes \cup {None}, nth : Nat]

\* The tables hold request ids, the wire whole frames.
TypeOK ==
    /\ caller \in [Requests -> {"idle", "waiting", "unsent", "result", "failed", "closed",
                                "cancelled"}]
    /\ future \in [Requests -> {"none", "pending", "result", "failed", "closed", "cancelled"}]
    /\ pending \subseteq Requests
    /\ \A e \in EventTypes : routing[e] \in Seq(Requests) /\ IsInjective(routing[e])
    /\ receiving.state \in {"idle", "events", "ended"}
    /\ receiving.frame \in Frames \cup {None} /\ receiving.todo \in Seq(Requests)
    /\ raising \subseteq MayRaise
    /\ handed \in [Requests -> Seq(Frames)]
    /\ open \subseteq {"client", "server"}
    /\ up \in Seq(Requests) /\ down \in Seq(Frames)
    /\ handler \in [Requests -> {"none", "running", "returned", "raised"}]
    /\ emitted \in [Requests -> Seq(EventTypes)]

\* request() ends the way the handler of that very request ended, however the
\* responses of concurrent requests overtake each other.
AnswerIsOwn ==
    \A r \in Requests :
        /\ caller[r] = "result" => handler[r] = "returned"
        /\ caller[r] = "failed" => handler[r] = "raised"

\* When request() returns, its on_event was called with every event its
\* handler emitted, once and in that order, and with no other event of that
\* handler: events never arrive after the response, and none is lost but to
\* another request whose on_event raises.
OwnCalls(r) == {k \in 1..Len(handed[r]) : handed[r][k].kind = "event" /\ handed[r][k].of = r}
Undisturbed(r) == \A q \in raising \ {r} : EventsOf[q] \cap EventsOf[r] = {}
EventsComplete ==
    \A r \in Requests : caller[r] \in {"result", "failed"} /\ Undisturbed(r) =>
        /\ \A n \in 1..Len(emitted[r]) :
              \E k \in OwnCalls(r) : handed[r][k] = Event(r, emitted[r][n], n)
        /\ \A k \in OwnCalls(r) : handed[r][k].nth \in 1..Len(emitted[r])
        /\ \A j, k \in OwnCalls(r) : j < k => handed[r][j].nth < handed[r][k].nth

\* on_response is the last call of a request's handlers: while the caller has
\* not resumed yet, events of other requests no longer reach them.
ResponseIsLast ==
    \A r \in Requests : \A i \in 1..Len(handed[r]) :
        handed[r][i].kind = "response" => i = Len(handed[r])

\* The routing lists exactly the requests somebody waits for, as long as the
\* receive loop lives: no event is dropped for want of an entry, and none is
\* kept for a caller that has left.
RoutingIsCurrent ==
    receiving # Ended =>
        \A r \in Requests : \A e \in EventsOf[r] :
            (\E i \in 1..Len(routing[e]) : routing[e][i] = r) <=> caller[r] = "waiting"

\* request() ends, at the latest when the connection does.
EveryRequestReturns == \A r \in Requests : caller[r] = "waiting" ~> caller[r] # "waiting"
=============================================================================
