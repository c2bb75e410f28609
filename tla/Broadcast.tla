------------------------------- MODULE Broadcast -------------------------------
(***************************************************************************)
(* The way of a realtime event from broadcast_event over Redis pub/sub to  *)
(* the WebSockets subscribed to its channel.  WebSockets, their queues and *)
(* subscriptions live in the memory of the API process.  The worker is a   *)
(* process of its own: the other service of docker-compose, or the one     *)
(* start.sh puts in the background.                                        *)
(***************************************************************************)
EXTENDS Naturals, Sequences

CONSTANTS
    Conn,           \* WebSocket connections, each opened at most once
    Channel,
    Event,          \* each event is broadcast at most once
    ChannelOf,      \* the channel of each event, a function
    QueueMaxSize    \* QUEUE_MAX_SIZE, messages a connection's queue holds

VARIABLES
    socket,     \* state of each WebSocket
    channels,   \* the channels it is subscribed to
    queue,      \* its queue of messages to send
    published,  \* events handed to Redis
    inbox,      \* what the pub/sub connection of a listener has received
    due         \* pairs of an event and a connection that was subscribed when it was
                \* published, and still is, and has neither been sent it nor missed it
                \* for a full queue

bvars == <<socket, channels, queue, published, inbox, due>>

Process == {"api", "worker"}

\* RealtimeListener is started by the worker, and by nothing else.
Listening == {"worker"}

\* Connections are registered where their handler runs.
ProcessOf(c) == "api"

Subscribers(p, channel) ==
    {c \in Conn : ProcessOf(c) = p /\ socket[c] = "open" /\ channel \in channels[c]}

\* The analyst's client opens its WebSocket; all are subscribed to presence at once,
\* which is a channel like the others here.
Connect(c) ==
    /\ socket[c] = "new"
    /\ socket' = [socket EXCEPT ![c] = "open"]
    /\ UNCHANGED <<channels, queue, published, inbox, due>>

Subscribe(c, channel) ==
    /\ socket[c] = "open" /\ channel \notin channels[c]
    /\ channels' = [channels EXCEPT ![c] = @ \cup {channel}]
    /\ UNCHANGED <<socket, queue, published, inbox, due>>

Unsubscribe(c, channel) ==
    /\ socket[c] = "open" /\ channel \in channels[c]
    /\ channels' = [channels EXCEPT ![c] = @ \ {channel}]
    /\ due' = due \ {<<e, c>> : e \in {d \in Event : ChannelOf[d] = channel}}
    /\ UNCHANGED <<socket, queue, published, inbox>>

\* _cleanup_connection: the queue is deregistered, the subscriptions are removed.
Disconnect(c) ==
    /\ socket[c] = "open"
    /\ socket' = [socket EXCEPT ![c] = "closed"]
    /\ channels' = [channels EXCEPT ![c] = {}]
    /\ queue' = [queue EXCEPT ![c] = << >>]
    /\ due' = due \ {<<e, c>> : e \in Event}
    /\ UNCHANGED <<published, inbox>>

\* PUBLISH tenant:{tid}:realtime:{channel}, from any process. Where it fails the event
\* is logged and gone, as if it had not been broadcast.
BroadcastEvent(e) ==
    /\ e \notin published
    /\ published' = published \cup {e}
    /\ inbox' = [p \in Process |-> IF p \in Listening THEN Append(inbox[p], e) ELSE inbox[p]]
    /\ due' = due \cup {<<e, c>> : c \in UNION {Subscribers(p, ChannelOf[e]) : p \in Process}}
    /\ UNCHANGED <<socket, channels, queue>>

\* deliver_local in the process of the listener; a full queue drops the message.
DeliverLocal(p) ==
    /\ p \in Listening /\ inbox[p] # << >>
    /\ LET e == Head(inbox[p])
           here == Subscribers(p, ChannelOf[e])
           full == {c \in here : Len(queue[c]) >= QueueMaxSize}
       IN  /\ queue' = [c \in Conn |-> IF c \in here \ full THEN Append(queue[c], e) ELSE queue[c]]
           /\ due' = due \ {<<e, c>> : c \in full}
    /\ inbox' = [inbox EXCEPT ![p] = Tail(@)]
    /\ UNCHANGED <<socket, channels, published>>

\* _sender
Send(c) ==
    /\ socket[c] = "open" /\ queue[c] # << >>
    /\ due' = due \ {<<Head(queue[c]), c>>}
    /\ queue' = [queue EXCEPT ![c] = Tail(@)]
    /\ UNCHANGED <<socket, channels, published, inbox>>

BInit ==
    /\ socket = [c \in Conn |-> "new"]
    /\ channels = [c \in Conn |-> {}]
    /\ queue = [c \in Conn |-> << >>]
    /\ published = {}
    /\ inbox = [p \in Process |-> << >>]
    /\ due = {}

BNext ==
    \/ \E c \in Conn :
          \/ Connect(c) \/ Disconnect(c) \/ Send(c)
          \/ \E channel \in Channel : Subscribe(c, channel) \/ Unsubscribe(c, channel)
    \/ \E e \in Event : BroadcastEvent(e)
    \/ \E p \in Process : DeliverLocal(p)

\* The loop of a listener and the sender task of a connection are never stopped while
\* they have something to do.
BFairness ==
    /\ \A p \in Process : WF_bvars(DeliverLocal(p))
    /\ \A c \in Conn : WF_bvars(Send(c))

BSpec == BInit /\ [][BNext]_bvars /\ BFairness

-----------------------------------------------------------------------------
(***************************************************************************)
(* Properties                                                              *)
(***************************************************************************)

\* broadcast_event: "All backend processes (including this one) receive it via their
\* listener": an event is sent to each connection that was subscribed when it was
\* published, unless it has closed, unsubscribed or had a full queue.
BroadcastsArrive ==
    \A e \in Event, c \in Conn : <<e, c>> \in due ~> <<e, c>> \notin due
=============================================================================
