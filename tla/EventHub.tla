------------------------------ MODULE EventHub ------------------------------
(***************************************************************************)
(* WebSocketHub of server/ws.py, for one run: a replay buffer and a queue  *)
(* for each subscriber.  None of its methods awaits, so each is one step   *)
(* of the event loop; LiveRun.tla makes them part of its actions.          *)
(***************************************************************************)
EXTENDS Integers, Sequences

CONSTANTS
    Viewers,       \* the WebSocket connections that may be opened to the run
    BufferSize     \* the ring buffer's maxlen

ASSUME EventHubAssumption == BufferSize \in Nat \ {0}

VARIABLES
    log,           \* history: every event published, in order
    buffer,        \* _buffers[run_id]
    subscribers,   \* _subscribers[run_id]
    queue          \* the queue that subscribe returned to each connection

hub == <<log, buffer, subscribers, queue>>

HubInit ==
    /\ log = <<>>
    /\ buffer = <<>>
    /\ subscribers = {}
    /\ queue = [v \in Viewers |-> <<>>]

\* Mutant of Bounded: a full buffer takes no more events.
BoundedKeepsOldest(b) == IF Len(b) > BufferSize THEN SubSeq(b, 1, BufferSize) ELSE b

\* deque(maxlen): a full deque drops its oldest element.
Bounded(b) == IF Len(b) > BufferSize THEN Tail(b) ELSE b

FanOut(event) ==
    queue' = [v \in Viewers |-> IF v \in subscribers THEN Append(queue[v], event)
                                                     ELSE queue[v]]

\* Mutant of Publish: an event is buffered only if nobody is listening yet.
PublishBuffersWhenAlone(event) ==
    /\ log' = Append(log, event)
    /\ buffer' = IF subscribers = {} THEN Bounded(Append(buffer, event)) ELSE buffer
    /\ FanOut(event)
    /\ UNCHANGED subscribers

Publish(event) ==
    /\ log' = Append(log, event)
    /\ buffer' = Bounded(Append(buffer, event))
    /\ FanOut(event)
    /\ UNCHANGED subscribers

\* subscribe: the backlog is loaded and the queue registered at once.
Subscribe(v) ==
    /\ subscribers' = subscribers \union {v}
    /\ queue' = [queue EXCEPT ![v] = buffer]
    /\ UNCHANGED <<log, buffer>>

\* `await queue.get()` returns; the endpoint may unsubscribe before it awaits again.
Take(v, leaving) ==
    /\ queue[v] # <<>>
    /\ queue' = [queue EXCEPT ![v] = Tail(@)]
    /\ subscribers' = IF leaving THEN subscribers \ {v} ELSE subscribers
    /\ UNCHANGED <<log, buffer>>

-----------------------------------------------------------------------------

IsSuffixOf(s, t) == Len(s) <= Len(t) /\ s = SubSeq(t, Len(t) - Len(s) + 1, Len(t))

HubTypeOK(Events) ==
    /\ log \in Seq(Events)
    /\ buffer \in Seq(Events) /\ Len(buffer) <= BufferSize
    /\ subscribers \subseteq Viewers
    /\ queue \in [Viewers -> Seq(Events)]

\* What a subscriber has still to see is a suffix of what was published, and what
\* the next one will be given is too: a viewer that joins in the middle of a run
\* gets the backlog and the live events without a gap, a repetition or a reordering.
QueueIsSuffix ==
    /\ IsSuffixOf(buffer, log)
    /\ \A v \in subscribers : IsSuffixOf(queue[v], log)
=============================================================================
