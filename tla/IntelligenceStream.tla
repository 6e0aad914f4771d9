------------------------- MODULE IntelligenceStream -------------------------
(***************************************************************************)
(* The server-sent event stream of the live intelligence: every subscriber *)
(* has a bounded queue that drops its oldest message when it is full, and  *)
(* starts with a snapshot.  The gateway's event loop runs publish, and a   *)
(* subscription with its snapshot, without awaiting in between.            *)
(***************************************************************************)
EXTENDS Naturals, Sequences, FiniteSets

CONSTANTS
    Subscribers,     \* clients; one may subscribe again after it left
    MaxSubscribers,  \* MAX_STREAM_SUBSCRIBERS
    QueueSize        \* SUBSCRIBER_QUEUE_SIZE

ASSUME StreamAssumption ==
    MaxSubscribers \in Nat \ {0} /\ QueueSize \in Nat \ {0}

VARIABLES
    sequence,    \* _sequence, the id of the last message
    subscribed,  \* clients with a queue in _subscribers
    queue,       \* queue[s]: messages s has not read, oldest first
    view         \* view[s]: the last message or snapshot that s has read

streamVars == <<sequence, subscribed, queue, view>>

\* A message: its id, and the incident it shows as active.
Message(id, incident) == [id |-> id, incident |-> incident]

\* The client has nothing yet, or is told that the stream is full.
Nothing == [id |-> 0, incident |-> "none"]

-----------------------------------------------------------------------------
\* put_nowait into a queue that drops its oldest message when it is full.
Put(q, m) == Append(IF Len(q) >= QueueSize THEN Tail(q) ELSE q, m)

Publish(incident) ==
    /\ sequence' = sequence + 1
    /\ queue' = [s \in Subscribers |->
                   IF s \in subscribed
                   THEN Put(queue[s], Message(sequence + 1, incident))
                   ELSE queue[s]]
    /\ UNCHANGED <<subscribed, view>>

\* The snapshot that a new subscriber reads first.
Snapshot(incident) == Message(sequence, incident)

\* A connection subscribes and reads its snapshot; above the limit it gets an
\* error and nothing changes.
Subscribe(s, incident) ==
    /\ s \notin subscribed
    /\ Cardinality(subscribed) < MaxSubscribers
    /\ subscribed' = subscribed \cup {s}
    /\ queue' = [queue EXCEPT ![s] = <<>>]
    /\ view' = [view EXCEPT ![s] = Snapshot(incident)]
    /\ UNCHANGED sequence

\* The connection sends its oldest message.
Deliver(s) ==
    /\ s \in subscribed
    /\ queue[s] # <<>>
    /\ view' = [view EXCEPT ![s] = Head(queue[s])]
    /\ queue' = [queue EXCEPT ![s] = Tail(@)]
    /\ UNCHANGED <<sequence, subscribed>>

\* The client is gone: unsubscribe.
Disconnect(s) ==
    /\ s \in subscribed
    /\ subscribed' = subscribed \ {s}
    /\ queue' = [queue EXCEPT ![s] = <<>>]
    /\ view' = [view EXCEPT ![s] = Nothing]
    /\ UNCHANGED sequence

StreamInit ==
    /\ sequence = 0
    /\ subscribed = {}
    /\ queue = [s \in Subscribers |-> <<>>]
    /\ view = [s \in Subscribers |-> Nothing]
=============================================================================
