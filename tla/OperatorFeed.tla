---------------------------- MODULE OperatorFeed ----------------------------
(***************************************************************************)
(* The operator's live event feed: one consumer per JetStream stream, a    *)
(* ring of the latest events shared by all of them, and the browsers that  *)
(* follow the feed and name the last event they saw when they reconnect.   *)
(*                                                                         *)
(* Events are numbered in the order in which they are published; an event  *)
(* number stands for its identifier.                                       *)
(***************************************************************************)
EXTENDS Naturals, Sequences, FiniteSets

CONSTANTS
    Source,         \* the streams the feed follows
    Browser,
    RingSize,
    BufSize

ASSUME FeedAssumption == RingSize \in Nat \ {0} /\ BufSize \in Nat \ {0}

VARIABLES
    emitted,    \* how many events have been published
    queue,      \* events each consumer has still to receive
    consuming,  \* the streams whose consumer exists
    feeding,    \* the event each consumer is handling, and where it is with it
    ring,       \* the slots of the ring; 0 is an empty one
    ringIdx,    \* the next slot to write
    ringLen,    \* how many slots hold an event
    history,    \* history: all events in the order appendRing took them
    conn,       \* where the handler of each browser's connection is
    buffer,     \* what each registered handler has still to write
    last,       \* the last event each browser was sent; 0 before the first
    got,        \* history: all events each browser was sent
    warned      \* history: browsers that were told of a gap

feedVars == <<emitted, queue, consuming, feeding, ring, ringIdx, ringLen, history,
              conn, buffer, last, got, warned>>

Idle == [at |-> "idle", event |-> 0]

FeedTypeOK ==
    /\ emitted \in Nat
    /\ queue \in [Source -> Seq(1..emitted)]
    /\ consuming \subseteq Source
    /\ feeding \in [Source -> [at : {"idle", "ring", "broadcast"}, event : 0..emitted]]
    /\ ring \in [0..(RingSize - 1) -> 0..emitted]
    /\ ringIdx \in 0..(RingSize - 1)
    /\ ringLen \in 0..RingSize
    /\ history \in Seq(1..emitted)
    /\ conn \in [Browser -> {"away", "register", "open"}]
    /\ buffer \in [Browser -> Seq(1..emitted)]
    /\ \A b \in Browser : Len(buffer[b]) <= BufSize
    /\ last \in [Browser -> 0..emitted]
    /\ got \in [Browser -> SUBSET (1..emitted)]
    /\ warned \subseteq Browser

FeedInit ==
    /\ emitted = 0
    /\ queue = [s \in Source |-> <<>>]
    /\ consuming = {}
    /\ feeding = [s \in Source |-> Idle]
    /\ ring = [i \in 0..(RingSize - 1) |-> 0]
    /\ ringIdx = 0
    /\ ringLen = 0
    /\ history = <<>>
    /\ conn = [b \in Browser |-> "away"]
    /\ buffer = [b \in Browser |-> <<>>]
    /\ last = [b \in Browser |-> 0]
    /\ got = [b \in Browser |-> {}]
    /\ warned = {}

-----------------------------------------------------------------------------
(* The ring *)

\* Mutant: the last slot is never counted.
AppendShort(e) ==
    /\ ring' = [ring EXCEPT ![ringIdx] = e]
    /\ ringIdx' = (ringIdx + 1) % RingSize
    /\ ringLen' = IF ringLen < RingSize - 1 THEN ringLen + 1 ELSE ringLen

AppendRing(e) ==
    /\ ring' = [ring EXCEPT ![ringIdx] = e]
    /\ ringIdx' = (ringIdx + 1) % RingSize
    /\ ringLen' = IF ringLen < RingSize THEN ringLen + 1 ELSE ringLen

\* The valid slots from the oldest event to the newest.
RingOrder ==
    LET start == IF ringLen = RingSize THEN ringIdx ELSE 0 IN
    [i \in 1..ringLen |-> ring[(start + i - 1) % RingSize]]

Unknown == [found |-> FALSE, events |-> <<>>]
Recovered(events) == [found |-> TRUE, events |-> events]

\* All events after e; an empty ring has no gap.
FindInRing(e) ==
    IF ringLen = 0 THEN Recovered(<<>>)
    ELSE IF \A i \in DOMAIN RingOrder : RingOrder[i] # e THEN Unknown
    ELSE LET at == CHOOSE i \in DOMAIN RingOrder : RingOrder[i] = e IN
         Recovered(SubSeq(RingOrder, at + 1, ringLen))

-----------------------------------------------------------------------------
(* consumeStream: one goroutine per stream *)

\* The stream and the consumer may be missing at first: the goroutine retries,
\* and what is published before the consumer exists is not delivered to it.
CreateConsumer(s) ==
    /\ s \notin consuming
    /\ consuming' = consuming \cup {s}
    /\ UNCHANGED <<emitted, queue, feeding, ring, ringIdx, ringLen, history, conn, buffer,
                   last, got, warned>>

Publish(s) ==
    /\ emitted' = emitted + 1
    /\ queue' = [queue EXCEPT ![s] = IF s \in consuming THEN Append(@, emitted') ELSE @]
    /\ UNCHANGED <<consuming, feeding, ring, ringIdx, ringLen, history, conn, buffer, last,
                   got, warned>>

Receive(s) ==
    /\ feeding[s] = Idle
    /\ queue[s] # <<>>
    /\ feeding' = [feeding EXCEPT ![s] = [at |-> "ring", event |-> Head(queue[s])]]
    /\ queue' = [queue EXCEPT ![s] = Tail(@)]
    /\ UNCHANGED <<emitted, consuming, ring, ringIdx, ringLen, history, conn, buffer, last,
                   got, warned>>

AppendEvent(s) ==
    /\ feeding[s].at = "ring"
    /\ AppendRing(feeding[s].event)
    /\ history' = Append(history, feeding[s].event)
    /\ feeding' = [feeding EXCEPT ![s].at = "broadcast"]
    /\ UNCHANGED <<emitted, queue, consuming, conn, buffer, last, got, warned>>

\* A full buffer loses the event.
BroadcastToSSE(s) ==
    /\ feeding[s].at = "broadcast"
    /\ buffer' = [b \in Browser |->
                     IF conn[b] = "open" /\ Len(buffer[b]) < BufSize
                     THEN Append(buffer[b], feeding[s].event) ELSE buffer[b]]
    /\ feeding' = [feeding EXCEPT ![s] = Idle]
    /\ UNCHANGED <<emitted, queue, consuming, ring, ringIdx, ringLen, history, conn, last,
                   got, warned>>

-----------------------------------------------------------------------------
(* handleEventStream: one handler per connection *)

Show(b, events) ==
    /\ got' = [got EXCEPT ![b] = @ \cup {events[i] : i \in DOMAIN events}]
    /\ last' = [last EXCEPT ![b] = IF events = <<>> THEN @ ELSE events[Len(events)]]

\* The ring is read before the handler is registered for new events.
Connect(b) ==
    /\ conn[b] = "away"
    /\ conn' = [conn EXCEPT ![b] = "register"]
    /\ IF last[b] = 0 THEN UNCHANGED <<got, last, warned>>
       ELSE /\ Show(b, FindInRing(last[b]).events)
            /\ warned' = IF FindInRing(last[b]).found THEN warned ELSE warned \cup {b}
    /\ UNCHANGED <<emitted, queue, consuming, feeding, ring, ringIdx, ringLen, history, buffer>>

RegisterClient(b) ==
    /\ conn[b] = "register"
    /\ conn' = [conn EXCEPT ![b] = "open"]
    /\ UNCHANGED <<emitted, queue, consuming, feeding, ring, ringIdx, ringLen, history, buffer,
                   last, got, warned>>

WriteEvent(b) ==
    /\ conn[b] = "open"
    /\ buffer[b] # <<>>
    /\ Show(b, <<Head(buffer[b])>>)
    /\ buffer' = [buffer EXCEPT ![b] = Tail(@)]
    /\ UNCHANGED <<emitted, queue, consuming, feeding, ring, ringIdx, ringLen, history, conn,
                   warned>>

Disconnect(b) ==
    /\ conn[b] = "open"
    /\ conn' = [conn EXCEPT ![b] = "away"]
    /\ buffer' = [buffer EXCEPT ![b] = <<>>]
    /\ UNCHANGED <<emitted, queue, consuming, feeding, ring, ringIdx, ringLen, history, last,
                   got, warned>>

ConsumeStream(s) ==
    CreateConsumer(s) \/ Receive(s) \/ AppendEvent(s) \/ BroadcastToSSE(s)

HandleEventStream(b) == RegisterClient(b) \/ WriteEvent(b) \/ Disconnect(b)

-----------------------------------------------------------------------------

\* The ring is the recent past: for every event ever appended, findInRing
\* returns exactly the events appended after it, and reports a gap exactly when
\* RingSize or more have been.
RingRecovers ==
    \A i \in DOMAIN history :
        FindInRing(history[i]) =
            IF Len(history) - i < RingSize
            THEN Recovered(SubSeq(history, i + 1, Len(history)))
            ELSE Unknown

=============================================================================
