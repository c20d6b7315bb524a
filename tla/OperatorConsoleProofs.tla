------------------------ MODULE OperatorConsoleProofs ------------------------
(***************************************************************************)
(* Safety of what an operator sees, for any scripts, watchers, browsers,   *)
(* streams, sizes and bounds.  What a session counts agrees with what it   *)
(* stored, a stop is effective, and an outcome is final; a browser that    *)
(* follows a session sees everything in order, and the outcome last; the   *)
(* ring of the live feed gives a browser that comes back what it missed.   *)
(*                                                                         *)
(* The sessions' invariant ties the place of a session's goroutine to its  *)
(* state, its counters and its outcome.  Only the goroutine moves them;    *)
(* the operator and the HTTP request can only cancel its context, whenever *)
(* they like.  The watchers' invariant rests on it; the feed's does not.   *)
(***************************************************************************)
EXTENDS OperatorConsole, TLAPS

Working == {"announce", "check", "delay", "publish", "record", "coordinate", "notify",
            "subscribe", "wait"}
Ending == {"announceEnd", "terminate", "done"}

Typed ==
    /\ state \in [Session -> {"none", "pending", "running"} \cup Outcome]
    /\ total \in [Session -> Nat]
    /\ count \in [Session -> Nat]
    /\ stored \in [Session -> Nat]
    /\ overrun \in [Session -> Nat]
    /\ pc \in [Session -> Label]
    /\ terminal \in [Session -> Notification \cup {Unfinished}]
    /\ cancelled \subseteq Session
    /\ asked \subseteq cancelled

\* Where the goroutine is tells the state, and when the outcome is announced.
Located(s) ==
    /\ pc[s] = "idle" <=> state[s] \in {"none", "pending"}
    /\ pc[s] \in Working <=> state[s] = "running"
    /\ pc[s] \in Ending <=> state[s] \in Outcome
    /\ pc[s] = "done" <=> terminal[s] # Unfinished

\* While the goroutine runs, the stream holds what it counted, or one event more
\* that it is about to count; a failed publish may leave such an event behind.
Counted(s) ==
    /\ count[s] <= stored[s] /\ stored[s] <= count[s] + 1
    /\ stored[s] <= total[s]
    /\ pc[s] = "idle" => stored[s] = 0
    /\ pc[s] = "record" => stored[s] = count[s] + 1
    /\ pc[s] \in Working \ {"record"} => stored[s] = count[s]
    /\ pc[s] \in {"delay", "publish"} => count[s] < total[s]
    /\ state[s] = "completed" => count[s] = total[s]

\* After a stop, the event that is being published may still be stored, and then
\* the session is over.
Stopped(s) ==
    /\ s \notin asked => overrun[s] = 0
    /\ pc[s] \notin Ending => overrun[s] = 0
    /\ overrun[s] <= 1

SessionInvariant == Typed /\ \A s \in Session : Located(s) /\ Counted(s) /\ Stopped(s)

\* What OutcomeIsFinal says of one step.
Frozen ==
    \A s \in Session : state[s] \in Outcome =>
        /\ state'[s] = state[s]
        /\ count'[s] = count[s]
        /\ terminal[s] # Unfinished => terminal'[s] = terminal[s]

\* How a step moves the counters: never back, and forward to where the event just
\* counted is shown to the watchers.
Noting == {"coordinate", "notify"}

Forward ==
    \A s \in Session :
        /\ count'[s] >= count[s]
        /\ pc'[s] \in Noting => pc[s] \in Noting \/ count'[s] > count[s]

-----------------------------------------------------------------------------
(* Each step keeps the invariant and what has ended, and moves forward *)

\* A step that leaves everything the invariant reads alone.
LEMMA Untouched ==
    ASSUME SessionInvariant,
           UNCHANGED <<state, total, count, stored, overrun, pc, terminal, cancelled, asked>>
    PROVE  SessionInvariant' /\ Frozen /\ Forward
BY DEF SessionInvariant, Typed, Located, Counted, Stopped, Frozen, Forward, Noting

\* A stop, or the end of the request that started a session, only cancels its context.
LEMMA CancelKeeps ==
    ASSUME SessionInvariant, NEW s \in Session, Cancel(s)
    PROVE  SessionInvariant' /\ Frozen /\ Forward
<1>1. CASE RequestEnds(s)
  BY <1>1 DEF RequestEnds, Known, watcherVars, SessionInvariant, Typed, Located, Counted,
              Stopped, Frozen, Forward, Noting
<1>2. CASE StopSession(s)
  BY <1>2 DEF StopSession, watcherVars, SessionInvariant, Typed, Located, Counted,
              Stopped, Frozen, Forward, Noting
<1> QED
  BY Zenon, <1>1, <1>2 DEF Cancel

\* The handlers that stream to the browsers do not touch a session.
LEMMA StreamKeeps ==
    ASSUME SessionInvariant, NEW c \in Watcher, Stream(c)
    PROVE  SessionInvariant' /\ Frozen /\ Forward
<1>1. UNCHANGED <<state, total, count, stored, overrun, pc, cancelled, asked>>
  BY Zenon DEF Stream, sessionVars
<1>2. UNCHANGED terminal
  BY Zenon DEF Stream, WatchSession, StreamNext, StreamEnds, BrowserLeaves, StreamReturns
<1> QED
  BY Zenon, <1>1, <1>2, Untouched

\* A session starts with nothing counted and nothing stored.
LEMMA StartKeeps ==
    ASSUME SessionInvariant, NEW s \in Session,
           CreateSession(s) \/ StartSession(s) \/ StartScenario(s)
    PROVE  SessionInvariant' /\ Frozen /\ Forward
<1> USE SessionAssumption DEF SetState, Goto, watcherVars, Label, Working, Ending, Outcome,
                              SessionInvariant, Typed, Located, Counted, Stopped, Frozen,
                              Forward, Noting
<1>1. CASE CreateSession(s)
  BY <1>1 DEF CreateSession
<1>2. CASE StartSession(s)
  BY <1>2 DEF StartSession
<1>3. CASE StartScenario(s)
  BY <1>3 DEF StartScenario
<1> QED
  BY Zenon, <1>1, <1>2, <1>3

\* The goroutine of a replay.
LEMMA ReplayKeeps ==
    ASSUME SessionInvariant, NEW s \in Session, RunSession(s)
    PROVE  SessionInvariant' /\ Frozen /\ Forward
<1> USE DEF SetState, Goto, watcherVars, Label, Working, Ending, Outcome,
            SessionInvariant, Typed, Located, Counted, Stopped, Frozen, Forward, Noting
<1>1. CASE AnnounceStart(s)
  BY <1>1 DEF AnnounceStart
<1>2. CASE CheckReplay(s)
  BY <1>2 DEF CheckReplay, ReplayNext
<1>3. CASE DelayReplay(s)
  BY <1>3 DEF DelayReplay
<1>4. CASE PublishReplayedEvent(s)
  BY <1>4 DEF PublishReplayedEvent, Succeeds, Store, NotStored
<1>5. CASE RecordReplayed(s)
  BY <1>5 DEF RecordReplayed
<1>6. CASE BroadcastReplayEvent(s)
  BY <1>6 DEF BroadcastReplayEvent, Broadcast
<1>7. CASE AnnounceReplayEnd(s)
  BY <1>7 DEF AnnounceReplayEnd
<1>8. CASE BroadcastReplayEnd(s)
  BY <1>8 DEF BroadcastReplayEnd, Terminate, Notify, Notification, Unfinished
<1> QED
  BY ONLY Zenon, <1>1, <1>2, <1>3, <1>4, <1>5, <1>6, <1>7, <1>8,
     RunSession(s) DEF RunSession

\* The goroutine of a scenario.
LEMMA ScenarioKeeps ==
    ASSUME SessionInvariant, NEW s \in Session, ExecuteScenario(s)
    PROVE  SessionInvariant' /\ Frozen /\ Forward
<1> USE DEF SetState, Goto, watcherVars, Label, Working, Ending, Outcome,
            SessionInvariant, Typed, Located, Counted, Stopped, Frozen, Forward, Noting
<1>1. CASE AnnounceScenario(s)
  BY <1>1 DEF AnnounceScenario
<1>2. CASE CheckScenario(s)
  BY <1>2 DEF CheckScenario, ScenarioNext
<1>3. CASE DelayScenario(s)
  BY <1>3 DEF DelayScenario
<1>4. CASE Inject(s)
  BY <1>4 DEF Inject, Succeeds, Store, NotStored
<1>5. CASE RecordInjected(s)
  BY <1>5 DEF RecordInjected
<1>6. CASE AnnounceInjected(s)
  BY <1>6 DEF AnnounceInjected
<1>7. CASE BroadcastScenarioEvent(s)
  BY <1>7 DEF BroadcastScenarioEvent, Broadcast
<1>8. CASE CreateConditionConsumer(s)
  BY <1>8 DEF CreateConditionConsumer
<1>9. CASE ConditionMet(s)
  BY <1>9 DEF ConditionMet
<1>10. CASE ConditionFails(s)
  BY <1>10 DEF ConditionFails
<1>11. CASE AnnounceScenarioEnd(s)
  BY <1>11 DEF AnnounceScenarioEnd
<1>12. CASE BroadcastScenarioEnd(s)
  BY <1>12 DEF BroadcastScenarioEnd, Terminate, Notify, Notification, Unfinished
<1> QED
  BY ONLY Zenon, <1>1, <1>2, <1>3, <1>4, <1>5, <1>6, <1>7, <1>8, <1>9, <1>10, <1>11, <1>12,
     ExecuteScenario(s) DEF ExecuteScenario

\* Before any session is created.
LEMMA InvariantStarts == ConsoleInit => SessionInvariant
<1> SUFFICES ASSUME ConsoleInit PROVE SessionInvariant
  BY Zenon
<1>1. Init
  BY Zenon DEF ConsoleInit
<1> QED
  BY <1>1 DEF Init, SessionInit, WatcherInit, SessionInvariant, Typed, Located, Counted,
              Stopped, Label, Working, Ending, Outcome, Notification, Unfinished, Notify

\* Every step of the console keeps the invariant of the sessions.
LEMMA InvariantKept ==
    ASSUME SessionInvariant, [ConsoleNext]_consoleVars
    PROVE  SessionInvariant' /\ Frozen /\ Forward
<1>1. CASE UNCHANGED vars
  BY Zenon, <1>1, Untouched DEF vars
<1>2. ASSUME NEW s \in Session, Simulates(s)
      PROVE  SessionInvariant' /\ Frozen /\ Forward
  BY Zenon, <1>2, StartKeeps, ReplayKeeps, ScenarioKeeps DEF Simulates, ReplayStep
<1>3. ASSUME NEW d \in Definition, CheckName(d) \/ StoreDefinition(d)
      PROVE  SessionInvariant' /\ Frozen /\ Forward
  BY Zenon, <1>3, Untouched DEF CheckName, StoreDefinition, sessionVars, watcherVars
<1>4. ASSUME NEW t \in EventType, InjectEvent(t)
      PROVE  SessionInvariant' /\ Frozen /\ Forward
  BY Zenon, <1>4, Untouched DEF InjectEvent, watcherVars
<1>5. ASSUME NEW s \in Source, OtherEvent(s)
      PROVE  SessionInvariant' /\ Frozen /\ Forward
  BY Zenon, <1>5, Untouched DEF OtherEvent, sessionVars, watcherVars
<1>6. ASSUME NEW b \in Browser, BrowserConnects(b)
      PROVE  SessionInvariant' /\ Frozen /\ Forward
  BY Zenon, <1>6, Untouched DEF BrowserConnects, sessionVars, watcherVars
<1>7. CASE ConsoleNext
  BY Zenon, <1>1, <1>2, <1>3, <1>4, <1>5, <1>6, <1>7, CancelKeeps, StreamKeeps DEF ConsoleNext
<1> QED
  BY Zenon, <1>1, <1>7 DEF consoleVars

-----------------------------------------------------------------------------
(* The theorems *)

\* The invariant of the sessions' goroutines: their place, state, counters and
\* outcome fit together in every reachable state.
THEOREM SessionInvariantHolds == ConsoleSpec => []SessionInvariant
<1>1. ConsoleInit => SessionInvariant
  BY Zenon, InvariantStarts
<1>2. SessionInvariant /\ [ConsoleNext]_consoleVars => SessionInvariant'
  BY Zenon, InvariantKept
<1> QED
  BY <1>1, <1>2, PTL DEF ConsoleSpec

\* ReplayedEvents and InjectedEvents agree with the SIMULATION stream up to the
\* one event that is being published, and a completed session stored them all.
THEOREM CountsCorrect == ConsoleSpec => []CountsStored
<1>1. SessionInvariant => CountsStored
  BY DEF SessionInvariant, Typed, Counted, CountsStored
<1> QED
  BY <1>1, SessionInvariantHolds, PTL

\* A stop StopSession accepted lets at most the event through that is being
\* published; it never makes a session report a completion it did not reach.
THEOREM StopEffective == ConsoleSpec => []StopCutsShort
<1>1. SessionInvariant => StopCutsShort
  BY DEF SessionInvariant, Typed, Counted, Stopped, StopCutsShort
<1> QED
  BY <1>1, SessionInvariantHolds, PTL

\* No step of a goroutine, of StopSession or of the end of a request changes the
\* state, the count or the final notification of a session that has ended.
THEOREM OutcomeFinal == ConsoleSpec => OutcomeIsFinal
<1>1. SessionInvariant /\ [ConsoleNext]_consoleVars => [Frozen]_vars
  BY Zenon, InvariantKept
<1>2. [][Frozen]_vars => OutcomeIsFinal
  BY Zenon DEF Frozen, OutcomeIsFinal
<1> QED
  BY <1>1, <1>2, SessionInvariantHolds, PTL DEF ConsoleSpec

-----------------------------------------------------------------------------
(* Watchers *)

\* One notification may come before another.
Before(m, n) ==
    /\ m.name = "event"
    /\ m.position < n.position \/ (n.name # "event" /\ m.position = n.position)

WatchersTyped ==
    /\ clients \in [Session -> SUBSET Watcher]
    /\ channel \in [Watcher -> Seq(Notification)]
    /\ shown \in [Watcher -> Seq(Notification)]
    /\ closed \subseteq Watcher
    /\ unaware \subseteq closed
    /\ stream \in [Watcher -> {"idle", "open", "over", "left"}]

\* A watcher is in its session's set from the moment its stream opens until its
\* channel is closed; a session that is over has no watchers left.
Placed(c) ==
    /\ \A s \in Session : c \in clients[s] =>
          s = Following[c] /\ stream[c] = "open" /\ c \notin closed
    /\ stream[c] = "open" => c \in clients[Following[c]] \/ c \in closed
    /\ stream[c] = "idle" => channel[c] = <<>> /\ shown[c] = <<>> /\ c \notin closed
    /\ c \in closed => terminal[Following[c]] # Unfinished

Ended(s) ==
    terminal[s] # Unfinished =>
        terminal[s] = Notify(state[s], count[s]) /\ clients[s] = {}

\* What was shown and what is to be shown is in order.
InOrder(c) ==
    /\ \A i, j \in DOMAIN shown[c] : i < j => Before(shown[c][i], shown[c][j])
    /\ \A i, j \in DOMAIN channel[c] : i < j => Before(channel[c][i], channel[c][j])
    /\ \A i \in DOMAIN shown[c], j \in DOMAIN channel[c] : Before(shown[c][i], channel[c][j])

\* A watcher of a session that runs has been told of events only, none of them
\* beyond the count, and not of the one that is about to be shown.
Past(s, n) ==
    /\ n.name = "event"
    /\ n.position <= count[s]
    /\ pc[s] \in Noting => n.position < count[s]

ToldPast(c) ==
    \A s \in Session : c \in clients[s] =>
        /\ \A i \in DOMAIN shown[c] : Past(s, shown[c][i])
        /\ \A i \in DOMAIN channel[c] : Past(s, channel[c][i])

\* The last word to a watcher whose channel is closed is the outcome.
ToldEnd(c) ==
    c \in closed \ unaware /\ stream[c] \in {"open", "over"} =>
        IF channel[c] # <<>>
        THEN channel[c][Len(channel[c])] = terminal[Following[c]]
        ELSE shown[c] # <<>> /\ shown[c][Len(shown[c])] = terminal[Following[c]]

WatcherInvariant ==
    /\ WatchersTyped
    /\ \A s \in Session : Ended(s)
    /\ \A c \in Watcher : Placed(c) /\ InOrder(c) /\ ToldPast(c) /\ ToldEnd(c)

-----------------------------------------------------------------------------
(* Channels *)

\* Channels with nothing and with one notification in them.
LEMMA ShortChannels ==
    ASSUME NEW e
    PROVE  DOMAIN <<>> = {} /\ DOMAIN <<e>> = {1}
OBVIOUS

\* What a send to a channel with room does to it.
LEMMA AppendFacts ==
    ASSUME NEW S, NEW q \in Seq(S), NEW e \in S
    PROVE  /\ Append(q, e) \in Seq(S)
           /\ Append(q, e) # <<>>
           /\ DOMAIN q = 1..Len(q)
           /\ DOMAIN Append(q, e) = 1..(Len(q) + 1)
           /\ Len(Append(q, e)) = Len(q) + 1
           /\ Len(q) \in Nat
           /\ \A i \in 1..Len(q) : Append(q, e)[i] = q[i]
           /\ Append(q, e)[Len(q) + 1] = e
OBVIOUS

\* What a receive leaves.
LEMMA TailFacts ==
    ASSUME NEW S, NEW q \in Seq(S), q # <<>>
    PROVE  /\ Tail(q) \in Seq(S)
           /\ Head(q) = q[1] /\ Head(q) \in S
           /\ DOMAIN q = 1..Len(q)
           /\ DOMAIN Tail(q) = 1..(Len(q) - 1)
           /\ Len(q) \in Nat \ {0}
           /\ Len(Tail(q)) = Len(q) - 1
           /\ Tail(q) = <<>> <=> Len(q) = 1
           /\ \A i \in 1..(Len(q) - 1) : Tail(q)[i] = q[i + 1]
<1>1. Len(q) \in Nat \ {0} /\ DOMAIN q = 1..Len(q)
  OBVIOUS
<1>2. Head(q) = q[1] /\ Head(q) \in S
  BY <1>1
<1>3. Tail(q) \in Seq(S) /\ Len(Tail(q)) = Len(q) - 1
  BY <1>1
<1>4. DOMAIN Tail(q) = 1..(Len(q) - 1)
  BY <1>3
<1>5. \A i \in 1..(Len(q) - 1) : Tail(q)[i] = q[i + 1]
  BY <1>1
<1>6. Tail(q) = <<>> <=> Len(q) = 1
  <2>1. \A t \in Seq(S) : t = <<>> <=> Len(t) = 0
    OBVIOUS
  <2>2. Tail(q) = <<>> <=> Len(Tail(q)) = 0
    BY <1>3, <2>1, Zenon
  <2>3. Len(q) - 1 = 0 <=> Len(q) = 1
    BY <1>1
  <2> QED
    BY <1>3, <2>2, <2>3, Zenon
<1> QED
  BY Zenon, <1>1, <1>2, <1>3, <1>4, <1>5, <1>6

-----------------------------------------------------------------------------
(* Each step keeps the invariant *)

\* Whoever is in a session's set follows it, and has a channel that is open.
LEMMA Follows ==
    ASSUME WatcherInvariant, NEW c \in Watcher, NEW s \in Session, c \in clients[s]
    PROVE  s = Following[c] /\ stream[c] = "open" /\ c \notin closed
BY Zenon DEF WatcherInvariant, Placed

\* The order of what a watcher has been told, in the next state.
LEMMA InOrderNext ==
    ASSUME NEW c
    PROVE  InOrder(c)' <=>
              /\ \A i, j \in DOMAIN shown'[c] : i < j => Before(shown'[c][i], shown'[c][j])
              /\ \A i, j \in DOMAIN channel'[c] : i < j => Before(channel'[c][i], channel'[c][j])
              /\ \A i \in DOMAIN shown'[c], j \in DOMAIN channel'[c] :
                    Before(shown'[c][i], channel'[c][j])
BY Zenon DEF InOrder, Before

\* It stays when nothing is sent and nothing received.
LEMMA OrderStays ==
    ASSUME NEW c, InOrder(c), channel'[c] = channel[c], shown'[c] = shown[c]
    PROVE  InOrder(c)'
BY Zenon, InOrderNext DEF InOrder

\* A step that leaves the watchers alone: the session may go on, and what its
\* watchers were told is still in its past.
LEMMA QuietStep ==
    ASSUME SessionInvariant, SessionInvariant', WatcherInvariant,
           UNCHANGED watcherVars, Frozen, Forward
    PROVE  WatcherInvariant'
<1> USE DEF watcherVars
<1>1. WatchersTyped'
  BY Zenon DEF WatcherInvariant, WatchersTyped
<1>2. \A s \in Session : Ended(s)'
  <2> SUFFICES ASSUME NEW s \in Session
               PROVE  Ended(s)'
    BY Zenon
  <2>1. Ended(s) /\ terminal'[s] = terminal[s] /\ clients'[s] = clients[s]
    BY Zenon DEF WatcherInvariant
  <2>2. terminal[s] # Unfinished => state[s] \in Outcome
    BY Zenon DEF SessionInvariant, Located, Ending
  <2>3. terminal[s] # Unfinished => state'[s] = state[s] /\ count'[s] = count[s]
    BY Zenon, <2>2 DEF Frozen
  <2> QED  BY ONLY Zenon, <2>1, <2>3 DEF Ended
<1>3. ASSUME NEW c \in Watcher
      PROVE  Placed(c)' /\ InOrder(c)' /\ ToldEnd(c)'
  <2>1. Placed(c) /\ InOrder(c) /\ ToldEnd(c)
    BY Zenon DEF WatcherInvariant
  <2>2. Placed(c)'
    BY Zenon, <2>1 DEF Placed
  <2>3. InOrder(c)'
    <3>1. channel' = channel /\ shown' = shown
      BY Zenon
    <3> QED  BY ONLY Zenon, <2>1, <3>1, OrderStays
  <2>4. ToldEnd(c)'
    BY Zenon, <2>1 DEF ToldEnd
  <2> QED  BY Zenon, <2>2, <2>3, <2>4
<1>4. ASSUME NEW c \in Watcher
      PROVE  ToldPast(c)'
  <2> SUFFICES ASSUME NEW s \in Session, c \in clients[s], NEW n \in Notification, Past(s, n)
               PROVE  Past(s, n)'
    BY DEF WatcherInvariant, WatchersTyped, ToldPast
  <2>1. n.position \in Nat /\ count[s] \in Nat /\ count'[s] \in Nat
    BY Zenon DEF Notification, SessionInvariant, Typed, Forward
  <2>2. count'[s] >= count[s] /\ (pc'[s] \in Noting => pc[s] \in Noting \/ count'[s] > count[s])
    BY ONLY Zenon, Forward, s \in Session DEF Forward
  <2> QED
    BY ONLY <2>1, <2>2, Past(s, n) DEF Past
<1> QED
  BY Zenon, <1>1, <1>2, <1>3, <1>4 DEF WatcherInvariant

\* A notification that may follow everything its watchers were told goes to the end
\* of the channels with room, and everything stays in order.
LEMMA Sent ==
    ASSUME WatchersTyped, NEW s \in Session, NEW n \in Notification,
           Offer(clients[s], n), UNCHANGED shown,
           NEW c \in Watcher, InOrder(c),
           c \in clients[s] =>
              /\ \A i \in DOMAIN shown[c] : Before(shown[c][i], n)
              /\ \A i \in DOMAIN channel[c] : Before(channel[c][i], n)
    PROVE  /\ channel'[c] \in Seq(Notification)
           /\ InOrder(c)'
           /\ c \notin clients[s] => channel'[c] = channel[c]
           /\ \A i \in DOMAIN channel'[c] :
                 channel'[c][i] = n \/ \E j \in DOMAIN channel[c] : channel'[c][i] = channel[c][j]
           /\ c \in clients[s] /\ ~Full(c) =>
                 channel'[c] # <<>> /\ channel'[c][Len(channel'[c])] = n
<1>1. channel[c] \in Seq(Notification)
  BY Zenon DEF WatchersTyped
<1>2. CASE c \in clients[s] /\ ~Full(c)
  <2>1. channel'[c] = Append(channel[c], n)
    BY Zenon, <1>2 DEF Offer
  <2> DEFINE q == channel[c]
             r == Append(q, n)
  <2>2. /\ r \in Seq(Notification) /\ r # <<>>
        /\ DOMAIN q = 1..Len(q) /\ DOMAIN r = 1..(Len(q) + 1)
        /\ Len(q) \in Nat /\ Len(r) = Len(q) + 1
        /\ \A i \in 1..Len(q) : r[i] = q[i]
        /\ r[Len(q) + 1] = n
    BY <1>1, AppendFacts
  <2>3. \A i \in DOMAIN r : (i \in DOMAIN q /\ r[i] = q[i]) \/ (i = Len(q) + 1 /\ r[i] = n)
    BY <2>2
  <2>4. \A i, j \in DOMAIN r : i < j => Before(r[i], r[j])
    <3> SUFFICES ASSUME NEW i \in DOMAIN r, NEW j \in DOMAIN r, i < j
                 PROVE  Before(r[i], r[j])
      BY Zenon
    <3>1. i \in DOMAIN q /\ r[i] = q[i]
      BY <2>2, <2>3
    <3> QED
      BY Zenon, <1>2, <2>3, <3>1 DEF InOrder
  <2>5. \A i \in DOMAIN shown[c], j \in DOMAIN r : Before(shown[c][i], r[j])
    BY Zenon, <1>2, <2>3 DEF InOrder
  <2>6. InOrder(c)'
    BY Zenon, <2>1, <2>4, <2>5, InOrderNext DEF InOrder
  <2> QED
    BY Zenon, <1>2, <2>1, <2>2, <2>3, <2>6
<1>3. CASE ~(c \in clients[s] /\ ~Full(c))
  <2>1. channel'[c] = channel[c]
    BY Zenon, <1>3 DEF Offer
  <2>2. InOrder(c)'
    BY Zenon, <2>1, OrderStays
  <2> QED
    BY Zenon, <1>1, <1>3, <2>1, <2>2
<1> QED
  BY Zenon, <1>2, <1>3

\* The event just counted is shown to the session's watchers: none of them has been
\* told of it, or of the outcome.
LEMMA BroadcastStep ==
    ASSUME SessionInvariant, WatcherInvariant, NEW s \in Session,
           pc[s] = "notify", Broadcast(s, Notify("event", count[s])),
           NEW l \in Label \ Noting, pc' = [pc EXCEPT ![s] = l],
           UNCHANGED <<state, count>>
    PROVE  WatcherInvariant'
<1> DEFINE n == Notify("event", count[s])
<1>1. n \in Notification /\ n.name = "event" /\ n.position = count[s] /\ count[s] \in Nat
  BY Zenon DEF Notification, Notify, SessionInvariant, Typed
<1>2. /\ UNCHANGED <<clients, terminal, closed, shown, unaware, stream>>
      /\ Offer(clients[s], n)
      /\ DOMAIN channel' = Watcher
  BY Zenon DEF Broadcast, Offer
<1>3. WatchersTyped /\ \A c \in Watcher : Placed(c) /\ InOrder(c) /\ ToldPast(c) /\ ToldEnd(c)
  BY Zenon DEF WatcherInvariant
<1>4. ASSUME NEW c \in Watcher
      PROVE  /\ channel'[c] \in Seq(Notification)
             /\ InOrder(c)'
             /\ c \notin clients[s] => channel'[c] = channel[c]
             /\ \A i \in DOMAIN channel'[c] :
                   channel'[c][i] = n \/ \E j \in DOMAIN channel[c] : channel'[c][i] = channel[c][j]
  <2>1. c \in clients[s] =>
              /\ \A i \in DOMAIN shown[c] : Before(shown[c][i], n)
              /\ \A i \in DOMAIN channel[c] : Before(channel[c][i], n)
    BY Zenon, <1>1, <1>3 DEF ToldPast, Past, Before, Noting
  <2>2. WatchersTyped /\ InOrder(c) /\ n \in Notification /\ UNCHANGED shown
    BY Zenon, <1>1, <1>2, <1>3
  <2>3. Offer(clients[s], n)
    BY Zenon, <1>2
  <2> HIDE DEF n
  <2> QED
    BY ONLY <2>1, <2>2, <2>3, s \in Session, c \in Watcher, Sent
<1>5. WatchersTyped'
  BY Zenon, <1>2, <1>3, <1>4 DEF WatchersTyped, Broadcast, Offer
<1>6. \A t \in Session : Ended(t)'
  BY Zenon, <1>2 DEF WatcherInvariant, Ended, Notify
<1>7. ASSUME NEW c \in Watcher
      PROVE  Placed(c)' /\ ToldEnd(c)'
  <2>1. c \in clients[s] => stream[c] = "open" /\ c \notin closed
    BY Zenon, Follows
  <2>2. Placed(c) /\ ToldEnd(c) /\ (c \notin clients[s] => channel'[c] = channel[c])
    BY Zenon, <1>3, <1>4
  <2>3. Placed(c)'
    BY Zenon, <1>2, <2>1, <2>2 DEF Placed
  <2>4. ToldEnd(c)'
    BY Zenon, <1>2, <2>1, <2>2 DEF ToldEnd
  <2> QED
    BY Zenon, <2>3, <2>4
<1>8. ASSUME NEW c \in Watcher
      PROVE  ToldPast(c)'
  <2> SUFFICES ASSUME NEW t \in Session, c \in clients[t]
               PROVE  /\ \A i \in DOMAIN shown[c] : Past(t, shown[c][i])'
                      /\ \A i \in DOMAIN channel'[c] : Past(t, channel[c][i])'
    BY Zenon, <1>2 DEF ToldPast
  <2>1. \A m : Past(t, m) => m.name = "event" /\ m.position <= count'[t]
                             /\ (pc'[t] \in Noting => m.position < count'[t])
    BY Zenon DEF Past, SessionInvariant, Typed
  <2>2. \A i \in DOMAIN shown[c] : Past(t, shown[c][i])'
    BY Zenon, <1>2, <1>3, <2>1 DEF ToldPast, Past
  <2>3. ASSUME NEW i \in DOMAIN channel'[c], channel'[c][i] = n
        PROVE  Past(t, channel[c][i])'
    <3>1. t = s \/ (i \in DOMAIN channel[c] /\ channel'[c][i] = channel[c][i])
      <4>1. t # s => c \notin clients[s]
        BY Zenon, Follows
      <4> QED
        BY Zenon, <1>4, <4>1
    <3>2. CASE t = s
      <4>1. pc'[s] \notin Noting /\ count'[s] = count[s] /\ count[s] \in Nat
        BY Zenon DEF SessionInvariant, Typed
      <4> QED
        BY <1>1, <2>3, <3>2, <4>1 DEF Past
    <3>3. CASE i \in DOMAIN channel[c] /\ channel'[c][i] = channel[c][i]
      <4>1. Past(t, channel[c][i])
        BY Zenon, <1>3, <3>3 DEF ToldPast
      <4> QED
        BY Zenon, <2>1, <3>3, <4>1 DEF Past
    <3> QED
      BY Zenon, <3>1, <3>2, <3>3
  <2>4. ASSUME NEW i \in DOMAIN channel'[c], NEW j \in DOMAIN channel[c],
               channel'[c][i] = channel[c][j]
        PROVE  Past(t, channel[c][i])'
    <3>1. Past(t, channel[c][j])
      BY Zenon, <1>3 DEF ToldPast
    <3> QED
      BY Zenon, <2>1, <2>4, <3>1 DEF Past
  <2> QED
    BY Zenon, <1>4, <2>2, <2>3, <2>4
<1> QED
  BY Zenon, <1>3, <1>4, <1>5, <1>6, <1>7, <1>8 DEF WatcherInvariant

\* The outcome goes to every watcher with room for it, after all its events, and
\* their channels are closed.
LEMMA TerminateStep ==
    ASSUME SessionInvariant, WatcherInvariant, NEW s \in Session,
           pc[s] = "terminate", Terminate(s, Notify(state[s], count[s])),
           pc' = [pc EXCEPT ![s] = "done"],
           UNCHANGED <<state, count>>
    PROVE  WatcherInvariant'
<1> DEFINE n == Notify(state[s], count[s])
<1>1. /\ n \in Notification /\ n.name # "event" /\ n.position = count[s]
      /\ count[s] \in Nat /\ n # Unfinished
      /\ terminal[s] = Unfinished
      /\ terminal \in [Session -> Notification \cup {Unfinished}]
  BY Zenon DEF Notification, Notify, Unfinished, SessionInvariant, Typed, Located, Ending, Outcome
<1>2. /\ UNCHANGED <<shown, stream>>
      /\ terminal' = [terminal EXCEPT ![s] = n]
      /\ Offer(clients[s], n)
      /\ DOMAIN channel' = Watcher
      /\ unaware' = unaware \cup {c \in clients[s] : Full(c)}
      /\ closed' = closed \cup clients[s]
      /\ clients' = [clients EXCEPT ![s] = {}]
  BY Zenon DEF Terminate, Offer
<1>3. WatchersTyped /\ \A c \in Watcher : Placed(c) /\ InOrder(c) /\ ToldPast(c) /\ ToldEnd(c)
  BY Zenon DEF WatcherInvariant
<1>4. ASSUME NEW c \in Watcher
      PROVE  /\ channel'[c] \in Seq(Notification)
             /\ InOrder(c)'
             /\ c \notin clients[s] => channel'[c] = channel[c]
             /\ c \in clients[s] /\ ~Full(c) =>
                   channel'[c] # <<>> /\ channel'[c][Len(channel'[c])] = n
  <2>1. c \in clients[s] =>
              /\ \A i \in DOMAIN shown[c] : Before(shown[c][i], n)
              /\ \A i \in DOMAIN channel[c] : Before(channel[c][i], n)
    <3>1. \A m \in Notification : Past(s, m) => Before(m, n)
      <4> SUFFICES ASSUME NEW m \in Notification, Past(s, m)
                   PROVE  Before(m, n)
        BY Zenon
      <4>1. m.position \in Nat
        BY Zenon DEF Notification
      <4> QED
        BY <1>1, <4>1 DEF Past, Before
    <3>2. channel[c] \in Seq(Notification) /\ shown[c] \in Seq(Notification)
      BY Zenon, <1>3 DEF WatchersTyped
    <3>3. \A i \in DOMAIN shown[c] : shown[c][i] \in Notification
      BY <3>2
    <3>4. \A i \in DOMAIN channel[c] : channel[c][i] \in Notification
      BY <3>2
    <3>5. c \in clients[s] => /\ \A i \in DOMAIN shown[c] : Past(s, shown[c][i])
                             /\ \A i \in DOMAIN channel[c] : Past(s, channel[c][i])
      BY Zenon, <1>3 DEF ToldPast
    <3> QED
      BY Zenon, <3>1, <3>3, <3>4, <3>5
  <2>2. WatchersTyped /\ InOrder(c) /\ n \in Notification /\ UNCHANGED shown
    BY Zenon, <1>1, <1>2, <1>3
  <2>3. Offer(clients[s], n)
    BY Zenon, <1>2
  <2> HIDE DEF n
  <2> QED
    BY ONLY <2>1, <2>2, <2>3, s \in Session, c \in Watcher, Sent
<1>5. WatchersTyped'
  <2>1. channel' \in [Watcher -> Seq(Notification)]
    BY Zenon, <1>2, <1>4 DEF Terminate, Offer
  <2> QED
    BY Zenon, <1>2, <1>3, <2>1 DEF WatchersTyped
<1>6. \A t \in Session : Ended(t)'
  BY Zenon, <1>1, <1>2, <1>3 DEF WatcherInvariant, WatchersTyped, Ended, Notify
<1>7. ASSUME NEW c \in Watcher
      PROVE  Placed(c)'
  <2>1. \A t \in Session : c \in clients'[t] => t # s /\ c \in clients[t]
    BY Zenon, <1>2, <1>3 DEF WatchersTyped
  <2>2. \A t \in Session : c \in clients'[t] =>
           t = Following[c] /\ stream'[c] = "open" /\ c \notin closed'
    <3> SUFFICES ASSUME NEW t \in Session, c \in clients'[t]
                 PROVE  t = Following[c] /\ stream'[c] = "open" /\ c \notin closed'
      BY Zenon
    <3>1. t # s /\ t = Following[c] /\ stream[c] = "open" /\ c \notin closed
      BY Zenon, <2>1, Follows
    <3>2. c \notin clients[s]
      BY Zenon, <3>1, Follows
    <3>3. stream' = stream /\ closed' = closed \cup clients[s]
      BY ONLY Zenon, <1>2
    <3> QED  BY ONLY Zenon, <3>1, <3>2, <3>3
  <2>3. stream'[c] = "open" => c \in clients'[Following[c]] \/ c \in closed'
    BY Zenon, <1>2, <1>3, WatcherAssumption DEF Placed, WatchersTyped
  <2>4. stream'[c] = "idle" => channel'[c] = <<>> /\ shown'[c] = <<>> /\ c \notin closed'
    BY Zenon, <1>2, <1>3, <1>4, Follows DEF Placed
  <2>5. c \in closed' => terminal'[Following[c]] # Unfinished
    BY Zenon, <1>1, <1>2, <1>3, Follows, WatcherAssumption DEF Placed
  <2> QED
    BY Zenon, <2>2, <2>3, <2>4, <2>5 DEF Placed
<1>8. ASSUME NEW c \in Watcher
      PROVE  ToldPast(c)'
  <2> SUFFICES ASSUME NEW t \in Session, c \in clients'[t]
               PROVE  /\ \A i \in DOMAIN shown'[c] : Past(t, shown[c][i])'
                      /\ \A i \in DOMAIN channel'[c] : Past(t, channel[c][i])'
    BY Zenon DEF ToldPast
  <2>1. t # s /\ c \in clients[t] /\ c \notin clients[s]
    <3>1. t # s /\ c \in clients[t]
      BY Zenon, <1>2, <1>3 DEF WatchersTyped
    <3> QED
      BY Zenon, <3>1, Follows
  <2>2. pc'[t] = pc[t] /\ count'[t] = count[t] /\ channel'[c] = channel[c] /\ shown'[c] = shown[c]
    BY Zenon, <1>2, <1>4, <2>1 DEF SessionInvariant, Typed
  <2> QED
    BY Zenon, <1>3, <2>1, <2>2 DEF ToldPast, Past
<1>9. ASSUME NEW c \in Watcher
      PROVE  ToldEnd(c)'
  <2>1. CASE c \in clients[s]
    <3>1. Following[c] = s
      BY Zenon, <2>1, Follows
    <3> QED
      BY Zenon, <1>1, <1>2, <1>4, <2>1, <3>1 DEF ToldEnd
  <2>2. CASE c \notin clients[s]
    <3>1. channel'[c] = channel[c] /\ (c \in closed' \ unaware' <=> c \in closed \ unaware)
      BY Zenon, <1>2, <1>4, <2>2
    <3>2. c \in closed => terminal'[Following[c]] = terminal[Following[c]]
      BY Zenon, <1>1, <1>2, <1>3, WatcherAssumption DEF Placed
    <3> QED
      BY Zenon, <1>2, <1>3, <3>1, <3>2 DEF ToldEnd
  <2> QED
    BY Zenon, <2>1, <2>2
<1> QED
  BY Zenon, <1>3, <1>4, <1>5, <1>6, <1>7, <1>8, <1>9 DEF WatcherInvariant

\* A new watcher has been told nothing; if it comes too late, it is told the outcome.
LEMMA WatchStep ==
    ASSUME SessionInvariant, WatcherInvariant, NEW c \in Watcher, WatchSession(c, Known),
           UNCHANGED <<state, count, pc>>
    PROVE  WatcherInvariant'
<1> DEFINE f == Following[c]
<1>1. WatchersTyped /\ \A d \in Watcher : Placed(d) /\ InOrder(d) /\ ToldPast(d) /\ ToldEnd(d)
  BY Zenon DEF WatcherInvariant
<1>2. /\ f \in Session
      /\ channel[c] = <<>> /\ shown[c] = <<>> /\ c \notin closed
      /\ stream[c] = "idle" /\ stream' = [stream EXCEPT ![c] = "open"]
      /\ UNCHANGED <<terminal, shown, unaware>>
  BY Zenon, <1>1, WatcherAssumption DEF WatchSession, Placed
<1>3. CASE terminal[f] = Unfinished
  <2>1. clients' = [clients EXCEPT ![f] = @ \cup {c}] /\ UNCHANGED <<channel, closed>>
    BY Zenon, <1>3 DEF WatchSession, Subscribe
  <2>2. WatchersTyped'
    BY Zenon, <1>1, <1>2, <2>1 DEF WatchersTyped
  <2>3. \A s \in Session : Ended(s)'
    BY Zenon, <1>1, <1>2, <1>3, <2>1 DEF WatcherInvariant, WatchersTyped, Ended, Notify
  <2>4. ASSUME NEW d \in Watcher
        PROVE  Placed(d)'
    <3>1. \A s \in Session : d \in clients'[s] <=> d \in clients[s] \/ (d = c /\ s = f)
      BY Zenon, <1>1, <1>2, <2>1 DEF WatchersTyped
    <3>2. Placed(d) /\ Following[d] \in Session
      BY Zenon, <1>1, WatcherAssumption
    <3>3. stream'[d] = IF d = c THEN "open" ELSE stream[d]
      BY Zenon, <1>1, <1>2 DEF WatchersTyped
    <3> QED
      BY Zenon, <1>2, <2>1, <3>1, <3>2, <3>3 DEF Placed
  <2>5. \A d \in Watcher : InOrder(d)'
    BY Zenon, <1>1, <1>2, <2>1, OrderStays
  <2>6. ASSUME NEW d \in Watcher
        PROVE  ToldPast(d)'
    <3>1. CASE d = c
      BY <1>2, <2>1, <3>1 DEF ToldPast
    <3>2. CASE d # c
      <4>1. ToldPast(d) /\ \A s \in Session : d \in clients'[s] => d \in clients[s]
        BY Zenon, <1>1, <2>1, <3>2 DEF WatchersTyped
      <4> QED
        BY Zenon, <1>2, <2>1, <4>1 DEF ToldPast, Past
    <3> QED
      BY Zenon, <3>1, <3>2
  <2>7. \A d \in Watcher : ToldEnd(d)'
    BY Zenon, <1>1, <1>2, <2>1 DEF WatchersTyped, ToldEnd
  <2> QED
    BY Zenon, <2>2, <2>3, <2>4, <2>5, <2>6, <2>7 DEF WatcherInvariant
<1>4. CASE terminal[f] # Unfinished
  <2>1. /\ channel' = [channel EXCEPT ![c] = <<terminal[f]>>]
        /\ closed' = closed \cup {c} /\ UNCHANGED clients
    BY Zenon, <1>4 DEF WatchSession, Subscribe
  <2>2. terminal[f] \in Notification
    BY Zenon, <1>2, <1>4 DEF SessionInvariant, Typed
  <2>3. WatchersTyped'
    BY <1>1, <1>2, <2>1, <2>2 DEF WatchersTyped
  <2>4. \A s \in Session : Ended(s)'
    BY Zenon, <1>2, <2>1 DEF WatcherInvariant, Ended, Notify
  <2>5. \A s \in Session : c \notin clients[s]
    BY Zenon, <1>1, <1>2 DEF Placed
  <2>6. \A d \in Watcher : Placed(d)'
    BY Zenon, <1>1, <1>2, <1>4, <2>1, <2>5 DEF WatchersTyped, Placed
  <2>7. channel'[c] = <<terminal[f]>> /\ \A d \in Watcher \ {c} : channel'[d] = channel[d]
    BY Zenon, <1>1, <2>1 DEF WatchersTyped
  <2>8. ASSUME NEW d \in Watcher
        PROVE  InOrder(d)'
    <3>1. CASE d = c
      <4>1. shown'[c] = <<>> /\ channel'[c] = <<terminal[f]>>
        BY Zenon, <1>2, <2>7
      <4>2. DOMAIN shown'[c] = {} /\ DOMAIN channel'[c] = {1}
        BY ONLY Zenon, <4>1, ShortChannels
      <4> QED
        BY <3>1, <4>2, InOrderNext
    <3> QED
      BY Zenon, <1>1, <1>2, <2>7, <3>1, OrderStays
  <2>9. ASSUME NEW d \in Watcher
        PROVE  ToldPast(d)'
    <3>1. CASE d = c
      BY Zenon, <2>1, <2>5, <3>1 DEF ToldPast
    <3>2. CASE d # c
      <4>1. ToldPast(d) /\ channel'[d] = channel[d]
        BY Zenon, <1>1, <2>7, <3>2
      <4> QED
        BY Zenon, <1>2, <2>1, <4>1 DEF ToldPast, Past
    <3> QED
      BY Zenon, <3>1, <3>2
  <2>10. \A d \in Watcher : ToldEnd(d)'
    BY Zenon, <1>1, <1>2, <2>1, <2>7 DEF WatchersTyped, ToldEnd
  <2> QED
    BY Zenon, <2>3, <2>4, <2>6, <2>8, <2>9, <2>10 DEF WatcherInvariant
<1> QED
  BY Zenon, <1>3, <1>4

\* The handler writes the oldest notification of its channel to the response.
LEMMA NextStep ==
    ASSUME SessionInvariant, WatcherInvariant, NEW c \in Watcher, StreamNext(c),
           UNCHANGED <<state, count, pc>>
    PROVE  WatcherInvariant'
<1> DEFINE q == channel[c]
           e == shown[c]
           h == Head(q)
           r == Append(e, h)
<1>1. WatchersTyped /\ \A d \in Watcher : Placed(d) /\ InOrder(d) /\ ToldPast(d) /\ ToldEnd(d)
  BY Zenon DEF WatcherInvariant
<1>2. /\ q \in Seq(Notification) /\ q # <<>> /\ e \in Seq(Notification)
      /\ stream[c] = "open"
      /\ UNCHANGED <<clients, terminal, closed, unaware, stream>>
      /\ channel' = [channel EXCEPT ![c] = Tail(q)] /\ channel'[c] = Tail(q)
      /\ shown' = [shown EXCEPT ![c] = r] /\ shown'[c] = r
      /\ \A d \in Watcher \ {c} : channel'[d] = channel[d] /\ shown'[d] = shown[d]
  BY Zenon, <1>1 DEF StreamNext, WatchersTyped
<1> HIDE DEF q, e, h
<1>3. /\ Tail(q) \in Seq(Notification)
      /\ h = q[1] /\ h \in Notification
      /\ DOMAIN q = 1..Len(q) /\ DOMAIN Tail(q) = 1..(Len(q) - 1)
      /\ Len(q) \in Nat \ {0} /\ Len(Tail(q)) = Len(q) - 1
      /\ Tail(q) = <<>> <=> Len(q) = 1
      /\ \A i \in 1..(Len(q) - 1) : Tail(q)[i] = q[i + 1]
  BY <1>2, TailFacts DEF h
<1>4. /\ r \in Seq(Notification) /\ r # <<>>
      /\ DOMAIN e = 1..Len(e) /\ DOMAIN r = 1..(Len(e) + 1)
      /\ Len(r) = Len(e) + 1 /\ Len(e) \in Nat
      /\ \A i \in 1..Len(e) : r[i] = e[i]
      /\ r[Len(e) + 1] = h
  BY <1>2, <1>3, AppendFacts
<1>5. \A i \in DOMAIN Tail(q) : i + 1 \in DOMAIN q /\ 1 < i + 1 /\ Tail(q)[i] = q[i + 1]
  BY <1>3
<1>6. \A i \in DOMAIN r : (i \in DOMAIN e /\ r[i] = e[i]) \/ (i = Len(e) + 1 /\ r[i] = q[1])
  BY <1>3, <1>4
<1>7. 1 \in DOMAIN q
  BY <1>3
<1>8. WatchersTyped'
  BY Zenon, <1>1, <1>2, <1>3, <1>4 DEF WatchersTyped
<1>9. \A s \in Session : Ended(s)'
  BY Zenon, <1>2 DEF WatcherInvariant, Ended, Notify
<1>10. \A d \in Watcher : Placed(d)'
  BY Zenon, <1>1, <1>2 DEF Placed
<1>11. InOrder(c)'
  <2>1. /\ \A i, j \in DOMAIN e : i < j => Before(e[i], e[j])
        /\ \A i, j \in DOMAIN q : i < j => Before(q[i], q[j])
        /\ \A i \in DOMAIN e, j \in DOMAIN q : Before(e[i], q[j])
    BY Zenon, <1>1 DEF InOrder, q, e
  <2>2. \A i, j \in DOMAIN r : i < j => Before(r[i], r[j])
    <3> SUFFICES ASSUME NEW i \in DOMAIN r, NEW j \in DOMAIN r, i < j
                 PROVE  Before(r[i], r[j])
      BY Zenon
    <3>1. i \in DOMAIN e /\ r[i] = e[i]
      <4> HIDE DEF r
      <4>1. i \in 1..(Len(e) + 1) /\ j \in 1..(Len(e) + 1) /\ Len(e) \in Nat
        BY Zenon, <1>4
      <4>2. i \in 1..Len(e)
        BY ONLY <4>1, i < j
      <4> QED  BY Zenon, <1>4, <4>2
    <3> QED
      BY Zenon, <1>6, <1>7, <2>1, <3>1
  <2>3. \A i, j \in DOMAIN Tail(q) : i < j => Before(Tail(q)[i], Tail(q)[j])
    <3> SUFFICES ASSUME NEW i \in DOMAIN Tail(q), NEW j \in DOMAIN Tail(q), i < j
                 PROVE  Before(Tail(q)[i], Tail(q)[j])
      BY Zenon
    <3>1. i + 1 < j + 1
      BY <1>3
    <3> QED
      BY Zenon, <1>5, <2>1, <3>1
  <2>4. \A i \in DOMAIN r, j \in DOMAIN Tail(q) : Before(r[i], Tail(q)[j])
    BY Zenon, <1>5, <1>6, <1>7, <2>1
  <2> QED
    BY Zenon, <1>2, <2>2, <2>3, <2>4, InOrderNext
<1>12. ASSUME NEW d \in Watcher \ {c}
       PROVE  InOrder(d)' /\ ToldPast(d)' /\ ToldEnd(d)'
  <2>1. InOrder(d) /\ ToldPast(d) /\ ToldEnd(d) /\ channel'[d] = channel[d] /\ shown'[d] = shown[d]
    BY Zenon, <1>1, <1>2
  <2>2. InOrder(d)'
    BY Zenon, <2>1, OrderStays
  <2>3. ToldPast(d)'
    BY Zenon, <1>2, <2>1 DEF ToldPast, Past
  <2>4. ToldEnd(d)'
    BY Zenon, <1>2, <2>1 DEF ToldEnd
  <2> QED
    BY Zenon, <2>2, <2>3, <2>4
<1>13. ToldPast(c)'
  <2> SUFFICES ASSUME NEW s \in Session, c \in clients[s]
               PROVE  /\ \A i \in DOMAIN r : Past(s, r[i])
                      /\ \A i \in DOMAIN Tail(q) : Past(s, Tail(q)[i])
    BY Zenon, <1>2 DEF ToldPast, Past
  <2>1. (\A i \in DOMAIN e : Past(s, e[i])) /\ (\A i \in DOMAIN q : Past(s, q[i]))
    BY Zenon, <1>1 DEF ToldPast, q, e
  <2> QED
    BY Zenon, <1>5, <1>6, <1>7, <2>1
<1>14. ToldEnd(c)'
  <2> SUFFICES ASSUME c \in closed \ unaware
               PROVE  IF Tail(q) # <<>> THEN Tail(q)[Len(Tail(q))] = terminal[Following[c]]
                      ELSE r # <<>> /\ r[Len(r)] = terminal[Following[c]]
    BY Zenon, <1>2 DEF ToldEnd
  <2>1. q[Len(q)] = terminal[Following[c]]
    BY Zenon, <1>1, <1>2 DEF ToldEnd, q
  <2>2. CASE Len(q) = 1
    BY Zenon, <1>3, <1>4, <2>1, <2>2
  <2>3. CASE Len(q) # 1
    <3>1. Len(q) - 1 \in DOMAIN Tail(q) /\ Len(q) - 1 + 1 = Len(q)
      BY <1>3, <2>3
    <3>2. Tail(q)[Len(q) - 1] = q[Len(q)]
      BY Zenon, <1>5, <3>1
    <3> QED
      BY Zenon, <1>3, <2>1, <2>3, <3>2
  <2> QED
    BY Zenon, <2>2, <2>3
<1> QED
  BY Zenon, <1>8, <1>9, <1>10, <1>11, <1>12, <1>13, <1>14 DEF WatcherInvariant

\* The handler returns: its watcher is in no set any more.
LEMMA ReturnStep ==
    ASSUME SessionInvariant, WatcherInvariant, NEW c \in Watcher,
           StreamEnds(c) \/ BrowserLeaves(c), UNCHANGED <<state, count, pc>>
    PROVE  WatcherInvariant'
<1>1. WatchersTyped /\ \A d \in Watcher : Placed(d) /\ InOrder(d) /\ ToldPast(d) /\ ToldEnd(d)
  BY Zenon DEF WatcherInvariant
<1>2. PICK how \in {"over", "left"} :
        /\ stream[c] = "open" /\ stream' = [stream EXCEPT ![c] = how]
        /\ how = "over" => c \in closed /\ channel[c] = <<>>
        /\ channel' = [channel EXCEPT ![c] = <<>>]
        /\ clients' = [clients EXCEPT ![Following[c]] = @ \ {c}]
        /\ UNCHANGED <<terminal, closed, shown, unaware>>
  BY Zenon DEF StreamEnds, BrowserLeaves, StreamReturns, Unsubscribe
<1>3. /\ Following[c] \in Session
      /\ stream'[c] = how /\ channel'[c] = <<>>
      /\ \A d \in Watcher \ {c} : stream'[d] = stream[d] /\ channel'[d] = channel[d]
      /\ \A s \in Session : c \notin clients'[s]
      /\ \A s \in Session, d \in Watcher \ {c} : d \in clients'[s] <=> d \in clients[s]
      /\ \A s \in Session : clients[s] = {} => clients'[s] = {}
  BY Zenon, <1>1, <1>2, WatcherAssumption DEF WatchersTyped, Placed
<1>4. WatchersTyped'
  <2>1. channel' \in [Watcher -> Seq(Notification)]
    BY <1>1, <1>2 DEF WatchersTyped
  <2>2. clients' \in [Session -> SUBSET Watcher]
    BY Zenon, <1>1, <1>2 DEF WatchersTyped
  <2>3. stream' \in [Watcher -> {"idle", "open", "over", "left"}]
    BY Zenon, <1>1, <1>2 DEF WatchersTyped
  <2> QED
    BY Zenon, <1>1, <1>2, <2>1, <2>2, <2>3 DEF WatchersTyped
<1>5. \A s \in Session : Ended(s)'
  BY Zenon, <1>2, <1>3 DEF WatcherInvariant, Ended, Notify
<1>6. ASSUME NEW d \in Watcher \ {c}
      PROVE  Placed(d)' /\ InOrder(d)' /\ ToldPast(d)' /\ ToldEnd(d)'
  <2>1. /\ Placed(d) /\ InOrder(d) /\ ToldPast(d) /\ ToldEnd(d)
        /\ channel'[d] = channel[d] /\ shown'[d] = shown[d] /\ Following[d] \in Session
    BY Zenon, <1>1, <1>2, <1>3, WatcherAssumption
  <2>2. Placed(d)'
    BY Zenon, <1>2, <1>3, <2>1 DEF Placed
  <2>3. InOrder(d)'
    BY Zenon, <2>1, OrderStays
  <2>4. ToldPast(d)'
    <3>1. \A s \in Session : d \in clients'[s] => d \in clients[s]
      BY Zenon, <1>3
    <3> QED
      BY Zenon, <2>1, <3>1 DEF ToldPast, Past
  <2>5. ToldEnd(d)'
    BY Zenon, <1>2, <1>3, <2>1 DEF ToldEnd
  <2> QED
    BY Zenon, <2>2, <2>3, <2>4, <2>5
<1>7. Placed(c)'
  BY Zenon, <1>1, <1>2, <1>3 DEF Placed
<1>8. InOrder(c)'
  <2>1. InOrder(c) /\ shown'[c] = shown[c] /\ channel'[c] = <<>>
    BY Zenon, <1>1, <1>2, <1>3
  <2>2. DOMAIN channel'[c] = {}
    BY ONLY Zenon, <2>1, ShortChannels
  <2> QED
    BY Zenon, <2>1, <2>2, InOrderNext DEF InOrder
<1>9. ToldPast(c)'
  BY Zenon, <1>3 DEF ToldPast
<1>10. ToldEnd(c)'
  BY Zenon, <1>1, <1>2, <1>3 DEF ToldEnd
<1> QED
  BY Zenon, <1>4, <1>5, <1>6, <1>7, <1>8, <1>9, <1>10 DEF WatcherInvariant

-----------------------------------------------------------------------------
(* The invariant *)

\* Of a session's own steps only the two broadcasts touch the watchers.
LEMMA SessionStepKeepsWatchers ==
    ASSUME SessionInvariant, SessionInvariant', Frozen, Forward, WatcherInvariant,
           NEW s \in Session,
           \/ CreateSession(s) \/ StartSession(s) \/ RunSession(s)
           \/ StartScenario(s) \/ ExecuteScenario(s)
    PROVE  WatcherInvariant'
<1>1. CASE UNCHANGED watcherVars
  BY Zenon, <1>1, QuietStep
<1>2. CASE BroadcastReplayEvent(s)
  BY Zenon, <1>2, BroadcastStep DEF BroadcastReplayEvent, Goto, Label, Noting
<1>3. CASE BroadcastScenarioEvent(s)
  <2> DEFINE l == IF Done(s).expects = "none" THEN "check" ELSE "subscribe"
  <2>1. l \in Label \ Noting
    BY Zenon DEF Label, Noting
  <2> QED
    BY Zenon, <1>3, <2>1, BroadcastStep DEF BroadcastScenarioEvent, Goto
<1>4. CASE BroadcastReplayEnd(s) \/ BroadcastScenarioEnd(s)
  BY Zenon, <1>4, TerminateStep DEF BroadcastReplayEnd, BroadcastScenarioEnd, Goto
<1>5. CASE CreateSession(s) \/ StartSession(s) \/ StartScenario(s)
  BY Zenon, <1>1, <1>5 DEF CreateSession, StartSession, StartScenario
<1>6. CASE RunSession(s)
  BY Zenon, <1>1, <1>2, <1>4, <1>6
     DEF RunSession, AnnounceStart, CheckReplay, DelayReplay, PublishReplayedEvent,
         RecordReplayed, AnnounceReplayEnd
<1>7. CASE ExecuteScenario(s)
  BY Zenon, <1>1, <1>3, <1>4, <1>7
     DEF ExecuteScenario, AnnounceScenario, CheckScenario, DelayScenario, Inject,
         RecordInjected, AnnounceInjected, CreateConditionConsumer, ConditionMet,
         ConditionFails, AnnounceScenarioEnd
<1> QED
  BY Zenon, <1>5, <1>6, <1>7

\* Every step of the console keeps the invariant of the watchers.
LEMMA WatchersKept ==
    ASSUME SessionInvariant, WatcherInvariant, [ConsoleNext]_consoleVars
    PROVE  WatcherInvariant'
<1>1. SessionInvariant' /\ Frozen /\ Forward
  BY Zenon, InvariantKept
<1>2. CASE UNCHANGED watcherVars
  BY Zenon, <1>1, <1>2, QuietStep
<1>3. ASSUME NEW s \in Session, Simulates(s)
      PROVE  WatcherInvariant'
  BY Zenon, <1>1, <1>3, SessionStepKeepsWatchers DEF Simulates, ReplayStep
<1>4. ASSUME NEW c \in Watcher, Stream(c)
      PROVE  WatcherInvariant'
  <2>1. UNCHANGED <<state, count, pc>>
    BY Zenon, <1>4 DEF Stream, sessionVars
  <2> QED
    BY Zenon, <1>4, <2>1, WatchStep, NextStep, ReturnStep DEF Stream
<1>5. CASE UNCHANGED vars
  BY Zenon, <1>2, <1>5 DEF vars, watcherVars
<1>6. ASSUME NEW d \in Definition, CheckName(d) \/ StoreDefinition(d)
      PROVE  WatcherInvariant'
  BY Zenon, <1>2, <1>6 DEF CheckName, StoreDefinition
<1>7. ASSUME NEW t \in EventType, InjectEvent(t)
      PROVE  WatcherInvariant'
  BY Zenon, <1>2, <1>7 DEF InjectEvent
<1>8. ASSUME NEW s \in Session, Cancel(s)
      PROVE  WatcherInvariant'
  BY Zenon, <1>2, <1>8 DEF Cancel, RequestEnds, StopSession
<1>9. ASSUME NEW s \in Source, OtherEvent(s)
      PROVE  WatcherInvariant'
  BY Zenon, <1>2, <1>9 DEF OtherEvent
<1>10. ASSUME NEW b \in Browser, BrowserConnects(b)
       PROVE  WatcherInvariant'
  BY Zenon, <1>2, <1>10 DEF BrowserConnects
<1>11. CASE ConsoleNext
  BY Zenon, <1>3, <1>4, <1>5, <1>6, <1>7, <1>8, <1>9, <1>10, <1>11 DEF ConsoleNext
<1> QED
  BY Zenon, <1>5, <1>11 DEF consoleVars

-----------------------------------------------------------------------------
(* The theorems *)

\* What the watchers of a session were told, and what waits in their channels, fits
\* the session's count, state and outcome in every reachable state.
THEOREM WatcherInvariantHolds == ConsoleSpec => []WatcherInvariant
<1>1. ConsoleInit => WatcherInvariant
  <2> SUFFICES ASSUME ConsoleInit
               PROVE  WatcherInvariant
    BY Zenon
  <2>1. WatcherInit
    BY Zenon DEF ConsoleInit, Init
  <2>2. WatchersTyped
    BY <2>1 DEF WatcherInit, WatchersTyped
  <2>3. \A s \in Session : Ended(s)
    BY Zenon, <2>1 DEF WatcherInit, Ended
  <2>4. ASSUME NEW c \in Watcher
        PROVE  Placed(c) /\ InOrder(c) /\ ToldPast(c) /\ ToldEnd(c)
    <3>1. channel[c] = <<>> /\ shown[c] = <<>> /\ stream[c] = "idle" /\ closed = {}
      BY Zenon, <2>1 DEF WatcherInit
    <3>2. \A s \in Session : c \notin clients[s]
      BY Zenon, <2>1 DEF WatcherInit
    <3>3. DOMAIN shown[c] = {} /\ DOMAIN channel[c] = {}
      BY ONLY Zenon, <3>1, ShortChannels
    <3> QED
      BY Zenon, <3>1, <3>2, <3>3 DEF Placed, InOrder, ToldPast, ToldEnd
  <2> QED
    BY Zenon, <2>2, <2>3, <2>4 DEF WatcherInvariant
<1>2. SessionInvariant /\ WatcherInvariant /\ [ConsoleNext]_consoleVars => WatcherInvariant'
  BY Zenon, WatchersKept
<1> QED
  BY <1>1, <1>2, SessionInvariantHolds, PTL DEF ConsoleSpec

\* Whatever a full channel made broadcast drop, a browser sees the positions of a
\* session grow, and nothing after its outcome.
THEOREM WatchersSeeOrder == ConsoleSpec => []ShownInOrder
<1>1. WatcherInvariant => ShownInOrder
  BY Zenon DEF WatcherInvariant, InOrder, Before, ShownInOrder
<1> QED
  BY <1>1, WatcherInvariantHolds, PTL

\* A browser that stays is told how its session ended, unless its channel had no
\* room at that moment: terminate and subscribe leave no gap between them.
THEOREM WatchersLearnOutcome == ConsoleSpec => []EndIsTold
<1>1. SessionInvariant /\ WatcherInvariant => EndIsTold
  <2> SUFFICES ASSUME SessionInvariant, WatcherInvariant,
                      NEW c \in closed \ unaware, stream[c] \in {"open", "over"}
               PROVE  LET told == shown[c] \o channel[c] IN
                      /\ told # <<>>
                      /\ told[Len(told)] = Notify(state[Following[c]], count[Following[c]])
    BY Zenon DEF EndIsTold
  <2> DEFINE q == channel[c]
             e == shown[c]
             told == e \o q
  <2>1. /\ c \in Watcher /\ q \in Seq(Notification) /\ e \in Seq(Notification)
        /\ Following[c] \in Session
    BY Zenon, WatcherAssumption DEF WatcherInvariant, WatchersTyped
  <2>2. terminal[Following[c]] = Notify(state[Following[c]], count[Following[c]])
    BY Zenon, <2>1 DEF WatcherInvariant, Placed, Ended
  <2>3. IF q # <<>> THEN q[Len(q)] = terminal[Following[c]]
        ELSE e # <<>> /\ e[Len(e)] = terminal[Following[c]]
    BY Zenon, <2>1 DEF WatcherInvariant, ToldEnd
  <2> HIDE DEF q, e
  <2>4. CASE q # <<>>
    <3>0. q \in Seq(Notification) /\ e \in Seq(Notification)
      BY Zenon, <2>1
    <3>1. Len(q) \in Nat \ {0} /\ Len(e) \in Nat
      BY ONLY <2>4, <3>0
    <3>2. Len(told) = Len(e) + Len(q) /\ told[Len(e) + Len(q)] = q[Len(q)] /\ told # <<>>
      BY <2>1, <3>1
    <3> QED
      BY Zenon, <2>2, <2>3, <2>4, <3>2 DEF q, e
  <2>5. CASE q = <<>>
    <3>1. told = e
      BY <2>1, <2>5
    <3> QED
      BY Zenon, <2>2, <2>3, <2>5, <3>1 DEF q, e
  <2> QED
    BY Zenon, <2>4, <2>5
<1> QED
  BY <1>1, SessionInvariantHolds, WatcherInvariantHolds, PTL

-----------------------------------------------------------------------------
(* The feed *)

\* Where an event of the feed is: still to be received, being appended, or in the
\* history of the ring.
Waits(s, e) == \E k \in DOMAIN queue[s] : queue[s][k] = e
Handles(s, e) == feeding[s].at = "ring" /\ feeding[s].event = e
Kept(e) == \E i \in DOMAIN history : history[i] = e

\* No event is in two places, nor twice in one: only then does an event's number
\* name one slot of the ring.
Distinct ==
    /\ \A s \in Source : \A j, k \in DOMAIN queue[s] : queue[s][j] = queue[s][k] => j = k
    /\ \A s, t \in Source : \A e :
          (Waits(s, e) \/ Handles(s, e)) /\ (Waits(t, e) \/ Handles(t, e)) => s = t
    /\ \A s \in Source : \A e : ~(Waits(s, e) /\ Handles(s, e))
    /\ \A s \in Source : \A e : Waits(s, e) \/ Handles(s, e) => ~Kept(e)
    /\ \A i, j \in DOMAIN history : history[i] = history[j] => i = j

\* The slot written k events before the latest one.
Slot(k) == IF k < ringIdx THEN ringIdx - 1 - k ELSE ringIdx - 1 - k + RingSize

\* The ring holds the end of its history, going back from the next slot to write.
RingHolds ==
    /\ ringLen = IF Len(history) < RingSize THEN Len(history) ELSE RingSize
    /\ ringLen < RingSize => ringIdx = ringLen
    /\ \A k \in Nat : k < ringLen => ring[Slot(k)] = history[Len(history) - k]

FeedInvariant ==
    /\ FeedTypeOK
    /\ \A s \in Source : feeding[s].at # "idle" => feeding[s].event # 0
    /\ Distinct
    /\ RingHolds

-----------------------------------------------------------------------------
(* The ring *)

\* Sequences of the same length and elements, and a part of a sequence.
LEMMA SameSeq ==
    ASSUME NEW S, NEW s \in Seq(S), NEW t \in Seq(S), Len(s) = Len(t),
           \A j \in 1..Len(s) : s[j] = t[j]
    PROVE  s = t
<1>1. s = [j \in 1..Len(s) |-> s[j]] /\ t = [j \in 1..Len(t) |-> t[j]]
  OBVIOUS
<1> QED
  BY Zenon, <1>1

LEMMA PartOf ==
    ASSUME NEW S, NEW s \in Seq(S), NEW k \in 0..Len(s)
    PROVE  /\ SubSeq(s, k + 1, Len(s)) \in Seq(S)
           /\ Len(SubSeq(s, k + 1, Len(s))) = Len(s) - k
           /\ \A j \in 1..(Len(s) - k) : SubSeq(s, k + 1, Len(s))[j] = s[k + j]
OBVIOUS

LEMMA Tabled ==
    ASSUME NEW S, NEW n \in Nat, NEW f \in [1..n -> S]
    PROVE  f \in Seq(S) /\ Len(f) = n
OBVIOUS

LEMMA Element ==
    ASSUME NEW S, NEW s \in Seq(S), NEW k \in 1..Len(s)
    PROVE  s[k] \in S
OBVIOUS

\* appendRing writes the slot of the oldest event when the ring is full, and every
\* other event is one further back.
LEMMA RingAppends ==
    ASSUME FeedInvariant, NEW e \in 1..emitted, AppendRing(e), history' = Append(history, e)
    PROVE  RingHolds' /\ ring' \in [0..(RingSize - 1) -> 0..emitted]
           /\ ringIdx' \in 0..(RingSize - 1) /\ ringLen' \in 0..RingSize
<1>1. /\ RingSize \in Nat \ {0} /\ ringIdx \in 0..(RingSize - 1) /\ ringLen \in 0..RingSize
      /\ ring \in [0..(RingSize - 1) -> 0..emitted] /\ emitted \in Nat
      /\ history \in Seq(1..emitted)
  BY Zenon, FeedAssumption DEF FeedInvariant, FeedTypeOK
<1>2. /\ history' = Append(history, e)
      /\ Len(history) \in Nat /\ Len(history') = Len(history) + 1
      /\ \A i \in 1..Len(history) : history'[i] = history[i]
      /\ history'[Len(history) + 1] = e
  BY ONLY <1>1, AppendFacts, history' = Append(history, e), e \in 1..emitted
<1>3. ringIdx' = IF ringIdx + 1 = RingSize THEN 0 ELSE ringIdx + 1
  <2>1. RingSize \in Nat \ {0} /\ ringIdx \in 0..(RingSize - 1)
    BY Zenon, <1>1
  <2>2. (ringIdx + 1) % RingSize =
            IF ringIdx + 1 < RingSize THEN ringIdx + 1 ELSE ringIdx + 1 - RingSize
    BY ONLY <2>1
  <2>3. ringIdx' = (ringIdx + 1) % RingSize
    BY Zenon DEF AppendRing
  <2> QED
    BY ONLY <1>1, <2>2, <2>3
<1>4. ringLen' = IF ringLen < RingSize THEN ringLen + 1 ELSE ringLen
  BY Zenon DEF AppendRing
<1>5. \A i \in 0..(RingSize - 1) : ring'[i] = IF i = ringIdx THEN e ELSE ring[i]
  BY Zenon, <1>1 DEF AppendRing
<1>6. /\ ringLen = IF Len(history) < RingSize THEN Len(history) ELSE RingSize
      /\ ringLen < RingSize => ringIdx = ringLen
      /\ \A k \in Nat : k < ringLen => ring[Slot(k)] = history[Len(history) - k]
  BY Zenon DEF FeedInvariant, RingHolds
<1>7. /\ ringLen' = IF Len(history') < RingSize THEN Len(history') ELSE RingSize
      /\ ringLen' < RingSize => ringIdx' = ringLen'
  BY ONLY <1>1, <1>2, <1>3, <1>4, <1>6
<1>8. ASSUME NEW k \in Nat, k < ringLen'
      PROVE  ring'[Slot(k)'] = history'[Len(history') - k]
  <2>1. CASE k = 0
    <3>1. Slot(k)' = ringIdx /\ ringIdx \in 0..(RingSize - 1)
      BY ONLY <1>1, <1>3, <2>1 DEF Slot
    <3>2. Len(history') - k = Len(history) + 1
      BY ONLY <1>2, <2>1
    <3> QED
      BY Zenon, <1>2, <1>5, <3>1, <3>2
  <2>2. CASE k # 0
    <3>1. /\ k - 1 \in Nat /\ k - 1 < ringLen
          /\ Slot(k)' = Slot(k - 1)
          /\ Slot(k - 1) \in 0..(RingSize - 1) /\ Slot(k - 1) # ringIdx
      BY ONLY <1>1, <1>3, <1>4, <1>8, <2>2 DEF Slot
    <3>2. ring'[Slot(k)'] = history[Len(history) - (k - 1)]
      BY ONLY Zenon, <1>5, <1>6, <3>1
    <3>3. /\ Len(history) - (k - 1) = Len(history') - k
          /\ Len(history') - k \in 1..Len(history)
      BY ONLY <1>1, <1>2, <1>4, <1>6, <1>8, <2>2
    <3> QED
      BY ONLY Zenon, <1>2, <3>2, <3>3
  <2> QED
    BY Zenon, <2>1, <2>2
<1>9. ring' \in [0..(RingSize - 1) -> 0..emitted]
  BY <1>1 DEF AppendRing
<1>10. ringIdx' \in 0..(RingSize - 1) /\ ringLen' \in 0..RingSize
  BY ONLY <1>1, <1>3, <1>4
<1>11. RingHolds'
  BY ONLY Zenon, <1>7, <1>8 DEF RingHolds
<1> QED
  BY ONLY Zenon, <1>9, <1>10, <1>11

\* From the oldest event to the newest, the ring is the end of the history.
LEMMA OrderIsHistory ==
    ASSUME FeedInvariant
    PROVE  /\ RingOrder \in Seq(1..emitted)
           /\ Len(RingOrder) = ringLen
           /\ \A i \in 1..ringLen : RingOrder[i] = history[Len(history) - ringLen + i]
           /\ ringLen \in Nat /\ ringLen <= Len(history)
<1>1. /\ RingSize \in Nat \ {0} /\ ringIdx \in 0..(RingSize - 1) /\ ringLen \in 0..RingSize
      /\ history \in Seq(1..emitted)
  BY Zenon, FeedAssumption DEF FeedInvariant, FeedTypeOK
<1>2. /\ ringLen = IF Len(history) < RingSize THEN Len(history) ELSE RingSize
      /\ ringLen < RingSize => ringIdx = ringLen
      /\ \A k \in Nat : k < ringLen => ring[Slot(k)] = history[Len(history) - k]
  BY Zenon DEF FeedInvariant, RingHolds
<1>3. Len(history) \in Nat /\ ringLen \in Nat /\ ringLen <= Len(history)
  BY ONLY <1>1, <1>2
<1> DEFINE start == IF ringLen = RingSize THEN ringIdx ELSE 0
<1>4. ASSUME NEW i \in 1..ringLen
      PROVE  (start + i - 1) % RingSize = Slot(ringLen - i)
  <2>1. RingSize \in Nat \ {0} /\ ringIdx \in 0..(RingSize - 1) /\ i \in 1..RingSize
    BY <1>1
  <2>2. CASE ringLen = RingSize
    <3>1. (ringIdx + i - 1) % RingSize =
              IF ringIdx + i - 1 < RingSize THEN ringIdx + i - 1 ELSE ringIdx + i - 1 - RingSize
      BY ONLY <2>1
    <3>2. Slot(ringLen - i) =
              IF ringIdx + i - 1 < RingSize THEN ringIdx + i - 1 ELSE ringIdx + i - 1 - RingSize
      BY ONLY <2>1, <2>2 DEF Slot
    <3> QED
      BY ONLY Zenon, <2>2, <3>1, <3>2
  <2>3. CASE ringLen # RingSize
    <3>1. ringIdx = ringLen /\ ringLen \in Nat
      BY ONLY Zenon, <1>1, <1>2, <1>3, <2>3
    <3>2. Slot(ringLen - i) = i - 1
      BY ONLY <2>1, <3>1, i \in 1..ringLen DEF Slot
    <3>3. (0 + i - 1) % RingSize = i - 1
      BY ONLY <2>1
    <3> QED
      BY ONLY Zenon, <2>3, <3>2, <3>3
  <2> QED
    BY ONLY Zenon, <2>2, <2>3
<1>5. RingOrder = [i \in 1..ringLen |-> ring[(start + i - 1) % RingSize]]
  BY Zenon DEF RingOrder
<1> HIDE DEF start
<1>6. ASSUME NEW i \in 1..ringLen
      PROVE  /\ RingOrder[i] = history[Len(history) - ringLen + i]
             /\ RingOrder[i] \in 1..emitted
  <2>1. RingOrder[i] = ring[Slot(ringLen - i)]
    BY ONLY Zenon, <1>4, <1>5, i \in 1..ringLen
  <2>2. /\ ringLen - i \in Nat /\ ringLen - i < ringLen
        /\ Len(history) - (ringLen - i) = Len(history) - ringLen + i
        /\ Len(history) - ringLen + i \in 1..Len(history)
    BY ONLY <1>3, i \in 1..ringLen
  <2>3. RingOrder[i] = history[Len(history) - ringLen + i]
    BY ONLY Zenon, <1>2, <2>1, <2>2
  <2>4. history \in Seq(1..emitted)
    BY Zenon, <1>1
  <2>5. history[Len(history) - ringLen + i] \in 1..emitted
    BY ONLY Zenon, <2>2, <2>4, Element
  <2> QED
    BY ONLY Zenon, <2>3, <2>5
<1>7. RingOrder \in [1..ringLen -> 1..emitted]
  BY ONLY Zenon, <1>5, <1>6
<1>8. RingOrder \in Seq(1..emitted) /\ Len(RingOrder) = ringLen
  BY ONLY Zenon, <1>3, <1>7, Tabled
<1> QED
  BY ONLY Zenon, <1>3, <1>6, <1>8

\* What findInRing finds is in the history, whatever identifier a browser names.
LEMMA FoundTyped ==
    ASSUME FeedInvariant, NEW e
    PROVE  FindInRing(e).events \in Seq(1..emitted)
<1>1. RingOrder \in Seq(1..emitted) /\ Len(RingOrder) = ringLen
  BY Zenon, OrderIsHistory
<1>2. CASE ringLen = 0 \/ \A i \in DOMAIN RingOrder : RingOrder[i] # e
  <2>1. FindInRing(e).events = <<>>
    BY Zenon, <1>2 DEF FindInRing, Recovered, Unknown
  <2> QED
    BY ONLY <2>1
<1>3. CASE ringLen # 0 /\ \E i \in DOMAIN RingOrder : RingOrder[i] = e
  <2> DEFINE at == CHOOSE i \in DOMAIN RingOrder : RingOrder[i] = e
  <2>1. at \in DOMAIN RingOrder
    BY Zenon, <1>3
  <2>2. FindInRing(e).events = SubSeq(RingOrder, at + 1, ringLen)
    BY Zenon, <1>3 DEF FindInRing, Recovered
  <2> HIDE DEF at
  <2>3. at \in 0..Len(RingOrder)
    BY ONLY <1>1, <2>1
  <2> QED
    BY ONLY Zenon, <1>1, <2>2, <2>3, PartOf
<1> QED
  BY ONLY Zenon, <1>2, <1>3

\* A sequence o is the end of a sequence h without repetitions, and no longer than
\* r; after the element at i comes the same in both, unless r or more do.
EndOf(h, o, r) ==
    /\ Len(h) < r => Len(o) = Len(h)
    /\ r <= Len(h) => Len(o) = r
    /\ \A j \in 1..Len(o) : o[j] = h[Len(h) - Len(o) + j]
    /\ \A j, k \in 1..Len(h) : h[j] = h[k] => j = k

Recovers(h, o, r, i) ==
    /\ Len(h) - i < r => \E a \in 1..Len(o) : o[a] = h[i]
    /\ \A a \in 1..Len(o) : o[a] = h[i] =>
          /\ Len(h) - i < r
          /\ SubSeq(o, a + 1, Len(o)) = SubSeq(h, i + 1, Len(h))

LEMMA EndOfHistory ==
    ASSUME NEW S, NEW h \in Seq(S), NEW o \in Seq(S), NEW r \in Nat \ {0}, EndOf(h, o, r),
           NEW i \in 1..Len(h)
    PROVE  Recovers(h, o, r, i)
<1> USE DEF EndOf
<1>1. Len(h) \in Nat /\ Len(o) \in Nat /\ Len(o) <= Len(h) /\ Len(o) <= r
  OBVIOUS
<1>2. ASSUME Len(h) - i < r
      PROVE  \E a \in 1..Len(o) : o[a] = h[i]
  <2>1. i - (Len(h) - Len(o)) \in 1..Len(o) /\ Len(h) - Len(o) + (i - (Len(h) - Len(o))) = i
    BY ONLY <1>1, <1>2, i \in 1..Len(h), r \in Nat \ {0},
       EndOf(h, o, r)
  <2> QED
    BY Zenon, <2>1
<1>3. ASSUME NEW a \in 1..Len(o), o[a] = h[i]
      PROVE  Len(h) - i < r /\ SubSeq(o, a + 1, Len(o)) = SubSeq(h, i + 1, Len(h))
  <2>1. Len(h) - Len(o) + a \in 1..Len(h)
    BY <1>1
  <2>2. Len(h) - Len(o) + a = i
    BY Zenon, <1>3, <2>1
  <2>3. Len(h) - i < r /\ Len(o) - a = Len(h) - i
    BY <1>1, <2>2
  <2> DEFINE x == SubSeq(o, a + 1, Len(o))
             y == SubSeq(h, i + 1, Len(h))
  <2>4. x \in Seq(S) /\ Len(x) = Len(o) - a /\ \A j \in 1..(Len(o) - a) : x[j] = o[a + j]
    BY <1>1
  <2>5. y \in Seq(S) /\ Len(y) = Len(h) - i /\ \A j \in 1..(Len(h) - i) : y[j] = h[i + j]
    BY <1>1
  <2> HIDE DEF x, y
  <2>6. ASSUME NEW j \in 1..(Len(o) - a)
        PROVE  x[j] = y[j]
    <3>1. a + j \in 1..Len(o) /\ Len(h) - Len(o) + (a + j) = i + j
      BY ONLY <1>1, <2>2, a \in 1..Len(o), j \in 1..(Len(o) - a), i \in 1..Len(h)
    <3>2. o[a + j] = h[i + j]
      BY Zenon, <3>1
    <3> QED
      BY Zenon, <2>3, <2>4, <2>5, <3>2
  <2>7. x = y
    <3>1. Len(x) = Len(y) /\ \A j \in 1..Len(x) : x[j] = y[j]
      BY ONLY Zenon, <2>3, <2>4, <2>5, <2>6
    <3> QED
      BY ONLY Zenon, <2>4, <2>5, <3>1, SameSeq
  <2> QED
    BY Zenon, <2>3, <2>7 DEF x, y
<1> QED
  BY Zenon, <1>2, <1>3 DEF Recovers

LEMMA RingIsRecent == FeedInvariant => RingRecovers
<1> SUFFICES ASSUME FeedInvariant, NEW i \in DOMAIN history
             PROVE  FindInRing(history[i]) =
                        IF Len(history) - i < RingSize
                        THEN Recovered(SubSeq(history, i + 1, Len(history)))
                        ELSE Unknown
  BY Zenon DEF RingRecovers
<1> DEFINE h == history
           o == RingOrder
<1>1. /\ RingSize \in Nat \ {0} /\ h \in Seq(1..emitted)
      /\ ringLen = IF Len(h) < RingSize THEN Len(h) ELSE RingSize
      /\ \A j, k \in DOMAIN h : h[j] = h[k] => j = k
  BY Zenon, FeedAssumption DEF FeedInvariant, FeedTypeOK, RingHolds, Distinct
<1>2. /\ o \in Seq(1..emitted) /\ Len(o) = ringLen
      /\ \A j \in 1..Len(o) : o[j] = h[Len(h) - Len(o) + j]
      /\ ringLen \in Nat
  BY Zenon, OrderIsHistory
<1>3. /\ DOMAIN h = 1..Len(h) /\ DOMAIN o = 1..Len(o) /\ i \in 1..Len(h) /\ ringLen # 0
  BY ONLY <1>1, <1>2, i \in DOMAIN history
<1> HIDE DEF h, o
<1>4. \A j, k \in 1..Len(h) : h[j] = h[k] => j = k
  BY ONLY Zenon, <1>1, <1>3
<1>5. Len(h) < RingSize => Len(o) = Len(h)
  BY ONLY Zenon, <1>1, <1>2
<1>6. RingSize <= Len(h) => Len(o) = RingSize
  <2>1. h \in Seq(1..emitted) /\ RingSize \in Nat
    BY Zenon, <1>1
  <2>2. ~(Len(h) < RingSize) => Len(o) = RingSize
    BY ONLY Zenon, <1>1, <1>2
  <2> QED
    BY ONLY <2>1, <2>2
<1>7. /\ RingSize \in Nat \ {0} /\ h \in Seq(1..emitted) /\ o \in Seq(1..emitted)
       /\ i \in 1..Len(h) /\ \A j \in 1..Len(o) : o[j] = h[Len(h) - Len(o) + j]
  BY ONLY Zenon, <1>1, <1>2, <1>3
<1>8. Recovers(h, o, RingSize, i)
  <2>1. EndOf(h, o, RingSize)
    BY ONLY Zenon, <1>4, <1>5, <1>6, <1>7 DEF EndOf
  <2> QED
    BY ONLY Zenon, <1>7, <2>1, EndOfHistory
<1> DEFINE at == CHOOSE j \in DOMAIN o : o[j] = h[i]
<1>9. FindInRing(h[i]) =
          IF \A j \in DOMAIN o : o[j] # h[i] THEN Unknown
          ELSE Recovered(SubSeq(o, at + 1, Len(o)))
  BY ONLY <1>2, <1>3 DEF FindInRing, o
<1>10. CASE Len(h) - i < RingSize
  <2>1. at \in 1..Len(o) /\ o[at] = h[i]
    BY ONLY Zenon, <1>3, <1>8, <1>10 DEF Recovers
  <2> HIDE DEF at
  <2>2. SubSeq(o, at + 1, Len(o)) = SubSeq(h, i + 1, Len(h))
    BY ONLY Zenon, <1>8, <2>1 DEF Recovers
  <2>3. ~ \A j \in DOMAIN o : o[j] # h[i]
    BY ONLY Zenon, <1>3, <2>1
  <2>4. FindInRing(h[i]) = Recovered(SubSeq(h, i + 1, Len(h)))
    BY ONLY Zenon, <1>9, <2>2, <2>3
  <2> QED
    BY ONLY Zenon, <1>10, <2>4 DEF h
<1>11. CASE ~(Len(h) - i < RingSize)
  <2>1. \A j \in DOMAIN o : o[j] # h[i]
    BY ONLY Zenon, <1>3, <1>8, <1>11 DEF Recovers
  <2>2. FindInRing(h[i]) = Unknown
    BY ONLY Zenon, <1>9, <2>1
  <2> QED
    BY ONLY Zenon, <1>11, <2>2 DEF h
<1> QED
  BY ONLY Zenon, <1>10, <1>11

-----------------------------------------------------------------------------
(* Each step of the feed keeps its invariant *)

\* What the steps of a browser's handler leave alone.
feedCore == <<emitted, queue, feeding, ring, ringIdx, ringLen, history>>

HandlerTyped ==
    /\ consuming \subseteq Source
    /\ conn \in [Browser -> {"away", "register", "open"}]
    /\ buffer \in [Browser -> Seq(1..emitted)]
    /\ \A b \in Browser : Len(buffer[b]) <= BufSize
    /\ last \in [Browser -> 0..emitted]
    /\ got \in [Browser -> SUBSET (1..emitted)]
    /\ warned \subseteq Browser

CoreTyped ==
    /\ emitted \in Nat
    /\ queue \in [Source -> Seq(1..emitted)]
    /\ feeding \in [Source -> [at : {"idle", "ring", "broadcast"}, event : 0..emitted]]
    /\ ring \in [0..(RingSize - 1) -> 0..emitted]
    /\ ringIdx \in 0..(RingSize - 1)
    /\ ringLen \in 0..RingSize
    /\ history \in Seq(1..emitted)
    /\ \A s \in Source : feeding[s].at # "idle" => feeding[s].event # 0

LEMMA FeedParts == FeedInvariant <=> CoreTyped /\ HandlerTyped /\ Distinct /\ RingHolds
BY Zenon DEF FeedInvariant, FeedTypeOK, CoreTyped, HandlerTyped

LEMMA CoreUntouched ==
    ASSUME FeedInvariant, UNCHANGED feedCore, HandlerTyped'
    PROVE  FeedInvariant'
<1>1. CoreTyped' /\ Distinct' /\ RingHolds'
  BY FeedParts DEF feedCore, CoreTyped, Distinct, RingHolds, Waits, Handles, Kept, Slot
<1> QED
  BY Zenon, <1>1 DEF FeedInvariant, FeedTypeOK, CoreTyped, HandlerTyped

\* What a browser is sent are events of the feed.
LEMMA ShownTyped ==
    ASSUME FeedInvariant, NEW b \in Browser, NEW events \in Seq(1..emitted), Show(b, events)
    PROVE  got' \in [Browser -> SUBSET (1..emitted)] /\ last' \in [Browser -> 0..emitted]
<1>1. /\ got \in [Browser -> SUBSET (1..emitted)] /\ last \in [Browser -> 0..emitted]
      /\ emitted \in Nat
  BY Zenon DEF FeedInvariant, FeedTypeOK
<1>2. {events[i] : i \in DOMAIN events} \subseteq 1..emitted
  <2>1. DOMAIN events = 1..Len(events)
    OBVIOUS
  <2>2. \A i \in DOMAIN events : events[i] \in 1..emitted
    BY ONLY Zenon, events \in Seq(1..emitted), <2>1, Element
  <2> QED
    BY ONLY Zenon, <2>2
<1>3. events # <<>> => events[Len(events)] \in 0..emitted
  BY <1>1
<1> QED
  BY Zenon, <1>1, <1>2, <1>3 DEF Show

LEMMA HandlerSteps ==
    ASSUME FeedInvariant, NEW b \in Browser, Connect(b) \/ HandleEventStream(b)
    PROVE  FeedInvariant'
<1>0. HandlerTyped /\ BufSize \in Nat
  BY Zenon, FeedParts, FeedAssumption
<1>1. CASE Connect(b)
  <2>1. got' \in [Browser -> SUBSET (1..emitted)] /\ last' \in [Browser -> 0..emitted]
    <3>1. CASE last[b] = 0
      BY Zenon, <1>0, <1>1, <3>1 DEF Connect, HandlerTyped
    <3>2. CASE last[b] # 0
      <4>1. Show(b, FindInRing(last[b]).events)
        BY Zenon, <1>1, <3>2 DEF Connect
      <4> QED
        BY Zenon, <4>1, FoundTyped, ShownTyped
    <3> QED
      BY Zenon, <3>1, <3>2
  <2>2. warned' \subseteq Browser
    BY Zenon, <1>0, <1>1 DEF Connect, HandlerTyped
  <2>3. conn' \in [Browser -> {"away", "register", "open"}]
    BY Zenon, <1>0, <1>1 DEF Connect, HandlerTyped
  <2>4. UNCHANGED feedCore /\ UNCHANGED <<consuming, buffer>>
    BY Zenon, <1>1 DEF Connect, feedCore
  <2>5. HandlerTyped'
    BY Zenon, <1>0, <2>1, <2>2, <2>3, <2>4 DEF HandlerTyped, feedCore
  <2> QED
    BY Zenon, <2>4, <2>5, CoreUntouched
<1>2. CASE RegisterClient(b)
  <2>1. UNCHANGED feedCore /\ HandlerTyped'
    BY Zenon, <1>0, <1>2 DEF RegisterClient, HandlerTyped, feedCore
  <2> QED
    BY Zenon, <2>1, CoreUntouched
<1>3. CASE WriteEvent(b)
  <2>1. buffer[b] \in Seq(1..emitted) /\ buffer[b] # <<>>
    BY Zenon, <1>0, <1>3 DEF WriteEvent, HandlerTyped
  <2>2. /\ Tail(buffer[b]) \in Seq(1..emitted) /\ Len(Tail(buffer[b])) = Len(buffer[b]) - 1
        /\ Head(buffer[b]) \in 1..emitted /\ Len(buffer[b]) \in Nat
    BY Zenon, <2>1, TailFacts
  <2>3. <<Head(buffer[b])>> \in Seq(1..emitted)
    BY ONLY <2>2
  <2>4. Show(b, <<Head(buffer[b])>>)
    BY Zenon, <1>3 DEF WriteEvent
  <2>5. got' \in [Browser -> SUBSET (1..emitted)] /\ last' \in [Browser -> 0..emitted]
    BY Zenon, <2>3, <2>4, ShownTyped
  <2>6. /\ buffer' = [buffer EXCEPT ![b] = Tail(buffer[b])]
        /\ UNCHANGED feedCore /\ UNCHANGED <<consuming, conn, warned>>
    BY Zenon, <1>3 DEF WriteEvent, feedCore
  <2>7. /\ buffer' \in [Browser -> Seq(1..emitted)]
        /\ \A c \in Browser : Len(buffer'[c]) <= BufSize
    <3>1. /\ buffer \in [Browser -> Seq(1..emitted)]
          /\ \A c \in Browser : Len(buffer[c]) <= BufSize
      BY Zenon, <1>0 DEF HandlerTyped
    <3>2. Len(Tail(buffer[b])) <= BufSize
      BY ONLY <1>0, <2>2, <3>1, b \in Browser
    <3> QED
      BY ONLY Zenon, <2>2, <2>6, <3>1, <3>2
  <2>8. HandlerTyped'
    BY Zenon, <1>0, <2>5, <2>6, <2>7 DEF HandlerTyped, feedCore
  <2> QED
    BY Zenon, <2>6, <2>8, CoreUntouched
<1>4. CASE Disconnect(b)
  <2>1. UNCHANGED feedCore /\ HandlerTyped'
    BY <1>0, <1>4 DEF Disconnect, HandlerTyped, feedCore
  <2> QED
    BY Zenon, <2>1, CoreUntouched
<1> QED
  BY Zenon, <1>1, <1>2, <1>3, <1>4 DEF HandleEventStream

\* A consumer's first step.
LEMMA ConsumerCreated ==
    ASSUME FeedInvariant, NEW s \in Source, CreateConsumer(s)
    PROVE  FeedInvariant'
<1>1. HandlerTyped
  BY Zenon, FeedParts
<1>2. UNCHANGED feedCore /\ HandlerTyped'
  BY Zenon, <1>1 DEF CreateConsumer, HandlerTyped, feedCore
<1> QED
  BY Zenon, <1>2, CoreUntouched

\* A sequence of events stays one when another event is published.
LEMMA Wider ==
    ASSUME NEW n \in Nat, NEW q \in Seq(1..n)
    PROVE  q \in Seq(1..(n + 1))
OBVIOUS

LEMMA Published ==
    ASSUME FeedInvariant, NEW s \in Source, Publish(s)
    PROVE  FeedInvariant'
<1>0. CoreTyped /\ HandlerTyped /\ Distinct /\ RingHolds
  BY Zenon, FeedParts
<1>1. /\ emitted' = emitted + 1 /\ emitted \in Nat
      /\ queue' = [queue EXCEPT ![s] = IF s \in consuming THEN Append(@, emitted + 1) ELSE @]
      /\ UNCHANGED <<consuming, feeding, ring, ringIdx, ringLen, history, conn, buffer, last,
                     got, warned>>
  BY Zenon, <1>0 DEF Publish, CoreTyped
<1>2. \A q \in Seq(1..emitted) : q \in Seq(1..emitted')
  BY ONLY Zenon, <1>1, Wider
<1>3. HandlerTyped'
  <2>1. /\ buffer \in [Browser -> Seq(1..emitted)] /\ last \in [Browser -> 0..emitted]
        /\ got \in [Browser -> SUBSET (1..emitted)]
    BY Zenon, <1>0 DEF HandlerTyped
  <2>2. buffer \in [Browser -> Seq(1..emitted')]
    BY ONLY Zenon, <1>2, <2>1
  <2>3. last \in [Browser -> 0..emitted']
    BY ONLY <1>1, <2>1
  <2>4. got \in [Browser -> SUBSET (1..emitted')]
    BY ONLY <1>1, <2>1
  <2> QED
    BY Zenon, <1>0, <1>1, <2>2, <2>3, <2>4 DEF HandlerTyped
<1>4. CoreTyped'
  <2>1. queue \in [Source -> Seq(1..emitted)] /\ history \in Seq(1..emitted)
    BY Zenon, <1>0 DEF CoreTyped
  <2>2. queue[s] \in Seq(1..emitted') /\ history \in Seq(1..emitted')
    BY ONLY Zenon, <1>2, <2>1, s \in Source
  <2>3. Append(queue[s], emitted + 1) \in Seq(1..emitted')
    BY ONLY <1>1, <2>2
  <2>4. queue' \in [Source -> Seq(1..emitted')]
    BY ONLY Zenon, <1>1, <1>2, <2>1, <2>2, <2>3
  <2>5. feeding \in [Source -> [at : {"idle", "ring", "broadcast"}, event : 0..emitted']]
    BY <1>0, <1>1 DEF CoreTyped
  <2>6. ring \in [0..(RingSize - 1) -> 0..emitted']
    BY <1>0, <1>1 DEF CoreTyped
  <2> QED
    BY <1>0, <1>1, <2>2, <2>4, <2>5, <2>6 DEF CoreTyped
<1>5. RingHolds'
  BY Zenon, <1>0, <1>1 DEF RingHolds, Slot
<1>6. \A t \in Source : ~Waits(t, emitted + 1) /\ ~Handles(t, emitted + 1)
  BY <1>0, <1>1 DEF CoreTyped, Waits, Handles
<1>7. ~Kept(emitted + 1)
  BY <1>0, <1>1 DEF CoreTyped, Kept
<1>8. \A t \in Source : \A e : Waits(t, e)' => Waits(t, e) \/ (t = s /\ e = emitted + 1)
  <2> SUFFICES ASSUME NEW t \in Source, NEW e, Waits(t, e)'
               PROVE  Waits(t, e) \/ (t = s /\ e = emitted + 1)
    BY Zenon
  <2>1. queue \in [Source -> Seq(1..emitted)]
    BY Zenon, <1>0 DEF CoreTyped
  <2>2. CASE t = s /\ s \in consuming
    <3>1. queue'[t] = Append(queue[t], emitted + 1) /\ queue[t] \in Seq(1..emitted)
      BY Zenon, <1>1, <2>1, <2>2
    <3>2. PICK k \in DOMAIN queue'[t] : queue'[t][k] = e
      BY Zenon DEF Waits
    <3> QED
      BY <2>2, <3>1, <3>2 DEF Waits
  <2>3. CASE ~(t = s /\ s \in consuming)
    <3>1. queue'[t] = queue[t]
      BY Zenon, <1>1, <2>1, <2>3
    <3> QED
      BY ONLY Zenon, <3>1, Waits(t, e)' DEF Waits
  <2> QED
    BY Zenon, <2>2, <2>3
<1>9. \A t \in Source : \A j, k \in DOMAIN queue'[t] : queue'[t][j] = queue'[t][k] => j = k
  <2> SUFFICES ASSUME NEW t \in Source
               PROVE  \A j, k \in DOMAIN queue'[t] : queue'[t][j] = queue'[t][k] => j = k
    BY Zenon
  <2>1. /\ queue \in [Source -> Seq(1..emitted)]
        /\ \A j, k \in DOMAIN queue[t] : queue[t][j] = queue[t][k] => j = k
    BY Zenon, <1>0 DEF CoreTyped, Distinct
  <2>2. CASE t = s /\ s \in consuming
    <3>1. queue'[t] = Append(queue[t], emitted + 1) /\ queue[t] \in Seq(1..emitted)
      BY Zenon, <1>1, <2>1, <2>2
    <3> QED
      BY <1>1, <2>1, <3>1
  <2>3. CASE ~(t = s /\ s \in consuming)
    <3>1. queue'[t] = queue[t]
      BY Zenon, <1>1, <2>1, <2>3
    <3> QED
      BY Zenon, <2>1, <3>1
  <2> QED
    BY Zenon, <2>2, <2>3
<1>10. Distinct'
  <2>1. \A t \in Source : \A e : Handles(t, e)' <=> Handles(t, e)
    BY Zenon, <1>1 DEF Handles
  <2>2. \A e : Kept(e)' <=> Kept(e)
    BY Zenon, <1>1 DEF Kept
  <2>3. \A t, u \in Source : \A e :
            (Waits(t, e) \/ Handles(t, e)) /\ (Waits(u, e) \/ Handles(u, e)) => t = u
    BY ONLY Zenon, <1>0 DEF Distinct
  <2>4. \A t, u \in Source : \A e :
            (Waits(t, e)' \/ Handles(t, e)') /\ (Waits(u, e)' \/ Handles(u, e)') => t = u
    <3> SUFFICES ASSUME NEW t \in Source, NEW u \in Source, NEW e,
                        Waits(t, e)' \/ Handles(t, e)', Waits(u, e)' \/ Handles(u, e)'
                 PROVE  t = u
      BY Zenon
    <3>1. CASE e = emitted + 1
      <4>1. t = s
        BY ONLY Zenon, <1>6, <1>8, <2>1, <3>1, t \in Source, Waits(t, e)' \/ Handles(t, e)'
      <4>2. u = s
        BY ONLY Zenon, <1>6, <1>8, <2>1, <3>1, u \in Source, Waits(u, e)' \/ Handles(u, e)'
      <4> QED
        BY Zenon, <4>1, <4>2
    <3>2. CASE e # emitted + 1
      <4>1. Waits(t, e) \/ Handles(t, e)
        BY ONLY Zenon, <1>8, <2>1, <3>2, t \in Source, Waits(t, e)' \/ Handles(t, e)'
      <4>2. Waits(u, e) \/ Handles(u, e)
        BY ONLY Zenon, <1>8, <2>1, <3>2, u \in Source, Waits(u, e)' \/ Handles(u, e)'
      <4> QED
        BY ONLY Zenon, <2>3, <4>1, <4>2, t \in Source, u \in Source
    <3> QED
      BY Zenon, <3>1, <3>2
  <2>5. \A t \in Source : \A e : ~(Waits(t, e)' /\ Handles(t, e)')
    BY ONLY Zenon, <1>0, <1>6, <1>8, <2>1 DEF Distinct
  <2>6. \A t \in Source : \A e : Waits(t, e)' \/ Handles(t, e)' => ~Kept(e)'
    BY ONLY Zenon, <1>0, <1>7, <1>8, <2>1, <2>2 DEF Distinct
  <2>7. \A i, j \in DOMAIN history' : history'[i] = history'[j] => i = j
    BY Zenon, <1>0, <1>1 DEF Distinct
  <2> QED
    BY ONLY Zenon, <1>9, <2>4, <2>5, <2>6, <2>7 DEF Distinct
<1> QED
  BY Zenon, <1>3, <1>4, <1>5, <1>10 DEF FeedInvariant, FeedTypeOK, CoreTyped, HandlerTyped

LEMMA Received ==
    ASSUME FeedInvariant, NEW s \in Source, Receive(s)
    PROVE  FeedInvariant'
<1>0. CoreTyped /\ HandlerTyped /\ Distinct /\ RingHolds
  BY Zenon, FeedParts
<1>1. /\ queue \in [Source -> Seq(1..emitted)]
      /\ feeding \in [Source -> [at : {"idle", "ring", "broadcast"}, event : 0..emitted]]
      /\ emitted \in Nat
  BY Zenon, <1>0 DEF CoreTyped
<1> DEFINE first == Head(queue[s])
<1>2. /\ feeding[s] = Idle /\ queue[s] # <<>> /\ queue[s] \in Seq(1..emitted)
      /\ feeding' = [feeding EXCEPT ![s] = [at |-> "ring", event |-> first]]
      /\ queue' = [queue EXCEPT ![s] = Tail(queue[s])]
      /\ UNCHANGED <<emitted, consuming, ring, ringIdx, ringLen, history, conn, buffer, last,
                     got, warned>>
  BY Zenon, <1>1 DEF Receive
<1>3. /\ Tail(queue[s]) \in Seq(1..emitted)
      /\ first = queue[s][1] /\ first \in 1..emitted
      /\ DOMAIN queue[s] = 1..Len(queue[s])
      /\ DOMAIN Tail(queue[s]) = 1..(Len(queue[s]) - 1)
      /\ Len(queue[s]) \in Nat \ {0}
      /\ \A i \in 1..(Len(queue[s]) - 1) : Tail(queue[s])[i] = queue[s][i + 1]
  BY Zenon, <1>2, TailFacts
<1> HIDE DEF first
<1>4. HandlerTyped' /\ RingHolds'
  BY Zenon, <1>0, <1>2 DEF HandlerTyped, RingHolds, Slot
<1>5. CoreTyped'
  <2>1. queue' \in [Source -> Seq(1..emitted)]
    BY ONLY Zenon, <1>1, <1>2, <1>3
  <2>2. /\ feeding' \in [Source -> [at : {"idle", "ring", "broadcast"}, event : 0..emitted]]
        /\ \A t \in Source : feeding'[t].at # "idle" => feeding'[t].event # 0
    BY <1>0, <1>1, <1>2, <1>3 DEF CoreTyped
  <2> QED
    BY Zenon, <1>0, <1>2, <2>1, <2>2 DEF CoreTyped
<1>6. Waits(s, first)
  BY ONLY <1>3 DEF Waits
<1>7. \A e : Waits(s, e)' => Waits(s, e) /\ e # first
  <2> SUFFICES ASSUME NEW e, Waits(s, e)'
               PROVE  Waits(s, e) /\ e # first
    BY Zenon
  <2>1. queue'[s] = Tail(queue[s])
    BY Zenon, <1>1, <1>2
  <2>2. PICK k \in DOMAIN Tail(queue[s]) : Tail(queue[s])[k] = e
    BY Zenon, <2>1 DEF Waits
  <2>3. k + 1 \in DOMAIN queue[s] /\ queue[s][k + 1] = e /\ k + 1 # 1 /\ 1 \in DOMAIN queue[s]
    BY ONLY <1>3, <2>2
  <2>4. \A j, i \in DOMAIN queue[s] : queue[s][j] = queue[s][i] => j = i
    BY Zenon, <1>0 DEF Distinct
  <2> QED
    BY ONLY Zenon, <1>3, <2>3, <2>4 DEF Waits
<1>8. \A t \in Source \ {s} : \A e : /\ Waits(t, e)' <=> Waits(t, e)
                                     /\ Handles(t, e)' <=> Handles(t, e)
  BY Zenon, <1>1, <1>2 DEF Waits, Handles
<1>9. \A e : Handles(s, e)' <=> e = first
  BY Zenon, <1>1, <1>2 DEF Handles
<1>10. \A e : Kept(e)' <=> Kept(e)
  BY Zenon, <1>2 DEF Kept
<1>11. Distinct'
  <2>1. \A t \in Source : \A e : Waits(t, e)' \/ Handles(t, e)' => Waits(t, e) \/ Handles(t, e)
    BY ONLY Zenon, <1>6, <1>7, <1>8, <1>9
  <2>2. \A t, u \in Source : \A e :
            (Waits(t, e)' \/ Handles(t, e)') /\ (Waits(u, e)' \/ Handles(u, e)') => t = u
    BY ONLY Zenon, <1>0, <2>1 DEF Distinct
  <2>3. \A t \in Source : \A e : ~(Waits(t, e)' /\ Handles(t, e)')
    BY ONLY Zenon, <1>0, <1>7, <1>8, <1>9 DEF Distinct
  <2>4. \A t \in Source : \A e : Waits(t, e)' \/ Handles(t, e)' => ~Kept(e)'
    BY ONLY Zenon, <1>0, <2>1, <1>10 DEF Distinct
  <2>5. ASSUME NEW t \in Source
        PROVE  \A j, k \in DOMAIN queue'[t] : queue'[t][j] = queue'[t][k] => j = k
    <3>0. \A j, k \in DOMAIN queue[t] : queue[t][j] = queue[t][k] => j = k
      BY Zenon, <1>0 DEF Distinct
    <3>1. CASE t = s
      <4>1. queue'[t] = Tail(queue[s])
        BY Zenon, <1>1, <1>2, <3>1
      <4>2. ASSUME NEW j \in DOMAIN queue'[t]
            PROVE  j \in Nat /\ j + 1 \in DOMAIN queue[t] /\ queue'[t][j] = queue[t][j + 1]
        BY ONLY <1>3, <3>1, <4>1, <4>2
      <4>3. ASSUME NEW j \in DOMAIN queue'[t], NEW k \in DOMAIN queue'[t], queue'[t][j] = queue'[t][k]
            PROVE  j = k
        <5>1. j + 1 = k + 1
          BY ONLY Zenon, <3>0, <4>2, <4>3
        <5> QED  BY ONLY <4>2, <5>1
      <4> QED  BY ONLY Zenon, <4>3
    <3>2. CASE t # s
      <4>1. queue'[t] = queue[t]
        BY Zenon, <1>1, <1>2, <3>2
      <4> QED
        BY Zenon, <3>0, <4>1
    <3> QED
      BY Zenon, <3>1, <3>2
  <2>6. \A i, j \in DOMAIN history' : history'[i] = history'[j] => i = j
    BY Zenon, <1>0, <1>2 DEF Distinct
  <2> QED
    BY ONLY Zenon, <2>2, <2>3, <2>4, <2>5, <2>6 DEF Distinct
<1> QED
  BY Zenon, <1>4, <1>5, <1>11 DEF FeedInvariant, FeedTypeOK, CoreTyped, HandlerTyped

LEMMA Appended ==
    ASSUME FeedInvariant, NEW s \in Source, AppendEvent(s)
    PROVE  FeedInvariant'
<1>0. CoreTyped /\ HandlerTyped /\ Distinct /\ RingHolds
  BY Zenon, FeedParts
<1>1. /\ feeding \in [Source -> [at : {"idle", "ring", "broadcast"}, event : 0..emitted]]
      /\ history \in Seq(1..emitted) /\ emitted \in Nat
  BY Zenon, <1>0 DEF CoreTyped
<1> DEFINE new == feeding[s].event
<1>2. /\ feeding[s].at = "ring" /\ AppendRing(new) /\ history' = Append(history, new)
      /\ feeding' = [feeding EXCEPT ![s].at = "broadcast"]
      /\ UNCHANGED <<emitted, queue, consuming, conn, buffer, last, got, warned>>
  BY Zenon DEF AppendEvent
<1>3. new \in 1..emitted /\ Handles(s, new)
  BY <1>0, <1>1, <1>2 DEF CoreTyped, Handles
<1>4. /\ RingHolds' /\ ring' \in [0..(RingSize - 1) -> 0..emitted]
      /\ ringIdx' \in 0..(RingSize - 1) /\ ringLen' \in 0..RingSize
  BY Zenon, <1>2, <1>3, RingAppends
<1>5. /\ feeding' \in [Source -> [at : {"idle", "ring", "broadcast"}, event : 0..emitted]]
      /\ \A t \in Source : feeding'[t].at # "idle" => feeding'[t].event # 0
      /\ \A t \in Source \ {s} : feeding'[t] = feeding[t]
      /\ feeding'[s].at = "broadcast"
  BY Zenon, <1>0, <1>1, <1>2 DEF CoreTyped
<1> HIDE DEF new
<1>6. /\ history' \in Seq(1..emitted)
      /\ DOMAIN history = 1..Len(history) /\ DOMAIN history' = 1..(Len(history) + 1)
      /\ Len(history) \in Nat
      /\ \A i \in 1..Len(history) : history'[i] = history[i]
      /\ history'[Len(history) + 1] = new
  <2>1. history' = Append(history, new) /\ history \in Seq(1..emitted) /\ new \in 1..emitted
    BY ONLY Zenon, <1>1, <1>2, <1>3
  <2> QED
    BY ONLY <2>1, AppendFacts
<1>7. HandlerTyped' /\ CoreTyped'
  BY Zenon, <1>0, <1>2, <1>4, <1>5, <1>6 DEF HandlerTyped, CoreTyped
<1>8. \A t \in Source : \A e : Waits(t, e)' <=> Waits(t, e)
  BY Zenon, <1>2 DEF Waits
<1>9. \A t \in Source : \A e : Handles(t, e)' => t # s /\ Handles(t, e)
  BY Zenon, <1>5 DEF Handles
<1>10. \A e : Kept(e)' => Kept(e) \/ e = new
  BY ONLY <1>6 DEF Kept
<1>11. Distinct'
  <2>1. \A t, u \in Source : \A e :
            (Waits(t, e)' \/ Handles(t, e)') /\ (Waits(u, e)' \/ Handles(u, e)') => t = u
    BY ONLY Zenon, <1>0, <1>8, <1>9 DEF Distinct
  <2>2. \A t \in Source : \A e : ~(Waits(t, e)' /\ Handles(t, e)')
    BY ONLY Zenon, <1>0, <1>8, <1>9 DEF Distinct
  <2>3. ASSUME NEW t \in Source, NEW e, Waits(t, e)' \/ Handles(t, e)'
        PROVE  ~Kept(e)'
    <3>1. Waits(t, e) \/ (t # s /\ Handles(t, e))
      BY ONLY Zenon, <1>8, <1>9, <2>3, t \in Source
    <3>2. ~Kept(e)
      BY ONLY Zenon, <1>0, <3>1, t \in Source DEF Distinct
    <3>3. e # new
      BY ONLY Zenon, <1>0, <1>3, <3>1, t \in Source, s \in Source DEF Distinct
    <3> QED
      BY ONLY Zenon, <1>10, <3>2, <3>3
  <2>4. ~Kept(new)
    BY ONLY Zenon, <1>0, <1>3, s \in Source DEF Distinct
  <2>5. \A i, j \in DOMAIN history' : history'[i] = history'[j] => i = j
    <3>1. \A i, j \in 1..Len(history) : history[i] = history[j] => i = j
      BY Zenon, <1>0, <1>6 DEF Distinct
    <3>2. \A i \in 1..Len(history) : history[i] # new
      BY ONLY Zenon, <1>6, <2>4 DEF Kept
    <3> QED
      BY ONLY <1>6, <3>1, <3>2
  <2>6. \A t \in Source : \A j, k \in DOMAIN queue'[t] : queue'[t][j] = queue'[t][k] => j = k
    BY Zenon, <1>0, <1>2 DEF Distinct
  <2> QED
    BY ONLY Zenon, <2>1, <2>2, <2>3, <2>5, <2>6 DEF Distinct
<1> QED
  BY Zenon, <1>4, <1>7, <1>11 DEF FeedInvariant, FeedTypeOK, CoreTyped, HandlerTyped

LEMMA Broadcasted ==
    ASSUME FeedInvariant, NEW s \in Source, BroadcastToSSE(s)
    PROVE  FeedInvariant'
<1>0. CoreTyped /\ HandlerTyped /\ Distinct /\ RingHolds /\ BufSize \in Nat
  BY Zenon, FeedParts, FeedAssumption
<1>1. /\ feeding \in [Source -> [at : {"idle", "ring", "broadcast"}, event : 0..emitted]]
      /\ emitted \in Nat
  BY Zenon, <1>0 DEF CoreTyped
<1> DEFINE new == feeding[s].event
<1>2. /\ feeding[s].at = "broadcast"
      /\ buffer' = [b \in Browser |->
                       IF conn[b] = "open" /\ Len(buffer[b]) < BufSize
                       THEN Append(buffer[b], new) ELSE buffer[b]]
      /\ feeding' = [feeding EXCEPT ![s] = Idle]
      /\ UNCHANGED <<emitted, queue, consuming, ring, ringIdx, ringLen, history, conn, last,
                     got, warned>>
  BY Zenon DEF BroadcastToSSE
<1>3. new \in 1..emitted
  BY <1>0, <1>1, <1>2 DEF CoreTyped
<1>4. /\ feeding' \in [Source -> [at : {"idle", "ring", "broadcast"}, event : 0..emitted]]
      /\ \A t \in Source : feeding'[t].at # "idle" => feeding'[t].event # 0
      /\ \A t \in Source : \A e : Handles(t, e)' <=> Handles(t, e)
  <2>1. /\ feeding'[s] = Idle /\ \A t \in Source \ {s} : feeding'[t] = feeding[t]
        /\ Idle.at = "idle" /\ Idle \in [at : {"idle", "ring", "broadcast"}, event : 0..emitted]
    <3>1. 0 \in 0..emitted
      BY ONLY <1>1
    <3> QED  BY Zenon, <1>1, <1>2, <3>1 DEF Idle
  <2>2. feeding' \in [Source -> [at : {"idle", "ring", "broadcast"}, event : 0..emitted]]
    BY Zenon, <1>1, <1>2, <2>1
  <2>3. \A t \in Source : feeding'[t].at # "idle" => feeding'[t].event # 0
    BY Zenon, <1>0, <2>1 DEF CoreTyped
  <2>4. \A t \in Source : \A e : Handles(t, e)' <=> Handles(t, e)
    BY Zenon, <1>2, <2>1 DEF Handles
  <2> QED  BY ONLY Zenon, <2>2, <2>3, <2>4
<1> HIDE DEF new
<1>5. /\ buffer' \in [Browser -> Seq(1..emitted)]
      /\ \A b \in Browser : Len(buffer'[b]) <= BufSize
  <2>1. ASSUME NEW b \in Browser
        PROVE  buffer'[b] \in Seq(1..emitted) /\ Len(buffer'[b]) <= BufSize
    <3>1. buffer[b] \in Seq(1..emitted) /\ Len(buffer[b]) <= BufSize
      BY Zenon, <1>0 DEF HandlerTyped
    <3>2. CASE conn[b] = "open" /\ Len(buffer[b]) < BufSize
      <4>1. buffer'[b] = Append(buffer[b], new)
        BY Zenon, <1>2, <3>2
      <4>2. buffer'[b] \in Seq(1..emitted) /\ Len(buffer'[b]) = Len(buffer[b]) + 1
        BY ONLY <1>3, <3>1, <4>1
      <4>3. Len(buffer[b]) \in Nat
        BY ONLY <3>1
      <4> QED
        BY ONLY <1>0, <3>2, <4>2, <4>3
    <3>3. CASE ~(conn[b] = "open" /\ Len(buffer[b]) < BufSize)
      BY Zenon, <1>2, <3>1, <3>3
    <3> QED
      BY Zenon, <3>2, <3>3
  <2>2. buffer' = [b \in Browser |-> buffer'[b]]
    BY ONLY Zenon, <1>2
  <2> QED
    BY ONLY Zenon, <2>1, <2>2
<1>6. HandlerTyped' /\ CoreTyped'
  BY Zenon, <1>0, <1>2, <1>4, <1>5 DEF HandlerTyped, CoreTyped
<1>7. RingHolds'
  BY Zenon, <1>0, <1>2 DEF RingHolds, Slot
<1>8. Distinct'
  <2>1. (\A t \in Source : \A e : Waits(t, e)' <=> Waits(t, e)) /\ (\A e : Kept(e)' <=> Kept(e))
    BY Zenon, <1>2 DEF Waits, Kept
  <2>2. \A t \in Source : \A j, k \in DOMAIN queue'[t] : queue'[t][j] = queue'[t][k] => j = k
    BY Zenon, <1>0, <1>2 DEF Distinct
  <2>3. \A i, j \in DOMAIN history' : history'[i] = history'[j] => i = j
    BY Zenon, <1>0, <1>2 DEF Distinct
  <2> QED
    BY ONLY Zenon, <1>0, <1>4, <2>1, <2>2, <2>3 DEF Distinct
<1> QED
  BY Zenon, <1>6, <1>7, <1>8 DEF FeedInvariant, FeedTypeOK, CoreTyped, HandlerTyped

\* Every step of the console keeps the invariant of the feed; the sessions reach it
\* only through the SIMULATION stream.
LEMMA FeedKept ==
    ASSUME FeedInvariant, [ConsoleNext]_consoleVars
    PROVE  FeedInvariant'
<1>1. ASSUME UNCHANGED feedVars
      PROVE  FeedInvariant'
  <2>1. UNCHANGED feedCore /\ HandlerTyped'
    BY Zenon, <1>1, FeedParts DEF feedVars, feedCore, HandlerTyped
  <2> QED
    BY Zenon, <2>1, CoreUntouched
<1>2. ASSUME Follow
      PROVE  FeedInvariant'
  BY Zenon, <1>1, <1>2, Published, ConsoleAssumption DEF Follow
<1>3. ASSUME NEW s \in Source, ConsumeStream(s)
      PROVE  FeedInvariant'
  BY Zenon, <1>3, ConsumerCreated, Received, Appended, Broadcasted DEF ConsumeStream
<1>4. CASE ConsoleNext
  BY Zenon, <1>1, <1>2, <1>3, <1>4, Published, HandlerSteps
     DEF ConsoleNext, Simulates, OtherEvent, BrowserConnects
<1> QED
  BY Zenon, <1>1, <1>4 DEF consoleVars

\* In every reachable state the ring is the end of the history of the feed, and no
\* event is in two places of it.
THEOREM FeedInvariantHolds == ConsoleSpec => []FeedInvariant
<1>1. ConsoleInit => FeedInvariant
  <2> SUFFICES ASSUME ConsoleInit
               PROVE  FeedInvariant
    BY Zenon
  <2>1. FeedInit /\ RingSize \in Nat \ {0} /\ BufSize \in Nat
    BY Zenon, FeedAssumption DEF ConsoleInit
  <2>2. CoreTyped
    BY <2>1 DEF FeedInit, CoreTyped, Idle
  <2>3. HandlerTyped
    BY <2>1 DEF FeedInit, HandlerTyped
  <2>4. Distinct
    BY <2>1 DEF FeedInit, Distinct, Waits, Handles, Kept, Idle
  <2>5. RingHolds
    BY <2>1 DEF FeedInit, RingHolds
  <2> QED
    BY Zenon, <2>2, <2>3, <2>4, <2>5, FeedParts
<1>2. FeedInvariant /\ [ConsoleNext]_consoleVars => FeedInvariant'
  BY Zenon, FeedKept
<1> QED
  BY <1>1, <1>2, PTL DEF ConsoleSpec

\* findInRing gives a browser that comes back exactly what was appended since, and
\* tells it of a gap exactly when the ring no longer reaches back to what it saw,
\* for a ring of any size and however the consumers interleave.
THEOREM RingComplete == ConsoleSpec => []RingRecovers
<1>1. FeedInvariant => RingRecovers
  BY Zenon, RingIsRecent
<1> QED
  BY <1>1, FeedInvariantHolds, PTL

-----------------------------------------------------------------------------
(* Types *)

\* What the other invariants do not need: the rest of the sessions' and scenarios'
\* variables.  The event of a session's next step has a type because a session never
\* loads more events than its script has.
Loaded(s) == total[s] <= Len(Script[s])

RestTyped ==
    /\ heard \in [Session -> SUBSET (EventType \cup CoordinationType)]
    /\ written \in Nat
    /\ budget \in Bounds
    /\ checked \subseteq Definition
    /\ registered \subseteq Definition

\* No send makes a watcher's channel longer than it can be.
ChannelsFit == \A c \in Watcher : Len(channel[c]) <= Capacity

LEMMA BudgetSpent ==
    ASSUME RestTyped, NEW k \in {"stops", "faults", "injections", "events", "connections"},
           Spend(k)
    PROVE  budget' \in Bounds
<1>1. budget \in Bounds /\ budget[k] > 0 /\ budget' = [budget EXCEPT ![k] = budget[k] - 1]
  BY Zenon DEF RestTyped, Spend
<1> QED
  BY <1>1 DEF Bounds

LEMMA Delivered ==
    ASSUME RestTyped, NEW t \in EventType \cup CoordinationType, Deliver(t)
    PROVE  /\ heard' \in [Session -> SUBSET (EventType \cup CoordinationType)]
           /\ written' \in Nat
BY DEF RestTyped, Deliver

\* The script has a step where the loop publishes, and its type is one of the types.
LEMMA StepTyped ==
    ASSUME SessionInvariant, NEW s \in Session, Loaded(s), pc[s] = "publish"
    PROVE  Current(s).type \in EventType
<1>1. count[s] \in Nat /\ total[s] \in Nat /\ count[s] < total[s]
  BY Zenon DEF SessionInvariant, Typed, Counted
<1>2. Script[s] \in Seq(Step) /\ total[s] <= Len(Script[s])
  BY Zenon, SessionAssumption DEF Loaded
<1>3. count[s] + 1 \in 1..Len(Script[s])
  BY ONLY <1>1, <1>2
<1>4. Script[s][count[s] + 1] \in Step
  BY ONLY Zenon, <1>2, <1>3, Element
<1> QED
  BY ONLY Zenon, <1>4 DEF Current, Step

\* How a step may move them: a step of a session leaves the stream alone, delivers one
\* event, or drops what a condition's consumer has received.
RestMoves ==
    /\ \/ UNCHANGED budget
       \/ \E k \in {"stops", "faults", "injections", "events", "connections"} : Spend(k)
    /\ \/ UNCHANGED <<written, heard>>
       \/ \E t \in EventType \cup CoordinationType : Deliver(t)
       \/ \E s \in Session : heard' = [heard EXCEPT ![s] = {}] /\ UNCHANGED written
    /\ UNCHANGED registered \/ \E d \in Definition : registered' = registered \cup {d}
    /\ checked' \subseteq checked \cup Definition

LEMMA RestMoved ==
    ASSUME RestTyped, RestMoves
    PROVE  RestTyped'
<1>1. budget' \in Bounds
  BY Zenon, BudgetSpent DEF RestTyped, RestMoves
<1>2. /\ heard' \in [Session -> SUBSET (EventType \cup CoordinationType)]
      /\ written' \in Nat
  BY Zenon, Delivered DEF RestTyped, RestMoves
<1>3. checked' \subseteq Definition /\ registered' \subseteq Definition
  BY Zenon DEF RestTyped, RestMoves
<1> QED
  BY Zenon, <1>1, <1>2, <1>3 DEF RestTyped

LEMMA RestOfReplay ==
    ASSUME SessionInvariant, NEW s \in Session, Loaded(s), ReplayStep(s)
    PROVE  RestMoves
<1>1. UNCHANGED <<checked, registered>>
  BY Zenon DEF ReplayStep, scenarioVars
<1>2. CASE CreateSession(s) \/ StartSession(s)
  BY Zenon, <1>1, <1>2 DEF CreateSession, StartSession, RestMoves
<1>3. CASE AnnounceStart(s)
  BY Zenon, <1>1, <1>3 DEF AnnounceStart, Coordinate, CoordinationType, RestMoves
<1>4. CASE CheckReplay(s) \/ DelayReplay(s) \/ RecordReplayed(s) \/ BroadcastReplayEvent(s)
           \/ BroadcastReplayEnd(s)
  BY Zenon, <1>1, <1>4
     DEF CheckReplay, DelayReplay, RecordReplayed, BroadcastReplayEvent,
         BroadcastReplayEnd, RestMoves
<1>5. CASE PublishReplayedEvent(s)
  <2>1. Current(s).type \in EventType
    BY Zenon, <1>5, StepTyped DEF PublishReplayedEvent
  <2> QED
    BY Zenon, <1>1, <1>5, <2>1
       DEF PublishReplayedEvent, Succeeds, Fails, Store, NotStored, RestMoves
<1>6. CASE AnnounceReplayEnd(s)
  BY Zenon, <1>1, <1>6 DEF AnnounceReplayEnd, Coordinate, CoordinationType, RestMoves
<1> QED
  BY Zenon, <1>2, <1>3, <1>4, <1>5, <1>6 DEF ReplayStep, RunSession

LEMMA RestOfScenario ==
    ASSUME SessionInvariant, NEW s \in Session, Loaded(s),
           StartScenario(s) \/ ExecuteScenario(s)
    PROVE  RestMoves
<1>1. UNCHANGED <<checked, registered>>
  BY Zenon DEF StartScenario, ExecuteScenario, AnnounceScenario, CheckScenario, DelayScenario,
            Inject, RecordInjected, AnnounceInjected, BroadcastScenarioEvent,
            CreateConditionConsumer, ConditionMet, ConditionFails, AnnounceScenarioEnd,
            BroadcastScenarioEnd, scenarioVars
<1>2. CASE AnnounceScenario(s) \/ AnnounceInjected(s) \/ AnnounceScenarioEnd(s)
  BY Zenon, <1>1, <1>2
     DEF AnnounceScenario, AnnounceInjected, AnnounceScenarioEnd, Coordinate, CoordinationType,
         RestMoves
<1>3. CASE StartScenario(s) \/ CheckScenario(s) \/ DelayScenario(s) \/ RecordInjected(s)
           \/ BroadcastScenarioEvent(s) \/ BroadcastScenarioEnd(s)
  BY Zenon, <1>1, <1>3
     DEF StartScenario, CheckScenario, DelayScenario, RecordInjected, BroadcastScenarioEvent,
         BroadcastScenarioEnd, RestMoves
<1>4. CASE Inject(s)
  <2>1. Current(s).type \in EventType
    BY Zenon, <1>4, StepTyped DEF Inject
  <2> QED
    BY Zenon, <1>1, <1>4, <2>1 DEF Inject, Succeeds, Fails, Store, NotStored, RestMoves
<1>5. CASE CreateConditionConsumer(s)
  BY Zenon, <1>1, <1>5 DEF CreateConditionConsumer, Succeeds, Fails, RestMoves
<1>6. CASE ConditionMet(s) \/ ConditionFails(s)
  <2>1. heard' = [heard EXCEPT ![s] = {}] /\ UNCHANGED <<written, budget>>
    BY Zenon, <1>6 DEF ConditionMet, ConditionFails
  <2> QED
    BY ONLY Zenon, <1>1, <2>1, s \in Session DEF RestMoves
<1> QED
  BY Zenon, <1>2, <1>3, <1>4, <1>5, <1>6 DEF ExecuteScenario

LEMMA RestKept ==
    ASSUME SessionInvariant, RestTyped, \A s \in Session : Loaded(s), [ConsoleNext]_consoleVars
    PROVE  RestTyped'
<1>1. ASSUME UNCHANGED <<budget, written, heard, checked, registered>>
      PROVE  RestMoves
  BY Zenon, <1>1 DEF RestMoves
<1>2. ASSUME NEW s \in Session, Simulates(s)
      PROVE  RestMoves
  BY Zenon, <1>2, RestOfReplay, RestOfScenario DEF Simulates
<1>3. ASSUME NEW d \in Definition, CheckName(d) \/ StoreDefinition(d)
      PROVE  RestMoves
  BY Zenon, <1>3 DEF CheckName, StoreDefinition, sessionVars, RestMoves
<1>4. ASSUME NEW t \in EventType, InjectEvent(t)
      PROVE  RestMoves
  BY Zenon, <1>4 DEF InjectEvent, scenarioVars, RestMoves
<1>5. ASSUME NEW s \in Session, Cancel(s)
      PROVE  RestMoves
  BY Zenon, <1>5 DEF Cancel, RequestEnds, StopSession, scenarioVars, RestMoves
<1>6. ASSUME NEW c \in Watcher, Stream(c)
      PROVE  RestMoves
  BY Zenon, <1>6, <1>1 DEF Stream, sessionVars, scenarioVars
<1>7. ASSUME NEW s \in Source, OtherEvent(s)
      PROVE  RestMoves
  BY Zenon, <1>7 DEF OtherEvent, sessionVars, scenarioVars, RestMoves
<1>8. ASSUME NEW b \in Browser, BrowserConnects(b)
      PROVE  RestMoves
  BY Zenon, <1>8 DEF BrowserConnects, sessionVars, scenarioVars, RestMoves
<1>9. UNCHANGED vars => RestMoves
  BY Zenon, <1>1 DEF vars
<1>10. RestMoves
  BY Zenon, <1>2, <1>3, <1>4, <1>5, <1>6, <1>7, <1>8, <1>9 DEF ConsoleNext, consoleVars
<1> QED
  BY Zenon, <1>10, RestMoved

\* total is set where a session is created, to what was read of its script.
LEMMA LoadedKept ==
    ASSUME SessionInvariant, \A s \in Session : Loaded(s), [ConsoleNext]_consoleVars
    PROVE  \A s \in Session : Loaded(s)'
<1>1. ASSUME UNCHANGED total
      PROVE  \A s \in Session : Loaded(s)'
  BY Zenon, <1>1 DEF Loaded
<1>2. ASSUME NEW s \in Session, NEW n \in Nat, n <= Len(Script[s]),
             total' = [total EXCEPT ![s] = n]
      PROVE  \A t \in Session : Loaded(t)'
  BY Zenon, <1>2 DEF SessionInvariant, Typed, Loaded
<1>3. ASSUME NEW s \in Session, CreateSession(s)
      PROVE  \A t \in Session : Loaded(t)'
  <2>1. PICK n \in 1..Len(Script[s]) : total' = [total EXCEPT ![s] = n]
    BY Zenon, <1>3 DEF CreateSession
  <2>2. Len(Script[s]) \in Nat
    BY SessionAssumption
  <2>3. n \in Nat /\ n <= Len(Script[s])
    BY ONLY <2>1, <2>2
  <2> QED
    BY Zenon, <1>2, <2>1, <2>3
<1>4. ASSUME NEW s \in Session, StartScenario(s)
      PROVE  \A t \in Session : Loaded(t)'
  <2>1. Len(Script[s]) \in Nat /\ Len(Script[s]) <= Len(Script[s])
    BY SessionAssumption
  <2> QED
    BY Zenon, <1>2, <1>4, <2>1 DEF StartScenario
<1>5. ASSUME NEW s \in Session, StartSession(s) \/ RunSession(s) \/ ExecuteScenario(s)
      PROVE  UNCHANGED total
  BY Zenon, <1>5
     DEF StartSession, RunSession, AnnounceStart, CheckReplay, DelayReplay, PublishReplayedEvent,
         RecordReplayed, BroadcastReplayEvent, AnnounceReplayEnd, BroadcastReplayEnd,
         ExecuteScenario, AnnounceScenario, CheckScenario, DelayScenario, Inject,
         RecordInjected, AnnounceInjected, BroadcastScenarioEvent, CreateConditionConsumer,
         ConditionMet, ConditionFails, AnnounceScenarioEnd, BroadcastScenarioEnd
<1>6. ASSUME NEW s \in Session, Simulates(s)
      PROVE  \A t \in Session : Loaded(t)'
  BY Zenon, <1>1, <1>3, <1>4, <1>5, <1>6 DEF Simulates, ReplayStep
<1>7. ASSUME NEW s \in Session, Cancel(s)
      PROVE  UNCHANGED total
  BY Zenon, <1>7 DEF Cancel, RequestEnds, StopSession
<1>8. ASSUME UNCHANGED sessionVars
      PROVE  UNCHANGED total
  BY Zenon, <1>8 DEF sessionVars
<1>9. ASSUME UNCHANGED vars
      PROVE  UNCHANGED total
  BY Zenon, <1>9 DEF vars
<1>10. CASE ConsoleNext
  BY Zenon, <1>1, <1>6, <1>7, <1>8, <1>9, <1>10
     DEF ConsoleNext, CheckName, StoreDefinition, InjectEvent, Stream, OtherEvent, BrowserConnects
<1> QED
  BY Zenon, <1>1, <1>9, <1>10 DEF consoleVars

\* A send looks whether there is room, under the lock of the watcher set.
LEMMA OfferFits ==
    ASSUME WatchersTyped, ChannelsFit, NEW cs, NEW n \in Notification, Offer(cs, n)
    PROVE  ChannelsFit'
<1> SUFFICES ASSUME NEW c \in Watcher
             PROVE  Len(channel'[c]) <= Capacity
  BY Zenon DEF ChannelsFit
<1>1. /\ channel[c] \in Seq(Notification) /\ Len(channel[c]) <= Capacity
      /\ Capacity \in Nat
  BY Zenon, WatcherAssumption DEF WatchersTyped, ChannelsFit
<1>2. channel'[c] = IF c \in cs /\ Len(channel[c]) # Capacity
                    THEN Append(channel[c], n) ELSE channel[c]
  BY Zenon DEF Offer, Full
<1>3. Len(Append(channel[c], n)) = Len(channel[c]) + 1 /\ Len(channel[c]) \in Nat
  BY ONLY <1>1, n \in Notification
<1>4. Len(channel[c]) # Capacity => Len(channel[c]) + 1 <= Capacity
  BY ONLY <1>1, <1>3
<1>5. CASE c \in cs /\ Len(channel[c]) # Capacity
  BY ONLY Zenon, <1>2, <1>3, <1>4, <1>5
<1>6. CASE ~(c \in cs /\ Len(channel[c]) # Capacity)
  BY ONLY Zenon, <1>1, <1>2, <1>6
<1> QED
  BY ONLY Zenon, <1>5, <1>6

LEMMA StreamFits ==
    ASSUME WatchersTyped, ChannelsFit, NEW c \in Watcher, Stream(c)
    PROVE  ChannelsFit'
<1>1. /\ channel \in [Watcher -> Seq(Notification)] /\ Capacity \in Nat \ {0}
      /\ \A d \in Watcher : Len(channel[d]) <= Capacity
  BY Zenon, WatcherAssumption DEF WatchersTyped, ChannelsFit
<1>2. ASSUME NEW q, channel' = [channel EXCEPT ![c] = q], Len(q) <= Capacity
      PROVE  ChannelsFit'
  BY ONLY Zenon, <1>1, <1>2 DEF ChannelsFit
<1>3. ASSUME UNCHANGED channel
      PROVE  ChannelsFit'
  BY Zenon, <1>3 DEF ChannelsFit
<1>4. Len(<<>>) <= Capacity /\ Len(<<terminal[Following[c]]>>) <= Capacity
  BY ONLY <1>1
<1>5. CASE WatchSession(c, Known)
  BY Zenon, <1>2, <1>3, <1>4, <1>5 DEF WatchSession, Subscribe
<1>6. CASE StreamNext(c)
  <2>1. channel[c] # <<>> /\ channel' = [channel EXCEPT ![c] = Tail(channel[c])]
    BY Zenon, <1>6 DEF StreamNext
  <2>2. channel[c] \in Seq(Notification) /\ Len(channel[c]) <= Capacity
    BY Zenon, <1>1
  <2>3. Len(Tail(channel[c])) = Len(channel[c]) - 1 /\ Len(channel[c]) \in Nat \ {0}
    BY ONLY Zenon, <2>1, <2>2, TailFacts
  <2>4. Len(Tail(channel[c])) <= Capacity
    BY ONLY <1>1, <2>2, <2>3
  <2> QED
    BY Zenon, <1>2, <2>1, <2>4
<1>7. CASE StreamEnds(c) \/ BrowserLeaves(c)
  BY Zenon, <1>2, <1>4, <1>7 DEF StreamEnds, BrowserLeaves, StreamReturns
<1> QED
  BY Zenon, <1>5, <1>6, <1>7 DEF Stream

LEMMA ChannelsKept ==
    ASSUME SessionInvariant, WatchersTyped, ChannelsFit, [ConsoleNext]_consoleVars
    PROVE  ChannelsFit'
<1>1. ASSUME UNCHANGED channel
      PROVE  ChannelsFit'
  BY Zenon, <1>1 DEF ChannelsFit
<1>2. \A s \in Session : /\ Notify("event", count[s]) \in Notification
                         /\ pc[s] = "terminate" => Notify(state[s], count[s]) \in Notification
  BY Zenon DEF SessionInvariant, Typed, Located, Ending, Notification, Notify
<1>3. ASSUME NEW s \in Session, BroadcastReplayEvent(s) \/ BroadcastScenarioEvent(s)
      PROVE  ChannelsFit'
  <2>1. Offer(clients[s], Notify("event", count[s]))
    BY Zenon, <1>3 DEF BroadcastReplayEvent, BroadcastScenarioEvent, Broadcast
  <2> QED
    BY Zenon, <1>2, <2>1, OfferFits
<1>4. ASSUME NEW s \in Session, BroadcastReplayEnd(s) \/ BroadcastScenarioEnd(s)
      PROVE  ChannelsFit'
  <2>1. pc[s] = "terminate" /\ Offer(clients[s], Notify(state[s], count[s]))
    BY Zenon, <1>4 DEF BroadcastReplayEnd, BroadcastScenarioEnd, Terminate
  <2> QED
    BY Zenon, <1>2, <2>1, OfferFits
<1>5. ASSUME NEW s \in Session,
             \/ CreateSession(s) \/ StartSession(s) \/ StartScenario(s) \/ Cancel(s)
             \/ AnnounceStart(s) \/ CheckReplay(s) \/ DelayReplay(s) \/ PublishReplayedEvent(s)
             \/ RecordReplayed(s) \/ AnnounceReplayEnd(s)
             \/ AnnounceScenario(s) \/ CheckScenario(s) \/ DelayScenario(s) \/ Inject(s)
             \/ RecordInjected(s) \/ AnnounceInjected(s) \/ CreateConditionConsumer(s)
             \/ ConditionMet(s) \/ ConditionFails(s) \/ AnnounceScenarioEnd(s)
      PROVE  ChannelsFit'
  <2>1. UNCHANGED watcherVars
    BY Zenon, <1>5
       DEF CreateSession, StartSession, StartScenario, Cancel, RequestEnds, StopSession,
           AnnounceStart, CheckReplay, DelayReplay, PublishReplayedEvent, RecordReplayed,
           AnnounceReplayEnd, AnnounceScenario, CheckScenario, DelayScenario, Inject,
           RecordInjected, AnnounceInjected, CreateConditionConsumer, ConditionMet,
           ConditionFails, AnnounceScenarioEnd
  <2> QED
    BY Zenon, <1>1, <2>1 DEF watcherVars
<1>6. ASSUME NEW s \in Session, Simulates(s)
      PROVE  ChannelsFit'
  BY Zenon, <1>3, <1>4, <1>5, <1>6 DEF Simulates, ReplayStep, RunSession, ExecuteScenario
<1>7. ASSUME UNCHANGED watcherVars \/ UNCHANGED vars
      PROVE  ChannelsFit'
  BY Zenon, <1>1, <1>7 DEF watcherVars, vars
<1>8. CASE ConsoleNext
  BY Zenon, <1>5, <1>6, <1>7, <1>8, StreamFits
     DEF ConsoleNext, CheckName, StoreDefinition, InjectEvent, OtherEvent, BrowserConnects
<1> QED
  BY Zenon, <1>7, <1>8 DEF consoleVars

\* Every variable of the sessions, the watchers and the feed keeps the shape the Go
\* types give it: no send overfills a channel, no loop runs past the script it
\* loaded, and no index leaves the ring.
THEOREM ConsoleTypes == ConsoleSpec => []ConsoleTypeOK
<1> DEFINE Rest == RestTyped /\ (\A s \in Session : Loaded(s)) /\ ChannelsFit
<1>1. ConsoleInit => Rest
  <2> SUFFICES ASSUME ConsoleInit
               PROVE  Rest
    BY Zenon
  <2>1. WatcherInit /\ SessionInit /\ checked = {} /\ registered = {}
    BY Zenon DEF ConsoleInit, Init
  <2>2. RestTyped
    BY Zenon, <2>1, SessionAssumption DEF SessionInit, RestTyped
  <2>3. \A s \in Session : Loaded(s)
    BY <2>1, SessionAssumption DEF SessionInit, Loaded
  <2>4. ChannelsFit
    BY <2>1, WatcherAssumption DEF WatcherInit, ChannelsFit
  <2> QED
    BY Zenon, <2>2, <2>3, <2>4
<1>2. SessionInvariant /\ WatcherInvariant /\ Rest /\ [ConsoleNext]_consoleVars => Rest'
  BY Zenon, RestKept, LoadedKept, ChannelsKept DEF WatcherInvariant
<1>3. SessionInvariant /\ WatcherInvariant /\ FeedInvariant /\ Rest => ConsoleTypeOK
  BY Zenon DEF SessionInvariant, Typed, WatcherInvariant, WatchersTyped, FeedInvariant,
            RestTyped, ChannelsFit, ConsoleTypeOK, TypeOK, WatcherTypeOK, SessionTypeOK
<1> HIDE DEF Rest
<1> QED
  BY <1>1, <1>2, <1>3, SessionInvariantHolds, WatcherInvariantHolds, FeedInvariantHolds, PTL
     DEF ConsoleSpec

=============================================================================
