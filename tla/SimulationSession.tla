-------------------------- MODULE SimulationSession --------------------------
(***************************************************************************)
(* What replay and scenario sessions share: the session records in memory, *)
(* the goroutine that runs a session, the context that cancels it, and the *)
(* SIMULATION stream it publishes to.                                      *)
(***************************************************************************)
EXTENDS SessionWatchers

CONSTANTS
    Script,         \* the events of each session: type, delay before it, and the
                    \* type of event waited for after it ("none" in a replay)
    EventType,
    Scenarios       \* bounds on operator stops, failing calls, injected events, events
                    \* on other streams and connections to the operator's feed, and
                    \* on the watchers and the sessions that take part

Bounds == [stops : Nat, faults : Nat, injections : Nat, events : Nat, connections : Nat,
           watchers : SUBSET Watcher, sessions : SUBSET Session]

CoordinationType ==
    {"start", "inject_event", "stop", "replay.start", "replay.stop", "replay.complete"}

Step == [type : EventType, delay : BOOLEAN, expects : EventType \cup CoordinationType \cup {"none"}]

ASSUME SessionAssumption ==
    /\ Script \in [Session -> Seq(Step)]
    /\ \A s \in Session : Len(Script[s]) > 0
    /\ Scenarios \subseteq Bounds

VARIABLES
    state,      \* State of each session
    total,      \* TotalEvents, TotalSteps
    count,      \* ReplayedEvents, InjectedEvents
    pc,         \* where the session's goroutine is
    cancelled,  \* the sessions whose context is done
    heard,      \* event types a scenario's condition consumer has received
    stored,     \* how many events of each session the stream holds
    written,    \* how many events it holds in all
    asked,      \* history: sessions an operator stopped
    overrun,    \* history: events of a session stored after that
    budget      \* what is left of the scenario

sessionVars == <<state, total, count, pc, cancelled, heard, stored, written, asked, overrun>>

Label == {"idle", "announce", "check", "delay", "publish", "record", "coordinate",
          "notify", "subscribe", "wait", "announceEnd", "terminate", "done"}

SessionTypeOK ==
    /\ state \in [Session -> {"none", "pending", "running"} \cup Outcome]
    /\ total \in [Session -> Nat]
    /\ count \in [Session -> Nat]
    /\ pc \in [Session -> Label]
    /\ cancelled \subseteq Session
    /\ heard \in [Session -> SUBSET (EventType \cup CoordinationType)]
    /\ stored \in [Session -> Nat]
    /\ written \in Nat
    /\ asked \subseteq Session
    /\ overrun \in [Session -> Nat]
    /\ budget \in Bounds

SessionInit ==
    /\ budget \in Scenarios
    /\ state = [s \in Session |-> "none"]
    /\ total = [s \in Session |-> 0]
    /\ count = [s \in Session |-> 0]
    /\ pc = [s \in Session |-> "idle"]
    /\ cancelled = {}
    /\ heard = [s \in Session |-> {}]
    /\ stored = [s \in Session |-> 0]
    /\ written = 0
    /\ asked = {}
    /\ overrun = [s \in Session |-> 0]

Known == {s \in Session : state[s] # "none"}

Goto(s, l) == pc' = [pc EXCEPT ![s] = l]
SetState(s, v) == state' = [state EXCEPT ![s] = v]

Spend(what) ==
    /\ budget[what] > 0
    /\ budget' = [budget EXCEPT ![what] = @ - 1]

Current(s) == Script[s][count[s] + 1]

-----------------------------------------------------------------------------
(* The SIMULATION stream *)

\* A stored event reaches every consumer that a condition has created.
Deliver(t) ==
    /\ written' = written + 1
    /\ heard' = [s \in Session |-> IF pc[s] = "wait" THEN heard[s] \cup {t} ELSE heard[s]]

\* PublishMsg stores the event of the session's current step.
Store(s) ==
    /\ stored' = [stored EXCEPT ![s] = @ + 1]
    /\ overrun' = [overrun EXCEPT ![s] = IF s \in asked THEN @ + 1 ELSE @]
    /\ Deliver(Current(s).type)

NotStored == UNCHANGED <<stored, overrun, written, heard>>

\* A call fails when the context is done, and may fail when it is not.
Fails(s) == IF s \in cancelled THEN UNCHANGED budget ELSE Spend("faults")

Succeeds(s) == s \notin cancelled /\ UNCHANGED budget

\* publishCoordination: the result is ignored, and nothing is published once the
\* context it is given is done.
Coordinate(t, done) ==
    IF done THEN UNCHANGED <<written, heard>> ELSE Deliver(t)

-----------------------------------------------------------------------------
(* The context of a session *)

\* It is derived from the HTTP request that created the session, and net/http
\* cancels that when the handler returns or the client goes away.
RequestEnds(s) ==
    /\ s \in Known \ cancelled
    /\ cancelled' = cancelled \cup {s}
    /\ UNCHANGED <<state, total, count, pc, heard, stored, written, asked, overrun, budget>>
    /\ UNCHANGED watcherVars

\* Mutant: the handler itself marks the session as stopped.
StopMarks(s) ==
    /\ state[s] = "running"
    /\ s \notin asked
    /\ Spend("stops")
    /\ SetState(s, "stopped")
    /\ cancelled' = cancelled \cup {s}
    /\ asked' = asked \cup {s}
    /\ UNCHANGED <<total, count, pc, heard, stored, written, overrun>>
    /\ UNCHANGED watcherVars

\* Mutant: the context is not cancelled.
StopIgnored(s) ==
    /\ state[s] = "running"
    /\ s \notin asked
    /\ Spend("stops")
    /\ asked' = asked \cup {s}
    /\ UNCHANGED <<state, total, count, pc, cancelled, heard, stored, written, overrun>>
    /\ UNCHANGED watcherVars

\* StopSession: only a running session is cancelled, anything else is refused.
StopSession(s) ==
    /\ state[s] = "running"
    /\ s \notin asked
    /\ Spend("stops")
    /\ cancelled' = cancelled \cup {s}
    /\ asked' = asked \cup {s}
    /\ UNCHANGED <<state, total, count, pc, heard, stored, written, overrun>>
    /\ UNCHANGED watcherVars

=============================================================================
