-------------------------- MODULE OperatorConsole --------------------------
(***************************************************************************)
(* What an operator sees: the simulation sessions and their watchers, and  *)
(* the live feed, which also carries the events that the sessions publish. *)
(***************************************************************************)
EXTENDS Simulation, OperatorFeed

ASSUME ConsoleAssumption == "SIMULATION" \in Source

consoleVars == <<vars, feedVars>>

\* An event on the SIMULATION stream is one for the feed.
Follow == IF written' = written THEN UNCHANGED feedVars ELSE Publish("SIMULATION")

Simulates(s) ==
    /\ \/ s \in Replay /\ ReplayStep(s)
       \/ s \in ScenarioRun /\ (StartScenario(s) \/ ExecuteScenario(s))
    /\ Follow

OtherEvent(s) ==
    /\ s # "SIMULATION"
    /\ Spend("events")
    /\ Publish(s)
    /\ UNCHANGED sessionVars
    /\ UNCHANGED scenarioVars
    /\ UNCHANGED watcherVars

BrowserConnects(b) ==
    /\ Spend("connections")
    /\ Connect(b)
    /\ UNCHANGED sessionVars
    /\ UNCHANGED scenarioVars
    /\ UNCHANGED watcherVars

\* Bound: with no connection and no other event to come the feed has nothing to do.
FeedIsUsed == budget.connections + budget.events > 0 \/ consuming # {}

ConsoleInit == Init /\ FeedInit

ConsoleNext ==
    \/ \E s \in Session : Simulates(s)
    \/ \E d \in Definition : (CheckName(d) \/ StoreDefinition(d)) /\ UNCHANGED feedVars
    \/ \E t \in EventType : InjectEvent(t) /\ Follow
    \/ \E s \in Session : Cancel(s) /\ UNCHANGED feedVars
    \/ \E c \in Watcher : Stream(c) /\ UNCHANGED feedVars
    \/ \E s \in Source : OtherEvent(s)
    \/ \E s \in Source : FeedIsUsed /\ ConsumeStream(s) /\ UNCHANGED vars
    \/ \E b \in Browser : BrowserConnects(b)
    \/ \E b \in Browser : HandleEventStream(b) /\ UNCHANGED vars

\* Goroutines are scheduled, delays and condition timeouts expire, and a handler
\* writes what is in its channel.  No browser has to leave, and nobody has to
\* start or stop a session.
WatcherHandled(c) ==
    /\ StreamNext(c) \/ StreamEnds(c)
    /\ UNCHANGED <<budget, feedVars>>
    /\ UNCHANGED sessionVars
    /\ UNCHANGED scenarioVars

SessionRuns(s) == s \in Known /\ Simulates(s)

Fairness ==
    /\ \A s \in Session : WF_consoleVars(SessionRuns(s))
    /\ \A c \in Watcher : WF_consoleVars(WatcherHandled(c))

ConsoleSpec == ConsoleInit /\ [][ConsoleNext]_consoleVars /\ Fairness

\* Every variable keeps the shape the Go types give it.
ConsoleTypeOK == TypeOK /\ FeedTypeOK

=============================================================================
