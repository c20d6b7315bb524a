----------------------------- MODULE Simulation -----------------------------
(***************************************************************************)
(* Replays, scenarios and the browsers that follow them, on one runtime    *)
(* and one SIMULATION stream.                                              *)
(***************************************************************************)
EXTENDS ReplayEngine, ScenarioEngine

ASSUME SimulationAssumption == Session = Replay \cup ScenarioRun /\ Replay \cap ScenarioRun = {}

vars == <<clients, terminal, channel, closed, shown, unaware, stream,
          state, total, count, pc, cancelled, heard, stored, written, asked,
          overrun, budget,
          checked, registered>>

Init ==
    /\ WatcherInit
    /\ SessionInit
    /\ checked = {}
    /\ registered = {}

ReplayStep(s) ==
    /\ CreateSession(s) \/ StartSession(s) \/ RunSession(s)
    /\ UNCHANGED scenarioVars

Cancel(s) == (RequestEnds(s) \/ StopSession(s)) /\ UNCHANGED scenarioVars

Stream(c) ==
    /\ \/ c \in budget.watchers /\ WatchSession(c, Known)
       \/ StreamNext(c) \/ StreamEnds(c) \/ BrowserLeaves(c)
    /\ UNCHANGED budget
    /\ UNCHANGED sessionVars
    /\ UNCHANGED scenarioVars

Next ==
    \/ \E s \in Replay : ReplayStep(s)
    \/ \E s \in ScenarioRun : StartScenario(s) \/ ExecuteScenario(s)
    \/ \E d \in Definition : CheckName(d) \/ StoreDefinition(d)
    \/ \E t \in EventType : InjectEvent(t)
    \/ \E s \in Session : Cancel(s)
    \/ \E c \in Watcher : Stream(c)

Spec == Init /\ [][Next]_vars

\* Every variable keeps the shape the Go types give it.
TypeOK ==
    /\ WatcherTypeOK
    /\ SessionTypeOK
    /\ checked \subseteq Definition
    /\ registered \subseteq Definition

-----------------------------------------------------------------------------

\* The count a session reports is never ahead of the SIMULATION stream and at
\* most one event behind it, the one whose publish failed or is not recorded
\* yet.  A completed session has published everything it loaded.
CountsStored ==
    \A s \in Session :
        /\ count[s] <= stored[s] /\ stored[s] <= count[s] + 1
        /\ stored[s] <= total[s]
        /\ state[s] = "completed" => count[s] = total[s] /\ stored[s] = total[s]

\* A stop that StopSession accepted lets at most one more event through, and one
\* that comes after the last event changes nothing.  The outcome need not be
\* stopped: a call that fails, or the last event, may come first.
StopCutsShort ==
    \A s \in asked :
        /\ overrun[s] <= 1
        /\ state[s] = "completed" => stored[s] = total[s]

\* The state of a session that has ended never changes, and neither does its
\* count, although the session's goroutine, StopSession and the end of the
\* request race.
OutcomeIsFinal ==
    [][\A s \in Session : state[s] \in Outcome =>
          /\ state'[s] = state[s]
          /\ count'[s] = count[s]
          /\ terminal[s] # Unfinished => terminal'[s] = terminal[s]]_vars

\* When a channel is closed, the state the session ended in is the last thing in
\* it, unless the channel was full; a watcher that comes later is told the same.
\* So a browser whose stream ends by itself knows how the session ended.
EndIsTold ==
    \A c \in closed \ unaware : stream[c] \in {"open", "over"} =>
        LET told == shown[c] \o channel[c] IN
        /\ told # <<>>
        /\ told[Len(told)] = Notify(state[Following[c]], count[Following[c]])

\* A session that was started ends: no delay, failing call or condition that is
\* never met keeps its goroutine for ever.  Then its watchers are released, those
\* that came after its end included: no browser's stream stays open on a session
\* that is over.
SessionsEnd ==
    /\ \A s \in Session : state[s] # "none" ~> terminal[s] # Unfinished
    /\ \A c \in Watcher : stream[c] = "open" ~> stream[c] # "open"

=============================================================================
