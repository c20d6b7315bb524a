--------------------------- MODULE ScenarioEngine ---------------------------
(***************************************************************************)
(* Scenarios: definitions registered under a name, and sessions that       *)
(* inject the events of a definition into the SIMULATION stream, waiting   *)
(* after a step for an event of the type its condition names.              *)
(***************************************************************************)
EXTENDS SimulationSession

CONSTANTS
    ScenarioRun,    \* the sessions that run a scenario
    Definition,     \* registration requests for scenario definitions
    DefinitionOf,   \* the definition each session runs
    NameOf          \* the name in each definition

ASSUME ScenarioAssumption ==
    /\ ScenarioRun \subseteq Session
    /\ DefinitionOf \in [ScenarioRun -> Definition]
    /\ DOMAIN NameOf = Definition

VARIABLES
    checked,    \* requests that have found their name free
    registered  \* the definitions in the engine's map

scenarioVars == <<checked, registered>>

-----------------------------------------------------------------------------
(* RegisterScenario: the name is looked up, then the definition is stored *)

CheckName(d) ==
    /\ d \notin checked \cup registered
    /\ \A e \in registered : NameOf[e] # NameOf[d]
    /\ checked' = checked \cup {d}
    /\ UNCHANGED registered
    /\ UNCHANGED budget
    /\ UNCHANGED sessionVars
    /\ UNCHANGED watcherVars

StoreDefinition(d) ==
    /\ d \in checked
    /\ checked' = checked \ {d}
    /\ registered' = registered \cup {d}
    /\ UNCHANGED budget
    /\ UNCHANGED sessionVars
    /\ UNCHANGED watcherVars

\* A session is running from the moment it is stored.
StartScenario(s) ==
    /\ state[s] = "none"
    /\ s \in budget.sessions
    /\ DefinitionOf[s] \in registered
    /\ SetState(s, "running")
    /\ total' = [total EXCEPT ![s] = Len(Script[s])]
    /\ Goto(s, "announce")
    /\ UNCHANGED <<count, cancelled, heard, stored, written, asked, overrun, budget>>
    /\ UNCHANGED scenarioVars
    /\ UNCHANGED watcherVars

\* handleInject: one event, outside any session.
InjectEvent(t) ==
    /\ Spend("injections")
    /\ Deliver(t)
    /\ UNCHANGED <<state, total, count, pc, cancelled, stored, asked, overrun>>
    /\ UNCHANGED scenarioVars
    /\ UNCHANGED watcherVars

-----------------------------------------------------------------------------
(* executeScenario *)

AnnounceScenario(s) ==
    /\ pc[s] = "announce"
    /\ Coordinate("start", s \in cancelled)
    /\ Goto(s, "check")
    /\ UNCHANGED <<state, total, count, cancelled, stored, asked, overrun, budget>>
    /\ UNCHANGED scenarioVars
    /\ UNCHANGED watcherVars

ScenarioNext(s) ==
    IF count[s] = total[s]
    THEN Goto(s, "announceEnd") /\ SetState(s, "completed")
    ELSE IF s \in cancelled
    THEN Goto(s, "announceEnd") /\ SetState(s, "stopped")
    ELSE Goto(s, IF Current(s).delay THEN "delay" ELSE "publish") /\ UNCHANGED state

CheckScenario(s) ==
    /\ pc[s] = "check"
    /\ ScenarioNext(s)
    /\ UNCHANGED <<total, count, cancelled, heard, stored, written, asked, overrun, budget>>
    /\ UNCHANGED scenarioVars
    /\ UNCHANGED watcherVars

DelayScenario(s) ==
    /\ pc[s] = "delay"
    /\ \/ Goto(s, "publish") /\ UNCHANGED state
       \/ s \in cancelled /\ Goto(s, "announceEnd") /\ SetState(s, "stopped")
    /\ UNCHANGED <<total, count, cancelled, heard, stored, written, asked, overrun, budget>>
    /\ UNCHANGED scenarioVars
    /\ UNCHANGED watcherVars

Inject(s) ==
    /\ pc[s] = "publish"
    /\ \/ Succeeds(s) /\ Store(s) /\ Goto(s, "record") /\ UNCHANGED state
       \/ /\ Fails(s)
          /\ Store(s) \/ NotStored
          /\ Goto(s, "announceEnd")
          /\ SetState(s, "failed")
    /\ UNCHANGED <<total, count, cancelled, asked>>
    /\ UNCHANGED scenarioVars
    /\ UNCHANGED watcherVars

RecordInjected(s) ==
    /\ pc[s] = "record"
    /\ count' = [count EXCEPT ![s] = @ + 1]
    /\ Goto(s, "coordinate")
    /\ UNCHANGED <<state, total, cancelled, heard, stored, written, asked, overrun, budget>>
    /\ UNCHANGED scenarioVars
    /\ UNCHANGED watcherVars

AnnounceInjected(s) ==
    /\ pc[s] = "coordinate"
    /\ Coordinate("inject_event", s \in cancelled)
    /\ Goto(s, "notify")
    /\ UNCHANGED <<state, total, count, cancelled, stored, asked, overrun, budget>>
    /\ UNCHANGED scenarioVars
    /\ UNCHANGED watcherVars

\* The step just recorded.
Done(s) == Script[s][count[s]]

BroadcastScenarioEvent(s) ==
    /\ pc[s] = "notify"
    /\ Broadcast(s, Notify("event", count[s]))
    /\ Goto(s, IF Done(s).expects = "none" THEN "check" ELSE "subscribe")
    /\ UNCHANGED <<state, total, count, cancelled, heard, stored, written, asked, overrun, budget>>
    /\ UNCHANGED scenarioVars

-----------------------------------------------------------------------------
(* waitForCondition *)

\* The consumer is created after the step's event is in the stream, and receives
\* only what is stored from now on.
CreateConditionConsumer(s) ==
    /\ pc[s] = "subscribe"
    /\ \/ Succeeds(s) /\ Goto(s, "wait") /\ UNCHANGED state
       \/ Fails(s) /\ Goto(s, "announceEnd") /\ SetState(s, "failed")
    /\ UNCHANGED <<total, count, cancelled, heard, stored, written, asked, overrun>>
    /\ UNCHANGED scenarioVars
    /\ UNCHANGED watcherVars

\* Any event of the expected type will do, whichever session it belongs to.
ConditionMet(s) ==
    /\ pc[s] = "wait"
    /\ Done(s).expects \in heard[s]
    /\ heard' = [heard EXCEPT ![s] = {}]
    /\ Goto(s, "check")
    /\ UNCHANGED <<state, total, count, cancelled, stored, written, asked, overrun, budget>>
    /\ UNCHANGED scenarioVars
    /\ UNCHANGED watcherVars

\* Mutant: the condition has no timeout.
ConditionWaits(s) ==
    /\ pc[s] = "wait"
    /\ s \in cancelled /\ heard[s] # {}
    /\ heard' = [heard EXCEPT ![s] = {}]
    /\ SetState(s, "failed")
    /\ Goto(s, "announceEnd")
    /\ UNCHANGED <<total, count, cancelled, stored, written, asked, overrun, budget>>
    /\ UNCHANGED scenarioVars
    /\ UNCHANGED watcherVars

\* The timeout expires; a cancelled session fails in the same way, at the next
\* event that is not the expected one or at the timeout.
ConditionFails(s) ==
    /\ pc[s] = "wait"
    /\ heard' = [heard EXCEPT ![s] = {}]
    /\ SetState(s, "failed")
    /\ Goto(s, "announceEnd")
    /\ UNCHANGED <<total, count, cancelled, stored, written, asked, overrun, budget>>
    /\ UNCHANGED scenarioVars
    /\ UNCHANGED watcherVars

-----------------------------------------------------------------------------
(* terminateSession: the state is set first, then the end is announced *)

AnnounceScenarioEnd(s) ==
    /\ pc[s] = "announceEnd"
    /\ Coordinate("stop", FALSE)
    /\ Goto(s, "terminate")
    /\ UNCHANGED <<state, total, count, cancelled, stored, asked, overrun, budget>>
    /\ UNCHANGED scenarioVars
    /\ UNCHANGED watcherVars

BroadcastScenarioEnd(s) ==
    /\ pc[s] = "terminate"
    /\ Terminate(s, Notify(state[s], count[s]))
    /\ Goto(s, "done")
    /\ UNCHANGED <<state, total, count, cancelled, heard, stored, written, asked, overrun, budget>>
    /\ UNCHANGED scenarioVars

ExecuteScenario(s) ==
    \/ AnnounceScenario(s) \/ CheckScenario(s) \/ DelayScenario(s) \/ Inject(s)
    \/ RecordInjected(s) \/ AnnounceInjected(s) \/ BroadcastScenarioEvent(s)
    \/ CreateConditionConsumer(s) \/ ConditionMet(s) \/ ConditionFails(s)
    \/ AnnounceScenarioEnd(s) \/ BroadcastScenarioEnd(s)

=============================================================================
