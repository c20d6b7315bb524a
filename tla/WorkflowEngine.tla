--------------------------- MODULE WorkflowEngine ---------------------------
(***************************************************************************)
(* The workflow engine of core/workflow: one action per step of its        *)
(* handlers, split wherever another goroutine can run in between (a KV     *)
(* read, a KV compare-and-swap, a publish, a timer operation).             *)
(*                                                                         *)
(* A thread is one activation of a handler and is named by a tuple whose   *)
(* second component is the workflow it works on:                           *)
(*   <<"start", w>>     the consumer of workflow.start                     *)
(*   <<"result", w>>    the consumer of w's step results                   *)
(*   <<"response", w>>  the consumer of human.decision.response            *)
(*   <<"timer", w, k>>  the callback of the timeout scheduled for step k   *)
(*   <<"resume", w, k>> the goroutine waiting for a human decision on k    *)
(* Every nested call of these handlers is a tail call, so a program        *)
(* counter and a record of locals per thread are enough.                   *)
(*                                                                         *)
(* This module has no Next: AgentWorkflow (steps done by agents only) and  *)
(* HumanWorkflow (with the decision coordinator) compose its actions.      *)
(***************************************************************************)
EXTENDS Integers, Sequences

CONSTANTS
    Workflow,         \* workflow ids that startWorkflow may generate
    StepsOf,          \* w -> the sequence of its steps: "agent" or "human"
    MaxFaults,        \* bound: bus and KV calls that fail, agents that vanish
    MaxRedeliveries,  \* bound: messages delivered again after being handled
    MaxCrashes        \* bound: crashes of the runtime process

ASSUME StepsAssumption ==
    StepsOf \in [Workflow -> Seq({"agent", "human"})]

ASSUME BoundsAssumption ==
    MaxFaults \in Nat /\ MaxRedeliveries \in Nat /\ MaxCrashes \in Nat

VARIABLES
    kv,          \* the workflow-state bucket: w -> WorkflowState with revision
    pc,          \* thread -> where it is
    loc,         \* thread -> its local variables
    armed,       \* <<w, k>>: timers that are running (not stopped, not fired)
    registered,  \* <<w, k>>: the entries of StepTimeoutManager.timers
    active,      \* WorkflowStreamManager.active
    subscribed,  \* workflows whose step results the engine consumes
    direct,      \* workflow.step messages not yet taken by an agent
    inbox,       \* consumer -> messages it has not acknowledged
    published,   \* w -> terminal events published so far, in order
    faults, redelivered, crashes

busVars    == <<direct, inbox, published, redelivered>>
timerVars  == <<armed, registered>>
memoryVars == <<active, subscribed>>
boundVars  == <<faults, crashes>>
engineVars == <<kv, pc, loc, timerVars, memoryVars, busVars, boundVars>>

-----------------------------------------------------------------------------
(* Data *)

MaxSteps == 100

\* workflowDefinitionFromProto accepts between 1 and 100 steps.
ValidDefinition(def) == Len(def) \in 1..MaxSteps

StepIndex(w) == 0..(Len(StepsOf[w]) - 1)

Thread ==
    ({"start", "result", "response"} \X Workflow)
    \cup UNION {{"timer", "resume"} \X {w} \X StepIndex(w) : w \in Workflow}

\* The consumers whose messages are modelled one by one.
Consumer == {"result", "response"} \X Workflow

Status   == {"none", "running", "waiting", "completed", "failed"}
Terminal == {"completed", "failed"}
Outcome  == {"workflow.complete", "workflow.failed"}
ErrCode  == {"", "AGENT_UNAVAILABLE", "STEP_FAILED", "STEP_TIMEOUT",
             "DECISION_REJECTED", "DECISION_TIMEOUT"}

\* A recorded StepResult keeps the step it reports and who reported it.  A
\* message from a human is a decision response: "success" approves the step.
StepResult    == [step : Nat, by : {"agent", "human"}]
ResultMessage == [step : Nat, status : {"success", "failure"}, by : {"agent", "human"}]
WorkflowError == [code : ErrCode, step : Nat]


\* A decision is named by the step it is requested for: dispatchStep runs at
\* most once for a step, so this is as good as the generated decision id.
Decision        == Workflow \X Nat
PendingDecision == [step : Nat, conflicts : SUBSET Decision]

\* pd is {} for a nil PendingDecision.  The bucket's revisions only matter for
\* equality, so each key counts its own writes.
WorkflowState == [status : Status, step : Nat, results : Seq(StepResult),
                  err : WorkflowError, pd : SUBSET PendingDecision, rev : Nat]

NoError   == [code |-> "", step |-> 0]
NoState   == [status |-> "none", step |-> 0, results |-> <<>>,
              err |-> NoError, pd |-> {}, rev |-> 0]
NoMessage == [step |-> 0, status |-> "success", by |-> "agent"]

\* Locals of a handler: the step it dispatches, the state it has read, the
\* result it handles, the error it is about to store.
NoLocals == [at |-> 0, snap |-> NoState, msg |-> NoMessage, err |-> NoError]

-----------------------------------------------------------------------------
(* Helpers of the handlers *)

Steps(t) == StepsOf[t[2]]
Snap(t)  == loc[t].snap
Goto(t, label) == pc' = [pc EXCEPT ![t] = label]

\* KVWorkflowStateStore.Get: the state is copied with its revision.
Get(t, label, locals) ==
    /\ Goto(t, label)
    /\ loc' = [loc EXCEPT ![t] = [locals EXCEPT !.snap = kv[t[2]]]]

\* Mutant: a plain Put.
AlwaysCurrent(t) == TRUE

\* KVWorkflowStateStore.Update: a compare-and-swap on the revision read.
Unchanged(t) == kv[t[2]].rev = Snap(t).rev
Update(t, state) ==
    kv' = [kv EXCEPT ![t[2]] = [state EXCEPT !.rev = Snap(t).rev + 1]]

Leave(t) ==
    /\ Goto(t, "idle")
    /\ loc' = [loc EXCEPT ![t] = NoLocals]

\* The bus acknowledges the message a consumer has handled.  An ack that is
\* lost or late makes JetStream deliver the message again.
Acknowledge(t) ==
    \/ /\ t \in Consumer
       /\ inbox' = [inbox EXCEPT ![t] = @ \ {loc[t].msg}]
       /\ UNCHANGED redelivered
    \/ /\ t \in Consumer
       /\ redelivered < MaxRedeliveries
       /\ redelivered' = redelivered + 1
       /\ UNCHANGED inbox
    \/ /\ t \notin Consumer
       /\ UNCHANGED <<inbox, redelivered>>

\* The handler returns nil.
Return(t) == Leave(t) /\ Acknowledge(t)

\* The handler returns an error: a consumer's message is Nak'ed and stays.
ReturnError(t) ==
    /\ Leave(t)
    /\ UNCHANGED <<inbox, redelivered>>

\* StepTimeoutManager.Schedule: the registered timer is stopped, a new one runs.
Entry(w) == {x \in registered : x[1] = w}
Schedule(w, k) ==
    /\ armed' = (armed \ Entry(w)) \cup {<<w, k>>}
    /\ registered' = (registered \ Entry(w)) \cup {<<w, k>>}

\* StepTimeoutManager.Cancel
Cancel(w) ==
    /\ armed' = armed \ Entry(w)
    /\ registered' = registered \ Entry(w)

-----------------------------------------------------------------------------
(* Starting a workflow *)

\* handleWorkflowStart and the first half of startWorkflow: a valid definition
\* gets a fresh id and its initial state.  The consumer handles one message at
\* a time.  A Nak'ed workflow.start is delivered again and gets another id.
HandleWorkflowStart(w) ==
    /\ \A v \in Workflow : pc[<<"start", v>>] = "idle"
    /\ kv[w].status = "none"
    /\ ValidDefinition(StepsOf[w])
    /\ kv' = [kv EXCEPT ![w] = [NoState EXCEPT !.status = "running", !.rev = 1]]
    /\ Goto(<<"start", w>>, "stream")
    /\ UNCHANGED <<loc, timerVars, memoryVars, busVars, boundVars>>

\* WorkflowStreamManager.GetOrCreateStream
CreateStream(t) ==
    /\ pc[t] = "stream"
    /\ active' = active \cup {t[2]}
    /\ Goto(t, "subscribe")
    /\ UNCHANGED <<kv, loc, timerVars, subscribed, busVars, boundVars>>

\* SubscribeWithStream on the workflow's step results
SubscribeResults(t) ==
    /\ pc[t] = "subscribe"
    /\ subscribed' = subscribed \cup {t[2]}
    /\ Goto(t, "dispatch")
    /\ UNCHANGED <<kv, loc, timerVars, active, busVars, boundVars>>

-----------------------------------------------------------------------------
(* dispatchStep *)

\* The state is read again; a human step goes to the coordinator, a step that
\* no agent can do fails the workflow, any other is assigned.  Neither the
\* status nor the current step of the state just read is looked at.
DispatchStep(t) ==
    /\ pc[t] = "dispatch"
    /\ LET k == loc[t].at IN
       IF Steps(t)[k + 1] = "human"
       THEN Get(t, "requestDecision", loc[t])
       ELSE \/ Get(t, "assign", loc[t])
            \/ Get(t, "fail", [loc[t] EXCEPT !.err =
                                  [code |-> "AGENT_UNAVAILABLE", step |-> k]])
    /\ UNCHANGED <<kv, timerVars, memoryVars, busVars, boundVars>>

\* The assigned agent is stored; losing the compare-and-swap ends the dispatch.
AssignAgent(t) ==
    /\ pc[t] = "assign"
    /\ \/ /\ Unchanged(t)
          /\ Update(t, Snap(t))
          /\ Goto(t, "routeStream")
          /\ UNCHANGED <<loc, inbox, redelivered>>
       \/ /\ ~Unchanged(t)
          /\ Return(t)
          /\ UNCHANGED kv
    /\ UNCHANGED <<timerVars, memoryVars, direct, published, boundVars>>

\* The copy of workflow.step for the workflow's own stream, which the router
\* registers again if it is not tracked any more.
RouteToStream(t) ==
    /\ pc[t] = "routeStream"
    /\ active' = active \cup {t[2]}
    /\ Goto(t, "routeDirect")
    /\ UNCHANGED <<kv, loc, timerVars, subscribed, busVars, boundVars>>

\* The copy for the agent carries the results in the state that was read.
StepMessage(t) ==
    [w |-> t[2], step |-> loc[t].at, prev |-> Snap(t).results]

RouteToAgent(t) ==
    /\ pc[t] = "routeDirect"
    /\ direct' = direct \cup {StepMessage(t)}
    /\ Goto(t, "schedule")
    /\ UNCHANGED <<kv, loc, timerVars, memoryVars, inbox, published,
                   redelivered, boundVars>>

\* The agent has left the registry since it was looked up: the router reports
\* ROUTER_TARGET_NOT_FOUND and returns nil.
RouteToMissingAgent(t) ==
    /\ pc[t] = "routeDirect"
    /\ faults < MaxFaults
    /\ faults' = faults + 1
    /\ Goto(t, "schedule")
    /\ UNCHANGED <<kv, loc, timerVars, memoryVars, busVars, crashes>>

ScheduleTimeout(t) ==
    /\ pc[t] = "schedule"
    /\ Schedule(t[2], loc[t].at)
    /\ Return(t)
    /\ UNCHANGED <<kv, memoryVars, direct, published, boundVars>>

-----------------------------------------------------------------------------
(* Step results *)

\* The result consumer of w takes a message; its previous one is settled.
ReceiveStepResult(w, m) ==
    LET t == <<"result", w>> IN
    /\ pc[t] = "idle"
    /\ w \in subscribed
    /\ m \in inbox[t]
    /\ Goto(t, "result")
    /\ loc' = [loc EXCEPT ![t].msg = m]
    /\ UNCHANGED <<kv, timerVars, memoryVars, busVars, boundVars>>

\* handleWorkflowStepResult: results for terminal workflows are dropped.
HandleStepResult(t) ==
    /\ pc[t] = "result"
    /\ \/ /\ kv[t[2]].status \in Terminal
          /\ Return(t)
       \/ /\ kv[t[2]].status \notin Terminal
          /\ Get(t, "advance", loc[t])
          /\ UNCHANGED <<inbox, redelivered>>
    /\ UNCHANGED <<kv, timerVars, memoryVars, direct, published, boundVars>>

\* Mutant: off by one in the test for more steps.
AdvancePastLast(t) ==
    /\ pc[t] = "advance"
    /\ Cancel(t[2])
    /\ loc[t].msg.status = "success"
    /\ Goto(t, IF Snap(t).step < Len(Steps(t)) THEN "advanceUpdate" ELSE "completeUpdate")
    /\ UNCHANGED <<kv, loc, memoryVars, busVars, boundVars>>

\* advanceWorkflow up to its writes: the timeout is cancelled first.
AdvanceWorkflow(t) ==
    /\ pc[t] = "advance"
    /\ Cancel(t[2])
    /\ \/ /\ loc[t].msg.status = "failure"
          /\ Goto(t, "fail")
          /\ loc' = [loc EXCEPT ![t].err = [code |-> "STEP_FAILED",
                                            step |-> loc[t].msg.step]]
       \/ /\ loc[t].msg.status = "success"
          /\ Goto(t, IF Snap(t).step + 1 < Len(Steps(t))
                     THEN "advanceUpdate" ELSE "completeUpdate")
          /\ UNCHANGED loc
    /\ UNCHANGED <<kv, memoryVars, busVars, boundVars>>

\* The result is appended and the step counter incremented in one write.
Advanced(t) ==
    [Snap(t) EXCEPT
        !.results = Append(@, [step |-> loc[t].msg.step, by |-> loc[t].msg.by]),
        !.step = @ + 1]

\* Mutants: the old step index is dispatched; nothing is dispatched.
AdvanceSameStep(t) ==
    /\ pc[t] = "advanceUpdate"
    /\ Unchanged(t)
    /\ Update(t, Advanced(t))
    /\ Goto(t, "dispatch")
    /\ loc' = [loc EXCEPT ![t].at = Snap(t).step]
    /\ UNCHANGED <<timerVars, memoryVars, busVars, boundVars>>

AdvanceOnly(t) ==
    /\ pc[t] = "advanceUpdate"
    /\ Update(t, Advanced(t))
    /\ Return(t)
    /\ UNCHANGED <<timerVars, memoryVars, direct, published, boundVars>>

AdvanceUpdate(t) ==
    /\ pc[t] = "advanceUpdate"
    /\ \/ /\ Unchanged(t)
          /\ Update(t, Advanced(t))
          /\ Goto(t, "dispatch")
          /\ loc' = [loc EXCEPT ![t].at = Snap(t).step + 1]
          /\ UNCHANGED <<inbox, redelivered>>
       \/ /\ ~Unchanged(t)
          /\ Return(t)
          /\ UNCHANGED kv
    /\ UNCHANGED <<timerVars, memoryVars, direct, published, boundVars>>

\* completeWorkflow
CompleteUpdate(t) ==
    /\ pc[t] = "completeUpdate"
    /\ \/ /\ Unchanged(t)
          /\ Update(t, [Advanced(t) EXCEPT !.status = "completed"])
          /\ Goto(t, "announceComplete")
          /\ UNCHANGED <<loc, inbox, redelivered>>
       \/ /\ ~Unchanged(t)
          /\ Return(t)
          /\ UNCHANGED kv
    /\ UNCHANGED <<timerVars, memoryVars, direct, published, boundVars>>

-----------------------------------------------------------------------------
(* Failure *)

\* failWorkflowWithError cancels the timeout before it knows whether its write
\* will succeed.
FailWorkflow(t) ==
    /\ pc[t] = "fail"
    /\ Cancel(t[2])
    /\ Goto(t, "failUpdate")
    /\ UNCHANGED <<kv, loc, memoryVars, busVars, boundVars>>

FailUpdate(t) ==
    /\ pc[t] = "failUpdate"
    /\ \/ /\ Unchanged(t)
          /\ Update(t, [Snap(t) EXCEPT !.status = "failed", !.err = loc[t].err])
          /\ Goto(t, "announceFailed")
          /\ UNCHANGED <<loc, inbox, redelivered>>
       \/ /\ ~Unchanged(t)
          /\ Return(t)
          /\ UNCHANGED kv
    /\ UNCHANGED <<timerVars, memoryVars, direct, published, boundVars>>

\* The terminal event is published on the workflow's stream, then the stream
\* is dropped from the registry.
Announce(t, label, outcome) ==
    /\ pc[t] = label
    /\ published' = [published EXCEPT ![t[2]] = Append(@, outcome)]
    /\ active' = active \ {t[2]}
    /\ Return(t)
    /\ UNCHANGED <<kv, timerVars, subscribed, direct, boundVars>>

AnnounceComplete(t) == Announce(t, "announceComplete", "workflow.complete")
AnnounceFailed(t)   == Announce(t, "announceFailed", "workflow.failed")

-----------------------------------------------------------------------------
(* Step timeouts *)

\* The runtime timer expires and its goroutine starts: Stop no longer has an
\* effect on it.
TimerFires(w, k) ==
    LET t == <<"timer", w, k>> IN
    /\ <<w, k>> \in armed
    /\ armed' = armed \ {<<w, k>>}
    /\ Goto(t, "fired")
    /\ UNCHANGED <<kv, loc, registered, memoryVars, busVars, boundVars>>

\* The goroutine deletes whatever entry the workflow has in the map.
DeleteTimerEntry(t) ==
    /\ pc[t] = "fired"
    /\ registered' = registered \ Entry(t[2])
    /\ Goto(t, "timeout")
    /\ UNCHANGED <<kv, loc, armed, memoryVars, busVars, boundVars>>

\* Mutant: the status is not checked.
TimeoutAnyStatus(t) ==
    /\ pc[t] = "timeout"
    /\ Steps(t)[t[3] + 1] = "agent"
    /\ Get(t, "fail", [loc[t] EXCEPT !.err = [code |-> "STEP_TIMEOUT", step |-> t[3]]])
    /\ UNCHANGED <<kv, timerVars, memoryVars, busVars, boundVars>>

\* The callback of an agent step: only a running workflow is failed, whatever
\* step it is at.
StepTimeout(t) ==
    /\ pc[t] = "timeout"
    /\ Steps(t)[t[3] + 1] = "agent"
    /\ \/ /\ kv[t[2]].status = "running"
          /\ Get(t, "fail", [loc[t] EXCEPT !.err =
                                [code |-> "STEP_TIMEOUT", step |-> t[3]]])
       \/ /\ kv[t[2]].status # "running"
          /\ Leave(t)
    /\ UNCHANGED <<kv, timerVars, memoryVars, busVars, boundVars>>

-----------------------------------------------------------------------------
(* What the engine does when a call fails *)

\* The error of these calls is returned to the bus (or dropped by a callback).
ReturnsError == {"stream", "subscribe", "dispatch", "routeStream", "routeDirect",
                 "result", "announceComplete", "announceFailed", "timeout"}

\* A failed Update is indistinguishable from a lost compare-and-swap.
TakenForConflict == {"assign", "advanceUpdate", "completeUpdate", "failUpdate"}

CallFails(t) ==
    /\ faults < MaxFaults
    /\ faults' = faults + 1
    /\ \/ pc[t] \in ReturnsError /\ ReturnError(t)
       \/ pc[t] \in TakenForConflict /\ Return(t)
    /\ UNCHANGED <<kv, timerVars, memoryVars, direct, published, crashes>>

-----------------------------------------------------------------------------
(* Environment *)

\* An agent that takes a workflow.step message publishes its result.  When the
\* message is delivered to it again it may publish a second result.
AgentReplies(m, status) ==
    /\ m \in direct
    /\ inbox' = [inbox EXCEPT ![<<"result", m.w>>] =
                    @ \cup {[step |-> m.step, status |-> status, by |-> "agent"]}]
    /\ \/ /\ direct' = direct \ {m}
          /\ UNCHANGED redelivered
       \/ /\ redelivered < MaxRedeliveries
          /\ redelivered' = redelivered + 1
          /\ UNCHANGED direct
    /\ UNCHANGED <<kv, pc, loc, timerVars, memoryVars, published, boundVars>>

\* The runtime process crashes and starts again: the bucket and the streams
\* survive; goroutines, timers, the stream registry and the subscriptions to
\* step results do not, and WorkflowEngine.Start brings none of them back.
CrashEngine ==
    /\ crashes < MaxCrashes
    /\ crashes' = crashes + 1
    /\ pc' = [t \in Thread |-> "idle"]
    /\ loc' = [t \in Thread |-> NoLocals]
    /\ armed' = {} /\ registered' = {}
    /\ active' = {} /\ subscribed' = {}
    /\ UNCHANGED <<kv, busVars, faults>>

-----------------------------------------------------------------------------
EngineInit ==
    /\ kv = [w \in Workflow |-> NoState]
    /\ pc = [t \in Thread |-> "idle"]
    /\ loc = [t \in Thread |-> NoLocals]
    /\ armed = {} /\ registered = {}
    /\ active = {} /\ subscribed = {}
    /\ direct = {}
    /\ inbox = [t \in Consumer |-> {}]
    /\ published = [w \in Workflow |-> <<>>]
    /\ faults = 0 /\ redelivered = 0 /\ crashes = 0

\* The next step of a handler that has been started.
EngineThread(t) ==
    \/ CreateStream(t) \/ SubscribeResults(t)
    \/ DispatchStep(t) \/ AssignAgent(t) \/ RouteToStream(t) \/ RouteToAgent(t)
    \/ ScheduleTimeout(t)
    \/ HandleStepResult(t) \/ AdvanceWorkflow(t) \/ AdvanceUpdate(t)
    \/ CompleteUpdate(t) \/ FailWorkflow(t) \/ FailUpdate(t)
    \/ AnnounceComplete(t) \/ AnnounceFailed(t)
    \/ DeleteTimerEntry(t) \/ StepTimeout(t)

\* A handler is started, a call fails, an agent leaves or answers.
EngineEnvironment ==
    \/ \E w \in Workflow :
          \/ HandleWorkflowStart(w)
          \/ \E m \in inbox[<<"result", w>>] : ReceiveStepResult(w, m)
          \/ \E k \in StepIndex(w) : TimerFires(w, k)
    \/ \E t \in Thread : CallFails(t) \/ RouteToMissingAgent(t)
    \/ \E m \in direct, status \in {"success", "failure"} : AgentReplies(m, status)

-----------------------------------------------------------------------------
EngineLabel ==
    {"idle", "stream", "subscribe", "dispatch", "requestDecision", "assign",
     "routeStream", "routeDirect", "schedule", "result", "advance",
     "advanceUpdate", "completeUpdate", "fail", "failUpdate",
     "announceComplete", "announceFailed", "fired", "timeout"}

Locals      == [at : Nat, snap : WorkflowState, msg : ResultMessage, err : WorkflowError]
StepToAgent == [w : Workflow, step : Nat, prev : Seq(StepResult)]
Timer       == Workflow \X Nat

EngineTypeOK(labels) ==
    /\ kv \in [Workflow -> WorkflowState]
    /\ pc \in [Thread -> labels]
    /\ loc \in [Thread -> Locals]
    /\ armed \subseteq Timer
    /\ registered \subseteq Timer
    /\ active \subseteq Workflow
    /\ subscribed \subseteq Workflow
    /\ direct \subseteq StepToAgent
    /\ inbox \in [Consumer -> SUBSET ResultMessage]
    /\ published \in [Workflow -> Seq(Outcome)]
    /\ faults \in Nat /\ redelivered \in Nat /\ crashes \in Nat

=============================================================================
