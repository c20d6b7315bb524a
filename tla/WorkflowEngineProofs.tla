------------------------ MODULE WorkflowEngineProofs ------------------------
(***************************************************************************)
(* Lemmas about the parts of WorkflowEngine that hold for every workflow,  *)
(* with or without human steps: threads and their names, and the typing of *)
(* the helpers the handlers are made of.                                   *)
(***************************************************************************)
EXTENDS WorkflowEngine, TLAPS

\* Every thread works on a workflow, a timer callback and a waiting goroutine on
\* one of its steps.
LEMMA ThreadNames ==
    /\ \A t \in Thread : t[2] \in Workflow
    /\ \A t \in Thread : t[1] \in {"start", "result", "response", "timer", "resume"}
    /\ \A t \in Thread : t[1] \in {"timer", "resume"} =>
          t[3] \in StepIndex(t[2]) /\ t[3] \in Nat /\ t = <<t[1], t[2], t[3]>>
    /\ \A t \in Thread : t[1] \in {"start", "result", "response"} => t = <<t[1], t[2]>>
    /\ \A w \in Workflow :
          <<"start", w>> \in Thread /\ <<"result", w>> \in Thread /\ <<"response", w>> \in Thread
    /\ \A w \in Workflow : \A k \in StepIndex(w) :
          <<"timer", w, k>> \in Thread /\ <<"resume", w, k>> \in Thread
<1>1. \A w \in Workflow : StepIndex(w) \subseteq Nat
  BY StepsAssumption DEF StepIndex
<1>2. SUFFICES ASSUME NEW t \in Thread
               PROVE  /\ t[2] \in Workflow
                      /\ t[1] \in {"start", "result", "response", "timer", "resume"}
                      /\ t[1] \in {"timer", "resume"} =>
                            t[3] \in StepIndex(t[2]) /\ t[3] \in Nat /\ t = <<t[1], t[2], t[3]>>
                      /\ t[1] \in {"start", "result", "response"} => t = <<t[1], t[2]>>
  BY DEF Thread
<1>3. CASE t \in {"start", "result", "response"} \X Workflow
  BY <1>3
<1>4. CASE t \in UNION {{"timer", "resume"} \X {w} \X StepIndex(w) : w \in Workflow}
  BY <1>1, <1>4
<1> QED  BY Zenon, <1>3, <1>4 DEF Thread

\* The consumers of step results and of responses.
LEMMA ConsumerNames ==
    /\ Consumer \subseteq Thread
    /\ \A w \in Workflow : <<"result", w>> \in Consumer /\ <<"response", w>> \in Consumer
BY Zenon DEF Consumer, Thread

-----------------------------------------------------------------------------
(* Typing of the helpers *)

\* The values a handler starts from, the changes it makes to them.
LEMMA ValuesTyped ==
    /\ NoState \in WorkflowState
    /\ NoLocals \in Locals
    /\ \A s \in WorkflowState, n \in Nat : [s EXCEPT !.rev = n] \in WorkflowState
    /\ \A l \in Locals, s \in WorkflowState : [l EXCEPT !.snap = s] \in Locals
    /\ \A l \in Locals, m \in ResultMessage : [l EXCEPT !.msg = m] \in Locals
    /\ \A l \in Locals, c \in ErrCode, k \in Nat :
          [l EXCEPT !.err = [code |-> c, step |-> k]] \in Locals
    /\ \A l \in Locals, k \in Nat : [l EXCEPT !.at = k] \in Locals
<1>1. NoState \in WorkflowState
  BY DEF NoState, WorkflowState, NoError, WorkflowError, ErrCode, Status
<1>2. NoLocals \in Locals
  BY Zenon, <1>1 DEF NoLocals, Locals, NoMessage, NoError, ResultMessage, WorkflowError, ErrCode
<1>3. \A s \in WorkflowState, n \in Nat : [s EXCEPT !.rev = n] \in WorkflowState
  BY Zenon DEF WorkflowState
<1>4. /\ \A l \in Locals, s \in WorkflowState : [l EXCEPT !.snap = s] \in Locals
      /\ \A l \in Locals, m \in ResultMessage : [l EXCEPT !.msg = m] \in Locals
      /\ \A l \in Locals, k \in Nat : [l EXCEPT !.at = k] \in Locals
  BY Zenon DEF Locals
<1>5. \A l \in Locals, c \in ErrCode, k \in Nat :
          [l EXCEPT !.err = [code |-> c, step |-> k]] \in Locals
  BY Zenon DEF Locals, WorkflowError
<1> QED  BY Zenon, <1>1, <1>2, <1>3, <1>4, <1>5

\* Whatever a handler writes is a workflow state.
LEMMA WritesTyped ==
    ASSUME NEW labels, EngineTypeOK(labels), NEW t \in Thread
    PROVE  /\ Snap(t) \in WorkflowState
           /\ Advanced(t) \in WorkflowState
           /\ [Advanced(t) EXCEPT !.status = "completed"] \in WorkflowState
           /\ [Snap(t) EXCEPT !.status = "failed", !.err = loc[t].err] \in WorkflowState
<1>1. loc[t] \in Locals
  BY Zenon DEF EngineTypeOK
<1>2. Snap(t) \in WorkflowState /\ loc[t].err \in WorkflowError /\ loc[t].msg \in ResultMessage
  BY Zenon, <1>1 DEF Locals, Snap
<1>3. [step |-> loc[t].msg.step, by |-> loc[t].msg.by] \in StepResult
  BY Zenon, <1>2 DEF ResultMessage, StepResult
<1>4. /\ Append(Snap(t).results, [step |-> loc[t].msg.step, by |-> loc[t].msg.by]) \in Seq(StepResult)
      /\ Snap(t).step + 1 \in Nat
  BY <1>2, <1>3 DEF WorkflowState
<1>5. Advanced(t) \in WorkflowState
  BY Zenon, <1>2, <1>4 DEF Advanced, WorkflowState
<1>6. [Advanced(t) EXCEPT !.status = "completed"] \in WorkflowState
  BY Zenon, <1>5 DEF WorkflowState, Status
<1>7. [Snap(t) EXCEPT !.status = "failed", !.err = loc[t].err] \in WorkflowState
  BY Zenon, <1>2 DEF WorkflowState, Status
<1> QED  BY Zenon, <1>2, <1>5, <1>6, <1>7

\* Moving, reading, writing, returning and the timer operations keep the types.
LEMMA HelpersTyped ==
    ASSUME NEW labels, EngineLabel \subseteq labels, EngineTypeOK(labels), NEW t \in Thread
    PROVE  /\ \A label \in labels : Goto(t, label) => pc' \in [Thread -> labels]
           /\ \A l \in Locals : [loc EXCEPT ![t] = l] \in [Thread -> Locals]
           /\ \A label \in labels, l \in Locals : Get(t, label, l) =>
                 pc' \in [Thread -> labels] /\ loc' \in [Thread -> Locals]
           /\ \A s \in WorkflowState : Update(t, s) => kv' \in [Workflow -> WorkflowState]
           /\ Leave(t) => pc' \in [Thread -> labels] /\ loc' \in [Thread -> Locals]
           /\ Acknowledge(t) =>
                 inbox' \in [Consumer -> SUBSET ResultMessage] /\ redelivered' \in Nat
           /\ Cancel(t[2]) => armed' \subseteq Timer /\ registered' \subseteq Timer
           /\ \A k \in Nat : Schedule(t[2], k) =>
                 armed' \subseteq Timer /\ registered' \subseteq Timer
<1>1. \A label \in labels : Goto(t, label) => pc' \in [Thread -> labels]
  BY Zenon DEF EngineTypeOK, Goto
<1>2. \A l \in Locals : [loc EXCEPT ![t] = l] \in [Thread -> Locals]
  BY Zenon DEF EngineTypeOK
<1>3. t[2] \in Workflow /\ kv[t[2]] \in WorkflowState
  BY Zenon, ThreadNames DEF EngineTypeOK
<1>4. \A label \in labels, l \in Locals : Get(t, label, l) =>
          pc' \in [Thread -> labels] /\ loc' \in [Thread -> Locals]
  <2> SUFFICES ASSUME NEW label \in labels, NEW l \in Locals, Get(t, label, l)
               PROVE  pc' \in [Thread -> labels] /\ loc' \in [Thread -> Locals]
    BY Zenon
  <2>1. [l EXCEPT !.snap = kv[t[2]]] \in Locals
    BY Zenon, <1>3, ValuesTyped
  <2> QED  BY Zenon, <1>1, <1>2, <2>1 DEF Get
<1>5. \A s \in WorkflowState : Update(t, s) => kv' \in [Workflow -> WorkflowState]
  <2> SUFFICES ASSUME NEW s \in WorkflowState, Update(t, s)
               PROVE  kv' \in [Workflow -> WorkflowState]
    BY Zenon
  <2>0. Snap(t) \in WorkflowState
    BY Zenon DEF EngineTypeOK, Locals, Snap
  <2>1. Snap(t).rev + 1 \in Nat
    BY <2>0 DEF WorkflowState
  <2>2. [s EXCEPT !.rev = Snap(t).rev + 1] \in WorkflowState
    BY Zenon, <2>1, ValuesTyped
  <2> QED  BY Zenon, <1>3, <2>2 DEF Update, EngineTypeOK
<1>6. Leave(t) => pc' \in [Thread -> labels] /\ loc' \in [Thread -> Locals]
  BY Zenon, <1>1, <1>2, ValuesTyped DEF Leave, EngineLabel
<1>7. Acknowledge(t) =>
          inbox' \in [Consumer -> SUBSET ResultMessage] /\ redelivered' \in Nat
  BY DEF Acknowledge, EngineTypeOK
<1>8. Cancel(t[2]) => armed' \subseteq Timer /\ registered' \subseteq Timer
  BY Zenon DEF Cancel, EngineTypeOK
<1>9. \A k \in Nat : Schedule(t[2], k) =>
          armed' \subseteq Timer /\ registered' \subseteq Timer
  BY <1>3 DEF Schedule, EngineTypeOK, Timer
<1> QED  BY Zenon, <1>1, <1>2, <1>4, <1>5, <1>6, <1>7, <1>8, <1>9

\* Every step of a handler keeps the types.  Only a timer callback reads the
\* third component of its name.
LEMMA ThreadTyped ==
    ASSUME NEW labels, EngineLabel \subseteq labels, EngineTypeOK(labels),
           NEW t \in Thread, pc[t] = "timeout" => t[1] = "timer",
           EngineThread(t)
    PROVE  EngineTypeOK(labels)'
<1> USE DEF EngineTypeOK, timerVars, memoryVars, busVars, boundVars
<1>0. /\ EngineTypeOK(labels) /\ t[2] \in Workflow
      /\ loc[t] \in Locals /\ loc[t].at \in Nat
      /\ loc[t].msg \in ResultMessage /\ loc[t].msg.step \in Nat
      /\ Snap(t) \in WorkflowState /\ Snap(t).step + 1 \in Nat
      /\ Snap(t).results \in Seq(StepResult)
  <2>1. loc[t] \in Locals /\ t[2] \in Workflow
    BY Zenon, ThreadNames
  <2>2. loc[t].at \in Nat /\ loc[t].msg \in ResultMessage /\ Snap(t) \in WorkflowState
    BY Zenon, <2>1 DEF Locals, Snap
  <2>3. loc[t].msg.step \in Nat
    BY Zenon, <2>2 DEF ResultMessage
  <2>4. Snap(t).step + 1 \in Nat /\ Snap(t).results \in Seq(StepResult)
    BY <2>2 DEF WorkflowState
  <2> HIDE DEF EngineTypeOK
  <2> QED  BY <2>1, <2>2, <2>3, <2>4, Zenon
<1>1. CASE CreateStream(t)
  <2>1. pc' \in [Thread -> labels]
    BY Zenon, <1>1, HelpersTyped DEF CreateStream, EngineLabel
  <2> QED  BY Zenon, <1>0, <1>1, <2>1 DEF CreateStream
<1>2. CASE SubscribeResults(t)
  <2>1. pc' \in [Thread -> labels]
    BY Zenon, <1>2, HelpersTyped DEF SubscribeResults, EngineLabel
  <2> QED  BY Zenon, <1>0, <1>2, <2>1 DEF SubscribeResults
<1>3. CASE DispatchStep(t)
  <2>1. [loc[t] EXCEPT !.err = [code |-> "AGENT_UNAVAILABLE", step |-> loc[t].at]] \in Locals
    BY Zenon, <1>0, ValuesTyped DEF ErrCode
  <2>2. pc' \in [Thread -> labels] /\ loc' \in [Thread -> Locals]
    BY Zenon, <1>0, <1>3, <2>1, HelpersTyped DEF DispatchStep, EngineLabel
  <2> QED  BY Zenon, <1>3, <2>2 DEF DispatchStep
<1>4. CASE AssignAgent(t)
  <2>1. CASE Unchanged(t) /\ Update(t, Snap(t)) /\ Goto(t, "routeStream")
             /\ UNCHANGED <<loc, inbox, redelivered>>
    <3>1. pc' \in [Thread -> labels] /\ kv' \in [Workflow -> WorkflowState]
      BY Zenon, <1>0, <2>1, HelpersTyped DEF EngineLabel
    <3> QED  BY Zenon, <1>4, <2>1, <3>1 DEF AssignAgent
  <2>2. CASE Return(t) /\ UNCHANGED kv
    <3>1. /\ pc' \in [Thread -> labels] /\ loc' \in [Thread -> Locals]
          /\ inbox' \in [Consumer -> SUBSET ResultMessage] /\ redelivered' \in Nat
      BY Zenon, <2>2, HelpersTyped DEF Return
    <3> QED  BY Zenon, <1>4, <2>2, <3>1 DEF AssignAgent
  <2> QED  BY Zenon, <1>4, <2>1, <2>2 DEF AssignAgent
<1>5. CASE RouteToStream(t)
  <2>1. pc' \in [Thread -> labels]
    BY Zenon, <1>5, HelpersTyped DEF RouteToStream, EngineLabel
  <2> QED  BY Zenon, <1>0, <1>5, <2>1 DEF RouteToStream
<1>6. CASE RouteToAgent(t)
  <2>1. pc' \in [Thread -> labels]
    BY Zenon, <1>6, HelpersTyped DEF RouteToAgent, EngineLabel
  <2>2. StepMessage(t) \in StepToAgent
    BY Zenon, <1>0 DEF StepMessage, StepToAgent
  <2> QED  BY Zenon, <1>6, <2>1, <2>2 DEF RouteToAgent
<1>7. CASE ScheduleTimeout(t)
  <2>1. /\ pc' \in [Thread -> labels] /\ loc' \in [Thread -> Locals]
        /\ inbox' \in [Consumer -> SUBSET ResultMessage] /\ redelivered' \in Nat
        /\ armed' \subseteq Timer /\ registered' \subseteq Timer
    BY Zenon, <1>0, <1>7, HelpersTyped DEF ScheduleTimeout, Return
  <2> QED  BY Zenon, <1>7, <2>1 DEF ScheduleTimeout
<1>8. CASE HandleStepResult(t)
  <2>1. /\ pc' \in [Thread -> labels] /\ loc' \in [Thread -> Locals]
        /\ inbox' \in [Consumer -> SUBSET ResultMessage] /\ redelivered' \in Nat
    BY Zenon, <1>0, <1>8, HelpersTyped DEF HandleStepResult, Return, EngineLabel
  <2> QED  BY Zenon, <1>8, <2>1 DEF HandleStepResult
<1>9. CASE AdvanceWorkflow(t)
  <2>1. /\ [loc[t] EXCEPT !.err = [code |-> "STEP_FAILED", step |-> loc[t].msg.step]] \in Locals
        /\ armed' \subseteq Timer /\ registered' \subseteq Timer
    BY Zenon, <1>0, <1>9, ValuesTyped, HelpersTyped DEF ErrCode, AdvanceWorkflow
  <2>2. pc' \in [Thread -> labels] /\ loc' \in [Thread -> Locals]
    BY Zenon, <1>0, <1>9, <2>1, HelpersTyped DEF AdvanceWorkflow, EngineLabel
  <2> QED  BY Zenon, <1>9, <2>1, <2>2 DEF AdvanceWorkflow
<1>10. CASE AdvanceUpdate(t)
  <2>1. CASE Update(t, Advanced(t)) /\ Goto(t, "dispatch")
             /\ loc' = [loc EXCEPT ![t].at = Snap(t).step + 1] /\ UNCHANGED <<inbox, redelivered>>
    <3>1. /\ pc' \in [Thread -> labels] /\ kv' \in [Workflow -> WorkflowState]
          /\ loc' \in [Thread -> Locals]
      BY Zenon, <1>0, <2>1, HelpersTyped, WritesTyped, ValuesTyped DEF EngineLabel
    <3> QED  BY Zenon, <1>10, <2>1, <3>1 DEF AdvanceUpdate
  <2>2. CASE Return(t) /\ UNCHANGED kv
    <3>1. /\ pc' \in [Thread -> labels] /\ loc' \in [Thread -> Locals]
          /\ inbox' \in [Consumer -> SUBSET ResultMessage] /\ redelivered' \in Nat
      BY Zenon, <2>2, HelpersTyped DEF Return
    <3> QED  BY Zenon, <1>10, <2>2, <3>1 DEF AdvanceUpdate
  <2> QED  BY Zenon, <1>10, <2>1, <2>2 DEF AdvanceUpdate
<1>11. CASE CompleteUpdate(t)
  <2>1. CASE Update(t, [Advanced(t) EXCEPT !.status = "completed"]) /\ Goto(t, "announceComplete") /\ UNCHANGED <<loc, inbox, redelivered>>
    <3>1. /\ pc' \in [Thread -> labels] /\ kv' \in [Workflow -> WorkflowState]
          /\ loc' \in [Thread -> Locals]
      BY Zenon, <1>0, <2>1, HelpersTyped, WritesTyped DEF EngineLabel
    <3> QED  BY Zenon, <1>11, <2>1, <3>1 DEF CompleteUpdate
  <2>2. CASE Return(t) /\ UNCHANGED kv
    <3>1. /\ pc' \in [Thread -> labels] /\ loc' \in [Thread -> Locals]
          /\ inbox' \in [Consumer -> SUBSET ResultMessage] /\ redelivered' \in Nat
      BY Zenon, <2>2, HelpersTyped DEF Return
    <3> QED  BY Zenon, <1>11, <2>2, <3>1 DEF CompleteUpdate
  <2> QED  BY Zenon, <1>11, <2>1, <2>2 DEF CompleteUpdate
<1>12. CASE FailWorkflow(t)
  <2>1. pc' \in [Thread -> labels] /\ armed' \subseteq Timer /\ registered' \subseteq Timer
    BY Zenon, <1>12, HelpersTyped DEF FailWorkflow, EngineLabel
  <2> QED  BY Zenon, <1>12, <2>1 DEF FailWorkflow
<1>13. CASE FailUpdate(t)
  <2>1. CASE Update(t, [Snap(t) EXCEPT !.status = "failed", !.err = loc[t].err]) /\ Goto(t, "announceFailed") /\ UNCHANGED <<loc, inbox, redelivered>>
    <3>1. /\ pc' \in [Thread -> labels] /\ kv' \in [Workflow -> WorkflowState]
          /\ loc' \in [Thread -> Locals]
      BY Zenon, <1>0, <2>1, HelpersTyped, WritesTyped DEF EngineLabel
    <3> QED  BY Zenon, <1>13, <2>1, <3>1 DEF FailUpdate
  <2>2. CASE Return(t) /\ UNCHANGED kv
    <3>1. /\ pc' \in [Thread -> labels] /\ loc' \in [Thread -> Locals]
          /\ inbox' \in [Consumer -> SUBSET ResultMessage] /\ redelivered' \in Nat
      BY Zenon, <2>2, HelpersTyped DEF Return
    <3> QED  BY Zenon, <1>13, <2>2, <3>1 DEF FailUpdate
  <2> QED  BY Zenon, <1>13, <2>1, <2>2 DEF FailUpdate
<1>14. CASE AnnounceComplete(t) \/ AnnounceFailed(t)
  <2>1. /\ pc' \in [Thread -> labels] /\ loc' \in [Thread -> Locals]
        /\ inbox' \in [Consumer -> SUBSET ResultMessage] /\ redelivered' \in Nat
    BY Zenon, <1>14, HelpersTyped DEF AnnounceComplete, AnnounceFailed, Announce, Return
  <2>2. published' \in [Workflow -> Seq(Outcome)]
    <3>1. PICK outcome \in Outcome :
             published' = [published EXCEPT ![t[2]] = Append(published[t[2]], outcome)]
      BY Zenon, <1>14 DEF AnnounceComplete, AnnounceFailed, Announce, Outcome
    <3>2. Append(published[t[2]], outcome) \in Seq(Outcome)
      BY <1>0
    <3> QED  BY Zenon, <1>0, <3>1, <3>2
  <2> QED  BY Zenon, <1>14, <2>1, <2>2 DEF AnnounceComplete, AnnounceFailed, Announce
<1>15. CASE DeleteTimerEntry(t)
  <2>1. pc' \in [Thread -> labels]
    BY Zenon, <1>15, HelpersTyped DEF DeleteTimerEntry, EngineLabel
  <2> QED  BY Zenon, <1>15, <2>1 DEF DeleteTimerEntry
<1>16. CASE StepTimeout(t)
  <2>1. t[3] \in Nat
    BY Zenon, <1>16, ThreadNames DEF StepTimeout
  <2>2. [loc[t] EXCEPT !.err = [code |-> "STEP_TIMEOUT", step |-> t[3]]] \in Locals
    BY Zenon, <1>0, <2>1, ValuesTyped DEF ErrCode
  <2>3. pc' \in [Thread -> labels] /\ loc' \in [Thread -> Locals]
    BY Zenon, <1>16, <2>2, HelpersTyped DEF StepTimeout, EngineLabel
  <2> QED  BY Zenon, <1>16, <2>3 DEF StepTimeout
<1> QED  BY Zenon, <1>1, <1>2, <1>3, <1>4, <1>5, <1>6, <1>7, <1>8, <1>9, <1>10, <1>11,
            <1>12, <1>13, <1>14, <1>15, <1>16 DEF EngineThread

\* What happens to the engine from outside keeps the types: handlers start,
\* timers fire, calls fail, agents reply, the process crashes.
LEMMA EnvironmentTyped ==
    ASSUME NEW labels, EngineLabel \subseteq labels, EngineTypeOK(labels),
           EngineEnvironment \/ CrashEngine
    PROVE  EngineTypeOK(labels)'
<1> USE DEF EngineTypeOK, timerVars, memoryVars, busVars, boundVars
<1>1. ASSUME NEW w \in Workflow, HandleWorkflowStart(w)
      PROVE  EngineTypeOK(labels)'
  <2>1. pc' \in [Thread -> labels]
    BY Zenon, <1>1, ThreadNames, HelpersTyped DEF HandleWorkflowStart, EngineLabel
  <2>2. [NoState EXCEPT !.status = "running", !.rev = 1] \in WorkflowState
    BY Zenon, ValuesTyped DEF WorkflowState, Status
  <2>3. kv' \in [Workflow -> WorkflowState]
    BY Zenon, <1>1, <2>2 DEF HandleWorkflowStart
  <2> QED  BY Zenon, <1>1, <2>1, <2>3 DEF HandleWorkflowStart
<1>2. ASSUME NEW w \in Workflow, NEW m \in inbox[<<"result", w>>], ReceiveStepResult(w, m)
      PROVE  EngineTypeOK(labels)'
  <2>1. <<"result", w>> \in Thread /\ m \in ResultMessage
    BY Zenon, ThreadNames, ConsumerNames
  <2>2. [loc[<<"result", w>>] EXCEPT !.msg = m] \in Locals
    BY Zenon, <2>1, ValuesTyped
  <2>3. pc' \in [Thread -> labels] /\ loc' \in [Thread -> Locals]
    BY Zenon, <1>2, <2>1, <2>2, HelpersTyped DEF ReceiveStepResult, EngineLabel
  <2> QED  BY Zenon, <1>2, <2>3 DEF ReceiveStepResult
<1>3. ASSUME NEW w \in Workflow, NEW k \in StepIndex(w), TimerFires(w, k)
      PROVE  EngineTypeOK(labels)'
  <2>1. pc' \in [Thread -> labels]
    BY Zenon, <1>3, ThreadNames, HelpersTyped DEF TimerFires, EngineLabel
  <2> QED  BY Zenon, <1>3, <2>1 DEF TimerFires
<1>4. ASSUME NEW t \in Thread, CallFails(t)
      PROVE  EngineTypeOK(labels)'
  <2>1. /\ pc' \in [Thread -> labels] /\ loc' \in [Thread -> Locals]
        /\ inbox' \in [Consumer -> SUBSET ResultMessage] /\ redelivered' \in Nat
    BY Zenon, <1>4, HelpersTyped DEF CallFails, ReturnError, Return
  <2> QED  BY <1>4, <2>1 DEF CallFails
<1>5. ASSUME NEW t \in Thread, RouteToMissingAgent(t)
      PROVE  EngineTypeOK(labels)'
  <2>1. pc' \in [Thread -> labels]
    BY Zenon, <1>5, HelpersTyped DEF RouteToMissingAgent, EngineLabel
  <2> QED  BY <1>5, <2>1 DEF RouteToMissingAgent
<1>6. ASSUME NEW m \in direct, NEW status \in {"success", "failure"}, AgentReplies(m, status)
      PROVE  EngineTypeOK(labels)'
  <2>1. <<"result", m.w>> \in Consumer
    BY Zenon, ConsumerNames DEF StepToAgent
  <2>2. [step |-> m.step, status |-> status, by |-> "agent"] \in ResultMessage
    BY Zenon DEF StepToAgent, ResultMessage
  <2>3. inbox' \in [Consumer -> SUBSET ResultMessage]
    BY Zenon, <1>6, <2>1, <2>2 DEF AgentReplies
  <2>4. direct' \subseteq StepToAgent /\ redelivered' \in Nat
    BY <1>6 DEF AgentReplies
  <2> QED  BY Zenon, <1>6, <2>3, <2>4 DEF AgentReplies
<1>7. ASSUME CrashEngine
      PROVE  EngineTypeOK(labels)'
  BY <1>7, ValuesTyped DEF CrashEngine, EngineLabel
<1> QED  BY Zenon, <1>1, <1>2, <1>3, <1>4, <1>5, <1>6, <1>7 DEF EngineEnvironment

-----------------------------------------------------------------------------
(* What the helpers leave alone *)

\* Moving, reading and returning concern thread t alone, and acknowledging only
\* takes from t's own messages.
LEMMA HelpersMove ==
    ASSUME NEW labels, EngineTypeOK(labels), NEW t \in Thread
    PROVE  /\ \A label : Goto(t, label) =>
                 pc'[t] = label /\ \A u \in Thread \ {t} : pc'[u] = pc[u]
           /\ \A l : loc' = [loc EXCEPT ![t] = l] =>
                 loc'[t] = l /\ \A u \in Thread \ {t} : loc'[u] = loc[u]
           /\ Acknowledge(t) => \A c \in Consumer \ {t} : inbox'[c] = inbox[c]
<1>1. \A label : Goto(t, label) =>
          pc'[t] = label /\ \A u \in Thread \ {t} : pc'[u] = pc[u]
  BY Zenon DEF EngineTypeOK, Goto
<1>2. \A l : loc' = [loc EXCEPT ![t] = l] =>
          loc'[t] = l /\ \A u \in Thread \ {t} : loc'[u] = loc[u]
  BY Zenon DEF EngineTypeOK
<1>3. Acknowledge(t) => \A c \in Consumer \ {t} : inbox'[c] = inbox[c]
  BY Zenon DEF EngineTypeOK, Acknowledge
<1> QED  BY Zenon, <1>1, <1>2, <1>3

=============================================================================
