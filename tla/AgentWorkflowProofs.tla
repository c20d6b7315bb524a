------------------------- MODULE AgentWorkflowProofs -------------------------
(***************************************************************************)
(* The safety properties of AgentWorkflow, for any set of workflows, any   *)
(* number of agent steps and any bounds on faults.                         *)
(*                                                                         *)
(* The argument: what a step of handler t does to the shared state is      *)
(* summed up once (StepEffect: it writes or announces only what the state  *)
(* it has read allows, and disturbs nobody else's messages), and that      *)
(* summary, not the actions, keeps the other handlers (OthersKept), the    *)
(* beginnings of workflows (BeginningsKept) and the records (RecordsKept). *)
(* What is left for each action is its own handler (ActorKept).            *)
(***************************************************************************)
EXTENDS AgentWorkflow, WorkflowEngineProofs

-----------------------------------------------------------------------------
(* Effect of a step *)

\* Only t moves.
Moves(t) == \A u \in Thread \ {t} : pc'[u] = pc[u] /\ loc'[u] = loc[u]

\* The four kinds of write: a new revision with the same content, a failure, a
\* recorded result, the last result.
SameRecord(t, s) == s.step = kv[t[2]].step /\ s.results = kv[t[2]].results
OneMoreResult(t, s) ==
    /\ t[1] = "result"
    /\ kv[t[2]].status = "running"
    /\ s.step = kv[t[2]].step + 1
    /\ Len(s.results) = Len(kv[t[2]].results) + 1

Writes(t, s) ==
    /\ kv' = [kv EXCEPT ![t[2]] = s]
    /\ s.rev = kv[t[2]].rev + 1
    /\ \/ s.status = kv[t[2]].status /\ SameRecord(t, s)
       \/ /\ s.status = "failed" /\ kv[t[2]].status \in {"running", "failed"}
          /\ SameRecord(t, s)
       \/ s.status = "running" /\ OneMoreResult(t, s) /\ s.step < Len(Steps(t))
       \/ s.status = "completed" /\ OneMoreResult(t, s) /\ s.step = Len(Steps(t))

Announces(t, outcome) ==
    /\ published' = [published EXCEPT ![t[2]] = Append(@, outcome)]
    /\ \/ /\ outcome = "workflow.complete" /\ t[1] = "result"
          /\ kv[t[2]].status = "completed" /\ published[t[2]] = <<>>
       \/ outcome = "workflow.failed" /\ kv[t[2]].status = "failed"

Effect(t) ==
    \/ kv' = kv /\ published' = published
    \/ published' = published /\ \E s \in WorkflowState : Writes(t, s)
    \/ kv' = kv /\ \E outcome \in Outcome : Announces(t, outcome)

\* What t may do to messages, subscriptions and timers.
Bus(t) ==
    /\ pc[t] # "idle"
    /\ \A c \in Consumer \ {t} : inbox'[c] = inbox[c]
    /\ \A m \in direct' \ direct :
          /\ m.w = t[2] /\ Len(m.prev) = m.step
          /\ t[1] \in {"start", "result"} /\ pc'[t] \notin NotSent
    /\ subscribed' \subseteq subscribed \cup {t[2]}
    /\ \A x \in armed' \ armed : x[1] = t[2]
    /\ pc'[t] \in NotSent => pc[t] \in NotSent \/ t[1] = "result"

HandlerStep(t) == EngineThread(t) \/ CallFails(t) \/ RouteToMissingAgent(t)

\* A handler that may write in a branch is of the kind the branch needs.
LEMMA RolesOfLabels ==
    ASSUME InductiveInvariant, NEW t \in Thread
    PROVE  /\ pc[t] = "timeout" => t[1] = "timer"
           /\ pc[t] \in {"stream", "subscribe"} => t[1] = "start"
           /\ pc[t] \in NotSent => t[1] \in {"start", "result"}
           /\ pc[t] \in {"result", "advance", "advanceUpdate", "completeUpdate",
                         "announceComplete"} => t[1] = "result"
           /\ pc[t] # "requestDecision"
BY Zenon, ThreadNames DEF InductiveInvariant, Roles, StartLabel, ResultLabel, TimerLabel, NotSent

\* The types are kept.
LEMMA TypeKept ==
    ASSUME InductiveInvariant, [Next]_vars
    PROVE  TypeOK'
<1>1. EngineTypeOK(EngineLabel)
  BY Zenon DEF InductiveInvariant, TypeOK
<1>2. CASE UNCHANGED vars
  BY Zenon, <1>1, <1>2 DEF TypeOK, EngineTypeOK, vars, engineVars, timerVars, memoryVars, busVars, boundVars
<1>3. ASSUME NEW t \in Thread, EngineThread(t)
      PROVE  TypeOK'
  <2>1. pc[t] = "timeout" => t[1] = "timer"
    BY Zenon, RolesOfLabels
  <2> QED  BY Zenon, <1>1, <1>3, <2>1, ThreadTyped DEF TypeOK
<1>4. CASE EngineEnvironment \/ CrashEngine
  BY Zenon, <1>1, <1>4, EnvironmentTyped DEF TypeOK
<1> QED  BY Zenon, <1>2, <1>3, <1>4 DEF Next

\* What the invariant says of handler t and its workflow.
LEMMA OfHandler ==
    ASSUME InductiveInvariant, NEW t \in Thread
    PROVE  /\ EngineTypeOK(EngineLabel)
           /\ t[2] \in Workflow /\ Len(Steps(t)) \in Nat
           /\ kv[t[2]] \in WorkflowState
           /\ loc[t] \in Locals /\ Snap(t) \in WorkflowState
           /\ Roles(t) /\ StateRead(t) /\ StateStored(t) /\ Beginning(t[2])
           /\ kv[t[2]].step = Len(kv[t[2]].results)
           /\ kv[t[2]].status \in {"running", "failed"} => kv[t[2]].step < Len(Steps(t))
<1>1. EngineTypeOK(EngineLabel) /\ t[2] \in Workflow
  BY Zenon, ThreadNames DEF InductiveInvariant, TypeOK
<1>2. kv[t[2]] \in WorkflowState /\ loc[t] \in Locals
  BY Zenon, <1>1 DEF EngineTypeOK
<1>3. Snap(t) \in WorkflowState
  BY Zenon, <1>2 DEF Snap, Locals
<1>4. Len(Steps(t)) \in Nat
  BY <1>1, StepsAssumption DEF Steps
<1> QED  BY Zenon, <1>1, <1>2, <1>3, <1>4 DEF InductiveInvariant, RecordsMatchStatus, Steps

\* A write whose compare-and-swap succeeds is built on the stored state.
LEMMA CurrentWrite ==
    ASSUME InductiveInvariant, NEW t \in Thread, pc[t] \in HoldsState, Unchanged(t)
    PROVE  Snap(t) = kv[t[2]]
BY Zenon, OfHandler DEF StateRead, Unchanged

\* What a handler writes is a workflow state with the next revision.
LEMMA RevisedTyped ==
    ASSUME InductiveInvariant, NEW t \in Thread
    PROVE  LET revised(s) == [s EXCEPT !.rev = Snap(t).rev + 1] IN
           /\ revised(Advanced(t)) \in WorkflowState
           /\ revised([Advanced(t) EXCEPT !.status = "completed"]) \in WorkflowState
           /\ revised([Snap(t) EXCEPT !.status = "failed", !.err = loc[t].err]) \in WorkflowState
<1>1. Snap(t).rev + 1 \in Nat
  BY OfHandler DEF WorkflowState
<1>2. /\ Advanced(t) \in WorkflowState
      /\ [Advanced(t) EXCEPT !.status = "completed"] \in WorkflowState
      /\ [Snap(t) EXCEPT !.status = "failed", !.err = loc[t].err] \in WorkflowState
  BY Zenon, OfHandler, WritesTyped
<1> QED  BY Zenon, <1>1, <1>2, ValuesTyped

\* A step of a handler has one of the effects above.
LEMMA StepEffect ==
    ASSUME InductiveInvariant, NEW t \in Thread, HandlerStep(t)
    PROVE  Moves(t) /\ Effect(t) /\ Bus(t)
<1> USE DEF timerVars, memoryVars, busVars, boundVars
<1>0. /\ EngineTypeOK(EngineLabel) /\ Roles(t) /\ StateRead(t) /\ StateStored(t)
  BY Zenon, OfHandler
<1>1. CASE CreateStream(t)
  BY Zenon, <1>0, <1>1, HelpersMove DEF CreateStream, Moves, Effect, Bus, NotSent
<1>2. CASE SubscribeResults(t)
  BY Zenon, <1>0, <1>2, HelpersMove DEF SubscribeResults, Moves, Effect, Bus, NotSent
<1>3. CASE DispatchStep(t)
  BY Zenon, <1>0, <1>3, HelpersMove DEF DispatchStep, Get, Moves, Effect, Bus, NotSent
<1>4. CASE AssignAgent(t)
  <2>1. CASE Unchanged(t) /\ Update(t, Snap(t)) /\ Goto(t, "routeStream")
             /\ UNCHANGED <<loc, inbox, redelivered>>
    <3>1. Snap(t) = kv[t[2]]
      BY Zenon, <1>4, <2>1, CurrentWrite DEF AssignAgent, HoldsState
    <3>2. \E s \in WorkflowState : Writes(t, s)
      <4> DEFINE s == [Snap(t) EXCEPT !.rev = Snap(t).rev + 1]
      <4>1. s \in WorkflowState /\ s.rev = kv[t[2]].rev + 1
            /\ s.status = kv[t[2]].status /\ SameRecord(t, s)
        BY <3>1, OfHandler DEF WorkflowState, SameRecord
      <4> QED  BY Zenon, <2>1, <4>1 DEF Writes, Update
    <3> QED  BY Zenon, <1>0, <1>4, <2>1, <3>2, HelpersMove DEF AssignAgent, Moves, Effect, Bus, NotSent
  <2>2. CASE Return(t) /\ UNCHANGED kv
    BY Zenon, <1>0, <1>4, <2>2, HelpersMove DEF AssignAgent, Return, Leave, Moves, Effect, Bus, NotSent
  <2> QED  BY Zenon, <1>4, <2>1, <2>2 DEF AssignAgent
<1>5. CASE RouteToStream(t)
  BY Zenon, <1>0, <1>5, HelpersMove DEF RouteToStream, Moves, Effect, Bus, NotSent
<1>6. CASE RouteToAgent(t)
  <2>1. StepMessage(t).w = t[2] /\ Len(StepMessage(t).prev) = StepMessage(t).step
    BY Zenon, <1>0, <1>6 DEF RouteToAgent, StepMessage, StateRead
  <2>2. t[1] \in {"start", "result"}
    BY Zenon, <1>6, RolesOfLabels DEF RouteToAgent, NotSent
  <2> QED  BY <1>0, <1>6, <2>1, <2>2, HelpersMove DEF RouteToAgent, Moves, Effect, Bus, NotSent
<1>7. CASE ScheduleTimeout(t)
  BY <1>0, <1>7, HelpersMove DEF ScheduleTimeout, Schedule, Return, Leave, Moves, Effect, Bus, NotSent
<1>8. CASE HandleStepResult(t)
  BY <1>0, <1>8, HelpersMove DEF HandleStepResult, Get, Return, Leave, Moves, Effect, Bus, NotSent
<1>9. CASE AdvanceWorkflow(t)
  BY <1>0, <1>9, HelpersMove DEF AdvanceWorkflow, Cancel, Moves, Effect, Bus, NotSent
<1>10. CASE AdvanceUpdate(t)
  <2>1. CASE Unchanged(t) /\ Update(t, Advanced(t)) /\ Goto(t, "dispatch")
             /\ loc' = [loc EXCEPT ![t].at = Snap(t).step + 1]
             /\ UNCHANGED <<inbox, redelivered>>
    <3>1. Snap(t) = kv[t[2]] /\ t[1] = "result"
      BY Zenon, <1>10, <2>1, CurrentWrite, RolesOfLabels DEF AdvanceUpdate, HoldsState
    <3>2. \E s \in WorkflowState : Writes(t, s)
      <4> DEFINE s == [Advanced(t) EXCEPT !.rev = Snap(t).rev + 1]
      <4>1. Snap(t).status = "running" /\ Snap(t).step + 1 < Len(Steps(t))
        BY Zenon, <1>0, <1>10 DEF AdvanceUpdate, StateRead
      <4>2. s \in WorkflowState
        BY Zenon, RevisedTyped
      <4>3. s.rev = kv[t[2]].rev + 1 /\ s.status = "running" /\ s.step = kv[t[2]].step + 1
            /\ Len(s.results) = Len(kv[t[2]].results) + 1
        BY <3>1, <4>1, OfHandler DEF Advanced, WorkflowState
      <4> QED  BY Zenon, <2>1, <3>1, <4>1, <4>2, <4>3 DEF Writes, Update, OneMoreResult
    <3> QED  BY <1>0, <1>10, <2>1, <3>1, <3>2, HelpersMove
             DEF AdvanceUpdate, Moves, Effect, Bus, NotSent
  <2>2. CASE Return(t) /\ UNCHANGED kv
    BY <1>0, <1>10, <2>2, HelpersMove DEF AdvanceUpdate, Return, Leave, Moves, Effect, Bus, NotSent
  <2> QED  BY Zenon, <1>10, <2>1, <2>2 DEF AdvanceUpdate
<1>11. CASE CompleteUpdate(t)
  <2>1. CASE Unchanged(t) /\ Update(t, [Advanced(t) EXCEPT !.status = "completed"])
             /\ Goto(t, "announceComplete") /\ UNCHANGED <<loc, inbox, redelivered>>
    <3>1. Snap(t) = kv[t[2]] /\ t[1] = "result"
      BY Zenon, <1>11, <2>1, CurrentWrite, RolesOfLabels DEF CompleteUpdate, HoldsState
    <3>2. \E s \in WorkflowState : Writes(t, s)
      <4> DEFINE s == [[Advanced(t) EXCEPT !.status = "completed"] EXCEPT !.rev = Snap(t).rev + 1]
      <4>1. Snap(t).status = "running" /\ Snap(t).step + 1 = Len(Steps(t))
        BY <1>0, <1>11, <3>1, OfHandler DEF CompleteUpdate, StateRead, WorkflowState
      <4>2. s \in WorkflowState
        BY Zenon, RevisedTyped
      <4>3. s.rev = kv[t[2]].rev + 1 /\ s.status = "completed" /\ s.step = kv[t[2]].step + 1
            /\ Len(s.results) = Len(kv[t[2]].results) + 1
        BY <3>1, <4>1, OfHandler DEF Advanced, WorkflowState
      <4> QED  BY Zenon, <2>1, <3>1, <4>1, <4>2, <4>3 DEF Writes, Update, OneMoreResult
    <3> QED  BY Zenon, <1>0, <1>11, <2>1, <3>1, <3>2, HelpersMove
             DEF CompleteUpdate, Moves, Effect, Bus, NotSent
  <2>2. CASE Return(t) /\ UNCHANGED kv
    BY <1>0, <1>11, <2>2, HelpersMove DEF CompleteUpdate, Return, Leave, Moves, Effect, Bus, NotSent
  <2> QED  BY Zenon, <1>11, <2>1, <2>2 DEF CompleteUpdate
<1>12. CASE FailWorkflow(t)
  BY <1>0, <1>12, HelpersMove DEF FailWorkflow, Cancel, Moves, Effect, Bus, NotSent
<1>13. CASE FailUpdate(t)
  <2>1. CASE Unchanged(t) /\ Update(t, [Snap(t) EXCEPT !.status = "failed", !.err = loc[t].err])
             /\ Goto(t, "announceFailed") /\ UNCHANGED <<loc, inbox, redelivered>>
    <3>1. Snap(t) = kv[t[2]]
      BY Zenon, <1>13, <2>1, CurrentWrite DEF FailUpdate, HoldsState
    <3>2. \E s \in WorkflowState : Writes(t, s)
      <4> DEFINE s == [[Snap(t) EXCEPT !.status = "failed", !.err = loc[t].err]
                          EXCEPT !.rev = Snap(t).rev + 1]
      <4>1. Snap(t).status \in {"running", "failed"}
        BY Zenon, <1>0, <1>13 DEF FailUpdate, StateRead
      <4>2. s \in WorkflowState
        BY Zenon, RevisedTyped
      <4>3. s.rev = kv[t[2]].rev + 1 /\ s.status = "failed" /\ SameRecord(t, s)
        BY Zenon, <3>1, OfHandler DEF WorkflowState, SameRecord
      <4> QED  BY Zenon, <2>1, <3>1, <4>1, <4>2, <4>3 DEF Writes, Update
    <3> QED  BY <1>0, <1>13, <2>1, <3>2, HelpersMove DEF FailUpdate, Moves, Effect, Bus, NotSent
  <2>2. CASE Return(t) /\ UNCHANGED kv
    BY <1>0, <1>13, <2>2, HelpersMove DEF FailUpdate, Return, Leave, Moves, Effect, Bus, NotSent
  <2> QED  BY Zenon, <1>13, <2>1, <2>2 DEF FailUpdate
<1>14. CASE AnnounceComplete(t) \/ AnnounceFailed(t)
  <2>1. kv' = kv /\ \E outcome \in Outcome : Announces(t, outcome)
    BY Zenon, <1>0, <1>14, RolesOfLabels
    DEF AnnounceComplete, AnnounceFailed, Announce, Announces, Outcome, StateStored
  <2>2. Return(t) /\ pc[t] # "idle" /\ UNCHANGED <<direct, subscribed, armed>>
    BY Zenon, <1>14 DEF AnnounceComplete, AnnounceFailed, Announce
  <2>3. Moves(t) /\ Bus(t)
    BY <1>0, <2>2, HelpersMove DEF Return, Leave, Moves, Bus, NotSent
  <2> QED  BY Zenon, <2>1, <2>3 DEF Effect
<1>15. CASE DeleteTimerEntry(t)
  BY <1>0, <1>15, HelpersMove DEF DeleteTimerEntry, Moves, Effect, Bus, NotSent
<1>16. CASE StepTimeout(t)
  BY <1>0, <1>16, HelpersMove DEF StepTimeout, Get, Leave, Moves, Effect, Bus, NotSent
<1>17. CASE CallFails(t)
  BY <1>0, <1>17, HelpersMove
  DEF CallFails, ReturnsError, TakenForConflict, ReturnError, Return, Leave, Moves, Effect, Bus, NotSent
<1>18. CASE RouteToMissingAgent(t)
  BY Zenon, <1>0, <1>18, HelpersMove DEF RouteToMissingAgent, Moves, Effect, Bus, NotSent
<1> QED  BY Zenon, <1>1, <1>2, <1>3, <1>4, <1>5, <1>6, <1>7, <1>8, <1>9, <1>10, <1>11, <1>12,
            <1>13, <1>14, <1>15, <1>16, <1>17, <1>18 DEF HandlerStep, EngineThread

-----------------------------------------------------------------------------
(* What a step leaves true *)

\* The handlers that do not take the step: a write makes the states they hold
\* outdated, and none of them is at a point that the write contradicts.
LEMMA OthersKept ==
    ASSUME InductiveInvariant, NEW t \in Thread, Moves(t), Effect(t), Bus(t),
           NEW u \in Thread, u # t
    PROVE  Roles(u)' /\ StateRead(u)' /\ StateStored(u)'
<1>0. /\ Roles(u) /\ StateRead(u) /\ StateStored(u)
      /\ pc'[u] = pc[u] /\ loc'[u] = loc[u]
      /\ t[2] \in Workflow /\ u[2] \in Workflow
      /\ kv \in [Workflow -> WorkflowState] /\ published \in [Workflow -> Seq(Outcome)]
      /\ Snap(u) \in WorkflowState
  BY Zenon, OfHandler DEF Moves, EngineTypeOK
<1>1. Roles(u)'
  BY Zenon, <1>0 DEF Roles
<1>2. CASE kv'[u[2]] = kv[u[2]] /\ published'[u[2]] = published[u[2]]
  <2>1. StateRead(u)'
    BY Zenon, <1>0, <1>2 DEF StateRead, Snap, Steps
  <2>2. StateStored(u)'
    BY Zenon, <1>0, <1>2 DEF StateStored
  <2> QED  BY Zenon, <1>1, <2>1, <2>2
<1>3. ASSUME u[2] = t[2], published' = published, NEW s \in WorkflowState, Writes(t, s)
      PROVE  StateRead(u)' /\ StateStored(u)'
  <2>0. kv'[u[2]] = s /\ kv[u[2]] \in WorkflowState
    BY Zenon, <1>0, <1>3 DEF Writes
  <2>1. StateRead(u)'
    <3>1. s.rev = kv[u[2]].rev + 1 /\ s.rev \in Nat /\ kv[u[2]].rev \in Nat /\ Snap(u).rev \in Nat
      BY Zenon, <1>0, <1>3, <2>0 DEF Writes, WorkflowState
    <3>2. Snap(u)' = Snap(u) /\ pc'[u] = pc[u] /\ loc'[u] = loc[u]
      BY Zenon, <1>0 DEF Snap
    <3> QED  BY <1>0, <2>0, <3>1, <3>2 DEF StateRead, Steps
  <2>2. pc[u] \in NotSent => t[1] # "result"
    <3> SUFFICES ASSUME pc[u] \in NotSent, t[1] = "result"
                 PROVE  FALSE
      BY Zenon
    <3>1. t = <<"result", t[2]>> /\ u[1] \in {"start", "result"}
      BY Zenon, ThreadNames, RolesOfLabels
    <3>2. u = <<"start", t[2]>>
      BY Zenon, <1>3, <3>1, ThreadNames
    <3>3. pc[<<"result", t[2]>>] = "idle"
      BY Zenon, <1>0, <3>2 DEF InductiveInvariant, Beginning, NothingSent
    <3> QED  BY Zenon, <3>1, <3>3 DEF Bus
  <2>3. StateStored(u)'
    <3>1. CASE SameRecord(t, s) /\ s.status = kv[t[2]].status
      BY Zenon, <1>0, <1>3, <2>0, <3>1 DEF StateStored, SameRecord
    <3>2. CASE SameRecord(t, s) /\ s.status = "failed" /\ kv[t[2]].status \in {"running", "failed"}
      BY Zenon, <1>0, <1>3, <2>0, <3>2 DEF StateStored, SameRecord
    <3>3. CASE OneMoreResult(t, s) /\ s.status \in {"running", "completed"}
      BY Zenon, <1>0, <1>3, <2>0, <2>2, <3>3 DEF StateStored, OneMoreResult, NotSent
    <3> QED  BY Zenon, <1>3, <3>1, <3>2, <3>3 DEF Writes
  <2> QED  BY Zenon, <2>1, <2>3
<1>4. ASSUME u[2] = t[2], kv' = kv, NEW outcome \in Outcome, Announces(t, outcome)
      PROVE  StateRead(u)' /\ StateStored(u)'
  <2>1. StateRead(u)'
    BY Zenon, <1>0, <1>4 DEF StateRead, Snap, Steps
  <2>2. pc[u] # "announceComplete"
    <3> SUFFICES ASSUME pc[u] = "announceComplete"
                 PROVE  FALSE
      BY Zenon
    <3>1. t[1] = "result" /\ u[1] = "result"
      BY Zenon, <1>0, <1>4, RolesOfLabels DEF StateStored, Announces
    <3> QED  BY <1>4, <3>1, ThreadNames
  <2>3. StateStored(u)'
    BY Zenon, <1>0, <1>4, <2>2 DEF StateStored
  <2> QED  BY Zenon, <2>1, <2>3
<1>5. u[2] # t[2] => kv'[u[2]] = kv[u[2]] /\ published'[u[2]] = published[u[2]]
  BY Zenon, <1>0 DEF Effect, Writes, Announces
<1> QED  BY Zenon, <1>1, <1>2, <1>3, <1>4, <1>5 DEF Effect

\* The records and the announcements.
LEMMA RecordsKept ==
    ASSUME InductiveInvariant, NEW t \in Thread, Effect(t)
    PROVE  RecordsMatchStatus' /\ OutcomesAgree'
<1>0. /\ t[2] \in Workflow /\ Beginning(t[2])
      /\ kv \in [Workflow -> WorkflowState] /\ published \in [Workflow -> Seq(Outcome)]
      /\ RecordsMatchStatus /\ OutcomesAgree
      /\ \A w \in Workflow : Len(StepsOf[w]) \in Nat
  BY OfHandler, StepsAssumption DEF EngineTypeOK, InductiveInvariant
<1>1. CASE kv' = kv /\ published' = published
  BY Zenon, <1>0, <1>1 DEF RecordsMatchStatus, OutcomesAgree
<1>2. ASSUME published' = published, NEW s \in WorkflowState, Writes(t, s)
      PROVE  RecordsMatchStatus' /\ OutcomesAgree'
  <2>0. kv'[t[2]] = s /\ \A w \in Workflow \ {t[2]} : kv'[w] = kv[w]
    BY Zenon, <1>0, <1>2 DEF Writes
  <2>1. /\ s.step = Len(s.results)
        /\ s.status \in {"running", "failed"} => s.step < Len(StepsOf[t[2]])
        /\ s.status = "completed" => s.step = Len(StepsOf[t[2]])
    BY Zenon, <1>0, <1>2 DEF Writes, SameRecord, OneMoreResult, RecordsMatchStatus, Steps, WorkflowState
  <2>2. RecordsMatchStatus'
    BY Zenon, <1>0, <2>0, <2>1 DEF RecordsMatchStatus
  <2>3. /\ \A i \in DOMAIN published[t[2]] :
              \/ published[t[2]][i] = "workflow.complete" /\ s.status = "completed"
              \/ published[t[2]][i] = "workflow.failed" /\ s.status = "failed"
        /\ s.status = "completed" => Len(published[t[2]]) <= 1
    <3>1. CASE s.status = kv[t[2]].status
      BY Zenon, <1>0, <3>1 DEF OutcomesAgree
    <3>2. CASE kv[t[2]].status = "running"
      <4>1. published[t[2]] = <<>>
        BY Zenon, <1>0, <3>2 DEF Beginning
      <4> QED  BY <4>1
    <3> QED  BY Zenon, <1>2, <3>1, <3>2 DEF Writes, OneMoreResult
  <2>4. OutcomesAgree'
    BY <1>0, <1>2, <2>0, <2>3 DEF OutcomesAgree
  <2> QED  BY Zenon, <2>2, <2>4
<1>3. ASSUME kv' = kv, NEW outcome \in Outcome, Announces(t, outcome)
      PROVE  RecordsMatchStatus' /\ OutcomesAgree'
  <2>1. RecordsMatchStatus'
    BY Zenon, <1>0, <1>3 DEF RecordsMatchStatus
  <2>2. /\ published'[t[2]] = Append(published[t[2]], outcome)
        /\ \A w \in Workflow \ {t[2]} : published'[w] = published[w]
    BY Zenon, <1>0, <1>3 DEF Announces
  <2>3. /\ \A i \in DOMAIN published'[t[2]] :
              \/ published'[t[2]][i] = "workflow.complete" /\ kv[t[2]].status = "completed"
              \/ published'[t[2]][i] = "workflow.failed" /\ kv[t[2]].status = "failed"
        /\ kv[t[2]].status = "completed" => Len(published'[t[2]]) <= 1
    <3>1. published[t[2]] \in Seq(Outcome)
      BY Zenon, <1>0
    <3>2. DOMAIN published'[t[2]] = 1..(Len(published[t[2]]) + 1)
          /\ Len(published'[t[2]]) = Len(published[t[2]]) + 1
      BY <2>2, <3>1
    <3>3. \A i \in DOMAIN published'[t[2]] :
              published'[t[2]][i] = outcome \/ (i \in DOMAIN published[t[2]]
                                                /\ published'[t[2]][i] = published[t[2]][i])
      BY <2>2, <3>1, <3>2
    <3>4. \/ /\ outcome = "workflow.complete" /\ kv[t[2]].status = "completed"
             /\ Len(published[t[2]]) = 0
          \/ outcome = "workflow.failed" /\ kv[t[2]].status = "failed"
      BY <1>3 DEF Announces
    <3>5. \A i \in DOMAIN published[t[2]] :
              \/ published[t[2]][i] = "workflow.complete" /\ kv[t[2]].status = "completed"
              \/ published[t[2]][i] = "workflow.failed" /\ kv[t[2]].status = "failed"
      BY Zenon, <1>0 DEF OutcomesAgree
    <3> QED  BY <3>2, <3>3, <3>4, <3>5
  <2>4. \A w \in Workflow \ {t[2]} :
           /\ \A i \in DOMAIN published'[w] :
                 \/ published'[w][i] = "workflow.complete" /\ kv[w].status = "completed"
                 \/ published'[w][i] = "workflow.failed" /\ kv[w].status = "failed"
           /\ kv[w].status = "completed" => Len(published'[w]) <= 1
    BY <1>0, <2>2 DEF OutcomesAgree
  <2>5. OutcomesAgree'
    BY <1>3, <2>3, <2>4, Zenon DEF OutcomesAgree
  <2> QED  BY Zenon, <2>1, <2>5
<1> QED  BY Zenon, <1>1, <1>2, <1>3 DEF Effect

\* The beginnings of workflows and the step messages.
LEMMA BeginningsKept ==
    ASSUME InductiveInvariant, NEW t \in Thread, Moves(t), Effect(t), Bus(t)
    PROVE  (\A w \in Workflow : Beginning(w)') /\ PreviousResultsComplete'
<1>1. PreviousResultsComplete'
  BY Zenon DEF InductiveInvariant, PreviousResultsComplete, Bus
<1> SUFFICES ASSUME NEW w \in Workflow
             PROVE  Beginning(w)'
  BY Zenon, <1>1
<1>0. /\ t[2] \in Workflow /\ Beginning(w)
      /\ kv \in [Workflow -> WorkflowState] /\ published \in [Workflow -> Seq(Outcome)]
      /\ <<"start", w>> \in Thread /\ <<"result", w>> \in Thread /\ <<"result", w>> \in Consumer
      /\ pc[t] # "idle" /\ kv[t[2]].status # "none"
  BY Zenon, OfHandler, ThreadNames, ConsumerNames DEF EngineTypeOK, InductiveInvariant, Bus, StateStored
<1>2. CASE w # t[2]
  <2>1. <<"start", w>> # t /\ <<"result", w>> # t
    BY <1>2
  <2>2. /\ pc'[<<"start", w>>] = pc[<<"start", w>>] /\ pc'[<<"result", w>>] = pc[<<"result", w>>]
        /\ inbox'[<<"result", w>>] = inbox[<<"result", w>>]
        /\ \A m \in direct' : m \in direct \/ m.w # w
        /\ w \in subscribed' => w \in subscribed
        /\ \A x \in armed' : x \in armed \/ x[1] # w
    BY Zenon, <1>0, <1>2, <2>1 DEF Moves, Bus
  <2>3. kv'[w] = kv[w] /\ published'[w] = published[w]
    BY Zenon, <1>0, <1>2 DEF Effect, Writes, Announces
  <2> QED  BY Zenon, <1>0, <2>2, <2>3 DEF Beginning, NothingSent
<1>3. CASE w = t[2]
  <2>1. kv'[w].status \notin {"none", "waiting"}
    BY Zenon, <1>0, <1>3 DEF Effect, Writes, Beginning
  <2>2. kv'[w].status = "running" => published'[w] = <<>>
    BY Zenon, <1>0, <1>3 DEF Effect, Writes, OneMoreResult, Announces, Beginning
  <2>3. pc'[<<"start", w>>] \in NotSent => NothingSent(w)'
    <3> SUFFICES ASSUME pc'[<<"start", w>>] \in NotSent
                 PROVE  NothingSent(w)'
      BY Zenon
    <3>1. pc[<<"start", w>>] \in NotSent
      <4>1. CASE t = <<"start", w>>
        <5>1. t[1] # "result"
          BY Zenon, <4>1
        <5> QED  BY Zenon, <4>1, <5>1 DEF Bus
      <4>2. CASE t # <<"start", w>>
        BY Zenon, <1>0, <4>2 DEF Moves
      <4> QED  BY Zenon, <4>1, <4>2
    <3>2. NothingSent(w)
      BY Zenon, <1>0, <3>1 DEF Beginning
    <3>3. t # <<"result", w>>
      BY Zenon, <1>0, <3>2 DEF NothingSent
    <3>4. pc'[<<"result", w>>] = "idle" /\ inbox'[<<"result", w>>] = {}
      BY Zenon, <1>0, <3>2, <3>3 DEF NothingSent, Moves, Bus
    <3>5. direct' \subseteq direct
      BY Zenon, <1>3, <3>3, ThreadNames DEF Bus
    <3> QED  BY Zenon, <3>2, <3>4, <3>5 DEF NothingSent
  <2> QED  BY Zenon, <2>1, <2>2, <2>3 DEF Beginning
<1> QED  BY Zenon, <1>2, <1>3

\* The handler that takes the step.
LEMMA ActorKept ==
    ASSUME InductiveInvariant, NEW t \in Thread, HandlerStep(t)
    PROVE  Roles(t)' /\ StateRead(t)' /\ StateStored(t)'
<1> USE DEF timerVars, memoryVars, busVars, boundVars
<1> DEFINE Kept == Roles(t)' /\ StateRead(t)' /\ StateStored(t)'
<1>0. /\ EngineTypeOK(EngineLabel) /\ Roles(t) /\ StateRead(t) /\ StateStored(t)
      /\ kv[t[2]].status # "waiting" /\ t[2] \in Workflow /\ kv[t[2]] \in WorkflowState
      /\ t[1] \in {"start", "result", "response", "timer", "resume"}
  BY Zenon, OfHandler, ThreadNames DEF Beginning
<1>b. /\ \A label : Goto(t, label) => pc'[t] = label
      /\ \A l : loc' = [loc EXCEPT ![t] = l] => loc'[t] = l
  BY <1>0, HelpersMove
<1>a. Leave(t) => Kept
  <2>1. Leave(t) => pc'[t] = "idle" /\ loc'[t] = NoLocals
    BY Zenon, <1>0, <1>b DEF Leave
  <2> QED  BY Zenon, <2>1 DEF Roles, StartLabel, ResultLabel, TimerLabel, StateRead, HoldsState, StateStored
<1>1. CASE CreateStream(t)
  <2>1. pc[t] = "stream" /\ pc'[t] = "subscribe" /\ UNCHANGED <<loc, kv, published>>
    BY Zenon, <1>0, <1>1, <1>b DEF CreateStream
  <2> QED  BY Zenon, <1>0, <2>1 DEF Roles, StartLabel, ResultLabel, TimerLabel, StateRead, HoldsState,
              StateStored
<1>2. CASE SubscribeResults(t)
  <2>1. pc[t] = "subscribe" /\ pc'[t] = "dispatch" /\ UNCHANGED <<loc, kv, published>>
    BY Zenon, <1>0, <1>2, <1>b DEF SubscribeResults
  <2> QED  BY Zenon, <1>0, <2>1 DEF Roles, StartLabel, ResultLabel, TimerLabel, StateRead, HoldsState,
              StateStored
<1>3. CASE DispatchStep(t)
  <2>1. pc[t] = "dispatch" /\ t[1] \in {"start", "result"} /\ UNCHANGED <<kv, published>>
    BY Zenon, <1>3, RolesOfLabels DEF DispatchStep, NotSent
  <2>2. loc[t].at = Len(kv[t[2]].results) /\ kv[t[2]].status \in {"running", "failed"}
        /\ loc[t].at + 1 \in 1..Len(Steps(t))
    <3>1. /\ kv[t[2]].step = Len(kv[t[2]].results) /\ Len(Steps(t)) \in Nat
          /\ kv[t[2]].status \in {"running", "failed"} => kv[t[2]].step < Len(Steps(t))
      BY Zenon, OfHandler
    <3>2. kv[t[2]].step = loc[t].at /\ kv[t[2]].status \in {"running", "failed"}
      BY Zenon, <1>0, <2>1 DEF StateStored
    <3>3. kv[t[2]].step \in Nat
      BY Zenon, <1>0 DEF WorkflowState
    <3> QED  BY <3>1, <3>2, <3>3
  <2>3. Steps(t)[loc[t].at + 1] # "human"
    BY Zenon, <1>0, <2>2, AgentStepsAssumption DEF Steps
  <2>4. \/ pc'[t] = "assign" /\ loc'[t] = [loc[t] EXCEPT !.snap = kv[t[2]]]
        \/ /\ pc'[t] = "fail"
           /\ loc'[t] = [[loc[t] EXCEPT !.err = [code |-> "AGENT_UNAVAILABLE", step |-> loc[t].at]]
                           EXCEPT !.snap = kv[t[2]]]
    BY Zenon, <1>0, <1>3, <2>3, <1>b DEF DispatchStep, Get
  <2>5. loc'[t].snap = kv[t[2]] /\ loc'[t].at = loc[t].at
    BY Zenon, <2>4, OfHandler DEF Locals
  <2> QED  BY <1>0, <2>1, <2>2, <2>4, <2>5
           DEF Roles, StartLabel, ResultLabel, StateRead, HoldsState, StateStored, Snap, WorkflowState
<1>4. CASE AssignAgent(t)
  <2>1. CASE Unchanged(t) /\ Update(t, Snap(t)) /\ Goto(t, "routeStream")
             /\ UNCHANGED <<loc, inbox, redelivered>>
    <3>1. pc[t] = "assign" /\ pc'[t] = "routeStream" /\ UNCHANGED <<loc, published>>
      BY Zenon, <1>0, <1>4, <2>1, <1>b DEF AssignAgent
    <3>2. kv'[t[2]].status = kv[t[2]].status
      BY Zenon, <1>0, <2>1, <3>1, CurrentWrite, OfHandler DEF Update, HoldsState, WorkflowState, EngineTypeOK
    <3> QED  BY Zenon, <1>0, <3>1, <3>2
             DEF Roles, StartLabel, ResultLabel, TimerLabel, StateRead, HoldsState, StateStored, Snap
  <2>2. CASE Return(t) /\ UNCHANGED kv
    BY Zenon, <1>a, <2>2 DEF Return
  <2> QED  BY Zenon, <1>4, <2>1, <2>2 DEF AssignAgent
<1>5. CASE RouteToStream(t)
  <2>1. pc[t] = "routeStream" /\ pc'[t] = "routeDirect" /\ UNCHANGED <<loc, kv, published>>
    BY Zenon, <1>0, <1>5, <1>b DEF RouteToStream
  <2> QED  BY Zenon, <1>0, <2>1 DEF Roles, StartLabel, ResultLabel, TimerLabel, StateRead, HoldsState,
              StateStored, Snap
<1>6. CASE RouteToAgent(t) \/ RouteToMissingAgent(t)
  <2>1. pc[t] = "routeDirect" /\ pc'[t] = "schedule" /\ UNCHANGED <<loc, kv, published>>
    BY Zenon, <1>0, <1>6, <1>b DEF RouteToAgent, RouteToMissingAgent
  <2> QED  BY Zenon, <1>0, <2>1 DEF Roles, StartLabel, ResultLabel, TimerLabel, StateRead, HoldsState,
              StateStored
<1>7. CASE ScheduleTimeout(t)
  BY Zenon, <1>a, <1>7 DEF ScheduleTimeout, Return
<1>8. CASE HandleStepResult(t)
  <2>1. CASE kv[t[2]].status \notin Terminal /\ Get(t, "advance", loc[t])
    <3>1. pc[t] = "result" /\ pc'[t] = "advance" /\ t[1] = "result" /\ UNCHANGED <<kv, published>>
      BY Zenon, <1>0, <1>8, <2>1, <1>b, RolesOfLabels DEF HandleStepResult, Get
    <3>2. loc'[t].snap = kv[t[2]]
      <4>1. loc'[t] = [loc[t] EXCEPT !.snap = kv[t[2]]]
        BY Zenon, <1>b, <2>1 DEF Get
      <4>2. loc[t] \in Locals
        BY Zenon, OfHandler
      <4> QED  BY Zenon, <4>1, <4>2 DEF Locals
    <3>3. kv[t[2]].status = "running"
      <4>1. kv[t[2]].status \in Status
        BY Zenon, <1>0 DEF WorkflowState
      <4>2. kv[t[2]].status # "none"
        BY Zenon, <1>0, <3>1 DEF StateStored
      <4> QED  BY Zenon, <1>0, <2>1, <4>1, <4>2 DEF Terminal, Status
    <3>4. Roles(t)' /\ StateStored(t)'
      BY Zenon, <1>0, <3>1 DEF Roles, ResultLabel, StateStored
    <3>5. Snap(t)' = kv[t[2]] /\ kv'[t[2]] = kv[t[2]] /\ kv[t[2]].rev \in Nat
      BY Zenon, <1>0, <3>1, <3>2 DEF Snap, WorkflowState
    <3> QED  BY <3>1, <3>3, <3>4, <3>5 DEF StateRead
  <2>2. CASE Return(t)
    BY Zenon, <1>a, <2>2 DEF Return
  <2> QED  BY Zenon, <1>8, <2>1, <2>2 DEF HandleStepResult
<1>9. CASE AdvanceWorkflow(t)
  <2>1. pc[t] = "advance" /\ t[1] = "result" /\ UNCHANGED <<kv, published>>
    BY Zenon, <1>9, RolesOfLabels DEF AdvanceWorkflow
  <2>2. \/ pc'[t] = "fail"
        \/ pc'[t] = "advanceUpdate" /\ Snap(t).step + 1 < Len(Steps(t))
        \/ pc'[t] = "completeUpdate" /\ ~(Snap(t).step + 1 < Len(Steps(t)))
    BY Zenon, <1>0, <1>9, <1>b DEF AdvanceWorkflow
  <2>3. loc'[t].snap = Snap(t)
    <3>1. \/ loc' = loc
          \/ loc'[t] = [loc[t] EXCEPT !.err = [code |-> "STEP_FAILED", step |-> loc[t].msg.step]]
      <4>1. CASE loc' = [loc EXCEPT ![t].err = [code |-> "STEP_FAILED", step |-> loc[t].msg.step]]
        BY Zenon, <1>0, <4>1, <1>b
      <4> QED  BY Zenon, <1>9, <4>1 DEF AdvanceWorkflow
    <3> QED  BY Zenon, <3>1, OfHandler DEF Locals, Snap
  <2> QED  BY Zenon, <1>0, <2>1, <2>2, <2>3
           DEF Roles, ResultLabel, StateRead, HoldsState, StateStored, Snap, Steps
<1>10. CASE AdvanceUpdate(t)
  <2>1. CASE Unchanged(t) /\ Update(t, Advanced(t)) /\ Goto(t, "dispatch")
             /\ loc' = [loc EXCEPT ![t].at = Snap(t).step + 1]
             /\ UNCHANGED <<inbox, redelivered>>
    <3>1. pc[t] = "advanceUpdate" /\ pc'[t] = "dispatch" /\ t[1] = "result" /\ published' = published
      BY Zenon, <1>0, <1>10, <2>1, <1>b, RolesOfLabels DEF AdvanceUpdate
    <3>2. loc'[t].at = Snap(t).step + 1
      <4>1. loc'[t] = [loc[t] EXCEPT !.at = Snap(t).step + 1]
        BY Zenon, <1>0, <2>1, <1>b
      <4> QED  BY Zenon, <4>1, OfHandler DEF Locals
    <3>3. kv'[t[2]].step = Snap(t).step + 1 /\ kv'[t[2]].status = Snap(t).status
      <4>1. kv'[t[2]] = [Advanced(t) EXCEPT !.rev = Snap(t).rev + 1]
        BY Zenon, <1>0, <2>1 DEF Update, EngineTypeOK
      <4> QED  BY Zenon, <4>1, OfHandler DEF Advanced, WorkflowState
    <3>4. Snap(t).status = "running"
      BY Zenon, <1>0, <3>1 DEF StateRead
    <3> QED  BY Zenon, <1>0, <3>1, <3>2, <3>3, <3>4 DEF Roles, ResultLabel, StateRead, HoldsState, StateStored
  <2>2. CASE Return(t) /\ UNCHANGED kv
    BY Zenon, <1>a, <2>2 DEF Return
  <2> QED  BY Zenon, <1>10, <2>1, <2>2 DEF AdvanceUpdate
<1>11. CASE CompleteUpdate(t)
  <2>1. CASE Unchanged(t) /\ Update(t, [Advanced(t) EXCEPT !.status = "completed"])
             /\ Goto(t, "announceComplete") /\ UNCHANGED <<loc, inbox, redelivered>>
    <3>1. pc[t] = "completeUpdate" /\ pc'[t] = "announceComplete" /\ t[1] = "result"
          /\ published' = published
      BY Zenon, <1>0, <1>11, <2>1, <1>b, RolesOfLabels DEF CompleteUpdate
    <3>2. kv'[t[2]].status = "completed"
      <4>1. kv'[t[2]] = [[Advanced(t) EXCEPT !.status = "completed"] EXCEPT !.rev = Snap(t).rev + 1]
        BY Zenon, <1>0, <2>1 DEF Update, EngineTypeOK
      <4> QED  BY Zenon, <4>1, OfHandler DEF Advanced, WorkflowState
    <3>3. published[t[2]] = <<>>
      BY Zenon, <1>0, <2>1, <3>1, CurrentWrite, OfHandler DEF StateRead, HoldsState, Beginning
    <3> QED  BY Zenon, <1>0, <3>1, <3>2, <3>3 DEF Roles, ResultLabel, StateRead, HoldsState, StateStored
  <2>2. CASE Return(t) /\ UNCHANGED kv
    BY Zenon, <1>a, <2>2 DEF Return
  <2> QED  BY Zenon, <1>11, <2>1, <2>2 DEF CompleteUpdate
<1>12. CASE FailWorkflow(t)
  <2>1. pc[t] = "fail" /\ pc'[t] = "failUpdate" /\ UNCHANGED <<loc, kv, published>>
    BY Zenon, <1>0, <1>12, <1>b DEF FailWorkflow
  <2> QED  BY Zenon, <1>0, <2>1 DEF Roles, StartLabel, ResultLabel, TimerLabel, StateRead, HoldsState,
              StateStored, Snap
<1>13. CASE FailUpdate(t)
  <2>1. CASE Unchanged(t) /\ Update(t, [Snap(t) EXCEPT !.status = "failed", !.err = loc[t].err])
             /\ Goto(t, "announceFailed") /\ UNCHANGED <<loc, inbox, redelivered>>
    <3>1. pc[t] = "failUpdate" /\ pc'[t] = "announceFailed"
      BY Zenon, <1>0, <1>13, <2>1, <1>b DEF FailUpdate
    <3>2. kv'[t[2]].status = "failed"
      <4>1. kv'[t[2]] = [[Snap(t) EXCEPT !.status = "failed", !.err = loc[t].err]
                            EXCEPT !.rev = Snap(t).rev + 1]
        BY Zenon, <1>0, <2>1 DEF Update, EngineTypeOK
      <4> QED  BY Zenon, <4>1, OfHandler DEF WorkflowState
    <3> QED  BY Zenon, <1>0, <3>1, <3>2
                DEF Roles, StartLabel, ResultLabel, TimerLabel, StateRead, HoldsState, StateStored
  <2>2. CASE Return(t) /\ UNCHANGED kv
    BY Zenon, <1>a, <2>2 DEF Return
  <2> QED  BY Zenon, <1>13, <2>1, <2>2 DEF FailUpdate
<1>14. CASE AnnounceComplete(t) \/ AnnounceFailed(t)
  BY Zenon, <1>a, <1>14 DEF AnnounceComplete, AnnounceFailed, Announce, Return
<1>15. CASE DeleteTimerEntry(t)
  <2>1. pc[t] = "fired" /\ pc'[t] = "timeout" /\ UNCHANGED <<loc, kv, published>>
    BY Zenon, <1>0, <1>15, <1>b DEF DeleteTimerEntry
  <2> QED  BY Zenon, <1>0, <2>1 DEF Roles, StartLabel, ResultLabel, TimerLabel, StateRead, HoldsState,
              StateStored
<1>16. CASE StepTimeout(t)
  <2>1. CASE /\ kv[t[2]].status = "running"
             /\ Get(t, "fail", [loc[t] EXCEPT !.err = [code |-> "STEP_TIMEOUT", step |-> t[3]]])
    <3>1. pc[t] = "timeout" /\ pc'[t] = "fail" /\ t[1] = "timer" /\ UNCHANGED <<kv, published>>
      BY Zenon, <1>0, <1>16, <2>1, <1>b, RolesOfLabels DEF StepTimeout, Get
    <3>2. loc'[t].snap = kv[t[2]]
      <4>1. loc'[t] = [[loc[t] EXCEPT !.err = [code |-> "STEP_TIMEOUT", step |-> t[3]]]
                          EXCEPT !.snap = kv[t[2]]]
        BY Zenon, <1>0, <2>1, <1>b DEF Get
      <4> QED  BY Zenon, <4>1, OfHandler DEF Locals
    <3> QED  BY <1>0, <2>1, <3>1, <3>2
             DEF Roles, TimerLabel, StateRead, HoldsState, StateStored, Snap, WorkflowState
  <2>2. CASE Leave(t)
    BY Zenon, <1>a, <2>2
  <2> QED  BY Zenon, <1>16, <2>1, <2>2 DEF StepTimeout
<1>17. CASE CallFails(t)
  BY Zenon, <1>a, <1>17 DEF CallFails, ReturnError, Return
<1> QED  BY Zenon, <1>1, <1>2, <1>3, <1>4, <1>5, <1>6, <1>7, <1>8, <1>9, <1>10, <1>11, <1>12,
            <1>13, <1>14, <1>15, <1>16, <1>17 DEF HandlerStep, EngineThread

-----------------------------------------------------------------------------
(* Steps of the environment *)

\* A thread that has not moved, over a workflow that has not changed.
LEMMA ThreadUntouched ==
    ASSUME InductiveInvariant, NEW u \in Thread,
           pc'[u] = pc[u], loc'[u] = loc[u],
           kv'[u[2]] = kv[u[2]], published'[u[2]] = published[u[2]]
    PROVE  Roles(u)' /\ StateRead(u)' /\ StateStored(u)'
<1>0. Roles(u) /\ StateRead(u) /\ StateStored(u)
  BY Zenon, OfHandler
<1>1. Roles(u)'
  BY Zenon, <1>0 DEF Roles
<1>2. StateRead(u)'
  BY Zenon, <1>0 DEF StateRead, Snap, Steps
<1>3. StateStored(u)'
  BY Zenon, <1>0 DEF StateStored
<1> QED  BY Zenon, <1>1, <1>2, <1>3

\* A workflow that has not changed, with nothing new on its way.
LEMMA WorkflowUntouched ==
    ASSUME InductiveInvariant, NEW w \in Workflow,
           kv'[w] = kv[w], published'[w] = published[w],
           pc'[<<"start", w>>] = pc[<<"start", w>>] \/ pc'[<<"start", w>>] = "idle",
           pc'[<<"result", w>>] = pc[<<"result", w>>] \/ pc'[<<"result", w>>] = "idle",
           inbox'[<<"result", w>>] = inbox[<<"result", w>>],
           \A m \in direct' : m \in direct,
           w \in subscribed' => w \in subscribed,
           \A x \in armed' : x \in armed
    PROVE  Beginning(w)'
BY Zenon DEF InductiveInvariant, Beginning, NothingSent, NotSent

\* workflow.start: the workflow did not exist, so no handler works on it.
LEMMA StartKept ==
    ASSUME InductiveInvariant, TypeOK', NEW w \in Workflow, HandleWorkflowStart(w)
    PROVE  InductiveInvariant'
<1> DEFINE t == <<"start", w>>
<1> USE DEF timerVars, memoryVars, busVars, boundVars
<1>0. /\ EngineTypeOK(EngineLabel) /\ t \in Thread /\ t[1] = "start" /\ t[2] = w
      /\ pc[t] = "idle" /\ loc[t] = NoLocals
      /\ kv[w] = NoState /\ NothingSent(w) /\ published[w] = <<>>
      /\ \A v \in Workflow : Beginning(v)
  BY Zenon, ThreadNames, OfHandler DEF InductiveInvariant, TypeOK, HandleWorkflowStart, StateStored, Beginning
<1>1. /\ kv'[w] = [NoState EXCEPT !.status = "running", !.rev = 1]
      /\ \A v \in Workflow \ {w} : kv'[v] = kv[v]
      /\ pc'[t] = "stream" /\ \A u \in Thread \ {t} : pc'[u] = pc[u]
      /\ UNCHANGED <<loc, armed, subscribed, direct, inbox, published>>
      /\ Len(StepsOf[w]) > 0
  <2>1. /\ kv'[w] = [NoState EXCEPT !.status = "running", !.rev = 1]
        /\ \A v \in Workflow \ {w} : kv'[v] = kv[v]
    BY Zenon, <1>0 DEF HandleWorkflowStart, EngineTypeOK
  <2>2. pc'[t] = "stream" /\ \A u \in Thread \ {t} : pc'[u] = pc[u]
    BY Zenon, <1>0, HelpersMove DEF HandleWorkflowStart
  <2>3. Len(StepsOf[w]) > 0
    <3>1. ValidDefinition(StepsOf[w])
      BY Zenon DEF HandleWorkflowStart
    <3>2. Len(StepsOf[w]) \in Nat
      BY StepsAssumption
    <3>3. \A n \in Nat : n \in 1..100 => n > 0
      OBVIOUS
    <3> QED  BY <3>1, <3>2, <3>3, Zenon DEF ValidDefinition, MaxSteps
  <2> QED  BY Zenon, <2>1, <2>2, <2>3 DEF HandleWorkflowStart
<1>2. kv'[w].status = "running" /\ kv'[w].step = 0 /\ kv'[w].results = <<>>
  BY Zenon, <1>1 DEF NoState
<1>3. ASSUME NEW u \in Thread
      PROVE  Roles(u)' /\ StateRead(u)' /\ StateStored(u)'
  <2>1. CASE u[2] # w
    <3>1. u # t /\ u[2] \in Workflow
      BY Zenon, <1>0, <2>1, ThreadNames
    <3> QED  BY Zenon, <1>1, <2>1, <3>1, ThreadUntouched
  <2>2. CASE u[2] = w /\ u # t
    <3>0. Roles(u) /\ StateStored(u) /\ kv[u[2]].status = "none"
      BY <1>0, <2>2, OfHandler DEF NoState
    <3>1. pc[u] = "idle" /\ loc[u] = NoLocals /\ Roles(u)
      BY Zenon, <3>0 DEF StateStored
    <3>2. pc'[u] = "idle" /\ loc'[u] = NoLocals
      BY Zenon, <1>1, <2>2, <3>1
    <3> QED  BY Zenon, <3>1, <3>2 DEF Roles, StateRead, HoldsState, StateStored
  <2>3. CASE u = t
    <3>1. loc'[u].at = 0 /\ pc'[u] = "stream" /\ u[1] = "start" /\ u[2] = w
      BY <1>0, <1>1, <2>3 DEF NoLocals
    <3> QED  BY Zenon, <1>2, <3>1 DEF Roles, StartLabel, StateRead, HoldsState, StateStored
  <2> QED  BY Zenon, <2>1, <2>2, <2>3
<1>4. ASSUME NEW v \in Workflow
      PROVE  Beginning(v)'
  <2>1. CASE v # w
    <3>1. /\ <<"start", v>> \in Thread \ {t} /\ <<"result", v>> \in Thread \ {t}
      BY Zenon, <2>1, ThreadNames
    <3> QED  BY Zenon, <1>1, <2>1, <3>1, WorkflowUntouched
  <2>2. CASE v = w
    <3>1. <<"result", w>> \in Thread \ {t}
      BY Zenon, ThreadNames
    <3> QED  BY Zenon, <1>0, <1>1, <1>2, <2>2, <3>1 DEF Beginning, NothingSent
  <2> QED  BY Zenon, <2>1, <2>2
<1>5. RecordsMatchStatus'
  <2>1. /\ kv'[w].step = Len(kv'[w].results) /\ kv'[w].step < Len(StepsOf[w])
        /\ kv'[w].status = "running"
    BY Zenon, <1>1, <1>2
  <2>2. RecordsMatchStatus
    BY Zenon DEF InductiveInvariant
  <2> QED  BY Zenon, <1>1, <2>1, <2>2 DEF RecordsMatchStatus
<1>6. OutcomesAgree'
  <2>1. OutcomesAgree
    BY Zenon DEF InductiveInvariant
  <2> QED  BY <1>0, <1>1, <1>2, <2>1 DEF OutcomesAgree
<1>7. PreviousResultsComplete'
  BY Zenon, <1>1 DEF InductiveInvariant, PreviousResultsComplete
<1> QED  BY Zenon, <1>3, <1>4, <1>5, <1>6, <1>7 DEF InductiveInvariant

\* A message or a timer wakes an idle handler or a timer callback.
LEMMA WakeKept ==
    ASSUME InductiveInvariant, TypeOK', NEW w \in Workflow,
           \/ \E m \in inbox[<<"result", w>>] : ReceiveStepResult(w, m)
           \/ \E k \in StepIndex(w) : TimerFires(w, k)
    PROVE  InductiveInvariant'
<1> USE DEF timerVars, memoryVars, busVars, boundVars
<1>0. EngineTypeOK(EngineLabel)
  BY Zenon DEF InductiveInvariant, TypeOK
<1>1. PICK t \in Thread :
         /\ t[2] = w /\ kv[w].status # "none"
         /\ \/ t[1] = "result" /\ pc'[t] = "result" /\ inbox[t] # {}
            \/ t[1] = "timer" /\ pc'[t] = "fired"
         /\ \A u \in Thread \ {t} : pc'[u] = pc[u] /\ loc'[u] = loc[u]
         /\ armed' \subseteq armed
         /\ UNCHANGED <<kv, subscribed, direct, inbox, published>>
  <2>1. ASSUME NEW m \in inbox[<<"result", w>>], ReceiveStepResult(w, m)
        PROVE  \E t \in Thread :
                  /\ t[2] = w /\ kv[w].status # "none"
                  /\ t[1] = "result" /\ pc'[t] = "result" /\ inbox[t] # {}
                  /\ \A u \in Thread \ {t} : pc'[u] = pc[u] /\ loc'[u] = loc[u]
                  /\ armed' \subseteq armed
                  /\ UNCHANGED <<kv, subscribed, direct, inbox, published>>
    <3>1. <<"result", w>> \in Thread
      BY Zenon, ThreadNames
    <3>2. kv[w].status # "none"
      BY Zenon, <2>1 DEF ReceiveStepResult, InductiveInvariant, Beginning
    <3> QED  BY <1>0, <2>1, <3>1, <3>2, HelpersMove DEF ReceiveStepResult
  <2>2. ASSUME NEW k \in StepIndex(w), TimerFires(w, k)
        PROVE  \E t \in Thread :
                  /\ t[2] = w /\ kv[w].status # "none"
                  /\ t[1] = "timer" /\ pc'[t] = "fired"
                  /\ \A u \in Thread \ {t} : pc'[u] = pc[u] /\ loc'[u] = loc[u]
                  /\ armed' \subseteq armed
                  /\ UNCHANGED <<kv, subscribed, direct, inbox, published>>
    <3>1. <<"timer", w, k>> \in Thread
      BY Zenon, ThreadNames
    <3>2. kv[w].status # "none"
      BY Zenon, <2>2 DEF TimerFires, InductiveInvariant, Beginning
    <3> QED  BY <1>0, <2>2, <3>1, <3>2, HelpersMove DEF TimerFires
  <2> QED  BY Zenon, <2>1, <2>2
<1>2. ASSUME NEW u \in Thread
      PROVE  Roles(u)' /\ StateRead(u)' /\ StateStored(u)'
  <2>1. CASE u # t
    BY Zenon, <1>1, <2>1, ThreadUntouched
  <2>2. CASE u = t
    BY Zenon, <1>1, <2>2 DEF Roles, ResultLabel, TimerLabel, StateRead, HoldsState, StateStored
  <2> QED  BY Zenon, <2>1, <2>2
<1>3. ASSUME NEW v \in Workflow
      PROVE  Beginning(v)'
  <2>0. <<"start", v>> \in Thread \ {t} /\ <<"result", v>> \in Thread
    BY Zenon, <1>1, ThreadNames
  <2>1. CASE t # <<"result", v>>
    BY Zenon, <1>1, <2>0, <2>1, WorkflowUntouched
  <2>2. CASE t = <<"result", v>>
    <3>1. v = w /\ inbox[<<"result", v>>] # {}
      BY Zenon, <1>1, <2>2
    <3>2. pc[<<"start", v>>] \notin NotSent /\ kv[v].status # "none"
      BY Zenon, <1>1, <3>1 DEF InductiveInvariant, Beginning, NothingSent
    <3> QED  BY Zenon, <1>1, <2>0, <3>2 DEF InductiveInvariant, Beginning
  <2> QED  BY Zenon, <2>1, <2>2
<1>4. RecordsMatchStatus' /\ OutcomesAgree' /\ PreviousResultsComplete'
  BY <1>1 DEF InductiveInvariant, RecordsMatchStatus, OutcomesAgree, PreviousResultsComplete
<1> QED  BY Zenon, <1>2, <1>3, <1>4 DEF InductiveInvariant

\* An agent replies to a message of a workflow whose first step has been sent.
LEMMA ReplyKept ==
    ASSUME InductiveInvariant, TypeOK', NEW m \in direct, NEW status, AgentReplies(m, status)
    PROVE  InductiveInvariant'
<1> USE DEF timerVars, memoryVars, busVars, boundVars
<1>0. EngineTypeOK(EngineLabel)
  BY Zenon DEF InductiveInvariant, TypeOK
<1>1. /\ UNCHANGED <<kv, pc, loc, published, subscribed, armed>> /\ direct' \subseteq direct
      /\ \A c \in Consumer : c # <<"result", m.w>> => inbox'[c] = inbox[c]
  BY Zenon, <1>0 DEF AgentReplies, EngineTypeOK
<1>2. ASSUME NEW u \in Thread
      PROVE  Roles(u)' /\ StateRead(u)' /\ StateStored(u)'
  BY Zenon, <1>1, ThreadUntouched
<1>3. ASSUME NEW v \in Workflow
      PROVE  Beginning(v)'
  <2>1. CASE v # m.w
    <3>1. inbox'[<<"result", v>>] = inbox[<<"result", v>>]
      BY Zenon, <1>1, <2>1, ConsumerNames
    <3> QED  BY Zenon, <1>1, <3>1, WorkflowUntouched
  <2>2. CASE v = m.w
    BY Zenon, <1>1, <2>2 DEF InductiveInvariant, Beginning, NothingSent
  <2> QED  BY Zenon, <2>1, <2>2
<1>4. RecordsMatchStatus' /\ OutcomesAgree' /\ PreviousResultsComplete'
  BY Zenon, <1>1 DEF InductiveInvariant, RecordsMatchStatus, OutcomesAgree, PreviousResultsComplete
<1> QED  BY Zenon, <1>2, <1>3, <1>4 DEF InductiveInvariant

\* After a crash every handler is idle and what is stored is as it was.
LEMMA CrashKept ==
    ASSUME InductiveInvariant, TypeOK', CrashEngine
    PROVE  InductiveInvariant'
<1> USE DEF timerVars, memoryVars, busVars, boundVars
<1>1. /\ UNCHANGED <<kv, direct, inbox, published>> /\ subscribed' = {} /\ armed' = {}
      /\ \A u \in Thread : pc'[u] = "idle" /\ loc'[u] = NoLocals
  BY Zenon DEF CrashEngine
<1>2. ASSUME NEW u \in Thread
      PROVE  Roles(u)' /\ StateRead(u)' /\ StateStored(u)'
  BY Zenon, <1>1 DEF Roles, StartLabel, ResultLabel, TimerLabel, StateRead, HoldsState, StateStored
<1>3. ASSUME NEW v \in Workflow
      PROVE  Beginning(v)'
  BY Zenon, <1>1, WorkflowUntouched, ThreadNames
<1>4. RecordsMatchStatus' /\ OutcomesAgree' /\ PreviousResultsComplete'
  BY Zenon, <1>1 DEF InductiveInvariant, RecordsMatchStatus, OutcomesAgree, PreviousResultsComplete
<1> QED  BY Zenon, <1>2, <1>3, <1>4 DEF InductiveInvariant

-----------------------------------------------------------------------------
(* The theorems *)

\* The initial state, where no workflow exists and every handler is idle.
LEMMA InitialInvariant == Init => InductiveInvariant
<1> SUFFICES ASSUME Init
             PROVE  InductiveInvariant
  BY Zenon
<1> USE DEF Init, EngineInit
<1>1. TypeOK
  BY ValuesTyped DEF TypeOK, EngineTypeOK, EngineLabel
<1>2. ASSUME NEW t \in Thread
      PROVE  Roles(t) /\ StateRead(t) /\ StateStored(t)
  BY Zenon DEF Roles, StartLabel, ResultLabel, TimerLabel, StateRead, HoldsState, StateStored
<1>3. ASSUME NEW w \in Workflow
      PROVE  Beginning(w)
  BY Zenon, ThreadNames, ConsumerNames DEF Beginning, NothingSent, NoState, NotSent
<1>4. RecordsMatchStatus /\ OutcomesAgree /\ PreviousResultsComplete
  BY DEF RecordsMatchStatus, OutcomesAgree, PreviousResultsComplete, NoState
<1> QED  BY Zenon, <1>1, <1>2, <1>3, <1>4 DEF InductiveInvariant

\* Every step keeps the inductive invariant.
LEMMA InvariantKept == InductiveInvariant /\ [Next]_vars => InductiveInvariant'
<1> SUFFICES ASSUME InductiveInvariant, [Next]_vars
             PROVE  InductiveInvariant'
  BY Zenon
<1>0. TypeOK'
  BY Zenon, TypeKept
<1>1. CASE UNCHANGED vars
  <2>1. UNCHANGED <<kv, pc, loc, published, direct, inbox, subscribed, armed>>
    BY Zenon, <1>1 DEF vars, engineVars, timerVars, memoryVars, busVars
  <2>2. ASSUME NEW u \in Thread
        PROVE  Roles(u)' /\ StateRead(u)' /\ StateStored(u)'
    BY Zenon, <2>1, ThreadUntouched
  <2>3. ASSUME NEW w \in Workflow
        PROVE  Beginning(w)'
    BY Zenon, <2>1, WorkflowUntouched
  <2>4. RecordsMatchStatus' /\ OutcomesAgree' /\ PreviousResultsComplete'
    BY Zenon, <2>1 DEF InductiveInvariant, RecordsMatchStatus, OutcomesAgree, PreviousResultsComplete
  <2> QED  BY Zenon, <1>0, <2>2, <2>3, <2>4 DEF InductiveInvariant
<1>2. ASSUME NEW t \in Thread, HandlerStep(t)
      PROVE  InductiveInvariant'
  <2>1. Moves(t) /\ Effect(t) /\ Bus(t)
    BY Zenon, <1>2, StepEffect
  <2>2. \A u \in Thread : Roles(u)' /\ StateRead(u)' /\ StateStored(u)'
    BY Zenon, <1>2, <2>1, ActorKept, OthersKept
  <2>3. (\A w \in Workflow : Beginning(w)') /\ PreviousResultsComplete'
    BY Zenon, <2>1, BeginningsKept
  <2>4. RecordsMatchStatus' /\ OutcomesAgree'
    BY Zenon, <2>1, RecordsKept
  <2> QED  BY Zenon, <1>0, <2>2, <2>3, <2>4 DEF InductiveInvariant
<1>3. ASSUME NEW w \in Workflow, HandleWorkflowStart(w)
      PROVE  InductiveInvariant'
  BY Zenon, <1>0, <1>3, StartKept
<1>4. ASSUME NEW w \in Workflow,
             \/ \E m \in inbox[<<"result", w>>] : ReceiveStepResult(w, m)
             \/ \E k \in StepIndex(w) : TimerFires(w, k)
      PROVE  InductiveInvariant'
  BY Zenon, <1>0, <1>4, WakeKept
<1>5. ASSUME NEW m \in direct, NEW status \in {"success", "failure"}, AgentReplies(m, status)
      PROVE  InductiveInvariant'
  BY Zenon, <1>0, <1>5, ReplyKept
<1>6. CASE CrashEngine
  BY Zenon, <1>0, <1>6, CrashKept
<1> QED  BY Zenon, <1>1, <1>2, <1>3, <1>4, <1>5, <1>6 DEF Next, EngineEnvironment, HandlerStep

\* Every handler holds a state it may act on, in every reachable state.
THEOREM InvariantHolds == Spec => []InductiveInvariant
BY InitialInvariant, InvariantKept, PTL DEF Spec

\* The engine's state keeps the shape the Go types give it.
THEOREM TypeCorrect == Spec => []TypeOK
<1>1. InductiveInvariant => TypeOK
  BY Zenon DEF InductiveInvariant
<1> QED  BY <1>1, InvariantHolds, PTL

\* The number of recorded results always fits the step counter and the status
\* of the workflow, whatever fails, is redelivered or crashes.
THEOREM RecordsCorrect == Spec => []RecordsMatchStatus
<1>1. InductiveInvariant => RecordsMatchStatus
  BY Zenon DEF InductiveInvariant
<1> QED  BY <1>1, InvariantHolds, PTL

\* A published outcome agrees with the stored status, and completion is
\* published at most once.
THEOREM OutcomesCorrect == Spec => []OutcomesAgree
<1>1. InductiveInvariant => OutcomesAgree
  BY Zenon DEF InductiveInvariant
<1> QED  BY <1>1, InvariantHolds, PTL

\* An agent is always sent the results of all the steps before its own.
THEOREM MessagesCorrect == Spec => []PreviousResultsComplete
<1>1. InductiveInvariant => PreviousResultsComplete
  BY Zenon DEF InductiveInvariant
<1> QED  BY <1>1, InvariantHolds, PTL

\* Seen from the bucket and the outcomes, a step is one of three things.
LEMMA StepsSeen ==
    ASSUME InductiveInvariant, [Next]_vars
    PROVE  \/ kv' = kv /\ published' = published
           \/ \E t \in Thread : Effect(t)
           \/ \E w \in Workflow : HandleWorkflowStart(w)
<1> USE DEF timerVars, memoryVars, busVars, boundVars
<1>1. CASE UNCHANGED vars
  BY Zenon, <1>1 DEF vars, engineVars
<1>2. ASSUME NEW t \in Thread, HandlerStep(t)
      PROVE  Effect(t)
  BY Zenon, <1>2, StepEffect
<1>3. ASSUME NEW w \in Workflow,
             \/ \E m \in inbox[<<"result", w>>] : ReceiveStepResult(w, m)
             \/ \E k \in StepIndex(w) : TimerFires(w, k)
      PROVE  kv' = kv /\ published' = published
  BY Zenon, <1>3 DEF ReceiveStepResult, TimerFires
<1>4. ASSUME NEW m \in direct, NEW status, AgentReplies(m, status)
      PROVE  kv' = kv /\ published' = published
  BY Zenon, <1>4 DEF AgentReplies
<1>5. CASE CrashEngine
  BY Zenon, <1>5 DEF CrashEngine
<1> QED  BY Zenon, <1>1, <1>2, <1>3, <1>4, <1>5 DEF Next, EngineEnvironment, HandlerStep

\* No step changes the status or the results of a workflow that has ended.
THEOREM TerminalStays == Spec => TerminalIsFinal
<1> DEFINE Final == \A w \in Workflow : kv[w].status \in Terminal =>
                       /\ kv'[w].status = kv[w].status
                       /\ kv'[w].results = kv[w].results
<1>1. InductiveInvariant /\ [Next]_vars => [Final]_vars
  <2> SUFFICES ASSUME InductiveInvariant, [Next]_vars
               PROVE  Final
    BY Zenon
  <2>0. kv \in [Workflow -> WorkflowState]
    BY Zenon DEF InductiveInvariant, TypeOK, EngineTypeOK
  <2>1. CASE kv' = kv
    BY Zenon, <2>1
  <2>2. ASSUME NEW t \in Thread, NEW s \in WorkflowState, Writes(t, s)
        PROVE  Final
    <3>1. t[2] \in Workflow /\ kv'[t[2]] = s /\ \A w \in Workflow \ {t[2]} : kv'[w] = kv[w]
      BY Zenon, <2>0, <2>2, ThreadNames DEF Writes
    <3>2. kv[t[2]].status \in Terminal => s.status = kv[t[2]].status /\ s.results = kv[t[2]].results
      BY Zenon, <2>2 DEF Writes, SameRecord, OneMoreResult, Terminal
    <3> QED  BY Zenon, <3>1, <3>2
  <2>3. ASSUME NEW w \in Workflow, HandleWorkflowStart(w)
        PROVE  Final
    <3>1. kv[w].status = "none" /\ \A v \in Workflow \ {w} : kv'[v] = kv[v]
      BY Zenon, <2>0, <2>3 DEF HandleWorkflowStart
    <3> QED  BY Zenon, <3>1 DEF Terminal
  <2> QED  BY Zenon, <2>1, <2>2, <2>3, StepsSeen DEF Effect
<1> QED  BY <1>1, InvariantHolds, PTL DEF Spec, TerminalIsFinal

-----------------------------------------------------------------------------
(* The engine implements the life cycle *)

\* What a write to the bucket looks like in the abstract state.
LEMMA WriteSeen ==
    ASSUME kv \in [Workflow -> WorkflowState], NEW w \in Workflow, NEW s \in WorkflowState,
           kv' = [kv EXCEPT ![w] = s], published' = published
    PROVE  /\ [v \in Workflow |-> kv'[v].status]
                = [[v \in Workflow |-> kv[v].status] EXCEPT ![w] = s.status]
           /\ [v \in Workflow |-> Len(kv'[v].results)]
                = [[v \in Workflow |-> Len(kv[v].results)] EXCEPT ![w] = Len(s.results)]
           /\ [v \in Workflow |-> Outcomes(v)'] = [v \in Workflow |-> Outcomes(v)]
<1>1. \A v \in Workflow : kv'[v] = IF v = w THEN s ELSE kv[v]
  BY Zenon
<1>2. \A v \in Workflow : Outcomes(v)' = Outcomes(v)
  BY Zenon DEF Outcomes
<1> QED  BY Zenon, <1>1, <1>2

\* A workflow of which one outcome was announced has announced just that one.
LEMMA OneOutcome ==
    ASSUME InductiveInvariant', kv' = kv, NEW w \in Workflow, Len(published'[w]) > 0,
           kv[w].status \in Terminal
    PROVE  Outcomes(w)' = {kv[w].status}
<1> DEFINE Name(i) == IF published'[w][i] = "workflow.complete" THEN "completed" ELSE "failed"
<1>1. published'[w] \in Seq(Outcome)
  BY Zenon DEF InductiveInvariant, TypeOK, EngineTypeOK
<1>2. 1 \in DOMAIN published'[w]
  BY <1>1
<1>3. \A i \in DOMAIN published'[w] : Name(i) = kv[w].status
  BY Zenon DEF InductiveInvariant, OutcomesAgree
<1>4. Outcomes(w)' = {Name(i) : i \in DOMAIN published'[w]}
  BY Zenon DEF Outcomes
<1> HIDE DEF Name
<1> QED  BY Zenon, <1>2, <1>3, <1>4

LEMMA LifecycleStep ==
    ASSUME InductiveInvariant, InductiveInvariant', [Next]_vars
    PROVE  [Lifecycle!Next]_(Lifecycle!vars)
<1>0. kv \in [Workflow -> WorkflowState] /\ published \in [Workflow -> Seq(Outcome)]
  BY Zenon DEF InductiveInvariant, TypeOK, EngineTypeOK
<1>1. CASE kv' = kv /\ published' = published
  BY Zenon, <1>1 DEF Lifecycle!vars, Outcomes
<1>2. ASSUME NEW t \in Thread, NEW s \in WorkflowState, Writes(t, s), published' = published
      PROVE  [Lifecycle!Next]_(Lifecycle!vars)
  <2> DEFINE w == t[2]
  <2>1. w \in Workflow /\ kv[w] \in WorkflowState
    BY Zenon, <1>0, ThreadNames
  <2>2. kv' = [kv EXCEPT ![w] = s]
    BY Zenon, <1>2 DEF Writes
  <2> HIDE DEF w
  <2>3. /\ [v \in Workflow |-> kv'[v].status]
             = [[v \in Workflow |-> kv[v].status] EXCEPT ![w] = s.status]
        /\ [v \in Workflow |-> Len(kv'[v].results)]
             = [[v \in Workflow |-> Len(kv[v].results)] EXCEPT ![w] = Len(s.results)]
        /\ [v \in Workflow |-> Outcomes(v)'] = [v \in Workflow |-> Outcomes(v)]
    BY Zenon, <1>0, <1>2, <2>1, <2>2, WriteSeen
  <2>4. Len(kv[w].results) \in Nat /\ kv[w].step = Len(kv[w].results)
    BY Zenon, <2>1 DEF WorkflowState, InductiveInvariant, RecordsMatchStatus
  <2>5. CASE s.status = kv[w].status /\ s.results = kv[w].results
    BY Zenon, <2>1, <2>3, <2>5 DEF Lifecycle!vars
  <2>6. CASE kv[w].status = "running" /\ s.status = "failed" /\ s.results = kv[w].results
    <3>1. Lifecycle!Fail(w)
      BY Zenon, <2>1, <2>3, <2>6 DEF Lifecycle!Fail
    <3> QED  BY Zenon, <2>1, <3>1 DEF Lifecycle!Next
  <2>7. CASE /\ kv[w].status = "running" /\ s.status = "running"
             /\ Len(s.results) = Len(kv[w].results) + 1
             /\ Len(kv[w].results) + 1 < Len(StepsOf[w])
    <3>1. Lifecycle!Record(w)
      BY Zenon, <2>1, <2>3, <2>7 DEF Lifecycle!Record
    <3> QED  BY Zenon, <2>1, <3>1 DEF Lifecycle!Next
  <2>8. CASE /\ kv[w].status = "running" /\ s.status = "completed"
             /\ Len(s.results) = Len(kv[w].results) + 1
             /\ Len(kv[w].results) + 1 = Len(StepsOf[w])
    <3>1. Lifecycle!Complete(w)
      BY Zenon, <2>1, <2>3, <2>8 DEF Lifecycle!Complete
    <3> QED  BY Zenon, <2>1, <3>1 DEF Lifecycle!Next
  <2> QED  BY Zenon, <1>2, <2>4, <2>5, <2>6, <2>7, <2>8 DEF Writes, SameRecord, OneMoreResult, Steps, w
<1>3. ASSUME NEW t \in Thread, NEW outcome \in Outcome, Announces(t, outcome), kv' = kv
      PROVE  [Lifecycle!Next]_(Lifecycle!vars)
  <2> DEFINE w == t[2]
  <2>1. w \in Workflow
    BY Zenon, ThreadNames
  <2>2. /\ published' = [published EXCEPT ![w] = Append(published[w], outcome)]
        /\ kv[w].status \in Terminal
    BY Zenon, <1>3 DEF Announces, Terminal
  <2> HIDE DEF w
  <2>3. Len(published'[w]) > 0 /\ \A v \in Workflow \ {w} : published'[v] = published[v]
    BY <1>0, <2>1, <2>2
  <2>4. Outcomes(w)' = {kv[w].status}
    BY Zenon, <1>3, <2>1, <2>2, <2>3, OneOutcome
  <2>5. \A v \in Workflow \ {w} : Outcomes(v)' = Outcomes(v)
    BY Zenon, <2>3 DEF Outcomes
  <2>6. [v \in Workflow |-> Outcomes(v)']
          = [[v \in Workflow |-> Outcomes(v)] EXCEPT ![w] = {kv[w].status}]
    BY Zenon, <2>1, <2>4, <2>5
  <2>7. Lifecycle!Announce(w)
    BY Zenon, <1>3, <2>1, <2>2, <2>6 DEF Lifecycle!Announce, Terminal
  <2> QED  BY Zenon, <2>1, <2>7 DEF Lifecycle!Next
<1>4. ASSUME NEW w \in Workflow, HandleWorkflowStart(w)
      PROVE  [Lifecycle!Next]_(Lifecycle!vars)
  <2> DEFINE s == [NoState EXCEPT !.status = "running", !.rev = 1]
  <2>0. NoState.results = <<>>
    BY Zenon DEF NoState
  <2>1. kv' = [kv EXCEPT ![w] = s] /\ published' = published /\ kv[w].status = "none"
    BY Zenon, <1>4 DEF HandleWorkflowStart, busVars
  <2>2. s \in WorkflowState /\ s.status = "running" /\ s.results = <<>>
    <3>1. s \in WorkflowState
      BY Zenon, ValuesTyped DEF WorkflowState, Status
    <3> QED  BY Zenon, <2>0, <3>1, ValuesTyped DEF WorkflowState
  <2>3. kv[w].results = <<>>
    <3>1. kv[w] = NoState
      BY Zenon, <2>1 DEF InductiveInvariant, Beginning
    <3> QED  BY <2>0, <3>1, Zenon
  <2>4. Len(StepsOf[w]) > 0
    <3>1. \A n \in Nat : n \in 1..MaxSteps => n > 0
      OBVIOUS
    <3>2. Len(StepsOf[w]) \in Nat
      BY StepsAssumption
    <3>3. Len(StepsOf[w]) \in 1..MaxSteps
      BY Zenon, <1>4 DEF HandleWorkflowStart, ValidDefinition
    <3> QED  BY <3>1, <3>2, <3>3, Zenon
  <2> HIDE DEF s
  <2>5. /\ [v \in Workflow |-> kv'[v].status]
             = [[v \in Workflow |-> kv[v].status] EXCEPT ![w] = s.status]
        /\ [v \in Workflow |-> Len(kv'[v].results)]
             = [[v \in Workflow |-> Len(kv[v].results)] EXCEPT ![w] = Len(s.results)]
        /\ [v \in Workflow |-> Outcomes(v)'] = [v \in Workflow |-> Outcomes(v)]
    BY Zenon, <1>0, <2>1, <2>2, WriteSeen
  <2>6. Lifecycle!Start(w)
    <3>1. [v \in Workflow |-> Len(kv'[v].results)] = [v \in Workflow |-> Len(kv[v].results)]
      BY Zenon, <2>2, <2>3, <2>5
    <3>2. /\ [v \in Workflow |-> kv[v].status][w] = "none"
          /\ [v \in Workflow |-> Len(StepsOf[v])][w] > 0
      BY Zenon, <2>1, <2>4
    <3> QED  BY Zenon, <2>2, <2>5, <3>1, <3>2 DEF Lifecycle!Start
  <2> QED  BY Zenon, <2>6 DEF Lifecycle!Next
<1> QED  BY Zenon, <1>1, <1>2, <1>3, <1>4, StepsSeen DEF Effect

\* Every behaviour of the engine, with its statuses, the number of results and
\* the outcomes announced, is a behaviour of the life cycle it promises.
THEOREM LifecycleImplemented == Spec => ImplementsLifecycle
<1>1. Init => Lifecycle!Init
  <2> SUFFICES ASSUME Init
               PROVE  Lifecycle!Init
    BY Zenon
  <2>1. \A w \in Workflow : kv[w].status = "none" /\ Len(kv[w].results) = 0
    BY Zenon DEF Init, EngineInit, NoState
  <2>2. \A w \in Workflow : Outcomes(w) = {}
    <3>1. \A w \in Workflow : published[w] = <<>>
      BY Zenon DEF Init, EngineInit
    <3>2. \A w \in Workflow : DOMAIN published[w] = {}
      <4>1. DOMAIN <<>> = {}
        OBVIOUS
      <4> QED  BY <3>1, <4>1, Zenon
    <3> QED  BY <3>2, Zenon DEF Outcomes
  <2> QED  BY Zenon, <2>1, <2>2 DEF Lifecycle!Init
<1>2. InductiveInvariant /\ InductiveInvariant' /\ [Next]_vars => [Lifecycle!Next]_(Lifecycle!vars)
  BY Zenon, LifecycleStep
<1> QED  BY <1>1, <1>2, InvariantHolds, PTL DEF Spec, ImplementsLifecycle, Lifecycle!Spec

=============================================================================
