---------------------------- MODULE AgentWorkflow ----------------------------
(***************************************************************************)
(* The workflow engine on workflows whose steps are all done by agents:    *)
(* WorkflowEngine's actions without the decision coordinator.              *)
(***************************************************************************)
EXTENDS WorkflowEngine

\* No step has HumanApproval, so dispatchStep never calls the coordinator.
ASSUME AgentStepsAssumption ==
    \A w \in Workflow : \A i \in 1..Len(StepsOf[w]) : StepsOf[w][i] = "agent"

vars == engineVars

Init == EngineInit
Next == (\E t \in Thread : EngineThread(t)) \/ EngineEnvironment \/ CrashEngine
Spec == Init /\ [][Next]_vars

\* Every variable keeps the shape the Go types give it.
TypeOK == EngineTypeOK(EngineLabel)

-----------------------------------------------------------------------------
(* Safety *)

\* However results, timeouts, failed calls and redeliveries interleave, the
\* step counter equals the number of recorded results, a completed workflow has
\* one result per step and a running or failed one has fewer: a write of
\* advanceWorkflow, completeWorkflow, failWorkflowWithError or dispatchStep that
\* was built on a replaced state and got through would add or lose a result.
RecordsMatchStatus ==
    \A w \in Workflow :
        /\ kv[w].step = Len(kv[w].results)
        /\ kv[w].status \in {"running", "failed"} => kv[w].step < Len(StepsOf[w])
        /\ kv[w].status = "completed" => kv[w].step = Len(StepsOf[w])

\* A terminal event of completeWorkflow or failWorkflowWithError always agrees
\* with the stored status, so subscribers never see both outcomes of one
\* workflow, and workflow.complete is published at most once.
OutcomesAgree ==
    \A w \in Workflow :
        /\ \A i \in DOMAIN published[w] :
              \/ published[w][i] = "workflow.complete" /\ kv[w].status = "completed"
              \/ published[w][i] = "workflow.failed" /\ kv[w].status = "failed"
        /\ kv[w].status = "completed" => Len(published[w]) <= 1

\* A step message carries as many previous results as there are steps before it,
\* although dispatchStep reads the state again after advanceWorkflow wrote it.
PreviousResultsComplete ==
    \A m \in direct : Len(m.prev) = m.step

\* Once a workflow is completed or failed its status and its results never
\* change: late results, stale timeouts and interrupted dispatches are harmless.
TerminalIsFinal ==
    [][\A w \in Workflow : kv[w].status \in Terminal =>
          /\ kv'[w].status = kv[w].status
          /\ kv'[w].results = kv[w].results]_vars

\* The engine implements the life cycle it promises.
Outcomes(w) ==
    {IF published[w][i] = "workflow.complete" THEN "completed" ELSE "failed" :
        i \in DOMAIN published[w]}

Lifecycle == INSTANCE WorkflowLifecycle WITH
    Length    <- [w \in Workflow |-> Len(StepsOf[w])],
    status    <- [w \in Workflow |-> kv[w].status],
    recorded  <- [w \in Workflow |-> Len(kv[w].results)],
    announced <- [w \in Workflow |-> Outcomes(w)]

ImplementsLifecycle == Lifecycle!Spec

-----------------------------------------------------------------------------
(* The inductive invariant behind the safety properties *)

\* Which handler can be where.
StartLabel ==
    {"idle", "stream", "subscribe", "dispatch", "assign", "routeStream",
     "routeDirect", "schedule", "fail", "failUpdate", "announceFailed"}

ResultLabel ==
    {"idle", "result", "advance", "advanceUpdate", "completeUpdate",
     "announceComplete", "dispatch", "assign", "routeStream", "routeDirect",
     "schedule", "fail", "failUpdate", "announceFailed"}

TimerLabel == {"idle", "fired", "timeout", "fail", "failUpdate", "announceFailed"}

Roles(t) ==
    /\ t[1] = "start"  => pc[t] \in StartLabel
    /\ t[1] = "result" => pc[t] \in ResultLabel
    /\ t[1] = "timer"  => pc[t] \in TimerLabel
    /\ t[1] \in {"response", "resume"} => pc[t] = "idle"

\* A handler between its Get and its Update holds a state that is either
\* outdated or the stored one, and that has the status its branch requires.
HoldsState == {"assign", "advance", "advanceUpdate", "completeUpdate", "fail", "failUpdate"}

StateRead(t) ==
    /\ pc[t] \in HoldsState =>
          /\ Snap(t).rev <= kv[t[2]].rev
          /\ Snap(t).rev = kv[t[2]].rev => Snap(t) = kv[t[2]]
    /\ pc[t] \in {"advance", "advanceUpdate", "completeUpdate"} => Snap(t).status = "running"
    /\ pc[t] = "advanceUpdate" => Snap(t).step + 1 < Len(Steps(t))
    /\ pc[t] = "completeUpdate" => ~(Snap(t).step + 1 < Len(Steps(t)))
    /\ pc[t] \in {"fail", "failUpdate"} => Snap(t).status \in {"running", "failed"}
    /\ pc[t] \in {"assign", "routeStream", "routeDirect"} => Len(Snap(t).results) = loc[t].at

\* What a handler's position says about the stored state.
StateStored(t) ==
    /\ pc[t] = "idle" => loc[t] = NoLocals
    /\ pc[t] # "idle" => kv[t[2]].status # "none"
    /\ pc[t] \in {"stream", "subscribe", "dispatch"} => kv[t[2]].step = loc[t].at
    /\ pc[t] \in {"stream", "subscribe", "dispatch", "assign"} =>
          kv[t[2]].status \in {"running", "failed"}
    /\ pc[t] = "announceComplete" =>
          kv[t[2]].status = "completed" /\ published[t[2]] = <<>>
    /\ pc[t] = "announceFailed" => kv[t[2]].status = "failed"

\* Until the first step is sent nothing but workflow.start's handler and
\* timeouts touches the workflow: this keeps completion out of its way.
NotSent ==
    {"stream", "subscribe", "dispatch", "assign", "routeStream", "routeDirect"}

NothingSent(w) ==
    /\ pc[<<"result", w>>] = "idle"
    /\ inbox[<<"result", w>>] = {}
    /\ \A m \in direct : m.w # w

Beginning(w) ==
    /\ kv[w].status # "waiting"
    /\ kv[w].status = "none" =>
          /\ kv[w] = NoState
          /\ NothingSent(w)
          /\ w \notin subscribed
          /\ \A x \in armed : x[1] # w
    /\ kv[w].status \in {"none", "running"} => published[w] = <<>>
    /\ pc[<<"start", w>>] \in NotSent => NothingSent(w)

\* Every handler, wherever it is, holds a state it may act on: with this the
\* compare-and-swap of each write is enough to keep the properties above.
InductiveInvariant ==
    /\ TypeOK
    /\ \A t \in Thread : Roles(t) /\ StateRead(t) /\ StateStored(t)
    /\ \A w \in Workflow : Beginning(w)
    /\ RecordsMatchStatus
    /\ OutcomesAgree
    /\ PreviousResultsComplete

-----------------------------------------------------------------------------
(* Liveness *)

\* Goroutines are scheduled, consumers deliver what is in their stream and
\* timers expire.  Nothing makes an agent answer.
EngineFairness ==
    /\ \A t \in Thread : WF_vars(EngineThread(t))
    /\ \A w \in Workflow :
          /\ WF_vars(\E m \in inbox[<<"result", w>>] : ReceiveStepResult(w, m))
          /\ \A k \in StepIndex(w) : WF_vars(TimerFires(w, k))

AgentFairness ==
    \A w \in Workflow :
        WF_vars(\E m \in direct, status \in {"success", "failure"} :
                    m.w = w /\ AgentReplies(m, status))

FairSpec       == Spec /\ EngineFairness
FairAgentsSpec == FairSpec /\ AgentFairness

\* When agents answer, a started workflow ends and its end is announced, whatever
\* late timeouts and redelivered results do to its timer, unless a call failed or
\* the process crashed.
WorkflowEnds ==
    \A w \in Workflow :
        kv[w].status = "running" ~>
            \/ kv[w].status \in Terminal /\ published[w] # <<>>
            \/ faults + crashes > 0

=============================================================================
