---------------------------- MODULE HumanWorkflow ----------------------------
(***************************************************************************)
(* The workflow engine composed with the decision coordinator: workflows   *)
(* with agent steps and human steps, sharing the bucket, the timers and    *)
(* the threads.                                                            *)
(***************************************************************************)
EXTENDS DecisionCoordinator

vars == <<engineVars, decisionVars>>

Init ==
    /\ EngineInit
    /\ pending = {}
    /\ noted = [d \in HumanStep |-> {}]
    /\ todo = [t \in Thread |-> {}]
    /\ noting = [t \in Thread |-> {}]
    /\ resumeCh = {}
    /\ channel = [d \in HumanStep |-> "empty"]
    /\ resolved = [d \in HumanStep |-> <<>>]
    /\ booting = FALSE
    /\ recovering = {}

DecisionThread(t) ==
    \/ RequestUpdate(t) \/ IndexDecision(t)
    \/ ReadForAnnotation(t) \/ Annotate(t)
    \/ RegisterChannel(t) \/ PublishRequest(t)
    \/ ScheduleDecisionTimeout(t) \/ SpawnWaiter(t)
    \/ ProcessResponse(t) \/ WithdrawDecision(t) \/ RespondUpdate(t)
    \/ ResolveDecision(t) \/ DropChannel(t)
    \/ DecisionTimeout(t) \/ TimeoutUpdate(t) \/ NotifyTimeout(t)
    \/ ReceiveVerdict(t) \/ ResumeAfterApproval(t)

ThreadStep(t) ==
    \/ EngineThread(t) /\ UNCHANGED decisionVars
    \/ DecisionThread(t)

Recovery == ListForRecovery \/ \E n \in recovering : RecoverDecision(n)

DecisionEnvironment ==
    \/ \E d \in pending, status \in Verdict : OperatorResponds(d, status)
    \/ \E w \in Workflow : \E m \in inbox[<<"response", w>>] : ReceiveResponse(w, m)
    \/ \E t \in Thread : DecisionCallFails(t)
    \/ Crash

Next ==
    \/ \E t \in Thread : ThreadStep(t)
    \/ EngineEnvironment /\ UNCHANGED decisionVars
    \/ DecisionEnvironment
    \/ Recovery

Spec == Init /\ [][Next]_vars

-----------------------------------------------------------------------------
(* Safety *)

\* The results recorded for w are those of its steps, one after the other.  The
\* engine does not compare a result's step with the current one, so a second
\* result of an agent may be recorded for whatever step the workflow is at.
InStep(w) == \A i \in DOMAIN kv[w].results : kv[w].results[i].step = i - 1

\* A decision of w needs a resource of another decision that may be asked for.
Contended(w) ==
    \E d, e \in HumanStep :
        d # e /\ d[1] = w /\ kv[e[1]].status # "none" /\ Overlap(d, e)

\* The response consumer, redelivered responses, the decision timeout and the
\* writes of other workflows race for the same state, yet decision.resolved is
\* published at most once for a decision, with one verdict.  The exception: a
\* second result has pushed the workflow past a step whose RequestDecision is
\* still writing its conflicts, and so makes the decision pending again.
ResolvedOnce ==
    \A d \in HumanStep :
        Len(resolved[d]) <= 1 \/ (Contended(d[1]) /\ ~InStep(d[1]))

\* A synthetic approval result in a workflow is recorded once: the waiting
\* goroutine and a redelivered response cannot both advance the workflow.  As
\* long as results are in step it was preceded by the approval of that very step,
\* although the resume channel is registered for the workflow, not the decision.
ApprovalsAreReal ==
    \A w \in Workflow : \A i \in DOMAIN kv[w].results :
        kv[w].results[i].by = "human" =>
            /\ InStep(w) => resolved[<<w, kv[w].results[i].step>>] = <<"success">>
            /\ \A j \in DOMAIN kv[w].results : kv[w].results[j] = kv[w].results[i] => i = j

\* Until a restart, two indexed decisions that need a common resource name each
\* other in their ConflictIDs, whatever is requested and resolved meanwhile: the
\* scan and the two-way note of RequestDecision miss no pair.
ConflictsMutual ==
    crashes = 0 =>
        \A d, e \in pending : d # e /\ Overlap(d, e) => e \in noted[d]

\* As long as no call fails, a workflow paused without conflicts whose handlers
\* have come to rest is in the index, the only place operators see and answer
\* decisions: what ProcessResponse withdraws before its write is not forgotten.
\* So it is after a restart, unless other decisions need the same resources.
PausedIsVisible ==
    \A w \in Workflow :
        /\ kv[w].status = "waiting"
        /\ \A t \in Thread : t[2] = w => pc[t] \in {"idle", "wait"}
        /\ ~booting /\ recovering = {}
        /\ faults = 0 /\ InStep(w)
        /\ crashes = 0 \/ ~Contended(w)
        => \A p \in kv[w].pd : p.conflicts = {} => <<w, p.step>> \in pending

\* A terminal status is left only by the write with which RequestDecision pauses
\* the workflow: no answer, timeout, annotation or result undoes an outcome, as
\* long as results are in step.
OnlyRequestReopens ==
    [][\A w \in Workflow :
          InStep(w) /\ kv[w].status \in Terminal /\ kv'[w].status # kv[w].status =>
              \E t \in Thread :
                  t[2] = w /\ pc[t] = "requestDecision" /\ pc'[t] = "index"]_vars

-----------------------------------------------------------------------------
(* Liveness *)

EngineFairness ==
    /\ \A t \in Thread : WF_vars(ThreadStep(t))
    /\ \A w \in Workflow :
          /\ WF_vars(\E m \in inbox[<<"result", w>>] :
                        ReceiveStepResult(w, m) /\ UNCHANGED decisionVars)
          /\ WF_vars(\E m \in inbox[<<"response", w>>] : ReceiveResponse(w, m))
          /\ \A k \in StepIndex(w) : WF_vars(TimerFires(w, k) /\ UNCHANGED decisionVars)
    /\ WF_vars(Recovery)

AgentFairness ==
    \A w \in Workflow :
        WF_vars(/\ \E m \in direct, status \in {"success", "failure"} :
                      m.w = w /\ AgentReplies(m, status)
                /\ UNCHANGED decisionVars)

OperatorFairness ==
    \A d \in HumanStep :
        WF_vars(\E status \in Verdict : OperatorResponds(d, status))

FairSpec == Spec /\ EngineFairness
AttendedSpec == FairSpec /\ AgentFairness /\ OperatorFairness

\* The workflow is still paused, but the write of an answer or a timeout that has
\* read its state is going to fail.
Overtaken(w) ==
    /\ kv[w].status = "waiting"
    /\ \E t \in Thread : /\ t[2] = w /\ ~Unchanged(t)
                        /\ pc[t] \in {"respondUpdate", "timeoutUpdate"}

\* With operators who answer, no workflow stays paused: whatever the response
\* consumer, the decision timeout and late step timeouts do to each other, one
\* of their writes gets through.  The exception: RequestDecision of a workflow
\* that needs the same resource notes its conflict between the read and the write
\* of an answer or a timeout; ProcessResponse has withdrawn the decision and its
\* timer by then and takes the conflict for "already processed".
PauseEnds ==
    \A w \in Workflow :
        \/ kv[w].status = "waiting" ~> kv[w].status # "waiting"
        \/ <>(Contended(w) /\ Overtaken(w))

\* RequestDecision has indexed d and not registered its channel yet.
Requesting(d) ==
    \E t \in Thread : /\ t[2] = d[1] /\ loc[t].at = d[2]
                      /\ pc[t] \in {"annotate", "annotateUpdate", "channel"}

\* The handler of another decision of the workflow is about to delete d's channel.
Displaced(d) ==
    /\ d \in resumeCh
    /\ \E t \in Thread :
          /\ t[2] = d[1] /\ pc[t] = "dropChannel"
          /\ d[2] # IF t[1] = "timer" THEN t[3] ELSE loc[t].msg.step

\* An approved workflow gets past its human step, with three exceptions: the
\* approval was processed before RequestDecision registered the channel; the
\* decision's timeout fired as well, as handleTimeout sends its denial even when
\* its write has lost to the approval; and the handler of the step before deleted
\* the channel, as it deletes the workflow's entry after the send that lets the
\* workflow go on to its next human step.
ApprovedResumes ==
    \A d \in HumanStep :
        \/ resolved[d] = <<"success">> ~>
              kv[d[1]].status \in Terminal \/ kv[d[1]].step > d[2]
        \/ <>(resolved[d] # <<>> /\ Requesting(d))
        \/ <>(pc[<<"timer", d[1], d[2]>>] = "notifyTimeout")
        \/ <>Displaced(d)

-----------------------------------------------------------------------------
(* Claims of the repository's comments, tests and documentation *)

\* architecture.md: human steps "pause the workflow in WAITING_HUMAN", so the
\* workflow gets past one only with an approval.
HumanStepsApproved ==
    \A w \in Workflow : \A i \in DOMAIN kv[w].results :
        StepsOf[w][i] = "human" => kv[w].results[i].by = "human"

=============================================================================
