------------------------ MODULE DecisionCoordinator ------------------------
(***************************************************************************)
(* The decision coordinator of core/workflow and the part of the engine    *)
(* that waits for it: a human step pauses the workflow, an operator's      *)
(* response or a timeout ends the pause, a goroutine of the engine resumes *)
(* the workflow.  RequestDecision runs in the thread that dispatches the   *)
(* step; it takes over at the label "requestDecision".                     *)
(***************************************************************************)
EXTENDS WorkflowEngine

CONSTANTS
    ResourcesOf,  \* <<w, k>> -> the ResourceIDs of step k of w
    Verdict       \* the answers operators give: "success" approves

ASSUME VerdictAssumption == Verdict \subseteq {"success", "failure"}

VARIABLES
    pending,      \* DecisionCoordinator.pending: decisions in the index
    noted,        \* decision -> ConflictIDs of the in-memory PendingDecision
    todo,         \* thread -> conflicting decisions RequestDecision has yet to update
    noting,       \* thread -> the update under way: decision and ConflictIDs
    resumeCh,     \* decisions whose channel is the workflow's entry in resumeCh
    channel,      \* decision -> content of its channel (buffer of one)
    resolved,     \* decision -> decision.resolved events published, in order
    booting,      \* the runtime has started and not called RecoverPending yet
    recovering    \* what RecoverPending has listed and not added yet

annotationVars == <<noted, todo, noting>>
recoveryVars   == <<booting, recovering>>
decisionVars   == <<pending, annotationVars, resumeCh, channel, resolved, recoveryVars>>

HumanStep ==
    UNION {{<<w, k>> : k \in {i \in StepIndex(w) : StepsOf[w][i + 1] = "human"}} :
              w \in Workflow}

Overlap(d, e) == ResourcesOf[d] \cap ResourcesOf[e] # {}

PendingOf(d) == [step |-> d[2], conflicts |-> noted[d]]

\* Mutant: the decision id is not compared.
AsksSomething(state, k) == state.pd # {}
Asks(state, k) == \E p \in state.pd : p.step = k

-----------------------------------------------------------------------------
(* RequestDecision *)

\* The workflow is paused whatever status the state just read has.
RequestUpdate(t) ==
    /\ pc[t] = "requestDecision"
    /\ \/ /\ Unchanged(t)
          /\ Update(t, [Snap(t) EXCEPT !.status = "waiting",
                            !.pd = {[step |-> loc[t].at, conflicts |-> {}]}])
          /\ Goto(t, "index")
          /\ UNCHANGED <<loc, inbox, redelivered>>
       \/ /\ ~Unchanged(t)
          /\ ReturnError(t)
          /\ UNCHANGED kv
    /\ UNCHANGED <<timerVars, memoryVars, direct, published, boundVars, decisionVars>>

\* Mutant: the new decision is not added to the ConflictIDs of the others.
IndexOneWay(t) ==
    LET d == <<t[2], loc[t].at>>
        conflicting == {e \in pending \ {d} : Overlap(d, e)}
    IN
    /\ pc[t] = "index"
    /\ pending' = pending \cup {d}
    /\ noted' = [noted EXCEPT ![d] = @ \cup conflicting]
    /\ todo' = [todo EXCEPT ![t] = conflicting]
    /\ Goto(t, IF conflicting = {} THEN "channel" ELSE "annotate")
    /\ UNCHANGED <<kv, loc, timerVars, memoryVars, busVars, boundVars,
                   noting, resumeCh, channel, resolved, recoveryVars>>

\* Under the lock: the decision is indexed and noted, both ways, as a conflict
\* of every pending decision that needs one of its resources.
IndexDecision(t) ==
    LET d == <<t[2], loc[t].at>>
        conflicting == {e \in pending \ {d} : Overlap(d, e)}
    IN
    /\ pc[t] = "index"
    /\ pending' = pending \cup {d}
    /\ noted' = [e \in HumanStep |->
                    IF e = d THEN noted[d] \cup conflicting
                    ELSE IF e \in conflicting THEN noted[e] \cup {d}
                    ELSE noted[e]]
    /\ todo' = [todo EXCEPT ![t] = conflicting]
    /\ Goto(t, IF conflicting = {} THEN "channel" ELSE "annotate")
    /\ UNCHANGED <<kv, loc, timerVars, memoryVars, busVars, boundVars,
                   noting, resumeCh, channel, resolved, recoveryVars>>

\* updateConflictIDs for the next conflicting decision, or the re-read of the
\* own state when there is none left: the read ...
ReadForAnnotation(t) ==
    /\ pc[t] = "annotate"
    /\ \E d \in (IF todo[t] = {} THEN {<<t[2], loc[t].at>>} ELSE todo[t]) :
          LET own == todo[t] = {}
              state == kv[d[1]]
          IN
          /\ todo' = [todo EXCEPT ![t] = @ \ {d}]
          /\ IF ~own /\ state.pd = {}
             THEN UNCHANGED <<pc, loc, noting>>
             ELSE /\ Goto(t, "annotateUpdate")
                  /\ loc' = [loc EXCEPT ![t].snap = state]
                  /\ noting' = [noting EXCEPT ![t] = {[d |-> d, ids |-> noted[d]]}]
    /\ UNCHANGED <<kv, timerVars, memoryVars, busVars, boundVars,
                   pending, noted, resumeCh, channel, resolved, recoveryVars>>

\* ... and the write, whose failure is ignored.  Another workflow keeps its
\* pending decision and gets the new ConflictIDs; the own workflow gets this
\* decision as its pending one whatever has happened to it since.
Annotated(n, own, state) ==
    IF own THEN [state EXCEPT !.pd = {PendingOf(n.d)}]
    ELSE [state EXCEPT !.pd = {[p EXCEPT !.conflicts = n.ids] : p \in @}]

\* Mutant: the state is written back without comparing revisions.
AnnotateBlindly(t) ==
    /\ pc[t] = "annotateUpdate"
    /\ \E n \in noting[t] :
          LET own == n.d = <<t[2], loc[t].at>> IN
          /\ kv' = [kv EXCEPT ![n.d[1]] = [Annotated(n, own, Snap(t)) EXCEPT
                                              !.rev = kv[n.d[1]].rev + 1]]
          /\ Goto(t, IF own THEN "channel" ELSE "annotate")
    /\ noting' = [noting EXCEPT ![t] = {}]
    /\ UNCHANGED <<loc, timerVars, memoryVars, busVars, boundVars,
                   pending, noted, todo, resumeCh, channel, resolved, recoveryVars>>

Annotate(t) ==
    /\ pc[t] = "annotateUpdate"
    /\ \E n \in noting[t] :
          LET own == n.d = <<t[2], loc[t].at>>
              w == n.d[1]
          IN
          /\ kv' = IF kv[w].rev = Snap(t).rev
                   THEN [kv EXCEPT ![w] = [Annotated(n, own, Snap(t)) EXCEPT
                                              !.rev = Snap(t).rev + 1]]
                   ELSE kv
          /\ Goto(t, IF own THEN "channel" ELSE "annotate")
    /\ noting' = [noting EXCEPT ![t] = {}]
    /\ UNCHANGED <<loc, timerVars, memoryVars, busVars, boundVars,
                   pending, noted, todo, resumeCh, channel, resolved, recoveryVars>>

\* The resume channel is registered under the workflow's id.
RegisterChannel(t) ==
    LET d == <<t[2], loc[t].at>> IN
    /\ pc[t] = "channel"
    /\ resumeCh' = {e \in resumeCh : e[1] # t[2]} \cup {d}
    /\ Goto(t, "publishRequest")
    /\ UNCHANGED <<kv, loc, timerVars, memoryVars, busVars, boundVars,
                   pending, annotationVars, channel, resolved, recoveryVars>>

\* human.decision.request is published; operators see it through the index.
PublishRequest(t) ==
    /\ pc[t] = "publishRequest"
    /\ Goto(t, "scheduleDecision")
    /\ UNCHANGED <<kv, loc, timerVars, memoryVars, busVars, boundVars, decisionVars>>

ScheduleDecisionTimeout(t) ==
    /\ pc[t] = "scheduleDecision"
    /\ Schedule(t[2], loc[t].at)
    /\ Goto(t, "spawn")
    /\ UNCHANGED <<kv, loc, memoryVars, busVars, boundVars, decisionVars>>

\* dispatchHumanStep starts the goroutine that waits on the channel.
SpawnWaiter(t) ==
    /\ pc[t] = "spawn"
    /\ pc' = [pc EXCEPT ![t] = "idle", ![<<"resume", t[2], loc[t].at>>] = "wait"]
    /\ loc' = [loc EXCEPT ![t] = NoLocals]
    /\ Acknowledge(t)
    /\ UNCHANGED <<kv, timerVars, memoryVars, direct, published, boundVars, decisionVars>>

-----------------------------------------------------------------------------
(* ProcessResponse *)

\* POST /api/decisions/{id}/respond accepts an answer to any indexed decision.
OperatorResponds(d, status) ==
    /\ d \in pending
    /\ inbox' = [inbox EXCEPT ![<<"response", d[1]>>] =
                    @ \cup {[step |-> d[2], status |-> status, by |-> "human"]}]
    /\ UNCHANGED <<kv, pc, loc, timerVars, memoryVars, direct, published,
                   redelivered, boundVars, decisionVars>>

\* One consumer handles the responses of all workflows, one at a time.
ReceiveResponse(w, m) ==
    LET t == <<"response", w>> IN
    /\ \A v \in Workflow : pc[<<"response", v>>] = "idle"
    /\ m \in inbox[t]
    /\ Goto(t, "response")
    /\ loc' = [loc EXCEPT ![t].msg = m]
    /\ UNCHANGED <<kv, timerVars, memoryVars, busVars, boundVars, decisionVars>>

\* Mutant: neither the status nor the decision id is checked.
ProcessAnyResponse(t) ==
    /\ pc[t] = "response"
    /\ Get(t, "respond", loc[t])
    /\ UNCHANGED <<kv, timerVars, memoryVars, busVars, boundVars, decisionVars>>

\* Only the decision the workflow is waiting for is processed.
ProcessResponse(t) ==
    LET state == kv[t[2]] IN
    /\ pc[t] = "response"
    /\ \/ /\ state.status = "waiting" /\ Asks(state, loc[t].msg.step)
          /\ Get(t, "respond", loc[t])
          /\ UNCHANGED <<inbox, redelivered>>
       \/ /\ ~(state.status = "waiting" /\ Asks(state, loc[t].msg.step))
          /\ Return(t)
    /\ UNCHANGED <<kv, timerVars, memoryVars, direct, published, boundVars, decisionVars>>

\* The timeout and the index entry go before the write is known to succeed.
WithdrawDecision(t) ==
    /\ pc[t] = "respond"
    /\ Cancel(t[2])
    /\ pending' = pending \ {<<t[2], loc[t].msg.step>>}
    /\ Goto(t, "respondUpdate")
    /\ UNCHANGED <<kv, loc, memoryVars, busVars, boundVars,
                   annotationVars, resumeCh, channel, resolved, recoveryVars>>

\* Mutant: an answer does not end the pause.
AnsweredStaysPaused(t) == [Snap(t) EXCEPT !.pd = {}]

Answered(t) ==
    IF loc[t].msg.status = "success"
    THEN [Snap(t) EXCEPT !.status = "running", !.pd = {}]
    ELSE [Snap(t) EXCEPT !.status = "failed", !.pd = {},
                         !.err = [code |-> "DECISION_REJECTED", step |-> Snap(t).step]]

RespondUpdate(t) ==
    /\ pc[t] = "respondUpdate"
    /\ \/ /\ Unchanged(t)
          /\ Update(t, Answered(t))
          /\ Goto(t, "resolve")
          /\ UNCHANGED <<loc, inbox, redelivered>>
       \/ /\ ~Unchanged(t)
          /\ Return(t)
          /\ UNCHANGED kv
    /\ UNCHANGED <<timerVars, memoryVars, direct, published, boundVars, decisionVars>>

\* A send on the workflow's registered channel never blocks.
Registered(w) == {d \in resumeCh : d[1] = w}
Send(w, verdict) ==
    channel' = [d \in HumanStep |->
                   IF d \in Registered(w) /\ channel[d] = "empty"
                   THEN verdict ELSE channel[d]]

\* The engine is notified if the workflow has a channel.
Notify(t, verdict) ==
    /\ Send(t[2], verdict)
    /\ \/ /\ Registered(t[2]) # {}
          /\ Goto(t, "dropChannel")
          /\ UNCHANGED <<loc, inbox, redelivered>>
       \/ /\ Registered(t[2]) = {}
          /\ Return(t)

\* Mutant: the engine is not notified.
ResolveUnheard(t) ==
    LET m == loc[t].msg IN
    /\ pc[t] = "resolve"
    /\ resolved' = [resolved EXCEPT ![<<t[2], m.step>>] = Append(@, m.status)]
    /\ Return(t)
    /\ UNCHANGED <<kv, timerVars, memoryVars, direct, published, boundVars,
                   pending, annotationVars, resumeCh, channel, recoveryVars>>

\* decision.resolved is published and the engine is notified ...
ResolveDecision(t) ==
    LET m == loc[t].msg IN
    /\ pc[t] = "resolve"
    /\ resolved' = [resolved EXCEPT ![<<t[2], m.step>>] = Append(@, m.status)]
    /\ Notify(t, IF m.status = "success" THEN "approved" ELSE "denied")
    /\ UNCHANGED <<kv, timerVars, memoryVars, direct, published, boundVars,
                   pending, annotationVars, resumeCh, recoveryVars>>

\* ... then the workflow's entry is deleted, whichever channel it now is.
DropChannel(t) ==
    /\ pc[t] = "dropChannel"
    /\ resumeCh' = resumeCh \ Registered(t[2])
    /\ Return(t)
    /\ UNCHANGED <<kv, timerVars, memoryVars, direct, published, boundVars,
                   pending, annotationVars, channel, resolved, recoveryVars>>

-----------------------------------------------------------------------------
(* handleTimeout *)

\* The callback of a human step: the decision leaves the index.
DecisionTimeout(t) ==
    LET state == kv[t[2]] IN
    /\ pc[t] = "timeout"
    /\ <<t[2], t[3]>> \in HumanStep
    /\ \/ /\ state.status = "waiting" /\ Asks(state, t[3])
          /\ Get(t, "timeoutUpdate", loc[t])
          /\ pending' = pending \ {<<t[2], t[3]>>}
       \/ /\ ~(state.status = "waiting" /\ Asks(state, t[3]))
          /\ Leave(t)
          /\ UNCHANGED pending
    /\ UNCHANGED <<kv, timerVars, memoryVars, busVars, boundVars,
                   annotationVars, resumeCh, channel, resolved, recoveryVars>>

\* Whether the write succeeds is not looked at.
TimeoutUpdate(t) ==
    /\ pc[t] = "timeoutUpdate"
    /\ \/ /\ Unchanged(t)
          /\ Update(t, [Snap(t) EXCEPT !.status = "failed", !.pd = {},
                            !.err = [code |-> "DECISION_TIMEOUT", step |-> t[3]]])
       \/ /\ ~Unchanged(t)
          /\ UNCHANGED kv
    /\ Goto(t, "notifyTimeout")
    /\ UNCHANGED <<loc, timerVars, memoryVars, busVars, boundVars, decisionVars>>

NotifyTimeout(t) ==
    /\ pc[t] = "notifyTimeout"
    /\ Notify(t, "denied")
    /\ UNCHANGED <<kv, timerVars, memoryVars, direct, published, boundVars,
                   pending, annotationVars, resumeCh, resolved, recoveryVars>>

-----------------------------------------------------------------------------
(* The engine's waiting goroutine *)

\* dispatchHumanStep: the result is received; a denial ends the goroutine.
ReceiveVerdict(t) ==
    LET d == <<t[2], t[3]>> IN
    /\ pc[t] = "wait"
    /\ channel[d] # "empty"
    /\ channel' = [channel EXCEPT ![d] = "empty"]
    /\ IF channel[d] = "approved" THEN Goto(t, "resume") ELSE Goto(t, "idle")
    /\ UNCHANGED <<kv, loc, timerVars, memoryVars, busVars, boundVars,
                   pending, annotationVars, resumeCh, resolved, recoveryVars>>

\* resumeAfterApproval: a synthetic result advances a running workflow.
ResumeAfterApproval(t) ==
    /\ pc[t] = "resume"
    /\ \/ /\ kv[t[2]].status = "running"
          /\ Get(t, "advance", [loc[t] EXCEPT !.msg =
                   [step |-> t[3], status |-> "success", by |-> "human"]])
       \/ /\ kv[t[2]].status # "running"
          /\ Leave(t)
    /\ UNCHANGED <<kv, timerVars, memoryVars, busVars, boundVars, decisionVars>>

-----------------------------------------------------------------------------
(* Failing calls, crash and recovery *)

\* RequestDecision returns the error of its first Update and of its Publish,
\* ProcessResponse that of its Get; a failed Update is a lost one elsewhere.
DecisionCallFails(t) ==
    /\ faults < MaxFaults
    /\ faults' = faults + 1
    /\ \/ /\ pc[t] \in {"requestDecision", "publishRequest", "response", "resume"}
          /\ ReturnError(t)
          /\ UNCHANGED noting
       \/ /\ pc[t] = "respondUpdate"
          /\ Return(t)
          /\ UNCHANGED noting
       \/ /\ pc[t] = "timeoutUpdate"
          /\ Goto(t, "notifyTimeout")
          /\ UNCHANGED <<loc, inbox, redelivered, noting>>
       \/ /\ pc[t] = "annotateUpdate"
          /\ \E n \in noting[t] :
                Goto(t, IF n.d = <<t[2], loc[t].at>> THEN "channel" ELSE "annotate")
          /\ noting' = [noting EXCEPT ![t] = {}]
          /\ UNCHANGED <<loc, inbox, redelivered>>
    /\ UNCHANGED <<kv, timerVars, memoryVars, direct, published, crashes,
                   pending, noted, todo, resumeCh, channel, resolved, recoveryVars>>

\* The coordinator's memory is lost with the process.
Crash ==
    /\ CrashEngine
    /\ pending' = {}
    /\ noted' = [d \in HumanStep |-> {}]
    /\ todo' = [t \in Thread |-> {}]
    /\ noting' = [t \in Thread |-> {}]
    /\ resumeCh' = {}
    /\ channel' = [d \in HumanStep |-> "empty"]
    /\ booting' = TRUE
    /\ recovering' = {}
    /\ UNCHANGED resolved

\* Mutant: the wrong status is looked for.
ListRunning ==
    /\ booting
    /\ booting' = FALSE
    /\ recovering' = UNION {{[d |-> <<w, p.step>>, ids |-> p.conflicts] : p \in kv[w].pd} :
                               w \in {v \in Workflow : kv[v].status = "running"}}
    /\ UNCHANGED <<engineVars, pending, annotationVars, resumeCh, channel, resolved>>

\* RecoverPending lists the bucket while consumers already run, ...
ListForRecovery ==
    /\ booting
    /\ booting' = FALSE
    /\ recovering' = UNION {{[d |-> <<w, p.step>>, ids |-> p.conflicts] : p \in kv[w].pd} :
                               w \in {v \in Workflow : kv[v].status = "waiting"}}
    /\ UNCHANGED <<engineVars, pending, annotationVars, resumeCh, channel, resolved>>

\* ... then indexes what it has listed.  No channel, no timer and no
\* subscription comes back.
RecoverDecision(n) ==
    /\ n \in recovering
    /\ recovering' = recovering \ {n}
    /\ pending' = pending \cup {n.d}
    /\ noted' = [noted EXCEPT ![n.d] = n.ids]
    /\ UNCHANGED <<engineVars, todo, noting, resumeCh, channel, resolved, booting>>

=============================================================================
