------------------------ MODULE HumanWorkflowProofs ------------------------
(***************************************************************************)
(* The safety properties of HumanWorkflow, for any workflows, any mix of   *)
(* agent and human steps, any resources and any bounds.                    *)
(*                                                                         *)
(* The argument: what a step of the system does is summed up once, seen    *)
(* from the thread t that takes it (Effect(t): which thread moves, what is *)
(* written to the bucket, what becomes of messages, timers and verdicts).  *)
(* The facts about a single thread (Local) are kept action by action; the  *)
(* facts that relate threads, bucket and coordinator follow from the       *)
(* summary.                                                                *)
(***************************************************************************)
EXTENDS HumanWorkflow, WorkflowEngineProofs

-----------------------------------------------------------------------------
(* Places in the handlers *)

AdvanceLabel == {"advance", "advanceUpdate", "completeUpdate"}
FailLabel    == {"fail", "failUpdate", "announceFailed"}
AnswerLabel  == {"respond", "respondUpdate", "resolve"}

\* dispatchStep: before it knows who does the step, for an agent, for a human.
BeginLabel    == {"stream", "subscribe", "dispatch"}
AgentLabel    == {"assign", "routeStream", "routeDirect", "schedule"}
AskLabel      == {"index", "annotate", "annotateUpdate", "channel", "publishRequest",
                  "scheduleDecision", "spawn"}
UnaskedLabel  == BeginLabel \cup {"requestDecision"}
DispatchLabel == UnaskedLabel \cup AgentLabel \cup AskLabel

\* Between a read of the own workflow and the write that depends on it.
HoldsState == {"assign", "fail", "failUpdate", "requestDecision", "respond",
               "respondUpdate", "timeoutUpdate"} \cup AdvanceLabel

HumanLabel == EngineLabel \cup AskLabel \cup AnswerLabel \cup
              {"wait", "resume", "response", "dropChannel", "timeoutUpdate", "notifyTimeout"}

\* The goroutine of a human step before it has recorded the approval, and when
\* it has received the approval.
WaitLabel   == {"wait", "resume"} \cup AdvanceLabel
ResumeLabel == {"resume"} \cup AdvanceLabel

-----------------------------------------------------------------------------
(* The inductive invariant: types *)

Note == [d : HumanStep, ids : SUBSET HumanStep]

CoordinatorTypeOK ==
    /\ pending \subseteq HumanStep
    /\ noted \in [HumanStep -> SUBSET HumanStep]
    /\ todo \in [Thread -> SUBSET HumanStep]
    /\ noting \in [Thread -> SUBSET Note]
    /\ resumeCh \subseteq HumanStep
    /\ channel \in [HumanStep -> {"empty", "approved", "denied"}]
    /\ resolved \in [HumanStep -> Seq({"success", "failure"})]
    /\ booting \in BOOLEAN
    /\ recovering \subseteq Note

TypeOK == EngineTypeOK(HumanLabel) /\ CoordinatorTypeOK

-----------------------------------------------------------------------------
(* The inductive invariant: one thread *)

\* Which kind of handler can be where.
Roles(t) ==
    /\ t[1] = "start" => pc[t] \in {"idle"} \cup DispatchLabel \cup FailLabel
    /\ t[1] = "result" => pc[t] \in {"idle", "result", "announceComplete"}
                                       \cup AdvanceLabel \cup DispatchLabel \cup FailLabel
    /\ t[1] = "resume" => pc[t] \in {"idle", "wait", "resume", "announceComplete"}
                                       \cup AdvanceLabel \cup DispatchLabel \cup FailLabel
    /\ t[1] = "timer" => pc[t] \in {"idle", "fired", "timeout", "timeoutUpdate",
                                    "notifyTimeout", "dropChannel"} \cup FailLabel
    /\ t[1] = "response" => pc[t] \in {"idle", "response", "dropChannel"} \cup AnswerLabel
    /\ pc[t] \in {"idle", "wait", "resume"} => loc[t] = NoLocals

\* The messages handlers have in hand: of an agent's step, of the approval a
\* goroutine has waited for, of a human step.
HasResult(t) == t[1] = "result" /\ pc[t] \in {"result"} \cup AdvanceLabel
HasAnswer(t) == pc[t] \in AnswerLabel
OfAgent(w, m) == m.by = "agent" /\ <<w, m.step>> \notin HumanStep
InHand(t) ==
    /\ HasResult(t) => OfAgent(t[2], loc[t].msg)
    /\ t[1] = "resume" /\ pc[t] \in AdvanceLabel =>
          loc[t].msg = [step |-> t[3], status |-> "success", by |-> "human"]
    /\ HasAnswer(t) => <<t[2], loc[t].msg.step>> \in HumanStep

\* What a handler has read is the stored state or outdated, and it has the
\* status the handler's branch tested.
AsRead(s, w) == s.rev <= kv[w].rev /\ (s.rev = kv[w].rev => s = kv[w])
Stepwise(s) == \A i \in DOMAIN s.results : s.results[i].step = i - 1
Waits(s, k) == s.status = "waiting" /\ Asks(s, k)
StateRead(t) ==
    /\ pc[t] \in HoldsState => AsRead(Snap(t), t[2])
    /\ pc[t] = "annotateUpdate" => \A n \in noting[t] : AsRead(Snap(t), n.d[1])
    /\ pc[t] \in AdvanceLabel => Snap(t).status \notin Terminal
    /\ pc[t] \in AdvanceLabel /\ t[1] = "resume" => Snap(t).status = "running"
    /\ pc[t] = "advanceUpdate" => Snap(t).step + 1 < Len(Steps(t))
    /\ pc[t] = "completeUpdate" => Snap(t).step + 1 >= Len(Steps(t))
    /\ pc[t] \in {"fail", "failUpdate"} /\ Snap(t).status = "completed" =>
          ~Stepwise(Snap(t))
    /\ pc[t] \in {"respond", "respondUpdate"} => Waits(Snap(t), loc[t].msg.step)
    /\ pc[t] = "timeoutUpdate" => Waits(Snap(t), t[3])

\* Step k of w has been reached.
Reached(w, k) == kv[w].status # "none" /\ k <= kv[w].step

\* No handler is ahead of its workflow, and it dispatches a step of the kind it
\* takes it for.
OnTrack(t) ==
    /\ pc[t] # "idle" /\ t[1] # "response" => kv[t[2]].status # "none"
    /\ pc[t] # "idle" /\ t[1] \in {"timer", "resume"} => Reached(t[2], t[3])
    /\ HasResult(t) \/ HasAnswer(t) => Reached(t[2], loc[t].msg.step)
    /\ pc[t] \in DispatchLabel =>
          loc[t].at \in StepIndex(t[2]) /\ Reached(t[2], loc[t].at)
    /\ pc[t] \in AgentLabel => <<t[2], loc[t].at>> \notin HumanStep
    /\ pc[t] \in AskLabel \cup {"requestDecision"} => <<t[2], loc[t].at>> \in HumanStep
    /\ pc[t] # "idle" /\ t[1] = "resume" => <<t[2], t[3]>> \in HumanStep

\* Conflicts are written only between decisions that need a common resource,
\* and until a restart there are some to write.
Annotations(t) ==
    /\ \A d \in todo[t] :
          kv[d[1]].status # "none" /\ Contended(d[1]) /\ (crashes = 0 => noted[d] # {})
    /\ \A n \in noting[t] :
          kv[n.d[1]].status # "none" /\ Contended(n.d[1]) /\ (crashes = 0 => n.ids # {})
    /\ pc[t] \in {"annotate", "annotateUpdate"} =>
          Contended(t[2]) /\ (crashes = 0 => noted[<<t[2], loc[t].at>>] # {})

Local(t) == Roles(t) /\ InHand(t) /\ StateRead(t) /\ OnTrack(t) /\ Annotations(t)

-----------------------------------------------------------------------------
(* The inductive invariant: bucket, messages, timers, index *)

Approved(w, k) ==
    \E i \in DOMAIN kv[w].results : kv[w].results[i].by = "human" /\ kv[w].results[i].step = k

Stored(w) ==
    /\ kv[w].status = "none" => kv[w] = NoState
    /\ kv[w].step = Len(kv[w].results)
    /\ kv[w].status = "completed" => kv[w].step >= Len(StepsOf[w])
    /\ \A p \in kv[w].pd :
          <<w, p.step>> \in HumanStep /\ p.conflicts \subseteq HumanStep /\ Reached(w, p.step)
    /\ \A i \in DOMAIN kv[w].results :
          /\ kv[w].results[i].by = "human" <=> <<w, kv[w].results[i].step>> \in HumanStep
          /\ Reached(w, kv[w].results[i].step)

\* Whatever is under way concerns steps that have been reached.
UnderWay ==
    /\ \A m \in direct : <<m.w, m.step>> \notin HumanStep /\ Reached(m.w, m.step)
    /\ \A w \in Workflow : \A m \in inbox[<<"result", w>>] :
          OfAgent(w, m) /\ Reached(w, m.step)
    /\ \A x \in armed : x[2] \in StepIndex(x[1]) /\ Reached(x[1], x[2])
    /\ \A d \in pending : kv[d[1]].status # "none"
    /\ \A n \in recovering : kv[n.d[1]].status # "none"
    /\ \A d \in resumeCh : Reached(d[1], d[2])
    /\ \A d \in HumanStep : resolved[d] # <<>> => Reached(d[1], d[2])
    /\ crashes = 0 => ~booting /\ recovering = {}
    /\ booting => recovering = {}

-----------------------------------------------------------------------------
(* The inductive invariant: threads, bucket and verdicts *)

Dispatches(t, w, k) == t[2] = w /\ pc[t] \in DispatchLabel /\ loc[t].at = k

\* A message about step k for or from an agent is under way.
Sent(w, k) ==
    \/ \E m \in direct : m.w = w /\ m.step = k
    \/ \E m \in inbox[<<"result", w>>] : m.step = k
    \/ \E t \in Thread : HasResult(t) /\ t[2] = w /\ loc[t].msg.step = k

Answers(t, w, k)   == t[2] = w /\ pc[t] \in AnswerLabel /\ loc[t].msg.step = k
Resolves(t, w, k)  == t[2] = w /\ pc[t] = "resolve" /\ loc[t].msg.step = k
Waiter(t, w, k)    == t[1] = "resume" /\ t[2] = w /\ t[3] = k
TimerOf(t, w, k)   == t[1] = "timer" /\ t[2] = w /\ t[3] = k

\* A step is dispatched by one thread, and until that thread has sent it, asked
\* for it or scheduled its timeout nobody else knows of it.
Alone(t, w, k) ==
    /\ \A u \in Thread : Dispatches(u, w, k) => u = t
    /\ ~Approved(w, k)
    /\ \A u \in Thread : Waiter(u, w, k) => pc[u] = "idle"
    /\ pc[t] # "spawn" =>
          <<w, k>> \notin armed /\ \A u \in Thread : TimerOf(u, w, k) => pc[u] = "idle"
    /\ pc[t] # "schedule" => ~Sent(w, k)
    /\ pc[t] \in UnaskedLabel =>
          /\ ~Asks(kv[w], k)
          /\ \A u \in Thread : ~Answers(u, w, k)
          /\ <<w, k>> \in HumanStep => resolved[<<w, k>>] = <<>>
    /\ InStep(w) /\ pc[t] # "schedule" => kv[w].step = k
Fresh(t) == \A w \in Workflow, k \in Nat : Dispatches(t, w, k) => Alone(t, w, k)

\* A timer is started once, an approval recorded once.
StartedOnce ==
    /\ \A t \in Thread : t[1] = "timer" /\ <<t[2], t[3]>> \in armed => pc[t] = "idle"
    /\ \A t \in Thread : t[1] = "resume" /\ Approved(t[2], t[3]) => pc[t] \notin WaitLabel
    /\ \A w \in Workflow : \A i, j \in DOMAIN kv[w].results :
          kv[w].results[i].by = "human" /\ kv[w].results[j] = kv[w].results[i] => i = j

\* A paused workflow in step waits for its current step.
Paused(w) ==
    InStep(w) /\ kv[w].status = "waiting" =>
        Asks(kv[w], kv[w].step) /\ \A p \in kv[w].pd : p.step = kv[w].step

\* In a workflow in step every approval on its way is that of the step it is
\* on its way to.
Verdicts(w) ==
    InStep(w) =>
        /\ \A d \in HumanStep : d[1] = w /\ channel[d] = "approved" =>
              resolved[d] = <<"success">>
        /\ \A t \in Thread : t[1] = "resume" /\ t[2] = w /\ pc[t] \in ResumeLabel =>
              resolved[<<w, t[3]>>] = <<"success">>
        /\ \A i \in DOMAIN kv[w].results : kv[w].results[i].by = "human" =>
              resolved[<<w, kv[w].results[i].step>>] = <<"success">>
        /\ \A t \in Thread : t[2] = w /\ pc[t] = "resolve" => loc[t].msg.step = kv[w].step

Exempt(w) == Contended(w) /\ ~InStep(w)
Once(d) ==
    \/ Exempt(d[1])
    \/ /\ Len(resolved[d]) <= 1
       /\ \A t \in Thread : Resolves(t, d[1], d[2]) => resolved[d] = <<>>
       /\ resolved[d] # <<>> \/ (\E t \in Thread : Resolves(t, d[1], d[2])) =>
             ~Waits(kv[d[1]], d[2])

\* A paused workflow is indexed, or somebody is about to index it or to end the
\* pause; and who answers for an outdated state has not the unconflicted
\* decision in hand that the workflow is waiting for now.
Counts(w) == InStep(w) /\ (crashes = 0 \/ ~Contended(w)) /\ kv[w].status = "waiting"
Indexed(w, k) ==
    \/ <<w, k>> \in pending
    \/ \E t \in Thread : t[2] = w /\ pc[t] = "index" /\ loc[t].at = k
    \/ \E t \in Thread :
          t[2] = w /\ pc[t] \in {"respondUpdate", "timeoutUpdate"} /\ Snap(t) = kv[w]
    \/ booting
    \/ \E n \in recovering : n.d = <<w, k>>
Visible(w) ==
    Counts(w) =>
        /\ faults = 0 => \A p \in kv[w].pd : p.conflicts = {} => Indexed(w, p.step)
        /\ \A t \in Thread :
              t[2] = w /\ pc[t] \in {"respond", "respondUpdate"} /\ Snap(t).rev # kv[w].rev =>
                  \A p \in kv[w].pd : p.step = loc[t].msg.step => p.conflicts # {}

Related ==
    /\ \A t \in Thread : Fresh(t)
    /\ StartedOnce
    /\ \A w \in Workflow : Paused(w) /\ Verdicts(w) /\ Visible(w)
    /\ \A d \in HumanStep : Once(d)
    /\ ConflictsMutual

DecisionInvariant ==
    /\ TypeOK
    /\ \A t \in Thread : Local(t)
    /\ \A w \in Workflow : Stored(w)
    /\ UnderWay
    /\ Related

-----------------------------------------------------------------------------
(* The types are kept *)

\* A human step is a step of a workflow whose definition says so.
LEMMA StepNames ==
    /\ \A w \in Workflow : StepIndex(w) \subseteq Nat /\ Len(StepsOf[w]) \in Nat
    /\ \A d \in HumanStep :
          d = <<d[1], d[2]>> /\ d[1] \in Workflow /\ d[2] \in StepIndex(d[1]) /\ d[2] \in Nat
    /\ \A w \in Workflow : \A k \in StepIndex(w) :
          <<w, k>> \in HumanStep <=> StepsOf[w][k + 1] = "human"
    /\ HumanStep \subseteq Decision
<1>1. \A w \in Workflow : StepIndex(w) \subseteq Nat /\ Len(StepsOf[w]) \in Nat
  BY StepsAssumption DEF StepIndex
<1>2. \A d \in HumanStep :
          d = <<d[1], d[2]>> /\ d[1] \in Workflow /\ d[2] \in StepIndex(d[1]) /\ d[2] \in Nat
  BY <1>1 DEF HumanStep
<1>3. \A w \in Workflow : \A k \in StepIndex(w) :
          <<w, k>> \in HumanStep <=> StepsOf[w][k + 1] = "human"
  BY DEF HumanStep
<1>4. HumanStep \subseteq Decision
  BY <1>2 DEF Decision
<1> QED  BY Zenon, <1>1, <1>2, <1>3, <1>4

\* What the invariant says of thread t and its workflow.
LEMMA OfThread ==
    ASSUME DecisionInvariant, NEW t \in Thread
    PROVE  /\ EngineTypeOK(HumanLabel) /\ CoordinatorTypeOK
           /\ t[2] \in Workflow /\ Len(Steps(t)) \in Nat
           /\ kv[t[2]] \in WorkflowState
           /\ loc[t] \in Locals /\ Snap(t) \in WorkflowState
           /\ loc[t].at \in Nat /\ loc[t].msg \in ResultMessage /\ loc[t].msg.step \in Nat
           /\ Roles(t) /\ InHand(t) /\ StateRead(t) /\ OnTrack(t) /\ Annotations(t)
           /\ Stored(t[2])
<1>1. /\ EngineTypeOK(HumanLabel) /\ CoordinatorTypeOK /\ t[2] \in Workflow
      /\ Local(t) /\ Stored(t[2])
  BY Zenon, ThreadNames DEF DecisionInvariant, TypeOK
<1>2. kv[t[2]] \in WorkflowState /\ loc[t] \in Locals
  BY Zenon, <1>1 DEF EngineTypeOK
<1>3. Snap(t) \in WorkflowState /\ loc[t].at \in Nat /\ loc[t].msg \in ResultMessage
  BY Zenon, <1>2 DEF Snap, Locals
<1>4. loc[t].msg.step \in Nat
  BY Zenon, <1>3 DEF ResultMessage
<1>5. Len(Steps(t)) \in Nat
  BY <1>1, StepsAssumption DEF Steps
<1> QED  BY Zenon, <1>1, <1>2, <1>3, <1>4, <1>5 DEF Local

\* A thread is alone with the step it dispatches.
LEMMA AloneWithStep ==
    ASSUME DecisionInvariant, NEW t \in Thread, pc[t] \in DispatchLabel
    PROVE  Alone(t, t[2], loc[t].at)
BY Zenon, OfThread DEF DecisionInvariant, Related, Fresh, Dispatches

\* What the coordinator writes is a workflow state.
LEMMA DecisionWritesTyped ==
    ASSUME DecisionInvariant, NEW t \in Thread
    PROVE  /\ [Snap(t) EXCEPT !.status = "waiting",
                              !.pd = {[step |-> loc[t].at, conflicts |-> {}]}] \in WorkflowState
           /\ \A n \in Note, own \in BOOLEAN : Annotated(n, own, Snap(t)) \in WorkflowState
           /\ Answered(t) \in WorkflowState
           /\ \A k \in Nat :
                 [Snap(t) EXCEPT !.status = "failed", !.pd = {},
                                 !.err = [code |-> "DECISION_TIMEOUT", step |-> k]] \in WorkflowState
<1>0. Snap(t) \in WorkflowState /\ loc[t].at \in Nat /\ CoordinatorTypeOK
  BY Zenon, OfThread
<1>1. [step |-> loc[t].at, conflicts |-> {}] \in PendingDecision
  BY Zenon, <1>0 DEF PendingDecision
<1>2. [Snap(t) EXCEPT !.status = "waiting",
                      !.pd = {[step |-> loc[t].at, conflicts |-> {}]}] \in WorkflowState
  BY Zenon, <1>0, <1>1 DEF WorkflowState, Status
<1>3. ASSUME NEW n \in Note, NEW own \in BOOLEAN
      PROVE  Annotated(n, own, Snap(t)) \in WorkflowState
  <2>1. n.d \in HumanStep /\ n.ids \subseteq Decision /\ noted[n.d] \subseteq Decision
    BY Zenon, <1>0, StepNames DEF Note, CoordinatorTypeOK
  <2>2. PendingOf(n.d) \in PendingDecision
    BY Zenon, <2>1, StepNames DEF PendingOf, PendingDecision
  <2>3. {[p EXCEPT !.conflicts = n.ids] : p \in Snap(t).pd} \subseteq PendingDecision
    BY Zenon, <1>0, <2>1 DEF WorkflowState, PendingDecision
  <2>4. [Snap(t) EXCEPT !.pd = {PendingOf(n.d)}] \in WorkflowState
    BY Zenon, <1>0, <2>2 DEF WorkflowState
  <2>5. [Snap(t) EXCEPT !.pd = {[p EXCEPT !.conflicts = n.ids] : p \in @}] \in WorkflowState
    BY Zenon, <1>0, <2>3 DEF WorkflowState
  <2> QED  BY Zenon, <2>4, <2>5 DEF Annotated
<1>4. Answered(t) \in WorkflowState
  BY Zenon, <1>0 DEF Answered, WorkflowState, Status, WorkflowError, ErrCode
<1>5. ASSUME NEW k \in Nat
      PROVE  [Snap(t) EXCEPT !.status = "failed", !.pd = {},
                             !.err = [code |-> "DECISION_TIMEOUT", step |-> k]] \in WorkflowState
  BY Zenon, <1>0 DEF WorkflowState, Status, WorkflowError, ErrCode
<1> QED  BY Zenon, <1>2, <1>3, <1>4, <1>5

\* Every step of the coordinator keeps the types.
LEMMA DecisionTyped ==
    ASSUME DecisionInvariant, NEW t \in Thread, DecisionThread(t)
    PROVE  TypeOK'
<1> USE DEF TypeOK, EngineTypeOK, CoordinatorTypeOK, timerVars, memoryVars, busVars, boundVars,
            decisionVars, annotationVars, recoveryVars
<1>0. /\ EngineTypeOK(HumanLabel) /\ CoordinatorTypeOK /\ t[2] \in Workflow
      /\ loc[t] \in Locals /\ loc[t].at \in Nat /\ loc[t].msg.step \in Nat
      /\ loc[t].msg.status \in {"success", "failure"}
      /\ Snap(t) \in WorkflowState /\ kv[t[2]] \in WorkflowState
      /\ EngineLabel \subseteq HumanLabel
  <2>1. loc[t].msg \in ResultMessage
    BY Zenon, OfThread
  <2>2. loc[t].msg.status \in {"success", "failure"}
    BY Zenon, <2>1 DEF ResultMessage
  <2> HIDE DEF EngineTypeOK, CoordinatorTypeOK
  <2> QED  BY Zenon, <2>2, OfThread DEF HumanLabel
<1>a. \A label \in HumanLabel : Goto(t, label) => pc' \in [Thread -> HumanLabel]
  BY Zenon, <1>0, HelpersTyped
<1>b. Return(t) => /\ pc' \in [Thread -> HumanLabel] /\ loc' \in [Thread -> Locals]
                   /\ inbox' \in [Consumer -> SUBSET ResultMessage] /\ redelivered' \in Nat
  BY Zenon, <1>0, HelpersTyped DEF Return
<1>c. \A s \in WorkflowState : Update(t, s) => kv' \in [Workflow -> WorkflowState]
  BY Zenon, <1>0, HelpersTyped
<1>d. \A label \in HumanLabel, l \in Locals : Get(t, label, l) =>
          pc' \in [Thread -> HumanLabel] /\ loc' \in [Thread -> Locals]
  BY Zenon, <1>0, HelpersTyped
<1>e. Leave(t) => pc' \in [Thread -> HumanLabel] /\ loc' \in [Thread -> Locals]
  BY Zenon, <1>0, HelpersTyped
<1>f. \A verdict \in {"approved", "denied"} : Notify(t, verdict) =>
          /\ channel' \in [HumanStep -> {"empty", "approved", "denied"}]
          /\ pc' \in [Thread -> HumanLabel] /\ loc' \in [Thread -> Locals]
          /\ inbox' \in [Consumer -> SUBSET ResultMessage] /\ redelivered' \in Nat
  <2> SUFFICES ASSUME NEW verdict \in {"approved", "denied"}, Notify(t, verdict)
               PROVE  /\ channel' \in [HumanStep -> {"empty", "approved", "denied"}]
                      /\ pc' \in [Thread -> HumanLabel] /\ loc' \in [Thread -> Locals]
                      /\ inbox' \in [Consumer -> SUBSET ResultMessage] /\ redelivered' \in Nat
    BY Zenon
  <2>1. channel' \in [HumanStep -> {"empty", "approved", "denied"}]
    BY Zenon, <1>0 DEF Notify, Send
  <2> QED  BY Zenon, <1>0, <1>a, <1>b, <2>1 DEF Notify, HumanLabel
<1>1. CASE RequestUpdate(t)
  <2>1. CASE Unchanged(t)
    <3>1. kv' \in [Workflow -> WorkflowState] /\ pc' \in [Thread -> HumanLabel]
      BY Zenon, <1>1, <1>a, <1>c, <2>1, DecisionWritesTyped DEF RequestUpdate, HumanLabel, AskLabel
    <3> QED  BY Zenon, <1>0, <1>1, <2>1, <3>1 DEF RequestUpdate
  <2>2. CASE ~Unchanged(t)
    <3>1. pc' \in [Thread -> HumanLabel] /\ loc' \in [Thread -> Locals]
      BY Zenon, <1>1, <1>e, <2>2 DEF RequestUpdate, ReturnError
    <3> QED  BY Zenon, <1>0, <1>1, <2>2, <3>1 DEF RequestUpdate, ReturnError
  <2> QED  BY Zenon, <2>1, <2>2
<1>2. CASE IndexDecision(t)
  <2>1. <<t[2], loc[t].at>> \in HumanStep
    BY Zenon, <1>2, OfThread DEF IndexDecision, OnTrack, AskLabel
  <2>2. pc' \in [Thread -> HumanLabel]
    BY Zenon, <1>2, <1>a DEF IndexDecision, HumanLabel, AskLabel
  <2>3. pending' \subseteq HumanStep /\ noted' \in [HumanStep -> SUBSET HumanStep]
        /\ todo' \in [Thread -> SUBSET HumanStep]
    BY Zenon, <1>0, <1>2, <2>1 DEF IndexDecision
  <2> QED  BY Zenon, <1>0, <1>2, <2>2, <2>3 DEF IndexDecision
<1>3. CASE ReadForAnnotation(t)
  <2>1. <<t[2], loc[t].at>> \in HumanStep
    BY Zenon, <1>3, OfThread DEF ReadForAnnotation, OnTrack, AskLabel
  <2>2. PICK d \in HumanStep :
            /\ todo' = [todo EXCEPT ![t] = @ \ {d}]
            /\ \/ UNCHANGED <<pc, loc, noting>>
               \/ /\ Goto(t, "annotateUpdate")
                  /\ loc' = [loc EXCEPT ![t].snap = kv[d[1]]]
                  /\ noting' = [noting EXCEPT ![t] = {[d |-> d, ids |-> noted[d]]}]
    BY Zenon, <1>0, <1>3, <2>1 DEF ReadForAnnotation
  <2>3. todo' \in [Thread -> SUBSET HumanStep]
    BY Zenon, <1>0, <2>2
  <2>4. [loc[t] EXCEPT !.snap = kv[d[1]]] \in Locals /\ [d |-> d, ids |-> noted[d]] \in Note
    BY Zenon, <1>0, StepNames, ValuesTyped DEF Note
  <2>5. /\ pc' \in [Thread -> HumanLabel] /\ loc' \in [Thread -> Locals]
        /\ noting' \in [Thread -> SUBSET Note]
    <3>1. CASE UNCHANGED <<pc, loc, noting>>
      BY Zenon, <1>0, <3>1
    <3>2. CASE /\ Goto(t, "annotateUpdate")
               /\ loc' = [loc EXCEPT ![t].snap = kv[d[1]]]
               /\ noting' = [noting EXCEPT ![t] = {[d |-> d, ids |-> noted[d]]}]
      <4>1. pc' \in [Thread -> HumanLabel]
        BY Zenon, <1>a, <3>2 DEF HumanLabel, AskLabel
      <4>2. loc' \in [Thread -> Locals] /\ noting' \in [Thread -> SUBSET Note]
        BY Zenon, <1>0, <2>4, <3>2
      <4> QED  BY Zenon, <4>1, <4>2
    <3> QED  BY Zenon, <2>2, <3>1, <3>2
  <2> QED  BY Zenon, <1>0, <1>3, <2>3, <2>5 DEF ReadForAnnotation
<1>4. CASE Annotate(t)
  <2>1. PICK n \in noting[t] :
            /\ kv' = IF kv[n.d[1]].rev = Snap(t).rev
                     THEN [kv EXCEPT ![n.d[1]] =
                             [Annotated(n, n.d = <<t[2], loc[t].at>>, Snap(t)) EXCEPT
                                 !.rev = Snap(t).rev + 1]]
                     ELSE kv
            /\ Goto(t, IF n.d = <<t[2], loc[t].at>> THEN "channel" ELSE "annotate")
    BY Zenon, <1>4 DEF Annotate
  <2>2. n \in Note /\ Snap(t).rev + 1 \in Nat
    BY <1>0 DEF WorkflowState
  <2>3. n.d[1] \in Workflow
    BY Zenon, <2>2, StepNames DEF Note
  <2>4. [Annotated(n, n.d = <<t[2], loc[t].at>>, Snap(t)) EXCEPT !.rev = Snap(t).rev + 1]
            \in WorkflowState
    BY Zenon, <2>2, DecisionWritesTyped, ValuesTyped
  <2>5. kv' \in [Workflow -> WorkflowState]
    BY Zenon, <1>0, <2>1, <2>3, <2>4
  <2>6. pc' \in [Thread -> HumanLabel]
    BY Zenon, <1>a, <2>1 DEF HumanLabel, AskLabel
  <2>7. noting' \in [Thread -> SUBSET Note]
    BY Zenon, <1>0, <1>4 DEF Annotate
  <2> QED  BY Zenon, <1>0, <1>4, <2>5, <2>6, <2>7 DEF Annotate
<1>5. CASE RegisterChannel(t)
  <2>1. <<t[2], loc[t].at>> \in HumanStep
    BY Zenon, <1>5, OfThread DEF RegisterChannel, OnTrack, AskLabel
  <2>2. pc' \in [Thread -> HumanLabel]
    BY Zenon, <1>5, <1>a DEF RegisterChannel, HumanLabel, AskLabel
  <2> QED  BY Zenon, <1>0, <1>5, <2>1, <2>2 DEF RegisterChannel
<1>6. CASE PublishRequest(t)
  <2>1. pc' \in [Thread -> HumanLabel]
    BY Zenon, <1>6, <1>a DEF PublishRequest, HumanLabel, AskLabel
  <2> QED  BY Zenon, <1>0, <1>6, <2>1 DEF PublishRequest
<1>7. CASE ScheduleDecisionTimeout(t)
  <2>1. pc' \in [Thread -> HumanLabel] /\ armed' \subseteq Timer /\ registered' \subseteq Timer
    BY Zenon, <1>0, <1>7, <1>a, HelpersTyped DEF ScheduleDecisionTimeout, HumanLabel, AskLabel
  <2> QED  BY Zenon, <1>0, <1>7, <2>1 DEF ScheduleDecisionTimeout
<1>8. CASE SpawnWaiter(t)
  <2>1. pc' \in [Thread -> HumanLabel] /\ loc' \in [Thread -> Locals]
    BY Zenon, <1>0, <1>8, ValuesTyped DEF SpawnWaiter, HumanLabel, EngineLabel
  <2>2. inbox' \in [Consumer -> SUBSET ResultMessage] /\ redelivered' \in Nat
    BY Zenon, <1>0, <1>8, HelpersTyped DEF SpawnWaiter
  <2> QED  BY Zenon, <1>0, <1>8, <2>1, <2>2 DEF SpawnWaiter
<1>9. CASE ProcessResponse(t)
  <2>1. /\ pc' \in [Thread -> HumanLabel] /\ loc' \in [Thread -> Locals]
        /\ inbox' \in [Consumer -> SUBSET ResultMessage] /\ redelivered' \in Nat
    BY Zenon, <1>0, <1>9, <1>b, <1>d DEF ProcessResponse, HumanLabel, AnswerLabel
  <2> QED  BY Zenon, <1>0, <1>9, <2>1 DEF ProcessResponse
<1>10. CASE WithdrawDecision(t)
  <2>1. pc' \in [Thread -> HumanLabel] /\ armed' \subseteq Timer /\ registered' \subseteq Timer
    BY Zenon, <1>0, <1>10, <1>a, HelpersTyped DEF WithdrawDecision, HumanLabel, AnswerLabel
  <2> QED  BY Zenon, <1>0, <1>10, <2>1 DEF WithdrawDecision
<1>11. CASE RespondUpdate(t)
  <2>1. CASE Unchanged(t)
    <3>1. kv' \in [Workflow -> WorkflowState] /\ pc' \in [Thread -> HumanLabel]
      BY Zenon, <1>11, <1>a, <1>c, <2>1, DecisionWritesTyped DEF RespondUpdate, HumanLabel, AnswerLabel
    <3> QED  BY Zenon, <1>0, <1>11, <2>1, <3>1 DEF RespondUpdate
  <2>2. CASE ~Unchanged(t)
    BY Zenon, <1>0, <1>11, <1>b, <2>2 DEF RespondUpdate
  <2> QED  BY Zenon, <2>1, <2>2
<1>12. CASE ResolveDecision(t)
  <2>1. /\ channel' \in [HumanStep -> {"empty", "approved", "denied"}]
        /\ pc' \in [Thread -> HumanLabel] /\ loc' \in [Thread -> Locals]
        /\ inbox' \in [Consumer -> SUBSET ResultMessage] /\ redelivered' \in Nat
    BY Zenon, <1>12, <1>f DEF ResolveDecision
  <2>2. resolved' \in [HumanStep -> Seq({"success", "failure"})]
    <3>1. <<t[2], loc[t].msg.step>> \in HumanStep
      BY Zenon, <1>12, OfThread DEF ResolveDecision, InHand, HasAnswer, AnswerLabel
    <3>2. Append(resolved[<<t[2], loc[t].msg.step>>], loc[t].msg.status) \in Seq({"success", "failure"})
      BY <1>0, <3>1
    <3> QED  BY Zenon, <1>0, <1>12, <3>1, <3>2 DEF ResolveDecision
  <2> QED  BY Zenon, <1>0, <1>12, <2>1, <2>2 DEF ResolveDecision
<1>13. CASE DropChannel(t)
  BY Zenon, <1>0, <1>13, <1>b DEF DropChannel
<1>14. CASE DecisionTimeout(t)
  <2>1. pc' \in [Thread -> HumanLabel] /\ loc' \in [Thread -> Locals]
    BY Zenon, <1>0, <1>14, <1>d, <1>e DEF DecisionTimeout, HumanLabel
  <2> QED  BY Zenon, <1>0, <1>14, <2>1 DEF DecisionTimeout
<1>15. CASE TimeoutUpdate(t)
  <2>1. t[3] \in Nat
    <3>1. t[1] = "timer"
      BY Zenon, <1>15, OfThread, ThreadNames
      DEF TimeoutUpdate, Roles, DispatchLabel, UnaskedLabel, BeginLabel, AgentLabel, AskLabel,
          FailLabel, AdvanceLabel, AnswerLabel
    <3> QED  BY Zenon, <3>1, ThreadNames
  <2>2. kv' \in [Workflow -> WorkflowState]
    BY Zenon, <1>0, <1>15, <1>c, <2>1, DecisionWritesTyped DEF TimeoutUpdate
  <2>3. pc' \in [Thread -> HumanLabel]
    BY Zenon, <1>15, <1>a DEF TimeoutUpdate, HumanLabel
  <2> QED  BY Zenon, <1>0, <1>15, <2>2, <2>3 DEF TimeoutUpdate
<1>16. CASE NotifyTimeout(t)
  <2>1. /\ channel' \in [HumanStep -> {"empty", "approved", "denied"}]
        /\ pc' \in [Thread -> HumanLabel] /\ loc' \in [Thread -> Locals]
        /\ inbox' \in [Consumer -> SUBSET ResultMessage] /\ redelivered' \in Nat
    BY Zenon, <1>16, <1>f DEF NotifyTimeout
  <2> QED  BY Zenon, <1>0, <1>16, <2>1 DEF NotifyTimeout
<1>17. CASE ReceiveVerdict(t)
  <2>1. pc' \in [Thread -> HumanLabel]
    BY Zenon, <1>17, <1>a DEF ReceiveVerdict, HumanLabel, EngineLabel
  <2>2. channel' \in [HumanStep -> {"empty", "approved", "denied"}]
    BY Zenon, <1>0, <1>17 DEF ReceiveVerdict
  <2> QED  BY Zenon, <1>0, <1>17, <2>1, <2>2 DEF ReceiveVerdict
<1>18. CASE ResumeAfterApproval(t)
  <2>1. t[3] \in Nat
    <3>1. t[1] = "resume"
      BY Zenon, <1>18, OfThread, ThreadNames
      DEF ResumeAfterApproval, Roles, DispatchLabel, UnaskedLabel, BeginLabel, AgentLabel,
          AskLabel, FailLabel, AdvanceLabel, AnswerLabel
    <3> QED  BY Zenon, <3>1, ThreadNames
  <2>2. [loc[t] EXCEPT !.msg = [step |-> t[3], status |-> "success", by |-> "human"]] \in Locals
    BY Zenon, <1>0, <2>1, ValuesTyped DEF ResultMessage
  <2>3. pc' \in [Thread -> HumanLabel] /\ loc' \in [Thread -> Locals]
    BY Zenon, <1>0, <1>18, <1>d, <1>e, <2>2 DEF ResumeAfterApproval, HumanLabel, EngineLabel
  <2> QED  BY Zenon, <1>0, <1>18, <2>3 DEF ResumeAfterApproval
<1> QED  BY Zenon, <1>1, <1>2, <1>3, <1>4, <1>5, <1>6, <1>7, <1>8, <1>9, <1>10, <1>11,
            <1>12, <1>13, <1>14, <1>15, <1>16, <1>17, <1>18 DEF DecisionThread

\* A label tells which kind of handler is there.
LEMMA RolesOfLabels ==
    ASSUME DecisionInvariant, NEW t \in Thread
    PROVE  /\ pc[t] \in {"fired", "timeout", "timeoutUpdate", "notifyTimeout"} => t[1] = "timer"
           /\ pc[t] \in {"wait", "resume"} => t[1] = "resume"
           /\ pc[t] = "response" \/ pc[t] \in AnswerLabel => t[1] = "response"
           /\ pc[t] = "result" => t[1] = "result"
           /\ pc[t] = "announceComplete" \/ pc[t] \in AdvanceLabel => t[1] \in {"result", "resume"}
           /\ pc[t] \in DispatchLabel => t[1] \in {"start", "result", "resume"}
           /\ pc[t] = "dropChannel" => t[1] \in {"timer", "response"}
           /\ pc[t] \in FailLabel => t[1] # "response"
           /\ pc[t] \in HumanLabel
<1>1. Roles(t) /\ t[1] \in {"start", "result", "response", "timer", "resume"} /\ pc[t] \in HumanLabel
  BY Zenon, OfThread, ThreadNames DEF EngineTypeOK
<1> QED  BY Zenon, <1>1 DEF Roles, DispatchLabel, UnaskedLabel, BeginLabel, AgentLabel, AskLabel, FailLabel,
                     AdvanceLabel, AnswerLabel

\* What happens to engine and coordinator from outside.
LEMMA OutsideTyped ==
    ASSUME DecisionInvariant, DecisionEnvironment \/ Recovery
    PROVE  TypeOK'
<1> USE DEF TypeOK, CoordinatorTypeOK, timerVars, memoryVars, busVars, boundVars,
            decisionVars, annotationVars, recoveryVars
<1>0. EngineTypeOK(HumanLabel) /\ CoordinatorTypeOK /\ EngineLabel \subseteq HumanLabel
  BY Zenon DEF DecisionInvariant, HumanLabel
<1>1. ASSUME NEW d \in pending, NEW status \in Verdict, OperatorResponds(d, status)
      PROVE  TypeOK'
  <2>1. <<"response", d[1]>> \in Consumer /\ d[2] \in Nat
    BY Zenon, <1>0, StepNames, ConsumerNames
  <2>2. [step |-> d[2], status |-> status, by |-> "human"] \in ResultMessage
    BY Zenon, <2>1, VerdictAssumption DEF ResultMessage
  <2>3. inbox' \in [Consumer -> SUBSET ResultMessage]
    BY Zenon, <1>0, <1>1, <2>1, <2>2 DEF OperatorResponds, EngineTypeOK
  <2> QED  BY Zenon, <1>0, <1>1, <2>3 DEF OperatorResponds, EngineTypeOK
<1>2. ASSUME NEW w \in Workflow, NEW m \in inbox[<<"response", w>>], ReceiveResponse(w, m)
      PROVE  TypeOK'
  <2>1. <<"response", w>> \in Thread /\ m \in ResultMessage
    BY Zenon, <1>0, ThreadNames, ConsumerNames DEF EngineTypeOK
  <2>2. [loc[<<"response", w>>] EXCEPT !.msg = m] \in Locals
    BY Zenon, <1>0, <2>1, ValuesTyped DEF EngineTypeOK
  <2>3. pc' \in [Thread -> HumanLabel] /\ loc' \in [Thread -> Locals]
    BY Zenon, <1>0, <1>2, <2>1, <2>2, HelpersTyped DEF ReceiveResponse, HumanLabel
  <2> QED  BY Zenon, <1>0, <1>2, <2>3 DEF ReceiveResponse, EngineTypeOK
<1>3. ASSUME NEW t \in Thread, DecisionCallFails(t)
      PROVE  TypeOK'
  <2>1. /\ pc' \in [Thread -> HumanLabel] /\ loc' \in [Thread -> Locals]
        /\ inbox' \in [Consumer -> SUBSET ResultMessage] /\ redelivered' \in Nat
    <3>1. CASE ReturnError(t)
      BY Zenon, <1>0, <3>1, HelpersTyped DEF ReturnError, EngineTypeOK
    <3>2. CASE Return(t)
      BY Zenon, <1>0, <3>2, HelpersTyped DEF Return, EngineTypeOK
    <3>3. CASE /\ \E label \in {"notifyTimeout", "channel", "annotate"} : Goto(t, label)
               /\ UNCHANGED <<loc, inbox, redelivered>>
      BY Zenon, <1>0, <3>3, HelpersTyped DEF EngineTypeOK, HumanLabel, AskLabel
    <3> QED  BY Zenon, <1>3, <3>1, <3>2, <3>3 DEF DecisionCallFails
  <2>2. faults' \in Nat /\ noting' \in [Thread -> SUBSET Note]
    BY <1>0, <1>3 DEF DecisionCallFails, EngineTypeOK
  <2> QED  BY Zenon, <1>0, <1>3, <2>1, <2>2 DEF DecisionCallFails, EngineTypeOK
<1>4. CASE Crash
  <2>1. EngineTypeOK(HumanLabel)'
    BY Zenon, <1>0, <1>4, EnvironmentTyped DEF Crash
  <2> QED  BY Zenon, <1>0, <1>4, <2>1 DEF Crash
<1>5. CASE ListForRecovery
  <2>1. EngineTypeOK(HumanLabel)'
    BY Zenon, <1>0, <1>5 DEF ListForRecovery, engineVars, EngineTypeOK
  <2>2. recovering' \subseteq Note
    BY <1>5 DEF ListForRecovery, DecisionInvariant, Stored, Note
  <2> QED  BY Zenon, <1>0, <1>5, <2>1, <2>2 DEF ListForRecovery
<1>6. ASSUME NEW n \in recovering, RecoverDecision(n)
      PROVE  TypeOK'
  <2>1. EngineTypeOK(HumanLabel)'
    BY Zenon, <1>0, <1>6 DEF RecoverDecision, engineVars, EngineTypeOK
  <2>2. n.d \in HumanStep /\ n.ids \subseteq HumanStep
    BY Zenon, <1>0 DEF Note
  <2> QED  BY Zenon, <1>0, <1>6, <2>1, <2>2 DEF RecoverDecision
<1> QED  BY Zenon, <1>1, <1>2, <1>3, <1>4, <1>5, <1>6 DEF DecisionEnvironment, Recovery

\* The types are kept.
LEMMA TypeKept ==
    ASSUME DecisionInvariant, Next
    PROVE  TypeOK'
<1>0. EngineTypeOK(HumanLabel) /\ CoordinatorTypeOK /\ EngineLabel \subseteq HumanLabel
  BY Zenon DEF DecisionInvariant, TypeOK, HumanLabel
<1>1. UNCHANGED decisionVars => CoordinatorTypeOK'
  BY Zenon, <1>0 DEF CoordinatorTypeOK, decisionVars, annotationVars, recoveryVars
<1>2. ASSUME NEW t \in Thread, EngineThread(t)
      PROVE  EngineTypeOK(HumanLabel)'
  <2>1. pc[t] = "timeout" => t[1] = "timer"
    BY Zenon, RolesOfLabels
  <2> QED  BY Zenon, <1>0, <1>2, <2>1, ThreadTyped
<1>3. EngineEnvironment => EngineTypeOK(HumanLabel)'
  BY Zenon, <1>0, EnvironmentTyped
<1> QED  BY Zenon, <1>1, <1>2, <1>3, DecisionTyped, OutsideTyped DEF Next, ThreadStep, TypeOK

-----------------------------------------------------------------------------
(* The effect of a step *)

\* Only t moves, unless it starts the goroutine that waits for the verdict.
Spawns(t, u) ==
    /\ pc[t] = "spawn" /\ pc'[t] = "idle"
    /\ Waiter(u, t[2], loc[t].at) /\ pc[u] = "idle" /\ pc'[u] = "wait"
Frame(t) ==
    \A u \in Thread \ {t} :
        /\ loc'[u] = loc[u] /\ todo'[u] = todo[u] /\ noting'[u] = noting[u]
        /\ pc'[u] = pc[u] \/ Spawns(t, u)

\* A dispatching thread goes on with its step, or t begins with the next one.
Continues(t) ==
    /\ pc[t] \in DispatchLabel /\ loc'[t].at = loc[t].at
    /\ pc'[t] \in UnaskedLabel => pc[t] \in UnaskedLabel
    /\ pc[t] = "spawn" => pc'[t] = "spawn"
    /\ pc[t] = "schedule" => pc'[t] = "schedule"
Enters(t) ==
    /\ pc[t] \notin DispatchLabel /\ pc'[t] \in BeginLabel
    /\ loc'[t].at = kv'[t[2]].step /\ kv'[t[2]].status # "none"
    /\ kv[t[2]].status = "none" \/ kv'[t[2]].step > kv[t[2]].step
DispatchMove(t) == pc'[t] \in DispatchLabel => Continues(t) \/ Enters(t)

WaiterMove(t) ==
    t[1] = "resume" =>
        /\ pc'[t] # "idle" => pc[t] # "idle"
        /\ pc'[t] \in WaitLabel => pc[t] \in WaitLabel
        /\ pc'[t] \in ResumeLabel =>
              pc[t] \in ResumeLabel \/ (pc[t] = "wait" /\ channel[<<t[2], t[3]>>] = "approved")

TimerMove(t) ==
    /\ t[1] = "timer" /\ pc'[t] # "idle" =>
          pc[t] # "idle" \/ (<<t[2], t[3]>> \in armed /\ <<t[2], t[3]>> \notin armed')
    /\ \A x \in armed' : x \in armed \/
          /\ x = <<t[2], loc[t].at>>
          /\ \/ pc[t] = "schedule" /\ pc'[t] = "idle"
             \/ pc[t] = "scheduleDecision" /\ pc'[t] = "spawn"

MessageMove(t) ==
    /\ HasResult(t)' =>
          \/ HasResult(t) /\ loc'[t].msg = loc[t].msg
          \/ loc'[t].msg \in inbox[<<"result", t[2]>>]
    /\ \A m \in direct' : m \in direct \/
          /\ m.w = t[2] /\ m.step = loc[t].at
          /\ pc[t] = "routeDirect" /\ pc'[t] = "schedule"
    /\ \A w \in Workflow : \A m \in inbox'[<<"result", w>>] :
          \/ m \in inbox[<<"result", w>>]
          \/ m.by = "agent" /\ \E x \in direct : x.w = w /\ x.step = m.step

AnswerMove(t) ==
    /\ HasAnswer(t)' =>
          \/ HasAnswer(t) /\ loc'[t].msg = loc[t].msg
          \/ pc'[t] = "respond" /\ Waits(kv[t[2]], loc'[t].msg.step)
    /\ pc'[t] \in {"respond", "respondUpdate"} =>
          \/ loc'[t].snap = kv[t[2]]
          \/ pc[t] \in {"respond", "respondUpdate"} /\ loc'[t] = loc[t]
    /\ pc'[t] = "resolve" => pc[t] \in {"respondUpdate", "resolve"}
    /\ pc'[t] = "resolve" /\ pc[t] = "respondUpdate" => kv' # kv

Moves(t) ==
    Frame(t) /\ DispatchMove(t) /\ WaiterMove(t) /\ TimerMove(t) /\ MessageMove(t) /\ AnswerMove(t)

\* The writes to the bucket, by the handlers that make them.
SameResults(w) == kv'[w].step = kv[w].step /\ kv'[w].results = kv[w].results
SameStatus(w)  == kv'[w].status = kv[w].status
SamePending(w) == kv'[w].pd = kv[w].pd

Starts(t) ==
    LET w == t[2] IN
    /\ pc'[t] = "stream" /\ kv[w].status = "none" /\ kv'[w].status = "running"
    /\ SameResults(w) /\ SamePending(w)
Assigns(t) == pc[t] = "assign" /\ SameResults(t[2]) /\ SameStatus(t[2]) /\ SamePending(t[2])
Records(t) ==
    LET w == t[2]
        m == loc[t].msg
    IN
    /\ pc[t] \in {"advanceUpdate", "completeUpdate"} /\ pc'[t] \notin WaitLabel
    /\ kv'[w].results = Append(kv[w].results, [step |-> m.step, by |-> m.by])
    /\ kv'[w].step = kv[w].step + 1 /\ SamePending(w)
    /\ kv[w].status \notin Terminal /\ (t[1] = "resume" => kv[w].status = "running")
    /\ SameStatus(w) \/ (kv'[w].status = "completed" /\ kv'[w].step >= Len(StepsOf[w]))
Fails(t) ==
    LET w == t[2] IN
    /\ pc[t] = "failUpdate" /\ SameResults(w) /\ SamePending(w)
    /\ kv'[w].status = "failed" /\ (kv[w].status = "completed" => ~InStep(w))
Pauses(t) ==
    LET w == t[2] IN
    /\ pc[t] = "requestDecision" /\ pc'[t] = "index" /\ loc'[t] = loc[t]
    /\ SameResults(w) /\ kv'[w].status = "waiting"
    /\ kv'[w].pd = {[step |-> loc[t].at, conflicts |-> {}]}
MarksOwn(t) ==
    LET w == t[2] IN
    /\ pc[t] = "annotateUpdate" /\ SameResults(w) /\ SameStatus(w)
    /\ kv'[w].pd = {[step |-> loc[t].at, conflicts |-> noted[<<w, loc[t].at>>]]}
MarksOther(t, w) ==
    /\ pc[t] = "annotateUpdate" /\ SameResults(w) /\ SameStatus(w)
    /\ Contended(w) /\ kv[w].status # "none"
    /\ \E ids \in SUBSET HumanStep :
          /\ crashes = 0 => ids # {}
          /\ kv'[w].pd = {[p EXCEPT !.conflicts = ids] : p \in kv[w].pd}
Settles(t) ==
    LET w == t[2] IN
    /\ pc[t] \in {"respondUpdate", "timeoutUpdate"} /\ pc'[t] # pc[t] /\ SameResults(w)
    /\ kv[w].status = "waiting" /\ kv'[w].status \in {"running", "failed"} /\ kv'[w].pd = {}
    /\ pc[t] = "respondUpdate" => Asks(kv[w], loc[t].msg.step)

Writes(t, w) ==
    /\ \A v \in Workflow \ {w} : kv'[v] = kv[v]
    /\ kv'[w].rev = kv[w].rev + 1
    /\ \/ /\ w = t[2]
          /\ \/ Starts(t) \/ Assigns(t) \/ Records(t) \/ Fails(t) \/ Pauses(t) \/ MarksOwn(t)
             \/ Settles(t)
       \/ MarksOther(t, w)
Bucket(t) == kv' = kv \/ \E w \in Workflow : Writes(t, w)

\* Verdicts, and the channels they go to.
Publishes(t) ==
    /\ pc[t] = "resolve" /\ pc'[t] # "resolve"
    /\ resolved' = [resolved EXCEPT ![<<t[2], loc[t].msg.step>>] = Append(@, loc[t].msg.status)]
VerdictMove(t) ==
    /\ resolved' = resolved \/ Publishes(t)
    /\ \A d \in HumanStep : channel'[d] = "approved" =>
          \/ channel[d] = "approved"
          \/ Publishes(t) /\ loc[t].msg.status = "success" /\ d \in resumeCh /\ d[1] = t[2]
    /\ \A d \in resumeCh' : d \in resumeCh \/ (pc[t] = "channel" /\ d = <<t[2], loc[t].at>>)

\* The index, and what recovery puts into it.
Withdraws(t, d) ==
    /\ d[1] = t[2] /\ kv' = kv
    /\ \/ /\ pc[t] = "respond" /\ pc'[t] = "respondUpdate" /\ loc'[t] = loc[t]
          /\ d[2] = loc[t].msg.step
       \/ pc'[t] = "timeoutUpdate" /\ loc'[t].snap = kv[t[2]]
IndexMove(t) ==
    /\ faults \in Nat /\ faults' >= faults /\ crashes' = crashes
    /\ \A d \in pending : d \in pending' \/ Withdraws(t, d)
    /\ \A d \in pending' :
          d \in pending \/ (pc[t] = "index" /\ d = <<t[2], loc[t].at>>) \/ \E n \in recovering : n.d = d
    /\ pc[t] = "index" =>
          \/ pc'[t] = "index" /\ loc'[t] = loc[t]
          \/ <<t[2], loc[t].at>> \in pending'
    /\ pc[t] \in {"respondUpdate", "timeoutUpdate"} /\ Snap(t) = kv[t[2]] =>
          \/ pc'[t] = pc[t] /\ loc'[t] = loc[t]
          \/ kv'[t[2]].status # "waiting" \/ faults' # 0
    /\ booting' => booting /\ recovering' \subseteq recovering
    /\ booting =>
          \/ booting'
          \/ kv' = kv /\ \A w \in Workflow : \A p \in kv[w].pd :
                kv[w].status = "waiting" => \E n \in recovering' : n.d = <<w, p.step>>
    /\ \A n \in recovering : n \in recovering' \/ n.d \in pending'
    /\ \A n \in recovering' :
          n \in recovering \/ (booting /\ n.d[1] \in Workflow /\ kv[n.d[1]].status = "waiting")
    /\ crashes = 0 =>
          \/ noted' = noted /\ pending' \subseteq pending
          \/ IndexDecision(t)

Effect(t) == Moves(t) /\ Bucket(t) /\ VerdictMove(t) /\ IndexMove(t)

\* A write whose compare-and-swap succeeds is built on the stored state.
LEMMA CurrentWrite ==
    ASSUME DecisionInvariant, NEW t \in Thread, pc[t] \in HoldsState, Unchanged(t)
    PROVE  Snap(t) = kv[t[2]]
BY Zenon, OfThread DEF StateRead, AsRead, Unchanged

\* A write concerns one workflow.
LEMMA UpdateWrites ==
    ASSUME DecisionInvariant, NEW t \in Thread, pc[t] \in HoldsState, Unchanged(t),
           NEW s \in WorkflowState, Update(t, s)
    PROVE  /\ \A v \in Workflow \ {t[2]} : kv'[v] = kv[v]
           /\ kv'[t[2]].rev = kv[t[2]].rev + 1
           /\ kv'[t[2]].status = s.status /\ kv'[t[2]].step = s.step
           /\ kv'[t[2]].results = s.results /\ kv'[t[2]].pd = s.pd
<1>1. Snap(t) = kv[t[2]] /\ t[2] \in Workflow /\ kv \in [Workflow -> WorkflowState]
  BY Zenon, CurrentWrite, OfThread DEF EngineTypeOK
<1>2. kv'[t[2]] = [s EXCEPT !.rev = kv[t[2]].rev + 1] /\ \A v \in Workflow \ {t[2]} : kv'[v] = kv[v]
  BY Zenon, <1>1 DEF Update
<1> QED  BY Zenon, <1>2 DEF WorkflowState

\* What the coordinator has is left alone by the engine.
LEMMA CoordinatorKept ==
    ASSUME DecisionInvariant, NEW t \in Thread, UNCHANGED decisionVars,
           faults' \in {faults, faults + 1}, crashes' = crashes,
           pc[t] \notin {"index", "respondUpdate", "timeoutUpdate"}
    PROVE  /\ VerdictMove(t) /\ IndexMove(t)
           /\ \A u \in Thread : todo'[u] = todo[u] /\ noting'[u] = noting[u]
<1>1. faults \in Nat
  BY Zenon DEF DecisionInvariant, TypeOK, EngineTypeOK
<1>2. VerdictMove(t) /\ \A u \in Thread : todo'[u] = todo[u] /\ noting'[u] = noting[u]
  BY Zenon DEF VerdictMove, decisionVars, annotationVars, recoveryVars
<1>3. IndexMove(t)
  BY <1>1 DEF IndexMove, decisionVars, annotationVars, recoveryVars
<1> QED  BY Zenon, <1>2, <1>3

\* Acknowledging takes from a consumer's messages.
LEMMA Acknowledged ==
    ASSUME EngineTypeOK(HumanLabel), NEW t \in Thread
    PROVE  /\ Acknowledge(t) => \A w \in Workflow : inbox'[<<"result", w>>] \subseteq inbox[<<"result", w>>]
           /\ Return(t) => \A w \in Workflow : inbox'[<<"result", w>>] \subseteq inbox[<<"result", w>>]
<1>1. Acknowledge(t) => \A w \in Workflow : inbox'[<<"result", w>>] \subseteq inbox[<<"result", w>>]
  BY Zenon, ConsumerNames DEF Acknowledge, EngineTypeOK
<1> QED  BY Zenon, <1>1 DEF Return

\* The bus, the timers and the other handlers' notes are left alone, except that
\* messages are acknowledged and timers stopped.
Quiet(t) ==
    /\ \A u \in Thread \ {t} : todo'[u] = todo[u] /\ noting'[u] = noting[u]
    /\ armed' \subseteq armed /\ direct' = direct
    /\ \A w \in Workflow : inbox'[<<"result", w>>] \subseteq inbox[<<"result", w>>]

\* A handler that returns.
LEMMA LeaveMoves ==
    ASSUME DecisionInvariant, NEW t \in Thread, Leave(t), Quiet(t)
    PROVE  Moves(t) /\ pc'[t] = "idle" /\ loc'[t] = NoLocals
<1>1. /\ pc'[t] = "idle" /\ \A u \in Thread \ {t} : pc'[u] = pc[u]
      /\ loc'[t] = NoLocals /\ \A u \in Thread \ {t} : loc'[u] = loc[u]
  BY Zenon, OfThread, HelpersMove DEF Leave
<1>2. Frame(t)
  BY Zenon, <1>1 DEF Frame, Quiet
<1> USE DEF DispatchLabel, UnaskedLabel, BeginLabel, AgentLabel, AskLabel, AdvanceLabel, AnswerLabel,
            WaitLabel, ResumeLabel
<1>3. DispatchMove(t) /\ WaiterMove(t) /\ AnswerMove(t)
  BY Zenon, <1>1 DEF DispatchMove, WaiterMove, AnswerMove, HasAnswer
<1>4. TimerMove(t)
  BY Zenon, <1>1 DEF TimerMove, Quiet
<1>5. ~HasResult(t)'
  BY Zenon, <1>1 DEF HasResult
<1>6. MessageMove(t)
  BY Zenon, <1>5 DEF MessageMove, Quiet
<1> QED  BY Zenon, <1>1, <1>2, <1>3, <1>4, <1>6 DEF Moves

\* The ways through a handler on which it neither sends nor schedules and keeps
\* the step and the message it works on.
Flows(from, to) ==
    /\ from # "idle" /\ to # "result"
    /\ to \in DispatchLabel =>
          /\ from \in DispatchLabel \ {"spawn", "schedule"}
          /\ to \in UnaskedLabel => from \in UnaskedLabel
    /\ to \in WaitLabel => from \in AdvanceLabel \cup {"result"}
    /\ to \notin AnswerLabel

LEMMA FlowTable ==
    /\ Flows("stream", "subscribe") /\ Flows("subscribe", "dispatch")
    /\ Flows("dispatch", "requestDecision") /\ Flows("dispatch", "assign")
    /\ Flows("dispatch", "fail") /\ Flows("assign", "routeStream")
    /\ Flows("routeStream", "routeDirect") /\ Flows("routeDirect", "schedule")
    /\ Flows("result", "advance") /\ Flows("advance", "fail")
    /\ Flows("advance", "advanceUpdate") /\ Flows("advance", "completeUpdate")
    /\ Flows("completeUpdate", "announceComplete")
    /\ Flows("fail", "failUpdate") /\ Flows("failUpdate", "announceFailed")
    /\ Flows("fired", "timeout") /\ Flows("timeout", "fail")
    /\ Flows("requestDecision", "index") /\ Flows("index", "annotate")
    /\ Flows("index", "channel") /\ Flows("annotate", "annotateUpdate")
    /\ Flows("annotateUpdate", "annotate") /\ Flows("annotateUpdate", "channel")
    /\ Flows("annotate", "annotate") /\ Flows("channel", "publishRequest")
    /\ Flows("publishRequest", "scheduleDecision")
    /\ Flows("resolve", "dropChannel")
    /\ Flows("timeout", "timeoutUpdate") /\ Flows("timeoutUpdate", "notifyTimeout")
    /\ Flows("notifyTimeout", "dropChannel")
BY Zenon DEF Flows, DispatchLabel, UnaskedLabel, BeginLabel, AgentLabel, AskLabel, AdvanceLabel, AnswerLabel,
       WaitLabel

KeepsWork(t) ==
    /\ \A u \in Thread \ {t} : loc'[u] = loc[u]
    /\ loc'[t].at = loc[t].at /\ loc'[t].msg = loc[t].msg

\* A read keeps the work.
LEMMA GetKeeps ==
    ASSUME DecisionInvariant, NEW t \in Thread, NEW label, NEW l \in Locals,
           l.at = loc[t].at, l.msg = loc[t].msg, Get(t, label, l)
    PROVE  Goto(t, label) /\ KeepsWork(t) /\ loc'[t] = [l EXCEPT !.snap = kv[t[2]]]
<1>1. loc \in [Thread -> Locals]
  BY Zenon, OfThread DEF EngineTypeOK
<1>2. loc'[t] = [l EXCEPT !.snap = kv[t[2]]] /\ \A u \in Thread \ {t} : loc'[u] = loc[u]
  BY Zenon, <1>1 DEF Get
<1>3. [l EXCEPT !.snap = kv[t[2]]].at = l.at /\ [l EXCEPT !.snap = kv[t[2]]].msg = l.msg
  BY Zenon DEF Locals
<1> QED  BY Zenon, <1>2, <1>3 DEF Get, KeepsWork

\* A handler that goes on in such a way.
LEMMA GoMoves ==
    ASSUME DecisionInvariant, NEW t \in Thread, NEW label, Goto(t, label), Flows(pc[t], label),
           KeepsWork(t), Quiet(t)
    PROVE  Moves(t) /\ pc'[t] = label
<1>1. pc'[t] = label /\ \A u \in Thread \ {t} : pc'[u] = pc[u]
  BY Zenon, OfThread, HelpersMove
<1>2. Frame(t)
  BY Zenon, <1>1 DEF Frame, Quiet, KeepsWork
<1>3. DispatchMove(t)
  BY Zenon, <1>1 DEF DispatchMove, Continues, Flows, KeepsWork
<1>4. WaiterMove(t)
  BY Zenon, <1>1, RolesOfLabels DEF WaiterMove, WaitLabel, ResumeLabel, Flows
<1>5. TimerMove(t)
  BY Zenon, <1>1 DEF TimerMove, Quiet, Flows
<1>6. HasResult(t)' => HasResult(t)
  BY Zenon, <1>1, RolesOfLabels DEF HasResult, WaitLabel, Flows
<1>7. MessageMove(t)
  BY Zenon, <1>6 DEF MessageMove, Quiet, KeepsWork
<1>8. AnswerMove(t)
  BY Zenon, <1>1 DEF AnswerMove, HasAnswer, AnswerLabel, Flows, KeepsWork
<1> QED  BY Zenon, <1>1, <1>2, <1>3, <1>4, <1>5, <1>7, <1>8 DEF Moves

\* The steps of the engine's handlers.
EngineStep(t) == EngineThread(t) \/ CallFails(t) \/ RouteToMissingAgent(t)

LEMMA EngineMoves ==
    ASSUME DecisionInvariant, NEW t \in Thread, EngineStep(t), UNCHANGED decisionVars
    PROVE  Moves(t) /\ Bucket(t)
<1> USE DEF timerVars, memoryVars, busVars, boundVars
<1>0. /\ EngineTypeOK(HumanLabel) /\ loc[t] \in Locals /\ Snap(t) \in WorkflowState
      /\ \A u \in Thread : todo'[u] = todo[u] /\ noting'[u] = noting[u]
  BY Zenon, OfThread DEF decisionVars, annotationVars
<1>a. loc' = loc => KeepsWork(t)
  BY Zenon DEF KeepsWork
<1>b. /\ UNCHANGED <<armed, direct, inbox>> => Quiet(t)
      /\ Return(t) /\ UNCHANGED <<armed, direct>> => Quiet(t)
      /\ Cancel(t[2]) /\ UNCHANGED <<direct, inbox>> => Quiet(t)
  BY Zenon, <1>0, Acknowledged DEF Quiet, Cancel
<1>c. kv' = kv => Bucket(t)
  BY Zenon DEF Bucket
<1>d. Return(t) /\ UNCHANGED <<kv, armed, direct>> => Moves(t) /\ Bucket(t)
  BY Zenon, <1>b, <1>c, LeaveMoves DEF Return
<1>1. CASE CreateStream(t)
  BY Zenon, <1>1, <1>a, <1>b, <1>c, FlowTable, GoMoves DEF CreateStream
<1>2. CASE SubscribeResults(t)
  BY Zenon, <1>2, <1>a, <1>b, <1>c, FlowTable, GoMoves DEF SubscribeResults
<1>3. CASE DispatchStep(t)
  <2> DEFINE l == [loc[t] EXCEPT !.err = [code |-> "AGENT_UNAVAILABLE", step |-> loc[t].at]]
  <2>1. PICK label \in {"requestDecision", "assign", "fail"} : Goto(t, label) /\ KeepsWork(t)
    <3>1. l \in Locals /\ l.at = loc[t].at /\ l.msg = loc[t].msg
      <4>1. loc[t].at \in Nat
        BY Zenon, OfThread
      <4>2. l \in Locals
        BY Zenon, <1>0, <4>1, ValuesTyped DEF ErrCode
      <4> QED  BY Zenon, <1>0, <4>2 DEF Locals
    <3>2. \/ \E label \in {"requestDecision", "assign"} : Get(t, label, loc[t])
          \/ Get(t, "fail", l)
      BY Zenon, <1>3 DEF DispatchStep
    <3> QED  BY Zenon, <1>0, <3>1, <3>2, GetKeeps
  <2> HIDE DEF l
  <2> QED  BY Zenon, <1>3, <1>b, <1>c, <2>1, FlowTable, GoMoves DEF DispatchStep
<1>4. CASE AssignAgent(t)
  <2>1. CASE Unchanged(t) /\ Update(t, Snap(t)) /\ Goto(t, "routeStream")
             /\ UNCHANGED <<loc, inbox, redelivered>>
    <3>1. Moves(t)
      BY Zenon, <1>4, <1>a, <1>b, <2>1, FlowTable, GoMoves DEF AssignAgent
    <3>2. Snap(t) = kv[t[2]] /\ t[2] \in Workflow
      BY Zenon, <1>4, <2>1, CurrentWrite, OfThread DEF AssignAgent, HoldsState
    <3>3. Writes(t, t[2])
      BY Zenon, <1>0, <1>4, <2>1, <3>2, UpdateWrites
      DEF AssignAgent, HoldsState, Writes, Assigns, SameResults, SameStatus, SamePending
    <3> QED  BY Zenon, <3>1, <3>2, <3>3 DEF Bucket
  <2> QED  BY Zenon, <1>4, <1>d, <2>1 DEF AssignAgent
<1>5. CASE RouteToStream(t)
  BY Zenon, <1>5, <1>a, <1>b, <1>c, FlowTable, GoMoves DEF RouteToStream
<1>6. CASE RouteToAgent(t)
  <2>1. pc'[t] = "schedule" /\ \A u \in Thread \ {t} : pc'[u] = pc[u] /\ loc'[u] = loc[u]
    BY Zenon, <1>0, <1>6, HelpersMove DEF RouteToAgent
  <2>2. loc' = loc /\ pc[t] = "routeDirect" /\ armed' = armed /\ inbox' = inbox
    BY Zenon, <1>6 DEF RouteToAgent
  <2>3. Frame(t)
    BY Zenon, <1>0, <2>1 DEF Frame
  <2>4. DispatchMove(t) /\ WaiterMove(t) /\ TimerMove(t) /\ AnswerMove(t)
    BY Zenon, <2>1, <2>2 DEF DispatchMove, Continues, WaiterMove, TimerMove, AnswerMove, HasAnswer, WaitLabel,
       ResumeLabel, AdvanceLabel, AnswerLabel, DispatchLabel, UnaskedLabel, BeginLabel, AgentLabel
  <2>5. ~HasResult(t)'
    BY Zenon, <2>1 DEF HasResult, AdvanceLabel
  <2>6. \A m \in direct' : m \in direct \/ (m.w = t[2] /\ m.step = loc[t].at)
    BY <1>6 DEF RouteToAgent, StepMessage
  <2>7. MessageMove(t)
    BY Zenon, <2>1, <2>2, <2>5, <2>6 DEF MessageMove
  <2> QED  BY Zenon, <1>6, <1>c, <2>3, <2>4, <2>7 DEF RouteToAgent, Moves
<1>7. CASE ScheduleTimeout(t)
  <2>1. /\ pc'[t] = "idle" /\ loc'[t] = NoLocals /\ pc[t] = "schedule"
        /\ \A u \in Thread \ {t} : pc'[u] = pc[u] /\ loc'[u] = loc[u]
    <3>1. pc[t] = "schedule" /\ Goto(t, "idle") /\ loc' = [loc EXCEPT ![t] = NoLocals]
      BY ONLY Zenon, <1>7 DEF ScheduleTimeout, Return, Leave
    <3> QED  BY Zenon, <1>0, <3>1, HelpersMove
  <2>2. Frame(t)
    BY Zenon, <1>0, <2>1 DEF Frame
  <2>3. DispatchMove(t) /\ WaiterMove(t) /\ AnswerMove(t)
    BY Zenon, <2>1 DEF DispatchMove, WaiterMove, AnswerMove, HasAnswer, WaitLabel,
       ResumeLabel, AdvanceLabel, AnswerLabel, DispatchLabel, UnaskedLabel, BeginLabel, AgentLabel, AskLabel
  <2>4. TimerMove(t)
    BY Zenon, <1>7, <2>1 DEF ScheduleTimeout, Schedule, TimerMove
  <2>5. ~HasResult(t)'
    BY Zenon, <2>1 DEF HasResult, AdvanceLabel
  <2>6. MessageMove(t)
    BY Zenon, <1>0, <1>7, <2>5, Acknowledged DEF MessageMove, ScheduleTimeout
  <2> QED  BY Zenon, <1>7, <1>c, <2>2, <2>3, <2>4, <2>6 DEF ScheduleTimeout, Moves
<1>8. CASE HandleStepResult(t)
  <2>1. CASE Get(t, "advance", loc[t]) /\ UNCHANGED inbox
    <3>1. Goto(t, "advance") /\ KeepsWork(t)
      BY Zenon, <1>0, <2>1, GetKeeps
    <3> QED  BY Zenon, <1>8, <1>b, <1>c, <2>1, <3>1, FlowTable, GoMoves DEF HandleStepResult
  <2> QED  BY Zenon, <1>8, <1>d, <2>1 DEF HandleStepResult
<1>9. CASE AdvanceWorkflow(t)
  <2>1. PICK label \in {"fail", "advanceUpdate", "completeUpdate"} : Goto(t, label)
    BY Zenon, <1>9 DEF AdvanceWorkflow
  <2>2. KeepsWork(t)
    BY <1>0, <1>9 DEF AdvanceWorkflow, KeepsWork, EngineTypeOK, Locals
  <2> QED  BY Zenon, <1>9, <1>b, <1>c, <2>1, <2>2, FlowTable, GoMoves DEF AdvanceWorkflow
<1>10. CASE AdvanceUpdate(t)
  <2>1. CASE Unchanged(t) /\ Update(t, Advanced(t)) /\ Goto(t, "dispatch")
             /\ loc' = [loc EXCEPT ![t].at = Snap(t).step + 1]
             /\ UNCHANGED <<inbox, redelivered>>
    <3>1. /\ Snap(t) = kv[t[2]] /\ t[2] \in Workflow /\ StateRead(t)
          /\ pc[t] = "advanceUpdate" /\ UNCHANGED <<armed, direct>>
      BY Zenon, <1>10, <2>1, CurrentWrite, OfThread DEF AdvanceUpdate, HoldsState, AdvanceLabel
    <3>2. pc'[t] = "dispatch" /\ \A u \in Thread \ {t} : pc'[u] = pc[u]
      BY Zenon, <1>0, <2>1, HelpersMove
    <3>3. loc'[t].at = kv[t[2]].step + 1 /\ \A u \in Thread \ {t} : loc'[u] = loc[u]
      BY Zenon, <1>0, <2>1, <3>1 DEF EngineTypeOK, Locals
    <3>4. Writes(t, t[2]) /\ kv'[t[2]].step = kv[t[2]].step + 1
      <4>1. Advanced(t) \in WorkflowState
        BY Zenon, <1>0, WritesTyped
      <4>2. /\ Advanced(t).status = kv[t[2]].status /\ Advanced(t).pd = kv[t[2]].pd
            /\ Advanced(t).step = kv[t[2]].step + 1
            /\ Advanced(t).results =
                  Append(kv[t[2]].results, [step |-> loc[t].msg.step, by |-> loc[t].msg.by])
        BY Zenon, <1>0, <3>1 DEF Advanced, WorkflowState
      <4>3. kv[t[2]].status \notin Terminal /\ (t[1] = "resume" => kv[t[2]].status = "running")
        BY Zenon, <3>1 DEF StateRead, AdvanceLabel
      <4> QED  BY Zenon, <2>1, <3>1, <3>2, <4>1, <4>2, <4>3, UpdateWrites
               DEF HoldsState, AdvanceLabel, WaitLabel, Writes, Records, SameStatus, SamePending
    <3>5. Frame(t)
      BY Zenon, <1>0, <3>2, <3>3 DEF Frame
    <3>6. DispatchMove(t)
      <4>1. kv[t[2]].step \in Nat
        BY Zenon, OfThread DEF WorkflowState
      <4>2. kv'[t[2]].status # "none"
        <5>1. kv[t[2]].status # "none"
          BY Zenon, <3>1, OfThread, RolesOfLabels DEF OnTrack, AdvanceLabel
        <5> QED  BY Zenon, <1>0, <3>1, <3>4, <5>1, ThreadNames
                    DEF Writes, Starts, Assigns, Records, Fails, Pauses,
                    MarksOwn, MarksOther, Settles, SameStatus
      <4> QED  BY <3>1, <3>2, <3>3, <3>4, <4>1, <4>2
               DEF DispatchMove, Enters, BeginLabel, DispatchLabel, UnaskedLabel, AgentLabel, AskLabel
    <3>7. WaiterMove(t) /\ TimerMove(t) /\ AnswerMove(t) /\ ~HasResult(t)'
      BY Zenon, <3>1, <3>2 DEF WaiterMove, WaitLabel, ResumeLabel, TimerMove, AnswerMove, HasAnswer,
         AnswerLabel,
         HasResult, AdvanceLabel
    <3>8. MessageMove(t)
      BY Zenon, <2>1, <3>1, <3>7 DEF MessageMove
    <3> QED  BY Zenon, <3>1, <3>4, <3>5, <3>6, <3>7, <3>8 DEF Moves, Bucket
  <2> QED  BY Zenon, <1>10, <1>d, <2>1 DEF AdvanceUpdate
<1>11. CASE CompleteUpdate(t)
  <2>1. CASE Unchanged(t) /\ Update(t, [Advanced(t) EXCEPT !.status = "completed"])
             /\ Goto(t, "announceComplete") /\ UNCHANGED <<loc, inbox, redelivered>>
    <3>1. /\ Snap(t) = kv[t[2]] /\ t[2] \in Workflow /\ StateRead(t) /\ pc[t] = "completeUpdate"
      BY Zenon, <1>11, <2>1, CurrentWrite, OfThread DEF CompleteUpdate, HoldsState, AdvanceLabel
    <3>2. Moves(t) /\ pc'[t] = "announceComplete"
      BY Zenon, <1>11, <1>a, <1>b, <2>1, FlowTable, GoMoves DEF CompleteUpdate
    <3>3. Writes(t, t[2])
      <4> DEFINE s == [Advanced(t) EXCEPT !.status = "completed"]
      <4>1. s \in WorkflowState
        BY Zenon, <1>0, WritesTyped
      <4>2. /\ s.status = "completed" /\ s.pd = kv[t[2]].pd
            /\ s.step = kv[t[2]].step + 1
            /\ s.results = Append(kv[t[2]].results, [step |-> loc[t].msg.step, by |-> loc[t].msg.by])
        BY Zenon, <1>0, <3>1 DEF Advanced, WorkflowState
      <4>3. kv[t[2]].status \notin Terminal /\ (t[1] = "resume" => kv[t[2]].status = "running")
        BY Zenon, <3>1 DEF StateRead, AdvanceLabel
      <4>5. s.step >= Len(StepsOf[t[2]])
        BY Zenon, <3>1, <4>2 DEF StateRead, Steps
      <4> HIDE DEF s
      <4>4. Update(t, s)
        BY Zenon, <2>1 DEF s
      <4> QED  BY Zenon, <2>1, <3>1, <3>2, <4>1, <4>2, <4>3, <4>4, <4>5, UpdateWrites
               DEF HoldsState, AdvanceLabel, WaitLabel, Writes, Records, SamePending
    <3> QED  BY Zenon, <3>1, <3>2, <3>3 DEF Bucket
  <2> QED  BY Zenon, <1>11, <1>d, <2>1 DEF CompleteUpdate
<1>12. CASE FailWorkflow(t)
  BY Zenon, <1>12, <1>a, <1>b, <1>c, FlowTable, GoMoves DEF FailWorkflow
<1>13. CASE FailUpdate(t)
  <2>1. CASE Unchanged(t) /\ Update(t, [Snap(t) EXCEPT !.status = "failed", !.err = loc[t].err])
             /\ Goto(t, "announceFailed") /\ UNCHANGED <<loc, inbox, redelivered>>
    <3>1. /\ Snap(t) = kv[t[2]] /\ t[2] \in Workflow /\ StateRead(t) /\ pc[t] = "failUpdate"
      BY Zenon, <1>13, <2>1, CurrentWrite, OfThread DEF FailUpdate, HoldsState
    <3>2. Moves(t)
      BY Zenon, <1>13, <1>a, <1>b, <2>1, FlowTable, GoMoves DEF FailUpdate
    <3>3. Writes(t, t[2])
      <4> DEFINE s == [Snap(t) EXCEPT !.status = "failed", !.err = loc[t].err]
      <4>1. s \in WorkflowState
        BY Zenon, <1>0, WritesTyped
      <4>2. /\ s.status = "failed" /\ s.pd = kv[t[2]].pd
            /\ s.step = kv[t[2]].step /\ s.results = kv[t[2]].results
        BY Zenon, <1>0, <3>1 DEF WorkflowState
      <4>3. kv[t[2]].status = "completed" => ~InStep(t[2])
        BY Zenon, <3>1 DEF StateRead, Stepwise, InStep
      <4> HIDE DEF s
      <4>4. Update(t, s)
        BY Zenon, <2>1 DEF s
      <4> QED  BY Zenon, <2>1, <3>1, <4>1, <4>2, <4>3, <4>4, UpdateWrites
               DEF HoldsState, Writes, Fails, SamePending, SameResults
    <3> QED  BY Zenon, <3>1, <3>2, <3>3 DEF Bucket
  <2> QED  BY Zenon, <1>13, <1>d, <2>1 DEF FailUpdate
<1>14. CASE AnnounceComplete(t) \/ AnnounceFailed(t)
  BY Zenon, <1>14, <1>d DEF AnnounceComplete, AnnounceFailed, Announce
<1>15. CASE DeleteTimerEntry(t)
  BY Zenon, <1>15, <1>a, <1>b, <1>c, FlowTable, GoMoves DEF DeleteTimerEntry
<1>16. CASE StepTimeout(t)
  <2> DEFINE l == [loc[t] EXCEPT !.err = [code |-> "STEP_TIMEOUT", step |-> t[3]]]
  <2>1. CASE Get(t, "fail", l)
    <3>1. l \in Locals /\ l.at = loc[t].at /\ l.msg = loc[t].msg
      <4>1. t[3] \in Nat
        BY Zenon, <1>16, RolesOfLabels, ThreadNames DEF StepTimeout
      <4>2. l \in Locals
        BY Zenon, <1>0, <4>1, ValuesTyped DEF ErrCode
      <4> QED  BY Zenon, <1>0, <4>2 DEF Locals
    <3>2. Goto(t, "fail") /\ KeepsWork(t)
      BY Zenon, <2>1, <3>1, GetKeeps
    <3> HIDE DEF l
    <3> QED  BY Zenon, <1>16, <1>b, <1>c, <3>2, FlowTable, GoMoves DEF StepTimeout
  <2>2. CASE Leave(t)
    BY Zenon, <1>16, <1>b, <1>c, <2>2, LeaveMoves DEF StepTimeout
  <2> QED  BY Zenon, <1>16, <2>1, <2>2 DEF StepTimeout
<1>17. CASE CallFails(t)
  <2>1. CASE ReturnError(t)
    BY Zenon, <1>17, <1>b, <1>c, <2>1, LeaveMoves DEF CallFails, ReturnError
  <2> QED  BY Zenon, <1>17, <1>d, <2>1 DEF CallFails
<1>18. CASE RouteToMissingAgent(t)
  BY Zenon, <1>18, <1>a, <1>b, <1>c, FlowTable, GoMoves DEF RouteToMissingAgent
<1> QED  BY Zenon, <1>1, <1>2, <1>3, <1>4, <1>5, <1>6, <1>7, <1>8, <1>9, <1>10, <1>11, <1>12,
            <1>13, <1>14, <1>15, <1>16, <1>17, <1>18 DEF EngineStep, EngineThread

LEMMA EngineEffect ==
    ASSUME DecisionInvariant, NEW t \in Thread, EngineStep(t), UNCHANGED decisionVars
    PROVE  Effect(t)
<1>1. faults' \in {faults, faults + 1} /\ crashes' = crashes
  BY Zenon DEF EngineStep, EngineThread, CallFails, RouteToMissingAgent, CreateStream, SubscribeResults,
     DispatchStep, AssignAgent, RouteToStream, RouteToAgent, ScheduleTimeout, HandleStepResult,
     AdvanceWorkflow, AdvanceUpdate, CompleteUpdate, FailWorkflow, FailUpdate, AnnounceComplete,
     AnnounceFailed, Announce, DeleteTimerEntry, StepTimeout, boundVars
<1>2. pc[t] \notin {"index", "respondUpdate", "timeoutUpdate"}
  BY Zenon DEF EngineStep, EngineThread, CallFails, RouteToMissingAgent, CreateStream, SubscribeResults,
     DispatchStep, AssignAgent, RouteToStream, RouteToAgent, ScheduleTimeout, HandleStepResult,
     AdvanceWorkflow, AdvanceUpdate, CompleteUpdate, FailWorkflow, FailUpdate, AnnounceComplete,
     AnnounceFailed, Announce, DeleteTimerEntry, StepTimeout, ReturnsError, TakenForConflict
<1> QED  BY Zenon, <1>1, <1>2, EngineMoves, CoordinatorKept DEF Effect

\* The steps of the handlers in the coordinator, and of its failing calls.
LEMMA RequestMoves ==
    ASSUME DecisionInvariant, NEW t \in Thread,
           \/ RequestUpdate(t) \/ IndexDecision(t) \/ ReadForAnnotation(t) \/ Annotate(t)
           \/ RegisterChannel(t) \/ PublishRequest(t) \/ ScheduleDecisionTimeout(t) \/ SpawnWaiter(t)
    PROVE  Moves(t) /\ Bucket(t)
<1> USE DEF timerVars, memoryVars, busVars, boundVars, decisionVars, annotationVars, recoveryVars
<1>0. /\ EngineTypeOK(HumanLabel) /\ CoordinatorTypeOK /\ loc[t] \in Locals /\ Snap(t) \in WorkflowState
      /\ t[2] \in Workflow /\ pc[t] \in HumanLabel
  BY Zenon, OfThread, RolesOfLabels
<1>a. loc' = loc => KeepsWork(t)
  BY Zenon DEF KeepsWork
<1>b. /\ UNCHANGED <<todo, noting, armed, direct, inbox>> => Quiet(t)
      /\ Return(t) /\ UNCHANGED <<todo, noting, armed, direct>> => Quiet(t)
  BY Zenon, <1>0, Acknowledged DEF Quiet
<1>c. kv' = kv => Bucket(t)
  BY Zenon DEF Bucket
<1>1. CASE RequestUpdate(t)
  <2> DEFINE s == [Snap(t) EXCEPT !.status = "waiting",
                                  !.pd = {[step |-> loc[t].at, conflicts |-> {}]}]
  <2>1. CASE Unchanged(t) /\ Update(t, s) /\ Goto(t, "index") /\ UNCHANGED <<loc, inbox, redelivered>>
    <3>1. Snap(t) = kv[t[2]]
      BY Zenon, <1>1, <2>1, CurrentWrite DEF RequestUpdate, HoldsState
    <3>2. Moves(t) /\ pc'[t] = "index"
      BY Zenon, <1>1, <1>a, <1>b, <2>1, FlowTable, GoMoves DEF RequestUpdate
    <3>3. s \in WorkflowState
      BY Zenon, DecisionWritesTyped
    <3>4. s.status = "waiting" /\ s.pd = {[step |-> loc[t].at, conflicts |-> {}]}
          /\ s.step = kv[t[2]].step /\ s.results = kv[t[2]].results
      BY Zenon, <1>0, <3>1 DEF WorkflowState
    <3> HIDE DEF s
    <3>5. Writes(t, t[2])
      BY Zenon, <1>1, <2>1, <3>2, <3>3, <3>4, UpdateWrites
      DEF RequestUpdate, HoldsState, Writes, Pauses, SameResults
    <3> QED  BY Zenon, <1>0, <3>2, <3>5 DEF Bucket
  <2> HIDE DEF s
  <2>2. CASE ReturnError(t) /\ UNCHANGED kv
    BY Zenon, <1>1, <1>b, <1>c, <2>2, LeaveMoves DEF RequestUpdate, ReturnError
  <2> QED  BY Zenon, <1>1, <2>1, <2>2 DEF RequestUpdate, s
<1>2. CASE IndexDecision(t)
  <2>1. PICK label \in {"channel", "annotate"} : Goto(t, label)
    BY Zenon, <1>2 DEF IndexDecision
  <2>2. \A u \in Thread \ {t} : todo'[u] = todo[u] /\ noting'[u] = noting[u]
    BY Zenon, <1>0, <1>2 DEF IndexDecision, CoordinatorTypeOK
  <2>3. Quiet(t) /\ kv' = kv /\ loc' = loc /\ pc[t] = "index"
    BY Zenon, <1>2, <2>2 DEF IndexDecision, Quiet
  <2> QED  BY Zenon, <1>a, <1>c, <2>1, <2>3, FlowTable, GoMoves
<1>3. CASE ReadForAnnotation(t)
  <2>1. \A u \in Thread \ {t} : todo'[u] = todo[u] /\ noting'[u] = noting[u]
    BY Zenon, <1>0, <1>3 DEF ReadForAnnotation, CoordinatorTypeOK
  <2>2. Quiet(t) /\ kv' = kv /\ pc[t] = "annotate"
    BY Zenon, <1>3, <2>1 DEF ReadForAnnotation, Quiet
  <2>3. CASE UNCHANGED <<pc, loc, noting>>
    <3>1. Goto(t, "annotate")
      BY Zenon, <1>0, <2>2, <2>3 DEF Goto, EngineTypeOK
    <3> QED  BY Zenon, <1>a, <1>c, <2>2, <2>3, <3>1, FlowTable, GoMoves
  <2>4. CASE Goto(t, "annotateUpdate") /\ \E s : loc' = [loc EXCEPT ![t].snap = s]
    <3>1. KeepsWork(t)
      BY Zenon, <1>0, <2>4 DEF KeepsWork, EngineTypeOK, Locals
    <3> QED  BY Zenon, <1>c, <2>2, <2>4, <3>1, FlowTable, GoMoves
  <2> QED  BY Zenon, <1>3, <2>3, <2>4 DEF ReadForAnnotation
<1>4. CASE Annotate(t)
  <2>1. \A u \in Thread \ {t} : todo'[u] = todo[u] /\ noting'[u] = noting[u]
    BY Zenon, <1>0, <1>4 DEF Annotate, CoordinatorTypeOK
  <2>2. Quiet(t) /\ loc' = loc /\ pc[t] = "annotateUpdate"
    BY Zenon, <1>4, <2>1 DEF Annotate, Quiet
  <2>3. PICK n \in noting[t] :
             LET own == n.d = <<t[2], loc[t].at>> IN
             /\ kv' = IF kv[n.d[1]].rev = Snap(t).rev
                      THEN [kv EXCEPT ![n.d[1]] = [Annotated(n, own, Snap(t)) EXCEPT
                                                      !.rev = Snap(t).rev + 1]]
                      ELSE kv
             /\ Goto(t, IF own THEN "channel" ELSE "annotate")
    BY Zenon, <1>4 DEF Annotate
  <2>4. Moves(t)
    <3>1. Goto(t, "channel") \/ Goto(t, "annotate")
      BY Zenon, <2>3
    <3> QED  BY Zenon, <1>a, <2>2, <3>1, FlowTable, GoMoves
  <2> DEFINE w == n.d[1]
             own == n.d = <<t[2], loc[t].at>>
  <2>5. CASE kv[w].rev = Snap(t).rev
    <3>1. n \in Note /\ w \in Workflow /\ n.ids \in SUBSET HumanStep
      BY <1>0, StepNames DEF CoordinatorTypeOK, Note
    <3>2. Snap(t) = kv[w] /\ Contended(w) /\ kv[w].status # "none" /\ (crashes = 0 => n.ids # {})
      BY Zenon, <2>2, <2>5, OfThread DEF StateRead, AsRead, Annotations
    <3>3. Annotated(n, own, Snap(t)) \in WorkflowState
      BY Zenon, <3>1, DecisionWritesTyped
    <3>4. /\ \A v \in Workflow \ {w} : kv'[v] = kv[v]
          /\ kv'[w] = [Annotated(n, own, Snap(t)) EXCEPT !.rev = kv[w].rev + 1]
      BY Zenon, <1>0, <2>3, <2>5, <3>1, <3>2 DEF EngineTypeOK
    <3>5. /\ kv'[w].rev = kv[w].rev + 1 /\ kv'[w].status = Annotated(n, own, Snap(t)).status
          /\ kv'[w].step = Annotated(n, own, Snap(t)).step
          /\ kv'[w].results = Annotated(n, own, Snap(t)).results
          /\ kv'[w].pd = Annotated(n, own, Snap(t)).pd
      BY Zenon, <3>3, <3>4 DEF WorkflowState
    <3>6. kv[w] \in WorkflowState
      BY Zenon, <1>0, <3>1 DEF EngineTypeOK
    <3>7. CASE own
      <4>1. /\ Annotated(n, own, Snap(t)).status = kv[w].status
            /\ Annotated(n, own, Snap(t)).step = kv[w].step
            /\ Annotated(n, own, Snap(t)).results = kv[w].results
            /\ Annotated(n, own, Snap(t)).pd = {PendingOf(n.d)}
        BY Zenon, <3>2, <3>6, <3>7 DEF Annotated, WorkflowState
      <4>2. w = t[2] /\ n.d = <<t[2], loc[t].at>>
        BY <3>7
      <4>3. MarksOwn(t)
        BY <2>2, <3>5, <4>1, <4>2 DEF MarksOwn, SameResults, SameStatus, PendingOf
      <4> QED  BY Zenon, <2>4, <3>1, <3>4, <3>5, <4>2, <4>3 DEF Bucket, Writes
    <3>8. CASE ~own
      <4>1. /\ Annotated(n, own, Snap(t)).status = kv[w].status
            /\ Annotated(n, own, Snap(t)).step = kv[w].step
            /\ Annotated(n, own, Snap(t)).results = kv[w].results
            /\ Annotated(n, own, Snap(t)).pd = {[p EXCEPT !.conflicts = n.ids] : p \in kv[w].pd}
        BY Zenon, <3>2, <3>6, <3>8 DEF Annotated, WorkflowState
      <4>2. MarksOther(t, w)
        BY Zenon, <2>2, <3>1, <3>2, <3>5, <4>1 DEF MarksOther, SameResults, SameStatus
      <4> QED  BY Zenon, <2>4, <3>1, <3>4, <3>5, <4>2 DEF Bucket, Writes
    <3> QED  BY Zenon, <3>7, <3>8
  <2> QED  BY Zenon, <1>c, <2>3, <2>4, <2>5
<1>5. CASE RegisterChannel(t) \/ PublishRequest(t)
  BY Zenon, <1>5, <1>a, <1>b, <1>c, FlowTable, GoMoves DEF RegisterChannel, PublishRequest
<1>6. CASE ScheduleDecisionTimeout(t)
  <2>1. /\ pc'[t] = "spawn" /\ pc[t] = "scheduleDecision" /\ loc' = loc
        /\ \A u \in Thread \ {t} : pc'[u] = pc[u]
    BY Zenon, <1>0, <1>6, HelpersMove DEF ScheduleDecisionTimeout
  <2>2. Frame(t)
    BY Zenon, <1>6, <2>1 DEF Frame, ScheduleDecisionTimeout
  <2>3. DispatchMove(t) /\ WaiterMove(t) /\ AnswerMove(t)
    BY Zenon, <2>1 DEF DispatchMove, Continues, WaiterMove, AnswerMove, HasAnswer, WaitLabel,
       ResumeLabel, AdvanceLabel, AnswerLabel, DispatchLabel, UnaskedLabel, BeginLabel, AgentLabel, AskLabel
  <2>4. TimerMove(t)
    BY Zenon, <1>6, <2>1 DEF ScheduleDecisionTimeout, Schedule, TimerMove
  <2>5. ~HasResult(t)'
    BY Zenon, <2>1 DEF HasResult, AdvanceLabel
  <2>6. MessageMove(t)
    BY Zenon, <1>6, <2>5 DEF MessageMove, ScheduleDecisionTimeout
  <2> QED  BY Zenon, <1>6, <1>c, <2>2, <2>3, <2>4, <2>6 DEF ScheduleDecisionTimeout, Moves
<1>7. CASE SpawnWaiter(t)
  <2> DEFINE x == <<"resume", t[2], loc[t].at>>
  <2>1. pc[t] = "spawn" /\ pc' = [pc EXCEPT ![t] = "idle", ![x] = "wait"]
        /\ loc' = [loc EXCEPT ![t] = NoLocals]
    BY Zenon, <1>7 DEF SpawnWaiter
  <2>2. loc[t].at \in StepIndex(t[2]) /\ x \in Thread
    BY Zenon, <1>0, <2>1, OfThread, ThreadNames DEF OnTrack, DispatchLabel, AskLabel
  <2>3. pc[x] = "idle" /\ x # t
    <3>1. Waiter(x, t[2], loc[t].at) /\ pc[t] \in DispatchLabel
      BY Zenon, <2>1 DEF Waiter, DispatchLabel, AskLabel
    <3>2. Alone(t, t[2], loc[t].at)
      BY Zenon, <3>1, AloneWithStep
    <3> QED  BY Zenon, <2>1, <2>2, <3>1, <3>2 DEF Alone
  <2>4. /\ pc'[t] = "idle" /\ loc'[t] = NoLocals
        /\ \A u \in Thread \ {t} : loc'[u] = loc[u]
        /\ \A u \in Thread \ {t} : pc'[u] = pc[u] \/ (u = x /\ pc'[u] = "wait")
    BY Zenon, <1>0, <2>1, <2>2, <2>3 DEF EngineTypeOK
  <2>5. Frame(t)
    <3>1. Waiter(x, t[2], loc[t].at) /\ UNCHANGED <<todo, noting>>
      BY Zenon, <1>7 DEF Waiter, SpawnWaiter
    <3>2. \A u \in Thread \ {t} : u = x /\ pc'[u] = "wait" => Spawns(t, u)
      BY Zenon, <2>1, <2>3, <2>4, <3>1 DEF Spawns
    <3> QED  BY Zenon, <2>4, <3>1, <3>2 DEF Frame
  <2>6. DispatchMove(t) /\ WaiterMove(t) /\ AnswerMove(t)
    BY Zenon, <2>4 DEF DispatchMove, WaiterMove, AnswerMove, HasAnswer, WaitLabel,
       ResumeLabel, AdvanceLabel, AnswerLabel, DispatchLabel, UnaskedLabel, BeginLabel, AgentLabel, AskLabel
  <2>7. TimerMove(t)
    BY Zenon, <1>7, <2>4 DEF SpawnWaiter, TimerMove
  <2>8. ~HasResult(t)'
    BY Zenon, <2>4 DEF HasResult, AdvanceLabel
  <2>9. MessageMove(t)
    BY Zenon, <1>0, <1>7, <2>8, Acknowledged DEF MessageMove, SpawnWaiter
  <2> QED  BY Zenon, <1>7, <1>c, <2>5, <2>6, <2>7, <2>9 DEF SpawnWaiter, Moves
<1> QED  BY Zenon, <1>1, <1>2, <1>3, <1>4, <1>5, <1>6, <1>7

LEMMA AnswerMoves ==
    ASSUME DecisionInvariant, NEW t \in Thread,
           \/ ProcessResponse(t) \/ WithdrawDecision(t) \/ RespondUpdate(t) \/ ResolveDecision(t)
           \/ DropChannel(t) \/ DecisionTimeout(t) \/ TimeoutUpdate(t) \/ NotifyTimeout(t)
           \/ ReceiveVerdict(t) \/ ResumeAfterApproval(t) \/ DecisionCallFails(t)
    PROVE  Moves(t) /\ Bucket(t)
<1> USE DEF timerVars, memoryVars, busVars, boundVars, decisionVars, annotationVars, recoveryVars
<1>0. /\ EngineTypeOK(HumanLabel) /\ CoordinatorTypeOK /\ loc[t] \in Locals /\ Snap(t) \in WorkflowState
      /\ t[2] \in Workflow /\ pc[t] \in HumanLabel
  BY Zenon, OfThread, RolesOfLabels
<1>a. loc' = loc => KeepsWork(t)
  BY Zenon DEF KeepsWork
<1>b. /\ UNCHANGED <<todo, noting, armed, direct, inbox>> => Quiet(t)
      /\ Return(t) /\ UNCHANGED <<todo, noting, armed, direct>> => Quiet(t)
      /\ Cancel(t[2]) /\ UNCHANGED <<todo, noting, direct, inbox>> => Quiet(t)
  BY Zenon, <1>0, Acknowledged DEF Quiet, Cancel
<1>c. kv' = kv => Bucket(t)
  BY Zenon DEF Bucket
<1>d. Return(t) /\ UNCHANGED <<kv, armed, direct, todo, noting>> => Moves(t) /\ Bucket(t)
  BY Zenon, <1>b, <1>c, LeaveMoves DEF Return
<1>e. Leave(t) /\ UNCHANGED <<kv, armed, direct, todo, noting, inbox>> => Moves(t) /\ Bucket(t)
  BY Zenon, <1>b, <1>c, LeaveMoves
<1>1. CASE ProcessResponse(t)
  <2>1. CASE Waits(kv[t[2]], loc[t].msg.step) /\ Get(t, "respond", loc[t]) /\ UNCHANGED <<inbox, redelivered>>
    <3>1. KeepsWork(t) /\ Goto(t, "respond")
      BY Zenon, <1>0, <2>1, GetKeeps
    <3>2. pc'[t] = "respond" /\ pc[t] = "response" /\ \A u \in Thread \ {t} : pc'[u] = pc[u]
      BY Zenon, <1>0, <1>1, <3>1, HelpersMove DEF ProcessResponse
    <3>3. Frame(t)
      BY Zenon, <1>1, <3>1, <3>2 DEF Frame, KeepsWork, ProcessResponse
    <3>4. DispatchMove(t) /\ WaiterMove(t) /\ TimerMove(t) /\ ~HasResult(t)'
      BY Zenon, <1>1, <3>2 DEF DispatchMove, WaiterMove, TimerMove, HasResult, ProcessResponse, WaitLabel,
         ResumeLabel, AdvanceLabel, AnswerLabel, DispatchLabel, UnaskedLabel, BeginLabel, AgentLabel, AskLabel
    <3>5. MessageMove(t)
      BY Zenon, <1>1, <2>1, <3>4 DEF MessageMove, ProcessResponse
    <3>6. AnswerMove(t)
      <4>1. loc'[t].snap = kv[t[2]]
        <5>1. loc'[t] = [loc[t] EXCEPT !.snap = kv[t[2]]]
          BY Zenon, <1>0, <2>1, GetKeeps
        <5> QED  BY Zenon, <1>0, <5>1 DEF Locals
      <4> QED  BY Zenon, <2>1, <3>1, <3>2, <4>1 DEF AnswerMove, KeepsWork
    <3> QED  BY Zenon, <1>1, <1>c, <3>3, <3>4, <3>5, <3>6 DEF ProcessResponse, Moves
  <2> QED  BY Zenon, <1>1, <1>d, <2>1 DEF ProcessResponse, Waits
<1>2. CASE WithdrawDecision(t)
  <2>1. pc'[t] = "respondUpdate" /\ pc[t] = "respond" /\ loc' = loc /\ \A u \in Thread \ {t} : pc'[u] = pc[u]
    BY Zenon, <1>0, <1>2, HelpersMove DEF WithdrawDecision
  <2>2. Quiet(t) /\ Bucket(t)
    BY Zenon, <1>2, <1>b, <1>c DEF WithdrawDecision
  <2>3. Frame(t)
    BY Zenon, <2>1, <2>2 DEF Frame, Quiet
  <2>4. DispatchMove(t) /\ WaiterMove(t) /\ AnswerMove(t) /\ ~HasResult(t)'
    BY Zenon, <2>1 DEF DispatchMove, WaiterMove, HasResult, AnswerMove, HasAnswer, WaitLabel,
       ResumeLabel, AdvanceLabel, AnswerLabel, DispatchLabel, UnaskedLabel, BeginLabel, AgentLabel, AskLabel
  <2>5. TimerMove(t) /\ MessageMove(t)
    BY Zenon, <2>1, <2>2, <2>4 DEF TimerMove, MessageMove, Quiet
  <2> QED  BY Zenon, <2>2, <2>3, <2>4, <2>5 DEF Moves
<1>3. CASE RespondUpdate(t)
  <2>1. CASE Unchanged(t) /\ Update(t, Answered(t)) /\ Goto(t, "resolve")
             /\ UNCHANGED <<loc, inbox, redelivered>>
    <3>1. Snap(t) = kv[t[2]] /\ pc[t] = "respondUpdate" /\ Waits(Snap(t), loc[t].msg.step)
      BY Zenon, <1>3, <2>1, CurrentWrite, OfThread DEF RespondUpdate, HoldsState, StateRead
    <3>2. pc'[t] = "resolve" /\ \A u \in Thread \ {t} : pc'[u] = pc[u]
      BY Zenon, <1>0, <2>1, HelpersMove
    <3>3. Answered(t) \in WorkflowState
      BY Zenon, DecisionWritesTyped
    <3>4. /\ Answered(t).status \in {"running", "failed"} /\ Answered(t).pd = {}
          /\ Answered(t).step = kv[t[2]].step /\ Answered(t).results = kv[t[2]].results
      BY Zenon, <1>0, <3>1 DEF WorkflowState, Answered
    <3>5. Writes(t, t[2]) /\ kv'[t[2]].rev = kv[t[2]].rev + 1
      BY Zenon, <2>1, <3>1, <3>2, <3>3, <3>4, UpdateWrites
      DEF HoldsState, Writes, Settles, SameResults, Waits
    <3>6. kv' # kv
      <4>1. kv[t[2]].rev \in Nat
        BY Zenon, OfThread DEF WorkflowState
      <4> QED  BY <3>5, <4>1
    <3>7. Frame(t)
      BY Zenon, <1>3, <2>1, <3>2 DEF Frame, RespondUpdate
    <3>8. DispatchMove(t) /\ WaiterMove(t) /\ TimerMove(t) /\ ~HasResult(t)'
      BY Zenon, <1>3, <3>2 DEF DispatchMove, WaiterMove, TimerMove, HasResult, RespondUpdate, WaitLabel,
         ResumeLabel, AdvanceLabel, AnswerLabel, DispatchLabel, UnaskedLabel, BeginLabel, AgentLabel, AskLabel
    <3>9. MessageMove(t)
      BY Zenon, <1>3, <2>1, <3>8 DEF MessageMove, RespondUpdate
    <3>10. AnswerMove(t)
      BY Zenon, <2>1, <3>1, <3>2, <3>6 DEF AnswerMove, HasAnswer, AnswerLabel
    <3> QED  BY Zenon, <1>0, <3>5, <3>7, <3>8, <3>9, <3>10 DEF Bucket, Moves
  <2> QED  BY Zenon, <1>3, <1>d, <2>1 DEF RespondUpdate
<1>4. CASE ResolveDecision(t) \/ NotifyTimeout(t)
  <2>1. \/ Goto(t, "dropChannel") /\ UNCHANGED <<loc, inbox, redelivered>>
        \/ Return(t)
    BY Zenon, <1>4 DEF ResolveDecision, NotifyTimeout, Notify
  <2>2. pc[t] \in {"resolve", "notifyTimeout"} /\ UNCHANGED <<kv, armed, direct, todo, noting>>
    BY Zenon, <1>4 DEF ResolveDecision, NotifyTimeout
  <2> QED  BY Zenon, <1>a, <1>b, <1>c, <1>d, <2>1, <2>2, FlowTable, GoMoves
<1>5. CASE DropChannel(t)
  BY Zenon, <1>5, <1>d DEF DropChannel
<1>6. CASE DecisionTimeout(t)
  <2>1. CASE Get(t, "timeoutUpdate", loc[t])
    <3>1. KeepsWork(t) /\ Goto(t, "timeoutUpdate")
      BY Zenon, <1>0, <2>1, GetKeeps
    <3> QED  BY Zenon, <1>6, <1>b, <1>c, <3>1, FlowTable, GoMoves DEF DecisionTimeout
  <2> QED  BY Zenon, <1>6, <1>e, <2>1 DEF DecisionTimeout
<1>7. CASE TimeoutUpdate(t)
  <2> DEFINE s == [Snap(t) EXCEPT !.status = "failed", !.pd = {},
                                  !.err = [code |-> "DECISION_TIMEOUT", step |-> t[3]]]
  <2>1. Moves(t) /\ pc[t] = "timeoutUpdate" /\ pc'[t] = "notifyTimeout"
    BY Zenon, <1>7, <1>a, <1>b, FlowTable, GoMoves DEF TimeoutUpdate
  <2>2. CASE Unchanged(t) /\ Update(t, s)
    <3>1. Snap(t) = kv[t[2]] /\ Waits(Snap(t), t[3])
      BY Zenon, <2>1, <2>2, CurrentWrite, OfThread DEF HoldsState, StateRead
    <3>2. t[3] \in Nat
      BY Zenon, <2>1, RolesOfLabels, ThreadNames
    <3>3. s \in WorkflowState
      BY Zenon, <3>2, DecisionWritesTyped
    <3>4. s.status = "failed" /\ s.pd = {} /\ s.step = kv[t[2]].step /\ s.results = kv[t[2]].results
      BY Zenon, <1>0, <3>1 DEF WorkflowState
    <3> HIDE DEF s
    <3>5. Writes(t, t[2])
      BY Zenon, <2>1, <2>2, <3>1, <3>3, <3>4, UpdateWrites DEF HoldsState, Writes, Settles, SameResults, Waits
    <3> QED  BY Zenon, <1>0, <2>1, <3>5 DEF Bucket
  <2> QED  BY Zenon, <1>7, <1>c, <2>1, <2>2 DEF TimeoutUpdate
<1>8. CASE ReceiveVerdict(t)
  <2>1. PICK label \in {"resume", "idle"} : Goto(t, label) /\ (label = "resume" => channel[<<t[2], t[3]>>] = "approved")
    BY Zenon, <1>8 DEF ReceiveVerdict
  <2>2. pc'[t] = label /\ pc[t] = "wait" /\ loc' = loc /\ \A u \in Thread \ {t} : pc'[u] = pc[u]
    BY Zenon, <1>0, <1>8, <2>1, HelpersMove DEF ReceiveVerdict
  <2>3. Frame(t)
    BY Zenon, <1>8, <2>2 DEF Frame, ReceiveVerdict
  <2>4. DispatchMove(t) /\ TimerMove(t) /\ AnswerMove(t) /\ ~HasResult(t)'
    BY Zenon, <1>8, <2>2 DEF DispatchMove, TimerMove, HasResult, AnswerMove, HasAnswer, ReceiveVerdict,
       AdvanceLabel, AnswerLabel, DispatchLabel, UnaskedLabel, BeginLabel, AgentLabel, AskLabel
  <2>5. WaiterMove(t)
    BY Zenon, <2>1, <2>2 DEF WaiterMove, WaitLabel, ResumeLabel, AdvanceLabel
  <2>6. MessageMove(t)
    BY Zenon, <1>8, <2>4 DEF MessageMove, ReceiveVerdict
  <2> QED  BY Zenon, <1>8, <1>c, <2>3, <2>4, <2>5, <2>6 DEF ReceiveVerdict, Moves
<1>9. CASE ResumeAfterApproval(t)
  <2>1. CASE Get(t, "advance", [loc[t] EXCEPT !.msg = [step |-> t[3], status |-> "success", by |-> "human"]])
    <3>1. pc'[t] = "advance" /\ pc[t] = "resume" /\ \A u \in Thread \ {t} : pc'[u] = pc[u] /\ loc'[u] = loc[u]
      BY Zenon, <1>0, <1>9, <2>1, HelpersMove DEF Get, ResumeAfterApproval
    <3>2. Frame(t)
      BY Zenon, <1>9, <3>1 DEF Frame, ResumeAfterApproval
    <3>3. t[1] = "resume"
      BY Zenon, <3>1, RolesOfLabels
    <3>4. DispatchMove(t) /\ TimerMove(t) /\ AnswerMove(t) /\ ~HasResult(t)' /\ WaiterMove(t)
      BY Zenon, <1>9, <3>1, <3>3
         DEF DispatchMove, TimerMove, HasResult, AnswerMove, HasAnswer, ResumeAfterApproval,
         AdvanceLabel, AnswerLabel, DispatchLabel, UnaskedLabel, BeginLabel, AgentLabel, AskLabel, WaiterMove,
         WaitLabel, ResumeLabel
    <3>5. MessageMove(t)
      BY Zenon, <1>9, <3>4 DEF MessageMove, ResumeAfterApproval
    <3> QED  BY Zenon, <1>9, <1>c, <3>2, <3>4, <3>5 DEF ResumeAfterApproval, Moves
  <2> QED  BY Zenon, <1>9, <1>e, <2>1 DEF ResumeAfterApproval
<1>10. CASE DecisionCallFails(t)
  <2>1. CASE ReturnError(t) /\ UNCHANGED noting
    BY Zenon, <1>10, <1>e, <2>1 DEF DecisionCallFails, ReturnError
  <2>2. CASE Return(t) /\ UNCHANGED noting
    BY Zenon, <1>10, <1>d, <2>2 DEF DecisionCallFails
  <2>3. CASE pc[t] = "timeoutUpdate" /\ Goto(t, "notifyTimeout")
             /\ UNCHANGED <<loc, inbox, redelivered, noting>>
    BY Zenon, <1>10, <1>a, <1>b, <1>c, <2>3, FlowTable, GoMoves DEF DecisionCallFails
  <2>4. CASE /\ pc[t] = "annotateUpdate" /\ (Goto(t, "channel") \/ Goto(t, "annotate"))
             /\ noting' = [noting EXCEPT ![t] = {}] /\ UNCHANGED <<loc, inbox, redelivered>>
    <3>1. Quiet(t)
      BY Zenon, <1>0, <1>10, <2>4 DEF DecisionCallFails, Quiet, CoordinatorTypeOK
    <3> QED  BY Zenon, <1>10, <1>a, <1>c, <2>4, <3>1, FlowTable, GoMoves DEF DecisionCallFails
  <2> QED  BY Zenon, <1>10, <2>1, <2>2, <2>3, <2>4 DEF DecisionCallFails
<1> QED  BY Zenon, <1>1, <1>2, <1>3, <1>4, <1>5, <1>6, <1>7, <1>8, <1>9, <1>10

LEMMA DecisionEffect ==
    ASSUME DecisionInvariant, NEW t \in Thread, DecisionThread(t) \/ DecisionCallFails(t)
    PROVE  Effect(t)
<1> USE DEF timerVars, memoryVars, busVars, boundVars, annotationVars, recoveryVars
<1>0. /\ EngineTypeOK(HumanLabel) /\ CoordinatorTypeOK /\ loc[t] \in Locals /\ kv[t[2]] \in WorkflowState
      /\ t[2] \in Workflow /\ pc[t] \in HumanLabel /\ faults \in Nat
  BY Zenon, OfThread, RolesOfLabels DEF EngineTypeOK
<1>m. Moves(t) /\ Bucket(t)
  BY Zenon, RequestMoves, AnswerMoves DEF DecisionThread
<1>g. \A label : Goto(t, label) => pc'[t] = label
  BY Zenon, <1>0, HelpersMove
<1>l. Return(t) => pc'[t] = "idle"
  BY Zenon, <1>g DEF Return, Leave
<1>a. ASSUME UNCHANGED <<channel, resolved, resumeCh>>
      PROVE  VerdictMove(t)
  BY Zenon, <1>a DEF VerdictMove
<1>b. ASSUME UNCHANGED <<pending, recovering, booting, faults, crashes, noted>>,
             pc[t] \notin {"index", "respondUpdate", "timeoutUpdate"}
      PROVE  IndexMove(t)
  BY <1>0, <1>b DEF IndexMove
<1>1. CASE /\ \/ RequestUpdate(t) \/ PublishRequest(t) \/ ScheduleDecisionTimeout(t) \/ SpawnWaiter(t)
              \/ ProcessResponse(t) \/ ResumeAfterApproval(t)
  <2>1. UNCHANGED decisionVars /\ faults' = faults /\ crashes' = crashes
    BY Zenon, <1>1 DEF RequestUpdate, PublishRequest, ScheduleDecisionTimeout, SpawnWaiter, ProcessResponse,
       ResumeAfterApproval
  <2>2. pc[t] \notin {"index", "respondUpdate", "timeoutUpdate"}
    BY Zenon, <1>1 DEF RequestUpdate, PublishRequest, ScheduleDecisionTimeout, SpawnWaiter, ProcessResponse,
       ResumeAfterApproval
  <2> QED  BY Zenon, <1>m, <2>1, <2>2, CoordinatorKept DEF Effect
<1>2. CASE IndexDecision(t)
  <2>1. VerdictMove(t)
    BY Zenon, <1>2, <1>a DEF IndexDecision
  <2>2. /\ pc[t] = "index" /\ pending' = pending \cup {<<t[2], loc[t].at>>}
        /\ UNCHANGED <<kv, recovering, booting, faults, crashes>>
    BY Zenon, <1>2 DEF IndexDecision
  <2>3. IndexMove(t)
    BY <1>0, <1>2, <2>2 DEF IndexMove
  <2> QED  BY Zenon, <1>m, <2>1, <2>3 DEF Effect
<1>3. CASE ReadForAnnotation(t) \/ Annotate(t)
  <2>1. pc[t] \in {"annotate", "annotateUpdate"}
        /\ UNCHANGED <<channel, resolved, resumeCh, pending, recovering, booting, faults, crashes, noted>>
    BY Zenon, <1>3 DEF ReadForAnnotation, Annotate
  <2> QED  BY Zenon, <1>a, <1>b, <1>m, <2>1 DEF Effect
<1>4. CASE RegisterChannel(t)
  <2>1. /\ pc[t] = "channel" /\ resumeCh' \subseteq resumeCh \cup {<<t[2], loc[t].at>>}
        /\ UNCHANGED <<channel, resolved, pending, recovering, booting, faults, crashes, noted>>
    BY Zenon, <1>4 DEF RegisterChannel
  <2>2. VerdictMove(t)
    BY Zenon, <2>1 DEF VerdictMove
  <2> QED  BY Zenon, <1>b, <1>m, <2>1, <2>2 DEF Effect
<1>5. CASE WithdrawDecision(t)
  <2>1. /\ pc[t] = "respond" /\ pending' = pending \ {<<t[2], loc[t].msg.step>>}
        /\ UNCHANGED <<kv, loc, channel, resolved, resumeCh, recovering, booting, faults, crashes, noted>>
        /\ pc'[t] = "respondUpdate"
    BY Zenon, <1>5, <1>g DEF WithdrawDecision
  <2>2. \A d \in pending : d \in pending' \/ Withdraws(t, d)
    BY <2>1 DEF Withdraws
  <2>3. IndexMove(t)
    BY <1>0, <2>1, <2>2 DEF IndexMove
  <2> QED  BY Zenon, <1>a, <1>m, <2>1, <2>3 DEF Effect
<1>6. CASE RespondUpdate(t) \/ TimeoutUpdate(t)
  <2>1. UNCHANGED decisionVars /\ faults' = faults /\ crashes' = crashes
    BY Zenon, <1>6 DEF RespondUpdate, TimeoutUpdate
  <2>2. pc[t] \in {"respondUpdate", "timeoutUpdate"}
    BY Zenon, <1>6 DEF RespondUpdate, TimeoutUpdate
  <2>3. Snap(t) = kv[t[2]] => kv'[t[2]].status # "waiting"
    <3> SUFFICES ASSUME Snap(t) = kv[t[2]] PROVE kv'[t[2]].status # "waiting"
      BY Zenon
    <3>1. Unchanged(t) /\ pc[t] \in HoldsState
      BY Zenon, <2>2 DEF Unchanged, HoldsState
    <3>2. CASE RespondUpdate(t)
      <4>1. Update(t, Answered(t)) /\ Answered(t) \in WorkflowState
        BY Zenon, <3>1, <3>2, DecisionWritesTyped DEF RespondUpdate
      <4>2. Answered(t).status # "waiting"
        BY Zenon, <1>0 DEF Answered, WorkflowState
      <4> QED  BY Zenon, <3>1, <4>1, <4>2, UpdateWrites
    <3>3. CASE TimeoutUpdate(t)
      <4> DEFINE s == [Snap(t) EXCEPT !.status = "failed", !.pd = {},
                                      !.err = [code |-> "DECISION_TIMEOUT", step |-> t[3]]]
      <4>1. t[3] \in Nat
        BY Zenon, <3>3, RolesOfLabels, ThreadNames DEF TimeoutUpdate
      <4>2. Update(t, s) /\ s \in WorkflowState
        BY Zenon, <3>1, <3>3, <4>1, DecisionWritesTyped DEF TimeoutUpdate
      <4>3. s.status = "failed"
        BY Zenon, <1>0 DEF WorkflowState
      <4> HIDE DEF s
      <4> QED  BY Zenon, <3>1, <4>2, <4>3, UpdateWrites
    <3> QED  BY Zenon, <1>6, <3>2, <3>3
  <2>4. UNCHANGED <<channel, resolved, resumeCh, pending, recovering, booting, noted>>
    BY Zenon, <2>1 DEF decisionVars
  <2>5. IndexMove(t)
    BY <1>0, <2>1, <2>2, <2>3, <2>4 DEF IndexMove
  <2> QED  BY Zenon, <1>a, <1>m, <2>4, <2>5 DEF Effect
<1>7. CASE ResolveDecision(t)
  <2>1. /\ pc[t] = "resolve" /\ pc'[t] # "resolve"
        /\ resolved' = [resolved EXCEPT ![<<t[2], loc[t].msg.step>>] = Append(@, loc[t].msg.status)]
        /\ UNCHANGED <<kv, resumeCh, pending, recovering, booting, faults, crashes, noted>>
    BY Zenon, <1>7, <1>g, <1>l DEF ResolveDecision, Notify
  <2>2. Publishes(t)
    BY Zenon, <2>1 DEF Publishes
  <2>3. \A d \in HumanStep : channel'[d] = "approved" =>
          channel[d] = "approved" \/ (loc[t].msg.status = "success" /\ d \in resumeCh /\ d[1] = t[2])
    BY Zenon, <1>7 DEF ResolveDecision, Notify, Send, Registered
  <2>4. VerdictMove(t)
    BY Zenon, <2>1, <2>2, <2>3 DEF VerdictMove
  <2> QED  BY Zenon, <1>b, <1>m, <2>1, <2>4 DEF Effect
<1>8. CASE DropChannel(t)
  <2>1. /\ pc[t] = "dropChannel" /\ resumeCh' \subseteq resumeCh
        /\ UNCHANGED <<channel, resolved, pending, recovering, booting, faults, crashes, noted>>
    BY Zenon, <1>8 DEF DropChannel
  <2>2. VerdictMove(t)
    BY Zenon, <2>1 DEF VerdictMove
  <2> QED  BY Zenon, <1>b, <1>m, <2>1, <2>2 DEF Effect
<1>9. CASE DecisionTimeout(t)
  <2>1. /\ pc[t] = "timeout"
        /\ UNCHANGED <<kv, channel, resolved, resumeCh, recovering, booting, faults, crashes, noted>>
    BY Zenon, <1>9 DEF DecisionTimeout
  <2>2. CASE pending' = pending
    BY Zenon, <1>a, <1>b, <1>m, <2>1, <2>2 DEF Effect
  <2>3. CASE Get(t, "timeoutUpdate", loc[t]) /\ pending' = pending \ {<<t[2], t[3]>>}
    <3>1. pc'[t] = "timeoutUpdate" /\ loc'[t] = [loc[t] EXCEPT !.snap = kv[t[2]]]
      BY Zenon, <1>0, <1>g, <2>3, GetKeeps
    <3>2. loc'[t].snap = kv[t[2]]
      BY Zenon, <1>0, <3>1 DEF Locals
    <3>3. \A d \in pending : d \in pending' \/ Withdraws(t, d)
      BY <2>1, <2>3, <3>1, <3>2 DEF Withdraws
    <3>4. IndexMove(t)
      BY <1>0, <2>1, <2>3, <3>3 DEF IndexMove
    <3> QED  BY Zenon, <1>a, <1>m, <2>1, <3>4 DEF Effect
  <2> QED  BY Zenon, <1>9, <2>2, <2>3 DEF DecisionTimeout
<1>10. CASE NotifyTimeout(t)
  <2>1. /\ pc[t] = "notifyTimeout"
        /\ UNCHANGED <<resolved, resumeCh, pending, recovering, booting, faults, crashes, noted>>
        /\ \A d \in HumanStep : channel'[d] = "approved" => channel[d] = "approved"
    BY Zenon, <1>10 DEF NotifyTimeout, Notify, Send
  <2>2. VerdictMove(t)
    BY Zenon, <2>1 DEF VerdictMove
  <2> QED  BY Zenon, <1>b, <1>m, <2>1, <2>2 DEF Effect
<1>11. CASE ReceiveVerdict(t)
  <2>1. /\ pc[t] = "wait" /\ channel' = [channel EXCEPT ![<<t[2], t[3]>>] = "empty"]
        /\ UNCHANGED <<resolved, resumeCh, pending, recovering, booting, faults, crashes, noted>>
    BY Zenon, <1>11 DEF ReceiveVerdict
  <2>2. \A d \in HumanStep : channel'[d] = "approved" => channel[d] = "approved"
    BY Zenon, <1>0, <2>1 DEF CoordinatorTypeOK
  <2>3. VerdictMove(t)
    BY Zenon, <2>1, <2>2 DEF VerdictMove
  <2> QED  BY Zenon, <1>b, <1>m, <2>1, <2>3 DEF Effect
<1>12. CASE DecisionCallFails(t)
  <2>1. /\ UNCHANGED <<kv, pending, noted, resumeCh, channel, resolved, recovering, booting, crashes>>
        /\ faults' = faults + 1 /\ pc[t] # "index"
    BY Zenon, <1>12 DEF DecisionCallFails
  <2>2. faults' # 0 /\ faults' >= faults
    BY <1>0, <2>1
  <2>3. IndexMove(t)
    BY Zenon, <1>0, <2>1, <2>2 DEF IndexMove
  <2> QED  BY Zenon, <1>a, <1>m, <2>1, <2>3 DEF Effect
<1> QED  BY Zenon, <1>1, <1>2, <1>3, <1>4, <1>5, <1>6, <1>7, <1>8, <1>9, <1>10, <1>11, <1>12
         DEF DecisionThread

-----------------------------------------------------------------------------
(* What follows from the effect of a step *)

\* Workflows are never forgotten, never go back, and their results only grow.
LEMMA ResultsGrow ==
    ASSUME DecisionInvariant, TypeOK', NEW t \in Thread, Bucket(t), NEW w \in Workflow
    PROVE  /\ kv[w] \in WorkflowState /\ kv'[w] \in WorkflowState
           /\ kv[w].rev \in Nat /\ (kv'[w] = kv[w] \/ kv'[w].rev = kv[w].rev + 1)
           /\ kv[w].step \in Nat /\ kv'[w].step \in Nat
           /\ kv[w].results \in Seq(StepResult) /\ kv'[w].results \in Seq(StepResult)
           /\ \/ SameResults(w)
              \/ /\ w = t[2] /\ Records(t)
           /\ kv[w].status # "none" => kv'[w].status # "none"
<1>1. /\ kv[w] \in WorkflowState /\ kv'[w] \in WorkflowState
  BY Zenon DEF DecisionInvariant, TypeOK, EngineTypeOK
<1>2. CASE kv'[w] = kv[w]
  BY Zenon, <1>1, <1>2 DEF WorkflowState, SameResults
<1>3. CASE Writes(t, w)
  <2>1. kv'[w].rev = kv[w].rev + 1
    BY Zenon, <1>3 DEF Writes
  <2>2. SameResults(w) \/ (w = t[2] /\ Records(t))
    BY Zenon, <1>3 DEF Writes, Starts, Assigns, Fails, Pauses, MarksOwn, MarksOther, Settles
  <2>3. kv[w].status # "none" => kv'[w].status # "none"
    BY Zenon, <1>3 DEF Writes, Starts, Assigns, Fails, Pauses, MarksOwn, MarksOther, Settles, Records,
       SameStatus,
       Terminal
  <2> QED  BY Zenon, <1>1, <2>1, <2>2, <2>3 DEF WorkflowState
<1> QED  BY Zenon, <1>2, <1>3 DEF Bucket, Writes

\* One more result.
LEMMA RecordsAppend ==
    ASSUME DecisionInvariant, TypeOK', NEW t \in Thread, Bucket(t), Records(t)
    PROVE  LET w == t[2]
               n == Len(kv[w].results)
           IN
           /\ n \in Nat /\ Len(kv'[w].results) = n + 1 /\ kv'[w].step = kv[w].step + 1
           /\ DOMAIN kv[w].results = 1..n /\ DOMAIN kv'[w].results = 1..(n + 1)
           /\ \A i \in 1..n : kv'[w].results[i] = kv[w].results[i]
           /\ kv'[w].results[n + 1].step = loc[t].msg.step
           /\ kv'[w].results[n + 1].by = loc[t].msg.by
           /\ kv[w].step = n
           /\ DOMAIN kv[w].results \subseteq DOMAIN kv'[w].results
           /\ \A i \in DOMAIN kv'[w].results : i \in DOMAIN kv[w].results \/ i = n + 1
           /\ \A i \in DOMAIN kv[w].results : kv'[w].results[i] = kv[w].results[i]
<1> DEFINE w == t[2]
           n == Len(kv[w].results)
           r == [step |-> loc[t].msg.step, by |-> loc[t].msg.by]
<1>1. kv[w].results \in Seq(StepResult) /\ w \in Workflow /\ kv[w].step = n
  BY Zenon, OfThread DEF WorkflowState, Stored
<1>2. r \in StepResult /\ r.step = loc[t].msg.step /\ r.by = loc[t].msg.by
  BY Zenon, OfThread DEF ResultMessage, StepResult
<1>3. kv'[w].results = Append(kv[w].results, r) /\ kv'[w].step = kv[w].step + 1
  BY Zenon DEF Records
<1> HIDE DEF r
<1>4. /\ n \in Nat /\ Len(kv'[w].results) = n + 1
      /\ DOMAIN kv[w].results = 1..n /\ DOMAIN kv'[w].results = 1..(n + 1)
      /\ \A i \in 1..n : kv'[w].results[i] = kv[w].results[i]
      /\ kv'[w].results[n + 1] = r
  BY ONLY <1>1, <1>2, <1>3
<1>5. 1..n \subseteq 1..(n + 1) /\ \A i \in 1..(n + 1) : i \in 1..n \/ i = n + 1
  BY ONLY <1>4
<1> QED  BY Zenon, <1>1, <1>2, <1>3, <1>4, <1>5

LEMMA BucketGrows ==
    ASSUME DecisionInvariant, TypeOK', NEW t \in Thread, Bucket(t), NEW w \in Workflow
    PROVE  /\ kv'[w].step >= kv[w].step
           /\ \A k \in Nat : Reached(w, k) => Reached(w, k)'
           /\ InStep(w)' => InStep(w)
           /\ Contended(w) => Contended(w)'
           /\ Exempt(w) => Exempt(w)'
           /\ \A k \in Nat : Approved(w, k)' => Approved(w, k) \/
                 (w = t[2] /\ Records(t) /\ loc[t].msg.by = "human" /\ loc[t].msg.step = k)
<1>1. \A v \in Workflow : kv[v].status # "none" => kv'[v].status # "none"
  BY Zenon, ResultsGrow
<1>2. kv'[w].step >= kv[w].step
  <2>1. kv[w].step \in Nat /\ (SameResults(w) \/ (w = t[2] /\ Records(t)))
    BY Zenon, ResultsGrow
  <2>2. kv'[w].step = kv[w].step \/ kv'[w].step = kv[w].step + 1
    BY Zenon, <2>1 DEF SameResults, Records
  <2> QED  BY <2>1, <2>2
<1>3. \A k \in Nat : Reached(w, k) => Reached(w, k)'
  BY <1>1, <1>2, ResultsGrow DEF Reached
<1>4. InStep(w)' => InStep(w)
  <2>1. CASE SameResults(w)
    BY Zenon, <2>1 DEF SameResults, InStep
  <2>2. CASE w = t[2] /\ Records(t)
    <3>1. DOMAIN kv[w].results \subseteq DOMAIN kv'[w].results
          /\ \A i \in DOMAIN kv[w].results : kv'[w].results[i] = kv[w].results[i]
      BY Zenon, <2>2, RecordsAppend
    <3> QED  BY Zenon, <3>1 DEF InStep
  <2> QED  BY Zenon, <2>1, <2>2, ResultsGrow
<1>5. Contended(w) => Contended(w)'
  BY Zenon, <1>1, StepNames DEF Contended
<1>6. Exempt(w) => Exempt(w)'
  BY Zenon, <1>4, <1>5 DEF Exempt
<1>7. ASSUME NEW k \in Nat, Approved(w, k)'
      PROVE  Approved(w, k) \/
                (w = t[2] /\ Records(t) /\ loc[t].msg.by = "human" /\ loc[t].msg.step = k)
  <2>1. CASE SameResults(w)
    BY Zenon, <1>7, <2>1 DEF SameResults, Approved
  <2>2. CASE w = t[2] /\ Records(t)
    <3>1. PICK i \in DOMAIN kv'[w].results : kv'[w].results[i].by = "human" /\ kv'[w].results[i].step = k
      BY Zenon, <1>7 DEF Approved
    <3>2. CASE i \in DOMAIN kv[w].results
      BY Zenon, <2>2, <3>1, <3>2, RecordsAppend DEF Approved
    <3>3. CASE i \notin DOMAIN kv[w].results
      <4>1. i = Len(kv[w].results) + 1
        BY Zenon, <2>2, <3>1, <3>3, RecordsAppend
      <4> QED  BY Zenon, <2>2, <3>1, <4>1, RecordsAppend
    <3> QED  BY Zenon, <3>2, <3>3
  <2> QED  BY Zenon, <2>1, <2>2, ResultsGrow
<1> QED  BY Zenon, <1>2, <1>3, <1>4, <1>5, <1>6, <1>7

\* A decision becomes the pending one by the writes of RequestDecision only.
LEMMA PendingWrites ==
    ASSUME DecisionInvariant, TypeOK', NEW t \in Thread, Bucket(t), NEW w \in Workflow, NEW k \in Nat
    PROVE  /\ Asks(kv'[w], k) => Asks(kv[w], k) \/ (w = t[2] /\ k = loc[t].at /\ (Pauses(t) \/ MarksOwn(t)))
           /\ Waits(kv'[w], k) => Waits(kv[w], k) \/ (w = t[2] /\ k = loc[t].at /\ (Pauses(t) \/ MarksOwn(t)))
<1>1. kv[w] \in WorkflowState /\ kv'[w] \in WorkflowState
  BY Zenon, ResultsGrow
<1>2. CASE kv'[w] = kv[w]
  BY Zenon, <1>2 DEF Waits
<1>3. CASE MarksOther(t, w)
  <2>1. \A p \in kv[w].pd : p \in PendingDecision
    BY Zenon, <1>1 DEF WorkflowState
  <2>2. PICK ids : kv'[w].pd = {[p EXCEPT !.conflicts = ids] : p \in kv[w].pd}
    BY Zenon, <1>3 DEF MarksOther
  <2>3. \A p \in kv'[w].pd : \E q \in kv[w].pd : p.step = q.step
    BY Zenon, <2>1, <2>2 DEF PendingDecision
  <2> QED  BY Zenon, <1>3, <2>3 DEF MarksOther, Asks, Waits, SameStatus
<1>4. CASE w = t[2] /\ (Starts(t) \/ Assigns(t) \/ Records(t) \/ Fails(t))
  BY Zenon, <1>4 DEF Starts, Assigns, Records, Fails, SamePending, SameStatus, Asks, Waits
<1>5. CASE w = t[2] /\ Pauses(t)
  BY <1>5 DEF Pauses, Asks, Waits
<1>6. CASE w = t[2] /\ MarksOwn(t)
  BY <1>6 DEF MarksOwn, Asks, Waits
<1>7. CASE w = t[2] /\ Settles(t)
  BY Zenon, <1>7 DEF Settles, Asks, Waits
<1> QED  BY Zenon, <1>2, <1>3, <1>4, <1>5, <1>6, <1>7 DEF Bucket, Writes

\* What a handler has read stays what is stored or becomes outdated.
LEMMA ReadsAge ==
    ASSUME DecisionInvariant, TypeOK', NEW t \in Thread, Bucket(t), NEW w \in Workflow,
           NEW s \in WorkflowState, AsRead(s, w)
    PROVE  AsRead(s, w)'
<1>1. kv[w].rev \in Nat /\ s.rev \in Nat
  BY Zenon, ResultsGrow DEF WorkflowState
<1> QED  BY <1>1, ResultsGrow DEF AsRead

\* Conflicts that have been noted stay noted until a restart.
LEMMA NotesStay ==
    ASSUME DecisionInvariant, TypeOK', NEW t \in Thread, Effect(t), crashes' = 0, NEW d \in HumanStep
    PROVE  crashes = 0 /\ noted[d] \subseteq noted'[d]
<1>1. crashes = 0 /\ (noted' = noted \/ IndexDecision(t))
  BY Zenon DEF Effect, IndexMove
<1> QED  BY Zenon, <1>1 DEF IndexDecision

\* Conflicts that were worth writing are still worth writing.
LEMMA AnnotationsKept ==
    ASSUME DecisionInvariant, TypeOK', NEW t \in Thread, Effect(t), NEW u \in Thread,
           todo'[u] \subseteq todo[u], noting'[u] \subseteq noting[u],
           pc'[u] \in {"annotate", "annotateUpdate"} =>
              pc[u] \in {"annotate", "annotateUpdate"} /\ loc'[u].at = loc[u].at
    PROVE  Annotations(u)'
<1>1. /\ u[2] \in Workflow /\ CoordinatorTypeOK /\ OnTrack(u) /\ Annotations(u)
      /\ Bucket(t) /\ crashes' = crashes /\ \A d \in HumanStep : d[1] \in Workflow
  BY Zenon, OfThread, StepNames DEF Effect, IndexMove
<1>2. \A v \in Workflow : (Contended(v) => Contended(v)') /\ (kv[v].status # "none" => kv'[v].status # "none")
  BY Zenon, <1>1, ResultsGrow, BucketGrows
<1>3. \A d \in HumanStep : crashes' = 0 /\ (crashes = 0 => noted[d] # {}) => noted'[d] # {}
  BY Zenon, NotesStay
<1>4. todo[u] \subseteq HumanStep /\ \A n \in noting[u] : n.d \in HumanStep
  BY <1>1 DEF CoordinatorTypeOK, Note
<1>5. pc[u] \in {"annotate", "annotateUpdate"} => <<u[2], loc[u].at>> \in HumanStep
  BY Zenon, <1>1 DEF OnTrack, AskLabel
<1>6. \A d \in todo[u] : kv'[d[1]].status # "none" /\ Contended(d[1])' /\ (crashes' = 0 => noted'[d] # {})
  BY Zenon, <1>1, <1>2, <1>3, <1>4 DEF Annotations
<1>7. \A n \in noting[u] : kv'[n.d[1]].status # "none" /\ Contended(n.d[1])' /\ (crashes' = 0 => n.ids # {})
  BY Zenon, <1>1, <1>2, <1>4 DEF Annotations
<1>8. pc[u] \in {"annotate", "annotateUpdate"} =>
         Contended(u[2])' /\ (crashes' = 0 => noted'[<<u[2], loc[u].at>>] # {})
  BY Zenon, <1>1, <1>2, <1>3, <1>5 DEF Annotations
<1> QED  BY Zenon, <1>6, <1>7, <1>8 DEF Annotations

\* What holds of a thread that does not move.
LEMMA StillKept ==
    ASSUME DecisionInvariant, TypeOK', NEW t \in Thread, Effect(t), NEW u \in Thread,
           pc'[u] = pc[u], loc'[u] = loc[u], todo'[u] = todo[u], noting'[u] = noting[u]
    PROVE  Local(u)'
<1>0. /\ u[2] \in Workflow /\ loc[u] \in Locals /\ Snap(u) \in WorkflowState /\ loc[u].at \in Nat
      /\ loc[u].msg.step \in Nat /\ CoordinatorTypeOK
      /\ Roles(u) /\ InHand(u) /\ StateRead(u) /\ OnTrack(u) /\ Annotations(u)
  BY Zenon, OfThread
<1>2. Bucket(t) /\ \A d \in HumanStep : d[1] \in Workflow
  BY Zenon, StepNames DEF Effect
<1>3. /\ \A v \in Workflow : kv[v].status # "none" => kv'[v].status # "none"
      /\ \A v \in Workflow : Contended(v) => Contended(v)'
      /\ \A v \in Workflow : \A k \in Nat : Reached(v, k) => Reached(v, k)'
  BY Zenon, <1>2, ResultsGrow, BucketGrows
<1>4. Roles(u)' /\ InHand(u)'
  BY Zenon, <1>0 DEF Roles, InHand, HasResult, HasAnswer
<1>5. StateRead(u)'
  <2>0. Snap(u)' = Snap(u)
    BY Zenon  DEF Snap
  <2>1. \A v \in Workflow : AsRead(Snap(u), v) => AsRead(Snap(u), v)'
    <3>1. \A v \in Workflow : \A s \in WorkflowState : AsRead(s, v) => AsRead(s, v)'
      BY Zenon, <1>2, ReadsAge
    <3> QED  BY Zenon, <1>0, <2>0, <3>1 DEF AsRead
  <2>2. \A n \in noting[u] : n.d[1] \in Workflow
    BY <1>0, <1>2 DEF CoordinatorTypeOK, Note
  <2> QED  BY Zenon, <1>0, <2>0, <2>1, <2>2 DEF StateRead
<1>6. OnTrack(u)'
  <2>1. u[1] \in {"timer", "resume"} => u[3] \in Nat
    BY Zenon, ThreadNames
  <2> QED  BY Zenon, <1>0, <1>3, <2>1 DEF OnTrack, HasResult, HasAnswer
<1>7. Annotations(u)'
  BY Zenon, AnnotationsKept
<1> QED  BY Zenon, <1>4, <1>5, <1>6, <1>7 DEF Local

\* What holds of the other threads, a goroutine just started included.
LEMMA OthersKept ==
    ASSUME DecisionInvariant, TypeOK', NEW t \in Thread, Effect(t), NEW u \in Thread \ {t}
    PROVE  Local(u)'
<1>0. /\ u[2] \in Workflow /\ loc[u] \in Locals /\ Snap(u) \in WorkflowState /\ loc[u].at \in Nat
      /\ loc[u].msg.step \in Nat /\ CoordinatorTypeOK /\ Local(u)
      /\ Roles(u) /\ InHand(u) /\ StateRead(u) /\ OnTrack(u) /\ Annotations(u)
  BY Zenon, OfThread DEF DecisionInvariant
<1>1. loc'[u] = loc[u] /\ todo'[u] = todo[u] /\ noting'[u] = noting[u] /\ (pc'[u] = pc[u] \/ Spawns(t, u))
  BY Zenon DEF Effect, Moves, Frame
<1>2. Bucket(t) /\ \A d \in HumanStep : d[1] \in Workflow
  BY Zenon, StepNames DEF Effect
<1>3. /\ \A v \in Workflow : kv[v].status # "none" => kv'[v].status # "none"
      /\ \A v \in Workflow : Contended(v) => Contended(v)'
      /\ \A v \in Workflow : \A k \in Nat : Reached(v, k) => Reached(v, k)'
  BY Zenon, <1>2, ResultsGrow, BucketGrows
<1>4. CASE pc'[u] = pc[u]
  BY Zenon, <1>1, <1>4, StillKept
<1>5. CASE Spawns(t, u)
  <2>1. /\ pc'[u] = "wait" /\ pc[u] = "idle" /\ u[1] = "resume" /\ u[2] = t[2] /\ u[3] = loc[t].at
        /\ pc[t] = "spawn"
    BY Zenon, <1>5 DEF Spawns, Waiter
  <2>2. Roles(u)' /\ InHand(u)'
    BY Zenon, <1>0, <1>1, <2>1 DEF Roles, InHand, HasResult, HasAnswer, AdvanceLabel, AnswerLabel
  <2>3. StateRead(u)'
    BY Zenon, <2>1 DEF StateRead, HoldsState, AdvanceLabel
  <2>4. OnTrack(u)'
    <3>1. /\ Reached(u[2], u[3]) /\ <<u[2], u[3]>> \in HumanStep /\ u[3] \in Nat
      BY Zenon, <2>1, OfThread DEF OnTrack, DispatchLabel, AskLabel
    <3>2. Reached(u[2], u[3])' /\ kv'[u[2]].status # "none"
      BY Zenon, <1>0, <1>3, <3>1 DEF Reached
    <3> QED  BY Zenon, <2>1, <3>1, <3>2 DEF OnTrack, HasResult, HasAnswer, AdvanceLabel, AnswerLabel,
             DispatchLabel, AskLabel, AgentLabel, UnaskedLabel, BeginLabel
  <2>5. Annotations(u)'
    BY Zenon, <1>1, <2>1, AnnotationsKept
  <2> QED  BY Zenon, <2>2, <2>3, <2>4, <2>5 DEF Local
<1> QED  BY Zenon, <1>1, <1>4, <1>5

\* The messages in hand are of steps of the right kind that have been reached.
LEMMA InHandKept ==
    ASSUME DecisionInvariant, TypeOK', NEW t \in Thread, Effect(t),
           t[1] = "resume" /\ pc'[t] \in AdvanceLabel =>
              \/ pc[t] \in AdvanceLabel /\ loc'[t].msg = loc[t].msg
              \/ loc'[t].msg = [step |-> t[3], status |-> "success", by |-> "human"]
    PROVE  /\ InHand(t)'
           /\ HasResult(t)' \/ HasAnswer(t)' => Reached(t[2], loc[t].msg.step)'
<1>0. /\ t[2] \in Workflow /\ loc[t].msg.step \in Nat /\ InHand(t) /\ OnTrack(t) /\ Stored(t[2])
      /\ Bucket(t) /\ MessageMove(t) /\ AnswerMove(t)
  BY Zenon, OfThread DEF Effect, Moves
<1>1. loc'[t].msg.step \in Nat
  BY Zenon DEF TypeOK, EngineTypeOK, Locals, ResultMessage
<1>2. \A k \in Nat : Reached(t[2], k) => Reached(t[2], k)'
  BY Zenon, <1>0, BucketGrows
<1>3. HasResult(t)' => OfAgent(t[2], loc'[t].msg) /\ Reached(t[2], loc'[t].msg.step)
  <2>1. CASE HasResult(t) /\ loc'[t].msg = loc[t].msg
    BY Zenon, <1>0, <2>1 DEF InHand, OnTrack
  <2>2. CASE loc'[t].msg \in inbox[<<"result", t[2]>>]
    BY Zenon, <1>0, <2>2 DEF DecisionInvariant, UnderWay
  <2> QED  BY Zenon, <1>0, <2>1, <2>2 DEF MessageMove
<1>4. HasAnswer(t)' => <<t[2], loc'[t].msg.step>> \in HumanStep /\ Reached(t[2], loc'[t].msg.step)
  <2>1. CASE HasAnswer(t) /\ loc'[t].msg = loc[t].msg
    BY Zenon, <1>0, <2>1 DEF InHand, OnTrack
  <2>2. CASE Waits(kv[t[2]], loc'[t].msg.step)
    BY Zenon, <1>0, <2>2 DEF Stored, Waits, Asks
  <2> QED  BY Zenon, <1>0, <2>1, <2>2 DEF AnswerMove
<1>5. HasResult(t)' \/ HasAnswer(t)' => Reached(t[2], loc[t].msg.step)'
  BY Zenon, <1>1, <1>2, <1>3, <1>4 DEF Reached
<1> QED  BY Zenon, <1>0, <1>3, <1>4, <1>5 DEF InHand, OfAgent

\* A dispatched step has been reached.
LEMMA DispatchKept ==
    ASSUME DecisionInvariant, TypeOK', NEW t \in Thread, Effect(t), pc'[t] \in DispatchLabel
    PROVE  /\ Reached(t[2], loc[t].at)' /\ loc'[t].at \in Nat
           /\ pc[t] \in DispatchLabel => loc'[t].at = loc[t].at /\ loc'[t].at \in StepIndex(t[2])
<1>0. t[2] \in Workflow /\ loc[t].at \in Nat /\ OnTrack(t) /\ Bucket(t) /\ (Continues(t) \/ Enters(t))
  BY Zenon, OfThread DEF Effect, Moves, DispatchMove
<1>1. CASE Continues(t)
  <2>1. pc[t] \in DispatchLabel /\ loc'[t].at = loc[t].at /\ Reached(t[2], loc[t].at)
        /\ loc[t].at \in StepIndex(t[2])
    BY Zenon, <1>0, <1>1 DEF Continues, OnTrack
  <2>2. \A k \in Nat : Reached(t[2], k) => Reached(t[2], k)'
    BY Zenon, <1>0, BucketGrows
  <2> QED  BY Zenon, <1>0, <2>1, <2>2 DEF Reached
<1>2. CASE Enters(t)
  <2>1. pc[t] \notin DispatchLabel /\ loc'[t].at = kv'[t[2]].step /\ kv'[t[2]].step \in Nat
    BY Zenon, <1>0, <1>2, ResultsGrow DEF Enters
  <2>2. kv'[t[2]].status # "none"
    BY Zenon, <1>2 DEF Enters
  <2> QED  BY <2>1, <2>2 DEF Reached
<1> QED  BY Zenon, <1>0, <1>1, <1>2

\* The ways through a handler.
RoleFlow(from, to) ==
    \/ from \in DispatchLabel /\ to \in DispatchLabel \cup FailLabel
    \/ from \in FailLabel /\ to \in FailLabel
    \/ /\ from \in AdvanceLabel \cup {"result", "resume"}
       /\ to \in AdvanceLabel \cup {"announceComplete"} \cup FailLabel \cup DispatchLabel
    \/ /\ from \in {"fired", "timeout", "timeoutUpdate", "notifyTimeout"}
       /\ to \in {"timeout", "timeoutUpdate", "notifyTimeout", "dropChannel"} \cup FailLabel
    \/ from \in {"response"} \cup AnswerLabel /\ to \in AnswerLabel \cup {"dropChannel"}

LEMMA LeaveLocal ==
    ASSUME DecisionInvariant, TypeOK', NEW t \in Thread, Effect(t), pc'[t] = "idle", loc'[t] = NoLocals,
           todo'[t] = todo[t], noting'[t] = noting[t]
    PROVE  Local(t)'
<1> USE DEF AdvanceLabel, AnswerLabel, DispatchLabel, UnaskedLabel, BeginLabel, AgentLabel, AskLabel, HoldsState
<1>1. Roles(t)' /\ InHand(t)' /\ StateRead(t)' /\ OnTrack(t)'
  BY Zenon DEF Roles, InHand, StateRead, OnTrack, HasResult, HasAnswer
<1>2. Annotations(t)'
  BY Zenon, AnnotationsKept
<1> QED  BY Zenon, <1>1, <1>2 DEF Local

LEMMA GoLocal ==
    ASSUME DecisionInvariant, TypeOK', NEW t \in Thread, Effect(t), RoleFlow(pc[t], pc'[t]),
           StateRead(t)', Annotations(t)',
           t[1] = "resume" /\ pc'[t] \in AdvanceLabel =>
              \/ pc[t] \in AdvanceLabel /\ loc'[t].msg = loc[t].msg
              \/ loc'[t].msg = [step |-> t[3], status |-> "success", by |-> "human"],
           pc'[t] \in DispatchLabel /\ pc[t] \notin DispatchLabel => loc'[t].at \in StepIndex(t[2]),
           pc'[t] \in AgentLabel => pc[t] \in AgentLabel \/ <<t[2], loc'[t].at>> \notin HumanStep,
           pc'[t] \in AskLabel \cup {"requestDecision"} =>
              pc[t] \in AskLabel \cup {"requestDecision"} \/ <<t[2], loc'[t].at>> \in HumanStep
    PROVE  Local(t)'
<1>0. t[2] \in Workflow /\ Roles(t) /\ OnTrack(t) /\ Bucket(t) /\ pc[t] \in HumanLabel
  BY Zenon, OfThread, RolesOfLabels DEF Effect
<1>1. Roles(t)'
  <2>1. pc[t] # "idle" /\ pc'[t] \notin {"idle", "wait", "resume"}
    BY DEF RoleFlow, AdvanceLabel, FailLabel, AnswerLabel, DispatchLabel, UnaskedLabel, BeginLabel,
       AgentLabel, AskLabel
  <2>2. CASE pc[t] \in DispatchLabel /\ pc'[t] \in DispatchLabel \cup FailLabel
    BY Zenon, <2>1, <2>2, RolesOfLabels DEF Roles
  <2>3. CASE pc[t] \in FailLabel /\ pc'[t] \in FailLabel
    BY Zenon, <2>1, <2>3, RolesOfLabels DEF Roles
  <2>4. CASE /\ pc[t] \in AdvanceLabel \cup {"result", "resume"}
             /\ pc'[t] \in AdvanceLabel \cup {"announceComplete"} \cup FailLabel \cup DispatchLabel
    BY Zenon, <2>1, <2>4, RolesOfLabels DEF Roles
  <2>5. CASE /\ pc[t] \in {"fired", "timeout", "timeoutUpdate", "notifyTimeout"}
             /\ pc'[t] \in {"timeout", "timeoutUpdate", "notifyTimeout", "dropChannel"} \cup FailLabel
    BY Zenon, <2>1, <2>5, RolesOfLabels DEF Roles
  <2>6. CASE pc[t] \in {"response"} \cup AnswerLabel /\ pc'[t] \in AnswerLabel \cup {"dropChannel"}
    BY Zenon, <2>1, <2>6, RolesOfLabels DEF Roles
  <2> QED  BY Zenon, <2>2, <2>3, <2>4, <2>5, <2>6 DEF RoleFlow
<1>2. InHand(t)' /\ (HasResult(t)' \/ HasAnswer(t)' => Reached(t[2], loc[t].msg.step)')
  BY Zenon, InHandKept
<1>3. OnTrack(t)'
  <2>1. pc[t] # "idle"
    BY Zenon DEF RoleFlow, AdvanceLabel, FailLabel, AnswerLabel, DispatchLabel, UnaskedLabel,
       BeginLabel, AgentLabel, AskLabel
  <2>2. t[1] # "response" => kv'[t[2]].status # "none"
    BY Zenon, <1>0, <2>1, ResultsGrow DEF OnTrack
  <2>3. t[1] \in {"timer", "resume"} => Reached(t[2], t[3])'
    <3>1. \A k \in Nat : Reached(t[2], k) => Reached(t[2], k)'
      BY Zenon, <1>0, BucketGrows
    <3> QED  BY Zenon, <1>0, <2>1, <3>1, ThreadNames DEF OnTrack
  <2>4. pc'[t] \in DispatchLabel => loc'[t].at \in StepIndex(t[2]) /\ Reached(t[2], loc[t].at)'
    BY Zenon, DispatchKept
  <2>5. pc'[t] \in AgentLabel => <<t[2], loc'[t].at>> \notin HumanStep
    BY Zenon, <1>0, DispatchKept DEF OnTrack, DispatchLabel
  <2>6. pc'[t] \in AskLabel \cup {"requestDecision"} => <<t[2], loc'[t].at>> \in HumanStep
    BY Zenon, <1>0, DispatchKept DEF OnTrack, DispatchLabel, UnaskedLabel
  <2>7. t[1] = "resume" => <<t[2], t[3]>> \in HumanStep
    BY Zenon, <1>0, <2>1 DEF OnTrack
  <2> QED  BY Zenon, <1>2, <2>2, <2>3, <2>4, <2>5, <2>6, <2>7 DEF OnTrack
<1> QED  BY Zenon, <1>1, <1>2, <1>3 DEF Local

\* A handler that goes on without the state of the workflow in hand.
LEMMA PlainLocal ==
    ASSUME DecisionInvariant, TypeOK', NEW t \in Thread, Effect(t), RoleFlow(pc[t], pc'[t]),
           pc'[t] \notin HoldsState \cup {"annotate", "annotateUpdate"},
           pc'[t] \in DispatchLabel => pc[t] \in DispatchLabel,
           pc'[t] \in AgentLabel => pc[t] \in AgentLabel,
           pc'[t] \in AskLabel => pc[t] \in AskLabel \cup {"requestDecision"},
           todo'[t] = todo[t], noting'[t] \subseteq noting[t]
    PROVE  Local(t)'
<1>1. StateRead(t)'
  BY Zenon DEF StateRead, HoldsState, AdvanceLabel
<1>2. Annotations(t)'
  BY Zenon, AnnotationsKept
<1>3. pc'[t] \notin AdvanceLabel /\ pc'[t] # "requestDecision"
  BY Zenon DEF HoldsState
<1> QED  BY Zenon, <1>1, <1>2, <1>3, GoLocal

\* A handler that has just read the state.
LEMMA GetReads ==
    ASSUME DecisionInvariant, TypeOK', NEW t \in Thread, kv' = kv, loc'[t].snap = kv[t[2]]
    PROVE  AsRead(Snap(t), t[2])'
<1>1. kv[t[2]].rev \in Nat
  BY Zenon, OfThread DEF WorkflowState
<1> QED  BY <1>1 DEF AsRead, Snap

\* The state of the workflow stays in hand.
LEMMA StillReads ==
    ASSUME DecisionInvariant, TypeOK', NEW t \in Thread, kv' = kv, loc'[t].snap = loc[t].snap,
           pc[t] \in HoldsState
    PROVE  AsRead(Snap(t), t[2])'
BY Zenon, OfThread DEF StateRead, AsRead, Snap

\* Whoever fails a step it was to dispatch finds the workflow under way.
LEMMA DispatchedIsOpen ==
    ASSUME DecisionInvariant, NEW t \in Thread, pc[t] = "dispatch", kv[t[2]].status = "completed"
    PROVE  ~Stepwise(kv[t[2]])
<1>0. pc[t] \in DispatchLabel
  BY Zenon DEF DispatchLabel, UnaskedLabel, BeginLabel
<1>1. Alone(t, t[2], loc[t].at) /\ pc[t] \in DispatchLabel
  BY Zenon, <1>0, AloneWithStep
<1>2. InStep(t[2]) => kv[t[2]].step = loc[t].at
  BY Zenon, <1>1 DEF Alone
<1>3. loc[t].at \in StepIndex(t[2]) /\ kv[t[2]].step >= Len(StepsOf[t[2]]) /\ t[2] \in Workflow
  BY Zenon, <1>1, OfThread DEF OnTrack, Stored
<1>4. ~InStep(t[2])
  BY <1>2, <1>3, StepNames DEF StepIndex
<1> QED  BY Zenon, <1>4 DEF InStep, Stepwise

LEMMA EngineLocal ==
    ASSUME DecisionInvariant, TypeOK', NEW t \in Thread, EngineStep(t), UNCHANGED decisionVars
    PROVE  Local(t)'
<1> USE DEF timerVars, memoryVars, busVars, boundVars
<1>0. /\ EngineTypeOK(HumanLabel) /\ loc[t] \in Locals /\ Snap(t) \in WorkflowState /\ t[2] \in Workflow
      /\ Effect(t) /\ StateRead(t) /\ OnTrack(t) /\ loc[t].at \in Nat
      /\ todo'[t] = todo[t] /\ noting'[t] \subseteq noting[t] /\ noting'[t] = noting[t]
  BY Zenon, OfThread, EngineEffect DEF decisionVars, annotationVars
<1>g. \A label : Goto(t, label) => pc'[t] = label
  BY Zenon, <1>0, HelpersMove
<1>l. Leave(t) \/ Return(t) \/ ReturnError(t) => Local(t)'
  <2>1. Leave(t) => pc'[t] = "idle" /\ loc'[t] = NoLocals
    BY Zenon, <1>0, <1>g, HelpersMove DEF Leave
  <2> QED  BY Zenon, <1>0, <2>1, LeaveLocal DEF Return, ReturnError
<1>p. ASSUME \/ pc[t] = "stream" /\ pc'[t] = "subscribe"
             \/ pc[t] = "subscribe" /\ pc'[t] = "dispatch"
      PROVE  Local(t)'
  BY Zenon, <1>0, <1>p, PlainLocal
     DEF RoleFlow, HoldsState, AdvanceLabel, DispatchLabel, UnaskedLabel, BeginLabel,
     AgentLabel, AskLabel
<1>1. CASE CreateStream(t) \/ SubscribeResults(t)
  BY Zenon, <1>1, <1>g, <1>p DEF CreateStream, SubscribeResults
<1>2. CASE DispatchStep(t)
  <2> DEFINE l == [loc[t] EXCEPT !.err = [code |-> "AGENT_UNAVAILABLE", step |-> loc[t].at]]
  <2>0. pc[t] = "dispatch" /\ kv' = kv /\ loc[t].at \in StepIndex(t[2])
    BY Zenon, <1>0, <1>2 DEF DispatchStep, OnTrack, DispatchLabel, UnaskedLabel, BeginLabel
  <2>1. <<t[2], loc[t].at>> \in HumanStep <=> Steps(t)[loc[t].at + 1] = "human"
    BY Zenon, <1>0, <2>0, StepNames DEF Steps
  <2>2. l \in Locals /\ l.at = loc[t].at /\ l.msg = loc[t].msg
    <3>1. l \in Locals
      BY Zenon, <1>0, ValuesTyped DEF ErrCode
    <3> QED  BY Zenon, <1>0, <3>1 DEF Locals
  <2>3. \E label \in {"requestDecision", "assign", "fail"} :
           /\ pc'[t] = label /\ loc'[t].snap = kv[t[2]] /\ loc'[t].at = loc[t].at
           /\ label = "requestDecision" => <<t[2], loc[t].at>> \in HumanStep
           /\ label # "requestDecision" => <<t[2], loc[t].at>> \notin HumanStep
    <3>1. ASSUME NEW label, NEW k \in Locals, k.at = loc[t].at, k.msg = loc[t].msg, Get(t, label, k)
          PROVE  pc'[t] = label /\ loc'[t].snap = kv[t[2]] /\ loc'[t].at = loc[t].at
      <4>1. Goto(t, label) /\ KeepsWork(t) /\ loc'[t] = [k EXCEPT !.snap = kv[t[2]]]
        BY <3>1, GetKeeps
      <4> QED  BY Zenon, <1>g, <4>1 DEF KeepsWork, Locals
    <3>2. CASE Steps(t)[loc[t].at + 1] = "human"
      <4>1. Get(t, "requestDecision", loc[t])
        BY Zenon, <1>2, <3>2 DEF DispatchStep
      <4> QED  BY Zenon, <1>0, <2>1, <3>1, <3>2, <4>1
    <3>3. CASE Steps(t)[loc[t].at + 1] # "human"
      <4>1. Get(t, "assign", loc[t]) \/ Get(t, "fail", l)
        BY Zenon, <1>2, <3>3 DEF DispatchStep
      <4> HIDE DEF l
      <4> QED  BY Zenon, <1>0, <2>1, <2>2, <3>1, <3>3, <4>1
    <3> QED  BY Zenon, <3>2, <3>3
  <2>4. AsRead(Snap(t), t[2])'
    BY Zenon, <2>0, <2>3, GetReads
  <2>5. kv[t[2]].status = "completed" => ~Stepwise(kv[t[2]])
    BY Zenon, <2>0, DispatchedIsOpen
  <2>6. Snap(t)' = kv[t[2]]
    BY Zenon, <2>3 DEF Snap
  <2>7. StateRead(t)'
    BY Zenon, <2>3, <2>4, <2>5, <2>6 DEF StateRead, AdvanceLabel
  <2>8. Annotations(t)'
    BY Zenon, <1>0, <2>3, AnnotationsKept
  <2>9. RoleFlow(pc[t], pc'[t])
    BY Zenon, <2>0, <2>3 DEF RoleFlow, FailLabel, DispatchLabel, UnaskedLabel, BeginLabel, AgentLabel
  <2> QED  BY Zenon, <1>0, <2>0, <2>3, <2>7, <2>8, <2>9, GoLocal
           DEF AdvanceLabel, DispatchLabel, UnaskedLabel, BeginLabel, AgentLabel, AskLabel
<1>3. CASE AssignAgent(t) \/ RouteToStream(t) \/ RouteToAgent(t) \/ RouteToMissingAgent(t)
  <2>1. \/ Return(t)
        \/ pc[t] = "assign" /\ pc'[t] = "routeStream"
        \/ pc[t] = "routeStream" /\ pc'[t] = "routeDirect"
        \/ pc[t] = "routeDirect" /\ pc'[t] = "schedule"
    BY Zenon, <1>3, <1>g DEF AssignAgent, RouteToStream, RouteToAgent, RouteToMissingAgent
  <2>2. CASE ~Return(t)
    BY Zenon, <1>0, <2>1, <2>2, PlainLocal
       DEF RoleFlow, HoldsState, AdvanceLabel, DispatchLabel, UnaskedLabel,
       BeginLabel, AgentLabel, AskLabel
  <2> QED  BY Zenon, <1>l, <2>2
<1>4. CASE ScheduleTimeout(t) \/ AnnounceComplete(t) \/ AnnounceFailed(t) \/ CallFails(t)
  BY Zenon, <1>4, <1>l DEF ScheduleTimeout, AnnounceComplete, AnnounceFailed, Announce, CallFails
<1>5. CASE HandleStepResult(t)
  <2>1. CASE Get(t, "advance", loc[t]) /\ kv[t[2]].status \notin Terminal /\ kv' = kv
    <3>0. pc[t] = "result" /\ t[1] = "result"
      BY Zenon, <1>5, RolesOfLabels DEF HandleStepResult
    <3>1. loc'[t] = [loc[t] EXCEPT !.snap = kv[t[2]]] /\ pc'[t] = "advance"
      BY Zenon, <1>0, <1>g, <2>1, GetKeeps
    <3>2. loc'[t].snap = kv[t[2]]
      BY Zenon, <1>0, <3>1 DEF Locals
    <3>3. AsRead(Snap(t), t[2])'
      BY Zenon, <2>1, <3>2, GetReads
    <3>4. StateRead(t)'
      BY Zenon, <2>1, <3>0, <3>1, <3>2, <3>3 DEF StateRead, Snap, AdvanceLabel
    <3>5. Annotations(t)'
      BY Zenon, <1>0, <3>1, AnnotationsKept
    <3> QED  BY Zenon, <1>0, <3>0, <3>1, <3>4, <3>5, GoLocal
             DEF RoleFlow, AdvanceLabel, DispatchLabel, UnaskedLabel, BeginLabel, AgentLabel, AskLabel
  <2> QED  BY Zenon, <1>5, <1>l, <2>1 DEF HandleStepResult
<1>6. CASE AdvanceWorkflow(t)
  <2>0. pc[t] = "advance" /\ kv' = kv /\ t[1] \in {"result", "resume"}
    BY Zenon, <1>6, RolesOfLabels DEF AdvanceWorkflow, AdvanceLabel
  <2>1. /\ loc'[t].snap = loc[t].snap /\ loc'[t].msg = loc[t].msg /\ loc'[t].at = loc[t].at
        /\ \/ pc'[t] = "fail"
           \/ pc'[t] = "advanceUpdate" /\ Snap(t).step + 1 < Len(Steps(t))
           \/ pc'[t] = "completeUpdate" /\ ~(Snap(t).step + 1 < Len(Steps(t)))
    BY <1>0, <1>6, <1>g DEF AdvanceWorkflow, EngineTypeOK, Locals
  <2>2. AsRead(Snap(t), t[2])'
    BY Zenon, <2>0, <2>1, StillReads DEF HoldsState, AdvanceLabel
  <2>3. Snap(t).status \notin Terminal /\ (t[1] = "resume" => Snap(t).status = "running") /\ Snap(t)' = Snap(t)
    BY Zenon, <1>0, <2>0, <2>1 DEF StateRead, AdvanceLabel, Snap
  <2>4. Snap(t).step \in Nat /\ Len(Steps(t)) \in Nat
    BY Zenon, <1>0, OfThread DEF WorkflowState
  <2>5. StateRead(t)'
    BY <2>1, <2>2, <2>3, <2>4 DEF StateRead, AdvanceLabel, HoldsState, Terminal
  <2>6. Annotations(t)'
    BY Zenon, <1>0, <2>1, AnnotationsKept
  <2> QED  BY Zenon, <1>0, <2>0, <2>1, <2>5, <2>6, GoLocal
           DEF RoleFlow, AdvanceLabel, FailLabel, DispatchLabel, UnaskedLabel, BeginLabel, AgentLabel, AskLabel
<1>7. CASE AdvanceUpdate(t)
  <2>1. CASE Goto(t, "dispatch") /\ loc' = [loc EXCEPT ![t].at = Snap(t).step + 1]
    <3>0. pc[t] = "advanceUpdate" /\ pc'[t] = "dispatch" /\ loc'[t].at = Snap(t).step + 1
      BY Zenon, <1>0, <1>7, <1>g, <2>1 DEF AdvanceUpdate, EngineTypeOK, Locals
    <3>1. loc'[t].at \in StepIndex(t[2])
      <4>1. Snap(t).step \in Nat /\ Snap(t).step + 1 < Len(StepsOf[t[2]])
        BY Zenon, <1>0, <3>0, OfThread DEF StateRead, Steps, WorkflowState
      <4>2. Len(StepsOf[t[2]]) \in Nat
        BY Zenon, <1>0, StepNames
      <4> QED  BY ONLY <3>0, <4>1, <4>2 DEF StepIndex
    <3>2. StateRead(t)'
      BY Zenon, <3>0 DEF StateRead, HoldsState, AdvanceLabel
    <3>3. Annotations(t)'
      BY Zenon, <1>0, <3>0, AnnotationsKept
    <3> QED  BY Zenon, <1>0, <3>0, <3>1, <3>2, <3>3, GoLocal
             DEF RoleFlow, AdvanceLabel, DispatchLabel, UnaskedLabel, BeginLabel, AgentLabel, AskLabel
  <2> QED  BY Zenon, <1>7, <1>l, <2>1 DEF AdvanceUpdate
<1>8. CASE CompleteUpdate(t) \/ FailUpdate(t) \/ DeleteTimerEntry(t)
  <2>1. \/ Return(t)
        \/ pc[t] = "completeUpdate" /\ pc'[t] = "announceComplete"
        \/ pc[t] = "failUpdate" /\ pc'[t] = "announceFailed"
        \/ pc[t] = "fired" /\ pc'[t] = "timeout"
    BY Zenon, <1>8, <1>g DEF CompleteUpdate, FailUpdate, DeleteTimerEntry
  <2>2. CASE ~Return(t)
    BY Zenon, <1>0, <2>1, <2>2, PlainLocal
       DEF RoleFlow, HoldsState, AdvanceLabel, FailLabel, DispatchLabel, UnaskedLabel,
       BeginLabel, AgentLabel, AskLabel
  <2> QED  BY Zenon, <1>l, <2>2
<1>9. CASE FailWorkflow(t)
  <2>0. pc[t] = "fail" /\ kv' = kv /\ loc' = loc /\ pc'[t] = "failUpdate"
    BY Zenon, <1>9, <1>g DEF FailWorkflow
  <2>1. AsRead(Snap(t), t[2])' /\ Snap(t)' = Snap(t)
    BY Zenon, <2>0, StillReads DEF HoldsState, Snap
  <2>2. StateRead(t)'
    BY Zenon, <1>0, <2>0, <2>1 DEF StateRead, AdvanceLabel
  <2>3. Annotations(t)'
    BY Zenon, <1>0, <2>0, AnnotationsKept
  <2> QED  BY Zenon, <1>0, <2>0, <2>2, <2>3, GoLocal
           DEF RoleFlow, AdvanceLabel, FailLabel, DispatchLabel, UnaskedLabel, BeginLabel, AgentLabel, AskLabel
<1>10. CASE StepTimeout(t)
  <2> DEFINE l == [loc[t] EXCEPT !.err = [code |-> "STEP_TIMEOUT", step |-> t[3]]]
  <2>1. CASE Get(t, "fail", l) /\ kv[t[2]].status = "running" /\ kv' = kv
    <3>0. pc[t] = "timeout" /\ t[3] \in Nat
      BY Zenon, <1>10, RolesOfLabels, ThreadNames DEF StepTimeout
    <3>1. l \in Locals /\ l.at = loc[t].at /\ l.msg = loc[t].msg
      <4>1. l \in Locals
        BY Zenon, <1>0, <3>0, ValuesTyped DEF ErrCode
      <4> QED  BY Zenon, <1>0, <4>1 DEF Locals
    <3> HIDE DEF l
    <3>2. loc'[t] = [l EXCEPT !.snap = kv[t[2]]] /\ pc'[t] = "fail"
      BY Zenon, <1>g, <2>1, <3>1, GetKeeps
    <3>3. loc'[t].snap = kv[t[2]]
      BY Zenon, <3>1, <3>2 DEF Locals
    <3>4. AsRead(Snap(t), t[2])'
      BY Zenon, <2>1, <3>3, GetReads
    <3>5. StateRead(t)'
      BY Zenon, <2>1, <3>2, <3>3, <3>4 DEF StateRead, Snap, AdvanceLabel
    <3>6. Annotations(t)'
      BY Zenon, <1>0, <3>2, AnnotationsKept
    <3> QED  BY Zenon, <1>0, <3>0, <3>2, <3>5, <3>6, GoLocal
             DEF RoleFlow, AdvanceLabel, FailLabel, DispatchLabel, UnaskedLabel, BeginLabel, AgentLabel, AskLabel
  <2> HIDE DEF l
  <2> QED  BY Zenon, <1>10, <1>l, <2>1 DEF StepTimeout, l
<1> QED  BY Zenon, <1>1, <1>2, <1>3, <1>4, <1>5, <1>6, <1>7, <1>8, <1>9, <1>10 DEF EngineStep, EngineThread

LEMMA DecisionLocal ==
    ASSUME DecisionInvariant, TypeOK', NEW t \in Thread, DecisionThread(t) \/ DecisionCallFails(t)
    PROVE  Local(t)'
<1> USE DEF timerVars, memoryVars, busVars, boundVars, annotationVars, recoveryVars
<1>0. /\ EngineTypeOK(HumanLabel) /\ CoordinatorTypeOK /\ loc[t] \in Locals /\ Snap(t) \in WorkflowState
      /\ t[2] \in Workflow /\ kv[t[2]] \in WorkflowState
      /\ Effect(t) /\ StateRead(t) /\ OnTrack(t) /\ Annotations(t) /\ loc[t].at \in Nat
  BY Zenon, OfThread, DecisionEffect
<1>g. \A label : Goto(t, label) => pc'[t] = label
  BY Zenon, <1>0, HelpersMove
<1>l. (Leave(t) \/ Return(t) \/ ReturnError(t)) /\ UNCHANGED <<todo, noting>> => Local(t)'
  <2>1. Leave(t) => pc'[t] = "idle" /\ loc'[t] = NoLocals
    BY Zenon, <1>0, <1>g, HelpersMove DEF Leave
  <2> QED  BY Zenon, <1>0, <2>1, LeaveLocal DEF Return, ReturnError
<1>1. CASE RequestUpdate(t) \/ PublishRequest(t) \/ RegisterChannel(t) \/ ScheduleDecisionTimeout(t)
  <2>1. \/ ReturnError(t)
        \/ pc[t] = "requestDecision" /\ pc'[t] = "index"
        \/ pc[t] = "channel" /\ pc'[t] = "publishRequest"
        \/ pc[t] = "publishRequest" /\ pc'[t] = "scheduleDecision"
        \/ pc[t] = "scheduleDecision" /\ pc'[t] = "spawn"
    BY Zenon, <1>1, <1>g DEF RequestUpdate, PublishRequest, RegisterChannel, ScheduleDecisionTimeout
  <2>2. UNCHANGED <<todo, noting>>
    BY Zenon, <1>1 DEF RequestUpdate, PublishRequest, RegisterChannel, ScheduleDecisionTimeout, decisionVars
  <2>3. CASE ~ReturnError(t)
    BY Zenon, <1>0, <2>1, <2>2, <2>3, PlainLocal
       DEF RoleFlow, HoldsState, AdvanceLabel, FailLabel, DispatchLabel,
       UnaskedLabel, BeginLabel, AgentLabel, AskLabel
  <2> QED  BY Zenon, <1>l, <2>2, <2>3
<1>2. CASE IndexDecision(t)
  <2> DEFINE d == <<t[2], loc[t].at>>
             conflicting == {e \in pending \ {d} : Overlap(d, e)}
  <2>0. /\ pc[t] = "index" /\ d \in HumanStep /\ d[1] = t[2] /\ loc' = loc /\ kv' = kv
        /\ crashes' = crashes /\ noting' = noting /\ conflicting \subseteq HumanStep
        /\ kv[t[2]].status # "none" /\ todo'[t] = conflicting
        /\ pc'[t] = IF conflicting = {} THEN "channel" ELSE "annotate"
    BY Zenon, <1>0, <1>2, <1>g, RolesOfLabels
       DEF IndexDecision, OnTrack, AskLabel, DispatchLabel, CoordinatorTypeOK, Reached
  <2>1. noted' = [e \in HumanStep |->
                    IF e = d THEN noted[d] \cup conflicting
                    ELSE IF e \in conflicting THEN noted[e] \cup {d}
                    ELSE noted[e]]
    BY Zenon, <1>2 DEF IndexDecision
  <2>2. \A e \in conflicting : kv[e[1]].status # "none" /\ e # d /\ Overlap(d, e) /\ Overlap(e, d)
    BY Zenon DEF DecisionInvariant, UnderWay, Overlap
  <2> HIDE DEF d, conflicting
  <2>3. \A e \in conflicting : kv'[e[1]].status # "none" /\ Contended(e[1])' /\ Contended(t[2])' /\ noted'[e] # {}
    BY Zenon, <2>0, <2>1, <2>2 DEF Contended
  <2>4. conflicting # {} => noted'[d] # {}
    BY Zenon, <2>0, <2>1
  <2>5. \A n \in noting[t] : kv'[n.d[1]].status # "none" /\ Contended(n.d[1])' /\ (crashes' = 0 => n.ids # {})
    BY Zenon, <1>0, <2>0 DEF Annotations, Contended
  <2>6. Annotations(t)'
    BY Zenon, <2>0, <2>3, <2>4, <2>5 DEF Annotations, d
  <2>7. StateRead(t)'
    BY Zenon, <2>0 DEF StateRead, HoldsState, AdvanceLabel
  <2>8. RoleFlow(pc[t], pc'[t]) /\ pc'[t] \notin AdvanceLabel \cup AgentLabel /\ pc[t] \in DispatchLabel \cap AskLabel
    BY Zenon, <2>0 DEF RoleFlow, DispatchLabel, AskLabel, AdvanceLabel, AgentLabel
  <2> QED  BY Zenon, <1>0, <2>6, <2>7, <2>8, GoLocal
<1>3. CASE ReadForAnnotation(t)
  <2>0. pc[t] = "annotate" /\ kv' = kv /\ noted' = noted /\ crashes' = crashes /\ <<t[2], loc[t].at>> \in HumanStep
    BY Zenon, <1>0, <1>3 DEF ReadForAnnotation, OnTrack, AskLabel
  <2>1. PICK d \in HumanStep :
          /\ todo'[t] = todo[t] \ {d} /\ d \in (IF todo[t] = {} THEN {<<t[2], loc[t].at>>} ELSE todo[t])
          /\ \/ UNCHANGED <<pc, loc, noting>>
             \/ /\ Goto(t, "annotateUpdate") /\ loc' = [loc EXCEPT ![t].snap = kv[d[1]]]
                /\ noting' = [noting EXCEPT ![t] = {[d |-> d, ids |-> noted[d]]}]
    BY Zenon, <1>0, <1>3, <2>0 DEF ReadForAnnotation, CoordinatorTypeOK
  <2>2. \A v \in Workflow : Contended(v)' = Contended(v)
    BY Zenon, <2>0 DEF Contended
  <2>3. CASE UNCHANGED <<pc, loc, noting>>
    <3>1. Annotations(t)'
      BY Zenon, <1>0, <2>0, <2>1, <2>3, AnnotationsKept
    <3>2. StateRead(t)'
      BY Zenon, <2>0, <2>3 DEF StateRead, HoldsState, AdvanceLabel
    <3> QED  BY Zenon, <1>0, <2>0, <2>3, <3>1, <3>2, GoLocal
                DEF RoleFlow, DispatchLabel, AskLabel, AdvanceLabel, AgentLabel
  <2>4. CASE /\ Goto(t, "annotateUpdate") /\ loc' = [loc EXCEPT ![t].snap = kv[d[1]]]
             /\ noting' = [noting EXCEPT ![t] = {[d |-> d, ids |-> noted[d]]}]
    <3>1. /\ pc'[t] = "annotateUpdate" /\ loc'[t].snap = kv[d[1]] /\ loc'[t].at = loc[t].at
          /\ noting'[t] = {[d |-> d, ids |-> noted[d]]}
      BY Zenon, <1>0, <1>g, <2>4 DEF EngineTypeOK, Locals, CoordinatorTypeOK
    <3>2. kv[d[1]].status # "none" /\ Contended(d[1]) /\ (crashes = 0 => noted[d] # {})
      BY <1>0, <2>0, <2>1 DEF Annotations, OnTrack, DispatchLabel, AskLabel, Reached
    <3>3. d[1] \in Workflow /\ \A n \in noting'[t] : n.d = d /\ n.ids = noted[d]
      BY <3>1, StepNames
    <3>4. Annotations(t)'
      <4>1. \A e \in todo'[t] : kv'[e[1]].status # "none" /\ Contended(e[1])' /\ (crashes' = 0 => noted'[e] # {})
        BY Zenon, <1>0, <2>0, <2>1 DEF Annotations, Contended
      <4>2. \A n \in noting'[t] : kv'[n.d[1]].status # "none" /\ Contended(n.d[1])' /\ (crashes' = 0 => n.ids # {})
        BY Zenon, <2>0, <2>2, <3>2, <3>3
      <4>3. Contended(t[2])' /\ (crashes' = 0 => noted'[<<t[2], loc'[t].at>>] # {})
        BY Zenon, <1>0, <2>0, <2>2, <3>1 DEF Annotations
      <4> QED  BY Zenon, <4>1, <4>2, <4>3 DEF Annotations
    <3>5. kv[d[1]].rev \in Nat
      BY Zenon, <1>0, <3>3 DEF EngineTypeOK, WorkflowState
    <3>6. StateRead(t)'
      BY <2>0, <3>1, <3>3, <3>5 DEF StateRead, HoldsState, AdvanceLabel, AsRead, Snap
    <3> QED  BY Zenon, <1>0, <2>0, <3>1, <3>4, <3>6, GoLocal
                DEF RoleFlow, DispatchLabel, AskLabel, AdvanceLabel, AgentLabel
  <2> QED  BY Zenon, <2>1, <2>3, <2>4
<1>4. CASE Annotate(t) \/ (DecisionCallFails(t) /\ pc[t] = "annotateUpdate")
  <2>1. /\ pc[t] = "annotateUpdate" /\ pc'[t] \in {"channel", "annotate"} /\ loc' = loc /\ todo' = todo
        /\ noting'[t] = {}
    BY Zenon, <1>0, <1>4, <1>g DEF Annotate, DecisionCallFails, CoordinatorTypeOK
  <2>2. Annotations(t)'
    BY Zenon, <1>0, <2>1, AnnotationsKept
  <2>3. StateRead(t)'
    BY Zenon, <2>1 DEF StateRead, HoldsState, AdvanceLabel
  <2> QED  BY Zenon, <1>0, <2>1, <2>2, <2>3, GoLocal
              DEF RoleFlow, DispatchLabel, AskLabel, AdvanceLabel, AgentLabel
<1>5. CASE SpawnWaiter(t)
  <2>1. PICK x : pc' = [pc EXCEPT ![t] = "idle", ![x] = "wait"] /\ x = <<"resume", t[2], loc[t].at>>
    BY Zenon, <1>5 DEF SpawnWaiter
  <2>2. x # t
    <3>1. pc[t] = "spawn" /\ loc[t].at \in StepIndex(t[2])
      BY Zenon, <1>0, <1>5 DEF SpawnWaiter, OnTrack, DispatchLabel, AskLabel
    <3>2. x \in Thread /\ Waiter(x, t[2], loc[t].at)
      BY Zenon, <1>0, <2>1, <3>1, ThreadNames DEF Waiter
    <3>3. pc[x] = "idle"
      BY Zenon, <3>1, <3>2, AloneWithStep DEF Alone, DispatchLabel, AskLabel
    <3> QED  BY Zenon, <3>1, <3>3
  <2>3. pc'[t] = "idle" /\ loc'[t] = NoLocals /\ todo'[t] = todo[t] /\ noting'[t] = noting[t]
    BY Zenon, <1>0, <1>5, <2>1, <2>2 DEF SpawnWaiter, EngineTypeOK, decisionVars
  <2> QED  BY Zenon, <1>0, <2>3, LeaveLocal
<1>6. CASE ProcessResponse(t)
  <2>1. CASE Waits(kv[t[2]], loc[t].msg.step) /\ Get(t, "respond", loc[t])
    <3>0. pc[t] = "response" /\ kv' = kv /\ todo'[t] = todo[t] /\ noting'[t] = noting[t]
      BY Zenon, <1>6 DEF ProcessResponse, decisionVars
    <3>1. loc'[t] = [loc[t] EXCEPT !.snap = kv[t[2]]] /\ pc'[t] = "respond" /\ KeepsWork(t)
      BY Zenon, <1>0, <1>g, <2>1, GetKeeps
    <3>2. loc'[t].snap = kv[t[2]] /\ loc'[t].msg = loc[t].msg
      BY Zenon, <1>0, <3>1 DEF Locals, KeepsWork
    <3>3. AsRead(Snap(t), t[2])'
      BY Zenon, <3>0, <3>2, GetReads
    <3>4. StateRead(t)'
      BY Zenon, <2>1, <3>1, <3>2, <3>3 DEF StateRead, AdvanceLabel, Snap
    <3>5. Annotations(t)'
      BY Zenon, <1>0, <3>0, <3>1, AnnotationsKept
    <3> QED  BY Zenon, <1>0, <3>0, <3>1, <3>4, <3>5, GoLocal
             DEF RoleFlow, AnswerLabel, AdvanceLabel, DispatchLabel, UnaskedLabel, BeginLabel, AgentLabel, AskLabel
  <2> QED  BY Zenon, <1>6, <1>l, <2>1 DEF ProcessResponse, Waits, decisionVars
<1>7. CASE WithdrawDecision(t)
  <2>0. /\ pc[t] = "respond" /\ kv' = kv /\ loc' = loc /\ pc'[t] = "respondUpdate"
        /\ todo'[t] = todo[t] /\ noting'[t] = noting[t]
    BY Zenon, <1>7, <1>g DEF WithdrawDecision
  <2>1. AsRead(Snap(t), t[2])' /\ Snap(t)' = Snap(t)
    BY Zenon, <2>0, StillReads DEF HoldsState, Snap
  <2>2. StateRead(t)'
    BY Zenon, <1>0, <2>0, <2>1 DEF StateRead, AdvanceLabel
  <2>3. Annotations(t)'
    BY Zenon, <1>0, <2>0, AnnotationsKept
  <2> QED  BY Zenon, <1>0, <2>0, <2>2, <2>3, GoLocal
           DEF RoleFlow, AnswerLabel, AdvanceLabel, DispatchLabel, UnaskedLabel, BeginLabel, AgentLabel, AskLabel
<1>8. CASE RespondUpdate(t) \/ TimeoutUpdate(t) \/ ResolveDecision(t) \/ NotifyTimeout(t)
           \/ (DecisionCallFails(t) /\ pc[t] = "timeoutUpdate")
  <2>1. \/ Return(t)
        \/ pc[t] = "respondUpdate" /\ pc'[t] = "resolve"
        \/ pc[t] = "timeoutUpdate" /\ pc'[t] = "notifyTimeout"
        \/ pc[t] \in {"resolve", "notifyTimeout"} /\ pc'[t] = "dropChannel"
    BY Zenon, <1>8, <1>g DEF RespondUpdate, TimeoutUpdate, ResolveDecision, NotifyTimeout, Notify,
       DecisionCallFails
  <2>2. UNCHANGED <<todo, noting>>
    BY Zenon, <1>8 DEF RespondUpdate, TimeoutUpdate, ResolveDecision, NotifyTimeout, Notify,
       DecisionCallFails, decisionVars
  <2>3. CASE ~Return(t)
    BY Zenon, <1>0, <2>1, <2>2, <2>3, PlainLocal
       DEF RoleFlow, HoldsState, AdvanceLabel, AnswerLabel, FailLabel,
       DispatchLabel, UnaskedLabel, BeginLabel, AgentLabel, AskLabel
  <2> QED  BY Zenon, <1>l, <2>2, <2>3
<1>9. CASE DropChannel(t) \/ (DecisionCallFails(t) /\ pc[t] \notin {"annotateUpdate", "timeoutUpdate"})
  BY Zenon, <1>9, <1>l DEF DropChannel, DecisionCallFails
<1>10. CASE DecisionTimeout(t)
  <2>1. CASE Waits(kv[t[2]], t[3]) /\ Get(t, "timeoutUpdate", loc[t])
    <3>0. pc[t] = "timeout" /\ kv' = kv /\ todo'[t] = todo[t] /\ noting'[t] = noting[t]
      BY Zenon, <1>10 DEF DecisionTimeout
    <3>1. loc'[t] = [loc[t] EXCEPT !.snap = kv[t[2]]] /\ pc'[t] = "timeoutUpdate"
      BY Zenon, <1>0, <1>g, <2>1, GetKeeps
    <3>2. loc'[t].snap = kv[t[2]]
      BY Zenon, <1>0, <3>1 DEF Locals
    <3>3. AsRead(Snap(t), t[2])'
      BY Zenon, <3>0, <3>2, GetReads
    <3>4. StateRead(t)'
      BY Zenon, <2>1, <3>1, <3>2, <3>3 DEF StateRead, AdvanceLabel, Snap
    <3>5. Annotations(t)'
      BY Zenon, <1>0, <3>0, <3>1, AnnotationsKept
    <3> QED  BY Zenon, <1>0, <3>0, <3>1, <3>4, <3>5, GoLocal
             DEF RoleFlow, AdvanceLabel, DispatchLabel, UnaskedLabel, BeginLabel, AgentLabel, AskLabel
  <2> QED  BY Zenon, <1>10, <1>l, <2>1 DEF DecisionTimeout, Waits
<1>11. CASE ReceiveVerdict(t)
  <2>0. pc[t] = "wait" /\ loc' = loc /\ loc[t] = NoLocals /\ UNCHANGED <<kv, todo, noting>> /\ t[1] = "resume"
    BY Zenon, <1>11, OfThread, RolesOfLabels DEF ReceiveVerdict, Roles
  <2>1. CASE pc'[t] = "idle"
    BY Zenon, <1>0, <2>0, <2>1, LeaveLocal
  <2>2. CASE pc'[t] = "resume"
    <3>1. Roles(t)' /\ InHand(t)' /\ StateRead(t)'
      BY Zenon, <2>0, <2>2 DEF Roles, InHand, StateRead, HasResult, HasAnswer, AdvanceLabel,
         AnswerLabel, HoldsState
    <3>2. OnTrack(t)'
      BY Zenon, <1>0, <2>0, <2>2 DEF OnTrack, Reached, HasResult, HasAnswer, AdvanceLabel, AnswerLabel,
         DispatchLabel, UnaskedLabel, BeginLabel, AgentLabel, AskLabel
    <3>3. Annotations(t)'
      BY Zenon, <1>0, <2>0, <2>2, AnnotationsKept
    <3> QED  BY Zenon, <3>1, <3>2, <3>3 DEF Local
  <2> QED  BY Zenon, <1>11, <1>g, <2>1, <2>2 DEF ReceiveVerdict
<1>12. CASE ResumeAfterApproval(t)
  <2> DEFINE m == [step |-> t[3], status |-> "success", by |-> "human"]
             l == [loc[t] EXCEPT !.msg = m]
  <2>0. pc[t] = "resume" /\ UNCHANGED <<kv, todo, noting>> /\ t[1] = "resume" /\ t[3] \in Nat
    BY Zenon, <1>12, RolesOfLabels, ThreadNames DEF ResumeAfterApproval, decisionVars
  <2>1. CASE kv[t[2]].status = "running" /\ Get(t, "advance", l)
    <3>0. m \in ResultMessage
      BY Zenon, <2>0 DEF ResultMessage
    <3>1. pc'[t] = "advance" /\ loc' = [loc EXCEPT ![t] = [l EXCEPT !.snap = kv[t[2]]]]
      BY Zenon, <1>g, <2>1 DEF Get
    <3>2. loc'[t].snap = kv[t[2]] /\ loc'[t].msg = m
      BY Zenon, <1>0, <3>0, <3>1 DEF Locals, EngineTypeOK
    <3>3. AsRead(Snap(t), t[2])'
      BY Zenon, <2>0, <3>2, GetReads
    <3>4. StateRead(t)'
      BY Zenon, <2>1, <3>1, <3>2, <3>3 DEF StateRead, AdvanceLabel, Snap, Terminal
    <3>5. Annotations(t)'
      BY Zenon, <1>0, <2>0, <3>1, AnnotationsKept
    <3> QED  BY Zenon, <1>0, <2>0, <3>1, <3>2, <3>4, <3>5, GoLocal
             DEF RoleFlow, AdvanceLabel, DispatchLabel, UnaskedLabel, BeginLabel, AgentLabel, AskLabel
  <2> HIDE DEF l, m
  <2> QED  BY Zenon, <1>12, <1>l, <2>0, <2>1 DEF ResumeAfterApproval, l, m
<1> QED  BY Zenon, <1>1, <1>2, <1>3, <1>4, <1>5, <1>6, <1>7, <1>8, <1>9, <1>10, <1>11, <1>12
            DEF DecisionThread

\* A step in which no handler moves.
LEMMA StayMoves ==
    ASSUME DecisionInvariant, NEW t \in Thread,
           UNCHANGED <<pc, loc, armed, todo, noting>>, direct' \subseteq direct,
           \A w \in Workflow : \A m \in inbox'[<<"result", w>>] :
              \/ m \in inbox[<<"result", w>>]
              \/ m.by = "agent" /\ \E x \in direct : x.w = w /\ x.step = m.step
    PROVE  Moves(t)
<1>1. Frame(t) /\ DispatchMove(t) /\ WaiterMove(t) /\ TimerMove(t) /\ AnswerMove(t)
  BY Zenon DEF Frame, DispatchMove, Continues, WaiterMove, TimerMove, AnswerMove, HasAnswer
<1>2. HasResult(t)' => HasResult(t) /\ loc'[t].msg = loc[t].msg
  BY Zenon DEF HasResult
<1>3. MessageMove(t)
  BY Zenon, <1>2 DEF MessageMove
<1> QED  BY Zenon, <1>1, <1>3 DEF Moves

\* What comes from outside: starts, results, timers.
LEMMA EnvironmentEffect ==
    ASSUME DecisionInvariant, TypeOK', EngineEnvironment, UNCHANGED decisionVars
    PROVE  \E t \in Thread : Effect(t) /\ Local(t)'
<1> USE DEF timerVars, memoryVars, busVars, boundVars
<1>0. EngineTypeOK(HumanLabel) /\ CoordinatorTypeOK /\ faults \in Nat
      /\ \A u \in Thread : todo'[u] = todo[u] /\ noting'[u] = noting[u]
  BY Zenon DEF DecisionInvariant, TypeOK, EngineTypeOK, decisionVars, annotationVars
<1>1. ASSUME NEW w \in Workflow, HandleWorkflowStart(w)
      PROVE  \E t \in Thread : Effect(t) /\ Local(t)'
  <2> DEFINE t == <<"start", w>>
  <2>0. t \in Thread /\ t[1] = "start" /\ t[2] = w
    BY Zenon, ThreadNames
  <2>1. /\ pc'[t] = "stream" /\ pc[t] = "idle" /\ kv[w].status = "none"
        /\ \A u \in Thread \ {t} : pc'[u] = pc[u]
        /\ UNCHANGED <<loc, armed, direct, inbox, faults, crashes>>
    BY Zenon, <1>0, <1>1, <2>0, HelpersMove DEF HandleWorkflowStart
  <2>2. kv[w] = NoState /\ loc[t] = NoLocals
    BY Zenon, <2>0, <2>1, OfThread DEF Stored, Roles
  <2>3. kv'[w] = [NoState EXCEPT !.status = "running", !.rev = 1]
        /\ \A v \in Workflow \ {w} : kv'[v] = kv[v]
    BY Zenon, <1>0, <1>1 DEF HandleWorkflowStart, EngineTypeOK
  <2>4. /\ kv'[w].status = "running" /\ kv'[w].rev = kv[w].rev + 1
        /\ SameResults(w) /\ SamePending(w) /\ kv'[w].step = 0
    BY <2>2, <2>3 DEF SameResults, SamePending, NoState
  <2> HIDE DEF t
  <2>5. Bucket(t)
    BY Zenon, <2>0, <2>1, <2>3, <2>4 DEF Bucket, Writes, Starts
  <2>6. Frame(t)
    BY Zenon, <1>0, <2>1 DEF Frame
  <2>7. DispatchMove(t)
    BY <2>0, <2>1, <2>2, <2>4 DEF DispatchMove, Enters, NoLocals,
       DispatchLabel, UnaskedLabel, BeginLabel, AgentLabel, AskLabel
  <2>8. WaiterMove(t) /\ TimerMove(t) /\ AnswerMove(t) /\ ~HasResult(t)'
    BY Zenon, <2>0, <2>1 DEF WaiterMove, TimerMove, AnswerMove, HasAnswer, AnswerLabel, HasResult
  <2>9. MessageMove(t)
    BY Zenon, <2>1, <2>8 DEF MessageMove
  <2>10. Effect(t)
    BY Zenon, <2>0, <2>1, <2>5, <2>6, <2>7, <2>8, <2>9, CoordinatorKept DEF Effect, Moves
  <2>11. 0 \in StepIndex(w) /\ loc'[t].at = 0
    BY <1>1, <2>1, <2>2, StepNames DEF HandleWorkflowStart, ValidDefinition, StepIndex, NoLocals
  <2>12. Roles(t)' /\ InHand(t)' /\ StateRead(t)'
    BY Zenon, <2>0, <2>1, <2>2 DEF Roles, InHand, StateRead, HasResult, HasAnswer, AdvanceLabel, AnswerLabel,
       DispatchLabel, UnaskedLabel, BeginLabel, HoldsState
  <2>13. OnTrack(t)'
    BY <2>0, <2>1, <2>4, <2>11 DEF OnTrack, Reached, HasResult, HasAnswer, AdvanceLabel, AnswerLabel,
       DispatchLabel, UnaskedLabel, BeginLabel, AgentLabel, AskLabel
  <2>14. Annotations(t)'
    BY Zenon, <1>0, <2>0, <2>1, <2>10, AnnotationsKept
  <2> QED  BY Zenon, <2>0, <2>10, <2>12, <2>13, <2>14 DEF Local
<1>2. ASSUME NEW w \in Workflow, NEW m \in inbox[<<"result", w>>], ReceiveStepResult(w, m)
      PROVE  \E t \in Thread : Effect(t) /\ Local(t)'
  <2> DEFINE t == <<"result", w>>
  <2>0. t \in Thread /\ t[1] = "result" /\ t[2] = w
    BY Zenon, ThreadNames
  <2>1. /\ pc'[t] = "result" /\ pc[t] = "idle"
        /\ \A u \in Thread \ {t} : pc'[u] = pc[u]
        /\ UNCHANGED <<kv, armed, direct, inbox, faults, crashes>>
    BY Zenon, <1>0, <1>2, <2>0, HelpersMove DEF ReceiveStepResult
  <2>2. loc'[t].msg = m /\ \A u \in Thread \ {t} : loc'[u] = loc[u]
    BY <1>0, <1>2, <2>0 DEF ReceiveStepResult, EngineTypeOK, Locals
  <2>3. m \in inbox[<<"result", t[2]>>]
    BY Zenon, <2>0
  <2> HIDE DEF t
  <2>4. Frame(t) /\ Bucket(t)
    BY Zenon, <1>0, <2>1, <2>2 DEF Frame, Bucket
  <2>5. DispatchMove(t) /\ WaiterMove(t) /\ TimerMove(t) /\ AnswerMove(t)
    BY Zenon, <2>0, <2>1 DEF DispatchMove, WaiterMove, TimerMove, AnswerMove, HasAnswer, AnswerLabel,
       DispatchLabel, UnaskedLabel, BeginLabel, AgentLabel, AskLabel
  <2>6. MessageMove(t)
    BY Zenon, <2>1, <2>2, <2>3 DEF MessageMove
  <2>7. Effect(t)
    BY Zenon, <2>0, <2>1, <2>4, <2>5, <2>6, CoordinatorKept DEF Effect, Moves
  <2>8. Roles(t)' /\ StateRead(t)'
    BY Zenon, <2>0, <2>1 DEF Roles, StateRead, AdvanceLabel, HoldsState
  <2>9. InHand(t)' /\ (HasResult(t)' => Reached(t[2], loc[t].msg.step)')
    BY Zenon, <2>0, <2>7, InHandKept
  <2>10. HasResult(t)'
    BY Zenon, <2>0, <2>1 DEF HasResult
  <2>11. OnTrack(t)'
    BY Zenon, <2>0, <2>1, <2>9, <2>10
       DEF OnTrack, Reached, DispatchLabel, UnaskedLabel, BeginLabel, AgentLabel, AskLabel
  <2>12. Annotations(t)'
    BY Zenon, <1>0, <2>0, <2>1, <2>7, AnnotationsKept
  <2> QED  BY Zenon, <2>0, <2>7, <2>8, <2>9, <2>11, <2>12 DEF Local
<1>3. ASSUME NEW w \in Workflow, NEW k \in StepIndex(w), TimerFires(w, k)
      PROVE  \E t \in Thread : Effect(t) /\ Local(t)'
  <2> DEFINE t == <<"timer", w, k>>
  <2>0. t \in Thread /\ t[1] = "timer" /\ t[2] = w /\ t[3] = k
    BY Zenon, ThreadNames
  <2>1. /\ pc'[t] = "fired" /\ <<w, k>> \in armed /\ armed' = armed \ {<<w, k>>}
        /\ \A u \in Thread \ {t} : pc'[u] = pc[u]
        /\ UNCHANGED <<kv, loc, direct, inbox, faults, crashes>>
    BY <1>0, <1>3, <2>0, HelpersMove DEF TimerFires
  <2>2. pc[t] = "idle"
    BY Zenon, <2>0, <2>1 DEF DecisionInvariant, Related, StartedOnce
  <2> HIDE DEF t
  <2>4. Frame(t) /\ Bucket(t)
    BY Zenon, <1>0, <2>1 DEF Frame, Bucket
  <2>5. DispatchMove(t) /\ WaiterMove(t) /\ AnswerMove(t) /\ ~HasResult(t)'
    BY Zenon, <2>0, <2>1 DEF DispatchMove, WaiterMove, AnswerMove, HasAnswer, AnswerLabel, HasResult,
       DispatchLabel, UnaskedLabel, BeginLabel, AgentLabel, AskLabel
  <2>6. MessageMove(t)
    BY Zenon, <2>1, <2>5 DEF MessageMove
  <2>7. TimerMove(t)
    BY Zenon, <2>0, <2>1 DEF TimerMove
  <2>8. Effect(t)
    BY Zenon, <2>0, <2>1, <2>2, <2>4, <2>5, <2>6, <2>7, CoordinatorKept DEF Effect, Moves
  <2>9. Roles(t)' /\ InHand(t)' /\ StateRead(t)'
    BY Zenon, <2>0, <2>1 DEF Roles, InHand, StateRead, HasResult, HasAnswer, AdvanceLabel, AnswerLabel,
       HoldsState
  <2>10. Reached(t[2], t[3])
    BY Zenon, <2>0, <2>1 DEF DecisionInvariant, UnderWay
  <2>11. OnTrack(t)'
    BY Zenon, <2>0, <2>1, <2>10 DEF OnTrack, Reached, HasResult, HasAnswer, AdvanceLabel, AnswerLabel,
       DispatchLabel, UnaskedLabel, BeginLabel, AgentLabel, AskLabel
  <2>12. Annotations(t)'
    BY Zenon, <1>0, <2>0, <2>1, <2>8, AnnotationsKept
  <2> QED  BY Zenon, <2>0, <2>8, <2>9, <2>11, <2>12 DEF Local
<1>4. ASSUME NEW m \in direct, NEW status \in {"success", "failure"}, AgentReplies(m, status)
      PROVE  \E t \in Thread : Effect(t) /\ Local(t)'
  <2>1. m.w \in Workflow /\ <<"response", m.w>> \in Thread
    BY Zenon, <1>0, ThreadNames DEF EngineTypeOK, StepToAgent
  <2>2. PICK t \in Thread : t = <<"response", m.w>>
    BY Zenon, <2>1
  <2>3. t[1] = "response" /\ UNCHANGED <<kv, pc, loc, armed, faults, crashes>> /\ direct' \subseteq direct
    BY Zenon, <1>4, <2>2 DEF AgentReplies
  <2>4. \A w \in Workflow : \A x \in inbox'[<<"result", w>>] :
          x \in inbox[<<"result", w>>] \/ (w = m.w /\ x.step = m.step /\ x.by = "agent")
    <3> DEFINE r == [step |-> m.step, status |-> status, by |-> "agent"]
    <3>1. r.step = m.step /\ r.by = "agent"
      BY Zenon
    <3>2. inbox' = [inbox EXCEPT ![<<"result", m.w>>] = @ \cup {r}]
      BY Zenon, <1>4 DEF AgentReplies
    <3> HIDE DEF r
    <3>3. \A w \in Workflow : \A x \in inbox'[<<"result", w>>] :
             x \in inbox[<<"result", w>>] \/ (w = m.w /\ x = r)
      BY Zenon, <1>0, <2>1, <3>2, ConsumerNames DEF EngineTypeOK
    <3> QED  BY Zenon, <3>1, <3>3
  <2>5. \A w \in Workflow : \A x \in inbox'[<<"result", w>>] :
              \/ x \in inbox[<<"result", w>>]
              \/ x.by = "agent" /\ \E y \in direct : y.w = w /\ y.step = x.step
    BY Zenon, <2>4
  <2>6. Moves(t)
    BY Zenon, <2>3, <2>5, StayMoves DEF decisionVars, annotationVars
  <2>7. Bucket(t)
    BY Zenon, <2>3 DEF Bucket
  <2>8. VerdictMove(t) /\ IndexMove(t)
    <3>1. VerdictMove(t)
      BY Zenon DEF VerdictMove, decisionVars
    <3>2. IndexMove(t)
      BY <1>0, <2>3 DEF IndexMove, decisionVars, annotationVars, recoveryVars
    <3> QED  BY Zenon, <3>1, <3>2
  <2>9. Effect(t)
    BY Zenon, <2>6, <2>7, <2>8 DEF Effect
  <2> QED  BY Zenon, <1>0, <2>3, <2>9, StillKept
<1>5. ASSUME NEW t \in Thread, CallFails(t) \/ RouteToMissingAgent(t)
      PROVE  \E u \in Thread : Effect(u) /\ Local(u)'
  BY Zenon, <1>5, EngineEffect, EngineLocal DEF EngineStep
<1> QED  BY Zenon, <1>1, <1>2, <1>3, <1>4, <1>5 DEF EngineEnvironment

\* Responses, and recovery, which has something to list when there are workflows.
LEMMA OutsideEffect ==
    ASSUME DecisionInvariant, TypeOK', DecisionEnvironment \/ Recovery, ~Crash, Workflow # {}
    PROVE  \E t \in Thread : Effect(t) /\ Local(t)'
<1> USE DEF timerVars, memoryVars, busVars, boundVars, annotationVars, recoveryVars
<1>0. EngineTypeOK(HumanLabel) /\ CoordinatorTypeOK /\ faults \in Nat
  BY Zenon DEF DecisionInvariant, TypeOK, EngineTypeOK
<1>a. ASSUME NEW t \in Thread, UNCHANGED <<kv, pc, loc, armed, direct, todo, noting, faults, crashes, channel, resumeCh, resolved>>,
             \A w \in Workflow : inbox'[<<"result", w>>] = inbox[<<"result", w>>]
      PROVE  IndexMove(t) => Effect(t) /\ Local(t)'
  <2>1. Moves(t) /\ Bucket(t) /\ VerdictMove(t)
    BY Zenon, <1>a, StayMoves DEF Bucket, VerdictMove
  <2> QED  BY Zenon, <1>a, <2>1, StillKept DEF Effect
<1>1. ASSUME NEW d \in pending, NEW status \in Verdict, OperatorResponds(d, status)
      PROVE  \E t \in Thread : Effect(t) /\ Local(t)'
  <2>1. d[1] \in Workflow /\ <<"response", d[1]>> \in Thread
    BY Zenon, <1>0, ThreadNames, StepNames DEF CoordinatorTypeOK
  <2>2. PICK t \in Thread : t = <<"response", d[1]>>
    BY Zenon, <2>1
  <2>3. \A w \in Workflow : inbox'[<<"result", w>>] = inbox[<<"result", w>>]
    BY Zenon, <1>0, <1>1, ConsumerNames DEF OperatorResponds, EngineTypeOK
  <2>4. UNCHANGED <<kv, pc, loc, armed, direct, todo, noting, faults, crashes, channel, resumeCh, resolved,
                    pending, noted, booting, recovering>>
    BY Zenon, <1>1 DEF OperatorResponds, decisionVars
  <2>5. IndexMove(t)
    BY <1>0, <2>4 DEF IndexMove
  <2> QED  BY Zenon, <1>a, <2>3, <2>4, <2>5
<1>2. ASSUME NEW w \in Workflow, NEW m \in inbox[<<"response", w>>], ReceiveResponse(w, m)
      PROVE  \E t \in Thread : Effect(t) /\ Local(t)'
  <2> DEFINE t == <<"response", w>>
  <2>0. t \in Thread /\ t[1] = "response" /\ t[2] = w
    BY Zenon, ThreadNames
  <2>1. /\ pc'[t] = "response" /\ pc[t] = "idle"
        /\ \A u \in Thread \ {t} : pc'[u] = pc[u]
        /\ UNCHANGED <<kv, armed, direct, inbox, faults, crashes, decisionVars>>
    BY <1>0, <1>2, <2>0, HelpersMove DEF ReceiveResponse
  <2>2. \A u \in Thread \ {t} : loc'[u] = loc[u] /\ todo'[u] = todo[u] /\ noting'[u] = noting[u]
    BY Zenon, <1>0, <1>2, <2>0 DEF ReceiveResponse, EngineTypeOK, Locals, decisionVars
  <2> HIDE DEF t
  <2>4. Frame(t) /\ Bucket(t)
    BY Zenon, <1>0, <2>1, <2>2 DEF Frame, Bucket
  <2>5. DispatchMove(t) /\ WaiterMove(t) /\ TimerMove(t) /\ AnswerMove(t) /\ ~HasResult(t)'
    BY Zenon, <2>0, <2>1 DEF DispatchMove, WaiterMove, TimerMove, AnswerMove, HasAnswer, AnswerLabel,
       HasResult,
       DispatchLabel, UnaskedLabel, BeginLabel, AgentLabel, AskLabel
  <2>6. MessageMove(t)
    BY Zenon, <2>1, <2>5 DEF MessageMove
  <2>7. Effect(t)
    BY Zenon, <2>0, <2>1, <2>4, <2>5, <2>6, CoordinatorKept DEF Effect, Moves
  <2>8. Roles(t)' /\ InHand(t)' /\ StateRead(t)' /\ OnTrack(t)'
    BY Zenon, <2>0, <2>1 DEF Roles, InHand, StateRead, HasResult, HasAnswer, AdvanceLabel, AnswerLabel,
       HoldsState,
       OnTrack, DispatchLabel, UnaskedLabel, BeginLabel, AgentLabel, AskLabel
  <2>9. todo'[t] = todo[t] /\ noting'[t] = noting[t]
    BY Zenon, <2>1 DEF decisionVars
  <2>10. Annotations(t)'
    BY Zenon, <2>0, <2>1, <2>7, <2>9, AnnotationsKept
  <2> QED  BY Zenon, <2>0, <2>7, <2>8, <2>10 DEF Local
<1>3. ASSUME NEW t \in Thread, DecisionCallFails(t)
      PROVE  \E u \in Thread : Effect(u) /\ Local(u)'
  BY Zenon, <1>3, DecisionEffect, DecisionLocal
<1>4. CASE ListForRecovery
  <2>1. PICK t \in Thread : t[1] = "response"
    BY Zenon, ThreadNames
  <2>2. UNCHANGED <<kv, pc, loc, armed, direct, inbox, todo, noting, faults, crashes, channel, resumeCh, resolved,
                    pending, noted>>
        /\ booting /\ ~booting'
    BY Zenon, <1>4 DEF ListForRecovery, engineVars
  <2>3. \A w \in Workflow : \A p \in kv[w].pd :
           kv[w].status = "waiting" => \E n \in recovering' : n.d = <<w, p.step>>
    <3> SUFFICES ASSUME NEW w \in Workflow, NEW p \in kv[w].pd, kv[w].status = "waiting"
                 PROVE  \E n \in recovering' : n.d = <<w, p.step>>
      BY Zenon
    <3> DEFINE Listed(v) == {[d |-> <<v, q.step>>, ids |-> q.conflicts] : q \in kv[v].pd}
    <3>1. recovering' = UNION {Listed(v) : v \in {x \in Workflow : kv[x].status = "waiting"}}
      BY Zenon, <1>4 DEF ListForRecovery
    <3>2. [d |-> <<w, p.step>>, ids |-> p.conflicts] \in Listed(w)
      BY Zenon
    <3>3. [d |-> <<w, p.step>>, ids |-> p.conflicts] \in recovering'
      BY Zenon, <3>1, <3>2
    <3> QED  BY Zenon, <3>3
  <2>4. \A n \in recovering' : n.d[1] \in Workflow /\ kv[n.d[1]].status = "waiting"
    BY <1>4 DEF ListForRecovery
  <2>5. recovering = {}
    BY Zenon, <2>2 DEF DecisionInvariant, UnderWay
  <2>6. IndexMove(t)
    <3>1. pc'[t] = pc[t] /\ loc'[t] = loc[t] /\ faults' >= faults
      BY <1>0, <2>2
    <3>2. \A n \in recovering : n \in recovering' \/ n.d \in pending'
      BY Zenon, <2>5
    <3> QED  BY Zenon, <1>0, <2>2, <2>3, <2>4, <3>1, <3>2 DEF IndexMove
  <2> QED  BY Zenon, <1>a, <2>2, <2>6
<1>5. ASSUME NEW n \in recovering, RecoverDecision(n)
      PROVE  \E t \in Thread : Effect(t) /\ Local(t)'
  <2>1. PICK t \in Thread : t[1] = "response"
    BY Zenon, ThreadNames
  <2>2. UNCHANGED <<kv, pc, loc, armed, direct, inbox, todo, noting, faults, crashes, channel, resumeCh, resolved,
                    booting>>
        /\ pending' = pending \cup {n.d} /\ recovering' = recovering \ {n}
    BY Zenon, <1>5 DEF RecoverDecision, engineVars
  <2>3. crashes # 0
    BY Zenon DEF DecisionInvariant, UnderWay
  <2>4. IndexMove(t)
    BY <1>0, <2>2, <2>3 DEF IndexMove
  <2> QED  BY Zenon, <1>a, <2>2, <2>4
<1> QED  BY Zenon, <1>1, <1>2, <1>3, <1>4, <1>5 DEF DecisionEnvironment, Recovery

\* Every step but a crash is the step of a thread.
LEMMA StepEffect ==
    ASSUME DecisionInvariant, TypeOK', Next, ~Crash, Workflow # {}
    PROVE  \E t \in Thread : Effect(t) /\ Local(t)'
BY Zenon, EngineEffect, DecisionEffect, EngineLocal, DecisionLocal, EnvironmentEffect, OutsideEffect
DEF Next, ThreadStep, EngineStep

-----------------------------------------------------------------------------
(* Bucket, messages, timers and index after a step *)

LEMMA StoredKept ==
    ASSUME DecisionInvariant, TypeOK', NEW t \in Thread, Effect(t), NEW w \in Workflow
    PROVE  Stored(w)'
<1>0. /\ Bucket(t) /\ Stored(w) /\ t[2] \in Workflow /\ Roles(t) /\ OnTrack(t) /\ InHand(t) /\ CoordinatorTypeOK
      /\ loc[t].at \in Nat /\ loc[t].msg.step \in Nat
  BY Zenon, OfThread DEF Effect, DecisionInvariant
<1>1. /\ kv[w] \in WorkflowState /\ kv'[w] \in WorkflowState /\ kv[w].step \in Nat /\ kv'[w].step \in Nat
      /\ SameResults(w) \/ (w = t[2] /\ Records(t))
      /\ \A k \in Nat : Reached(w, k) => Reached(w, k)'
  BY Zenon, <1>0, ResultsGrow, BucketGrows
<1>a. CASE kv'[w] = kv[w]
  BY Zenon, <1>0, <1>a DEF Stored, Reached
<1>b. CASE Writes(t, w)
  <2>1. kv'[w].status # "none"
    <3>1. CASE Assigns(t) \/ Records(t) \/ MarksOwn(t)
      BY Zenon, <1>0, <1>b, <3>1
         DEF Writes, Assigns, Records, MarksOwn, MarksOther, OnTrack, Roles, SameStatus,
         DispatchLabel, AgentLabel, AskLabel, AdvanceLabel, FailLabel, AnswerLabel, Reached, Settles, Pauses, Fails,
         Starts, UnaskedLabel, BeginLabel
    <3> QED  BY Zenon, <1>b, <3>1 DEF Writes, Starts, Fails, Pauses, Settles, MarksOther, SameStatus
  <2>2. kv'[w].step = Len(kv'[w].results)
    <3>1. CASE SameResults(w)
      BY Zenon, <1>0, <3>1 DEF SameResults, Stored
    <3>2. CASE w = t[2] /\ Records(t)
      <4>1. Len(kv'[w].results) = Len(kv[w].results) + 1 /\ kv'[w].step = kv[w].step + 1
            /\ kv[w].step = Len(kv[w].results)
        BY Zenon, <1>0, <3>2, RecordsAppend
      <4> QED  BY ONLY Zenon, <4>1
    <3> QED  BY ONLY Zenon, <1>1, <3>1, <3>2
  <2>3. kv'[w].status = "completed" => kv'[w].step >= Len(StepsOf[w])
    <3>0. Len(StepsOf[w]) \in Nat
      BY Zenon, StepNames
    <3>1. kv'[w].status = "completed" =>
             SameStatus(w) \/ kv'[w].step >= Len(StepsOf[w])
      BY Zenon, <1>b DEF Writes, Starts, Assigns, Records, Fails, Pauses, MarksOwn, MarksOther, Settles
    <3>2. kv'[w].step >= kv[w].step
      BY Zenon, <1>0, BucketGrows
    <3>3. kv'[w].status = "completed" /\ SameStatus(w) => kv[w].step >= Len(StepsOf[w])
      BY Zenon, <1>0 DEF Stored, SameStatus
    <3> QED  BY ONLY <1>1, <3>0, <3>1, <3>2, <3>3
  <2>4. \A p \in kv'[w].pd :
           <<w, p.step>> \in HumanStep /\ p.conflicts \subseteq HumanStep /\ p.step \in Nat /\ Reached(w, p.step)
    <3>0. \A p \in kv[w].pd : p \in PendingDecision /\ p.step \in Nat
      BY Zenon, <1>1 DEF WorkflowState, PendingDecision
    <3>1. CASE SamePending(w)
      BY Zenon, <1>0, <3>0, <3>1 DEF SamePending, Stored
    <3>2. CASE w = t[2] /\ (Pauses(t) \/ MarksOwn(t))
      <4>1. \A p \in kv'[w].pd : p.step = loc[t].at /\ p.conflicts \subseteq HumanStep
        <5>1. <<w, loc[t].at>> \in HumanStep
          BY Zenon, <1>0, <3>2 DEF Pauses, MarksOwn, OnTrack, AskLabel
        <5>2. noted[<<w, loc[t].at>>] \subseteq HumanStep
          BY Zenon, <1>0, <5>1 DEF CoordinatorTypeOK
        <5> QED  BY <3>2, <5>2 DEF Pauses, MarksOwn
      <4>2. <<w, loc[t].at>> \in HumanStep /\ Reached(w, loc[t].at)
        BY Zenon, <1>0, <3>2 DEF Pauses, MarksOwn, OnTrack, AskLabel, DispatchLabel, UnaskedLabel
      <4> QED  BY Zenon, <1>0, <4>1, <4>2
    <3>3. CASE MarksOther(t, w)
      <4>1. PICK ids \in SUBSET HumanStep : kv'[w].pd = {[p EXCEPT !.conflicts = ids] : p \in kv[w].pd}
        BY Zenon, <3>3 DEF MarksOther
      <4>2. \A p \in kv'[w].pd : p.conflicts = ids /\ \E q \in kv[w].pd : p.step = q.step
        BY Zenon, <3>0, <4>1 DEF PendingDecision
      <4> QED  BY Zenon, <1>0, <3>0, <4>2 DEF Stored
    <3>4. CASE kv'[w].pd = {}
      BY Zenon, <3>4
    <3> QED  BY Zenon, <1>b, <3>1, <3>2, <3>3, <3>4 DEF Writes, Starts, Assigns, Records, Fails, Settles
  <2>5. \A i \in DOMAIN kv'[w].results :
           /\ kv'[w].results[i].by = "human" <=> <<w, kv'[w].results[i].step>> \in HumanStep
           /\ kv'[w].results[i].step \in Nat /\ Reached(w, kv'[w].results[i].step)
    <3>0. \A i \in DOMAIN kv[w].results : kv[w].results[i].step \in Nat
      <4>1. kv[w].results \in Seq(StepResult)
        BY Zenon, <1>0, ResultsGrow
      <4>2. \A i \in DOMAIN kv[w].results : kv[w].results[i] \in StepResult
        BY <4>1
      <4> QED  BY Zenon, <4>2 DEF StepResult
    <3>1. CASE SameResults(w)
      BY Zenon, <1>0, <3>0, <3>1 DEF SameResults, Stored
    <3>2. CASE w = t[2] /\ Records(t)
      <4> DEFINE n == Len(kv[w].results)
      <4>1. /\ \A i \in DOMAIN kv'[w].results : i \in DOMAIN kv[w].results \/ i = n + 1
            /\ \A i \in DOMAIN kv[w].results : kv'[w].results[i] = kv[w].results[i]
            /\ kv'[w].results[n + 1].step = loc[t].msg.step
            /\ kv'[w].results[n + 1].by = loc[t].msg.by
        BY Zenon, <1>0, <3>2, RecordsAppend
      <4>2. /\ loc[t].msg.by = "human" <=> <<w, loc[t].msg.step>> \in HumanStep
            /\ Reached(w, loc[t].msg.step)
        <5>1. pc[t] \in AdvanceLabel /\ t[1] \in {"result", "resume"} /\ pc[t] # "idle"
          BY Zenon, <3>2, RolesOfLabels DEF Records, AdvanceLabel
        <5>2. CASE t[1] = "result"
          BY Zenon, <1>0, <3>2, <5>1, <5>2 DEF InHand, OnTrack, HasResult, OfAgent
        <5>3. CASE t[1] = "resume"
          BY <1>0, <3>2, <5>1, <5>3 DEF InHand, OnTrack
        <5> QED  BY Zenon, <5>1, <5>2, <5>3
      <4> HIDE DEF n
      <4> QED  BY Zenon, <1>0, <3>0, <4>1, <4>2 DEF Stored
    <3> QED  BY Zenon, <1>1, <3>1, <3>2
  <2>6. \A k \in Nat : Reached(w, k) => kv'[w].status # "none" /\ k <= kv'[w].step
    BY Zenon, <1>1 DEF Reached
  <2>7. /\ \A p \in kv'[w].pd : kv'[w].status # "none" /\ p.step <= kv'[w].step
        /\ \A i \in DOMAIN kv'[w].results : kv'[w].status # "none" /\ kv'[w].results[i].step <= kv'[w].step
    BY Zenon, <2>4, <2>5, <2>6
  <2> QED  BY Zenon, <2>1, <2>2, <2>3, <2>4, <2>5, <2>7 DEF Stored, Reached
<1> QED  BY Zenon, <1>0, <1>a, <1>b DEF Bucket, Writes

LEMMA UnderWayKept ==
    ASSUME DecisionInvariant, TypeOK', NEW t \in Thread, Effect(t)
    PROVE  UnderWay'
<1>0. /\ UnderWay /\ Bucket(t) /\ MessageMove(t) /\ TimerMove(t) /\ IndexMove(t) /\ VerdictMove(t)
      /\ t[2] \in Workflow /\ OnTrack(t) /\ InHand(t) /\ CoordinatorTypeOK
      /\ loc[t].at \in Nat /\ loc[t].msg.step \in Nat
  BY Zenon, OfThread DEF Effect, Moves, DecisionInvariant
<1>1. /\ \A v \in Workflow : kv[v].status # "none" => kv'[v].status # "none"
      /\ \A v \in Workflow : \A k \in Nat : Reached(v, k) => kv'[v].status # "none" /\ k <= kv'[v].step
  <2>1. \A v \in Workflow : \A k \in Nat : Reached(v, k) => Reached(v, k)'
    BY Zenon, <1>0, BucketGrows
  <2> QED  BY Zenon, <1>0, <2>1, ResultsGrow DEF Reached
<1>a. pc[t] \in DispatchLabel => Reached(t[2], loc[t].at) /\ loc[t].at \in StepIndex(t[2])
  BY Zenon, <1>0 DEF OnTrack
<1>2. \A m \in direct' : <<m.w, m.step>> \notin HumanStep /\ Reached(m.w, m.step)'
  <2> SUFFICES ASSUME NEW m \in direct'
               PROVE  <<m.w, m.step>> \notin HumanStep /\ Reached(m.w, m.step)'
    BY Zenon
  <2>1. m.w \in Workflow /\ m.step \in Nat
    BY Zenon, StepNames DEF TypeOK, EngineTypeOK, StepToAgent
  <2>2. <<m.w, m.step>> \notin HumanStep /\ Reached(m.w, m.step)
    <3>1. CASE m \in direct
      BY Zenon, <1>0, <3>1 DEF UnderWay
    <3>2. CASE m.w = t[2] /\ m.step = loc[t].at /\ pc[t] = "routeDirect"
      BY Zenon, <1>0, <1>a, <3>2 DEF OnTrack, AgentLabel, DispatchLabel
    <3> QED  BY Zenon, <1>0, <3>1, <3>2 DEF MessageMove
  <2> QED  BY Zenon, <1>1, <2>1, <2>2 DEF Reached
<1>3. \A w \in Workflow : \A m \in inbox'[<<"result", w>>] : OfAgent(w, m) /\ Reached(w, m.step)'
  <2> SUFFICES ASSUME NEW w \in Workflow, NEW m \in inbox'[<<"result", w>>]
               PROVE  OfAgent(w, m) /\ Reached(w, m.step)'
    BY Zenon
  <2>1. m.step \in Nat
    <3>1. inbox' \in [Consumer -> SUBSET ResultMessage] /\ <<"result", w>> \in Consumer
      BY Zenon, ConsumerNames DEF TypeOK, EngineTypeOK
    <3>2. m \in ResultMessage
      BY Zenon, <3>1
    <3> QED  BY Zenon, <3>2 DEF ResultMessage
  <2>2. OfAgent(w, m) /\ Reached(w, m.step)
    BY <1>0 DEF MessageMove, UnderWay, OfAgent
  <2> QED  BY Zenon, <1>1, <2>1, <2>2 DEF Reached
<1>4. \A x \in armed' : x[2] \in StepIndex(x[1]) /\ Reached(x[1], x[2])'
  <2> SUFFICES ASSUME NEW x \in armed'
               PROVE  x[2] \in StepIndex(x[1]) /\ Reached(x[1], x[2])'
    BY Zenon
  <2>1. x[1] \in Workflow /\ x[2] \in Nat
    BY Zenon DEF TypeOK, EngineTypeOK, Timer
  <2>2. x[2] \in StepIndex(x[1]) /\ Reached(x[1], x[2])
    <3>1. CASE x \in armed
      BY Zenon, <1>0, <3>1 DEF UnderWay
    <3>2. CASE x = <<t[2], loc[t].at>> /\ pc[t] \in {"schedule", "scheduleDecision"}
      BY Zenon, <1>a, <3>2 DEF DispatchLabel, AgentLabel, AskLabel
    <3> QED  BY Zenon, <1>0, <3>1, <3>2 DEF TimerMove
  <2> QED  BY Zenon, <1>1, <2>1, <2>2 DEF Reached
<1>b. pc[t] = "index" => kv[t[2]].status # "none"
  BY Zenon, <1>a DEF DispatchLabel, AskLabel, Reached
<1>5. \A d \in pending' : kv'[d[1]].status # "none"
  <2> SUFFICES ASSUME NEW d \in pending'
               PROVE  kv'[d[1]].status # "none"
    BY Zenon
  <2>1. d[1] \in Workflow
    BY Zenon, StepNames DEF TypeOK, CoordinatorTypeOK
  <2>2. kv[d[1]].status # "none"
    <3>1. CASE d \in pending
      BY Zenon, <1>0, <3>1 DEF UnderWay
    <3>2. CASE pc[t] = "index" /\ d = <<t[2], loc[t].at>>
      BY Zenon, <1>b, <3>2
    <3>3. CASE \E n \in recovering : n.d = d
      BY Zenon, <1>0, <3>3 DEF UnderWay
    <3> QED  BY Zenon, <1>0, <3>1, <3>2, <3>3 DEF IndexMove
  <2> QED  BY Zenon, <1>1, <2>1, <2>2
<1>6. \A n \in recovering' : kv'[n.d[1]].status # "none"
  <2> SUFFICES ASSUME NEW n \in recovering'
               PROVE  kv'[n.d[1]].status # "none"
    BY Zenon
  <2>1. n.d[1] \in Workflow
    BY Zenon, StepNames DEF TypeOK, CoordinatorTypeOK, Note
  <2>2. kv[n.d[1]].status # "none"
    BY Zenon, <1>0 DEF IndexMove, UnderWay
  <2> QED  BY Zenon, <1>1, <2>1, <2>2
<1>7. \A d \in resumeCh' : Reached(d[1], d[2])'
  <2> SUFFICES ASSUME NEW d \in resumeCh'
               PROVE  Reached(d[1], d[2])'
    BY Zenon
  <2>1. d[1] \in Workflow /\ d[2] \in Nat
    BY Zenon, StepNames DEF TypeOK, CoordinatorTypeOK
  <2>2. Reached(d[1], d[2])
    <3>1. CASE d \in resumeCh
      BY Zenon, <1>0, <3>1 DEF UnderWay
    <3>2. CASE pc[t] = "channel" /\ d = <<t[2], loc[t].at>>
      BY Zenon, <1>a, <3>2 DEF DispatchLabel, AskLabel
    <3> QED  BY Zenon, <1>0, <3>1, <3>2 DEF VerdictMove
  <2> QED  BY Zenon, <1>1, <2>1, <2>2 DEF Reached
<1>8. \A d \in HumanStep : resolved'[d] # <<>> => Reached(d[1], d[2])'
  <2> SUFFICES ASSUME NEW d \in HumanStep, resolved'[d] # <<>>
               PROVE  Reached(d[1], d[2])'
    BY Zenon
  <2>1. d[1] \in Workflow /\ d[2] \in Nat
    BY Zenon, StepNames
  <2>2. Reached(d[1], d[2])
    <3>1. CASE resolved[d] # <<>>
      BY Zenon, <1>0, <3>1 DEF UnderWay
    <3>2. CASE pc[t] = "resolve" /\ d = <<t[2], loc[t].msg.step>>
      BY Zenon, <1>0, <3>2 DEF OnTrack, HasAnswer, AnswerLabel
    <3>3. resolved' = resolved \/ Publishes(t)
      BY Zenon, <1>0 DEF VerdictMove
    <3> QED  BY Zenon, <1>0, <3>1, <3>2, <3>3 DEF Publishes, CoordinatorTypeOK
  <2> QED  BY Zenon, <1>1, <2>1, <2>2 DEF Reached
<1>9. (crashes' = 0 => ~booting' /\ recovering' = {}) /\ (booting' => recovering' = {})
  BY Zenon, <1>0 DEF IndexMove, UnderWay
<1> QED  BY Zenon, <1>2, <1>3, <1>4, <1>5, <1>6, <1>7, <1>8, <1>9 DEF UnderWay

-----------------------------------------------------------------------------
(* Who knows of a step *)

\* Nobody knows of a step that has not been reached.
LEMMA KnownIsReached ==
    ASSUME DecisionInvariant, NEW w \in Workflow, NEW k \in Nat
    PROVE  /\ \A u \in Thread : Dispatches(u, w, k) => Reached(w, k)
           /\ Approved(w, k) => Reached(w, k)
           /\ \A u \in Thread : Waiter(u, w, k) /\ pc[u] # "idle" => Reached(w, k)
           /\ \A u \in Thread : TimerOf(u, w, k) /\ pc[u] # "idle" => Reached(w, k)
           /\ <<w, k>> \in armed => Reached(w, k)
           /\ Sent(w, k) => Reached(w, k)
           /\ Asks(kv[w], k) => Reached(w, k)
           /\ \A u \in Thread : Answers(u, w, k) => Reached(w, k)
           /\ <<w, k>> \in HumanStep /\ resolved[<<w, k>>] # <<>> => Reached(w, k)
<1>0. UnderWay /\ Stored(w) /\ \A u \in Thread : OnTrack(u)
  BY Zenon DEF DecisionInvariant, Local
<1>1. \A u \in Thread : Dispatches(u, w, k) => Reached(w, k)
  BY Zenon, <1>0 DEF Dispatches, OnTrack
<1>2. Approved(w, k) => Reached(w, k)
  BY Zenon, <1>0 DEF Approved, Stored
<1>3. /\ \A u \in Thread : Waiter(u, w, k) /\ pc[u] # "idle" => Reached(w, k)
      /\ \A u \in Thread : TimerOf(u, w, k) /\ pc[u] # "idle" => Reached(w, k)
  BY Zenon, <1>0 DEF Waiter, TimerOf, OnTrack
<1>4. <<w, k>> \in armed => Reached(w, k)
  BY Zenon, <1>0 DEF UnderWay
<1>5. Sent(w, k) => Reached(w, k)
  BY Zenon, <1>0 DEF UnderWay, Sent, OnTrack
<1>6. Asks(kv[w], k) => Reached(w, k)
  BY Zenon, <1>0 DEF Asks, Stored
<1>7. \A u \in Thread : Answers(u, w, k) => Reached(w, k)
  BY Zenon, <1>0 DEF Answers, OnTrack, HasAnswer
<1>8. <<w, k>> \in HumanStep /\ resolved[<<w, k>>] # <<>> => Reached(w, k)
  BY Zenon, <1>0 DEF UnderWay
<1> QED  BY Zenon, <1>1, <1>2, <1>3, <1>4, <1>5, <1>6, <1>7, <1>8

\* A result is recorded by the consumer that has it in hand, an approval by the
\* goroutine that has waited for it.
LEMMA RecorderKnows ==
    ASSUME DecisionInvariant, NEW t \in Thread, Records(t)
    PROVE  /\ pc[t] \in AdvanceLabel /\ t[1] \in {"result", "resume"}
           /\ t[1] = "result" => loc[t].msg.by = "agent" /\ HasResult(t) /\ Sent(t[2], loc[t].msg.step)
           /\ t[1] = "resume" => loc[t].msg.by = "human" /\ loc[t].msg.step = t[3]
<1>1. pc[t] \in AdvanceLabel /\ t[1] \in {"result", "resume"} /\ InHand(t)
  BY Zenon, OfThread, RolesOfLabels DEF Records, AdvanceLabel
<1>2. t[1] = "result" => loc[t].msg.by = "agent" /\ HasResult(t) /\ Sent(t[2], loc[t].msg.step)
  BY Zenon, <1>1 DEF HasResult, InHand, OfAgent, Sent
<1>3. t[1] = "resume" => loc[t].msg.by = "human" /\ loc[t].msg.step = t[3]
  BY <1>1 DEF InHand
<1> QED  BY Zenon, <1>1, <1>2, <1>3

-----------------------------------------------------------------------------
(* How a step becomes known *)

\* What the other threads do in a step of t.
LEMMA OthersMove ==
    ASSUME NEW t \in Thread, Effect(t), NEW u \in Thread \ {t}
    PROVE  /\ loc'[u] = loc[u]
           /\ pc'[u] = pc[u] \/ (Spawns(t, u) /\ u[1] = "resume" /\ pc'[u] = "wait")
BY Zenon DEF Effect, Moves, Frame, Spawns, Waiter

LEMMA LabelSets ==
    /\ DispatchLabel \cap {"idle", "wait"} = {} /\ AnswerLabel \cap {"idle", "wait"} = {}
    /\ {"spawn", "schedule", "scheduleDecision", "routeDirect", "requestDecision", "annotateUpdate"}
          \subseteq DispatchLabel
BY Zenon DEF DispatchLabel, UnaskedLabel, BeginLabel, AgentLabel, AskLabel, AnswerLabel

\* One thread is dispatching a step, or begins with it.
LEMMA DispatchTrace ==
    ASSUME DecisionInvariant, TypeOK', NEW t \in Thread, Effect(t), NEW w \in Workflow, NEW k \in Nat
    PROVE  \A u \in Thread : Dispatches(u, w, k)' =>
              (Dispatches(u, w, k) \/ (u = t /\ Enters(t) /\ w = t[2] /\ k = kv'[w].step))
<1> SUFFICES ASSUME NEW u \in Thread, Dispatches(u, w, k)'
             PROVE  Dispatches(u, w, k) \/ (u = t /\ Enters(t) /\ w = t[2] /\ k = kv'[w].step)
  BY Zenon
<1>1. CASE u # t
  BY <1>1, OthersMove, LabelSets DEF Dispatches
<1>2. CASE u = t
  BY Zenon, <1>2 DEF Effect, Moves, Dispatches, DispatchMove, Continues, Enters
<1> QED  BY Zenon, <1>1, <1>2

\* An approval is recorded by the goroutine that has waited for it.
LEMMA ApprovalTrace ==
    ASSUME DecisionInvariant, TypeOK', NEW t \in Thread, Effect(t), NEW w \in Workflow, NEW k \in Nat
    PROVE  Approved(w, k)' => Approved(w, k) \/ (Waiter(t, w, k) /\ Records(t) /\ pc[t] # "idle")
<1> SUFFICES ASSUME w = t[2], Records(t), loc[t].msg.by = "human", loc[t].msg.step = k
             PROVE  Waiter(t, w, k) /\ Records(t) /\ pc[t] # "idle"
  BY Zenon, BucketGrows DEF Effect
<1> QED  BY Zenon, RecorderKnows DEF Waiter, AdvanceLabel

\* A goroutine waits for a step when the step's dispatcher has started it.
LEMMA WaiterTrace ==
    ASSUME DecisionInvariant, TypeOK', NEW t \in Thread, Effect(t), NEW w \in Workflow, NEW k \in Nat
    PROVE  \A u \in Thread : Waiter(u, w, k) /\ pc'[u] # "idle" =>
              (pc[u] # "idle" \/ (Dispatches(t, w, k) /\ pc[t] = "spawn" /\ pc'[t] = "idle"))
<1> SUFFICES ASSUME NEW u \in Thread, Waiter(u, w, k), pc'[u] # "idle"
             PROVE  pc[u] # "idle" \/ (Dispatches(t, w, k) /\ pc[t] = "spawn" /\ pc'[t] = "idle")
  BY Zenon
<1>1. CASE u = t
  BY Zenon, <1>1 DEF Effect, Moves, Waiter, WaiterMove
<1>2. CASE u # t /\ pc'[u] = pc[u]
  BY Zenon, <1>2
<1>3. CASE Spawns(t, u)
  BY Zenon, <1>3, LabelSets DEF Spawns, Waiter, Dispatches
<1> QED  BY Zenon, OthersMove, <1>1, <1>2, <1>3

\* A timer is set by the dispatcher, and runs when it was set.
LEMMA ArmedTrace ==
    ASSUME DecisionInvariant, TypeOK', NEW t \in Thread, Effect(t), NEW w \in Workflow, NEW k \in Nat
    PROVE  <<w, k>> \in armed' =>
              \/ <<w, k>> \in armed
              \/ Dispatches(t, w, k) /\ pc[t] = "schedule" /\ pc'[t] = "idle"
              \/ Dispatches(t, w, k) /\ pc[t] = "scheduleDecision" /\ pc'[t] = "spawn"
BY Zenon, LabelSets DEF Effect, Moves, TimerMove, Dispatches

LEMMA TimerTrace ==
    ASSUME DecisionInvariant, TypeOK', NEW t \in Thread, Effect(t), NEW w \in Workflow, NEW k \in Nat
    PROVE  \A u \in Thread : TimerOf(u, w, k) /\ pc'[u] # "idle" =>
              pc[u] # "idle" \/ (u = t /\ <<w, k>> \in armed /\ <<w, k>> \notin armed')
<1> SUFFICES ASSUME NEW u \in Thread, TimerOf(u, w, k), pc'[u] # "idle"
             PROVE  pc[u] # "idle" \/ (u = t /\ <<w, k>> \in armed /\ <<w, k>> \notin armed')
  BY Zenon
<1>1. CASE u = t
  BY Zenon, <1>1 DEF Effect, Moves, TimerOf, TimerMove
<1>2. CASE u # t
  BY Zenon, <1>2, OthersMove DEF TimerOf
<1> QED  BY Zenon, <1>1, <1>2

\* Messages about a step come from its dispatcher.
LEMMA MessageTrace ==
    ASSUME DecisionInvariant, TypeOK', NEW t \in Thread, Effect(t), NEW w \in Workflow, NEW k \in Nat
    PROVE  Sent(w, k)' => Sent(w, k) \/ (Dispatches(t, w, k) /\ pc'[t] = "schedule")
<1> SUFFICES ASSUME Sent(w, k)'
             PROVE  Sent(w, k) \/ (Dispatches(t, w, k) /\ pc'[t] = "schedule")
  BY Zenon
<1>0. MessageMove(t)
  BY Zenon DEF Effect, Moves
<1>1. CASE \E m \in direct' : m.w = w /\ m.step = k
  BY Zenon, <1>0, <1>1, LabelSets DEF MessageMove, Sent, Dispatches
<1>2. CASE \E m \in inbox'[<<"result", w>>] : m.step = k
  BY <1>0, <1>2 DEF MessageMove, Sent
<1>3. ASSUME NEW u \in Thread, HasResult(u)', u[2] = w, loc'[u].msg.step = k
      PROVE  Sent(w, k)
  <2>1. CASE u # t
    <3>1. HasResult(u) /\ loc[u].msg.step = k
      BY Zenon, <1>3, <2>1, OthersMove DEF HasResult, AdvanceLabel
    <3> QED  BY Zenon, <1>3, <3>1 DEF Sent
  <2>2. CASE u = t
    BY Zenon, <1>0, <1>3, <2>2 DEF MessageMove, Sent
  <2> QED  BY Zenon, <2>1, <2>2
<1> QED  BY Zenon, <1>1, <1>2, <1>3 DEF Sent

\* A step becomes the pending one by its dispatcher's writes.
LEMMA AskTrace ==
    ASSUME DecisionInvariant, TypeOK', NEW t \in Thread, Effect(t), NEW w \in Workflow, NEW k \in Nat
    PROVE  Asks(kv'[w], k) =>
              \/ Asks(kv[w], k)
              \/ Dispatches(t, w, k) /\ pc'[t] = "index"
              \/ Dispatches(t, w, k) /\ pc[t] = "annotateUpdate"
<1>1. Asks(kv'[w], k) => Asks(kv[w], k) \/ (w = t[2] /\ k = loc[t].at /\ (Pauses(t) \/ MarksOwn(t)))
  BY Zenon, PendingWrites DEF Effect
<1> QED  BY Zenon, <1>1, LabelSets DEF Pauses, MarksOwn, Dispatches

\* Responses are processed for the decision the workflow is waiting for.
LEMMA AnswerTrace ==
    ASSUME DecisionInvariant, TypeOK', NEW t \in Thread, Effect(t), NEW w \in Workflow, NEW k \in Nat
    PROVE  \A u \in Thread : Answers(u, w, k)' => Answers(u, w, k) \/ Waits(kv[w], k)
<1> SUFFICES ASSUME NEW u \in Thread, Answers(u, w, k)'
             PROVE  Answers(u, w, k) \/ Waits(kv[w], k)
  BY Zenon
<1>1. CASE u # t
  BY <1>1, OthersMove, LabelSets DEF Answers
<1>2. CASE u = t
  BY Zenon, <1>2 DEF Effect, Moves, Answers, AnswerMove, HasAnswer
<1> QED  BY Zenon, <1>1, <1>2

\* A verdict is published by who resolves the decision.
LEMMA VerdictTrace ==
    ASSUME DecisionInvariant, TypeOK', NEW t \in Thread, Effect(t), NEW w \in Workflow, NEW k \in Nat
    PROVE  <<w, k>> \in HumanStep /\ resolved'[<<w, k>>] # resolved[<<w, k>>] =>
              /\ Resolves(t, w, k) /\ Publishes(t)
              /\ resolved'[<<w, k>>] = Append(resolved[<<w, k>>], loc[t].msg.status)
<1> SUFFICES ASSUME <<w, k>> \in HumanStep, resolved'[<<w, k>>] # resolved[<<w, k>>]
             PROVE  /\ Resolves(t, w, k) /\ Publishes(t)
                    /\ resolved'[<<w, k>>] = Append(resolved[<<w, k>>], loc[t].msg.status)
  BY Zenon
<1>0. CoordinatorTypeOK
  BY Zenon, OfThread
<1>1. Publishes(t)
  BY Zenon DEF Effect, VerdictMove
<1>2. <<w, k>> = <<t[2], loc[t].msg.step>>
  BY Zenon, <1>0, <1>1 DEF Publishes, CoordinatorTypeOK
<1> QED  BY Zenon, <1>0, <1>1, <1>2 DEF Publishes, Resolves, CoordinatorTypeOK

\* A workflow in step goes on with the result of its current step.
LEMMA StepTrace ==
    ASSUME DecisionInvariant, TypeOK', NEW t \in Thread, Effect(t), NEW w \in Workflow
    PROVE  InStep(w)' /\ kv'[w].results # kv[w].results =>
              /\ w = t[2] /\ Records(t) /\ loc[t].msg.step = kv[w].step
              /\ Sent(w, kv[w].step) \/ (Waiter(t, w, kv[w].step) /\ pc[t] # "idle")
<1> SUFFICES ASSUME InStep(w)', kv'[w].results # kv[w].results
             PROVE  /\ w = t[2] /\ Records(t) /\ loc[t].msg.step = kv[w].step
                    /\ Sent(w, kv[w].step) \/ (Waiter(t, w, kv[w].step) /\ pc[t] # "idle")
  BY Zenon
<1>1. w = t[2] /\ Records(t) /\ Bucket(t)
  BY Zenon, ResultsGrow DEF Effect, SameResults
<1> DEFINE n == Len(kv[w].results)
<1>2. n + 1 \in DOMAIN kv'[w].results /\ kv'[w].results[n + 1].step = loc[t].msg.step /\ kv[w].step = n /\ n \in Nat
  <2>1. /\ DOMAIN kv'[w].results = 1..(n + 1) /\ n \in Nat /\ kv[w].step = n
        /\ kv'[w].results[n + 1].step = loc[t].msg.step
    BY Zenon, <1>1, RecordsAppend
  <2>2. n + 1 \in 1..(n + 1)
    BY ONLY <2>1
  <2> QED  BY ONLY Zenon, <2>1, <2>2
<1>3. kv'[w].results[n + 1].step = (n + 1) - 1
  BY Zenon, <1>2 DEF InStep
<1>4. loc[t].msg.step = kv[w].step
  BY <1>2, <1>3
<1> QED  BY Zenon, <1>1, <1>4, RecorderKnows DEF Waiter, AdvanceLabel

\* A thread that goes on with its step is still alone with it; one that begins
\* with a step is the first to know of it.
LEMMA FreshKept ==
    ASSUME DecisionInvariant, TypeOK', NEW t \in Thread, Effect(t), NEW s \in Thread
    PROVE  Fresh(s)'
<1> SUFFICES ASSUME NEW w \in Workflow, NEW k \in Nat, Dispatches(s, w, k)'
             PROVE  Alone(s, w, k)'
  BY Zenon DEF Fresh
<1>0. /\ Bucket(t) /\ Frame(t) /\ DispatchMove(t) /\ kv[w].step \in Nat /\ kv'[w].step \in Nat
  BY Zenon, ResultsGrow DEF Effect, Moves
<1>1. CASE Dispatches(s, w, k)
  <2>1. Alone(s, w, k)
    BY Zenon, <1>1 DEF DecisionInvariant, Related, Fresh
  <2>2. Reached(w, k)
    BY Zenon, <1>1, KnownIsReached
  <2>3. Continues(s)
    <3>1. CASE s = t
      BY Zenon, <1>0, <1>1, <3>1 DEF DispatchMove, Dispatches, Enters
    <3>2. CASE s # t
      <4>1. pc'[s] = pc[s] /\ loc'[s] = loc[s]
        BY Zenon, <1>0, <1>1, <3>2
           DEF Frame, Spawns, Dispatches, DispatchLabel, UnaskedLabel, BeginLabel, AgentLabel, AskLabel
      <4> QED  BY Zenon, <1>1, <4>1 DEF Continues, Dispatches
    <3> QED  BY Zenon, <3>1, <3>2
  <2>4. Dispatches(t, w, k) => t = s
    BY Zenon, <2>1 DEF Alone
  <2>5. \A u \in Thread : Dispatches(u, w, k)' => u = s
    <3>1. ~(Enters(t) /\ w = t[2] /\ k = kv'[w].step)
      BY <1>0, <2>2 DEF Enters, Reached
    <3> QED  BY Zenon, <2>1, <3>1, DispatchTrace DEF Alone
  <2>6. Waiter(t, w, k) => pc[t] = "idle"
    BY Zenon, <2>1 DEF Alone
  <2>7. ~Approved(w, k)'
    BY Zenon, <2>1, <2>6, ApprovalTrace DEF Alone
  <2>8. \A u \in Thread : Waiter(u, w, k) => pc'[u] = "idle"
    <3>1. \A u \in Thread : Waiter(u, w, k) => pc[u] = "idle"
      BY Zenon, <2>1 DEF Alone
    <3>2. ~(Dispatches(t, w, k) /\ pc[t] = "spawn" /\ pc'[t] = "idle")
      BY Zenon, <2>3, <2>4 DEF Continues
    <3> QED  BY Zenon, <3>1, <3>2, WaiterTrace
  <2>9. pc'[s] # "spawn" => <<w, k>> \notin armed' /\ \A u \in Thread : TimerOf(u, w, k) => pc'[u] = "idle"
    <3> SUFFICES ASSUME pc'[s] # "spawn"
                 PROVE  <<w, k>> \notin armed' /\ \A u \in Thread : TimerOf(u, w, k) => pc'[u] = "idle"
      BY Zenon
    <3>1. <<w, k>> \notin armed /\ \A u \in Thread : TimerOf(u, w, k) => pc[u] = "idle"
      BY Zenon, <2>1, <2>3 DEF Alone, Continues
    <3>2. <<w, k>> \notin armed'
      <4>1. /\ ~(Dispatches(t, w, k) /\ pc[t] = "schedule" /\ pc'[t] = "idle")
            /\ ~(Dispatches(t, w, k) /\ pc'[t] = "spawn")
        BY Zenon, <2>3, <2>4 DEF Continues
      <4> QED  BY Zenon, <3>1, <4>1, ArmedTrace
    <3> QED  BY Zenon, <3>1, <3>2, TimerTrace
  <2>10. pc'[s] # "schedule" => ~Sent(w, k) /\ ~Sent(w, k)'
    <3>1. pc'[s] # "schedule" => ~Sent(w, k) /\ ~(Dispatches(t, w, k) /\ pc'[t] = "schedule")
      BY Zenon, <2>1, <2>3, <2>4 DEF Alone, Continues
    <3> QED  BY Zenon, <3>1, MessageTrace
  <2>11. pc'[s] \in UnaskedLabel =>
            /\ ~Asks(kv'[w], k)
            /\ \A u \in Thread : ~Answers(u, w, k)'
            /\ <<w, k>> \in HumanStep => resolved'[<<w, k>>] = <<>>
    <3> SUFFICES ASSUME pc'[s] \in UnaskedLabel
                 PROVE  /\ ~Asks(kv'[w], k)
                        /\ \A u \in Thread : ~Answers(u, w, k)'
                        /\ <<w, k>> \in HumanStep => resolved'[<<w, k>>] = <<>>
      BY Zenon
    <3>1. /\ ~Asks(kv[w], k) /\ \A u \in Thread : ~Answers(u, w, k)
          /\ <<w, k>> \in HumanStep => resolved[<<w, k>>] = <<>>
          /\ pc[s] # "annotateUpdate" /\ pc'[s] # "index"
      BY Zenon, <2>1, <2>3 DEF Alone, Continues, UnaskedLabel, BeginLabel
    <3>2. ~Asks(kv'[w], k)
      BY Zenon, <2>4, <3>1, AskTrace
    <3>3. \A u \in Thread : ~Answers(u, w, k)'
      BY Zenon, <3>1, AnswerTrace DEF Waits
    <3>4. <<w, k>> \in HumanStep => resolved'[<<w, k>>] = <<>>
      <4>1. ~Resolves(t, w, k)
        BY Zenon, <3>1 DEF Answers, Resolves, AnswerLabel
      <4> QED  BY Zenon, <3>1, <4>1, VerdictTrace
    <3> QED  BY Zenon, <3>2, <3>3, <3>4
  <2>12. InStep(w)' /\ pc'[s] # "schedule" => kv'[w].step = k
    <3> SUFFICES ASSUME InStep(w)', pc'[s] # "schedule"
                 PROVE  kv'[w].step = k
      BY Zenon
    <3>1. InStep(w)
      BY Zenon, <1>0, BucketGrows
    <3>2. kv[w].step = k /\ ~Sent(w, k)
      BY Zenon, <2>1, <2>3, <2>10, <3>1 DEF Alone, Continues
    <3>3. ~(Waiter(t, w, kv[w].step) /\ pc[t] # "idle") /\ ~Sent(w, kv[w].step)
      BY ONLY Zenon, <2>6, <3>2
    <3>4. kv'[w].results = kv[w].results
      BY Zenon, <3>3, StepTrace
    <3>5. kv'[w].step = Len(kv'[w].results) /\ kv[w].step = Len(kv[w].results)
      BY Zenon, StoredKept DEF DecisionInvariant, Stored
    <3> QED  BY ONLY Zenon, <3>2, <3>4, <3>5
  <2> QED  BY Zenon, <2>5, <2>7, <2>8, <2>9, <2>10, <2>11, <2>12 DEF Alone
<1>2. CASE s = t /\ Enters(t) /\ w = t[2] /\ k = kv'[w].step
  <2>1. ~Reached(w, k)
    BY <1>0, <1>2 DEF Enters, Reached
  <2>2. /\ \A u \in Thread : ~Dispatches(u, w, k)
        /\ ~Approved(w, k)
        /\ \A u \in Thread : Waiter(u, w, k) => pc[u] = "idle"
        /\ \A u \in Thread : TimerOf(u, w, k) => pc[u] = "idle"
        /\ <<w, k>> \notin armed
        /\ ~Sent(w, k)
        /\ ~Asks(kv[w], k)
        /\ \A u \in Thread : ~Answers(u, w, k)
        /\ <<w, k>> \in HumanStep => resolved[<<w, k>>] = <<>>
    BY Zenon, <2>1, KnownIsReached
  <2>3. \A u \in Thread : Dispatches(u, w, k)' => u = s
    <3>1. \A u \in Thread : ~Dispatches(u, w, k)
      BY ONLY Zenon, <2>2
    <3>2. \A u \in Thread : Dispatches(u, w, k)' => (Dispatches(u, w, k) \/ u = t)
      BY Zenon, DispatchTrace
    <3> QED  BY ONLY Zenon, <1>2, <3>1, <3>2
  <2>4. /\ ~Approved(w, k)'
        /\ \A u \in Thread : Waiter(u, w, k) => pc'[u] = "idle"
        /\ \A u \in Thread : TimerOf(u, w, k) => pc'[u] = "idle"
        /\ <<w, k>> \notin armed'
        /\ ~Sent(w, k)'
    BY Zenon, <2>2, ApprovalTrace, WaiterTrace, TimerTrace, ArmedTrace, MessageTrace
  <2>5. /\ ~Asks(kv'[w], k)
        /\ \A u \in Thread : ~Answers(u, w, k)'
        /\ <<w, k>> \in HumanStep => resolved'[<<w, k>>] = <<>>
    <3>1. ~Asks(kv'[w], k)
      BY Zenon, <2>2, AskTrace
    <3>2. \A u \in Thread : ~Answers(u, w, k)'
      BY Zenon, <2>2, AnswerTrace DEF Waits
    <3>3. ~Resolves(t, w, k)
      BY Zenon, <2>2 DEF Answers, Resolves, AnswerLabel
    <3> QED  BY Zenon, <2>2, <3>1, <3>2, <3>3, VerdictTrace
  <2> QED  BY Zenon, <1>2, <2>3, <2>4, <2>5 DEF Alone
<1> QED  BY Zenon, <1>1, <1>2, DispatchTrace

-----------------------------------------------------------------------------
(* Timers, approvals and pauses after a step *)

LEMMA StartedOnceKept ==
    ASSUME DecisionInvariant, TypeOK', NEW t \in Thread, Effect(t)
    PROVE  StartedOnce'
<1>0. StartedOnce /\ Bucket(t) /\ WaiterMove(t) /\ \A u \in Thread : u[2] \in Workflow
  BY Zenon, ThreadNames DEF DecisionInvariant, Related, Effect, Moves
<1>1. ASSUME NEW u \in Thread, u[1] = "timer", <<u[2], u[3]>> \in armed'
      PROVE  pc'[u] = "idle"
  <2>1. PICK w \in Workflow, k \in Nat : w = u[2] /\ k = u[3]
    BY Zenon, <1>0, <1>1, ThreadNames
  <2>2. TimerOf(u, w, k) /\ <<w, k>> \in armed'
    BY Zenon, <1>1, <2>1 DEF TimerOf
  <2>3. pc[u] = "idle" /\ ~(u = t /\ <<w, k>> \in armed /\ <<w, k>> \notin armed')
    <3>1. CASE <<w, k>> \in armed
      BY Zenon, <1>0, <1>1, <2>1, <2>2, <3>1 DEF StartedOnce
    <3>2. CASE Dispatches(t, w, k) /\ pc[t] # "spawn"
      <4>1. Alone(t, w, k)
        BY Zenon, <3>2 DEF DecisionInvariant, Related, Fresh
      <4> QED  BY Zenon, <2>2, <3>2, <4>1 DEF Alone
    <3> QED  BY Zenon, <2>2, <3>1, <3>2, ArmedTrace
  <2> QED  BY Zenon, <2>2, <2>3, TimerTrace
<1>2. ASSUME NEW u \in Thread, u[1] = "resume", Approved(u[2], u[3])'
      PROVE  pc'[u] \notin WaitLabel
  <2>1. PICK w \in Workflow, k \in Nat : w = u[2] /\ k = u[3]
    BY Zenon, <1>0, <1>2, ThreadNames
  <2>2. Approved(w, k)' /\ Waiter(u, w, k)
    BY Zenon, <1>2, <2>1 DEF Waiter, Approved
  <2>3. CASE Approved(w, k)
    <3>1. pc[u] \notin WaitLabel
      BY Zenon, <1>0, <1>2, <2>1, <2>3 DEF StartedOnce
    <3>2. CASE u = t
      BY Zenon, <1>0, <1>2, <3>1, <3>2 DEF WaiterMove
    <3>3. CASE u # t /\ pc'[u] = pc[u]
      BY Zenon, <3>1, <3>3
    <3>4. CASE Spawns(t, u)
      <4>1. Dispatches(t, w, k)
        BY Zenon, <2>2, <3>4, LabelSets DEF Spawns, Waiter, Dispatches
      <4>2. ~Approved(w, k)
        BY Zenon, <4>1 DEF DecisionInvariant, Related, Fresh, Alone
      <4> QED  BY Zenon, <2>3, <4>2
    <3> QED  BY Zenon, <3>2, <3>3, <3>4, OthersMove
  <2>4. CASE Waiter(t, w, k) /\ Records(t)
    <3>1. t = u
      BY <2>2, <2>4, ThreadNames DEF Waiter
    <3> QED  BY Zenon, <2>4, <3>1 DEF Records
  <2> QED  BY Zenon, <2>2, <2>3, <2>4, ApprovalTrace
<1>3. ASSUME NEW w \in Workflow, NEW i \in DOMAIN kv'[w].results, NEW j \in DOMAIN kv'[w].results,
             kv'[w].results[i].by = "human", kv'[w].results[j] = kv'[w].results[i]
      PROVE  i = j
  <2>1. CASE SameResults(w)
    BY Zenon, <1>0, <1>3, <2>1 DEF SameResults, StartedOnce
  <2>2. CASE w = t[2] /\ Records(t)
    <3> DEFINE n == Len(kv[w].results)
    <3>1. /\ \A x \in DOMAIN kv'[w].results : x \in DOMAIN kv[w].results \/ x = n + 1
          /\ \A x \in DOMAIN kv[w].results : kv'[w].results[x] = kv[w].results[x]
          /\ kv'[w].results[n + 1].step = loc[t].msg.step
          /\ kv'[w].results[n + 1].by = loc[t].msg.by
      BY Zenon, <1>0, <2>2, RecordsAppend
    <3> HIDE DEF n
    <3>2. ASSUME NEW x \in DOMAIN kv[w].results, kv'[w].results[x].by = "human",
                 kv'[w].results[n + 1] = kv'[w].results[x]
          PROVE  FALSE
      <4>1. loc[t].msg.by = "human" /\ Approved(w, loc[t].msg.step)
        BY Zenon, <3>1, <3>2 DEF Approved
      <4>2. t[1] = "resume" /\ loc[t].msg.step = t[3] /\ pc[t] \in WaitLabel
        BY Zenon, <2>2, <4>1, RecorderKnows DEF WaitLabel
      <4> QED  BY Zenon, <1>0, <2>2, <4>1, <4>2 DEF StartedOnce
    <3>3. CASE i \in DOMAIN kv[w].results /\ j \in DOMAIN kv[w].results
      BY Zenon, <1>0, <1>3, <3>1, <3>3 DEF StartedOnce
    <3> QED  BY Zenon, <1>3, <3>1, <3>2, <3>3
  <2> QED  BY Zenon, <1>0, <2>1, <2>2, ResultsGrow
<1> QED  BY Zenon, <1>1, <1>2, <1>3 DEF StartedOnce

\* Messages are about the steps of agents.
LEMMA SentIsAgents ==
    ASSUME DecisionInvariant, NEW w \in Workflow, NEW k, Sent(w, k)
    PROVE  <<w, k>> \notin HumanStep
<1>1. UnderWay /\ \A t \in Thread : InHand(t)
  BY Zenon DEF DecisionInvariant, Local
<1> QED  BY Zenon, <1>1 DEF UnderWay, Sent, InHand, OfAgent

\* The dispatcher of a workflow in step dispatches its current step.
LEMMA DispatchesCurrent ==
    ASSUME DecisionInvariant, NEW t \in Thread, pc[t] \in DispatchLabel \ {"schedule"}, InStep(t[2])
    PROVE  loc[t].at = kv[t[2]].step
BY Zenon, AloneWithStep DEF Alone

\* What can be written to a workflow in step that is paused and stays so.
LEMMA PausedWrites ==
    ASSUME DecisionInvariant, TypeOK', NEW t \in Thread, Effect(t), NEW w \in Workflow,
           InStep(w)', kv'[w].status = "waiting", kv'[w] # kv[w]
    PROVE  \/ w = t[2] /\ loc[t].at = kv[w].step /\ (Pauses(t) \/ MarksOwn(t))
           \/ MarksOther(t, w)
<1>0. /\ InStep(w) /\ Bucket(t) /\ Paused(w) /\ t[2] \in Workflow /\ OnTrack(t) /\ Stored(w) /\ kv[w].step \in Nat
  BY Zenon, OfThread, BucketGrows, ResultsGrow DEF Effect, DecisionInvariant, Related
<1>1. Writes(t, w)
  BY Zenon, <1>0 DEF Bucket, Writes
<1>2. kv[w].status = "waiting" => <<w, kv[w].step>> \in HumanStep
  BY Zenon, <1>0 DEF Paused, Asks, Stored
<1>3. ~(w = t[2] /\ Records(t))
  <2> SUFFICES ASSUME w = t[2], Records(t)
               PROVE  FALSE
    BY Zenon
  <2>1. kv[w].status = "waiting" /\ t[1] # "resume"
    BY Zenon DEF Records, SameStatus
  <2>2. kv'[w].results # kv[w].results
    <3>1. Len(kv[w].results) \in Nat /\ Len(kv'[w].results) = Len(kv[w].results) + 1
      BY Zenon, <1>0, RecordsAppend
    <3> QED  BY ONLY <3>1
  <2>3. Sent(w, kv[w].step)
    BY Zenon, <2>1, <2>2, StepTrace DEF Waiter
  <2> QED  BY Zenon, <1>2, <2>1, <2>3, SentIsAgents
<1>4. ~(w = t[2] /\ Assigns(t))
  <2> SUFFICES ASSUME w = t[2], Assigns(t)
               PROVE  FALSE
    BY Zenon
  <2>1. pc[t] = "assign" /\ kv[w].status = "waiting"
    BY Zenon DEF Assigns, SameStatus
  <2>2. loc[t].at = kv[w].step /\ <<w, loc[t].at>> \notin HumanStep
    BY Zenon, <1>0, <2>1, DispatchesCurrent DEF DispatchLabel, AgentLabel, OnTrack
  <2> QED  BY Zenon, <1>2, <2>1, <2>2
<1>5. \/ w = t[2] /\ (Pauses(t) \/ MarksOwn(t))
      \/ MarksOther(t, w)
  BY Zenon, <1>1, <1>3, <1>4 DEF Writes, Starts, Fails, Settles
<1>6. Pauses(t) \/ MarksOwn(t) => pc[t] \in DispatchLabel \ {"schedule"}
  BY Zenon, LabelSets DEF Pauses, MarksOwn
<1> QED  BY Zenon, <1>0, <1>5, <1>6, DispatchesCurrent

LEMMA PausedKept ==
    ASSUME DecisionInvariant, TypeOK', NEW t \in Thread, Effect(t), NEW w \in Workflow
    PROVE  Paused(w)'
<1> SUFFICES ASSUME InStep(w)', kv'[w].status = "waiting"
             PROVE  Asks(kv'[w], kv'[w].step) /\ \A p \in kv'[w].pd : p.step = kv'[w].step
  BY Zenon DEF Paused, Asks
<1>0. InStep(w) /\ Paused(w) /\ kv[w] \in WorkflowState
  BY Zenon, BucketGrows, ResultsGrow DEF Effect, DecisionInvariant, Related
<1>1. CASE kv'[w] = kv[w]
  BY Zenon, <1>0, <1>1 DEF Paused
<1>2. CASE w = t[2] /\ loc[t].at = kv[w].step /\ (Pauses(t) \/ MarksOwn(t))
  <2>1. PICK ids : kv'[w].pd = {[step |-> loc[t].at, conflicts |-> ids]}
    BY Zenon, <1>2 DEF Pauses, MarksOwn
  <2>2. kv'[w].step = loc[t].at
    BY Zenon, <1>2 DEF Pauses, MarksOwn, SameResults
  <2>3. (\A p \in kv'[w].pd : p.step = loc[t].at) /\ \E p \in kv'[w].pd : p.step = loc[t].at
    BY <2>1
  <2> QED  BY Zenon, <2>2, <2>3 DEF Asks
<1>3. CASE MarksOther(t, w)
  <2>1. PICK ids : kv'[w].pd = {[p EXCEPT !.conflicts = ids] : p \in kv[w].pd}
    BY Zenon, <1>3 DEF MarksOther
  <2>2. \A p \in kv[w].pd : p \in PendingDecision
    BY Zenon, <1>0 DEF WorkflowState
  <2>3. /\ \A p \in kv'[w].pd : \E q \in kv[w].pd : p.step = q.step
        /\ \A q \in kv[w].pd : \E p \in kv'[w].pd : p.step = q.step
    <3>1. \A q \in kv[w].pd : [q EXCEPT !.conflicts = ids].step = q.step
      BY Zenon, <2>2 DEF PendingDecision
    <3> QED  BY Zenon, <2>1, <3>1
  <2>4. kv'[w].step = kv[w].step /\ kv[w].status = "waiting"
    BY Zenon, <1>3 DEF MarksOther, SameResults, SameStatus
  <2> QED  BY Zenon, <1>0, <2>3, <2>4 DEF Paused, Asks
<1> QED  BY Zenon, <1>1, <1>2, <1>3, PausedWrites

-----------------------------------------------------------------------------
(* Verdicts after a step *)

\* A decision of a workflow in step is resolved by one response at most.
LEMMA VerdictStands ==
    ASSUME DecisionInvariant, TypeOK', NEW t \in Thread, Effect(t), NEW d \in HumanStep,
           InStep(d[1]), resolved[d] # <<>>
    PROVE  resolved'[d] = resolved[d]
<1>1. d = <<d[1], d[2]>> /\ d[1] \in Workflow /\ d[2] \in Nat
  BY Zenon, StepNames
<1>2. ~Resolves(t, d[1], d[2])
  BY Zenon DEF DecisionInvariant, Related, Once, Exempt
<1> QED  BY Zenon, <1>1, <1>2, VerdictTrace

\* Whoever answers for the workflow's decision is the one consumer.
LEMMA OneAnswers ==
    ASSUME DecisionInvariant, NEW t \in Thread, NEW u \in Thread, NEW w, NEW k, NEW l,
           Answers(t, w, k), Answers(u, w, l)
    PROVE  t = u
BY RolesOfLabels, ThreadNames DEF Answers

\* A step a workflow in step has passed was approved, if it was a human's.
LEMMA PassedIsApproved ==
    ASSUME DecisionInvariant, NEW d \in HumanStep, InStep(d[1]), d[2] < kv[d[1]].step
    PROVE  resolved[d] = <<"success">>
<1> DEFINE w == d[1]
           i == d[2] + 1
<1>1. d = <<w, d[2]>> /\ w \in Workflow /\ d[2] \in Nat
  BY Zenon, StepNames
<1>2. Stored(w) /\ Verdicts(w) /\ kv[w] \in WorkflowState
  BY Zenon, <1>1 DEF DecisionInvariant, Related, TypeOK, EngineTypeOK
<1>3. kv[w].results \in Seq(StepResult) /\ kv[w].step = Len(kv[w].results)
  BY Zenon, <1>2 DEF WorkflowState, Stored
<1>4. i \in DOMAIN kv[w].results /\ i - 1 = d[2]
  BY <1>1, <1>3
<1>5. kv[w].results[i].step = d[2]
  BY Zenon, <1>4 DEF InStep
<1>6. kv[w].results[i].by = "human"
  BY Zenon, <1>1, <1>2, <1>4, <1>5 DEF Stored
<1> QED  BY Zenon, <1>1, <1>2, <1>4, <1>5, <1>6 DEF Verdicts

LEMMA VerdictsKept ==
    ASSUME DecisionInvariant, TypeOK', NEW t \in Thread, Effect(t), NEW w \in Workflow
    PROVE  Verdicts(w)'
<1> SUFFICES ASSUME InStep(w)'
             PROVE  /\ \A d \in HumanStep : d[1] = w /\ channel'[d] = "approved" =>
                          resolved'[d] = <<"success">>
                    /\ \A u \in Thread : u[1] = "resume" /\ u[2] = w /\ pc'[u] \in ResumeLabel =>
                          resolved'[<<w, u[3]>>] = <<"success">>
                    /\ \A i \in DOMAIN kv'[w].results : kv'[w].results[i].by = "human" =>
                          resolved'[<<w, kv'[w].results[i].step>>] = <<"success">>
                    /\ \A u \in Thread : u[2] = w /\ pc'[u] = "resolve" => loc'[u].msg.step = kv'[w].step
  BY Zenon DEF Verdicts
<1>0. /\ InStep(w) /\ Verdicts(w) /\ Bucket(t) /\ WaiterMove(t) /\ AnswerMove(t) /\ VerdictMove(t)
      /\ Stored(w) /\ Paused(w) /\ CoordinatorTypeOK /\ kv[w].step \in Nat /\ t[2] \in Workflow
      /\ loc[t].msg.step \in Nat /\ InHand(t) /\ OnTrack(t)
  BY Zenon, OfThread, BucketGrows, ResultsGrow DEF Effect, Moves, DecisionInvariant, Related
<1>1. ASSUME NEW d \in HumanStep, d[1] = w, resolved[d] = <<"success">>
      PROVE  resolved'[d] = <<"success">>
  <2>1. InStep(d[1])
    BY ONLY <1>0, <1>1
  <2>2. resolved[d] # <<>>
    BY ONLY <1>1
  <2> QED  BY Zenon, <1>1, <2>1, <2>2, VerdictStands
<1>2. ASSUME NEW d \in HumanStep, d[1] = w, channel'[d] = "approved"
      PROVE  resolved'[d] = <<"success">>
  <2>0. d = <<w, d[2]>> /\ d[2] \in Nat
    BY Zenon, <1>2, StepNames
  <2>1. CASE channel[d] = "approved"
    BY Zenon, <1>0, <1>1, <1>2, <2>1 DEF Verdicts
  <2>2. CASE Publishes(t) /\ loc[t].msg.status = "success" /\ d \in resumeCh /\ w = t[2]
    <3>1. loc[t].msg.step = kv[w].step /\ pc[t] = "resolve"
      BY Zenon, <1>0, <2>2 DEF Publishes, Verdicts
    <3>2. d[2] <= kv[w].step
      BY Zenon, <1>2, <2>2 DEF DecisionInvariant, UnderWay, Reached
    <3>3. CASE d[2] = kv[w].step
      <4>1. Resolves(t, d[1], d[2])
        BY Zenon, <1>2, <2>2, <3>1, <3>3 DEF Resolves
      <4>2. resolved[d] = <<>>
        BY Zenon, <1>0, <1>2, <4>1 DEF DecisionInvariant, Related, Once, Exempt
      <4>3. resolved'[d] = Append(resolved[d], "success")
        BY Zenon, <1>0, <2>0, <2>2, <3>1, <3>3 DEF Publishes, CoordinatorTypeOK
      <4> QED  BY <4>2, <4>3
    <3>4. CASE d[2] < kv[w].step
      BY Zenon, <1>0, <1>1, <1>2, <3>4, PassedIsApproved
    <3> QED  BY <1>0, <2>0, <3>2, <3>3, <3>4
  <2> QED  BY Zenon, <1>0, <1>2, <2>1, <2>2 DEF VerdictMove
<1>3. ASSUME NEW u \in Thread, u[1] = "resume", u[2] = w, pc'[u] \in ResumeLabel
      PROVE  resolved'[<<w, u[3]>>] = <<"success">>
  <2>1. pc[u] \in ResumeLabel \/ (pc[u] = "wait" /\ channel[<<w, u[3]>>] = "approved")
    <3>1. CASE u = t
      BY Zenon, <1>0, <1>3, <3>1 DEF WaiterMove
    <3>2. CASE u # t
      BY <1>3, <3>2, OthersMove DEF ResumeLabel, AdvanceLabel
    <3> QED  BY Zenon, <3>1, <3>2
  <2>2. <<w, u[3]>> \in HumanStep
    BY Zenon, <1>3, <2>1, OfThread DEF OnTrack, ResumeLabel, AdvanceLabel
  <2>3. resolved[<<w, u[3]>>] = <<"success">>
    BY Zenon, <1>0, <1>3, <2>1, <2>2 DEF Verdicts
  <2> QED  BY Zenon, <1>1, <2>2, <2>3
<1>4. ASSUME NEW i \in DOMAIN kv'[w].results, kv'[w].results[i].by = "human"
      PROVE  resolved'[<<w, kv'[w].results[i].step>>] = <<"success">>
  <2>1. CASE i \in DOMAIN kv[w].results /\ kv'[w].results[i] = kv[w].results[i]
    <3>1. <<w, kv[w].results[i].step>> \in HumanStep /\ resolved[<<w, kv[w].results[i].step>>] = <<"success">>
      BY Zenon, <1>0, <1>4, <2>1 DEF Stored, Verdicts
    <3> QED  BY Zenon, <1>1, <2>1, <3>1
  <2>2. CASE Records(t) /\ w = t[2] /\ i = Len(kv[w].results) + 1
    <3>1. kv'[w].results[i].by = loc[t].msg.by /\ kv'[w].results[i].step = loc[t].msg.step
      BY Zenon, <1>0, <2>2, RecordsAppend
    <3>2. t[1] = "resume" /\ loc[t].msg.step = t[3] /\ pc[t] \in ResumeLabel /\ pc[t] # "idle"
      BY Zenon, <1>4, <2>2, <3>1, RecorderKnows DEF ResumeLabel, AdvanceLabel
    <3>3. <<w, t[3]>> \in HumanStep /\ resolved[<<w, t[3]>>] = <<"success">>
      BY Zenon, <1>0, <2>2, <3>2 DEF OnTrack, Verdicts
    <3> QED  BY Zenon, <1>1, <3>1, <3>2, <3>3
  <2>3. CASE SameResults(w)
    BY Zenon, <1>4, <2>1, <2>3 DEF SameResults
  <2>4. CASE w = t[2] /\ Records(t)
    BY Zenon, <1>0, <1>4, <2>1, <2>2, <2>4, RecordsAppend
  <2> QED  BY Zenon, <1>0, <2>3, <2>4, ResultsGrow
<1>5. ASSUME NEW u \in Thread, u[2] = w, pc'[u] = "resolve"
      PROVE  loc'[u].msg.step = kv'[w].step
  <2>1. CASE u # t
    <3>1. pc[u] = "resolve" /\ loc'[u] = loc[u] /\ loc[u].msg.step = kv[w].step
      BY Zenon, <1>0, <1>5, <2>1, OthersMove DEF Verdicts
    <3>2. <<w, kv[w].step>> \in HumanStep
      BY Zenon, <1>5, <3>1, OfThread DEF InHand, HasAnswer, AnswerLabel
    <3>3. ~Sent(w, kv[w].step)
      BY Zenon, <3>2, SentIsAgents
    <3>4. ~(Waiter(t, w, kv[w].step) /\ Records(t))
      <4> SUFFICES ASSUME Waiter(t, w, kv[w].step), Records(t)
                   PROVE  FALSE
        BY Zenon
      <4>1. resolved[<<w, kv[w].step>>] = <<"success">>
        BY Zenon, <1>0, RecorderKnows DEF Verdicts, Waiter, ResumeLabel
      <4>2. Resolves(u, w, kv[w].step)
        BY Zenon, <1>5, <3>1 DEF Resolves
      <4>3. resolved[<<w, kv[w].step>>] = <<>>
        BY Zenon, <1>0, <3>2, <4>2 DEF DecisionInvariant, Related, Once, Exempt
      <4> QED  BY <4>1, <4>3
    <3>5. kv'[w].results = kv[w].results
      BY Zenon, <3>3, <3>4, StepTrace
    <3>6. kv'[w].step = kv[w].step
      BY Zenon, <1>0, <3>5, StoredKept DEF Stored
    <3> QED  BY Zenon, <3>1, <3>6
  <2>2. CASE u = t
    <3>1. pc[t] \in {"respondUpdate", "resolve"} /\ loc'[t].msg = loc[t].msg
      BY Zenon, <1>0, <1>5, <2>2 DEF AnswerMove, HasAnswer, AnswerLabel
    <3>2. SameResults(w)
      BY Zenon, <1>0, <3>1, ResultsGrow DEF Records
    <3>3. CASE pc[t] = "resolve"
      BY Zenon, <1>0, <1>5, <2>2, <3>1, <3>2, <3>3 DEF Verdicts, SameResults
    <3>4. CASE pc[t] = "respondUpdate"
      <4>1. kv' # kv
        BY Zenon, <1>0, <1>5, <2>2, <3>4 DEF AnswerMove
      <4>2. Settles(t)
        BY Zenon, <1>0, <1>5, <2>2, <3>4, <4>1
           DEF Bucket, Writes, Starts, Assigns, Records, Fails, Pauses, MarksOwn,
           MarksOther
      <4>3. loc[t].msg.step = kv[w].step
        BY Zenon, <1>0, <1>5, <2>2, <3>4, <4>2 DEF Settles, Paused, Asks
      <4> QED  BY Zenon, <2>2, <3>1, <3>2, <4>3 DEF SameResults
    <3> QED  BY Zenon, <3>1, <3>3, <3>4
  <2> QED  BY Zenon, <2>1, <2>2
<1> QED  BY Zenon, <1>2, <1>3, <1>4, <1>5

LEMMA OnceKept ==
    ASSUME DecisionInvariant, TypeOK', NEW t \in Thread, Effect(t), NEW d \in HumanStep
    PROVE  Once(d)'
<1> SUFFICES ASSUME ~Exempt(d[1])'
             PROVE  /\ Len(resolved'[d]) <= 1
                    /\ \A u \in Thread : Resolves(u, d[1], d[2])' => resolved'[d] = <<>>
                    /\ resolved'[d] # <<>> \/ (\E u \in Thread : Resolves(u, d[1], d[2])') =>
                          ~Waits(kv'[d[1]], d[2])
  BY Zenon DEF Once, Waits, Asks
<1>0. PICK w \in Workflow, k \in Nat : d = <<w, k>> /\ d[1] = w /\ d[2] = k
  BY Zenon, StepNames
<1>1. ~Exempt(w) /\ Bucket(t) /\ AnswerMove(t) /\ VerdictMove(t) /\ CoordinatorTypeOK
      /\ kv[w] \in WorkflowState /\ kv'[w] \in WorkflowState
  BY Zenon, <1>0, OfThread, BucketGrows, ResultsGrow DEF Effect, Moves
<1>2. /\ Len(resolved[d]) <= 1
      /\ \A u \in Thread : Resolves(u, w, k) => resolved[d] = <<>>
      /\ resolved[d] # <<>> \/ (\E u \in Thread : Resolves(u, w, k)) => ~Waits(kv[w], k)
  BY Zenon, <1>0, <1>1 DEF DecisionInvariant, Related, Once
<1>3. \A u \in Thread : Resolves(u, w, k) => Answers(u, w, k)
  BY Zenon DEF Resolves, Answers, AnswerLabel
<1>4. resolved'[d] = resolved[d] \/ (Resolves(t, w, k) /\ pc'[t] # "resolve" /\ resolved[d] = <<>>
                                    /\ resolved'[d] = Append(resolved[d], loc[t].msg.status))
  BY Zenon, <1>0, <1>2, VerdictTrace DEF Publishes
<1>5. ASSUME NEW u \in Thread, Resolves(u, w, k)'
      PROVE  \/ Resolves(u, w, k)
             \/ u = t /\ Settles(t) /\ w = t[2] /\ Waits(kv[w], k)
  <2>1. CASE u # t
    BY Zenon, <1>5, <2>1, OthersMove DEF Resolves
  <2>2. CASE u = t
    <3>1. pc[t] \in {"respondUpdate", "resolve"} /\ loc'[t].msg = loc[t].msg /\ t[2] = w /\ loc[t].msg.step = k
          /\ pc'[t] = "resolve"
      BY Zenon, <1>1, <1>5, <2>2 DEF AnswerMove, HasAnswer, AnswerLabel, Resolves
    <3>2. CASE pc[t] = "respondUpdate"
      <4>0. AnswerMove(t)
        BY Zenon, <1>1
      <4>1. kv' # kv
        BY ONLY <4>0, <3>1, <3>2, Zenon DEF AnswerMove
      <4>2. PICK v \in Workflow : Writes(t, v)
        BY ONLY Zenon, <1>1, <4>1 DEF Bucket
      <4>3. Settles(t)
        <5>1. ~Starts(t) /\ ~Assigns(t) /\ ~Records(t)
          BY ONLY Zenon, <3>1, <3>2 DEF Starts, Assigns, Records
        <5>2. ~Fails(t) /\ ~Pauses(t) /\ ~MarksOwn(t)
          BY ONLY Zenon, <3>2 DEF Fails, Pauses, MarksOwn
        <5>3. ~MarksOther(t, v)
          BY ONLY Zenon, <3>2 DEF MarksOther
        <5> QED  BY ONLY Zenon, <4>2, <5>1, <5>2, <5>3 DEF Writes
      <4> QED  BY Zenon, <2>2, <3>1, <3>2, <4>3 DEF Settles, Waits
    <3> QED  BY Zenon, <2>2, <3>1, <3>2 DEF Resolves
  <2> QED  BY Zenon, <2>1, <2>2
<1>6. Len(resolved'[d]) <= 1
  BY <1>2, <1>4
<1>7. ASSUME NEW u \in Thread, Resolves(u, w, k)'
      PROVE  resolved'[d] = <<>>
  <2>1. resolved[d] = <<>>
    BY Zenon, <1>2, <1>5, <1>7
  <2>2. ~(Resolves(t, w, k) /\ pc'[t] # "resolve")
    <3> SUFFICES ASSUME Resolves(t, w, k), pc'[t] # "resolve"
                 PROVE  FALSE
      BY Zenon
    <3>1. u # t
      BY Zenon, <1>7 DEF Resolves
    <3>2. Resolves(u, w, k)
      BY Zenon, <1>5, <1>7, <3>1
    <3> QED  BY Zenon, <1>3, <3>1, <3>2, OneAnswers
  <2> QED  BY Zenon, <1>4, <2>1, <2>2
<1>8. ASSUME Waits(kv'[w], k)
      PROVE  resolved'[d] = <<>> /\ \A u \in Thread : ~Resolves(u, w, k)'
  <2>1. CASE Waits(kv[w], k)
    <3>1. resolved[d] = <<>> /\ \A u \in Thread : ~Resolves(u, w, k)
      BY Zenon, <1>2, <2>1
    <3>2. ~(w = t[2] /\ Settles(t))
      BY Zenon, <1>8 DEF Settles, Waits
    <3> QED  BY Zenon, <1>4, <1>5, <3>1, <3>2
  <2>2. CASE w = t[2] /\ k = loc[t].at /\ Pauses(t)
    <3>1. Alone(t, w, k) /\ pc[t] \in UnaskedLabel
      BY Zenon, <2>2, AloneWithStep, LabelSets DEF Pauses, UnaskedLabel
    <3>2. ~Asks(kv[w], k) /\ (\A u \in Thread : ~Answers(u, w, k)) /\ resolved[d] = <<>>
      BY Zenon, <1>0, <3>1 DEF Alone
    <3> QED  BY Zenon, <1>3, <1>4, <1>5, <3>2 DEF Waits
  <2>3. CASE w = t[2] /\ k = loc[t].at /\ MarksOwn(t)
    <3>1. pc[t] = "annotateUpdate" /\ kv[w].status = "waiting"
      BY Zenon, <1>8, <2>3 DEF MarksOwn, SameStatus, Waits
    <3>2. Contended(w)
      BY Zenon, <2>3, <3>1, OfThread DEF Annotations
    <3>3. InStep(w)
      BY Zenon, <1>1, <3>2 DEF Exempt
    <3>4. k = kv[w].step
      BY Zenon, <2>3, <3>1, <3>3, DispatchesCurrent, LabelSets
    <3>5. Waits(kv[w], k)
      BY Zenon, <3>1, <3>3, <3>4 DEF DecisionInvariant, Related, Paused, Waits
    <3> QED  BY Zenon, <2>1, <3>5
  <2> QED  BY Zenon, <1>1, <1>8, <2>1, <2>2, <2>3, PendingWrites
<1> QED  BY Zenon, <1>0, <1>6, <1>7, <1>8

LEMMA ConflictsKept ==
    ASSUME DecisionInvariant, TypeOK', NEW t \in Thread, Effect(t)
    PROVE  ConflictsMutual'
<1> SUFFICES ASSUME crashes' = 0, NEW d \in pending', NEW e \in pending', d # e, Overlap(d, e)
             PROVE  e \in noted'[d]
  BY Zenon DEF ConflictsMutual
<1>1. crashes = 0 /\ ((noted' = noted /\ pending' \subseteq pending) \/ IndexDecision(t))
  BY Zenon DEF Effect, IndexMove
<1>2. \A x, y \in pending : x # y /\ Overlap(x, y) => y \in noted[x]
  BY Zenon, <1>1 DEF DecisionInvariant, Related, ConflictsMutual
<1>3. CASE noted' = noted /\ pending' \subseteq pending
  BY Zenon, <1>2, <1>3
<1>4. CASE IndexDecision(t)
  <2> DEFINE x == <<t[2], loc[t].at>>
             conflicting == {y \in pending \ {x} : Overlap(x, y)}
  <2>1. /\ pending' = pending \cup {x}
        /\ noted' = [y \in HumanStep |->
                       IF y = x THEN noted[x] \cup conflicting
                       ELSE IF y \in conflicting THEN noted[y] \cup {x}
                       ELSE noted[y]]
    BY Zenon, <1>4 DEF IndexDecision
  <2>2. d \in HumanStep /\ Overlap(e, d)
    BY Zenon DEF TypeOK, CoordinatorTypeOK, Overlap
  <2>3. CASE d = x
    BY Zenon, <2>1, <2>2, <2>3
  <2>4. CASE d # x /\ e = x
    BY Zenon, <2>1, <2>2, <2>4
  <2>5. CASE d # x /\ e # x
    <3>1. d \in pending /\ e \in pending
      BY Zenon, <2>1, <2>5
    <3>2. e \in noted[d]
      BY Zenon, <1>2, <3>1
    <3>3. noted[d] \subseteq noted'[d]
      BY Zenon, <2>1, <2>2
    <3> QED  BY Zenon, <3>2, <3>3
  <2> QED  BY Zenon, <2>3, <2>4, <2>5
<1> QED  BY Zenon, <1>1, <1>3, <1>4

-----------------------------------------------------------------------------
(* The index after a step *)

\* What keeps a paused workflow in sight while nothing is written to it.
LEMMA IndexedKept ==
    ASSUME DecisionInvariant, TypeOK', NEW t \in Thread, Effect(t), NEW w \in Workflow, NEW p \in kv[w].pd,
           Counts(w), kv'[w] = kv[w], faults' = 0, p.conflicts = {}, Indexed(w, p.step)
    PROVE  Indexed(w, p.step)'
<1>0. IndexMove(t) /\ Visible(w) /\ kv[w].status = "waiting" /\ kv[w] \in WorkflowState
  BY Zenon, ResultsGrow DEF Effect, DecisionInvariant, Related, Counts
<1>k. PICK k : k = p.step
  BY Zenon
<1>s. \A u \in Thread \ {t} : pc[u] \in {"index", "respondUpdate", "timeoutUpdate"} =>
         pc'[u] = pc[u] /\ loc'[u] = loc[u]
  BY Zenon, OthersMove DEF Spawns
<1>t. SUFFICES Indexed(w, k)'
  <2>1. Indexed(w, k)' <=> Indexed(w, p.step)'
    BY Zenon, <1>k
  <2> QED  BY Zenon, <2>1
<1>1. CASE <<w, k>> \in pending
  <2>1. CASE Withdraws(t, <<w, k>>)
    <3>1. CASE pc[t] = "respond" /\ pc'[t] = "respondUpdate" /\ loc'[t] = loc[t] /\ w = t[2] /\ k = loc[t].msg.step
      <4>1. Snap(t).rev = kv[w].rev
        BY Zenon, <1>0, <1>k, <3>1 DEF Visible
      <4>2. Snap(t) = kv[w]
        BY Zenon, <3>1, <4>1, OfThread DEF StateRead, HoldsState, AsRead
      <4>3. Snap(t)' = kv'[w]
        BY Zenon, <3>1, <4>2 DEF Snap
      <4> QED  BY Zenon, <3>1, <4>3 DEF Indexed
    <3>2. CASE pc'[t] = "timeoutUpdate" /\ loc'[t].snap = kv[t[2]] /\ w = t[2]
      BY Zenon, <3>2 DEF Indexed, Snap
    <3> QED  BY Zenon, <2>1, <3>1, <3>2 DEF Withdraws
  <2> QED  BY Zenon, <1>0, <1>1, <2>1 DEF IndexMove, Indexed
<1>2. ASSUME NEW u \in Thread, u[2] = w, pc[u] = "index", loc[u].at = k
      PROVE  Indexed(w, k)'
  <2>1. CASE pc'[u] = pc[u] /\ loc'[u] = loc[u]
    BY Zenon, <1>2, <2>1 DEF Indexed
  <2>2. CASE u = t /\ <<w, k>> \in pending'
    BY Zenon, <2>2 DEF Indexed
  <2> QED  BY Zenon, <1>0, <1>2, <1>s, <2>1, <2>2 DEF IndexMove
<1>3. ASSUME NEW u \in Thread, u[2] = w, pc[u] \in {"respondUpdate", "timeoutUpdate"}, Snap(u) = kv[w]
      PROVE  Indexed(w, k)'
  <2>1. pc'[u] = pc[u] /\ loc'[u] = loc[u]
    <3>1. CASE u = t
      BY Zenon, <1>0, <1>3, <3>1 DEF IndexMove
    <3>2. CASE u # t
      BY Zenon, <1>3, <1>s, <3>2
    <3> QED  BY Zenon, <3>1, <3>2
  <2>2. Snap(u)' = kv'[w]
    BY Zenon, <1>3, <2>1 DEF Snap
  <2> QED  BY Zenon, <1>3, <2>1, <2>2 DEF Indexed
<1>4. CASE booting
  BY Zenon, <1>0, <1>4, <1>k DEF IndexMove, Indexed
<1>5. CASE \E n \in recovering : n.d = <<w, k>>
  BY Zenon, <1>0, <1>5 DEF IndexMove, Indexed
<1> QED  BY Zenon, <1>k, <1>1, <1>2, <1>3, <1>4, <1>5 DEF Indexed

LEMMA VisibleKept ==
    ASSUME DecisionInvariant, TypeOK', NEW t \in Thread, Effect(t), NEW w \in Workflow
    PROVE  Visible(w)'
<1> SUFFICES ASSUME Counts(w)'
             PROVE  /\ faults' = 0 => \A p \in kv'[w].pd : p.conflicts = {} => Indexed(w, p.step)'
                    /\ \A u \in Thread :
                          u[2] = w /\ pc'[u] \in {"respond", "respondUpdate"} /\ Snap(u)'.rev # kv'[w].rev =>
                              \A p \in kv'[w].pd : p.step = loc'[u].msg.step => p.conflicts # {}
  BY Zenon DEF Visible
<1>0. /\ Bucket(t) /\ IndexMove(t) /\ AnswerMove(t) /\ Visible(w) /\ faults \in Nat
      /\ crashes' = crashes /\ kv'[w].status = "waiting" /\ InStep(w)'
      /\ kv[w] \in WorkflowState /\ kv'[w] \in WorkflowState /\ OnTrack(t)
      /\ crashes = 0 \/ ~Contended(w)
  BY Zenon, OfThread, ResultsGrow, BucketGrows
     DEF Effect, Moves, IndexMove, Counts, DecisionInvariant, Related
<1>1. CASE kv'[w] = kv[w]
  <2>1. Counts(w)
    BY Zenon, <1>0, <1>1, BucketGrows DEF Counts
  <2>2. ASSUME faults' = 0, NEW p \in kv'[w].pd, p.conflicts = {}
        PROVE  Indexed(w, p.step)'
    <3>0. faults' >= faults
      BY <1>0, Zenon DEF IndexMove
    <3>1. faults = 0
      BY ONLY <1>0, <2>2, <3>0
    <3>2. p \in kv[w].pd /\ Indexed(w, p.step)
      BY Zenon, <1>0, <1>1, <2>1, <2>2, <3>1 DEF Visible
    <3> QED  BY Zenon, <1>1, <2>1, <2>2, <3>2, IndexedKept
  <2>3. ASSUME NEW u \in Thread, u[2] = w, pc'[u] \in {"respond", "respondUpdate"}, Snap(u)'.rev # kv'[w].rev,
               NEW p \in kv'[w].pd, p.step = loc'[u].msg.step
        PROVE  p.conflicts # {}
    <3>1. pc[u] \in {"respond", "respondUpdate"} /\ loc'[u] = loc[u]
      <4>1. CASE u # t
        BY Zenon, <2>3, <4>1, OthersMove
      <4>2. CASE u = t
        BY Zenon, <1>0, <1>1, <2>3, <4>2 DEF AnswerMove, Snap
      <4> QED  BY Zenon, <4>1, <4>2
    <3>2. Snap(u)' = Snap(u)
      BY Zenon, <3>1 DEF Snap
    <3> QED  BY Zenon, <1>0, <1>1, <2>1, <2>3, <3>1, <3>2 DEF Visible
  <2> QED  BY Zenon, <2>2, <2>3
<1>2. CASE w = t[2] /\ Pauses(t)
  <2>1. /\ pc[t] = "requestDecision" /\ pc'[t] = "index" /\ loc'[t] = loc[t]
        /\ \A p \in kv'[w].pd : p.step = loc[t].at
    BY <1>2 DEF Pauses
  <2>2. \A p \in kv'[w].pd : Indexed(w, p.step)'
    BY Zenon, <1>2, <2>1 DEF Indexed
  <2>3. ASSUME NEW u \in Thread, u[2] = w, pc'[u] \in {"respond", "respondUpdate"}
        PROVE  loc'[u].msg.step # loc[t].at
    <3>1. Alone(t, w, loc[t].at) /\ pc[t] \in UnaskedLabel /\ loc[t].at \in Nat
      BY Zenon, <1>2, <2>1, AloneWithStep, LabelSets, OfThread DEF UnaskedLabel
    <3>2. PICK k \in Nat : k = loc[t].at
      BY Zenon, <3>1
    <3>3. ~Answers(u, w, k) /\ ~Waits(kv[w], k)
      BY Zenon, <3>1, <3>2 DEF Alone, Waits
    <3>4. ~Answers(u, w, k)'
      BY Zenon, <3>3, AnswerTrace
    <3> QED  BY Zenon, <2>3, <3>2, <3>4 DEF Answers, AnswerLabel
  <2> QED  BY Zenon, <2>1, <2>2, <2>3
<1>3. CASE \A p \in kv'[w].pd : p.conflicts # {}
  BY Zenon, <1>3
<1>4. CASE w = t[2] /\ MarksOwn(t)
  <2>1. Contended(w) /\ (crashes = 0 => noted[<<w, loc[t].at>>] # {})
    BY Zenon, <1>4, OfThread DEF MarksOwn, Annotations
  <2>2. \A p \in kv'[w].pd : p.conflicts = noted[<<w, loc[t].at>>]
    BY <1>4 DEF MarksOwn
  <2> QED  BY Zenon, <1>0, <1>3, <2>1, <2>2
<1>5. CASE MarksOther(t, w)
  <2>1. PICK ids : (crashes = 0 => ids # {}) /\ kv'[w].pd = {[p EXCEPT !.conflicts = ids] : p \in kv[w].pd}
    BY Zenon, <1>5 DEF MarksOther
  <2>2. \A p \in kv[w].pd : [p EXCEPT !.conflicts = ids].conflicts = ids
    BY Zenon, <1>0 DEF WorkflowState, PendingDecision
  <2>3. \A p \in kv'[w].pd : p.conflicts = ids
    BY Zenon, <2>1, <2>2
  <2>4. crashes = 0
    BY Zenon, <1>0, <1>5 DEF MarksOther
  <2> QED  BY Zenon, <1>3, <2>1, <2>3, <2>4
<1> QED  BY Zenon, <1>0, <1>1, <1>2, <1>4, <1>5, PausedWrites

-----------------------------------------------------------------------------
(* The inductive invariant *)

LEMMA StepPreserves ==
    ASSUME DecisionInvariant, TypeOK', NEW t \in Thread, Effect(t), Local(t)'
    PROVE  DecisionInvariant'
<1>1. \A u \in Thread : Local(u)'
  BY Zenon, OthersKept
<1>2. \A w \in Workflow : Stored(w)'
  BY Zenon, StoredKept
<1>3. UnderWay'
  BY Zenon, UnderWayKept
<1>4. /\ \A s \in Thread : Fresh(s)'
      /\ StartedOnce'
      /\ \A w \in Workflow : Paused(w)' /\ Verdicts(w)' /\ Visible(w)'
      /\ \A d \in HumanStep : Once(d)'
      /\ ConflictsMutual'
  BY Zenon, FreshKept, StartedOnceKept, PausedKept, VerdictsKept, VisibleKept, OnceKept, ConflictsKept
<1>5. Related'
  BY Zenon, <1>4 DEF Related
<1> QED  BY Zenon, <1>1, <1>2, <1>3, <1>5 DEF DecisionInvariant

LEMMA InitInvariant ==
    ASSUME Init
    PROVE  DecisionInvariant
<1>0. /\ kv = [w \in Workflow |-> NoState]
      /\ pc = [t \in Thread |-> "idle"] /\ loc = [t \in Thread |-> NoLocals]
      /\ armed = {} /\ direct = {} /\ inbox = [t \in Consumer |-> {}]
      /\ crashes = 0 /\ pending = {} /\ resumeCh = {} /\ ~booting /\ recovering = {}
      /\ noted = [d \in HumanStep |-> {}]
      /\ todo = [t \in Thread |-> {}] /\ noting = [t \in Thread |-> {}]
      /\ channel = [d \in HumanStep |-> "empty"] /\ resolved = [d \in HumanStep |-> <<>>]
  BY Zenon DEF Init, EngineInit
<1>1. TypeOK
  <2>1. EngineTypeOK(HumanLabel)
    BY ValuesTyped DEF Init, EngineInit, EngineTypeOK, HumanLabel, EngineLabel
  <2>2. /\ noted \in [HumanStep -> SUBSET HumanStep]
        /\ todo \in [Thread -> SUBSET HumanStep]
        /\ noting \in [Thread -> SUBSET Note]
    BY Zenon, <1>0
  <2>3. channel \in [HumanStep -> {"empty", "approved", "denied"}]
    BY Zenon, <1>0
  <2>4. resolved \in [HumanStep -> Seq({"success", "failure"})]
    <3>1. <<>> \in Seq({"success", "failure"})
      OBVIOUS
    <3> QED  BY Zenon, <1>0, <3>1
  <2>5. pending \subseteq HumanStep /\ resumeCh \subseteq HumanStep /\ recovering \subseteq Note /\ booting \in BOOLEAN
    BY Zenon, <1>0 DEF Init
  <2>6. CoordinatorTypeOK
    BY Zenon, <2>2, <2>3, <2>4, <2>5 DEF CoordinatorTypeOK
  <2> QED  BY Zenon, <2>1, <2>6 DEF TypeOK
<1>2. \A t \in Thread : pc[t] = "idle" /\ loc[t] = NoLocals /\ todo[t] = {} /\ noting[t] = {}
  BY Zenon, <1>0
<1>3. ASSUME NEW t \in Thread
      PROVE  Local(t)
  BY Zenon, <1>2 DEF Local, Roles, InHand, StateRead, OnTrack, Annotations, HasResult, HasAnswer,
     AdvanceLabel, AnswerLabel,
     HoldsState, DispatchLabel, UnaskedLabel, BeginLabel, AgentLabel, AskLabel
<1>n. /\ NoState.results = <<>> /\ NoState.pd = {} /\ NoState.status = "none" /\ NoState.step = 0
  BY Zenon DEF NoState
<1>e. DOMAIN NoState.results = {} /\ Len(NoState.results) = 0
  BY <1>n
<1>4. /\ \A w \in Workflow : kv[w] = NoState
      /\ \A w \in Workflow : DOMAIN kv[w].results = {} /\ kv[w].pd = {} /\ kv[w].status = "none"
  BY Zenon, <1>0, <1>n, <1>e
<1>5. \A w \in Workflow : Stored(w)
  BY Zenon, <1>4, <1>n, <1>e DEF Stored
<1>6. UnderWay
  BY Zenon, <1>0 DEF UnderWay, Consumer
<1>7. \A t \in Thread : Fresh(t)
  BY Zenon, <1>2 DEF Fresh, Dispatches, DispatchLabel, UnaskedLabel, BeginLabel, AgentLabel, AskLabel
<1>8. StartedOnce
  BY Zenon, <1>0, <1>2, <1>4 DEF StartedOnce, WaitLabel, AdvanceLabel
<1>9. \A w \in Workflow : Paused(w) /\ Visible(w)
  BY Zenon, <1>4 DEF Paused, Visible, Counts
<1>10. \A w \in Workflow : Verdicts(w)
  BY Zenon, <1>0, <1>2, <1>4 DEF Verdicts, ResumeLabel, AdvanceLabel
<1>11. \A d \in HumanStep : Once(d)
  BY <1>0, <1>2 DEF Once, Resolves
<1>12. ConflictsMutual
  BY Zenon, <1>0 DEF ConflictsMutual
<1> QED  BY Zenon, <1>1, <1>3, <1>5, <1>6, <1>7, <1>8, <1>9, <1>10, <1>11, <1>12
            DEF DecisionInvariant, Related

\* A restart: the bucket, the messages and the published verdicts stay, every
\* handler and the coordinator's memory are gone.
LEMMA CrashPreserves ==
    ASSUME DecisionInvariant, TypeOK', Crash
    PROVE  DecisionInvariant'
<1>0. /\ kv' = kv /\ direct' = direct /\ inbox' = inbox /\ resolved' = resolved /\ faults' = faults
      /\ pc' = [t \in Thread |-> "idle"] /\ loc' = [t \in Thread |-> NoLocals]
      /\ armed' = {} /\ pending' = {} /\ resumeCh' = {} /\ booting' /\ recovering' = {}
      /\ todo' = [t \in Thread |-> {}] /\ noting' = [t \in Thread |-> {}]
      /\ channel' = [d \in HumanStep |-> "empty"] /\ crashes' = crashes + 1
  BY Zenon DEF Crash, CrashEngine, busVars
<1>1. crashes' # 0
  BY <1>0 DEF DecisionInvariant, TypeOK, EngineTypeOK
<1>2. \A t \in Thread : pc'[t] = "idle" /\ loc'[t] = NoLocals /\ todo'[t] = {} /\ noting'[t] = {}
  BY Zenon, <1>0
<1>3. ASSUME NEW t \in Thread
      PROVE  Local(t)'
  BY Zenon, <1>2 DEF Local, Roles, InHand, StateRead, OnTrack, Annotations, HasResult, HasAnswer,
     AdvanceLabel, AnswerLabel,
     HoldsState, DispatchLabel, UnaskedLabel, BeginLabel, AgentLabel, AskLabel
<1>4. \A w \in Workflow : InStep(w)' <=> InStep(w)
  BY Zenon, <1>0 DEF InStep
<1>5. \A w \in Workflow : Contended(w)' <=> Contended(w)
  BY Zenon, <1>0 DEF Contended
<1>6. \A w \in Workflow : Stored(w)'
  BY Zenon, <1>0 DEF DecisionInvariant, Stored, Reached
<1>7. UnderWay'
  <2>1. \A w, k : Reached(w, k)' <=> Reached(w, k)
    BY Zenon, <1>0 DEF Reached
  <2>2. UnderWay
    BY Zenon DEF DecisionInvariant
  <2> QED  BY Zenon, <1>0, <1>1, <2>1, <2>2 DEF UnderWay, OfAgent
<1>8. \A t \in Thread : Fresh(t)'
  BY Zenon, <1>2 DEF Fresh, Dispatches, DispatchLabel, UnaskedLabel, BeginLabel, AgentLabel, AskLabel
<1>9. StartedOnce'
  BY Zenon, <1>0, <1>2 DEF DecisionInvariant, Related, StartedOnce, WaitLabel, AdvanceLabel
<1>10. \A w \in Workflow : Paused(w)'
  BY Zenon, <1>0, <1>4 DEF DecisionInvariant, Related, Paused
<1>11. \A w \in Workflow : Visible(w)'
  BY Zenon, <1>0, <1>2 DEF Visible, Indexed
<1>12. ASSUME NEW w \in Workflow
       PROVE  Verdicts(w)'
  <2>1. Verdicts(w)
    BY Zenon DEF DecisionInvariant, Related
  <2> QED  BY Zenon, <1>0, <1>2, <1>4, <2>1 DEF Verdicts, ResumeLabel, AdvanceLabel
<1>13. ASSUME NEW d \in HumanStep
       PROVE  Once(d)'
  <2>1. d[1] \in Workflow /\ Once(d)
    BY Zenon, StepNames DEF DecisionInvariant, Related
  <2>2. \A t \in Thread : ~Resolves(t, d[1], d[2])'
    BY Zenon, <1>2 DEF Resolves
  <2> QED  BY Zenon, <1>0, <1>4, <1>5, <2>1, <2>2 DEF Once, Exempt
<1>14. ConflictsMutual'
  BY Zenon, <1>1 DEF ConflictsMutual
<1>15. Related'
  BY Zenon, <1>8, <1>9, <1>10, <1>11, <1>12, <1>13, <1>14 DEF Related
<1> QED  BY Zenon, <1>3, <1>6, <1>7, <1>15 DEF DecisionInvariant

\* Without workflows only recovery after a restart happens.
LEMMA IdlePreserves ==
    ASSUME DecisionInvariant, TypeOK', Next, ~Crash, Workflow = {}
    PROVE  DecisionInvariant'
<1>1. Thread = {} /\ HumanStep = {} /\ Consumer = {}
  BY Zenon DEF Thread, HumanStep, Consumer
<1>2. direct' = {} /\ armed' = {} /\ pending' = {} /\ resumeCh' = {} /\ recovering' = {}
  BY Zenon, <1>1 DEF TypeOK, EngineTypeOK, CoordinatorTypeOK, StepToAgent, Timer, Note
<1>3. direct = {} /\ armed = {} /\ pending = {} /\ recovering = {}
  BY Zenon, <1>1 DEF DecisionInvariant, TypeOK, EngineTypeOK, CoordinatorTypeOK, StepToAgent, Timer, Note
<1>4. booting' => booting /\ crashes' = crashes
  BY Zenon, <1>1, <1>3 DEF Next, EngineEnvironment, DecisionEnvironment, Recovery, ListForRecovery,
     decisionVars, recoveryVars
<1>5. UnderWay'
  BY Zenon, <1>1, <1>2, <1>4 DEF DecisionInvariant, UnderWay
<1>6. Related'
  BY Zenon, <1>1, <1>2 DEF Related, StartedOnce, ConflictsMutual
<1> QED  BY Zenon, <1>1, <1>5, <1>6 DEF DecisionInvariant

LEMMA NothingPreserves ==
    ASSUME DecisionInvariant, UNCHANGED vars
    PROVE  DecisionInvariant'
<1>0. /\ kv' = kv /\ pc' = pc /\ loc' = loc /\ armed' = armed /\ registered' = registered
      /\ active' = active /\ subscribed' = subscribed /\ direct' = direct /\ inbox' = inbox
      /\ published' = published /\ redelivered' = redelivered /\ faults' = faults /\ crashes' = crashes
      /\ pending' = pending /\ noted' = noted /\ todo' = todo /\ noting' = noting /\ resumeCh' = resumeCh
      /\ channel' = channel /\ resolved' = resolved /\ booting' = booting /\ recovering' = recovering
  BY Zenon DEF vars, engineVars, decisionVars, timerVars, memoryVars, busVars, boundVars,
     annotationVars, recoveryVars
<1>1. /\ \A w, k : Reached(w, k)' <=> Reached(w, k)
      /\ \A w : InStep(w)' <=> InStep(w)
      /\ \A w : Contended(w)' <=> Contended(w)
      /\ \A t : Snap(t)' = Snap(t)
      /\ \A t : (HasResult(t)' <=> HasResult(t)) /\ (HasAnswer(t)' <=> HasAnswer(t))
  BY Zenon, <1>0 DEF Reached, InStep, Contended, Snap, HasResult, HasAnswer
<1>2. TypeOK'
  BY Zenon, <1>0 DEF DecisionInvariant, TypeOK, EngineTypeOK, CoordinatorTypeOK
<1>3. ASSUME NEW t \in Thread
      PROVE  Local(t)'
  <2>1. Roles(t)' /\ InHand(t)'
    BY Zenon, <1>0, <1>1 DEF DecisionInvariant, Local, Roles, InHand
  <2>2. StateRead(t)'
    BY Zenon, <1>0, <1>1 DEF DecisionInvariant, Local, StateRead, AsRead, Steps
  <2>3. OnTrack(t)'
    BY Zenon, <1>0, <1>1 DEF DecisionInvariant, Local, OnTrack
  <2>4. Annotations(t)'
    BY Zenon, <1>0, <1>1 DEF DecisionInvariant, Local, Annotations
  <2> QED  BY Zenon, <2>1, <2>2, <2>3, <2>4 DEF Local
<1>4. \A w \in Workflow : Stored(w)'
  BY Zenon, <1>0, <1>1 DEF DecisionInvariant, Stored
<1>5. UnderWay'
  BY Zenon, <1>0, <1>1 DEF DecisionInvariant, UnderWay
<1>6. /\ \A w, k : Approved(w, k)' <=> Approved(w, k)
      /\ \A w, k : Sent(w, k)' <=> Sent(w, k)
      /\ \A t, w, k : Dispatches(t, w, k)' <=> Dispatches(t, w, k)
      /\ \A t, w, k : (Answers(t, w, k)' <=> Answers(t, w, k)) /\ (Resolves(t, w, k)' <=> Resolves(t, w, k))
      /\ \A w, k : Indexed(w, k)' <=> Indexed(w, k)
  BY Zenon, <1>0, <1>1 DEF Approved, Sent, Dispatches, Answers, Resolves, Indexed
<1>7. ASSUME NEW t \in Thread
      PROVE  Fresh(t)'
  <2>1. ASSUME NEW w \in Workflow, NEW k \in Nat, Alone(t, w, k)
        PROVE  Alone(t, w, k)'
    BY Zenon, <1>0, <1>1, <1>6, <2>1 DEF Alone
  <2> QED  BY Zenon, <1>6, <2>1 DEF DecisionInvariant, Related, Fresh
<1>8. StartedOnce'
  BY Zenon, <1>0, <1>6 DEF DecisionInvariant, Related, StartedOnce
<1>9. ASSUME NEW w \in Workflow
      PROVE  Paused(w)' /\ Verdicts(w)' /\ Visible(w)'
  <2>1. Paused(w) /\ Verdicts(w) /\ Visible(w)
    BY Zenon DEF DecisionInvariant, Related
  <2>2. Paused(w)' /\ Verdicts(w)'
    BY Zenon, <1>0, <1>1, <2>1 DEF Paused, Verdicts
  <2>3. Visible(w)'
    BY Zenon, <1>0, <1>1, <1>6, <2>1 DEF Visible, Counts
  <2> QED  BY Zenon, <2>2, <2>3
<1>10. \A d \in HumanStep : Once(d)'
  BY Zenon, <1>0, <1>1, <1>6 DEF DecisionInvariant, Related, Once, Exempt
<1>11. ConflictsMutual'
  BY Zenon, <1>0 DEF DecisionInvariant, Related, ConflictsMutual
<1> QED  BY Zenon, <1>2, <1>3, <1>4, <1>5, <1>7, <1>8, <1>9, <1>10, <1>11 DEF DecisionInvariant, Related

-----------------------------------------------------------------------------
(* Theorems *)

\* For any workflows, steps, resources and bounds, the inductive invariant holds
\* in every state the engine and the decision coordinator reach together.
THEOREM DecisionInvariantHolds == Spec => []DecisionInvariant
<1>1. Init => DecisionInvariant
  BY Zenon, InitInvariant
<1>2. DecisionInvariant /\ [Next]_vars => DecisionInvariant'
  <2> SUFFICES ASSUME DecisionInvariant, [Next]_vars
               PROVE  DecisionInvariant'
    BY Zenon
  <2>1. CASE UNCHANGED vars
    BY Zenon, <2>1, NothingPreserves
  <2>2. CASE Next
    <3>1. TypeOK'
      BY Zenon, <2>2, TypeKept
    <3> QED  BY Zenon, <2>2, <3>1, CrashPreserves, IdlePreserves, StepEffect, StepPreserves
  <2> QED  BY Zenon, <2>1, <2>2
<1> QED  BY <1>1, <1>2, PTL DEF Spec

\* Every variable of the engine and of the coordinator keeps its type.
THEOREM DecisionTypes == Spec => []TypeOK
<1>1. DecisionInvariant => TypeOK
  BY Zenon DEF DecisionInvariant
<1> QED  BY <1>1, DecisionInvariantHolds, PTL

\* decision.resolved is published at most once for a decision, except for one
\* that its own conflict annotations have made pending again in a workflow whose
\* results have got out of step.
THEOREM VerdictsAreUnique == Spec => []ResolvedOnce
<1>1. DecisionInvariant => ResolvedOnce
  BY Zenon DEF DecisionInvariant, Related, Once, Exempt, ResolvedOnce
<1> QED  BY <1>1, DecisionInvariantHolds, PTL

\* An approval is recorded once, and in a workflow whose results are in step it
\* was recorded after exactly that decision had been approved.
THEOREM ApprovalsAreTheirOwn == Spec => []ApprovalsAreReal
<1>1. DecisionInvariant => ApprovalsAreReal
  BY Zenon DEF DecisionInvariant, Related, StartedOnce, Verdicts, ApprovalsAreReal
<1> QED  BY <1>1, DecisionInvariantHolds, PTL

\* A workflow paused without conflicts can be found and answered through the
\* index once its handlers are at rest, and after a restart once the decisions
\* have been recovered, as long as no call has failed.
THEOREM PausesAreIndexed == Spec => []PausedIsVisible
<1>1. DecisionInvariant => PausedIsVisible
  <2> SUFFICES ASSUME DecisionInvariant, NEW w \in Workflow,
                      kv[w].status = "waiting",
                      \A t \in Thread : t[2] = w => pc[t] \in {"idle", "wait"},
                      ~booting, recovering = {}, faults = 0, InStep(w), crashes = 0 \/ ~Contended(w),
                      NEW p \in kv[w].pd, p.conflicts = {}
               PROVE  <<w, p.step>> \in pending
    BY Zenon DEF PausedIsVisible
  <2>1. Visible(w) /\ Counts(w)
    BY Zenon DEF DecisionInvariant, Related, Counts
  <2>2. Indexed(w, p.step)
    BY Zenon, <2>1 DEF Visible
  <2> QED  BY Zenon, <2>2 DEF Indexed
<1> QED  BY <1>1, DecisionInvariantHolds, PTL

\* Until the runtime restarts, pending decisions that need a common resource
\* know of each other.
THEOREM ConflictsAreMutual == Spec => []ConflictsMutual
<1>1. DecisionInvariant => ConflictsMutual
  BY Zenon DEF DecisionInvariant, Related
<1> QED  BY <1>1, DecisionInvariantHolds, PTL

\* What a step writes to a workflow with an outcome changes its status only by
\* requesting a decision.
LEMMA OutcomeStands ==
    ASSUME DecisionInvariant, Next, NEW w \in Workflow, InStep(w), kv[w].status \in Terminal,
           kv'[w].status # kv[w].status
    PROVE  \E t \in Thread : t[2] = w /\ pc[t] = "requestDecision" /\ pc'[t] = "index"
<1>1. ~Crash
  BY Zenon DEF Crash, CrashEngine
<1>2. TypeOK'
  BY Zenon, TypeKept
<1>3. PICK t \in Thread : Effect(t)
  BY Zenon, <1>1, <1>2, StepEffect
<1>4. PICK v \in Workflow : Writes(t, v)
  BY Zenon, <1>3 DEF Effect, Bucket
<1>5. v = w
  BY Zenon, <1>4 DEF Writes
<1>6. w = t[2] /\ Pauses(t)
  BY Zenon, <1>4, <1>5 DEF Writes, Starts, Assigns, Records, Fails, MarksOwn, MarksOther, Settles,
     SameStatus, Terminal
<1> QED  BY Zenon, <1>6 DEF Pauses

\* No answer, timeout, annotation or result in step undoes the outcome of a
\* workflow.
THEOREM OutcomesStand == Spec => OnlyRequestReopens
<1>1. DecisionInvariant /\ [Next]_vars =>
         [\A w \in Workflow :
             InStep(w) /\ kv[w].status \in Terminal /\ kv'[w].status # kv[w].status =>
                 \E t \in Thread : t[2] = w /\ pc[t] = "requestDecision" /\ pc'[t] = "index"]_vars
  BY Zenon, OutcomeStands
<1> QED  BY <1>1, DecisionInvariantHolds, PTL DEF Spec, OnlyRequestReopens

=============================================================================
