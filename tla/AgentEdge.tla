----------------------------- MODULE AgentEdge -----------------------------
(***************************************************************************)
(* A task on its way through the edges of the network: the A2A gateway's   *)
(* task manager starts a workflow, the workflow's step goes to an SDK      *)
(* agent the sidecar runs for an outside program, and the results of both  *)
(* go back to the engine.                                                  *)
(*                                                                         *)
(* The engine is what it promises its callers: a workflow starts, its step *)
(* is dispatched once, and the first result or the step's timeout decides  *)
(* it if it is still running.                                              *)
(***************************************************************************)
EXTENDS SidecarGateway, TaskManager

CONSTANT Scenarios      \* bounds of the runs: faults, visits and requests

ASSUME StepAssumption == Step = Workflow

ASSUME EdgeAssumption ==
    \A s \in Scenarios :
        /\ s.faults \in Nat
        /\ s.visits \in [registers : Nat, deletes : Nat, connects : Nat, signals : Nat]
        /\ s.requests \in [creations : SUBSET Task, cancels : Nat, queries : Nat, timeouts : Nat]

edgeVars == <<sdkVars, sidecarVars, taskVars>>

Init ==
    /\ SdkInit
    /\ SidecarInit
    /\ TaskInit
    /\ \E s \in Scenarios :
          faults = s.faults /\ visits = s.visits /\ requests = s.requests

\* Every variable keeps the shape the Go types give it.
TypeOK == SdkTypeOK /\ SidecarTypeOK /\ TaskTypeOK

-----------------------------------------------------------------------------
(* The engine *)

\* FindByCapability finds the agent while the registry holds it.
CreateTask(t) ==
    /\ \/ BusWorks(TRUE) /\ CreateBaranWorkflow(t, present, TRUE)
       \/ BusFails(TRUE) /\ CreateBaranWorkflow(t, present, FALSE)
    /\ UNCHANGED <<up, phase, startCtx, busCtx, subscribed, job, cache, used, forced,
                   unanswered, direct, results, present>>

\* The step event reaches every consumer of the agent's subject.
DispatchDirect(w) ==
    /\ direct' = direct \cup {w}
    /\ job' = [i \in Instance |->
                 IF "direct" \in subscribed[i] THEN [job[i] EXCEPT ![<<w, 1>>] = "unread"]
                                               ELSE job[i]]
    /\ unsent' = [c \in Client |-> IF conn[c] = "open" THEN unsent[c] \cup {w} ELSE unsent[c]]

\* IDs are given in order: a later workflow has a greater UUID.
IsNext(w) == status[w] = "none" /\ \A u \in Workflow : u < w => status[u] # "none"

\* The workflow gets an ID of the engine's choosing; without an agent it fails.
StartWorkflow(t, w) ==
    /\ t \in submitted
    /\ IsNext(w)
    /\ submitted' = submitted \ {t}
    /\ Put(w, IF present THEN "running" ELSE "failed")
    /\ IF present THEN DispatchDirect(w) ELSE UNCHANGED <<direct, job, unsent>>
    /\ UNCHANGED <<task, remote, cancelling, told, requests>>
    /\ UNCHANGED <<up, phase, startCtx, busCtx, subscribed, cache, used, forced, unanswered,
                   results, present, faults>>
    /\ UNCHANGED <<agents, lock, managed, removed, clients, hadClient, conn, at, channel,
                   closed, seen, server, target, visits>>

\* A workflow that is not running any more ignores results and timeouts.
Decide(w, s) ==
    /\ status[w] = "running"
    /\ Put(w, s)
    /\ UNCHANGED <<submitted, task, remote, cancelling, told>>
    /\ UNCHANGED sdkVars

StepResult(r) ==
    /\ Decide(r.step, "completed")
    /\ UNCHANGED requests

StepTimeout(w) ==
    /\ requests.timeouts > 0
    /\ requests' = [requests EXCEPT !.timeouts = @ - 1]
    /\ Decide(w, "failed")

Engine ==
    \/ \E t \in LocalTask, w \in Workflow : StartWorkflow(t, w)
    \/ /\ \/ \E r \in results : StepResult(r)
          \/ \E w \in Workflow : StepTimeout(w)
       /\ UNCHANGED sidecarVars

-----------------------------------------------------------------------------
(* The specification *)

SidecarProcess ==
    /\ Alive
    /\ \/ /\ \E i \in Instance :
                \/ StartStep(i)
                \/ \E d \in Delivery : DispatchStep(i, d)
                \/ HealthPing(i)
                \/ StopStep(i)
          /\ UNCHANGED sidecarVars
       \/ \E i \in Instance : Registration(i)
       \/ ManagerStep
       \/ \E c \in Client : Connection(c)
       \/ \E c \in Client, s \in Step : HandlePublish(c, s)
    /\ UNCHANGED taskVars

Gateway ==
    \/ /\ \E t \in LocalTask : CreateTask(t)
       /\ UNCHANGED sidecarVars
    \/ TaskStep /\ UNCHANGED <<sdkVars, sidecarVars>>

Next == SidecarProcess \/ Gateway \/ Engine

\* The goroutines of the sidecar and of its SDK agents go on; a handler may take
\* for ever to return, and programs come and go as they please.
SidecarGoesOn(i) ==
    /\ Alive
    /\ \/ (StartStep(i) \/ StopStep(i)) /\ UNCHANGED sidecarVars
       \/ Registration(i)
       \/ /\ CloseClients(i)
          /\ UNCHANGED <<server, target, visits>>
          /\ UNCHANGED <<up, busCtx, subscribed, job, cache, used, forced, unanswered, direct,
                         results, present, faults, lock, hadClient, conn, at, unsent, channel,
                         seen>>
    /\ UNCHANGED taskVars

Fairness == \A i \in Instance : WF_edgeVars(SidecarGoesOn(i))

Spec == Init /\ [][Next]_edgeVars /\ Fairness

-----------------------------------------------------------------------------
(* Properties *)

\* A deregistered agent's Stop comes to its end, however long its handlers take.
DeregisterEnds ==
    \A i \in Instance : i \in removed ~> (phase[i] = "stopped" \/ ~Alive)
=============================================================================
