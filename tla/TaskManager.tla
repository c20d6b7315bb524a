---------------------------- MODULE TaskManager ----------------------------
(***************************************************************************)
(* The A2A gateway's task manager: CreateTask starts a one-step workflow,  *)
(* or passes the task on to an external A2A agent and polls it; GetTask    *)
(* and CancelTask work on the workflow state store.                        *)
(*                                                                         *)
(* A task ID is the ID CreateTask returns.  Workflow IDs are the store's   *)
(* keys; the engine makes up its own, so the two never coincide.  A client *)
(* can learn a workflow ID from the operator API.                          *)
(***************************************************************************)
EXTENDS Naturals

CONSTANTS
    LocalTask,          \* tasks whose skill an agent of the network offers
    VirtualTask,        \* tasks whose skill an external A2A agent offers
    Workflow            \* IDs the engine gives to workflows

Task == LocalTask \cup VirtualTask

VARIABLES
    status,         \* the status the store holds for each workflow
    submitted,      \* local tasks whose workflow.start is on the bus
    task,           \* what CreateTask has returned for each task, or where it is
    remote,         \* the state of each task at its external agent
    cancelling,     \* workflows CancelTask has read, and may write
    fresh,          \* ... and whose revision has not changed since
    told,           \* the last state a client was told of each workflow
    requests        \* creations, cancellations, queries and timeouts still to come

taskVars == <<status, submitted, task, remote, cancelling, fresh, told, requests>>

Terminal == {"completed", "failed"}
Status == {"none", "running"} \cup Terminal
Returned == {"submitted", "completed", "failed", "error"}

TaskInit ==
    /\ status = [w \in Workflow |-> "none"]
    /\ submitted = {}
    /\ task = [t \in Task |-> "none"]
    /\ remote = [t \in VirtualTask |-> "none"]
    /\ cancelling = {}
    /\ fresh = {}
    /\ told = [w \in Workflow |-> "none"]

TaskTypeOK ==
    /\ status \in [Workflow -> Status]
    /\ submitted \subseteq LocalTask
    /\ task \in [Task -> {"none", "polling"} \cup Returned]
    /\ remote \in [VirtualTask -> {"none", "working"} \cup Terminal]
    /\ cancelling \subseteq Workflow
    /\ fresh \subseteq cancelling
    /\ told \in [Workflow -> {"none", "working", "canceled"} \cup Terminal]
    /\ requests \in [creations : SUBSET Task, cancels : Nat, queries : Nat,
                    timeouts : Nat]

-----------------------------------------------------------------------------
(* CreateTask *)

Ask(t) ==
    /\ t \in requests.creations
    /\ requests' = [requests EXCEPT !.creations = @ \ {t}]

\* The task is submitted under an ID of its own; or no agent offers the skill,
\* or workflow.start cannot be published.
CreateBaranWorkflow(t, found, published) ==
    /\ Ask(t)
    /\ task' = [task EXCEPT ![t] = IF found /\ published THEN "submitted" ELSE "error"]
    /\ submitted' = IF found /\ published THEN submitted \cup {t} ELSE submitted
    /\ UNCHANGED <<status, remote, cancelling, fresh, told>>

\* message/send reaches the external agent, or not.
DispatchToVirtualAgent(t) ==
    /\ Ask(t)
    /\ \/ /\ task' = [task EXCEPT ![t] = "polling"]
          /\ remote' = [remote EXCEPT ![t] = "working"]
       \/ task' = [task EXCEPT ![t] = "error"] /\ UNCHANGED remote
    /\ UNCHANGED <<status, submitted, cancelling, fresh, told>>

\* A poll that fails, or finds the task at work, is repeated.
PollUntilTerminal(t) ==
    /\ task[t] = "polling"
    /\ remote[t] \in Terminal
    /\ task' = [task EXCEPT ![t] = remote[t]]
    /\ UNCHANGED <<status, submitted, remote, cancelling, fresh, told, requests>>

\* After five minutes, or when the client's request is gone.
PollEnds(t) ==
    /\ task[t] = "polling"
    /\ task' = [task EXCEPT ![t] = "submitted"]
    /\ UNCHANGED <<status, submitted, remote, cancelling, fresh, told, requests>>

RemoteEnds(t) ==
    /\ remote[t] = "working"
    /\ \E s \in Terminal : remote' = [remote EXCEPT ![t] = s]
    /\ UNCHANGED <<status, submitted, task, cancelling, fresh, told, requests>>

-----------------------------------------------------------------------------
(* The store *)

\* A write gives the entry a new revision.
Put(w, s) ==
    /\ status' = [status EXCEPT ![w] = s]
    /\ fresh' = fresh \ {w}

-----------------------------------------------------------------------------
(* GetTask and CancelTask *)

WorkflowStatusToTaskStatus(s) == IF s = "running" THEN "working" ELSE s

\* A task the store does not hold is reported as not found.
Found(id) == id \in Workflow /\ status[id] # "none"

GetTask(id) ==
    /\ requests.queries > 0
    /\ requests' = [requests EXCEPT !.queries = @ - 1]
    /\ Found(id)
    /\ told' = [told EXCEPT ![id] = WorkflowStatusToTaskStatus(status[id])]
    /\ UNCHANGED <<status, submitted, task, remote, cancelling, fresh>>

CancelRead(id) ==
    /\ requests.cancels > 0
    /\ requests' = [requests EXCEPT !.cancels = @ - 1]
    /\ Found(id)
    /\ status[id] \notin Terminal
    /\ cancelling' = cancelling \cup {id}
    /\ fresh' = fresh \cup {id}
    /\ UNCHANGED <<status, submitted, task, remote, told>>

\* Mutant: the revision is not compared.
CancelUnguarded(id) ==
    /\ id \in cancelling
    /\ cancelling' = cancelling \ {id}
    /\ Put(id, "failed")
    /\ told' = [told EXCEPT ![id] = "canceled"]
    /\ UNCHANGED <<submitted, task, remote, requests>>

\* The workflow becomes FAILED if its revision is still the one read.
CancelWrite(id) ==
    /\ id \in cancelling
    /\ cancelling' = cancelling \ {id}
    /\ IF id \in fresh
       THEN Put(id, "failed") /\ told' = [told EXCEPT ![id] = "canceled"]
       ELSE UNCHANGED <<status, fresh, told>>
    /\ UNCHANGED <<submitted, task, remote, requests>>

TaskStep ==
    \/ \E t \in VirtualTask :
          \/ DispatchToVirtualAgent(t)
          \/ PollUntilTerminal(t)
          \/ PollEnds(t)
          \/ RemoteEnds(t)
    \/ \E w \in Workflow : GetTask(w) \/ CancelRead(w) \/ CancelWrite(w)

-----------------------------------------------------------------------------
(* Properties *)

Stands(reported, s) ==
    CASE reported = "completed" -> s = "completed"
      [] reported \in {"failed", "canceled"} -> s = "failed"
      [] OTHER -> TRUE

\* What a client was told of a task's end stands from then on: a task reported
\* completed is completed, one reported canceled or failed is failed, whatever
\* results, timeouts and cancellations are still under way.  This is about the
\* workflows of one agent step that CreateTask makes; a workflow with a human step,
\* which CancelTask accepts as well, may be reopened (OnlyRequestReopens).
ReportedOutcomeStands == [][\A w \in Workflow : Stands(told[w], status'[w])]_taskVars
=============================================================================
