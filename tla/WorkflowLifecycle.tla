-------------------------- MODULE WorkflowLifecycle --------------------------
(***************************************************************************)
(* What the engine promises to whoever starts a workflow of agent steps:   *)
(* it runs, records one result at a time, ends once, as completed exactly  *)
(* when every step has a result, and only then is the outcome announced.   *)
(* Handlers, timers, revisions and messages do not exist at this level.    *)
(***************************************************************************)
EXTENDS Naturals

CONSTANTS
    Workflow,
    Length      \* w -> number of steps

VARIABLES
    status,     \* w -> "none", "running", "completed" or "failed"
    recorded,   \* w -> number of step results recorded
    announced   \* w -> the set of outcomes announced for w

vars == <<status, recorded, announced>>

Init ==
    /\ status = [w \in Workflow |-> "none"]
    /\ recorded = [w \in Workflow |-> 0]
    /\ announced = [w \in Workflow |-> {}]

Start(w) ==
    /\ status[w] = "none"
    /\ Length[w] > 0
    /\ status' = [status EXCEPT ![w] = "running"]
    /\ UNCHANGED <<recorded, announced>>

Record(w) ==
    /\ status[w] = "running"
    /\ recorded[w] + 1 < Length[w]
    /\ recorded' = [recorded EXCEPT ![w] = @ + 1]
    /\ UNCHANGED <<status, announced>>

Complete(w) ==
    /\ status[w] = "running"
    /\ recorded[w] + 1 = Length[w]
    /\ recorded' = [recorded EXCEPT ![w] = @ + 1]
    /\ status' = [status EXCEPT ![w] = "completed"]
    /\ UNCHANGED announced

Fail(w) ==
    /\ status[w] = "running"
    /\ status' = [status EXCEPT ![w] = "failed"]
    /\ UNCHANGED <<recorded, announced>>

Announce(w) ==
    /\ status[w] \in {"completed", "failed"}
    /\ announced' = [announced EXCEPT ![w] = {status[w]}]
    /\ UNCHANGED <<status, recorded>>

Next == \E w \in Workflow :
            Start(w) \/ Record(w) \/ Complete(w) \/ Fail(w) \/ Announce(w)

Spec == Init /\ [][Next]_vars

=============================================================================
