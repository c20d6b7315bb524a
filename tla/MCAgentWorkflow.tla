--------------------------- MODULE MCAgentWorkflow ---------------------------
(* Small instances of AgentWorkflow for TLC. *)
EXTENDS AgentWorkflow

CONSTANTS w1

\* One workflow of two agent steps.
TwoSteps == [w \in Workflow |-> <<"agent", "agent">>]

=============================================================================
