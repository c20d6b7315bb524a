--------------------------- MODULE MCHumanWorkflow ---------------------------
(* Small instances of HumanWorkflow for TLC. *)
EXTENDS HumanWorkflow

CONSTANTS w1, w2

\* Two workflows of which a behaviour starts one, see OneStarted.
EitherTwoSteps == [w \in Workflow |-> IF w = w1 THEN <<"agent", "human">>
                                                ELSE <<"human", "human">>]

\* The workflows of the other instances all have the same steps.
AgentThenHuman == [w \in Workflow |-> <<"agent", "human">>]
HumanOnly      == [w \in Workflow |-> <<"human">>]
AgentThenTwo   == [w \in Workflow |-> <<"agent", "human", "human">>]

\* All human steps compete for one resource, or none does.
SharedResource == [d \in HumanStep |-> {"r"}]
NoResource     == [d \in HumanStep |-> {}]

\* State constraint: one workflow and one fault, redelivery or crash per
\* behaviour, and only redeliveries for w2.
OneStarted ==
    /\ \A v, w \in Workflow : kv[v].status # "none" /\ kv[w].status # "none" => v = w
    /\ faults + redelivered + crashes <= 1
    /\ kv[w2].status # "none" => faults + crashes = 0

=============================================================================
