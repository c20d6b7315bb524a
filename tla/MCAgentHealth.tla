---------------------------- MODULE MCAgentHealth ----------------------------
(* Small instances of AgentHealth for TLC. *)
EXTENDS AgentHealth

CONSTANTS a1, x1

With(starts, stops, faults, crashes, external) ==
    [starts |-> starts, stops |-> stops, faults |-> faults, crashes |-> crashes,
     external |-> external]

\* An SDK agent that stops and starts again, with a failing call or a crash; an
\* external agent whose endpoint fails once, likewise.
HealthScenarios ==
    {With(2, 1, 1, 0, {}), With(2, 1, 0, 1, {}),
     With(0, 1, 1, 0, {x1}), With(0, 1, 0, 1, {x1})}

=============================================================================
