---------------------------- MODULE MCAgentEdge ----------------------------
(***************************************************************************)
(* Small instances of AgentEdge: two registrations of one agent, three     *)
(* workflows, an SSE and a WebSocket connection, one external task.        *)
(***************************************************************************)
EXTENDS AgentEdge

CONSTANTS t1, t2, t3, v, c, d

Bound(f, registers, deletes, connects, signals, creations, cancels, queries, timeouts) ==
    [faults |-> f,
     visits |-> [registers |-> registers, deletes |-> deletes, connects |-> connects,
                 signals |-> signals],
     requests |-> [creations |-> creations, cancels |-> cancels, queries |-> queries,
                   timeouts |-> timeouts]]

\* Three steps, of which one is delivered twice; an agent registered twice, and a
\* shutdown; its connections; a program that is slow to read; tasks and their
\* cancellation; an agent stopped while a call fails.
ThreeSteps  == Bound(1, 1, 0, 0, 0, {t1, t2, t3}, 0, 0, 0)
Registered  == Bound(0, 2, 1, 0, 1, {t1}, 0, 0, 0)
Connections == Bound(0, 1, 1, 3, 0, {t1}, 0, 0, 0)
SlowProgram == Bound(0, 1, 0, 1, 0, {t1, t2}, 0, 0, 0)
Tasks       == Bound(0, 1, 0, 0, 0, {t1, v}, 1, 3, 1)
Stopped     == Bound(1, 1, 1, 0, 0, {t1, t2}, 0, 0, 0)

MCScenarios == {ThreeSteps, Registered, Connections, SlowProgram, Tasks, Stopped}
OnePing == {Bound(0, 1, 0, 0, 0, {}, 0, 0, 0)}

=============================================================================
