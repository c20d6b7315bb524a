---------------------------- MODULE MCEventRelay ----------------------------
(* Two nodes and two agents. *)
EXTENDS EventRelay, TLC

CONSTANTS x, y, d, c, s1, s2

Bound(xs, ys, events) ==
    [starts |-> [z \in Agent |-> IF z = x THEN xs ELSE ys],
     stops |-> 0, losses |-> 0, redeliveries |-> 0, faults |-> 0, purges |-> 0,
     restarts |-> 0, carried |-> FALSE, events |-> events]

\* A workflow's step on buses that see each other's events; an agent that moves between
\* the nodes; a fan-out to two agents; two steps with a restart and failures; a purge.
Steps  == [Bound(1, 0, {s1}) EXCEPT !.carried = TRUE, !.restarts = 1]
Moves  == [Bound(2, 0, {d}) EXCEPT !.stops = 1, !.faults = 1]
FanOut == [Bound(1, 1, {c}) EXCEPT !.stops = 1]
Faulty == [Bound(1, 0, {s1, s2}) EXCEPT !.restarts = 1, !.faults = 1, !.losses = 1]
Purged == [Bound(1, 0, {}) EXCEPT !.purges = 1, !.redeliveries = 1, !.losses = 1, !.faults = 1]

MCScenarios == {Steps, Moves, FanOut, Faulty, Purged}
Symmetry == Permutations(Node)
Loop == {[Bound(2, 0, {d}) EXCEPT !.stops = 2]}

=============================================================================
