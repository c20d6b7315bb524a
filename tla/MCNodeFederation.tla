-------------------------- MODULE MCNodeFederation --------------------------
(* Two peers, one of them with an agent. *)
EXTENDS NodeFederation

CONSTANTS p, q, x

MCHome == [a \in {x} |-> p]

Bounds(j, l, g, a, r, s, f) ==
    [joins |-> j, leaves |-> l, pongs |-> g, announces |-> a, propagations |-> r, restarts |-> s,
     faults |-> f]

MCScenarios ==
    {Bounds(1, 1, 1, 1, 0, 0, 0), Bounds(1, 1, 0, 2, 0, 0, 1), Bounds(1, 1, 1, 0, 0, 0, 1),
     Bounds(1, 1, 0, 1, 0, 1, 0), Bounds(1, 1, 0, 0, 1, 0, 1), Bounds(2, 1, 0, 0, 0, 0, 0)}

=============================================================================
