---------------------------- MODULE NodeRegistry ----------------------------
(***************************************************************************)
(* The node registry of a federated node: one entry per known node in a    *)
(* key-value bucket that survives restarts, and the operations the         *)
(* gateway and the node monitor run against it.                            *)
(*                                                                         *)
(* held[x] is the set of nodes whose entry has not been written since x    *)
(* read its revision: an update on that revision succeeds.                 *)
(***************************************************************************)
EXTENDS Naturals, FiniteSets

CONSTANTS
    Node,                 \* the nodes this one may come to know
    UnhealthyThreshold,
    DeadThreshold

ASSUME NodeThresholdAssumption ==
    /\ UnhealthyThreshold \in Nat \ {0}
    /\ DeadThreshold \in Nat
    /\ UnhealthyThreshold < DeadThreshold

\* The subscriptions to node.register, node.unregister and node.health.pong,
\* each handled sequentially, and the two loops of the monitor.
Actor == {"register", "unregister", "pong", "monitor", "cleanup"}

VARIABLES
    entry,      \* the stored NodeInfo of each node
    held,       \* the nodes whose revision an actor holds is current
    pc,         \* where each actor is
    loc         \* its local variables

registryVars == <<entry, held, pc, loc>>

NodeLifecycleStatus == {"none", "active", "unhealthy", "dead"}

\* No comparison tells counts from DeadThreshold on apart.
MissedCap == DeadThreshold

\* old: LastSeen lies more than CleanupTTL in the past.
NodeInfo == [status : NodeLifecycleStatus, missed : 0..MissedCap, old : BOOLEAN]
Info(s, m, o) == [status |-> s, missed |-> m, old |-> o]
NoNode == Info("none", 0, FALSE)
NewNode == Info("active", 0, FALSE)

Present(n) == entry[n].status # "none"
Dead(n) == entry[n].status = "dead"
Known == {n \in Node : Present(n)}

-----------------------------------------------------------------------------
(* What the operations write *)

Capped(m) == IF m > MissedCap THEN MissedCap ELSE m

\* Mutant: the second threshold is only looked at for an active node.
IncrementStuck(r) ==
    LET missed == Capped(r.missed + 1) IN
    Info(IF missed >= DeadThreshold /\ r.status = "active" THEN "dead"
         ELSE IF missed >= UnhealthyThreshold /\ r.status = "active" THEN "unhealthy"
         ELSE r.status,
         missed, r.old)

\* LastSeen is kept, so an old entry stays old.
IncrementMissedHeartbeats(r) ==
    LET missed == Capped(r.missed + 1) IN
    Info(IF missed >= DeadThreshold /\ r.status = "unhealthy" THEN "dead"
         ELSE IF missed >= UnhealthyThreshold /\ r.status = "active" THEN "unhealthy"
         ELSE r.status,
         missed, r.old)

\* Mutant: a heartbeat brings back any node.
HeartbeatRevives(r) == NewNode

\* A dead node stays dead, but is seen.
RecordHeartbeat(r) ==
    Info(IF r.status = "unhealthy" THEN "active" ELSE r.status, 0, FALSE)

\* Mutant: a number past the last status, which String() calls UNKNOWN.
UpdateStatusUnknown(r) == Info("unknown", r.missed, r.old)

UpdateStatusDead(r) == Info("dead", r.missed, r.old)

-----------------------------------------------------------------------------
(* The bucket *)

Put(n, r) ==
    /\ entry' = [entry EXCEPT ![n] = r]
    /\ held' = [x \in Actor |-> held[x] \ {n}]

ReadRevision(x, n) ==
    /\ held' = [held EXCEPT ![x] = IF Present(n) THEN @ \cup {n} ELSE @]
    /\ UNCHANGED entry

Current(x, n) == n \in held[x]

Update(x, n, r) ==
    IF Current(x, n) THEN Put(n, r) ELSE UNCHANGED entry /\ UNCHANGED held

Deregister(n) == Put(n, NoNode)

Goto(x, l) == pc' = [pc EXCEPT ![x] = l]
At(x) == loc[x].at

=============================================================================
