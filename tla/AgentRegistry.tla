---------------------------- MODULE AgentRegistry ----------------------------
(***************************************************************************)
(* The agent registry: one entry per agent in a JetStream key-value        *)
(* bucket, and the operations its users run against it.                    *)
(*                                                                         *)
(* A revision is only ever compared with the current one, so it is         *)
(* represented by what the comparison tells: held[x] is the set of agents  *)
(* whose entry has not been written since x read its revision.             *)
(***************************************************************************)
EXTENDS Naturals, FiniteSets

CONSTANTS
    Managed,              \* agents built with the SDK
    External,             \* A2A agents onboarded by the gateway
    UnhealthyThreshold,
    DeadThreshold

ASSUME ThresholdAssumption ==
    /\ UnhealthyThreshold \in Nat \ {0}
    /\ DeadThreshold \in Nat
    /\ UnhealthyThreshold < DeadThreshold

Agent == Managed \cup External

\* The goroutines that use the registry: the consumers of agent.register,
\* agent.unregister and agent.health.pong, the ping loop, and one goroutine of
\* the gateway per external agent.
Consumer == {"register", "unregister", "pong"}
Actor == Consumer \cup {"monitor"} \cup External

ASSUME AgentAssumption ==
    /\ Managed \cap External = {}
    /\ External \cap (Consumer \cup {"monitor"}) = {}

VARIABLES
    bucket,     \* the stored registration of each agent
    held,       \* for each actor, the agents whose revision it holds is current
    pc,         \* where each actor is
    loc         \* its local variables

registryVars == <<bucket, held, pc, loc>>

Status == {"none", "active", "unhealthy", "dead"}

\* No comparison tells counts from DeadThreshold + 1 on apart.
MissedCap == DeadThreshold + 1

AgentRegistration == [status : Status, missed : 0..MissedCap]
NoEntry == [status |-> "none", missed |-> 0]
NewEntry == [status |-> "active", missed |-> 0]

Present(a) == bucket[a].status # "none"

-----------------------------------------------------------------------------
(* What the operations write *)

Capped(n) == IF n > MissedCap THEN MissedCap ELSE n

\* Mutant: the first threshold is passed before it counts.
IncrementLate(r) ==
    LET missed == Capped(r.missed + 1) IN
    [missed |-> missed,
     status |-> IF missed >= DeadThreshold /\ r.status = "unhealthy" THEN "dead"
                ELSE IF missed > UnhealthyThreshold /\ r.status = "active" THEN "unhealthy"
                ELSE r.status]

\* Mutant: only the second threshold is looked at.
IncrementToDead(r) ==
    LET missed == Capped(r.missed + 1) IN
    [missed |-> missed,
     status |-> IF missed >= DeadThreshold /\ r.status = "unhealthy" THEN "dead" ELSE r.status]

IncrementMissedHeartbeats(r) ==
    LET missed == Capped(r.missed + 1) IN
    [missed |-> missed,
     status |-> IF missed >= DeadThreshold /\ r.status = "unhealthy" THEN "dead"
                ELSE IF missed >= UnhealthyThreshold /\ r.status = "active" THEN "unhealthy"
                ELSE r.status]

\* Mutant: a heartbeat makes any agent active.
HeartbeatActivates(r) == [missed |-> 0, status |-> "active"]

RecordHeartbeat(r) ==
    [missed |-> 0,
     status |-> IF r.status = "unhealthy" THEN "active" ELSE r.status]

UpdateStatus(r) == [r EXCEPT !.status = "active"]

Written(op, r) ==
    CASE op = "increment" -> IncrementMissedHeartbeats(r)
      [] op = "heartbeat" -> RecordHeartbeat(r)
      [] op = "activate"  -> UpdateStatus(r)

-----------------------------------------------------------------------------
(* The bucket *)

\* Any write, a purge included, gives the key a new revision.
Put(a, r) ==
    /\ bucket' = [bucket EXCEPT ![a] = r]
    /\ held' = [x \in Actor |-> held[x] \ {a}]

\* Get returns the entry's revision, if there is an entry.
ReadRevision(x, a) ==
    /\ held' = [held EXCEPT ![x] = IF Present(a) THEN @ \cup {a} ELSE @]
    /\ UNCHANGED bucket

Purge(a) == Put(a, NoEntry)

\* Mutant: a plain Put in place of Update.
AlwaysCurrent(x, a) == TRUE

\* Update succeeds only on the revision it is given.
Current(x, a) == a \in held[x]

Update(x, a, r) ==
    IF Current(x, a) THEN Put(a, r) ELSE UNCHANGED bucket /\ UNCHANGED held

Goto(x, l) == pc' = [pc EXCEPT ![x] = l]

-----------------------------------------------------------------------------
(* Register: create, or read the revision and update on it *)

Busy(a, o, n) == [at |-> a, op |-> o, seen |-> NoEntry, tries |-> n]
NoLocals == Busy("nobody", "none", 0)

RegisterCreate(x, a, done) ==
    /\ IF Present(a) THEN UNCHANGED bucket /\ UNCHANGED held ELSE Put(a, NewEntry)
    /\ Goto(x, IF Present(a) THEN "registerGet" ELSE done)

\* The entry may be gone again by now: registration fails.
RegisterGet(x, failed) ==
    /\ pc[x] = "registerGet"
    /\ ReadRevision(x, loc[x].at)
    /\ Goto(x, IF Present(loc[x].at) THEN "registerUpdate" ELSE failed)

RegisterUpdate(x, done, failed) ==
    /\ pc[x] = "registerUpdate"
    /\ Update(x, loc[x].at, NewEntry)
    /\ Goto(x, IF Current(x, loc[x].at) THEN done ELSE failed)

-----------------------------------------------------------------------------
(* UpdateStatus, RecordHeartbeat and IncrementMissedHeartbeats: the entry is *)
(* read again, but written on the revision the caller passes.                *)

Reread(x, missing) ==
    /\ pc[x] = "reread"
    /\ loc' = [loc EXCEPT ![x].seen = bucket[loc[x].at]]
    /\ Goto(x, IF Present(loc[x].at) THEN "write" ELSE missing)
    /\ UNCHANGED bucket
    /\ UNCHANGED held

NewValue(x) == Written(loc[x].op, loc[x].seen)

Write(x, done, conflict) ==
    /\ pc[x] = "write"
    /\ Update(x, loc[x].at, NewValue(x))
    /\ Goto(x, IF Current(x, loc[x].at) THEN done ELSE conflict)
    /\ loc' = [loc EXCEPT ![x].seen = NoEntry]

=============================================================================
