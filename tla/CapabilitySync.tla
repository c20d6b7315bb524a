--------------------------- MODULE CapabilitySync ---------------------------
(***************************************************************************)
(* How the nodes of a federation come to know each other's agents: on its  *)
(* node an agent's registration is stored by one consumer and announced by *)
(* another; CapabilitySync passes the announcement on to the peers, which  *)
(* store the agent as a remote one.                                        *)
(*                                                                         *)
(* The consumers of the bus run concurrently and each keeps its order; an  *)
(* event may be delivered again.  The transport between nodes may lose a   *)
(* message and deliver those of different subjects in any order.  The      *)
(* links between the nodes' servers filter no subject, so what is          *)
(* published on one bus may be stored by the streams of others too.        *)
(* Abstracted: the health of an agent (AgentHealth) and of a node          *)
(* (NodeFederation), versions of capabilities.                             *)
(***************************************************************************)
EXTENDS Naturals, Sequences, FiniteSets

CONSTANTS
    Node,
    Agent           \* agent IDs; an agent runs on at most one node at a time

Nobody == "nobody"

ASSUME NobodyAssumption == Nobody \notin Node

VARIABLES
    members,        \* nodes whose federation gateway has started
    home,           \* the node each agent runs on
    pending,        \* lifecycle events each consumer of a node has still to handle
    local,          \* agents each node's registry holds as its own
    announcements,  \* the agent.capability.announce events stored on each node
    heard,          \* how many of them CapabilitySync was given
    wire,           \* federation messages on their way
    remote,         \* for each node, the remote.{node}.{agent} keys of its registry
    excused,        \* <<m, x>>: agent x has stopped, or what would tell m of x was
                    \* dropped, lost or undone (history)
    budget          \* what may still happen, see Scenarios

syncVars == <<members, home, pending, local, announcements, heard, wire, remote, excused,
              budget>>

\* What an event of an agent's life makes a node do: the registry, or the health
\* monitor, stores or forgets the agent, the announcer announces or withdraws it.
Consumer == {"store", "forget", "announce", "withdraw"}

Key == Node \X Agent
Message == [kind : {"announce", "remove"}, from : Node, to : Node, agent : Agent]

SyncInit ==
    /\ members = {}
    /\ home = [x \in Agent |-> Nobody]
    /\ pending = [n \in Node |-> {}]
    /\ local = [n \in Node |-> {}]
    /\ announcements = [n \in Node |-> <<>>]
    /\ heard = [n \in Node |-> 0]
    /\ wire = {}
    /\ remote = [n \in Node |-> {}]
    /\ excused = {}

SyncTypeOK ==
    /\ members \subseteq Node
    /\ home \in [Agent -> Node \cup {Nobody}]
    /\ pending \in [Node -> SUBSET (Consumer \X Agent)]
    /\ local \in [Node -> SUBSET Agent]
    /\ announcements \in [Node -> Seq([agent : Agent, empty : BOOLEAN])]
    /\ heard \in [Node -> Nat]
    /\ wire \subseteq Message
    /\ remote \in [Node -> SUBSET Key]
    /\ excused \subseteq Key

Spend(what) ==
    /\ budget[what] > 0
    /\ budget' = [budget EXCEPT ![what] = @ - 1]

\* The nodes whose streams store what is published on n.
Reached(n) == {S \in SUBSET Node : n \in S /\ (S = {n} \/ budget.carried)}

\* What n should have told the nodes in M of its agent x they were not told.
Excuse(n, x, M) == IF home[x] = n THEN excused \cup (M \X {x}) ELSE excused

-----------------------------------------------------------------------------
(* Nodes and agents come and go *)

\* Gateway.Start; a node that joins later is told of the other nodes, never of
\* the agents they announced before.
NodeJoins(n) ==
    /\ n \notin members
    /\ members' = members \cup {n}
    /\ UNCHANGED <<home, pending, local, announcements, heard, wire, remote, excused, budget>>

Deliver(S, events) ==
    pending' = [m \in Node |-> IF m \in S THEN pending[m] \cup events ELSE pending[m]]

AgentStarts(n, x) ==
    /\ home[x] = Nobody
    /\ budget.starts[x] > 0
    /\ budget' = [budget EXCEPT !.starts[x] = @ - 1]
    /\ home' = [home EXCEPT ![x] = n]
    /\ \E S \in Reached(n) : Deliver(S, {<<"store", x>>, <<"announce", x>>})
    /\ UNCHANGED <<members, local, announcements, heard, wire, remote, excused>>

\* It says so itself, or it crashed and the health monitor publishes AGENT_DEAD
\* and then purges its entry: the same work for the same consumers.
AgentStops(n, x) ==
    /\ home[x] = n
    /\ Spend("stops")
    /\ home' = [home EXCEPT ![x] = Nobody]
    /\ \E S \in Reached(n) : Deliver(S, {<<"forget", x>>, <<"withdraw", x>>})
    /\ excused' = excused \cup (Node \X {x})
    /\ UNCHANGED <<members, local, announcements, heard, wire, remote>>

\* An event whose acknowledgement is lost is delivered once more.
Handle(n, c, x) ==
    /\ <<c, x>> \in pending[n]
    /\ \/ pending' = [pending EXCEPT ![n] = @ \ {<<c, x>>}] /\ UNCHANGED budget
       \/ Spend("redeliveries") /\ UNCHANGED pending

Register(n, x) ==
    /\ Handle(n, "store", x)
    /\ local' = [local EXCEPT ![n] = @ \cup {x}]
    /\ UNCHANGED announcements

\* The registration fails: an error event is published, and that is all.
RegisterFails(n, x) ==
    /\ <<"store", x>> \in pending[n]
    /\ Spend("faults")
    /\ pending' = [pending EXCEPT ![n] = @ \ {<<"store", x>>}]
    /\ UNCHANGED <<local, announcements>>

\* An event whose handler fails is delivered again.
Deregister(n, x) ==
    /\ Handle(n, "forget", x)
    /\ local' = [local EXCEPT ![n] = @ \ {x}]
    /\ UNCHANGED announcements

\* CapabilityAnnouncer: no capabilities stand for an agent that is gone.
PublishAnnounce(n, c, x) ==
    /\ c \in {"announce", "withdraw"}
    /\ Handle(n, c, x)
    /\ \E S \in Reached(n) :
          announcements' = [m \in Node |->
              IF m \in S THEN Append(announcements[m], [agent |-> x, empty |-> c = "withdraw"])
              ELSE announcements[m]]
    /\ UNCHANGED local

-----------------------------------------------------------------------------
(* CapabilitySync *)

\* Every node that is up subscribes, the sender too; copies may be lost.
Send(n, kind, x) ==
    \E lost \in SUBSET members :
        /\ IF lost = {} THEN UNCHANGED budget ELSE Spend("losses")
        /\ wire' = wire \cup {[kind |-> kind, from |-> n, to |-> m, agent |-> x] :
                                 m \in members \ lost}
        /\ excused' = Excuse(n, x, (Node \ members) \cup lost)

\* An agent the registry does not hold (any more, or yet), or cannot look up, is not
\* announced.
Drop(n, x) ==
    /\ IF x \in local[n] THEN Spend("faults") ELSE UNCHANGED budget
    /\ excused' = Excuse(n, x, Node)
    /\ UNCHANGED wire

HandleLocalAnnounce(n) ==
    /\ n \in members
    /\ heard[n] < Len(announcements[n])
    /\ heard' = [heard EXCEPT ![n] = @ + 1]
    /\ LET e == announcements[n][heard[n] + 1] IN
         \/ e.empty /\ Send(n, "remove", e.agent)
         \/ ~e.empty /\ e.agent \in local[n] /\ Send(n, "announce", e.agent)
         \/ ~e.empty /\ Drop(n, e.agent)
    /\ UNCHANGED <<members, home, pending, local, announcements, remote>>

\* What was not acknowledged is delivered again; a consumer that a restarted node
\* makes under a new name is given everything from the start.
Redelivered(n) ==
    /\ Spend("redeliveries")
    /\ \E i \in 0..(heard[n] - 1) : heard' = [heard EXCEPT ![n] = i]
    /\ UNCHANGED <<members, home, pending, local, announcements, wire, remote, excused>>

\* Mutant: a node's own announcement is not ignored.
RemoteAnnounceAll(m) ==
    /\ m.kind = "announce"
    /\ remote' = [remote EXCEPT ![m.to] = @ \cup {<<m.from, m.agent>>}]

HandleRemoteAnnounce(m) ==
    /\ m.kind = "announce"
    /\ remote' = [remote EXCEPT ![m.to] = IF m.from = m.to THEN @
                                          ELSE @ \cup {<<m.from, m.agent>>}]

HandleRemoteRemove(m) ==
    /\ m.kind = "remove"
    /\ remote' = [remote EXCEPT ![m.to] = IF m.from = m.to THEN @
                                          ELSE @ \ {<<m.from, m.agent>>}]

Receive(m) ==
    /\ m \in wire
    /\ wire' = wire \ {m}
    /\ \/ /\ HandleRemoteAnnounce(m) \/ HandleRemoteRemove(m)
          /\ UNCHANGED <<excused, budget>>
       \/ /\ Spend("faults")
          /\ excused' = Excuse(m.from, m.agent, {m.to})
          /\ UNCHANGED remote
    /\ UNCHANGED <<members, home, pending, local, announcements, heard>>

\* A member takes node n for dead, or n says it leaves: its agents are purged, or
\* some of them when the purge fails on the way.  Nothing brings them back when n
\* returns.
PurgeNode(m, n) ==
    /\ m \in members
    /\ Spend("purges")
    /\ \E K \in SUBSET {k \in remote[m] : k[1] = n} :
          /\ remote' = [remote EXCEPT ![m] = @ \ K]
          /\ excused' = excused \cup {<<m, k[2]>> : k \in K}
    /\ UNCHANGED <<members, home, pending, local, announcements, heard, wire>>

\* The messages a node that restarts does not receive.
LoseMessages(n) ==
    /\ wire' = {w \in wire : w.to # n}
    /\ excused' = excused \cup {<<n, w.agent>> : w \in {v \in wire : v.to = n}}

SyncStep ==
    \/ \E n \in Node, x \in Agent :
          \/ AgentStarts(n, x)
          \/ AgentStops(n, x)
          \/ /\ \/ Register(n, x)
                \/ RegisterFails(n, x)
                \/ Deregister(n, x)
                \/ \E c \in Consumer : PublishAnnounce(n, c, x)
             /\ UNCHANGED <<members, home, heard, wire, remote, excused>>
    \/ \E n \in Node :
          \/ NodeJoins(n)
          \/ HandleLocalAnnounce(n)
          \/ Redelivered(n)
          \/ \E m \in Node : PurgeNode(m, n)
    \/ \E m \in wire : Receive(m)

-----------------------------------------------------------------------------
(* Properties *)

Quiet ==
    /\ wire = {}
    /\ \A n \in Node : pending[n] = {} /\ heard[n] = Len(announcements[n])

\* Once all is quiet every peer knows an agent that runs and has never stopped,
\* and no node lists an agent of its own as a remote one.  A peer is excused from
\* knowing the agent only if it had not joined when the announcement was sent (the
\* gateway tells a new node of nodes and aliases, never of agents); if it purged the
\* agent with its node or lost the message, in the transport, in a failing registry
\* or in its own restart; or if the agent's node handled the announcement before the
\* registration was stored (handleLocalAnnounce looks the agent up).
PeersLearn ==
    Quiet => \A x \in Agent : \A n, m \in Node :
                home[x] = n =>
                    /\ <<n, x>> \notin remote[n]
                    /\ m \in members \ {n} /\ <<m, x>> \notin excused => <<n, x>> \in remote[m]

=============================================================================
