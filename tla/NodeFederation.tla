--------------------------- MODULE NodeFederation ---------------------------
(***************************************************************************)
(* Who is in the federation, as one node sees it: its gateway handles the  *)
(* registrations and departures of its peers, its monitor pings them and   *)
(* counts what they miss, a second loop forgets nodes that have been dead  *)
(* long enough, and the agents of a dead node are purged from the agent    *)
(* registry.                                                               *)
(*                                                                         *)
(* The transport is publish-subscribe without acknowledgement: a message   *)
(* may be lost, messages on different subjects overtake each other, and a  *)
(* publisher receives its own messages.  A call to a registry may fail     *)
(* too, with or without its effect; the error is logged and no more.       *)
(***************************************************************************)
EXTENDS NodeRegistry

CONSTANTS
    Agent,          \* agents of the peers
    Home,           \* the peer each of them runs on
    Scenarios       \* bounds on joins, departures, answered pings, announcements
                    \* of agents, propagations by peers, restarts of this node and
                    \* calls to the registries that fail

Scenario ==
    [joins : Nat, leaves : Nat, pongs : Nat, announces : Nat, propagations : Nat,
     restarts : Nat, faults : Nat]

ASSUME FederationAssumption ==
    /\ Home \in [Agent -> Node]
    /\ Scenarios \subseteq Scenario

VARIABLES
    up,         \* the peers that run
    gone,       \* the peers that have stopped; an identifier is never reused
    inbox,      \* messages this node has still to handle
    pinged,     \* peers with a ping to answer
    remote,     \* agents of peers stored in the agent registry
    late,       \* history: those stored when their node was not alive here, since
                \* its last purge began
    left,       \* history: those a failed or interrupted purge left behind, since then
    budget      \* what is left of the scenario

federationVars == <<up, gone, inbox, pinged, remote, late, left, budget>>
vars == <<entry, held, pc, loc, up, gone, inbox, pinged, remote, late, left, budget>>

NodeSubject == {"register", "unregister", "pong"}
AgentSubject == {"announce", "remove"}

\* Bound: one unhandled message per subject and sender; another one is lost.
Message == (NodeSubject \X Node) \cup (AgentSubject \X Agent)

Label == {"idle", "create", "registerGet", "registerUpdate", "propagate",
          "write", "next", "keys", "purge"}

\* The node an actor is busy with, the entry it has read, whether the node is
\* new, what is left of a round, and the agents it is about to purge.
Local == [at : Node \cup {"nobody"}, seen : NodeInfo, new : BOOLEAN,
          todo : SUBSET Node, agents : SUBSET Agent]

NoLocals == [at |-> "nobody", seen |-> NoNode, new |-> FALSE, todo |-> {}, agents |-> {}]

\* Every variable keeps the shape the Go types give it.
TypeOK ==
    /\ entry \in [Node -> NodeInfo]
    /\ held \in [Actor -> SUBSET Node]
    /\ pc \in [Actor -> Label]
    /\ loc \in [Actor -> Local]
    /\ up \subseteq Node
    /\ gone \subseteq Node
    /\ inbox \subseteq Message
    /\ pinged \subseteq Node
    /\ remote \subseteq Agent
    /\ late \subseteq Agent
    /\ left \subseteq Agent
    /\ budget \in Scenario

Init ==
    /\ budget \in Scenarios
    /\ entry = [n \in Node |-> NoNode]
    /\ held = [x \in Actor |-> {}]
    /\ pc = [x \in Actor |-> "idle"]
    /\ loc = [x \in Actor |-> NoLocals]
    /\ up = {}
    /\ gone = {}
    /\ inbox = {}
    /\ pinged = {}
    /\ remote = {}
    /\ late = {}
    /\ left = {}

Spend(what) ==
    /\ budget[what] > 0
    /\ budget' = [budget EXCEPT ![what] = @ - 1]

Alive(n) == Present(n) /\ ~Dead(n)
AgentsOf(n) == {a \in Agent : Home[a] = n}

\* Any of the messages may be lost on the way.
Send(messages) == \E arrives \in SUBSET messages : inbox' = inbox \cup arrives

-----------------------------------------------------------------------------
(* Peers *)

\* A peer's gateway announces its node when it starts.
PeerStarts(p) ==
    /\ p \in Node \ (up \cup gone)
    /\ Spend("joins")
    /\ up' = up \cup {p}
    /\ Send({<<"register", p>>})
    /\ UNCHANGED registryVars
    /\ UNCHANGED <<gone, pinged, remote, late, left>>

\* It announces its departure when it stops; a crash is a lost announcement.
PeerStops(p) ==
    /\ p \in up
    /\ Spend("leaves")
    /\ up' = up \ {p}
    /\ gone' = gone \cup {p}
    /\ pinged' = pinged \ {p}
    /\ Send({<<"unregister", p>>})
    /\ UNCHANGED registryVars
    /\ UNCHANGED <<remote, late, left>>

\* A peer that meets a new node sends it all the nodes it knows, dead ones
\* included; this node receives them too.
PeerPropagates(p, n) ==
    /\ p \in up
    /\ n \in up \cup gone
    /\ Spend("propagations")
    /\ Send({<<"register", n>>})
    /\ UNCHANGED registryVars
    /\ UNCHANGED <<up, gone, pinged, remote, late, left>>

\* An agent registers with its node, or leaves it.
PeerForwards(a, s) ==
    /\ Home[a] \in up
    /\ Spend("announces")
    /\ Send({<<s, a>>})
    /\ UNCHANGED registryVars
    /\ UNCHANGED <<up, gone, pinged, remote, late, left>>

\* handlePing: a peer answers whoever pings.
AnswerPing(p) ==
    /\ p \in pinged \cap up
    /\ Spend("pongs")
    /\ pinged' = pinged \ {p}
    /\ Send({<<"pong", p>>})
    /\ UNCHANGED registryVars
    /\ UNCHANGED <<up, gone, remote, late, left>>

-----------------------------------------------------------------------------
(* handleNodeRegister *)

Receive(s, n) ==
    /\ <<s, n>> \in inbox
    /\ inbox' = inbox \ {<<s, n>>}

\* The next label of x; its locals end with the handler.
Continue(x, l) ==
    /\ Goto(x, l)
    /\ loc' = [loc EXCEPT ![x] = IF l = "idle" THEN NoLocals ELSE @]

NodeVarsOnly == UNCHANGED <<up, gone, pinged, remote, late, left, budget>>

HandleNodeRegister(n) ==
    /\ pc["register"] = "idle"
    /\ Receive("register", n)
    /\ loc' = [loc EXCEPT !["register"] = [NoLocals EXCEPT !.at = n, !.new = ~Present(n)]]
    /\ Goto("register", "create")
    /\ UNCHANGED <<entry, held>>
    /\ NodeVarsOnly

\* Only a node that was not known is told what this one knows.
Registered == IF loc["register"].new THEN "propagate" ELSE "idle"

RegisterCreate ==
    /\ pc["register"] = "create"
    /\ IF Present(At("register"))
       THEN UNCHANGED <<entry, held>> /\ Continue("register", "registerGet")
       ELSE Put(At("register"), NewNode) /\ Continue("register", Registered)
    /\ UNCHANGED inbox
    /\ NodeVarsOnly

RegisterGet ==
    /\ pc["register"] = "registerGet"
    /\ ReadRevision("register", At("register"))
    /\ Continue("register", IF Present(At("register")) THEN "registerUpdate" ELSE "idle")
    /\ UNCHANGED inbox
    /\ NodeVarsOnly

RegisterUpdate ==
    /\ pc["register"] = "registerUpdate"
    /\ Update("register", At("register"), NewNode)
    /\ Continue("register", IF Current("register", At("register")) THEN Registered ELSE "idle")
    /\ UNCHANGED inbox
    /\ NodeVarsOnly

\* propagateKnownNodes: every known node but the new one, whatever its status.
PropagateKnownNodes ==
    /\ pc["register"] = "propagate"
    /\ Send({<<"register", n>> : n \in Known \ {At("register")}})
    /\ Continue("register", "idle")
    /\ UNCHANGED <<entry, held>>
    /\ NodeVarsOnly

-----------------------------------------------------------------------------
(* handleNodeUnregister *)

\* The locals of a handler that has read the entry of n.
ReadEntry(n) == [NoLocals EXCEPT !.at = n, !.seen = entry[n]]
Found(n) == IF Present(n) THEN ReadEntry(n) ELSE NoLocals

\* What is left of a round after node n.
Rest(x, n) == [NoLocals EXCEPT !.todo = loc[x].todo \ {n}]

\* A purge of n is to remove all of its agents stored by now; the entry that was read
\* is of no more use.
PurgeBegins(x, n) ==
    /\ Goto(x, "keys")
    /\ loc' = [loc EXCEPT ![x] = [Rest(x, n) EXCEPT !.at = n]]
    /\ late' = late \ AgentsOf(n)
    /\ left' = left \ AgentsOf(n)

\* UpdateStatus reads the entry again but writes on this revision, so what it
\* writes, if it does, is what is read here.
HandleNodeUnregister(n) ==
    /\ pc["unregister"] = "idle"
    /\ Receive("unregister", n)
    /\ ReadRevision("unregister", n)
    /\ loc' = [loc EXCEPT !["unregister"] = Found(n)]
    /\ Goto("unregister", IF Present(n) THEN "write" ELSE "idle")
    /\ NodeVarsOnly

\* Mutant: the node is dead, its agents stay.
UnregisterOnly ==
    /\ pc["unregister"] = "write"
    /\ Update("unregister", At("unregister"), UpdateStatusDead(loc["unregister"].seen))
    /\ Continue("unregister", "idle")
    /\ UNCHANGED inbox
    /\ NodeVarsOnly

\* A conflict ends the handler: the node is neither dead nor purged.
UnregisterWrite ==
    /\ pc["unregister"] = "write"
    /\ Update("unregister", At("unregister"), UpdateStatusDead(loc["unregister"].seen))
    /\ IF Current("unregister", At("unregister"))
       THEN PurgeBegins("unregister", At("unregister"))
       ELSE Continue("unregister", "idle") /\ UNCHANGED <<late, left>>
    /\ UNCHANGED <<inbox, up, gone, pinged, remote, budget>>

-----------------------------------------------------------------------------
(* handlePong *)

HandlePong(n) ==
    /\ pc["pong"] = "idle"
    /\ Receive("pong", n)
    /\ ReadRevision("pong", n)
    /\ loc' = [loc EXCEPT !["pong"] = Found(n)]
    /\ Goto("pong", IF Present(n) THEN "write" ELSE "idle")
    /\ NodeVarsOnly

\* A conflict is only logged: the heartbeat is lost.
PongWrite ==
    /\ pc["pong"] = "write"
    /\ Update("pong", At("pong"), RecordHeartbeat(loc["pong"].seen))
    /\ Continue("pong", "idle")
    /\ UNCHANGED inbox
    /\ NodeVarsOnly

-----------------------------------------------------------------------------
(* pingAll *)

PingTargets == {n \in Known : ~Dead(n)}

PingAll ==
    /\ pc["monitor"] = "idle"
    /\ PingTargets # {}
    /\ loc' = [loc EXCEPT !["monitor"] = [NoLocals EXCEPT !.todo = PingTargets]]
    /\ Goto("monitor", "next")
    /\ UNCHANGED <<entry, held, inbox>>
    /\ NodeVarsOnly

\* x takes the next node of its round; between two nodes it keeps only what is
\* left to do.
Take(x, n) == loc' = [loc EXCEPT ![x] = [ReadEntry(n) EXCEPT !.todo = loc[x].todo \ {n}]]

RoundLabel(rest) == IF rest.todo = {} THEN "idle" ELSE "next"

NextInRound(x, n) ==
    /\ loc' = [loc EXCEPT ![x] = Rest(x, n)]
    /\ Goto(x, RoundLabel(Rest(x, n)))

\* IncrementMissedHeartbeats reads the entry and writes on what it has read; a
\* node that is gone is skipped.
Increment(n) ==
    /\ pc["monitor"] = "next"
    /\ n \in loc["monitor"].todo
    /\ ReadRevision("monitor", n)
    /\ IF Present(n) THEN Take("monitor", n) /\ Goto("monitor", "write")
                     ELSE NextInRound("monitor", n)
    /\ UNCHANGED inbox
    /\ NodeVarsOnly

NewStatus == IncrementMissedHeartbeats(loc["monitor"].seen).status

\* A ping names its sender only: every peer receives it.
Ping == pinged' = pinged \cup up

\* A conflict skips the node, its ping included; a dead node is purged first.
IncrementWrite ==
    /\ pc["monitor"] = "write"
    /\ Update("monitor", At("monitor"), IncrementMissedHeartbeats(loc["monitor"].seen))
    /\ IF Current("monitor", At("monitor")) /\ NewStatus = "dead"
       THEN PurgeBegins("monitor", At("monitor"))
       ELSE NextInRound("monitor", At("monitor")) /\ UNCHANGED <<late, left>>
    /\ IF Current("monitor", At("monitor")) /\ NewStatus # "dead" THEN Ping ELSE UNCHANGED pinged
    /\ UNCHANGED <<inbox, up, gone, remote, budget>>

-----------------------------------------------------------------------------
(* cleanupDeadNodes *)

CleanupTargets == {n \in Known : Dead(n) /\ entry[n].old}

CleanupDeadNodes ==
    /\ pc["cleanup"] = "idle"
    /\ CleanupTargets # {}
    /\ loc' = [loc EXCEPT !["cleanup"] = [NoLocals EXCEPT !.todo = CleanupTargets]]
    /\ Goto("cleanup", "next")
    /\ UNCHANGED <<entry, held, inbox>>
    /\ NodeVarsOnly

\* The purge is unconditional: it does not look at what the entry is by now.
CleanupDeregister(n) ==
    /\ pc["cleanup"] = "next"
    /\ n \in loc["cleanup"].todo
    /\ Deregister(n)
    /\ PurgeBegins("cleanup", n)
    /\ UNCHANGED <<inbox, up, gone, pinged, remote, budget>>

\* CleanupTTL is longer than a registration takes to arrive and be handled.
Ages(n) ==
    /\ Dead(n)
    /\ ~entry[n].old
    /\ <<"register", n>> \notin inbox
    /\ pc["register"] = "idle" \/ At("register") # n
    /\ entry' = [entry EXCEPT ![n].old = TRUE]
    /\ UNCHANGED <<held, pc, loc, inbox>>
    /\ NodeVarsOnly

-----------------------------------------------------------------------------
(* PurgeNode: DeregisterRemotesByNode lists the keys, then purges them *)

Purger == {"unregister", "monitor", "cleanup"}

AfterPurge(x) ==
    /\ IF x = "unregister" THEN Continue(x, "idle") ELSE NextInRound(x, At(x))
    /\ IF x = "monitor" THEN Ping ELSE UNCHANGED pinged

PurgeKeys(x) ==
    /\ x \in Purger
    /\ pc[x] = "keys"
    /\ loc' = [loc EXCEPT ![x].agents = remote \cap AgentsOf(At(x))]
    /\ Goto(x, "purge")
    /\ UNCHANGED <<entry, held, inbox>>
    /\ NodeVarsOnly

PurgeNode(x) ==
    /\ x \in Purger
    /\ pc[x] = "purge"
    /\ remote' = remote \ loc[x].agents
    /\ late' = late \ loc[x].agents
    /\ left' = left \ loc[x].agents
    /\ AfterPurge(x)
    /\ UNCHANGED <<entry, held, inbox, up, gone, budget>>

\* The keys cannot be listed, or a key cannot be purged: those before it are.
PurgeFails(x) ==
    /\ x \in Purger
    /\ Spend("faults")
    /\ \/ /\ pc[x] = "keys"
          /\ left' = left \cup (remote \cap AgentsOf(At(x)))
          /\ UNCHANGED <<remote, late>>
       \/ /\ pc[x] = "purge"
          /\ \E purged \in SUBSET loc[x].agents :
                /\ remote' = remote \ purged
                /\ late' = late \ purged
                /\ left' = (left \cup loc[x].agents) \ purged
    /\ AfterPurge(x)
    /\ UNCHANGED <<entry, held, inbox, up, gone>>

-----------------------------------------------------------------------------
(* handleRemoteAnnounce and handleRemoteRemove *)

\* RegisterRemote creates the key or updates it; it looks at no node entry.
HandleRemoteAnnounce(a) ==
    /\ Receive("announce", a)
    /\ remote' = remote \cup {a}
    /\ late' = IF Alive(Home[a]) THEN late ELSE late \cup {a}
    /\ UNCHANGED registryVars
    /\ UNCHANGED <<up, gone, pinged, left, budget>>

HandleRemoteRemove(a) ==
    /\ Receive("remove", a)
    /\ remote' = remote \ {a}
    /\ late' = late \ {a}
    /\ left' = left \ {a}
    /\ UNCHANGED registryVars
    /\ UNCHANGED <<up, gone, pinged, budget>>

-----------------------------------------------------------------------------
(* Calls that fail, with or without their effect.  A failing List, RegisterRemote, *)
(* DeregisterRemote or the Get of a departure or a pong leaves what a message that *)
(* is lost or a round that comes later leaves.                                     *)

Fails == Spend("faults") /\ UNCHANGED <<inbox, up, gone, pinged, remote, late>>

\* A node that is dead or forgotten after a failing call is not purged.
NotPurged(n) ==
    left' = IF Alive(n) /\ entry'[n].status \in {"none", "dead"}
            THEN left \cup (remote \cap AgentsOf(n)) ELSE left

\* handleNodeRegister takes any error of its Get for an unknown node.
RegisterLookupFails(n) ==
    /\ pc["register"] = "idle"
    /\ Receive("register", n)
    /\ Spend("faults")
    /\ loc' = [loc EXCEPT !["register"] = [NoLocals EXCEPT !.at = n, !.new = TRUE]]
    /\ Goto("register", "create")
    /\ UNCHANGED <<entry, held, up, gone, pinged, remote, late, left>>

\* Register takes any error of its Create for an entry that exists, and gives up
\* on any later one.
RegisterFails ==
    /\ \/ /\ pc["register"] = "create"
          /\ UNCHANGED <<entry, held>> \/ (~Present(At("register")) /\ Put(At("register"), NewNode))
          /\ Continue("register", "registerGet")
       \/ /\ pc["register"] \in {"registerGet", "registerUpdate"}
          /\ \/ UNCHANGED <<entry, held>>
             \/ pc["register"] = "registerUpdate" /\ Update("register", At("register"), NewNode)
          /\ Continue("register", "idle")
    /\ UNCHANGED left
    /\ Fails

WriteFails(x, r) ==
    /\ pc[x] = "write"
    /\ UNCHANGED <<entry, held>> \/ Update(x, At(x), r)
    /\ IF x = "monitor" THEN NextInRound(x, At(x)) ELSE Continue(x, "idle")
    /\ NotPurged(At(x))
    /\ Fails

IncrementFails(n) ==
    /\ pc["monitor"] = "next"
    /\ n \in loc["monitor"].todo
    /\ NextInRound("monitor", n)
    /\ UNCHANGED <<entry, held, left>>
    /\ Fails

CleanupFails(n) ==
    /\ pc["cleanup"] = "next"
    /\ n \in loc["cleanup"].todo
    /\ UNCHANGED <<entry, held>> \/ Deregister(n)
    /\ NextInRound("cleanup", n)
    /\ NotPurged(n)
    /\ Fails

FaultStep ==
    \/ \E n \in Node : RegisterLookupFails(n) \/ IncrementFails(n) \/ CleanupFails(n)
    \/ RegisterFails
    \/ WriteFails("unregister", UpdateStatusDead(loc["unregister"].seen))
    \/ WriteFails("pong", RecordHeartbeat(loc["pong"].seen))
    \/ WriteFails("monitor", IncrementMissedHeartbeats(loc["monitor"].seen))
    \/ \E x \in Purger : PurgeFails(x)

-----------------------------------------------------------------------------
(* This node *)

Purging(x) == x \in Purger /\ pc[x] \in {"keys", "purge"}

\* The process ends at any point and starts again under a new identifier, with
\* what was stored. The entry it leaves under the old identifier is that of one
\* more node that is gone, and is not represented.
Restart ==
    /\ Spend("restarts")
    /\ pc' = [x \in Actor |-> "idle"]
    /\ loc' = [x \in Actor |-> NoLocals]
    /\ held' = [x \in Actor |-> {}]
    /\ inbox' = {}
    /\ pinged' = {}
    /\ left' = left \cup {a \in remote : \E x \in Purger : Purging(x) /\ At(x) = Home[a]}
    /\ UNCHANGED <<entry, up, gone, remote, late>>

-----------------------------------------------------------------------------

PeerStep ==
    \/ \E p \in Node : PeerStarts(p) \/ PeerStops(p) \/ AnswerPing(p)
    \/ \E p, n \in Node : PeerPropagates(p, n)
    \/ \E a \in Agent, s \in AgentSubject : PeerForwards(a, s)

RegisterStep ==
    \/ \E n \in Node : HandleNodeRegister(n)
    \/ RegisterCreate
    \/ RegisterGet
    \/ RegisterUpdate
    \/ PropagateKnownNodes

UnregisterStep ==
    \/ \E n \in Node : HandleNodeUnregister(n)
    \/ UnregisterWrite
    \/ PurgeKeys("unregister")
    \/ PurgeNode("unregister")

PongStep == PongWrite \/ \E n \in Node : HandlePong(n)

MonitorStep ==
    \/ PingAll
    \/ \E n \in Node : Increment(n)
    \/ IncrementWrite
    \/ PurgeKeys("monitor")
    \/ PurgeNode("monitor")

CleanupStep ==
    \/ CleanupDeadNodes
    \/ \E n \in Node : CleanupDeregister(n)
    \/ PurgeKeys("cleanup")
    \/ PurgeNode("cleanup")

AgentMessageStep ==
    \E a \in Agent : HandleRemoteAnnounce(a) \/ HandleRemoteRemove(a)

Next ==
    \/ PeerStep
    \/ RegisterStep
    \/ UnregisterStep
    \/ PongStep
    \/ MonitorStep
    \/ CleanupStep
    \/ AgentMessageStep
    \/ FaultStep
    \/ \E n \in Node : Ages(n)
    \/ Restart

Spec == Init /\ [][Next]_vars

\* Each subscription and each loop of this node goes on, and time passes; peers
\* owe nothing.
Fairness ==
    /\ WF_vars(RegisterStep)
    /\ WF_vars(UnregisterStep)
    /\ WF_vars(PongStep)
    /\ WF_vars(MonitorStep)
    /\ WF_vars(CleanupStep)
    /\ \A n \in Node : WF_vars(Ages(n))

FairSpec == Spec /\ Fairness

-----------------------------------------------------------------------------
(* Properties *)

\* A dead node is only brought back by a registration: neither a late pong nor
\* the monitor's count changes its status (RecordHeartbeat, pingAll).
DeadUntilRegistered ==
    [][\A n \in Node :
         Dead(n) /\ entry'[n].status \in {"active", "unhealthy"}
            => At("register") = n /\ pc["register"] = "registerUpdate"]_vars

\* The agents of a node that is dead or forgotten are purged, whoever found it so.
\* Those still stored are being purged right now; or were announced since the last
\* purge of the node began, a late one going with the node's entry at the latest; or
\* that purge left them, because a call failed, which PurgeNode and the callers only
\* log, or a restart came in between (onNodeDead, PurgeNode, cleanupDeadNodes).
DeadNodesArePurged ==
    \A a \in remote :
        ~Alive(Home[a]) =>
            \/ a \in late \cup left
            \/ \E x \in Purger : Purging(x) /\ At(x) = Home[a]

\* A node that has left is forgotten in the end, whether or not its departure
\* was heard of, unless it is announced again forever (pingAll,
\* cleanupDeadNodes).
DepartedIsForgotten ==
    \A p \in Node :
        <>(p \in gone) =>
            \/ <>[](~Present(p))
            \/ []<>(pc["register"] = "create" /\ At("register") = p)

=============================================================================
