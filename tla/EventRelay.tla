----------------------------- MODULE EventRelay -----------------------------
(***************************************************************************)
(* Events on their way through a federation: the router of a node stores   *)
(* an event for a local agent or relays it to the node that announced the  *)
(* agent; the receiving gateway routes it again.  For a workflow event it  *)
(* first arranges that the results of the workflow's steps are relayed     *)
(* back.                                                                   *)
(*                                                                         *)
(* All agents offer one capability.  An event routed to several agents is  *)
(* one copy per agent, an event with a target has one copy.                *)
(***************************************************************************)
EXTENDS CapabilitySync

CONSTANTS
    DirectEvent,        \* events with a target agent
    CapabilityEvent,    \* events for whoever offers the capability
    StepEvent,          \* workflow.step events, of one workflow
    MaxHops,            \* bound: relays of one event
    Scenarios           \* bounds of the runs

Event == DirectEvent \cup CapabilityEvent \cup StepEvent
Copy == Event \X Agent

\* How often an agent starts and stops, a message is lost or delivered again, a call
\* fails, a node is purged or restarts; whether the buses of the nodes see each
\* other's events; the events to route.
Bounds == [starts : [Agent -> Nat], stops : Nat, losses : Nat, redeliveries : Nat,
           faults : Nat, purges : Nat, restarts : Nat, carried : BOOLEAN,
           events : SUBSET Event]

\* An event is of one kind, and the ID of a copy is no event's ID.
ASSUME RelayAssumption ==
    /\ MaxHops \in Nat
    /\ Scenarios \subseteq Bounds
    /\ CapabilityEvent \cap (DirectEvent \cup StepEvent) = {}
    /\ DirectEvent \cap StepEvent = {}
    /\ Copy \cap Event = {}

VARIABLES
    origin,         \* the node an event was first routed on
    matched,        \* agents routeCapability has still to route an event to
    pc,             \* where each copy is
    at,             \* its node, or the node it is relayed to
    sender,         \* the node it was relayed from
    hops,           \* how often it was relayed
    direct,         \* the DIRECT stream of each node: message IDs and agents
    known,          \* is the workflow in a node's relayedWorkflows
    stream,         \* does its stream exist on a node
    forwarder,      \* where a node's subscription to its results relays to
    results,        \* step results in its stream: the subject, and how often relayed
    returning       \* results relayed, not routed yet: from, to, how often

relayVars == <<origin, matched, pc, at, sender, hops, direct, known, stream, forwarder,
               results, returning>>
vars == <<syncVars, relayVars>>

Place == {"none", "get", "search", "wire", "stored", "error", "lost"}

\* Under "result" the engine consumes it; "prefixed" is the subject a result gets
\* when the router puts the workflow's prefix before one that has it.
Subject == {"result", "prefixed"}

Init ==
    /\ SyncInit
    /\ budget \in Scenarios
    /\ origin = [e \in Event |-> Nobody]
    /\ matched = [e \in Event |-> {}]
    /\ pc = [c \in Copy |-> "none"]
    /\ at = [c \in Copy |-> Nobody]
    /\ sender = [c \in Copy |-> Nobody]
    /\ hops = [c \in Copy |-> 0]
    /\ direct = [n \in Node |-> {}]
    /\ known = {}
    /\ stream = {}
    /\ forwarder = [n \in Node |-> Nobody]
    /\ results = [n \in Node |-> {}]
    /\ returning = {}

\* Every variable keeps the shape the Go types give it.
TypeOK ==
    /\ SyncTypeOK
    /\ budget \in Bounds
    /\ origin \in [Event -> Node \cup {Nobody}]
    /\ matched \in [Event -> SUBSET Agent]
    /\ pc \in [Copy -> Place]
    /\ at \in [Copy -> Node \cup {Nobody}]
    /\ sender \in [Copy -> Node \cup {Nobody}]
    /\ hops \in [Copy -> 0..MaxHops]
    /\ direct \in [Node -> SUBSET ((Copy \cup Event) \X Agent)]
    /\ known \subseteq Node
    /\ stream \subseteq Node
    /\ forwarder \in [Node -> Node \cup {Nobody}]
    /\ results \in [Node -> SUBSET (StepEvent \X Subject \X Nat)]
    /\ returning \subseteq (StepEvent \X Node \X Node \X Nat)

-----------------------------------------------------------------------------
(* Route *)

Goto(c, l) == pc' = [pc EXCEPT ![c] = l]

Emit(n, e) ==
    /\ e \in budget.events
    /\ budget' = [budget EXCEPT !.events = @ \ {e}]
    /\ origin' = [origin EXCEPT ![e] = n]

StartCopy(n, c) ==
    /\ Goto(c, "get")
    /\ at' = [at EXCEPT ![c] = n]

\* An event with a target; the engine's own workflow has a stream already.
RouteTargeted(n, e, x) ==
    /\ e \in DirectEvent \cup StepEvent
    /\ Emit(n, e)
    /\ StartCopy(n, <<e, x>>)
    /\ stream' = IF e \in StepEvent THEN stream \cup {n} ELSE stream
    /\ UNCHANGED matched

\* Mutant: the keys of remote agents are taken for their IDs.
RouteCapabilityKeys(n, e) ==
    /\ e \in CapabilityEvent
    /\ Emit(n, e)
    /\ matched' = [matched EXCEPT ![e] = IF local[n] # {} THEN local[n] ELSE remote[n]]
    /\ UNCHANGED <<pc, at, stream>>

\* routeCapability: local agents first, remote ones when there is no local one;
\* without any an error event is all that is published.
RouteCapability(n, e) ==
    /\ e \in CapabilityEvent
    /\ Emit(n, e)
    /\ matched' = [matched EXCEPT ![e] = IF local[n] # {} THEN local[n]
                                         ELSE {k[2] : k \in remote[n]}]
    /\ UNCHANGED <<pc, at, stream>>

\* Its loop routes one copy after the other.
RouteNext(e, x) ==
    /\ x \in matched[e]
    /\ \A y \in Agent : pc[<<e, y>>] \notin {"get", "search"} \/ hops[<<e, y>>] > 0
    /\ matched' = [matched EXCEPT ![e] = @ \ {x}]
    /\ StartCopy(origin[e], <<e, x>>)
    /\ UNCHANGED <<origin, stream, budget>>

-----------------------------------------------------------------------------
(* routeDirect *)

\* Mutant: the copies of an event keep its ID.
SharedID(c) == c[1]

\* routeCapability gives each copy an ID of its own; it stays when relayed.
MessageID(c) == IF c[1] \in CapabilityEvent THEN c ELSE c[1]

\* A stream drops a message whose ID it has seen.
Publish(S, c) ==
    direct' = [n \in Node |->
                 IF n \in S /\ ~\E m \in direct[n] : m[1] = MessageID(c)
                 THEN direct[n] \cup {<<MessageID(c), c[2]>>} ELSE direct[n]]

\* Remote agents are stored under keys of their own, so an agent Get finds is a
\* local one.  Any error of Get is taken for an agent that is not there.
RouteDirect(c) ==
    /\ pc[c] = "get"
    /\ \/ /\ c[2] \in local[at[c]]
          /\ \E S \in Reached(at[c]) : Publish(S, c)
          /\ Goto(c, "stored")
          /\ UNCHANGED budget
       \/ /\ IF c[2] \in local[at[c]] THEN Spend("faults") ELSE UNCHANGED budget
          /\ Goto(c, "search")
          /\ UNCHANGED direct
    /\ UNCHANGED <<matched, at, sender, hops>>

\* The nodes that announced an agent.
Announced(n, x) == {k[1] : k \in {l \in remote[n] : l[2] = x}}

\* IsRemoteAgent looks it up once more: a local agent is no remote one.
IsRemoteAgent(n, x) == IF x \in local[n] THEN {} ELSE Announced(n, x)

\* Relay: the event leaves for node m; the transport does not acknowledge it, and it
\* may be lost.
Relay(c, m) ==
    /\ hops[c] < MaxHops
    /\ at' = [at EXCEPT ![c] = m]
    /\ sender' = [sender EXCEPT ![c] = at[c]]
    /\ hops' = [hops EXCEPT ![c] = @ + 1]
    /\ Goto(c, "wire") \/ Goto(c, "lost")

\* An error event is all that becomes of an event for an unknown agent.
PublishError(c) == Goto(c, "error") /\ UNCHANGED <<at, sender, hops>>

\* The agent is looked for among the remote ones.  An event that was relayed already
\* is relayed again.  Without the local entry (the look-up failed) an agent of this
\* node may be taken for a remote one; without the list it is unknown.
RelayToNode(c) ==
    /\ pc[c] = "search"
    /\ \/ /\ UNCHANGED budget
          /\ \/ IsRemoteAgent(at[c], c[2]) = {} /\ PublishError(c)
             \/ \E m \in IsRemoteAgent(at[c], c[2]) : Relay(c, m)
       \/ /\ Spend("faults")
          /\ PublishError(c) \/ \E m \in Announced(at[c], c[2]) : Relay(c, m)
    /\ UNCHANGED <<matched, direct>>

\* A publication or a relay fails: Route returns the error, which ends the loop of a
\* fan-out.  After a timeout the stream may hold the message all the same.
RouteFails(c) ==
    /\ pc[c] \in {"get", "search"}
    /\ Spend("faults")
    /\ Goto(c, "lost")
    /\ matched' = IF hops[c] = 0 THEN [matched EXCEPT ![c[1]] = {}] ELSE matched
    /\ \/ UNCHANGED direct
       \/ /\ pc[c] = "get" /\ c[2] \in local[at[c]]
          /\ \E S \in Reached(at[c]) : Publish(S, c)
    /\ UNCHANGED <<at, sender, hops>>

-----------------------------------------------------------------------------
(* handleIncomingRelay *)

\* Once per workflow and process, even if the stream or the subscription then
\* fails.
SetupResultForwarding(n, source) ==
    \/ n \in known /\ UNCHANGED <<known, forwarder, budget>>
    \/ /\ n \notin known
       /\ known' = known \cup {n}
       /\ \/ /\ n \in stream'
             /\ forwarder' = [forwarder EXCEPT ![n] = source]
             /\ UNCHANGED budget
          \/ Spend("faults") /\ UNCHANGED forwarder

HandleIncomingRelay(c) ==
    /\ pc[c] = "wire"
    /\ \/ /\ c[1] \in StepEvent
          /\ stream' \in {stream, stream \cup ({at[c]} \ known)}
          /\ SetupResultForwarding(at[c], sender[c])
       \/ c[1] \notin StepEvent /\ UNCHANGED <<known, stream, forwarder, budget>>
    /\ Goto(c, "get")

-----------------------------------------------------------------------------
(* Step results *)

StoreResult(S, r) ==
    results' = [n \in Node |-> IF n \in S THEN results[n] \cup {r} ELSE results[n]]

\* The agent answers the step; its result is stored by the workflow's streams that
\* see it, on its own node and on others, the engine's among them.
PublishStepResult(n, e) ==
    /\ \E x \in Agent : <<MessageID(<<e, x>>), x>> \in direct[n] /\ home[x] = n
    /\ \E S \in Reached(n) : StoreResult(S \cap stream, <<e, "result", 0>>)
    /\ results' # results
    /\ UNCHANGED <<known, stream, forwarder, returning, budget>>

\* The subscription is given a result, at least once; a node that restarted and
\* subscribes again is given all of them.  What is relayed may be lost.
ForwardResultToSource(n, e, k) ==
    /\ <<e, "result", k>> \in results[n]
    /\ forwarder[n] # Nobody
    /\ k < MaxHops
    /\ returning' = returning \cup {<<e, n, forwarder[n], k + 1>>}
    /\ returning' # returning
    /\ UNCHANGED <<known, stream, forwarder, results, budget>>

\* Mutant: a returned result keeps the subject it has.
RouteReturnedAsIs(e, source, n, k) ==
    /\ returning' = returning \ {<<e, source, n, k>>}
    /\ stream' \in {stream, stream \cup {n}}
    /\ SetupResultForwarding(n, source)
    /\ \E S \in Reached(n) : StoreResult(S \cap stream', <<e, "result", k>>)

\* On the node it goes back to it is one more relayed event of the workflow, whose
\* later results this node relays as well.  It has no target, so the router publishes
\* it under the workflow's prefix; a stream that cannot be made or has seen the
\* result's ID does not store it.
RouteReturned(e, source, n, k) ==
    /\ returning' = returning \ {<<e, source, n, k>>}
    /\ stream' \in {stream, stream \cup {n}}
    /\ SetupResultForwarding(n, source)
    /\ \E S \in Reached(n) : \E T \in SUBSET (S \cap stream') :
          StoreResult(T, <<e, "prefixed", k>>)

-----------------------------------------------------------------------------
(* The gateway restarts *)

\* What was in memory is lost: the events being routed, the workflows known to be
\* relayed and the subscriptions to their results, and the messages that arrive
\* meanwhile.  The streams and the registry remain.  (The runtime takes a new node
\* ID when it starts; that the node keeps its own here only lets more reach it.)
GatewayRestarts(n) ==
    /\ n \in members
    /\ Spend("restarts")
    /\ matched' = [e \in Event |-> IF origin[e] = n THEN {} ELSE matched[e]]
    /\ pc' = [c \in Copy |-> IF at[c] = n /\ pc[c] \in {"get", "search", "wire"} THEN "lost"
                              ELSE pc[c]]
    /\ known' = known \ {n}
    /\ forwarder' = [forwarder EXCEPT ![n] = Nobody]
    /\ returning' = {r \in returning : r[3] # n}
    /\ LoseMessages(n)
    /\ UNCHANGED <<members, home, pending, local, announcements, heard, remote>>
    /\ UNCHANGED <<origin, at, sender, hops, direct, stream, results>>

-----------------------------------------------------------------------------
(* The specification *)

EmitStep ==
    /\ \E n \in Node, e \in Event :
          \/ \E x \in Agent : RouteTargeted(n, e, x)
          \/ RouteCapability(n, e)
    /\ UNCHANGED <<sender, hops, direct, known, forwarder, results, returning>>

RouterStep ==
    \/ /\ \E e \in CapabilityEvent, x \in Agent : RouteNext(e, x)
       /\ UNCHANGED <<sender, hops, direct, known, forwarder, results, returning>>
    \/ /\ \E c \in Copy : RouteDirect(c) \/ RelayToNode(c) \/ RouteFails(c)
       /\ UNCHANGED <<origin, known, stream, forwarder, results, returning>>
    \/ /\ \E c \in Copy : HandleIncomingRelay(c)
       /\ UNCHANGED <<origin, matched, at, sender, hops, direct, results, returning>>

ResultStep ==
    /\ \/ \E n \in Node, e \in StepEvent : PublishStepResult(n, e)
       \/ \E n \in Node, e \in StepEvent, k \in 0..MaxHops : ForwardResultToSource(n, e, k)
       \/ \E r \in returning : RouteReturned(r[1], r[2], r[3], r[4])
    /\ UNCHANGED <<origin, matched, pc, at, sender, hops, direct>>

SyncUnchanged ==
    UNCHANGED <<members, home, pending, local, announcements, heard, wire, remote, excused>>

Next ==
    \/ SyncStep /\ UNCHANGED relayVars
    \/ (EmitStep \/ RouterStep \/ ResultStep) /\ SyncUnchanged
    \/ \E n \in Node : GatewayRestarts(n)

Spec == Init /\ [][Next]_vars

-----------------------------------------------------------------------------
(* Properties *)

\* A copy that was routed to a local agent is in that agent's stream: the stream's
\* deduplication never swallows one of the copies of a fan-out, or a copy that
\* comes through a relay (routeCapability, Publish).
RoutedIsStored ==
    \A c \in Copy : pc[c] = "stored" => <<MessageID(c), c[2]>> \in direct[at[c]]

\* A result that was relayed back to a node is not relayed on.  A returned result is
\* itself a relayed workflow event, so the node it reaches subscribes to the
\* workflow's results too (setupResultForwarding), and two nodes may each relay to the
\* other what appears in their streams, again and again after a restart; what keeps a
\* result from going back and forth between them for ever is only that the router
\* stores a returned one under a subject no gateway subscribes to (routeWorkflow).
ResultsDoNotBounce == \A r \in returning : r[4] = 1

\* An event is relayed at most once: handleIncomingRelay marks it "so the router
\* doesn't relay it again (avoid loops)".
RelayedAtMostOnce == \A c \in Copy : hops[c] <= 1

=============================================================================
