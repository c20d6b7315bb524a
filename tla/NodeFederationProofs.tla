------------------------ MODULE NodeFederationProofs ------------------------
(***************************************************************************)
(* Safety of the federation's node registry, for any nodes, agents,        *)
(* thresholds and bounds, whatever fails: the agents of a dead or          *)
(* forgotten node are purged but for those a failed purge leaves, and only *)
(* a registration brings a dead node back.                                 *)
(*                                                                         *)
(* A handler writes what it has read some steps before, so the invariant   *)
(* says what a handler that may still write has read; and a purge goes by  *)
(* the keys it has listed, so it says which agents those keys cover.       *)
(***************************************************************************)
EXTENDS NodeFederation, TLAPS

\* A handler that is about to read or write an entry has a node to do it for.
HasNode ==
    \A x \in Actor :
        pc[x] \in {"create", "registerGet", "registerUpdate", "propagate", "write"}
            => At(x) \in Node

\* A handler whose update will succeed has read the status that is stored.
ReadIsStored ==
    \A x \in Actor :
        pc[x] = "write" /\ Current(x, At(x)) =>
            /\ loc[x].seen.status = entry[At(x)].status
            /\ loc[x].seen.status # "none"

\* Some purge of the agent's node has still to list its keys, or has the agent on
\* its list.
BeingPurged(a) ==
    \E x \in Purger :
        /\ At(x) = Home[a]
        /\ pc[x] = "keys" \/ (pc[x] = "purge" /\ a \in loc[x].agents)

PurgeCovers ==
    \A a \in remote : ~Alive(Home[a]) => a \in late \cup left \/ BeingPurged(a)

NodeInvariant == TypeOK /\ HasNode /\ ReadIsStored /\ PurgeCovers

-----------------------------------------------------------------------------
(* Types *)

\* What the operations of the registry write is the entry of a node.
LEMMA InfoTypes ==
    /\ NoNode \in NodeInfo
    /\ NewNode \in NodeInfo
    /\ NoLocals \in Local
    /\ \A r \in NodeInfo :
          /\ IncrementMissedHeartbeats(r) \in NodeInfo
          /\ RecordHeartbeat(r) \in NodeInfo
          /\ UpdateStatusDead(r) \in NodeInfo
BY NodeThresholdAssumption
   DEF NoNode, NewNode, NoLocals, Local, NodeInfo, Info, NodeLifecycleStatus,
       IncrementMissedHeartbeats, RecordHeartbeat, UpdateStatusDead, Capped, MissedCap

\* What a dead node's entry becomes when its heartbeats are counted or heard.
LEMMA DeadStays ==
    ASSUME NEW r \in NodeInfo, r.status = "dead"
    PROVE  /\ IncrementMissedHeartbeats(r).status = "dead"
           /\ RecordHeartbeat(r).status = "dead"
BY Zenon DEF IncrementMissedHeartbeats, RecordHeartbeat, Info

\* The bucket and the locals of the goroutines keep their types.
RegistryTyped ==
    /\ entry \in [Node -> NodeInfo]
    /\ held \in [Actor -> SUBSET Node]
    /\ pc \in [Actor -> Label]
    /\ loc \in [Actor -> Local]

\* What the operations on the bucket and the moves of a handler leave is typed.
LEMMA PutTyped ==
    ASSUME RegistryTyped, NEW n, NEW r \in NodeInfo, Put(n, r)
    PROVE  entry' \in [Node -> NodeInfo] /\ held' \in [Actor -> SUBSET Node]
BY Zenon DEF RegistryTyped, Put

LEMMA UpdateTyped ==
    ASSUME RegistryTyped, NEW x \in Actor, NEW n, NEW r \in NodeInfo, Update(x, n, r)
    PROVE  entry' \in [Node -> NodeInfo] /\ held' \in [Actor -> SUBSET Node]
BY Zenon, PutTyped DEF RegistryTyped, Update

LEMMA ReadTyped ==
    ASSUME RegistryTyped, NEW x \in Actor, NEW n \in Node, ReadRevision(x, n)
    PROVE  entry' \in [Node -> NodeInfo] /\ held' \in [Actor -> SUBSET Node]
BY Zenon DEF RegistryTyped, ReadRevision

LEMMA GotoTyped ==
    ASSUME RegistryTyped, NEW x \in Actor, NEW l \in Label, Goto(x, l)
    PROVE  pc' \in [Actor -> Label]
BY Zenon DEF RegistryTyped, Goto

LEMMA ContinueTyped ==
    ASSUME RegistryTyped, NEW x \in Actor, NEW l \in Label, Continue(x, l)
    PROVE  pc' \in [Actor -> Label] /\ loc' \in [Actor -> Local]
BY Zenon, GotoTyped, InfoTypes DEF RegistryTyped, Continue

LEMMA FoundTyped ==
    ASSUME RegistryTyped, NEW n \in Node
    PROVE  ReadEntry(n) \in Local /\ Found(n) \in Local
BY Zenon, InfoTypes DEF RegistryTyped, ReadEntry, Found, Local, NoLocals

LEMMA NextTyped ==
    ASSUME RegistryTyped, NEW x \in Actor, NEW n, NextInRound(x, n)
    PROVE  pc' \in [Actor -> Label] /\ loc' \in [Actor -> Local]
<1>1. Rest(x, n) \in Local
  BY Zenon, InfoTypes DEF RegistryTyped, Rest, Local, NoLocals
<1>2. RoundLabel(Rest(x, n)) \in Label
  BY Zenon DEF RoundLabel, Label
<1> QED  BY Zenon, <1>1, <1>2, GotoTyped DEF RegistryTyped, NextInRound

LEMMA TakeTyped ==
    ASSUME RegistryTyped, NEW x \in Actor, NEW n \in Node, Take(x, n)
    PROVE  loc' \in [Actor -> Local]
<1>1. [ReadEntry(n) EXCEPT !.todo = loc[x].todo \ {n}] \in Local
  BY FoundTyped DEF RegistryTyped, Local
<1> QED  BY Zenon, <1>1 DEF RegistryTyped, Take

LEMMA BeginTyped ==
    ASSUME RegistryTyped, NEW x \in Actor, NEW n \in Node, PurgeBegins(x, n)
    PROVE  pc' \in [Actor -> Label] /\ loc' \in [Actor -> Local]
<1>1. [Rest(x, n) EXCEPT !.at = n] \in Local
  BY Zenon, InfoTypes DEF RegistryTyped, Rest, Local, NoLocals
<1>2. "keys" \in Label
  BY Zenon DEF Label
<1> QED  BY Zenon, <1>1, <1>2, GotoTyped DEF RegistryTyped, PurgeBegins

\* Spending keeps the budget, sending keeps the messages typed.
LEMMA MessagesTyped ==
    ASSUME TypeOK
    PROVE  /\ \A what \in {"joins", "leaves", "pongs", "announces", "propagations", "restarts",
                        "faults"} :
                 Spend(what) => budget' \in Scenario
           /\ \A ms \in SUBSET Message : Send(ms) => inbox' \subseteq Message
           /\ \A s, n : Receive(s, n) => inbox' \subseteq Message
<1>1. \A what \in {"joins", "leaves", "pongs", "announces", "propagations", "restarts",
                        "faults"} :
          Spend(what) => budget' \in Scenario
  BY DEF TypeOK, Spend, Scenario
<1>2. \A ms \in SUBSET Message : Send(ms) => inbox' \subseteq Message
  BY Zenon DEF TypeOK, Send
<1>3. \A s, n : Receive(s, n) => inbox' \subseteq Message
  BY Zenon DEF TypeOK, Receive
<1> QED  BY Zenon, <1>1, <1>2, <1>3

\* A failing call keeps the types.
LEMMA FaultTypes ==
    ASSUME TypeOK, HasNode, FaultStep
    PROVE  TypeOK'
<1>0. /\ RegistryTyped /\ Purger \subseteq Actor
      /\ {"register", "unregister", "pong", "monitor", "cleanup"} \subseteq Actor
      /\ {"create", "registerGet", "idle"} \subseteq Label
  BY Zenon DEF TypeOK, RegistryTyped, Actor, Purger, Label
<1>1. \A x \in Actor : loc[x].seen \in NodeInfo /\ loc[x].agents \subseteq Agent
  BY <1>0 DEF RegistryTyped, Local
<1>2. Fails => /\ budget' \in Scenario
               /\ UNCHANGED <<inbox, up, gone, pinged, remote, late>>
  BY Zenon, MessagesTyped DEF Fails
<1>3. \A n : NotPurged(n) => left' \subseteq Agent
  BY Zenon DEF TypeOK, NotPurged, AgentsOf
<1>4. ASSUME NEW n \in Node, RegisterLookupFails(n)
      PROVE  TypeOK'
  <2>1. [NoLocals EXCEPT !.at = n, !.new = TRUE] \in Local
    BY Zenon, InfoTypes DEF Local, NoLocals
  <2>2. RegistryTyped' /\ inbox' \subseteq Message /\ budget' \in Scenario
    BY Zenon, <1>0, <1>4, <2>1, GotoTyped, MessagesTyped DEF RegisterLookupFails, RegistryTyped
  <2> QED  BY Zenon, <1>4, <2>2 DEF TypeOK, RegisterLookupFails, RegistryTyped
<1>5. CASE RegisterFails
  <2>1. entry' \in [Node -> NodeInfo] /\ held' \in [Actor -> SUBSET Node]
    BY Zenon, <1>0, <1>5, PutTyped, UpdateTyped, InfoTypes DEF RegisterFails, RegistryTyped
  <2>2. pc' \in [Actor -> Label] /\ loc' \in [Actor -> Local]
    BY Zenon, <1>0, <1>5, ContinueTyped DEF RegisterFails
  <2> QED  BY Zenon, <1>2, <1>5, <2>1, <2>2 DEF TypeOK, RegisterFails
<1>6. ASSUME NEW x \in Actor, NEW r \in NodeInfo, WriteFails(x, r)
      PROVE  TypeOK'
  <2>1. entry' \in [Node -> NodeInfo] /\ held' \in [Actor -> SUBSET Node]
    BY Zenon, <1>0, <1>6, UpdateTyped DEF WriteFails, RegistryTyped
  <2>2. pc' \in [Actor -> Label] /\ loc' \in [Actor -> Local]
    BY Zenon, <1>0, <1>6, ContinueTyped, NextTyped DEF WriteFails
  <2> QED  BY Zenon, <1>2, <1>3, <1>6, <2>1, <2>2 DEF TypeOK, WriteFails
<1>7. ASSUME NEW n \in Node, IncrementFails(n) \/ CleanupFails(n)
      PROVE  TypeOK'
  <2>1. entry' \in [Node -> NodeInfo] /\ held' \in [Actor -> SUBSET Node]
    BY Zenon, <1>0, <1>7, PutTyped, InfoTypes
    DEF IncrementFails, CleanupFails, Deregister, RegistryTyped
  <2>2. pc' \in [Actor -> Label] /\ loc' \in [Actor -> Local]
    BY Zenon, <1>0, <1>7, NextTyped DEF IncrementFails, CleanupFails
  <2>3. left' \subseteq Agent
    BY Zenon, <1>3, <1>7 DEF TypeOK, IncrementFails, CleanupFails
  <2> QED  BY Zenon, <1>2, <1>7, <2>1, <2>2, <2>3 DEF TypeOK, IncrementFails, CleanupFails
<1>8. ASSUME NEW x \in Purger, PurgeFails(x)
      PROVE  TypeOK'
  <2>1. pc' \in [Actor -> Label] /\ loc' \in [Actor -> Local]
    BY Zenon, <1>0, <1>8, ContinueTyped, NextTyped DEF PurgeFails, AfterPurge
  <2>2. pinged' \subseteq Node
    BY Zenon, <1>8 DEF TypeOK, PurgeFails, AfterPurge, Ping
  <2>3. remote' \subseteq Agent /\ late' \subseteq Agent /\ left' \subseteq Agent
    BY Zenon, <1>0, <1>1, <1>8 DEF TypeOK, PurgeFails
  <2>4. budget' \in Scenario
    BY Zenon, <1>8, MessagesTyped DEF PurgeFails
  <2> QED  BY Zenon, <1>8, <2>1, <2>2, <2>3, <2>4 DEF TypeOK, PurgeFails
<1> QED
  BY Zenon, <1>0, <1>1, <1>4, <1>5, <1>6, <1>7, <1>8, InfoTypes DEF FaultStep

\* Every step keeps the types.
LEMMA TypeStep ==
    ASSUME TypeOK, HasNode, Next
    PROVE  TypeOK'
<1> USE DEF registryVars, NodeVarsOnly
<1>0. RegistryTyped
  BY Zenon DEF TypeOK, RegistryTyped
<1>1. CASE PeerStep
  <2>1. UNCHANGED registryVars /\ UNCHANGED <<remote, late, left>>
    BY Zenon, <1>1 DEF PeerStep, PeerStarts, PeerStops, AnswerPing, PeerPropagates, PeerForwards
  <2>2. up' \subseteq Node /\ gone' \subseteq Node /\ pinged' \subseteq Node
    BY Zenon, <1>1 DEF TypeOK, PeerStep, PeerStarts, PeerStops, AnswerPing, PeerPropagates, PeerForwards
  <2>3. budget' \in Scenario
    BY Zenon, <1>1, MessagesTyped
    DEF PeerStep, PeerStarts, PeerStops, AnswerPing, PeerPropagates, PeerForwards
  <2>4. inbox' \subseteq Message
    <3>1. \A n \in Node, s \in NodeSubject : {<<s, n>>} \subseteq Message
      BY DEF Message
    <3>2. \A a \in Agent, s \in AgentSubject : {<<s, a>>} \subseteq Message
      BY DEF Message
    <3> QED
      BY Zenon, <1>1, <3>1, <3>2, MessagesTyped
      DEF PeerStep, PeerStarts, PeerStops, AnswerPing, PeerPropagates, PeerForwards, NodeSubject
  <2> QED  BY Zenon, <2>1, <2>2, <2>3, <2>4 DEF TypeOK
<1>2. CASE RegisterStep
  <2>1. UNCHANGED <<up, gone, pinged, remote, late, left, budget>>
    BY Zenon, <1>2 DEF RegisterStep, HandleNodeRegister, RegisterCreate, RegisterGet, RegisterUpdate,
                PropagateKnownNodes
  <2>2. inbox' \subseteq Message
    <3>1. {<<"register", n>> : n \in Known \ {At("register")}} \subseteq Message
      BY DEF Message, Known, NodeSubject
    <3> QED
      BY Zenon, <1>2, <3>1, MessagesTyped
      DEF TypeOK, RegisterStep, HandleNodeRegister, RegisterCreate, RegisterGet, RegisterUpdate,
          PropagateKnownNodes
  <2>3. RegistryTyped'
    <3>0. "register" \in Actor /\ Registered \in Label
          /\ {"create", "idle", "registerGet", "registerUpdate"} \subseteq Label
      BY Zenon DEF Actor, Registered, Label
    <3>1. ASSUME NEW n \in Node, HandleNodeRegister(n)
          PROVE  RegistryTyped'
      <4>1. [NoLocals EXCEPT !.at = n, !.new = ~Present(n)] \in Local
        BY Zenon, InfoTypes DEF Local, NoLocals
      <4> QED  BY Zenon, <1>0, <3>0, <3>1, <4>1, GotoTyped DEF HandleNodeRegister, RegistryTyped
    <3>2. CASE RegisterCreate
      BY Zenon, <1>0, <3>0, <3>2, PutTyped, ContinueTyped, InfoTypes DEF RegisterCreate, RegistryTyped
    <3>3. CASE RegisterGet
      <4>1. At("register") \in Node
        BY Zenon, <3>0, <3>3 DEF RegisterGet, HasNode
      <4> QED  BY Zenon, <1>0, <3>0, <3>3, <4>1, ReadTyped, ContinueTyped DEF RegisterGet, RegistryTyped
    <3>4. CASE RegisterUpdate
      BY Zenon, <1>0, <3>0, <3>4, UpdateTyped, ContinueTyped, InfoTypes DEF RegisterUpdate, RegistryTyped
    <3>5. CASE PropagateKnownNodes
      BY Zenon, <1>0, <3>0, <3>5, ContinueTyped DEF PropagateKnownNodes, RegistryTyped
    <3> QED  BY Zenon, <1>2, <3>1, <3>2, <3>3, <3>4, <3>5 DEF RegisterStep
  <2> QED  BY Zenon, <2>1, <2>2, <2>3 DEF TypeOK, RegistryTyped
<1>3. ASSUME NEW x \in Purger, PurgeKeys(x)
      PROVE  TypeOK'
  <2>1. [loc[x] EXCEPT !.agents = remote \cap AgentsOf(At(x))] \in Local /\ x \in Actor
    BY <1>0 DEF RegistryTyped, Local, AgentsOf, Purger, Actor
  <2>2. loc' \in [Actor -> Local] /\ pc' \in [Actor -> Label]
    BY Zenon, <1>0, <1>3, <2>1, GotoTyped DEF PurgeKeys, RegistryTyped, Label
  <2> QED  BY Zenon, <1>3, <2>2 DEF TypeOK, PurgeKeys
<1>4. ASSUME NEW x \in Purger, PurgeNode(x)
      PROVE  TypeOK'
  <2>1. loc' \in [Actor -> Local] /\ pc' \in [Actor -> Label]
    BY Zenon, <1>0, <1>4, ContinueTyped, NextTyped DEF PurgeNode, AfterPurge, Label, Purger, Actor
  <2>2. pinged' \subseteq Node
    BY Zenon, <1>4 DEF TypeOK, PurgeNode, AfterPurge, Ping
  <2> QED  BY Zenon, <1>4, <2>1, <2>2 DEF TypeOK, PurgeNode
<1>5. CASE \/ \E n \in Node : HandleNodeUnregister(n)
           \/ UnregisterWrite
  <2>1. UNCHANGED <<up, gone, pinged, remote, budget>> /\ late' \subseteq late /\ left' \subseteq left
    BY Zenon, <1>5 DEF HandleNodeUnregister, UnregisterWrite, PurgeBegins
  <2>2. inbox' \subseteq Message
    BY Zenon, <1>5, MessagesTyped DEF TypeOK, HandleNodeUnregister, UnregisterWrite
  <2>3. RegistryTyped'
    <3>0. "unregister" \in Actor /\ {"write", "idle", "keys"} \subseteq Label
          /\ loc["unregister"].seen \in NodeInfo
      BY Zenon, <1>0 DEF Actor, Label, RegistryTyped, Local
    <3>1. ASSUME NEW n \in Node, HandleNodeUnregister(n)
          PROVE  RegistryTyped'
      BY Zenon, <1>0, <3>0, <3>1, ReadTyped, GotoTyped, FoundTyped DEF HandleNodeUnregister, RegistryTyped
    <3>2. CASE UnregisterWrite
      <4>1. Current("unregister", At("unregister")) => At("unregister") \in Node
        BY Zenon, <1>0, <3>0 DEF RegistryTyped, Current
      <4> QED
        BY Zenon, <1>0, <3>0, <3>2, <4>1, UpdateTyped, ContinueTyped, BeginTyped, InfoTypes
        DEF UnregisterWrite, RegistryTyped
    <3> QED  BY Zenon, <1>5, <3>1, <3>2
  <2> QED  BY Zenon, <2>1, <2>2, <2>3 DEF TypeOK, RegistryTyped
<1>6. CASE PongStep
  <2>1. UNCHANGED <<up, gone, pinged, remote, late, left, budget>>
    BY Zenon, <1>6 DEF PongStep, HandlePong, PongWrite
  <2>2. inbox' \subseteq Message
    BY Zenon, <1>6, MessagesTyped DEF TypeOK, PongStep, HandlePong, PongWrite
  <2>3. RegistryTyped'
    <3>0. "pong" \in Actor /\ {"write", "idle"} \subseteq Label /\ loc["pong"].seen \in NodeInfo
      BY Zenon, <1>0 DEF Actor, Label, RegistryTyped, Local
    <3>1. ASSUME NEW n \in Node, HandlePong(n)
          PROVE  RegistryTyped'
      BY Zenon, <1>0, <3>0, <3>1, ReadTyped, GotoTyped, FoundTyped DEF HandlePong, RegistryTyped
    <3>2. CASE PongWrite
      BY Zenon, <1>0, <3>0, <3>2, UpdateTyped, ContinueTyped, InfoTypes DEF PongWrite, RegistryTyped
    <3> QED  BY Zenon, <1>6, <3>1, <3>2 DEF PongStep
  <2> QED  BY Zenon, <2>1, <2>2, <2>3 DEF TypeOK, RegistryTyped
<1>7. CASE PingAll \/ (\E n \in Node : Increment(n)) \/ IncrementWrite
  <2>1. UNCHANGED <<up, gone, remote, budget, inbox>> /\ late' \subseteq late /\ left' \subseteq left
    BY Zenon, <1>7 DEF PingAll, Increment, IncrementWrite, PurgeBegins
  <2>2. pinged' \subseteq Node
    BY Zenon, <1>7 DEF TypeOK, PingAll, Increment, IncrementWrite, Ping
  <2>3. RegistryTyped'
    <3>0. "monitor" \in Actor /\ {"write", "next", "keys"} \subseteq Label
          /\ loc["monitor"].seen \in NodeInfo
      BY Zenon, <1>0 DEF Actor, Label, RegistryTyped, Local
    <3>1. CASE PingAll
      <4>1. [NoLocals EXCEPT !.todo = PingTargets] \in Local
        BY Zenon, InfoTypes DEF Local, NoLocals, PingTargets, Known
      <4> QED  BY Zenon, <1>0, <3>0, <3>1, <4>1, GotoTyped DEF PingAll, RegistryTyped
    <3>2. ASSUME NEW n \in Node, Increment(n)
          PROVE  RegistryTyped'
      BY Zenon, <1>0, <3>0, <3>2, ReadTyped, TakeTyped, GotoTyped, NextTyped DEF Increment, RegistryTyped
    <3>3. CASE IncrementWrite
      <4>1. Current("monitor", At("monitor")) => At("monitor") \in Node
        BY Zenon, <1>0, <3>0 DEF RegistryTyped, Current
      <4> QED
        BY Zenon, <1>0, <3>0, <3>3, <4>1, UpdateTyped, NextTyped, BeginTyped, InfoTypes
        DEF IncrementWrite, RegistryTyped
    <3> QED  BY Zenon, <1>7, <3>1, <3>2, <3>3
  <2> QED  BY Zenon, <2>1, <2>2, <2>3 DEF TypeOK, RegistryTyped
<1>8. CASE CleanupDeadNodes \/ \E n \in Node : CleanupDeregister(n)
  <2>1. /\ UNCHANGED <<up, gone, pinged, remote, budget, inbox>>
        /\ late' \subseteq late /\ left' \subseteq left
    BY Zenon, <1>8 DEF CleanupDeadNodes, CleanupDeregister, PurgeBegins
  <2>2. RegistryTyped'
    <3>0. "cleanup" \in Actor /\ {"next", "keys"} \subseteq Label
      BY Zenon DEF Actor, Label
    <3>1. CASE CleanupDeadNodes
      <4>1. [NoLocals EXCEPT !.todo = CleanupTargets] \in Local
        BY Zenon, InfoTypes DEF Local, NoLocals, CleanupTargets, Known
      <4> QED  BY Zenon, <1>0, <3>0, <3>1, <4>1, GotoTyped DEF CleanupDeadNodes, RegistryTyped
    <3>2. ASSUME NEW n \in Node, CleanupDeregister(n)
          PROVE  RegistryTyped'
      BY Zenon, <1>0, <3>0, <3>2, PutTyped, BeginTyped, InfoTypes
      DEF CleanupDeregister, Deregister, RegistryTyped
    <3> QED  BY Zenon, <1>8, <3>1, <3>2
  <2> QED  BY Zenon, <2>1, <2>2 DEF TypeOK, RegistryTyped
<1>9. CASE AgentMessageStep
  <2>1. inbox' \subseteq Message
    BY Zenon, <1>9, MessagesTyped DEF AgentMessageStep, HandleRemoteAnnounce, HandleRemoteRemove
  <2> QED
    BY Zenon, <1>9, <2>1 DEF TypeOK, AgentMessageStep, HandleRemoteAnnounce, HandleRemoteRemove
<1>10. ASSUME NEW n \in Node, Ages(n)
       PROVE  TypeOK'
  <2>1. [entry[n] EXCEPT !.old = TRUE] \in NodeInfo
    BY Zenon, <1>0 DEF RegistryTyped, NodeInfo
  <2> QED  BY Zenon, <1>10, <2>1 DEF TypeOK, Ages
<1>11. CASE Restart
  <2>1. budget' \in Scenario
    BY Zenon, <1>11, MessagesTyped DEF Restart
  <2>2. left' \subseteq Agent
    BY Zenon, <1>11 DEF TypeOK, Restart
  <2> QED  BY Zenon, <1>11, <2>1, <2>2, InfoTypes DEF TypeOK, Restart, Label
<1>12. CASE FaultStep
  BY Zenon, <1>12, FaultTypes
<1> QED
  BY Zenon, <1>1, <1>2, <1>3, <1>4, <1>5, <1>6, <1>7, <1>8, <1>9, <1>10, <1>11, <1>12
  DEF Next, UnregisterStep, MonitorStep, CleanupStep, Purger

-----------------------------------------------------------------------------
(* What the handlers have read *)

\* The step is one of x: the others keep their places, and what they hold a current
\* revision of has the status it had.
StepOf(x) ==
    \A y \in Actor \ {x} :
        /\ pc'[y] = pc[y] /\ loc'[y] = loc[y]
        /\ held'[y] \subseteq held[y]
        /\ \A n \in held'[y] : entry'[n].status = entry[n].status

\* What x itself may rely on after its step.
Informed(x) ==
    /\ pc[x] \in {"create", "registerGet", "registerUpdate", "propagate", "write"}
          => At(x) \in Node
    /\ pc[x] = "write" /\ Current(x, At(x)) =>
          /\ loc[x].seen.status = entry[At(x)].status
          /\ loc[x].seen.status # "none"

\* A step of x informs x and leaves the others informed.
LEMMA StepInforms ==
    ASSUME HasNode, ReadIsStored, NEW x \in Actor, StepOf(x), Informed(x)'
    PROVE  HasNode' /\ ReadIsStored'
BY DEF HasNode, ReadIsStored, StepOf, Informed, At, Current

\* Writing outdates the revisions the others hold; moving on concerns the handler
\* alone.
LEMMA PutOf ==
    ASSUME RegistryTyped, NEW n \in Node, NEW r, Put(n, r), NEW y \in Actor
    PROVE  /\ held'[y] = held[y] \ {n}
           /\ \A m \in held'[y] : entry'[m] = entry[m]
BY Zenon DEF RegistryTyped, Put

LEMMA UpdateOf ==
    ASSUME RegistryTyped, NEW x \in Actor, NEW n \in Node, NEW r, Update(x, n, r),
           NEW y \in Actor
    PROVE  /\ held'[y] \subseteq held[y]
           /\ \A m \in held'[y] : entry'[m] = entry[m]
BY Zenon, PutOf DEF RegistryTyped, Update

LEMMA GotoOf ==
    ASSUME RegistryTyped, NEW x \in Actor, NEW l, Goto(x, l)
    PROVE  pc'[x] = l /\ \A y \in Actor \ {x} : pc'[y] = pc[y]
BY Zenon DEF RegistryTyped, Goto

LEMMA ContinueOf ==
    ASSUME RegistryTyped, NEW x \in Actor, NEW l, Continue(x, l)
    PROVE  /\ pc'[x] = l /\ loc'[x] = IF l = "idle" THEN NoLocals ELSE loc[x]
           /\ \A y \in Actor \ {x} : pc'[y] = pc[y] /\ loc'[y] = loc[y]
BY Zenon, GotoOf DEF RegistryTyped, Continue

LEMMA NextOf ==
    ASSUME RegistryTyped, NEW x \in Actor, NEW n, NextInRound(x, n)
    PROVE  /\ pc'[x] \in {"idle", "next"}
           /\ \A y \in Actor \ {x} : pc'[y] = pc[y] /\ loc'[y] = loc[y]
BY Zenon, GotoOf DEF RegistryTyped, NextInRound, RoundLabel

LEMMA BeginOf ==
    ASSUME RegistryTyped, NEW x \in Actor, NEW n, PurgeBegins(x, n)
    PROVE  /\ pc'[x] = "keys" /\ loc'[x].at = n
           /\ \A y \in Actor \ {x} : pc'[y] = pc[y] /\ loc'[y] = loc[y]
<1>1. [Rest(x, n) EXCEPT !.at = n].at = n
  BY Zenon DEF Rest, NoLocals
<1> QED  BY Zenon, <1>1, GotoOf DEF RegistryTyped, PurgeBegins

\* A handler that has found n has read what is stored.
LEMMA FoundIsStored ==
    ASSUME NEW n \in Node, Present(n)
    PROVE  /\ Found(n).at = n /\ Found(n).seen = entry[n]
           /\ Found(n).seen.status # "none"
BY Zenon DEF Found, ReadEntry, NoLocals, Present

\* A failing call leaves the handlers informed.
LEMMA FaultInforms ==
    ASSUME TypeOK, HasNode, ReadIsStored, FaultStep
    PROVE  HasNode' /\ ReadIsStored'
<1>0. /\ RegistryTyped /\ Purger \subseteq Actor
      /\ {"register", "unregister", "pong", "monitor", "cleanup"} \subseteq Actor
  BY Zenon DEF TypeOK, RegistryTyped, Actor, Purger
<1>1. ASSUME NEW n \in Node, RegisterLookupFails(n)
      PROVE  HasNode' /\ ReadIsStored'
  <2>1. loc'["register"].at = n /\ pc'["register"] = "create"
    BY Zenon, <1>0, <1>1 DEF RegisterLookupFails, NoLocals, Goto, RegistryTyped
  <2>2. StepOf("register")
    BY <1>0, <1>1, GotoOf DEF RegisterLookupFails, StepOf
  <2> QED  BY Zenon, <1>0, <2>1, <2>2, StepInforms DEF Informed, At
<1>2. CASE RegisterFails
  <2>1. At("register") \in Node
    BY Zenon, <1>0, <1>2 DEF RegisterFails, HasNode
  <2>2. \A y \in Actor : held'[y] \subseteq held[y] /\ \A m \in held'[y] : entry'[m] = entry[m]
    BY Zenon, <1>0, <1>2, <2>1, PutOf, UpdateOf DEF RegisterFails
  <2>3. StepOf("register") /\ Informed("register")'
    BY <1>0, <1>2, <2>1, <2>2, ContinueOf DEF RegisterFails, StepOf, Informed, At
  <2> QED  BY Zenon, <1>0, <2>3, StepInforms
<1>3. ASSUME NEW x \in Actor, NEW r, WriteFails(x, r)
      PROVE  HasNode' /\ ReadIsStored'
  <2>1. At(x) \in Node
    BY Zenon, <1>3 DEF WriteFails, HasNode
  <2>2. \A y \in Actor : held'[y] \subseteq held[y] /\ \A m \in held'[y] : entry'[m] = entry[m]
    BY Zenon, <1>0, <1>3, <2>1, UpdateOf DEF WriteFails
  <2>3. StepOf(x) /\ Informed(x)'
    BY <1>0, <1>3, <2>1, <2>2, ContinueOf, NextOf DEF WriteFails, StepOf, Informed
  <2> QED  BY Zenon, <1>0, <2>3, StepInforms
<1>4. ASSUME NEW n \in Node, IncrementFails(n)
      PROVE  HasNode' /\ ReadIsStored'
  <2>1. StepOf("monitor") /\ Informed("monitor")'
    BY <1>0, <1>4, NextOf DEF IncrementFails, StepOf, Informed
  <2> QED  BY Zenon, <1>0, <2>1, StepInforms
<1>5. ASSUME NEW n \in Node, CleanupFails(n)
      PROVE  HasNode' /\ ReadIsStored'
  <2>1. \A y \in Actor : held'[y] \subseteq held[y] /\ \A m \in held'[y] : entry'[m] = entry[m]
    BY Zenon, <1>0, <1>5, PutOf DEF CleanupFails, Deregister
  <2>2. StepOf("cleanup") /\ Informed("cleanup")'
    BY <1>0, <1>5, <2>1, NextOf DEF CleanupFails, StepOf, Informed
  <2> QED  BY Zenon, <1>0, <2>2, StepInforms
<1>6. ASSUME NEW x \in Purger, PurgeFails(x)
      PROVE  HasNode' /\ ReadIsStored'
  <2>1. StepOf(x) /\ Informed(x)'
    BY Zenon, <1>0, <1>6, ContinueOf, NextOf DEF PurgeFails, AfterPurge, StepOf, Informed
  <2> QED  BY Zenon, <1>0, <2>1, StepInforms
<1> QED  BY Zenon, <1>0, <1>1, <1>2, <1>3, <1>4, <1>5, <1>6 DEF FaultStep

\* Every step leaves the handlers informed.
LEMMA ReadsStep ==
    ASSUME TypeOK, HasNode, ReadIsStored, Next
    PROVE  HasNode' /\ ReadIsStored'
<1> USE DEF registryVars, NodeVarsOnly
<1>0. /\ RegistryTyped
      /\ {"register", "unregister", "pong", "monitor", "cleanup"} \subseteq Actor
  BY Zenon DEF TypeOK, RegistryTyped, Actor
<1>1. CASE UNCHANGED registryVars
  BY Zenon, <1>1 DEF HasNode, ReadIsStored, At, Current
<1>2. ASSUME NEW n \in Node, HandleNodeRegister(n)
      PROVE  HasNode' /\ ReadIsStored'
  <2>1. loc'["register"].at = n /\ pc'["register"] = "create"
    BY Zenon, <1>0, <1>2 DEF HandleNodeRegister, NoLocals, Goto, RegistryTyped, Present
  <2>2. StepOf("register")
    BY <1>0, <1>2, GotoOf DEF HandleNodeRegister, StepOf
  <2> QED  BY Zenon, <1>0, <2>1, <2>2, StepInforms DEF Informed, At
<1>3. CASE RegisterCreate
  <2>1. At("register") \in Node
    BY Zenon, <1>0, <1>3 DEF RegisterCreate, HasNode
  <2>2. StepOf("register") /\ Informed("register")'
    BY <1>0, <1>3, <2>1, PutOf, ContinueOf DEF RegisterCreate, Registered, StepOf, Informed, At
  <2> QED  BY Zenon, <1>0, <2>2, StepInforms
<1>4. CASE RegisterGet
  <2>1. At("register") \in Node
    BY Zenon, <1>0, <1>4 DEF RegisterGet, HasNode
  <2>2. StepOf("register")
    BY Zenon, <1>0, <1>4 DEF RegisterGet, StepOf, ReadRevision, Continue, Goto, RegistryTyped
  <2>3. Informed("register")'
    BY <1>0, <1>4, <2>1, ContinueOf DEF RegisterGet, Informed, At
  <2> QED  BY Zenon, <1>0, <2>2, <2>3, StepInforms
<1>5. CASE RegisterUpdate
  <2>1. At("register") \in Node
    BY Zenon, <1>0, <1>5 DEF RegisterUpdate, HasNode
  <2>2. StepOf("register") /\ Informed("register")'
    BY <1>0, <1>5, <2>1, UpdateOf, ContinueOf DEF RegisterUpdate, Registered, StepOf, Informed, At
  <2> QED  BY Zenon, <1>0, <2>2, StepInforms
<1>6. CASE PropagateKnownNodes
  <2>1. StepOf("register") /\ Informed("register")'
    BY Zenon, <1>0, <1>6, ContinueOf DEF PropagateKnownNodes, StepOf, Informed, At
  <2> QED  BY Zenon, <1>0, <2>1, StepInforms
<1>7. ASSUME NEW n \in Node, HandleNodeUnregister(n)
      PROVE  HasNode' /\ ReadIsStored'
  <2>1. StepOf("unregister")
    BY Zenon, <1>0, <1>7 DEF HandleNodeUnregister, StepOf, ReadRevision, Goto, RegistryTyped
  <2>2. /\ entry' = entry /\ loc'["unregister"] = Found(n)
        /\ pc'["unregister"] = IF Present(n) THEN "write" ELSE "idle"
    BY Zenon, <1>0, <1>7, GotoOf DEF HandleNodeUnregister, ReadRevision, RegistryTyped
  <2>3. Informed("unregister")'
    BY Zenon, <2>2, FoundIsStored DEF Informed, At
  <2> QED  BY Zenon, <1>0, <2>1, <2>3, StepInforms
<1>8. CASE UnregisterWrite
  <2>1. At("unregister") \in Node
    BY Zenon, <1>0, <1>8 DEF UnregisterWrite, HasNode
  <2>2. StepOf("unregister") /\ Informed("unregister")'
    BY <1>0, <1>8, <2>1, UpdateOf, ContinueOf, BeginOf DEF UnregisterWrite, StepOf, Informed, At
  <2> QED  BY Zenon, <1>0, <2>2, StepInforms
<1>9. ASSUME NEW n \in Node, HandlePong(n)
      PROVE  HasNode' /\ ReadIsStored'
  <2>1. StepOf("pong")
    BY Zenon, <1>0, <1>9 DEF HandlePong, StepOf, ReadRevision, Goto, RegistryTyped
  <2>2. /\ entry' = entry /\ loc'["pong"] = Found(n)
        /\ pc'["pong"] = IF Present(n) THEN "write" ELSE "idle"
    BY Zenon, <1>0, <1>9, GotoOf DEF HandlePong, ReadRevision, RegistryTyped
  <2>3. Informed("pong")'
    BY Zenon, <2>2, FoundIsStored DEF Informed, At
  <2> QED  BY Zenon, <1>0, <2>1, <2>3, StepInforms
<1>10. CASE PongWrite
  <2>1. At("pong") \in Node
    BY Zenon, <1>0, <1>10 DEF PongWrite, HasNode
  <2>2. StepOf("pong") /\ Informed("pong")'
    BY <1>0, <1>10, <2>1, UpdateOf, ContinueOf DEF PongWrite, StepOf, Informed, At
  <2> QED  BY Zenon, <1>0, <2>2, StepInforms
<1>11. CASE PingAll
  <2>1. StepOf("monitor") /\ Informed("monitor")'
    BY <1>0, <1>11, GotoOf DEF PingAll, StepOf, Informed, At
  <2> QED  BY Zenon, <1>0, <2>1, StepInforms
<1>12. ASSUME NEW n \in Node, Increment(n)
       PROVE  HasNode' /\ ReadIsStored'
  <2>1. CASE Present(n)
    <3>1. [ReadEntry(n) EXCEPT !.todo = loc["monitor"].todo \ {n}].at = n
          /\ [ReadEntry(n) EXCEPT !.todo = loc["monitor"].todo \ {n}].seen = entry[n]
      BY Zenon DEF ReadEntry, NoLocals
    <3>2. StepOf("monitor")
      BY Zenon, <1>0, <1>12, <2>1 DEF Increment, Take, StepOf, ReadRevision, Goto, RegistryTyped
    <3>3. /\ entry' = entry /\ pc'["monitor"] = "write"
          /\ loc'["monitor"] = [ReadEntry(n) EXCEPT !.todo = loc["monitor"].todo \ {n}]
      BY Zenon, <1>0, <1>12, <2>1, GotoOf DEF Increment, Take, ReadRevision, RegistryTyped
    <3>4. Informed("monitor")'
      BY Zenon, <2>1, <3>1, <3>3 DEF Informed, At, Present
    <3> QED  BY Zenon, <1>0, <3>2, <3>4, StepInforms
  <2>2. CASE ~Present(n)
    <3>1. StepOf("monitor")
      BY Zenon, <1>0, <1>12, <2>2
      DEF Increment, StepOf, ReadRevision, NextInRound, Goto, RegistryTyped
    <3>2. pc'["monitor"] \in {"idle", "next"}
      BY Zenon, <1>0, <1>12, <2>2, NextOf DEF Increment
    <3> QED  BY Zenon, <1>0, <3>1, <3>2, StepInforms DEF Informed
  <2> QED  BY Zenon, <2>1, <2>2
<1>13. CASE IncrementWrite
  <2>1. At("monitor") \in Node
    BY Zenon, <1>0, <1>13 DEF IncrementWrite, HasNode
  <2>2. StepOf("monitor") /\ Informed("monitor")'
    BY <1>0, <1>13, <2>1, UpdateOf, NextOf, BeginOf
    DEF IncrementWrite, StepOf, Informed, At
  <2> QED  BY Zenon, <1>0, <2>2, StepInforms
<1>14. CASE CleanupDeadNodes
  <2>1. StepOf("cleanup") /\ Informed("cleanup")'
    BY <1>0, <1>14, GotoOf DEF CleanupDeadNodes, StepOf, Informed, At
  <2> QED  BY Zenon, <1>0, <2>1, StepInforms
<1>15. ASSUME NEW n \in Node, CleanupDeregister(n)
       PROVE  HasNode' /\ ReadIsStored'
  <2>1. StepOf("cleanup") /\ Informed("cleanup")'
    BY <1>0, <1>15, PutOf, BeginOf DEF CleanupDeregister, Deregister, StepOf, Informed, At
  <2> QED  BY Zenon, <1>0, <2>1, StepInforms
<1>16. ASSUME NEW x \in Purger, PurgeKeys(x) \/ PurgeNode(x)
       PROVE  HasNode' /\ ReadIsStored'
  <2>1. x \in Actor
    BY Zenon DEF Purger, Actor
  <2>2. StepOf(x) /\ Informed(x)'
    <3>1. CASE PurgeKeys(x)
      BY <1>0, <2>1, <3>1, GotoOf DEF PurgeKeys, RegistryTyped, StepOf, Informed, At
    <3>2. CASE PurgeNode(x)
      BY Zenon, <1>0, <2>1, <3>2, ContinueOf, NextOf DEF PurgeNode, AfterPurge, StepOf, Informed, At
    <3> QED  BY Zenon, <1>16, <3>1, <3>2
  <2> QED  BY Zenon, <2>1, <2>2, StepInforms
<1>17. ASSUME NEW n \in Node, Ages(n)
       PROVE  HasNode' /\ ReadIsStored'
  <2>1. \A m \in Node : entry'[m].status = entry[m].status
    BY Zenon, <1>0, <1>17 DEF Ages, RegistryTyped, NodeInfo
  <2> QED  BY Zenon, <1>0, <1>17, <2>1 DEF Ages, HasNode, ReadIsStored, At, Current
<1>18. CASE Restart
  BY Zenon, <1>18 DEF Restart, HasNode, ReadIsStored
<1>19. CASE FaultStep
  BY Zenon, <1>19, FaultInforms
<1> QED
  BY Zenon, <1>1, <1>2, <1>3, <1>4, <1>5, <1>6, <1>7, <1>8, <1>9, <1>10, <1>11, <1>12, <1>13,
     <1>14, <1>15, <1>16, <1>17, <1>18, <1>19
  DEF Next, PeerStep, PeerStarts, PeerStops, AnswerPing, PeerPropagates, PeerForwards,
      RegisterStep, UnregisterStep, PongStep, MonitorStep, CleanupStep, Purger,
      AgentMessageStep, HandleRemoteAnnounce, HandleRemoteRemove

-----------------------------------------------------------------------------
(* What the purges cover *)

\* What the step does to node m, x having been the one to take it: x is to purge
\* m, or m keeps alive, or the agents it may lose are left behind.
Covers(x, m) ==
    \/ x \in Purger /\ pc'[x] = "keys" /\ loc'[x].at = m
    \/ /\ ~Alive(m)' => ~Alive(m) \/ remote \cap AgentsOf(m) \subseteq left'
       /\ \A a \in AgentsOf(m) : (a \in late => a \in late') /\ (a \in left => a \in left')

\* A step of x that was not purging and leaves the agents alone.
StepCovers(x) ==
    /\ remote' = remote
    /\ ~Purging(x)
    /\ \A y \in Actor \ {x} : pc'[y] = pc[y] /\ loc'[y] = loc[y]
    /\ \A m \in Node : Covers(x, m)

\* Such a step leaves every agent of a dead node covered.
LEMMA CoverStep ==
    ASSUME TypeOK, PurgeCovers, NEW x \in Actor, StepCovers(x)
    PROVE  PurgeCovers'
<1> SUFFICES ASSUME NEW a \in remote, ~Alive(Home[a])', a \notin late', a \notin left'
             PROVE  BeingPurged(a)'
  BY Zenon DEF PurgeCovers, StepCovers
<1>1. Home[a] \in Node /\ a \in Agent
  BY Zenon, FederationAssumption DEF TypeOK
<1>2. Purger \subseteq Actor
  BY Zenon DEF Purger, Actor
<1>3. CASE x \in Purger /\ pc'[x] = "keys" /\ loc'[x].at = Home[a]
  BY Zenon, <1>3 DEF BeingPurged, At
<1>4. CASE ~(x \in Purger /\ pc'[x] = "keys" /\ loc'[x].at = Home[a])
  <2>0. a \in AgentsOf(Home[a]) /\ Covers(x, Home[a])
    BY Zenon, <1>1 DEF AgentsOf, StepCovers
  <2>1. a \notin late /\ a \notin left /\ ~Alive(Home[a])
    BY Zenon, <1>4, <2>0 DEF Covers
  <2>2. PICK y \in Purger : At(y) = Home[a]
                            /\ (pc[y] = "keys" \/ (pc[y] = "purge" /\ a \in loc[y].agents))
    BY Zenon, <2>1 DEF PurgeCovers, BeingPurged
  <2>3. y # x
    BY Zenon, <2>2 DEF StepCovers, Purging
  <2>4. pc'[y] = pc[y] /\ loc'[y] = loc[y]
    BY Zenon, <1>2, <2>3 DEF StepCovers
  <2> QED  BY Zenon, <2>2, <2>4 DEF BeingPurged, At
<1> QED  BY Zenon, <1>3, <1>4

\* Nothing happens to a node whose agents are remembered as they are.
LEMMA KeptCovers ==
    ASSUME UNCHANGED <<late, left>>, NEW x, \A m \in Node : ~Alive(m)' => ~Alive(m)
    PROVE  \A m \in Node : Covers(x, m)
BY Zenon DEF Covers

\* A purge that begins covers its node; the memory of the others' agents stays.
LEMMA BeginCovers ==
    ASSUME RegistryTyped, NEW x \in Purger, x \in Actor, NEW n, PurgeBegins(x, n),
           \A m \in Node : ~Alive(m)' => ~Alive(m) \/ m = n
    PROVE  \A m \in Node : Covers(x, m)
BY Zenon, BeginOf DEF Covers, PurgeBegins, AgentsOf

\* A node that dies or is forgotten unpurged leaves its agents behind.
LEMMA NotPurgedCovers ==
    ASSUME NEW x, NEW n \in Node, NotPurged(n), late' = late,
           \A m \in Node : ~Alive(m)' => ~Alive(m) \/ m = n
    PROVE  \A m \in Node : Covers(x, m)
<1>1. left \subseteq left'
  BY Zenon DEF NotPurged
<1>2. Alive(n) /\ ~Alive(n)' => remote \cap AgentsOf(n) \subseteq left'
  BY Zenon DEF NotPurged, Alive, Present, Dead
<1> QED  BY Zenon, <1>1, <1>2 DEF Covers

\* What the entries become: only a status of dead, or no entry, ends a node's life.
LEMMA WritesKeepAlive ==
    ASSUME RegistryTyped, NEW x \in Actor
    PROVE  /\ \A n \in Node : \A r : Put(n, r) /\ r.status \notin {"none", "dead"}
                 => \A m \in Node : ~Alive(m)' => ~Alive(m)
           /\ \A n \in Node : \A r : Put(n, r)
                 => \A m \in Node : ~Alive(m)' => ~Alive(m) \/ m = n
           /\ \A n \in Node : \A r :
                 Update(x, n, r) /\ (Current(x, n) /\ r.status \in {"none", "dead"} => ~Alive(n))
                 => \A m \in Node : ~Alive(m)' => ~Alive(m)
           /\ \A n \in Node : \A r : Update(x, n, r)
                 => \A m \in Node : ~Alive(m)' =>
                       ~Alive(m) \/ (m = n /\ Current(x, n) /\ r.status \in {"none", "dead"})
           /\ entry' = entry => \A m \in Node : ~Alive(m)' => ~Alive(m)
BY Zenon DEF RegistryTyped, Put, Update, Alive, Present, Dead

\* A failing call leaves the agents of a dead node covered.
LEMMA FaultCovers ==
    ASSUME TypeOK, HasNode, PurgeCovers, FaultStep
    PROVE  PurgeCovers'
<1>0. /\ RegistryTyped /\ Purger \subseteq Actor
      /\ {"register", "unregister", "pong", "monitor", "cleanup"} \subseteq Actor
      /\ "register" \notin Purger /\ NewNode.status = "active"
      /\ entry' = entry => \A m \in Node : ~Alive(m)' => ~Alive(m)
  BY Zenon, WritesKeepAlive DEF TypeOK, RegistryTyped, Actor, Purger, NewNode, Info
<1>1. ASSUME NEW n \in Node, RegisterLookupFails(n)
      PROVE  PurgeCovers'
  <2>1. \A y \in Actor \ {"register"} : pc'[y] = pc[y] /\ loc'[y] = loc[y]
    BY Zenon, <1>0, <1>1, GotoOf DEF RegisterLookupFails, RegistryTyped
  <2>2. StepCovers("register")
    BY Zenon, <1>0, <1>1, <2>1, KeptCovers DEF RegisterLookupFails, StepCovers, Purging
  <2> QED  BY Zenon, <1>0, <2>2, CoverStep
<1>2. CASE RegisterFails
  <2>1. At("register") \in Node
    BY Zenon, <1>0, <1>2 DEF RegisterFails, HasNode
  <2>2. \A m \in Node : ~Alive(m)' => ~Alive(m)
    BY Zenon, <1>0, <1>2, <2>1, WritesKeepAlive DEF RegisterFails
  <2>3. \A y \in Actor \ {"register"} : pc'[y] = pc[y] /\ loc'[y] = loc[y]
    BY Zenon, <1>0, <1>2, ContinueOf DEF RegisterFails
  <2>4. StepCovers("register")
    BY Zenon, <1>0, <1>2, <2>2, <2>3, KeptCovers DEF RegisterFails, Fails, StepCovers, Purging
  <2> QED  BY Zenon, <1>0, <2>4, CoverStep
<1>3. ASSUME NEW x \in Actor, NEW r, WriteFails(x, r)
      PROVE  PurgeCovers'
  <2>1. At(x) \in Node
    BY Zenon, <1>3 DEF WriteFails, HasNode
  <2>2. \A m \in Node : ~Alive(m)' => ~Alive(m) \/ m = At(x)
    BY Zenon, <1>0, <1>3, <2>1, WritesKeepAlive DEF WriteFails
  <2>3. \A y \in Actor \ {x} : pc'[y] = pc[y] /\ loc'[y] = loc[y]
    BY Zenon, <1>0, <1>3, ContinueOf, NextOf DEF WriteFails
  <2>4. \A m \in Node : Covers(x, m)
    BY Zenon, <1>3, <2>1, <2>2, NotPurgedCovers DEF WriteFails, Fails
  <2>5. StepCovers(x)
    BY Zenon, <1>3, <2>3, <2>4 DEF WriteFails, Fails, StepCovers, Purging
  <2> QED  BY Zenon, <2>5, CoverStep
<1>4. ASSUME NEW n \in Node, IncrementFails(n)
      PROVE  PurgeCovers'
  <2>1. StepCovers("monitor")
    BY Zenon, <1>0, <1>4, NextOf, KeptCovers DEF IncrementFails, Fails, StepCovers, Purging
  <2> QED  BY Zenon, <1>0, <2>1, CoverStep
<1>5. ASSUME NEW n \in Node, CleanupFails(n)
      PROVE  PurgeCovers'
  <2>1. \A m \in Node : ~Alive(m)' => ~Alive(m) \/ m = n
    BY Zenon, <1>0, <1>5, WritesKeepAlive DEF CleanupFails, Deregister
  <2>2. \A m \in Node : Covers("cleanup", m)
    BY Zenon, <1>5, <2>1, NotPurgedCovers DEF CleanupFails, Fails
  <2>3. StepCovers("cleanup")
    BY Zenon, <1>0, <1>5, <2>2, NextOf DEF CleanupFails, Fails, StepCovers, Purging
  <2> QED  BY Zenon, <1>0, <2>3, CoverStep
<1>6. ASSUME NEW x \in Purger, PurgeFails(x)
      PROVE  PurgeCovers'
  <2>1. \A y \in Actor \ {x} : pc'[y] = pc[y] /\ loc'[y] = loc[y]
    BY Zenon, <1>0, <1>6, ContinueOf, NextOf DEF PurgeFails, AfterPurge
  <2>2. entry' = entry /\ remote' \subseteq remote
    BY Zenon, <1>6 DEF PurgeFails
  <2>3. ASSUME NEW a \in remote', a \in late \cup left
        PROVE  a \in late' \cup left'
    BY Zenon, <1>6, <2>3 DEF PurgeFails
  <2> SUFFICES ASSUME NEW a \in remote', ~Alive(Home[a]), a \notin late' \cup left'
               PROVE  BeingPurged(a)'
    BY Zenon, <2>2 DEF PurgeCovers, Alive, Present, Dead
  <2>4. PICK y \in Purger : /\ At(y) = Home[a]
                            /\ pc[y] = "keys" \/ (pc[y] = "purge" /\ a \in loc[y].agents)
    BY Zenon, <2>2, <2>3 DEF PurgeCovers, BeingPurged
  <2>5. y # x
    <3> SUFFICES ASSUME y = x PROVE FALSE
      BY Zenon
    <3>1. a \in Agent /\ a \in remote
      BY Zenon, <2>2 DEF TypeOK
    <3>2. CASE pc[x] = "keys"
      BY Zenon, <1>6, <2>4, <3>1, <3>2 DEF PurgeFails, AgentsOf
    <3>3. CASE pc[x] = "purge"
      BY Zenon, <1>6, <2>4, <3>1, <3>3 DEF PurgeFails
    <3> QED  BY Zenon, <2>4, <3>2, <3>3
  <2> QED  BY Zenon, <1>0, <2>1, <2>4, <2>5 DEF BeingPurged, At
<1> QED  BY Zenon, <1>0, <1>1, <1>2, <1>3, <1>4, <1>5, <1>6 DEF FaultStep

\* Every step leaves the agents of a dead node covered.
LEMMA PurgeStep ==
    ASSUME TypeOK, HasNode, ReadIsStored, PurgeCovers, Next
    PROVE  PurgeCovers'
<1> USE DEF registryVars, NodeVarsOnly
<1>0. /\ RegistryTyped
      /\ {"register", "unregister", "pong", "monitor", "cleanup"} \subseteq Actor
      /\ {"unregister", "monitor", "cleanup"} \subseteq Purger /\ Purger \subseteq Actor
      /\ "register" \notin Purger /\ "pong" \notin Purger
      /\ NewNode.status = "active"
      /\ entry' = entry => \A m \in Node : ~Alive(m)' => ~Alive(m)
  BY Zenon, WritesKeepAlive DEF TypeOK, RegistryTyped, Actor, Purger, NewNode, Info
<1>1. CASE UNCHANGED <<registryVars, remote, late, left>>
  BY Zenon, <1>1 DEF PurgeCovers, BeingPurged, At, Alive, Present, Dead
<1>2. ASSUME NEW n \in Node, HandleNodeRegister(n)
      PROVE  PurgeCovers'
  <2>1. StepCovers("register")
    BY Zenon, <1>0, <1>2, KeptCovers
    DEF HandleNodeRegister, StepCovers, Purging, Goto, RegistryTyped
  <2> QED  BY Zenon, <1>0, <2>1, CoverStep
<1>3. CASE RegisterCreate
  <2>1. At("register") \in Node
    BY Zenon, <1>0, <1>3 DEF RegisterCreate, HasNode
  <2>2. \A m \in Node : ~Alive(m)' => ~Alive(m)
    BY Zenon, <1>0, <1>3, <2>1, WritesKeepAlive DEF RegisterCreate
  <2>3. StepCovers("register")
    BY Zenon, <1>0, <1>3, <2>2, KeptCovers
    DEF RegisterCreate, StepCovers, Purging, Continue, Goto, RegistryTyped
  <2> QED  BY Zenon, <1>0, <2>3, CoverStep
<1>4. CASE RegisterGet
  <2>1. StepCovers("register")
    BY Zenon, <1>0, <1>4, KeptCovers
    DEF RegisterGet, ReadRevision, StepCovers, Purging, Continue, Goto, RegistryTyped
  <2> QED  BY Zenon, <1>0, <2>1, CoverStep
<1>5. CASE RegisterUpdate
  <2>1. At("register") \in Node
    BY Zenon, <1>0, <1>5 DEF RegisterUpdate, HasNode
  <2>2. \A m \in Node : ~Alive(m)' => ~Alive(m)
    BY Zenon, <1>0, <1>5, <2>1, WritesKeepAlive DEF RegisterUpdate
  <2>3. StepCovers("register")
    BY Zenon, <1>0, <1>5, <2>2, KeptCovers
    DEF RegisterUpdate, StepCovers, Purging, Continue, Goto, RegistryTyped
  <2> QED  BY Zenon, <1>0, <2>3, CoverStep
<1>6. CASE PropagateKnownNodes
  <2>1. StepCovers("register")
    BY Zenon, <1>0, <1>6, KeptCovers
    DEF PropagateKnownNodes, StepCovers, Purging, Continue, Goto, RegistryTyped
  <2> QED  BY Zenon, <1>0, <2>1, CoverStep
<1>7. ASSUME NEW n \in Node, HandleNodeUnregister(n)
      PROVE  PurgeCovers'
  <2>1. StepCovers("unregister")
    BY Zenon, <1>0, <1>7, KeptCovers
    DEF HandleNodeUnregister, ReadRevision, StepCovers, Purging, Goto, RegistryTyped
  <2> QED  BY Zenon, <1>0, <2>1, CoverStep
<1>8. CASE UnregisterWrite
  <2>1. At("unregister") \in Node
    BY Zenon, <1>0, <1>8 DEF UnregisterWrite, HasNode
  <2>2. CASE Current("unregister", At("unregister"))
    <3>1. \A m \in Node : ~Alive(m)' => ~Alive(m) \/ m = At("unregister")
      BY Zenon, <1>0, <1>8, <2>1, WritesKeepAlive DEF UnregisterWrite
    <3>2. PurgeBegins("unregister", At("unregister"))
      BY Zenon, <1>8, <2>2 DEF UnregisterWrite
    <3>3. \A m \in Node : Covers("unregister", m)
      BY Zenon, <1>0, <3>1, <3>2, BeginCovers
    <3>4. StepCovers("unregister")
      BY Zenon, <1>0, <1>8, <3>2, <3>3, BeginOf DEF UnregisterWrite, StepCovers, Purging
    <3> QED  BY Zenon, <1>0, <3>4, CoverStep
  <2>3. CASE ~Current("unregister", At("unregister"))
    <3>1. StepCovers("unregister")
      BY Zenon, <1>0, <1>8, <2>3, KeptCovers, ContinueOf
      DEF UnregisterWrite, Update, StepCovers, Purging
    <3> QED  BY Zenon, <1>0, <3>1, CoverStep
  <2> QED  BY Zenon, <2>2, <2>3
<1>9. ASSUME NEW n \in Node, HandlePong(n)
      PROVE  PurgeCovers'
  <2>1. StepCovers("pong")
    BY Zenon, <1>0, <1>9, KeptCovers
    DEF HandlePong, ReadRevision, StepCovers, Purging, Goto, RegistryTyped
  <2> QED  BY Zenon, <1>0, <2>1, CoverStep
<1>10. CASE PongWrite
  <2>1. At("pong") \in Node
    BY Zenon, <1>0, <1>10 DEF PongWrite, HasNode
  <2>2. Current("pong", At("pong")) /\ RecordHeartbeat(loc["pong"].seen).status \in {"none", "dead"}
           => ~Alive(At("pong"))
    BY Zenon, <1>0, <1>10 DEF PongWrite, ReadIsStored, Alive, Dead, RecordHeartbeat, Info
  <2>3. \A m \in Node : ~Alive(m)' => ~Alive(m)
    BY Zenon, <1>0, <1>10, <2>1, <2>2, WritesKeepAlive DEF PongWrite
  <2>4. StepCovers("pong")
    BY Zenon, <1>0, <1>10, <2>3, KeptCovers
    DEF PongWrite, StepCovers, Purging, Continue, Goto, RegistryTyped
  <2> QED  BY Zenon, <1>0, <2>4, CoverStep
<1>11. CASE PingAll
  <2>1. StepCovers("monitor")
    BY Zenon, <1>0, <1>11, KeptCovers DEF PingAll, StepCovers, Purging, Goto, RegistryTyped
  <2> QED  BY Zenon, <1>0, <2>1, CoverStep
<1>12. ASSUME NEW n \in Node, Increment(n)
       PROVE  PurgeCovers'
  <2>1. StepCovers("monitor")
    BY Zenon, <1>0, <1>12, KeptCovers
    DEF Increment, ReadRevision, Take, NextInRound, StepCovers, Purging, Goto,
        RegistryTyped
  <2> QED  BY Zenon, <1>0, <2>1, CoverStep
<1>13. CASE IncrementWrite
  <2>1. At("monitor") \in Node
    BY Zenon, <1>0, <1>13 DEF IncrementWrite, HasNode
  <2>2. CASE Current("monitor", At("monitor")) /\ NewStatus = "dead"
    <3>1. \A m \in Node : ~Alive(m)' => ~Alive(m) \/ m = At("monitor")
      BY Zenon, <1>0, <1>13, <2>1, WritesKeepAlive DEF IncrementWrite
    <3>2. PurgeBegins("monitor", At("monitor"))
      BY Zenon, <1>13, <2>2 DEF IncrementWrite
    <3>3. \A m \in Node : Covers("monitor", m)
      BY Zenon, <1>0, <3>1, <3>2, BeginCovers
    <3>4. StepCovers("monitor")
      BY Zenon, <1>0, <1>13, <3>2, <3>3, BeginOf DEF IncrementWrite, StepCovers, Purging
    <3> QED  BY Zenon, <1>0, <3>4, CoverStep
  <2>3. CASE ~(Current("monitor", At("monitor")) /\ NewStatus = "dead")
    <3>1. Current("monitor", At("monitor")) => NewStatus \notin {"none", "dead"}
      BY Zenon, <1>0, <1>13, <2>3
      DEF IncrementWrite, ReadIsStored, NewStatus, IncrementMissedHeartbeats, Info
    <3>2. \A m \in Node : ~Alive(m)' => ~Alive(m)
      BY Zenon, <1>0, <1>13, <2>1, <3>1, WritesKeepAlive DEF IncrementWrite, NewStatus
    <3>3. StepCovers("monitor")
      BY Zenon, <1>0, <1>13, <2>3, <3>2, KeptCovers, NextOf
      DEF IncrementWrite, StepCovers, Purging
    <3> QED  BY Zenon, <1>0, <3>3, CoverStep
  <2> QED  BY Zenon, <2>2, <2>3
<1>14. CASE CleanupDeadNodes
  <2>1. StepCovers("cleanup")
    BY Zenon, <1>0, <1>14, KeptCovers DEF CleanupDeadNodes, StepCovers, Purging, Goto, RegistryTyped
  <2> QED  BY Zenon, <1>0, <2>1, CoverStep
<1>15. ASSUME NEW n \in Node, CleanupDeregister(n)
       PROVE  PurgeCovers'
  <2>1. \A m \in Node : ~Alive(m)' => ~Alive(m) \/ m = n
    BY Zenon, <1>0, <1>15, WritesKeepAlive DEF CleanupDeregister, Deregister
  <2>2. \A m \in Node : Covers("cleanup", m)
    BY Zenon, <1>0, <1>15, <2>1, BeginCovers DEF CleanupDeregister
  <2>3. StepCovers("cleanup")
    BY Zenon, <1>0, <1>15, <2>2, BeginOf DEF CleanupDeregister, StepCovers, Purging
  <2> QED  BY Zenon, <1>0, <2>3, CoverStep
<1>16. ASSUME NEW x \in Purger, PurgeKeys(x)
       PROVE  PurgeCovers'
  <2>1. /\ pc'[x] = "purge" /\ loc'[x].at = At(x)
        /\ loc'[x].agents = remote \cap AgentsOf(At(x))
    BY Zenon, <1>0, <1>16 DEF PurgeKeys, Goto, RegistryTyped, Local, At
  <2>2. \A y \in Actor \ {x} : pc'[y] = pc[y] /\ loc'[y] = loc[y]
    BY Zenon, <1>0, <1>16 DEF PurgeKeys, Goto, RegistryTyped
  <2>3. UNCHANGED <<entry, remote, late, left>>
    BY Zenon, <1>16 DEF PurgeKeys
  <2> SUFFICES ASSUME NEW a \in remote, ~Alive(Home[a]), a \notin late \cup left
               PROVE  BeingPurged(a)'
    BY Zenon, <2>3 DEF PurgeCovers, Alive, Present, Dead
  <2>4. a \in Agent
    BY Zenon DEF TypeOK
  <2>5. PICK y \in Purger : /\ At(y) = Home[a]
                            /\ pc[y] = "keys" \/ (pc[y] = "purge" /\ a \in loc[y].agents)
    BY Zenon DEF PurgeCovers, BeingPurged
  <2>6. CASE y = x
    BY Zenon, <2>1, <2>4, <2>5, <2>6 DEF BeingPurged, At, AgentsOf
  <2>7. CASE y # x
    BY Zenon, <1>0, <2>2, <2>5, <2>7 DEF BeingPurged, At
  <2> QED  BY Zenon, <2>6, <2>7
<1>17. ASSUME NEW x \in Purger, PurgeNode(x)
       PROVE  PurgeCovers'
  <2>1. \A y \in Actor \ {x} : pc'[y] = pc[y] /\ loc'[y] = loc[y]
    BY Zenon, <1>0, <1>17, ContinueOf, NextOf DEF PurgeNode, AfterPurge
  <2>2. /\ pc[x] = "purge" /\ entry' = entry /\ remote' = remote \ loc[x].agents
        /\ late' = late \ loc[x].agents /\ left' = left \ loc[x].agents
    BY Zenon, <1>17 DEF PurgeNode
  <2> SUFFICES ASSUME NEW a \in remote, a \notin loc[x].agents, ~Alive(Home[a]),
                      a \notin late \cup left
               PROVE  BeingPurged(a)'
    BY Zenon, <2>2 DEF PurgeCovers, Alive, Present, Dead
  <2>3. PICK y \in Purger : /\ At(y) = Home[a]
                            /\ pc[y] = "keys" \/ (pc[y] = "purge" /\ a \in loc[y].agents)
    BY Zenon DEF PurgeCovers, BeingPurged
  <2>4. y # x
    BY Zenon, <2>2, <2>3
  <2> QED  BY Zenon, <1>0, <2>1, <2>3, <2>4 DEF BeingPurged, At
<1>18. ASSUME NEW a \in Agent, HandleRemoteAnnounce(a)
       PROVE  PurgeCovers'
  <2>1. \A b : BeingPurged(b)' <=> BeingPurged(b)
    BY Zenon, <1>18 DEF HandleRemoteAnnounce, BeingPurged, At
  <2>2. /\ entry' = entry /\ left' = left /\ remote' = remote \cup {a}
        /\ late \subseteq late' /\ (~Alive(Home[a]) => a \in late')
    BY Zenon, <1>18 DEF HandleRemoteAnnounce
  <2> QED  BY Zenon, <2>1, <2>2 DEF PurgeCovers, Alive, Present, Dead
<1>19. ASSUME NEW a \in Agent, HandleRemoteRemove(a)
       PROVE  PurgeCovers'
  <2>1. \A b : BeingPurged(b)' <=> BeingPurged(b)
    BY Zenon, <1>19 DEF HandleRemoteRemove, BeingPurged, At
  <2> QED  BY Zenon, <1>19, <2>1 DEF HandleRemoteRemove, PurgeCovers, Alive, Present, Dead
<1>20. ASSUME NEW n \in Node, Ages(n)
       PROVE  PurgeCovers'
  <2>1. \A m \in Node : Alive(m)' <=> Alive(m)
    BY Zenon, <1>0, <1>20 DEF Ages, RegistryTyped, NodeInfo, Alive, Present, Dead
  <2>2. \A b : BeingPurged(b)' <=> BeingPurged(b)
    BY Zenon, <1>20 DEF Ages, BeingPurged, At
  <2>3. \A a \in remote : Home[a] \in Node
    BY Zenon, FederationAssumption DEF TypeOK
  <2> QED  BY Zenon, <1>20, <2>1, <2>2, <2>3 DEF Ages, PurgeCovers
<1>21. CASE Restart
  <2>1. \A a \in remote : BeingPurged(a) => a \in left'
    BY Zenon, <1>0, <1>21 DEF Restart, BeingPurged, Purging
  <2>2. left \subseteq left' /\ UNCHANGED <<entry, remote, late>>
    BY Zenon, <1>21 DEF Restart
  <2> QED  BY Zenon, <2>1, <2>2 DEF PurgeCovers, Alive, Present, Dead
<1>22. CASE FaultStep
  BY Zenon, <1>22, FaultCovers
<1> QED
  BY Zenon, <1>1, <1>2, <1>3, <1>4, <1>5, <1>6, <1>7, <1>8, <1>9, <1>10, <1>11, <1>12, <1>13,
     <1>14, <1>15, <1>16, <1>17, <1>18, <1>19, <1>20, <1>21, <1>22, <1>0
  DEF Next, PeerStep, PeerStarts, PeerStops, AnswerPing, PeerPropagates, PeerForwards,
      RegisterStep, UnregisterStep, PongStep, MonitorStep, CleanupStep, AgentMessageStep

-----------------------------------------------------------------------------
(* The theorems *)

\* A node that has just been installed knows nobody.
LEMMA NodeInit ==
    ASSUME Init
    PROVE  NodeInvariant
<1>1. TypeOK
  BY Zenon, FederationAssumption, InfoTypes DEF Init, TypeOK, Label, Scenario
<1>2. HasNode /\ ReadIsStored /\ PurgeCovers
  BY Zenon DEF Init, HasNode, ReadIsStored, PurgeCovers
<1> QED  BY Zenon, <1>1, <1>2 DEF NodeInvariant

\* The invariant holds in every reachable state.
THEOREM NodeInvariantHolds == Spec => []NodeInvariant
<1>1. ASSUME NodeInvariant, Next
      PROVE  NodeInvariant'
  BY Zenon, <1>1, TypeStep, ReadsStep, PurgeStep DEF NodeInvariant
<1>2. ASSUME NodeInvariant, UNCHANGED vars
      PROVE  NodeInvariant'
  BY Zenon, <1>2
  DEF vars, NodeInvariant, TypeOK, HasNode, ReadIsStored, PurgeCovers, BeingPurged, Alive,
      Present, Dead, At, Current
<1> QED  BY NodeInit, <1>1, <1>2, PTL DEF Spec

\* Every variable of the federation's membership keeps its type.
THEOREM NodeTypes == Spec => []TypeOK
<1>1. NodeInvariant => TypeOK
  BY Zenon DEF NodeInvariant
<1> QED  BY NodeInvariantHolds, <1>1, PTL

\* The agents of a dead or forgotten node are purged unless they are being purged,
\* were announced since its last purge began, or that purge left them because a call
\* failed or a restart came in between (onNodeDead, PurgeNode, cleanupDeadNodes).
THEOREM PurgeIsComplete == Spec => []DeadNodesArePurged
<1>1. NodeInvariant => DeadNodesArePurged
  BY Zenon DEF NodeInvariant, PurgeCovers, BeingPurged, DeadNodesArePurged, Purging
<1> QED  BY NodeInvariantHolds, <1>1, PTL

\* A step that revives a dead node is the update of a registration.
LEMMA RevivedByRegistration ==
    ASSUME NodeInvariant, Next, NEW n \in Node,
           Dead(n), entry'[n].status \in {"active", "unhealthy"}
    PROVE  At("register") = n /\ pc["register"] = "registerUpdate"
<1>0. /\ RegistryTyped /\ HasNode /\ ReadIsStored
      /\ {"register", "unregister", "pong", "monitor", "cleanup"} \subseteq Actor
  BY Zenon DEF NodeInvariant, TypeOK, RegistryTyped, Actor
<1>1. entry' # entry
  BY Zenon DEF Dead
<1>2. \A m \in Node : \A r : Put(m, r) => m = n /\ r.status \in {"active", "unhealthy"}
  BY Zenon, <1>0 DEF RegistryTyped, Put, Dead
<1>3. \A x \in Actor : \A m \in Node : \A r :
         Update(x, m, r) => Current(x, m) /\ m = n /\ r.status \in {"active", "unhealthy"}
  BY Zenon, <1>1, <1>2 DEF Update
<1>4. ~RegisterCreate
  <2> SUFFICES ASSUME RegisterCreate PROVE FALSE
    BY Zenon
  <2>1. At("register") \in Node
    BY Zenon, <1>0 DEF RegisterCreate, HasNode
  <2> QED  BY Zenon, <1>1, <1>2, <2>1 DEF RegisterCreate, Present, Dead
<1>5. RegisterUpdate => At("register") = n /\ pc["register"] = "registerUpdate"
  BY Zenon, <1>0, <1>3 DEF RegisterUpdate, HasNode
<1>6. ~UnregisterWrite
  <2> SUFFICES ASSUME UnregisterWrite PROVE FALSE
    BY Zenon
  <2>1. At("unregister") \in Node
    BY Zenon, <1>0 DEF UnregisterWrite, HasNode
  <2>2. UpdateStatusDead(loc["unregister"].seen).status = "dead"
    BY Zenon DEF UpdateStatusDead, Info
  <2> QED  BY Zenon, <1>0, <1>3, <2>1, <2>2 DEF UnregisterWrite
<1>7. ~PongWrite
  <2> SUFFICES ASSUME PongWrite PROVE FALSE
    BY Zenon
  <2>1. At("pong") \in Node /\ loc["pong"].seen \in NodeInfo
    BY Zenon, <1>0 DEF PongWrite, HasNode, RegistryTyped, Local
  <2>2. /\ At("pong") = n /\ Current("pong", At("pong"))
        /\ RecordHeartbeat(loc["pong"].seen).status # "dead"
    BY Zenon, <1>0, <1>3, <2>1 DEF PongWrite
  <2>3. loc["pong"].seen.status = "dead"
    BY Zenon, <1>0, <2>2 DEF PongWrite, ReadIsStored, Dead
  <2> QED  BY Zenon, <2>1, <2>2, <2>3, DeadStays
<1>8. ~IncrementWrite
  <2> SUFFICES ASSUME IncrementWrite PROVE FALSE
    BY Zenon
  <2>1. At("monitor") \in Node /\ loc["monitor"].seen \in NodeInfo
    BY Zenon, <1>0 DEF IncrementWrite, HasNode, RegistryTyped, Local
  <2>2. /\ At("monitor") = n /\ Current("monitor", At("monitor"))
        /\ IncrementMissedHeartbeats(loc["monitor"].seen).status # "dead"
    BY Zenon, <1>0, <1>3, <2>1 DEF IncrementWrite
  <2>3. loc["monitor"].seen.status = "dead"
    BY Zenon, <1>0, <2>2 DEF IncrementWrite, ReadIsStored, Dead
  <2> QED  BY Zenon, <2>1, <2>2, <2>3, DeadStays
<1>9. ASSUME NEW m \in Node
      PROVE  ~CleanupDeregister(m)
  <2>1. NoNode.status = "none"
    BY Zenon DEF NoNode, Info
  <2> QED  BY Zenon, <1>2, <2>1 DEF CleanupDeregister, Deregister
<1>10. ASSUME NEW m \in Node
       PROVE  ~Ages(m)
  BY Zenon, <1>0 DEF Ages, RegistryTyped, NodeInfo, Dead
<1>11. FaultStep => At("register") = n /\ pc["register"] = "registerUpdate"
  <2>1. ASSUME NEW x \in Actor, NEW r, WriteFails(x, r),
               loc[x].seen \in NodeInfo /\ loc[x].seen.status = "dead" => r.status = "dead"
        PROVE  FALSE
    <3>1. At(x) \in Node /\ loc[x].seen \in NodeInfo
      BY Zenon, <1>0, <2>1 DEF WriteFails, HasNode, RegistryTyped, Local
    <3>2. At(x) = n /\ Current(x, At(x)) /\ r.status # "dead"
      BY Zenon, <1>1, <1>3, <2>1, <3>1 DEF WriteFails
    <3>3. loc[x].seen.status = "dead"
      BY Zenon, <1>0, <2>1, <3>2 DEF WriteFails, ReadIsStored, Dead
    <3> QED  BY Zenon, <2>1, <3>1, <3>2, <3>3
  <2>2. ~WriteFails("unregister", UpdateStatusDead(loc["unregister"].seen))
    <3>1. UpdateStatusDead(loc["unregister"].seen).status = "dead"
      BY Zenon DEF UpdateStatusDead, Info
    <3> QED  BY Zenon, <1>0, <2>1, <3>1
  <2>3. ~WriteFails("pong", RecordHeartbeat(loc["pong"].seen))
    BY Zenon, <1>0, <2>1, DeadStays
  <2>4. ~WriteFails("monitor", IncrementMissedHeartbeats(loc["monitor"].seen))
    BY Zenon, <1>0, <2>1, DeadStays
  <2>5. RegisterFails => At("register") = n /\ pc["register"] = "registerUpdate"
    <3> SUFFICES ASSUME RegisterFails
                 PROVE  At("register") = n /\ pc["register"] = "registerUpdate"
      BY Zenon
    <3>1. At("register") \in Node
      BY Zenon, <1>0 DEF RegisterFails, HasNode
    <3> QED  BY Zenon, <1>0, <1>1, <1>2, <1>3, <3>1 DEF RegisterFails, Present, Dead
  <2>6. ASSUME NEW m \in Node
        PROVE  ~CleanupFails(m)
    <3>1. NoNode.status = "none"
      BY Zenon DEF NoNode, Info
    <3> QED  BY Zenon, <1>1, <1>2, <3>1 DEF CleanupFails, Deregister
  <2> QED
    BY Zenon, <1>1, <2>2, <2>3, <2>4, <2>5, <2>6
    DEF FaultStep, RegisterLookupFails, IncrementFails, PurgeFails
<1> QED
  BY Zenon, <1>1, <1>4, <1>5, <1>6, <1>7, <1>8, <1>9, <1>10, <1>11
  DEF Next, PeerStep, PeerStarts, PeerStops, AnswerPing, PeerPropagates, PeerForwards,
      RegisterStep, UnregisterStep, PongStep, MonitorStep, CleanupStep, AgentMessageStep,
      HandleRemoteAnnounce, HandleRemoteRemove, HandleNodeRegister, RegisterGet,
      PropagateKnownNodes, HandleNodeUnregister, HandlePong, PingAll, Increment,
      CleanupDeadNodes, PurgeKeys, PurgeNode, Restart, ReadRevision, registryVars

\* Only the update of a registration brings a dead node back: neither a pong nor
\* a count that was read before it died does (RecordHeartbeat,
\* IncrementMissedHeartbeats).
THEOREM DeadStaysDead == Spec => DeadUntilRegistered
<1>1. ASSUME NodeInvariant, [Next]_vars
      PROVE  [\A n \in Node :
                Dead(n) /\ entry'[n].status \in {"active", "unhealthy"}
                   => At("register") = n /\ pc["register"] = "registerUpdate"]_vars
  BY Zenon, <1>1, RevivedByRegistration
<1> QED  BY NodeInvariantHolds, <1>1, PTL DEF Spec, DeadUntilRegistered

=============================================================================
