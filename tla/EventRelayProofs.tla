-------------------------- MODULE EventRelayProofs --------------------------
(***************************************************************************)
(* Safety of the federation's relay, for any nodes, agents and events: the *)
(* peers of a node learn of its agents, an event that was routed is        *)
(* stored, and a result relayed back is not relayed on.                    *)
(*                                                                         *)
(* The invariant follows an announcement from the lifecycle event through  *)
(* the announcer's stream and the transport to the peer's registry.  What  *)
(* could undo it, the removal of an agent that stopped, exists only for    *)
(* agents nobody has to know.                                              *)
(***************************************************************************)
EXTENDS EventRelay, TLAPS

\* Somebody has to know of the agent, so it has never stopped.
Steady(x) == \E m \in Node : <<m, x>> \notin excused

\* Nothing that removes such an agent is pending, stored or on the wire.
NeverStopped ==
    \A x \in Agent : Steady(x) =>
        /\ \A n \in Node : <<"withdraw", x>> \notin pending[n]
        /\ \A n \in Node : \A i \in 1..Len(announcements[n]) :
              announcements[n][i].agent = x => ~announcements[n][i].empty
        /\ \A w \in wire : w.agent = x => w.kind = "announce"

\* A consumer was given no more than there is.
HeardExists == \A n \in Node : heard[n] <= Len(announcements[n])

\* A node never lists an agent of its own as a remote one.
OwnIsLocal == \A n \in Node, x \in Agent : <<n, x>> \notin remote[n]

\* An announcement of x that CapabilitySync has still to be given on node n.
Listed(n, x) ==
    \E i \in 1..Len(announcements[n]) : heard[n] < i /\ announcements[n][i].agent = x

Announcement(n, m, x) == [kind |-> "announce", from |-> n, to |-> m, agent |-> x]

\* What peer m does not know yet of agent x of node n is on its way.
Coming(n, m, x) ==
    \/ <<"announce", x>> \in pending[n]
    \/ Listed(n, x)
    \/ Announcement(n, m, x) \in wire
    \/ <<n, x>> \in remote[m]

OnItsWay ==
    \A x \in Agent : \A n, m \in Node :
        home[x] = n /\ m # n /\ <<m, x>> \notin excused => Coming(n, m, x)

\* What the nodes know of each other's agents.
SyncInvariant == NeverStopped /\ HeardExists /\ OwnIsLocal /\ OnItsWay

\* The copies of an event start after it was emitted, those of a fan-out once, and
\* an event with a target has only one.
CopiesStartOnce ==
    /\ \A e \in budget.events : \A x \in Agent : pc[<<e, x>>] = "none"
    /\ \A e \in Event : \A x \in matched[e] :
          e \in CapabilityEvent \ budget.events /\ pc[<<e, x>>] = "none"
    /\ \A e \in DirectEvent \cup StepEvent : \A x, y \in Agent :
          pc[<<e, x>>] # "none" /\ pc[<<e, y>>] # "none" => x = y

\* A copy that was started is on a node, or on its way to one.
CopiesHaveNode ==
    /\ \A c \in Copy : pc[c] # "none" => at[c] \in Node
    /\ \A c \in Copy : pc[c] = "wire" => sender[c] \in Node
    /\ \A e \in Event : matched[e] # {} => origin[e] \in Node

\* What a stream holds are the messages of copies that were started.
StreamHoldsCopies ==
    \A n \in Node : \A m \in direct[n] :
        \E c \in Copy : m = <<MessageID(c), c[2]>> /\ pc[c] # "none"

\* Under the subject that gateways subscribe to are only results no one has relayed.
SubscribedIsFresh ==
    \A n \in Node : \A r \in results[n] : r[2] = "result" => r[3] = 0

\* Where the copies are, what the streams hold and how often a result was relayed.
CopyInvariant ==
    /\ CopiesStartOnce
    /\ CopiesHaveNode
    /\ StreamHoldsCopies
    /\ RoutedIsStored

ResultInvariant == SubscribedIsFresh /\ ResultsDoNotBounce

RelayInvariant ==
    /\ TypeOK
    /\ SyncInvariant
    /\ CopyInvariant
    /\ ResultInvariant

-----------------------------------------------------------------------------
(* Types *)

\* Spending one of the bounds keeps the events that may still be emitted.
LEMMA SpendTyped ==
    ASSUME budget \in Bounds
    PROVE  \A what \in {"stops", "losses", "redeliveries", "faults", "purges", "restarts"} :
              Spend(what) => budget' \in Bounds /\ budget'.events = budget.events
<1>1. Spend("stops") => budget' \in Bounds /\ budget'.events = budget.events
  BY DEF Spend, Bounds
<1>2. Spend("losses") => budget' \in Bounds /\ budget'.events = budget.events
  BY DEF Spend, Bounds
<1>3. Spend("faults") => budget' \in Bounds /\ budget'.events = budget.events
  BY DEF Spend, Bounds
<1>4. Spend("redeliveries") => budget' \in Bounds /\ budget'.events = budget.events
  BY DEF Spend, Bounds
<1>5. Spend("purges") => budget' \in Bounds /\ budget'.events = budget.events
  BY DEF Spend, Bounds
<1>6. Spend("restarts") => budget' \in Bounds /\ budget'.events = budget.events
  BY DEF Spend, Bounds
<1> QED  BY Zenon, <1>1, <1>2, <1>3, <1>4, <1>5, <1>6

\* What is published on a node is stored there.
LEMMA ReachedTyped ==
    ASSUME NEW n, NEW S \in Reached(n)
    PROVE  S \subseteq Node /\ n \in S
BY Zenon DEF Reached

\* Excusing only adds.
LEMMA ExcuseTyped ==
    ASSUME SyncTypeOK, NEW n \in Node, NEW x \in Agent, NEW M \in SUBSET Node
    PROVE  /\ Excuse(n, x, M) \subseteq Key /\ excused \subseteq Excuse(n, x, M)
           /\ home[x] = n => \A m \in M : <<m, x>> \in Excuse(n, x, M)
BY Zenon DEF Excuse, SyncTypeOK, Key

\* What a node sends has its type; a peer that is not sent an announcement of the
\* node's own agent is excused.
LEMMA SendTyped ==
    ASSUME SyncTypeOK, budget \in Bounds, NEW n \in Node, NEW x \in Agent,
           NEW kind \in {"announce", "remove"}, Send(n, kind, x)
    PROVE  /\ wire' \subseteq Message /\ wire \subseteq wire'
           /\ excused' \subseteq Key /\ excused \subseteq excused'
           /\ budget' \in Bounds /\ budget'.events = budget.events
           /\ \A w \in wire' : w \in wire \/ (w.kind = kind /\ w.agent = x)
           /\ home[x] = n => \A m \in Node :
                 \/ <<m, x>> \in excused'
                 \/ [kind |-> kind, from |-> n, to |-> m, agent |-> x] \in wire'
<1>1. PICK lost \in SUBSET members :
         /\ IF lost = {} THEN UNCHANGED budget ELSE Spend("losses")
         /\ wire' = wire \cup {[kind |-> kind, from |-> n, to |-> m, agent |-> x] :
                                  m \in members \ lost}
         /\ excused' = Excuse(n, x, (Node \ members) \cup lost)
  BY Zenon DEF Send
<1> DEFINE copies == {[kind |-> kind, from |-> n, to |-> m, agent |-> x] :
                         m \in members \ lost}
<1> DEFINE missed == (Node \ members) \cup lost
<1>2. members \subseteq Node /\ missed \subseteq Node
  BY Zenon DEF SyncTypeOK
<1>3. copies \subseteq Message
  BY <1>2 DEF Message
<1>4. \A w \in copies : w.kind = kind /\ w.agent = x
  OBVIOUS
<1>5. \A m \in Node : m \in missed
                      \/ [kind |-> kind, from |-> n, to |-> m, agent |-> x] \in copies
  BY Zenon, <1>2
<1>6. /\ excused' \subseteq Key /\ excused \subseteq excused'
      /\ home[x] = n => \A m \in missed : <<m, x>> \in excused'
  BY Zenon, <1>1, <1>2, ExcuseTyped
<1>7. budget' \in Bounds /\ budget'.events = budget.events
  BY Zenon, <1>1, SpendTyped
<1>8. wire' = wire \cup copies
  BY Zenon, <1>1
<1> HIDE DEF copies, missed
<1> QED  BY Zenon, <1>3, <1>4, <1>5, <1>6, <1>7, <1>8 DEF SyncTypeOK

\* The stream of node m kept what it held, and if m is in S it got e.
Grown(m, S, e) ==
    /\ Len(announcements[m]) <= Len(announcements'[m])
    /\ \A i \in 1..Len(announcements[m]) :
          i \in 1..Len(announcements'[m]) /\ announcements'[m][i] = announcements[m][i]
    /\ \A i \in 1..Len(announcements'[m]) :
          \/ i \in 1..Len(announcements[m]) /\ announcements'[m][i] = announcements[m][i]
          \/ announcements'[m][i] = e
    /\ m \in S => \E i \in 1..Len(announcements'[m]) :
                     Len(announcements[m]) < i /\ announcements'[m][i] = e

\* What publishing an announcement does to the nodes' streams.
LEMMA Appended ==
    ASSUME SyncTypeOK, NEW S, NEW e \in [agent : Agent, empty : BOOLEAN],
           announcements' = [m \in Node |-> IF m \in S THEN Append(announcements[m], e)
                                            ELSE announcements[m]]
    PROVE  /\ announcements' \in [Node -> Seq([agent : Agent, empty : BOOLEAN])]
           /\ \A m \in Node : Grown(m, S, e)
<1> DEFINE Ann == [agent : Agent, empty : BOOLEAN]
<1>1. announcements \in [Node -> Seq(Ann)] /\ e \in Ann
  BY Zenon DEF SyncTypeOK
<1> HIDE DEF Ann
<1>2. ASSUME NEW m \in Node
      PROVE  Grown(m, S, e)
  <2> DEFINE old == announcements[m]
  <2> DEFINE new == announcements'[m]
  <2>1. old \in Seq(Ann) /\ new = IF m \in S THEN Append(old, e) ELSE old
    BY Zenon, <1>1
  <2> HIDE DEF old, new, Grown
  <2>2. CASE m \in S
    <3>1. new = Append(old, e)
      BY Zenon, <2>1, <2>2
    <3>2. /\ new \in Seq(Ann) /\ Len(old) \in Nat /\ Len(new) = Len(old) + 1
          /\ new[Len(old) + 1] = e /\ \A i \in 1..Len(old) : new[i] = old[i]
      BY <1>1, <2>1, <3>1
    <3>3. Len(old) + 1 \in 1..Len(new) /\ Len(old) < Len(old) + 1 /\ Len(old) <= Len(new)
      BY <3>2
    <3>4. \A i \in 1..Len(old) : i \in 1..Len(new)
      BY <3>2
    <3>5. \A i \in 1..Len(new) : i \in 1..Len(old) \/ i = Len(old) + 1
      BY <3>2
    <3> QED  BY Zenon, <3>2, <3>3, <3>4, <3>5 DEF old, new, Grown
  <2>3. CASE m \notin S
    <3>1. new = old
      BY Zenon, <2>1, <2>3
    <3>2. Len(old) <= Len(new)
      BY <2>1, <3>1
    <3> QED  BY Zenon, <2>1, <2>3, <3>1, <3>2 DEF old, new, Grown
  <2> QED  BY Zenon, <2>2, <2>3
<1>3. announcements' \in [Node -> Seq(Ann)]
  <2>1. \A m \in Node : (IF m \in S THEN Append(announcements[m], e)
                         ELSE announcements[m]) \in Seq(Ann)
    BY <1>1
  <2> QED  BY Zenon, <2>1
<1> QED  BY Zenon, <1>2, <1>3 DEF Ann

\* A consumer that is done with an event may be given it again.
LEMMA HandleTyped ==
    ASSUME SyncTypeOK, budget \in Bounds, NEW n \in Node, NEW x \in Agent,
           NEW c \in Consumer, Handle(n, c, x)
    PROVE  /\ pending' \in [Node -> SUBSET (Consumer \X Agent)]
           /\ budget' \in Bounds /\ budget'.events = budget.events
           /\ \A m \in Node : pending'[m] \subseteq pending[m]
           /\ \A m \in Node, d \in Consumer, y \in Agent :
                 <<d, y>> \in pending[m] /\ ~(m = n /\ d = c /\ y = x) => <<d, y>> \in pending'[m]
           /\ <<c, x>> \in pending[n]
<1>1. CASE pending' = [pending EXCEPT ![n] = @ \ {<<c, x>>}] /\ UNCHANGED budget
  BY Zenon, <1>1 DEF SyncTypeOK, Handle
<1>2. CASE Spend("redeliveries") /\ UNCHANGED pending
  BY Zenon, <1>2, SpendTyped DEF SyncTypeOK, Handle
<1> QED  BY Zenon, <1>1, <1>2 DEF Handle

\* What a lifecycle event adds.
LEMMA DeliverTyped ==
    ASSUME SyncTypeOK, NEW S, NEW D \in SUBSET (Consumer \X Agent), Deliver(S, D)
    PROVE  /\ pending' \in [Node -> SUBSET (Consumer \X Agent)]
           /\ \A m \in Node : /\ pending[m] \subseteq pending'[m]
                              /\ pending'[m] \subseteq pending[m] \cup D
                              /\ m \in S => D \subseteq pending'[m]
BY Zenon DEF SyncTypeOK, Deliver

-----------------------------------------------------------------------------
(* What the nodes know of each other's agents *)

\* An agent somebody has to know after a step had to be known before it.
LEMMA SteadyBefore ==
    ASSUME excused \subseteq excused', NEW x \in Agent, Steady(x)'
    PROVE  Steady(x)
BY Zenon DEF Steady

\* What agents do when they start and stop.
LEMMA AgentsKeepSync ==
    ASSUME SyncTypeOK, budget \in Bounds, SyncInvariant, NEW n \in Node, NEW y \in Agent,
           AgentStarts(n, y) \/ AgentStops(n, y)
    PROVE  /\ SyncTypeOK' /\ budget' \in Bounds /\ budget'.events = budget.events
           /\ SyncInvariant'
<1>1. CASE AgentStarts(n, y)
  <2> DEFINE D == {<<"store", y>>, <<"announce", y>>}
  <2>1. PICK S \in Reached(n) : Deliver(S, D)
    BY Zenon, <1>1 DEF AgentStarts
  <2>2. n \in S
    BY Zenon, <2>1, ReachedTyped
  <2>3. D \in SUBSET (Consumer \X Agent)
    BY DEF Consumer
  <2>4. /\ pending' \in [Node -> SUBSET (Consumer \X Agent)]
        /\ \A m \in Node : /\ pending[m] \subseteq pending'[m]
                           /\ pending'[m] \subseteq pending[m] \cup D
                           /\ m \in S => D \subseteq pending'[m]
    <3> HIDE DEF D
    <3> QED  BY Zenon, <2>1, <2>3, DeliverTyped
  <2>5. UNCHANGED <<members, local, announcements, heard, wire, remote, excused>>
    BY Zenon, <1>1 DEF AgentStarts
  <2>6. budget' \in Bounds /\ budget'.events = budget.events
    <3> DEFINE left == [budget.starts EXCEPT ![y] = @ - 1]
    <3>1. budget.starts \in [Agent -> Nat] /\ budget.starts[y] > 0
      BY <1>1 DEF AgentStarts, Bounds
    <3>2. left \in [Agent -> Nat]
      BY <3>1
    <3>3. budget' = [budget EXCEPT !.starts = left]
      BY Zenon, <1>1 DEF AgentStarts
    <3> HIDE DEF left
    <3> QED  BY <3>2, <3>3 DEF Bounds
  <2>7. home' = [home EXCEPT ![y] = n] /\ home' \in [Agent -> Node \cup {Nobody}]
    BY Zenon, <1>1 DEF AgentStarts, SyncTypeOK
  <2>8. SyncTypeOK'
    BY Zenon, <2>4, <2>5, <2>7 DEF SyncTypeOK
  <2>9. \A m \in Node, x \in Agent : <<"withdraw", x>> \in pending'[m]
                                        => <<"withdraw", x>> \in pending[m]
    BY <2>4
  <2>10. NeverStopped'
    BY Zenon, <2>5, <2>9 DEF NeverStopped, SyncInvariant, Steady
  <2>11. HeardExists' /\ OwnIsLocal'
    BY Zenon, <2>5 DEF HeardExists, OwnIsLocal, SyncInvariant
  <2>12. <<"announce", y>> \in pending'[n]
    BY Zenon, <2>2, <2>4
  <2>13. \A x \in Agent : x # y => home'[x] = home[x]
    BY Zenon, <2>7 DEF SyncTypeOK
  <2>14. home'[y] = n
    BY Zenon, <2>7 DEF SyncTypeOK
  <2>15. OnItsWay'
    <3> SUFFICES ASSUME NEW x \in Agent, NEW k \in Node, NEW l \in Node,
                        home'[x] = k, l # k, <<l, x>> \notin excused'
                 PROVE  Coming(k, l, x)'
      BY Zenon DEF OnItsWay
    <3>1. CASE x = y
      BY Zenon, <2>12, <2>14, <3>1 DEF Coming
    <3>2. CASE x # y
      <4>1. Coming(k, l, x)
        BY Zenon, <2>5, <2>13, <3>2 DEF SyncInvariant, OnItsWay
      <4> QED  BY Zenon, <2>4, <2>5, <4>1 DEF Coming, Listed
    <3> QED  BY Zenon, <3>1, <3>2
  <2> QED  BY Zenon, <2>6, <2>8, <2>10, <2>11, <2>15 DEF SyncInvariant
<1>2. CASE AgentStops(n, y)
  <2> DEFINE D == {<<"forget", y>>, <<"withdraw", y>>}
  <2>1. PICK S \in Reached(n) : Deliver(S, D)
    BY Zenon, <1>2 DEF AgentStops
  <2>2. D \in SUBSET (Consumer \X Agent)
    BY DEF Consumer
  <2>3. /\ pending' \in [Node -> SUBSET (Consumer \X Agent)]
        /\ \A m \in Node : /\ pending[m] \subseteq pending'[m]
                           /\ pending'[m] \subseteq pending[m] \cup D
    <3> HIDE DEF D
    <3> QED  BY Zenon, <2>1, <2>2, DeliverTyped
  <2>4. UNCHANGED <<members, local, announcements, heard, wire, remote>>
    BY Zenon, <1>2 DEF AgentStops
  <2>5. budget' \in Bounds /\ budget'.events = budget.events
    BY Zenon, <1>2, SpendTyped DEF AgentStops
  <2>6. home' = [home EXCEPT ![y] = Nobody] /\ home' \in [Agent -> Node \cup {Nobody}]
    BY Zenon, <1>2 DEF AgentStops, SyncTypeOK
  <2>7. excused' = excused \cup (Node \X {y})
    BY Zenon, <1>2 DEF AgentStops
  <2>8. excused' \subseteq Key /\ excused \subseteq excused'
    BY Zenon, <2>7 DEF SyncTypeOK, Key
  <2>9. SyncTypeOK'
    BY Zenon, <2>3, <2>4, <2>6, <2>8 DEF SyncTypeOK
  <2>10. \A x \in Agent : Steady(x)' => x # y /\ Steady(x)
    BY Zenon, <2>7 DEF Steady
  <2>11. \A m \in Node, x \in Agent : x # y /\ <<"withdraw", x>> \in pending'[m]
                                         => <<"withdraw", x>> \in pending[m]
    BY Zenon, <2>3
  <2>12. NeverStopped'
    BY Zenon, <2>4, <2>10, <2>11 DEF NeverStopped, SyncInvariant
  <2>13. HeardExists' /\ OwnIsLocal'
    BY Zenon, <2>4 DEF HeardExists, OwnIsLocal, SyncInvariant
  <2>14. \A x \in Agent : x # y => home'[x] = home[x]
    BY Zenon, <2>6 DEF SyncTypeOK
  <2>15. OnItsWay'
    <3> SUFFICES ASSUME NEW x \in Agent, NEW k \in Node, NEW l \in Node,
                        home'[x] = k, l # k, <<l, x>> \notin excused'
                 PROVE  Coming(k, l, x)'
      BY Zenon DEF OnItsWay
    <3>1. x # y /\ <<l, x>> \notin excused
      BY Zenon, <2>7
    <3>2. Coming(k, l, x)
      BY Zenon, <2>14, <3>1 DEF SyncInvariant, OnItsWay
    <3> QED  BY Zenon, <2>3, <2>4, <3>2 DEF Coming, Listed
  <2> QED  BY Zenon, <2>5, <2>9, <2>12, <2>13, <2>15 DEF SyncInvariant
<1> QED  BY Zenon, <1>1, <1>2

\* The consumers of the lifecycle events.
LEMMA ConsumersKeepSync ==
    ASSUME SyncTypeOK, budget \in Bounds, SyncInvariant, NEW n \in Node, NEW y \in Agent,
           \/ Register(n, y) \/ RegisterFails(n, y) \/ Deregister(n, y)
           \/ \E c \in Consumer : PublishAnnounce(n, c, y),
           UNCHANGED <<members, home, heard, wire, remote, excused>>
    PROVE  /\ SyncTypeOK' /\ budget' \in Bounds /\ budget'.events = budget.events
           /\ SyncInvariant'
<1> DEFINE Shrinks(c) ==
        /\ pending' \in [Node -> SUBSET (Consumer \X Agent)]
        /\ budget' \in Bounds /\ budget'.events = budget.events
        /\ \A m \in Node : pending'[m] \subseteq pending[m]
        /\ \A m \in Node, d \in Consumer, x \in Agent :
              <<d, x>> \in pending[m] /\ ~(m = n /\ d = c /\ x = y) => <<d, x>> \in pending'[m]
<1>1. {"store", "forget", "announce", "withdraw"} = Consumer /\ "announce" \in Consumer
  BY Zenon DEF Consumer
<1>2. ASSUME NEW c \in {"store", "forget"}, Shrinks(c), local' \in [Node -> SUBSET Agent],
             UNCHANGED announcements
      PROVE  SyncTypeOK' /\ SyncInvariant'
  <2>1. SyncTypeOK'
    BY Zenon, <1>2 DEF SyncTypeOK
  <2>2. NeverStopped'
    BY Zenon, <1>2 DEF NeverStopped, SyncInvariant, Steady
  <2>3. HeardExists' /\ OwnIsLocal'
    BY Zenon, <1>2 DEF HeardExists, OwnIsLocal, SyncInvariant
  <2>4. c # "announce"
    BY <1>2
  <2>5. \A m \in Node, x \in Agent : <<"announce", x>> \in pending[m]
                                        => <<"announce", x>> \in pending'[m]
    BY Zenon, <1>1, <1>2, <2>4
  <2>6. OnItsWay'
    BY Zenon, <1>2, <2>5 DEF OnItsWay, SyncInvariant, Coming, Listed
  <2> QED  BY Zenon, <2>1, <2>2, <2>3, <2>6 DEF SyncInvariant
<1>3. CASE Register(n, y)
  <2>1. Shrinks("store")
    BY Zenon, <1>1, <1>3, HandleTyped DEF Register
  <2>2. local' \in [Node -> SUBSET Agent] /\ UNCHANGED announcements
    BY Zenon, <1>3 DEF Register, SyncTypeOK
  <2> HIDE DEF Shrinks
  <2>3. SyncTypeOK' /\ SyncInvariant'
    BY Zenon, <1>2, <2>1, <2>2
  <2> QED  BY Zenon, <2>1, <2>3 DEF Shrinks
<1>4. CASE RegisterFails(n, y)
  <2>1. Shrinks("store") /\ UNCHANGED announcements
    BY Zenon, <1>4, SpendTyped DEF RegisterFails, SyncTypeOK
  <2>2. local' \in [Node -> SUBSET Agent]
    BY Zenon, <1>4 DEF RegisterFails, SyncTypeOK
  <2> HIDE DEF Shrinks
  <2>3. SyncTypeOK' /\ SyncInvariant'
    BY Zenon, <1>2, <2>1, <2>2
  <2> QED  BY Zenon, <2>1, <2>3 DEF Shrinks
<1>5. CASE Deregister(n, y)
  <2>1. Shrinks("forget")
    BY Zenon, <1>1, <1>5, HandleTyped DEF Deregister
  <2>2. local' \in [Node -> SUBSET Agent] /\ UNCHANGED announcements
    BY Zenon, <1>5 DEF Deregister, SyncTypeOK
  <2> HIDE DEF Shrinks
  <2>3. SyncTypeOK' /\ SyncInvariant'
    BY Zenon, <1>2, <2>1, <2>2
  <2> QED  BY Zenon, <2>1, <2>3 DEF Shrinks
<1>6. ASSUME NEW c \in Consumer, PublishAnnounce(n, c, y)
      PROVE  /\ SyncTypeOK' /\ budget' \in Bounds /\ budget'.events = budget.events
             /\ SyncInvariant'
  <2> DEFINE e == [agent |-> y, empty |-> c = "withdraw"]
  <2>1. Shrinks(c) /\ <<c, y>> \in pending[n] /\ UNCHANGED local
    BY Zenon, <1>6, HandleTyped DEF PublishAnnounce
  <2>2. PICK S \in Reached(n) :
           announcements' = [m \in Node |-> IF m \in S THEN Append(announcements[m], e)
                                            ELSE announcements[m]]
    BY Zenon, <1>6 DEF PublishAnnounce
  <2>3. n \in S
    BY Zenon, <2>2, ReachedTyped
  <2>4. e \in [agent : Agent, empty : BOOLEAN] /\ e.agent = y /\ (e.empty => c = "withdraw")
    OBVIOUS
  <2> HIDE DEF e, Shrinks
  <2>5. /\ announcements' \in [Node -> Seq([agent : Agent, empty : BOOLEAN])]
        /\ \A m \in Node : Grown(m, S, e)
    BY Zenon, <2>2, <2>4, Appended
  <2>6. SyncTypeOK'
    BY Zenon, <2>1, <2>5 DEF SyncTypeOK, Shrinks
  <2>7. Steady(y) => c # "withdraw"
    BY Zenon, <2>1 DEF NeverStopped, SyncInvariant
  <2>8. NeverStopped'
    <3> SUFFICES ASSUME NEW x \in Agent, Steady(x)'
                 PROVE  /\ \A m \in Node : <<"withdraw", x>> \notin pending'[m]
                        /\ \A m \in Node : \A i \in 1..Len(announcements'[m]) :
                              announcements'[m][i].agent = x => ~announcements'[m][i].empty
                        /\ \A w \in wire' : w.agent = x => w.kind = "announce"
      BY Zenon DEF NeverStopped
    <3>1. Steady(x)
      BY Zenon DEF Steady
    <3>2. /\ \A m \in Node : <<"withdraw", x>> \notin pending[m]
          /\ \A m \in Node : \A i \in 1..Len(announcements[m]) :
                announcements[m][i].agent = x => ~announcements[m][i].empty
          /\ \A w \in wire : w.agent = x => w.kind = "announce"
      BY Zenon, <3>1 DEF NeverStopped, SyncInvariant
    <3>3. \A m \in Node : <<"withdraw", x>> \notin pending'[m]
      BY Zenon, <2>1, <3>2 DEF Shrinks
    <3>4. \A m \in Node : \A i \in 1..Len(announcements'[m]) :
             announcements'[m][i].agent = x => ~announcements'[m][i].empty
      <4>1. ASSUME NEW m \in Node, NEW i \in 1..Len(announcements'[m]),
                   announcements'[m][i].agent = x
            PROVE  ~announcements'[m][i].empty
        <5>1. CASE i \in 1..Len(announcements[m]) /\ announcements'[m][i] = announcements[m][i]
          BY Zenon, <3>2, <4>1, <5>1
        <5>2. CASE announcements'[m][i] = e
          BY Zenon, <2>4, <2>7, <3>1, <4>1, <5>2
        <5> QED  BY Zenon, <2>5, <5>1, <5>2 DEF Grown
      <4> QED  BY Zenon, <4>1
    <3> QED  BY Zenon, <3>2, <3>3, <3>4
  <2>9. \A m \in Node : /\ Len(announcements[m]) \in Nat /\ Len(announcements'[m]) \in Nat
                        /\ heard[m] \in Nat /\ heard[m] <= Len(announcements[m])
    BY <2>6 DEF SyncTypeOK, SyncInvariant, HeardExists
  <2>10. HeardExists'
    BY <2>5, <2>9 DEF HeardExists, Grown
  <2>11. OwnIsLocal'
    BY Zenon DEF OwnIsLocal, SyncInvariant
  <2>12. \A m \in Node, x \in Agent : Listed(m, x) => Listed(m, x)'
    BY Zenon, <2>5 DEF Listed, Grown
  <2>13. Listed(n, y)'
    <3>1. PICK i \in 1..Len(announcements'[n]) :
             Len(announcements[n]) < i /\ announcements'[n][i] = e
      BY Zenon, <2>3, <2>5 DEF Grown
    <3>2. heard[n] < i
      BY <2>9, <3>1
    <3> QED  BY Zenon, <2>4, <3>1, <3>2 DEF Listed
  <2>14. OnItsWay'
    <3> SUFFICES ASSUME NEW x \in Agent, NEW k \in Node, NEW l \in Node,
                        home'[x] = k, l # k, <<l, x>> \notin excused'
                 PROVE  Coming(k, l, x)'
      BY Zenon DEF OnItsWay
    <3>1. Coming(k, l, x)
      BY Zenon DEF SyncInvariant, OnItsWay
    <3>2. <<"announce", x>> \in pending[k] => <<"announce", x>> \in pending'[k] \/ Listed(k, x)'
      BY Zenon, <1>1, <2>1, <2>13 DEF Shrinks
    <3> QED  BY Zenon, <2>12, <3>1, <3>2 DEF Coming
  <2> QED  BY Zenon, <2>1, <2>6, <2>8, <2>10, <2>11, <2>14 DEF SyncInvariant, Shrinks
<1> QED  BY Zenon, <1>3, <1>4, <1>5, <1>6

\* CapabilitySync passes an announcement on, or drops it and excuses the peers.
LEMMA AnnounceKeepsSync ==
    ASSUME SyncTypeOK, budget \in Bounds, SyncInvariant, NEW n \in Node,
           HandleLocalAnnounce(n)
    PROVE  /\ SyncTypeOK' /\ budget' \in Bounds /\ budget'.events = budget.events
           /\ SyncInvariant'
<1> DEFINE j == heard[n] + 1
<1> DEFINE e == announcements[n][j]
<1>1. UNCHANGED <<members, home, pending, local, announcements, remote>>
  BY Zenon DEF HandleLocalAnnounce
<1>2. /\ j \in 1..Len(announcements[n]) /\ e \in [agent : Agent, empty : BOOLEAN]
      /\ heard' \in [Node -> Nat] /\ heard'[n] = j
      /\ \A m \in Node : m # n => heard'[m] = heard[m]
  <2>1. /\ heard[n] < Len(announcements[n]) /\ heard' = [heard EXCEPT ![n] = @ + 1]
        /\ heard \in [Node -> Nat]
        /\ announcements[n] \in Seq([agent : Agent, empty : BOOLEAN])
    BY Zenon DEF HandleLocalAnnounce, SyncTypeOK
  <2> DEFINE log == announcements[n]
  <2>2. heard[n] \in Nat /\ Len(log) \in Nat
    BY <2>1
  <2>3. j \in Nat /\ j \in 1..Len(log)
    BY <2>1, <2>2
  <2> HIDE DEF j
  <2>4. e \in [agent : Agent, empty : BOOLEAN]
    <3> DEFINE Ann == [agent : Agent, empty : BOOLEAN]
    <3>1. log \in Seq(Ann)
      BY Zenon, <2>1
    <3> HIDE DEF Ann, log
    <3>2. log[j] \in Ann
      BY <2>3, <3>1
    <3> QED  BY Zenon, <3>2 DEF Ann, log
  <2>5. heard' = [heard EXCEPT ![n] = j]
    BY Zenon, <2>1 DEF j
  <2> QED  BY Zenon, <2>1, <2>3, <2>4, <2>5
<1>3. \/ e.empty /\ Send(n, "remove", e.agent)
      \/ ~e.empty /\ Send(n, "announce", e.agent)
      \/ ~e.empty /\ Drop(n, e.agent)
  BY Zenon DEF HandleLocalAnnounce
<1>4. e.agent \in Agent
  BY Zenon, <1>2
<1>5. HeardExists'
  BY <1>1, <1>2 DEF HeardExists, SyncInvariant
<1>6. \A m \in Node, x \in Agent : Listed(m, x) => Listed(m, x)' \/ (m = n /\ e.agent = x)
  <2> SUFFICES ASSUME NEW m \in Node, NEW x \in Agent, NEW i \in 1..Len(announcements[m]),
                      heard[m] < i, announcements[m][i].agent = x, ~(m = n /\ e.agent = x)
               PROVE  Listed(m, x)'
    BY Zenon DEF Listed
  <2>1. CASE m # n
    BY Zenon, <1>1, <1>2, <2>1 DEF Listed
  <2>2. CASE m = n
    <3>1. i # j
      BY Zenon, <2>2
    <3>2. heard[n] \in Nat /\ i \in Nat
      BY <1>2 DEF SyncTypeOK
    <3>3. j < i
      BY <2>2, <3>1, <3>2
    <3> QED  BY Zenon, <1>1, <1>2, <2>2, <3>3 DEF Listed
  <2> QED  BY Zenon, <2>1, <2>2
<1>7. Steady(e.agent) => ~e.empty
  BY Zenon, <1>2, <1>4 DEF NeverStopped, SyncInvariant
<1> HIDE DEF e, j
<1> DEFINE Sent(kind) ==
        /\ wire' \subseteq Message /\ wire \subseteq wire'
        /\ excused' \subseteq Key /\ excused \subseteq excused'
        /\ budget' \in Bounds /\ budget'.events = budget.events
        /\ \A w \in wire' : w \in wire \/ (w.kind = kind /\ w.agent = e.agent)
        /\ home[e.agent] = n => \A m \in Node :
              \/ <<m, e.agent>> \in excused'
              \/ [kind |-> kind, from |-> n, to |-> m, agent |-> e.agent] \in wire'
<1>8. \/ e.empty /\ Sent("remove")
      \/ ~e.empty /\ Sent("announce")
  <2>1. CASE e.empty /\ Send(n, "remove", e.agent)
    BY Zenon, <1>4, <2>1, SendTyped
  <2>2. CASE ~e.empty /\ Send(n, "announce", e.agent)
    BY Zenon, <1>4, <2>2, SendTyped
  <2>3. CASE ~e.empty /\ Drop(n, e.agent)
    <3>1. budget' \in Bounds /\ budget'.events = budget.events
      BY Zenon, <2>3, SpendTyped DEF Drop
    <3>2. excused' = Excuse(n, e.agent, Node) /\ wire' = wire /\ Node \in SUBSET Node
      BY Zenon, <2>3 DEF Drop
    <3>3. /\ excused' \subseteq Key /\ excused \subseteq excused'
          /\ home[e.agent] = n => \A m \in Node : <<m, e.agent>> \in excused'
      BY Zenon, <1>4, <3>2, ExcuseTyped
    <3> QED  BY Zenon, <2>3, <3>1, <3>2, <3>3 DEF SyncTypeOK
  <2> QED  BY Zenon, <1>3, <2>1, <2>2, <2>3
<1>9. /\ wire' \subseteq Message /\ wire \subseteq wire'
      /\ excused' \subseteq Key /\ excused \subseteq excused'
      /\ budget' \in Bounds /\ budget'.events = budget.events
  BY Zenon, <1>8
<1>10. SyncTypeOK'
  BY Zenon, <1>1, <1>2, <1>9 DEF SyncTypeOK
<1>11. \A x \in Agent : Steady(x)' => Steady(x)
  BY Zenon, <1>9, SteadyBefore
<1>12. NeverStopped'
  <2> SUFFICES ASSUME NEW x \in Agent, Steady(x)', NEW w \in wire', w.agent = x
               PROVE  w.kind = "announce"
    BY Zenon, <1>1, <1>11 DEF NeverStopped, SyncInvariant
  <2>1. Steady(x)
    BY Zenon, <1>11
  <2>2. CASE w \in wire
    BY Zenon, <2>1, <2>2 DEF NeverStopped, SyncInvariant
  <2>3. CASE w \notin wire
    <3>1. w.agent = e.agent
      BY Zenon, <1>8, <2>3
    <3>2. ~e.empty
      BY Zenon, <1>7, <2>1, <3>1
    <3> QED  BY Zenon, <1>8, <2>3, <3>2
  <2> QED  BY Zenon, <2>2, <2>3
<1>13. OwnIsLocal'
  BY Zenon, <1>1 DEF OwnIsLocal, SyncInvariant
<1>14. OnItsWay'
  <2> SUFFICES ASSUME NEW x \in Agent, NEW k \in Node, NEW l \in Node,
                      home'[x] = k, l # k, <<l, x>> \notin excused'
               PROVE  Coming(k, l, x)'
    BY Zenon DEF OnItsWay
  <2>1. <<l, x>> \notin excused /\ Steady(x) /\ home[x] = k
    BY Zenon, <1>1, <1>9 DEF Steady
  <2>2. Coming(k, l, x)
    BY Zenon, <2>1 DEF SyncInvariant, OnItsWay
  <2>3. CASE k = n /\ e.agent = x
    <3>1. Sent("announce")
      BY Zenon, <1>7, <1>8, <2>1, <2>3
    <3>2. Announcement(k, l, x) \in wire'
      BY Zenon, <2>1, <2>3, <3>1 DEF Announcement
    <3> QED  BY Zenon, <3>2 DEF Coming, Announcement
  <2>4. CASE ~(k = n /\ e.agent = x)
    BY Zenon, <1>1, <1>6, <1>9, <2>2, <2>4 DEF Coming, Announcement
  <2> QED  BY Zenon, <2>3, <2>4
<1> QED  BY Zenon, <1>5, <1>9, <1>10, <1>12, <1>13, <1>14 DEF SyncInvariant

\* A node joins, an announcement is delivered again, or a member purges a node.
LEMMA NodesKeepSync ==
    ASSUME SyncTypeOK, budget \in Bounds, SyncInvariant, NEW n \in Node,
           \/ NodeJoins(n) \/ Redelivered(n)
           \/ \E m \in Node : PurgeNode(m, n)
    PROVE  /\ SyncTypeOK' /\ budget' \in Bounds /\ budget'.events = budget.events
           /\ SyncInvariant'
<1>1. CASE NodeJoins(n)
  <2>1. /\ UNCHANGED <<home, pending, local, announcements, heard, wire, remote, excused, budget>>
        /\ members' \subseteq Node
    BY Zenon, <1>1 DEF NodeJoins, SyncTypeOK
  <2>2. SyncTypeOK'
    BY Zenon, <2>1 DEF SyncTypeOK
  <2>3. NeverStopped' /\ HeardExists' /\ OwnIsLocal'
    BY Zenon, <2>1 DEF SyncInvariant, NeverStopped, HeardExists, OwnIsLocal, Steady
  <2>4. OnItsWay'
    BY Zenon, <2>1 DEF SyncInvariant, OnItsWay, Coming, Listed, Announcement
  <2> QED  BY Zenon, <2>1, <2>2, <2>3, <2>4 DEF SyncInvariant
<1>2. CASE Redelivered(n)
  <2>1. UNCHANGED <<members, home, pending, local, announcements, wire, remote, excused>>
    BY Zenon, <1>2 DEF Redelivered
  <2>2. budget' \in Bounds /\ budget'.events = budget.events
    BY Zenon, <1>2, SpendTyped DEF Redelivered
  <2>3. PICK i \in 0..(heard[n] - 1) : heard' = [heard EXCEPT ![n] = i]
    BY Zenon, <1>2 DEF Redelivered
  <2>4. heard' \in [Node -> Nat] /\ \A m \in Node : heard'[m] <= heard[m]
    BY <2>3 DEF SyncTypeOK
  <2>5. SyncTypeOK'
    BY Zenon, <2>1, <2>4 DEF SyncTypeOK
  <2>6. \A m \in Node : Len(announcements[m]) \in Nat /\ heard[m] \in Nat /\ heard'[m] \in Nat
    BY <2>4 DEF SyncTypeOK
  <2>7. HeardExists'
    BY <2>1, <2>4, <2>6 DEF HeardExists, SyncInvariant
  <2>8. \A m \in Node, x \in Agent : Listed(m, x) => Listed(m, x)'
    BY <2>1, <2>4, <2>6 DEF Listed
  <2>9. NeverStopped' /\ OwnIsLocal'
    BY Zenon, <2>1 DEF SyncInvariant, NeverStopped, OwnIsLocal, Steady
  <2>10. OnItsWay'
    BY Zenon, <2>1, <2>8 DEF SyncInvariant, OnItsWay, Coming, Announcement
  <2> QED  BY Zenon, <2>2, <2>5, <2>7, <2>9, <2>10 DEF SyncInvariant
<1>3. ASSUME NEW m \in Node, PurgeNode(m, n)
      PROVE  /\ SyncTypeOK' /\ budget' \in Bounds /\ budget'.events = budget.events
             /\ SyncInvariant'
  <2>1. UNCHANGED <<members, home, pending, local, announcements, heard, wire>>
    BY Zenon, <1>3 DEF PurgeNode
  <2>2. budget' \in Bounds /\ budget'.events = budget.events
    BY Zenon, <1>3, SpendTyped DEF PurgeNode
  <2>3. PICK K \in SUBSET {k \in remote[m] : k[1] = n} :
           /\ remote' = [remote EXCEPT ![m] = @ \ K]
           /\ excused' = excused \cup {<<m, k[2]>> : k \in K}
    BY Zenon, <1>3 DEF PurgeNode
  <2>4. K \subseteq Key
    BY Zenon, <2>3 DEF SyncTypeOK
  <2>5. \A k \in K : k[2] \in Agent /\ <<m, k[2]>> \in Key
    BY Zenon, <2>4 DEF Key
  <2>6. excused' \subseteq Key /\ excused \subseteq excused'
    BY Zenon, <2>3, <2>5 DEF SyncTypeOK
  <2>7. /\ remote' \in [Node -> SUBSET Key]
        /\ \A l \in Node : remote'[l] \subseteq remote[l]
        /\ \A l \in Node : \A k \in remote[l] : k \in remote'[l] \/ (l = m /\ k \in K)
    BY Zenon, <2>3 DEF SyncTypeOK
  <2>8. SyncTypeOK'
    BY Zenon, <2>1, <2>6, <2>7 DEF SyncTypeOK
  <2>9. NeverStopped'
    BY Zenon, <2>1, <2>6, SteadyBefore DEF SyncInvariant, NeverStopped
  <2>10. HeardExists' /\ OwnIsLocal'
    BY Zenon, <2>1, <2>7 DEF SyncInvariant, HeardExists, OwnIsLocal
  <2>11. \A k \in Node, x \in Agent : <<k, x>> \in K => <<m, x>> \in excused'
    <3> SUFFICES ASSUME NEW k \in Node, NEW x \in Agent, <<k, x>> \in K
                 PROVE  <<m, x>> \in excused'
      BY Zenon
    <3>1. <<k, x>>[2] = x
      BY Zenon
    <3> QED  BY Zenon, <2>3, <3>1
  <2>12. OnItsWay'
    <3> SUFFICES ASSUME NEW x \in Agent, NEW k \in Node, NEW l \in Node,
                        home'[x] = k, l # k, <<l, x>> \notin excused'
                 PROVE  Coming(k, l, x)'
      BY Zenon DEF OnItsWay
    <3>1. Coming(k, l, x)
      BY Zenon, <2>1, <2>6 DEF SyncInvariant, OnItsWay
    <3>2. <<k, x>> \in remote[l] => <<k, x>> \in remote'[l]
      BY Zenon, <2>7, <2>11
    <3> QED  BY Zenon, <2>1, <3>1, <3>2 DEF Coming, Listed, Announcement
  <2> QED  BY Zenon, <2>2, <2>8, <2>9, <2>10, <2>12 DEF SyncInvariant
<1> QED  BY Zenon, <1>1, <1>2, <1>3

\* A peer takes a message off the wire.
LEMMA ReceiveKeepsSync ==
    ASSUME SyncTypeOK, budget \in Bounds, SyncInvariant, NEW w \in wire, Receive(w)
    PROVE  /\ SyncTypeOK' /\ budget' \in Bounds /\ budget'.events = budget.events
           /\ SyncInvariant'
<1>1. w.from \in Node /\ w.to \in Node /\ w.agent \in Agent /\ w \in Message
  BY Zenon DEF SyncTypeOK, Message
<1>2. UNCHANGED <<members, home, pending, local, announcements, heard>> /\ wire' = wire \ {w}
  BY Zenon DEF Receive
<1>3. ASSUME excused' \subseteq Key, excused \subseteq excused',
             remote' \in [Node -> SUBSET Key],
             \A n \in Node, x \in Agent : <<n, x>> \notin remote'[n],
             \A n, m \in Node, x \in Agent :
                <<n, x>> \in remote[m] =>
                   \/ <<n, x>> \in remote'[m]
                   \/ w.agent = x /\ w.kind = "remove",
             \A n, m \in Node, x \in Agent :
                n # m /\ w = Announcement(n, m, x) =>
                   \/ <<n, x>> \in remote'[m]
                   \/ home[x] = n => <<m, x>> \in excused'
      PROVE  SyncTypeOK' /\ SyncInvariant'
  <2>1. SyncTypeOK'
    BY Zenon, <1>2, <1>3 DEF SyncTypeOK
  <2>2. NeverStopped'
    BY Zenon, <1>2, <1>3, SteadyBefore DEF SyncInvariant, NeverStopped
  <2>3. HeardExists' /\ OwnIsLocal'
    BY Zenon, <1>2, <1>3 DEF SyncInvariant, HeardExists, OwnIsLocal
  <2>4. OnItsWay'
    <3> SUFFICES ASSUME NEW x \in Agent, NEW k \in Node, NEW l \in Node,
                        home'[x] = k, l # k, <<l, x>> \notin excused'
                 PROVE  Coming(k, l, x)'
      BY Zenon DEF OnItsWay
    <3>1. <<l, x>> \notin excused /\ Steady(x) /\ home[x] = k
      BY Zenon, <1>2, <1>3 DEF Steady
    <3>2. Coming(k, l, x)
      BY Zenon, <3>1 DEF SyncInvariant, OnItsWay
    <3>3. w.agent = x => w.kind = "announce"
      BY Zenon, <3>1 DEF SyncInvariant, NeverStopped
    <3>4. "announce" # "remove"
      OBVIOUS
    <3>5. <<k, x>> \in remote[l] => <<k, x>> \in remote'[l]
      BY Zenon, <1>3, <3>3, <3>4
    <3>6. Announcement(k, l, x) \in wire => Announcement(k, l, x) \in wire'
                                             \/ <<k, x>> \in remote'[l]
      BY Zenon, <1>2, <1>3, <3>1
    <3> QED  BY Zenon, <1>2, <3>2, <3>5, <3>6 DEF Coming, Listed, Announcement
  <2> QED  BY Zenon, <2>1, <2>2, <2>3, <2>4 DEF SyncInvariant
<1>4. \A n, m, x : w = Announcement(n, m, x)
                     => w.kind = "announce" /\ w.from = n /\ w.to = m /\ w.agent = x
  BY DEF Announcement
<1>5. "announce" # "remove"
  OBVIOUS
<1>6. CASE HandleRemoteAnnounce(w) /\ UNCHANGED <<excused, budget>>
  <2>1. <<w.from, w.agent>> \in Key
    BY Zenon, <1>1 DEF Key
  <2>2. /\ remote' \in [Node -> SUBSET Key]
        /\ \A m \in Node : remote[m] \subseteq remote'[m]
        /\ w.from # w.to => <<w.from, w.agent>> \in remote'[w.to]
    BY Zenon, <1>1, <1>6, <2>1 DEF HandleRemoteAnnounce, SyncTypeOK
  <2>3. \A n \in Node, x \in Agent : <<n, x>> \notin remote'[n]
    <3> SUFFICES ASSUME NEW n \in Node, NEW x \in Agent, <<n, x>> \in remote'[n]
                 PROVE  FALSE
      BY Zenon
    <3>1. <<n, x>> \notin remote[n]
      BY Zenon DEF SyncInvariant, OwnIsLocal
    <3>2. n = w.to /\ w.from # w.to /\ <<n, x>> = <<w.from, w.agent>>
      BY Zenon, <1>1, <1>6, <3>1 DEF HandleRemoteAnnounce, SyncTypeOK
    <3> QED  BY Zenon, <3>2
  <2>4. \A n, m \in Node, x \in Agent :
           n # m /\ w = Announcement(n, m, x) => <<n, x>> \in remote'[m]
    <3> SUFFICES ASSUME NEW n \in Node, NEW m \in Node, NEW x \in Agent, n # m,
                        w = Announcement(n, m, x)
                 PROVE  <<n, x>> \in remote'[m]
      BY Zenon
    <3>1. w.from = n /\ w.to = m /\ w.agent = x
      BY Zenon, <1>4
    <3> QED  BY Zenon, <2>2, <3>1
  <2>5. SyncTypeOK' /\ SyncInvariant'
    BY Zenon, <1>3, <1>6, <2>2, <2>3, <2>4 DEF SyncTypeOK
  <2> QED  BY Zenon, <1>6, <2>5
<1>7. CASE HandleRemoteRemove(w) /\ UNCHANGED <<excused, budget>>
  <2>1. w.kind = "remove"
    BY Zenon, <1>7 DEF HandleRemoteRemove
  <2>2. /\ remote' \in [Node -> SUBSET Key]
        /\ \A m \in Node : remote'[m] \subseteq remote[m]
    BY Zenon, <1>1, <1>7 DEF HandleRemoteRemove, SyncTypeOK
  <2>3. \A n, m \in Node, x \in Agent :
           <<n, x>> \in remote[m] => <<n, x>> \in remote'[m] \/ w.agent = x
    BY Zenon, <1>1, <1>7 DEF HandleRemoteRemove, SyncTypeOK
  <2>4. \A n, m \in Node, x \in Agent : w # Announcement(n, m, x)
    BY Zenon, <1>4, <1>5, <2>1
  <2>5. \A n \in Node, x \in Agent : <<n, x>> \notin remote'[n]
    BY Zenon, <2>2 DEF SyncInvariant, OwnIsLocal
  <2>6. SyncTypeOK' /\ SyncInvariant'
    BY Zenon, <1>3, <1>7, <2>1, <2>2, <2>3, <2>4, <2>5 DEF SyncTypeOK
  <2> QED  BY Zenon, <1>7, <2>6
<1>8. CASE /\ Spend("faults") /\ excused' = Excuse(w.from, w.agent, {w.to})
           /\ UNCHANGED remote
  <2>1. budget' \in Bounds /\ budget'.events = budget.events
    BY Zenon, <1>8, SpendTyped
  <2>2. {w.to} \in SUBSET Node
    BY Zenon, <1>1
  <2>3. /\ excused' \subseteq Key /\ excused \subseteq excused'
        /\ home[w.agent] = w.from => <<w.to, w.agent>> \in excused'
    BY Zenon, <1>1, <1>8, <2>2, ExcuseTyped
  <2>4. \A n, m \in Node, x \in Agent :
           w = Announcement(n, m, x) => (home[x] = n => <<m, x>> \in excused')
    BY Zenon, <1>4, <2>3
  <2>5. \A n \in Node, x \in Agent : <<n, x>> \notin remote'[n]
    BY Zenon, <1>8 DEF SyncInvariant, OwnIsLocal
  <2>6. SyncTypeOK' /\ SyncInvariant'
    BY Zenon, <1>3, <1>8, <2>3, <2>4, <2>5 DEF SyncTypeOK
  <2> QED  BY Zenon, <2>1, <2>6
<1> QED  BY Zenon, <1>6, <1>7, <1>8 DEF Receive

\* Every step of the agents and of CapabilitySync keeps what the nodes know.
LEMMA SyncKeepsSync ==
    ASSUME SyncTypeOK, budget \in Bounds, SyncInvariant, SyncStep
    PROVE  /\ SyncTypeOK' /\ budget' \in Bounds /\ budget'.events = budget.events
           /\ SyncInvariant'
BY Zenon, AgentsKeepSync, ConsumersKeepSync, AnnounceKeepsSync, NodesKeepSync, ReceiveKeepsSync
   DEF SyncStep

\* So does the restart of a gateway, which is excused from the messages it misses.
LEMMA RestartKeepsSync ==
    ASSUME SyncTypeOK, SyncInvariant, NEW n \in Node, LoseMessages(n),
           UNCHANGED <<members, home, pending, local, announcements, heard, remote>>
    PROVE  SyncTypeOK' /\ SyncInvariant'
<1>1. /\ wire' = {w \in wire : w.to # n} /\ wire' \subseteq wire
      /\ excused' = excused \cup {<<n, w.agent>> : w \in {v \in wire : v.to = n}}
  BY Zenon DEF LoseMessages
<1>2. \A w \in wire : w.agent \in Agent /\ <<n, w.agent>> \in Key
  BY Zenon DEF SyncTypeOK, Message, Key
<1>3. excused' \subseteq Key /\ excused \subseteq excused'
  BY Zenon, <1>1, <1>2 DEF SyncTypeOK
<1>4. SyncTypeOK'
  BY Zenon, <1>1, <1>3 DEF SyncTypeOK
<1>5. NeverStopped'
  BY Zenon, <1>1, <1>3, SteadyBefore DEF SyncInvariant, NeverStopped
<1>6. HeardExists' /\ OwnIsLocal'
  BY Zenon DEF SyncInvariant, HeardExists, OwnIsLocal
<1>7. OnItsWay'
  <2> SUFFICES ASSUME NEW x \in Agent, NEW k \in Node, NEW l \in Node,
                      home'[x] = k, l # k, <<l, x>> \notin excused'
               PROVE  Coming(k, l, x)'
    BY Zenon DEF OnItsWay
  <2>1. Coming(k, l, x)
    BY Zenon, <1>3 DEF SyncInvariant, OnItsWay
  <2> DEFINE w == Announcement(k, l, x)
  <2>2. w.to = l /\ w.agent = x
    BY DEF Announcement
  <2> HIDE DEF w
  <2>3. w \in wire => w \in wire'
    BY Zenon, <1>1, <2>2
  <2> QED  BY Zenon, <2>1, <2>3 DEF Coming, Listed, Announcement, w
<1> QED  BY Zenon, <1>4, <1>5, <1>6, <1>7 DEF SyncInvariant

-----------------------------------------------------------------------------
(* Types of the router and of the relay *)

RelayTyped ==
    /\ budget \in Bounds
    /\ origin \in [Event -> Node \cup {Nobody}]
    /\ matched \in [Event -> SUBSET Agent]
    /\ pc \in [Copy -> Place]
    /\ at \in [Copy -> Node \cup {Nobody}]
    /\ sender \in [Copy -> Node \cup {Nobody}]
    /\ hops \in [Copy -> 0..MaxHops]
    /\ direct \in [Node -> SUBSET ((Copy \cup Event) \X Agent)]
    /\ known \subseteq Node
    /\ stream \subseteq Node
    /\ forwarder \in [Node -> Node \cup {Nobody}]
    /\ results \in [Node -> SUBSET (StepEvent \X Subject \X Nat)]
    /\ returning \subseteq (StepEvent \X Node \X Node \X Nat)

\* Starting and moving a copy keeps the types of its variables and its place.
LEMMA CopyTypes ==
    ASSUME RelayTyped
    PROVE  /\ \A n \in Node : \A c \in Copy : StartCopy(n, c) =>
                 pc' \in [Copy -> Place] /\ at' \in [Copy -> Node \cup {Nobody}]
           /\ \A c \in Copy : \A l \in Place : Goto(c, l) => pc' \in [Copy -> Place]
           /\ \A n \in Node : \A e \in Event : Emit(n, e) =>
                 budget' \in Bounds /\ origin' \in [Event -> Node \cup {Nobody}]
<1> USE DEF RelayTyped
<1>1. \A c \in Copy : \A l \in Place : Goto(c, l) => pc' \in [Copy -> Place]
  BY Zenon DEF Goto
<1>2. \A n \in Node : \A c \in Copy : StartCopy(n, c) =>
         pc' \in [Copy -> Place] /\ at' \in [Copy -> Node \cup {Nobody}]
  BY Zenon, <1>1 DEF StartCopy, Place
<1>3. \A n \in Node : \A e \in Event : Emit(n, e) =>
         budget' \in Bounds /\ origin' \in [Event -> Node \cup {Nobody}]
  <2> SUFFICES ASSUME NEW n \in Node, NEW e \in Event, Emit(n, e)
               PROVE  budget' \in Bounds /\ origin' \in [Event -> Node \cup {Nobody}]
    BY Zenon
  <2>1. budget' \in Bounds
    BY Zenon DEF Emit, Bounds
  <2>2. origin' \in [Event -> Node \cup {Nobody}]
    BY Zenon DEF Emit
  <2> QED  BY Zenon, <2>1, <2>2
<1> QED  BY Zenon, <1>1, <1>2, <1>3

\* The subscription to a workflow's results keeps the types.
LEMMA ForwardingTypes ==
    ASSUME RelayTyped, NEW n \in Node, NEW source \in Node, SetupResultForwarding(n, source)
    PROVE  /\ budget' \in Bounds /\ budget'.events = budget.events /\ known' \subseteq Node
           /\ forwarder' \in [Node -> Node \cup {Nobody}]
BY Zenon, SpendTyped DEF RelayTyped, SetupResultForwarding

\* The message ID of a copy.
LEMMA MessageIDTypes ==
    ASSUME NEW c \in Copy
    PROVE  /\ c[1] \in Event /\ c[2] \in Agent /\ c = <<c[1], c[2]>>
           /\ MessageID(c) \in Copy \cup Event
BY DEF Copy, MessageID

\* The nodes an event may be relayed to are nodes that announced its agent.
LEMMA HostsAnnounced ==
    ASSUME SyncTypeOK, NEW n \in Node, NEW x \in Agent
    PROVE  Announced(n, x) \subseteq Node /\ IsRemoteAgent(n, x) \subseteq Node
<1>1. ASSUME NEW m \in Announced(n, x)
      PROVE  m \in Node
  <2>1. PICK k \in remote[n] : m = k[1]
    BY Zenon, <1>1 DEF Announced
  <2>2. k \in Node \X Agent
    BY Zenon DEF SyncTypeOK, Key
  <2> QED  BY <2>1, <2>2
<1> QED  BY Zenon, <1>1 DEF IsRemoteAgent

\* Publishing keeps the types.
LEMMA PublishTypes ==
    ASSUME RelayTyped, NEW S, NEW c \in Copy, Publish(S, c)
    PROVE  direct' \in [Node -> SUBSET ((Copy \cup Event) \X Agent)]
<1>1. <<MessageID(c), c[2]>> \in (Copy \cup Event) \X Agent
  BY Zenon, MessageIDTypes
<1> QED  BY Zenon, <1>1 DEF Publish, RelayTyped

\* Relaying a copy keeps the types.
LEMMA RelayedTypes ==
    ASSUME RelayTyped, NEW c \in Copy, at[c] \in Node, NEW m \in Node, Relay(c, m)
    PROVE  /\ pc' \in [Copy -> Place] /\ hops' \in [Copy -> 0..MaxHops]
           /\ at' \in [Copy -> Node \cup {Nobody}] /\ sender' \in [Copy -> Node \cup {Nobody}]
<1>1. at' \in [Copy -> Node \cup {Nobody}] /\ sender' \in [Copy -> Node \cup {Nobody}]
  BY Zenon DEF Relay, RelayTyped
<1>2. hops' \in [Copy -> 0..MaxHops]
  BY RelayAssumption DEF Relay, RelayTyped
<1>3. pc' \in [Copy -> Place]
  BY Zenon, CopyTypes DEF Relay, Place
<1> QED  BY Zenon, <1>1, <1>2, <1>3

\* Every step of the router keeps the types.
LEMMA RouterTypes ==
    ASSUME SyncTypeOK, RelayTyped, CopiesHaveNode, EmitStep \/ RouterStep
    PROVE  RelayTyped'
<1>1. ASSUME NEW n \in Node, NEW e \in Event, NEW x \in Agent, RouteTargeted(n, e, x),
             UNCHANGED <<sender, hops, direct, known, forwarder, results, returning>>
      PROVE  RelayTyped'
  <2>1. <<e, x>> \in Copy
    BY Zenon DEF Copy
  <2> QED  BY Zenon, <1>1, <2>1, CopyTypes DEF RouteTargeted, RelayTyped
<1>2. ASSUME NEW n \in Node, NEW e \in Event, RouteCapability(n, e),
             UNCHANGED <<sender, hops, direct, known, forwarder, results, returning>>
      PROVE  RelayTyped'
  <2>1. local[n] \subseteq Agent /\ {k[2] : k \in remote[n]} \subseteq Agent
    BY DEF SyncTypeOK, Key
  <2>2. matched' \in [Event -> SUBSET Agent]
    BY Zenon, <1>2, <2>1 DEF RouteCapability, RelayTyped
  <2> QED  BY Zenon, <1>2, <2>2, CopyTypes DEF RouteCapability, RelayTyped
<1>3. ASSUME NEW e \in CapabilityEvent, NEW x \in Agent, RouteNext(e, x),
             UNCHANGED <<sender, hops, direct, known, forwarder, results, returning>>
      PROVE  RelayTyped'
  <2>1. e \in Event /\ <<e, x>> \in Copy /\ origin[e] \in Node
    BY Zenon, <1>3 DEF Event, Copy, RouteNext, CopiesHaveNode
  <2>2. matched' \in [Event -> SUBSET Agent]
    BY Zenon, <1>3, <2>1 DEF RouteNext, RelayTyped
  <2>3. pc' \in [Copy -> Place] /\ at' \in [Copy -> Node \cup {Nobody}]
    BY Zenon, <1>3, <2>1, CopyTypes DEF RouteNext
  <2> QED  BY Zenon, <1>3, <2>2, <2>3 DEF RouteNext, RelayTyped
<1>4. ASSUME NEW c \in Copy, RouteDirect(c) \/ RelayToNode(c) \/ RouteFails(c),
             UNCHANGED <<origin, known, stream, forwarder, results, returning>>
      PROVE  RelayTyped'
  <2>1. at[c] \in Node /\ c[1] \in Event /\ c[2] \in Agent
    BY Zenon, <1>4, MessageIDTypes DEF RouteDirect, RelayToNode, RouteFails, CopiesHaveNode
  <2>2. \A l \in {"stored", "search", "error", "lost"} : Goto(c, l) => pc' \in [Copy -> Place]
    BY Zenon, CopyTypes DEF Place
  <2>3. CASE RouteDirect(c)
    <3>1. direct' \in [Node -> SUBSET ((Copy \cup Event) \X Agent)]
      BY Zenon, <2>3, PublishTypes DEF RouteDirect, RelayTyped
    <3>2. budget' \in Bounds /\ pc' \in [Copy -> Place]
      BY Zenon, <2>2, <2>3, SpendTyped DEF RouteDirect, RelayTyped
    <3> QED  BY Zenon, <1>4, <2>3, <3>1, <3>2 DEF RouteDirect, RelayTyped
  <2>4. CASE RelayToNode(c)
    <3>1. budget' \in Bounds /\ UNCHANGED <<matched, direct>>
      BY Zenon, <2>4, SpendTyped DEF RelayToNode, RelayTyped
    <3>2. CASE PublishError(c)
      BY Zenon, <1>4, <2>2, <3>1, <3>2 DEF PublishError, RelayTyped
    <3>3. ASSUME NEW m \in Node, Relay(c, m)
          PROVE  RelayTyped'
      BY Zenon, <1>4, <2>1, <3>1, <3>3, RelayedTypes DEF RelayTyped
    <3> QED  BY Zenon, <2>1, <2>4, <3>2, <3>3, HostsAnnounced DEF RelayToNode
  <2>5. CASE RouteFails(c)
    <3>1. direct' \in [Node -> SUBSET ((Copy \cup Event) \X Agent)]
      BY Zenon, <2>5, PublishTypes DEF RouteFails, RelayTyped
    <3>2. matched' \in [Event -> SUBSET Agent]
      BY Zenon, <2>1, <2>5 DEF RouteFails, RelayTyped
    <3>3. budget' \in Bounds /\ pc' \in [Copy -> Place]
      BY Zenon, <2>2, <2>5, SpendTyped DEF RouteFails, RelayTyped
    <3> QED  BY Zenon, <1>4, <2>5, <3>1, <3>2, <3>3 DEF RouteFails, RelayTyped
  <2> QED  BY Zenon, <1>4, <2>3, <2>4, <2>5
<1>5. ASSUME NEW c \in Copy, HandleIncomingRelay(c),
             UNCHANGED <<origin, matched, at, sender, hops, direct, results, returning>>
      PROVE  RelayTyped'
  <2>1. at[c] \in Node /\ sender[c] \in Node
    BY Zenon, <1>5 DEF HandleIncomingRelay, CopiesHaveNode
  <2>2. pc' \in [Copy -> Place]
    BY Zenon, <1>5, CopyTypes DEF HandleIncomingRelay, Place
  <2>3. stream' \subseteq Node
    BY Zenon, <1>5, <2>1 DEF HandleIncomingRelay, RelayTyped
  <2>4. /\ budget' \in Bounds /\ known' \subseteq Node
        /\ forwarder' \in [Node -> Node \cup {Nobody}]
    BY Zenon, <1>5, <2>1, ForwardingTypes DEF HandleIncomingRelay, RelayTyped
  <2> QED  BY Zenon, <1>5, <2>2, <2>3, <2>4 DEF RelayTyped
<1> QED  BY Zenon, <1>1, <1>2, <1>3, <1>4, <1>5 DEF EmitStep, RouterStep

-----------------------------------------------------------------------------
(* Results *)

\* What storing a result adds to the streams.
LEMMA StoreTyped ==
    ASSUME RelayTyped, NEW S, NEW r \in StepEvent \X Subject \X Nat, StoreResult(S, r)
    PROVE  /\ results' \in [Node -> SUBSET (StepEvent \X Subject \X Nat)]
           /\ \A n \in Node : results'[n] \subseteq results[n] \cup {r}
BY Zenon DEF StoreResult, RelayTyped

\* Every step of the results keeps their types, and stores what was relayed under
\* another subject.
LEMMA ResultsKeep ==
    ASSUME RelayTyped, ResultInvariant, ResultStep
    PROVE  RelayTyped' /\ ResultInvariant' /\ budget'.events = budget.events
<1>1. UNCHANGED <<origin, matched, pc, at, sender, hops, direct>>
  BY Zenon DEF ResultStep
<1>2. ASSUME NEW n \in Node, NEW e \in StepEvent, PublishStepResult(n, e)
      PROVE  RelayTyped' /\ ResultInvariant' /\ budget'.events = budget.events
  <2> DEFINE r == <<e, "result", 0>>
  <2>1. r \in StepEvent \X Subject \X Nat /\ r[3] = 0
    BY DEF Subject
  <2>2. PICK T : StoreResult(T, r)
    BY Zenon, <1>2 DEF PublishStepResult
  <2> HIDE DEF r
  <2>3. /\ results' \in [Node -> SUBSET (StepEvent \X Subject \X Nat)]
        /\ \A m \in Node : results'[m] \subseteq results[m] \cup {r}
    BY Zenon, <2>1, <2>2, StoreTyped
  <2>4. SubscribedIsFresh'
    BY Zenon, <2>1, <2>3 DEF ResultInvariant, SubscribedIsFresh
  <2>5. RelayTyped'
    BY Zenon, <1>1, <1>2, <2>3 DEF PublishStepResult, RelayTyped
  <2> QED  BY Zenon, <1>2, <2>4, <2>5 DEF PublishStepResult, ResultInvariant, ResultsDoNotBounce
<1>3. ASSUME NEW n \in Node, NEW e \in StepEvent, NEW k \in 0..MaxHops,
             ForwardResultToSource(n, e, k)
      PROVE  RelayTyped' /\ ResultInvariant' /\ budget'.events = budget.events
  <2> DEFINE r == <<e, n, forwarder[n], k + 1>>
  <2> DEFINE stored == <<e, "result", k>>
  <2>1. stored \in results[n] /\ stored[2] = "result" /\ stored[3] = k
    BY Zenon, <1>3 DEF ForwardResultToSource
  <2>2. k = 0
    <3> HIDE DEF stored
    <3> QED  BY Zenon, <2>1 DEF ResultInvariant, SubscribedIsFresh
  <2>3. forwarder[n] \in Node /\ k + 1 = 1
    BY <1>3, <2>2 DEF ForwardResultToSource, RelayTyped
  <2>4. r \in StepEvent \X Node \X Node \X Nat /\ r[4] = 1
    BY <2>3
  <2>5. returning' = returning \cup {r}
    BY Zenon, <1>3 DEF ForwardResultToSource
  <2> HIDE DEF r
  <2>6. RelayTyped'
    BY Zenon, <1>1, <1>3, <2>4, <2>5 DEF ForwardResultToSource, RelayTyped
  <2>7. ResultsDoNotBounce' /\ SubscribedIsFresh'
    BY Zenon, <1>3, <2>4, <2>5
    DEF ForwardResultToSource, ResultInvariant, ResultsDoNotBounce, SubscribedIsFresh
  <2> QED  BY Zenon, <1>3, <2>6, <2>7 DEF ForwardResultToSource, ResultInvariant
<1>4. ASSUME NEW s \in returning, RouteReturned(s[1], s[2], s[3], s[4])
      PROVE  RelayTyped' /\ ResultInvariant' /\ budget'.events = budget.events
  <2> DEFINE r == <<s[1], "prefixed", s[4]>>
  <2>1. s[1] \in StepEvent /\ s[2] \in Node /\ s[3] \in Node /\ s[4] \in Nat
    BY DEF RelayTyped
  <2>2. r \in StepEvent \X Subject \X Nat /\ r[2] # "result"
    BY <2>1 DEF Subject
  <2>3. PICK T : StoreResult(T, r)
    BY Zenon, <1>4 DEF RouteReturned
  <2> HIDE DEF r
  <2>4. /\ results' \in [Node -> SUBSET (StepEvent \X Subject \X Nat)]
        /\ \A m \in Node : results'[m] \subseteq results[m] \cup {r}
    BY Zenon, <2>2, <2>3, StoreTyped
  <2>5. SubscribedIsFresh'
    BY Zenon, <2>2, <2>4 DEF ResultInvariant, SubscribedIsFresh
  <2>6. returning' \subseteq returning
    BY Zenon, <1>4 DEF RouteReturned
  <2>7. /\ budget' \in Bounds /\ budget'.events = budget.events /\ known' \subseteq Node
        /\ forwarder' \in [Node -> Node \cup {Nobody}]
    BY Zenon, <1>4, <2>1, ForwardingTypes DEF RouteReturned
  <2>8. stream' \subseteq Node
    BY Zenon, <1>4, <2>1 DEF RouteReturned, RelayTyped
  <2>9. RelayTyped'
    BY Zenon, <1>1, <2>4, <2>6, <2>7, <2>8 DEF RelayTyped
  <2> QED  BY Zenon, <2>5, <2>6, <2>7, <2>9 DEF ResultInvariant, ResultsDoNotBounce
<1> QED  BY Zenon, <1>2, <1>3, <1>4 DEF ResultStep

-----------------------------------------------------------------------------
(* The copies of an event *)

\* Two started copies with one message ID are for one agent.
LEMMA OneCopyPerID ==
    ASSUME CopiesStartOnce, NEW c \in Copy, NEW d \in Copy, pc[c] # "none", pc[d] # "none",
           MessageID(c) = MessageID(d)
    PROVE  c[2] = d[2]
<1>1. /\ c[1] \in Event /\ c[2] \in Agent /\ c = <<c[1], c[2]>>
      /\ d[1] \in Event /\ d[2] \in Agent /\ d = <<d[1], d[2]>>
  BY Zenon, MessageIDTypes
<1>2. c[1] # d /\ d[1] # c
  BY Zenon, <1>1, RelayAssumption
<1>3. CASE c[1] \in CapabilityEvent
  BY Zenon, <1>2, <1>3 DEF MessageID
<1>4. CASE c[1] \notin CapabilityEvent
  <2>1. d[1] = c[1]
    BY Zenon, <1>2, <1>4 DEF MessageID
  <2>2. c[1] \in DirectEvent \cup StepEvent
    BY Zenon, <1>1, <1>4 DEF Event
  <2> QED  BY <1>1, <2>1, <2>2 DEF CopiesStartOnce
<1> QED  BY Zenon, <1>3, <1>4

\* A step that moves copy c.
Moves(c) ==
    \A d \in Copy \ {c} : pc'[d] = pc[d] /\ at'[d] = at[d] /\ sender'[d] = sender[d]

\* What publishing c may add to the streams.
Adds(c) ==
    /\ \A n \in Node : direct[n] \subseteq direct'[n]
    /\ \A n \in Node : \A m \in direct'[n] : m \in direct[n] \/ m = <<MessageID(c), c[2]>>

\* After the step c is on a node, and if it was stored, it is in the stream there, to
\* which nothing else was added.
Arrives(c) ==
    /\ pc'[c] # "none" /\ at'[c] \in Node
    /\ pc'[c] = "wire" => sender'[c] \in Node
    /\ pc'[c] = "stored" => <<MessageID(c), c[2]>> \in direct'[at'[c]]
    /\ Adds(c)

\* What such a step leaves as it should be.
LEMMA MovesKeep ==
    ASSUME CopyInvariant, NEW c \in Copy, Moves(c), Arrives(c)
    PROVE  /\ \A d \in Copy : pc'[d] # "none" => at'[d] \in Node
           /\ \A d \in Copy : pc'[d] = "wire" => sender'[d] \in Node
           /\ StreamHoldsCopies' /\ RoutedIsStored'
<1> USE DEF Moves, Arrives, Adds
<1>1. \A d \in Copy : pc'[d] # "none" => at'[d] \in Node
  BY Zenon DEF CopyInvariant, CopiesHaveNode
<1>2. \A d \in Copy : pc'[d] = "wire" => sender'[d] \in Node
  BY Zenon DEF CopyInvariant, CopiesHaveNode
<1>3. StreamHoldsCopies'
  <2> SUFFICES ASSUME NEW n \in Node, NEW m \in direct'[n]
               PROVE  \E d \in Copy : m = <<MessageID(d), d[2]>> /\ pc'[d] # "none"
    BY Zenon DEF StreamHoldsCopies
  <2>1. CASE m \in direct[n]
    <3>1. PICK d \in Copy : m = <<MessageID(d), d[2]>> /\ pc[d] # "none"
      BY Zenon, <2>1 DEF CopyInvariant, StreamHoldsCopies
    <3>2. pc'[d] # "none"
      BY Zenon, <3>1
    <3> QED  BY Zenon, <3>1, <3>2
  <2>2. CASE m = <<MessageID(c), c[2]>>
    BY Zenon, <2>2
  <2> QED  BY Zenon, <2>1, <2>2
<1>4. RoutedIsStored'
  <2> SUFFICES ASSUME NEW d \in Copy, pc'[d] = "stored"
               PROVE  <<MessageID(d), d[2]>> \in direct'[at'[d]]
    BY Zenon DEF RoutedIsStored
  <2>1. CASE d = c
    BY Zenon, <2>1
  <2>2. CASE d # c
    <3>1. pc[d] = "stored" /\ at'[d] = at[d]
      BY Zenon, <2>2
    <3>2. at[d] \in Node
      BY Zenon, <3>1 DEF CopyInvariant, CopiesHaveNode
    <3>3. <<MessageID(d), d[2]>> \in direct[at[d]]
      BY Zenon, <3>1 DEF CopyInvariant, RoutedIsStored
    <3> QED  BY Zenon, <3>1, <3>2, <3>3
  <2> QED  BY Zenon, <2>1, <2>2
<1> QED  BY Zenon, <1>1, <1>2, <1>3, <1>4

\* Starting a copy of an event that is not to be emitted any more.
LEMMA OneStarted ==
    ASSUME RelayTyped, CopiesStartOnce, NEW e \in Event, NEW x \in Agent,
           Moves(<<e, x>>), pc'[<<e, x>>] # "none",
           e \notin budget'.events, budget'.events \subseteq budget.events,
           \A f \in Event : matched'[f] \subseteq matched[f],
           x \notin matched'[e],
           e \notin CapabilityEvent => \A y \in Agent : pc[<<e, y>>] = "none"
    PROVE  CopiesStartOnce'
<1>1. /\ budget.events \subseteq Event
      /\ \A f \in Event : matched[f] \subseteq Agent
      /\ DirectEvent \cup StepEvent \subseteq Event
  BY Zenon DEF RelayTyped, Bounds, Event
<1>2. ASSUME NEW f \in Event, NEW y \in Agent, f # e \/ y # x
      PROVE  pc'[<<f, y>>] = pc[<<f, y>>]
  <2>1. <<f, y>> \in Copy /\ <<f, y>> # <<e, x>>
    BY Zenon, <1>2 DEF Copy
  <2> QED  BY Zenon, <2>1 DEF Moves
<1>3. ASSUME NEW f \in budget'.events, NEW y \in Agent
      PROVE  pc'[<<f, y>>] = "none"
  <2>1. f \in Event /\ f \in budget.events /\ f # e
    BY Zenon, <1>1
  <2>2. pc[<<f, y>>] = "none"
    BY Zenon, <2>1 DEF CopiesStartOnce
  <2> QED  BY Zenon, <1>2, <2>1, <2>2
<1>4. ASSUME NEW f \in Event, NEW y \in matched'[f]
      PROVE  f \in CapabilityEvent \ budget'.events /\ pc'[<<f, y>>] = "none"
  <2>1. y \in matched[f] /\ y \in Agent /\ (f # e \/ y # x)
    BY Zenon, <1>1
  <2>2. f \in CapabilityEvent \ budget.events /\ pc[<<f, y>>] = "none"
    BY Zenon, <2>1 DEF CopiesStartOnce
  <2> QED  BY Zenon, <1>2, <2>1, <2>2
<1>5. ASSUME NEW f \in DirectEvent \cup StepEvent, NEW y \in Agent, NEW z \in Agent,
             pc'[<<f, y>>] # "none", pc'[<<f, z>>] # "none"
      PROVE  y = z
  <2>1. CASE f # e
    BY <1>1, <1>2, <1>5, <2>1 DEF CopiesStartOnce
  <2>2. CASE f = e
    <3>1. e \notin CapabilityEvent
      BY Zenon, <2>2, RelayAssumption
    <3> QED  BY Zenon, <1>2, <1>5, <2>2, <3>1
  <2> QED  BY Zenon, <2>1, <2>2
<1> QED  BY <1>3, <1>4, <1>5 DEF CopiesStartOnce

\* A step that starts no copy starts none twice.
LEMMA NoneStarted ==
    ASSUME RelayTyped, CopiesStartOnce, budget'.events = budget.events,
           \A f \in Event : matched'[f] \subseteq matched[f],
           \A d \in Copy : pc'[d] = "none" <=> pc[d] = "none"
    PROVE  CopiesStartOnce'
<1>1. \A f \in Event, y \in Agent : <<f, y>> \in Copy
  BY Zenon DEF Copy
<1>2. budget.events \subseteq Event /\ \A f \in Event : matched[f] \subseteq Agent
  BY Zenon DEF RelayTyped, Bounds
<1>3. DirectEvent \cup StepEvent \subseteq Event
  BY Zenon DEF Event
<1>4. \A e \in budget'.events : \A x \in Agent : pc'[<<e, x>>] = "none"
  BY Zenon, <1>1, <1>2 DEF CopiesStartOnce
<1>5. \A e \in Event : \A x \in matched'[e] :
         e \in CapabilityEvent \ budget'.events /\ pc'[<<e, x>>] = "none"
  BY Zenon, <1>1, <1>2 DEF CopiesStartOnce
<1>6. \A e \in DirectEvent \cup StepEvent : \A x, y \in Agent :
         pc'[<<e, x>>] # "none" /\ pc'[<<e, y>>] # "none" => x = y
  BY Zenon, <1>1, <1>3 DEF CopiesStartOnce
<1> QED  BY Zenon, <1>4, <1>5, <1>6 DEF CopiesStartOnce

\* Publishing stores the copy, or its stream holds it already.
LEMMA PublishStores ==
    ASSUME RelayTyped, CopiesStartOnce, StreamHoldsCopies,
           NEW S, NEW c \in Copy, pc[c] # "none", Publish(S, c)
    PROVE  Adds(c) /\ \A n \in Node : n \in S => <<MessageID(c), c[2]>> \in direct'[n]
<1>1. ASSUME NEW n \in Node, NEW m \in direct[n], m[1] = MessageID(c)
      PROVE  m = <<MessageID(c), c[2]>>
  <2>1. PICK d \in Copy : m = <<MessageID(d), d[2]>> /\ pc[d] # "none"
    BY Zenon DEF StreamHoldsCopies
  <2>2. MessageID(d) = MessageID(c)
    BY Zenon, <1>1, <2>1
  <2>3. d[2] = c[2]
    BY Zenon, <2>1, <2>2, OneCopyPerID
  <2> QED  BY Zenon, <2>1, <2>2, <2>3
<1>2. \A n \in Node : direct'[n] = IF n \in S /\ ~\E m \in direct[n] : m[1] = MessageID(c)
                                   THEN direct[n] \cup {<<MessageID(c), c[2]>>} ELSE direct[n]
  BY Zenon DEF Publish
<1>3. Adds(c)
  BY Zenon, <1>2 DEF Adds
<1>4. ASSUME NEW n \in Node, n \in S
      PROVE  <<MessageID(c), c[2]>> \in direct'[n]
  BY Zenon, <1>1, <1>2, <1>4
<1> QED  BY Zenon, <1>3, <1>4

\* Every step of the router keeps the copies in order.
LEMMA RouterKeepsCopies ==
    ASSUME SyncTypeOK, RelayTyped, CopyInvariant, EmitStep \/ RouterStep
    PROVE  CopyInvariant'
<1>0. CopiesStartOnce /\ CopiesHaveNode /\ StreamHoldsCopies
  BY Zenon DEF CopyInvariant
<1>1. ASSUME NEW n \in Node, NEW e \in Event, NEW x \in Agent, RouteTargeted(n, e, x),
             UNCHANGED <<sender, hops, direct, known, forwarder, results, returning>>
      PROVE  CopyInvariant'
  <2>1. <<e, x>> \in Copy /\ \A y \in Agent : pc[<<e, y>>] = "none"
    BY Zenon, <1>0, <1>1 DEF Copy, RouteTargeted, Emit, CopiesStartOnce
  <2>2. /\ budget'.events = budget.events \ {e} /\ matched' = matched
        /\ \A f \in Event : origin'[f] = IF f = e THEN n ELSE origin[f]
    BY Zenon, <1>0, <1>1 DEF RouteTargeted, Emit, RelayTyped, Bounds
  <2>3. e \notin CapabilityEvent
    BY Zenon, <1>1, RelayAssumption DEF RouteTargeted
  <2>4. Moves(<<e, x>>) /\ Arrives(<<e, x>>)
    <3> DEFINE c == <<e, x>>
    <3>1. c \in Copy /\ StartCopy(n, c)
      BY Zenon, <1>1, <2>1 DEF RouteTargeted
    <3> HIDE DEF c
    <3>2. Moves(c)
      BY ONLY Zenon, RelayTyped, <1>1, <3>1 DEF StartCopy, Goto, Moves, RelayTyped
    <3>3. pc'[c] = "get" /\ at'[c] = n
      BY ONLY Zenon, RelayTyped, <3>1 DEF StartCopy, Goto, RelayTyped
    <3>4. Arrives(c)
      BY Zenon, <1>1, <3>1, <3>3 DEF Arrives, Adds
    <3> QED  BY Zenon, <3>2, <3>4 DEF c
  <2>5. CopiesStartOnce'
    <3>1. x \notin matched[e]
      BY Zenon, <1>0, <2>3 DEF CopiesStartOnce
    <3> QED  BY Zenon, <1>0, <2>1, <2>2, <2>4, <3>1, OneStarted DEF Arrives
  <2>6. CopiesHaveNode'
    BY Zenon, <1>0, <1>1, <2>1, <2>2, <2>4, MovesKeep DEF CopiesHaveNode
  <2>7. StreamHoldsCopies' /\ RoutedIsStored'
    BY Zenon, <2>1, <2>4, MovesKeep
  <2> QED  BY Zenon, <2>5, <2>6, <2>7 DEF CopyInvariant
<1>2. ASSUME NEW n \in Node, NEW e \in Event, RouteCapability(n, e),
             UNCHANGED <<sender, hops, direct, known, forwarder, results, returning>>
      PROVE  CopyInvariant'
  <2>1. \A y \in Agent : pc[<<e, y>>] = "none"
    BY Zenon, <1>0, <1>2 DEF RouteCapability, Emit, CopiesStartOnce
  <2>2. UNCHANGED <<pc, at>> /\ e \in CapabilityEvent
    BY Zenon, <1>2 DEF RouteCapability
  <2>3. /\ budget'.events = budget.events \ {e}
        /\ \A f \in Event : origin'[f] = IF f = e THEN n ELSE origin[f]
    BY Zenon, <1>2 DEF RouteCapability, Emit, RelayTyped, Bounds
  <2>4. \A f \in Event : f # e => matched'[f] = matched[f]
    BY Zenon, <1>2 DEF RouteCapability, RelayTyped
  <2>5. matched'[e] \subseteq Agent
    <3>1. RelayTyped'
      BY Zenon, <1>0, <1>2, RouterTypes DEF EmitStep
    <3> QED  BY Zenon, <3>1 DEF RelayTyped
  <2>6. CopiesStartOnce'
    <3>1. ASSUME NEW f \in Event, NEW y \in matched'[f]
          PROVE  f \in CapabilityEvent \ budget'.events /\ pc'[<<f, y>>] = "none"
      <4>1. CASE f = e
        BY Zenon, <2>1, <2>2, <2>3, <2>5, <4>1
      <4>2. CASE f # e
        BY Zenon, <1>0, <2>2, <2>3, <2>4, <4>2 DEF CopiesStartOnce
      <4> QED  BY Zenon, <4>1, <4>2
    <3>2. \A f \in budget'.events : \A y \in Agent : pc'[<<f, y>>] = "none"
      BY Zenon, <1>0, <2>2, <2>3 DEF CopiesStartOnce
    <3> QED  BY Zenon, <1>0, <2>2, <3>1, <3>2 DEF CopiesStartOnce
  <2>7. CopiesHaveNode'
    BY Zenon, <1>0, <1>2, <2>2, <2>3, <2>4 DEF CopiesHaveNode
  <2>8. StreamHoldsCopies' /\ RoutedIsStored'
    BY Zenon, <1>2, <2>2 DEF CopyInvariant, StreamHoldsCopies, RoutedIsStored
  <2> QED  BY Zenon, <2>6, <2>7, <2>8 DEF CopyInvariant
<1>3. ASSUME NEW e \in CapabilityEvent, NEW x \in Agent, RouteNext(e, x),
             UNCHANGED <<sender, hops, direct, known, forwarder, results, returning>>
      PROVE  CopyInvariant'
  <2>1. e \in Event /\ <<e, x>> \in Copy
    BY Zenon DEF Event, Copy
  <2>2. e \notin budget.events /\ pc[<<e, x>>] = "none" /\ origin[e] \in Node
    BY Zenon, <1>0, <1>3, <2>1 DEF RouteNext, CopiesStartOnce, CopiesHaveNode
  <2>3. UNCHANGED <<origin, budget>> /\ matched' = [matched EXCEPT ![e] = @ \ {x}]
    BY Zenon, <1>3 DEF RouteNext
  <2>4. \A f \in Event : matched'[f] \subseteq matched[f] /\ x \notin matched'[e]
    BY Zenon, <2>1, <2>3 DEF RelayTyped
  <2>5. Moves(<<e, x>>) /\ Arrives(<<e, x>>)
    <3> DEFINE c == <<e, x>>
    <3>1. c \in Copy /\ StartCopy(origin[e], c)
      BY Zenon, <1>3, <2>1 DEF RouteNext
    <3> HIDE DEF c
    <3>2. Moves(c)
      BY ONLY Zenon, RelayTyped, <1>3, <3>1 DEF StartCopy, Goto, Moves, RelayTyped
    <3>3. pc'[c] = "get" /\ at'[c] = origin[e]
      BY ONLY Zenon, RelayTyped, <3>1 DEF StartCopy, Goto, RelayTyped
    <3>4. Arrives(c)
      BY Zenon, <1>3, <2>2, <3>1, <3>3 DEF Arrives, Adds
    <3> QED  BY Zenon, <3>2, <3>4 DEF c
  <2>6. CopiesStartOnce'
    BY Zenon, <1>0, <2>1, <2>2, <2>3, <2>4, <2>5, OneStarted DEF Arrives
  <2>7. CopiesHaveNode'
    BY Zenon, <1>0, <1>3, <2>1, <2>3, <2>4, <2>5, MovesKeep DEF CopiesHaveNode
  <2>8. StreamHoldsCopies' /\ RoutedIsStored'
    BY Zenon, <2>1, <2>5, MovesKeep
  <2> QED  BY Zenon, <2>6, <2>7, <2>8 DEF CopyInvariant
\* The steps that move a copy, and may end the loop of a fan-out.
<1>4. ASSUME NEW c \in Copy, pc[c] # "none", Moves(c), Arrives(c), UNCHANGED origin,
             budget'.events = budget.events,
             \A f \in Event : matched'[f] \subseteq matched[f]
      PROVE  CopyInvariant'
  <2>1. \A d \in Copy : pc'[d] = "none" <=> pc[d] = "none"
    BY Zenon, <1>4 DEF Moves, Arrives
  <2>2. CopiesStartOnce'
    BY Zenon, <1>0, <1>4, <2>1, NoneStarted
  <2>3. CopiesHaveNode'
    BY Zenon, <1>0, <1>4, MovesKeep DEF CopiesHaveNode
  <2>4. StreamHoldsCopies' /\ RoutedIsStored'
    BY Zenon, <1>4, MovesKeep
  <2> QED  BY Zenon, <2>2, <2>3, <2>4 DEF CopyInvariant
<1>5. ASSUME NEW c \in Copy, RouteDirect(c), UNCHANGED origin
      PROVE  CopyInvariant'
  <2>1. pc[c] = "get" /\ at[c] \in Node /\ UNCHANGED <<matched, at, sender>>
    BY Zenon, <1>0, <1>5 DEF RouteDirect, CopiesHaveNode
  <2>2. budget'.events = budget.events
    BY Zenon, <1>5, SpendTyped DEF RouteDirect, RelayTyped
  <2>3. CASE \E S \in Reached(at[c]) : Publish(S, c) /\ Goto(c, "stored")
    <3>1. PICK S \in Reached(at[c]) : Publish(S, c) /\ Goto(c, "stored")
      BY Zenon, <2>3
    <3>2. Adds(c) /\ <<MessageID(c), c[2]>> \in direct'[at[c]]
      BY Zenon, <1>0, <2>1, <3>1, PublishStores, ReachedTyped
    <3>3. Moves(c) /\ pc'[c] = "stored"
      BY Zenon, <2>1, <3>1 DEF Goto, RelayTyped, Moves
    <3>4. Arrives(c)
      BY Zenon, <2>1, <3>2, <3>3 DEF Arrives
    <3> QED  BY Zenon, <1>4, <1>5, <2>1, <2>2, <3>3, <3>4
  <2>4. CASE Goto(c, "search") /\ UNCHANGED direct
    <3>1. Moves(c) /\ pc'[c] = "search"
      BY Zenon, <2>1, <2>4 DEF Goto, RelayTyped, Moves
    <3>2. Arrives(c)
      BY Zenon, <2>1, <2>4, <3>1 DEF Arrives, Adds
    <3> QED  BY Zenon, <1>4, <1>5, <2>1, <2>2, <3>1, <3>2
  <2> QED  BY Zenon, <1>5, <2>3, <2>4 DEF RouteDirect
<1>6. ASSUME NEW c \in Copy, RelayToNode(c), UNCHANGED origin
      PROVE  CopyInvariant'
  <2>1. pc[c] = "search" /\ at[c] \in Node /\ c[2] \in Agent /\ UNCHANGED <<matched, direct>>
    BY Zenon, <1>0, <1>6, MessageIDTypes DEF RelayToNode, CopiesHaveNode
  <2>2. budget'.events = budget.events
    BY Zenon, <1>6, SpendTyped DEF RelayToNode, RelayTyped
  <2>3. CASE PublishError(c)
    <3>1. Moves(c) /\ pc'[c] = "error" /\ UNCHANGED at
      BY Zenon, <2>1, <2>3 DEF PublishError, Goto, RelayTyped, Moves
    <3>2. Arrives(c)
      BY Zenon, <2>1, <3>1 DEF Arrives, Adds
    <3> QED  BY Zenon, <1>4, <1>6, <2>1, <2>2, <3>1, <3>2
  <2>4. ASSUME NEW m \in Node, Relay(c, m)
        PROVE  CopyInvariant'
    <3>1. at'[c] = m /\ sender'[c] = at[c] /\ pc'[c] \in {"wire", "lost"}
      BY Zenon, <2>4 DEF Relay, Goto, RelayTyped
    <3>2. Moves(c)
      BY Zenon, <2>4 DEF Relay, Goto, RelayTyped, Moves
    <3>3. Arrives(c)
      BY Zenon, <2>1, <3>1 DEF Arrives, Adds
    <3> QED  BY Zenon, <1>4, <1>6, <2>1, <2>2, <3>2, <3>3
  <2> QED  BY Zenon, <1>6, <2>1, <2>3, <2>4, HostsAnnounced DEF RelayToNode
<1>7. ASSUME NEW c \in Copy, RouteFails(c), UNCHANGED origin
      PROVE  CopyInvariant'
  <2>1. pc[c] # "none" /\ at[c] \in Node /\ c[1] \in Event /\ UNCHANGED <<at, sender>>
    BY Zenon, <1>0, <1>7, MessageIDTypes DEF RouteFails, CopiesHaveNode
  <2>2. budget'.events = budget.events
    BY Zenon, <1>7, SpendTyped DEF RouteFails, RelayTyped
  <2>3. \A f \in Event : matched'[f] \subseteq matched[f]
    BY Zenon, <1>7, <2>1 DEF RouteFails, RelayTyped
  <2>4. Moves(c) /\ pc'[c] = "lost"
    BY Zenon, <1>7, <2>1 DEF RouteFails, Goto, RelayTyped, Moves
  <2>5. Adds(c)
    <3>1. CASE UNCHANGED direct
      BY Zenon, <3>1 DEF Adds
    <3>2. CASE \E S \in Reached(at[c]) : Publish(S, c)
      BY Zenon, <1>0, <2>1, <3>2, PublishStores
    <3> QED  BY Zenon, <1>7, <3>1, <3>2 DEF RouteFails
  <2>6. Arrives(c)
    BY Zenon, <2>1, <2>4, <2>5 DEF Arrives
  <2> QED  BY Zenon, <1>4, <1>7, <2>1, <2>2, <2>3, <2>4, <2>6
<1>8. ASSUME NEW c \in Copy, HandleIncomingRelay(c),
             UNCHANGED <<origin, matched, at, sender, hops, direct, results, returning>>
      PROVE  CopyInvariant'
  <2>1. pc[c] = "wire" /\ at[c] \in Node /\ sender[c] \in Node
    BY Zenon, <1>0, <1>8 DEF HandleIncomingRelay, CopiesHaveNode
  <2>2. Moves(c) /\ pc'[c] = "get"
    BY Zenon, <1>8 DEF HandleIncomingRelay, Goto, RelayTyped, Moves
  <2>3. budget'.events = budget.events
    BY Zenon, <1>8, <2>1, ForwardingTypes DEF HandleIncomingRelay
  <2>4. Arrives(c)
    BY Zenon, <1>8, <2>1, <2>2 DEF Arrives, Adds
  <2> QED  BY Zenon, <1>4, <1>8, <2>1, <2>2, <2>3, <2>4
<1>9. CASE EmitStep
  BY Zenon, <1>1, <1>2, <1>9 DEF EmitStep
<1>10. CASE RouterStep
  BY Zenon, <1>3, <1>5, <1>6, <1>7, <1>8, <1>10 DEF RouterStep
<1> QED  BY Zenon, <1>9, <1>10

\* A step that leaves the copies alone keeps them in order.
LEMMA CopiesFrame ==
    ASSUME RelayTyped, CopyInvariant, budget'.events = budget.events,
           UNCHANGED <<origin, matched, pc, at, sender, direct>>
    PROVE  CopyInvariant'
<1>1. CopiesStartOnce'
  BY Zenon, NoneStarted DEF CopyInvariant
<1>2. CopiesHaveNode' /\ StreamHoldsCopies' /\ RoutedIsStored'
  BY Zenon DEF CopyInvariant, CopiesHaveNode, StreamHoldsCopies, RoutedIsStored
<1> QED  BY Zenon, <1>1, <1>2 DEF CopyInvariant

\* A restart loses copies and subscriptions, and nothing it stored.
LEMMA RestartKeeps ==
    ASSUME RelayTyped, CopyInvariant, ResultInvariant, NEW n \in Node, GatewayRestarts(n)
    PROVE  RelayTyped' /\ CopyInvariant' /\ ResultInvariant'
<1>1. UNCHANGED <<origin, at, sender, hops, direct, stream, results>>
  BY Zenon DEF GatewayRestarts
<1>2. budget' \in Bounds /\ budget'.events = budget.events
  BY Zenon, SpendTyped DEF GatewayRestarts, RelayTyped
<1>3. /\ matched' \in [Event -> SUBSET Agent]
      /\ \A f \in Event : matched'[f] \subseteq matched[f]
  BY Zenon DEF GatewayRestarts, RelayTyped
<1>4. \A c \in Copy : \/ pc'[c] = pc[c]
                      \/ pc[c] \in {"get", "search", "wire"} /\ pc'[c] = "lost"
  BY Zenon DEF GatewayRestarts
<1>5. pc' \in [Copy -> Place]
  <2>1. \A c \in Copy : (IF at[c] = n /\ pc[c] \in {"get", "search", "wire"} THEN "lost"
                         ELSE pc[c]) \in Place
    BY Zenon DEF RelayTyped, Place
  <2> QED  BY Zenon, <2>1 DEF GatewayRestarts
<1>6. known' \subseteq Node /\ forwarder' \in [Node -> Node \cup {Nobody}]
  BY Zenon DEF GatewayRestarts, RelayTyped
<1>7. returning' \subseteq returning
  BY Zenon DEF GatewayRestarts
<1>8. RelayTyped'
  BY Zenon, <1>1, <1>2, <1>3, <1>5, <1>6, <1>7 DEF RelayTyped
<1>9. "lost" # "none" /\ "lost" # "wire" /\ "lost" # "stored"
  OBVIOUS
<1>10. \A c \in Copy : /\ pc'[c] = "none" <=> pc[c] = "none"
                       /\ pc'[c] = "wire" => pc[c] = "wire"
                       /\ pc'[c] = "stored" => pc[c] = "stored"
  BY Zenon, <1>4, <1>9
<1>11. CopiesStartOnce'
  BY Zenon, <1>2, <1>3, <1>10, NoneStarted DEF CopyInvariant
<1>12. CopiesHaveNode'
  BY Zenon, <1>1, <1>3, <1>10 DEF CopyInvariant, CopiesHaveNode
<1>13. StreamHoldsCopies' /\ RoutedIsStored'
  BY Zenon, <1>1, <1>10 DEF CopyInvariant, StreamHoldsCopies, RoutedIsStored
<1>14. ResultInvariant'
  BY Zenon, <1>1, <1>7 DEF ResultInvariant, ResultsDoNotBounce, SubscribedIsFresh
<1> QED  BY Zenon, <1>8, <1>11, <1>12, <1>13, <1>14 DEF CopyInvariant

-----------------------------------------------------------------------------
(* The theorems *)

\* Nothing runs, and nothing is on its way.
LEMMA RelayInit ==
    ASSUME Init
    PROVE  RelayInvariant
<1> USE DEF Init, SyncInit
<1>1. SyncTypeOK
  <2>1. announcements \in [Node -> Seq([agent : Agent, empty : BOOLEAN])]
    OBVIOUS
  <2>2. heard \in [Node -> Nat]
    OBVIOUS
  <2> QED  BY Zenon, <2>1, <2>2 DEF SyncTypeOK
<1>2. TypeOK
  <2>1. hops \in [Copy -> 0..MaxHops]
    BY RelayAssumption
  <2> QED  BY Zenon, <1>1, <2>1, RelayAssumption DEF TypeOK, Place
<1>3. NeverStopped /\ HeardExists /\ OwnIsLocal
  BY DEF NeverStopped, HeardExists, OwnIsLocal
<1>4. OnItsWay
  BY Zenon, NobodyAssumption DEF OnItsWay
<1>5. CopiesStartOnce
  <2>1. \A e \in Event, x \in Agent : <<e, x>> \in Copy
    BY Zenon DEF Copy
  <2>2. budget.events \subseteq Event
    BY Zenon, RelayAssumption DEF Bounds
  <2> QED  BY Zenon, <2>1, <2>2 DEF CopiesStartOnce, Event
<1>6. CopiesHaveNode /\ StreamHoldsCopies /\ RoutedIsStored
  BY Zenon DEF CopiesHaveNode, StreamHoldsCopies, RoutedIsStored
<1>7. ResultInvariant
  BY Zenon DEF ResultInvariant, SubscribedIsFresh, ResultsDoNotBounce
<1> QED
  BY Zenon, <1>2, <1>3, <1>4, <1>5, <1>6, <1>7
  DEF RelayInvariant, CopyInvariant, SyncInvariant

\* What is known of the agents depends on the variables of CapabilitySync only.
LEMMA SyncFrame ==
    ASSUME SyncTypeOK, SyncInvariant,
           UNCHANGED <<members, home, pending, local, announcements, heard, wire, remote,
                       excused>>
    PROVE  SyncTypeOK' /\ SyncInvariant'
<1>1. SyncTypeOK'
  BY Zenon DEF SyncTypeOK
<1>2. NeverStopped' /\ HeardExists' /\ OwnIsLocal'
  BY Zenon DEF SyncInvariant, NeverStopped, Steady, HeardExists, OwnIsLocal
<1>3. OnItsWay'
  BY Zenon DEF SyncInvariant, OnItsWay, Coming, Listed, Announcement
<1> QED  BY Zenon, <1>1, <1>2, <1>3 DEF SyncInvariant

\* Every step keeps the invariant.
LEMMA RelayNext ==
    ASSUME RelayInvariant, Next
    PROVE  RelayInvariant'
<1>1. SyncTypeOK /\ RelayTyped /\ SyncInvariant /\ CopyInvariant /\ ResultInvariant
  BY Zenon DEF RelayInvariant, TypeOK, RelayTyped
<1>2. SUFFICES SyncTypeOK' /\ RelayTyped' /\ SyncInvariant' /\ CopyInvariant' /\ ResultInvariant'
  BY Zenon DEF RelayInvariant, TypeOK, RelayTyped
<1>3. CASE SyncStep /\ UNCHANGED relayVars
  <2>1. /\ SyncTypeOK' /\ SyncInvariant'
        /\ budget' \in Bounds /\ budget'.events = budget.events
    BY Zenon, <1>1, <1>3, SyncKeepsSync DEF RelayTyped
  <2>2. RelayTyped'
    BY Zenon, <1>1, <1>3, <2>1 DEF RelayTyped, relayVars
  <2>3. CopyInvariant'
    BY Zenon, <1>1, <1>3, <2>1, CopiesFrame DEF relayVars
  <2>4. ResultInvariant'
    BY Zenon, <1>1, <1>3 DEF relayVars, ResultInvariant, SubscribedIsFresh, ResultsDoNotBounce
  <2> QED  BY Zenon, <2>1, <2>2, <2>3, <2>4
<1>4. CASE (EmitStep \/ RouterStep) /\ SyncUnchanged
  <2>1. SyncTypeOK' /\ SyncInvariant'
    BY Zenon, <1>1, <1>4, SyncFrame DEF SyncUnchanged
  <2>2. RelayTyped' /\ CopyInvariant'
    BY Zenon, <1>1, <1>4, RouterTypes, RouterKeepsCopies DEF CopyInvariant
  <2>3. UNCHANGED <<results, returning>>
    BY Zenon, <1>4 DEF EmitStep, RouterStep
  <2>4. ResultInvariant'
    BY Zenon, <1>1, <2>3 DEF ResultInvariant, SubscribedIsFresh, ResultsDoNotBounce
  <2> QED  BY Zenon, <2>1, <2>2, <2>4
<1>5. CASE ResultStep /\ SyncUnchanged
  <2>1. SyncTypeOK' /\ SyncInvariant'
    BY Zenon, <1>1, <1>5, SyncFrame DEF SyncUnchanged
  <2>2. RelayTyped' /\ ResultInvariant' /\ budget'.events = budget.events
    BY Zenon, <1>1, <1>5, ResultsKeep
  <2>3. CopyInvariant'
    BY Zenon, <1>1, <1>5, <2>2, CopiesFrame DEF ResultStep
  <2> QED  BY Zenon, <2>1, <2>2, <2>3
<1>6. ASSUME NEW n \in Node, GatewayRestarts(n)
      PROVE  /\ SyncTypeOK' /\ RelayTyped' /\ SyncInvariant' /\ CopyInvariant'
             /\ ResultInvariant'
  <2>1. SyncTypeOK' /\ SyncInvariant'
    BY Zenon, <1>1, <1>6, RestartKeepsSync DEF GatewayRestarts
  <2> QED  BY Zenon, <1>1, <1>6, <2>1, RestartKeeps
<1> QED  BY Zenon, <1>3, <1>4, <1>5, <1>6 DEF Next

\* In every reachable state an announcement a peer waits for is on its way, a copy
\* that was started has its node and its message, and what gateways subscribe to was
\* not relayed before.
THEOREM RelayInvariantHolds == Spec => []RelayInvariant
<1>1. ASSUME RelayInvariant, UNCHANGED vars
      PROVE  RelayInvariant'
  <2> USE <1>1 DEF vars, syncVars, relayVars
  <2>1. SyncTypeOK /\ RelayTyped /\ SyncInvariant /\ CopyInvariant /\ ResultInvariant
    BY Zenon DEF RelayInvariant, TypeOK, RelayTyped
  <2>2. SyncTypeOK' /\ SyncInvariant'
    BY Zenon, <2>1, SyncFrame
  <2>3. CopyInvariant'
    BY Zenon, <2>1, CopiesFrame
  <2>4. ResultInvariant'
    BY Zenon, <2>1 DEF ResultInvariant, SubscribedIsFresh, ResultsDoNotBounce
  <2>5. TypeOK'
    BY Zenon, <2>1, <2>2 DEF TypeOK, RelayTyped
  <2> QED  BY Zenon, <2>2, <2>3, <2>4, <2>5 DEF RelayInvariant
<1> QED  BY RelayInit, RelayNext, <1>1, PTL DEF Spec

\* Every variable of the router and the relay keeps its type.
THEOREM RelayTypes == Spec => []TypeOK
<1>1. RelayInvariant => TypeOK
  BY Zenon DEF RelayInvariant
<1> QED  BY RelayInvariantHolds, <1>1, PTL

\* Once all is quiet every peer that had joined knows the agents that run and have
\* never stopped, unless one of the named losses kept or took them from it
\* (CapabilityAnnouncer, CapabilitySync).
THEOREM PeersHaveLearned == Spec => []PeersLearn
<1>1. RelayInvariant => PeersLearn
  <2> SUFFICES ASSUME RelayInvariant, Quiet, NEW x \in Agent, NEW n \in Node, NEW m \in Node,
                      home[x] = n
               PROVE  /\ <<n, x>> \notin remote[n]
                      /\ m # n /\ <<m, x>> \notin excused => <<n, x>> \in remote[m]
    BY Zenon DEF PeersLearn
  <2>1. <<n, x>> \notin remote[n]
    BY Zenon DEF RelayInvariant, SyncInvariant, OwnIsLocal
  <2>2. ~Listed(n, x)
    <3>1. heard[n] = Len(announcements[n]) /\ Len(announcements[n]) \in Nat
      BY DEF Quiet, RelayInvariant, TypeOK, SyncTypeOK
    <3> QED  BY <3>1 DEF Listed
  <2>3. m # n /\ <<m, x>> \notin excused => <<n, x>> \in remote[m]
    BY Zenon, <2>2 DEF RelayInvariant, SyncInvariant, OnItsWay, Coming, Quiet
  <2> QED  BY Zenon, <2>1, <2>3
<1> QED  BY RelayInvariantHolds, <1>1, PTL

\* A copy that was routed to a local agent is in that agent's stream
\* (routeCapability, routeDirect).
THEOREM RoutedCopiesStored == Spec => []RoutedIsStored
<1>1. RelayInvariant => RoutedIsStored
  BY Zenon DEF RelayInvariant, CopyInvariant
<1> QED  BY RelayInvariantHolds, <1>1, PTL

\* A result that was relayed back is not relayed on, however often subscriptions
\* deliver it again and gateways restart (setupResultForwarding, routeWorkflow).
THEOREM ReturnedStays == Spec => []ResultsDoNotBounce
<1>1. RelayInvariant => ResultsDoNotBounce
  BY Zenon DEF RelayInvariant, ResultInvariant
<1> QED  BY RelayInvariantHolds, <1>1, PTL
=============================================================================
