-------------------------- MODULE AgentEdgeProofs --------------------------
(***************************************************************************)
(* Safety at the edges of the network, for any number of SDK agents,       *)
(* connections, steps, tasks and workflows: an agent that unregisters has  *)
(* no handler in flight, a closed channel is in no map, an agent counts as *)
(* reachable exactly while it has a connection, what a client was told of  *)
(* a task's end stands, an agent's idempotency cache is the latest events  *)
(* it looked up, and a delivery that it skips is of an event it handled.   *)
(*                                                                         *)
(* The parts share few variables, so each has an invariant of its own, as  *)
(* has the cache; a step of one part leaves the others' alone.             *)
(***************************************************************************)
EXTENDS AgentEdge, TLAPS

\* Of Stop: what the dispatcher and Stop write, and the property itself, which is
\* inductive: Admit looks at the state under the lock that Stop takes to change it.
DrainInvariant ==
    /\ phase \in [Instance -> Phase]
    /\ forced \in [Instance -> BOOLEAN]
    /\ job \in [Instance -> [Delivery -> Job]]
    /\ DrainedBeforeUnregister

\* Of the store: a client that was told an end was told the one that is stored, and
\* whoever may still cancel on the revision it read has read a running workflow.
TaskInvariant ==
    /\ status \in [Workflow -> Status]
    /\ told \in [Workflow -> {"none", "working", "canceled"} \cup Terminal]
    /\ fresh \subseteq Workflow
    /\ \A r \in results : r.step \in Workflow
    /\ \A w \in Workflow : Stands(told[w], status[w])
    /\ \A w \in fresh : status[w] = "running"

\* Of the idempotency cache: no event occurs twice in the history of its use, and
\* the cache is the history's beginning.
Once(seq) == \A j, k \in DOMAIN seq : seq[j] = seq[k] => j = k

Recent(seq) == SubSeq(seq, 1, IF Len(seq) < CacheSize THEN Len(seq) ELSE CacheSize)

CacheInvariant ==
    /\ cache \in [Instance -> Seq(Step)]
    /\ used \in [Instance -> Seq(Step)]
    /\ \A i \in Instance : Once(used[i])
    /\ CacheIsRecent

\* Of the deliveries: before its step consumer there is nothing an instance could
\* have handled, a workflow that has not started has no deliveries, and whatever
\* the cache holds was handled to the end.
Handled(i, s) == \E k \in {1, 2} : job[i][<<s, k>>] = "done"

Early == {"none", "register", "health", "direct"}

NothingYet ==
    \A i \in Instance : phase[i] \in Early =>
        /\ cache[i] = <<>>
        /\ "direct" \notin subscribed[i]
        /\ \A d \in Delivery : job[i][d] = "none"

NotDispatched ==
    \A w \in Workflow : status[w] = "none" =>
        /\ w \notin direct
        /\ \A i \in Instance, k \in {1, 2} : job[i][<<w, k>>] = "none"

CachedWasHandled ==
    \A i \in Instance : \A k \in DOMAIN cache[i] : Handled(i, cache[i][k])

HandledInvariant ==
    /\ subscribed \in [Instance -> SUBSET {"health", "direct"}]
    /\ NothingYet
    /\ NotDispatched
    /\ CachedWasHandled
    /\ SkippedWasHandled

ConnTypes ==
    /\ phase \in [Instance -> Phase]
    /\ agents \in Instance \cup {Nobody}
    /\ lock \in Instance \cup {Nobody}
    /\ managed \in [Instance -> {"none", "active", "unreachable", "deregistered"}]
    /\ removed \subseteq Instance
    /\ clients \in [Instance -> SUBSET Client]
    /\ hadClient \subseteq Instance
    /\ conn \in [Client -> {"idle", "found", "attached", "open"}]
    /\ at \in [Client -> Instance \cup {Nobody}]
    /\ closed \subseteq Client

\* Whoever can be reached through the map, a handler or a deregistration under way
\* has been registered; an instance that is still being started has not.
WasRegistered ==
    /\ agents # Nobody => managed[agents] # "none"
    /\ \A i \in removed \cup hadClient : managed[i] # "none"
    /\ \A i \in Instance : phase[i] = "none" \/ lock = i => managed[i] = "none"

\* A handler has found its agent before it adds its connection, and only a
\* connection that was added is ever closed.
Attached ==
    /\ \A c \in Client : conn[c] # "idle" => at[c] \in Instance /\ managed[at[c]] # "none"
    /\ \A c \in closed : conn[c] \in {"attached", "open"}

\* The types of the variables that the other invariants say nothing of.
SdkRest ==
    /\ up \in BOOLEAN
    /\ startCtx \in [Instance -> BOOLEAN]
    /\ busCtx \in [Instance -> {"nil", "live", "cancelled"}]
    /\ unanswered \in [Instance -> BOOLEAN]
    /\ direct \subseteq Step
    /\ results \subseteq [step : Step, value : HandlerResult \cup {"answer"}]
    /\ present \in BOOLEAN
    /\ faults \in Nat

SidecarRest ==
    /\ unsent \in [Client -> SUBSET Step]
    /\ channel \in [Client -> Seq(Step)]
    /\ \A c \in Client : Len(channel[c]) <= Capacity
    /\ seen \in [Client -> SUBSET (Step \cup {ZeroEvent})]
    /\ server \in {"serving", "stopAll", "stopWait", "shutdown", "exited"}
    /\ target \in Instance \cup {Nobody}
    /\ visits \in [registers : Nat, deletes : Nat, connects : Nat, signals : Nat]

TaskRest ==
    /\ submitted \subseteq LocalTask
    /\ task \in [Task -> {"none", "polling"} \cup Returned]
    /\ remote \in [VirtualTask -> {"none", "working"} \cup Terminal]
    /\ cancelling \subseteq Workflow
    /\ fresh \subseteq cancelling
    /\ requests \in [creations : SUBSET Task, cancels : Nat, queries : Nat, timeouts : Nat]

ConnInvariant ==
    ConnTypes /\ WasRegistered /\ Attached /\ MappedIsOpen /\ ReachableIffConnected

-----------------------------------------------------------------------------
(* Stop drains the handlers *)

\* A step that leaves the agents' places and deliveries alone.
LEMMA DrainUntouched ==
    ASSUME DrainInvariant, UNCHANGED <<phase, forced, job>>
    PROVE  DrainInvariant'
BY Zenon DEF DrainInvariant, DrainedBeforeUnregister, HandlersOf

\* Start, a stop that begins, and the end of Start leave the last phases alone.
LEMMA DrainStart ==
    ASSUME DrainInvariant, NEW i \in Instance, UNCHANGED <<forced, job>>,
           phase[i] \notin {"unregister", "stopped"},
           NEW p \in Phase \ {"unregister", "stopped"}, Goto(i, p)
    PROVE  DrainInvariant'
BY Zenon DEF DrainInvariant, DrainedBeforeUnregister, HandlersOf, Goto

\* The new consumer of an agent that starts.
LEMMA DrainSubscribe ==
    ASSUME DrainInvariant, NEW i \in Instance, SubscribeDirect(i), UNCHANGED forced
    PROVE  DrainInvariant'
BY Zenon DEF DrainInvariant, DrainedBeforeUnregister, HandlersOf, SubscribeDirect, Goto, Phase, Starting,
       Stopping, Job, InFlight

\* A delivery of instance i becomes j: it may be in flight only if it was, or if
\* Stop has not begun.
LEMMA DrainBecome ==
    ASSUME DrainInvariant, NEW i \in Instance, NEW d \in Delivery, NEW j \in Job, Become(i, d, j),
           j \in InFlight =>
               job[i][d] \in InFlight \/ phase[i] \notin {"unregister", "stopped"},
           UNCHANGED <<phase, forced>>
    PROVE  DrainInvariant'
<1>1. job' \in [Instance -> [Delivery -> Job]]
  BY Zenon DEF DrainInvariant, Become
<1>2. ASSUME NEW k \in Instance, phase[k] \in {"unregister", "stopped"}, ~forced[k],
             NEW e \in Delivery
      PROVE  job'[k][e] \notin InFlight
  <2>1. job[k][e] \notin InFlight
    BY Zenon, <1>2 DEF DrainInvariant, DrainedBeforeUnregister, HandlersOf
  <2>2. job'[k][e] = IF k = i /\ e = d THEN j ELSE job[k][e]
    BY Zenon DEF DrainInvariant, Become
  <2> QED
    BY Zenon, <1>2, <2>1, <2>2
<1> QED
  BY Zenon, <1>1, <1>2 DEF DrainInvariant, DrainedBeforeUnregister, HandlersOf

\* The dispatcher: once Stop has begun a delivery is refused.
LEMMA DrainDispatch ==
    ASSUME DrainInvariant, NEW i \in Instance, NEW d \in Delivery, DispatchStep(i, d)
    PROVE  DrainInvariant'
<1> USE DEF Job, InFlight
<1>1. UNCHANGED <<phase, forced>>
  BY Zenon DEF DispatchStep
<1>2. CASE LookUp(i, d)
  <2>1. PICK j \in {"skipped", "checked"} : Become(i, d, j)
    BY Zenon, <1>2 DEF LookUp
  <2> QED
    BY Zenon, <1>1, <2>1, DrainBecome
<1>3. CASE Admit(i, d)
  <2>1. PICK j \in {"refused", "added"} :
           /\ Become(i, d, j)
           /\ j = "added" => phase[i] \notin Stopping \cup {"stopped"}
    BY Zenon, <1>3 DEF Admit
  <2> QED
    BY Zenon, <1>1, <2>1, DrainBecome DEF Stopping
<1>4. CASE Spawn(i, d)
  <2>1. PICK j \in {"bare", "invoked"} : Become(i, d, j) /\ job[i][d] = "added"
    BY Zenon, <1>4 DEF Spawn
  <2> QED
    BY Zenon, <1>1, <2>1, DrainBecome
<1>5. CASE PublishStepResult(i, d)
  BY Zenon, <1>1, <1>5, DrainBecome DEF PublishStepResult
<1>6. CASE PublishWithoutContext(i, d) /\ UNCHANGED job
  BY Zenon, <1>1, <1>6, DrainUntouched
<1>7. CASE Finish(i, d)
  BY Zenon, <1>1, <1>7, DrainBecome DEF Finish
<1>8. CASE Redeliver(i, d)
  <2>1. <<d[1], 2>> \in Delivery
    BY Zenon DEF Delivery
  <2> QED
    BY Zenon, <1>1, <1>8, <2>1, DrainBecome DEF Redeliver
<1> QED
  BY Zenon, <1>2, <1>3, <1>4, <1>5, <1>6, <1>7, <1>8 DEF DispatchStep

\* Stop itself: it goes on to unregister when no handler is left, or is forced.
LEMMA DrainStop ==
    ASSUME DrainInvariant, NEW i \in Instance, StopStep(i)
    PROVE  DrainInvariant'
<1>1. CASE Unsubscribe(i)
  BY Zenon, <1>1, DrainStart DEF StopStep, Unsubscribe, Phase, Stopping
<1>2. CASE Drain(i)
  BY Zenon, <1>2
     DEF StopStep, Drain, DrainInvariant, DrainedBeforeUnregister, HandlersOf, Goto, Phase, Stopping
<1>3. CASE Unregister(i)
  BY Zenon, <1>3 DEF StopStep, Unregister, DrainInvariant, DrainedBeforeUnregister, HandlersOf, Goto, Phase
<1> QED
  BY Zenon, <1>1, <1>2, <1>3 DEF StopStep

\* A new step event comes to the subscribed agents as one to be read.
LEMMA DrainDispatchDirect ==
    ASSUME DrainInvariant, NEW w \in Workflow, DispatchDirect(w), UNCHANGED <<phase, forced>>
    PROVE  DrainInvariant'
<1>1. <<w, 1>> \in Delivery
  BY Zenon, StepAssumption DEF Delivery
<1>2. ASSUME NEW i \in Instance
      PROVE  /\ job'[i] \in [Delivery -> Job]
             /\ \A d \in Delivery : job'[i][d] = job[i][d] \/ job'[i][d] = "unread"
  BY Zenon, <1>1 DEF DispatchDirect, DrainInvariant, Job
<1>3. job' \in [Instance -> [Delivery -> Job]]
  BY Zenon, <1>2 DEF DispatchDirect
<1>4. "unread" \notin InFlight
  BY Zenon DEF InFlight
<1> QED
  BY Zenon, <1>2, <1>3, <1>4 DEF DrainInvariant, DrainedBeforeUnregister, HandlersOf

\* Every step keeps the invariant of Stop.
LEMMA DrainKept ==
    ASSUME DrainInvariant, [Next]_edgeVars
    PROVE  DrainInvariant'
<1>1. CASE UNCHANGED sdkVars
  BY Zenon, <1>1, DrainUntouched DEF sdkVars
<1>2. ASSUME NEW i \in Instance, StartStep(i)
      PROVE  DrainInvariant'
  <2>1. UNCHANGED forced
    BY Zenon, <1>2 DEF StartStep
  <2>2. CASE SubscribeDirect(i)
    BY Zenon, <2>1, <2>2, DrainSubscribe
  <2>3. CASE Register(i) \/ SubscribeHealth(i) \/ Run(i) \/ StartFails(i)
    <3>1. UNCHANGED job /\ phase[i] \in {"register", "health", "direct", "run"}
      BY Zenon, <2>3 DEF Register, SubscribeHealth, Run, StartFails
    <3>2. PICK p \in {"health", "direct", "running", "failed"} : Goto(i, p)
      BY Zenon, <2>3 DEF Register, SubscribeHealth, Run, StartFails
    <3> QED
      BY Zenon, <2>1, <3>1, <3>2, DrainStart DEF Phase, Starting
  <2> QED
    BY Zenon, <1>2, <2>2, <2>3 DEF StartStep
<1>3. ASSUME NEW i \in Instance, Registration(i)
      PROVE  DrainInvariant'
  <2>1. UNCHANGED <<job, forced>>
    BY Zenon, <1>3 DEF Registration
  <2>2. CASE HandleRegister(i)
    BY Zenon, <2>1, <2>2, DrainStart DEF HandleRegister, Start, Phase, Starting
  <2>3. CASE RegisterEnds(i) \/ RequestReturns(i)
    BY Zenon, <2>1, <2>3, DrainUntouched DEF RegisterEnds, RequestReturns
  <2> QED
    BY Zenon, <1>3, <2>2, <2>3 DEF Registration
<1>4. CASE ManagerStep
  <2>1. UNCHANGED <<job, forced>>
    BY Zenon, <1>4 DEF ManagerStep
  <2>2. ASSUME NEW i \in Instance, CloseClients(i)
        PROVE  DrainInvariant'
    <3>1. CASE phase[i] = "running"
      BY Zenon, <2>1, <2>2, <3>1, DrainStart DEF CloseClients, Stop, Phase, Stopping
    <3>2. CASE phase[i] # "running"
      BY Zenon, <2>1, <2>2, <3>2, DrainUntouched DEF CloseClients, Stop
    <3> QED
      BY Zenon, <3>1, <3>2
  <2>3. CASE UNCHANGED phase
    BY Zenon, <2>1, <2>3, DrainUntouched
  <2> QED
    BY Zenon, <1>4, <2>2, <2>3 DEF ManagerStep, HandleDeregister, StopAllTakes, TakeFromMap, Signal,
                            StopAllMisses, StopAllReturns, ShutdownReturns
<1>5. ASSUME NEW c \in Client, Connection(c)
      PROVE  DrainInvariant'
  BY Zenon, <1>5, DrainUntouched DEF Connection
<1>6. ASSUME NEW c \in Client, NEW s \in Step, HandlePublish(c, s)
      PROVE  DrainInvariant'
  BY Zenon, <1>6, DrainUntouched DEF HandlePublish
<1>7. CASE SidecarProcess
  <2>1. ASSUME NEW i \in Instance, HealthPing(i)
        PROVE  DrainInvariant'
    BY Zenon, <2>1, DrainUntouched DEF HealthPing
  <2> QED
    BY Zenon, <1>2, <1>3, <1>4, <1>5, <1>6, <1>7, <2>1, DrainDispatch, DrainStop DEF SidecarProcess
<1>8. CASE Gateway
  BY Zenon, <1>1, <1>8, DrainUntouched DEF Gateway, CreateTask
<1>9. CASE Engine
  <2>1. ASSUME NEW t \in LocalTask, NEW w \in Workflow, StartWorkflow(t, w)
        PROVE  DrainInvariant'
    <3>1. UNCHANGED <<phase, forced>> /\ (UNCHANGED job \/ DispatchDirect(w))
      BY Zenon, <2>1 DEF StartWorkflow
    <3> QED
      BY Zenon, <3>1, DrainUntouched, DrainDispatchDirect
  <2> QED
    BY Zenon, <1>1, <1>9, <2>1 DEF Engine, StepResult, StepTimeout, Decide
<1> QED
  BY Zenon, <1>1, <1>7, <1>8, <1>9 DEF Next, edgeVars

-----------------------------------------------------------------------------
(* The idempotency cache *)

\* Sequences of the same length and elements, and the beginning of a sequence.
LEMMA SameSeq ==
    ASSUME NEW S, NEW s \in Seq(S), NEW t \in Seq(S), Len(s) = Len(t),
           \A j \in 1..Len(s) : s[j] = t[j]
    PROVE  s = t
<1>1. s = [j \in 1..Len(s) |-> s[j]] /\ t = [j \in 1..Len(t) |-> t[j]]
  OBVIOUS
<1> QED
  BY Zenon, <1>1

LEMMA BeginningOf ==
    ASSUME NEW S, NEW s \in Seq(S), NEW n \in 0..Len(s)
    PROVE  /\ SubSeq(s, 1, n) \in Seq(S)
           /\ Len(SubSeq(s, 1, n)) = n
           /\ \A j \in 1..n : SubSeq(s, 1, n)[j] = s[j]
OBVIOUS

\* Moving an entry to the front.
LEMMA MoveOf ==
    ASSUME NEW u \in Seq(Step), NEW k \in 1..Len(u)
    PROVE  /\ MoveToFront(u, k) \in Seq(Step)
           /\ Len(MoveToFront(u, k)) = Len(u)
           /\ \A j \in 1..Len(u) :
                 MoveToFront(u, k)[j] = IF j = 1 THEN u[k] ELSE IF j <= k THEN u[j - 1] ELSE u[j]
<1> DEFINE m == MoveToFront(u, k)
<1>1. m = [j \in 1..Len(u) |-> IF j = 1 THEN u[k] ELSE IF j <= k THEN u[j - 1] ELSE u[j]]
  BY DEF MoveToFront
<1>2. ASSUME NEW j \in 1..Len(u)
      PROVE  (IF j = 1 THEN u[k] ELSE IF j <= k THEN u[j - 1] ELSE u[j]) \in Step
  BY <1>2
<1> HIDE DEF m
<1>3. m \in [1..Len(u) -> Step]
  BY Zenon, <1>1, <1>2
<1>4. m \in Seq(Step)
  BY <1>3
<1> QED
  BY <1>1, <1>3, <1>4 DEF m

\* The beginning of a history that the cache holds.
LEMMA RecentOf ==
    ASSUME NEW u \in Seq(Step)
    PROVE  /\ Recent(u) \in Seq(Step)
           /\ Len(Recent(u)) = IF Len(u) < CacheSize THEN Len(u) ELSE CacheSize
           /\ \A j \in 1..Len(Recent(u)) : Recent(u)[j] = u[j]
<1> DEFINE n == IF Len(u) < CacheSize THEN Len(u) ELSE CacheSize
<1>1. n \in Nat /\ n <= Len(u)
  BY CacheAssumption
<1>2. Recent(u) = SubSeq(u, 1, n)
  BY Zenon DEF Recent
<1>3. \A j \in 1..n : u[j] \in Step
  BY <1>1
<1> HIDE DEF n
<1>4. /\ SubSeq(u, 1, n) \in Seq(Step)
      /\ Len(SubSeq(u, 1, n)) = n
      /\ \A j \in 1..n : SubSeq(u, 1, n)[j] = u[j]
  BY <1>1, <1>3, BeginningOf
<1> QED
  BY Zenon, <1>1, <1>2, <1>4 DEF n

\* One event more at the front.
LEMMA PushOf ==
    ASSUME NEW u \in Seq(Step), NEW s \in Step
    PROVE  /\ <<s>> \o u \in Seq(Step)
           /\ Len(<<s>> \o u) = Len(u) + 1
           /\ \A j \in 1..Len(u) + 1 : (<<s>> \o u)[j] = IF j = 1 THEN s ELSE u[j - 1]
OBVIOUS

\* The place of an event that occurs once.
LEMMA PlaceOf ==
    ASSUME NEW u \in Seq(Step), Once(u), NEW k \in 1..Len(u)
    PROVE  (CHOOSE j \in DOMAIN u : u[j] = u[k]) = k
BY DEF Once

LEMMA FrontOf ==
    ASSUME NEW u \in Seq(Step), Once(u), NEW k \in 1..Len(u)
    PROVE  ToFront(u, u[k]) = MoveToFront(u, k)
<1>1. \E j \in DOMAIN u : u[j] = u[k]
  OBVIOUS
<1>2. (CHOOSE j \in DOMAIN u : u[j] = u[k]) = k
  BY Zenon, PlaceOf
<1> QED
  BY ONLY Zenon, <1>1, <1>2 DEF ToFront

LEMMA FrontNew ==
    ASSUME NEW u \in Seq(Step), NEW s, \A k \in 1..Len(u) : u[k] # s
    PROVE  ToFront(u, s) = <<s>> \o u
BY DEF ToFront

\* The history stays one, without an event twice.
LEMMA FrontOnce ==
    ASSUME NEW u \in Seq(Step), Once(u), NEW s \in Step
    PROVE  ToFront(u, s) \in Seq(Step) /\ Once(ToFront(u, s))
<1>1. ASSUME NEW k \in 1..Len(u), u[k] = s
      PROVE  ToFront(u, s) \in Seq(Step) /\ Once(ToFront(u, s))
  <2> DEFINE m == MoveToFront(u, k)
  <2>1. ToFront(u, s) = m
    BY Zenon, <1>1, FrontOf
  <2>2. m \in Seq(Step) /\ Len(m) = Len(u)
        /\ \A j \in 1..Len(u) : m[j] = IF j = 1 THEN u[k] ELSE IF j <= k THEN u[j - 1] ELSE u[j]
    BY Zenon, MoveOf
  <2> HIDE DEF m
  <2>3. ASSUME NEW i \in 1..Len(u), NEW j \in 1..Len(u), m[i] = m[j]
        PROVE  i = j
    <3> DEFINE From(n) == IF n = 1 THEN k ELSE IF n <= k THEN n - 1 ELSE n
    <3>1. From(i) \in 1..Len(u) /\ From(j) \in 1..Len(u)
      OBVIOUS
    <3>2. m[i] = u[From(i)] /\ m[j] = u[From(j)]
      BY Zenon, <2>2
    <3>3. From(i) = From(j)
      <4>1. \A a, b \in 1..Len(u) : u[a] = u[b] => a = b
        BY DEF Once
      <4> HIDE DEF From
      <4> QED
        BY ONLY Zenon, <2>3, <3>1, <3>2, <4>1
    <3>4. i \in Nat /\ j \in Nat /\ k \in Nat
      OBVIOUS
    <3> QED
      BY ONLY <3>3, <3>4
  <2>4. Once(m)
    BY <2>2, <2>3 DEF Once
  <2> QED
    BY Zenon, <2>1, <2>2, <2>4
<1>2. CASE \A k \in 1..Len(u) : u[k] # s
  <2> DEFINE m == <<s>> \o u
  <2>1. ToFront(u, s) = m
    BY Zenon, <1>2, FrontNew
  <2>2. m \in Seq(Step) /\ Len(m) = Len(u) + 1
        /\ \A j \in 1..Len(u) + 1 : m[j] = IF j = 1 THEN s ELSE u[j - 1]
    BY Zenon, PushOf
  <2> HIDE DEF m
  <2>3. ASSUME NEW a \in 1..Len(m), NEW b \in 1..Len(m), m[a] = m[b]
        PROVE  a = b
    <3>1. \A j \in 1..Len(m) : j # 1 => j - 1 \in 1..Len(u) /\ m[j] = u[j - 1] /\ m[j] # s
      BY <1>2, <2>2
    <3>2. CASE a = 1 \/ b = 1
      BY Zenon, <2>2, <2>3, <3>1, <3>2
    <3>3. CASE a # 1 /\ b # 1
      <4>1. \A x, y \in 1..Len(u) : u[x] = u[y] => x = y
        BY DEF Once
      <4>2. a - 1 \in 1..Len(u) /\ b - 1 \in 1..Len(u) /\ u[a - 1] = u[b - 1]
        BY Zenon, <2>3, <3>1, <3>3
      <4>3. a - 1 = b - 1
        BY ONLY Zenon, <4>1, <4>2
      <4> QED
        BY <4>3
    <3> QED
      BY Zenon, <3>2, <3>3
  <2>4. Once(m)
    BY <2>2, <2>3 DEF Once
  <2> QED
    BY Zenon, <2>1, <2>2, <2>4
<1> QED
  BY Zenon, <1>1, <1>2

\* A hit: the cache and the history move the event to the front alike.
LEMMA HitRecent ==
    ASSUME NEW u \in Seq(Step), Once(u), NEW k \in 1..Len(Recent(u))
    PROVE  ToFront(Recent(u), Recent(u)[k]) = Recent(ToFront(u, Recent(u)[k]))
<1> DEFINE c == Recent(u)
           cm == MoveToFront(c, k)
           um == MoveToFront(u, k)
           rm == Recent(um)
<1>1. /\ c \in Seq(Step) /\ Len(c) = IF Len(u) < CacheSize THEN Len(u) ELSE CacheSize
      /\ \A j \in 1..Len(c) : c[j] = u[j]
  BY Zenon, RecentOf
<1> HIDE DEF c
<1>2. k \in 1..Len(c) /\ k \in 1..Len(u) /\ c[k] = u[k] /\ Len(c) <= Len(u)
  BY <1>1, CacheAssumption DEF c
<1>3. Once(c)
  BY <1>1, <1>2 DEF Once
<1>4. ToFront(c, c[k]) = cm /\ ToFront(u, u[k]) = um
  BY Zenon, <1>1, <1>2, <1>3, FrontOf
<1>5. /\ cm \in Seq(Step) /\ Len(cm) = Len(c)
      /\ \A j \in 1..Len(c) : cm[j] = IF j = 1 THEN c[k] ELSE IF j <= k THEN c[j - 1] ELSE c[j]
  BY <1>1, <1>2, MoveOf
<1>6. /\ um \in Seq(Step) /\ Len(um) = Len(u)
      /\ \A j \in 1..Len(u) : um[j] = IF j = 1 THEN u[k] ELSE IF j <= k THEN u[j - 1] ELSE u[j]
  BY Zenon, <1>2, MoveOf
<1> HIDE DEF cm, um
<1>7. /\ rm \in Seq(Step) /\ Len(rm) = IF Len(um) < CacheSize THEN Len(um) ELSE CacheSize
      /\ \A j \in 1..Len(rm) : rm[j] = um[j]
  BY Zenon, <1>6, RecentOf
<1> HIDE DEF rm
<1>8. Len(rm) = Len(cm)
  BY Zenon, <1>1, <1>5, <1>6, <1>7
<1>9. ASSUME NEW j \in 1..Len(cm)
      PROVE  cm[j] = rm[j]
  <2>1. j \in 1..Len(c) /\ j \in 1..Len(u) /\ (j # 1 => j - 1 \in 1..Len(c))
    BY <1>1, <1>2, <1>5
  <2>2. rm[j] = IF j = 1 THEN u[k] ELSE IF j <= k THEN u[j - 1] ELSE u[j]
    BY ONLY Zenon, <1>6, <1>7, <1>8, <1>9, <2>1
  <2>3. cm[j] = IF j = 1 THEN c[k] ELSE IF j <= k THEN c[j - 1] ELSE c[j]
    BY ONLY Zenon, <1>5, <2>1
  <2>4. c[j] = u[j] /\ (j # 1 => c[j - 1] = u[j - 1])
    BY ONLY Zenon, <1>1, <2>1
  <2> QED
    BY ONLY Zenon, <1>2, <2>2, <2>3, <2>4
<1>10. cm = rm
  BY Zenon, <1>5, <1>7, <1>8, <1>9, SameSeq
<1> QED
  BY Zenon, <1>2, <1>4, <1>10 DEF c, rm

\* A miss: the event goes to the front, and what the cache has no room for is the
\* last of its entries.
LEMMA MissRecent ==
    ASSUME NEW u \in Seq(Step), Once(u), NEW s \in Step,
           \A k \in 1..Len(Recent(u)) : Recent(u)[k] # s
    PROVE  <<s>> \o (IF Len(Recent(u)) >= CacheSize
                     THEN SubSeq(Recent(u), 1, Len(Recent(u)) - 1) ELSE Recent(u))
              = Recent(ToFront(u, s))
<1> DEFINE c == Recent(u)
           e == IF Len(c) >= CacheSize THEN SubSeq(c, 1, Len(c) - 1) ELSE c
           p == <<s>> \o e
           f == ToFront(u, s)
           r == Recent(f)
<1>1. /\ c \in Seq(Step) /\ Len(c) = IF Len(u) < CacheSize THEN Len(u) ELSE CacheSize
      /\ \A j \in 1..Len(c) : c[j] = u[j]
  BY Zenon, RecentOf
<1>2. \A j \in 1..Len(c) : u[j] # s
  BY Zenon, <1>1
<1> HIDE DEF c
<1>3. /\ e \in Seq(Step)
      /\ Len(e) = IF Len(u) < CacheSize THEN Len(u) ELSE CacheSize - 1
      /\ \A j \in 1..Len(e) : e[j] = u[j]
  <2>1. CASE Len(c) >= CacheSize
    <3>1. \A j \in 1..Len(c) - 1 : c[j] \in Step
      BY <1>1
    <3>2. Len(c) = CacheSize /\ Len(c) - 1 \in Nat
      BY <1>1, <2>1, CacheAssumption
    <3>3. /\ SubSeq(c, 1, Len(c) - 1) \in Seq(Step)
          /\ Len(SubSeq(c, 1, Len(c) - 1)) = Len(c) - 1
          /\ \A j \in 1..Len(c) - 1 : SubSeq(c, 1, Len(c) - 1)[j] = c[j]
      BY <3>1, <3>2, BeginningOf
    <3>4. e = SubSeq(c, 1, Len(c) - 1)
      BY Zenon, <2>1
    <3> HIDE DEF e
    <3> QED
      BY <1>1, <2>1, <3>2, <3>3, <3>4
  <2>2. CASE ~(Len(c) >= CacheSize)
    BY <1>1, <2>2, CacheAssumption
  <2> QED
    BY Zenon, <2>1, <2>2
<1> HIDE DEF e
<1>4. /\ p \in Seq(Step) /\ Len(p) = Len(e) + 1
      /\ \A j \in 1..Len(e) + 1 : p[j] = IF j = 1 THEN s ELSE e[j - 1]
  BY Zenon, <1>3, PushOf
<1>5. f \in Seq(Step)
  BY Zenon, FrontOnce
<1> HIDE DEF p
<1>6. /\ (IF Len(f) < CacheSize THEN Len(f) ELSE CacheSize) = Len(p)
      /\ \A j \in 1..Len(p) : f[j] = IF j = 1 THEN s ELSE u[j - 1]
  <2>1. CASE \A k \in 1..Len(u) : u[k] # s
    <3>1. f = <<s>> \o u
      BY Zenon, <2>1, FrontNew
    <3>2. /\ Len(f) = Len(u) + 1
          /\ \A j \in 1..Len(u) + 1 : f[j] = IF j = 1 THEN s ELSE u[j - 1]
      BY <3>1, PushOf
    <3> HIDE DEF f
    <3> QED
      BY <1>3, <1>4, <3>2, CacheAssumption
  <2>2. CASE \E k \in 1..Len(u) : u[k] = s
    <3>1. PICK k \in 1..Len(u) : u[k] = s
      BY Zenon, <2>2
    <3>2. f = MoveToFront(u, k)
      BY Zenon, <3>1, FrontOf
    <3>3. k > Len(c)
      BY <1>1, <1>2, <3>1
    <3>4. CacheSize < k /\ CacheSize < Len(u) /\ Len(p) = CacheSize
      BY <1>1, <1>3, <1>4, <3>3, CacheAssumption
    <3>5. /\ Len(f) = Len(u)
          /\ \A j \in 1..Len(u) : f[j] = IF j = 1 THEN u[k] ELSE IF j <= k THEN u[j - 1] ELSE u[j]
      BY <3>2, MoveOf
    <3> HIDE DEF f
    <3> QED
      BY <3>1, <3>4, <3>5, CacheAssumption
  <2> QED
    BY Zenon, <2>1, <2>2
<1> HIDE DEF f
<1>7. /\ r \in Seq(Step) /\ Len(r) = IF Len(f) < CacheSize THEN Len(f) ELSE CacheSize
      /\ \A j \in 1..Len(r) : r[j] = f[j]
  BY Zenon, <1>5, RecentOf
<1> HIDE DEF r
<1>8. Len(p) = Len(r)
  BY <1>6, <1>7
<1>9. ASSUME NEW j \in 1..Len(p)
      PROVE  p[j] = r[j]
  <2>1. j \in 1..Len(e) + 1 /\ (j # 1 => j - 1 \in 1..Len(e))
    BY <1>3, <1>4
  <2> QED
    BY ONLY <1>3, <1>4, <1>6, <1>7, <1>8, <1>9, <2>1
<1>10. p = r
  BY Zenon, <1>4, <1>7, <1>8, <1>9, SameSeq
<1> QED
  BY Zenon, <1>10 DEF p, e, c, r, f

\* A use of an event that the cache and the history record alike.
LEMMA CacheUse ==
    ASSUME CacheInvariant, NEW i \in Instance, NEW s \in Step,
           used' = [used EXCEPT ![i] = ToFront(used[i], s)],
           cache' = [cache EXCEPT ![i] = Recent(ToFront(used[i], s))]
    PROVE  CacheInvariant'
<1> DEFINE u == ToFront(used[i], s)
<1>1. used[i] \in Seq(Step) /\ Once(used[i])
  BY Zenon DEF CacheInvariant
<1>2. u \in Seq(Step) /\ Once(u)
  BY Zenon, <1>1, FrontOnce
<1> HIDE DEF u
<1>3. Recent(u) \in Seq(Step)
  BY Zenon, <1>2, RecentOf
<1>4. used' = [used EXCEPT ![i] = u] /\ cache' = [cache EXCEPT ![i] = Recent(u)]
  BY Zenon DEF u
<1>5. cache' \in [Instance -> Seq(Step)] /\ used' \in [Instance -> Seq(Step)]
  BY Zenon, <1>2, <1>3, <1>4 DEF CacheInvariant
<1>6. ASSUME NEW k \in Instance
      PROVE  Once(used'[k]) /\ cache'[k] = Recent(used'[k])
  <2>1. Once(used[k]) /\ cache[k] = Recent(used[k])
    BY Zenon DEF CacheInvariant, CacheIsRecent, Recent
  <2> QED
    BY Zenon, <1>2, <1>4, <2>1 DEF CacheInvariant
<1>7. CacheIsRecent'
  BY Zenon, <1>6 DEF CacheIsRecent, Recent
<1> QED
  BY Zenon, <1>5, <1>6, <1>7 DEF CacheInvariant, Once

\* Has moves an event it finds to the front.
LEMMA CacheHit ==
    ASSUME CacheInvariant, NEW i \in Instance, NEW s \in Step, Has(i, s),
           used' = [used EXCEPT ![i] = ToFront(used[i], s)],
           cache' = [cache EXCEPT ![i] = ToFront(cache[i], s)]
    PROVE  CacheInvariant'
<1>1. used[i] \in Seq(Step) /\ Once(used[i]) /\ cache[i] = Recent(used[i])
  BY Zenon DEF CacheInvariant, CacheIsRecent, Recent
<1>2. PICK k \in DOMAIN cache[i] : cache[i][k] = s
  BY Zenon DEF Has
<1>3. k \in 1..Len(Recent(used[i]))
  BY <1>1, <1>2, RecentOf
<1>4. ToFront(cache[i], s) = Recent(ToFront(used[i], s))
  BY Zenon, <1>1, <1>2, <1>3, HitRecent
<1> QED
  BY Zenon, <1>4, CacheUse

\* Add puts a new event at the front, and evicts the last one of a full cache.
LEMMA CacheAdd ==
    ASSUME CacheInvariant, NEW i \in Instance, NEW s \in Step, Add(i, s)
    PROVE  CacheInvariant'
<1>1. CASE Has(i, s)
  BY Zenon, <1>1 DEF Add, CacheInvariant, CacheIsRecent, Once
<1>2. CASE ~Has(i, s)
  <2>1. used[i] \in Seq(Step) /\ Once(used[i]) /\ cache[i] = Recent(used[i])
    BY Zenon DEF CacheInvariant, CacheIsRecent, Recent
  <2>2. \A k \in 1..Len(Recent(used[i])) : Recent(used[i])[k] # s
    BY <1>2, <2>1, RecentOf DEF Has
  <2>3. /\ used' = [used EXCEPT ![i] = ToFront(used[i], s)]
        /\ cache' = [cache EXCEPT ![i] =
                       <<s>> \o (IF Len(cache[i]) >= CacheSize
                                 THEN SubSeq(cache[i], 1, Len(cache[i]) - 1) ELSE cache[i])]
    BY Zenon, <1>2 DEF Add
  <2>4. <<s>> \o (IF Len(cache[i]) >= CacheSize
                  THEN SubSeq(cache[i], 1, Len(cache[i]) - 1) ELSE cache[i])
           = Recent(ToFront(used[i], s))
    BY Zenon, <2>1, <2>2, MissRecent
  <2> QED
    BY Zenon, <2>3, <2>4, CacheUse
<1> QED
  BY Zenon, <1>1, <1>2

\* Every step keeps the invariant of the cache.
LEMMA CacheKept ==
    ASSUME CacheInvariant, [Next]_edgeVars
    PROVE  CacheInvariant'
<1>1. CASE UNCHANGED <<cache, used>>
  BY Zenon, <1>1 DEF CacheInvariant, CacheIsRecent, Once
<1>2. ASSUME NEW i \in Instance, NEW d \in Delivery, DispatchStep(i, d)
      PROVE  CacheInvariant'
  <2>1. d[1] \in Step
    BY Zenon DEF Delivery
  <2>2. CASE LookUp(i, d)
    BY Zenon, <1>1, <2>1, <2>2, CacheHit DEF LookUp
  <2>3. CASE Finish(i, d)
    BY Zenon, <2>1, <2>3, CacheAdd DEF Finish
  <2> QED
    BY Zenon, <1>1, <1>2, <2>2, <2>3 DEF DispatchStep
<1>3. CASE SidecarProcess
  BY Zenon, <1>1, <1>2, <1>3
     DEF SidecarProcess, StartStep, HealthPing, StopStep, Registration, ManagerStep, Connection,
         HandlePublish
<1>4. CASE Gateway
  BY Zenon, <1>1, <1>4 DEF Gateway, CreateTask, sdkVars
<1>5. CASE Engine
  BY Zenon, <1>1, <1>5 DEF Engine, StartWorkflow, StepResult, StepTimeout, Decide, sdkVars
<1> QED
  BY Zenon, <1>1, <1>3, <1>4, <1>5 DEF Next, edgeVars, sdkVars

-----------------------------------------------------------------------------
(* What a client is told of a task stands *)

\* A write to an entry that is not terminal: nobody was told an end of it.
LEMMA PutStands ==
    ASSUME TaskInvariant, NEW w \in Workflow, status[w] \notin Terminal, NEW s \in Status,
           Put(w, s), UNCHANGED <<told, results>>
    PROVE  TaskInvariant'
BY Zenon DEF TaskInvariant, Put, Stands, Status, Terminal

\* Every step keeps the invariant of the store.
LEMMA TaskKept ==
    ASSUME TaskInvariant, [Next]_edgeVars
    PROVE  TaskInvariant'
<1>1. CASE UNCHANGED <<status, told, fresh, results>>
  BY Zenon, <1>1 DEF TaskInvariant, Stands
<1>2. ASSUME NEW t \in LocalTask, NEW w \in Workflow, StartWorkflow(t, w)
      PROVE  TaskInvariant'
  <2>1. PICK s \in {"running", "failed"} : Put(w, s)
    BY Zenon, <1>2 DEF StartWorkflow
  <2> QED
    BY Zenon, <1>2, <2>1, PutStands DEF StartWorkflow, IsNext, Status, Terminal
<1>3. ASSUME NEW w \in Workflow, NEW s \in Terminal, Decide(w, s)
      PROVE  TaskInvariant'
  BY Zenon, <1>3, PutStands DEF Decide, Status, Terminal, sdkVars
<1>4. ASSUME NEW w \in Workflow, GetTask(w), UNCHANGED results
      PROVE  TaskInvariant'
  BY Zenon, <1>4 DEF GetTask, Found, WorkflowStatusToTaskStatus, TaskInvariant, Stands, Status, Terminal
<1>5. ASSUME NEW w \in Workflow, CancelRead(w), UNCHANGED results
      PROVE  TaskInvariant'
  BY Zenon, <1>5 DEF CancelRead, Found, TaskInvariant, Stands, Status, Terminal
<1>6. ASSUME NEW w \in Workflow, CancelWrite(w), UNCHANGED results
      PROVE  TaskInvariant'
  BY <1>6 DEF CancelWrite, Put, TaskInvariant, Stands, Status, Terminal
<1>7. CASE SidecarProcess
  <2>1. UNCHANGED <<status, told, fresh>>
    BY Zenon, <1>7 DEF SidecarProcess, taskVars
  <2>2. ASSUME NEW s \in Step, NEW v, results' = results \cup {[step |-> s, value |-> v]}
        PROVE  TaskInvariant'
    BY <2>1, <2>2, StepAssumption DEF TaskInvariant, Stands
  <2>3. ASSUME NEW i \in Instance, NEW d \in Delivery, DispatchStep(i, d)
        PROVE  TaskInvariant'
    <3>1. d[1] \in Step
      BY Zenon DEF Delivery
    <3> QED
      BY Zenon, <1>1, <2>1, <2>2, <2>3, <3>1 DEF DispatchStep, PublishStepResult
  <2>4. ASSUME NEW c \in Client, NEW s \in Step, HandlePublish(c, s)
        PROVE  TaskInvariant'
    BY Zenon, <2>2, <2>4 DEF HandlePublish
  <2>5. CASE UNCHANGED results
    BY Zenon, <1>1, <2>1, <2>5
  <2> QED
    BY Zenon, <1>7, <2>3, <2>4, <2>5
       DEF SidecarProcess, StartStep, HealthPing, StopStep, Registration, ManagerStep, Connection
<1>8. CASE Gateway
  BY Zenon, <1>1, <1>4, <1>5, <1>6, <1>8
     DEF Gateway, CreateTask, CreateBaranWorkflow, TaskStep, DispatchToVirtualAgent,
         PollUntilTerminal, PollEnds, RemoteEnds, sdkVars
<1>9. CASE Engine
  <2>1. ASSUME NEW r \in results, StepResult(r)
        PROVE  TaskInvariant'
    BY Zenon, <1>3, <2>1 DEF StepResult, TaskInvariant, Terminal
  <2> QED
    BY Zenon, <1>2, <1>3, <1>9, <2>1 DEF Engine, StepTimeout, Terminal
<1> QED
  BY Zenon, <1>1, <1>7, <1>8, <1>9 DEF Next, edgeVars, taskVars, sdkVars

\* No step takes back what was told before it.
LEMMA ToldStands ==
    ASSUME TaskInvariant, [Next]_edgeVars, NEW w \in Workflow
    PROVE  Stands(told[w], status'[w])
<1>1. CASE UNCHANGED told
  <2>1. TaskInvariant'
    BY Zenon, TaskKept
  <2>2. Stands(told'[w], status'[w])
    BY Zenon, <2>1 DEF TaskInvariant, Stands
  <2> QED
    BY Zenon, <1>1, <2>2 DEF Stands
<1>2. CASE UNCHANGED status
  BY Zenon, <1>2 DEF TaskInvariant, Stands
<1>3. ASSUME NEW u \in Workflow, CancelWrite(u)
      PROVE  Stands(told[w], status'[w])
  BY Zenon, <1>3 DEF CancelWrite, Put, TaskInvariant, Stands
<1>4. CASE SidecarProcess
  BY Zenon, <1>1, <1>4 DEF SidecarProcess, taskVars
<1>5. CASE Gateway
  BY Zenon, <1>2, <1>3, <1>5
     DEF Gateway, CreateTask, CreateBaranWorkflow, TaskStep, DispatchToVirtualAgent,
         PollUntilTerminal, PollEnds, RemoteEnds, GetTask, CancelRead
<1>6. CASE Engine
  BY Zenon, <1>1, <1>6 DEF Engine, StartWorkflow, StepResult, StepTimeout, Decide
<1> QED
  BY Zenon, <1>1, <1>4, <1>5, <1>6 DEF Next, edgeVars, taskVars

-----------------------------------------------------------------------------
(* Deliveries and what the cache remembers of them *)

\* Steps that leave the deliveries and the cache alone, take no instance back and
\* forget no workflow.
LEMMA HandledFrame ==
    ASSUME HandledInvariant, UNCHANGED <<job, cache, direct>>,
           subscribed' \in [Instance -> SUBSET {"health", "direct"}],
           \A i \in Instance : phase'[i] \in Early =>
               phase[i] \in Early /\ ("direct" \in subscribed'[i] => "direct" \in subscribed[i]),
           \A w \in Workflow : status'[w] = "none" => status[w] = "none"
    PROVE  HandledInvariant'
<1>1. NothingYet'
  BY Zenon DEF HandledInvariant, NothingYet
<1>2. NotDispatched'
  BY Zenon DEF HandledInvariant, NotDispatched
<1>3. CachedWasHandled' /\ SkippedWasHandled'
  BY DEF HandledInvariant, CachedWasHandled, Handled, SkippedWasHandled
<1> QED
  BY Zenon, <1>1, <1>2, <1>3 DEF HandledInvariant

\* The consumer is made before anything was handled.
LEMMA HandledSubscribe ==
    ASSUME DrainInvariant, CacheInvariant, HandledInvariant, NEW i \in Instance,
           SubscribeDirect(i), UNCHANGED <<cache, direct, status>>
    PROVE  HandledInvariant'
<1>1. cache[i] = <<>> /\ phase[i] = "direct" /\ phase' = [phase EXCEPT ![i] = "run"]
  BY Zenon DEF HandledInvariant, NothingYet, SubscribeDirect, Goto, Early
<1>2. \A j \in Instance \ {i} :
         phase'[j] = phase[j] /\ subscribed'[j] = subscribed[j] /\ job'[j] = job[j]
  BY Zenon DEF SubscribeDirect, Goto, DrainInvariant, HandledInvariant
<1>3. \A d \in Delivery :
         job'[i][d] = IF d[1] \in direct /\ d[2] = 1 THEN "unread" ELSE "none"
  BY Zenon DEF SubscribeDirect, DrainInvariant
<1>4. subscribed' \in [Instance -> SUBSET {"health", "direct"}]
  BY Zenon DEF SubscribeDirect, HandledInvariant
<1>5. NothingYet'
  BY <1>1, <1>2 DEF HandledInvariant, NothingYet, DrainInvariant, Early
<1>6. NotDispatched'
  <2> SUFFICES ASSUME NEW w \in Workflow, status[w] = "none"
               PROVE  \A j \in Instance, k \in {1, 2} : job'[j][<<w, k>>] = "none"
    BY Zenon DEF HandledInvariant, NotDispatched
  <2>1. w \notin direct /\ \A j \in Instance, k \in {1, 2} : job[j][<<w, k>>] = "none"
    BY Zenon DEF HandledInvariant, NotDispatched
  <2>2. \A k \in {1, 2} : <<w, k>> \in Delivery
    BY Zenon, StepAssumption DEF Delivery
  <2> QED
    <3> SUFFICES ASSUME NEW j \in Instance, NEW k \in {1, 2}
                 PROVE  job'[j][<<w, k>>] = "none"
      BY Zenon
    <3>1. <<w, k>>[1] = w
      BY Zenon
    <3>2. CASE j = i
      BY ONLY Zenon, <1>3, <2>1, <2>2, <3>1, <3>2, k \in {1, 2}
    <3>3. CASE j # i
      BY ONLY <1>2, <2>1, <3>3, j \in Instance, k \in {1, 2}
    <3> QED
      BY Zenon, <3>2, <3>3
<1>7. CachedWasHandled'
  <2> SUFFICES ASSUME NEW j \in Instance, NEW k \in DOMAIN cache[j]
               PROVE  \E q \in {1, 2} : job'[j][<<cache[j][k], q>>] = "done"
    BY Zenon DEF CachedWasHandled, Handled
  <2>1. j # i
    BY ONLY <1>1, k \in DOMAIN cache[j]
  <2>2. Handled(j, cache[j][k])
    BY Zenon DEF HandledInvariant, CachedWasHandled
  <2> QED
    BY ONLY Zenon, <1>2, <2>1, <2>2, j \in Instance DEF Handled
<1>8. SkippedWasHandled'
  BY <1>2, <1>3 DEF HandledInvariant, SkippedWasHandled
<1> QED
  BY Zenon, <1>4, <1>5, <1>6, <1>7, <1>8 DEF HandledInvariant

\* A delivery that is not at its end goes on: to the end as the cache learns of it,
\* or to be skipped when the event was handled.
LEMMA HandledBecome ==
    ASSUME DrainInvariant, CacheInvariant, HandledInvariant,
           NEW i \in Instance, NEW e \in Delivery, NEW j, Become(i, e, j),
           job[i][e] # "done",
           \E k \in {1, 2} : job[i][<<e[1], k>>] # "none",
           j = "skipped" => Handled(i, e[1]),
           \A n \in Instance \ {i} : cache'[n] = cache[n],
           \A k \in DOMAIN cache'[i] :
               \/ \E m \in DOMAIN cache[i] : cache'[i][k] = cache[i][m]
               \/ cache'[i][k] = e[1] /\ j = "done",
           UNCHANGED <<phase, subscribed, direct, status>>
    PROVE  HandledInvariant'
<1>1. /\ \A n \in Instance \ {i} : job'[n] = job[n]
      /\ \A d \in Delivery : job'[i][d] = IF d = e THEN j ELSE job[i][d]
  BY ONLY Zenon, DrainInvariant, Become(i, e, j), i \in Instance, e \in Delivery DEF Become, DrainInvariant
<1>2. e[1] \in Step /\ e = <<e[1], e[2]>> /\ e[2] \in {1, 2}
  BY ONLY e \in Delivery DEF Delivery
<1>3. \A s \in Step, k \in {1, 2} : <<s, k>> \in Delivery
  BY ONLY Zenon DEF Delivery
<1>4. \A s \in Step : Handled(i, s) => Handled(i, s)'
  BY Zenon, <1>1, <1>3 DEF Handled
<1>5. NothingYet'
  <2>1. phase[i] \notin Early
    BY Zenon, <1>2, <1>3 DEF HandledInvariant, NothingYet
  <2>2. NothingYet /\ phase' = phase /\ subscribed' = subscribed
    BY Zenon DEF HandledInvariant
  <2>3. \A n \in Instance \ {i} : cache'[n] = cache[n] /\ job'[n] = job[n]
    BY Zenon, <1>1
  <2> QED
    BY ONLY Zenon, <2>1, <2>2, <2>3 DEF NothingYet
<1>6. NotDispatched'
  <2>1. ASSUME NEW w \in Workflow, status[w] = "none"
        PROVE  w # e[1]
    <3>1. \A k \in {1, 2} : job[i][<<w, k>>] = "none"
      BY Zenon, <2>1 DEF HandledInvariant, NotDispatched
    <3> QED
      BY ONLY <3>1, \E k \in {1, 2} : job[i][<<e[1], k>>] # "none"
  <2>2. \A w \in Workflow, k \in {1, 2} : w # e[1] => <<w, k>> # e
    BY <1>2
  <2>3. \A w \in Workflow, k \in {1, 2} : <<w, k>> \in Delivery
    BY Zenon, <1>3, StepAssumption
  <2> QED
    <3> SUFFICES ASSUME NEW w \in Workflow, status[w] = "none",
                        NEW n \in Instance, NEW k \in {1, 2}
                 PROVE  w \notin direct /\ job'[n][<<w, k>>] = "none"
      BY Zenon DEF NotDispatched
    <3>1. w \notin direct /\ job[n][<<w, k>>] = "none"
      BY Zenon DEF HandledInvariant, NotDispatched
    <3>2. <<w, k>> # e /\ <<w, k>> \in Delivery
      <4>1. w # e[1]
        BY Zenon, <2>1
      <4> QED  BY ONLY Zenon, <2>2, <2>3, <4>1, w \in Workflow, k \in {1, 2}
    <3> QED
      BY ONLY Zenon, <1>1, <3>1, <3>2, i \in Instance, n \in Instance
<1>7. CachedWasHandled'
  <2> SUFFICES ASSUME NEW n \in Instance, NEW k \in DOMAIN cache'[n]
               PROVE  \E q \in {1, 2} : job'[n][<<cache'[n][k], q>>] = "done"
    BY Zenon DEF CachedWasHandled, Handled
  <2>1. CASE n # i
    <3>1. cache'[n] = cache[n] /\ job'[n] = job[n]
      BY Zenon, <1>1, <2>1
    <3>2. \A m \in DOMAIN cache[n] : Handled(n, cache[n][m])
      BY Zenon DEF HandledInvariant, CachedWasHandled
    <3> QED
      BY ONLY Zenon, <3>1, <3>2, k \in DOMAIN cache'[n] DEF Handled
  <2>2. ASSUME n = i, NEW m \in DOMAIN cache[i], cache'[i][k] = cache[i][m]
        PROVE  \E q \in {1, 2} : job'[n][<<cache'[n][k], q>>] = "done"
    <3>1. cache[i][m] \in Step
      BY ONLY CacheInvariant, i \in Instance, m \in DOMAIN cache[i] DEF CacheInvariant
    <3>2. Handled(i, cache[i][m])
      BY Zenon DEF HandledInvariant, CachedWasHandled
    <3>3. \E q \in {1, 2} : job'[i][<<cache[i][m], q>>] = "done"
      BY ONLY Zenon, <1>4, <3>1, <3>2 DEF Handled
    <3> QED
      BY Zenon, <2>2, <3>3 DEF Handled
  <2>3. CASE n = i /\ cache'[i][k] = e[1] /\ j = "done"
    BY <1>1, <1>2, <2>3 DEF Handled
  <2> QED
    BY Zenon, <2>1, <2>2, <2>3
<1>8. SkippedWasHandled'
  <2> SUFFICES ASSUME NEW n \in Instance, NEW d \in Delivery, job'[n][d] = "skipped"
               PROVE  \E k \in {1, 2} : job'[n][<<d[1], k>>] = "done"
    BY Zenon DEF SkippedWasHandled
  <2>0. SkippedWasHandled
    BY Zenon DEF HandledInvariant
  <2>1. CASE n # i
    BY ONLY <1>1, <2>0, <2>1, n \in Instance, d \in Delivery, job'[n][d] = "skipped"
       DEF SkippedWasHandled
  <2>2. CASE n = i
    <3>0. (d = e /\ j = "skipped") \/ job[i][d] = "skipped"
      BY Zenon, <1>1, <2>2
    <3>1. Handled(i, d[1])
      BY ONLY Zenon, <2>0, <3>0, i \in Instance, d \in Delivery, j = "skipped" => Handled(i, e[1])
         DEF SkippedWasHandled, Handled
    <3>2. d[1] \in Step
      BY Zenon DEF Delivery
    <3> QED
      BY Zenon, <1>4, <2>2, <3>1, <3>2 DEF Handled
  <2> QED
    BY Zenon, <2>1, <2>2
<1> QED
  BY Zenon, <1>5, <1>6, <1>7, <1>8 DEF HandledInvariant

\* The entries of the cache after a hit were there before.
LEMMA HitEntries ==
    ASSUME CacheInvariant, NEW i \in Instance, NEW s \in Step, Has(i, s),
           NEW k \in DOMAIN ToFront(cache[i], s)
    PROVE  \E m \in DOMAIN cache[i] : ToFront(cache[i], s)[k] = cache[i][m]
<1> DEFINE c == cache[i]
<1>1. c \in Seq(Step)
  BY Zenon DEF CacheInvariant
<1>2. PICK p \in DOMAIN c : ToFront(c, s) = MoveToFront(c, p)
  BY Zenon DEF Has, ToFront
<1>3. p \in 1..Len(c)
  BY ONLY <1>1, p \in DOMAIN c
<1>4. /\ Len(MoveToFront(c, p)) = Len(c) /\ MoveToFront(c, p) \in Seq(Step)
      /\ \A j \in 1..Len(c) :
            MoveToFront(c, p)[j] = IF j = 1 THEN c[p] ELSE IF j <= p THEN c[j - 1] ELSE c[j]
  BY Zenon, <1>1, <1>3, MoveOf
<1>5. k \in 1..Len(c)
  BY <1>2, <1>4
<1> HIDE DEF c
<1>6. \E m \in 1..Len(c) : MoveToFront(c, p)[k] = c[m]
  BY <1>3, <1>4, <1>5
<1> QED
  BY <1>1, <1>2, <1>6 DEF c

\* After Add they were there before, or are the new one.
LEMMA AddEntries ==
    ASSUME CacheInvariant, NEW i \in Instance, NEW s \in Step, Add(i, s), NEW k \in DOMAIN cache'[i]
    PROVE  cache'[i][k] = s \/ \E m \in DOMAIN cache[i] : cache'[i][k] = cache[i][m]
<1> DEFINE c == cache[i]
           e == IF Len(c) >= CacheSize THEN SubSeq(c, 1, Len(c) - 1) ELSE c
<1>1. CASE UNCHANGED cache
  BY Zenon, <1>1
<1>2. CASE ~Has(i, s)
  <2>1. c \in Seq(Step) /\ Len(c) \in Nat /\ DOMAIN c = 1..Len(c)
    BY DEF CacheInvariant
  <2>2. cache'[i] = <<s>> \o e
    BY Zenon, <1>2 DEF Add, CacheInvariant
  <2> HIDE DEF c
  <2>3. e \in Seq(Step) /\ Len(e) <= Len(c) /\ \A j \in 1..Len(e) : e[j] = c[j]
    <3>1. CASE Len(c) >= CacheSize
      <4>1. Len(c) - 1 \in Nat /\ \A j \in 1..Len(c) - 1 : c[j] \in Step
        BY <2>1, <3>1, CacheAssumption
      <4> QED
        BY <2>1, <3>1, <4>1, BeginningOf
    <3>2. CASE ~(Len(c) >= CacheSize)
      BY <2>1, <3>2
    <3> QED
      BY Zenon, <3>1, <3>2
  <2> HIDE DEF e
  <2>4. /\ Len(<<s>> \o e) = Len(e) + 1 /\ <<s>> \o e \in Seq(Step)
        /\ \A j \in 1..Len(e) + 1 : (<<s>> \o e)[j] = IF j = 1 THEN s ELSE e[j - 1]
    BY Zenon, <2>3, PushOf
  <2>5. k \in 1..Len(e) + 1
    BY <2>2, <2>4
  <2>6. CASE k = 1
    BY Zenon, <2>2, <2>4, <2>5, <2>6
  <2>7. CASE k # 1
    <3>1. k - 1 \in 1..Len(e) /\ k - 1 \in 1..Len(c)
      BY <2>1, <2>3, <2>5, <2>7
    <3>2. cache'[i][k] = c[k - 1]
      BY Zenon, <2>2, <2>3, <2>4, <2>5, <2>7, <3>1
    <3> QED
      BY Zenon, <2>1, <3>1, <3>2 DEF c
  <2> QED
    BY Zenon, <2>6, <2>7
<1> QED
  BY Zenon, <1>1, <1>2 DEF Add

\* The dispatcher.
LEMMA HandledDispatch ==
    ASSUME DrainInvariant, CacheInvariant, HandledInvariant, UNCHANGED status,
           NEW i \in Instance, NEW d \in Delivery, DispatchStep(i, d)
    PROVE  HandledInvariant'
<1>1. UNCHANGED <<phase, subscribed, direct>>
  BY Zenon DEF DispatchStep
<1>2. /\ d[1] \in Step /\ d[2] \in {1, 2} /\ d = <<d[1], d[2]>>
      /\ <<d[1], 1>> \in Delivery /\ <<d[1], 2>> \in Delivery
  BY DEF Delivery
<1>3. ASSUME NEW e \in Delivery, e[1] = d[1], NEW j, j # "skipped", Become(i, e, j),
             UNCHANGED cache, job[i][e] # "done", job[i][d] # "none"
      PROVE  HandledInvariant'
  <2>1. \E k \in {1, 2} : job[i][<<e[1], k>>] # "none"
    BY Zenon, <1>2, <1>3
  <2> QED
    BY Zenon, <1>1, <1>3, <2>1, HandledBecome
<1>4. CASE LookUp(i, d) /\ Has(i, d[1])
  <2>1. Become(i, d, "skipped") /\ cache' = [cache EXCEPT ![i] = ToFront(cache[i], d[1])]
        /\ job[i][d] = "unread"
    BY Zenon, <1>4 DEF LookUp
  <2>2. Handled(i, d[1])
    BY Zenon, <1>4 DEF Has, HandledInvariant, CachedWasHandled
  <2>3. cache'[i] = ToFront(cache[i], d[1]) /\ \A n \in Instance \ {i} : cache'[n] = cache[n]
    BY Zenon, <2>1 DEF CacheInvariant
  <2>4. \A k \in DOMAIN cache'[i] : \E m \in DOMAIN cache[i] : cache'[i][k] = cache[i][m]
    BY <1>2, <1>4, <2>3, HitEntries
  <2>5. \E k \in {1, 2} : job[i][<<d[1], k>>] # "none"
    BY Zenon, <1>2, <2>1
  <2> QED
    BY Zenon, <1>1, <2>1, <2>2, <2>3, <2>4, <2>5, HandledBecome
<1>5. CASE LookUp(i, d) /\ ~Has(i, d[1])
  BY Zenon, <1>3, <1>5 DEF LookUp
<1>6. CASE (Admit(i, d) \/ Spawn(i, d)) /\ UNCHANGED cache
  <2>1. PICK j \in {"refused", "added", "bare", "invoked"} : Become(i, d, j)
    BY Zenon, <1>6 DEF Admit, Spawn
  <2> QED
    BY Zenon, <1>3, <1>6, <2>1 DEF Admit, Spawn
<1>7. CASE PublishStepResult(i, d) /\ UNCHANGED cache
  BY Zenon, <1>3, <1>7 DEF PublishStepResult
<1>8. CASE UNCHANGED <<job, cache>>
  BY Zenon, <1>1, <1>8, HandledFrame DEF HandledInvariant
<1>9. CASE Finish(i, d)
  <2>1. Become(i, d, "done") /\ job[i][d] = "published" /\ Add(i, d[1])
    BY Zenon, <1>9 DEF Finish
  <2>2. \A n \in Instance \ {i} : cache'[n] = cache[n]
    BY Zenon, <2>1 DEF Add, CacheInvariant
  <2>3. \A k \in DOMAIN cache'[i] :
           cache'[i][k] = d[1] \/ \E m \in DOMAIN cache[i] : cache'[i][k] = cache[i][m]
    BY Zenon, <1>2, <2>1, AddEntries
  <2>4. \E k \in {1, 2} : job[i][<<d[1], k>>] # "none"
    BY Zenon, <1>2, <2>1
  <2> QED
    BY Zenon, <1>1, <2>1, <2>2, <2>3, <2>4, HandledBecome
<1>10. CASE Redeliver(i, d) /\ UNCHANGED cache
  <2>1. <<d[1], 2>> \in Delivery /\ <<d[1], 2>>[1] = d[1]
    BY Zenon, <1>2
  <2> QED
    BY Zenon, <1>3, <1>10, <2>1 DEF Redeliver
<1> QED
  BY Zenon, <1>4, <1>5, <1>6, <1>7, <1>8, <1>9, <1>10 DEF DispatchStep

\* A workflow that starts had no deliveries, so none that was handled is forgotten.
LEMMA HandledStartWorkflow ==
    ASSUME DrainInvariant, TaskInvariant, CacheInvariant, HandledInvariant,
           NEW t \in LocalTask, NEW w \in Workflow, StartWorkflow(t, w)
    PROVE  HandledInvariant'
<1>1. UNCHANGED <<phase, subscribed, cache>> /\ status[w] = "none"
  BY Zenon DEF StartWorkflow, IsNext
<1>2. status'[w] # "none" /\ \A u \in Workflow \ {w} : status'[u] = status[u]
  BY Zenon DEF StartWorkflow, Put, TaskInvariant
<1>3. CASE UNCHANGED <<job, direct>>
  <2>1. subscribed' \in [Instance -> SUBSET {"health", "direct"}]
    BY Zenon, <1>1 DEF HandledInvariant
  <2> QED
    BY Zenon, <1>1, <1>2, <1>3, <2>1, HandledFrame
<1>4. CASE DispatchDirect(w)
  <2>1. \A k \in {1, 2} : <<w, k>> \in Delivery
    BY Zenon, StepAssumption DEF Delivery
  <2>2. \A i \in Instance, k \in {1, 2} : job[i][<<w, k>>] = "none"
    BY Zenon, <1>1 DEF HandledInvariant, NotDispatched
  <2>3. \A i \in Instance :
           job'[i] = IF "direct" \in subscribed[i] THEN [job[i] EXCEPT ![<<w, 1>>] = "unread"]
                                                  ELSE job[i]
    BY Zenon, <1>4 DEF DispatchDirect
  <2>4. ASSUME NEW i \in Instance, NEW d \in Delivery
        PROVE  job'[i][d] = job[i][d] \/ (d = <<w, 1>> /\ job'[i][d] = "unread")
    <3>1. job[i] \in [Delivery -> Job]
      BY Zenon DEF DrainInvariant
    <3> QED
      BY Zenon, <2>1, <2>3, <3>1
  <2>5. \A u \in Workflow, k \in {1, 2} : <<u, k>> \in Delivery /\ (<<u, k>> = <<w, 1>> => u = w)
    BY Zenon, StepAssumption DEF Delivery
  <2>6. NothingYet'
    <3> SUFFICES ASSUME NEW i \in Instance, phase[i] \in Early
                 PROVE  /\ cache[i] = <<>> /\ "direct" \notin subscribed[i]
                        /\ \A d \in Delivery : job'[i][d] = "none"
      BY Zenon, <1>1 DEF NothingYet
    <3>1. /\ cache[i] = <<>> /\ "direct" \notin subscribed[i]
          /\ \A d \in Delivery : job[i][d] = "none"
      BY Zenon DEF HandledInvariant, NothingYet
    <3> QED
      BY Zenon, <2>3, <3>1
  <2>7. NotDispatched'
    <3> SUFFICES ASSUME NEW u \in Workflow, status'[u] = "none"
                 PROVE  /\ u \notin direct'
                        /\ \A i \in Instance, k \in {1, 2} : job'[i][<<u, k>>] = "none"
      BY Zenon DEF NotDispatched
    <3>1. u # w /\ status[u] = "none"
      BY Zenon, <1>2
    <3>2. u \notin direct /\ \A i \in Instance, k \in {1, 2} : job[i][<<u, k>>] = "none"
      BY Zenon, <3>1 DEF HandledInvariant, NotDispatched
    <3>3. u \notin direct'
      BY Zenon, <1>4, <3>1, <3>2 DEF DispatchDirect
    <3> QED
      BY <2>4, <2>5, <3>1, <3>2, <3>3
  <2>8. ASSUME NEW i \in Instance, NEW s \in Step, Handled(i, s)
        PROVE  \E q \in {1, 2} : job'[i][<<s, q>>] = "done"
    <3>1. PICK q \in {1, 2} : job[i][<<s, q>>] = "done"
      BY Zenon, <2>8 DEF Handled
    <3>2. <<s, q>> \in Delivery /\ <<s, q>> # <<w, 1>>
      BY Zenon, <2>2, <3>1 DEF Delivery
    <3> QED
      BY Zenon, <2>4, <3>1, <3>2
  <2>9. CachedWasHandled'
    <3> SUFFICES ASSUME NEW i \in Instance, NEW k \in DOMAIN cache[i]
                 PROVE  \E q \in {1, 2} : job'[i][<<cache[i][k], q>>] = "done"
      BY Zenon, <1>1 DEF CachedWasHandled, Handled
    <3>1. cache[i][k] \in Step
      BY DEF CacheInvariant
    <3>2. Handled(i, cache[i][k])
      BY Zenon DEF HandledInvariant, CachedWasHandled
    <3> QED
      BY Zenon, <2>8, <3>1, <3>2
  <2>10. SkippedWasHandled'
    <3> SUFFICES ASSUME NEW i \in Instance, NEW d \in Delivery, job'[i][d] = "skipped"
                 PROVE  \E q \in {1, 2} : job'[i][<<d[1], q>>] = "done"
      BY Zenon DEF SkippedWasHandled
    <3>1. job[i][d] = "skipped" /\ d[1] \in Step
      BY Zenon, <2>4 DEF Delivery
    <3>2. Handled(i, d[1])
      BY Zenon, <3>1 DEF HandledInvariant, SkippedWasHandled, Handled
    <3> QED
      BY Zenon, <2>8, <3>1, <3>2
  <2> QED
    BY Zenon, <1>1, <2>6, <2>7, <2>9, <2>10 DEF HandledInvariant
<1> QED
  BY Zenon, <1>3, <1>4 DEF StartWorkflow

\* Every step keeps the invariant of the deliveries.
LEMMA HandledKept ==
    ASSUME DrainInvariant, TaskInvariant, CacheInvariant, HandledInvariant, [Next]_edgeVars
    PROVE  HandledInvariant'
<1> DEFINE Quiet ==
        /\ UNCHANGED <<job, cache, direct>>
        /\ subscribed' \in [Instance -> SUBSET {"health", "direct"}]
        /\ \A i \in Instance : phase'[i] \in Early =>
              phase[i] \in Early /\ ("direct" \in subscribed'[i] => "direct" \in subscribed[i])
<1>1. ASSUME UNCHANGED status, Quiet
      PROVE  HandledInvariant'
  BY Zenon, <1>1, HandledFrame
<1>2. ASSUME UNCHANGED <<phase, subscribed, job, cache, direct>>,
             \A w \in Workflow : status'[w] = "none" => status[w] = "none"
      PROVE  HandledInvariant'
  BY Zenon, <1>2, HandledFrame DEF HandledInvariant
<1>3. CASE UNCHANGED <<phase, subscribed, job, cache, direct, status>>
  BY Zenon, <1>2, <1>3
<1>4. CASE SidecarProcess
  <2>1. UNCHANGED status
    BY Zenon, <1>4 DEF SidecarProcess, taskVars
  <2>2. ASSUME NEW i \in Instance, StartStep(i)
        PROVE  HandledInvariant'
    <3>1. UNCHANGED <<cache, direct>>
      BY Zenon, <2>2 DEF StartStep
    <3>2. CASE SubscribeDirect(i)
      BY Zenon, <2>1, <3>1, <3>2, HandledSubscribe
    <3>3. CASE Register(i) \/ SubscribeHealth(i) \/ Run(i) \/ StartFails(i)
      <4>1. /\ UNCHANGED job /\ phase[i] \in Early \cup {"run"}
            /\ subscribed' \in {subscribed, [subscribed EXCEPT ![i] = @ \cup {"health"}]}
        BY Zenon, <3>3 DEF Register, SubscribeHealth, Run, StartFails, Early
      <4>2. PICK p \in {"health", "direct", "running", "failed"} :
               phase' = [phase EXCEPT ![i] = p] /\ (p \in Early => phase[i] \in Early)
        BY Zenon, <3>3 DEF Register, SubscribeHealth, Run, StartFails, Goto, Early
      <4>3. Quiet
        BY <3>1, <4>1, <4>2 DEF DrainInvariant, HandledInvariant
      <4> QED
        BY Zenon, <1>1, <2>1, <4>3
    <3> QED
      BY Zenon, <2>2, <3>2, <3>3 DEF StartStep
  <2>3. ASSUME NEW i \in Instance, StopStep(i)
        PROVE  HandledInvariant'
    <3>1. /\ UNCHANGED <<job, cache, direct>>
          /\ subscribed' \in {subscribed, [subscribed EXCEPT ![i] = {}]}
      BY Zenon, <2>3 DEF StopStep, Unsubscribe, Drain, Unregister
    <3>2. PICK p \in {"drain", "unregister", "stopped"} : phase' = [phase EXCEPT ![i] = p]
      BY Zenon, <2>3 DEF StopStep, Unsubscribe, Drain, Unregister, Goto
    <3>3. Quiet
      BY Zenon, <3>1, <3>2 DEF DrainInvariant, HandledInvariant, Early
    <3> QED
      BY Zenon, <1>1, <2>1, <3>3
  <2>4. ASSUME NEW i \in Instance, Registration(i)
        PROVE  HandledInvariant'
    <3>1. UNCHANGED <<job, cache, direct, subscribed>>
      BY Zenon, <2>4 DEF Registration
    <3>2. UNCHANGED phase \/ (phase[i] = "none" /\ phase' = [phase EXCEPT ![i] = "register"])
      BY Zenon, <2>4 DEF Registration, HandleRegister, Start, Goto, RegisterEnds, RequestReturns
    <3>3. Quiet
      BY Zenon, <3>1, <3>2 DEF DrainInvariant, HandledInvariant, Early
    <3> QED
      BY Zenon, <1>1, <2>1, <3>3
  <2>5. CASE ManagerStep
    <3>1. UNCHANGED <<job, cache, direct, subscribed>>
      BY Zenon, <2>5 DEF ManagerStep
    <3>2. UNCHANGED phase \/ \E i \in Instance : phase' = [phase EXCEPT ![i] = "unsubscribe"]
      BY Zenon, <2>5
         DEF ManagerStep, HandleDeregister, StopAllTakes, TakeFromMap, CloseClients, Stop, Goto,
             Signal, StopAllMisses, StopAllReturns, ShutdownReturns
    <3>3. Quiet
      BY Zenon, <3>1, <3>2 DEF DrainInvariant, HandledInvariant, Early
    <3> QED
      BY Zenon, <1>1, <2>1, <3>3
  <2>6. ASSUME NEW c \in Client, Connection(c)
        PROVE  HandledInvariant'
    BY Zenon, <1>3, <2>1, <2>6 DEF Connection
  <2>7. ASSUME NEW c \in Client, NEW s \in Step, HandlePublish(c, s)
        PROVE  HandledInvariant'
    BY Zenon, <1>3, <2>1, <2>7 DEF HandlePublish
  <2>8. ASSUME NEW i \in Instance, HealthPing(i)
        PROVE  HandledInvariant'
    BY Zenon, <1>3, <2>1, <2>8 DEF HealthPing
  <2> QED
    BY ONLY Zenon, DrainInvariant, CacheInvariant, HandledInvariant, <1>4, <2>1, <2>2, <2>3, <2>4,
       <2>5, <2>6, <2>7, <2>8, HandledDispatch
       DEF SidecarProcess
<1>5. ASSUME NEW w \in Workflow, NEW s \in Terminal, Put(w, s),
             UNCHANGED <<phase, subscribed, job, cache, direct>>
      PROVE  HandledInvariant'
  BY Zenon, <1>2, <1>5 DEF Put, TaskInvariant, Terminal
<1>6. CASE Gateway
  <2>1. UNCHANGED <<phase, subscribed, job, cache, direct>>
    BY Zenon, <1>6 DEF Gateway, CreateTask, sdkVars
  <2>2. UNCHANGED status \/ \E w \in Workflow : Put(w, "failed")
    BY Zenon, <1>6
       DEF Gateway, CreateTask, CreateBaranWorkflow, TaskStep, DispatchToVirtualAgent,
           PollUntilTerminal, PollEnds, RemoteEnds, GetTask, CancelRead, CancelWrite
  <2> QED
    BY Zenon, <1>3, <1>5, <2>1, <2>2 DEF Terminal
<1>7. CASE Engine
  <2>1. ASSUME NEW w \in Workflow, NEW s \in Terminal, Decide(w, s)
        PROVE  HandledInvariant'
    BY Zenon, <1>5, <2>1 DEF Decide, sdkVars
  <2>2. ASSUME NEW r \in results, StepResult(r)
        PROVE  HandledInvariant'
    BY Zenon, <2>1, <2>2 DEF StepResult, TaskInvariant, Terminal
  <2> QED
    BY Zenon, <1>7, <2>1, <2>2, HandledStartWorkflow DEF Engine, StepTimeout, Terminal
<1> QED
  BY Zenon, <1>3, <1>4, <1>6, <1>7 DEF Next, edgeVars, sdkVars, taskVars

-----------------------------------------------------------------------------
(* The sidecar's agents and their connections *)

\* An SDK agent may go on, but not back to where it has not been started.
LEMMA ConnPhase ==
    ASSUME ConnInvariant,
           UNCHANGED <<agents, lock, managed, removed, clients, hadClient, conn, at, closed>>,
           phase' \in [Instance -> Phase],
           \A i \in Instance : phase'[i] = "none" => phase[i] = "none"
    PROVE  ConnInvariant'
<1>1. ConnTypes' /\ Attached' /\ MappedIsOpen' /\ ReachableIffConnected'
  BY Zenon DEF ConnInvariant, ConnTypes, Attached, MappedIsOpen, ReachableIffConnected
<1>2. WasRegistered'
  BY Zenon DEF ConnInvariant, ConnTypes, WasRegistered
<1> QED
  BY Zenon, <1>1, <1>2 DEF ConnInvariant

\* A registration begins, and ends with an agent that no connection has found yet.
LEMMA ConnRegistration ==
    ASSUME ConnInvariant, NEW i \in Instance, Registration(i)
    PROVE  ConnInvariant'
<1> USE DEF connVars
<1>1. CASE HandleRegister(i)
  <2>1. /\ phase[i] = "none" /\ phase' = [phase EXCEPT ![i] = "register"] /\ lock' = i
        /\ UNCHANGED <<agents, managed, removed, clients, hadClient, conn, at, closed>>
    BY Zenon, <1>1 DEF Registration, HandleRegister, Start, Goto
  <2>2. ConnTypes'
    BY Zenon, <2>1 DEF ConnInvariant, ConnTypes, Phase, Starting
  <2>3. WasRegistered'
    BY Zenon, <2>1 DEF ConnInvariant, ConnTypes, WasRegistered
  <2>4. Attached' /\ MappedIsOpen' /\ ReachableIffConnected'
    BY Zenon, <2>1 DEF ConnInvariant, ConnTypes, Attached, MappedIsOpen, ReachableIffConnected
  <2> QED
    BY Zenon, <2>2, <2>3, <2>4 DEF ConnInvariant
<1>2. CASE RegisterEnds(i) /\ phase[i] = "failed"
  <2>1. /\ lock' = Nobody
        /\ UNCHANGED <<phase, agents, managed, removed, clients, hadClient, conn, at, closed>>
    BY Zenon, <1>2 DEF Registration, RegisterEnds
  <2>2. ConnTypes' /\ WasRegistered'
    BY Zenon, <2>1, InstanceAssumption DEF ConnInvariant, ConnTypes, WasRegistered
  <2>3. Attached' /\ MappedIsOpen' /\ ReachableIffConnected'
    BY Zenon, <2>1 DEF ConnInvariant, ConnTypes, Attached, MappedIsOpen, ReachableIffConnected
  <2> QED
    BY Zenon, <2>2, <2>3 DEF ConnInvariant
<1>3. CASE RegisterEnds(i) /\ phase[i] # "failed"
  <2>1. /\ lock = i /\ lock' = Nobody /\ phase[i] = "running" /\ agents' = i
        /\ managed' = [managed EXCEPT ![i] = "active"]
        /\ UNCHANGED <<phase, removed, clients, hadClient, conn, at, closed>>
    BY Zenon, <1>3 DEF Registration, RegisterEnds
  <2>2. managed[i] = "none" /\ i \notin hadClient
    BY Zenon, <2>1 DEF ConnInvariant, WasRegistered
  <2>3. ConnTypes'
    BY Zenon, <2>1 DEF ConnInvariant, ConnTypes
  <2>4. WasRegistered'
    BY Zenon, <2>1, <2>2, InstanceAssumption DEF ConnInvariant, ConnTypes, WasRegistered
  <2>5. Attached' /\ MappedIsOpen'
    BY Zenon, <2>1 DEF ConnInvariant, ConnTypes, Attached, MappedIsOpen
  <2>6. ReachableIffConnected'
    BY Zenon, <2>1, <2>2 DEF ConnInvariant, ConnTypes, ReachableIffConnected
  <2> QED
    BY Zenon, <2>3, <2>4, <2>5, <2>6 DEF ConnInvariant
<1>4. CASE RequestReturns(i)
  BY Zenon, <1>4, ConnPhase DEF Registration, RequestReturns, ConnInvariant, ConnTypes
<1> QED
  BY Zenon, <1>1, <1>2, <1>3, <1>4 DEF Registration

\* Deregistration closes what is in the maps and empties them; a process that
\* stops only takes agents from the map.
LEMMA ConnManager ==
    ASSUME ConnInvariant, ManagerStep
    PROVE  ConnInvariant'
<1>1. UNCHANGED <<lock, hadClient, conn, at>>
  BY Zenon DEF ManagerStep
<1>2. ASSUME NEW i \in Instance, TakeFromMap(i)
      PROVE  ConnInvariant'
  <2>1. agents = i /\ agents' = Nobody /\ removed' = removed \cup {i}
        /\ UNCHANGED <<managed, clients, closed, phase>>
    BY Zenon, <1>2 DEF TakeFromMap
  <2>2. ConnTypes' /\ WasRegistered'
    BY Zenon, <1>1, <2>1, InstanceAssumption DEF ConnInvariant, ConnTypes, WasRegistered
  <2>3. Attached' /\ MappedIsOpen' /\ ReachableIffConnected'
    BY Zenon, <1>1, <2>1 DEF ConnInvariant, ConnTypes, Attached, MappedIsOpen, ReachableIffConnected
  <2> QED
    BY Zenon, <2>2, <2>3 DEF ConnInvariant
<1>3. ASSUME NEW i \in Instance, CloseClients(i)
      PROVE  ConnInvariant'
  <2>1. /\ i \in removed /\ removed' = removed \ {i}
        /\ managed' = [managed EXCEPT ![i] = "deregistered"]
        /\ closed' = closed \cup clients[i]
        /\ clients' = [clients EXCEPT ![i] = {}]
        /\ UNCHANGED agents
    BY Zenon, <1>3 DEF CloseClients
  <2>2. /\ phase' \in [Instance -> Phase]
        /\ \A j \in Instance : phase'[j] = "none" => phase[j] = "none"
    BY Zenon, <1>3 DEF CloseClients, Stop, Goto, Phase, Stopping, ConnInvariant, ConnTypes
  <2>3. ConnTypes'
    BY Zenon, <1>1, <2>1, <2>2 DEF ConnInvariant, ConnTypes
  <2>4. managed[i] # "none"
    BY Zenon, <2>1 DEF ConnInvariant, WasRegistered
  <2>5. WasRegistered'
    BY Zenon, <1>1, <2>1, <2>2, <2>4 DEF ConnInvariant, ConnTypes, WasRegistered
  <2>6. Attached'
    BY Zenon, <1>1, <2>1 DEF ConnInvariant, ConnTypes, Attached, MappedIsOpen
  <2>7. MappedIsOpen'
    <3> SUFFICES ASSUME NEW j \in Instance, NEW c \in clients'[j]
                 PROVE  c \notin closed' /\ at[c] = j /\ conn[c] \in {"attached", "open"}
      BY Zenon, <1>1 DEF MappedIsOpen
    <3>1. j # i /\ c \in clients[j]
      BY Zenon, <2>1 DEF ConnInvariant, ConnTypes
    <3> QED
      BY Zenon, <2>1, <3>1 DEF ConnInvariant, MappedIsOpen
  <2>8. ReachableIffConnected'
    BY Zenon, <1>1, <2>1 DEF ConnInvariant, ConnTypes, ReachableIffConnected
  <2> QED
    BY Zenon, <2>3, <2>5, <2>6, <2>7, <2>8 DEF ConnInvariant
<1>4. CASE UNCHANGED <<agents, removed, managed, clients, closed, phase>>
  BY Zenon, <1>1, <1>4, ConnPhase DEF ConnInvariant, ConnTypes
<1> QED
  BY Zenon, <1>2, <1>3, <1>4
     DEF ManagerStep, HandleDeregister, StopAllTakes, Signal, StopAllMisses, StopAllReturns,
         ShutdownReturns

\* The handler of a connection: it finds the agent, adds the connection to the
\* agent's maps, and takes it out when it returns.
LEMMA ConnConnection ==
    ASSUME ConnInvariant, NEW c \in Client, Connection(c)
    PROVE  ConnInvariant'
<1>1. UNCHANGED <<phase, agents, lock, removed>>
  BY Zenon DEF Connection
<1>2. CASE Connect(c)
  <2>1. /\ conn[c] = "idle" /\ agents # Nobody
        /\ conn' = [conn EXCEPT ![c] = "found"] /\ at' = [at EXCEPT ![c] = agents]
        /\ UNCHANGED <<managed, clients, hadClient, closed>>
    BY Zenon, <1>2 DEF Connect
  <2>2. ConnTypes' /\ WasRegistered'
    BY Zenon, <1>1, <2>1 DEF ConnInvariant, ConnTypes, WasRegistered
  <2>3. Attached'
    BY Zenon, <1>1, <2>1 DEF ConnInvariant, ConnTypes, WasRegistered, Attached
  <2>4. MappedIsOpen'
    BY Zenon, <2>1 DEF ConnInvariant, ConnTypes, MappedIsOpen
  <2>5. ReachableIffConnected'
    BY Zenon, <2>1 DEF ConnInvariant, ReachableIffConnected
  <2> QED
    BY Zenon, <2>2, <2>3, <2>4, <2>5 DEF ConnInvariant
<1>3. CASE AddClient(c)
  <2> DEFINE i == at[c]
  <2>1. /\ conn[c] = "found" /\ conn' = [conn EXCEPT ![c] = "attached"]
        /\ clients' = [clients EXCEPT ![i] = @ \cup {c}]
        /\ hadClient' = hadClient \cup {i}
        /\ managed' = [managed EXCEPT ![i] = IF @ = "unreachable" THEN "active" ELSE @]
        /\ UNCHANGED <<at, closed>>
    BY Zenon, <1>3 DEF AddClient
  <2>2. i \in Instance /\ managed[i] # "none" /\ c \notin closed
    BY Zenon, <2>1 DEF ConnInvariant, Attached
  <2> HIDE DEF i
  <2>3. ConnTypes'
    BY Zenon, <1>1, <2>1, <2>2 DEF ConnInvariant, ConnTypes
  <2>4. \A j \in Instance : managed'[j] = "none" <=> managed[j] = "none"
    BY Zenon, <2>1, <2>2 DEF ConnInvariant, ConnTypes
  <2>5. WasRegistered'
    BY Zenon, <1>1, <2>1, <2>2, <2>4 DEF ConnInvariant, ConnTypes, WasRegistered
  <2>6. Attached'
    BY Zenon, <2>1, <2>2, <2>4 DEF ConnInvariant, ConnTypes, Attached
  <2>7. MappedIsOpen'
    <3> SUFFICES ASSUME NEW j \in Instance, NEW d \in clients'[j]
                 PROVE  d \notin closed /\ at[d] = j /\ conn'[d] \in {"attached", "open"}
      BY Zenon, <2>1 DEF MappedIsOpen
    <3>1. (d = c /\ j = i) \/ d \in clients[j]
      BY Zenon, <2>1 DEF ConnInvariant, ConnTypes
    <3>2. CASE d \in clients[j]
      BY Zenon, <2>1, <3>2 DEF ConnInvariant, ConnTypes, MappedIsOpen
    <3>3. CASE d = c /\ j = i
      BY Zenon, <2>1, <2>2, <3>3 DEF ConnInvariant, ConnTypes, i
    <3> QED
      BY Zenon, <3>1, <3>2, <3>3
  <2>8. ReachableIffConnected'
    <3>1. \A j \in Instance \ {i} : managed'[j] = managed[j] /\ clients'[j] = clients[j]
      BY Zenon, <2>1 DEF ConnInvariant, ConnTypes
    <3>2. clients'[i] # {} /\ managed'[i] \in {"active", "deregistered"}
      BY Zenon, <2>1, <2>2 DEF ConnInvariant, ConnTypes
    <3> QED
      BY Zenon, <2>1, <2>3, <3>1, <3>2 DEF ConnInvariant, ConnTypes, ReachableIffConnected
  <2> QED
    BY Zenon, <2>3, <2>5, <2>6, <2>7, <2>8 DEF ConnInvariant
<1>4. CASE SubscribeClient(c)
  <2>1. /\ conn[c] = "attached" /\ conn' = [conn EXCEPT ![c] = "open"]
        /\ UNCHANGED <<managed, clients, hadClient, at, closed>>
    BY Zenon, <1>4 DEF SubscribeClient
  <2>2. ConnTypes' /\ WasRegistered'
    BY Zenon, <1>1, <2>1 DEF ConnInvariant, ConnTypes, WasRegistered
  <2>3. Attached' /\ MappedIsOpen'
    BY <2>1 DEF ConnInvariant, ConnTypes, Attached, MappedIsOpen
  <2>4. ReachableIffConnected'
    BY Zenon, <2>1 DEF ConnInvariant, ReachableIffConnected
  <2> QED
    BY Zenon, <2>2, <2>3, <2>4 DEF ConnInvariant
<1>5. CASE (\E s \in Step : FanOut(c, s)) \/ WriteLoop(c)
  BY Zenon, <1>1, <1>5, ConnPhase DEF FanOut, WriteLoop, ConnInvariant, ConnTypes
<1>6. CASE HandlerReturns(c)
  <2> DEFINE i == at[c]
             left == clients[i] \ {c}
  <2>1. /\ conn[c] \in {"attached", "open"} /\ conn' = [conn EXCEPT ![c] = "idle"]
        /\ clients' = [clients EXCEPT ![i] = left]
        /\ managed' = [managed EXCEPT ![i] =
                         IF @ = "active" /\ left = {} THEN "unreachable" ELSE @]
        /\ at' = [at EXCEPT ![c] = Nobody]
        /\ closed' = closed \ {c}
        /\ UNCHANGED hadClient
    BY Zenon, <1>6 DEF HandlerReturns, RemoveClient
  <2>2. i \in Instance /\ managed[i] # "none"
    BY Zenon, <2>1 DEF ConnInvariant, Attached
  <2>3. ConnTypes'
    BY Zenon, <1>1, <2>1, <2>2 DEF ConnInvariant, ConnTypes
  <2>4. \A j \in Instance : managed'[j] = "none" <=> managed[j] = "none"
    BY Zenon, <2>1, <2>2 DEF ConnInvariant, ConnTypes
  <2>5. WasRegistered'
    BY Zenon, <1>1, <2>1, <2>4 DEF ConnInvariant, ConnTypes, WasRegistered
  <2>6. Attached'
    BY Zenon, <2>1, <2>4 DEF ConnInvariant, ConnTypes, Attached
  <2>7. MappedIsOpen'
    <3> SUFFICES ASSUME NEW j \in Instance, NEW d \in clients'[j]
                 PROVE  d \notin closed' /\ at'[d] = j /\ conn'[d] \in {"attached", "open"}
      BY Zenon DEF MappedIsOpen
    <3>1. d \in clients[j] /\ (j = i => d # c)
      BY Zenon, <2>1 DEF ConnInvariant, ConnTypes
    <3>2. d \notin closed /\ at[d] = j /\ conn[d] \in {"attached", "open"} /\ d \in Client
      BY Zenon, <3>1 DEF ConnInvariant, ConnTypes, MappedIsOpen
    <3> QED
      BY Zenon, <2>1, <3>1, <3>2 DEF ConnInvariant, ConnTypes
  <2>8. ReachableIffConnected'
    <3>1. \A j \in Instance \ {i} : managed'[j] = managed[j] /\ clients'[j] = clients[j]
      BY Zenon, <2>1 DEF ConnInvariant, ConnTypes
    <3>2. /\ clients'[i] = left
          /\ managed'[i] = IF managed[i] = "active" /\ left = {} THEN "unreachable" ELSE managed[i]
      BY Zenon, <2>1, <2>2 DEF ConnInvariant, ConnTypes
    <3>3. i \in hadClient /\ managed[i] # "deregistered"
             => (managed[i] = "active" <=> clients[i] # {})
      BY Zenon DEF ConnInvariant, ReachableIffConnected
    <3> QED
      BY Zenon, <2>1, <3>1, <3>2, <3>3 DEF ConnInvariant, ConnTypes, ReachableIffConnected
  <2> QED
    BY Zenon, <2>3, <2>5, <2>6, <2>7, <2>8 DEF ConnInvariant
<1> QED
  BY Zenon, <1>2, <1>3, <1>4, <1>5, <1>6 DEF Connection

\* Every step keeps the invariant of the connections.
LEMMA ConnKept ==
    ASSUME ConnInvariant, [Next]_edgeVars
    PROVE  ConnInvariant'
<1>1. CASE /\ UNCHANGED <<agents, lock, managed, removed, clients, hadClient, conn, at, closed>>
           /\ UNCHANGED phase
  BY Zenon, <1>1, ConnPhase DEF ConnInvariant, ConnTypes
<1>2. ASSUME NEW i \in Instance, StartStep(i) \/ StopStep(i), UNCHANGED sidecarVars
      PROVE  ConnInvariant'
  <2>1. PICK p \in Phase \ {"none"} : phase' = [phase EXCEPT ![i] = p]
    BY Zenon, <1>2
       DEF StartStep, Register, SubscribeHealth, SubscribeDirect, Run, StartFails, StopStep,
           Unsubscribe, Drain, Unregister, Goto, Phase, Starting, Stopping
  <2>2. /\ phase' \in [Instance -> Phase]
        /\ \A j \in Instance : phase'[j] = "none" => phase[j] = "none"
    BY Zenon, <2>1 DEF ConnInvariant, ConnTypes
  <2> QED
    BY Zenon, <1>2, <2>2, ConnPhase DEF sidecarVars
<1>3. CASE SidecarProcess
  <2>1. ASSUME NEW i \in Instance, NEW d \in Delivery, DispatchStep(i, d), UNCHANGED sidecarVars
        PROVE  ConnInvariant'
    BY Zenon, <1>1, <2>1 DEF DispatchStep, sidecarVars
  <2>2. ASSUME NEW i \in Instance, HealthPing(i), UNCHANGED sidecarVars
        PROVE  ConnInvariant'
    BY Zenon, <1>1, <2>2 DEF HealthPing, sidecarVars
  <2>3. ASSUME NEW c \in Client, NEW s \in Step, HandlePublish(c, s)
        PROVE  ConnInvariant'
    BY Zenon, <1>1, <2>3 DEF HandlePublish, sidecarVars
  <2> QED
    BY Zenon, <1>2, <1>3, <2>1, <2>2, <2>3, ConnRegistration, ConnManager, ConnConnection
       DEF SidecarProcess
<1>4. CASE Gateway
  BY Zenon, <1>1, <1>4 DEF Gateway, CreateTask, sdkVars, sidecarVars
<1>5. CASE Engine
  BY Zenon, <1>1, <1>5 DEF Engine, StartWorkflow, StepResult, StepTimeout, Decide, sdkVars, sidecarVars
<1>6. CASE UNCHANGED edgeVars
  BY Zenon, <1>1, <1>6 DEF edgeVars, sdkVars, sidecarVars
<1> QED
  BY Zenon, <1>3, <1>4, <1>5, <1>6 DEF Next

-----------------------------------------------------------------------------
(* Types *)

\* A call on the bus, whether it works or fails.
LEMMA BusTyped ==
    ASSUME NEW ctx, faults \in Nat, BusWorks(ctx) \/ BusFails(ctx)
    PROVE  faults' \in Nat
BY DEF BusWorks, BusFails

LEMMA VisitTyped ==
    ASSUME visits \in [registers : Nat, deletes : Nat, connects : Nat, signals : Nat],
           NEW k \in {"registers", "deletes", "connects", "signals"}, Visit(k)
    PROVE  visits' \in [registers : Nat, deletes : Nat, connects : Nat, signals : Nat]
BY DEF Visit

LEMMA SdkFrame ==
    ASSUME SdkRest, faults' \in Nat,
           UNCHANGED <<up, startCtx, busCtx, unanswered, direct, results, present>>
    PROVE  SdkRest'
BY Zenon DEF SdkRest

\* The SDK agent's own steps.
LEMMA SdkStart ==
    ASSUME SdkRest, NEW i \in Instance, StartStep(i)
    PROVE  SdkRest'
<1>1. UNCHANGED <<up, startCtx, unanswered, direct, results>>
  BY Zenon DEF StartStep
<1>2. present' \in BOOLEAN
  BY Zenon DEF StartStep, Register, SubscribeHealth, SubscribeDirect, Run, StartFails, SdkRest
<1>3. busCtx' \in [Instance -> {"nil", "live", "cancelled"}]
  BY Zenon DEF StartStep, Register, SubscribeHealth, SubscribeDirect, Run, StartFails, SdkRest
<1>4. faults' \in Nat
  BY Zenon, BusTyped DEF StartStep, Register, SubscribeHealth, SubscribeDirect, Run, StartFails, SdkRest
<1> QED
  BY Zenon, <1>1, <1>2, <1>3, <1>4 DEF SdkRest

LEMMA SdkStop ==
    ASSUME SdkRest, NEW i \in Instance, StopStep(i)
    PROVE  SdkRest'
<1>1. UNCHANGED <<up, startCtx, unanswered, direct, results>>
  BY Zenon DEF StopStep
<1>2. present' \in BOOLEAN
  BY Zenon DEF StopStep, Unsubscribe, Drain, Unregister, SdkRest
<1>3. busCtx' \in [Instance -> {"nil", "live", "cancelled"}]
  BY Zenon DEF StopStep, Unsubscribe, Drain, Unregister, SdkRest
<1>4. faults' \in Nat
  BY Zenon, BusTyped DEF StopStep, Unsubscribe, Drain, Unregister, SdkRest
<1> QED
  BY Zenon, <1>1, <1>2, <1>3, <1>4 DEF SdkRest

LEMMA SdkDispatch ==
    ASSUME SdkRest, NEW i \in Instance, NEW d \in Delivery, DispatchStep(i, d)
    PROVE  SdkRest'
<1>1. UNCHANGED <<startCtx, busCtx, unanswered, direct, present>>
  BY Zenon DEF DispatchStep
<1>2. up' \in BOOLEAN
  BY Zenon DEF DispatchStep, PublishWithoutContext, SdkRest
<1>3. faults' \in Nat
  BY BusTyped DEF DispatchStep, PublishStepResult, Redeliver, SdkRest
<1>4. d[1] \in Step
  BY Zenon DEF Delivery
<1>5. \/ UNCHANGED results
      \/ \E v \in HandlerResult : results' = results \cup {[step |-> d[1], value |-> v]}
  BY Zenon DEF DispatchStep, PublishStepResult
<1>6. results' \subseteq [step : Step, value : HandlerResult \cup {"answer"}]
  BY <1>4, <1>5 DEF SdkRest
<1> QED
  BY Zenon, <1>1, <1>2, <1>3, <1>6 DEF SdkRest

\* Every step keeps the SDK agents' variables typed.
LEMMA SdkRestKept ==
    ASSUME SdkRest, SidecarRest, [Next]_edgeVars
    PROVE  SdkRest'
<1>1. CASE UNCHANGED <<up, startCtx, busCtx, unanswered, direct, results, present, faults>>
  BY Zenon, <1>1, SdkFrame DEF SdkRest
<1>2. ASSUME NEW i \in Instance, HealthPing(i)
      PROVE  SdkRest'
  BY Zenon, <1>2 DEF HealthPing, SdkRest
<1>3. ASSUME UNCHANGED <<up, busCtx, unanswered, direct, results, present, faults>>,
             startCtx' = startCtx \/ \E i \in Instance : startCtx' = [startCtx EXCEPT ![i] = FALSE]
      PROVE  SdkRest'
  <2>1. startCtx' \in [Instance -> BOOLEAN]
    BY Zenon, <1>3 DEF SdkRest
  <2> QED
    BY Zenon, <1>3, <2>1 DEF SdkRest
<1>4. ASSUME NEW i \in Instance, Registration(i)
      PROVE  SdkRest'
  BY Zenon, <1>3, <1>4 DEF Registration, HandleRegister, RegisterEnds, RequestReturns
<1>5. CASE ManagerStep
  BY Zenon, <1>3, <1>5
     DEF ManagerStep, HandleDeregister, StopAllTakes, TakeFromMap, CloseClients, Signal,
         StopAllMisses, StopAllReturns, ShutdownReturns
<1>6. ASSUME NEW c \in Client, Connection(c)
      PROVE  SdkRest'
  <2>1. faults' \in Nat
    BY Zenon, <1>6, BusTyped
       DEF Connection, Connect, AddClient, SubscribeClient, FanOut, WriteLoop, HandlerReturns,
           SdkRest
  <2> QED
    BY Zenon, <1>6, <2>1, SdkFrame DEF Connection
<1>7. ASSUME NEW c \in Client, NEW s \in Step, HandlePublish(c, s)
      PROVE  SdkRest'
  <2>1. results' \subseteq [step : Step, value : HandlerResult \cup {"answer"}]
    <3>1. results' = results \cup {[step |-> s, value |-> "answer"]}
      BY Zenon, <1>7 DEF HandlePublish
    <3>2. results \subseteq [step : Step, value : HandlerResult \cup {"answer"}]
      BY Zenon DEF SdkRest
    <3> QED
      BY ONLY <3>1, <3>2, s \in Step
  <2> QED
    BY Zenon, <1>7, <2>1 DEF HandlePublish, SdkRest
<1>8. CASE SidecarProcess
  BY Zenon, <1>2, <1>4, <1>5, <1>6, <1>7, <1>8, SdkStart, SdkStop, SdkDispatch DEF SidecarProcess
<1>9. CASE Gateway
  <2>1. ASSUME NEW t \in LocalTask, CreateTask(t)
        PROVE  SdkRest'
    <3>1. faults' \in Nat
      BY Zenon, <2>1, BusTyped DEF CreateTask, SdkRest
    <3> QED
      BY Zenon, <2>1, <3>1, SdkFrame DEF CreateTask
  <2> QED
    BY Zenon, <1>1, <1>9, <2>1 DEF Gateway, sdkVars
<1>10. CASE Engine
  <2>1. ASSUME NEW t \in LocalTask, NEW w \in Workflow, StartWorkflow(t, w)
        PROVE  SdkRest'
    <3>1. direct' \subseteq Step
      BY Zenon, <2>1, StepAssumption DEF StartWorkflow, DispatchDirect, SdkRest
    <3> QED
      BY Zenon, <2>1, <3>1 DEF StartWorkflow, SdkRest
  <2> QED
    BY Zenon, <1>1, <1>10, <2>1 DEF Engine, StepResult, StepTimeout, Decide, sdkVars
<1> QED
  BY Zenon, <1>1, <1>8, <1>9, <1>10 DEF Next, edgeVars, sdkVars

\* What a fan-out adds to a channel fits, and the write loop takes the first.
LEMMA FanOutTyped ==
    ASSUME SidecarRest, NEW c \in Client, NEW s \in Step, FanOut(c, s)
    PROVE  channel' \in [Client -> Seq(Step)] /\ \A b \in Client : Len(channel'[b]) <= Capacity
<1>1. ASSUME NEW b \in Client
      PROVE  /\ channel[b] \in Seq(Step) /\ Len(channel[b]) <= Capacity
             /\ Append(channel[b], s) \in Seq(Step)
             /\ Len(channel[b]) < Capacity => Len(Append(channel[b], s)) <= Capacity
  BY CapacityAssumption DEF SidecarRest
<1> DEFINE room(b) == b \in clients[at[c]] \cap Kind(c) /\ Len(channel[b]) < Capacity
<1>2. channel' = [b \in Client |-> IF room(b) THEN Append(channel[b], s) ELSE channel[b]]
  BY Zenon DEF FanOut
<1>3. \A b \in Client : room(b) => Len(channel[b]) < Capacity
  BY Zenon
<1> HIDE DEF room
<1> QED
  BY Zenon, <1>1, <1>2, <1>3

LEMMA WriteLoopTyped ==
    ASSUME SidecarRest, NEW c \in Client, WriteLoop(c)
    PROVE  /\ channel' \in [Client -> Seq(Step)]
           /\ \A b \in Client : Len(channel'[b]) <= Capacity
           /\ seen' \in [Client -> SUBSET (Step \cup {ZeroEvent})]
<1>1. CASE /\ channel[c] # <<>> /\ channel' = [channel EXCEPT ![c] = Tail(channel[c])]
           /\ seen' = [seen EXCEPT ![c] = seen[c] \cup {Head(channel[c])}]
  <2>1. channel[c] \in Seq(Step) /\ Len(channel[c]) <= Capacity
    BY Zenon DEF SidecarRest
  <2>2. /\ Tail(channel[c]) \in Seq(Step) /\ Head(channel[c]) \in Step
        /\ Len(Tail(channel[c])) <= Capacity
    BY <1>1, <2>1, CapacityAssumption
  <2> QED  BY Zenon, <1>1, <2>2 DEF SidecarRest
<1>2. CASE channel' = channel /\ seen' = [seen EXCEPT ![c] = seen[c] \cup {ZeroEvent}]
  BY Zenon, <1>2 DEF SidecarRest
<1> QED  BY Zenon, <1>1, <1>2 DEF WriteLoop

\* Every step keeps the sidecar's variables typed.
LEMMA SidecarRestKept ==
    ASSUME SdkRest, SidecarRest, [Next]_edgeVars
    PROVE  SidecarRest'
<1>1. CASE UNCHANGED <<unsent, channel, seen, server, target, visits>>
  BY Zenon, <1>1 DEF SidecarRest
<1>2. ASSUME UNCHANGED <<unsent, channel, seen, server, target>>,
             visits' \in [registers : Nat, deletes : Nat, connects : Nat, signals : Nat]
      PROVE  SidecarRest'
  BY Zenon, <1>2 DEF SidecarRest
<1>3. ASSUME NEW i \in Instance, Registration(i)
      PROVE  SidecarRest'
  <2>1. visits' \in [registers : Nat, deletes : Nat, connects : Nat, signals : Nat]
    BY Zenon, <1>3, VisitTyped DEF Registration, HandleRegister, RegisterEnds, RequestReturns, SidecarRest
  <2> QED
    BY Zenon, <1>2, <1>3, <2>1 DEF Registration, connVars
<1>4. CASE ManagerStep
  <2>1. UNCHANGED <<unsent, channel, seen>>
    BY Zenon, <1>4 DEF ManagerStep
  <2>2. server' \in {"serving", "stopAll", "stopWait", "shutdown", "exited"}
    BY Zenon, <1>4
       DEF ManagerStep, HandleDeregister, StopAllTakes, Signal, StopAllMisses, StopAllReturns,
           ShutdownReturns, SidecarRest
  <2>3. target' \in Instance \cup {Nobody}
    BY Zenon, <1>4
       DEF ManagerStep, HandleDeregister, StopAllTakes, Signal, StopAllMisses, StopAllReturns,
           ShutdownReturns, SidecarRest
  <2>4. visits' \in [registers : Nat, deletes : Nat, connects : Nat, signals : Nat]
    BY Zenon, <1>4, VisitTyped
       DEF ManagerStep, HandleDeregister, StopAllTakes, Signal, StopAllMisses, StopAllReturns,
           ShutdownReturns, SidecarRest
  <2> QED
    BY Zenon, <2>1, <2>2, <2>3, <2>4 DEF SidecarRest
<1>5. ASSUME NEW c \in Client, Connection(c)
      PROVE  SidecarRest'
  <2>1. UNCHANGED <<server, target>>
    BY Zenon, <1>5 DEF Connection
  <2>2. CASE Connect(c)
    BY Zenon, <1>2, <2>1, <2>2, VisitTyped DEF Connect, SidecarRest
  <2>3. CASE AddClient(c)
    BY Zenon, <1>1, <2>1, <2>3 DEF AddClient
  <2>4. CASE SubscribeClient(c)
    <3>1. unsent' \in [Client -> SUBSET Step]
      BY Zenon, <2>4 DEF SubscribeClient, SidecarRest, SdkRest
    <3> QED
      BY Zenon, <2>1, <2>4, <3>1 DEF SubscribeClient, SidecarRest
  <2>5. ASSUME NEW s \in Step, FanOut(c, s)
        PROVE  SidecarRest'
    <3>1. unsent' \in [Client -> SUBSET Step]
      BY Zenon, <2>5 DEF FanOut, SidecarRest
    <3>2. channel' \in [Client -> Seq(Step)] /\ \A b \in Client : Len(channel'[b]) <= Capacity
      BY Zenon, <2>5, FanOutTyped
    <3> QED
      BY Zenon, <2>1, <2>5, <3>1, <3>2 DEF FanOut, SidecarRest
  <2>6. CASE WriteLoop(c)
    BY Zenon, <2>1, <2>6, WriteLoopTyped DEF WriteLoop, SidecarRest
  <2>7. CASE HandlerReturns(c)
    <3>1. unsent' = [unsent EXCEPT ![c] = {}] /\ channel' = [channel EXCEPT ![c] = <<>>]
          /\ UNCHANGED <<seen, visits>>
      BY Zenon, <2>7 DEF HandlerReturns, RemoveClient
    <3>2. unsent' \in [Client -> SUBSET Step] /\ channel' \in [Client -> Seq(Step)]
      BY <3>1 DEF SidecarRest
    <3>3. \A b \in Client : Len(channel'[b]) <= Capacity
      BY <3>1, CapacityAssumption DEF SidecarRest
    <3> QED
      BY Zenon, <2>1, <3>1, <3>2, <3>3 DEF SidecarRest
  <2> QED
    BY Zenon, <1>5, <2>2, <2>3, <2>4, <2>5, <2>6, <2>7 DEF Connection
<1>6. CASE SidecarProcess
  BY Zenon, <1>1, <1>3, <1>4, <1>5, <1>6 DEF SidecarProcess, HandlePublish, sidecarVars
<1>7. CASE Gateway
  BY Zenon, <1>1, <1>7 DEF Gateway, sidecarVars
<1>8. CASE Engine
  <2>1. ASSUME NEW t \in LocalTask, NEW w \in Workflow, StartWorkflow(t, w)
        PROVE  SidecarRest'
    <3>1. unsent' \in [Client -> SUBSET Step]
      <4>1. CASE UNCHANGED unsent
        BY Zenon, <4>1 DEF SidecarRest
      <4>2. CASE DispatchDirect(w)
        BY Zenon, <4>2, StepAssumption DEF DispatchDirect, SidecarRest
      <4> QED
        BY Zenon, <2>1, <4>1, <4>2 DEF StartWorkflow
    <3> QED
      BY Zenon, <2>1, <3>1 DEF StartWorkflow, SidecarRest
  <2> QED
    BY Zenon, <1>1, <1>8, <2>1 DEF Engine, sidecarVars
<1> QED
  BY Zenon, <1>1, <1>6, <1>7, <1>8 DEF Next, edgeVars, sidecarVars

\* Every step keeps the task manager's variables typed.
LEMMA TaskRestKept ==
    ASSUME TaskInvariant, TaskRest, [Next]_edgeVars
    PROVE  TaskRest'
<1>1. CASE UNCHANGED <<submitted, task, remote, cancelling, fresh, requests>>
  BY Zenon, <1>1 DEF TaskRest
<1>2. ASSUME NEW t \in Task, Ask(t)
      PROVE  requests' \in [creations : SUBSET Task, cancels : Nat, queries : Nat, timeouts : Nat]
  BY Zenon, <1>2 DEF Ask, TaskRest
<1>3. ASSUME NEW w \in Workflow, NEW s, Put(w, s),
             UNCHANGED <<task, remote, cancelling>>, submitted' \subseteq submitted,
             requests' \in [creations : SUBSET Task, cancels : Nat, queries : Nat, timeouts : Nat]
      PROVE  TaskRest'
  BY Zenon, <1>3 DEF Put, TaskRest
<1>4. ASSUME NEW t \in LocalTask, CreateTask(t)
      PROVE  TaskRest'
  <2>1. PICK f, p : CreateBaranWorkflow(t, f, p)
    BY Zenon, <1>4 DEF CreateTask
  <2>2. t \in Task
    BY Zenon DEF Task
  <2>3. /\ task' \in [Task -> {"none", "polling"} \cup Returned]
        /\ submitted' \subseteq LocalTask
    BY Zenon, <2>1, <2>2 DEF CreateBaranWorkflow, TaskRest, Returned
  <2> QED
    BY Zenon, <1>2, <2>1, <2>2, <2>3 DEF CreateBaranWorkflow, TaskRest
<1>5. ASSUME NEW t \in VirtualTask, DispatchToVirtualAgent(t)
      PROVE  TaskRest'
  <2>1. t \in Task
    BY Zenon DEF Task
  <2>2. /\ task' \in [Task -> {"none", "polling"} \cup Returned]
        /\ remote' \in [VirtualTask -> {"none", "working"} \cup Terminal]
    BY Zenon, <1>5, <2>1 DEF DispatchToVirtualAgent, TaskRest, Returned
  <2> QED
    BY Zenon, <1>2, <1>5, <2>1, <2>2 DEF DispatchToVirtualAgent, TaskRest
<1>6. ASSUME NEW t \in VirtualTask, PollUntilTerminal(t) \/ PollEnds(t) \/ RemoteEnds(t)
      PROVE  TaskRest'
  BY Zenon, <1>6 DEF PollUntilTerminal, PollEnds, RemoteEnds, TaskRest, Returned, Terminal
<1>7. ASSUME NEW w \in Workflow, GetTask(w)
      PROVE  TaskRest'
  BY <1>7 DEF GetTask, TaskRest
<1>8. ASSUME NEW w \in Workflow, CancelRead(w)
      PROVE  TaskRest'
  BY <1>8 DEF CancelRead, TaskRest
<1>9. ASSUME NEW w \in Workflow, CancelWrite(w)
      PROVE  TaskRest'
  <2>1. fresh' \subseteq cancelling'
    BY <1>9 DEF CancelWrite, Put, TaskRest
  <2> QED
    BY Zenon, <1>9, <2>1 DEF CancelWrite, TaskRest
<1>10. CASE SidecarProcess
  BY Zenon, <1>1, <1>10 DEF SidecarProcess, taskVars
<1>11. CASE Gateway
  BY Zenon, <1>4, <1>5, <1>6, <1>7, <1>8, <1>9, <1>11 DEF Gateway, TaskStep
<1>12. CASE Engine
  <2>1. ASSUME NEW t \in LocalTask, NEW w \in Workflow, StartWorkflow(t, w)
        PROVE  TaskRest'
    <3>1. PICK s : Put(w, s)
      BY Zenon, <2>1 DEF StartWorkflow
    <3> QED
      BY Zenon, <1>3, <2>1, <3>1 DEF StartWorkflow, TaskRest
  <2>2. ASSUME NEW r \in results, StepResult(r)
        PROVE  TaskRest'
    BY Zenon, <1>3, <2>2 DEF StepResult, Decide, TaskInvariant, TaskRest
  <2>3. ASSUME NEW w \in Workflow, StepTimeout(w)
        PROVE  TaskRest'
    <3>1. requests' \in [creations : SUBSET Task, cancels : Nat, queries : Nat, timeouts : Nat]
      BY <2>3 DEF StepTimeout, TaskRest
    <3> QED
      BY Zenon, <1>3, <2>3, <3>1 DEF StepTimeout, Decide
  <2> QED
    BY Zenon, <1>12, <2>1, <2>2, <2>3 DEF Engine
<1> QED
  BY Zenon, <1>1, <1>10, <1>11, <1>12 DEF Next, edgeVars, taskVars

-----------------------------------------------------------------------------
(* The theorems *)

\* The invariants hold when the process starts.
LEMMA EdgeStarts ==
    Init => DrainInvariant /\ TaskInvariant /\ ConnInvariant /\ CacheInvariant /\ HandledInvariant
<1> SUFFICES ASSUME Init
             PROVE  DrainInvariant /\ TaskInvariant /\ ConnInvariant /\ CacheInvariant
                    /\ HandledInvariant
  BY Zenon
<1>1. DrainInvariant
  BY Zenon DEF Init, SdkInit, DrainInvariant, DrainedBeforeUnregister, Phase, Job
<1>2. TaskInvariant
  BY Zenon DEF Init, SdkInit, TaskInit, TaskInvariant, Stands, Status
<1>3. ConnInvariant
  BY Zenon, InstanceAssumption
     DEF Init, SdkInit, SidecarInit, ConnInvariant, ConnTypes, WasRegistered, Attached,
         MappedIsOpen, ReachableIffConnected, Phase
<1>4. CacheInvariant
  BY CacheAssumption DEF Init, SdkInit, CacheInvariant, CacheIsRecent, Once
<1>5. HandledInvariant
  <2>1. \A w \in Workflow, k \in {1, 2} : <<w, k>> \in Delivery
    BY Zenon, StepAssumption DEF Delivery
  <2>2. /\ \A i \in Instance : \A d \in Delivery : job[i][d] = "none"
        /\ \A i \in Instance : cache[i] = <<>> /\ subscribed[i] = {}
        /\ subscribed \in [Instance -> SUBSET {"health", "direct"}]
        /\ direct = {}
    BY Zenon DEF Init, SdkInit
  <2>3. NothingYet
    BY ONLY Zenon, <2>2 DEF NothingYet
  <2>4. NotDispatched
    BY ONLY Zenon, <2>1, <2>2 DEF NotDispatched
  <2>5. CachedWasHandled
    BY ONLY <2>2 DEF CachedWasHandled
  <2>6. SkippedWasHandled
    BY ONLY Zenon, <2>2 DEF SkippedWasHandled
  <2> QED
    BY Zenon, <2>2, <2>3, <2>4, <2>5, <2>6 DEF HandledInvariant
<1> QED
  BY Zenon, <1>1, <1>2, <1>3, <1>4, <1>5

\* When Stop comes to unregister, within its time limit, no handler is in flight
\* and none is admitted any more: dispatchStep checks the state before inFlight.Add.
THEOREM StopDrains == Spec => []DrainedBeforeUnregister
<1>1. Init => DrainInvariant
  BY Zenon, EdgeStarts
<1>2. DrainInvariant /\ [Next]_edgeVars => DrainInvariant'
  BY Zenon, DrainKept
<1>3. DrainInvariant => DrainedBeforeUnregister
  BY Zenon DEF DrainInvariant
<1> QED
  BY <1>1, <1>2, <1>3, PTL DEF Spec

\* The idempotency cache is an LRU cache, of any size: it holds the events looked
\* up or added last, in that order, through any hits, misses and evictions.
THEOREM CacheIsLRU == Spec => []CacheIsRecent
<1>1. Init => CacheInvariant
  BY Zenon, EdgeStarts
<1>2. CacheInvariant /\ [Next]_edgeVars => CacheInvariant'
  BY Zenon, CacheKept
<1>3. CacheInvariant => CacheIsRecent
  BY Zenon DEF CacheInvariant
<1> QED
  BY <1>1, <1>2, <1>3, PTL DEF Spec

\* No delivery is acknowledged as a duplicate before another one of the event was
\* handled: the cache learns of an event only after its handler, and each instance
\* has a cache and a consumer of its own.
THEOREM SkipsOnlyHandled == Spec => []SkippedWasHandled
<1> DEFINE I == DrainInvariant /\ TaskInvariant /\ CacheInvariant /\ HandledInvariant
<1>1. Init => I
  BY Zenon, EdgeStarts
<1>2. I /\ [Next]_edgeVars => I'
  BY Zenon, DrainKept, TaskKept, CacheKept, HandledKept
<1>3. I => SkippedWasHandled
  BY Zenon DEF HandledInvariant
<1> QED
  BY <1>1, <1>2, <1>3, PTL DEF Spec

\* The maps of a ManagedAgent and the life of its connections fit together.
THEOREM ConnInvariantHolds == Spec => []ConnInvariant
<1>1. Init => ConnInvariant
  BY Zenon, EdgeStarts
<1>2. ConnInvariant /\ [Next]_edgeVars => ConnInvariant'
  BY Zenon, ConnKept
<1> QED
  BY <1>1, <1>2, PTL DEF Spec

\* No fan-out meets a closed channel, and Deregister closes none twice, however
\* connections come and go while the agent is deregistered and registered again.
THEOREM ClosedIsUnmapped == Spec => []MappedIsOpen
<1>1. ConnInvariant => MappedIsOpen
  BY Zenon DEF ConnInvariant
<1> QED
  BY <1>1, ConnInvariantHolds, PTL

\* checkLiveness and the Add methods keep an agent's state in step with its
\* connections.
THEOREM ReachabilityCorrect == Spec => []ReachableIffConnected
<1>1. ConnInvariant => ReachableIffConnected
  BY Zenon DEF ConnInvariant
<1> QED
  BY <1>1, ConnInvariantHolds, PTL

\* What GetTask or CancelTask told a client of a task's end is never overwritten,
\* as the store compares revisions and no handler leaves a terminal status.
THEOREM OutcomeStands == Spec => ReportedOutcomeStands
<1>1. Init => TaskInvariant
  BY Zenon, EdgeStarts
<1>2. TaskInvariant /\ [Next]_edgeVars => TaskInvariant'
  BY Zenon, TaskKept
<1>3. TaskInvariant /\ [Next]_edgeVars =>
         [\A w \in Workflow : Stands(told[w], status'[w])]_taskVars
  BY Zenon, ToldStands
<1> QED
  BY <1>1, <1>2, <1>3, PTL DEF Spec, ReportedOutcomeStands

\* Every variable of the three parts keeps the type the Go declarations give it; no
\* cache outgrows its limit and no channel its capacity.
THEOREM EdgeTypes == Spec => []TypeOK
<1> DEFINE I == /\ DrainInvariant /\ TaskInvariant /\ ConnInvariant /\ CacheInvariant
                /\ HandledInvariant /\ SdkRest /\ SidecarRest /\ TaskRest
<1>1. Init => I
  <2> SUFFICES ASSUME Init PROVE SdkRest /\ SidecarRest /\ TaskRest
    BY Zenon, EdgeStarts
  <2>1. PICK s \in Scenarios : faults = s.faults /\ visits = s.visits /\ requests = s.requests
    BY Zenon DEF Init
  <2>2. SdkRest
    BY Zenon, <2>1, EdgeAssumption DEF Init, SdkInit, SdkRest
  <2>3. SidecarRest
    <3>1. /\ unsent = [c \in Client |-> {}] /\ channel = [c \in Client |-> <<>>]
          /\ seen = [c \in Client |-> {}] /\ server = "serving" /\ target = Nobody
      BY Zenon DEF Init, SidecarInit
    <3>2. visits \in [registers : Nat, deletes : Nat, connects : Nat, signals : Nat]
      BY Zenon, <2>1, EdgeAssumption
    <3> QED
      BY ONLY <3>1, <3>2, CapacityAssumption DEF SidecarRest
  <2>4. TaskRest
    BY Zenon, <2>1, EdgeAssumption DEF Init, TaskInit, TaskRest
  <2> QED
    BY Zenon, <2>2, <2>3, <2>4
<1>2. I /\ [Next]_edgeVars => I'
  BY Zenon, DrainKept, TaskKept, ConnKept, CacheKept, HandledKept, SdkRestKept, SidecarRestKept,
     TaskRestKept
<1>3. I => TypeOK
  <2> SUFFICES ASSUME I PROVE TypeOK
    BY Zenon
  <2>1. ASSUME NEW i \in Instance
        PROVE  Len(cache[i]) <= CacheSize
    <3>1. used[i] \in Seq(Step) /\ cache[i] = Recent(used[i])
      BY Zenon DEF CacheInvariant, CacheIsRecent, Recent
    <3> QED
      BY <3>1, RecentOf, CacheAssumption
  <2>2. SdkTypeOK
    BY Zenon, <2>1 DEF DrainInvariant, CacheInvariant, HandledInvariant, SdkRest, SdkTypeOK
  <2>3. SidecarTypeOK
    BY Zenon DEF ConnInvariant, ConnTypes, SidecarRest, SidecarTypeOK
  <2>4. TaskTypeOK
    BY Zenon DEF TaskInvariant, TaskRest, TaskTypeOK
  <2> QED
    BY Zenon, <2>2, <2>3, <2>4 DEF TypeOK
<1> QED
  BY <1>1, <1>2, <1>3, PTL DEF Spec

=============================================================================
