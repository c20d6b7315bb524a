------------------------------ MODULE SdkAgent ------------------------------
(***************************************************************************)
(* The Go SDK's Agent: Start, the dispatch of step events to handlers with *)
(* the LRU cache of handled events, and Stop, which drains the handlers.   *)
(*                                                                         *)
(* An instance is one Agent object; all instances serve one agent ID, the  *)
(* case in which they meet: an agent stopped and started again.  A step    *)
(* event may be delivered twice to a consumer (an acknowledgement is       *)
(* lost); the order of the deliveries is left open.                        *)
(***************************************************************************)
EXTENDS Naturals, Sequences

CONSTANTS
    Instance,           \* the Agent objects created for the agent ID
    Step,               \* the step events addressed to the agent ID
    CacheSize,          \* entries of the idempotency cache
    HandlerResult       \* what a step handler may return

ASSUME CacheAssumption == CacheSize \in Nat \ {0}

VARIABLES
    up,             \* the process runs
    phase,          \* where each instance's Start or Stop is
    startCtx,       \* is the context given to Start still live
    busCtx,         \* the context in-flight handlers publish with
    subscribed,     \* its live subscriptions
    job,            \* what became of each delivery to its step consumer
    cache,          \* the handled events, the most recently used first
    used,           \* all events ever used in the cache, the last one first (history)
    forced,         \* Stop gave up waiting for the handlers
    unanswered,     \* a ping was received and no pong could be published
    direct,         \* the step events the bus stores for the agent ID
    results,        \* the step results published
    present,        \* is the last lifecycle event seen a registration
    faults          \* bus failures and lost acknowledgements left

sdkVars == <<up, phase, startCtx, busCtx, subscribed, job, cache, used, forced,
             unanswered, direct, results, present, faults>>

Starting == {"register", "health", "direct", "run"}
Stopping == {"unsubscribe", "drain", "unregister"}
Phase == {"none", "running", "failed", "stopped"} \cup Starting \cup Stopping

Delivery == Step \X {1, 2}
InFlight == {"added", "invoked", "bare", "published"}
Job == {"none", "unread", "checked", "skipped", "refused", "done"} \cup InFlight

SdkInit ==
    /\ up = TRUE
    /\ phase = [i \in Instance |-> "none"]
    /\ startCtx = [i \in Instance |-> TRUE]
    /\ busCtx = [i \in Instance |-> "nil"]
    /\ subscribed = [i \in Instance |-> {}]
    /\ job = [i \in Instance |-> [d \in Delivery |-> "none"]]
    /\ cache = [i \in Instance |-> <<>>]
    /\ used = [i \in Instance |-> <<>>]
    /\ forced = [i \in Instance |-> FALSE]
    /\ unanswered = [i \in Instance |-> FALSE]
    /\ direct = {}
    /\ results = {}
    /\ present = FALSE

SdkTypeOK ==
    /\ up \in BOOLEAN
    /\ phase \in [Instance -> Phase]
    /\ startCtx \in [Instance -> BOOLEAN]
    /\ busCtx \in [Instance -> {"nil", "live", "cancelled"}]
    /\ subscribed \in [Instance -> SUBSET {"health", "direct"}]
    /\ job \in [Instance -> [Delivery -> Job]]
    /\ cache \in [Instance -> Seq(Step)]
    /\ \A i \in Instance : Len(cache[i]) <= CacheSize
    /\ used \in [Instance -> Seq(Step)]
    /\ forced \in [Instance -> BOOLEAN]
    /\ unanswered \in [Instance -> BOOLEAN]
    /\ direct \subseteq Step
    /\ results \subseteq [step : Step, value : HandlerResult \cup {"answer"}]
    /\ present \in BOOLEAN
    /\ faults \in Nat

-----------------------------------------------------------------------------
(* Start *)

Goto(i, p) == phase' = [phase EXCEPT ![i] = p]

\* A call on the bus fails when its context is cancelled, or when the bus fails.
BusWorks(ctx) == ctx /\ UNCHANGED faults
BusFails(ctx) ==
    \/ ~ctx /\ UNCHANGED faults
    \/ ctx /\ faults > 0 /\ faults' = faults - 1

Start(i) ==
    /\ phase[i] = "none"
    /\ Goto(i, "register")

Register(i) ==
    /\ phase[i] = "register"
    /\ BusWorks(startCtx[i])
    /\ present' = TRUE
    /\ Goto(i, "health")
    /\ UNCHANGED <<subscribed, job, busCtx>>

SubscribeHealth(i) ==
    /\ phase[i] = "health"
    /\ BusWorks(startCtx[i])
    /\ subscribed' = [subscribed EXCEPT ![i] = @ \cup {"health"}]
    /\ Goto(i, "direct")
    /\ UNCHANGED <<present, job, busCtx>>

\* A new consumer, which is given every event the stream still stores.
SubscribeDirect(i) ==
    /\ phase[i] = "direct"
    /\ BusWorks(startCtx[i])
    /\ subscribed' = [subscribed EXCEPT ![i] = @ \cup {"direct"}]
    /\ job' = [job EXCEPT ![i] = [d \in Delivery |->
                 IF d[1] \in direct /\ d[2] = 1 THEN "unread" ELSE "none"]]
    /\ Goto(i, "run")
    /\ UNCHANGED <<present, busCtx>>

\* The context for in-flight handlers is set with the state, after the
\* subscriptions are live.
Run(i) ==
    /\ phase[i] = "run"
    /\ busCtx' = [busCtx EXCEPT ![i] = "live"]
    /\ Goto(i, "running")
    /\ UNCHANGED <<present, subscribed, job, faults>>

\* The subscriptions made so far are left in place.
StartFails(i) ==
    /\ phase[i] \in {"register", "health", "direct"}
    /\ BusFails(startCtx[i])
    /\ Goto(i, "failed")
    /\ UNCHANGED <<present, subscribed, job, busCtx>>

StartStep(i) ==
    /\ \/ Register(i)
       \/ SubscribeHealth(i)
       \/ SubscribeDirect(i)
       \/ Run(i)
       \/ StartFails(i)
    /\ UNCHANGED <<up, startCtx, cache, used, forced, unanswered, direct, results>>
-----------------------------------------------------------------------------
(* Dispatch of a delivery: look it up, admit it, run its handler *)

Become(i, d, j) == job' = [job EXCEPT ![i][d] = j]

MoveToFront(seq, k) ==
    [j \in DOMAIN seq |-> IF j = 1 THEN seq[k] ELSE IF j <= k THEN seq[j - 1] ELSE seq[j]]

\* The entry of s moves to the front of the list; one that is not there is put there.
ToFront(seq, s) ==
    IF \E k \in DOMAIN seq : seq[k] = s
    THEN MoveToFront(seq, CHOOSE k \in DOMAIN seq : seq[k] = s)
    ELSE <<s>> \o seq

\* The consumer's callback handles one delivery at a time.
ConsumerFree(i) == \A d \in Delivery : job[i][d] \notin {"checked", "added"}

Has(i, s) == \E k \in DOMAIN cache[i] : cache[i][k] = s

\* Mutant: an event counts as handled once it has been looked up.
LookUpRemembers(i, d) ==
    /\ job[i][d] = "unread"
    /\ "direct" \in subscribed[i]
    /\ ConsumerFree(i)
    /\ IF Has(i, d[1])
       THEN Become(i, d, "skipped") /\ UNCHANGED <<cache, used>>
       ELSE /\ Become(i, d, "checked")
            /\ cache' = [cache EXCEPT ![i] = <<d[1]>>]
            /\ used' = [used EXCEPT ![i] = ToFront(@, d[1])]

\* A hit is acknowledged and moves to the front of the cache.
LookUp(i, d) ==
    /\ job[i][d] = "unread"
    /\ "direct" \in subscribed[i]
    /\ ConsumerFree(i)
    /\ IF Has(i, d[1])
       THEN /\ Become(i, d, "skipped")
            /\ cache' = [cache EXCEPT ![i] = ToFront(@, d[1])]
            /\ used' = [used EXCEPT ![i] = ToFront(@, d[1])]
       ELSE Become(i, d, "checked") /\ UNCHANGED <<cache, used>>

\* Mutant: the state is not looked at again under the lock.
AdmitAlways(i, d) ==
    /\ job[i][d] = "checked"
    /\ Become(i, d, "added")

\* Under the read lock: refused once Stop has begun, else counted as in flight.
Admit(i, d) ==
    /\ job[i][d] = "checked"
    /\ Become(i, d, IF phase[i] \in Stopping \cup {"stopped"} THEN "refused" ELSE "added")

\* busCtx is read without the lock; while the agent is still starting it is nil.
Spawn(i, d) ==
    /\ job[i][d] = "added"
    /\ Become(i, d, IF busCtx[i] = "nil" THEN "bare" ELSE "invoked")

\* The handler returns (a panic is turned into an error) and its result is
\* published; a failure to publish it is only logged.
PublishStepResult(i, d) ==
    /\ job[i][d] = "invoked"
    /\ Become(i, d, "published")
    /\ \/ /\ BusWorks(busCtx[i] = "live")
          /\ \E v \in HandlerResult : results' = results \cup {[step |-> d[1], value |-> v]}
       \/ BusFails(busCtx[i] = "live") /\ UNCHANGED results

\* Publishing with a nil context panics, outside the recovery of safeInvoke.
PublishWithoutContext(i, d) ==
    /\ job[i][d] = "bare"
    /\ up' = FALSE

\* Mutant: a full cache evicts the entry used last.
AddEvictsFirst(i, s) ==
    IF Has(i, s) THEN UNCHANGED <<cache, used>>
    ELSE /\ cache' = [cache EXCEPT ![i] =
                        <<s>> \o (IF Len(@) >= CacheSize THEN Tail(@) ELSE @)]
         /\ used' = [used EXCEPT ![i] = ToFront(@, s)]

\* A full cache evicts the entry that was used least recently.
Add(i, s) ==
    IF Has(i, s) THEN UNCHANGED <<cache, used>>
    ELSE /\ cache' = [cache EXCEPT ![i] =
                        <<s>> \o (IF Len(@) >= CacheSize THEN SubSeq(@, 1, Len(@) - 1) ELSE @)]
         /\ used' = [used EXCEPT ![i] = ToFront(@, s)]

Finish(i, d) ==
    /\ job[i][d] = "published"
    /\ Add(i, d[1])
    /\ Become(i, d, "done")

\* The acknowledgement of a handled delivery is lost: it comes again.
Redeliver(i, d) ==
    /\ faults > 0
    /\ d[2] = 1
    /\ job[i][d] \in {"invoked", "published", "done"}
    /\ job[i][<<d[1], 2>>] = "none"
    /\ "direct" \in subscribed[i]
    /\ Become(i, <<d[1], 2>>, "unread")
    /\ faults' = faults - 1

DispatchStep(i, d) ==
    /\ \/ /\ LookUp(i, d)
          /\ UNCHANGED <<results, faults, up>>
       \/ /\ Admit(i, d) \/ Spawn(i, d)
          /\ UNCHANGED <<cache, used, results, faults, up>>
       \/ /\ PublishStepResult(i, d)
          /\ UNCHANGED <<cache, used, up>>
       \/ /\ PublishWithoutContext(i, d)
          /\ UNCHANGED <<job, cache, used, results, faults>>
       \/ /\ Finish(i, d)
          /\ UNCHANGED <<results, faults, up>>
       \/ /\ Redeliver(i, d)
          /\ UNCHANGED <<cache, used, results, up>>
    /\ UNCHANGED <<phase, startCtx, busCtx, subscribed, forced, unanswered, direct, present>>

-----------------------------------------------------------------------------
(* Health pings, answered with the context given to Start *)

\* A pong that cannot be published is only logged.
HealthPing(i) ==
    /\ "health" \in subscribed[i]
    /\ unanswered' = [unanswered EXCEPT ![i] = @ \/ (phase[i] = "running" /\ ~startCtx[i])]
    /\ UNCHANGED <<up, phase, startCtx, busCtx, subscribed, job, cache, used, forced,
                   direct, results, present, faults>>

-----------------------------------------------------------------------------
(* Stop *)

Stop(i) == IF phase[i] = "running" THEN Goto(i, "unsubscribe") ELSE UNCHANGED phase

Unsubscribe(i) ==
    /\ phase[i] = "unsubscribe"
    /\ subscribed' = [subscribed EXCEPT ![i] = {}]
    /\ Goto(i, "drain")
    /\ UNCHANGED <<busCtx, forced, present, faults>>

HandlersOf(i) == {d \in Delivery : job[i][d] \in InFlight}

\* Mutant: the handlers are waited for without a limit.
DrainUnlimited(i) ==
    /\ phase[i] = "drain"
    /\ HandlersOf(i) = {}
    /\ UNCHANGED forced
    /\ busCtx' = [busCtx EXCEPT ![i] = "cancelled"]
    /\ Goto(i, "unregister")
    /\ UNCHANGED <<subscribed, present, faults>>

\* The handlers are waited for, up to a time limit.
Drain(i) ==
    /\ phase[i] = "drain"
    /\ forced' = [forced EXCEPT ![i] = HandlersOf(i) # {}]
    /\ busCtx' = [busCtx EXCEPT ![i] = "cancelled"]
    /\ Goto(i, "unregister")
    /\ UNCHANGED <<subscribed, present, faults>>

\* A failure to unregister is only logged.
Unregister(i) ==
    /\ phase[i] = "unregister"
    /\ \/ BusWorks(TRUE) /\ present' = FALSE
       \/ BusFails(TRUE) /\ UNCHANGED present
    /\ Goto(i, "stopped")
    /\ UNCHANGED <<subscribed, busCtx, forced>>

StopStep(i) ==
    /\ Unsubscribe(i) \/ Drain(i) \/ Unregister(i)
    /\ UNCHANGED <<up, startCtx, job, cache, used, unanswered, direct, results>>

-----------------------------------------------------------------------------
(* Properties *)

\* Unless the time limit of Stop passed, an agent that has come to unregister
\* has no handler in flight and admits none any more, and no step it admitted
\* is still to be answered: the comment in Stop that no Add can race with Wait.
DrainedBeforeUnregister ==
    \A i \in Instance :
        phase[i] \in {"unregister", "stopped"} /\ ~forced[i] => HandlersOf(i) = {}

\* A delivery is skipped as a duplicate only when another delivery of the event
\* has been handled to the end: what is acknowledged without being handled was
\* handled before.  Its result need not have been published, as a step is cached
\* even when that fails.
SkippedWasHandled ==
    \A i \in Instance, d \in Delivery :
        job[i][d] = "skipped" => \E k \in {1, 2} : job[i][<<d[1], k>>] = "done"

\* The cache holds the events used most recently, in the order of their use,
\* whatever hits, misses and evictions came before.
CacheIsRecent ==
    \A i \in Instance :
        cache[i] = SubSeq(used[i], 1, IF Len(used[i]) < CacheSize THEN Len(used[i]) ELSE CacheSize)

\* A running agent has answered every health ping it received: "registered,
\* handling steps and health pings".
PingsAnswered == \A i \in Instance : ~unanswered[i]
=============================================================================
