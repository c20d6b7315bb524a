----------------------------- MODULE AgentHealth -----------------------------
(***************************************************************************)
(* Who is alive: agents and their registration events, the health monitor  *)
(* with its ping loop and its pong consumer, and the gateway's polling of  *)
(* external agents, all writing the same registry entries.                 *)
(***************************************************************************)
EXTENDS AgentRegistry

CONSTANTS
    MaxRetries,     \* attempts of handlePong
    MaxPending,     \* bound: unhandled events of one kind and agent
    Scenarios       \* bounds on starts and stops of agents, failing calls and
                    \* crashes, with the external agents the gateway is given

Scenario ==
    [starts : Nat, stops : Nat, faults : Nat, crashes : Nat, external : SUBSET External]

ASSUME BoundAssumption ==
    /\ MaxRetries \in Nat \ {0}
    /\ MaxPending \in Nat \ {0}
    /\ Scenarios \subseteq Scenario

VARIABLES
    alive,      \* the agents that run; an external one answers its endpoint
    events,     \* unacknowledged events of each consumer, counted per agent
    pings,      \* pings an SDK agent has still to handle
    todo,       \* what is left of the monitor's round
    silence,    \* history: pings and failed polls since the last sign of life
    budget      \* what is left of the scenario's bounds

healthVars == <<alive, events, pings, todo, silence, budget>>
vars == <<bucket, held, pc, loc, alive, events, pings, todo, silence, budget>>

MonitorLabel == {"idle", "list", "ping", "reread", "write", "dead", "purge"}
ConsumerLabel == {"idle", "registerGet", "registerUpdate", "reread", "write", "retry", "ack"}
GatewayLabel == {"onboard", "registerGet", "registerUpdate", "off", "idle",
                 "reachable", "unreachable", "reread", "write"}

\* The agent a goroutine is busy with, the operation it runs on the registry,
\* the entry that operation has read, and the attempts made.
Local == [at : Agent \cup {"nobody"},
          op : {"none", "increment", "heartbeat", "activate"},
          seen : AgentRegistration,
          tries : 0..MaxRetries]

\* Every variable keeps the shape the Go types give it.
TypeOK ==
    /\ bucket \in [Agent -> AgentRegistration]
    /\ held \in [Actor -> SUBSET Agent]
    /\ pc \in [Actor -> MonitorLabel \cup ConsumerLabel \cup GatewayLabel]
    /\ loc \in [Actor -> Local]
    /\ alive \subseteq Agent
    /\ events \in [Consumer -> [Managed -> 0..MaxPending]]
    /\ pings \in [Managed -> 0..MaxPending]
    /\ todo \in [keys : SUBSET Agent, listed : SUBSET Agent]
    /\ silence \in [Agent -> 0..MissedCap]
    /\ budget \in Scenario

NothingToDo == [keys |-> {}, listed |-> {}]

Init ==
    /\ budget \in Scenarios
    /\ bucket = [a \in Agent |-> NoEntry]
    /\ held = [x \in Actor |-> {}]
    /\ pc = [x \in Actor |-> IF x \notin External THEN "idle"
                          ELSE IF x \in budget.external THEN "onboard" ELSE "off"]
    /\ loc = [x \in Actor |-> NoLocals]
    /\ alive = budget.external
    /\ events = [c \in Consumer |-> [a \in Managed |-> 0]]
    /\ pings = [a \in Managed |-> 0]
    /\ todo = NothingToDo
    /\ silence = [a \in Agent |-> 0]

-----------------------------------------------------------------------------
(* Agents *)

Spend(what) ==
    /\ budget[what] > 0
    /\ budget' = [budget EXCEPT ![what] = @ - 1]

\* A publish that fails leaves no event; so does one beyond the bound.
Publish(c, a) == events' = [events EXCEPT ![c][a] = @ + 1]
HasRoom(c, a) == events[c][a] < MaxPending

\* Start publishes agent.register and fails if it cannot.
StartAgent(a) ==
    /\ a \in Managed \ alive
    /\ HasRoom("register", a)
    /\ Spend("starts")
    /\ alive' = alive \cup {a}
    /\ Publish("register", a)
    /\ UNCHANGED registryVars
    /\ UNCHANGED <<pings, todo, silence>>

Ends(a) ==
    /\ a \in alive
    /\ alive' = alive \ {a}
    /\ Spend("stops")

\* Stop publishes agent.unregister; a failure is only logged, as if crashed.
StopAgent(a) ==
    /\ a \in Managed
    /\ Ends(a)
    /\ HasRoom("unregister", a)
    /\ Publish("unregister", a)
    /\ UNCHANGED registryVars
    /\ UNCHANGED <<pings, todo, silence>>

\* An agent dies silently, or an external endpoint stops answering.
CrashAgent(a) ==
    /\ Ends(a)
    /\ UNCHANGED registryVars
    /\ UNCHANGED <<events, pings, todo, silence>>

EndpointReturns(a) ==
    /\ a \in budget.external \ alive
    /\ alive' = alive \cup {a}
    /\ UNCHANGED registryVars
    /\ UNCHANGED <<events, pings, todo, silence, budget>>

\* An agent answers every ping it gets, whoever its target is, in its own name.
AnswerPing(a) ==
    /\ a \in Managed \cap alive
    /\ pings[a] > 0
    /\ pings' = [pings EXCEPT ![a] = @ - 1]
    /\ \/ HasRoom("pong", a) /\ Publish("pong", a)
       \/ UNCHANGED events
    /\ UNCHANGED registryVars
    /\ UNCHANGED <<alive, todo, silence, budget>>

-----------------------------------------------------------------------------
(* The registry's handler: consumers of agent.register and agent.unregister *)

\* An agent whose registration or heartbeat is written has been heard of.
HeardIfAbsent(a) == silence' = [silence EXCEPT ![a] = IF Present(a) THEN @ ELSE 0]

HeardIfWritten(x) ==
    silence' = [silence EXCEPT ![loc[x].at] = IF Current(x, loc[x].at) THEN 0 ELSE @]

At(x, a) == loc' = [loc EXCEPT ![x] = Busy(a, "none", 0)]

HandleRegister(a) ==
    /\ pc["register"] = "idle"
    /\ events["register"][a] > 0
    /\ RegisterCreate("register", a, "ack")
    /\ At("register", a)
    /\ HeardIfAbsent(a)
    /\ UNCHANGED <<alive, events, pings, todo, budget>>

\* A failed registration is reported as agent.error and acknowledged.
HandlerRegisterGet ==
    /\ RegisterGet("register", "ack")
    /\ UNCHANGED loc
    /\ UNCHANGED healthVars

HandlerRegisterUpdate ==
    /\ RegisterUpdate("register", "ack", "ack")
    /\ HeardIfWritten("register")
    /\ UNCHANGED <<loc, alive, events, pings, todo, budget>>

HandleUnregister(a) ==
    /\ pc["unregister"] = "idle"
    /\ events["unregister"][a] > 0
    /\ Purge(a)
    /\ Goto("unregister", "ack")
    /\ At("unregister", a)
    /\ UNCHANGED healthVars

Finish(x, l) ==
    /\ Goto(x, l)
    /\ loc' = [loc EXCEPT ![x] = NoLocals]

Ack(c) ==
    /\ pc[c] = "ack"
    /\ events' = [events EXCEPT ![c][loc[c].at] = @ - 1]
    /\ Finish(c, "idle")
    /\ UNCHANGED <<bucket, held, alive, pings, todo, silence, budget>>

-----------------------------------------------------------------------------
(* The ping loop *)

\* List reads the keys, then every entry; a purged one is left out.
StartRound ==
    LET keys == {a \in Agent : Present(a)} IN
    /\ pc["monitor"] = "idle"
    /\ keys # {}
    /\ todo' = [keys |-> keys, listed |-> {}]
    /\ Goto("monitor", "list")
    /\ held' = [held EXCEPT !["monitor"] = {}]
    /\ UNCHANGED <<bucket, loc, alive, events, pings, silence, budget>>

ListGet(a) ==
    /\ pc["monitor"] = "list"
    /\ a \in todo.keys
    /\ todo' = [keys   |-> todo.keys \ {a},
                listed |-> todo.listed \cup
                           (IF bucket[a].status \in {"active", "unhealthy"} THEN {a} ELSE {})]
    /\ ReadRevision("monitor", a)
    /\ Goto("monitor", IF todo.keys = {a} THEN "ping" ELSE "list")
    /\ UNCHANGED <<loc, alive, events, pings, silence, budget>>

\* A ping is broadcast, but agents that share a consumer compete for it and its
\* publication may fail: any set of agents gets it.
Ping(a) ==
    /\ pc["monitor"] = "ping"
    /\ a \in todo.listed
    /\ todo' = [todo EXCEPT !.listed = @ \ {a}]
    /\ \E S \in SUBSET {b \in Managed : pings[b] < MaxPending} :
          pings' = [b \in Managed |-> IF b \in S THEN pings[b] + 1 ELSE pings[b]]
    /\ silence' = [silence EXCEPT ![a] = Capped(@ + 1)]
    /\ loc' = [loc EXCEPT !["monitor"] = Busy(a, "increment", 0)]
    /\ Goto("monitor", "reread")
    /\ UNCHANGED <<bucket, held, alive, events, budget>>

EndRound ==
    /\ pc["monitor"] = "ping"
    /\ todo.listed = {}
    /\ Finish("monitor", "idle")
    /\ UNCHANGED <<bucket, held>>
    /\ UNCHANGED healthVars

MonitorReread ==
    /\ Reread("monitor", "ping")
    /\ UNCHANGED healthVars

MonitorWrite ==
    /\ Write("monitor", IF NewValue("monitor").status = "dead" THEN "dead" ELSE "ping", "ping")
    /\ UNCHANGED healthVars

\* handleDeadAgent publishes agent.error, whether or not that succeeds ...
AnnounceDead ==
    /\ pc["monitor"] = "dead"
    /\ Goto("monitor", "purge")
    /\ UNCHANGED <<bucket, held, loc>>
    /\ UNCHANGED healthVars

\* ... and removes the entry whatever its revision is by now.
PurgeDead ==
    /\ pc["monitor"] = "purge"
    /\ Purge(loc["monitor"].at)
    /\ Goto("monitor", "ping")
    /\ UNCHANGED loc
    /\ UNCHANGED healthVars

-----------------------------------------------------------------------------
(* The pong consumer *)

\* Without an entry the handler fails and the pong is delivered again later.
HandlePong(a) ==
    /\ pc["pong"] = "idle"
    /\ events["pong"][a] > 0
    /\ Present(a)
    /\ ReadRevision("pong", a)
    /\ loc' = [loc EXCEPT !["pong"] = Busy(a, "heartbeat", 1)]
    /\ Goto("pong", "reread")
    /\ UNCHANGED healthVars

\* After MaxRetries attempts the handler gives up.
AfterConflict == IF loc["pong"].tries < MaxRetries THEN "retry" ELSE "idle"

PongReread ==
    /\ Reread("pong", AfterConflict)
    /\ UNCHANGED healthVars

PongWrite ==
    /\ Write("pong", "ack", AfterConflict)
    /\ HeardIfWritten("pong")
    /\ UNCHANGED <<alive, events, pings, todo, budget>>

RetryPong ==
    /\ pc["pong"] = "retry"
    /\ ReadRevision("pong", loc["pong"].at)
    /\ Goto("pong", IF Present(loc["pong"].at) THEN "reread" ELSE "idle")
    /\ loc' = [loc EXCEPT !["pong"].tries = @ + 1]
    /\ UNCHANGED healthVars

-----------------------------------------------------------------------------
(* The gateway: onboarding and polling of an external agent *)

\* OnboardExternalAgent needs the Agent Card; an agent that could not be
\* onboarded is not polled.
Onboard(e) ==
    /\ pc[e] = "onboard"
    /\ e \in alive
    /\ RegisterCreate(e, e, "idle")
    /\ HeardIfAbsent(e)
    /\ At(e, e)
    /\ UNCHANGED <<alive, events, pings, todo, budget>>

OnboardUnreachable(e) ==
    /\ pc[e] = "onboard"
    /\ e \notin alive
    /\ Goto(e, "off")
    /\ UNCHANGED <<bucket, held, loc>>
    /\ UNCHANGED healthVars

OnboardGet(e) ==
    /\ RegisterGet(e, "off")
    /\ UNCHANGED loc
    /\ UNCHANGED healthVars

OnboardUpdate(e) ==
    /\ RegisterUpdate(e, "idle", "off")
    /\ HeardIfWritten(e)
    /\ UNCHANGED <<loc, alive, events, pings, todo, budget>>

\* checkHealth fetches the card first ...
FetchAgentCard(e) ==
    /\ pc[e] = "idle"
    /\ Goto(e, IF e \in alive THEN "reachable" ELSE "unreachable")
    /\ silence' = [silence EXCEPT ![e] = IF e \in alive THEN @ ELSE Capped(@ + 1)]
    /\ UNCHANGED <<bucket, held, loc, alive, events, pings, todo, budget>>

PollOperation(e) ==
    IF pc[e] = "unreachable" THEN "increment"
    ELSE IF bucket[e].status # "active" THEN "activate"
    ELSE "heartbeat"

\* ... then reads the entry and chooses what to write.
CheckHealth(e) ==
    /\ pc[e] \in {"reachable", "unreachable"}
    /\ ReadRevision(e, e)
    /\ loc' = [loc EXCEPT ![e] = Busy(e, PollOperation(e), 0)]
    /\ Goto(e, IF Present(e) THEN "reread" ELSE "idle")
    /\ UNCHANGED healthVars

PollReread(e) ==
    /\ Reread(e, "idle")
    /\ UNCHANGED healthVars

PollWrite(e) ==
    /\ Write(e, "idle", "idle")
    /\ IF loc[e].op = "heartbeat" THEN HeardIfWritten(e) ELSE UNCHANGED silence
    /\ UNCHANGED <<alive, events, pings, todo, budget>>

-----------------------------------------------------------------------------
(* Failing calls and crashes *)

\* Where a handler goes when a call returns an error.  Nobody looks at the error
\* of the purge of a dead agent.  If the acknowledgement is lost, or agent.error
\* cannot be published before it, the event is delivered again.
AfterFailure(x) ==
    CASE x = "register" -> IF pc[x] = "ack" THEN "idle" ELSE "ack"
      [] x = "unregister" -> "idle"
      [] x = "monitor"  -> IF pc[x] = "list" THEN "idle" ELSE "ping"
      [] x = "pong"     -> IF pc[x] \in {"retry", "ack"} THEN "idle" ELSE AfterConflict
      [] x \in External -> IF pc[x] \in {"onboard", "registerGet", "registerUpdate"}
                           THEN "off" ELSE "idle"

CallFails(x) ==
    /\ Spend("faults")
    /\ pc[x] \in {"list", "reread", "write", "purge", "registerGet", "registerUpdate",
                  "retry", "ack", "onboard", "reachable", "unreachable"}
    /\ Goto(x, AfterFailure(x))
    /\ todo' = IF pc[x] = "list" THEN NothingToDo ELSE todo
    /\ UNCHANGED <<bucket, held, loc, alive, events, pings, silence>>

\* Register takes any error of Create for an existing entry.
CreateFails(a) ==
    /\ Spend("faults")
    /\ pc["register"] = "idle"
    /\ events["register"][a] > 0
    /\ Goto("register", "registerGet")
    /\ At("register", a)
    /\ UNCHANGED <<bucket, held, alive, events, pings, todo, silence>>

Restart(X, label) ==
    /\ Spend("crashes")
    /\ pc' = [x \in Actor |-> IF x \in X THEN label ELSE pc[x]]
    /\ loc' = [x \in Actor |-> IF x \in X THEN NoLocals ELSE loc[x]]
    /\ held' = [x \in Actor |-> IF x \in X THEN {} ELSE held[x]]
    /\ UNCHANGED <<bucket, alive, events, pings, silence>>

\* The runtime loses its handlers; durable consumers deliver unacknowledged
\* events again.
CrashRuntime ==
    /\ Restart(Consumer \cup {"monitor"}, "idle")
    /\ todo' = NothingToDo

\* The gateway onboards its agents anew.
CrashGateway ==
    /\ budget.external # {}
    /\ Restart(budget.external, "onboard")
    /\ UNCHANGED todo

-----------------------------------------------------------------------------

Handler ==
    \/ \E a \in Managed : HandleRegister(a) \/ HandleUnregister(a)
    \/ HandlerRegisterGet
    \/ HandlerRegisterUpdate
    \/ \E c \in Consumer : Ack(c)

Monitor ==
    \/ StartRound
    \/ \E a \in Agent : ListGet(a) \/ Ping(a)
    \/ MonitorReread
    \/ MonitorWrite
    \/ AnnounceDead
    \/ PurgeDead
    \/ EndRound

Pong ==
    \/ \E a \in Managed : HandlePong(a)
    \/ PongReread
    \/ PongWrite
    \/ RetryPong

Poll(e) ==
    \/ Onboard(e)
    \/ OnboardUnreachable(e)
    \/ OnboardGet(e)
    \/ OnboardUpdate(e)
    \/ FetchAgentCard(e)
    \/ CheckHealth(e)
    \/ PollReread(e)
    \/ PollWrite(e)

Environment ==
    \/ \E a \in Agent : StartAgent(a) \/ StopAgent(a) \/ CrashAgent(a) \/ EndpointReturns(a)
    \/ \E a \in Managed : AnswerPing(a) \/ CreateFails(a)
    \/ \E x \in Actor : CallFails(x)
    \/ CrashRuntime
    \/ CrashGateway

Next == Handler \/ Monitor \/ Pong \/ (\E e \in External : Poll(e)) \/ Environment

Spec == Init /\ [][Next]_vars

-----------------------------------------------------------------------------
(* Safety *)

\* However pongs, registrations, purges and polls race with the ping loop, the
\* stored count never exceeds the pings and polls an agent really left
\* unanswered: IncrementMissedHeartbeats never overwrites a heartbeat or a new
\* registration, although it reads the entry apart from the revision it writes on.
CountIsDeserved ==
    \A a \in Agent : bucket[a].missed <= silence[a]

StatusFits(r) ==
    /\ r.status = "active" => r.missed < UnhealthyThreshold
    /\ r.status = "unhealthy" => r.missed \in UnhealthyThreshold..(DeadThreshold - 1)
    /\ r.status = "dead" => r.missed \in {0, DeadThreshold}

\* An SDK agent's status says how often it was missed: ACTIVE below the first
\* threshold, UNHEALTHY between the two; a DEAD entry stands at the second one,
\* or was reset by a pong that came too late to revive it.
StatusMatchesCount == \A a \in Managed : StatusFits(bucket[a])

OnlyRegisterRevives(a) ==
    bucket[a].status = "dead" /\ bucket'[a].status \notin {"dead", "none"} =>
        /\ bucket'[a] = NewEntry
        /\ pc["register"] = "registerUpdate"
        /\ loc["register"].at = a

\* Nothing but a new registration revives an SDK agent that is declared dead:
\* a late pong or a stale increment leaves a DEAD entry DEAD.
DeadStaysDead == [][\A a \in Managed : OnlyRegisterRevives(a)]_vars

-----------------------------------------------------------------------------
(* The inductive invariant behind the safety properties *)

\* Which goroutine can be where, and what its local variables hold there.
Positions ==
    /\ pc["register"] \in {"idle", "registerGet", "registerUpdate", "ack"}
    /\ pc["unregister"] \in {"idle", "ack"}
    /\ pc["pong"] \in {"idle", "reread", "write", "retry", "ack"}
    /\ pc["monitor"] \in MonitorLabel
    /\ \A e \in External : pc[e] \in GatewayLabel

Locals ==
    /\ \A c \in Consumer : pc[c] # "idle" =>
          loc[c].at \in Managed /\ events[c][loc[c].at] > 0
    /\ pc["pong"] \in {"reread", "write"} => loc["pong"].op = "heartbeat"
    /\ pc["pong"] = "retry" => loc["pong"].op = "heartbeat" /\ loc["pong"].tries < MaxRetries
    /\ pc["monitor"] \in {"reread", "write", "dead", "purge"} =>
          loc["monitor"].at \in Agent /\ loc["monitor"].op = "increment"
    /\ \A e \in External :
          /\ pc[e] \in {"registerGet", "registerUpdate", "reread", "write"} => loc[e].at = e
          /\ pc[e] \in {"reread", "write"} => loc[e].op # "none"

\* An operation about to write on a current revision holds the stored entry,
\* although it read the entry after the revision.
ReadIsStored ==
    \A x \in Actor : pc[x] = "write" /\ Current(x, loc[x].at) => loc[x].seen = bucket[loc[x].at]

\* The monitor's list is right about every entry nobody has written since.
ListedIsLive ==
    /\ todo.keys \cap todo.listed = {}
    /\ \A a \in Agent :
          /\ Current("monitor", a)
          /\ a \in todo.listed \/ (pc["monitor"] \in {"reread", "write"} /\ loc["monitor"].at = a)
          => bucket[a].status \in {"active", "unhealthy"}

\* A ping or failed poll that may still be counted is one the count lacks.
PingPending(a) ==
    /\ pc["monitor"] \in {"reread", "write"}
    /\ loc["monitor"].at = a
    /\ Current("monitor", a)

PollPending(a) ==
    /\ a \in External
    /\ \/ pc[a] = "unreachable"
       \/ pc[a] \in {"reread", "write"} /\ loc[a].op = "increment" /\ Current(a, a)

Pending(a) == (IF PingPending(a) THEN 1 ELSE 0) + (IF PollPending(a) THEN 1 ELSE 0)

CountIsAccounted ==
    \A a \in Agent : Capped(bucket[a].missed + Pending(a)) <= silence[a]

\* Together with the thresholds this is preserved by every step.
HealthInvariant ==
    /\ TypeOK
    /\ Positions
    /\ Locals
    /\ ReadIsStored
    /\ ListedIsLive
    /\ CountIsAccounted
    /\ StatusMatchesCount

-----------------------------------------------------------------------------
(* Liveness *)

\* Consumers get their events, the tickers of the ping loop and of the polls
\* fire.  Nothing makes an agent start, stop or answer.
Fairness ==
    /\ WF_vars(Monitor)
    /\ WF_vars(HandlerRegisterGet \/ HandlerRegisterUpdate)
    /\ WF_vars(PongReread \/ PongWrite \/ RetryPong)
    /\ \A c \in Consumer : WF_vars(Ack(c))
    /\ \A a \in Managed :
          /\ SF_vars(HandleRegister(a))
          /\ SF_vars(HandleUnregister(a))
          /\ SF_vars(HandlePong(a))
    /\ \A e \in External : WF_vars(Poll(e))

FairSpec == Spec /\ Fairness

\* An agent that is gone for good ends up outside FindByCapability's answers
\* for good, whatever events it left behind and even if the runtime restarts.
GoneAgentAvoided ==
    \A a \in Agent : <>[](a \notin alive) => <>[](bucket[a].status # "active")

=============================================================================
