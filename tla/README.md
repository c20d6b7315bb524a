# TLA+ specification of BaranOS

BaranOS is an event-driven runtime for agents. Agents and subsystems talk over
NATS JetStream; what must survive a restart is kept in JetStream KV buckets and
updated with compare-and-swap on the entry's revision. The hard part is never
one handler by itself: it is that consumers, timer callbacks, goroutines and
HTTP handlers read and write the same entries, and that messages are delivered
at least once.

This directory models the parts of the system that keep state: the workflow
engine and its decision coordinator; the registry of agents with everything that
writes to it; the federation of nodes, with the routing of events between them;
the edges at which agents and clients meet the network (Go SDK, sidecar, A2A
gateway); and what an operator uses (live feed, replays, scenarios).

## Inventory

| Component | State | Operations that change it | What is hard |
|---|---|---|---|
| workflow engine (`core/workflow/engine.go`, `handler.go`, `timeout.go`, `stream_manager.go`, `state.go`) | workflow-state bucket, timers, stream registry, result subscriptions | start, dispatch, step result, advance, complete, fail, step timeout | results, timeouts and interrupted dispatches compete for one revision; timers are cancelled before a write is known to succeed; nothing but the bucket survives a restart |
| decision coordinator (`core/workflow/coordinator.go`, `runtime/ui.go`) | index of pending decisions, resume channels, the `PendingDecision` in the bucket | request, annotate conflicts, respond, time out, recover, resume | other workflows write into a paused workflow's entry; the index, the channel and the bucket change at different moments |
| event bus (`core/eventbus/nats`) | streams, durable consumers, a consumer counter | publish, subscribe, ack, Nak | at-least-once delivery; a publish that failed may have been stored; de-duplication by message ID |
| router (`core/router`) | stream registry | route direct, capability, workflow, broadcast, relay | one copy of several may fail; the target may have left the registry or moved to another node |
| agent registry, health monitor, discovery (`core/registry/kv.go`, `handler.go`, `core/health`, `core/discovery`) | agent bucket, missed-ping counters | register, unregister, status change, ping, pong, purge, announce | two writers, old pongs, revisions that are older than the entry just read |
| federation (`core/federation`) | node bucket, remote agents, result subscriptions | join, leave, ping, pong, cleanup, purge, announce, relay, forward results | no acknowledgements between nodes; a node that returns during its cleanup; late announcements; purges that fail halfway; nodes that join after an announcement; consumers that deliver again after a restart |
| simulation (`core/simulation`, its handlers in `core/runtime`) | sessions, definitions, watcher channels | create, start, publish, wait, stop, watch | stops and ends of requests race the session; slow browsers; a wait that begins after the event it waits for |
| operator feed (`core/runtime/operator_handler.go`) | ring, client channels | consume, append, connect, reconnect | the ring wraps; consumers of several streams append at once |
| Go SDK (`sdk/`) | registration, in-flight handlers, idempotency cache | start, stop, handle a step, answer pings | a redelivery while the step is running, eviction, a stop while steps arrive |
| sidecar (`sidecar/`) | managed agents, connections, channels | register, deregister, connect, disconnect, fan out, publish, shut down | channels are closed while others send on them |
| A2A gateway (`a2a/`) | tasks, external agents | create, get, cancel, poll | writes the workflow bucket behind the engine |
| runtime (`core/runtime/runtime.go`) | lifecycle state, subsystems | start, shut down, recover decisions | a crash between any two steps |
| alias registry (`core/registry/alias.go`, `federation/alias_sync.go`) | alias bucket | add, remove, resolve, import | used by tests only |
| taxonomy, Python and TypeScript SDKs, UI, generated protocol, examples | | | no state of their own, presentation, or generated code |

`PROJECT.json` has the same list with sources and status, and the hazards of
each part at the line where they bite.

## Modules

| Module | Content |
|---|---|
| `WorkflowLifecycle` | what the engine promises for a workflow of agent steps, without handlers, timers or messages |
| `WorkflowEngine` | the engine: data, handlers, timers, failing calls, crash; no `Next` of its own |
| `AgentWorkflow` | the engine on agent steps; safety, refinement, inductive invariant, liveness |
| `DecisionCoordinator` | the coordinator, the engine's waiting goroutine, recovery |
| `HumanWorkflow` | engine and coordinator composed; safety and liveness |
| `AgentRegistry` | the registry's bucket and the operations on it, as steps a goroutine takes; no `Next` of its own |
| `AgentHealth` | agents, registration handler, ping loop, pong consumer and gateway polling composed over the registry; safety, inductive invariant, liveness |
| `NodeRegistry` | the bucket of known nodes and the operations on it |
| `NodeFederation` | one node's view of its peers: registrations, departures, pings, deaths, cleanup, purges, failing calls, restart |
| `CapabilitySync` | how nodes learn of each other's agents: registry consumer, announcer, synchronisation, wire |
| `EventRelay` | the router and the gateway's relay over `CapabilitySync`; fan-out, relays, the way back of results, restarts of a gateway |
| `SdkAgent` | `Agent.Start`, `Stop`, step dispatch with the LRU cache, health pings |
| `SidecarGateway` | the sidecar's manager, its connections and its shutdown over `SdkAgent` |
| `TaskManager` | the A2A task manager over the workflow store |
| `AgentEdge` | sidecar, SDK agents and task manager composed with the engine's promise to them |
| `SessionWatchers` | the browsers that follow a session: sets, channels, streams |
| `SimulationSession` | what replays and scenarios share: session records, context, SIMULATION stream |
| `ReplayEngine`, `ScenarioEngine`, `Simulation` | the two kinds of session, and both with their watchers |
| `OperatorFeed` | the live feed: consumers, ring, browsers that reconnect |
| `OperatorConsole` | sessions and feed composed |
| `MCAgentWorkflow`, `MCHumanWorkflow`, `MCAgentHealth`, `MCNodeFederation`, `MCEventRelay`, `MCAgentEdge`, `MCOperatorConsole` | instances for TLC |
| `WorkflowEngineProofs` | typing lemmas about the engine's helpers and actions, used by the next two |
| `AgentWorkflowProofs` | the theorems about the engine on agent steps |
| `HumanWorkflowProofs` | the theorems about the engine with the decision coordinator |
| `AgentHealthProofs` | the theorems about agent health |
| `NodeFederationProofs` | the theorems about a node's view of its peers |
| `EventRelayProofs` | the theorems about the synchronisation of capabilities and the relay of events |
| `AgentEdgeProofs` | the theorems about SDK agents, their cache, sidecar connections and tasks |
| `OperatorConsoleProofs` | the theorems about sessions, the browsers that follow them and the feed's ring |

### How the engine's model corresponds to the code

A *thread* is one activation of a handler, named `<<kind, w>>` or
`<<kind, w, k>>` (`start`, `result`, `response`, `timer`, `resume`). `pc[t]` says
where it is and `loc[t]` holds its Go locals: the step it dispatches (`at`), the
state it has read (`snap`), the message it handles (`msg`), the error it is
about to store (`err`). A handler is split wherever another goroutine can run
in between: after each KV read, before each `Update`, around each publish and
timer operation. Every nested call in these handlers is a tail call
(`handleWorkflowStepResult` → `advanceWorkflow` → `dispatchStep` → ...), so no
stack is needed.

| Variable | Code |
|---|---|
| `kv` | `KVWorkflowStateStore`: status, current step, results, error, pending decision, revision |
| `armed`, `registered` | running `time.AfterFunc` timers, and the entries of `StepTimeoutManager.timers`; they differ between the firing of a timer and the deletion of its entry |
| `active`, `subscribed` | `WorkflowStreamManager.active`, subscriptions to step results; lost in a crash |
| `direct`, `inbox` | step messages agents have not taken, messages consumers have not acknowledged |
| `published` | the terminal events of each workflow, in order |
| `pending`, `noted` | `DecisionCoordinator.pending` and the `ConflictIDs` in memory |
| `todo`, `noting` | the loop of `updateConflictIDs` in `RequestDecision` |
| `resumeCh`, `channel` | the registered resume channel of a workflow, the content of each channel |
| `resolved` | `decision.resolved` events |
| `booting`, `recovering` | the part of a restart before and during `RecoverPending` |

A consumer handles one message at a time. A handler that returns nil
acknowledges its message, and the acknowledgement may be lost (`redelivered`);
one that returns an error leaves it for another delivery. `CallFails` and
`DecisionCallFails` let any bus or KV call fail, with the path the code takes
for that call. `CrashEngine` loses everything but the bucket and the streams.

Abstractions:

- payloads, names, prompts and times are left out. A result keeps its step, its
  status and whether an agent or an operator sent it; the error code an agent
  puts into a failed result is `STEP_FAILED` here;
- a decision is named by its step instead of a generated id. `dispatchStep`
  runs at most once for a step;
- each key counts its own writes. Revisions are only compared for equality;
- a failed `Update` is one that was not applied. A write that was applied and
  whose reply was lost is not modelled;
- stopping the timer and deleting the index entry are one step in
  `WithdrawDecision`, as are the read and the deletion in `DecisionTimeout`;
- equal responses to one decision that are in flight together are one message;
- conflict group ids and the `decision.conflict` event are not represented;
- agents and operators are not under the engine's control: an agent may answer
  with success or failure, twice, or never.

### How the health model corresponds to the code

The actors are goroutines: the consumers `register`, `unregister` and `pong`,
the ping loop `monitor`, and one polling goroutine of the gateway per external
agent. `pc[x]` and `loc[x]` are as above; `loc[x].seen` is the entry that
`UpdateStatus`, `RecordHeartbeat` or `IncrementMissedHeartbeats` has read again
before writing on the revision its caller passed.

| Variable | Code |
|---|---|
| `bucket` | status and `MissedHeartbeats` of each `AgentRegistration` |
| `held` | the revisions each goroutine has read: `a \in held[x]` if nobody has written `a` since |
| `alive` | SDK agents between `Start` and `Stop` or a crash; external endpoints that answer |
| `events` | `agent.register`, `agent.unregister` and `agent.health.pong` events not acknowledged |
| `pings` | pings an agent has still to answer |
| `todo` | keys `List` has still to read, agents the round has still to ping |
| `silence` | history: pings sent to an agent and polls it failed since the last sign of life |

Abstractions:

- a revision is only ever compared with the current one, so the model keeps the
  outcome of that comparison (`held`) in place of numbers;
- a count above `DeadThreshold` is not told from the next one (`MissedCap`);
- capabilities, labels and times are left out, and with them the validation at
  the start of `Register`: registrations are valid ones;
- an event that fails is delivered again later, in any order. A pong for an
  agent without an entry therefore waits until there is one;
- any set of agents receives a ping. It is published for everybody, but the
  consumer's name comes from a counter of the process, so agents in different
  processes can share one consumer and compete for the ping; and the error of
  its publication is ignored. Agents answer a ping whoever its target is;
- at most `MaxPending` events of one kind and agent are under way.

### How the federation's models correspond to the code

`NodeFederation` is one node: its subscriptions to `node.register`,
`node.unregister` and `node.health.pong`, and the ping and cleanup loops of
`NodeMonitor`. Its peers start, stop, crash and come back under a new identifier
as they like. Its calls to the buckets may fail: a handler that cannot look up,
register, mark or deregister a node logs it and returns, and a purge that fails
leaves the agents it has not come to (`PurgeFails`). A failing `List`, `Get` of a
pong or a departure, or write of one remote agent has the effect of a lost message
or of a round that comes later, which the model has anyway.

`EventRelay` has several nodes and looks at agents and events instead of the nodes'
health. Nodes join at any time (`members`); a gateway that joins is told of nodes
and aliases, never of agents that were announced before. The links between the
nodes' servers filter no subject, so the streams of other nodes may store what is
published on one: `Reached(n)` is any set of nodes with `n`, in scenarios that say
so (`carried`), and `n` alone in the others. This is how a step result gets to the
engine's node; the gateway's relay brings it there a second time, under a subject
of its own. Consumers deliver at least once (`redeliveries`), and the results of a
workflow are forwarded again by a gateway that has restarted, as
`relayedWorkflows` is in memory.

| Variable | Code |
|---|---|
| `entry`, `held` | the `NodeInfo` of each node in the bucket, and the current revisions each actor holds, as for agents |
| `inbox`, `wire` | federation messages; NATS core delivery, so they may be lost and overtake each other |
| `remote` | `remote.{node}.{agent}` entries of the agent registry |
| `members` | nodes whose gateway has started and subscribed |
| `pending`, `announcements`, `heard` | lifecycle events and announcements that consumers of a node's bus have still to handle, each in its order |
| `pc`, `at`, `sender`, `hops` | where a copy of an event is in `Route`, on which node, and how it came there |
| `direct` | the DIRECT stream with its message IDs, which it stores once |
| `known`, `stream`, `forwarder`, `results`, `returning` | `relayedWorkflows`, the workflow's stream, the subscription of `setupResultForwarding`, step results by subject with the number of relays behind them, results on the way back |
| `late` | history: agents stored while their node was not alive, since its last purge began |
| `left` | history: agents that a failed or interrupted purge left behind, since the node's last purge began |
| `excused` | history: the peers that need not know an agent, see `PeersLearn` |

Abstractions: agents offer one capability; versions and labels are left out; the
time a dead node is kept is an action (`Ages`).

### How the models of the edges correspond to the code

`AgentEdge` is one sidecar process that serves one agent ID, and a task manager.
An *instance* is one registration of the ID: a `ManagedAgent` with its SDK
`Agent`. `phase` is where its `Start` or `Stop` is, with each failure `Start`
undoes; `job` is what became of each delivery of a step (looked up in the cache,
admitted under the agent's lock, handled, published, cached, acknowledged, or
refused, skipped, failed).

| Variable | Code |
|---|---|
| `startCtx`, `busCtx` | the context given to `Start` and the one handlers publish with |
| `subscribed`, `cache`, `present` | subscriptions, the LRU list, what the network last heard (register or unregister) |
| `agents`, `lock`, `managed` | `AgentManager.agents`, its mutex during `Register`, `ManagedAgent.State` |
| `clients`, `channel`, `closed`, `conn`, `at` | the connection maps, the buffered channels, where each SSE or WebSocket handler is |
| `server`, `target` | shutdown: `StopAll`, one agent after the other |
| `status`, `fresh`, `cancelling`, `told` | the workflow store, the revisions `CancelTask` holds, the last answer to a client |

The engine is reduced to what `WorkflowLifecycle` promises: a workflow starts,
its step is sent, the first result or a timeout decides it. Abstractions: JSON
and protobuf forms, authentication, the limit on agents, callback URLs, and
acknowledgements by the program, which the sidecar ignores. A delivery may come
twice, in either order. An SSE handler receives from its channel without asking
whether it is closed, so after a deregistration it writes zero events until its
client leaves (`ZeroEvent` in `WriteLoop`); a WebSocket handler stops.

### How the models of simulation and feed correspond to the code

A session is its record, the goroutine of `runSession` or `executeScenario`
(`pc`), and the context that `StopSession` and the end of the HTTP request
cancel. A publish that fails may or may not have been stored. A watcher is an
HTTP stream: the handler, its channel of bounded size and its place in the set
of its session. `GetWorkflowEvents` may return a prefix of the events.

| Variable | Code |
|---|---|
| `state`, `total`, `count` | `State`, `TotalEvents`/`TotalSteps`, `ReplayedEvents`/`InjectedEvents` |
| `clients`, `terminal`, `channel`, `closed` | `sessionWatcherSet`, `scenarioWatcherSet`: the set, the kept final notification, the channels |
| `heard` | what the condition's consumer, which delivers new events only, has received |
| `checked`, `registered` | `RegisterScenario` between its duplicate check and its write; the map of definitions |
| `ring`, `ringIdx`, `ringLen` | the ring buffer of the feed, as an array with its two counters |
| `queue`, `feeding`, `buffer`, `last` | each stream's consumer and the event it handles, the channel of each browser, its `Last-Event-ID` |
| `stored`, `written`, `overrun`, `asked`, `shown`, `unaware`, `history`, `got`, `warned` | the stream's content and history |

## Runs

Passing runs:

| Run | Instance | Shows |
|---|---|---|
| `agent_safety` | one workflow, two agent steps; one failed call, one redelivery, one crash; agents that answer | records, outcomes and messages stay consistent; the engine implements `WorkflowLifecycle`; without a failed call or a crash a started workflow ends and its end is announced |
| `human_safety` | either an agent step and a human step with one failed call, redelivery or crash, or two human steps with one redelivery | one verdict per decision; a recorded approval is real and recorded once; a paused workflow stays visible to operators |
| `human_conflict` | two workflows with a human step each on one resource; operators who deny | conflicts are noted both ways; no answer, timeout or annotation undoes an outcome; no workflow stays in `WAITING_HUMAN`, apart from the case `PauseEnds` names |
| `human_liveness` | an agent step and two human steps; agents answer and operators approve | an approved workflow goes on, apart from the three cases `ApprovedResumes` names |
| `agent_health` | an SDK agent that starts twice and ends once, or an external one whose endpoint fails once; one failed call or one crash; thresholds 2 and 3 | missed heartbeats are never overcounted, status and count agree, only a registration revives a dead agent, one that is gone is no longer found |
| `node_federation` | two peers, an agent on one of them; six scenarios of joins, departures, answered pings, propagations, announcements, a failing call, a restart; thresholds 1 and 2 | the agents of a dead or forgotten node are purged unless announced since or left by a purge that failed or was interrupted; only a registration revives a node; a departed node is forgotten |
| `event_relay` | two nodes that join at any time, two agents; five scenarios: a step on buses that see each other's events and a restart, an agent that moves, a fan-out, two steps with a restart, a failing call and a lost message, and a purge with a redelivery | once all is quiet peers know what is offered, apart from the cases `PeersLearn` names; no routed copy is swallowed by de-duplication; a result relayed back is not relayed on |
| `agent_edge` | an agent registered twice, two connections, three steps, four tasks; six scenarios | a stopped agent has no handler left; a skipped delivery was handled; the cache is the most recent events; no closed channel is in a map; an agent is active exactly while connected; a reported outcome stands; `Stop` ends |
| `operator_console` | a replay and a scenario of two events each, two watchers with channels of one, a ring of two; four scenarios | counts agree with the stream, a stop is effective, an outcome is final, watchers see events in order and the outcome last, the ring recovers exactly the missed events or reports a gap, sessions and streams end |

Runs in which TLC finds a property violated that the documentation or a comment
states. `findings` in `PROJECT.json` quotes the line.

| Run | What happens |
|---|---|
| `human_pause` | a second result of an agent step arrives while the workflow waits for an approval and moves it past the human step |
| `relay_loop` | an agent moves from one node to the other and back; each node lists it as the other's, and `routeDirect` relays an event it does not find an agent for although the event is marked as relayed |
| `sidecar_pings` | the SDK agent of a sidecar registration answers pings under the context of the HTTP request, which is cancelled when the request returns: no pong gets out |

Some properties name exceptions; each stands for something the code does and the
models reach. A result is recorded for whatever step is current, since
`advanceWorkflow` does not compare `StepIndex` with `CurrentStep`
(`RecordsMatchStatus` counts results, it does not match them with steps). `InStep(w)`
says that this has not happened to workflow `w`, and `HumanWorkflow`'s properties
are about such workflows where a second result can spoil them: it moves the
workflow past a step whose decision is still open, so that the next approval
that is sent to the workflow's channel is taken by the goroutine of another step
(`ApprovalsAreReal`), a decision stays in the bucket that nobody has indexed
(`PausedIsVisible`), a completed workflow is failed by a dispatch that has yet to
find that its agent is gone (`OnlyRequestReopens`), and the conflict annotation of
a request that is still going on puts a resolved decision back into the state
(`ResolvedOnce`, only where decisions compete for a resource, `Contended`). The
runs' two steps are too few for these four: TLC reaches the first with the steps
agent, human, human, the next two with agent, human, agent, and the last with
three human steps after an agent's and a second workflow that waits for the
resource. A restart forgets the
`ConflictIDs` in memory and restores those the bucket had, so after it decisions
that compete need not name each other (`ConflictsMutual`) and may be written
back without their conflicts (`PausedIsVisible`).

The annotation of another workflow that needs the same resource can come between
the read and the write of an answer; the answer has withdrawn timer and index entry
by then, takes the lost write for a decision already processed, and the workflow
stays paused (`PauseEnds`, `Overtaken`). An approval does not resume its workflow if
it is processed before the resume channel is registered, if its decision times out
at the same moment, or if the handler of the human step before deletes the channel,
which it does by workflow after the send that let the workflow go on
(`ApprovedResumes`, `Displaced`); nor does one after a restart (the run has no
crash).

An announcement handled after its node's death registers the agent until the next
purge of the node (`late`), and a purge that fails or is interrupted leaves agents
until then (`left`); `DeadNodesArePurged` says that these are all, and that each
purge that begins takes them on. A peer does not learn of an agent if it joined
after the announcement was sent, if it purged the agent with its node (nothing
announces it again when the node comes back), if the message was lost, or if the
node itself handled the announcement before the registration was stored
(`PeersLearn`).

### Bounds

Two steps are the least number with a next step to dispatch, a last step, and a
handler that is late for the step before. One failed call, one redelivery and
one crash together reach every error path, since each of them returns from its
handler or falls through at once. One workflow is enough where workflows share
nothing: handlers, timers and messages carry the workflow's id. They share the
index and the conflict annotations, which `human_conflict` covers with two
workflows, and the two consumers of `workflow.start` and of decision responses,
whose turns are guards of `HandleWorkflowStart` and `ReceiveResponse`.

`human_safety` uses the state constraint `OneStarted` to explore two kinds of
workflow in one run: a behaviour starts one of `w1` (agent, human) and `w2`
(human, human), with one fault, redelivery or crash in all for `w1` and one
redelivery for `w2`. `human_conflict` has operators that deny only; an approval
differs from a denial after the write. `human_liveness` has operators that approve
only: a denial ends the workflow with the same write. It has two human steps, the
least with a channel that can be another step's.

`agent_health` has one agent of either kind: entries are independent, and what
agents share (the round of the monitor, the turn of a consumer) only delays
them. The theorems are for any number. Thresholds 2 and 3 keep a count below
the first, one between the two, and the step to `DEAD`; two attempts of
`handlePong` have a first, a retry and a last. A scenario allows a failed call
or a crash, not both, to keep liveness checking within a minute; the theorems
allow any number of each.

The other models are bounded by *scenarios*: `Init` picks one of a few records
that say how often each request, fault or message may still happen, and what
takes part. Each scenario spends its bound on one kind of race (a stop and a
failing call; connections of one agent; an agent that moves between nodes), so
that the races are explored in full and their product is not.

- `node_federation`: two peers, so that one can propagate another's registration;
  thresholds 1 and 2 keep the three states of a count apart. One failing call is
  enough to leave an agent behind, and the next purge takes it.
- `event_relay`: two nodes are the least with a relay, and with a loop; two steps
  of one workflow compete for the forwarding. `MaxHops` 2 lets a result or an event
  be relayed on once, which violates `ResultsDoNotBounce` or `RelayedAtMostOnce`
  already.
- `agent_edge`: the second registration of an ID meets the first while it stops;
  three steps and a cache of two evict; channels of one are full at once.
- `operator_console`: two events make one with a delay before it and one without;
  the ring of two wraps with the third event; a channel of one drops the second.

Type invariants are checked by `node_federation`, `event_relay`, `agent_edge` and
`operator_console` (where they include the capacity of channels) and proved for
every composed specification.

Deadlock is not checked: once every workflow or session has ended and nothing is
in flight the processes rest.

### Fairness

`EngineFairness` is weak fairness of each started handler, of each consumer with
a message in its stream and of each armed timer: goroutines are scheduled,
JetStream delivers, `time.AfterFunc` fires. Faults, crashes and redeliveries are
never fair. `AgentFairness` and `OperatorFairness` are separate, since nothing
in the code makes an agent or an operator answer; the properties that need them
are checked under `FairAgentsSpec` or `AttendedSpec`.

In `AgentHealth` the ping loop and the polls are weakly fair (tickers fire) and
so are handlers under way. Taking an event is strongly fair for each agent: a
consumer is busy with other events in between, and JetStream delivers an event
again until it is acknowledged. Starting, stopping and answering is not fair.

In `NodeFederation` the subscriptions and loops of the node go on and time
passes; peers owe nothing. In `AgentEdge` the goroutines that start, register,
stop and close go on; no handler has to return and no program has to read. In
`OperatorConsole` the goroutine of a started session goes on, which includes that
delays and condition timeouts expire, and a handler writes what is in its
channel; nobody has to start, stop or leave.

## Proofs

`AgentWorkflowProofs` proves, for every set of workflows, every number of agent
steps and all bounds:

| Theorem | Statement |
|---|---|
| `InvariantHolds` | `Spec => []InductiveInvariant` |
| `TypeCorrect` | `Spec => []TypeOK` |
| `RecordsCorrect` | `Spec => []RecordsMatchStatus` |
| `OutcomesCorrect` | `Spec => []OutcomesAgree` |
| `MessagesCorrect` | `Spec => []PreviousResultsComplete` |
| `TerminalStays` | `Spec => TerminalIsFinal` |
| `LifecycleImplemented` | `Spec => ImplementsLifecycle` |

Assumptions: `StepsAssumption` (a workflow is a sequence of steps),
`BoundsAssumption` (the bounds are natural numbers) and `AgentStepsAssumption`
(no step needs an approval).

None of the properties is inductive by itself. `RecordsMatchStatus` survives a
write only if the written state was built on the stored one. So the invariant
adds:

- `StateRead`: a handler between its read and its `Update` holds a state whose
  revision is at most the stored one, and *is* the stored state when the
  revisions are equal; it has the status its branch tested;
- `StateStored`: what the position of a handler says about the bucket, for
  example that nobody has announced yet when a handler is about to publish
  `workflow.complete`;
- `Roles`: which kind of handler can be where, so that only the one consumer of
  results can advance or complete a workflow;
- `Beginning`: until the first step is sent there is no result to handle. This
  keeps completion out of the way of the `workflow.start` handler, whose
  dispatch does not look at the status it reads.

The proof sums up what a step of a handler does to the bucket and the outcomes
(`StepEffect`: it keeps them, writes one of four kinds of state or announces
one outcome). The other handlers, the beginnings and the records follow from
that summary (`OthersKept`, `BeginningsKept`, `RecordsKept`); what is left for
each action is its own handler (`ActorKept`). `TerminalStays` and
`LifecycleImplemented` are read off the same summary.

`HumanWorkflowProofs` proves, for every set of workflows, every sequence of agent
and human steps, any resources and all bounds on failing calls, redeliveries and
crashes:

| Theorem | Statement |
|---|---|
| `DecisionInvariantHolds` | `Spec => []DecisionInvariant` |
| `DecisionTypes` | `Spec => []TypeOK` |
| `VerdictsAreUnique` | `Spec => []ResolvedOnce` |
| `ApprovalsAreTheirOwn` | `Spec => []ApprovalsAreReal` |
| `PausesAreIndexed` | `Spec => []PausedIsVisible` |
| `ConflictsAreMutual` | `Spec => []ConflictsMutual` |
| `OutcomesStand` | `Spec => OnlyRequestReopens` |

Assumptions: `StepsAssumption`, `BoundsAssumption` and `VerdictAssumption` (an
operator approves or denies).

Here five kinds of handler of one workflow, and the annotations of other
workflows, write the same entry, so the invariant has more parts:

- `Local(t)`: of one handler, where it can be (`Roles`), whose message it has in
  hand (`InHand`), that what it has read is the stored state or outdated
  (`StateRead`), that it deals with a step that was reached (`OnTrack`) and what
  conflicts it may write (`Annotations`);
- `Stored(w)` and `UnderWay`: the same of the bucket's entry, and of messages,
  timers, channels and the index;
- `Fresh(t)`: a step is dispatched by one thread, and until that thread has sent
  it, asked for it or scheduled its timeout, no message, timer, goroutine, answer
  or verdict of that step exists (`Alone`). This is what makes a decision
  requested once, and it rests on the workflow's results being appended one by
  one;
- `StartedOnce`, `Paused(w)`, `Verdicts(w)`, `Once(d)`: timers start and approvals
  are recorded once; a paused workflow in step waits for its current step; every
  approval on its way, in a channel, a goroutine or the results, belongs to a
  decision that was resolved with success; a decision that is being resolved, or
  was, is no longer asked for;
- `Visible(w)`: a pause without conflicts is in the index, or some handler is
  about to put it there or to end it. Since `ProcessResponse` takes the decision
  out of the index before it writes, this needs that its write cannot be lost:
  nobody else can have written since its read.

The proof sums up a step as `Effect(t)`, seen from the thread that takes it:
which thread moves from where to where (`Moves`), which of eight kinds of write
the bucket gets (`Bucket`), which verdict is published or sent (`VerdictMove`) and
what becomes of the index (`IndexMove`). `EngineEffect`, `DecisionEffect`,
`EnvironmentEffect` and `OutsideEffect` show the summary action by action, and
`EngineLocal` and `DecisionLocal` keep the facts about the handler that moves.
All other parts follow from the summary alone, by lemmas that trace what is new
in the next state to its cause (`DispatchTrace`, `VerdictTrace`, ...). A crash is
apart: it keeps the bucket, the messages and the verdicts (`CrashPreserves`).

`AgentHealthProofs` proves, for every set of SDK and external agents, all
thresholds and all bounds:

| Theorem | Statement |
|---|---|
| `HealthInvariantHolds` | `Spec => []HealthInvariant` |
| `CountDeserved` | `Spec => []CountIsDeserved` |
| `StatusMatches` | `Spec => []StatusMatchesCount` |
| `DeadAgentStaysDead` | `Spec => DeadStaysDead` |

Assumptions: `ThresholdAssumption` (0 < unhealthy < dead), `AgentAssumption`
(names of agents and goroutines are distinct) and `BoundAssumption`.

`CountIsDeserved` is not inductive: the ping is counted some steps after it was
sent, by a writer that has read the entry apart from its revision. The
invariant adds

- `Positions` and `Locals`: where each goroutine can be and what its locals hold;
- `ReadIsStored`: a writer whose revision is current has read the stored entry.
  This is what makes reading the entry again harmless;
- `ListedIsLive`: an entry on the monitor's list that nobody has written since is
  active or unhealthy, so the monitor never counts on for a dead agent;
- `CountIsAccounted`: the stored count *and* the increments that can still
  succeed are covered by pings and failed polls since the last sign of life.

The proof looks at one entry per step: it is kept, it is written by a sign of
life, which outdates all increments under way, or it is written by one of those
increments (`SignOfLife`, `PingAccounted`, `PollAccounted`). The other entries
are covered by `OthersKept`.

`NodeFederationProofs` proves, for any nodes, agents, thresholds and bounds:

| Theorem | Statement |
|---|---|
| `NodeInvariantHolds` | `Spec => []NodeInvariant` |
| `NodeTypes` | `Spec => []TypeOK` |
| `PurgeIsComplete` | `Spec => []DeadNodesArePurged` |
| `DeadStaysDead` | `Spec => DeadUntilRegistered` |

Assumptions: `NodeThresholdAssumption` (0 < unhealthy < dead) and
`FederationAssumption` (every agent has a home node). `NodeInvariant` adds to the
types that a handler at work has a node (`HasNode`), that a handler whose update
will succeed has read the stored status (`ReadIsStored`), and that an agent of a
node that is not alive is on the list of a purge, or the purge has still to list
it, or it is late or was left (`PurgeCovers`). The last is what makes
`DeadNodesArePurged` inductive: a purge works through the keys it has read, and an
announcement may add one behind its back. A step either leaves the purges as they
are (`KeptCovers`), begins one (`BeginCovers`), or has one fail (`NotPurgedCovers`).

`EventRelayProofs` proves, for any nodes, agents, events and bounds on losses,
redeliveries, faults, purges and restarts:

| Theorem | Statement |
|---|---|
| `RelayInvariantHolds` | `Spec => []RelayInvariant` |
| `RelayTypes` | `Spec => []TypeOK` |
| `PeersHaveLearned` | `Spec => []PeersLearn` |
| `RoutedCopiesStored` | `Spec => []RoutedIsStored` |
| `ReturnedStays` | `Spec => []ResultsDoNotBounce` |

Assumptions: `NobodyAssumption` and `RelayAssumption` (bounds are numbers, kinds
of events are disjoint). `RelayInvariant` follows an announcement on its way from
the lifecycle event over the node's own stream and the wire to the peer's
registry (`OnItsWay`); what could undo it, a removal, exists only for agents that
have stopped (`NeverStopped`). Copies of an event start once, so two of them never
share a message ID (`CopiesStartOnce`). For results it is enough that what a
gateway subscribes to has never been relayed: a returned one is stored under the
other subject, however often it is forwarded.

`OperatorConsoleProofs` proves, for any sessions, scripts, definitions, watchers,
browsers, sizes of channels and ring, and all bounds, of the composed
`ConsoleSpec`:

| Theorem | Statement |
|---|---|
| `SessionInvariantHolds` | `ConsoleSpec => []SessionInvariant` |
| `CountsCorrect` | `ConsoleSpec => []CountsStored` |
| `StopEffective` | `ConsoleSpec => []StopCutsShort` |
| `OutcomeFinal` | `ConsoleSpec => OutcomeIsFinal` |
| `WatcherInvariantHolds` | `ConsoleSpec => []WatcherInvariant` |
| `WatchersSeeOrder` | `ConsoleSpec => []ShownInOrder` |
| `WatchersLearnOutcome` | `ConsoleSpec => []EndIsTold` |
| `FeedInvariantHolds` | `ConsoleSpec => []FeedInvariant` |
| `RingComplete` | `ConsoleSpec => []RingRecovers` |
| `ConsoleTypes` | `ConsoleSpec => []ConsoleTypeOK` |

Assumptions: `SessionAssumption` (every session has a script that is not empty),
`SimulationAssumption` (a session is a replay or a scenario), `WatcherAssumption`
(every watcher follows a session, channels have room), `FeedAssumption` (the ring
and the browsers' channels have room) and `ConsoleAssumption` (simulated events
have a stream).

`CountsStored` is not inductive, because it does not say where the goroutine is
between storing and counting an event. `SessionInvariant` ties its place to the
state (`Located`), to the difference of the two counters (`Counted`) and to what
was stored after a stop (`Stopped`). The watchers' properties need more than what
a browser has seen: `WatcherInvariant` says that the shown and the waiting
notifications together are in order (`InOrder`), that nothing told to a watcher
of a running session is ahead of the count or of the event about to be shown
(`ToldPast`), that a watcher is in the set until its channel is closed (`Placed`)
and that the last word in a closed channel is the kept outcome (`ToldEnd`).
`FeedInvariant` says which slot of the ring holds which of the last events
received (`RingHolds`) and that no event is received twice (`Distinct`), from which
what `findInRing` returns is computed for every size of the ring.

`AgentEdgeProofs` proves, for any numbers of instances, connections, steps, tasks
and workflows and all bounds:

| Theorem | Statement |
|---|---|
| `StopDrains` | `Spec => []DrainedBeforeUnregister` |
| `ConnInvariantHolds` | `Spec => []ConnInvariant` |
| `ClosedIsUnmapped` | `Spec => []MappedIsOpen` |
| `ReachabilityCorrect` | `Spec => []ReachableIffConnected` |
| `OutcomeStands` | `Spec => ReportedOutcomeStands` |
| `SkipsOnlyHandled` | `Spec => []SkippedWasHandled` |
| `CacheIsLRU` | `Spec => []CacheIsRecent` |
| `EdgeTypes` | `Spec => []TypeOK` |

Assumptions: `StepAssumption` (a workflow has one step, named like it),
`InstanceAssumption` (no instance is named `Nobody`), `CacheAssumption` and
`CapacityAssumption` (cache and channels have room) and `EdgeAssumption` (the
bounds are numbers).

SDK, sidecar and store share few variables, so each has an invariant of its own.
`DrainInvariant` is typing and the property: that suffices because a delivery is
admitted under the lock under which `Stop` changes the phase. `ConnInvariant`
adds which instances have been registered (`WasRegistered`) and which handlers
have been attached (`Attached`), so that a connection never enters the map of an
instance whose clients are being closed. `TaskInvariant` adds that whoever may
still cancel has read a running workflow. `CacheInvariant` is about the order of
use, in which no event occurs twice; `HandledInvariant` adds that what the cache
holds was handled to the end (`CachedWasHandled`).

Every invariant and action property of the passing runs is proved. Only
model-checked are the liveness properties (the proof system does not reason
about fairness and `ENABLED`): `WorkflowEnds`, `PauseEnds`, `ApprovedResumes`,
`GoneAgentAvoided`, `DepartedIsForgotten`, `SessionsEnd` and `DeregisterEnds`.

## Not modelled

- *Alias registry and its synchronisation*: no program of the repository creates
  one; `SetAliasRegistry` is called by tests only.
- *Taxonomy*, the matching of capability patterns, validation of names: pure
  string functions over a constant catalog.
- *Python and TypeScript SDKs*: clients of the sidecar without state shared with
  it. *Web UI*, *examples*, *commands*, *generated protocol code*.
- *Runtime start-up and shutdown* beyond a crash and recovery: straight-line code;
  likewise the process-wide counter in consumer names, whose effect (a consumer
  that reads its stream from the start again) `SdkAgent` has.
- *Broadcast routing* and the choice of a stream by subject: an append and a table
  look-up.
- Endpoints and replies that only read (`workflow.state.request`, discovery,
  event-store queries, agent cards, the operator's lists), and
  `handleAgentUnregister`, which does nothing.
- Wording, formatting and logging everywhere; TLS, authentication, HTTP details.
