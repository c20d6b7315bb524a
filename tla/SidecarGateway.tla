--------------------------- MODULE SidecarGateway ---------------------------
(***************************************************************************)
(* The sidecar: it runs an SDK agent for a program outside the bus, and    *)
(* passes the agent's step events on to the program's SSE and WebSocket    *)
(* connections.  The program answers by publishing through the sidecar.    *)
(*                                                                         *)
(* One agent ID; an instance is one ManagedAgent with its SDK agent.       *)
(* Abstracted: the JSON and protobuf forms of events, authentication, the  *)
(* limit on the number of agents, callback URLs (which keep an agent       *)
(* active without a connection), LastActivity, acknowledgements (which the *)
(* sidecar ignores).                                                       *)
(***************************************************************************)
EXTENDS SdkAgent

CONSTANTS
    SSEClient,          \* connections to GET /agents/{id}/events
    WSClient,           \* connections to GET /agents/{id}/ws
    Capacity            \* events a connection's channel holds

ASSUME CapacityAssumption == Capacity \in Nat \ {0}

Client == SSEClient \cup WSClient
Nobody == 0
ZeroEvent == 0          \* what is read from a channel that is closed and empty

ASSUME InstanceAssumption == Nobody \notin Instance

VARIABLES
    agents,         \* the instance the manager's map holds for the ID
    lock,           \* the instance whose registration holds the manager's lock
    managed,        \* State of each ManagedAgent
    removed,        \* instances taken from the map, not closed yet
    clients,        \* the connections in each ManagedAgent's maps
    hadClient,      \* instances that have had a connection (history)
    conn,           \* where each connection's handler is
    at,             \* the ManagedAgent its handler found
    unsent,         \* events its own bus subscription has still to deliver
    channel,        \* events waiting for its write loop
    closed,         \* its channel (SSE) or done signal (WebSocket) is closed
    seen,           \* events the program has received on it
    server,         \* where the sidecar process is in its life
    target,         \* the instance StopAll is stopping
    visits          \* requests and signals still to come

sidecarVars == <<agents, lock, managed, removed, clients, hadClient, conn, at, unsent,
                 channel, closed, seen, server, target, visits>>
connVars == <<conn, at, unsent, channel, closed, seen>>

SidecarInit ==
    /\ agents = Nobody
    /\ lock = Nobody
    /\ managed = [i \in Instance |-> "none"]
    /\ removed = {}
    /\ clients = [i \in Instance |-> {}]
    /\ hadClient = {}
    /\ conn = [c \in Client |-> "idle"]
    /\ at = [c \in Client |-> Nobody]
    /\ unsent = [c \in Client |-> {}]
    /\ channel = [c \in Client |-> <<>>]
    /\ closed = {}
    /\ seen = [c \in Client |-> {}]
    /\ server = "serving"
    /\ target = Nobody

SidecarTypeOK ==
    /\ agents \in Instance \cup {Nobody}
    /\ lock \in Instance \cup {Nobody}
    /\ managed \in [Instance -> {"none", "active", "unreachable", "deregistered"}]
    /\ removed \subseteq Instance
    /\ clients \in [Instance -> SUBSET Client]
    /\ hadClient \subseteq Instance
    /\ conn \in [Client -> {"idle", "found", "attached", "open"}]
    /\ at \in [Client -> Instance \cup {Nobody}]
    /\ unsent \in [Client -> SUBSET Step]
    /\ channel \in [Client -> Seq(Step)]
    /\ \A c \in Client : Len(channel[c]) <= Capacity
    /\ closed \subseteq Client
    /\ seen \in [Client -> SUBSET (Step \cup {ZeroEvent})]
    /\ server \in {"serving", "stopAll", "stopWait", "shutdown", "exited"}
    /\ target \in Instance \cup {Nobody}
    /\ visits \in [registers : Nat, deletes : Nat, connects : Nat, signals : Nat]

Alive == up /\ server # "exited"

\* The HTTP server takes requests until StopAll has returned.
Listening == server \in {"serving", "stopAll", "stopWait"}

Visit(kind) ==
    /\ visits[kind] > 0
    /\ visits' = [visits EXCEPT ![kind] = @ - 1]

-----------------------------------------------------------------------------
(* Registration: the manager's lock is held until the SDK agent has started *)

\* A request for an ID in the map, or while the lock is held, waits or fails.
HandleRegister(i) ==
    /\ Listening
    /\ Visit("registers")
    /\ lock = Nobody
    /\ agents = Nobody
    /\ \A j \in Instance : j < i => phase[j] # "none"
    /\ Start(i)
    /\ lock' = i
    /\ UNCHANGED <<agents, managed, startCtx>>

RegisterEnds(i) ==
    /\ lock = i
    /\ \/ /\ phase[i] = "running"
          /\ agents' = i
          /\ managed' = [managed EXCEPT ![i] = "active"]
          /\ UNCHANGED startCtx
       \/ /\ phase[i] = "failed"
          /\ startCtx' = [startCtx EXCEPT ![i] = FALSE]
          /\ UNCHANGED <<agents, managed>>
    /\ lock' = Nobody
    /\ UNCHANGED <<phase, visits>>

\* The context given to Start is derived from the request's, which net/http
\* cancels when the request handler returns.
RequestReturns(i) ==
    /\ managed[i] # "none"
    /\ startCtx[i]
    /\ startCtx' = [startCtx EXCEPT ![i] = FALSE]
    /\ UNCHANGED <<agents, lock, managed, phase, visits>>

Registration(i) ==
    /\ HandleRegister(i) \/ RegisterEnds(i) \/ RequestReturns(i)
    /\ UNCHANGED <<up, busCtx, subscribed, job, cache, used, forced, unanswered, direct,
                   results, present, faults, removed, clients, hadClient, server, target>>
    /\ UNCHANGED connVars

-----------------------------------------------------------------------------
(* Deregistration: out of the map, then the connections, then the SDK agent *)

TakeFromMap(i) ==
    /\ lock = Nobody
    /\ agents = i
    /\ agents' = Nobody
    /\ removed' = removed \cup {i}
    /\ UNCHANGED <<managed, clients, closed, phase, startCtx>>

\* Mutant: the maps keep the connections that were closed.
CloseKeeps(i) ==
    /\ i \in removed
    /\ removed' = removed \ {i}
    /\ managed' = [managed EXCEPT ![i] = "deregistered"]
    /\ closed' = closed \cup clients[i]
    /\ startCtx' = [startCtx EXCEPT ![i] = FALSE]
    /\ Stop(i)
    /\ UNCHANGED <<agents, clients>>

\* Under the agent's lock; cancelFn and the start of the SDK agent's Stop follow.
CloseClients(i) ==
    /\ i \in removed
    /\ removed' = removed \ {i}
    /\ managed' = [managed EXCEPT ![i] = "deregistered"]
    /\ closed' = closed \cup clients[i]
    /\ clients' = [clients EXCEPT ![i] = {}]
    /\ startCtx' = [startCtx EXCEPT ![i] = FALSE]
    /\ Stop(i)
    /\ UNCHANGED agents

-----------------------------------------------------------------------------
(* The process: a signal stops all agents, then the HTTP server *)

\* StopAll reads the IDs in the map, then deregisters them one by one.
Signal ==
    /\ server = "serving"
    /\ Visit("signals")
    /\ lock = Nobody
    /\ server' = IF agents = Nobody THEN "shutdown" ELSE "stopAll"
    /\ UNCHANGED <<agents, removed, managed, clients, closed, phase, startCtx, target>>

StopAllTakes(i) ==
    /\ server = "stopAll"
    /\ TakeFromMap(i)
    /\ target' = i
    /\ server' = "stopWait"
    /\ UNCHANGED visits

\* Another request has deregistered it in the meantime.
StopAllMisses ==
    /\ server = "stopAll"
    /\ lock = Nobody
    /\ agents = Nobody
    /\ server' = "shutdown"
    /\ UNCHANGED <<agents, removed, managed, clients, closed, phase, startCtx, target, visits>>

StopAllReturns ==
    /\ server = "stopWait"
    /\ phase[target] = "stopped"
    /\ server' = "shutdown"
    /\ UNCHANGED <<agents, removed, managed, clients, closed, phase, startCtx, target, visits>>

\* The HTTP server waits for open requests, up to the grace period.
ShutdownReturns ==
    /\ server = "shutdown"
    /\ server' = "exited"
    /\ UNCHANGED <<agents, removed, managed, clients, closed, phase, startCtx, target, visits>>

\* DELETE /agents/{id}.
HandleDeregister(i) ==
    /\ Listening
    /\ Visit("deletes")
    /\ TakeFromMap(i)
    /\ UNCHANGED <<server, target>>

ManagerStep ==
    /\ \/ \E i \in Instance :
             \/ HandleDeregister(i)
             \/ StopAllTakes(i)
             \/ CloseClients(i) /\ UNCHANGED <<server, target, visits>>
       \/ Signal
       \/ StopAllMisses
       \/ StopAllReturns
       \/ ShutdownReturns
    /\ UNCHANGED <<up, busCtx, subscribed, job, cache, used, forced, unanswered, direct,
                   results, present, faults, lock, hadClient, conn, at, unsent, channel, seen>>

-----------------------------------------------------------------------------
(* The connections *)

Kind(c) == IF c \in SSEClient THEN SSEClient ELSE WSClient

Connect(c) ==
    /\ Listening
    /\ Visit("connects")
    /\ conn[c] = "idle"
    /\ lock = Nobody
    /\ agents # Nobody
    /\ conn' = [conn EXCEPT ![c] = "found"]
    /\ at' = [at EXCEPT ![c] = agents]
    /\ UNCHANGED <<managed, clients, hadClient, unsent, channel, closed, seen, faults>>

\* Mutant: an unreachable agent stays so.
AddClientQuiet(c) ==
    /\ conn[c] = "found"
    /\ conn' = [conn EXCEPT ![c] = "attached"]
    /\ clients' = [clients EXCEPT ![at[c]] = @ \cup {c}]
    /\ hadClient' = hadClient \cup {at[c]}
    /\ UNCHANGED <<managed, at, unsent, channel, closed, seen, faults, visits>>

\* AddSSEClient and AddWSClient.
AddClient(c) ==
    /\ conn[c] = "found"
    /\ conn' = [conn EXCEPT ![c] = "attached"]
    /\ clients' = [clients EXCEPT ![at[c]] = @ \cup {c}]
    /\ hadClient' = hadClient \cup {at[c]}
    /\ managed' = [managed EXCEPT ![at[c]] = IF @ = "unreachable" THEN "active" ELSE @]
    /\ UNCHANGED <<at, unsent, channel, closed, seen, faults, visits>>

\* The connection's own consumer, given every event the stream still stores.
SubscribeClient(c) ==
    /\ conn[c] = "attached"
    /\ BusWorks(TRUE)
    /\ conn' = [conn EXCEPT ![c] = "open"]
    /\ unsent' = [unsent EXCEPT ![c] = direct]
    /\ UNCHANGED <<managed, clients, hadClient, at, channel, closed, seen, visits>>

\* Mutant: the send does not look whether there is room.
FanOutAlways(c, s) ==
    /\ conn[c] = "open"
    /\ s \in unsent[c]
    /\ unsent' = [unsent EXCEPT ![c] = @ \ {s}]
    /\ channel' = [d \in Client |->
                     IF d \in clients[at[c]] \cap Kind(c) THEN Append(channel[d], s)
                                                         ELSE channel[d]]
    /\ UNCHANGED <<managed, clients, hadClient, conn, at, closed, seen, faults, visits>>

\* FanOutSSE and FanOutWS: to every connection of that kind, dropped when full.
FanOut(c, s) ==
    /\ conn[c] = "open"
    /\ s \in unsent[c]
    /\ unsent' = [unsent EXCEPT ![c] = @ \ {s}]
    /\ channel' = [d \in Client |->
                     IF d \in clients[at[c]] \cap Kind(c) /\ Len(channel[d]) < Capacity
                     THEN Append(channel[d], s) ELSE channel[d]]
    /\ UNCHANGED <<managed, clients, hadClient, conn, at, closed, seen, faults, visits>>

\* An SSE handler goes on reading zero events from a channel that was closed; the
\* write loop of a WebSocket may have ended when its done signal is closed.
WriteLoop(c) ==
    /\ conn[c] = "open"
    /\ \/ /\ channel[c] # <<>>
          /\ seen' = [seen EXCEPT ![c] = @ \cup {Head(channel[c])}]
          /\ channel' = [channel EXCEPT ![c] = Tail(@)]
       \/ /\ channel[c] = <<>>
          /\ c \in SSEClient \cap closed
          /\ seen' = [seen EXCEPT ![c] = @ \cup {ZeroEvent}]
          /\ UNCHANGED channel
    /\ UNCHANGED <<managed, clients, hadClient, conn, at, unsent, closed, faults, visits>>

\* checkLiveness runs with the connection's removal.
RemoveClient(c) ==
    LET i == at[c]
        left == clients[i] \ {c}
    IN  /\ clients' = [clients EXCEPT ![i] = left]
        /\ managed' = [managed EXCEPT ![i] =
                         IF @ = "active" /\ left = {} THEN "unreachable" ELSE @]
        /\ conn' = [conn EXCEPT ![c] = "idle"]
        /\ at' = [at EXCEPT ![c] = Nobody]
        /\ unsent' = [unsent EXCEPT ![c] = {}]
        /\ channel' = [channel EXCEPT ![c] = <<>>]
        /\ closed' = closed \ {c}
        /\ UNCHANGED <<hadClient, seen, visits>>

\* The handler returns when the program disconnects or its subscription fails,
\* and at no other time: a closed channel does not end it.
HandlerReturns(c) ==
    /\ \/ conn[c] = "open" /\ UNCHANGED faults
       \/ conn[c] = "attached" /\ BusFails(TRUE)
    /\ RemoveClient(c)

Connection(c) ==
    /\ \/ Connect(c)
       \/ AddClient(c)
       \/ SubscribeClient(c)
       \/ \E s \in Step : FanOut(c, s)
       \/ WriteLoop(c)
       \/ HandlerReturns(c)
    /\ UNCHANGED <<up, phase, startCtx, busCtx, subscribed, job, cache, used, forced,
                   unanswered, direct, results, present, agents, lock, removed, server, target>>

\* The program answers a step it has received: handlePublish and wsPublish.
HandlePublish(c, s) ==
    /\ s \in seen[c]
    /\ IF c \in SSEClient THEN lock = Nobody /\ agents # Nobody ELSE conn[c] = "open"
    /\ results' = results \cup {[step |-> s, value |-> "answer"]}
    /\ results' # results
    /\ UNCHANGED <<up, phase, startCtx, busCtx, subscribed, job, cache, used, forced,
                   unanswered, direct, present, faults>>
    /\ UNCHANGED sidecarVars

-----------------------------------------------------------------------------
(* Properties *)

\* No channel in a ManagedAgent's maps has been closed, and each belongs to a
\* handler of that agent: a fan-out never sends on a closed channel and a
\* deregistration never closes one twice, either of which would panic.
MappedIsOpen ==
    \A i \in Instance : \A c \in clients[i] :
        c \notin closed /\ at[c] = i /\ conn[c] \in {"attached", "open"}

\* From its first connection on, a registered agent is active exactly while it
\* has one: reconnecting and disconnecting handlers never leave it unreachable
\* with a connection, or active without.
ReachableIffConnected ==
    \A i \in hadClient :
        managed[i] # "deregistered" => (managed[i] = "active" <=> clients[i] # {})
=============================================================================
