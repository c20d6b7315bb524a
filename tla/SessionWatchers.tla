--------------------------- MODULE SessionWatchers ---------------------------
(***************************************************************************)
(* The browsers that follow a replay or a scenario session: one watcher    *)
(* set per session, one buffered channel per watcher, and the handler that *)
(* writes what it takes from the channel to the open HTTP response.        *)
(***************************************************************************)
EXTENDS Naturals, Sequences, FiniteSets

CONSTANTS
    Session,
    Watcher,
    Following,      \* the session each watcher asks for
    Capacity        \* size of a watcher's channel

ASSUME WatcherAssumption ==
    /\ Following \in [Watcher -> Session]
    /\ Capacity \in Nat \ {0}

VARIABLES
    clients,    \* the watchers registered in each session's set
    terminal,   \* the final notification of a session, once it is over
    channel,    \* what each watcher has still to read
    closed,     \* the watchers whose channel is closed
    shown,      \* what each watcher's browser has been sent
    unaware,    \* history: watchers whose channel had no room for the outcome
    stream      \* where each watcher's handler is

watcherVars == <<clients, terminal, channel, closed, shown, unaware, stream>>

Outcome == {"completed", "stopped", "error", "failed"}

\* A notification: an event, or the outcome of the session, with the number of
\* events published so far.
Notification == [name : Outcome \cup {"event"}, position : Nat]
Notify(n, p) == [name |-> n, position |-> p]
Unfinished == Notify("none", 0)

WatcherTypeOK ==
    /\ clients \in [Session -> SUBSET Watcher]
    /\ terminal \in [Session -> Notification \cup {Unfinished}]
    /\ channel \in [Watcher -> Seq(Notification)]
    /\ shown \in [Watcher -> Seq(Notification)]
    /\ \A c \in Watcher : Len(channel[c]) <= Capacity
    /\ closed \subseteq Watcher
    /\ unaware \subseteq Watcher
    /\ stream \in [Watcher -> {"idle", "open", "over", "left"}]

WatcherInit ==
    /\ clients = [s \in Session |-> {}]
    /\ terminal = [s \in Session |-> Unfinished]
    /\ channel = [c \in Watcher |-> <<>>]
    /\ closed = {}
    /\ shown = [c \in Watcher |-> <<>>]
    /\ unaware = {}
    /\ stream = [c \in Watcher |-> "idle"]

-----------------------------------------------------------------------------
(* The watcher set of a session; each operation holds its mutex *)

Full(c) == Len(channel[c]) = Capacity

\* Mutant: the send does not look whether there is room.
OfferAlways(cs, n) ==
    channel' = [c \in Watcher |-> IF c \in cs THEN Append(channel[c], n) ELSE channel[c]]

\* A notification is put in the channels of cs that have room for it.
Offer(cs, n) ==
    channel' = [c \in Watcher |->
                   IF c \in cs /\ ~Full(c) THEN Append(channel[c], n) ELSE channel[c]]

\* A session that has ended gives a new watcher its outcome at once.
Subscribe(s, c) ==
    IF terminal[s] = Unfinished
    THEN /\ clients' = [clients EXCEPT ![s] = @ \cup {c}]
         /\ UNCHANGED <<channel, closed>>
    ELSE /\ channel' = [channel EXCEPT ![c] = <<terminal[s]>>]
         /\ closed' = closed \cup {c}
         /\ UNCHANGED clients

Unsubscribe(s, c) == clients' = [clients EXCEPT ![s] = @ \ {c}]

Broadcast(s, n) ==
    /\ Offer(clients[s], n)
    /\ UNCHANGED <<clients, terminal, closed, shown, unaware, stream>>

\* Mutant: the channels are closed without the outcome.
TerminateSilent(s, o) ==
    /\ terminal' = [terminal EXCEPT ![s] = o]
    /\ closed' = closed \cup clients[s]
    /\ clients' = [clients EXCEPT ![s] = {}]
    /\ UNCHANGED <<channel, unaware, shown, stream>>

\* The outcome is kept, offered to everyone, and every channel is closed.
Terminate(s, o) ==
    /\ terminal' = [terminal EXCEPT ![s] = o]
    /\ Offer(clients[s], o)
    /\ unaware' = unaware \cup {c \in clients[s] : Full(c)}
    /\ closed' = closed \cup clients[s]
    /\ clients' = [clients EXCEPT ![s] = {}]
    /\ UNCHANGED <<shown, stream>>

-----------------------------------------------------------------------------
(* handleStreamSession: one handler per watcher *)

\* WatchSession refuses a session that is not known.
WatchSession(c, known) ==
    /\ stream[c] = "idle"
    /\ Following[c] \in known
    /\ stream' = [stream EXCEPT ![c] = "open"]
    /\ Subscribe(Following[c], c)
    /\ UNCHANGED <<terminal, shown, unaware>>

StreamNext(c) ==
    /\ stream[c] = "open"
    /\ channel[c] # <<>>
    /\ shown' = [shown EXCEPT ![c] = Append(@, Head(channel[c]))]
    /\ channel' = [channel EXCEPT ![c] = Tail(@)]
    /\ UNCHANGED <<clients, terminal, closed, unaware, stream>>

\* The handler returns when its channel is closed and empty, or when the browser
\* goes away, and takes its watcher out of the set.
StreamReturns(c, how) ==
    /\ stream[c] = "open"
    /\ stream' = [stream EXCEPT ![c] = how]
    /\ channel' = [channel EXCEPT ![c] = <<>>]
    /\ Unsubscribe(Following[c], c)
    /\ UNCHANGED <<terminal, closed, shown, unaware>>

StreamEnds(c) ==
    /\ c \in closed
    /\ channel[c] = <<>>
    /\ StreamReturns(c, "over")

BrowserLeaves(c) == StreamReturns(c, "left")

-----------------------------------------------------------------------------

\* What a browser is sent is in order, whatever was lost on the way: positions
\* grow, and nothing follows the outcome.
ShownInOrder ==
    \A c \in Watcher : \A i, j \in DOMAIN shown[c] :
        i < j => /\ shown[c][i].name = "event"
                 /\ \/ shown[c][i].position < shown[c][j].position
                    \/ shown[c][j].name # "event" /\ shown[c][i].position = shown[c][j].position

=============================================================================
