---------------------------- MODULE ReplayEngine ----------------------------
(***************************************************************************)
(* Replay sessions: the events of a workflow are read from its stream and  *)
(* published again, one after the other, on the SIMULATION stream.         *)
(***************************************************************************)
EXTENDS SimulationSession

CONSTANT Replay     \* the sessions that replay a workflow

ASSUME ReplayAssumption == Replay \subseteq Session

\* GetWorkflowEvents returns what it could fetch: a fetch that fails or times
\* out ends the reading without an error, so it may return a prefix.  With no
\* event at all no session is created.
CreateSession(s) ==
    /\ state[s] = "none"
    /\ s \in budget.sessions
    /\ \E n \in 1..Len(Script[s]) :
          /\ IF n < Len(Script[s]) THEN Spend("faults") ELSE UNCHANGED budget
          /\ total' = [total EXCEPT ![s] = n]
    /\ SetState(s, "pending")
    /\ UNCHANGED <<count, pc, cancelled, heard, stored, written, asked, overrun>>
    /\ UNCHANGED watcherVars

StartSession(s) ==
    /\ state[s] = "pending"
    /\ SetState(s, "running")
    /\ Goto(s, "announce")
    /\ UNCHANGED <<total, count, cancelled, heard, stored, written, asked, overrun, budget>>
    /\ UNCHANGED watcherVars

-----------------------------------------------------------------------------
(* runSession *)

AnnounceStart(s) ==
    /\ pc[s] = "announce"
    /\ Coordinate("replay.start", s \in cancelled)
    /\ Goto(s, "check")
    /\ UNCHANGED <<state, total, count, cancelled, stored, asked, overrun, budget>>
    /\ UNCHANGED watcherVars

\* The head of the loop: the context is looked at before each event, and not
\* after the last one.
ReplayNext(s) ==
    IF count[s] = total[s]
    THEN Goto(s, "announceEnd") /\ SetState(s, "completed")
    ELSE IF s \in cancelled
    THEN Goto(s, "announceEnd") /\ SetState(s, "stopped")
    ELSE Goto(s, IF count[s] > 0 /\ Current(s).delay THEN "delay" ELSE "publish")
         /\ UNCHANGED state

CheckReplay(s) ==
    /\ pc[s] = "check"
    /\ ReplayNext(s)
    /\ UNCHANGED <<total, count, cancelled, heard, stored, written, asked, overrun, budget>>
    /\ UNCHANGED watcherVars

\* The delay passes, or the context is done first.
DelayReplay(s) ==
    /\ pc[s] = "delay"
    /\ \/ Goto(s, "publish") /\ UNCHANGED state
       \/ s \in cancelled /\ Goto(s, "announceEnd") /\ SetState(s, "stopped")
    /\ UNCHANGED <<total, count, cancelled, heard, stored, written, asked, overrun, budget>>
    /\ UNCHANGED watcherVars

\* Mutant: a publish that fails is recorded like any other.
PublishRecorded(s) ==
    /\ pc[s] = "publish"
    /\ \/ Succeeds(s) /\ Store(s)
       \/ Fails(s) /\ (Store(s) \/ NotStored)
    /\ Goto(s, "record")
    /\ UNCHANGED <<state, total, count, cancelled, asked>>
    /\ UNCHANGED watcherVars

\* A publish that fails may have been stored: only its answer is missing.
PublishReplayedEvent(s) ==
    /\ pc[s] = "publish"
    /\ \/ Succeeds(s) /\ Store(s) /\ Goto(s, "record") /\ UNCHANGED state
       \/ /\ Fails(s)
          /\ Store(s) \/ NotStored
          /\ Goto(s, "announceEnd")
          /\ SetState(s, "error")
    /\ UNCHANGED <<total, count, cancelled, asked>>
    /\ UNCHANGED watcherVars

RecordReplayed(s) ==
    /\ pc[s] = "record"
    /\ count' = [count EXCEPT ![s] = @ + 1]
    /\ Goto(s, "notify")
    /\ UNCHANGED <<state, total, cancelled, heard, stored, written, asked, overrun, budget>>
    /\ UNCHANGED watcherVars

\* Mutant: the position shown is the number of events of the session.
BroadcastTotal(s) ==
    /\ pc[s] = "notify"
    /\ Broadcast(s, Notify("event", total[s]))
    /\ Goto(s, "check")
    /\ UNCHANGED <<state, total, count, cancelled, heard, stored, written, asked, overrun, budget>>

BroadcastReplayEvent(s) ==
    /\ pc[s] = "notify"
    /\ Broadcast(s, Notify("event", count[s]))
    /\ Goto(s, "check")
    /\ UNCHANGED <<state, total, count, cancelled, heard, stored, written, asked, overrun, budget>>

\* The last coordination event is published without the session's context.
AnnounceReplayEnd(s) ==
    /\ pc[s] = "announceEnd"
    /\ Coordinate(IF state[s] = "completed" THEN "replay.complete" ELSE "replay.stop", FALSE)
    /\ Goto(s, "terminate")
    /\ UNCHANGED <<state, total, count, cancelled, stored, asked, overrun, budget>>
    /\ UNCHANGED watcherVars

\* broadcastStopped, broadcastError and broadcastComplete.
BroadcastReplayEnd(s) ==
    /\ pc[s] = "terminate"
    /\ Terminate(s, Notify(state[s], count[s]))
    /\ Goto(s, "done")
    /\ UNCHANGED <<state, total, count, cancelled, heard, stored, written, asked, overrun, budget>>

RunSession(s) ==
    \/ AnnounceStart(s) \/ CheckReplay(s) \/ DelayReplay(s)
    \/ PublishReplayedEvent(s) \/ RecordReplayed(s) \/ BroadcastReplayEvent(s)
    \/ AnnounceReplayEnd(s) \/ BroadcastReplayEnd(s)

=============================================================================
