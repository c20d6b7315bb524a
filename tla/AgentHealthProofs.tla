-------------------------- MODULE AgentHealthProofs --------------------------
(***************************************************************************)
(* The registry's counts and statuses in AgentHealth, for any agents, any  *)
(* thresholds and any number of retries.                                   *)
(*                                                                         *)
(* The argument: an operation writes on the revision its caller has read,  *)
(* but what it writes is computed from an entry read later.  ReadIsStored  *)
(* says that this does no harm: if the revision is still current, the      *)
(* entry read is the one stored.  So an increment adds one to the stored   *)
(* count, and CountIsAccounted balances it: whatever a goroutine may still *)
(* count is a ping or failed poll that silence has counted already, and a  *)
(* sign of life, being a write, outdates it.  ListedIsLive says that the   *)
(* ping loop increments only entries that were live when it read them,     *)
(* hence a status changes at its threshold and a dead entry is not         *)
(* touched.                                                                *)
(***************************************************************************)
EXTENDS AgentHealth, TLAPS

-----------------------------------------------------------------------------
(* Types *)

StoreTyped ==
    /\ bucket \in [Agent -> AgentRegistration]
    /\ held \in [Actor -> SUBSET Agent]

LabelsTyped == pc \in [Actor -> MonitorLabel \cup ConsumerLabel \cup GatewayLabel]

LocalsTyped == loc \in [Actor -> Local]

RestTyped ==
    /\ alive \subseteq Agent
    /\ events \in [Consumer -> [Managed -> 0..MaxPending]]
    /\ pings \in [Managed -> 0..MaxPending]
    /\ todo \in [keys : SUBSET Agent, listed : SUBSET Agent]
    /\ silence \in [Agent -> 0..MissedCap]
    /\ budget \in Scenario

\* What the operations of the registry write is a registration.
LEMMA EntryTypes ==
    /\ NoEntry \in AgentRegistration
    /\ NewEntry \in AgentRegistration
    /\ \A r \in AgentRegistration :
          /\ IncrementMissedHeartbeats(r) \in AgentRegistration
          /\ RecordHeartbeat(r) \in AgentRegistration
          /\ UpdateStatus(r) \in AgentRegistration
BY ThresholdAssumption
   DEF NoEntry, NewEntry, AgentRegistration, Status, IncrementMissedHeartbeats,
       RecordHeartbeat, UpdateStatus, Capped, MissedCap

\* What a goroutine about to write will write is a registration.
LEMMA NewValueType ==
    ASSUME NEW x, loc[x].seen \in AgentRegistration,
           loc[x].op \in {"increment", "heartbeat", "activate"}
    PROVE  NewValue(x) \in AgentRegistration
BY Zenon, EntryTypes DEF NewValue, Written

\* Writes and reads keep the bucket and the revisions typed.
LEMMA PutTyped ==
    ASSUME StoreTyped, NEW a \in Agent, NEW r \in AgentRegistration, Put(a, r)
    PROVE  StoreTyped'
BY Zenon DEF StoreTyped, Put

LEMMA UpdateTyped ==
    ASSUME StoreTyped, NEW x \in Actor, NEW a \in Agent, NEW r \in AgentRegistration,
           Update(x, a, r)
    PROVE  StoreTyped'
BY Zenon, PutTyped DEF StoreTyped, Update

LEMMA ReadTyped ==
    ASSUME StoreTyped, NEW x \in Actor, NEW a \in Agent, ReadRevision(x, a)
    PROVE  StoreTyped'
BY Zenon DEF StoreTyped, ReadRevision

\* Local variables are typed after the assignments the handlers make.
LEMMA BusyType ==
    ASSUME NEW a \in Agent \cup {"nobody"}, NEW n \in 0..MaxRetries,
           NEW o \in {"none", "increment", "heartbeat", "activate"}
    PROVE  Busy(a, o, n) \in Local
BY Zenon, EntryTypes DEF Busy, Local

LEMMA NoLocalsType == NoLocals \in Local
BY BusyType, BoundAssumption DEF NoLocals

LEMMA SeenType ==
    ASSUME LocalsTyped, NEW x \in Actor, NEW r \in AgentRegistration
    PROVE  [loc EXCEPT ![x].seen = r] \in [Actor -> Local]
BY Zenon DEF LocalsTyped, Local

\* A bound that is spent stays a number.
LEMMA SpendTyped ==
    ASSUME budget \in Scenario, NEW w \in {"starts", "stops", "faults", "crashes"}, Spend(w)
    PROVE  budget' \in Scenario
BY DEF Spend, Scenario

-----------------------------------------------------------------------------
(* One lemma per conjunct of the invariant, one step per action *)

\* Every write stores a registration.
LEMMA StoreTypedStep == HealthInvariant /\ Next => StoreTyped'
<1> SUFFICES ASSUME HealthInvariant, Next PROVE StoreTyped'
  BY Zenon
<1> USE ThresholdAssumption, AgentAssumption, BoundAssumption
    DEF HealthInvariant, TypeOK, StoreTyped, Actor, Consumer, Agent
<1>1. ASSUME NEW a \in Managed, HandleRegister(a) PROVE StoreTyped'
  <2>1. CASE Present(a)
    BY Zenon, <1>1, <2>1 DEF HandleRegister, RegisterCreate
  <2>2. CASE ~Present(a)
    <3>1. Put(a, NewEntry)
      BY Zenon, <1>1, <2>2 DEF HandleRegister, RegisterCreate
    <3> QED
      BY Zenon, <3>1, EntryTypes, PutTyped
  <2> QED
    BY ONLY Zenon, <2>1, <2>2
<1>2. ASSUME NEW a \in Managed, HandleUnregister(a) PROVE StoreTyped'
  BY Zenon, <1>2, EntryTypes, PutTyped DEF HandleUnregister, Purge
<1>3. CASE HandlerRegisterGet
  <2>1. loc["register"].at \in Agent
    BY Zenon, <1>3 DEF HandlerRegisterGet, RegisterGet, Locals
  <2> QED
    BY Zenon, <1>3, <2>1, ReadTyped DEF HandlerRegisterGet, RegisterGet
<1>4. CASE HandlerRegisterUpdate
  <2>1. loc["register"].at \in Agent
    BY Zenon, <1>4 DEF HandlerRegisterUpdate, RegisterUpdate, Locals
  <2>2. NewEntry \in AgentRegistration
    BY Zenon, EntryTypes
  <2>3. Update("register", loc["register"].at, NewEntry)
    BY Zenon, <1>4 DEF HandlerRegisterUpdate, RegisterUpdate
  <2> QED
    BY Zenon, <2>1, <2>2, <2>3, UpdateTyped
<1>5. ASSUME NEW c \in Consumer, Ack(c) PROVE StoreTyped'
  BY Zenon, <1>5 DEF Ack
<1>6. CASE StartRound
  BY Zenon, <1>6 DEF StartRound
<1>7. ASSUME NEW a \in Agent, ListGet(a) PROVE StoreTyped'
  BY Zenon, <1>7, ReadTyped DEF ListGet
<1>8. ASSUME NEW a \in Agent, Ping(a) PROVE StoreTyped'
  BY Zenon, <1>8 DEF Ping
<1>9. CASE MonitorReread
  BY Zenon, <1>9 DEF MonitorReread, Reread, healthVars
<1>10. CASE MonitorWrite
  <2>1. loc["monitor"].at \in Agent
    BY Zenon, <1>10 DEF MonitorWrite, Write, Locals
  <2>2. NewValue("monitor") \in AgentRegistration
    BY Zenon, <1>10, NewValueType DEF MonitorWrite, Write, Locals, LocalsTyped, Local
  <2>3. Update("monitor", loc["monitor"].at, NewValue("monitor"))
    BY Zenon, <1>10 DEF MonitorWrite, Write
  <2> QED
    BY Zenon, <2>1, <2>2, <2>3, UpdateTyped
<1>11. CASE AnnounceDead
  BY Zenon, <1>11 DEF AnnounceDead, healthVars
<1>12. CASE PurgeDead
  <2>1. loc["monitor"].at \in Agent
    BY Zenon, <1>12 DEF PurgeDead, Locals
  <2> QED
    BY Zenon, <1>12, <2>1, EntryTypes, PutTyped DEF PurgeDead, Purge
<1>13. CASE EndRound
  BY Zenon, <1>13 DEF EndRound, healthVars
<1>14. ASSUME NEW a \in Managed, HandlePong(a) PROVE StoreTyped'
  BY Zenon, <1>14, ReadTyped DEF HandlePong
<1>15. CASE PongReread
  BY Zenon, <1>15 DEF PongReread, Reread, healthVars
<1>16. CASE PongWrite
  <2>1. loc["pong"].at \in Agent
    BY Zenon, <1>16 DEF PongWrite, Write, Locals
  <2>2. NewValue("pong") \in AgentRegistration
    BY Zenon, <1>16, NewValueType DEF PongWrite, Write, Locals, LocalsTyped, Local
  <2>3. Update("pong", loc["pong"].at, NewValue("pong"))
    BY Zenon, <1>16 DEF PongWrite, Write
  <2> QED
    BY Zenon, <2>1, <2>2, <2>3, UpdateTyped
<1>17. CASE RetryPong
  <2>1. loc["pong"].at \in Agent
    BY Zenon, <1>17 DEF RetryPong, Locals
  <2> QED
    BY Zenon, <1>17, <2>1, ReadTyped DEF RetryPong
<1>18. ASSUME NEW e \in External, OnboardUnreachable(e) PROVE StoreTyped'
  BY Zenon, <1>18 DEF OnboardUnreachable, healthVars
<1>19. ASSUME NEW e \in External, Onboard(e) PROVE StoreTyped'
  <2>1. CASE Present(e)
    BY Zenon, <1>19, <2>1 DEF Onboard, RegisterCreate
  <2>2. CASE ~Present(e)
    <3>1. Put(e, NewEntry)
      BY Zenon, <1>19, <2>2 DEF Onboard, RegisterCreate
    <3> QED
      BY Zenon, <3>1, EntryTypes, PutTyped
  <2> QED
    BY ONLY Zenon, <2>1, <2>2
<1>20. ASSUME NEW e \in External, OnboardGet(e) PROVE StoreTyped'
  <2>1. loc[e].at \in Agent
    BY Zenon, <1>20 DEF OnboardGet, RegisterGet, Locals
  <2> QED
    BY Zenon, <1>20, <2>1, ReadTyped DEF OnboardGet, RegisterGet
<1>21. ASSUME NEW e \in External, OnboardUpdate(e) PROVE StoreTyped'
  <2>1. loc[e].at \in Agent
    BY Zenon, <1>21 DEF OnboardUpdate, RegisterUpdate, Locals
  <2>2. NewEntry \in AgentRegistration
    BY Zenon, EntryTypes
  <2>3. Update(e, loc[e].at, NewEntry)
    BY Zenon, <1>21 DEF OnboardUpdate, RegisterUpdate
  <2> QED
    BY Zenon, <2>1, <2>2, <2>3, UpdateTyped
<1>22. ASSUME NEW e \in External, FetchAgentCard(e) PROVE StoreTyped'
  BY Zenon, <1>22 DEF FetchAgentCard
<1>23. ASSUME NEW e \in External, CheckHealth(e) PROVE StoreTyped'
  BY Zenon, <1>23, ReadTyped DEF CheckHealth
<1>24. ASSUME NEW e \in External, PollReread(e) PROVE StoreTyped'
  BY Zenon, <1>24 DEF PollReread, Reread, healthVars
<1>25. ASSUME NEW e \in External, PollWrite(e) PROVE StoreTyped'
  <2>1. loc[e].at \in Agent
    BY Zenon, <1>25 DEF PollWrite, Write, Locals
  <2>2. NewValue(e) \in AgentRegistration
    BY Zenon, <1>25, NewValueType DEF PollWrite, Write, Locals, LocalsTyped, Local
  <2>3. Update(e, loc[e].at, NewValue(e))
    BY Zenon, <1>25 DEF PollWrite, Write
  <2> QED
    BY Zenon, <2>1, <2>2, <2>3, UpdateTyped
<1>26. ASSUME NEW a \in Agent, StartAgent(a) PROVE StoreTyped'
  BY Zenon, <1>26 DEF StartAgent, registryVars
<1>27. ASSUME NEW a \in Agent, StopAgent(a) PROVE StoreTyped'
  BY Zenon, <1>27 DEF StopAgent, registryVars
<1>28. ASSUME NEW a \in Agent, CrashAgent(a) PROVE StoreTyped'
  BY Zenon, <1>28 DEF CrashAgent, registryVars
<1>29. ASSUME NEW a \in Agent, EndpointReturns(a) PROVE StoreTyped'
  BY Zenon, <1>29 DEF EndpointReturns, registryVars
<1>30. ASSUME NEW a \in Managed, AnswerPing(a) PROVE StoreTyped'
  BY Zenon, <1>30 DEF AnswerPing, registryVars
<1>31. ASSUME NEW x \in Actor, CallFails(x) PROVE StoreTyped'
  BY Zenon, <1>31 DEF CallFails
<1>32. ASSUME NEW a \in Managed, CreateFails(a) PROVE StoreTyped'
  BY Zenon, <1>32 DEF CreateFails
<1>33. CASE CrashRuntime
  BY Zenon, <1>33 DEF CrashRuntime, Restart
<1>34. CASE CrashGateway
  BY Zenon, <1>34 DEF CrashGateway, Restart
<1> QED
  BY ONLY Zenon, Next, <1>1, <1>2, <1>3, <1>4, <1>5, <1>6, <1>7, <1>8, <1>9, <1>10, <1>11,
     <1>12, <1>13, <1>14, <1>15, <1>16, <1>17, <1>18, <1>19, <1>20, <1>21, <1>22, <1>23,
     <1>24, <1>25, <1>26, <1>27, <1>28, <1>29, <1>30, <1>31, <1>32, <1>33, <1>34
  DEF Next, Handler, Monitor, Pong, Poll, Environment

\* Goroutines stay at known labels.
LEMMA LabelsTypedStep == HealthInvariant /\ Next => LabelsTyped'
<1> SUFFICES ASSUME HealthInvariant, Next PROVE LabelsTyped'
  BY Zenon
<1> USE SMTT(60), ThresholdAssumption, AgentAssumption, BoundAssumption
    DEF HealthInvariant, TypeOK, LabelsTyped, Actor, Consumer, MonitorLabel,
        ConsumerLabel, GatewayLabel
<1>1. ASSUME NEW a \in Managed, HandleRegister(a) PROVE LabelsTyped'
  BY Zenon, <1>1 DEF HandleRegister, RegisterCreate, Goto, healthVars, Positions
<1>2. ASSUME NEW a \in Managed, HandleUnregister(a) PROVE LabelsTyped'
  BY Zenon, <1>2 DEF HandleUnregister, Goto, healthVars, Positions
<1>3. CASE HandlerRegisterGet
  BY Zenon, <1>3 DEF HandlerRegisterGet, RegisterGet, Goto, healthVars, Positions
<1>4. CASE HandlerRegisterUpdate
  BY Zenon, <1>4 DEF HandlerRegisterUpdate, RegisterUpdate, Goto, healthVars, Positions
<1>5. ASSUME NEW c \in Consumer, Ack(c) PROVE LabelsTyped'
  BY Zenon, <1>5 DEF Ack, Finish, Goto, Positions
<1>6. CASE StartRound
  BY Zenon, <1>6 DEF StartRound, Goto, Positions
<1>7. ASSUME NEW a \in Agent, ListGet(a) PROVE LabelsTyped'
  BY Zenon, <1>7 DEF ListGet, Goto, Positions
<1>8. ASSUME NEW a \in Agent, Ping(a) PROVE LabelsTyped'
  BY Zenon, <1>8 DEF Ping, Goto, Positions
<1>9. CASE MonitorReread
  BY Zenon, <1>9 DEF MonitorReread, Reread, Goto, healthVars, Positions
<1>10. CASE MonitorWrite
  BY Zenon, <1>10 DEF MonitorWrite, Write, Goto, healthVars, Positions
<1>11. CASE AnnounceDead
  BY Zenon, <1>11 DEF AnnounceDead, Goto, healthVars, Positions
<1>12. CASE PurgeDead
  BY Zenon, <1>12 DEF PurgeDead, Goto, healthVars, Positions
<1>13. CASE EndRound
  BY Zenon, <1>13 DEF EndRound, Finish, Goto, healthVars, Positions
<1>14. ASSUME NEW a \in Managed, HandlePong(a) PROVE LabelsTyped'
  BY Zenon, <1>14 DEF HandlePong, Goto, healthVars, Positions
<1>15. CASE PongReread
  BY Zenon, <1>15 DEF PongReread, Reread, Goto, AfterConflict, healthVars, Positions
<1>16. CASE PongWrite
  BY Zenon, <1>16 DEF PongWrite, Write, Goto, AfterConflict, Positions
<1>17. CASE RetryPong
  BY Zenon, <1>17 DEF RetryPong, Finish, Goto, healthVars, Positions
<1>18. ASSUME NEW e \in External, OnboardUnreachable(e) PROVE LabelsTyped'
  BY Zenon, <1>18 DEF OnboardUnreachable, Goto, healthVars, Positions
<1>19. ASSUME NEW e \in External, Onboard(e) PROVE LabelsTyped'
  BY Zenon, <1>19 DEF Onboard, RegisterCreate, Goto, Positions
<1>20. ASSUME NEW e \in External, OnboardGet(e) PROVE LabelsTyped'
  BY Zenon, <1>20 DEF OnboardGet, RegisterGet, Goto, healthVars, Positions
<1>21. ASSUME NEW e \in External, OnboardUpdate(e) PROVE LabelsTyped'
  BY Zenon, <1>21 DEF OnboardUpdate, RegisterUpdate, Goto, Positions
<1>22. ASSUME NEW e \in External, FetchAgentCard(e) PROVE LabelsTyped'
  BY Zenon, <1>22 DEF FetchAgentCard, Goto, Positions
<1>23. ASSUME NEW e \in External, CheckHealth(e) PROVE LabelsTyped'
  BY Zenon, <1>23 DEF CheckHealth, Finish, Goto, PollOperation, healthVars, Positions
<1>24. ASSUME NEW e \in External, PollReread(e) PROVE LabelsTyped'
  BY Zenon, <1>24 DEF PollReread, Reread, Goto, healthVars, Positions
<1>25. ASSUME NEW e \in External, PollWrite(e) PROVE LabelsTyped'
  BY Zenon, <1>25 DEF PollWrite, Write, Goto, Positions
<1>26. ASSUME NEW a \in Agent, StartAgent(a) PROVE LabelsTyped'
  BY Zenon, <1>26 DEF StartAgent, registryVars, Positions
<1>27. ASSUME NEW a \in Agent, StopAgent(a) PROVE LabelsTyped'
  BY Zenon, <1>27 DEF StopAgent, registryVars, Positions
<1>28. ASSUME NEW a \in Agent, CrashAgent(a) PROVE LabelsTyped'
  BY Zenon, <1>28 DEF CrashAgent, registryVars, Positions
<1>29. ASSUME NEW a \in Agent, EndpointReturns(a) PROVE LabelsTyped'
  BY Zenon, <1>29 DEF EndpointReturns, registryVars, Positions
<1>30. ASSUME NEW a \in Managed, AnswerPing(a) PROVE LabelsTyped'
  BY Zenon, <1>30 DEF AnswerPing, registryVars, Positions
<1>31. ASSUME NEW x \in Actor, CallFails(x) PROVE LabelsTyped'
  BY <1>31 DEF CallFails, Goto, AfterFailure, AfterConflict, Positions
<1>32. ASSUME NEW a \in Managed, CreateFails(a) PROVE LabelsTyped'
  BY Zenon, <1>32 DEF CreateFails, Goto, Positions
<1>33. CASE CrashRuntime
  BY Zenon, <1>33 DEF CrashRuntime, Restart, Positions
<1>34. CASE CrashGateway
  BY Zenon, <1>34 DEF CrashGateway, Restart, Positions, Scenario
<1> QED
  BY ONLY Zenon, Next, <1>1, <1>2, <1>3, <1>4, <1>5, <1>6, <1>7, <1>8, <1>9, <1>10, <1>11,
     <1>12, <1>13, <1>14, <1>15, <1>16, <1>17, <1>18, <1>19, <1>20, <1>21, <1>22, <1>23,
     <1>24, <1>25, <1>26, <1>27, <1>28, <1>29, <1>30, <1>31, <1>32, <1>33, <1>34
  DEF Next, Handler, Monitor, Pong, Poll, Environment

\* Local variables stay typed.
LEMMA LocalsTypedStep == HealthInvariant /\ Next => LocalsTyped'
<1> SUFFICES ASSUME HealthInvariant, Next PROVE LocalsTyped'
  BY Zenon
<1> USE SMTT(60), ThresholdAssumption, AgentAssumption, BoundAssumption
    DEF HealthInvariant, TypeOK, LocalsTyped, Actor, Consumer, Agent
<1>1. ASSUME NEW a \in Managed, HandleRegister(a) PROVE LocalsTyped'
  BY <1>1, BusyType DEF HandleRegister, At
<1>2. ASSUME NEW a \in Managed, HandleUnregister(a) PROVE LocalsTyped'
  BY <1>2, BusyType DEF HandleUnregister, At
<1>3. CASE HandlerRegisterGet
  BY Zenon, <1>3 DEF HandlerRegisterGet, RegisterGet, healthVars
<1>4. CASE HandlerRegisterUpdate
  BY Zenon, <1>4 DEF HandlerRegisterUpdate, RegisterUpdate, healthVars
<1>5. ASSUME NEW c \in Consumer, Ack(c) PROVE LocalsTyped'
  BY Zenon, <1>5, NoLocalsType DEF Ack, Finish
<1>6. CASE StartRound
  BY Zenon, <1>6 DEF StartRound
<1>7. ASSUME NEW a \in Agent, ListGet(a) PROVE LocalsTyped'
  BY Zenon, <1>7 DEF ListGet
<1>8. ASSUME NEW a \in Agent, Ping(a) PROVE LocalsTyped'
  <2>1. Busy(a, "increment", 0) \in Local
    BY BusyType
  <2> QED
    BY Zenon, <1>8, <2>1 DEF Ping
<1>9. CASE MonitorReread
  <2>1. bucket[loc["monitor"].at] \in AgentRegistration
    BY Zenon, <1>9 DEF MonitorReread, Reread, Locals
  <2> QED
    BY Zenon, <1>9, <2>1, SeenType DEF MonitorReread, Reread
<1>10. CASE MonitorWrite
  BY Zenon, <1>10, EntryTypes, SeenType DEF MonitorWrite, Write
<1>11. CASE AnnounceDead
  BY Zenon, <1>11 DEF AnnounceDead, healthVars
<1>12. CASE PurgeDead
  BY Zenon, <1>12 DEF PurgeDead, healthVars
<1>13. CASE EndRound
  BY Zenon, <1>13, NoLocalsType DEF EndRound, Finish
<1>14. ASSUME NEW a \in Managed, HandlePong(a) PROVE LocalsTyped'
  <2>1. Busy(a, "heartbeat", 1) \in Local
    BY BusyType
  <2> QED
    BY Zenon, <1>14, <2>1 DEF HandlePong
<1>15. CASE PongReread
  <2>1. bucket[loc["pong"].at] \in AgentRegistration
    BY Zenon, <1>15 DEF PongReread, Reread, Locals
  <2> QED
    BY Zenon, <1>15, <2>1, SeenType DEF PongReread, Reread
<1>16. CASE PongWrite
  BY Zenon, <1>16, EntryTypes, SeenType DEF PongWrite, Write
<1>17. CASE RetryPong
  <2>1. loc["pong"].tries + 1 \in 0..MaxRetries
    BY <1>17 DEF RetryPong, Locals, Local
  <2> QED
    BY <1>17, <2>1 DEF RetryPong, Local
<1>18. ASSUME NEW e \in External, OnboardUnreachable(e) PROVE LocalsTyped'
  BY Zenon, <1>18 DEF OnboardUnreachable, healthVars
<1>19. ASSUME NEW e \in External, Onboard(e) PROVE LocalsTyped'
  BY <1>19, BusyType DEF Onboard, At
<1>20. ASSUME NEW e \in External, OnboardGet(e) PROVE LocalsTyped'
  BY Zenon, <1>20 DEF OnboardGet, RegisterGet, healthVars
<1>21. ASSUME NEW e \in External, OnboardUpdate(e) PROVE LocalsTyped'
  BY Zenon, <1>21 DEF OnboardUpdate, RegisterUpdate
<1>22. ASSUME NEW e \in External, FetchAgentCard(e) PROVE LocalsTyped'
  BY Zenon, <1>22 DEF FetchAgentCard
<1>23. ASSUME NEW e \in External, CheckHealth(e) PROVE LocalsTyped'
  <2>1. PollOperation(e) \in {"none", "increment", "heartbeat", "activate"}
    BY Zenon DEF PollOperation
  <2>2. Busy(e, PollOperation(e), 0) \in Local
    BY <2>1, BusyType
  <2> QED
    BY Zenon, <1>23, <2>2 DEF CheckHealth
<1>24. ASSUME NEW e \in External, PollReread(e) PROVE LocalsTyped'
  <2>1. bucket[loc[e].at] \in AgentRegistration
    BY Zenon, <1>24 DEF PollReread, Reread, Locals
  <2> QED
    BY Zenon, <1>24, <2>1, SeenType DEF PollReread, Reread
<1>25. ASSUME NEW e \in External, PollWrite(e) PROVE LocalsTyped'
  BY Zenon, <1>25, EntryTypes, SeenType DEF PollWrite, Write
<1>26. ASSUME NEW a \in Agent, StartAgent(a) PROVE LocalsTyped'
  BY Zenon, <1>26 DEF StartAgent, registryVars
<1>27. ASSUME NEW a \in Agent, StopAgent(a) PROVE LocalsTyped'
  BY Zenon, <1>27 DEF StopAgent, registryVars
<1>28. ASSUME NEW a \in Agent, CrashAgent(a) PROVE LocalsTyped'
  BY Zenon, <1>28 DEF CrashAgent, registryVars
<1>29. ASSUME NEW a \in Agent, EndpointReturns(a) PROVE LocalsTyped'
  BY Zenon, <1>29 DEF EndpointReturns, registryVars
<1>30. ASSUME NEW a \in Managed, AnswerPing(a) PROVE LocalsTyped'
  BY Zenon, <1>30 DEF AnswerPing, registryVars
<1>31. ASSUME NEW x \in Actor, CallFails(x) PROVE LocalsTyped'
  BY Zenon, <1>31 DEF CallFails
<1>32. ASSUME NEW a \in Managed, CreateFails(a) PROVE LocalsTyped'
  BY <1>32, BusyType DEF CreateFails, At
<1>33. CASE CrashRuntime
  BY Zenon, <1>33, NoLocalsType DEF CrashRuntime, Restart
<1>34. CASE CrashGateway
  BY Zenon, <1>34, NoLocalsType DEF CrashGateway, Restart
<1> QED
  BY ONLY Zenon, Next, <1>1, <1>2, <1>3, <1>4, <1>5, <1>6, <1>7, <1>8, <1>9, <1>10, <1>11,
     <1>12, <1>13, <1>14, <1>15, <1>16, <1>17, <1>18, <1>19, <1>20, <1>21, <1>22, <1>23,
     <1>24, <1>25, <1>26, <1>27, <1>28, <1>29, <1>30, <1>31, <1>32, <1>33, <1>34
  DEF Next, Handler, Monitor, Pong, Poll, Environment

\* Events, pings, the round and the bounds keep their types; the
\* retries of handlePong and the acknowledgements stay within their counts.
LEMMA RestTypedStep == HealthInvariant /\ Next => RestTyped'
<1> SUFFICES ASSUME HealthInvariant, Next PROVE RestTyped'
  BY Zenon
<1> USE SMTT(60), ThresholdAssumption, AgentAssumption, BoundAssumption
    DEF HealthInvariant, TypeOK, RestTyped, Scenario, NothingToDo, MissedCap, Capped,
        Agent, Actor, Consumer, Locals
<1>1. ASSUME NEW a \in Managed, HandleRegister(a) PROVE RestTyped'
  BY <1>1 DEF HandleRegister, HeardIfAbsent, healthVars, Present
<1>2. ASSUME NEW a \in Managed, HandleUnregister(a) PROVE RestTyped'
  BY Zenon, <1>2 DEF HandleUnregister, healthVars, Present
<1>3. CASE HandlerRegisterGet
  BY Zenon, <1>3 DEF HandlerRegisterGet, healthVars, Present
<1>4. CASE HandlerRegisterUpdate
  <2>1. loc["register"].at \in Agent
    BY Zenon, <1>4 DEF HandlerRegisterUpdate, RegisterUpdate
  <2>2. silence' \in [Agent -> 0..MissedCap]
    BY <1>4, <2>1 DEF HandlerRegisterUpdate, HeardIfWritten
  <2> QED
    BY Zenon, <1>4, <2>2 DEF HandlerRegisterUpdate
<1>5. ASSUME NEW c \in Consumer, Ack(c) PROVE RestTyped'
  BY <1>5 DEF Ack, Present
<1>6. CASE StartRound
  BY Zenon, <1>6 DEF StartRound, Present
<1>7. ASSUME NEW a \in Agent, ListGet(a) PROVE RestTyped'
  BY Zenon, <1>7 DEF ListGet, Present
<1>8. ASSUME NEW a \in Agent, Ping(a) PROVE RestTyped'
  <2>1. silence' \in [Agent -> 0..MissedCap]
    BY <1>8 DEF Ping
  <2>2. pings' \in [Managed -> 0..MaxPending]
    BY <1>8 DEF Ping
  <2>3. todo' \in [keys : SUBSET Agent, listed : SUBSET Agent]
    BY Zenon, <1>8 DEF Ping
  <2> QED
    BY Zenon, <1>8, <2>1, <2>2, <2>3 DEF Ping
<1>9. CASE MonitorReread
  BY Zenon, <1>9 DEF MonitorReread, healthVars, Present
<1>10. CASE MonitorWrite
  BY Zenon, <1>10 DEF MonitorWrite, healthVars, Present
<1>11. CASE AnnounceDead
  BY Zenon, <1>11 DEF AnnounceDead, healthVars, Present
<1>12. CASE PurgeDead
  BY Zenon, <1>12 DEF PurgeDead, healthVars, Present
<1>13. CASE EndRound
  BY Zenon, <1>13 DEF EndRound, healthVars, Present
<1>14. ASSUME NEW a \in Managed, HandlePong(a) PROVE RestTyped'
  BY Zenon, <1>14 DEF HandlePong, healthVars, Present
<1>15. CASE PongReread
  BY Zenon, <1>15 DEF PongReread, healthVars, Present
<1>16. CASE PongWrite
  <2>1. loc["pong"].at \in Agent
    BY Zenon, <1>16 DEF PongWrite, Write
  <2>2. silence' \in [Agent -> 0..MissedCap]
    BY <1>16, <2>1 DEF PongWrite, HeardIfWritten
  <2> QED
    BY Zenon, <1>16, <2>2 DEF PongWrite
<1>17. CASE RetryPong
  BY Zenon, <1>17 DEF RetryPong, healthVars, Present
<1>18. ASSUME NEW e \in External, OnboardUnreachable(e) PROVE RestTyped'
  BY Zenon, <1>18 DEF OnboardUnreachable, healthVars, Present
<1>19. ASSUME NEW e \in External, Onboard(e) PROVE RestTyped'
  BY <1>19 DEF Onboard, HeardIfAbsent, Present
<1>20. ASSUME NEW e \in External, OnboardGet(e) PROVE RestTyped'
  BY Zenon, <1>20 DEF OnboardGet, healthVars, Present
<1>21. ASSUME NEW e \in External, OnboardUpdate(e) PROVE RestTyped'
  <2>1. loc[e].at \in Agent
    BY Zenon, <1>21 DEF OnboardUpdate, RegisterUpdate
  <2>2. silence' \in [Agent -> 0..MissedCap]
    BY <1>21, <2>1 DEF OnboardUpdate, HeardIfWritten
  <2> QED
    BY Zenon, <1>21, <2>2 DEF OnboardUpdate
<1>22. ASSUME NEW e \in External, FetchAgentCard(e) PROVE RestTyped'
  BY <1>22 DEF FetchAgentCard, Present
<1>23. ASSUME NEW e \in External, CheckHealth(e) PROVE RestTyped'
  BY Zenon, <1>23 DEF CheckHealth, healthVars, Present
<1>24. ASSUME NEW e \in External, PollReread(e) PROVE RestTyped'
  BY Zenon, <1>24 DEF PollReread, healthVars, Present
<1>25. ASSUME NEW e \in External, PollWrite(e) PROVE RestTyped'
  <2>1. loc[e].at = e
    BY Zenon, <1>25 DEF PollWrite, Write
  <2>2. silence' \in [Agent -> 0..MissedCap]
    BY <1>25, <2>1 DEF PollWrite, HeardIfWritten
  <2> QED
    BY Zenon, <1>25, <2>2 DEF PollWrite
<1>26. ASSUME NEW a \in Agent, StartAgent(a) PROVE RestTyped'
  BY <1>26 DEF StartAgent, Publish, HasRoom, Spend, registryVars, Present
<1>27. ASSUME NEW a \in Agent, StopAgent(a) PROVE RestTyped'
  BY <1>27 DEF StopAgent, Ends, Publish, HasRoom, Spend, registryVars, Present
<1>28. ASSUME NEW a \in Agent, CrashAgent(a) PROVE RestTyped'
  BY <1>28 DEF CrashAgent, Ends, Spend, registryVars, Present
<1>29. ASSUME NEW a \in Agent, EndpointReturns(a) PROVE RestTyped'
  BY Zenon, <1>29 DEF EndpointReturns, registryVars, Present
<1>30. ASSUME NEW a \in Managed, AnswerPing(a) PROVE RestTyped'
  BY <1>30 DEF AnswerPing, Publish, HasRoom, registryVars, Present
<1>31. ASSUME NEW x \in Actor, CallFails(x) PROVE RestTyped'
  <2>1. budget' \in Scenario
    BY ONLY Zenon, <1>31, HealthInvariant, SpendTyped DEF CallFails, HealthInvariant, TypeOK
  <2> HIDE DEF Scenario
  <2> QED
    BY Zenon, <1>31, <2>1 DEF CallFails
<1>32. ASSUME NEW a \in Managed, CreateFails(a) PROVE RestTyped'
  <2>1. budget' \in Scenario
    BY ONLY Zenon, <1>32, HealthInvariant, SpendTyped DEF CreateFails, HealthInvariant, TypeOK
  <2> HIDE DEF Scenario
  <2> QED
    BY Zenon, <1>32, <2>1 DEF CreateFails
<1>33. CASE CrashRuntime
  <2>1. budget' \in Scenario
    BY ONLY Zenon, <1>33, HealthInvariant, SpendTyped DEF CrashRuntime, Restart, HealthInvariant, TypeOK
  <2> HIDE DEF Scenario
  <2> QED
    BY Zenon, <1>33, <2>1 DEF CrashRuntime, Restart
<1>34. CASE CrashGateway
  <2>1. budget' \in Scenario
    BY ONLY Zenon, <1>34, HealthInvariant, SpendTyped DEF CrashGateway, Restart, HealthInvariant, TypeOK
  <2> HIDE DEF Scenario
  <2> QED
    BY Zenon, <1>34, <2>1 DEF CrashGateway, Restart
<1> QED
  BY ONLY Zenon, Next, <1>1, <1>2, <1>3, <1>4, <1>5, <1>6, <1>7, <1>8, <1>9, <1>10, <1>11,
     <1>12, <1>13, <1>14, <1>15, <1>16, <1>17, <1>18, <1>19, <1>20, <1>21, <1>22, <1>23,
     <1>24, <1>25, <1>26, <1>27, <1>28, <1>29, <1>30, <1>31, <1>32, <1>33, <1>34
  DEF Next, Handler, Monitor, Pong, Poll, Environment

\* No goroutine gets to a label of another one.
LEMMA PositionsStep == HealthInvariant /\ Next => Positions'
<1> SUFFICES ASSUME HealthInvariant, Next PROVE Positions'
  BY Zenon
<1> USE SMTT(60), ThresholdAssumption, AgentAssumption, BoundAssumption
    DEF HealthInvariant, TypeOK, Positions, MonitorLabel, GatewayLabel, Present, Actor,
        Consumer
<1>1. ASSUME NEW a \in Managed, HandleRegister(a) PROVE Positions'
  BY Zenon, <1>1 DEF HandleRegister, RegisterCreate, Goto, At, healthVars
<1>2. ASSUME NEW a \in Managed, HandleUnregister(a) PROVE Positions'
  BY Zenon, <1>2 DEF HandleUnregister, Goto, At, healthVars
<1>3. CASE HandlerRegisterGet
  BY Zenon, <1>3 DEF HandlerRegisterGet, RegisterGet, Goto, healthVars
<1>4. CASE HandlerRegisterUpdate
  BY Zenon, <1>4 DEF HandlerRegisterUpdate, RegisterUpdate, Goto, healthVars
<1>5. ASSUME NEW c \in Consumer, Ack(c) PROVE Positions'
  BY Zenon, <1>5 DEF Ack, Finish, Goto
<1>6. CASE StartRound
  BY Zenon, <1>6 DEF StartRound, Goto
<1>7. ASSUME NEW a \in Agent, ListGet(a) PROVE Positions'
  BY Zenon, <1>7 DEF ListGet, Goto
<1>8. ASSUME NEW a \in Agent, Ping(a) PROVE Positions'
  BY Zenon, <1>8 DEF Ping, Goto
<1>9. CASE MonitorReread
  BY Zenon, <1>9 DEF MonitorReread, Reread, Goto, healthVars
<1>10. CASE MonitorWrite
  BY Zenon, <1>10 DEF MonitorWrite, Write, Goto, healthVars
<1>11. CASE AnnounceDead
  BY Zenon, <1>11 DEF AnnounceDead, Goto, healthVars
<1>12. CASE PurgeDead
  BY Zenon, <1>12 DEF PurgeDead, Goto, healthVars
<1>13. CASE EndRound
  BY Zenon, <1>13 DEF EndRound, Finish, Goto, healthVars
<1>14. ASSUME NEW a \in Managed, HandlePong(a) PROVE Positions'
  BY Zenon, <1>14 DEF HandlePong, Goto, healthVars
<1>15. CASE PongReread
  BY Zenon, <1>15 DEF PongReread, Reread, Goto, AfterConflict, healthVars
<1>16. CASE PongWrite
  BY Zenon, <1>16 DEF PongWrite, Write, Goto, AfterConflict
<1>17. CASE RetryPong
  BY Zenon, <1>17 DEF RetryPong, Finish, Goto, healthVars
<1>18. ASSUME NEW e \in External, OnboardUnreachable(e) PROVE Positions'
  BY Zenon, <1>18 DEF OnboardUnreachable, Goto, healthVars
<1>19. ASSUME NEW e \in External, Onboard(e) PROVE Positions'
  BY Zenon, <1>19 DEF Onboard, RegisterCreate, Goto, At
<1>20. ASSUME NEW e \in External, OnboardGet(e) PROVE Positions'
  BY Zenon, <1>20 DEF OnboardGet, RegisterGet, Goto, healthVars
<1>21. ASSUME NEW e \in External, OnboardUpdate(e) PROVE Positions'
  BY Zenon, <1>21 DEF OnboardUpdate, RegisterUpdate, Goto
<1>22. ASSUME NEW e \in External, FetchAgentCard(e) PROVE Positions'
  BY Zenon, <1>22 DEF FetchAgentCard, Goto
<1>23. ASSUME NEW e \in External, CheckHealth(e) PROVE Positions'
  BY Zenon, <1>23 DEF CheckHealth, Finish, Goto, PollOperation, healthVars
<1>24. ASSUME NEW e \in External, PollReread(e) PROVE Positions'
  BY Zenon, <1>24 DEF PollReread, Reread, Goto, healthVars
<1>25. ASSUME NEW e \in External, PollWrite(e) PROVE Positions'
  BY Zenon, <1>25 DEF PollWrite, Write, Goto
<1>26. ASSUME NEW a \in Agent, StartAgent(a) PROVE Positions'
  BY Zenon, <1>26 DEF StartAgent, registryVars
<1>27. ASSUME NEW a \in Agent, StopAgent(a) PROVE Positions'
  BY Zenon, <1>27 DEF StopAgent, Ends, registryVars
<1>28. ASSUME NEW a \in Agent, CrashAgent(a) PROVE Positions'
  BY Zenon, <1>28 DEF CrashAgent, Ends, registryVars
<1>29. ASSUME NEW a \in Agent, EndpointReturns(a) PROVE Positions'
  BY Zenon, <1>29 DEF EndpointReturns, registryVars
<1>30. ASSUME NEW a \in Managed, AnswerPing(a) PROVE Positions'
  BY Zenon, <1>30 DEF AnswerPing, registryVars
<1>31. ASSUME NEW x \in Actor, CallFails(x) PROVE Positions'
  BY <1>31 DEF CallFails, Goto, AfterFailure, AfterConflict
<1>32. ASSUME NEW a \in Managed, CreateFails(a) PROVE Positions'
  BY Zenon, <1>32 DEF CreateFails, Goto, At
<1>33. CASE CrashRuntime
  BY Zenon, <1>33 DEF CrashRuntime, Restart
<1>34. CASE CrashGateway
  BY Zenon, <1>34 DEF CrashGateway, Restart, Scenario
<1> QED
  BY ONLY Zenon, Next, <1>1, <1>2, <1>3, <1>4, <1>5, <1>6, <1>7, <1>8, <1>9, <1>10, <1>11,
     <1>12, <1>13, <1>14, <1>15, <1>16, <1>17, <1>18, <1>19, <1>20, <1>21, <1>22, <1>23,
     <1>24, <1>25, <1>26, <1>27, <1>28, <1>29, <1>30, <1>31, <1>32, <1>33, <1>34
  DEF Next, Handler, Monitor, Pong, Poll, Environment

\* Types are kept.
LEMMA TypeStep == HealthInvariant /\ Next => TypeOK'
BY Zenon, StoreTypedStep, LabelsTypedStep, LocalsTypedStep, RestTypedStep
   DEF TypeOK, StoreTyped, LabelsTyped, LocalsTyped, RestTyped

-----------------------------------------------------------------------------
(* What the goroutines have read *)

\* Local variables hold what the label promises.
LEMMA LocalsStep == HealthInvariant /\ Next => Locals'
<1> SUFFICES ASSUME HealthInvariant, Next PROVE Locals'
  BY Zenon
<1> USE SMTT(60), ThresholdAssumption, AgentAssumption, BoundAssumption
    DEF HealthInvariant, TypeOK, Locals, Positions, MonitorLabel, GatewayLabel,
        NoLocals, Busy, Present, Actor, Consumer, Agent
<1>1. ASSUME NEW a \in Managed, HandleRegister(a) PROVE Locals'
  BY <1>1 DEF HandleRegister, RegisterCreate, Goto, At, healthVars
<1>2. ASSUME NEW a \in Managed, HandleUnregister(a) PROVE Locals'
  BY <1>2 DEF HandleUnregister, Goto, At, healthVars
<1>3. CASE HandlerRegisterGet
  BY Zenon, <1>3 DEF HandlerRegisterGet, RegisterGet, Goto, healthVars
<1>4. CASE HandlerRegisterUpdate
  BY Zenon, <1>4 DEF HandlerRegisterUpdate, RegisterUpdate, Goto, healthVars
<1>5. ASSUME NEW c \in Consumer, Ack(c) PROVE Locals'
  BY <1>5 DEF Ack, Finish, Goto
<1>6. CASE StartRound
  BY Zenon, <1>6 DEF StartRound, Goto
<1>7. ASSUME NEW a \in Agent, ListGet(a) PROVE Locals'
  BY Zenon, <1>7 DEF ListGet, Goto
<1>8. ASSUME NEW a \in Agent, Ping(a) PROVE Locals'
  BY Zenon, <1>8 DEF Ping, Goto
<1>9. CASE MonitorReread
  BY <1>9 DEF MonitorReread, Reread, Goto, healthVars
<1>10. CASE MonitorWrite
  BY <1>10 DEF MonitorWrite, Write, Goto, healthVars
<1>11. CASE AnnounceDead
  BY Zenon, <1>11 DEF AnnounceDead, Goto, healthVars
<1>12. CASE PurgeDead
  BY Zenon, <1>12 DEF PurgeDead, Goto, healthVars
<1>13. CASE EndRound
  BY Zenon, <1>13 DEF EndRound, Finish, Goto, healthVars
<1>14. ASSUME NEW a \in Managed, HandlePong(a) PROVE Locals'
  BY Zenon, <1>14 DEF HandlePong, Goto, healthVars
<1>15. CASE PongReread
  BY <1>15 DEF PongReread, Reread, Goto, AfterConflict, healthVars
<1>16. CASE PongWrite
  BY <1>16 DEF PongWrite, Write, Goto, AfterConflict
<1>17. CASE RetryPong
  BY <1>17 DEF RetryPong, Finish, Goto, healthVars
<1>18. ASSUME NEW e \in External, OnboardUnreachable(e) PROVE Locals'
  BY <1>18 DEF OnboardUnreachable, Goto, healthVars
<1>19. ASSUME NEW e \in External, Onboard(e) PROVE Locals'
  BY <1>19 DEF Onboard, RegisterCreate, Goto, At
<1>20. ASSUME NEW e \in External, OnboardGet(e) PROVE Locals'
  BY <1>20 DEF OnboardGet, RegisterGet, Goto, healthVars
<1>21. ASSUME NEW e \in External, OnboardUpdate(e) PROVE Locals'
  BY <1>21 DEF OnboardUpdate, RegisterUpdate, Goto
<1>22. ASSUME NEW e \in External, FetchAgentCard(e) PROVE Locals'
  BY <1>22 DEF FetchAgentCard, Goto
<1>23. ASSUME NEW e \in External, CheckHealth(e) PROVE Locals'
  BY <1>23 DEF CheckHealth, Finish, Goto, PollOperation, healthVars
<1>24. ASSUME NEW e \in External, PollReread(e) PROVE Locals'
  BY <1>24 DEF PollReread, Reread, Goto, healthVars
<1>25. ASSUME NEW e \in External, PollWrite(e) PROVE Locals'
  BY <1>25 DEF PollWrite, Write, Goto
<1>26. ASSUME NEW a \in Agent, StartAgent(a) PROVE Locals'
  BY <1>26 DEF StartAgent, Publish, HasRoom, registryVars
<1>27. ASSUME NEW a \in Agent, StopAgent(a) PROVE Locals'
  BY <1>27 DEF StopAgent, Ends, Publish, HasRoom, registryVars
<1>28. ASSUME NEW a \in Agent, CrashAgent(a) PROVE Locals'
  BY Zenon, <1>28 DEF CrashAgent, Ends, registryVars
<1>29. ASSUME NEW a \in Agent, EndpointReturns(a) PROVE Locals'
  BY Zenon, <1>29 DEF EndpointReturns, registryVars
<1>30. ASSUME NEW a \in Managed, AnswerPing(a) PROVE Locals'
  BY <1>30 DEF AnswerPing, Publish, HasRoom, registryVars
<1>31. ASSUME NEW x \in Actor, CallFails(x) PROVE Locals'
  BY <1>31 DEF CallFails, Goto, AfterFailure, AfterConflict
<1>32. ASSUME NEW a \in Managed, CreateFails(a) PROVE Locals'
  BY Zenon, <1>32 DEF CreateFails, Goto, At
<1>33. CASE CrashRuntime
  BY Zenon, <1>33 DEF CrashRuntime, Restart
<1>34. CASE CrashGateway
  BY <1>34 DEF CrashGateway, Restart, Scenario
<1> QED
  BY ONLY Zenon, Next, <1>1, <1>2, <1>3, <1>4, <1>5, <1>6, <1>7, <1>8, <1>9, <1>10, <1>11,
     <1>12, <1>13, <1>14, <1>15, <1>16, <1>17, <1>18, <1>19, <1>20, <1>21, <1>22, <1>23,
     <1>24, <1>25, <1>26, <1>27, <1>28, <1>29, <1>30, <1>31, <1>32, <1>33, <1>34
  DEF Next, Handler, Monitor, Pong, Poll, Environment

\* A write by anybody makes the revisions of the others outdated, so
\* what they have read again need not match any more.
LEMMA ReadIsStoredStep == HealthInvariant /\ Next => ReadIsStored'
<1> SUFFICES ASSUME HealthInvariant, Next PROVE ReadIsStored'
  BY Zenon
<1> USE ThresholdAssumption, AgentAssumption, BoundAssumption
    DEF HealthInvariant, TypeOK, ReadIsStored, Positions, Locals, Current, NoLocals,
        Busy, Present, Actor, Consumer, Agent
<1>1. ASSUME NEW a \in Managed, HandleRegister(a) PROVE ReadIsStored'
  BY <1>1 DEF HandleRegister, RegisterCreate, Put, Goto, At, HeardIfAbsent, healthVars
<1>2. ASSUME NEW a \in Managed, HandleUnregister(a) PROVE ReadIsStored'
  BY Zenon, <1>2 DEF HandleUnregister, Purge, Put, Goto, At, healthVars
<1>3. CASE HandlerRegisterGet
  BY Zenon, <1>3 DEF HandlerRegisterGet, RegisterGet, ReadRevision, Goto, healthVars
<1>4. CASE HandlerRegisterUpdate
  BY <1>4 DEF HandlerRegisterUpdate, RegisterUpdate, Update, Put, Goto, HeardIfWritten,
      healthVars
<1>5. ASSUME NEW c \in Consumer, Ack(c) PROVE ReadIsStored'
  BY Zenon, <1>5 DEF Ack, Finish, Goto
<1>6. CASE StartRound
  BY Zenon, <1>6 DEF StartRound, Goto
<1>7. ASSUME NEW a \in Agent, ListGet(a) PROVE ReadIsStored'
  BY Zenon, <1>7 DEF ListGet, ReadRevision, Goto
<1>8. ASSUME NEW a \in Agent, Ping(a) PROVE ReadIsStored'
  BY Zenon, <1>8 DEF Ping, Goto
<1>9. CASE MonitorReread
  BY <1>9 DEF MonitorReread, Reread, Goto, healthVars
<1>10. CASE MonitorWrite
  BY <1>10 DEF MonitorWrite, Write, Update, Put, Goto, healthVars
<1>11. CASE AnnounceDead
  BY Zenon, <1>11 DEF AnnounceDead, Goto, healthVars
<1>12. CASE PurgeDead
  BY Zenon, <1>12 DEF PurgeDead, Purge, Put, Goto, healthVars
<1>13. CASE EndRound
  BY Zenon, <1>13 DEF EndRound, Finish, Goto, healthVars
<1>14. ASSUME NEW a \in Managed, HandlePong(a) PROVE ReadIsStored'
  BY Zenon, <1>14 DEF HandlePong, ReadRevision, Goto, healthVars
<1>15. CASE PongReread
  BY <1>15 DEF PongReread, Reread, Goto, AfterConflict, healthVars
<1>16. CASE PongWrite
  BY <1>16 DEF PongWrite, Write, Update, Put, Goto, AfterConflict, HeardIfWritten
<1>17. CASE RetryPong
  BY Zenon, <1>17 DEF RetryPong, ReadRevision, Finish, Goto, healthVars
<1>18. ASSUME NEW e \in External, OnboardUnreachable(e) PROVE ReadIsStored'
  BY Zenon, <1>18 DEF OnboardUnreachable, Goto, healthVars
<1>19. ASSUME NEW e \in External, Onboard(e) PROVE ReadIsStored'
  BY <1>19 DEF Onboard, RegisterCreate, Put, Goto, At, HeardIfAbsent
<1>20. ASSUME NEW e \in External, OnboardGet(e) PROVE ReadIsStored'
  BY Zenon, <1>20 DEF OnboardGet, RegisterGet, ReadRevision, Goto, healthVars
<1>21. ASSUME NEW e \in External, OnboardUpdate(e) PROVE ReadIsStored'
  BY <1>21 DEF OnboardUpdate, RegisterUpdate, Update, Put, Goto, HeardIfWritten
<1>22. ASSUME NEW e \in External, FetchAgentCard(e) PROVE ReadIsStored'
  BY Zenon, <1>22 DEF FetchAgentCard, Goto
<1>23. ASSUME NEW e \in External, CheckHealth(e) PROVE ReadIsStored'
  BY Zenon, <1>23 DEF CheckHealth, ReadRevision, Finish, Goto, PollOperation, healthVars
<1>24. ASSUME NEW e \in External, PollReread(e) PROVE ReadIsStored'
  BY <1>24 DEF PollReread, Reread, Goto, healthVars
<1>25. ASSUME NEW e \in External, PollWrite(e) PROVE ReadIsStored'
  BY <1>25 DEF PollWrite, Write, Update, Put, Goto, HeardIfWritten
<1>26. ASSUME NEW a \in Agent, StartAgent(a) PROVE ReadIsStored'
  BY Zenon, <1>26 DEF StartAgent, Publish, HasRoom, Spend, registryVars
<1>27. ASSUME NEW a \in Agent, StopAgent(a) PROVE ReadIsStored'
  BY Zenon, <1>27 DEF StopAgent, Ends, Publish, HasRoom, Spend, registryVars
<1>28. ASSUME NEW a \in Agent, CrashAgent(a) PROVE ReadIsStored'
  BY Zenon, <1>28 DEF CrashAgent, Ends, Spend, registryVars
<1>29. ASSUME NEW a \in Agent, EndpointReturns(a) PROVE ReadIsStored'
  BY Zenon, <1>29 DEF EndpointReturns, registryVars
<1>30. ASSUME NEW a \in Managed, AnswerPing(a) PROVE ReadIsStored'
  BY Zenon, <1>30 DEF AnswerPing, Publish, HasRoom, registryVars
<1>31. ASSUME NEW x \in Actor, CallFails(x) PROVE ReadIsStored'
  BY Zenon, <1>31 DEF CallFails, Spend, Goto, AfterFailure, AfterConflict
<1>32. ASSUME NEW a \in Managed, CreateFails(a) PROVE ReadIsStored'
  BY Zenon, <1>32 DEF CreateFails, Spend, Goto, At
<1>33. CASE CrashRuntime
  BY Zenon, <1>33 DEF CrashRuntime, Restart, Spend
<1>34. CASE CrashGateway
  BY Zenon, <1>34 DEF CrashGateway, Restart, Spend, Scenario
<1> QED
  BY ONLY Zenon, Next, <1>1, <1>2, <1>3, <1>4, <1>5, <1>6, <1>7, <1>8, <1>9, <1>10, <1>11,
     <1>12, <1>13, <1>14, <1>15, <1>16, <1>17, <1>18, <1>19, <1>20, <1>21, <1>22, <1>23,
     <1>24, <1>25, <1>26, <1>27, <1>28, <1>29, <1>30, <1>31, <1>32, <1>33, <1>34
  DEF Next, Handler, Monitor, Pong, Poll, Environment

-----------------------------------------------------------------------------
(* The ping loop's list *)

\* An entry on the monitor's list changes only with its revision.
LEMMA ListedIsLiveStep == HealthInvariant /\ Next => ListedIsLive'
<1> SUFFICES ASSUME HealthInvariant, Next PROVE ListedIsLive'
  BY Zenon
<1> USE SMTT(60), ThresholdAssumption, AgentAssumption, BoundAssumption
    DEF HealthInvariant, TypeOK, ListedIsLive, Positions, Locals, Current, NoLocals,
        Busy, NothingToDo, NewEntry, NoEntry, Present, Actor, Consumer, Agent
<1>1. ASSUME NEW a \in Managed, HandleRegister(a) PROVE ListedIsLive'
  BY <1>1 DEF HandleRegister, RegisterCreate, Put, Goto, At, HeardIfAbsent, healthVars
<1>2. ASSUME NEW a \in Managed, HandleUnregister(a) PROVE ListedIsLive'
  BY Zenon, <1>2 DEF HandleUnregister, Purge, Put, Goto, At, healthVars
<1>3. CASE HandlerRegisterGet
  BY Zenon, <1>3 DEF HandlerRegisterGet, RegisterGet, ReadRevision, Goto, healthVars
<1>4. CASE HandlerRegisterUpdate
  BY <1>4 DEF HandlerRegisterUpdate, RegisterUpdate, Update, Put, Goto, HeardIfWritten,
      healthVars
<1>5. ASSUME NEW c \in Consumer, Ack(c) PROVE ListedIsLive'
  BY Zenon, <1>5 DEF Ack, Finish, Goto
<1>6. CASE StartRound
  BY Zenon, <1>6 DEF StartRound, Goto
<1>7. ASSUME NEW a \in Agent, ListGet(a) PROVE ListedIsLive'
  <2> SUFFICES ASSUME NEW b \in Agent, Current("monitor", b)', b \in todo'.listed
               PROVE  bucket[b].status \in {"active", "unhealthy"}
    BY Zenon, <1>7 DEF ListGet, Goto, ReadRevision
  <2>1. CASE b = a
    <3>1. Present(a)
      BY Zenon, <1>7, <2>1 DEF ListGet, ReadRevision
    <3> QED
      BY Zenon, <1>7, <2>1 DEF ListGet
  <2>2. CASE b # a
    BY Zenon, <1>7, <2>2 DEF ListGet, ReadRevision
  <2> QED
    BY ONLY Zenon, <2>1, <2>2
<1>8. ASSUME NEW a \in Agent, Ping(a) PROVE ListedIsLive'
  BY <1>8 DEF Ping, Goto
<1>9. CASE MonitorReread
  BY <1>9 DEF MonitorReread, Reread, Goto, healthVars
<1>10. CASE MonitorWrite
  BY <1>10 DEF MonitorWrite, Write, Update, Put, Goto, healthVars, ReadIsStored,
      NewValue, Written, IncrementMissedHeartbeats, RecordHeartbeat, UpdateStatus,
      Capped, MissedCap, AgentRegistration
<1>11. CASE AnnounceDead
  BY Zenon, <1>11 DEF AnnounceDead, Goto, healthVars
<1>12. CASE PurgeDead
  BY Zenon, <1>12 DEF PurgeDead, Purge, Put, Goto, healthVars
<1>13. CASE EndRound
  BY Zenon, <1>13 DEF EndRound, Finish, Goto, healthVars
<1>14. ASSUME NEW a \in Managed, HandlePong(a) PROVE ListedIsLive'
  BY Zenon, <1>14 DEF HandlePong, ReadRevision, Goto, healthVars
<1>15. CASE PongReread
  BY Zenon, <1>15 DEF PongReread, Reread, Goto, AfterConflict, healthVars
<1>16. CASE PongWrite
  BY <1>16 DEF PongWrite, Write, Update, Put, Goto, AfterConflict, HeardIfWritten,
      ReadIsStored, NewValue, Written, IncrementMissedHeartbeats, RecordHeartbeat,
      UpdateStatus, Capped, MissedCap, AgentRegistration
<1>17. CASE RetryPong
  BY Zenon, <1>17 DEF RetryPong, ReadRevision, Finish, Goto, healthVars
<1>18. ASSUME NEW e \in External, OnboardUnreachable(e) PROVE ListedIsLive'
  BY Zenon, <1>18 DEF OnboardUnreachable, Goto, healthVars
<1>19. ASSUME NEW e \in External, Onboard(e) PROVE ListedIsLive'
  BY <1>19 DEF Onboard, RegisterCreate, Put, Goto, At, HeardIfAbsent
<1>20. ASSUME NEW e \in External, OnboardGet(e) PROVE ListedIsLive'
  BY Zenon, <1>20 DEF OnboardGet, RegisterGet, ReadRevision, Goto, healthVars
<1>21. ASSUME NEW e \in External, OnboardUpdate(e) PROVE ListedIsLive'
  BY <1>21 DEF OnboardUpdate, RegisterUpdate, Update, Put, Goto, HeardIfWritten
<1>22. ASSUME NEW e \in External, FetchAgentCard(e) PROVE ListedIsLive'
  BY Zenon, <1>22 DEF FetchAgentCard, Goto
<1>23. ASSUME NEW e \in External, CheckHealth(e) PROVE ListedIsLive'
  BY Zenon, <1>23 DEF CheckHealth, ReadRevision, Finish, Goto, PollOperation, healthVars
<1>24. ASSUME NEW e \in External, PollReread(e) PROVE ListedIsLive'
  BY Zenon, <1>24 DEF PollReread, Reread, Goto, healthVars
<1>25. ASSUME NEW e \in External, PollWrite(e) PROVE ListedIsLive'
  BY <1>25 DEF PollWrite, Write, Update, Put, Goto, HeardIfWritten, ReadIsStored,
      NewValue, Written, IncrementMissedHeartbeats, RecordHeartbeat, UpdateStatus,
      Capped, MissedCap, AgentRegistration
<1>26. ASSUME NEW a \in Agent, StartAgent(a) PROVE ListedIsLive'
  BY Zenon, <1>26 DEF StartAgent, Publish, HasRoom, Spend, registryVars
<1>27. ASSUME NEW a \in Agent, StopAgent(a) PROVE ListedIsLive'
  BY Zenon, <1>27 DEF StopAgent, Ends, Publish, HasRoom, Spend, registryVars
<1>28. ASSUME NEW a \in Agent, CrashAgent(a) PROVE ListedIsLive'
  BY Zenon, <1>28 DEF CrashAgent, Ends, Spend, registryVars
<1>29. ASSUME NEW a \in Agent, EndpointReturns(a) PROVE ListedIsLive'
  BY Zenon, <1>29 DEF EndpointReturns, registryVars
<1>30. ASSUME NEW a \in Managed, AnswerPing(a) PROVE ListedIsLive'
  BY Zenon, <1>30 DEF AnswerPing, Publish, HasRoom, registryVars
<1>31. ASSUME NEW x \in Actor, CallFails(x) PROVE ListedIsLive'
  BY Zenon, <1>31 DEF CallFails, Spend, Goto, AfterFailure, AfterConflict
<1>32. ASSUME NEW a \in Managed, CreateFails(a) PROVE ListedIsLive'
  BY Zenon, <1>32 DEF CreateFails, Spend, Goto, At
<1>33. CASE CrashRuntime
  <2>1. pc'["monitor"] = "idle" /\ todo'.keys = {} /\ todo'.listed = {}
    BY ONLY Zenon, <1>33 DEF CrashRuntime, Restart, NothingToDo, Actor
  <2> QED
    BY ONLY Zenon, <2>1 DEF ListedIsLive
<1>34. CASE CrashGateway
  <2>1. budget \in Scenario /\ ListedIsLive
    BY ONLY Zenon, HealthInvariant DEF HealthInvariant, TypeOK
  <2>2. "monitor" \in Actor /\ "monitor" \notin budget.external
    BY ONLY Zenon, <2>1, AgentAssumption DEF Actor, Scenario
  <2>3. /\ pc'["monitor"] = pc["monitor"] /\ loc'["monitor"] = loc["monitor"]
        /\ held'["monitor"] = held["monitor"] /\ UNCHANGED <<bucket, todo>>
    BY ONLY Zenon, <1>34, <2>2 DEF CrashGateway, Restart
  <2> QED
    BY ONLY Zenon, <2>1, <2>3 DEF ListedIsLive, Current
<1> QED
  BY ONLY Zenon, Next, <1>1, <1>2, <1>3, <1>4, <1>5, <1>6, <1>7, <1>8, <1>9, <1>10, <1>11,
     <1>12, <1>13, <1>14, <1>15, <1>16, <1>17, <1>18, <1>19, <1>20, <1>21, <1>22, <1>23,
     <1>24, <1>25, <1>26, <1>27, <1>28, <1>29, <1>30, <1>31, <1>32, <1>33, <1>34
  DEF Next, Handler, Monitor, Pong, Poll, Environment

-----------------------------------------------------------------------------
(* Counts and statuses *)

\* The thresholds are crossed one increment at a time.
LEMMA IncrementFits ==
    ASSUME NEW r \in AgentRegistration, StatusFits(r), r.status \in {"active", "unhealthy"}
    PROVE  StatusFits(IncrementMissedHeartbeats(r))
BY ThresholdAssumption
   DEF StatusFits, IncrementMissedHeartbeats, Capped, MissedCap, AgentRegistration

LEMMA HeartbeatFits ==
    ASSUME NEW r \in AgentRegistration, StatusFits(r)
    PROVE  StatusFits(RecordHeartbeat(r))
BY ThresholdAssumption DEF StatusFits, RecordHeartbeat, AgentRegistration

\* What a step may do to the account of agent b: nothing new becomes pending
\* while the count stays or is reset, the agent is heard of, a new ping or
\* failed poll becomes pending, or a pending one is counted.
Kept(b) ==
    /\ bucket'[b].missed \in {0, bucket[b].missed}
    /\ silence'[b] = silence[b]
    /\ PingPending(b)' => PingPending(b)
    /\ PollPending(b)' => PollPending(b)

Heard(b) == bucket'[b].missed = 0 /\ ~PingPending(b)' /\ ~PollPending(b)'

Missed(b) ==
    /\ bucket'[b].missed = bucket[b].missed
    /\ silence'[b] = Capped(silence[b] + 1)
    /\ \/ ~PingPending(b) /\ (PollPending(b)' => PollPending(b))
       \/ ~PollPending(b) /\ (PingPending(b)' => PingPending(b))

Counted(b) ==
    /\ bucket'[b].missed = Capped(bucket[b].missed + 1)
    /\ silence'[b] = silence[b]
    /\ \/ PingPending(b) /\ ~PingPending(b)' /\ (PollPending(b)' => PollPending(b))
       \/ PollPending(b) /\ ~PollPending(b)' /\ (PingPending(b)' => PingPending(b))

Accounted(b) == Kept(b) \/ Heard(b) \/ Missed(b) \/ Counted(b)

\* Actor y writing the entry of agent x leaves the accounts of others alone.
OnlyMoves(y) == \A z \in Actor \ {y} : pc'[z] = pc[z] /\ loc'[z] = loc[z]

LEMMA OthersKept ==
    ASSUME TypeOK, NEW x \in Agent, NEW y \in Actor, NEW r, Put(x, r), OnlyMoves(y),
           y = "monitor" => pc'[y] \notin {"reread", "write"},
           NEW b \in Agent \ {x}, b \in External => b # y, silence'[b] = silence[b]
    PROVE  Kept(b)
<1>1. bucket'[b] = bucket[b]
  BY Zenon DEF Put, TypeOK
<1>2. \A z \in Actor : b \in held'[z] <=> b \in held[z]
  BY Zenon DEF Put, TypeOK
<1>3. PingPending(b)' => PingPending(b)
  BY Zenon, <1>2 DEF PingPending, Current, Actor, OnlyMoves
<1>4. PollPending(b)' => PollPending(b)
  BY Zenon, <1>2 DEF PollPending, Current, Actor, OnlyMoves
<1> QED
  BY Zenon, <1>1, <1>3, <1>4 DEF Kept

\* A write of x's entry leaves no increment of it pending.
LEMMA WriteSettles ==
    ASSUME TypeOK, NEW x \in Agent, NEW r, Put(x, r), x \in External => pc'[x] # "unreachable"
    PROVE  bucket'[x] = r /\ ~PingPending(x)' /\ ~PollPending(x)'
<1>1. bucket'[x] = r
  BY Zenon DEF Put, TypeOK
<1>2. \A z \in Actor : x \notin held'[z]
  BY Zenon DEF Put
<1> QED
  BY Zenon, <1>1, <1>2 DEF PingPending, PollPending, Current, Actor

\* A registration or heartbeat, written by a consumer or by x's own gateway.
LEMMA SignOfLife ==
    ASSUME TypeOK, NEW x \in Agent, NEW y \in Actor \ {"monitor"}, NEW r, Put(x, r),
           OnlyMoves(y), r.missed = 0, x \in External => pc'[x] # "unreachable",
           y \in External => y = x, silence' = [silence EXCEPT ![x] = 0]
    PROVE  \A b \in Agent : Accounted(b)
<1> SUFFICES ASSUME NEW b \in Agent PROVE Accounted(b)
  BY Zenon
<1>1. CASE b = x
  BY Zenon, <1>1, WriteSettles DEF Heard, Accounted
<1>2. CASE b # x
  <2>1. silence'[b] = silence[b]
    BY Zenon, <1>2 DEF TypeOK
  <2> QED
    BY Zenon, <1>2, <2>1, OthersKept DEF Accounted
<1> QED
  BY Zenon, <1>1, <1>2

\* What x's own gateway writes after a poll.
LEMMA PollAccounted ==
    ASSUME TypeOK, NEW x \in External, NEW r, Put(x, r), OnlyMoves(x), pc'[x] # "unreachable",
           silence' = silence,
           \/ r.missed = bucket[x].missed
           \/ r.missed = Capped(bucket[x].missed + 1) /\ PollPending(x)
    PROVE  \A b \in Agent : Accounted(b)
<1> SUFFICES ASSUME NEW b \in Agent PROVE Accounted(b)
  BY Zenon
<1>0. x \in Agent /\ x \in Actor /\ x # "monitor"
  BY Zenon, AgentAssumption DEF Agent, Actor
<1>1. CASE b = x
  BY Zenon, <1>0, <1>1, WriteSettles DEF Kept, Counted, Accounted
<1>2. CASE b # x
  BY Zenon, <1>0, <1>2, OthersKept DEF Accounted
<1> QED
  BY Zenon, <1>1, <1>2

\* What the monitor writes after a ping.
LEMMA PingAccounted ==
    ASSUME TypeOK, NEW x \in Agent, NEW r, Put(x, r), OnlyMoves("monitor"),
           pc'["monitor"] \notin {"reread", "write"}, silence' = silence,
           r.missed = Capped(bucket[x].missed + 1), PingPending(x)
    PROVE  \A b \in Agent : Accounted(b)
<1> SUFFICES ASSUME NEW b \in Agent PROVE Accounted(b)
  BY Zenon
<1>0. "monitor" \in Actor /\ "monitor" \notin External
  BY Zenon, AgentAssumption DEF Actor
<1>1. CASE b = x
  <2>1. bucket'[x] = r /\ \A z \in Actor : x \notin held'[z]
    BY Zenon DEF Put, TypeOK
  <2>2. ~PingPending(x)'
    BY Zenon DEF PingPending
  <2>3. PollPending(x)' => PollPending(x)
    BY Zenon, <1>0, <2>1 DEF PollPending, Current, OnlyMoves, Actor
  <2> QED
    BY Zenon, <1>1, <2>1, <2>2, <2>3 DEF Counted, Accounted
<1>2. CASE b # x
  BY Zenon, <1>0, <1>2, OthersKept DEF Accounted
<1> QED
  BY Zenon, <1>1, <1>2

LEMMA AccountStep ==
    ASSUME TypeOK, TypeOK', CountIsAccounted, \A b \in Agent : Accounted(b)
    PROVE  CountIsAccounted'
<1> SUFFICES ASSUME NEW b \in Agent
             PROVE  Capped(bucket'[b].missed + Pending(b)') <= silence'[b]
  BY Zenon DEF CountIsAccounted
<1>1. /\ bucket[b].missed \in 0..MissedCap /\ silence[b] \in 0..MissedCap
      /\ silence'[b] \in 0..MissedCap
  BY Zenon DEF TypeOK, AgentRegistration
<1>2. Capped(bucket[b].missed + Pending(b)) <= silence[b]
  BY Zenon DEF CountIsAccounted
<1> USE SMTT(20), <1>1, <1>2, ThresholdAssumption DEF Pending, Capped, MissedCap
<1>3. CASE Kept(b)
  BY <1>3 DEF Kept
<1>4. CASE Heard(b)
  BY <1>4 DEF Heard
<1>5. CASE Missed(b)
  BY <1>5 DEF Missed
<1>6. CASE Counted(b)
  BY <1>6 DEF Counted
<1> QED
  BY ONLY Zenon, <1>3, <1>4, <1>5, <1>6, \A a \in Agent : Accounted(a) DEF Accounted

-----------------------------------------------------------------------------
(* One lemma per conjunct of the invariant, one step per action *)

\* Every increment was preceded by its own ping or failed poll, and a
\* sign of life outdates the increments under way.
LEMMA EveryStepAccounted == HealthInvariant /\ Next => \A b \in Agent : Accounted(b)
<1> SUFFICES ASSUME HealthInvariant, Next PROVE \A b \in Agent : Accounted(b)
  BY Zenon
<1> USE SMTT(60), AgentAssumption
    DEF HealthInvariant, TypeOK, Accounted, Kept, PingPending, PollPending, Positions,
        Locals, Current, AgentRegistration, NoLocals, Busy, NewEntry, NoEntry, Present,
        Actor, Consumer, Agent
<1>1. ASSUME NEW a \in Managed, HandleRegister(a) PROVE \A b \in Agent : Accounted(b)
  <2>1. CASE ~Present(a)
    <3>2. Put(a, NewEntry) /\ OnlyMoves("register") /\ silence' = [silence EXCEPT ![a] = 0]
      BY Zenon, <1>1, <2>1, AgentAssumption
         DEF HandleRegister, RegisterCreate, OnlyMoves, Goto, At, HeardIfAbsent
    <3>3. a \in External => "register" = a /\ pc'[a] # "unreachable"
      BY Zenon, <1>1, <2>1, AgentAssumption DEF HandleRegister, RegisterCreate, Goto
    <3>4. /\ NewEntry.missed = 0 /\ "register" \in Actor \ {"monitor"}
          /\ "register" \in External => "register" = a
      BY Zenon, <1>1, AgentAssumption DEF HandleRegister, RegisterCreate
    <3> QED
      BY ONLY Zenon, HealthInvariant, <1>1, <3>2, <3>3, <3>4, SignOfLife DEF HealthInvariant, Agent
  <2>2. CASE Present(a)
    BY Zenon, <1>1, <2>2 DEF HandleRegister, RegisterCreate, Goto, At, HeardIfAbsent
  <2> QED
    BY ONLY Zenon, <2>1, <2>2
<1>2. ASSUME NEW a \in Managed, HandleUnregister(a) PROVE \A b \in Agent : Accounted(b)
  BY Zenon, <1>2 DEF HandleUnregister, Purge, Put, Goto, At, healthVars
<1>3. CASE HandlerRegisterGet
  BY Zenon, <1>3 DEF HandlerRegisterGet, RegisterGet, ReadRevision, Goto, healthVars
<1>4. CASE HandlerRegisterUpdate
  <2>1. CASE Current("register", loc["register"].at)
    <3>1. PICK x \in Agent : x = loc["register"].at
      BY Zenon, <1>4 DEF HandlerRegisterUpdate, RegisterUpdate
    <3>2. Put(x, NewEntry) /\ OnlyMoves("register") /\ silence' = [silence EXCEPT ![x] = 0]
      BY Zenon, <1>4, <2>1, <3>1, AgentAssumption
         DEF HandlerRegisterUpdate, RegisterUpdate, OnlyMoves, Goto, Update, HeardIfWritten
    <3>3. x \in External => "register" = x /\ pc'[x] # "unreachable"
      BY Zenon, <1>4, <2>1, <3>1, AgentAssumption DEF HandlerRegisterUpdate, RegisterUpdate, Goto
    <3>4. /\ NewEntry.missed = 0 /\ "register" \in Actor \ {"monitor"}
          /\ "register" \in External => "register" = x
      BY Zenon, <1>4, <3>1, AgentAssumption DEF HandlerRegisterUpdate, RegisterUpdate
    <3> QED
      BY ONLY Zenon, HealthInvariant, <1>4, <3>1, <3>2, <3>3, <3>4, SignOfLife
         DEF HealthInvariant, Agent
  <2>2. CASE ~Current("register", loc["register"].at)
    BY Zenon, <1>4, <2>2 DEF HandlerRegisterUpdate, RegisterUpdate, Update, Goto, HeardIfWritten
  <2> QED
    BY ONLY Zenon, <2>1, <2>2
<1>5. ASSUME NEW c \in Consumer, Ack(c) PROVE \A b \in Agent : Accounted(b)
  BY Zenon, <1>5 DEF Ack, Finish, Goto
<1>6. CASE StartRound
  BY Zenon, <1>6 DEF StartRound, Goto
<1>7. ASSUME NEW a \in Agent, ListGet(a) PROVE \A b \in Agent : Accounted(b)
  BY Zenon, <1>7 DEF ListGet, ReadRevision, Goto
<1>8. ASSUME NEW a \in Agent, Ping(a) PROVE \A b \in Agent : Accounted(b)
  BY Zenon, <1>8 DEF Ping, Goto, Missed
<1>9. CASE MonitorReread
  BY <1>9 DEF MonitorReread, Reread, Goto, healthVars
<1>10. CASE MonitorWrite
  <2>1. CASE Current("monitor", loc["monitor"].at)
    <3>1. PICK x \in Agent : x = loc["monitor"].at
      BY Zenon, <1>10 DEF MonitorWrite, Write
    <3>2. PICK r : r = NewValue("monitor")
      BY Zenon
    <3>3. /\ Put(x, r) /\ OnlyMoves("monitor") /\ silence' = silence
          /\ pc'["monitor"] \notin {"reread", "write"} /\ PingPending(x)
      BY Zenon, <1>10, <2>1, <3>1, <3>2 DEF MonitorWrite, Write, Update, OnlyMoves, Goto, healthVars
    <3>4. loc["monitor"].seen = bucket[x] /\ loc["monitor"].op = "increment"
      BY Zenon, <1>10, <2>1, <3>1 DEF MonitorWrite, Write, ReadIsStored
    <3>5. r.missed = Capped(bucket[x].missed + 1)
      BY ONLY Zenon, <3>2, <3>4 DEF NewValue, Written, IncrementMissedHeartbeats
    <3> QED
      BY ONLY Zenon, HealthInvariant, <3>3, <3>5, PingAccounted DEF HealthInvariant
  <2>2. CASE ~Current("monitor", loc["monitor"].at)
    BY Zenon, <1>10, <2>2 DEF MonitorWrite, Write, Update, Goto, healthVars
  <2> QED
    BY ONLY Zenon, <2>1, <2>2
<1>11. CASE AnnounceDead
  BY Zenon, <1>11 DEF AnnounceDead, Goto, healthVars
<1>12. CASE PurgeDead
  BY Zenon, <1>12 DEF PurgeDead, Purge, Put, Goto, healthVars
<1>13. CASE EndRound
  BY Zenon, <1>13 DEF EndRound, Finish, Goto, healthVars
<1>14. ASSUME NEW a \in Managed, HandlePong(a) PROVE \A b \in Agent : Accounted(b)
  BY Zenon, <1>14 DEF HandlePong, ReadRevision, Goto, healthVars
<1>15. CASE PongReread
  BY Zenon, <1>15 DEF PongReread, Reread, Goto, AfterConflict, healthVars
<1>16. CASE PongWrite
  <2>1. CASE Current("pong", loc["pong"].at)
    <3>1. PICK x \in Managed : x = loc["pong"].at
      BY Zenon, <1>16 DEF PongWrite, Write
    <3>2. PICK r : r = NewValue("pong")
      BY Zenon
    <3>3. Put(x, r) /\ OnlyMoves("pong") /\ silence' = [silence EXCEPT ![x] = 0]
      BY Zenon, <1>16, <2>1, <3>1, <3>2 DEF PongWrite, Write, Update, OnlyMoves, Goto, HeardIfWritten
    <3>4. r.missed = 0
      BY Zenon, <1>16, <3>2 DEF PongWrite, Write, NewValue, Written, RecordHeartbeat
    <3> QED
      BY ONLY Zenon, HealthInvariant, <3>1, <3>3, <3>4, SignOfLife, AgentAssumption
         DEF HealthInvariant, Agent, Actor, Consumer
  <2>2. CASE ~Current("pong", loc["pong"].at)
    BY Zenon, <1>16, <2>2 DEF PongWrite, Write, Update, Goto, AfterConflict, HeardIfWritten
  <2> QED
    BY ONLY Zenon, <2>1, <2>2
<1>17. CASE RetryPong
  BY Zenon, <1>17 DEF RetryPong, ReadRevision, Finish, Goto, healthVars
<1>18. ASSUME NEW e \in External, OnboardUnreachable(e) PROVE \A b \in Agent : Accounted(b)
  BY Zenon, <1>18 DEF OnboardUnreachable, Goto, healthVars
<1>19. ASSUME NEW e \in External, Onboard(e) PROVE \A b \in Agent : Accounted(b)
  <2>1. CASE ~Present(e)
    <3>2. Put(e, NewEntry) /\ OnlyMoves(e) /\ silence' = [silence EXCEPT ![e] = 0]
      BY Zenon, <1>19, <2>1, AgentAssumption
         DEF Onboard, RegisterCreate, OnlyMoves, Goto, At, HeardIfAbsent
    <3>3. e \in External => e = e /\ pc'[e] # "unreachable"
      BY Zenon, <1>19, <2>1, AgentAssumption DEF Onboard, RegisterCreate, Goto
    <3>4. /\ NewEntry.missed = 0 /\ e \in Actor \ {"monitor"}
          /\ e \in External => e = e
      BY Zenon, <1>19, AgentAssumption DEF Onboard, RegisterCreate
    <3> QED
      BY ONLY Zenon, HealthInvariant, <1>19, <3>2, <3>3, <3>4, SignOfLife DEF HealthInvariant, Agent
  <2>2. CASE Present(e)
    BY Zenon, <1>19, <2>2 DEF Onboard, RegisterCreate, Goto, At, HeardIfAbsent
  <2> QED
    BY ONLY Zenon, <2>1, <2>2
<1>20. ASSUME NEW e \in External, OnboardGet(e) PROVE \A b \in Agent : Accounted(b)
  BY Zenon, <1>20 DEF OnboardGet, RegisterGet, ReadRevision, Goto, healthVars
<1>21. ASSUME NEW e \in External, OnboardUpdate(e) PROVE \A b \in Agent : Accounted(b)
  <2>1. CASE Current(e, loc[e].at)
    <3>1. PICK x \in Agent : x = loc[e].at
      BY Zenon, <1>21 DEF OnboardUpdate, RegisterUpdate
    <3>2. Put(x, NewEntry) /\ OnlyMoves(e) /\ silence' = [silence EXCEPT ![x] = 0]
      BY Zenon, <1>21, <2>1, <3>1, AgentAssumption
         DEF OnboardUpdate, RegisterUpdate, OnlyMoves, Goto, Update, HeardIfWritten
    <3>3. x \in External => e = x /\ pc'[x] # "unreachable"
      BY Zenon, <1>21, <2>1, <3>1, AgentAssumption DEF OnboardUpdate, RegisterUpdate, Goto
    <3>4. /\ NewEntry.missed = 0 /\ e \in Actor \ {"monitor"}
          /\ e \in External => e = x
      BY Zenon, <1>21, <3>1, AgentAssumption DEF OnboardUpdate, RegisterUpdate
    <3> QED
      BY ONLY Zenon, HealthInvariant, <1>21, <3>1, <3>2, <3>3, <3>4, SignOfLife
         DEF HealthInvariant, Agent
  <2>2. CASE ~Current(e, loc[e].at)
    BY Zenon, <1>21, <2>2 DEF OnboardUpdate, RegisterUpdate, Update, Goto, HeardIfWritten
  <2> QED
    BY ONLY Zenon, <2>1, <2>2
<1>22. ASSUME NEW e \in External, FetchAgentCard(e) PROVE \A b \in Agent : Accounted(b)
  BY Zenon, <1>22 DEF FetchAgentCard, Goto, Missed
<1>23. ASSUME NEW e \in External, CheckHealth(e) PROVE \A b \in Agent : Accounted(b)
  BY Zenon, <1>23 DEF CheckHealth, ReadRevision, Finish, Goto, PollOperation, healthVars
<1>24. ASSUME NEW e \in External, PollReread(e) PROVE \A b \in Agent : Accounted(b)
  BY <1>24 DEF PollReread, Reread, Goto, healthVars
<1>25. ASSUME NEW e \in External, PollWrite(e) PROVE \A b \in Agent : Accounted(b)
  <2>0. loc[e].at = e
    BY Zenon, <1>25 DEF PollWrite, Write
  <2>1. CASE Current(e, e)
    <3>1. PICK r : r = NewValue(e)
      BY Zenon
    <3>2. /\ Put(e, r) /\ OnlyMoves(e) /\ pc'[e] = "idle" /\ loc[e].seen = bucket[e]
          /\ silence' = IF loc[e].op = "heartbeat" THEN [silence EXCEPT ![e] = 0] ELSE silence
      BY <1>25, <2>0, <2>1, <3>1
         DEF PollWrite, Write, Update, OnlyMoves, Goto, HeardIfWritten, ReadIsStored
    <3>3. CASE loc[e].op = "heartbeat"
      <4>1. r.missed = 0
        BY ONLY Zenon, <3>1, <3>3 DEF NewValue, Written, RecordHeartbeat
      <4> QED
        BY ONLY Zenon, HealthInvariant, <1>25, <3>2, <3>3, <4>1, SignOfLife, AgentAssumption
           DEF HealthInvariant, Agent, Actor
    <3>4. CASE loc[e].op = "activate"
      <4>1. r.missed = bucket[e].missed
        BY <1>25, <3>1, <3>2, <3>4 DEF NewValue, Written, UpdateStatus
      <4> QED
        BY ONLY Zenon, HealthInvariant, <1>25, <3>2, <3>4, <4>1, PollAccounted DEF HealthInvariant
    <3>5. CASE loc[e].op = "increment"
      <4>1. r.missed = Capped(bucket[e].missed + 1)
        BY ONLY Zenon, <3>1, <3>2, <3>5 DEF NewValue, Written, IncrementMissedHeartbeats
      <4>2. PollPending(e)
        BY Zenon, <1>25, <2>1, <3>5 DEF PollWrite, Write
      <4> QED
        BY ONLY Zenon, HealthInvariant, <1>25, <3>2, <3>5, <4>1, <4>2, PollAccounted DEF HealthInvariant
    <3> QED
      BY Zenon, <1>25, <3>3, <3>4, <3>5 DEF PollWrite, Write, Local
  <2>2. CASE ~Current(e, e)
    BY <1>25, <2>0, <2>2 DEF PollWrite, Write, Update, Goto, HeardIfWritten
  <2> QED
    BY ONLY Zenon, <2>1, <2>2
<1>26. ASSUME NEW a \in Agent, StartAgent(a) PROVE \A b \in Agent : Accounted(b)
  BY Zenon, <1>26 DEF StartAgent, Publish, HasRoom, Spend, registryVars
<1>27. ASSUME NEW a \in Agent, StopAgent(a) PROVE \A b \in Agent : Accounted(b)
  BY Zenon, <1>27 DEF StopAgent, Ends, Publish, HasRoom, Spend, registryVars
<1>28. ASSUME NEW a \in Agent, CrashAgent(a) PROVE \A b \in Agent : Accounted(b)
  BY Zenon, <1>28 DEF CrashAgent, Ends, Spend, registryVars
<1>29. ASSUME NEW a \in Agent, EndpointReturns(a) PROVE \A b \in Agent : Accounted(b)
  BY Zenon, <1>29 DEF EndpointReturns, registryVars
<1>30. ASSUME NEW a \in Managed, AnswerPing(a) PROVE \A b \in Agent : Accounted(b)
  BY Zenon, <1>30 DEF AnswerPing, Publish, HasRoom, registryVars
<1>31. ASSUME NEW x \in Actor, CallFails(x) PROVE \A b \in Agent : Accounted(b)
  BY <1>31 DEF CallFails, Spend, Goto, AfterFailure, AfterConflict
<1>32. ASSUME NEW a \in Managed, CreateFails(a) PROVE \A b \in Agent : Accounted(b)
  BY Zenon, <1>32 DEF CreateFails, Spend, Goto, At
<1>33. CASE CrashRuntime
  BY Zenon, <1>33 DEF CrashRuntime, Restart, Spend
<1>34. CASE CrashGateway
  BY Zenon, <1>34 DEF CrashGateway, Restart, Spend, Scenario
<1> QED
  BY ONLY Zenon, Next, <1>1, <1>2, <1>3, <1>4, <1>5, <1>6, <1>7, <1>8, <1>9, <1>10, <1>11,
     <1>12, <1>13, <1>14, <1>15, <1>16, <1>17, <1>18, <1>19, <1>20, <1>21, <1>22, <1>23,
     <1>24, <1>25, <1>26, <1>27, <1>28, <1>29, <1>30, <1>31, <1>32, <1>33, <1>34
  DEF Next, Handler, Monitor, Pong, Poll, Environment

\* Statuses change only at the thresholds.
LEMMA StatusMatchesCountStep == HealthInvariant /\ Next => StatusMatchesCount'
<1> SUFFICES ASSUME HealthInvariant, Next PROVE StatusMatchesCount'
  BY Zenon
<1> USE SMTT(60), ThresholdAssumption, AgentAssumption, BoundAssumption
    DEF HealthInvariant, TypeOK, StatusMatchesCount, StatusFits, NewEntry, NoEntry,
        Present, Current, Actor, Consumer, Agent
<1>1. ASSUME NEW a \in Managed, HandleRegister(a) PROVE StatusMatchesCount'
  BY <1>1 DEF HandleRegister, RegisterCreate, Put, Goto, At, HeardIfAbsent, healthVars
<1>2. ASSUME NEW a \in Managed, HandleUnregister(a) PROVE StatusMatchesCount'
  BY Zenon, <1>2 DEF HandleUnregister, Purge, Put, Goto, At, healthVars
<1>3. CASE HandlerRegisterGet
  BY Zenon, <1>3 DEF HandlerRegisterGet, RegisterGet, ReadRevision, Goto, healthVars
<1>4. CASE HandlerRegisterUpdate
  BY <1>4 DEF HandlerRegisterUpdate, RegisterUpdate, Update, Put, Goto, HeardIfWritten,
      healthVars
<1>5. ASSUME NEW c \in Consumer, Ack(c) PROVE StatusMatchesCount'
  BY Zenon, <1>5 DEF Ack, Finish, Goto
<1>6. CASE StartRound
  BY Zenon, <1>6 DEF StartRound, Goto
<1>7. ASSUME NEW a \in Agent, ListGet(a) PROVE StatusMatchesCount'
  BY Zenon, <1>7 DEF ListGet, ReadRevision, Goto
<1>8. ASSUME NEW a \in Agent, Ping(a) PROVE StatusMatchesCount'
  BY Zenon, <1>8 DEF Ping, Goto
<1>9. CASE MonitorReread
  BY Zenon, <1>9 DEF MonitorReread, Reread, Goto, healthVars
<1>10. CASE MonitorWrite
  <2>1. CASE Current("monitor", loc["monitor"].at)
    <3>1. bucket' = [bucket EXCEPT ![loc["monitor"].at] = NewValue("monitor")]
      BY Zenon, <1>10, <2>1 DEF MonitorWrite, Write, Update, Put
    <3>2. /\ loc["monitor"].at \in Agent /\ loc["monitor"].op = "increment"
          /\ loc["monitor"].seen = bucket[loc["monitor"].at]
          /\ bucket[loc["monitor"].at].status \in {"active", "unhealthy"}
      BY Zenon, <1>10, <2>1 DEF MonitorWrite, Write, Locals, ReadIsStored, ListedIsLive
    <3>3. NewValue("monitor") = IncrementMissedHeartbeats(bucket[loc["monitor"].at])
      BY Zenon, <3>2 DEF NewValue, Written
    <3>4. loc["monitor"].at \in Managed => StatusFits(NewValue("monitor"))
      BY Zenon, <3>2, <3>3, IncrementFits
    <3> QED
      BY Zenon, <3>1, <3>4
  <2>2. CASE ~Current("monitor", loc["monitor"].at)
    BY Zenon, <1>10, <2>2 DEF MonitorWrite, Write, Update
  <2> QED
    BY ONLY Zenon, <2>1, <2>2
<1>11. CASE AnnounceDead
  BY Zenon, <1>11 DEF AnnounceDead, Goto, healthVars
<1>12. CASE PurgeDead
  BY Zenon, <1>12 DEF PurgeDead, Purge, Put, Goto, healthVars
<1>13. CASE EndRound
  BY Zenon, <1>13 DEF EndRound, Finish, Goto, healthVars
<1>14. ASSUME NEW a \in Managed, HandlePong(a) PROVE StatusMatchesCount'
  BY Zenon, <1>14 DEF HandlePong, ReadRevision, Goto, healthVars
<1>15. CASE PongReread
  BY Zenon, <1>15 DEF PongReread, Reread, Goto, AfterConflict, healthVars
<1>16. CASE PongWrite
  <2>1. CASE Current("pong", loc["pong"].at)
    <3>1. bucket' = [bucket EXCEPT ![loc["pong"].at] = NewValue("pong")]
      BY Zenon, <1>16, <2>1 DEF PongWrite, Write, Update, Put
    <3>2. /\ loc["pong"].at \in Managed /\ loc["pong"].op = "heartbeat"
          /\ loc["pong"].seen = bucket[loc["pong"].at]
      BY Zenon, <1>16, <2>1 DEF PongWrite, Write, Locals, ReadIsStored, ListedIsLive
    <3>3. NewValue("pong") = RecordHeartbeat(bucket[loc["pong"].at])
      BY Zenon, <3>2 DEF NewValue, Written
    <3>4. loc["pong"].at \in Managed => StatusFits(NewValue("pong"))
      BY Zenon, <3>2, <3>3, HeartbeatFits
    <3> QED
      BY Zenon, <3>1, <3>4
  <2>2. CASE ~Current("pong", loc["pong"].at)
    BY Zenon, <1>16, <2>2 DEF PongWrite, Write, Update
  <2> QED
    BY ONLY Zenon, <2>1, <2>2
<1>17. CASE RetryPong
  BY Zenon, <1>17 DEF RetryPong, ReadRevision, Finish, Goto, healthVars
<1>18. ASSUME NEW e \in External, OnboardUnreachable(e) PROVE StatusMatchesCount'
  BY Zenon, <1>18 DEF OnboardUnreachable, Goto, healthVars
<1>19. ASSUME NEW e \in External, Onboard(e) PROVE StatusMatchesCount'
  BY <1>19 DEF Onboard, RegisterCreate, Put, Goto, At, HeardIfAbsent
<1>20. ASSUME NEW e \in External, OnboardGet(e) PROVE StatusMatchesCount'
  BY Zenon, <1>20 DEF OnboardGet, RegisterGet, ReadRevision, Goto, healthVars
<1>21. ASSUME NEW e \in External, OnboardUpdate(e) PROVE StatusMatchesCount'
  BY <1>21 DEF OnboardUpdate, RegisterUpdate, Update, Put, Goto, HeardIfWritten
<1>22. ASSUME NEW e \in External, FetchAgentCard(e) PROVE StatusMatchesCount'
  BY Zenon, <1>22 DEF FetchAgentCard, Goto
<1>23. ASSUME NEW e \in External, CheckHealth(e) PROVE StatusMatchesCount'
  BY Zenon, <1>23 DEF CheckHealth, ReadRevision, Finish, Goto, PollOperation, healthVars
<1>24. ASSUME NEW e \in External, PollReread(e) PROVE StatusMatchesCount'
  BY Zenon, <1>24 DEF PollReread, Reread, Goto, healthVars
<1>25. ASSUME NEW e \in External, PollWrite(e) PROVE StatusMatchesCount'
  <2>1. loc[e].at = e /\ e \notin Managed
    BY Zenon, <1>25 DEF PollWrite, Write, Locals
  <2>2. \A a \in Managed : bucket'[a] = bucket[a]
    BY Zenon, <1>25, <2>1 DEF PollWrite, Write, Update, Put
  <2> QED
    BY Zenon, <2>2
<1>26. ASSUME NEW a \in Agent, StartAgent(a) PROVE StatusMatchesCount'
  BY Zenon, <1>26 DEF StartAgent, Publish, HasRoom, Spend, registryVars
<1>27. ASSUME NEW a \in Agent, StopAgent(a) PROVE StatusMatchesCount'
  BY Zenon, <1>27 DEF StopAgent, Ends, Publish, HasRoom, Spend, registryVars
<1>28. ASSUME NEW a \in Agent, CrashAgent(a) PROVE StatusMatchesCount'
  BY Zenon, <1>28 DEF CrashAgent, Ends, Spend, registryVars
<1>29. ASSUME NEW a \in Agent, EndpointReturns(a) PROVE StatusMatchesCount'
  BY Zenon, <1>29 DEF EndpointReturns, registryVars
<1>30. ASSUME NEW a \in Managed, AnswerPing(a) PROVE StatusMatchesCount'
  BY Zenon, <1>30 DEF AnswerPing, Publish, HasRoom, registryVars
<1>31. ASSUME NEW x \in Actor, CallFails(x) PROVE StatusMatchesCount'
  BY Zenon, <1>31 DEF CallFails, Spend, Goto, AfterFailure, AfterConflict
<1>32. ASSUME NEW a \in Managed, CreateFails(a) PROVE StatusMatchesCount'
  BY Zenon, <1>32 DEF CreateFails, Spend, Goto, At
<1>33. CASE CrashRuntime
  BY Zenon, <1>33 DEF CrashRuntime, Restart, Spend
<1>34. CASE CrashGateway
  BY Zenon, <1>34 DEF CrashGateway, Restart, Spend, Scenario
<1> QED
  BY ONLY Zenon, Next, <1>1, <1>2, <1>3, <1>4, <1>5, <1>6, <1>7, <1>8, <1>9, <1>10, <1>11,
     <1>12, <1>13, <1>14, <1>15, <1>16, <1>17, <1>18, <1>19, <1>20, <1>21, <1>22, <1>23,
     <1>24, <1>25, <1>26, <1>27, <1>28, <1>29, <1>30, <1>31, <1>32, <1>33, <1>34
  DEF Next, Handler, Monitor, Pong, Poll, Environment

-----------------------------------------------------------------------------
(* The theorems *)

\* Nothing is registered, read or pending in the beginning.
LEMMA InitInvariant == Init => HealthInvariant
<1> SUFFICES ASSUME Init PROVE HealthInvariant
  BY Zenon
<1> USE ThresholdAssumption, AgentAssumption, BoundAssumption DEF Init
<1>1. TypeOK
  <2>1. StoreTyped
    BY Zenon, EntryTypes DEF StoreTyped
  <2>2. LabelsTyped
    BY Zenon DEF LabelsTyped, MonitorLabel, ConsumerLabel, GatewayLabel
  <2>3. LocalsTyped
    BY Zenon, NoLocalsType DEF LocalsTyped
  <2>4. RestTyped
    BY DEF RestTyped, NothingToDo, MissedCap, Scenario, Agent
  <2> QED
    BY Zenon, <2>1, <2>2, <2>3, <2>4 DEF TypeOK, StoreTyped, LabelsTyped, LocalsTyped, RestTyped
<1>2. Positions
  BY Zenon DEF Positions, MonitorLabel, GatewayLabel, Actor, Consumer
<1>3. Locals
  BY Zenon DEF Locals, Actor, Consumer
<1>4. ReadIsStored
  BY Zenon DEF ReadIsStored, Current
<1>5. ListedIsLive
  BY Zenon DEF ListedIsLive, Current, NothingToDo, Actor
<1>6. CountIsAccounted
  BY DEF CountIsAccounted, Pending, PingPending, PollPending, Capped, MissedCap,
     NoEntry, Actor, Agent
<1>7. StatusMatchesCount
  BY Zenon DEF StatusMatchesCount, StatusFits, NoEntry, Agent
<1> QED
  BY Zenon, <1>1, <1>2, <1>3, <1>4, <1>5, <1>6, <1>7 DEF HealthInvariant

LEMMA NextInvariant == HealthInvariant /\ [Next]_vars => HealthInvariant'
<1>1. ASSUME HealthInvariant, Next PROVE HealthInvariant'
  BY Zenon, <1>1, TypeStep, PositionsStep, LocalsStep, ReadIsStoredStep, ListedIsLiveStep,
     EveryStepAccounted, AccountStep, StatusMatchesCountStep DEF HealthInvariant
<1>2. ASSUME HealthInvariant, UNCHANGED vars PROVE HealthInvariant'
  BY Zenon, <1>2 DEF HealthInvariant, TypeOK, Positions, Locals, ReadIsStored, ListedIsLive,
     CountIsAccounted, Pending, PingPending, PollPending, StatusMatchesCount, Current, vars
<1> QED
  BY Zenon, <1>1, <1>2

\* Whatever the thresholds, the retries and the agents: revisions, read
\* entries, counts and statuses fit together in every reachable state.
THEOREM HealthInvariantHolds == Spec => []HealthInvariant
BY InitInvariant, NextInvariant, PTL DEF Spec

\* An accounted count is no more than the silence.
LEMMA AccountedIsDeserved == HealthInvariant => CountIsDeserved
<1> SUFFICES ASSUME HealthInvariant, NEW a \in Agent
             PROVE  bucket[a].missed <= silence[a]
  BY Zenon DEF CountIsDeserved
<1>1. Capped(bucket[a].missed + Pending(a)) <= silence[a]
  BY Zenon DEF HealthInvariant, CountIsAccounted
<1>2. bucket[a].missed \in 0..MissedCap /\ silence[a] \in 0..MissedCap
  BY Zenon DEF HealthInvariant, TypeOK, AgentRegistration
<1>3. Pending(a) \in 0..2
  BY DEF Pending
<1> QED
  BY <1>1, <1>2, <1>3, ThresholdAssumption DEF Capped, MissedCap

\* No race between the ping loop, pongs, polls, registrations and purges makes
\* the registry count a ping or failed poll that was followed by a sign of life.
THEOREM CountDeserved == Spec => []CountIsDeserved
BY HealthInvariantHolds, AccountedIsDeserved, PTL

\* The status of an SDK agent is always the one its count calls for.
THEOREM StatusMatches == Spec => []StatusMatchesCount
<1>1. HealthInvariant => StatusMatchesCount
  BY Zenon DEF HealthInvariant
<1> QED
  BY <1>1, HealthInvariantHolds, PTL

\* The writes that can meet a DEAD entry: the monitor's was listed live, a
\* heartbeat keeps it DEAD, and the gateway writes entries of its own.
LEMMA RevivalStep == HealthInvariant /\ [Next]_vars => \A a \in Managed : OnlyRegisterRevives(a)
<1> SUFFICES ASSUME HealthInvariant, [Next]_vars, NEW b \in Managed,
                    bucket'[b] # bucket[b], bucket[b].status = "dead",
                    bucket'[b].status \notin {"dead", "none"}
             PROVE  /\ bucket'[b] = NewEntry
                    /\ pc["register"] = "registerUpdate"
                    /\ loc["register"].at = b
  BY Zenon DEF OnlyRegisterRevives
<1> USE AgentAssumption DEF HealthInvariant, TypeOK, Agent, Actor, Consumer
<1>1. ASSUME NEW a \in Managed, HandleRegister(a) PROVE FALSE
  BY Zenon, <1>1 DEF HandleRegister, RegisterCreate, Put, Present
<1>2. ASSUME NEW e \in External, Onboard(e) PROVE FALSE
  BY Zenon, <1>2 DEF Onboard, RegisterCreate, Put, Present
<1>3. ASSUME NEW a \in Managed, HandleUnregister(a) PROVE FALSE
  BY Zenon, <1>3 DEF HandleUnregister, Purge, Put, NoEntry
<1>4. CASE PurgeDead
  BY Zenon, <1>4 DEF PurgeDead, Purge, Put, NoEntry
<1>5. CASE HandlerRegisterUpdate
  BY <1>5 DEF HandlerRegisterUpdate, RegisterUpdate, Update, Put, Locals
<1>6. ASSUME NEW e \in External, OnboardUpdate(e) PROVE FALSE
  BY <1>6 DEF OnboardUpdate, RegisterUpdate, Update, Put, Locals
<1>7. ASSUME NEW e \in External, PollWrite(e) PROVE FALSE
  BY <1>7 DEF PollWrite, Write, Update, Put, Locals
<1>8. CASE MonitorWrite
  BY <1>8 DEF MonitorWrite, Write, Update, Put, Locals, ListedIsLive
<1>9. CASE PongWrite
  <2>1. /\ bucket' = [bucket EXCEPT ![loc["pong"].at] = NewValue("pong")]
        /\ loc["pong"].seen = bucket[loc["pong"].at] /\ loc["pong"].op = "heartbeat"
    BY Zenon, <1>9 DEF PongWrite, Write, Update, Put, Locals, ReadIsStored
  <2> QED
    BY Zenon, <2>1 DEF NewValue, Written, RecordHeartbeat
<1>10. CASE UNCHANGED bucket
  BY Zenon, <1>10
<1> QED
  <2>1. CASE Handler
    BY Zenon, <2>1, <1>1, <1>3, <1>5, <1>10
       DEF Handler, HandlerRegisterGet, RegisterGet, ReadRevision, Ack
  <2>2. CASE Monitor
    BY Zenon, <2>2, <1>4, <1>8, <1>10
       DEF Monitor, StartRound, ListGet, ReadRevision, Ping, MonitorReread, Reread,
           AnnounceDead, EndRound
  <2>3. CASE Pong
    BY Zenon, <2>3, <1>9, <1>10
       DEF Pong, HandlePong, ReadRevision, PongReread, Reread, RetryPong
  <2>4. ASSUME NEW e \in External, Poll(e) PROVE FALSE
    BY Zenon, <2>4, <1>2, <1>6, <1>7, <1>10
       DEF Poll, OnboardUnreachable, OnboardGet, RegisterGet, ReadRevision,
           FetchAgentCard, CheckHealth, PollReread, Reread
  <2>5. CASE Environment
    BY Zenon, <2>5, <1>10
       DEF Environment, StartAgent, StopAgent, CrashAgent, EndpointReturns, AnswerPing,
           registryVars, CallFails, CreateFails, CrashRuntime, CrashGateway, Restart
  <2>6. CASE UNCHANGED vars
    BY Zenon, <2>6, <1>10 DEF vars
  <2> QED
    BY Zenon, <2>1, <2>2, <2>3, <2>4, <2>5, <2>6 DEF Next

\* No interleaving of late pongs, stale increments, polls and crashes revives
\* an SDK agent declared dead; only a new registration does.
THEOREM DeadAgentStaysDead == Spec => DeadStaysDead
BY RevivalStep, HealthInvariantHolds, PTL DEF Spec, DeadStaysDead

=============================================================================
