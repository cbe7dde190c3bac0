-------------------------- MODULE HttpGatewayProofs --------------------------
(***************************************************************************)
(* Theorems about HttpGateway for every set of threads, models, ids and    *)
(* generations, every bound, and every choice of ids by the clients.       *)
(*                                                                         *)
(* The properties follow from where a thread stands: inside the engine     *)
(* mutex or not, with a plan locked or not, registered or not.  GInv has   *)
(* one named conjunct for each of these.                                   *)
(***************************************************************************)
EXTENDS HttpGateway, FiniteSetTheorems, TLAPS

(* Where a thread holds the engine mutex, and where the engine is Busy for it.*)
Inside == {"refresh", "lost", "refreshed", "send", "proxy", "write", "finish",
           "start", "load", "loading", "failed", "stop", "stopping", "unlock"}
Proxying == {"send", "proxy", "write", "finish"}
Planning == {"lock", "start", "load", "loading", "failed", "unlock"}

(* One thread inside the mutex, and it is the one the guard belongs to. *)
MutexInv == \A h \in Handlers : pc[h] \in Inside <=> engineLock = h

(* What a thread has asked for, from where it stands. *)
OpInv == \A h \in Handlers :
  /\ pc[h] \in {"lock", "unlock"} =>
       req[h].op \in {"status", "start", "start_planned", "stop", "legacy", "chat", "stream"}
  /\ pc[h] \in {"refresh", "lost", "refreshed"} \cup Proxying =>
       req[h].op \in {"status", "legacy", "chat", "stream"}
  /\ pc[h] \in {"start", "load", "loading", "failed"} => req[h].op \in {"start", "start_planned"}
  /\ pc[h] \in {"stop", "stopping"} => req[h].op = "stop"
  /\ pc[h] = "cancel" => req[h].target \in Ids
  /\ pc[h] = "lockplan" => req[h].op = "start_planned"
  /\ pc[h] = "tools" => req[h].op = "chat"
  /\ req[h].again => req[h].op = "chat"

(* A planned start keeps its plan locked until it unlocks both mutexes. *)
PlanInv == \A h \in Handlers :
  req[h].op = "start_planned" /\ pc[h] \in Planning => planLock = h /\ plan = req[h].plan

BusyInv ==
  /\ \A h \in Handlers : pc[h] \in Proxying =>
       estate[E] = "Busy" /\ worker[E] /\ emodel[E] = req[h].model
  /\ estate[E] = "Busy" => \E h \in Handlers : pc[h] \in Proxying

Open == {h \in Handlers : pc[h] # "idle"}

(* Who panicked has left its place taken, so places can be more. *)
CountInv == IsFiniteSet(Open) /\ Cardinality(Open) <= active

(* Who has sent a request is registered, and an id of its own stands for it; *)
(* an id that is registered is that of a request.                            *)
Registered(h) == pc[h] \notin {"idle", "read"}

CancelInv ==
  /\ \A h \in Handlers : Registered(h) => req[h].id \in IdsOf[h]
  /\ \A h \in Handlers : Registered(h) /\ Exclusive(req[h].id) => registry[req[h].id] = h
  /\ \A i \in Ids : registry[i] # None =>
       Registered(registry[i]) /\ req[registry[i]].id = i
  /\ \A i \in cancelled : Exclusive(i) => registry[i] # None /\ flag[registry[i]]

GInv ==
  GatewayTypeOK /\ MutexInv /\ OpInv /\ PlanInv /\ BusyInv /\ CountInv /\ CancelInv

-----------------------------------------------------------------------------
(* The engine: a thread inside the mutex takes one of these steps, and the   *)
(* engine is Busy after it exactly if the thread goes on to proxy.           *)
EngineStates == {"Idle", "Loading", "Ready", "Busy", "Degraded", "Stopping", "Failed"}

Moves(h) ==
  /\ UNCHANGED <<locks, plan, gen, cancels, active, req>>
  /\ estate' \in [{E} -> EngineStates]
  /\ emodel' \in [{E} -> Models \cup {None}]
  /\ worker' \in [{E} -> BOOLEAN]
  /\ \E to \in Inside :
       /\ pc[h] \in Inside /\ pc' = [pc EXCEPT ![h] = to]
       /\ to = "unlock" \/ \E way \in {{"refresh", "lost", "refreshed"} \cup Proxying,
                                     {"start", "load", "loading", "failed"},
                                     {"stop", "stopping"}} : {pc[h], to} \subseteq way
       /\ to \in Proxying =>
            estate'[E] = "Busy" /\ worker'[E] /\ emodel'[E] = req[h].model
       /\ to \notin Proxying => estate'[E] # "Busy"

EngineStep(h) ==
  Refresh(h) \/ Start(h) \/ Stop(h) \/ BeginInference(h) \/ Send(h)
  \/ StreamChunk(h) \/ ClientTakes(h) \/ FinishInference(h)

(* What a step of the engine leaves. *)
LEMMA EngineStepMoves ==
  ASSUME GInv, NEW h \in Handlers, EngineStep(h)
  PROVE  Moves(h)
<1> USE GatewayAssumption DEF InEngine, At, Goto, Inside, Proxying, Planning, EngineStates,
      E, engine, L!Becomes
<1>t. /\ GatewayTypeOK /\ MutexInv /\ BusyInv /\ OpInv
  BY DEF GInv
<1>m. req[h].model \in Models \cup {None}
  BY <1>t DEF GatewayTypeOK, Request
<1>b. pc[h] \in Inside \ Proxying => estate[E] # "Busy"
  BY <1>t DEF MutexInv, BusyInv
<1>e. /\ estate \in [{E} -> EngineStates] /\ emodel \in [{E} -> Models \cup {None}]
      /\ worker \in [{E} -> BOOLEAN] /\ pc \in [Handlers -> Step]
  BY <1>t DEF GatewayTypeOK
<1>p. pc[h] \in Proxying => estate[E] = "Busy" /\ worker[E] /\ emodel[E] = req[h].model
  BY <1>t DEF BusyInv
<1>1. CASE Refresh(h)
  BY <1>1, <1>b, <1>e DEF Refresh, Moves, L!Answered, L!Reap, L!LostWorker
<1>2. CASE Start(h)
  BY <1>2, <1>b, <1>e, <1>m DEF Start, Moves, L!Load, L!Spawn, L!NotStarted, L!Launched,
     L!Served, L!Reap
<1>3. CASE Stop(h)
  BY <1>3, <1>b, <1>e DEF Stop, Moves, L!Stop, L!Reap, L!Stopped
<1>4. CASE BeginInference(h)
  BY <1>4, <1>b, <1>e DEF BeginInference, Serves, Moves, L!BeginRequest
<1>5. CASE Send(h)
  BY <1>5, <1>p, <1>e DEF Send, Moves
<1>6. CASE StreamChunk(h) \/ ClientTakes(h)
  BY <1>6, <1>p, <1>e DEF StreamChunk, ClientTakes, Moves
<1>7. CASE FinishInference(h)
  BY <1>7, <1>p, <1>e DEF FinishInference, Moves, L!EndRequest
<1> QED
  BY <1>1, <1>2, <1>3, <1>4, <1>5, <1>6, <1>7 DEF EngineStep
-----------------------------------------------------------------------------
(* Initially nobody is connected. *)
LEMMA InitEstablishesGInv == Init => GInv
<1> SUFFICES ASSUME Init PROVE GInv
  OBVIOUS
<1> USE GatewayAssumption DEF Init
<1>1. GatewayTypeOK
  <2>1. NoRequest \in Request
    BY GatewayAssumption DEF NoRequest, Ask, Request
  <2>2. L!Init
    OBVIOUS
  <2> QED
    BY <2>1, <2>2 DEF GatewayTypeOK, L!Init, Step
<1>2. MutexInv /\ OpInv /\ PlanInv
  BY DEF MutexInv, OpInv, PlanInv, Inside, Planning, Proxying, NoRequest, Ask
<1>3. BusyInv
  BY DEF BusyInv, Proxying, L!Init, E
<1>4. CountInv
  <2>1. Open = {}
    BY DEF Open
  <2> QED
    BY <2>1, FS_EmptySet DEF CountInv
<1>5. CancelInv
  BY DEF CancelInv, Registered
<1> QED
  BY <1>1, <1>2, <1>3, <1>4, <1>5 DEF GInv

(* Every request the routes let through is a request, with an id the client  *)
(* may use, for an operation.                                                *)
LEMMA RequestTyped ==
  ASSUME NEW h \in Handlers, NEW r \in Requests(h)
  PROVE  /\ r \in Request /\ r.id \in IdsOf[h] /\ r.id \in Ids
         /\ r.op \in Op /\ ~r.again
         /\ r.op = "cancel" => r.target \in Ids
<1>1. \E op \in Op, i \in IdsOf[h], m \in Models \cup {None}, p \in Plans \cup {None},
         t \in Ids \cup {None} : r = Ask(op, i, m, p, t) /\ (op = "cancel" => t \in Ids)
  <2>1. CASE \E op \in {"status", "stop"}, i \in IdsOf[h] : r = Ask(op, i, None, None, None)
    BY <2>1 DEF Op
  <2>2. CASE \E op \in {"start", "legacy", "chat", "stream"}, i \in IdsOf[h], m \in Models :
               r = Ask(op, i, m, None, None)
    BY <2>2 DEF Op
  <2>3. CASE \E i \in IdsOf[h], t \in Ids : r = Ask("cancel", i, None, None, t)
    BY <2>3 DEF Op
  <2>4. CASE \E op \in {"plan", "start_planned"}, i \in IdsOf[h], p \in Plans :
               r = Ask(op, i, p.model, p, None)
    BY <2>4 DEF Op, Plans
  <2> QED
    BY <2>1, <2>2, <2>3, <2>4 DEF Requests
<1>2. PICK op \in Op, i \in IdsOf[h], m \in Models \cup {None}, p \in Plans \cup {None},
           t \in Ids \cup {None} : r = Ask(op, i, m, p, t) /\ (op = "cancel" => t \in Ids)
  BY <1>1
<1> QED
  BY <1>2, GatewayAssumption DEF Ask, Request

(* The answered request keeps its id. *)
LEMMA AnsweredTyped ==
  ASSUME NEW r \in Request
  PROVE  LET a == Ask("none", r.id, None, None, None) IN
         a \in Request /\ a.id = r.id /\ a.op = "none" /\ ~a.again
BY GatewayAssumption DEF Ask, Request

(* The next round of a chat is the same request, one round on; and whether   *)
(* there is one changes nothing else (run_chat_completion_with_tools).       *)
LEMMA RoundTyped ==
  ASSUME NEW r \in Request
  PROVE  /\ r.rounds < MaxRounds => NextRound(r) \in Request
         /\ NextRound(r).op = r.op /\ NextRound(r).id = r.id
         /\ NextRound(r).plan = r.plan /\ ~NextRound(r).again
         /\ \A b \in BOOLEAN :
              LET q == [r EXCEPT !.again = b] IN
              /\ q \in Request /\ q.op = r.op /\ q.id = r.id /\ q.plan = r.plan
              /\ q.model = r.model /\ q.rounds = r.rounds /\ q.again = b
<1>1. /\ NextRound(r).op = r.op /\ NextRound(r).id = r.id
      /\ NextRound(r).plan = r.plan /\ ~NextRound(r).again
  BY DEF NextRound
<1>2. r.rounds < MaxRounds => NextRound(r) \in Request
  BY GatewayAssumption DEF NextRound, Request
<1>3. ASSUME NEW b \in BOOLEAN
      PROVE  LET q == [r EXCEPT !.again = b] IN
             /\ q \in Request /\ q.op = r.op /\ q.id = r.id /\ q.plan = r.plan
             /\ q.model = r.model /\ q.rounds = r.rounds /\ q.again = b
  BY <1>3 DEF Request
<1> QED
  BY <1>1, <1>2, <1>3

(* The steps of a thread that are none of the engine. *)
Gateway(h) ==
  \/ Accept(h) \/ ReadFails(h) \/ (\E r \in Requests(h) : Register(h, r))
  \/ Close(h) \/ Cancel(h) \/ PutPlan(h) \/ LockPlan(h)
  \/ Lock(h) \/ Unlock(h) \/ RunTools(h) \/ ToolPanics(h) \/ ProxyEnds(h)

(* A step is one of the machine, of a thread, or of the engine under it. *)
LEMMA StepCases ==
  ASSUME GInv, Next
  PROVE  ResourcesChange \/ \E h \in Handlers : Gateway(h) \/ Moves(h)
BY EngineStepMoves DEF Next, ThreadStep, ClientStep, Gateway, EngineStep

-----------------------------------------------------------------------------
(* GInv is inductive, conjunct by conjunct. *)

(* A thread opens or closes its connection, or stays as it is. *)
LEMMA CountStep ==
  ASSUME GInv, Next
  PROVE  CountInv'
<1>t. CountInv /\ pc \in [Handlers -> Step] /\ active \in Nat
  BY GatewayAssumption DEF GInv, GatewayTypeOK
<1>c. /\ IsFiniteSet(Open) /\ Cardinality(Open) \in Nat /\ active \in Nat
      /\ Cardinality(Open) <= active
  BY <1>t, FS_CardinalityType DEF CountInv
<1>1. CASE UNCHANGED <<active, Open>>
  BY <1>1, <1>t DEF CountInv
<1>2. ASSUME NEW h \in Handlers, Accept(h) PROVE CountInv'
  <2>1. h \notin Open /\ Open' = Open \cup {h} /\ active' = active + 1
    BY <1>2, <1>t DEF Accept, Open, At, Goto
  <2>2. IsFiniteSet(Open \cup {h}) /\ Cardinality(Open \cup {h}) = Cardinality(Open) + 1
    BY <2>1, <1>c, FS_AddElement
  <2> QED
    BY <1>c, <2>1, <2>2 DEF CountInv
<1>3. ASSUME NEW h \in Handlers, ReadFails(h) \/ Close(h) PROVE CountInv'
  <2>1. h \in Open /\ Open' = Open \ {h} /\ active' = active - 1
    BY <1>3, <1>t DEF ReadFails, Close, Leave, Open, At, Goto
  <2>2. IsFiniteSet(Open \ {h}) /\ Cardinality(Open \ {h}) = Cardinality(Open) - 1
    BY <2>1, <1>c, FS_RemoveElement
  <2> QED
    BY <1>c, <2>1, <2>2 DEF CountInv
<1>7. ASSUME NEW h \in Handlers, ToolPanics(h) PROVE CountInv'
  <2>1. h \in Open /\ Open' = Open \ {h} /\ active' = active
    BY <1>7, <1>t DEF ToolPanics, Leave, Open, At, Goto
  <2>2. IsFiniteSet(Open \ {h}) /\ Cardinality(Open \ {h}) = Cardinality(Open) - 1
    BY <2>1, <1>c, FS_RemoveElement
  <2> QED
    BY <1>c, <2>1, <2>2 DEF CountInv
<1>4. ASSUME NEW h \in Handlers, Gateway(h), ~Accept(h), ~ReadFails(h), ~Close(h),
             ~ToolPanics(h)
      PROVE  UNCHANGED <<active, Open>>
  <2> USE <1>t DEF At, Goto, Open
  <2>1. ASSUME NEW r \in Requests(h), Register(h, r) PROVE UNCHANGED <<active, Open>>
    BY <2>1 DEF Register, FirstStep
  <2>2. CASE Cancel(h) \/ PutPlan(h) \/ LockPlan(h)
    BY <2>2 DEF Cancel, PutPlan, LockPlan, Answered
  <2>3. CASE Lock(h)
    BY <2>3 DEF Lock, GInv, OpInv
  <2>4. CASE Unlock(h) \/ RunTools(h) \/ ProxyEnds(h)
    BY <2>4 DEF Unlock, RunTools, ProxyEnds, Answered
  <2> QED
    BY <1>4, <2>1, <2>2, <2>3, <2>4 DEF Gateway
<1>5. ASSUME NEW h \in Handlers, Moves(h) PROVE UNCHANGED <<active, Open>>
  BY <1>5, <1>t DEF Moves, Open, Inside
<1>6. CASE ResourcesChange
  BY <1>1, <1>6 DEF ResourcesChange, Open
<1> QED
  BY <1>1, <1>2, <1>3, <1>4, <1>5, <1>6, <1>7, StepCases

(* Types: requests, flags, the registry and the engine, action by action. *)
LEMMA TypeStep ==
  ASSUME GInv, CountInv', Next
  PROVE  GatewayTypeOK'
<1> USE GatewayAssumption
<1>t. GatewayTypeOK /\ OpInv
  BY DEF GInv
<1>1. CASE ResourcesChange
  BY <1>1, <1>t DEF ResourcesChange, GatewayTypeOK, engine, locks, cancels
<1>2. ASSUME NEW h \in Handlers, Gateway(h) PROVE GatewayTypeOK'
  <2> USE <1>t DEF GatewayTypeOK, engine, locks, cancels, At, Goto, Step
  <2>a. Ask("none", req[h].id, None, None, None) \in Request
    BY AnsweredTyped
  <2>n. NoRequest \in Request
    BY DEF NoRequest, Ask, Request
  <2>c. ReadFails(h) \/ Close(h) => active > 0
    <3> SUFFICES ASSUME ReadFails(h) \/ Close(h) PROVE active > 0
      OBVIOUS
    <3>1. IsFiniteSet(Open) /\ Cardinality(Open) <= active /\ active \in Nat
      BY DEF GInv, CountInv
    <3>2. h \in Open
      BY DEF ReadFails, Close, Open
    <3> QED
      BY <3>1, <3>2, FS_CardinalityType, FS_EmptySet
  <2>1. CASE Accept(h)
    BY <2>1 DEF Accept
  <2>2. CASE ReadFails(h)
    BY <2>2, <2>c DEF ReadFails
  <2>3. ASSUME NEW r \in Requests(h), Register(h, r) PROVE GatewayTypeOK'
    BY <2>3, RequestTyped DEF Register, FirstStep
  <2>4. CASE Close(h) \/ ToolPanics(h)
    <3>1. registry' \in [Ids -> Handlers \cup {None}] /\ cancelled' \subseteq Ids
      <4>1. Unregister(h)
        BY <2>4 DEF Close, ToolPanics
      <4> QED
        BY <4>1 DEF Unregister
    <3>2. req' \in [Handlers -> Request] /\ flag' \in [Handlers -> BOOLEAN]
      <4>1. req' = [req EXCEPT ![h] = NoRequest] /\ flag' = [flag EXCEPT ![h] = FALSE]
        BY <2>4 DEF Close, ToolPanics, Unregister, Leave
      <4> QED
        BY <4>1, <2>n
    <3>3. active' \in 0..MaxConnections /\ pc' \in [Handlers -> Step]
      BY <2>4, <2>c DEF Close, ToolPanics, Leave
    <3> QED
      BY <2>4, <3>1, <3>2, <3>3 DEF Close, ToolPanics, Leave
  <2>5. CASE Cancel(h)
    <3>1. req' \in [Handlers -> Request] /\ pc' \in [Handlers -> Step]
      BY <2>5, <2>a DEF Cancel, Answered
    <3>2. flag' \in [Handlers -> BOOLEAN] /\ cancelled' \subseteq Ids
      <4>1. req[h].target \in Ids
        BY <2>5 DEF Cancel, OpInv
      <4> QED
        BY <2>5, <4>1 DEF Cancel
    <3> QED
      BY <2>5, <3>1, <3>2 DEF Cancel
  <2>6. CASE PutPlan(h) \/ LockPlan(h)
    <3>1. req[h].plan \in Plans \cup {None}
      BY DEF Request
    <3>2. req' \in [Handlers -> Request] /\ pc' \in [Handlers -> Step]
      BY <2>6, <2>a DEF PutPlan, LockPlan, Answered
    <3> QED
      BY <2>6, <3>1, <3>2 DEF PutPlan, LockPlan
  <2>7. CASE Lock(h)
    BY <2>7 DEF Lock, OpInv
  <2>8. CASE Unlock(h)
    <3>1. req' \in [Handlers -> Request]
      BY <2>8, <2>a DEF Unlock, Answered
    <3> QED
      BY <2>8, <3>1 DEF Unlock, Answered
  <2>10. CASE RunTools(h)
    <3>1. req[h].rounds < MaxRounds => NextRound(req[h]) \in Request
      BY RoundTyped
    <3>2. req' \in [Handlers -> Request]
      BY <2>10, <2>a, <3>1 DEF RunTools, Answered
    <3> QED
      BY <2>10, <3>2 DEF RunTools, Answered
  <2>9. CASE ProxyEnds(h)
    <3>1. req' \in [Handlers -> Request]
      BY <2>9, RoundTyped DEF ProxyEnds
    <3> QED
      BY <2>9, <3>1 DEF ProxyEnds
  <2> QED
    BY <1>2, <2>1, <2>2, <2>3, <2>4, <2>5, <2>6, <2>7, <2>8, <2>9, <2>10
    DEF Gateway
<1>3. ASSUME NEW h \in Handlers, Moves(h) PROVE GatewayTypeOK'
  BY <1>3, <1>t DEF Moves, GatewayTypeOK, locks, cancels, Inside, Step, EngineStates
<1> QED
  BY <1>1, <1>2, <1>3, StepCases

(* Where the other threads are, a step of one leaves them. *)
LEMMA MutexStep ==
  ASSUME GInv, Next
  PROVE  MutexInv'
<1> USE GatewayAssumption
<1>t. MutexInv /\ OpInv /\ pc \in [Handlers -> Step]
  BY DEF GInv, GatewayTypeOK
<1>1. CASE ResourcesChange
  BY <1>1, <1>t DEF ResourcesChange, MutexInv, locks
<1>2. ASSUME NEW h \in Handlers, Gateway(h) PROVE MutexInv'
  <2> USE <1>t DEF MutexInv, Inside, At, Goto, locks
  <2>1. CASE Accept(h) \/ ReadFails(h) \/ Close(h) \/ ToolPanics(h)
    BY <2>1 DEF Accept, ReadFails, Close, ToolPanics, Leave
  <2>2. ASSUME NEW r \in Requests(h), Register(h, r) PROVE MutexInv'
    BY <2>2 DEF Register, FirstStep
  <2>3. CASE Cancel(h) \/ PutPlan(h) \/ LockPlan(h)
    BY <2>3 DEF Cancel, PutPlan, LockPlan, Answered
  <2>4. CASE Lock(h)
    BY <2>4 DEF Lock, OpInv
  <2>5. CASE Unlock(h) \/ RunTools(h)
    BY <2>5 DEF Unlock, RunTools, Answered
  <2>6. CASE ProxyEnds(h)
    BY <2>6 DEF ProxyEnds
  <2> QED
    BY <1>2, <2>1, <2>2, <2>3, <2>4, <2>5, <2>6 DEF Gateway
<1>3. ASSUME NEW h \in Handlers, Moves(h) PROVE MutexInv'
  BY <1>3, <1>t DEF Moves, MutexInv, locks
<1> QED
  BY <1>1, <1>2, <1>3, StepCases

(* Every route to a step is taken by the operations that step belongs to. *)
LEMMA OpStep ==
  ASSUME GInv, Next
  PROVE  OpInv'
<1> USE GatewayAssumption
<1>t. OpInv /\ pc \in [Handlers -> Step] /\ req \in [Handlers -> Request]
  BY DEF GInv, GatewayTypeOK
<1>1. CASE ResourcesChange
  BY <1>1, <1>t DEF ResourcesChange, OpInv
<1>2. ASSUME NEW h \in Handlers, Gateway(h) PROVE OpInv'
  <2> USE <1>t DEF OpInv, Proxying, At, Goto
  <2>1. CASE Accept(h) \/ ReadFails(h)
    BY <2>1 DEF Accept, ReadFails
  <2>2. ASSUME NEW r \in Requests(h), Register(h, r) PROVE OpInv'
    <3>1. req' = [req EXCEPT ![h] = r] /\ pc' = [pc EXCEPT ![h] = FirstStep(r.op)]
      BY <2>2 DEF Register
    <3>2. r.op \in Op /\ ~r.again /\ (r.op = "cancel" => r.target \in Ids)
      BY RequestTyped
    <3> QED
      BY <3>1, <3>2 DEF FirstStep, Op
  <2>3. CASE Close(h) \/ ToolPanics(h)
    BY <2>3 DEF Close, ToolPanics, Leave, NoRequest, Ask
  <2>4. CASE Cancel(h) \/ PutPlan(h) \/ LockPlan(h)
    BY <2>4 DEF Cancel, PutPlan, LockPlan, Answered, Ask
  <2>5. CASE Lock(h)
    BY <2>5 DEF Lock
  <2>6. CASE Unlock(h) \/ RunTools(h)
    <3>1. /\ NextRound(req[h]).op = req[h].op /\ ~NextRound(req[h]).again
          /\ Ask("none", req[h].id, None, None, None).op = "none"
          /\ ~Ask("none", req[h].id, None, None, None).again
      BY RoundTyped, AnsweredTyped
    <3>2. CASE Unlock(h)
      BY <3>1, <3>2 DEF Unlock, Answered
    <3>3. CASE RunTools(h)
      BY <3>1, <3>3 DEF RunTools, Answered
    <3> QED
      BY <2>6, <3>2, <3>3
  <2>7. CASE ProxyEnds(h)
    BY <2>7 DEF ProxyEnds, Request
  <2> QED
    BY <1>2, <2>1, <2>2, <2>3, <2>4, <2>5, <2>6, <2>7 DEF Gateway
<1>3. ASSUME NEW h \in Handlers, Moves(h) PROVE OpInv'
  BY <1>3, <1>t DEF Moves, OpInv, Proxying, Inside
<1> QED
  BY <1>1, <1>2, <1>3, StepCases

(* A plan is locked while somebody relies on it, and only who locked it      *)
(* unlocks it.                                                               *)
LEMMA PlanStep ==
  ASSUME GInv, Next
  PROVE  PlanInv'
<1> USE GatewayAssumption
<1>t. /\ PlanInv /\ OpInv /\ pc \in [Handlers -> Step] /\ req \in [Handlers -> Request]
  BY DEF GInv, GatewayTypeOK
<1>1. CASE ResourcesChange
  BY <1>1, <1>t DEF ResourcesChange, PlanInv, locks
<1>2. ASSUME NEW h \in Handlers, Gateway(h) PROVE PlanInv'
  <2> USE <1>t DEF PlanInv, Planning, At, Goto, locks
  <2>1. CASE Accept(h) \/ ReadFails(h) \/ Close(h) \/ ToolPanics(h)
    BY <2>1 DEF Accept, ReadFails, Close, ToolPanics, Leave
  <2>2. ASSUME NEW r \in Requests(h), Register(h, r) PROVE PlanInv'
    BY <2>2 DEF Register, FirstStep
  <2>3. CASE Cancel(h)
    BY <2>3 DEF Cancel, Answered
  <2>4. CASE PutPlan(h)
    BY <2>4 DEF PutPlan, Answered
  <2>5. CASE LockPlan(h)
    BY <2>5 DEF LockPlan, Answered, PlanHolds
  <2>6. CASE Lock(h)
    BY <2>6 DEF Lock, OpInv
  <2>7. CASE Unlock(h) \/ RunTools(h)
    <3>1. CASE Unlock(h)
      BY <3>1 DEF Unlock, Answered
    <3>2. CASE RunTools(h)
      <4>1. pc[h] = "tools" /\ planLock' = planLock /\ plan' = plan
        BY <3>2 DEF RunTools
      <4>2. \A g \in Handlers \ {h} : pc'[g] = pc[g] /\ req'[g] = req[g]
        BY <3>2 DEF RunTools, Answered
      <4>3. req'[h].op # "start_planned"
        BY <3>2, <4>1, RoundTyped, AnsweredTyped DEF RunTools, Answered, OpInv
      <4> QED
        BY <4>1, <4>2, <4>3
    <3> QED
      BY <2>7, <3>1, <3>2
  <2>8. CASE ProxyEnds(h)
    BY <2>8 DEF ProxyEnds
  <2> QED
    BY <1>2, <2>1, <2>2, <2>3, <2>4, <2>5, <2>6, <2>7, <2>8 DEF Gateway
<1>3. ASSUME NEW h \in Handlers, Moves(h) PROVE PlanInv'
  BY <1>3, <1>t DEF Moves, PlanInv, Planning, Proxying, Inside, OpInv, locks
<1> QED
  BY <1>1, <1>2, <1>3, StepCases

(* Only the thread inside the mutex moves the engine, so it is Busy for that *)
(* thread or not at all.                                                     *)
LEMMA BusyStep ==
  ASSUME GInv, Next
  PROVE  BusyInv'
<1> USE GatewayAssumption
<1>t. /\ BusyInv /\ MutexInv /\ OpInv
      /\ pc \in [Handlers -> Step] /\ req \in [Handlers -> Request]
  BY DEF GInv, GatewayTypeOK
<1>1. CASE ResourcesChange
  BY <1>1, <1>t DEF ResourcesChange, BusyInv, engine
<1>2. ASSUME NEW h \in Handlers, Gateway(h) PROVE BusyInv'
  <2>1. UNCHANGED engine
    BY <1>2 DEF Gateway, Accept, ReadFails, Register, Close, Cancel, PutPlan, LockPlan,
       Lock, Unlock, RunTools, ToolPanics, Leave, ProxyEnds
  <2>2. \A g \in Handlers : pc'[g] \in Proxying <=> pc[g] \in Proxying
    <3> USE <1>t DEF Proxying, At, Goto
    <3>1. CASE Accept(h) \/ ReadFails(h) \/ Close(h) \/ ToolPanics(h)
              \/ (\E r \in Requests(h) : Register(h, r))
      BY <3>1 DEF Accept, ReadFails, Close, ToolPanics, Leave, Register, FirstStep
    <3>2. CASE Cancel(h) \/ PutPlan(h) \/ LockPlan(h) \/ Unlock(h)
              \/ RunTools(h)
      BY <3>2 DEF Cancel, PutPlan, LockPlan, Unlock, RunTools, Answered
    <3>3. CASE Lock(h)
      BY <3>3 DEF Lock, OpInv
    <3>4. CASE ProxyEnds(h)
      BY <3>4 DEF ProxyEnds
    <3> QED
      BY <1>2, <3>1, <3>2, <3>3, <3>4 DEF Gateway
  <2>3. \A g \in Handlers : pc[g] \in Proxying => req'[g].model = req[g].model
    <3> USE <1>t DEF Proxying, At
    <3>1. CASE Accept(h) \/ ReadFails(h) \/ Close(h) \/ ToolPanics(h)
              \/ (\E r \in Requests(h) : Register(h, r))
      BY <3>1 DEF Accept, ReadFails, Close, ToolPanics, Leave, Register
    <3>2. CASE Cancel(h) \/ PutPlan(h) \/ LockPlan(h) \/ Unlock(h)
              \/ RunTools(h) \/ Lock(h)
      BY <3>2 DEF Cancel, PutPlan, LockPlan, Unlock, RunTools, Lock, Answered
    <3>3. CASE ProxyEnds(h)
      BY <3>3, RoundTyped DEF ProxyEnds
    <3> QED
      BY <1>2, <3>1, <3>2, <3>3 DEF Gateway
  <2> QED
    BY <1>t, <2>1, <2>2, <2>3 DEF BusyInv, engine
<1>3. ASSUME NEW h \in Handlers, Moves(h) PROVE BusyInv'
  <2>1. engineLock = h /\ \A g \in Handlers \ {h} : pc[g] \notin Proxying
    BY <1>3, <1>t DEF Moves, MutexInv, Inside, Proxying
  <2> QED
    BY <1>3, <1>t, <2>1 DEF Moves, BusyInv, Proxying
<1> QED
  BY <1>1, <1>2, <1>3, StepCases

(* An id of its own stands for its thread from the registration to the end,  *)
(* and a cancellation that was answered has set that thread's flag.          *)
LEMMA CancelStep ==
  ASSUME GInv, Next
  PROVE  CancelInv'
<1> USE GatewayAssumption
<1>t. /\ CancelInv /\ OpInv /\ cancelled \subseteq Ids
      /\ registry \in [Ids -> Handlers \cup {None}] /\ flag \in [Handlers -> BOOLEAN]
      /\ pc \in [Handlers -> Step] /\ req \in [Handlers -> Request]
  BY DEF GInv, GatewayTypeOK
<1>1. CASE ResourcesChange
  BY <1>1, <1>t DEF ResourcesChange, CancelInv, Registered, cancels
<1>2. ASSUME NEW h \in Handlers, Gateway(h) PROVE CancelInv'
  <2>1. CASE Accept(h) \/ ReadFails(h)
    BY <2>1, <1>t DEF Accept, ReadFails, CancelInv, Registered, cancels, At, Goto
  <2>2. ASSUME NEW r \in Requests(h), Register(h, r) PROVE CancelInv'
    <3>1. r.id \in IdsOf[h] /\ r.id \in Ids
      BY RequestTyped
    <3>2. FirstStep(r.op) \notin {"idle", "read"}
      BY DEF FirstStep
    <3> QED
      BY <2>2, <3>1, <3>2, <1>t DEF Register, CancelInv, Registered, Exclusive, At, Goto
  <2>3. CASE Close(h) \/ ToolPanics(h)
    BY <2>3, <1>t DEF Close, ToolPanics, Unregister, Leave, CancelInv, Registered,
       Exclusive, At, Goto
  <2>4. CASE Cancel(h)
    <3>1. req[h].target \in Ids
      BY <2>4, <1>t DEF Cancel, OpInv, At
    <3> QED
      BY <2>4, <3>1, <1>t, AnsweredTyped
      DEF Cancel, Answered, CancelInv, Registered, Exclusive, At, Goto
  <2>5. CASE PutPlan(h) \/ LockPlan(h)
    BY <2>5, <1>t, AnsweredTyped
    DEF PutPlan, LockPlan, Answered, CancelInv, Registered, cancels, At, Goto
  <2>6. CASE Lock(h)
    <3>1. pc[h] = "lock" /\ pc'[h] \notin {"idle", "read"}
          /\ \A g \in Handlers \ {h} : pc'[g] = pc[g]
      BY <2>6, <1>t DEF Lock, OpInv, At, Goto
    <3> QED
      <4>1. UNCHANGED <<req, registry, flag, cancelled>>
        BY <2>6 DEF Lock, cancels
      <4>2. \A g \in Handlers : pc'[g] \notin {"idle", "read"} <=> pc[g] \notin {"idle", "read"}
        BY <3>1
      <4> QED
        BY <4>1, <4>2, <1>t DEF CancelInv, Registered
  <2>7. CASE Unlock(h) \/ RunTools(h)
    <3>1. /\ UNCHANGED <<registry, flag, cancelled>>
          /\ \A g \in Handlers : req'[g].id = req[g].id
          /\ \A g \in Handlers : Registered(g)' <=> Registered(g)
      BY <2>7, <1>t, AnsweredTyped, RoundTyped
      DEF Unlock, RunTools, Answered, Registered, cancels, At, Goto
    <3> QED
      BY <3>1, <1>t DEF CancelInv, Registered
  <2>8. CASE ProxyEnds(h)
    BY <2>8, <1>t, RoundTyped DEF ProxyEnds, CancelInv, Registered, cancels, At, Goto
  <2> QED
    BY <1>2, <2>1, <2>2, <2>3, <2>4, <2>5, <2>6, <2>7, <2>8 DEF Gateway
<1>3. ASSUME NEW h \in Handlers, Moves(h) PROVE CancelInv'
  BY <1>3, <1>t DEF Moves, CancelInv, Registered, Inside, cancels
<1> QED
  BY <1>1, <1>2, <1>3, StepCases

-----------------------------------------------------------------------------
(* GInv is inductive. *)
LEMMA NextPreservesGInv == GInv /\ [Next]_vars => GInv'
<1> SUFFICES ASSUME GInv, [Next]_vars PROVE GInv'
  OBVIOUS
<1>1. CASE Next
  <2>1. CountInv'
    BY <1>1, CountStep
  <2> QED
    BY <1>1, <2>1, TypeStep, MutexStep, OpStep, PlanStep, BusyStep, CancelStep DEF GInv
<1>2. CASE UNCHANGED vars
  <2> USE <1>2 DEF vars, engine, locks, cancels
  <2>1. GatewayTypeOK' /\ MutexInv' /\ OpInv' /\ PlanInv'
    BY DEF GInv, GatewayTypeOK, MutexInv, OpInv, PlanInv
  <2>2. BusyInv' /\ CountInv' /\ CancelInv'
    BY DEF GInv, BusyInv, CountInv, Open, CancelInv, Registered
  <2> QED
    BY <2>1, <2>2 DEF GInv
<1> QED
  BY <1>1, <1>2

(* GInv holds in every reachable state. *)
LEMMA GInvHolds == Spec => []GInv
BY InitEstablishesGInv, NextPreservesGInv, PTL DEF Spec

(* Every variable of the gateway keeps its type, and the counter its bound.  *)
THEOREM GatewayTypeCorrect == Spec => []GatewayTypeOK
<1>1. GInv => GatewayTypeOK
  BY DEF GInv
<1> QED
  BY <1>1, GInvHolds, PTL

(* A planned start runs under the plan its client was shown, which stays the *)
(* latest until the worker is ready (http.rs 35-38), whatever other threads  *)
(* plan, start or stop meanwhile.                                            *)
THEOREM PlannedStartsAreLatest == Spec => []StartRunsLatestPlan
<1>1. GInv => StartRunsLatestPlan
  BY DEF GInv, PlanInv, Planning, StartRunsLatestPlan
<1> QED
  BY <1>1, GInvHolds, PTL

(* The engine is Busy exactly under the thread that talks to its worker, and *)
(* that thread has the mutex.                                                *)
THEOREM BusyUnderItsProxy == Spec => []BusyIsProxied
<1>1. GInv => BusyIsProxied
  BY DEF GInv, BusyInv, MutexInv, Proxying, Inside, BusyIsProxied
<1> QED
  BY <1>1, GInvHolds, PTL

(* An id that is registered is that of a request that is still there, after  *)
(* answers, errors and panics of this thread or of another with the same id. *)
THEOREM RegisteredRequestsRun == Spec => []RegisteredIsRunning
<1>1. GInv => RegisteredIsRunning
  BY DEF GInv, CancelInv, Registered, RegisteredIsRunning
<1> QED
  BY <1>1, GInvHolds, PTL

(* A request under an id of its own whose cancellation was answered with 202 *)
(* is not written to the worker any more, in no round.                       *)
THEOREM CancellationIsKept == Spec => CancelledNotForwarded
<1> DEFINE Forwards(h) ==
      /\ req[h].op \in {"chat", "stream"}
      /\ req[h].id \in cancelled /\ Exclusive(req[h].id)
      /\ pc[h] = "send"
      => pc'[h] # "proxy"
<1>1. ASSUME GInv, [Next]_vars PROVE [\A h \in Handlers : Forwards(h)]_vars
  <2> SUFFICES ASSUME Next, NEW h \in Handlers,
                      req[h].op \in {"chat", "stream"}, req[h].id \in cancelled,
                      Exclusive(req[h].id), pc[h] = "send"
               PROVE  pc'[h] # "proxy"
    BY <1>1
  <2>t. pc \in [Handlers -> Step]
    BY <1>1 DEF GInv, GatewayTypeOK
  <2>1. flag[h]
    BY <1>1 DEF GInv, CancelInv, Registered
  <2>2. CASE ResourcesChange
    BY <2>2 DEF ResourcesChange
  <2>3. ASSUME NEW g \in Handlers, g # h, Gateway(g) \/ Moves(g) PROVE pc'[h] = pc[h]
    BY <2>3, <2>t DEF Gateway, Moves, Accept, ReadFails, Register, Close, Cancel, PutPlan,
       LockPlan, Lock, Unlock, RunTools, ToolPanics, Leave, ProxyEnds, Answered, Goto
  <2>4. ASSUME ThreadStep(h) \/ StreamChunk(h) \/ ToolPanics(h) \/ ClientStep(h)
        PROVE  Send(h)
    <3> USE DEF At, InEngine
    <3>1. ~Close(h) /\ ~Cancel(h) /\ ~PutPlan(h) /\ ~LockPlan(h) /\ ~Lock(h) /\ ~Unlock(h)
          /\ ~RunTools(h) /\ ~ToolPanics(h) /\ ~ProxyEnds(h) /\ ~ClientStep(h)
      BY DEF Close, Cancel, PutPlan, LockPlan, Lock, Unlock, RunTools, ToolPanics,
         ProxyEnds, ClientStep, Accept, ReadFails, Register, ClientTakes
    <3>2. ~Refresh(h) /\ ~Start(h) /\ ~Stop(h) /\ ~BeginInference(h) /\ ~FinishInference(h)
          /\ ~StreamChunk(h)
      BY DEF Refresh, Start, Stop, BeginInference, FinishInference, StreamChunk
    <3> QED
      BY <2>4, <3>1, <3>2 DEF ThreadStep
  <2>5. CASE Send(h)
    BY <2>1, <2>5, <2>t DEF Send, InEngine, Goto
  <2>6. ASSUME NEW g \in Handlers,
               ThreadStep(g) \/ StreamChunk(g) \/ ToolPanics(g) \/ ClientStep(g)
        PROVE  Gateway(g) \/ Moves(g)
    BY <1>1, <2>6, EngineStepMoves DEF ThreadStep, ClientStep, Gateway, EngineStep
  <2>7. ASSUME NEW g \in Handlers,
               ThreadStep(g) \/ StreamChunk(g) \/ ToolPanics(g) \/ ClientStep(g)
        PROVE  pc'[h] # "proxy"
    BY <2>3, <2>4, <2>5, <2>6, <2>7
  <2> QED
    BY <2>2, <2>7 DEF Next
<1>2. Spec => [][\A h \in Handlers : Forwards(h)]_vars
  BY <1>1, GInvHolds, PTL DEF Spec
<1> QED
  BY <1>2 DEF CancelledNotForwarded
=============================================================================
