----------------------- MODULE WorkerSupervisorProofs -----------------------
(***************************************************************************)
(* Theorems about WorkerSupervisor for every set of supervisors, processes,*)
(* models, ports and workers, and every bound.  None of the properties is  *)
(* inductive: what a supervisor may rely on depends on where its method    *)
(* stands.  IInv adds that, one named conjunct per idea.                   *)
(***************************************************************************)
EXTENDS WorkerSupervisor, TLAPS

(* Who owns a child owns the flock; who owns the flock owns a child, is about *)
(* to spawn one, or is on its way to give the flock back.                     *)
ChildHoldsFlock == \A s \in Sups : child[s] # Nobody => flock = s

FlockIsUsed ==
  \A s \in Sups : flock = s =>
     child[s] # Nobody \/ pc[s] \in {"spawn", "reap", "unflock"}

(* What the running method has established at each step. *)
StepFacts ==
  \A s \in Sups :
    /\ pc[s] \in {"preflight", "acquire", "open", "flock", "spawn", "poll", "retry"}
         => call[s].method \in StartMethod
    /\ call[s].method \in StartMethod
         => call[s].model \in Models /\ call[s].port \in Ports
    /\ pc[s] \in {"open", "flock", "spawn"}
         => child[s] = Nobody /\ activeModel[s] = Nobody
              /\ processSlot[s] = call[s].model
    /\ pc[s] = "spawn" => flock = s
    /\ pc[s] = "poll" => child[s] # Nobody
    /\ pc[s] \in {"unflock", "unlease"} => child[s] = Nobody

(* child and active_model are set and cleared together, and the lease of a   *)
(* running worker names its model.                                           *)
ChildHasModel ==
  \A s \in Sups : /\ child[s] = Nobody <=> activeModel[s] = Nobody
                  /\ child[s] # Nobody => processSlot[s] = activeModel[s]

LeaseOwnsSlot ==
  /\ \A s \in Sups : processSlot[s] # Nobody
                       => slotOwner[ProcOf[s]] = processSlot[s]
  /\ \A s, t \in Sups : processSlot[s] # Nobody /\ processSlot[t] # Nobody
                          /\ ProcOf[s] = ProcOf[t] => s = t
  /\ \A p \in Procs : slotOwner[p] # Nobody
                        => \E s \in Sups : ProcOf[s] = p /\ processSlot[s] # Nobody

ReadyUntilReset ==
  \A s \in Sups : state[s] = "Ready" /\ child[s] = Nobody
                    => pc[s] \in {"unflock", "unlease"}

IInv ==
  /\ TypeOK
  /\ ChildHoldsFlock
  /\ FlockIsUsed
  /\ StepFacts
  /\ ChildHasModel
  /\ LeaseOwnsSlot
  /\ ReadyUntilReset
  /\ NoWorkerLost
-----------------------------------------------------------------------------
(* Control flow keeps the types of pc and call. *)

Control == pc \in [Sups -> Step] /\ call \in [Sups -> CallRecord]

(* Every fresh frame is a call record. *)
LEMMA FrameTyped ==
  ASSUME NEW m \in Method, NEW model \in Models \cup {Nobody},
         NEW p \in Ports \cup {Nobody}
  PROVE  Frame(m, model, p) \in CallRecord
BY SlotAssumption DEF Frame, CallRecord

(* The three updates the methods make to their locals stay in the record;    *)
(* the flock loop counts within its bound.                                   *)
LEMMA LocalsTyped ==
  ASSUME NEW r \in CallRecord
  PROVE  /\ \A code \in FailureCode \cup {"none"} :
              [r EXCEPT !.verdict = code] \in CallRecord
         /\ [r EXCEPT !.expired = TRUE] \in CallRecord
         /\ r.tries + 1 < FlockAttempts
              => [r EXCEPT !.tries = @ + 1] \in CallRecord
<1>1. ASSUME NEW code \in FailureCode \cup {"none"}
      PROVE  [r EXCEPT !.verdict = code] \in CallRecord
  BY DEF CallRecord
<1>2. [r EXCEPT !.expired = TRUE] \in CallRecord
  BY DEF CallRecord
<1>3. ASSUME r.tries + 1 < FlockAttempts
      PROVE  [r EXCEPT !.tries = @ + 1] \in CallRecord
  <2>1. r.tries \in 0..(FlockAttempts - 1)
    BY DEF CallRecord
  <2>2. r.tries + 1 \in 0..(FlockAttempts - 1)
    BY <1>3, <2>1, SlotAssumption
  <2>3. QED
    BY <2>2 DEF CallRecord
<1>4. QED
  BY <1>1, <1>2, <1>3

(* Returning, returning an error and starting a teardown keep Control. *)
LEMMA ControlTyped ==
  ASSUME TypeOK, NEW s \in Sups
  PROVE  /\ Return(s) => Control'
         /\ \A code : ReturnErr(s, code) => Control'
         /\ \A step \in Step, code \in FailureCode \cup {"none"} :
              TearDown(s, step, code) => Control'
<1>1. NoCall \in CallRecord /\ Args(s, call[s].method) \in CallRecord
  <2>1. call[s] \in CallRecord
    BY DEF TypeOK
  <2>2. /\ call[s].method \in Method
        /\ call[s].model \in Models \cup {Nobody}
        /\ call[s].port \in Ports \cup {Nobody}
    BY <2>1 DEF CallRecord
  <2>3. QED
    BY <2>2, FrameTyped DEF NoCall, Args, Method
<1>2. Return(s) => Control'
  BY <1>1 DEF Return, Goto, Control, TypeOK, Step
<1>3. \A code : ReturnErr(s, code) => Control'
  BY <1>1, <1>2 DEF ReturnErr, Goto, Control, TypeOK, Step
<1>4. ASSUME NEW step \in Step, NEW code \in FailureCode \cup {"none"},
             TearDown(s, step, code)
      PROVE  Control'
  <2>1. [call[s] EXCEPT !.verdict = code] \in CallRecord
    BY LocalsTyped DEF TypeOK
  <2>2. QED
    BY <1>4, <2>1 DEF TearDown, Goto, Control, TypeOK
<1>5. QED
  BY <1>2, <1>3, <1>4

(* A teardown keeps the arguments of the method it ends, and returning clears *)
(* them.                                                                     *)
LEMMA ArgumentsKept ==
  ASSUME TypeOK, NEW s \in Sups
  PROVE  /\ \A step, code : TearDown(s, step, code) =>
              /\ \A t \in Sups : /\ call'[t].method = call[t].method
                                 /\ call'[t].model = call[t].model
                                 /\ call'[t].port = call[t].port
              /\ pc' = [pc EXCEPT ![s] = step]
         /\ Return(s) => /\ call'[s].method = "none"
                         /\ \A t \in Sups \ {s} : call'[t] = call[t]
                         /\ pc' = [pc EXCEPT ![s] = "idle"]
<1>1. \A t \in Sups : call[t] \in CallRecord
  BY DEF TypeOK
<1>2. ASSUME NEW step, NEW code, TearDown(s, step, code), NEW t \in Sups
      PROVE  /\ call'[t].method = call[t].method
             /\ call'[t].model = call[t].model
             /\ call'[t].port = call[t].port
  BY <1>1, <1>2 DEF TearDown, TypeOK, CallRecord
<1>3. ASSUME Return(s)
      PROVE  /\ call'[s].method = "none"
             /\ \A t \in Sups \ {s} : call'[t] = call[t]
  BY <1>3 DEF Return, NoCall, Frame, TypeOK
<1>4. \A step, code : TearDown(s, step, code) => pc' = [pc EXCEPT ![s] = step]
  BY DEF TearDown, Goto
<1>5. Return(s) => pc' = [pc EXCEPT ![s] = "idle"]
  BY DEF Return, Goto
<1>6. QED
  BY <1>2, <1>3, <1>4, <1>5

-----------------------------------------------------------------------------
(* The inductive invariant *)

(* The engine starts with every supervisor new and the slot free. *)
LEMMA InitEstablishesIInv == Init => IInv
<1>1. NoCall \in CallRecord
  BY FrameTyped DEF NoCall, Method
<1>2. (CHOOSE p \in Ports : TRUE) \in Ports
  BY SlotAssumption
<1>3. Init => TypeOK
  BY <1>1, <1>2, SlotAssumption DEF Init, TypeOK, WorkerState, Step
<1>4. QED
  BY <1>3, SlotAssumption DEF Init, NoCall, Frame, StartMethod, IInv, ChildHoldsFlock,
     FlockIsUsed, StepFacts, ChildHasModel, LeaseOwnsSlot, ReadyUntilReset, NoWorkerLost

(* Every step of the supervisors and of their environment keeps IInv. *)
LEMMA NextPreservesIInv == IInv /\ [Next]_vars => IInv'
<1> SUFFICES ASSUME IInv, [Next]_vars PROVE IInv'
  OBVIOUS
<1> USE DEF fields, locks, os
<1>a. /\ TypeOK /\ ChildHoldsFlock /\ FlockIsUsed /\ StepFacts
      /\ ChildHasModel /\ LeaseOwnsSlot /\ ReadyUntilReset /\ NoWorkerLost
  BY DEF IInv
<1>1. ASSUME NEW s \in Sups, NEW m \in StartMethod,
             NEW model \in Models, NEW p \in Ports,
             CallStart(s, m, model, p)
      PROVE  IInv'
  <2>1. Control'
    BY <1>1, <1>a, FrameTyped DEF CallStart, Invoke, Goto, Control, TypeOK,
       Step, Method
  <2>2. TypeOK'
    BY <1>1, <1>a, <2>1 DEF CallStart, Control, TypeOK
  <2>3. ChildHoldsFlock' /\ FlockIsUsed'
    BY <1>1, <1>a, SlotAssumption DEF CallStart, Invoke, Goto,
       ChildHoldsFlock, FlockIsUsed, StepFacts, TypeOK
  <2>4. StepFacts'
    BY <1>1, <1>a DEF CallStart, Invoke, Goto, Frame, StepFacts, TypeOK
  <2>5. ChildHasModel' /\ LeaseOwnsSlot'
    BY <1>1, <1>a, SlotAssumption DEF CallStart, Invoke, Goto,
       ChildHasModel, LeaseOwnsSlot, StepFacts, ChildHoldsFlock, TypeOK
  <2>6. ReadyUntilReset'
    BY <1>1, <1>a, SlotAssumption DEF CallStart, Invoke, Goto,
       ReadyUntilReset, StepFacts, TypeOK
  <2>7. NoWorkerLost'
    BY <1>1, <1>a, SlotAssumption DEF CallStart, Invoke, Goto, NoWorkerLost,
       StepFacts, ChildHoldsFlock, TypeOK
  <2>8. QED
    BY <2>1, <2>2, <2>3, <2>4, <2>5, <2>6, <2>7 DEF IInv
<1>2. ASSUME NEW s \in Sups,
             Preflight(s)
      PROVE  IInv'
  <2>1. Control'
    BY <1>2, <1>a, ControlTyped DEF Preflight, Goto, Control, TypeOK, Step,
       FailureCode
  <2>2. TypeOK'
    BY <1>2, <1>a, <2>1 DEF Preflight, Control, TypeOK, WorkerState,
       FailureCode
  <2>3. ChildHoldsFlock' /\ FlockIsUsed'
    BY <1>2, <1>a, SlotAssumption DEF Preflight, ReturnErr, Return, Goto,
       ChildHoldsFlock, FlockIsUsed, StepFacts, TypeOK
  <2>4. StepFacts'
    BY <1>2, <1>a, SlotAssumption DEF Preflight, ReturnErr, Return, Goto,
       Args, Frame, NoCall, StartMethod, StepFacts, ChildHoldsFlock,
       ChildHasModel, TypeOK, CallRecord
  <2>5. ChildHasModel' /\ LeaseOwnsSlot'
    BY <1>2, <1>a, SlotAssumption DEF Preflight, ReturnErr, Return, Goto,
       ChildHasModel, LeaseOwnsSlot, StepFacts, ChildHoldsFlock, TypeOK
  <2>6. ReadyUntilReset'
    BY <1>2, <1>a, SlotAssumption DEF Preflight, ReturnErr, Return, Goto,
       ReadyUntilReset, StepFacts, TypeOK
  <2>7. NoWorkerLost'
    BY <1>2, <1>a, SlotAssumption DEF Preflight, ReturnErr, Return, Goto,
       NoWorkerLost, StepFacts, ChildHoldsFlock, TypeOK
  <2>8. QED
    BY <2>1, <2>2, <2>3, <2>4, <2>5, <2>6, <2>7 DEF IInv
<1>3. ASSUME NEW s \in Sups,
             AcquireProcessSlot(s)
      PROVE  IInv'
  <2>1. Control'
    BY <1>3, <1>a, ControlTyped DEF AcquireProcessSlot, Goto, Control,
       TypeOK, Step, FailureCode
  <2>2. TypeOK'
    BY <1>3, <1>a, <2>1, SlotAssumption DEF AcquireProcessSlot, StepFacts,
       Control, TypeOK, WorkerState, FailureCode
  <2>3. ChildHoldsFlock' /\ FlockIsUsed'
    BY <1>3, <1>a, SlotAssumption DEF AcquireProcessSlot, ReturnErr, Return,
       Goto, ChildHoldsFlock, FlockIsUsed, StepFacts, TypeOK
  <2>4. StepFacts'
    BY <1>3, <1>a, SlotAssumption DEF AcquireProcessSlot, ReturnErr, Return,
       Goto, Args, Frame, NoCall, StartMethod, StepFacts, ChildHoldsFlock,
       ChildHasModel, TypeOK, CallRecord
  <2>5. ChildHasModel' /\ LeaseOwnsSlot'
    BY <1>3, <1>a, SlotAssumption DEF AcquireProcessSlot, ReturnErr, Return,
       Goto, ChildHasModel, LeaseOwnsSlot, StepFacts, ChildHoldsFlock,
       TypeOK
  <2>6. ReadyUntilReset'
    BY <1>3, <1>a, SlotAssumption DEF AcquireProcessSlot, ReturnErr, Return,
       Goto, ReadyUntilReset, StepFacts, TypeOK
  <2>7. NoWorkerLost'
    BY <1>3, <1>a, SlotAssumption DEF AcquireProcessSlot, ReturnErr, Return,
       Goto, NoWorkerLost, StepFacts, ChildHoldsFlock, TypeOK
  <2>8. QED
    BY <2>1, <2>2, <2>3, <2>4, <2>5, <2>6, <2>7 DEF IInv
<1>4. ASSUME NEW s \in Sups,
             OpenLockFile(s)
      PROVE  IInv'
  <2>1. Control'
    BY <1>4, <1>a, ControlTyped DEF OpenLockFile, Goto, Control, TypeOK,
       Step, FailureCode
  <2>2. TypeOK'
    BY <1>4, <1>a, <2>1 DEF OpenLockFile, Control, TypeOK, WorkerState,
       FailureCode
  <2>3. ChildHoldsFlock' /\ FlockIsUsed'
    BY <1>4, <1>a, SlotAssumption DEF OpenLockFile, ReturnErr, Return, Goto,
       ChildHoldsFlock, FlockIsUsed, StepFacts, TypeOK
  <2>4. StepFacts'
    BY <1>4, <1>a, SlotAssumption DEF OpenLockFile, ReturnErr, Return, Goto,
       Args, Frame, NoCall, StartMethod, StepFacts, ChildHoldsFlock,
       ChildHasModel, TypeOK, CallRecord
  <2>5. ChildHasModel' /\ LeaseOwnsSlot'
    BY <1>4, <1>a, SlotAssumption DEF OpenLockFile, ReturnErr, Return, Goto,
       ChildHasModel, LeaseOwnsSlot, StepFacts, ChildHoldsFlock, TypeOK
  <2>6. ReadyUntilReset'
    BY <1>4, <1>a, SlotAssumption DEF OpenLockFile, ReturnErr, Return, Goto,
       ReadyUntilReset, StepFacts, TypeOK
  <2>7. NoWorkerLost'
    BY <1>4, <1>a, SlotAssumption DEF OpenLockFile, ReturnErr, Return, Goto,
       NoWorkerLost, StepFacts, ChildHoldsFlock, TypeOK
  <2>8. QED
    BY <2>1, <2>2, <2>3, <2>4, <2>5, <2>6, <2>7 DEF IInv
<1>5. ASSUME NEW s \in Sups,
             TryFlock(s)
      PROVE  IInv'
  <2>1. Control'
    <3>1. CASE FlockTaken(s)
      BY <1>a, <3>1 DEF FlockTaken, Goto, Control, TypeOK, Step
    <3>2. CASE call[s].tries + 1 < FlockAttempts /\ FlockRetried(s)
      <4>1. [call[s] EXCEPT !.tries = @ + 1] \in CallRecord
        BY <1>a, <3>2, LocalsTyped DEF TypeOK
      <4>2. QED
        BY <1>a, <3>2, <4>1 DEF FlockRetried, Control, TypeOK
    <3>3. CASE FlockGivenUp(s)
      BY <1>a, <3>3, ControlTyped DEF FlockGivenUp, Step, FailureCode
    <3>4. QED
      BY <1>5, <3>1, <3>2, <3>3 DEF TryFlock
  <2>2. TypeOK'
    BY <1>5, <1>a, <2>1 DEF TryFlock, FlockTaken, FlockRetried,
       FlockGivenUp, Control, TypeOK, WorkerState
  <2>3. ChildHoldsFlock' /\ FlockIsUsed'
    BY <1>5, <1>a, SlotAssumption DEF TryFlock, FlockTaken, FlockRetried,
       FlockGivenUp, TearDown, Goto, ChildHoldsFlock, FlockIsUsed,
       StepFacts, TypeOK
  <2>4. StepFacts'
    <3>1. /\ call'[s].method = call[s].method /\ call'[s].model = call[s].model
          /\ call'[s].port = call[s].port
          /\ \A t \in Sups \ {s} : call'[t] = call[t] /\ pc'[t] = pc[t]
      BY <1>5, <1>a DEF TryFlock, FlockTaken, FlockRetried, FlockGivenUp,
         TearDown, Goto, TypeOK, CallRecord
    <3>2. /\ pc'[s] \in {"flock", "spawn", "unlease"}
          /\ pc'[s] = "spawn" => flock' = s
      BY <1>5, <1>a DEF TryFlock, FlockTaken, FlockRetried, FlockGivenUp,
         TearDown, Goto, TypeOK
    <3>3. \A t \in Sups \ {s} : flock = t => flock' = t
      BY <1>5, SlotAssumption DEF TryFlock, FlockTaken, FlockRetried, FlockGivenUp
    <3>4. QED
      BY <1>5, <1>a, <3>1, <3>2, <3>3 DEF TryFlock, StepFacts
  <2>5. ChildHasModel' /\ LeaseOwnsSlot'
    BY <1>5, <1>a, SlotAssumption DEF TryFlock, FlockTaken, FlockRetried,
       FlockGivenUp, TearDown, Goto, ChildHasModel, LeaseOwnsSlot,
       StepFacts, ChildHoldsFlock, TypeOK
  <2>6. ReadyUntilReset'
    BY <1>5, <1>a, SlotAssumption DEF TryFlock, FlockTaken, FlockRetried,
       FlockGivenUp, TearDown, Goto, ReadyUntilReset, StepFacts, TypeOK
  <2>7. NoWorkerLost'
    BY <1>5, <1>a, SlotAssumption DEF TryFlock, FlockTaken, FlockRetried,
       FlockGivenUp, TearDown, Goto, NoWorkerLost, StepFacts,
       ChildHoldsFlock, TypeOK
  <2>8. QED
    BY <2>1, <2>2, <2>3, <2>4, <2>5, <2>6, <2>7 DEF IInv
<1>6. ASSUME NEW s \in Sups,
             Spawn(s)
      PROVE  IInv'
  <2>1. Control'
    BY <1>6, <1>a, ControlTyped DEF Spawn, SpawnOk, SpawnFailed, Goto,
       Control, TypeOK, Step, FailureCode
  <2>2. TypeOK'
    BY <1>6, <1>a, <2>1 DEF Spawn, SpawnOk, SpawnFailed, StepFacts, Control,
       TypeOK
  <2>3. ChildHoldsFlock' /\ FlockIsUsed'
    BY <1>6, <1>a, SlotAssumption DEF Spawn, SpawnOk, SpawnFailed, TearDown,
       Return, Goto, ChildHoldsFlock, FlockIsUsed, StepFacts, TypeOK
  <2>4. StepFacts'
    <3>1. CASE SpawnOk(s)
      BY <1>6, <1>a, <3>1, ArgumentsKept, SlotAssumption DEF Spawn, SpawnOk,
         Goto, StepFacts, StartMethod, TypeOK
    <3>2. CASE SpawnFailed(s, "unflock")
      BY <1>6, <1>a, <3>2, ArgumentsKept DEF Spawn, SpawnFailed, StepFacts, TypeOK
    <3>3. QED
      BY <1>6, <3>1, <3>2 DEF Spawn
  <2>5. ChildHasModel' /\ LeaseOwnsSlot'
    BY <1>6, <1>a, SlotAssumption DEF Spawn, SpawnOk, SpawnFailed, TearDown,
       Return, Goto, ChildHasModel, LeaseOwnsSlot, StepFacts,
       ChildHoldsFlock, TypeOK
  <2>6. ReadyUntilReset'
    BY <1>6, <1>a, SlotAssumption DEF Spawn, SpawnOk, SpawnFailed, TearDown,
       Return, Goto, ReadyUntilReset, StepFacts, TypeOK
  <2>7. NoWorkerLost'
    BY <1>6, <1>a, SlotAssumption DEF Spawn, SpawnOk, SpawnFailed, TearDown,
       Return, Goto, NoWorkerLost, StepFacts, ChildHoldsFlock, TypeOK
  <2>8. QED
    BY <2>1, <2>2, <2>3, <2>4, <2>5, <2>6, <2>7 DEF IInv
<1>7. ASSUME NEW s \in Sups,
             PollExit(s)
      PROVE  IInv'
  <2>1. Control'
    BY <1>7, <1>a, ControlTyped DEF PollExit, WorkerFoundDead,
       WorkerFoundReady, DeadlineMissed, Exited, Control, TypeOK, Step,
       FailureCode
  <2>2. TypeOK'
    BY <1>7, <1>a, <2>1 DEF PollExit, WorkerFoundDead, WorkerFoundReady,
       DeadlineMissed, Control, TypeOK, WorkerState, FailureCode
  <2>3. ChildHoldsFlock' /\ FlockIsUsed'
    BY <1>7, <1>a, SlotAssumption DEF PollExit, WorkerFoundDead,
       WorkerFoundReady, DeadlineMissed, TearDown, Return, Goto,
       ChildHoldsFlock, FlockIsUsed, StepFacts, TypeOK
  <2>4. StepFacts'
    <3>1. CASE WorkerFoundReady(s)
      BY <1>7, <1>a, <3>1, ArgumentsKept DEF PollExit, WorkerFoundReady,
         StepFacts, StartMethod, TypeOK
    <3>2. CASE WorkerFoundDead(s) \/ DeadlineMissed(s)
      BY <1>7, <1>a, <3>2, ArgumentsKept DEF PollExit, WorkerFoundDead,
         DeadlineMissed, StepFacts, TypeOK
    <3>3. QED
      BY <1>7, <3>1, <3>2 DEF PollExit
  <2>5. ChildHasModel' /\ LeaseOwnsSlot'
    BY <1>7, <1>a, SlotAssumption DEF PollExit, WorkerFoundDead,
       WorkerFoundReady, DeadlineMissed, TearDown, Return, Goto,
       ChildHasModel, LeaseOwnsSlot, StepFacts, ChildHoldsFlock, TypeOK
  <2>6. ReadyUntilReset'
    BY <1>7, <1>a, SlotAssumption DEF PollExit, WorkerFoundDead,
       WorkerFoundReady, DeadlineMissed, TearDown, Return, Goto,
       ReadyUntilReset, StepFacts, TypeOK
  <2>7. NoWorkerLost'
    BY <1>7, <1>a, SlotAssumption DEF PollExit, WorkerFoundDead,
       WorkerFoundReady, DeadlineMissed, TearDown, Return, Goto,
       NoWorkerLost, StepFacts, ChildHoldsFlock, TypeOK
  <2>8. QED
    BY <2>1, <2>2, <2>3, <2>4, <2>5, <2>6, <2>7 DEF IInv
<1>8. ASSUME NEW s \in Sups,
             PollChance(s)
      PROVE  IInv'
  <2>1. Control'
    BY <1>8, <1>a, ControlTyped DEF PollChance, Control, TypeOK, Step,
       FailureCode
  <2>2. TypeOK'
    BY <1>8, <1>a, <2>1 DEF PollChance, Control, TypeOK, WorkerState,
       FailureCode
  <2>3. ChildHoldsFlock' /\ FlockIsUsed'
    BY <1>8, <1>a, SlotAssumption DEF PollChance, TearDown, Return, Goto,
       ChildHoldsFlock, FlockIsUsed, StepFacts, TypeOK
  <2>4. StepFacts'
    BY <1>8, <1>a, SlotAssumption DEF PollChance, TearDown, Return, Goto,
       Frame, NoCall, StartMethod, StepFacts, ChildHoldsFlock,
       ChildHasModel, TypeOK, CallRecord
  <2>5. ChildHasModel' /\ LeaseOwnsSlot'
    BY <1>8, <1>a, SlotAssumption DEF PollChance, TearDown, Return, Goto,
       ChildHasModel, LeaseOwnsSlot, StepFacts, ChildHoldsFlock, TypeOK
  <2>6. ReadyUntilReset'
    BY <1>8, <1>a, SlotAssumption DEF PollChance, TearDown, Return, Goto,
       ReadyUntilReset, StepFacts, TypeOK
  <2>7. NoWorkerLost'
    BY <1>8, <1>a, SlotAssumption DEF PollChance, TearDown, Return, Goto,
       NoWorkerLost, StepFacts, ChildHoldsFlock, TypeOK
  <2>8. QED
    BY <2>1, <2>2, <2>3, <2>4, <2>5, <2>6, <2>7 DEF IInv
<1>9. ASSUME NEW s \in Sups,
             RetryPort(s)
      PROVE  IInv'
  <2>1. Control'
    <3>1. Args(s, "start_and_wait") \in CallRecord
        BY <1>9, <1>a, FrameTyped DEF RetryPort, StepFacts, Args, Method,
           StartMethod
    <3>2. QED
        BY <1>9, <1>a, <3>1, ControlTyped DEF RetryPort, Goto, Control,
           TypeOK, Step
  <2>2. TypeOK'
    BY <1>9, <1>a, <2>1 DEF RetryPort, Control, TypeOK, WorkerState,
       FailureCode
  <2>3. ChildHoldsFlock' /\ FlockIsUsed'
    BY <1>9, <1>a, SlotAssumption DEF RetryPort, Return, Goto,
       ChildHoldsFlock, FlockIsUsed, StepFacts, TypeOK
  <2>4. StepFacts'
    BY <1>9, <1>a DEF RetryPort, Return, Goto, Args, Frame, NoCall,
       StartMethod, StepFacts, TypeOK
  <2>5. ChildHasModel' /\ LeaseOwnsSlot'
    BY <1>9, <1>a, SlotAssumption DEF RetryPort, Return, Goto,
       ChildHasModel, LeaseOwnsSlot, StepFacts, ChildHoldsFlock, TypeOK
  <2>6. ReadyUntilReset'
    BY <1>9, <1>a, SlotAssumption DEF RetryPort, Return, Goto,
       ReadyUntilReset, StepFacts, TypeOK
  <2>7. NoWorkerLost'
    BY <1>9, <1>a, SlotAssumption DEF RetryPort, Return, Goto, NoWorkerLost,
       StepFacts, ChildHoldsFlock, TypeOK
  <2>8. QED
    BY <2>1, <2>2, <2>3, <2>4, <2>5, <2>6, <2>7 DEF IInv
<1>10. ASSUME NEW s \in Sups, NEW p \in Ports,
             CallRefresh(s, p)
      PROVE  IInv'
  <2>1. Control'
    <3>1. CASE Return(s)
      BY <1>a, <3>1, ControlTyped
    <3>2. CASE child[s] # Nobody /\ Exited(child[s]) /\ ~Return(s)
      <4>1. [Frame("refresh", Nobody, Nobody) EXCEPT !.verdict = wstat[child[s]]]
              \in CallRecord
        BY <3>2, FrameTyped, LocalsTyped DEF Method, Exited
      <4>2. QED
        BY <1>10, <1>a, <3>2, <4>1 DEF CallRefresh, Goto, Control, TypeOK, Step
    <3>3. QED
      BY <1>10, <3>1, <3>2 DEF CallRefresh
  <2>2. TypeOK'
    BY <1>10, <1>a, <2>1 DEF CallRefresh, Control, TypeOK, WorkerState
  <2>3. ChildHoldsFlock' /\ FlockIsUsed'
    BY <1>10, <1>a, SlotAssumption DEF CallRefresh, Return, Goto,
       ChildHoldsFlock, FlockIsUsed, StepFacts, TypeOK
  <2>4. StepFacts'
    <3>1. /\ call'[s].method \in {"none", "refresh"}
          /\ pc'[s] \in {"idle", "reap"}
          /\ \A t \in Sups \ {s} : call'[t] = call[t] /\ pc'[t] = pc[t]
      BY <1>10, <1>a DEF CallRefresh, Return, Goto, Frame, NoCall, TypeOK
    <3>2. UNCHANGED <<child, activeModel, processSlot, flock>>
      BY <1>10 DEF CallRefresh, locks
    <3>3. QED
      BY <1>a, <3>1, <3>2 DEF StepFacts, StartMethod
  <2>5. ChildHasModel' /\ LeaseOwnsSlot'
    BY <1>10, <1>a, SlotAssumption DEF CallRefresh, Return, Goto,
       ChildHasModel, LeaseOwnsSlot, StepFacts, ChildHoldsFlock, TypeOK
  <2>6. ReadyUntilReset'
    BY <1>10, <1>a, SlotAssumption DEF CallRefresh, Return, Goto,
       ReadyUntilReset, StepFacts, TypeOK
  <2>7. NoWorkerLost'
    BY <1>10, <1>a, SlotAssumption DEF CallRefresh, Return, Goto,
       NoWorkerLost, StepFacts, ChildHoldsFlock, TypeOK
  <2>8. QED
    BY <2>1, <2>2, <2>3, <2>4, <2>5, <2>6, <2>7 DEF IInv
<1>11. ASSUME NEW s \in Sups,
             CallStop(s)
      PROVE  IInv'
  <2>1. Control'
    BY <1>11, <1>a, FrameTyped DEF CallStop, Invoke, Goto, Control, TypeOK,
       Step, Method
  <2>2. TypeOK'
    BY <1>11, <1>a, <2>1 DEF CallStop, Control, TypeOK
  <2>3. ChildHoldsFlock' /\ FlockIsUsed'
    BY <1>11, <1>a, SlotAssumption DEF CallStop, Invoke, Goto,
       ChildHoldsFlock, FlockIsUsed, StepFacts, TypeOK
  <2>4. StepFacts'
    BY <1>11, <1>a, SlotAssumption DEF CallStop, Invoke, Goto, Frame,
       NoCall, StartMethod, StepFacts, ChildHoldsFlock, ChildHasModel,
       TypeOK, CallRecord
  <2>5. ChildHasModel' /\ LeaseOwnsSlot'
    BY <1>11, <1>a, SlotAssumption DEF CallStop, Invoke, Goto,
       ChildHasModel, LeaseOwnsSlot, StepFacts, ChildHoldsFlock, TypeOK
  <2>6. ReadyUntilReset'
    BY <1>11, <1>a, SlotAssumption DEF CallStop, Invoke, Goto,
       ReadyUntilReset, StepFacts, TypeOK
  <2>7. NoWorkerLost'
    BY <1>11, <1>a, SlotAssumption DEF CallStop, Invoke, Goto, NoWorkerLost,
       StepFacts, ChildHoldsFlock, TypeOK
  <2>8. QED
    BY <2>1, <2>2, <2>3, <2>4, <2>5, <2>6, <2>7 DEF IInv
<1>12. ASSUME NEW s \in Sups,
             Reap(s)
      PROVE  IInv'
  <2>1. TypeOK'
    BY <1>12, <1>a DEF Reap, Goto, TypeOK, Step, FailureCode, Foreign
  <2>2. ChildHoldsFlock' /\ FlockIsUsed'
    BY <1>12, <1>a, SlotAssumption DEF Reap, Goto, ChildHoldsFlock,
       FlockIsUsed, StepFacts, TypeOK
  <2>3. StepFacts'
    BY <1>12, <1>a, SlotAssumption DEF Reap, Goto, Frame, NoCall,
       StartMethod, StepFacts, ChildHoldsFlock, ChildHasModel, TypeOK,
       CallRecord
  <2>4. ChildHasModel' /\ LeaseOwnsSlot'
    BY <1>12, <1>a, SlotAssumption DEF Reap, Goto, ChildHasModel,
       LeaseOwnsSlot, StepFacts, ChildHoldsFlock, TypeOK
  <2>5. ReadyUntilReset'
    BY <1>12, <1>a, SlotAssumption DEF Reap, Goto, ReadyUntilReset,
       StepFacts, TypeOK
  <2>6. NoWorkerLost'
    BY <1>12, <1>a, SlotAssumption DEF Reap, Goto, NoWorkerLost, StepFacts,
       ChildHoldsFlock, TypeOK
  <2>7. QED
    BY <2>1, <2>2, <2>3, <2>4, <2>5, <2>6 DEF IInv
<1>13. ASSUME NEW s \in Sups,
             ReleaseFlock(s)
      PROVE  IInv'
  <2>1. TypeOK'
    BY <1>13, <1>a DEF ReleaseFlock, Goto, TypeOK, Step, FailureCode,
       Foreign
  <2>2. ChildHoldsFlock' /\ FlockIsUsed'
    BY <1>13, <1>a, SlotAssumption DEF ReleaseFlock, Goto, ChildHoldsFlock,
       FlockIsUsed, StepFacts, TypeOK
  <2>3. StepFacts'
    BY <1>13, <1>a, SlotAssumption DEF ReleaseFlock, Goto, Frame, NoCall,
       StartMethod, StepFacts, ChildHoldsFlock, ChildHasModel, TypeOK,
       CallRecord
  <2>4. ChildHasModel' /\ LeaseOwnsSlot'
    BY <1>13, <1>a, SlotAssumption DEF ReleaseFlock, Goto, ChildHasModel,
       LeaseOwnsSlot, StepFacts, ChildHoldsFlock, TypeOK
  <2>5. ReadyUntilReset'
    BY <1>13, <1>a, SlotAssumption DEF ReleaseFlock, Goto, ReadyUntilReset,
       StepFacts, TypeOK
  <2>6. NoWorkerLost'
    BY <1>13, <1>a, SlotAssumption DEF ReleaseFlock, Goto, NoWorkerLost,
       StepFacts, ChildHoldsFlock, TypeOK
  <2>7. QED
    BY <2>1, <2>2, <2>3, <2>4, <2>5, <2>6 DEF IInv
<1>14. ASSUME NEW s \in Sups,
             ReleaseProcessSlot(s)
      PROVE  IInv'
  <2>1. Control'
    BY <1>14, <1>a, ControlTyped DEF ReleaseProcessSlot, DropLease, Control,
       TypeOK, Step, FailureCode
  <2>2. TypeOK'
    BY <1>14, <1>a, <2>1 DEF ReleaseProcessSlot, DropLease, Control, TypeOK,
       CallRecord, WorkerState, FailureCode
  <2>3. ChildHoldsFlock' /\ FlockIsUsed'
    BY <1>14, <1>a, SlotAssumption DEF ReleaseProcessSlot, DropLease,
       ReturnErr, Return, Goto, ChildHoldsFlock, FlockIsUsed, StepFacts,
       TypeOK
  <2>4. StepFacts'
    <3>1. CASE Return(s)
      BY <1>14, <1>a, <3>1 DEF ReleaseProcessSlot, DropLease, Return, Goto,
         NoCall, Frame, StartMethod, StepFacts, TypeOK
    <3>2. CASE ~Return(s)
      <4>1. /\ call[s].method \in StartMethod
            /\ Goto(s, "retry")
            /\ call' = [call EXCEPT ![s] = Args(s, call[s].method)]
        BY <1>14, <3>2 DEF ReleaseProcessSlot, ReturnErr, StartMethod
      <4>2. QED
        BY <1>14, <1>a, <4>1 DEF ReleaseProcessSlot, DropLease, Goto, Args, Frame,
           StartMethod, StepFacts, TypeOK
    <3>3. QED
      BY <3>1, <3>2
  <2>5. ChildHasModel' /\ LeaseOwnsSlot'
    BY <1>14, <1>a, SlotAssumption DEF ReleaseProcessSlot, DropLease,
       ReturnErr, Return, Goto, ChildHasModel, LeaseOwnsSlot, StepFacts,
       ChildHoldsFlock, TypeOK
  <2>6. ReadyUntilReset'
    BY <1>14, <1>a, SlotAssumption DEF ReleaseProcessSlot, DropLease,
       ReturnErr, Return, Goto, ReadyUntilReset, StepFacts, TypeOK
  <2>7. NoWorkerLost'
    BY <1>14, <1>a, SlotAssumption DEF ReleaseProcessSlot, DropLease,
       ReturnErr, Return, Goto, NoWorkerLost, StepFacts, ChildHoldsFlock,
       TypeOK
  <2>8. QED
    BY <2>1, <2>2, <2>3, <2>4, <2>5, <2>6, <2>7 DEF IInv
<1>15. ASSUME NEW s \in Sups,
             Deadline(s)
      PROVE  IInv'
  <2>1. TypeOK'
    BY <1>15, <1>a, LocalsTyped DEF Deadline, TypeOK
  <2>2. ChildHoldsFlock' /\ FlockIsUsed'
    BY <1>15, <1>a, SlotAssumption DEF Deadline, ChildHoldsFlock,
       FlockIsUsed, StepFacts, TypeOK
  <2>3. StepFacts'
    BY <1>15, <1>a, SlotAssumption DEF Deadline, Frame, NoCall, StartMethod,
       StepFacts, ChildHoldsFlock, ChildHasModel, TypeOK, CallRecord
  <2>4. ChildHasModel' /\ LeaseOwnsSlot'
    BY <1>15, <1>a, SlotAssumption DEF Deadline, ChildHasModel,
       LeaseOwnsSlot, StepFacts, ChildHoldsFlock, TypeOK
  <2>5. ReadyUntilReset'
    BY <1>15, <1>a, SlotAssumption DEF Deadline, ReadyUntilReset, StepFacts,
       TypeOK
  <2>6. NoWorkerLost'
    BY <1>15, <1>a, SlotAssumption DEF Deadline, NoWorkerLost, StepFacts,
       ChildHoldsFlock, TypeOK
  <2>7. QED
    BY <2>1, <2>2, <2>3, <2>4, <2>5, <2>6 DEF IInv
<1>16. ASSUME NEW w \in Workers,
             WorkerBind(w)
      PROVE  IInv'
  <2>1. TypeOK'
    BY <1>16, <1>a DEF WorkerBind, TypeOK, Step, FailureCode, Foreign
  <2>2. /\ ChildHoldsFlock' /\ FlockIsUsed' /\ StepFacts'
        /\ ChildHasModel' /\ LeaseOwnsSlot' /\ ReadyUntilReset'
    BY <1>16, <1>a DEF WorkerBind, ChildHoldsFlock, FlockIsUsed, StepFacts,
       ChildHasModel, LeaseOwnsSlot, ReadyUntilReset
  <2>3. NoWorkerLost'
    BY <1>16, <1>a DEF WorkerBind, NoWorkerLost, TypeOK
  <2>4. QED
    BY <2>1, <2>2, <2>3 DEF IInv
<1>17. ASSUME NEW w \in Workers,
             WorkerLoaded(w)
      PROVE  IInv'
  <2>1. TypeOK'
    BY <1>17, <1>a DEF WorkerLoaded, TypeOK, Step, FailureCode, Foreign
  <2>2. /\ ChildHoldsFlock' /\ FlockIsUsed' /\ StepFacts'
        /\ ChildHasModel' /\ LeaseOwnsSlot' /\ ReadyUntilReset'
    BY <1>17, <1>a DEF WorkerLoaded, ChildHoldsFlock, FlockIsUsed,
       StepFacts, ChildHasModel, LeaseOwnsSlot, ReadyUntilReset
  <2>3. NoWorkerLost'
    BY <1>17, <1>a DEF WorkerLoaded, NoWorkerLost, TypeOK
  <2>4. QED
    BY <2>1, <2>2, <2>3 DEF IInv
<1>18. ASSUME NEW w \in Workers, NEW code \in FailureCode,
             WorkerExit(w, code)
      PROVE  IInv'
  <2>1. TypeOK'
    BY <1>18, <1>a DEF WorkerExit, TypeOK, Step, FailureCode, Foreign
  <2>2. /\ ChildHoldsFlock' /\ FlockIsUsed' /\ StepFacts'
        /\ ChildHasModel' /\ LeaseOwnsSlot' /\ ReadyUntilReset'
    BY <1>18, <1>a DEF WorkerExit, ChildHoldsFlock, FlockIsUsed, StepFacts,
       ChildHasModel, LeaseOwnsSlot, ReadyUntilReset
  <2>3. NoWorkerLost'
    BY <1>18, <1>a DEF WorkerExit, Alive, Orphan, NoWorkerLost, TypeOK
  <2>4. QED
    BY <2>1, <2>2, <2>3 DEF IInv
<1>19. ASSUME NEW p \in Ports,
             ForeignBind(p)
      PROVE  IInv'
  <2>1. TypeOK'
    BY <1>19, <1>a DEF ForeignBind, TypeOK, Step, FailureCode, Foreign
  <2>2. /\ ChildHoldsFlock' /\ FlockIsUsed' /\ StepFacts'
        /\ ChildHasModel' /\ LeaseOwnsSlot' /\ ReadyUntilReset'
    BY <1>19, <1>a DEF ForeignBind, ChildHoldsFlock, FlockIsUsed, StepFacts,
       ChildHasModel, LeaseOwnsSlot, ReadyUntilReset
  <2>3. NoWorkerLost'
    BY <1>19, <1>a DEF ForeignBind, NoWorkerLost, TypeOK
  <2>4. QED
    BY <2>1, <2>2, <2>3 DEF IInv
<1>20. ASSUME NEW p \in Ports,
             ForeignClose(p)
      PROVE  IInv'
  <2>1. TypeOK'
    BY <1>20, <1>a DEF ForeignClose, TypeOK, Step, FailureCode, Foreign
  <2>2. /\ ChildHoldsFlock' /\ FlockIsUsed' /\ StepFacts'
        /\ ChildHasModel' /\ LeaseOwnsSlot' /\ ReadyUntilReset'
    BY <1>20, <1>a DEF ForeignClose, ChildHoldsFlock, FlockIsUsed,
       StepFacts, ChildHasModel, LeaseOwnsSlot, ReadyUntilReset
  <2>3. NoWorkerLost'
    BY <1>20, <1>a DEF ForeignClose, NoWorkerLost, TypeOK
  <2>4. QED
    BY <2>1, <2>2, <2>3 DEF IInv
<1>21. ASSUME NEW p \in Procs,
             Crash(p)
      PROVE  IInv'
  <2>1. Control'
    BY <1>21, <1>a, FrameTyped DEF Crash, NoCall, Method, Control, TypeOK,
       Step
  <2>2. TypeOK'
    BY <1>21, <1>a, <2>1, SlotAssumption DEF Crash, Control, TypeOK,
       WorkerState
  <2>3. ChildHoldsFlock' /\ FlockIsUsed'
    BY <1>21, <1>a, SlotAssumption DEF Crash, Exited, ChildHoldsFlock,
       FlockIsUsed, StepFacts, TypeOK
  <2>4. StepFacts'
    BY <1>21, <1>a, SlotAssumption DEF Crash, Exited, Frame, NoCall,
       StartMethod, StepFacts, ChildHoldsFlock, ChildHasModel, TypeOK,
       CallRecord
  <2>5. ChildHasModel' /\ LeaseOwnsSlot'
    BY <1>21, <1>a, SlotAssumption DEF Crash, Exited, ChildHasModel,
       LeaseOwnsSlot, StepFacts, ChildHoldsFlock, TypeOK
  <2>6. ReadyUntilReset'
    BY <1>21, <1>a, SlotAssumption DEF Crash, Exited, ReadyUntilReset,
       StepFacts, TypeOK
  <2>7. NoWorkerLost'
    BY <1>21, <1>a, SlotAssumption DEF Crash, Exited, NoWorkerLost,
       StepFacts, ChildHoldsFlock, TypeOK
  <2>8. QED
    BY <2>1, <2>2, <2>3, <2>4, <2>5, <2>6, <2>7 DEF IInv
<1>22. CASE UNCHANGED vars
  BY <1>22, <1>a DEF vars, IInv, TypeOK, ChildHoldsFlock, FlockIsUsed,
     StepFacts, ChildHasModel, LeaseOwnsSlot, ReadyUntilReset, NoWorkerLost
<1>23. QED
  BY <1>1, <1>2, <1>3, <1>4, <1>5, <1>6, <1>7, <1>8, <1>9, <1>10, <1>11,
     <1>12, <1>13, <1>14, <1>15, <1>16, <1>17, <1>18, <1>19, <1>20, <1>21,
     <1>22 DEF Next, SupStep, Caller, Environment, World

-----------------------------------------------------------------------------
(* Theorems *)

(* IInv holds in every state the supervisors reach. *)
THEOREM IInvHolds == Spec => []IInv
<1>1. Init => IInv
  BY InitEstablishesIInv
<1>2. IInv /\ [Next]_vars => IInv'
  BY NextPreservesIInv
<1>3. QED
  BY <1>1, <1>2, PTL DEF Spec

(* Every field of every supervisor keeps its type: the flock loop stays      *)
(* within its 20 attempts, a verdict is a failure code, and a worker is told *)
(* a port the caller gave.                                                   *)
THEOREM TypeCorrect == Spec => []TypeOK
<1>1. IInv => TypeOK
  BY DEF IInv
<1>2. QED
  BY <1>1, IInvHolds, PTL

(* The machine has one model slot: however many engine processes and threads *)
(* start, stop, refresh and crash, no two supervisors own a worker.          *)
THEOREM SingleWorker == Spec => []AtMostOneSupervisedWorker
<1>1. IInv => AtMostOneSupervisedWorker
  BY SlotAssumption DEF IInv, ChildHoldsFlock, AtMostOneSupervisedWorker
<1>2. QED
  BY <1>1, IInvHolds, PTL

(* Owning a worker means holding the flock and the lease of its model. *)
THEOREM SlotCovers == Spec => []SlotCoversWorker
<1>1. IInv => SlotCoversWorker
  BY DEF IInv, TypeOK, ChildHoldsFlock, ChildHasModel, LeaseOwnsSlot, SlotCoversWorker
<1>2. QED
  BY <1>1, IInvHolds, PTL

(* While no engine process was killed, every worker process has an owner:    *)
(* no error path of a start and no teardown loses one.                       *)
THEOREM NoWorkerIsLost == Spec => []NoWorkerLost
<1>1. IInv => NoWorkerLost
  BY DEF IInv
<1>2. QED
  BY <1>1, IInvHolds, PTL

(* A supervisor at rest without a worker does not hold the flock. *)
THEOREM FlockReturned == Spec => []FlockFreeAtRest
<1>1. IInv => FlockFreeAtRest
  BY DEF IInv, FlockIsUsed, FlockFreeAtRest
<1>2. QED
  BY <1>1, IInvHolds, PTL

(* A supervisor at rest says Ready only if it owns a worker. *)
THEOREM ReadyMeansChild == Spec => []ReadyOwnsChild
<1>1. IInv => ReadyOwnsChild
  BY DEF IInv, ReadyUntilReset, ReadyOwnsChild
<1>2. QED
  BY <1>1, IInvHolds, PTL

(* The in-process slot and the leases of its process agree. *)
THEOREM LeasesMatch == Spec => []LeaseMatchesSlot
<1>1. IInv => LeaseMatchesSlot
  BY SlotAssumption DEF IInv, TypeOK, LeaseOwnsSlot, LeaseMatchesSlot
<1>2. QED
  BY <1>1, IInvHolds, PTL

-----------------------------------------------------------------------------
(* Refinement of ModelSlot *)

Running == \E s \in Sups : child[s] # Nobody

(* The steps that move the slot: they are the abstract actions. *)
LEMMA SlotStep ==
  ASSUME IInv, NEW s \in Sups
  PROVE  /\ TryFlock(s) => [Slot!Next]_<<flock, Running>>
         /\ Spawn(s) => [Slot!Next]_<<flock, Running>>
         /\ Reap(s) => [Slot!Next]_<<flock, Running>>
         /\ ReleaseFlock(s) => [Slot!Next]_<<flock, Running>>
<1>a. /\ TypeOK /\ ChildHoldsFlock /\ StepFacts
  BY DEF IInv
<1>1. ASSUME TryFlock(s) PROVE Slot!Claim(s) \/ UNCHANGED <<flock, Running>>
  BY <1>1 DEF TryFlock, FlockTaken, FlockRetried, FlockGivenUp, Slot!Claim, Running
<1>2. ASSUME Spawn(s) PROVE Slot!Launch(s) \/ UNCHANGED <<flock, Running>>
  <2>1. flock = s /\ child[s] = Nobody
    BY <1>2, <1>a DEF Spawn, StepFacts
  <2>2. ~Running
    BY <2>1, <1>a DEF Running, ChildHoldsFlock
  <2>3. CASE SpawnOk(s)
    BY <1>2, <1>a, <2>1, <2>2, <2>3, SlotAssumption
       DEF Spawn, SpawnOk, locks, Slot!Launch, Running, TypeOK
  <2>4. CASE SpawnFailed(s, "unflock")
    BY <1>2, <2>4 DEF Spawn, SpawnFailed, locks, Running
  <2>5. QED
    BY <1>2, <2>3, <2>4 DEF Spawn
<1>3. ASSUME Reap(s) PROVE Slot!End(s) \/ UNCHANGED <<flock, Running>>
  <2>1. CASE child[s] = Nobody
    BY <1>3, <1>a, <2>1 DEF Reap, locks, Running, TypeOK
  <2>2. CASE child[s] # Nobody
    <3>1. flock = s /\ \A t \in Sups : child[t] # Nobody => t = s
      BY <1>a, <2>2 DEF ChildHoldsFlock
    <3>2. QED
      BY <1>3, <1>a, <2>2, <3>1 DEF Reap, locks, Slot!End, Running, TypeOK
  <2>3. QED
    BY <2>1, <2>2
<1>4. ASSUME ReleaseFlock(s) PROVE Slot!Release(s) \/ UNCHANGED <<flock, Running>>
  <2>1. flock = s => ~Running
    BY <1>4, <1>a DEF ReleaseFlock, StepFacts, ChildHoldsFlock, Running
  <2>2. QED
    BY <1>4, <2>1 DEF ReleaseFlock, fields, Slot!Release, Running
<1>5. QED
  BY <1>1, <1>2, <1>3, <1>4 DEF Slot!Next, Running

(* A crash loses the slot of the process that dies, and no other. *)
LEMMA CrashStep ==
  ASSUME IInv, NEW p \in Procs, Crash(p)
  PROVE  [Slot!Next]_<<flock, Running>>
<1>a. TypeOK /\ ChildHoldsFlock
  BY DEF IInv
<1>1. CASE flock \in Sups /\ ProcOf[flock] = p
  <2>1. PICK s \in Sups : s = flock
    BY <1>1
  <2>2. Slot!Lose(s)
    BY <1>1, <1>a, <2>1 DEF Crash, Slot!Lose, Running, ChildHoldsFlock
  <2>3. Slot!Next
    BY <2>2 DEF Slot!Next
  <2>4. QED
    BY <2>3
<1>2. CASE ~(flock \in Sups /\ ProcOf[flock] = p)
  BY <1>2, <1>a DEF Crash, Running, ChildHoldsFlock
<1>3. QED
  BY <1>1, <1>2

(* The supervisors, the workers and the crashes together implement one model *)
(* slot that is claimed free, launched into once, and given back empty.      *)
THEOREM RefinesModelSlot == Spec => ImplementsModelSlot
<1>1. Init => Slot!Init
  BY DEF Init, Slot!Init
<1>2. IInv /\ [Next]_vars => [Slot!Next]_<<flock, Running>>
  <2> SUFFICES ASSUME IInv, [Next]_vars
               PROVE  [Slot!Next]_<<flock, Running>>
    OBVIOUS
  <2>1. ASSUME NEW s \in Sups, SupStep(s)
        PROVE  [Slot!Next]_<<flock, Running>>
    <3>1. CASE TryFlock(s) \/ Spawn(s) \/ Reap(s) \/ ReleaseFlock(s)
      BY <3>1, SlotStep
    <3>2. CASE Preflight(s) \/ AcquireProcessSlot(s) \/ OpenLockFile(s)
                 \/ PollExit(s) \/ RetryPort(s) \/ ReleaseProcessSlot(s)
      <4>1. UNCHANGED <<child, flock>>
        BY <3>2 DEF Preflight, AcquireProcessSlot, OpenLockFile, PollExit,
           RetryPort, ReleaseProcessSlot, fields, locks
      <4>2. QED
        BY <4>1 DEF Running
    <3>3. QED
      BY <2>1, <3>1, <3>2 DEF SupStep
  <2>2. ASSUME NEW s \in Sups, Caller(s)
        PROVE  UNCHANGED <<flock, Running>>
    BY <2>2 DEF Caller, CallStart, CallRefresh, CallStop, fields, locks, Running
  <2>3. ASSUME Environment
        PROVE  [Slot!Next]_<<flock, Running>>
    BY <2>3, CrashStep DEF Environment, World, PollChance, Deadline, WorkerBind,
       WorkerLoaded, WorkerExit, ForeignBind, ForeignClose, fields, locks, Running
  <2>4. CASE UNCHANGED vars
    BY <2>4 DEF vars, fields, locks, Running
  <2>5. QED
    BY <2>1, <2>2, <2>3, <2>4 DEF Next
<1>3. QED
  BY <1>1, <1>2, IInvHolds, PTL DEF Spec, ImplementsModelSlot, Slot!Spec, Running
=============================================================================
