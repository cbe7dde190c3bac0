---------------------------- MODULE EngineProofs ----------------------------
(***************************************************************************)
(* Theorems about Engine for every set of supervisors, processes, models,  *)
(* ports and workers, and every bound.                                     *)
(*                                                                         *)
(* An engine method runs its supervisor through many steps, so what the    *)
(* engine may believe depends on the method in progress.  EngineInv says   *)
(* it method by method, over the invariant IInv of the supervisors, which  *)
(* an engine keeps because all it does to them is to call them.            *)
(***************************************************************************)
EXTENDS Engine, WorkerSupervisorProofs

EngineFieldsOK ==
  /\ estate \in [Sups -> EngineState]
  /\ emodel \in [Sups -> Models \cup {Nobody}]
  /\ eport \in [Sups -> Ports \cup {Nobody}]
  /\ mini \in [Sups -> {"Primary", "Fallback"}]
  /\ job \in [Sups -> JobRecord]

Serving(s) ==
  /\ child[s] # Nobody /\ state[s] # "Stopped"
  /\ emodel[s] = activeModel[s] /\ eport[s] = portOf[child[s]]

EmptyHanded(s) == child[s] = Nobody /\ processSlot[s] = Nobody

ServesNothing(s) == emodel[s] = Nobody /\ eport[s] = Nobody

Coherent(s) ==
  /\ estate[s] \in {"Idle", "Loading", "Ready", "Busy", "Degraded", "Failed"}
  /\ estate[s] \in {"Loading", "Ready", "Busy"} => Serving(s)
  /\ estate[s] \in {"Idle", "Degraded", "Failed"} => ServesNothing(s)
  /\ estate[s] = "Idle" => EmptyHanded(s)

(* Between two calls, and inside ensure_ready between two of its own. *)
Resting(s) ==
  job[s].op \in {"none", "select", "ensured"} => pc[s] = "idle" /\ Coherent(s)

(* A worker that came up under this start is the one that was asked for. *)
RunningStart(s) == job[s].op \in StartOp =>
  /\ estate[s] = IF job[s].op = "recover_with_fallback" THEN "Rollback" ELSE "Loading"
  /\ ServesNothing(s)
  /\ job[s].model \in Models /\ job[s].port \in Ports
  /\ pc[s] # "idle" => /\ call[s].method \in StartMethod
                       /\ call[s].model = job[s].model /\ call[s].port = job[s].port
  /\ pc[s] = "spawn" => state[s] = "Starting"
  /\ job[s].fresh /\ child[s] # Nobody =>
       /\ activeModel[s] = job[s].model /\ portOf[child[s]] = job[s].port
       /\ state[s] # "Stopped" /\ pc[s] \in {"poll", "reap", "idle"}

(* A refresh reaps a worker that has died, or leaves it. *)
RunningRefresh(s) == job[s].op = "refresh" =>
  /\ estate[s] \in {"Loading", "Ready", "Busy"} /\ emodel[s] # Nobody
  /\ pc[s] = "idle" => state[s] = "Failed" \/ Serving(s)
  /\ pc[s] # "idle" => /\ pc[s] \in {"reap", "unflock", "unlease"}
                       /\ call[s].method = "refresh" /\ call[s].verdict \in FailureCode
  /\ pc[s] = "reap" => child[s] # Nobody /\ Exited(child[s])

RunningStop(s) == job[s].op = "stop" =>
  /\ estate[s] = "Stopping"
  /\ pc[s] = "idle" => EmptyHanded(s)
  /\ pc[s] # "idle" => pc[s] \in {"reap", "unflock", "unlease"} /\ call[s].method = "stop"
  /\ job[s].next # "none" => job[s].model \in Models /\ job[s].port \in Ports

AboutToRestart(s) == job[s].op = "restart" =>
  /\ pc[s] = "idle" /\ estate[s] = "Idle" /\ ServesNothing(s) /\ EmptyHanded(s)
  /\ job[s].next # "none" /\ job[s].model \in Models /\ job[s].port \in Ports

(* Inside ensure_ready the model in work is the selected one. *)
Ensuring(s) ==
  /\ job[s].op = "select" => job[s].ensure /\ job[s].port \in Ports
  /\ job[s].ensure /\ job[s].op \in StartOp \cup {"stop", "restart"} =>
       /\ job[s].model = ActiveSpec(s) /\ job[s].op # "start_model"
       /\ job[s].op \in {"stop", "restart"} => job[s].next = "start_model_ready"
  /\ job[s].op = "ensured" =>
       job[s].ensure /\ estate[s] = "Ready" /\ emodel[s] = ActiveSpec(s)

Method1(s) ==
  /\ Resting(s) /\ RunningStart(s) /\ RunningRefresh(s) /\ RunningStop(s)
  /\ AboutToRestart(s) /\ Ensuring(s)

EngineInv == IInv /\ EngineFieldsOK /\ \A s \in Sups : Method1(s)

-----------------------------------------------------------------------------
(* The records of the jobs. *)
LEMMA JobsTyped ==
  /\ NoJob \in JobRecord /\ NoJob.op = "none" /\ ~NoJob.ensure
  /\ \A port \in Ports \cup {Nobody} :
       LET r == [NoJob EXCEPT !.op = "select", !.port = port, !.ensure = TRUE] IN
       r \in JobRecord /\ r.op = "select" /\ r.ensure /\ r.port = port
  /\ LET r == [NoJob EXCEPT !.op = "ensured", !.ensure = TRUE] IN
       r \in JobRecord /\ r.op = "ensured" /\ r.ensure
  /\ LET r == [NoJob EXCEPT !.op = "refresh"] IN
       r \in JobRecord /\ r.op = "refresh" /\ ~r.ensure
  /\ \A j \in JobRecord : LET r == [j EXCEPT !.op = "restart"] IN
       /\ r \in JobRecord /\ r.op = "restart" /\ r.model = j.model /\ r.port = j.port
       /\ r.next = j.next /\ r.ensure = j.ensure
<1>1. NoJob \in JobRecord /\ NoJob.op = "none" /\ ~NoJob.ensure
  BY DEF NoJob, JobRecord, StartOp
<1>2. ASSUME NEW port \in Ports \cup {Nobody}
      PROVE  LET r == [NoJob EXCEPT !.op = "select", !.port = port, !.ensure = TRUE] IN
             r \in JobRecord /\ r.op = "select" /\ r.ensure /\ r.port = port
  BY <1>2 DEF NoJob, JobRecord, StartOp
<1>3. LET r == [NoJob EXCEPT !.op = "ensured", !.ensure = TRUE] IN
       r \in JobRecord /\ r.op = "ensured" /\ r.ensure
  BY DEF NoJob, JobRecord, StartOp
<1>4. LET r == [NoJob EXCEPT !.op = "refresh"] IN
       r \in JobRecord /\ r.op = "refresh" /\ ~r.ensure
  BY DEF NoJob, JobRecord, StartOp
<1>5. ASSUME NEW j \in JobRecord
      PROVE  LET r == [j EXCEPT !.op = "restart"] IN
             /\ r \in JobRecord /\ r.op = "restart" /\ r.model = j.model /\ r.port = j.port
             /\ r.next = j.next /\ r.ensure = j.ensure
  BY <1>5 DEF JobRecord, StartOp
<1> QED
  BY <1>1, <1>2, <1>3, <1>4, <1>5

(* What a step leaves of supervisor s, as far as its engine relies on it. *)
Same(s) ==
  /\ child'[s] = child[s] /\ state'[s] = state[s] /\ activeModel'[s] = activeModel[s]
  /\ processSlot'[s] = processSlot[s] /\ pc'[s] = pc[s]
  /\ call'[s].method = call[s].method /\ call'[s].model = call[s].model
  /\ call'[s].port = call[s].port /\ call'[s].verdict = call[s].verdict
  /\ child[s] # Nobody => portOf'[child[s]] = portOf[child[s]]
  /\ child[s] # Nobody /\ Exited(child[s]) => Exited(child[s])'

EngineSame(s) ==
  /\ estate'[s] = estate[s] /\ emodel'[s] = emodel[s] /\ eport'[s] = eport[s]
  /\ mini'[s] = mini[s] /\ job'[s] = job[s]

(* What an engine relies on is kept where a step leaves it. *)
LEMMA Stays ==
  ASSUME NEW s \in Sups, Method1(s), Same(s), EngineSame(s)
  PROVE  Method1(s)'
<1>1. Serving(s) => Serving(s)'
  BY DEF Serving, Same, EngineSame
<1>2. /\ EmptyHanded(s)' <=> EmptyHanded(s)
      /\ ServesNothing(s)' <=> ServesNothing(s)
      /\ ActiveSpec(s)' = ActiveSpec(s)
  BY DEF EmptyHanded, ServesNothing, ActiveSpec, Same, EngineSame
<1>3. Coherent(s) => Coherent(s)'
  BY <1>1, <1>2 DEF Coherent, EngineSame
<1>4. Resting(s)'
  BY <1>3 DEF Method1, Resting, Same, EngineSame
<1>5. RunningStart(s)'
  BY <1>2 DEF Method1, RunningStart, Same, EngineSame
<1>6. RunningRefresh(s)'
  BY <1>1 DEF Method1, RunningRefresh, Same, EngineSame
<1>7. RunningStop(s)' /\ AboutToRestart(s)' /\ Ensuring(s)'
  BY <1>2 DEF Method1, RunningStop, AboutToRestart, Ensuring, Same, EngineSame
<1> QED
  BY <1>4, <1>5, <1>6, <1>7 DEF Method1

(* A supervisor leaves the others alone: only one has a worker, and only the *)
(* one with the flock spawns.                                                *)
LEMMA OthersStay ==
  ASSUME IInv, NEW s \in Sups, NEW t \in Sups, s # t,
         SupStep(t) \/ Caller(t) \/ PollChance(t) \/ Deadline(t)
  PROVE  Same(s)
<1>t. TypeOK /\ ChildHoldsFlock /\ StepFacts
  BY DEF IInv
<1>1. /\ child \in [Sups -> Workers \cup {Nobody}] /\ state \in [Sups -> WorkerState]
      /\ activeModel \in [Sups -> Models \cup {Nobody}]
      /\ processSlot \in [Sups -> Models \cup {Nobody}]
      /\ pc \in [Sups -> Step] /\ call \in [Sups -> CallRecord]
      /\ wstat \in [Workers -> {"none", "starting", "serving"} \cup FailureCode]
      /\ portOf \in [Workers -> Ports]
  BY <1>t DEF TypeOK
<1> USE DEF fields, locks, os, Same
<1>2. CASE Preflight(t)
  BY <1>2, <1>1 DEF Preflight, ReturnErr, Return, Goto, Exited
<1>3. CASE AcquireProcessSlot(t)
  BY <1>3, <1>1 DEF AcquireProcessSlot, ReturnErr, Return, Goto, Exited
<1>4. CASE OpenLockFile(t)
  BY <1>4, <1>1 DEF OpenLockFile, ReturnErr, Return, Goto, Exited
<1>5. CASE TryFlock(t)
  BY <1>5, <1>1 DEF TryFlock, FlockTaken, FlockRetried, FlockGivenUp, TearDown, Goto, Exited
<1>6. CASE Spawn(t)
  <2>1. child[s] = Nobody
    BY <1>6, <1>t DEF Spawn, StepFacts, ChildHoldsFlock
  <2> QED
    BY <1>6, <1>1, <2>1 DEF Spawn, SpawnOk, SpawnFailed, TearDown, Return, Goto
<1>7. CASE PollExit(t)
  BY <1>7, <1>1 DEF PollExit, WorkerFoundDead, WorkerFoundReady, DeadlineMissed, TearDown,
     Return, Goto, Exited
<1>8. CASE RetryPort(t)
  BY <1>8, <1>1 DEF RetryPort, Return, Goto, Exited
<1>9. CASE Reap(t)
  <2>1. child[s] # Nobody => child[s] \in Workers /\ child[s] # child[t]
    BY <1>1, <1>t DEF ChildHoldsFlock
  <2> QED
    BY <1>9, <1>1, <2>1 DEF Reap, Goto, Exited
<1>10. CASE ReleaseFlock(t)
  BY <1>10, <1>1 DEF ReleaseFlock, Goto, Exited
<1>11. CASE ReleaseProcessSlot(t)
  BY <1>11, <1>1 DEF ReleaseProcessSlot, DropLease, ReturnErr, Return, Goto, Exited
<1>12. CASE PollChance(t)
  BY <1>12, <1>1 DEF PollChance, TearDown, Return, Goto, Exited
<1>13. CASE Deadline(t)
  BY <1>13, <1>1 DEF Deadline, Exited
<1>14. CASE Caller(t)
  <2>1. CASE \E m \in StartMethod, model \in Models, p \in Ports : CallStart(t, m, model, p)
    BY <2>1, <1>1 DEF CallStart, Invoke, Goto, Exited
  <2>2. CASE \E p \in Ports : CallRefresh(t, p)
    BY <2>2, <1>1 DEF CallRefresh, Return, Goto, Exited
  <2>3. CASE CallStop(t)
    BY <2>3, <1>1 DEF CallStop, Invoke, Goto, Exited
  <2> QED
    BY <1>14, <2>1, <2>2, <2>3 DEF Caller
<1> QED
  BY <1>2, <1>3, <1>4, <1>5, <1>6, <1>7, <1>8, <1>9, <1>10, <1>11, <1>12, <1>13, <1>14
  DEF SupStep

(* So do the clocks, the workers and other programs. *)
LEMMA WorldLeaves ==
  ASSUME IInv, NEW s \in Sups,
         \/ \E w \in Workers : WorkerBind(w) \/ WorkerLoaded(w)
         \/ \E w \in Workers, code \in FailureCode : WorkerExit(w, code)
         \/ \E p \in Ports : ForeignBind(p) \/ ForeignClose(p)
         \/ Deadline(s)
  PROVE  Same(s)
<1>1. /\ child \in [Sups -> Workers \cup {Nobody}] /\ call \in [Sups -> CallRecord]
      /\ wstat \in [Workers -> {"none", "starting", "serving"} \cup FailureCode]
  BY DEF IInv, TypeOK
<1> USE DEF fields, locks, os, Same
<1>2. CASE \E w \in Workers : WorkerBind(w)
  BY <1>2, <1>1 DEF WorkerBind, Exited
<1>3. CASE \E w \in Workers : WorkerLoaded(w)
  BY <1>3, <1>1 DEF WorkerLoaded, Exited, FailureCode
<1>4. CASE \E w \in Workers, code \in FailureCode : WorkerExit(w, code)
  BY <1>4, <1>1 DEF WorkerExit, Alive, Exited, FailureCode
<1>5. CASE \E p \in Ports : ForeignBind(p) \/ ForeignClose(p)
  BY <1>5, <1>1 DEF ForeignBind, ForeignClose, Exited
<1>6. CASE Deadline(s)
  <2>1. call'[s] = [call[s] EXCEPT !.expired = TRUE] /\ call[s] \in CallRecord
    BY <1>6, <1>1 DEF Deadline
  <2>2. /\ call'[s].method = call[s].method /\ call'[s].model = call[s].model
        /\ call'[s].port = call[s].port /\ call'[s].verdict = call[s].verdict
    BY <2>1 DEF CallRecord
  <2> QED
    BY <1>6, <2>2 DEF Deadline, Exited
<1> QED
  BY <1>2, <1>3, <1>4, <1>5, <1>6

(* The method of an engine goes on with a step of its supervisor: a start    *)
(* towards its worker or a failure, a refresh or stop through its teardown.  *)
LEMMA StartGoesOn ==
  ASSUME IInv, NEW s \in Sups, job[s].op \in StartOp, RunningStart(s),
         SupStep(s) \/ PollChance(s), EngineSame(s)
  PROVE  RunningStart(s)'
<1>t. TypeOK /\ StepFacts /\ ChildHasModel
  BY DEF IInv
<1>1. /\ child \in [Sups -> Workers \cup {Nobody}] /\ state \in [Sups -> WorkerState]
      /\ activeModel \in [Sups -> Models \cup {Nobody}]
      /\ pc \in [Sups -> Step] /\ call \in [Sups -> CallRecord]
      /\ portOf \in [Workers -> Ports]
  BY <1>t DEF TypeOK
<1>2. /\ estate'[s] = estate[s] /\ ServesNothing(s)' /\ job'[s] = job[s]
      /\ estate[s] = IF job[s].op = "recover_with_fallback" THEN "Rollback" ELSE "Loading"
      /\ job[s].model \in Models /\ job[s].port \in Ports
      /\ pc[s] # "idle" => /\ call[s].method \in StartMethod
                           /\ call[s].model = job[s].model /\ call[s].port = job[s].port
      /\ job[s].fresh /\ child[s] # Nobody =>
           /\ activeModel[s] = job[s].model /\ portOf[child[s]] = job[s].port
           /\ state[s] # "Stopped" /\ pc[s] \in {"poll", "reap", "idle"}
      /\ pc[s] = "spawn" => state[s] = "Starting"
  BY DEF RunningStart, ServesNothing, EngineSame
<1> DEFINE Args1 == pc'[s] # "idle" =>
             /\ call'[s].method \in StartMethod
             /\ call'[s].model = job[s].model /\ call'[s].port = job[s].port
           Spawning == pc'[s] = "spawn" => state'[s] = "Starting"
           Fresh == job[s].fresh /\ child'[s] # Nobody =>
             /\ activeModel'[s] = job[s].model /\ portOf'[child'[s]] = job[s].port
             /\ state'[s] # "Stopped" /\ pc'[s] \in {"poll", "reap", "idle"}
<1>3. Args1 /\ Spawning /\ Fresh => RunningStart(s)'
  BY <1>2 DEF RunningStart
<1>4. /\ Return(s) => pc'[s] = "idle"
      /\ \A code : ReturnErr(s, code) =>
           /\ pc'[s] \in {"idle", "retry"}
           /\ pc'[s] = "retry" => /\ call'[s].method = call[s].method
                                  /\ call'[s].model = call[s].model
                                  /\ call'[s].port = call[s].port
      /\ \A step, code : TearDown(s, step, code) =>
           /\ pc'[s] = step
           /\ call'[s].method = call[s].method /\ call'[s].model = call[s].model
           /\ call'[s].port = call[s].port
  <2>1. Return(s) => pc'[s] = "idle"
    BY <1>1 DEF Return, Goto
  <2>2. ASSUME NEW code, ReturnErr(s, code)
        PROVE  /\ pc'[s] \in {"idle", "retry"}
               /\ pc'[s] = "retry" => /\ call'[s].method = call[s].method
                                      /\ call'[s].model = call[s].model
                                      /\ call'[s].port = call[s].port
    BY <1>1, <2>2 DEF ReturnErr, Return, Goto, Args, Frame
  <2>3. ASSUME NEW step, NEW code, TearDown(s, step, code)
        PROVE  /\ pc'[s] = step
               /\ call'[s].method = call[s].method /\ call'[s].model = call[s].model
               /\ call'[s].port = call[s].port
    <3>1. /\ \A t \in Sups : /\ call'[t].method = call[t].method
                             /\ call'[t].model = call[t].model
                             /\ call'[t].port = call[t].port
          /\ pc' = [pc EXCEPT ![s] = step]
      BY <1>t, <2>3, ArgumentsKept
    <3> QED
      BY <1>1, <3>1
  <2> QED
    BY <2>1, <2>2, <2>3
<1> USE DEF fields, locks, os
<1>5. CASE Preflight(s)
  BY <1>5, <1>1, <1>2, <1>3, <1>4 DEF Preflight, Goto
<1>6. CASE AcquireProcessSlot(s)
  BY <1>6, <1>1, <1>2, <1>3, <1>4 DEF AcquireProcessSlot, Goto
<1>7. CASE OpenLockFile(s)
  BY <1>7, <1>1, <1>2, <1>3, <1>4 DEF OpenLockFile, Goto
<1>8. CASE TryFlock(s)
  <2>1. CASE FlockTaken(s)
    BY <1>8, <2>1, <1>1, <1>2, <1>3 DEF TryFlock, FlockTaken, Goto
  <2>2. CASE FlockRetried(s)
    <3>1. call'[s].method = call[s].method /\ call'[s].model = call[s].model
          /\ call'[s].port = call[s].port
      BY <2>2, <1>1 DEF FlockRetried, CallRecord
    <3> QED
      BY <1>8, <2>2, <3>1, <1>1, <1>2, <1>3 DEF TryFlock, FlockRetried
  <2>3. CASE FlockGivenUp(s)
    BY <1>8, <2>3, <1>1, <1>2, <1>3, <1>4 DEF TryFlock, FlockGivenUp
  <2> QED
    BY <1>8, <2>1, <2>2, <2>3 DEF TryFlock
<1>9. CASE Spawn(s)
  <2>1. CASE SpawnOk(s)
    <3>1. PICK w \in Workers : child'[s] = w /\ portOf'[w] = call[s].port
      BY <2>1, <1>1 DEF SpawnOk
    <3>2. activeModel'[s] = call[s].model /\ pc'[s] \in {"poll", "idle"}
          /\ (pc'[s] = "poll" => call' = call)
      BY <2>1, <1>1, <1>4 DEF SpawnOk, Goto
    <3> QED
      BY <1>9, <3>1, <3>2, <1>2, <1>3 DEF Spawn
  <2>2. CASE SpawnFailed(s, "unflock")
    <3>1. child[s] = Nobody
      BY <1>9, <1>t DEF Spawn, StepFacts
    <3> QED
      BY <1>9, <2>2, <3>1, <1>1, <1>2, <1>3, <1>4 DEF Spawn, SpawnFailed
  <2> QED
    BY <1>9, <2>1, <2>2 DEF Spawn
<1>10. CASE PollExit(s)
  BY <1>10, <1>1, <1>2, <1>3, <1>4 DEF PollExit, WorkerFoundDead, WorkerFoundReady, DeadlineMissed
<1>11. CASE PollChance(s)
  BY <1>11, <1>1, <1>2, <1>3, <1>4 DEF PollChance
<1>12. CASE RetryPort(s)
  BY <1>12, <1>1, <1>2, <1>3, <1>4 DEF RetryPort, Goto, Args, Frame, StartMethod
<1>13. CASE Reap(s)
  BY <1>13, <1>1, <1>2, <1>3 DEF Reap, Goto
<1>14. CASE ReleaseFlock(s)
  BY <1>14, <1>1, <1>2, <1>3 DEF ReleaseFlock, Goto
<1>15. CASE ReleaseProcessSlot(s)
  <2>1. child[s] = Nobody
    BY <1>15, <1>t DEF ReleaseProcessSlot, StepFacts
  <2> QED
    BY <1>15, <2>1, <1>1, <1>2, <1>3, <1>4 DEF ReleaseProcessSlot
<1> QED
  BY <1>5, <1>6, <1>7, <1>8, <1>9, <1>10, <1>11, <1>12, <1>13, <1>14, <1>15 DEF SupStep

(* A refresh that found its worker dead, and a stop, go through the teardown. *)
LEMMA TeardownGoesOn ==
  ASSUME IInv, NEW s \in Sups, job[s].op \in {"refresh", "stop"}, Method1(s),
         SupStep(s) \/ PollChance(s), EngineSame(s)
  PROVE  RunningRefresh(s)' /\ RunningStop(s)'
<1>t. TypeOK /\ StepFacts /\ RunningRefresh(s) /\ RunningStop(s)
  BY DEF IInv, Method1
<1>1. /\ child \in [Sups -> Workers \cup {Nobody}] /\ state \in [Sups -> WorkerState]
      /\ processSlot \in [Sups -> Models \cup {Nobody}]
      /\ pc \in [Sups -> Step] /\ call \in [Sups -> CallRecord]
  BY <1>t DEF TypeOK
<1>2. /\ estate'[s] = estate[s] /\ emodel'[s] = emodel[s] /\ job'[s] = job[s]
  BY DEF EngineSame
<1>3. pc[s] \in {"reap", "unflock", "unlease", "idle"}
  BY <1>t DEF RunningRefresh, RunningStop
<1> USE DEF fields, locks, os
<1>4. Reap(s) \/ ReleaseFlock(s) \/ ReleaseProcessSlot(s)
  BY <1>3 DEF SupStep, Preflight, AcquireProcessSlot, OpenLockFile, TryFlock, Spawn, PollExit,
     PollChance, RetryPort, Reap, ReleaseFlock, ReleaseProcessSlot
<1>5. CASE Reap(s) \/ ReleaseFlock(s)
  <2>1. pc'[s] \in {"unflock", "unlease"} /\ call' = call
    BY <1>5, <1>1 DEF Reap, ReleaseFlock, Goto
  <2>2. pc[s] # "idle"
    BY <1>5 DEF Reap, ReleaseFlock
  <2> QED
    BY <2>1, <2>2, <1>t, <1>2 DEF RunningRefresh, RunningStop
<1>6. CASE ReleaseProcessSlot(s)
  <2>1. call[s].method \notin StartMethod /\ child[s] = Nobody /\ pc[s] = "unlease"
    BY <1>6, <1>t DEF ReleaseProcessSlot, RunningRefresh, RunningStop, StartMethod, StepFacts
  <2>2. /\ pc'[s] = "idle" /\ child'[s] = Nobody /\ processSlot'[s] = Nobody
        /\ call[s].verdict # "none" => state'[s] = "Failed"
    BY <1>6, <2>1, <1>1 DEF ReleaseProcessSlot, Return, Goto, DropLease
  <2>3. RunningRefresh(s)'
    BY <2>1, <2>2, <1>t, <1>2 DEF RunningRefresh, FailureCode
  <2>4. RunningStop(s)'
    BY <2>1, <2>2, <1>t, <1>2 DEF RunningStop, EmptyHanded
  <2> QED
    BY <2>3, <2>4
<1> QED
  BY <1>4, <1>5, <1>6

(* A step of the supervisor under an engine. *)
LEMMA OwnStep ==
  ASSUME IInv, NEW s \in Sups, Method1(s), SupStep(s) \/ PollChance(s), EngineSame(s)
  PROVE  Method1(s)'
<1>1. pc[s] # "idle"
  BY DEF SupStep, Preflight, AcquireProcessSlot, OpenLockFile, TryFlock, Spawn, PollExit,
     PollChance, RetryPort, Reap, ReleaseFlock, ReleaseProcessSlot
<1>2. job[s].op \notin {"none", "select", "ensured", "restart"}
  BY <1>1 DEF Method1, Resting, AboutToRestart
<1>3. job'[s] = job[s] /\ ActiveSpec(s)' = ActiveSpec(s)
  BY DEF EngineSame, ActiveSpec
<1>4. Resting(s)' /\ AboutToRestart(s)' /\ Ensuring(s)'
  BY <1>2, <1>3 DEF Method1, Resting, AboutToRestart, Ensuring
<1>5. RunningStart(s)'
  BY <1>3, StartGoesOn DEF Method1, RunningStart
<1>6. RunningRefresh(s)' /\ RunningStop(s)'
  <2>1. CASE job[s].op \in {"refresh", "stop"}
    BY <2>1, TeardownGoesOn
  <2>2. CASE job[s].op \notin {"refresh", "stop"}
    BY <2>2, <1>3 DEF RunningRefresh, RunningStop
  <2> QED
    BY <2>1, <2>2
<1> QED
  BY <1>4, <1>5, <1>6 DEF Method1

-----------------------------------------------------------------------------
(* An action of engine s calls its supervisor or leaves it, keeps the other  *)
(* engines, and leads into a state of its method.                            *)
Fits(s) ==
  /\ EngineFieldsOK'
  /\ Caller(s) \/ UNCHANGED vars
  /\ \A t \in Sups \ {s} : EngineSame(t)
  /\ Method1(s)'

(* Every job is one of its record. *)
LEMMA JobSet ==
  ASSUME NEW op \in StartOp \cup {"none", "refresh", "stop", "restart", "select", "ensured"},
         NEW model \in Models \cup {Nobody}, NEW port \in Ports \cup {Nobody},
         NEW fresh \in BOOLEAN, NEW next \in {"none", "start_model", "start_model_ready"},
         NEW ensure \in BOOLEAN
  PROVE  [op |-> op, model |-> model, port |-> port, next |-> next, ensure |-> ensure,
          fresh |-> fresh] \in JobRecord
BY DEF JobRecord

(* The starting methods: the supervisor is asked while nothing is served. *)
LEMMA EntersStart ==
  ASSUME EngineInv, NEW s \in Sups, NEW op \in StartOp, NEW model \in Models,
         NEW port \in Ports, NEW ensure \in BOOLEAN,
         EnterStart(s, op, model, port, ensure), UNCHANGED mini, ServesNothing(s),
         ensure => model = ActiveSpec(s) /\ op # "start_model"
  PROVE  Fits(s)
<1>t. TypeOK /\ EngineFieldsOK
  BY DEF EngineInv, IInv
<1>1. /\ estate \in [Sups -> EngineState] /\ emodel \in [Sups -> Models \cup {Nobody}]
      /\ eport \in [Sups -> Ports \cup {Nobody}] /\ job \in [Sups -> JobRecord]
      /\ mini' \in [Sups -> {"Primary", "Fallback"}]
      /\ pc \in [Sups -> Step] /\ call \in [Sups -> CallRecord]
  BY <1>t DEF TypeOK, EngineFieldsOK
<1> DEFINE m == IF op = "start_model" THEN "start" ELSE "start_and_wait_with_retry"
           st == IF op = "recover_with_fallback" THEN "Rollback" ELSE "Loading"
           r == [op |-> op, model |-> model, port |-> port, next |-> "none", ensure |-> ensure,
                 fresh |-> child[s] = Nobody /\ activeModel[s] = Nobody]
<1>2. /\ CallStart(s, m, model, port) /\ job' = [job EXCEPT ![s] = r]
      /\ Serve(s, st, Nobody, Nobody) \/ Serve(s, st, emodel[s], eport[s])
  BY DEF EnterStart
<1>3. r \in JobRecord
  BY JobSet
<1>4. job'[s] = r /\ job' \in [Sups -> JobRecord] /\ \A t \in Sups \ {s} : job'[t] = job[t]
  BY <1>1, <1>2, <1>3
<1>5. st \in EngineState
  BY DEF EngineState
<1>6. /\ estate' \in [Sups -> EngineState] /\ emodel' \in [Sups -> Models \cup {Nobody}]
      /\ eport' \in [Sups -> Ports \cup {Nobody}]
      /\ estate'[s] = st /\ ServesNothing(s)'
      /\ \A t \in Sups \ {s} :
           estate'[t] = estate[t] /\ emodel'[t] = emodel[t] /\ eport'[t] = eport[t]
  <2>1. emodel[s] = Nobody /\ eport[s] = Nobody
    BY DEF ServesNothing
  <2>2. Serve(s, st, Nobody, Nobody)
    BY <1>2, <2>1
  <2> QED
    BY <2>2, <1>1, <1>5 DEF Serve, ServesNothing
<1>7. EngineFieldsOK'
  BY <1>1, <1>4, <1>6 DEF EngineFieldsOK
<1>8. m \in StartMethod
  BY DEF StartMethod
<1>9. Caller(s)
  BY <1>2, <1>8 DEF Caller
<1>10. \A t \in Sups \ {s} : EngineSame(t)
  BY <1>4, <1>6 DEF EngineSame
<1>11. /\ pc'[s] \in {"acquire", "preflight"} /\ call'[s] = Frame(m, model, port)
       /\ child' = child /\ activeModel' = activeModel
  BY <1>1, <1>2 DEF CallStart, Invoke, Goto, fields
<1>12. RunningStart(s)'
  <2>1. call'[s].method = m /\ call'[s].model = model /\ call'[s].port = port
    BY <1>11 DEF Frame
  <2>2. ~(r.fresh /\ child[s] # Nobody)
    OBVIOUS
  <2> QED
    BY <1>4, <1>6, <1>8, <1>11, <2>1, <2>2 DEF RunningStart
<1>13. Resting(s)' /\ RunningRefresh(s)' /\ RunningStop(s)' /\ AboutToRestart(s)'
  BY <1>4 DEF Resting, RunningRefresh, RunningStop, AboutToRestart, StartOp
<1>14. Ensuring(s)'
  <2>1. ActiveSpec(s)' = ActiveSpec(s)
    BY DEF ActiveSpec
  <2> QED
    BY <1>4, <2>1 DEF Ensuring, StartOp
<1> QED
  BY <1>7, <1>9, <1>10, <1>12, <1>13, <1>14 DEF Fits, Method1

(* stop_model, and the first half of switch_model and ensure_ready. *)
LEMMA EntersStop ==
  ASSUME EngineInv, NEW s \in Sups, NEW next \in {"none", "start_model", "start_model_ready"},
         NEW model \in Models \cup {Nobody}, NEW port \in Ports \cup {Nobody},
         NEW ensure \in BOOLEAN,
         EnterStop(s, next, model, port, ensure), UNCHANGED mini,
         next # "none" => model \in Models /\ port \in Ports,
         ensure => model = ActiveSpec(s) /\ next = "start_model_ready"
  PROVE  Fits(s)
<1>t. TypeOK /\ EngineFieldsOK
  BY DEF EngineInv, IInv
<1>1. /\ estate \in [Sups -> EngineState] /\ emodel \in [Sups -> Models \cup {Nobody}]
      /\ eport \in [Sups -> Ports \cup {Nobody}] /\ job \in [Sups -> JobRecord]
      /\ mini' \in [Sups -> {"Primary", "Fallback"}]
      /\ pc \in [Sups -> Step] /\ call \in [Sups -> CallRecord]
  BY <1>t DEF TypeOK, EngineFieldsOK
<1> DEFINE r == [op |-> "stop", model |-> model, port |-> port, next |-> next,
                 ensure |-> ensure, fresh |-> FALSE]
<1>2. CallStop(s) /\ job' = [job EXCEPT ![s] = r] /\ Serve(s, "Stopping", emodel[s], eport[s])
  BY DEF EnterStop
<1>3. r \in JobRecord
  BY JobSet
<1>4. job'[s] = r /\ job' \in [Sups -> JobRecord] /\ \A t \in Sups \ {s} : job'[t] = job[t]
  BY <1>1, <1>2, <1>3
<1>5. "Stopping" \in EngineState
  BY DEF EngineState
<1>6. /\ estate' \in [Sups -> EngineState] /\ emodel' \in [Sups -> Models \cup {Nobody}]
      /\ eport' \in [Sups -> Ports \cup {Nobody}]
      /\ estate'[s] = "Stopping"
      /\ \A t \in Sups \ {s} :
           estate'[t] = estate[t] /\ emodel'[t] = emodel[t] /\ eport'[t] = eport[t]
  BY <1>1, <1>2, <1>5 DEF Serve
<1>7. EngineFieldsOK'
  BY <1>1, <1>4, <1>6 DEF EngineFieldsOK
<1>8. \A t \in Sups \ {s} : EngineSame(t)
  BY <1>4, <1>6 DEF EngineSame
<1>9. pc'[s] = "reap" /\ call'[s].method = "stop"
  BY <1>1, <1>2 DEF CallStop, Invoke, Goto, Frame
<1>10. RunningStop(s)'
  BY <1>4, <1>6, <1>9 DEF RunningStop
<1>11. Resting(s)' /\ RunningRefresh(s)' /\ RunningStart(s)' /\ AboutToRestart(s)'
  BY <1>4 DEF Resting, RunningRefresh, RunningStart, AboutToRestart, StartOp
<1>12. Ensuring(s)'
  <2>1. ActiveSpec(s)' = ActiveSpec(s)
    BY DEF ActiveSpec
  <2> QED
    BY <1>4, <2>1 DEF Ensuring, StartOp
<1> QED
  BY <1>2, <1>7, <1>8, <1>10, <1>11, <1>12 DEF Fits, Method1, Caller

(* Where a method ends, or ensure_ready comes to its next decision. *)
LEMMA Settles ==
  ASSUME EngineInv, NEW s \in Sups, UNCHANGED vars, EngineFieldsOK',
         \A t \in Sups \ {s} : EngineSame(t), pc[s] = "idle", Coherent(s)', Ensuring(s)',
         job'[s].op \in {"none", "select", "ensured"}
  PROVE  Fits(s)
<1>1. pc'[s] = "idle"
  BY DEF vars
<1>2. /\ Resting(s)' /\ RunningStart(s)' /\ RunningRefresh(s)' /\ RunningStop(s)'
      /\ AboutToRestart(s)'
  BY <1>1 DEF Resting, RunningStart, RunningRefresh, RunningStop, AboutToRestart, StartOp
<1> QED
  BY <1>2 DEF Fits, Method1

(* What Coherent says afterwards, by what is served afterwards. *)
LEMMA CoherentThen ==
  ASSUME NEW s \in Sups, UNCHANGED vars
  PROVE  /\ estate'[s] \in {"Degraded", "Failed"} /\ ServesNothing(s)' => Coherent(s)'
         /\ (/\ estate'[s] \in {"Loading", "Ready", "Busy"}
             /\ child[s] # Nobody /\ state[s] # "Stopped"
             /\ emodel'[s] = activeModel[s] /\ eport'[s] = portOf[child[s]]) => Coherent(s)'
         /\ estate'[s] = "Idle" /\ ServesNothing(s)' /\ EmptyHanded(s) => Coherent(s)'
<1>1. /\ child' = child /\ state' = state /\ activeModel' = activeModel
      /\ portOf' = portOf /\ processSlot' = processSlot
  BY DEF vars, fields, locks, os
<1>2. estate'[s] \in {"Degraded", "Failed"} /\ ServesNothing(s)' => Coherent(s)'
  BY DEF Coherent
<1>3. ASSUME estate'[s] \in {"Loading", "Ready", "Busy"}, child[s] # Nobody,
             state[s] # "Stopped", emodel'[s] = activeModel[s], eport'[s] = portOf[child[s]]
      PROVE  Coherent(s)'
  <2>1. Serving(s)'
    BY <1>1, <1>3 DEF Serving
  <2> QED
    BY <1>3, <2>1 DEF Coherent
<1>4. estate'[s] = "Idle" /\ ServesNothing(s)' /\ EmptyHanded(s) => Coherent(s)'
  <2>1. EmptyHanded(s) => EmptyHanded(s)'
    BY <1>1 DEF EmptyHanded
  <2> QED
    BY <2>1 DEF Coherent
<1> QED
  BY <1>2, <1>3, <1>4

(* The jobs that end a method, and what ensure_ready does with an error. *)
LEMMA JobsEndWell ==
  ASSUME EngineFieldsOK, NEW s \in Sups
  PROVE  /\ Done(s) => /\ job' \in [Sups -> JobRecord] /\ job'[s].op = "none" /\ Ensuring(s)'
                       /\ \A t \in Sups \ {s} : job'[t] = job[t]
         /\ Ensured(s) => /\ job' \in [Sups -> JobRecord] /\ job'[s].op = "ensured"
                          /\ job'[s].ensure
                          /\ \A t \in Sups \ {s} : job'[t] = job[t]
         /\ FailOver(s) /\ job[s].port \in Ports =>
              /\ job' \in [Sups -> JobRecord] /\ mini' \in [Sups -> {"Primary", "Fallback"}]
              /\ job'[s].op \in {"none", "select"} /\ Ensuring(s)'
              /\ \A t \in Sups \ {s} : job'[t] = job[t] /\ mini'[t] = mini[t]
<1>1. job \in [Sups -> JobRecord] /\ mini \in [Sups -> {"Primary", "Fallback"}]
  BY DEF EngineFieldsOK
<1>2. ASSUME Done(s)
      PROVE  /\ job' \in [Sups -> JobRecord] /\ job'[s].op = "none" /\ Ensuring(s)'
             /\ \A t \in Sups \ {s} : job'[t] = job[t]
  <2>1. job' \in [Sups -> JobRecord] /\ job'[s].op = "none" /\ ~job'[s].ensure
        /\ \A t \in Sups \ {s} : job'[t] = job[t]
    BY <1>1, <1>2, JobsTyped DEF Done
  <2> QED
    BY <2>1 DEF Ensuring
<1>3. ASSUME Ensured(s)
      PROVE  /\ job' \in [Sups -> JobRecord] /\ job'[s].op = "ensured" /\ job'[s].ensure
             /\ \A t \in Sups \ {s} : job'[t] = job[t]
  BY <1>1, <1>3, JobsTyped DEF Ensured
<1>4. ASSUME FailOver(s), job[s].port \in Ports
      PROVE  /\ job' \in [Sups -> JobRecord] /\ mini' \in [Sups -> {"Primary", "Fallback"}]
             /\ job'[s].op \in {"none", "select"} /\ Ensuring(s)'
             /\ \A t \in Sups \ {s} : job'[t] = job[t] /\ mini'[t] = mini[t]
  <2>1. CASE mini[s] = "Primary"
    <3> DEFINE r == [NoJob EXCEPT !.op = "select", !.port = job[s].port, !.ensure = TRUE]
    <3>1. r \in JobRecord /\ r.op = "select" /\ r.ensure /\ r.port = job[s].port
      BY <1>4, JobsTyped
    <3>2. job' = [job EXCEPT ![s] = r] /\ mini' = [mini EXCEPT ![s] = "Fallback"]
      BY <1>4, <2>1 DEF FailOver
    <3> HIDE DEF r
    <3>3. /\ job' \in [Sups -> JobRecord] /\ job'[s] = r
          /\ mini' \in [Sups -> {"Primary", "Fallback"}]
          /\ \A t \in Sups \ {s} : job'[t] = job[t] /\ mini'[t] = mini[t]
      BY <1>1, <3>1, <3>2
    <3>4. Ensuring(s)'
      BY <1>4, <3>1, <3>3 DEF Ensuring, StartOp
    <3> QED
      BY <3>1, <3>3, <3>4
  <2>2. CASE mini[s] # "Primary"
    BY <2>2, <1>1, <1>2, <1>4 DEF FailOver
  <2> QED
    BY <2>1, <2>2
<1> QED
  BY <1>2, <1>3, <1>4

(* The result of a start: a model that is served by the worker that came up  *)
(* for it, or a failure that serves nothing.                                 *)
LEMMA StartReturnFits ==
  ASSUME EngineInv, NEW s \in Sups, StartReturns(s)
  PROVE  Fits(s)
<1>t. EngineFieldsOK /\ Method1(s) /\ RunningStart(s) /\ Ensuring(s)
  BY DEF EngineInv, Method1
<1>1. /\ estate \in [Sups -> EngineState] /\ emodel \in [Sups -> Models \cup {Nobody}]
      /\ eport \in [Sups -> Ports \cup {Nobody}] /\ mini \in [Sups -> {"Primary", "Fallback"}]
  BY <1>t DEF EngineFieldsOK
<1>2. job[s].op \in StartOp /\ pc[s] = "idle" /\ UNCHANGED vars
  BY DEF StartReturns, Returned
<1>3. job[s].model \in Models /\ job[s].port \in Ports /\ ServesNothing(s)
  BY <1>2, <1>t DEF RunningStart
<1>4. CASE StartedOk(s)
  <2> DEFINE st == IF job[s].op = "start_model" THEN "Loading" ELSE "Ready"
  <2>1. /\ Serve(s, st, job[s].model, job[s].port) /\ UNCHANGED mini
        /\ job[s].ensure => Ensured(s)
        /\ ~job[s].ensure => Done(s)
    BY <1>4 DEF StartReturns
  <2>2. /\ estate' \in [Sups -> EngineState] /\ emodel' \in [Sups -> Models \cup {Nobody}]
        /\ eport' \in [Sups -> Ports \cup {Nobody}]
        /\ estate'[s] = st /\ emodel'[s] = job[s].model /\ eport'[s] = job[s].port
        /\ \A t \in Sups \ {s} :
             estate'[t] = estate[t] /\ emodel'[t] = emodel[t] /\ eport'[t] = eport[t]
    BY <2>1, <1>1, <1>3 DEF Serve, EngineState
  <2>3. /\ child[s] # Nobody /\ state[s] # "Stopped"
        /\ activeModel[s] = job[s].model /\ portOf[child[s]] = job[s].port
    BY <1>2, <1>4, <1>t DEF StartedOk, RunningStart
  <2>4. Coherent(s)'
    BY <2>2, <2>3, <1>2, CoherentThen
  <2>5. /\ job' \in [Sups -> JobRecord] /\ job'[s].op \in {"none", "ensured"} /\ Ensuring(s)'
        /\ \A t \in Sups \ {s} : job'[t] = job[t]
    <3>1. CASE job[s].ensure
      <4>1. /\ job' \in [Sups -> JobRecord] /\ job'[s].op = "ensured" /\ job'[s].ensure
            /\ \A t \in Sups \ {s} : job'[t] = job[t]
        BY <3>1, <2>1, <1>t, JobsEndWell
      <4>2. st = "Ready" /\ job[s].model = ActiveSpec(s) /\ ActiveSpec(s)' = ActiveSpec(s)
        BY <3>1, <1>2, <1>t, <2>1 DEF Ensuring, ActiveSpec
      <4>3. Ensuring(s)'
        BY <4>1, <4>2, <2>2 DEF Ensuring, StartOp
      <4> QED
        BY <4>1, <4>3
    <3>2. CASE ~job[s].ensure
      BY <3>2, <2>1, <1>t, JobsEndWell
    <3> QED
      BY <3>1, <3>2
  <2>6. EngineFieldsOK' /\ \A t \in Sups \ {s} : EngineSame(t)
    BY <1>1, <2>1, <2>2, <2>5 DEF EngineFieldsOK, EngineSame
  <2> QED
    BY <1>2, <2>4, <2>5, <2>6, Settles
<1>5. CASE ~StartedOk(s)
  <2>1. /\ Serve(s, "Failed", Nobody, Nobody) \/ Serve(s, "Failed", emodel[s], eport[s])
        /\ job[s].ensure => FailOver(s)
        /\ ~job[s].ensure => Done(s) /\ UNCHANGED mini
    BY <1>5 DEF StartReturns
  <2>2. Serve(s, "Failed", Nobody, Nobody)
    BY <2>1, <1>3 DEF ServesNothing
  <2>3. /\ estate' \in [Sups -> EngineState] /\ emodel' \in [Sups -> Models \cup {Nobody}]
        /\ eport' \in [Sups -> Ports \cup {Nobody}]
        /\ estate'[s] = "Failed" /\ ServesNothing(s)'
        /\ \A t \in Sups \ {s} :
             estate'[t] = estate[t] /\ emodel'[t] = emodel[t] /\ eport'[t] = eport[t]
    BY <2>2, <1>1 DEF Serve, EngineState, ServesNothing
  <2>4. Coherent(s)'
    BY <2>3, <1>2, CoherentThen
  <2>5. /\ job' \in [Sups -> JobRecord] /\ mini' \in [Sups -> {"Primary", "Fallback"}]
        /\ job'[s].op \in {"none", "select"} /\ Ensuring(s)'
        /\ \A t \in Sups \ {s} : job'[t] = job[t] /\ mini'[t] = mini[t]
    BY <2>1, <1>1, <1>3, <1>t, JobsEndWell
  <2>6. EngineFieldsOK' /\ \A t \in Sups \ {s} : EngineSame(t)
    BY <2>3, <2>5 DEF EngineFieldsOK, EngineSame
  <2> QED
    BY <1>2, <2>4, <2>5, <2>6, Settles
<1> QED
  BY <1>4, <1>5

(* What Serve sets, with its types, and that it leaves the other engines. *)
LEMMA ServeTyped ==
  ASSUME EngineFieldsOK, NEW s \in Sups, NEW st \in EngineState,
         NEW model \in Models \cup {Nobody}, NEW port \in Ports \cup {Nobody},
         Serve(s, st, model, port)
  PROVE  /\ estate' \in [Sups -> EngineState] /\ emodel' \in [Sups -> Models \cup {Nobody}]
         /\ eport' \in [Sups -> Ports \cup {Nobody}]
         /\ estate'[s] = st /\ emodel'[s] = model /\ eport'[s] = port
         /\ \A t \in Sups \ {s} :
              estate'[t] = estate[t] /\ emodel'[t] = emodel[t] /\ eport'[t] = eport[t]
BY DEF EngineFieldsOK, Serve

(* A refresh is asked of a worker that is there. *)
LEMMA RefreshFits ==
  ASSUME EngineInv, NEW s \in Sups, Refresh(s)
  PROVE  Fits(s)
<1>t. TypeOK /\ ChildHasModel /\ EngineFieldsOK /\ Method1(s)
  BY DEF EngineInv, IInv
<1>1. /\ pc \in [Sups -> Step] /\ call \in [Sups -> CallRecord]
      /\ state \in [Sups -> WorkerState]
      /\ child \in [Sups -> Workers \cup {Nobody}]
      /\ eport \in [Sups -> Ports \cup {Nobody}] /\ job \in [Sups -> JobRecord]
  BY <1>t DEF TypeOK, EngineFieldsOK
<1>2. /\ pc[s] = "idle" /\ job[s].op = "none" /\ Coherent(s) /\ eport[s] # Nobody
      /\ CallRefresh(s, eport[s]) /\ UNCHANGED <<estate, emodel, eport, mini>>
  BY <1>t DEF Refresh, AtRest, Method1, Resting
<1>3. estate[s] \in {"Loading", "Ready", "Busy"} /\ Serving(s)
  BY <1>2 DEF Coherent, ServesNothing
<1>4. emodel[s] # Nobody
  BY <1>3, <1>t DEF Serving, ChildHasModel
<1> DEFINE r == [NoJob EXCEPT !.op = "refresh"]
<1>5. r \in JobRecord /\ r.op = "refresh" /\ ~r.ensure
  BY JobsTyped
<1>6. job' = [job EXCEPT ![s] = r]
  BY DEF Refresh
<1> HIDE DEF r
<1>7. job'[s] = r /\ job' \in [Sups -> JobRecord] /\ \A t \in Sups \ {s} : job'[t] = job[t]
  BY <1>1, <1>5, <1>6
<1>8. EngineFieldsOK' /\ \A t \in Sups \ {s} : EngineSame(t)
  BY <1>2, <1>7, <1>t DEF EngineFieldsOK, EngineSame
<1>9. Caller(s)
  BY <1>1, <1>2 DEF Caller
<1>10. child' = child /\ activeModel' = activeModel /\ portOf' = portOf /\ wstat' = wstat
  BY <1>2 DEF CallRefresh, fields, locks, os
<1>11. RunningRefresh(s)'
  <2>1. CASE /\ Exited(child[s]) /\ pc' = [pc EXCEPT ![s] = "reap"]
             /\ call' = [call EXCEPT ![s] =
                  [Frame("refresh", Nobody, Nobody) EXCEPT !.verdict = wstat[child[s]]]]
    <3>1. pc'[s] = "reap" /\ call'[s].method = "refresh" /\ call'[s].verdict = wstat[child[s]]
      BY <1>1, <2>1 DEF Frame
    <3> QED
      BY <3>1, <2>1, <1>2, <1>3, <1>4, <1>5, <1>7, <1>10 DEF RunningRefresh, Serving, Exited
  <2>2. CASE pc'[s] = "idle" /\ (state'[s] = "Failed" \/ state'[s] \in {state[s], "Ready"})
    <3>1. state'[s] = "Failed" \/ Serving(s)'
      BY <2>2, <1>2, <1>3, <1>10 DEF Serving
    <3> QED
      BY <2>2, <3>1, <1>2, <1>3, <1>4 DEF RunningRefresh
  <2> QED
    BY <2>1, <2>2, <1>1, <1>2, <1>3 DEF CallRefresh, Return, Goto, Serving
<1>12. /\ Resting(s)' /\ RunningStart(s)' /\ RunningStop(s)' /\ AboutToRestart(s)'
       /\ Ensuring(s)'
  BY <1>5, <1>7 DEF Resting, RunningStart, RunningStop, AboutToRestart, Ensuring, StartOp
<1> QED
  BY <1>8, <1>9, <1>11, <1>12 DEF Fits, Method1

(* Its result: the worker is still served, or nothing is. *)
LEMMA RefreshReturnFits ==
  ASSUME EngineInv, NEW s \in Sups, RefreshReturns(s)
  PROVE  Fits(s)
<1>t. TypeOK /\ EngineFieldsOK /\ Method1(s)
  BY DEF EngineInv, IInv
<1>1. emodel[s] \in Models \cup {Nobody} /\ eport[s] \in Ports \cup {Nobody}
  BY <1>t DEF EngineFieldsOK
<1>2. pc[s] = "idle" /\ job[s].op = "refresh" /\ UNCHANGED vars /\ UNCHANGED mini /\ Done(s)
  BY DEF RefreshReturns, Returned
<1>3. estate[s] \in {"Loading", "Ready", "Busy"} /\ (state[s] = "Failed" \/ Serving(s))
  BY <1>2, <1>t DEF Method1, RunningRefresh
<1>4. /\ job' \in [Sups -> JobRecord] /\ job'[s].op = "none" /\ Ensuring(s)'
      /\ \A t \in Sups \ {s} : job'[t] = job[t]
  BY <1>2, <1>t, JobsEndWell
<1>5. /\ estate' \in [Sups -> EngineState] /\ emodel' \in [Sups -> Models \cup {Nobody}]
      /\ eport' \in [Sups -> Ports \cup {Nobody}]
      /\ \A t \in Sups \ {s} :
           estate'[t] = estate[t] /\ emodel'[t] = emodel[t] /\ eport'[t] = eport[t]
      /\ Coherent(s)'
  <2>1. CASE state[s] = "Ready" /\ Serve(s, "Ready", emodel[s], eport[s])
    <3>1. "Ready" \in EngineState
      BY DEF EngineState
    <3>2. child[s] # Nobody /\ emodel[s] = activeModel[s] /\ eport[s] = portOf[child[s]]
      BY <2>1, <1>3 DEF Serving
    <3> QED
      BY <2>1, <3>1, <3>2, <1>1, <1>2, <1>t, ServeTyped, CoherentThen
  <2>2. CASE state[s] = "Failed" /\ Serve(s, "Degraded", Nobody, Nobody)
    <3>1. "Degraded" \in EngineState
      BY DEF EngineState
    <3>2. ServesNothing(s)'
      BY <2>2, <3>1, <1>t, ServeTyped DEF ServesNothing
    <3> QED
      BY <2>2, <3>1, <3>2, <1>2, <1>t, ServeTyped, CoherentThen
  <2>3. CASE state[s] = "Starting" /\ UNCHANGED <<estate, emodel, eport>>
    <3>1. child[s] # Nobody /\ emodel[s] = activeModel[s] /\ eport[s] = portOf[child[s]]
      BY <2>3, <1>3 DEF Serving
    <3> QED
      BY <2>3, <3>1, <1>2, <1>3, <1>t, CoherentThen DEF EngineFieldsOK
  <2>4. state[s] # "Stopped"
    BY <1>3 DEF Serving
  <2> QED
    BY <2>1, <2>2, <2>3, <2>4 DEF RefreshReturns
<1>6. EngineFieldsOK' /\ \A t \in Sups \ {s} : EngineSame(t)
  BY <1>2, <1>4, <1>5, <1>t DEF EngineFieldsOK, EngineSame
<1> QED
  BY <1>2, <1>4, <1>5, <1>6, Settles

(* A request begins and ends on an engine that serves. *)
LEMMA RequestFits ==
  ASSUME EngineInv, NEW s \in Sups, BeginRequest(s) \/ FinishRequest(s)
  PROVE  Fits(s)
<1>t. EngineFieldsOK /\ Method1(s)
  BY DEF EngineInv
<1>1. /\ pc[s] = "idle" /\ job[s].op = "none" /\ Coherent(s)
      /\ estate[s] \in {"Ready", "Busy"} /\ UNCHANGED <<vars, emodel, eport, mini, job>>
      /\ \E st \in {"Ready", "Busy"} : estate' = [estate EXCEPT ![s] = st]
  BY <1>t DEF BeginRequest, FinishRequest, AtRest, Method1, Resting
<1>2. /\ estate' \in [Sups -> EngineState] /\ estate'[s] \in {"Ready", "Busy"}
      /\ \A t \in Sups \ {s} : estate'[t] = estate[t]
  BY <1>1, <1>t DEF EngineFieldsOK, EngineState
<1>3. child[s] # Nobody /\ state[s] # "Stopped" /\ emodel[s] = activeModel[s]
      /\ eport[s] = portOf[child[s]]
  BY <1>1 DEF Coherent, Serving
<1>4. Coherent(s)'
  BY <1>1, <1>2, <1>3, CoherentThen
<1>5. Ensuring(s)'
  BY <1>1, <1>t DEF Method1, Ensuring, StartOp
<1>6. EngineFieldsOK' /\ \A t \in Sups \ {s} : EngineSame(t)
  BY <1>1, <1>2, <1>t DEF EngineFieldsOK, EngineSame
<1> QED
  BY <1>1, <1>4, <1>5, <1>6, Settles

(* After a stop nothing is left, and a switch goes on from there. *)
LEMMA StopReturnFits ==
  ASSUME EngineInv, NEW s \in Sups, StopReturns(s)
  PROVE  Fits(s)
<1>t. EngineFieldsOK /\ Method1(s)
  BY DEF EngineInv
<1>1. /\ pc[s] = "idle" /\ job[s].op = "stop" /\ UNCHANGED vars /\ UNCHANGED mini
      /\ Serve(s, "Idle", Nobody, Nobody)
  BY DEF StopReturns, Returned
<1>2. EmptyHanded(s) /\ RunningStop(s) /\ Ensuring(s)
  BY <1>1, <1>t DEF Method1, RunningStop
<1>3. /\ estate' \in [Sups -> EngineState] /\ emodel' \in [Sups -> Models \cup {Nobody}]
      /\ eport' \in [Sups -> Ports \cup {Nobody}]
      /\ estate'[s] = "Idle" /\ ServesNothing(s)'
      /\ \A t \in Sups \ {s} :
           estate'[t] = estate[t] /\ emodel'[t] = emodel[t] /\ eport'[t] = eport[t]
  <2>1. "Idle" \in EngineState
    BY DEF EngineState
  <2> QED
    BY <2>1, <1>1, <1>t, ServeTyped DEF ServesNothing
<1>4. CASE job[s].next = "none"
  <2>1. Done(s)
    BY <1>4 DEF StopReturns
  <2>2. /\ job' \in [Sups -> JobRecord] /\ job'[s].op = "none" /\ Ensuring(s)'
        /\ \A t \in Sups \ {s} : job'[t] = job[t]
    BY <2>1, <1>t, JobsEndWell
  <2>3. Coherent(s)'
    BY <1>1, <1>2, <1>3, CoherentThen
  <2>4. EngineFieldsOK' /\ \A t \in Sups \ {s} : EngineSame(t)
    BY <1>1, <1>3, <2>2, <1>t DEF EngineFieldsOK, EngineSame
  <2> QED
    BY <1>1, <2>2, <2>3, <2>4, Settles
<1>5. CASE job[s].next # "none"
  <2> DEFINE r == [job[s] EXCEPT !.op = "restart"]
  <2>1. job' = [job EXCEPT ![s] = r]
    BY <1>5 DEF StopReturns
  <2>2. /\ r \in JobRecord /\ r.op = "restart" /\ r.model = job[s].model
        /\ r.port = job[s].port /\ r.next = job[s].next /\ r.ensure = job[s].ensure
    BY <1>t, JobsTyped DEF EngineFieldsOK
  <2> HIDE DEF r
  <2>3. job'[s] = r /\ job' \in [Sups -> JobRecord] /\ \A t \in Sups \ {s} : job'[t] = job[t]
    BY <2>1, <2>2, <1>t DEF EngineFieldsOK
  <2>4. EngineFieldsOK' /\ \A t \in Sups \ {s} : EngineSame(t)
    BY <1>1, <1>3, <2>3, <1>t DEF EngineFieldsOK, EngineSame
  <2>5. AboutToRestart(s)'
    <3>1. pc'[s] = "idle" /\ EmptyHanded(s)'
      BY <1>1, <1>2 DEF EmptyHanded, vars, fields, locks
    <3> QED
      BY <3>1, <1>1, <1>2, <1>3, <1>5, <2>2, <2>3 DEF AboutToRestart, RunningStop
  <2>6. Ensuring(s)'
    <3>1. ActiveSpec(s)' = ActiveSpec(s)
      BY <1>1 DEF ActiveSpec
    <3> QED
      BY <3>1, <1>1, <1>2, <2>2, <2>3 DEF Ensuring, StartOp
  <2>7. Resting(s)' /\ RunningStart(s)' /\ RunningRefresh(s)' /\ RunningStop(s)'
    BY <2>2, <2>3 DEF Resting, RunningStart, RunningRefresh, RunningStop, StartOp
  <2> QED
    BY <1>1, <2>4, <2>5, <2>6, <2>7 DEF Fits, Method1
<1> QED
  BY <1>4, <1>5

(* The methods that start, stop or switch, from outside and from inside.     *)
LEMMA EntryFits ==
  ASSUME EngineInv, NEW s \in Sups,
         \/ \E op \in StartOp, model \in Models, port \in Ports :
              StartModel(s, op, model, port)
         \/ \E model \in Models, port \in Ports : SwitchModel(s, model, port)
         \/ StopModel(s)
         \/ Restart(s)
  PROVE  Fits(s)
<1>t. Method1(s) /\ EngineFieldsOK
  BY DEF EngineInv
<1>1. ASSUME NEW op \in StartOp, NEW model \in Models, NEW port \in Ports,
             StartModel(s, op, model, port)
      PROVE  Fits(s)
  <2>1. ServesNothing(s)
    BY <1>1, <1>t DEF StartModel, AtRest, Method1, Resting, Coherent
  <2>2. EnterStart(s, op, model, port, FALSE) /\ UNCHANGED mini
    BY <1>1 DEF StartModel
  <2> QED
    BY <2>1, <2>2, EntersStart
<1>2. ASSUME NEW model \in Models, NEW port \in Ports, SwitchModel(s, model, port)
      PROVE  Fits(s)
  <2>1. CASE emodel[s] # Nobody \/ estate[s] # "Idle"
    <3>1. EnterStop(s, "start_model", model, port, FALSE) /\ UNCHANGED mini
      BY <1>2, <2>1 DEF SwitchModel
    <3> QED
      BY <3>1, EntersStop
  <2>2. CASE emodel[s] = Nobody /\ estate[s] = "Idle"
    <3>1. ServesNothing(s)
      BY <1>2, <2>2, <1>t DEF SwitchModel, AtRest, Method1, Resting, Coherent
    <3>2. EnterStart(s, "start_model", model, port, FALSE) /\ UNCHANGED mini
      BY <1>2, <2>2 DEF SwitchModel
    <3> QED
      BY <3>1, <3>2, EntersStart DEF StartOp
  <2> QED
    BY <2>1, <2>2
<1>3. CASE StopModel(s)
  <2>1. EnterStop(s, "none", Nobody, Nobody, FALSE) /\ UNCHANGED mini
    BY <1>3 DEF StopModel
  <2> QED
    BY <2>1, EntersStop
<1>4. CASE Restart(s)
  <2>1. /\ job[s].op = "restart" /\ UNCHANGED mini
        /\ EnterStart(s, job[s].next, job[s].model, job[s].port, job[s].ensure)
    BY <1>4 DEF Restart, Returned
  <2>2. job[s] \in JobRecord
    BY <1>t DEF EngineFieldsOK
  <2>3. /\ ServesNothing(s) /\ job[s].next # "none"
        /\ job[s].model \in Models /\ job[s].port \in Ports
        /\ job[s].ensure => job[s].model = ActiveSpec(s) /\ job[s].next = "start_model_ready"
    BY <2>1, <1>t DEF Method1, AboutToRestart, Ensuring
  <2>4. job[s].next \in StartOp /\ job[s].ensure \in BOOLEAN
    BY <2>2, <2>3 DEF JobRecord, StartOp
  <2> QED
    BY <2>1, <2>3, <2>4, EntersStart
<1> QED
  BY <1>1, <1>2, <1>3, <1>4

(* ensure_ready: its decisions and its answer. *)
LEMMA EnsureFits ==
  ASSUME EngineInv, NEW s \in Sups,
         \/ \E vramPressure \in BOOLEAN, port \in Ports : EnsureReady(s, vramPressure, port)
         \/ Select(s)
         \/ EnsureReadyReturns(s)
         \/ AdviceFails(s)
  PROVE  Fits(s)
<1>t. TypeOK /\ Method1(s) /\ EngineFieldsOK
  BY DEF EngineInv, IInv
<1>1. mini \in [Sups -> {"Primary", "Fallback"}] /\ job \in [Sups -> JobRecord]
  BY <1>t DEF EngineFieldsOK
<1>2. ActiveSpec(s) \in Models
  BY ManifestAssumption DEF ActiveSpec
<1>3. ASSUME NEW vramPressure \in BOOLEAN, NEW port \in Ports,
             EnsureReady(s, vramPressure, port)
      PROVE  Fits(s)
  <2> DEFINE r == [NoJob EXCEPT !.op = "select", !.port = port, !.ensure = TRUE]
  <2>1. r \in JobRecord /\ r.op = "select" /\ r.ensure /\ r.port = port
    BY JobsTyped
  <2>2. /\ job' = [job EXCEPT ![s] = r]
        /\ mini' = [mini EXCEPT ![s] = IF vramPressure THEN "Fallback" ELSE mini[s]]
        /\ UNCHANGED <<vars, estate, emodel, eport>>
    BY <1>3 DEF EnsureReady
  <2> HIDE DEF r
  <2>3. /\ job' \in [Sups -> JobRecord] /\ job'[s] = r
        /\ mini' \in [Sups -> {"Primary", "Fallback"}]
        /\ \A t \in Sups \ {s} : job'[t] = job[t] /\ mini'[t] = mini[t]
    BY <1>1, <2>1, <2>2
  <2>4. pc[s] = "idle" /\ Coherent(s)
    BY <1>3, <1>t DEF EnsureReady, AtRest, Method1, Resting
  <2>5. Coherent(s)'
    BY <2>2, <2>4 DEF Coherent, Serving, ServesNothing, EmptyHanded, vars, fields, locks, os
  <2>6. Ensuring(s)'
    BY <2>1, <2>3 DEF Ensuring, StartOp
  <2>7. EngineFieldsOK' /\ \A t \in Sups \ {s} : EngineSame(t)
    BY <2>2, <2>3, <1>t DEF EngineFieldsOK, EngineSame
  <2> QED
    BY <2>1, <2>2, <2>3, <2>4, <2>5, <2>6, <2>7, Settles
<1>4. CASE Select(s)
  <2>1. /\ job[s].op = "select" /\ pc[s] = "idle" /\ Coherent(s) /\ job[s].port \in Ports
    BY <1>4, <1>t DEF Select, Method1, Resting, Ensuring
  <2>2. CASE Ensured(s) /\ UNCHANGED <<vars, estate, emodel, eport, mini>>
             /\ emodel[s] = ActiveSpec(s) /\ estate[s] = "Ready"
    <3>1. /\ job' \in [Sups -> JobRecord] /\ job'[s].op = "ensured" /\ job'[s].ensure
          /\ \A t \in Sups \ {s} : job'[t] = job[t]
      BY <2>2, <1>t, JobsEndWell
    <3>2. Ensuring(s)'
      <4>1. ActiveSpec(s)' = ActiveSpec(s)
        BY <2>2 DEF ActiveSpec
      <4> QED
        BY <3>1, <4>1, <2>2 DEF Ensuring, StartOp
    <3>3. Coherent(s)'
      BY <2>1, <2>2 DEF Coherent, Serving, ServesNothing, EmptyHanded, vars, fields, locks, os
    <3>4. EngineFieldsOK' /\ \A t \in Sups \ {s} : EngineSame(t)
      BY <2>2, <3>1, <1>t DEF EngineFieldsOK, EngineSame
    <3> QED
      BY <2>1, <2>2, <3>1, <3>2, <3>3, <3>4, Settles
  <2>3. CASE EnterStop(s, "start_model_ready", ActiveSpec(s), job[s].port, TRUE)
             /\ UNCHANGED mini
    BY <2>1, <2>3, <1>2, EntersStop
  <2>4. CASE /\ estate[s] = "Idle"
             /\ EnterStart(s, "start_model_ready", ActiveSpec(s), job[s].port, TRUE)
             /\ UNCHANGED mini
    <3>1. ServesNothing(s)
      BY <2>1, <2>4 DEF Coherent
    <3> QED
      BY <2>1, <2>4, <3>1, <1>2, EntersStart DEF StartOp
  <2>5. CASE /\ estate[s] \in {"Degraded", "Failed"}
             /\ EnterStart(s, "recover_with_fallback", ActiveSpec(s), job[s].port, TRUE)
             /\ UNCHANGED mini
    <3>1. ServesNothing(s)
      BY <2>1, <2>5 DEF Coherent
    <3> QED
      BY <2>1, <2>5, <3>1, <1>2, EntersStart DEF StartOp
  <2>6. CASE SelectionFails(s)
    <3>1. FailOver(s) /\ UNCHANGED <<vars, estate, emodel, eport>>
      BY <2>6 DEF SelectionFails
    <3>2. /\ job' \in [Sups -> JobRecord] /\ mini' \in [Sups -> {"Primary", "Fallback"}]
          /\ job'[s].op \in {"none", "select"} /\ Ensuring(s)'
          /\ \A t \in Sups \ {s} : job'[t] = job[t] /\ mini'[t] = mini[t]
      BY <3>1, <2>1, <1>t, JobsEndWell
    <3>3. Coherent(s)'
      BY <2>1, <3>1 DEF Coherent, Serving, ServesNothing, EmptyHanded, vars, fields, locks, os
    <3>4. EngineFieldsOK' /\ \A t \in Sups \ {s} : EngineSame(t)
      BY <3>1, <3>2, <1>t DEF EngineFieldsOK, EngineSame
    <3> QED
      BY <2>1, <3>1, <3>2, <3>3, <3>4, Settles
  <2> QED
    BY <1>4, <2>2, <2>3, <2>4, <2>5, <2>6 DEF Select, StartSelected
<1>5. CASE EnsureReadyReturns(s)
  <2>1. /\ Done(s) /\ UNCHANGED <<vars, estate, emodel, eport, mini>>
        /\ pc[s] = "idle" /\ Coherent(s)
    BY <1>5, <1>t DEF EnsureReadyReturns, Method1, Resting
  <2>2. /\ job' \in [Sups -> JobRecord] /\ job'[s].op = "none" /\ Ensuring(s)'
        /\ \A t \in Sups \ {s} : job'[t] = job[t]
    BY <2>1, <1>t, JobsEndWell
  <2>3. Coherent(s)'
    BY <2>1 DEF Coherent, Serving, ServesNothing, EmptyHanded, vars, fields, locks, os
  <2>4. EngineFieldsOK' /\ \A t \in Sups \ {s} : EngineSame(t)
    BY <2>1, <2>2, <1>t DEF EngineFieldsOK, EngineSame
  <2> QED
    BY <2>1, <2>2, <2>3, <2>4, Settles
<1>6. CASE AdviceFails(s)
  <2>1. /\ UNCHANGED <<vars, estate, emodel, eport, job>> /\ ~job[s].ensure
        /\ mini' = [mini EXCEPT ![s] = "Fallback"]
    BY <1>6 DEF AdviceFails
  <2>2. /\ mini' \in [Sups -> {"Primary", "Fallback"}]
        /\ \A t \in Sups \ {s} : mini'[t] = mini[t]
    BY <2>1, <1>1
  <2>3. EngineFieldsOK' /\ \A t \in Sups \ {s} : EngineSame(t)
    BY <2>1, <2>2, <1>t DEF EngineFieldsOK, EngineSame
  <2>4. Ensuring(s)'
    BY <2>1, <1>t DEF Method1, Ensuring
  <2>5. /\ Resting(s)' /\ RunningStart(s)' /\ RunningRefresh(s)' /\ RunningStop(s)'
        /\ AboutToRestart(s)'
    BY <2>1, <1>t DEF Method1, Resting, RunningStart, RunningRefresh, RunningStop,
       AboutToRestart, Coherent, Serving, ServesNothing, EmptyHanded, Exited, vars, fields,
       locks, os
  <2> QED
    BY <2>1, <2>3, <2>4, <2>5 DEF Fits, Method1
<1> QED
  BY <1>3, <1>4, <1>5, <1>6

-----------------------------------------------------------------------------
(* The engines of a killed process are new, the others do not notice.        *)
LEMMA CrashFits ==
  ASSUME EngineInv, NEW p \in Procs, EngineCrash(p)
  PROVE  EngineFieldsOK' /\ \A s \in Sups : Method1(s)'
<1>t. IInv /\ EngineFieldsOK /\ TypeOK /\ ChildHoldsFlock /\ \A s \in Sups : Method1(s)
  BY DEF EngineInv, IInv
<1>1. /\ \A s \in Sups : ProcOf[s] = p =>
           /\ estate'[s] = "Idle" /\ ServesNothing(s)' /\ EmptyHanded(s)'
           /\ mini'[s] = "Primary" /\ job'[s] = NoJob /\ pc'[s] = "idle"
      /\ \A s \in Sups : ProcOf[s] # p => EngineSame(s)
  BY DEF EngineCrash, Crash, ServesNothing, EmptyHanded, EngineSame
<1>2. EngineFieldsOK'
  <2>1. "Idle" \in EngineState
    BY DEF EngineState
  <2>2. /\ \A s \in Sups : /\ estate[s] \in EngineState /\ emodel[s] \in Models \cup {Nobody}
                           /\ eport[s] \in Ports \cup {Nobody}
                           /\ mini[s] \in {"Primary", "Fallback"} /\ job[s] \in JobRecord
    BY <1>t DEF EngineFieldsOK
  <2> QED
    BY <2>1, <2>2, JobsTyped DEF EngineCrash, EngineFieldsOK
<1>3. ASSUME NEW s \in Sups, ProcOf[s] = p PROVE Method1(s)'
  <2>1. job'[s].op = "none" /\ ~job'[s].ensure
    BY <1>1, <1>3, JobsTyped
  <2>2. Coherent(s)'
    BY <1>1, <1>3 DEF Coherent
  <2> QED
    BY <1>1, <1>3, <2>1, <2>2 DEF Method1, Resting, RunningStart, RunningRefresh, RunningStop,
       AboutToRestart, Ensuring, StartOp
<1>4. ASSUME NEW s \in Sups, ProcOf[s] # p PROVE Method1(s)'
  <2>1. /\ child[s] \in Workers \cup {Nobody}
        /\ \A t \in Sups : ProcOf[t] = p /\ child[t] # Nobody => child[t] # child[s]
    BY <1>4, <1>t DEF TypeOK, ChildHoldsFlock
  <2>2. Crash(p)
    BY DEF EngineCrash
  <2>3. child[s] # Nobody /\ Exited(child[s]) => Exited(child[s])'
    BY <2>1, <2>2 DEF Crash, Exited
  <2>4. /\ child'[s] = child[s] /\ state'[s] = state[s] /\ activeModel'[s] = activeModel[s]
        /\ processSlot'[s] = processSlot[s] /\ pc'[s] = pc[s] /\ call'[s] = call[s]
        /\ portOf' = portOf
    BY <1>4, <2>2 DEF Crash
  <2>5. Same(s)
    BY <2>3, <2>4 DEF Same
  <2> QED
    BY <1>1, <1>4, <1>t, <2>5, Stays
<1> QED
  BY <1>2, <1>3, <1>4

(* EngineInv is inductive. *)
LEMMA NextPreservesEngineInv == EngineInv /\ [EngineNext]_allvars => EngineInv'
<1> SUFFICES ASSUME EngineInv, [EngineNext]_allvars PROVE EngineInv'
  OBVIOUS
<1>t. IInv /\ EngineFieldsOK /\ \A s \in Sups : Method1(s)
  BY DEF EngineInv
<1>1. ASSUME NEW s \in Sups, Fits(s) PROVE EngineInv'
  <2>1. [Next]_vars
    BY <1>1 DEF Fits, Next
  <2>2. IInv'
    BY <2>1, <1>t, NextPreservesIInv
  <2>3. ASSUME NEW t \in Sups \ {s} PROVE Method1(t)'
    <3>1. Same(t)
      <4>1. CASE Caller(s)
        BY <4>1, <1>t, <2>3, OthersStay
      <4>2. CASE UNCHANGED vars
        BY <4>2 DEF Same, vars, fields, locks, os, Exited
      <4> QED
        BY <1>1, <4>1, <4>2 DEF Fits
    <3> QED
      BY <3>1, <1>1, <1>t, <2>3, Stays DEF Fits
  <2> QED
    BY <1>1, <2>2, <2>3 DEF EngineInv, Fits
<1>2. ASSUME UNCHANGED engine, [Next]_vars, \A s \in Sups : EngineSame(s) => Method1(s)'
      PROVE  EngineInv'
  <2>1. IInv'
    BY <1>2, <1>t, NextPreservesIInv
  <2>2. EngineFieldsOK' /\ \A s \in Sups : EngineSame(s)
    BY <1>2, <1>t DEF engine, EngineFieldsOK, EngineSame
  <2> QED
    BY <1>2, <2>1, <2>2 DEF EngineInv
<1>3. ASSUME NEW t \in Sups, SupStep(t) \/ PollChance(t), UNCHANGED engine PROVE EngineInv'
  <2>1. [Next]_vars
    BY <1>3 DEF Next, Environment, World
  <2>2. ASSUME NEW s \in Sups, EngineSame(s) PROVE Method1(s)'
    <3>1. CASE s = t
      BY <1>3, <2>2, <3>1, <1>t, OwnStep
    <3>2. CASE s # t
      <4>1. Same(s)
        BY <1>3, <3>2, <1>t, OthersStay
      <4> QED
        BY <4>1, <2>2, <1>t, Stays
    <3> QED
      BY <3>1, <3>2
  <2> QED
    BY <1>2, <1>3, <2>1, <2>2
<1>4. ASSUME World, UNCHANGED engine, \A t \in Sups : ~PollChance(t) PROVE EngineInv'
  <2>1. [Next]_vars
    BY <1>4 DEF Next, Environment
  <2>2. ASSUME NEW s \in Sups, EngineSame(s) PROVE Method1(s)'
    <3>1. CASE \E t \in Sups \ {s} : Deadline(t)
      <4>1. Same(s)
        BY <3>1, <1>t, OthersStay
      <4> QED
        BY <4>1, <2>2, <1>t, Stays
    <3>2. CASE ~ \E t \in Sups \ {s} : Deadline(t)
      <4>1. \/ \E w \in Workers : WorkerBind(w) \/ WorkerLoaded(w)
            \/ \E w \in Workers, code \in FailureCode : WorkerExit(w, code)
            \/ \E p \in Ports : ForeignBind(p) \/ ForeignClose(p)
            \/ Deadline(s)
        BY <1>4, <3>2 DEF World
      <4>2. Same(s)
        BY <4>1, <1>t, WorldLeaves
      <4> QED
        BY <4>2, <2>2, <1>t, Stays
    <3> QED
      BY <3>1, <3>2
  <2> QED
    BY <1>2, <1>4, <2>1, <2>2
<1>5. ASSUME NEW p \in Procs, EngineCrash(p) PROVE EngineInv'
  <2>1. [Next]_vars
    BY <1>5 DEF EngineCrash, Next, Environment
  <2>2. IInv'
    BY <2>1, <1>t, NextPreservesIInv
  <2> QED
    BY <1>5, <2>2, CrashFits DEF EngineInv
<1>6. ASSUME NEW s \in Sups, EngineStep(s) \/ Owner(s) PROVE EngineInv'
  <2>1. CASE SupStep(s) /\ UNCHANGED engine
    BY <2>1, <1>3
  <2>2. CASE ~(SupStep(s) /\ UNCHANGED engine)
    <3>1. Fits(s)
      BY <1>6, <2>2, StartReturnFits, RefreshFits, RefreshReturnFits, RequestFits,
         StopReturnFits, EntryFits, EnsureFits DEF EngineStep, Owner
    <3> QED
      BY <3>1, <1>1
  <2> QED
    BY <2>1, <2>2
<1>7. CASE UNCHANGED allvars
  <2>1. UNCHANGED vars /\ UNCHANGED engine
    BY <1>7 DEF allvars
  <2>2. ASSUME NEW s \in Sups, EngineSame(s) PROVE Method1(s)'
    <3>1. Same(s)
      BY <2>1 DEF Same, vars, fields, locks, os, Exited
    <3> QED
      BY <3>1, <2>2, <1>t, Stays
  <2> QED
    BY <1>2, <2>1, <2>2
<1> QED
  BY <1>3, <1>4, <1>5, <1>6, <1>7 DEF EngineNext

(* Initially an engine is idle. *)
LEMMA InitEstablishesEngineInv == EngineInit => EngineInv
<1> SUFFICES ASSUME EngineInit PROVE EngineInv
  OBVIOUS
<1>1. IInv
  BY InitEstablishesIInv DEF EngineInit
<1>2. EngineFieldsOK
  BY JobsTyped DEF EngineInit, EngineFieldsOK, EngineState
<1>3. ASSUME NEW s \in Sups PROVE Method1(s)
  <2>1. /\ estate[s] = "Idle" /\ ServesNothing(s) /\ EmptyHanded(s) /\ pc[s] = "idle"
        /\ job[s].op = "none" /\ ~job[s].ensure
    BY JobsTyped DEF EngineInit, Init, ServesNothing, EmptyHanded
  <2> QED
    BY <2>1 DEF Method1, Resting, Coherent, RunningStart, RunningRefresh, RunningStop,
       AboutToRestart, Ensuring, StartOp
<1> QED
  BY <1>1, <1>2, <1>3 DEF EngineInv

(* EngineInv holds in every reachable state. *)
LEMMA EngineInvHolds == EngineSpec => []EngineInv
BY InitEstablishesEngineInv, NextPreservesEngineInv, PTL DEF EngineSpec

-----------------------------------------------------------------------------
(* Every variable of an engine keeps its type. *)
THEOREM EngineTypeCorrect == EngineSpec => []EngineTypeOK
<1>1. EngineInv => EngineTypeOK
  BY DEF EngineInv, IInv, EngineFieldsOK, EngineTypeOK
<1> QED
  BY <1>1, EngineInvHolds, PTL

(* Between two calls an engine that serves owns the worker and the endpoint  *)
(* it names, and an idle one holds neither worker, lease nor flock, after    *)
(* every start, refresh, stop, switch, failover and crash.                   *)
THEOREM EngineAgrees == EngineSpec => []EngineCoherent
<1>1. EngineInv => EngineCoherent
  <2> SUFFICES ASSUME EngineInv, NEW s \in Sups, AtRest(s)
               PROVE  /\ Coherent(s)
                      /\ estate[s] = "Idle" => flock # s
    BY DEF EngineCoherent, Coherent, Serving, ServesNothing, EmptyHanded
  <2>1. Coherent(s) /\ pc[s] = "idle"
    BY DEF EngineInv, Method1, Resting, AtRest
  <2>2. FlockIsUsed
    BY DEF EngineInv, IInv
  <2> QED
    BY <2>1, <2>2 DEF Coherent, EmptyHanded, FlockIsUsed
<1> QED
  BY <1>1, EngineInvHolds, PTL

(* ensure_ready answers Ok only with the selected model, on a worker of the  *)
(* engine.                                                                   *)
THEOREM OkMeansSelected == EngineSpec => []EnsureReadyDelivers
<1>1. EngineInv => EnsureReadyDelivers
  BY DEF EngineInv, EnsureReadyDelivers, Method1, Resting, Ensuring, Coherent, Serving
<1> QED
  BY <1>1, EngineInvHolds, PTL

(* What a step is for engine s: one of its own, one of its supervisor, a     *)
(* crash, or one it does not notice.                                         *)
LEMMA StepFor ==
  ASSUME EngineInv, [EngineNext]_allvars, NEW s \in Sups
  PROVE  \/ EngineSame(s) /\ child'[s] = child[s]
         \/ /\ ~(SupStep(s) /\ UNCHANGED engine) /\ child' = child
            /\ EngineStep(s) \/ Owner(s)
         \/ EngineSame(s) /\ SupStep(s)
         \/ crashes' # crashes
<1>t. IInv /\ TypeOK /\ EngineFieldsOK
  BY DEF EngineInv, IInv
<1>1. ASSUME NEW t \in Sups, EngineStep(t) \/ Owner(t), ~(SupStep(t) /\ UNCHANGED engine)
      PROVE  child' = child /\ (t # s => EngineSame(s))
  <2>1. Fits(t)
    BY <1>1, StartReturnFits, RefreshFits, RefreshReturnFits, RequestFits, StopReturnFits,
       EntryFits, EnsureFits DEF EngineStep, Owner
  <2>2. child' = child
    BY <2>1 DEF Fits, Caller, CallStart, CallRefresh, CallStop, vars, fields
  <2> QED
    BY <2>1, <2>2 DEF Fits
<1>2. ASSUME NEW t \in Sups, SupStep(t), UNCHANGED engine
      PROVE  EngineSame(s) /\ (t # s => child'[s] = child[s])
  <2>1. EngineSame(s)
    BY <1>2 DEF engine, EngineSame
  <2>2. t # s => Same(s)
    BY <1>2, <1>t, OthersStay
  <2> QED
    BY <2>1, <2>2 DEF Same
<1>3. ASSUME World, UNCHANGED engine PROVE EngineSame(s) /\ child'[s] = child[s]
  BY <1>3 DEF World, PollChance, Deadline, WorkerBind, WorkerLoaded, WorkerExit,
     ForeignBind, ForeignClose, fields, engine, EngineSame
<1>4. ASSUME NEW p \in Procs, EngineCrash(p) PROVE crashes' # crashes
  BY <1>4, <1>t, SlotAssumption DEF EngineCrash, Crash, TypeOK
<1>5. CASE UNCHANGED allvars
  BY <1>5 DEF allvars, engine, vars, fields, EngineSame
<1> QED
  BY <1>1, <1>2, <1>3, <1>4, <1>5 DEF EngineNext

(* A Busy engine is not stopped, switched, started or failed over, and its   *)
(* worker is reaped only after it has died.                                  *)
THEOREM BusyIsLeftAlone == EngineSpec => BusyKeepsWorker
<1> DEFINE Kept == \A s \in Sups : estate[s] = "Busy" /\ crashes' = crashes =>
             /\ estate'[s] \in {"Busy", "Ready", "Degraded"}
             /\ child'[s] # child[s] => Exited(child[s])
<1>1. EngineInv /\ [EngineNext]_allvars => Kept
  <2> SUFFICES ASSUME EngineInv, [EngineNext]_allvars, NEW s \in Sups,
                      estate[s] = "Busy", crashes' = crashes
               PROVE  /\ estate'[s] \in {"Busy", "Ready", "Degraded"}
                      /\ child'[s] # child[s] => Exited(child[s])
    OBVIOUS
  <2>t. EngineFieldsOK /\ Method1(s)
    BY DEF EngineInv
  <2>1. job[s].op \notin StartOp \cup {"stop", "restart"}
    BY <2>t DEF Method1, RunningStart, RunningStop, AboutToRestart
  <2>2. CASE EngineSame(s) /\ child'[s] = child[s]
    BY <2>2 DEF EngineSame
  <2>3. CASE EngineSame(s) /\ SupStep(s)
    <3>1. pc[s] # "idle"
      BY <2>3 DEF SupStep, Preflight, AcquireProcessSlot, OpenLockFile, TryFlock, Spawn,
         PollExit, RetryPort, Reap, ReleaseFlock, ReleaseProcessSlot
    <3>2. job[s].op \in StartOp \cup {"none", "refresh", "stop", "restart", "select", "ensured"}
      BY <2>t DEF EngineFieldsOK, JobRecord
    <3>3. job[s].op = "refresh"
      BY <3>1, <3>2, <2>1, <2>t DEF Method1, Resting
    <3>4. pc[s] \in {"reap", "unflock", "unlease"} /\ (pc[s] = "reap" => Exited(child[s]))
      BY <3>1, <3>3, <2>t DEF Method1, RunningRefresh
    <3>5. pc[s] # "reap" => child' = child
      BY <2>3, <3>4 DEF SupStep, Preflight, AcquireProcessSlot, OpenLockFile, TryFlock, Spawn,
         PollExit, RetryPort, Reap, ReleaseFlock, ReleaseProcessSlot, fields
    <3> QED
      BY <2>3, <3>4, <3>5 DEF EngineSame
  <2>4. CASE /\ ~(SupStep(s) /\ UNCHANGED engine) /\ child' = child
             /\ EngineStep(s) \/ Owner(s)
    <3>1. estate'[s] \in {"Busy", "Ready", "Degraded"}
      <4>1. estate \in [Sups -> EngineState]
        BY <2>t DEF EngineFieldsOK
      <4>2. ~StartReturns(s) /\ ~StopReturns(s) /\ ~Restart(s)
        BY <2>1 DEF StartReturns, StopReturns, Restart, Returned
      <4>3. ASSUME RefreshReturns(s) PROVE estate'[s] \in {"Busy", "Ready", "Degraded"}
        <5>1. state[s] # "Stopped"
          BY <4>3, <2>t DEF RefreshReturns, Returned, Method1, RunningRefresh, Serving
        <5> QED
          BY <4>1, <4>3, <5>1 DEF RefreshReturns, Serve
      <4>4. Select(s) => estate' = estate
        BY DEF Select, StartSelected, SelectionFails
      <4>5. Owner(s) => estate'[s] \in {"Busy", "Ready"}
        BY <4>1 DEF Owner, StartModel, SwitchModel, EnsureReady, Refresh, BeginRequest,
           FinishRequest, StopModel, AdviceFails
      <4>6. EnsureReadyReturns(s) => estate' = estate
        BY DEF EnsureReadyReturns
      <4> QED
        BY <2>4, <4>2, <4>3, <4>4, <4>5, <4>6 DEF EngineStep
    <3> QED
      BY <2>4, <3>1
  <2> QED
    BY <2>2, <2>3, <2>4, StepFor
<1> QED
  BY <1>1, EngineInvHolds, PTL DEF EngineSpec, BusyKeepsWorker

-----------------------------------------------------------------------------
(* Refinement of EngineLifecycle *)

Owning == [s \in Sups |-> child[s] # Nobody]

LifeStep == [Lifecycle!Next]_<<estate, emodel, Owning>>

(* What is served changes, the worker does not. *)
LEMMA ServesThen ==
  ASSUME NEW s \in Sups, NEW st, NEW model, NEW port, Serve(s, st, model, port),
         child' = child
  PROVE  Lifecycle!Becomes(s, st, model)
BY DEF Serve, Lifecycle!Becomes, Owning

(* Entering a start or a stop. *)
LEMMA EntryLives ==
  ASSUME EngineInv, NEW s \in Sups, child' = child
  PROVE  /\ \A op, model, port, ensure :
              EnterStart(s, op, model, port, ensure) /\ Coherent(s)
                /\ estate[s] \in {"Idle", "Degraded", "Failed"}
                /\ (op = "recover_with_fallback" <=> estate[s] # "Idle") => LifeStep
         /\ \A next, model, port, ensure :
              EnterStop(s, next, model, port, ensure) /\ estate[s] # "Busy" => LifeStep
<1>1. ASSUME NEW op, NEW model, NEW port, NEW ensure, EnterStart(s, op, model, port, ensure),
             Coherent(s), estate[s] \in {"Idle", "Degraded", "Failed"},
             op = "recover_with_fallback" <=> estate[s] # "Idle"
      PROVE  LifeStep
  <2>1. CASE estate[s] = "Idle"
    <3>1. emodel[s] = Nobody /\ ~Owning[s]
      BY <1>1, <2>1 DEF Coherent, ServesNothing, EmptyHanded, Owning
    <3>2. Serve(s, "Loading", Nobody, eport[s])
      BY <1>1, <2>1, <3>1 DEF EnterStart
    <3>3. Lifecycle!Load(s)
      BY <2>1, <3>1, <3>2, ServesThen DEF Lifecycle!Load, Owning
    <3> QED
      BY <3>3 DEF LifeStep, Lifecycle!Next
  <2>2. CASE estate[s] \in {"Degraded", "Failed"}
    <3>1. Serve(s, "Rollback", Nobody, Nobody)
      BY <1>1, <2>2 DEF EnterStart
    <3>2. Lifecycle!Recover(s)
      BY <2>2, <3>1, ServesThen DEF Lifecycle!Recover
    <3> QED
      BY <3>2 DEF LifeStep, Lifecycle!Next
  <2> QED
    BY <1>1, <2>1, <2>2
<1>2. ASSUME NEW next, NEW model, NEW port, NEW ensure, EnterStop(s, next, model, port, ensure),
             estate[s] # "Busy"
      PROVE  LifeStep
  <2>1. Lifecycle!Stop(s)
    BY <1>2, ServesThen DEF EnterStop, Lifecycle!Stop
  <2> QED
    BY <2>1 DEF LifeStep, Lifecycle!Next
<1> QED
  BY <1>1, <1>2

(* The owner's calls. *)
LEMMA OwnerLives ==
  ASSUME EngineInv, NEW s \in Sups, Owner(s), child' = child
  PROVE  LifeStep
<1>t. AtRest(s) => Coherent(s)
  BY DEF EngineInv, AtRest, Method1, Resting
<1>f. estate \in [Sups -> EngineState] /\ emodel \in [Sups -> Models \cup {Nobody}]
  BY DEF EngineInv, EngineFieldsOK
<1>o. Owning' = Owning
  BY DEF Owning
<1>1. ASSUME NEW op \in StartOp, NEW model \in Models, NEW port \in Ports,
             StartModel(s, op, model, port)
      PROVE  LifeStep
  <2>1. EnterStart(s, op, model, port, FALSE) /\ AtRest(s)
    BY <1>1 DEF StartModel
  <2>2. /\ estate[s] \in {"Idle", "Degraded", "Failed"}
        /\ op = "recover_with_fallback" <=> estate[s] # "Idle"
    BY <1>1 DEF StartModel
  <2> QED
    BY <2>1, <2>2, <1>t, EntryLives
<1>2. ASSUME NEW model \in Models, NEW port \in Ports, SwitchModel(s, model, port)
      PROVE  LifeStep
  <2>1. /\ AtRest(s) /\ estate[s] # "Busy"
        /\ \/ EnterStop(s, "start_model", model, port, FALSE)
           \/ estate[s] = "Idle" /\ EnterStart(s, "start_model", model, port, FALSE)
    BY <1>2 DEF SwitchModel
  <2> QED
    BY <2>1, <1>t, EntryLives
<1>3. CASE StopModel(s)
  BY <1>3, EntryLives DEF StopModel
<1>4. CASE BeginRequest(s)
  <2>1. Owning[s]
    BY <1>4, <1>t DEF BeginRequest, Coherent, Serving, Owning
  <2>2. Lifecycle!Becomes(s, "Busy", emodel[s])
    BY <1>4, <1>o, <1>f DEF BeginRequest, Lifecycle!Becomes, Owning
  <2>3. Lifecycle!BeginRequest(s)
    BY <1>4, <2>1, <2>2 DEF BeginRequest, Lifecycle!BeginRequest, Owning
  <2> QED
    BY <2>3 DEF LifeStep, Lifecycle!Next
<1>5. CASE FinishRequest(s)
  <2>1. Lifecycle!Becomes(s, "Ready", emodel[s])
    BY <1>5, <1>o, <1>f DEF FinishRequest, Lifecycle!Becomes, Owning
  <2>2. Lifecycle!EndRequest(s)
    BY <1>5, <2>1 DEF FinishRequest, Lifecycle!EndRequest
  <2> QED
    BY <2>2 DEF LifeStep, Lifecycle!Next
<1>6. CASE \/ \E vramPressure \in BOOLEAN, port \in Ports : EnsureReady(s, vramPressure, port)
           \/ Refresh(s) \/ AdviceFails(s)
  BY <1>6, <1>o DEF EnsureReady, Refresh, AdviceFails, LifeStep
<1> QED
  BY <1>1, <1>2, <1>3, <1>4, <1>5, <1>6 DEF Owner

(* What the methods do when their supervisor has returned. *)
LEMMA ReturnLives ==
  ASSUME EngineInv, NEW s \in Sups, child' = child, EngineStep(s),
         ~(SupStep(s) /\ UNCHANGED engine)
  PROVE  LifeStep
<1>t. EngineFieldsOK /\ Method1(s)
  BY DEF EngineInv
<1>f. emodel \in [Sups -> Models \cup {Nobody}]
  BY <1>t DEF EngineFieldsOK
<1>o. Owning' = Owning
  BY DEF Owning
<1>1. CASE StartReturns(s)
  <2>1. /\ job[s].op \in StartOp /\ pc[s] = "idle" /\ emodel[s] = Nobody
        /\ estate[s] = IF job[s].op = "recover_with_fallback" THEN "Rollback" ELSE "Loading"
        /\ job[s].model \in Models
    BY <1>1, <1>t DEF StartReturns, Returned, Method1, RunningStart, ServesNothing
  <2>2. CASE StartedOk(s)
    <3>1. Owning[s]
      BY <2>2 DEF StartedOk, Owning
    <3>2. CASE job[s].op = "start_model"
      <4>1. Lifecycle!Becomes(s, "Loading", job[s].model)
        BY <1>1, <2>2, <3>2, ServesThen DEF StartReturns
      <4>2. Lifecycle!Launched(s, job[s].model)
        BY <2>1, <3>1, <3>2, <4>1 DEF Lifecycle!Launched, Owning
      <4> QED
        BY <2>1, <4>2 DEF LifeStep, Lifecycle!Next
    <3>3. CASE job[s].op # "start_model"
      <4>1. Lifecycle!Becomes(s, "Ready", job[s].model)
        BY <1>1, <2>2, <3>3, ServesThen DEF StartReturns
      <4>2. Lifecycle!Served(s, job[s].model)
        BY <2>1, <3>1, <4>1 DEF Lifecycle!Served, Owning
      <4> QED
        BY <2>1, <4>2 DEF LifeStep, Lifecycle!Next
    <3> QED
      BY <3>2, <3>3
  <2>3. CASE ~StartedOk(s)
    <3>1. \E port : Serve(s, "Failed", Nobody, port)
      BY <1>1, <2>1, <2>3 DEF StartReturns
    <3>2. Lifecycle!NotStarted(s)
      BY <2>1, <3>1, ServesThen DEF Lifecycle!NotStarted
    <3> QED
      BY <3>2 DEF LifeStep, Lifecycle!Next
  <2> QED
    BY <2>2, <2>3
<1>2. CASE RefreshReturns(s)
  <2>1. emodel[s] # Nobody /\ (state[s] = "Failed" \/ Serving(s))
    BY <1>2, <1>t DEF RefreshReturns, Returned, Method1, RunningRefresh
  <2>2. CASE state[s] = "Ready" /\ Serve(s, "Ready", emodel[s], eport[s])
    <3>1. Owning[s]
      BY <2>1, <2>2 DEF Serving, Owning
    <3>2. Lifecycle!Answered(s)
      BY <2>1, <2>2, <3>1, ServesThen DEF Lifecycle!Answered, Owning
    <3> QED
      BY <3>2 DEF LifeStep, Lifecycle!Next
  <2>3. CASE Serve(s, "Degraded", Nobody, Nobody)
    <3>1. Lifecycle!LostWorker(s)
      BY <2>1, <2>3, ServesThen DEF Lifecycle!LostWorker
    <3> QED
      BY <3>1 DEF LifeStep, Lifecycle!Next
  <2>4. CASE UNCHANGED <<estate, emodel, eport>>
    BY <2>4, <1>o DEF LifeStep
  <2>5. state[s] # "Stopped"
    BY <2>1 DEF Serving
  <2> QED
    BY <1>2, <2>2, <2>3, <2>4, <2>5 DEF RefreshReturns
<1>3. CASE StopReturns(s)
  <2>1. estate[s] = "Stopping" /\ ~Owning[s]
    BY <1>3, <1>t DEF StopReturns, Returned, Method1, RunningStop, EmptyHanded, Owning
  <2>2. Lifecycle!Stopped(s)
    BY <1>3, <2>1, ServesThen DEF StopReturns, Lifecycle!Stopped, Owning
  <2> QED
    BY <2>2 DEF LifeStep, Lifecycle!Next
<1>4. CASE Restart(s)
  <2>1. /\ job[s].next # "recover_with_fallback" /\ estate[s] = "Idle" /\ Coherent(s)
        /\ EnterStart(s, job[s].next, job[s].model, job[s].port, job[s].ensure)
    BY <1>4, <1>t DEF Restart, Returned, Method1, AboutToRestart, Coherent, EngineFieldsOK,
       JobRecord
  <2> QED
    BY <2>1, EntryLives
<1>5. CASE Select(s)
  <2>1. Coherent(s)
    BY <1>5, <1>t DEF Select, Method1, Resting
  <2>2. CASE UNCHANGED <<estate, emodel>>
    BY <2>2, <1>o DEF LifeStep
  <2>3. CASE /\ estate[s] = "Ready"
             /\ EnterStop(s, "start_model_ready", ActiveSpec(s), job[s].port, TRUE)
    BY <2>3, EntryLives
  <2>4. CASE /\ estate[s] = "Idle"
             /\ EnterStart(s, "start_model_ready", ActiveSpec(s), job[s].port, TRUE)
    BY <2>1, <2>4, EntryLives
  <2>5. CASE /\ estate[s] \in {"Degraded", "Failed"}
             /\ EnterStart(s, "recover_with_fallback", ActiveSpec(s), job[s].port, TRUE)
    BY <2>1, <2>5, EntryLives
  <2> QED
    BY <1>5, <2>2, <2>3, <2>4, <2>5 DEF Select, StartSelected, SelectionFails
<1>6. CASE EnsureReadyReturns(s)
  BY <1>6, <1>o DEF EnsureReadyReturns, LifeStep
<1> QED
  BY <1>1, <1>2, <1>3, <1>4, <1>5, <1>6 DEF EngineStep

(* The supervisor spawns and reaps under the engine. *)
LEMMA SupervisorLives ==
  ASSUME EngineInv, NEW s \in Sups, SupStep(s), UNCHANGED engine
  PROVE  LifeStep
<1>t. TypeOK /\ EngineFieldsOK /\ Method1(s)
  BY DEF EngineInv, IInv
<1>1. child \in [Sups -> Workers \cup {Nobody}] /\ estate' = estate /\ emodel' = emodel
  BY <1>t DEF TypeOK, engine
<1>2. pc[s] # "idle"
  BY DEF SupStep, Preflight, AcquireProcessSlot, OpenLockFile, TryFlock, Spawn,
     PollExit, RetryPort, Reap, ReleaseFlock, ReleaseProcessSlot
<1>3. job[s].op \in StartOp \cup {"refresh", "stop"}
  BY <1>2, <1>t DEF Method1, Resting, AboutToRestart, EngineFieldsOK, JobRecord
<1>4. CASE UNCHANGED child
  BY <1>1, <1>4 DEF LifeStep, Owning
<1>5. CASE Spawn(s) /\ ~UNCHANGED child
  <2>1. job[s].op \in StartOp
    BY <1>2, <1>3, <1>5, <1>t DEF Spawn, Method1, RunningRefresh, RunningStop
  <2>2. estate[s] \in {"Loading", "Rollback"}
    BY <2>1, <1>t DEF Method1, RunningStart
  <2>3. child[s] = Nobody
    BY <1>5 DEF EngineInv, IInv, StepFacts, Spawn
  <2>4. PICK w \in Workers : child' = [child EXCEPT ![s] = w]
    BY <1>5 DEF Spawn, SpawnOk, SpawnFailed
  <2>5. w # Nobody
    BY SlotAssumption
  <2>6. ~Owning[s] /\ Owning' = [Owning EXCEPT ![s] = TRUE]
    BY <1>1, <2>3, <2>4, <2>5 DEF Owning
  <2>7. Lifecycle!Spawn(s)
    BY <1>1, <2>2, <2>6 DEF Lifecycle!Spawn, Owning
  <2> QED
    BY <2>7 DEF LifeStep, Lifecycle!Next
<1>6. CASE Reap(s) /\ ~UNCHANGED child
  <2>1. child' = [child EXCEPT ![s] = Nobody]
    BY <1>6 DEF Reap
  <2>2. child[s] # Nobody
    BY <1>1, <1>6, <2>1
  <2>3. estate[s] # "Idle"
    BY <1>3, <1>t DEF Method1, RunningStart, RunningRefresh, RunningStop
  <2>4. Owning[s] /\ Owning' = [Owning EXCEPT ![s] = FALSE]
    BY <1>1, <2>1, <2>2 DEF Owning
  <2>5. Lifecycle!Reap(s)
    BY <1>1, <2>3, <2>4 DEF Lifecycle!Reap, Owning
  <2> QED
    BY <2>5 DEF LifeStep, Lifecycle!Next
<1> QED
  BY <1>4, <1>5, <1>6 DEF SupStep, Preflight, AcquireProcessSlot, OpenLockFile, TryFlock,
     PollExit, RetryPort, ReleaseFlock, ReleaseProcessSlot, fields

(* Every engine over every supervisor follows the documented life cycle.     *)
THEOREM FollowsLifecycle == EngineSpec => ImplementsLifecycle
<1>1. EngineInit => Lifecycle!Init
  <2> SUFFICES ASSUME EngineInit PROVE Lifecycle!Init
    OBVIOUS
  <2>1. \A s \in Sups : child[s] = Nobody
    BY DEF EngineInit, Init
  <2>2. [s \in Sups |-> child[s] # Nobody] = [s \in Sups |-> FALSE]
    BY <2>1, Zenon
  <2> QED
    BY <2>2 DEF EngineInit, Lifecycle!Init
<1>2. EngineInv /\ [EngineNext]_allvars => [Lifecycle!Next]_<<estate, emodel, Owning>>
  <2> SUFFICES ASSUME EngineInv, [EngineNext]_allvars PROVE LifeStep
    BY DEF LifeStep
  <2>1. ASSUME NEW s \in Sups, EngineStep(s) \/ Owner(s), ~(SupStep(s) /\ UNCHANGED engine)
        PROVE  LifeStep
    <3>1. Fits(s)
      BY <2>1, StartReturnFits, RefreshFits, RefreshReturnFits, RequestFits, StopReturnFits,
         EntryFits, EnsureFits DEF EngineStep, Owner
    <3>2. child' = child
      BY <3>1 DEF Fits, Caller, CallStart, CallRefresh, CallStop, vars, fields
    <3> QED
      BY <2>1, <3>2, OwnerLives, ReturnLives
  <2>2. ASSUME World, UNCHANGED engine PROVE LifeStep
    <3>1. UNCHANGED <<child, estate, emodel>>
      BY <2>2 DEF World, PollChance, Deadline, WorkerBind, WorkerLoaded, WorkerExit,
         ForeignBind, ForeignClose, fields, engine
    <3> QED
      BY <3>1 DEF LifeStep, Owning
  <2>3. ASSUME NEW p \in Procs, EngineCrash(p) PROVE LifeStep
    <3> DEFINE mine == {s \in Sups : ProcOf[s] = p}
    <3>1. Lifecycle!Crash(mine)
      BY <2>3 DEF EngineCrash, Crash, Lifecycle!Crash, Owning
    <3> QED
      BY <3>1 DEF LifeStep, Lifecycle!Next
  <2>4. CASE UNCHANGED allvars
    BY <2>4 DEF allvars, engine, vars, fields, LifeStep, Owning
  <2> QED
    BY <2>1, <2>2, <2>3, <2>4, SupervisorLives DEF EngineNext
<1> QED
  BY <1>1, <1>2, EngineInvHolds, PTL DEF EngineSpec, ImplementsLifecycle, Lifecycle!Spec, Owning
=============================================================================
