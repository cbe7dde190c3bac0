------------------------------- MODULE Engine -------------------------------
(***************************************************************************)
(* The engine (src/triAI-Engine/src/engine.rs) over its worker supervisor, *)
(* and the mini-model failover that drives an engine (supervisor/          *)
(* fallback.rs, the effect of supervisor/primary.rs on it).                *)
(*                                                                         *)
(* Every method takes &mut self, so an engine executes one at a time; job  *)
(* says which one and what it does after the supervisor returned to it.    *)
(* A call that is refused changes nothing and has no action, except inside *)
(* ensure_ready, which reacts to it.  Engine.last_config is written and    *)
(* never read; failover_count is only reported: both are left out.         *)
(***************************************************************************)
EXTENDS WorkerSupervisor

CONSTANTS PrimaryModel, FallbackModel   \* the two models of the manifest

ASSUME ManifestAssumption == {PrimaryModel, FallbackModel} \subseteq Models

VARIABLES
  estate,    \* Engine.state
  emodel,    \* Engine.active_model
  eport,     \* Engine.worker_endpoint
  mini,      \* MiniModelSupervisor.active
  job        \* the engine method in progress

engine  == <<estate, emodel, eport, mini, job>>
allvars == <<vars, engine>>

EngineState == {"Idle", "Loading", "Ready", "Busy", "Degraded", "Rollback",
                "Stopping", "Failed"}

StartOp == {"start_model", "start_model_ready", "recover_with_fallback"}

(* Locals of the method in progress: the configuration it starts, whether    *)
(* the supervisor was empty when it was asked, what follows a stop, and      *)
(* whether ensure_ready waits for the result.                                *)
JobRecord == [op     : StartOp \cup {"none", "refresh", "stop", "restart",
                                     "select", "ensured"},
              model  : Models \cup {Nobody},
              port   : Ports \cup {Nobody},
              fresh  : BOOLEAN,
              next   : {"none", "start_model", "start_model_ready"},
              ensure : BOOLEAN]

NoJob == [op |-> "none", model |-> Nobody, port |-> Nobody, fresh |-> FALSE,
          next |-> "none", ensure |-> FALSE]

ActiveSpec(s) == IF mini[s] = "Primary" THEN PrimaryModel ELSE FallbackModel

EngineTypeOK ==
  /\ TypeOK
  /\ estate \in [Sups -> EngineState]
  /\ emodel \in [Sups -> Models \cup {Nobody}]
  /\ eport \in [Sups -> Ports \cup {Nobody}]
  /\ mini \in [Sups -> {"Primary", "Fallback"}]
  /\ job \in [Sups -> JobRecord]

EngineInit ==
  /\ Init
  /\ estate = [s \in Sups |-> "Idle"]
  /\ emodel = [s \in Sups |-> Nobody]
  /\ eport = [s \in Sups |-> Nobody]
  /\ mini = [s \in Sups |-> "Primary"]
  /\ job = [s \in Sups |-> NoJob]

-----------------------------------------------------------------------------
(* Entering and leaving a method *)

AtRest(s) == job[s].op = "none" /\ pc[s] = "idle"

Serve(s, st, model, port) ==
  /\ estate' = [estate EXCEPT ![s] = st]
  /\ emodel' = [emodel EXCEPT ![s] = model]
  /\ eport' = [eport EXCEPT ![s] = port]

(* The three starting methods once their guard has let them in. *)
EnterStart(s, op, model, port, ensure) ==
  /\ IF op = "recover_with_fallback"
     THEN Serve(s, "Rollback", Nobody, Nobody)
     ELSE Serve(s, "Loading", emodel[s], eport[s])
  /\ CallStart(s, IF op = "start_model" THEN "start" ELSE "start_and_wait_with_retry",
               model, port)
  /\ job' = [job EXCEPT ![s] =
       [op |-> op, model |-> model, port |-> port, next |-> "none", ensure |-> ensure,
        fresh |-> child[s] = Nobody /\ activeModel[s] = Nobody]]

(* Draining is overwritten by Stopping before anything else happens. *)
EnterStop(s, next, model, port, ensure) ==
  /\ Serve(s, "Stopping", emodel[s], eport[s])
  /\ CallStop(s)
  /\ job' = [job EXCEPT ![s] =
       [op |-> "stop", model |-> model, port |-> port, next |-> next, ensure |-> ensure,
        fresh |-> FALSE]]

(* The supervisor has returned to the method op: with Ok exactly if it was   *)
(* empty when asked (else AlreadyExists) and has a child now.                *)
Returned(s, op) == job[s].op = op /\ pc[s] = "idle"
StartedOk(s)    == job[s].fresh /\ child[s] # Nobody

Done(s) == job' = [job EXCEPT ![s] = NoJob]

(* ensure_ready has its Ok, the next step hands it to the caller. *)
Ensured(s) ==
  job' = [job EXCEPT ![s] = [NoJob EXCEPT !.op = "ensured", !.ensure = TRUE]]

(* Seeded fault: the retry selects the primary model again. *)
RetrySame(s) ==
  /\ job' = [job EXCEPT ![s] = [NoJob EXCEPT !.op = "select", !.port = job[s].port,
                                             !.ensure = TRUE]]
  /\ UNCHANGED mini

(* The Err arm of ensure_ready: a failed primary gives way to the fallback,  *)
(* which is tried once; a failed fallback is the caller's error.             *)
FailOver(s) ==
  IF mini[s] = "Primary"
  THEN /\ mini' = [mini EXCEPT ![s] = "Fallback"]
       /\ job' = [job EXCEPT ![s] = [NoJob EXCEPT !.op = "select", !.port = job[s].port,
                                                  !.ensure = TRUE]]
  ELSE Done(s) /\ UNCHANGED mini

-----------------------------------------------------------------------------
(* Engine methods *)

StartModel(s, op, model, port) ==
  /\ AtRest(s)
  /\ IF op = "recover_with_fallback"
     THEN estate[s] \in {"Degraded", "Failed"}
     ELSE emodel[s] = Nobody /\ estate[s] = "Idle"
  /\ EnterStart(s, op, model, port, FALSE)
  /\ UNCHANGED mini

StartReturns(s) ==
  /\ \E op \in StartOp : Returned(s, op)
  /\ IF StartedOk(s)
     THEN /\ Serve(s, IF job[s].op = "start_model" THEN "Loading" ELSE "Ready",
                   job[s].model, job[s].port)
          /\ IF job[s].ensure THEN Ensured(s) ELSE Done(s)
          /\ UNCHANGED mini
     ELSE /\ IF job[s].op = "start_model_ready"
             THEN Serve(s, "Failed", Nobody, Nobody)
             ELSE Serve(s, "Failed", emodel[s], eport[s])
          /\ IF job[s].ensure THEN FailOver(s) ELSE Done(s) /\ UNCHANGED mini
  /\ UNCHANGED vars

Refresh(s) ==
  /\ AtRest(s)
  /\ eport[s] # Nobody
  /\ CallRefresh(s, eport[s])
  /\ job' = [job EXCEPT ![s] = [NoJob EXCEPT !.op = "refresh"]]
  /\ UNCHANGED <<estate, emodel, eport, mini>>

(* Seeded fault: a failed worker leaves its model and endpoint behind. *)
RefreshKeepsEndpoint(s) ==
  /\ Returned(s, "refresh")
  /\ \/ state[s] = "Ready" /\ Serve(s, "Ready", emodel[s], eport[s])
     \/ state[s] = "Failed" /\ Serve(s, "Degraded", emodel[s], eport[s])
     \/ state[s] = "Stopped" /\ Serve(s, "Idle", Nobody, Nobody)
     \/ state[s] = "Starting" /\ UNCHANGED <<estate, emodel, eport>>
  /\ Done(s)
  /\ UNCHANGED <<vars, mini>>

RefreshReturns(s) ==
  /\ Returned(s, "refresh")
  /\ \/ state[s] = "Ready" /\ Serve(s, "Ready", emodel[s], eport[s])
     \/ state[s] = "Failed" /\ Serve(s, "Degraded", Nobody, Nobody)
     \/ state[s] = "Stopped" /\ Serve(s, "Idle", Nobody, Nobody)
     \/ state[s] = "Starting" /\ UNCHANGED <<estate, emodel, eport>>
  /\ Done(s)
  /\ UNCHANGED <<vars, mini>>

BeginRequest(s) ==
  /\ AtRest(s)
  /\ estate[s] = "Ready" /\ emodel[s] # Nobody
  /\ estate' = [estate EXCEPT ![s] = "Busy"]
  /\ UNCHANGED <<vars, emodel, eport, mini, job>>

FinishRequest(s) ==
  /\ AtRest(s)
  /\ estate[s] = "Busy"
  /\ estate' = [estate EXCEPT ![s] = "Ready"]
  /\ UNCHANGED <<vars, emodel, eport, mini, job>>

(* Seeded fault: stop_model does not ask whether a request is active. *)
StopWhileBusy(s) ==
  /\ AtRest(s)
  /\ EnterStop(s, "none", Nobody, Nobody, FALSE)
  /\ UNCHANGED mini

StopModel(s) ==
  /\ AtRest(s)
  /\ estate[s] # "Busy"
  /\ EnterStop(s, "none", Nobody, Nobody, FALSE)
  /\ UNCHANGED mini

StopReturns(s) ==
  /\ Returned(s, "stop")
  /\ Serve(s, "Idle", Nobody, Nobody)
  /\ IF job[s].next = "none" THEN Done(s)
     ELSE job' = [job EXCEPT ![s].op = "restart"]
  /\ UNCHANGED <<vars, mini>>

(* Seeded fault: the new worker is started before the old one is stopped. *)
SwitchWithoutStop(s, model, port) ==
  /\ AtRest(s)
  /\ estate[s] # "Busy"
  /\ EnterStart(s, "start_model", model, port, FALSE)
  /\ UNCHANGED mini

SwitchModel(s, model, port) ==
  /\ AtRest(s)
  /\ estate[s] # "Busy"
  /\ IF emodel[s] # Nobody \/ estate[s] # "Idle"
     THEN EnterStop(s, "start_model", model, port, FALSE)
     ELSE EnterStart(s, "start_model", model, port, FALSE)
  /\ UNCHANGED mini

(* The second half of switch_model and of ensure_ready after their stop. *)
Restart(s) ==
  /\ Returned(s, "restart")
  /\ EnterStart(s, job[s].next, job[s].model, job[s].port, job[s].ensure)
  /\ UNCHANGED mini

-----------------------------------------------------------------------------
(* MiniModelSupervisor *)

EnsureReady(s, vramPressure, port) ==
  /\ AtRest(s)
  /\ mini' = [mini EXCEPT ![s] = IF vramPressure THEN "Fallback" ELSE @]
  /\ job' = [job EXCEPT ![s] = [NoJob EXCEPT !.op = "select", !.port = port,
                                             !.ensure = TRUE]]
  /\ UNCHANGED <<vars, estate, emodel, eport>>

(* Seeded fault: any ready model counts as the selected one. *)
AnyReadyModel(s) ==
  \/ /\ estate[s] = "Ready"
     /\ Ensured(s)
     /\ UNCHANGED <<vars, estate, emodel, eport, mini>>
  \/ /\ estate[s] = "Idle" /\ emodel[s] = Nobody
     /\ EnterStart(s, "start_model_ready", ActiveSpec(s), job[s].port, TRUE)
     /\ UNCHANGED mini
  \/ /\ estate[s] \in {"Degraded", "Failed"}
     /\ EnterStart(s, "recover_with_fallback", ActiveSpec(s), job[s].port, TRUE)
     /\ UNCHANGED mini

(* start_selected with a file that verifies. *)
StartSelected(s) ==
  LET spec == ActiveSpec(s)
      serving == emodel[s] = spec /\ estate[s] = "Ready" IN
  \/ /\ serving
     /\ Ensured(s)
     /\ UNCHANGED <<vars, estate, emodel, eport, mini>>
  \/ /\ ~serving /\ estate[s] = "Ready"
     /\ EnterStop(s, "start_model_ready", spec, job[s].port, TRUE)
     /\ UNCHANGED mini
  \/ /\ estate[s] = "Idle" /\ emodel[s] = Nobody
     /\ EnterStart(s, "start_model_ready", spec, job[s].port, TRUE)
     /\ UNCHANGED mini
  \/ /\ estate[s] \in {"Degraded", "Failed"}
     /\ EnterStart(s, "recover_with_fallback", spec, job[s].port, TRUE)
     /\ UNCHANGED mini

(* The digest or the path is wrong, or the engine is loading or busy. *)
SelectionFails(s) == FailOver(s) /\ UNCHANGED <<vars, estate, emodel, eport>>

Select(s) ==
  /\ job[s].op = "select"
  /\ StartSelected(s) \/ SelectionFails(s)

EnsureReadyReturns(s) ==
  /\ job[s].op = "ensured"
  /\ Done(s)
  /\ UNCHANGED <<vars, estate, emodel, eport, mini>>

(* apply_advice_failure and fail_over, called from outside. *)
AdviceFails(s) ==
  /\ ~job[s].ensure
  /\ mini' = [mini EXCEPT ![s] = "Fallback"]
  /\ UNCHANGED <<vars, estate, emodel, eport, job>>

-----------------------------------------------------------------------------
EngineCrash(p) ==
  LET reset(f, v) == [s \in Sups |-> IF ProcOf[s] = p THEN v ELSE f[s]] IN
  /\ Crash(p)
  /\ estate' = reset(estate, "Idle")
  /\ emodel' = reset(emodel, Nobody)
  /\ eport' = reset(eport, Nobody)
  /\ mini' = reset(mini, "Primary")
  /\ job' = reset(job, NoJob)

EngineStep(s) ==
  \/ StartReturns(s) \/ RefreshReturns(s) \/ StopReturns(s) \/ Restart(s)
  \/ Select(s) \/ EnsureReadyReturns(s)
  \/ SupStep(s) /\ UNCHANGED engine

Owner(s) ==
  \/ \E op \in StartOp, model \in Models, port \in Ports :
       StartModel(s, op, model, port)
  \/ \E model \in Models, port \in Ports : SwitchModel(s, model, port)
  \/ \E vramPressure \in BOOLEAN, port \in Ports : EnsureReady(s, vramPressure, port)
  \/ Refresh(s) \/ BeginRequest(s) \/ FinishRequest(s) \/ StopModel(s)
  \/ AdviceFails(s)

EngineNext ==
  \/ \E s \in Sups : EngineStep(s) \/ Owner(s)
  \/ World /\ UNCHANGED engine
  \/ \E p \in Procs : EngineCrash(p)

EngineSpec == EngineInit /\ [][EngineNext]_allvars

(* As for the supervisor alone: a method that was called goes on. *)
EngineFairness ==
  /\ \A s \in Sups : /\ WF_allvars(EngineStep(s))
                      /\ SF_allvars(PollExit(s) /\ UNCHANGED engine)
                      /\ WF_allvars(Deadline(s) /\ UNCHANGED engine)
  /\ \A w \in Workers :
       /\ WF_allvars(WorkerExit(w, "PortConflict") /\ UNCHANGED engine)
       /\ WF_allvars(WorkerLoaded(w) /\ UNCHANGED engine)

FairEngineSpec == EngineSpec /\ EngineFairness

-----------------------------------------------------------------------------
(* Properties *)

(* Between two calls the engine and its supervisor agree: an engine that     *)
(* serves a model owns the worker that was started for it, on the endpoint   *)
(* it proxies to; an idle engine holds neither worker nor slot; and after a  *)
(* failure no model is served.                                               *)
EngineCoherent ==
  \A s \in Sups : AtRest(s) =>
    /\ estate[s] \in {"Idle", "Loading", "Ready", "Busy", "Degraded", "Failed"}
    /\ estate[s] \in {"Loading", "Ready", "Busy"} =>
         /\ child[s] # Nobody
         /\ emodel[s] = activeModel[s]
         /\ eport[s] = portOf[child[s]]
    /\ estate[s] \in {"Idle", "Degraded", "Failed"} =>
         emodel[s] = Nobody /\ eport[s] = Nobody
    /\ estate[s] = "Idle" =>
         child[s] = Nobody /\ processSlot[s] = Nobody /\ flock # s

(* "Rejects immediately (without touching the worker) if a request is in     *)
(* flight" (engine.rs:227): no stop, switch, start or failover takes a Busy  *)
(* engine out of service, and its worker is reaped only after it has died by *)
(* itself; a crash takes the whole process.                                  *)
BusyKeepsWorker ==
  [][\A s \in Sups : estate[s] = "Busy" /\ crashes' = crashes =>
       /\ estate'[s] \in {"Busy", "Ready", "Degraded"}
       /\ child'[s] # child[s] => Exited(child[s])]_allvars

(* ensure_ready answers Ok only with an engine that serves the selected      *)
(* mini model on a worker it owns.                                           *)
EnsureReadyDelivers ==
  \A s \in Sups : job[s].op = "ensured" =>
    /\ estate[s] = "Ready"
    /\ emodel[s] = ActiveSpec(s) /\ activeModel[s] = ActiveSpec(s)
    /\ child[s] # Nobody

(* Every engine method returns; in particular ensure_ready ends after one    *)
(* fallback attempt, and a switch ends although it stops and starts.         *)
EngineCallsReturn == \A s \in Sups : job[s].op # "none" ~> job[s].op = "none"

(* Every engine follows the documented lifecycle. *)
Lifecycle == INSTANCE EngineLifecycle WITH
               Engines <- Sups, worker <- [s \in Sups |-> child[s] # Nobody]

ImplementsLifecycle == Lifecycle!Spec
=============================================================================
