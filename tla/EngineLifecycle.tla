-------------------------- MODULE EngineLifecycle --------------------------
(***************************************************************************)
(* The life of an engine as its owner sees it: the state (EngineState of   *)
(* engine.rs), the model it serves, and whether it owns a worker process.  *)
(* A worker is launched only while the engine loads or rolls back, a model *)
(* is served only by a worker, and the engine is idle again only without   *)
(* one.                                                                    *)
(*                                                                         *)
(* These are the transitions the methods of engine.rs leave to a caller.   *)
(* The diagram of docs/USAGE.md (81-86) has fewer: no rollback that fails  *)
(* or starts from Failed, and no stop but of a Ready engine.  Its Draining *)
(* is over within stop_model (engine.rs 170).                              *)
(***************************************************************************)
CONSTANTS Engines, Models, Nobody

VARIABLES estate,    \* Engine.state
          emodel,    \* Engine.active_model
          worker     \* the engine's supervisor owns a child process

Init ==
  /\ estate = [e \in Engines |-> "Idle"]
  /\ emodel = [e \in Engines |-> Nobody]
  /\ worker = [e \in Engines |-> FALSE]

Becomes(e, st, m) ==
  /\ estate' = [estate EXCEPT ![e] = st]
  /\ emodel' = [emodel EXCEPT ![e] = m]
  /\ UNCHANGED worker

Load(e)         == /\ estate[e] = "Idle" /\ emodel[e] = Nobody /\ ~worker[e]
                   /\ Becomes(e, "Loading", Nobody)
Recover(e)      == /\ estate[e] \in {"Degraded", "Failed"}
                   /\ Becomes(e, "Rollback", Nobody)
Launched(e, m)  == estate[e] = "Loading" /\ worker[e] /\ Becomes(e, "Loading", m)
Served(e, m)    == /\ estate[e] \in {"Loading", "Rollback"} /\ worker[e]
                   /\ Becomes(e, "Ready", m)
NotStarted(e)   == estate[e] \in {"Loading", "Rollback"} /\ Becomes(e, "Failed", Nobody)
Answered(e)     == emodel[e] # Nobody /\ worker[e] /\ Becomes(e, "Ready", emodel[e])
LostWorker(e)   == emodel[e] # Nobody /\ Becomes(e, "Degraded", Nobody)
BeginRequest(e) == estate[e] = "Ready" /\ worker[e] /\ Becomes(e, "Busy", emodel[e])
EndRequest(e)   == estate[e] = "Busy" /\ Becomes(e, "Ready", emodel[e])
Stop(e)         == estate[e] # "Busy" /\ Becomes(e, "Stopping", emodel[e])
Stopped(e)      == estate[e] = "Stopping" /\ ~worker[e] /\ Becomes(e, "Idle", Nobody)

Spawn(e) == /\ estate[e] \in {"Loading", "Rollback"} /\ ~worker[e]
            /\ worker' = [worker EXCEPT ![e] = TRUE]
            /\ UNCHANGED <<estate, emodel>>
Reap(e)  == /\ estate[e] # "Idle" /\ worker[e]
            /\ worker' = [worker EXCEPT ![e] = FALSE]
            /\ UNCHANGED <<estate, emodel>>

(* A process dies with the engines in it. *)
Crash(E) ==
  /\ estate' = [e \in Engines |-> IF e \in E THEN "Idle" ELSE estate[e]]
  /\ emodel' = [e \in Engines |-> IF e \in E THEN Nobody ELSE emodel[e]]
  /\ worker' = [e \in Engines |-> IF e \in E THEN FALSE ELSE worker[e]]

Next ==
  \/ \E e \in Engines :
       \/ Load(e) \/ Recover(e) \/ NotStarted(e) \/ Answered(e) \/ LostWorker(e)
       \/ BeginRequest(e) \/ EndRequest(e) \/ Stop(e) \/ Stopped(e)
       \/ Spawn(e) \/ Reap(e)
       \/ \E m \in Models : Launched(e, m) \/ Served(e, m)
  \/ \E E \in SUBSET Engines : Crash(E)

Spec == Init /\ [][Next]_<<estate, emodel, worker>>
=============================================================================
