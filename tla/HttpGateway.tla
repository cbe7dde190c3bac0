----------------------------- MODULE HttpGateway -----------------------------
(***************************************************************************)
(* The HTTP gateway (src/triAI-Engine/src/http.rs): one thread per         *)
(* connection, over an engine behind a mutex.                              *)
(*                                                                         *)
(* The threads share the engine mutex, which a request holds while the     *)
(* worker answers it; the mutex of the latest plan, which a planned start  *)
(* holds until the worker is ready; the registry of cancellation flags;    *)
(* and the counter of connections.  The engine is the abstract one of      *)
(* EngineLifecycle: a thread that holds the mutex takes its steps.         *)
(*                                                                         *)
(* /api/engine/workers and stage_status take the engine mutex to read, the *)
(* catalog, downloads and sessions have their own locks: they are left     *)
(* out.  Embeddings are a chat of one round.                               *)
(***************************************************************************)
EXTENDS Naturals, FiniteSets

CONSTANTS
  Handlers,        \* connection threads; a later connection reuses an identity
  Models,          \* model identifiers
  Generations,     \* what resources::read can find (resource_generation)
  Ids,             \* request ids
  IdsOf,           \* the ids a request of a thread may carry (X-Request-Id)
  MaxConnections,  \* MAX_ACTIVE_CONNECTIONS (64 in the code)
  MaxRounds,       \* MAX_TOOL_ROUNDS
  None             \* no model, plan, thread or id

ASSUME GatewayAssumption ==
  /\ IdsOf \in [Handlers -> SUBSET Ids]
  /\ MaxConnections \in Nat /\ MaxRounds \in Nat
  /\ None \notin Handlers \cup Models \cup Ids

(* plan_id is a hash of the profile and the generation: it stands for what   *)
(* the plan says.  Whether a plan is safe is part of the choice to refuse it.*)
Plans == [model : Models, gen : Generations]

(* "legacy" is the Chat of POST /, "chat" and "stream" are /v1 routes. *)
Op   == {"status", "start", "start_planned", "stop", "legacy", "chat",
         "stream", "cancel", "plan"}
Step == {"idle", "read", "lockplan", "putplan", "cancel", "lock", "refresh",
         "lost", "refreshed", "send", "proxy", "write", "finish", "start",
         "load", "loading", "failed", "stop", "stopping", "unlock", "tools", "close"}

VARIABLES
  estate, emodel, worker,   \* the engine, see EngineLifecycle
  engineLock,    \* the thread inside engine.lock()
  planLock,      \* the thread inside latest_plan.lock()
  plan,          \* ServerState.latest_plan
  gen,           \* the resources of the machine
  registry,      \* ServerState.cancellations: the thread whose flag an id has
  flag,          \* the AtomicBool of a thread's request
  cancelled,     \* ids whose cancellation was answered with 202 (history)
  active,        \* ACTIVE_CONNECTIONS
  pc, req        \* where a thread stands, and its parsed request

engine    == <<estate, emodel, worker>>
locks     == <<engineLock, planLock>>
cancels   == <<registry, flag, cancelled>>
vars      == <<engine, locks, plan, gen, cancels, active, pc, req>>

E == "engine"
L == INSTANCE EngineLifecycle WITH Engines <- {E}, Nobody <- None

Request == [op     : Op \cup {"none"},
            id     : Ids \cup {None},
            model  : Models \cup {None},
            plan   : Plans \cup {None},
            target : Ids \cup {None},
            rounds : 0..MaxRounds,
            again  : BOOLEAN]

Ask(op, id, model, shown, target) ==
  [op |-> op, id |-> id, model |-> model, plan |-> shown, target |-> target,
   rounds |-> 0, again |-> FALSE]

NoRequest == Ask("none", None, None, None, None)

GatewayTypeOK ==
  /\ estate \in [{E} -> {"Idle", "Loading", "Ready", "Busy", "Degraded", "Stopping", "Failed"}]
  /\ emodel \in [{E} -> Models \cup {None}]
  /\ worker \in [{E} -> BOOLEAN]
  /\ engineLock \in Handlers \cup {None} /\ planLock \in Handlers \cup {None}
  /\ plan \in Plans \cup {None}
  /\ gen \in Generations
  /\ registry \in [Ids -> Handlers \cup {None}]
  /\ flag \in [Handlers -> BOOLEAN]
  /\ cancelled \subseteq Ids
  /\ active \in 0..MaxConnections
  /\ pc \in [Handlers -> Step]
  /\ req \in [Handlers -> Request]

Init ==
  /\ L!Init
  /\ engineLock = None /\ planLock = None
  /\ plan = None
  /\ gen \in Generations
  /\ registry = [i \in Ids |-> None]
  /\ flag = [h \in Handlers |-> FALSE]
  /\ cancelled = {}
  /\ active = 0
  /\ pc = [h \in Handlers |-> "idle"]
  /\ req = [h \in Handlers |-> NoRequest]

At(h, step)   == pc[h] = step
Goto(h, step) == pc' = [pc EXCEPT ![h] = step]

(* A request is answered: only its id is of use from here on. *)
Answered(h) ==
  /\ Goto(h, "close")
  /\ req' = [req EXCEPT ![h] = Ask("none", req[h].id, None, None, None)]

-----------------------------------------------------------------------------
(* A connection: accept, read, register, ..., unregister *)

Accept(h) ==
  /\ At(h, "idle")
  /\ active < MaxConnections
  /\ active' = active + 1
  /\ Goto(h, "read")
  /\ UNCHANGED <<engine, locks, plan, gen, cancels, req>>

(* A request that does not parse or is not authorised ends unregistered. *)
ReadFails(h) ==
  /\ At(h, "read")
  /\ active' = active - 1
  /\ Goto(h, "idle")
  /\ UNCHANGED <<engine, locks, plan, gen, cancels, req>>

FirstStep(op) ==
  CASE op = "start_planned" -> "lockplan"
    [] op = "cancel"        -> "cancel"
    [] op = "plan"          -> "putplan"
    [] OTHER                -> "lock"

Register(h, r) ==
  /\ At(h, "read")
  /\ req' = [req EXCEPT ![h] = r]
  /\ registry' = [registry EXCEPT ![r.id] = h]
  /\ Goto(h, FirstStep(r.op))
  /\ UNCHANGED <<engine, locks, plan, gen, flag, cancelled, active>>

(* What the routes let through to their handlers.  A planned start names the *)
(* plan it was shown and its model.                                          *)
Requests(h) ==
  {Ask(op, i, None, None, None) : op \in {"status", "stop"}, i \in IdsOf[h]}
  \cup {Ask(op, i, m, None, None) :
          op \in {"start", "legacy", "chat", "stream"}, i \in IdsOf[h], m \in Models}
  \cup {Ask("cancel", i, None, None, t) : i \in IdsOf[h], t \in Ids}
  \cup {Ask(op, i, p.model, p, None) :
          op \in {"plan", "start_planned"}, i \in IdsOf[h], p \in Plans}

(* The guard unregisters its id, whatever flag the id stands for by now. *)
Unregister(h) ==
  /\ registry' = [registry EXCEPT ![req[h].id] = None]
  /\ cancelled' = cancelled \ {req[h].id}
  /\ flag' = [flag EXCEPT ![h] = FALSE]

Leave(h) ==
  /\ req' = [req EXCEPT ![h] = NoRequest]
  /\ Goto(h, "idle")
  /\ UNCHANGED <<engine, locks, plan, gen>>

Close(h) ==
  /\ At(h, "close")
  /\ Unregister(h)
  /\ active' = active - 1
  /\ Leave(h)

Cancel(h) ==
  LET target == req[h].target IN
  /\ At(h, "cancel")
  /\ IF registry[target] = None THEN UNCHANGED <<flag, cancelled>>
     ELSE /\ flag' = [flag EXCEPT ![registry[target]] = TRUE]
          /\ cancelled' = cancelled \cup {target}
  /\ Answered(h)
  /\ UNCHANGED <<engine, locks, plan, gen, registry, active>>

-----------------------------------------------------------------------------
(* Plans.  The resources of a plan come with the request or from a snapshot  *)
(* taken at some earlier time: the plan may be of any generation.            *)

PutPlan(h) ==
  /\ At(h, "putplan")
  /\ planLock = None
  /\ plan' = req[h].plan
  /\ Answered(h)
  /\ UNCHANGED <<engine, locks, gen, cancels, active>>

PlanHolds(h) == plan = req[h].plan /\ plan.gen = gen

(* Seeded fault: the plan is copied and its mutex dropped before the start. *)
LockPlanBriefly(h) ==
  /\ At(h, "lockplan")
  /\ planLock = None
  /\ \/ PlanHolds(h) /\ Goto(h, "lock") /\ UNCHANGED req
     \/ Answered(h)
  /\ UNCHANGED <<engine, locks, plan, gen, cancels, active>>

(* validate_plan_identity and validate_resource_generation under the lock.   *)
(* A plan that does not hold, is not safe, or a snapshot that fails ends the *)
(* request and with it the guard of the lock.                                *)
LockPlan(h) ==
  /\ At(h, "lockplan")
  /\ planLock = None
  /\ \/ PlanHolds(h) /\ planLock' = h /\ Goto(h, "lock") /\ UNCHANGED req
     \/ Answered(h) /\ UNCHANGED planLock
  /\ UNCHANGED <<engine, engineLock, plan, gen, cancels, active>>

-----------------------------------------------------------------------------
(* The engine mutex *)

Lock(h) ==
  /\ At(h, "lock")
  /\ engineLock = None
  /\ engineLock' = h
  /\ Goto(h, CASE req[h].op \in {"status", "legacy", "chat", "stream"} -> "refresh"
               [] req[h].op \in {"start", "start_planned"} -> "start"
               [] req[h].op = "stop"                       -> "stop")
  /\ UNCHANGED <<engine, planLock, plan, gen, cancels, active, req>>

(* A planned start drops the guards of both mutexes. *)
Unlock(h) ==
  /\ At(h, "unlock")
  /\ engineLock' = None
  /\ IF req[h].again
     THEN Goto(h, "tools") /\ UNCHANGED <<planLock, req>>
     ELSE /\ planLock' = IF req[h].op = "start_planned" THEN None ELSE planLock
          /\ Answered(h)
  /\ UNCHANGED <<engine, plan, gen, cancels, active>>

NextRound(r) ==
  [op |-> r.op, id |-> r.id, model |-> r.model, plan |-> r.plan, target |-> r.target,
   rounds |-> r.rounds + 1, again |-> FALSE]

(* The tools of a round run outside the mutex.  Then the same request takes  *)
(* it again, or ends: a tool failed, or this was the last round.             *)
RunTools(h) ==
  /\ At(h, "tools")
  /\ \/ /\ req[h].rounds < MaxRounds
        /\ req' = [req EXCEPT ![h] = NextRound(@)]
        /\ Goto(h, "lock")
     \/ Answered(h)
  /\ UNCHANGED <<engine, locks, plan, gen, cancels, active>>

(* Seeded fault: the id is unregistered by a call at the end, not by a guard.*)
ToolPanicsRegistered(h) ==
  /\ At(h, "tools")
  /\ Leave(h)
  /\ UNCHANGED <<cancels, active>>

(* A tool panics, as read_file does at a limit inside a character.  A thread *)
(* that unwinds drops its guards but never reaches the fetch_sub behind      *)
(* handle_connection: its place is gone for good.  (A release build aborts   *)
(* the process instead: see Crash in WorkerSupervisor.)                      *)
ToolPanics(h) ==
  /\ At(h, "tools")
  /\ Unregister(h)
  /\ Leave(h)
  /\ UNCHANGED active

(* Steps of the engine on behalf of the thread inside the mutex. *)
InEngine(h, from, to, step) ==
  /\ At(h, from)
  /\ step
  /\ Goto(h, to)
  /\ UNCHANGED <<locks, plan, gen, cancels, active, req>>

Refresh(h) ==
  \/ InEngine(h, "refresh", "refreshed", UNCHANGED engine)
  \/ InEngine(h, "refresh", "refreshed", L!Answered(E))
  \/ InEngine(h, "refresh", "lost", emodel[E] # None /\ L!Reap(E))
  \/ InEngine(h, "refresh", "refreshed", L!LostWorker(E))
  \/ InEngine(h, "lost", "refreshed", L!LostWorker(E))

Start(h) ==
  \/ InEngine(h, "start", "unlock", UNCHANGED engine)   \* not Idle, or no configuration
  \/ InEngine(h, "start", "load", L!Load(E))
  \/ InEngine(h, "load", "loading", L!Spawn(E))
  \/ InEngine(h, "load", "unlock", L!NotStarted(E))
  \/ /\ req[h].op = "start"
     /\ InEngine(h, "loading", "unlock", L!Launched(E, req[h].model))
  \/ /\ req[h].op = "start_planned"
     /\ \/ InEngine(h, "loading", "unlock", L!Served(E, req[h].model))
        \/ InEngine(h, "loading", "failed", L!Reap(E))
  \/ InEngine(h, "failed", "unlock", L!NotStarted(E))

Stop(h) ==
  \/ IF estate[E] = "Busy" THEN InEngine(h, "stop", "unlock", UNCHANGED engine)
                           ELSE InEngine(h, "stop", "stopping", L!Stop(E))
  \/ InEngine(h, "stopping", "stopping", L!Reap(E))
  \/ InEngine(h, "stopping", "unlock", L!Stopped(E))

-----------------------------------------------------------------------------
(* Inference: the thread keeps the mutex while it talks to the worker *)

Serves(h) == estate[E] = "Ready" /\ emodel[E] = req[h].model

BeginInference(h) ==
  IF req[h].op # "status" /\ Serves(h)
  THEN InEngine(h, "refreshed", "send", L!BeginRequest(E))
  ELSE InEngine(h, "refreshed", "unlock", UNCHANGED engine)

(* Seeded fault: the request goes out without a look at the flag. *)
SendCancelled(h) == \E next \in {"proxy", "finish"} : InEngine(h, "send", next, UNCHANGED engine)

(* Seeded fault: a request that is not sent skips finish_request. *)
SendOrReturn(h) ==
  \/ InEngine(h, "send", "unlock", UNCHANGED engine)
  \/ ~flag[h] /\ InEngine(h, "send", "proxy", UNCHANGED engine)

(* The last look at the flag before the request is written to the worker.    *)
(* The legacy chat has none.                                                 *)
Send(h) ==
  \/ InEngine(h, "send", "finish", UNCHANGED engine)    \* cancelled, or no connection
  \/ (req[h].op = "legacy" \/ ~flag[h]) /\ InEngine(h, "send", "proxy", UNCHANGED engine)

(* Seeded fault: no deadline, only a cancellation ends a worker that hangs. *)
ProxyWithoutDeadline(h) == flag[h] /\ InEngine(h, "proxy", "finish", UNCHANGED engine)

(* The worker's answer, an error, the timeout or a cancellation.  A chat     *)
(* whose answer calls tools is not over yet.                                 *)
ProxyEnds(h) ==
  /\ At(h, "proxy")
  /\ \E again \in BOOLEAN :
       /\ again => req[h].op = "chat"
       /\ req' = [req EXCEPT ![h].again = again]
  /\ Goto(h, "finish")
  /\ UNCHANGED <<engine, locks, plan, gen, cancels, active>>

(* A stream hands every chunk to the client before it reads the next. *)
StreamChunk(h) ==
  /\ req[h].op = "stream"
  /\ InEngine(h, "proxy", "write", UNCHANGED engine)

ClientTakes(h) ==
  \/ InEngine(h, "write", "proxy", UNCHANGED engine)
  \/ InEngine(h, "write", "finish", UNCHANGED engine)   \* the client is gone

FinishInference(h) == InEngine(h, "finish", "unlock", L!EndRequest(E))

-----------------------------------------------------------------------------
ResourcesChange ==
  /\ \E g \in Generations \ {gen} : gen' = g
  /\ UNCHANGED <<engine, locks, plan, cancels, active, pc, req>>

(* What a thread does by itself once its request is there. *)
ThreadStep(h) ==
  \/ Close(h) \/ Cancel(h)
  \/ PutPlan(h) \/ LockPlan(h)
  \/ Lock(h) \/ Unlock(h) \/ RunTools(h) \/ Refresh(h) \/ Start(h) \/ Stop(h)
  \/ BeginInference(h) \/ Send(h) \/ ProxyEnds(h) \/ FinishInference(h)

ClientStep(h) ==
  \/ Accept(h) \/ ReadFails(h)
  \/ \E r \in Requests(h) : Register(h, r)
  \/ ClientTakes(h)

Next ==
  \/ \E h \in Handlers :
       ThreadStep(h) \/ StreamChunk(h) \/ ToolPanics(h) \/ ClientStep(h)
  \/ ResourcesChange

Spec == Init /\ [][Next]_vars

(* Threads are scheduled, and one that waits for a mutex gets it in the end; *)
(* the engine's calls return (EngineCallsReturn); an inference ends with the *)
(* worker's answer or its timeout, looked at between any two chunks.         *)
ThreadFairness == \A h \in Handlers : SF_vars(ThreadStep(h))

(* A client sends the request it connected for, or closes. *)
RequestsArrive ==
  \A h \in Handlers : WF_vars(ReadFails(h) \/ \E r \in Requests(h) : Register(h, r))

(* A client of a stream reads what it is sent, or goes away. *)
StreamsAreRead == \A h \in Handlers : WF_vars(ClientTakes(h))

FairSpec          == Spec /\ ThreadFairness /\ RequestsArrive /\ StreamsAreRead
StalledClientSpec == Spec /\ ThreadFairness /\ RequestsArrive

-----------------------------------------------------------------------------
(* Properties *)

(* "ein neuer Plan macht den vorherigen atomar ungueltig" (http.rs:35-38): a *)
(* planned start runs, from its validation until its worker is ready, under  *)
(* the plan the client was shown, and that is still the latest plan.         *)
StartRunsLatestPlan ==
  \A h \in Handlers :
    req[h].op = "start_planned" /\ pc[h] \in {"lock", "start", "load", "loading", "failed"}
      => planLock = h /\ plan = req[h].plan

(* The engine is Busy exactly while one thread talks to the worker, inside   *)
(* the mutex and with the model its client asked for; so no other thread can *)
(* refresh, stop or start the engine under a request.                        *)
BusyIsProxied ==
  LET proxies == {h \in Handlers : pc[h] \in {"send", "proxy", "write", "finish"}} IN
  /\ estate[E] = "Busy" <=> proxies # {}
  /\ \A h \in proxies : engineLock = h /\ worker[E] /\ emodel[E] = req[h].model

(* A cancellation that was answered with 202 while the /v1 request it names  *)
(* was still waiting keeps that request from the worker, in this and every   *)
(* later round.  The id must be the request's own, as generated ids are.     *)
Exclusive(i) == \A g, h \in Handlers : i \in IdsOf[g] /\ i \in IdsOf[h] => g = h

CancelledNotForwarded ==
  [][\A h \in Handlers :
       /\ req[h].op \in {"chat", "stream"}
       /\ req[h].id \in cancelled /\ Exclusive(req[h].id)
       /\ pc[h] = "send"
       => pc'[h] # "proxy"]_vars

(* A cancellation answers 202 for an id that is registered (http.rs 69-81):  *)
(* that must be the id of a request that is still there, whatever way the    *)
(* earlier ones went (an answer, an error, a panic) and whoever else had the *)
(* id.  An id left behind would answer 202 for nothing, or cancel the next   *)
(* request of that thread.                                                   *)
RegisteredIsRunning ==
  \A i \in Ids : registry[i] # None =>
    LET h == registry[i] IN pc[h] \notin {"idle", "read"} /\ req[h].id = i

(* Every connection ends: the mutexes are taken in one order, plan before    *)
(* engine, and whatever holds one of them ends.  A stream must have "aktuell *)
(* greifen Read-/Inference-Timeouts" (docs/evidence/                         *)
(* phase-1-contract-security.md:46-47).                                      *)
HandlersReturn == \A h \in Handlers : pc[h] # "idle" ~> pc[h] = "idle"
=============================================================================
