-------------------------- MODULE WorkerSupervisor --------------------------
(***************************************************************************)
(* The worker supervisor of the triAI engine (src/triAI-Engine/src/        *)
(* supervisor.rs and supervisor/slot.rs): it spawns one llama-server       *)
(* process, waits until it answers, and tears it down again.               *)
(*                                                                         *)
(* Several supervisors compete for the single model slot of the machine.   *)
(* Supervisors of one operating-system process share an AtomicSlot         *)
(* (slotOwner); all supervisors compete for a flock on one well-known file *)
(* (flock).  A supervisor is called through &mut self, so it executes one  *)
(* method at a time, but the steps of different supervisors interleave,    *)
(* and so do the worker processes, foreign programs that use the port, and *)
(* crashes of an engine process.                                           *)
(***************************************************************************)
EXTENDS Naturals

CONSTANTS
  Sups,           \* the WorkerSupervisor values
  Procs,          \* the operating-system processes that run an engine
  ProcOf,         \* the process each supervisor lives in
  Models,         \* model identifiers (WorkerConfig.model)
  Ports,          \* worker ports (WorkerConfig.port)
  Workers,        \* identities of child processes; an id is reused once reaped
  FlockAttempts,  \* attempts of the flock loop (20 in the code)
  MaxCrashes,     \* bound on the crashes of engine processes
  Nobody          \* the absent supervisor, model, worker or listener

ASSUME SlotAssumption ==
  /\ ProcOf \in [Sups -> Procs]
  /\ FlockAttempts \in Nat \ {0}
  /\ MaxCrashes \in Nat
  /\ Ports # {}
  /\ Nobody \notin Sups \cup Models \cup Workers

Foreign == "foreign"          \* a program that is not one of the workers

WorkerState == {"Stopped", "Starting", "Ready", "Failed"}

(* The retry tells a port conflict from the six other failure codes; nothing *)
(* tells those apart.                                                        *)
FailureCode == {"PortConflict", "OtherFailure"}
StartMethod == {"start", "start_and_wait", "start_and_wait_with_retry"}
Method      == StartMethod \cup {"refresh", "stop", "none"}
Step        == {"idle", "preflight", "acquire", "open", "flock", "spawn",
                "poll", "reap", "unflock", "unlease", "retry"}

VARIABLES
  child,          \* WorkerSupervisor.child
  state,          \* WorkerSupervisor.state
  activeModel,    \* WorkerSupervisor.active_model
  processSlot,    \* WorkerSupervisor.process_slot: the owner of its lease
  lastFailure,    \* code of WorkerSupervisor.last_failure
  pc,             \* where the running method of a supervisor stands
  call,           \* the arguments and locals of that method
  slotOwner,      \* AtomicSlot.owner of each process
  flock,          \* the supervisor whose slot_lock holds the flock
  wstat,          \* life of a worker process
  portOf,         \* the port a worker was told to bind
  listener,       \* who listens on a port
  crashes         \* engine processes killed so far

fields  == <<child, state, activeModel, lastFailure>>
locks   == <<processSlot, slotOwner, flock>>
os      == <<wstat, portOf, listener, crashes>>
vars    == <<fields, pc, call, locks, os>>

CallRecord == [method  : Method,
               model   : Models \cup {Nobody},
               port    : Ports \cup {Nobody},
               tries   : 0..(FlockAttempts - 1),
               expired : BOOLEAN,
               verdict : FailureCode \cup {"none"}]

Frame(method, model, port) ==
  [method |-> method, model |-> model, port |-> port,
   tries |-> 0, expired |-> FALSE, verdict |-> "none"]

NoCall == Frame("none", Nobody, Nobody)

Alive(w)     == wstat[w] \in {"starting", "serving"}
Exited(w)    == wstat[w] \in FailureCode
Orphan(w)    == Alive(w) /\ \A s \in Sups : child[s] # w
TcpReady(p)  == listener[p] # Nobody

TypeOK ==
  /\ child \in [Sups -> Workers \cup {Nobody}]
  /\ state \in [Sups -> WorkerState]
  /\ activeModel \in [Sups -> Models \cup {Nobody}]
  /\ processSlot \in [Sups -> Models \cup {Nobody}]
  /\ lastFailure \in [Sups -> FailureCode \cup {"none"}]
  /\ pc \in [Sups -> Step]
  /\ call \in [Sups -> CallRecord]
  /\ slotOwner \in [Procs -> Models \cup {Nobody}]
  /\ flock \in Sups \cup {Nobody}
  /\ wstat \in [Workers -> {"none", "starting", "serving"} \cup FailureCode]
  /\ portOf \in [Workers -> Ports]
  /\ listener \in [Ports -> Workers \cup {Nobody, Foreign}]
  /\ crashes \in 0..MaxCrashes

Init ==
  /\ child = [s \in Sups |-> Nobody]
  /\ state = [s \in Sups |-> "Stopped"]
  /\ activeModel = [s \in Sups |-> Nobody]
  /\ processSlot = [s \in Sups |-> Nobody]
  /\ lastFailure = [s \in Sups |-> "none"]
  /\ pc = [s \in Sups |-> "idle"]
  /\ call = [s \in Sups |-> NoCall]
  /\ slotOwner = [p \in Procs |-> Nobody]
  /\ flock = Nobody
  /\ wstat = [w \in Workers |-> "none"]
  /\ portOf = [w \in Workers |-> CHOOSE p \in Ports : TRUE]
  /\ listener = [p \in Ports |-> Nobody]
  /\ crashes = 0

-----------------------------------------------------------------------------
(* Control flow shared by the methods *)

Goto(s, step) == pc' = [pc EXCEPT ![s] = step]

Return(s) ==
  /\ Goto(s, "idle")
  /\ call' = [call EXCEPT ![s] = NoCall]

Args(s, method) == Frame(method, call[s].model, call[s].port)

(* The Err arm of start_and_wait_with_retry: only a port conflict leads to   *)
(* the second look at the port, every other error is handed to the caller.   *)
ReturnErr(s, code) ==
  IF call[s].method = "start_and_wait_with_retry" /\ code = "PortConflict"
  THEN /\ Goto(s, "retry")
       /\ call' = [call EXCEPT ![s] = Args(s, call[s].method)]
  ELSE Return(s)

(* Leave the normal path towards a teardown that ends with this verdict. *)
TearDown(s, step, code) ==
  /\ Goto(s, step)
  /\ call' = [call EXCEPT ![s].verdict = code]

Invoke(s, m, model, port, step) ==
  /\ pc[s] = "idle"
  /\ Goto(s, step)
  /\ call' = [call EXCEPT ![s] = Frame(m, model, port)]

-----------------------------------------------------------------------------
(* start, start_and_wait, start_and_wait_with_retry *)

CallStart(s, method, model, port) ==
  /\ Invoke(s, method, model, port,
            IF method = "start" THEN "acquire" ELSE "preflight")
  /\ UNCHANGED <<fields, locks, os>>

Preflight(s) ==
  /\ pc[s] = "preflight"
  /\ IF TcpReady(call[s].port)
     THEN /\ state' = [state EXCEPT ![s] = "Failed"]
          /\ lastFailure' = [lastFailure EXCEPT ![s] = "PortConflict"]
          /\ ReturnErr(s, "PortConflict")
     ELSE Goto(s, "acquire") /\ UNCHANGED <<state, lastFailure, call>>
  /\ UNCHANGED <<child, activeModel, locks, os>>

(* Seeded fault: the guard that asks the AtomicSlot for its owner is lost. *)
AcquireTakenSlot(s) ==
  /\ pc[s] = "acquire"
  /\ \/ /\ child[s] # Nobody \/ activeModel[s] # Nobody
        /\ ReturnErr(s, lastFailure[s])
        /\ UNCHANGED <<processSlot, slotOwner>>
     \/ /\ child[s] = Nobody /\ activeModel[s] = Nobody
        /\ slotOwner' = [slotOwner EXCEPT ![ProcOf[s]] = call[s].model]
        /\ processSlot' = [processSlot EXCEPT ![s] = call[s].model]
        /\ Goto(s, "open")
        /\ UNCHANGED call
  /\ UNCHANGED <<fields, flock, os>>

AcquireProcessSlot(s) ==
  /\ pc[s] = "acquire"
  /\ \/ /\ child[s] # Nobody \/ activeModel[s] # Nobody
        /\ ReturnErr(s, lastFailure[s])
        /\ UNCHANGED <<state, lastFailure, processSlot, slotOwner>>
     \/ /\ child[s] = Nobody /\ activeModel[s] = Nobody
        /\ slotOwner[ProcOf[s]] # Nobody
        /\ state' = [state EXCEPT ![s] = "Failed"]
        /\ lastFailure' = [lastFailure EXCEPT ![s] = "OtherFailure"]
        /\ ReturnErr(s, "OtherFailure")
        /\ UNCHANGED <<processSlot, slotOwner>>
     \/ /\ child[s] = Nobody /\ activeModel[s] = Nobody
        /\ slotOwner[ProcOf[s]] = Nobody
        /\ slotOwner' = [slotOwner EXCEPT ![ProcOf[s]] = call[s].model]
        /\ processSlot' = [processSlot EXCEPT ![s] = call[s].model]
        /\ Goto(s, "open")
        /\ UNCHANGED <<state, lastFailure, call>>
  /\ UNCHANGED <<child, activeModel, flock, os>>

(* open(slot_lock_path())?: the error leaves start() at once.  The lease in  *)
(* process_slot and the state stay as they are.                              *)
OpenLockFile(s) ==
  /\ pc[s] = "open"
  /\ \/ Goto(s, "flock") /\ UNCHANGED call
     \/ ReturnErr(s, lastFailure[s])
  /\ UNCHANGED <<fields, locks, os>>

(* The three outcomes of one attempt. *)
FlockTaken(s) ==
  /\ flock' = s
  /\ state' = [state EXCEPT ![s] = "Starting"]
  /\ Goto(s, "spawn")
  /\ UNCHANGED call

FlockRetried(s) ==
  /\ call' = [call EXCEPT ![s].tries = @ + 1]
  /\ UNCHANGED <<pc, flock, state>>

FlockGivenUp(s) ==
  /\ TearDown(s, "unlease", "OtherFailure")
  /\ UNCHANGED <<flock, state>>

(* Seeded faults: LOCK_SH for LOCK_EX; one attempt too many. *)
TryFlockShared(s) ==
  /\ pc[s] = "flock"
  /\ FlockTaken(s)
  /\ UNCHANGED <<child, activeModel, lastFailure, processSlot, slotOwner, os>>

TryFlockOnceMore(s) ==
  /\ pc[s] = "flock"
  /\ \/ flock = Nobody /\ FlockTaken(s)
     \/ flock # Nobody /\ call[s].tries + 1 <= FlockAttempts /\ FlockRetried(s)
     \/ flock # Nobody /\ call[s].tries + 1 > FlockAttempts /\ FlockGivenUp(s)
  /\ UNCHANGED <<child, activeModel, lastFailure, processSlot, slotOwner, os>>

TryFlock(s) ==
  /\ pc[s] = "flock"
  /\ \/ flock = Nobody /\ FlockTaken(s)
     \/ flock # Nobody /\ call[s].tries + 1 < FlockAttempts /\ FlockRetried(s)
     \/ flock # Nobody /\ call[s].tries + 1 >= FlockAttempts /\ FlockGivenUp(s)
  /\ UNCHANGED <<child, activeModel, lastFailure, processSlot, slotOwner, os>>

SpawnOk(s) ==
  /\ \E w \in Workers :
       /\ wstat[w] = "none"
       /\ wstat' = [wstat EXCEPT ![w] = "starting"]
       /\ portOf' = [portOf EXCEPT ![w] = call[s].port]
       /\ child' = [child EXCEPT ![s] = w]
  /\ activeModel' = [activeModel EXCEPT ![s] = call[s].model]
  /\ lastFailure' = [lastFailure EXCEPT ![s] = "none"]
  /\ IF call[s].method = "start"
     THEN Return(s)
     ELSE Goto(s, "poll") /\ UNCHANGED call

SpawnFailed(s, next) ==
  /\ TearDown(s, next, "OtherFailure")
  /\ UNCHANGED <<child, activeModel, lastFailure, wstat, portOf>>

(* Seeded fault: the Err arm of spawn() keeps slot_lock. *)
SpawnKeepsFlock(s) ==
  /\ pc[s] = "spawn"
  /\ SpawnOk(s) \/ SpawnFailed(s, "unlease")
  /\ UNCHANGED <<state, locks, listener, crashes>>

(* A missing stderr pipe kills the fresh child before the locks go and then  *)
(* reports SpawnFailed: it has the effect of a failed spawn.                 *)
Spawn(s) ==
  /\ pc[s] = "spawn"
  /\ SpawnOk(s) \/ SpawnFailed(s, "unflock")
  /\ UNCHANGED <<state, locks, listener, crashes>>

WorkerFoundDead(s) ==
  /\ Exited(child[s])
  /\ TearDown(s, "reap", wstat[child[s]])
  /\ UNCHANGED state

WorkerFoundReady(s) ==
  /\ Alive(child[s])
  /\ TcpReady(call[s].port)
  /\ listener[call[s].port] \in Workers
  /\ wstat[listener[call[s].port]] = "serving"
  /\ state' = [state EXCEPT ![s] = "Ready"]
  /\ Return(s)

DeadlineMissed(s) ==
  /\ Alive(child[s])
  /\ ~TcpReady(call[s].port)
  /\ call[s].expired
  /\ TearDown(s, "reap", "OtherFailure")
  /\ UNCHANGED state

(* Seeded fault: the loop never looks at the deadline. *)
PollWithoutDeadline(s) ==
  /\ pc[s] = "poll"
  /\ WorkerFoundDead(s) \/ WorkerFoundReady(s)
  /\ UNCHANGED <<child, activeModel, lastFailure, locks, os>>

(* One turn of the readiness loop that leaves it.  The turns that do not     *)
(* (the port is closed before the deadline, or /health answers 5xx) change   *)
(* nothing; the second kind does not look at the deadline.                   *)
PollExit(s) ==
  /\ pc[s] = "poll"
  /\ WorkerFoundDead(s) \/ WorkerFoundReady(s) \/ DeadlineMissed(s)
  /\ UNCHANGED <<child, activeModel, lastFailure, locks, os>>

(* Turns of the same loop that may, but need not happen: try_wait fails; or  *)
(* the probe of /health yields None (a TCP-only listener, an unreadable or   *)
(* late answer) or a foreign program answers it with success.                *)
PollChance(s) ==
  /\ pc[s] = "poll"
  /\ \/ /\ TearDown(s, "reap", "OtherFailure")
        /\ UNCHANGED state
     \/ /\ Alive(child[s])
        /\ TcpReady(call[s].port)
        /\ state' = [state EXCEPT ![s] = "Ready"]
        /\ Return(s)
  /\ UNCHANGED <<child, activeModel, lastFailure, locks, os>>

RetryPort(s) ==
  /\ pc[s] = "retry"
  /\ IF TcpReady(call[s].port)
     THEN Return(s) /\ UNCHANGED <<state, lastFailure>>
     ELSE /\ state' = [state EXCEPT ![s] = "Stopped"]
          /\ lastFailure' = [lastFailure EXCEPT ![s] = "none"]
          /\ Goto(s, "preflight")
          /\ call' = [call EXCEPT ![s] = Args(s, "start_and_wait")]
  /\ UNCHANGED <<child, activeModel, locks, os>>

-----------------------------------------------------------------------------
(* refresh, stop (also Drop), and the teardown they share with start *)

CallRefresh(s, p) ==
  /\ pc[s] = "idle"
  /\ IF child[s] = Nobody
     THEN /\ state' = [state EXCEPT ![s] = "Stopped"]
          /\ Return(s)
     ELSE \/ /\ Exited(child[s])
             /\ Goto(s, "reap")
             /\ call' = [call EXCEPT ![s] =
                  [Frame("refresh", Nobody, Nobody) EXCEPT !.verdict = wstat[child[s]]]]
             /\ UNCHANGED state
          \/ /\ Alive(child[s])
             /\ state' = IF TcpReady(p)
                         THEN [state EXCEPT ![s] = "Ready"] ELSE state
             /\ Return(s)
          \/ /\ state' = [state EXCEPT ![s] = "Failed"]   \* try_wait failed
             /\ Return(s)
  /\ UNCHANGED <<child, activeModel, lastFailure, locks, os>>

(* Seeded fault: stop() gives the locks back and leaves the worker alone. *)
StopKeepsWorker(s) ==
  /\ Invoke(s, "stop", Nobody, Nobody, "unflock")
  /\ UNCHANGED <<fields, locks, os>>

CallStop(s) ==
  /\ Invoke(s, "stop", Nobody, Nobody, "reap")
  /\ UNCHANGED <<fields, locks, os>>

(* Seeded fault: dropping a Child handle neither kills nor reaps it. *)
ForgetChild(s) ==
  /\ pc[s] = "reap"
  /\ child' = [child EXCEPT ![s] = Nobody]
  /\ activeModel' = [activeModel EXCEPT ![s] = Nobody]
  /\ Goto(s, "unflock")
  /\ UNCHANGED <<state, lastFailure, call, locks, os>>

(* terminate_child or wait: the process is gone and reaped afterwards. *)
Reap(s) ==
  /\ pc[s] = "reap"
  /\ wstat' = [w \in Workers |-> IF w = child[s] THEN "none" ELSE wstat[w]]
  /\ listener' = [p \in Ports |->
                    IF child[s] # Nobody /\ listener[p] = child[s]
                    THEN Nobody ELSE listener[p]]
  /\ child' = [child EXCEPT ![s] = Nobody]
  /\ activeModel' = [activeModel EXCEPT ![s] = Nobody]
  /\ Goto(s, "unflock")
  /\ UNCHANGED <<state, lastFailure, call, locks, portOf, crashes>>

ReleaseFlock(s) ==
  /\ pc[s] = "unflock"
  /\ flock' = IF flock = s THEN Nobody ELSE flock
  /\ Goto(s, "unlease")
  /\ UNCHANGED <<fields, call, processSlot, slotOwner, os>>

(* Dropping the lease frees the AtomicSlot only if it still names its owner. *)
DropLease(s) ==
  /\ slotOwner' = IF /\ processSlot[s] # Nobody
                     /\ slotOwner[ProcOf[s]] = processSlot[s]
                  THEN [slotOwner EXCEPT ![ProcOf[s]] = Nobody]
                  ELSE slotOwner
  /\ processSlot' = [processSlot EXCEPT ![s] = Nobody]

(* Seeded fault: the state survives the teardown. *)
ReleaseKeepsState(s) ==
  /\ pc[s] = "unlease"
  /\ DropLease(s)
  /\ lastFailure' = [lastFailure EXCEPT ![s] = call[s].verdict]
  /\ IF call[s].method \in StartMethod
     THEN ReturnErr(s, call[s].verdict)
     ELSE Return(s)
  /\ UNCHANGED <<child, state, activeModel, flock, os>>

ReleaseProcessSlot(s) ==
  /\ pc[s] = "unlease"
  /\ DropLease(s)
  /\ state' = [state EXCEPT ![s] =
                 IF call[s].verdict = "none" THEN "Stopped" ELSE "Failed"]
  /\ lastFailure' = [lastFailure EXCEPT ![s] = call[s].verdict]
  /\ IF call[s].method \in StartMethod
     THEN ReturnErr(s, call[s].verdict)
     ELSE Return(s)
  /\ UNCHANGED <<child, activeModel, flock, os>>

-----------------------------------------------------------------------------
(* The environment: time, worker processes, foreign programs, crashes *)

Deadline(s) ==
  /\ pc[s] = "poll" /\ ~call[s].expired
  /\ call' = [call EXCEPT ![s].expired = TRUE]
  /\ UNCHANGED <<fields, pc, locks, os>>

WorkerBind(w) ==
  /\ wstat[w] = "starting"
  /\ listener[portOf[w]] = Nobody
  /\ listener' = [listener EXCEPT ![portOf[w]] = w]
  /\ UNCHANGED <<fields, pc, call, locks, wstat, portOf, crashes>>

WorkerLoaded(w) ==
  /\ wstat[w] = "starting" /\ listener[portOf[w]] = w
  /\ wstat' = [wstat EXCEPT ![w] = "serving"]
  /\ UNCHANGED <<fields, pc, call, locks, portOf, listener, crashes>>

(* A dead child stays a zombie until its supervisor reaps it; an orphan is   *)
(* reaped by the system.                                                     *)
WorkerExit(w, code) ==
  /\ Alive(w)
  /\ code = "PortConflict" => listener[portOf[w]] \notin {Nobody, w}
  /\ wstat' = [wstat EXCEPT ![w] = IF Orphan(w) THEN "none" ELSE code]
  /\ listener' = [p \in Ports |->
                    IF listener[p] = w THEN Nobody ELSE listener[p]]
  /\ UNCHANGED <<fields, pc, call, locks, portOf, crashes>>

ForeignBind(p) ==
  /\ listener[p] = Nobody
  /\ listener' = [listener EXCEPT ![p] = Foreign]
  /\ UNCHANGED <<fields, pc, call, locks, wstat, portOf, crashes>>

ForeignClose(p) ==
  /\ listener[p] = Foreign
  /\ listener' = [listener EXCEPT ![p] = Nobody]
  /\ UNCHANGED <<fields, pc, call, locks, wstat, portOf, crashes>>

(* SIGKILL of an engine process: its memory and its flock vanish, its worker *)
(* children live on (the lock fd is O_CLOEXEC, nothing ties a child to its   *)
(* parent's life), its zombies are reaped; the process starts again fresh.   *)
Crash(p) ==
  LET mine == {s \in Sups : ProcOf[s] = p} IN
  /\ crashes < MaxCrashes
  /\ crashes' = crashes + 1
  /\ child' = [s \in Sups |-> IF s \in mine THEN Nobody ELSE child[s]]
  /\ state' = [s \in Sups |-> IF s \in mine THEN "Stopped" ELSE state[s]]
  /\ activeModel' = [s \in Sups |-> IF s \in mine THEN Nobody ELSE activeModel[s]]
  /\ processSlot' = [s \in Sups |-> IF s \in mine THEN Nobody ELSE processSlot[s]]
  /\ lastFailure' = [s \in Sups |-> IF s \in mine THEN "none" ELSE lastFailure[s]]
  /\ pc' = [s \in Sups |-> IF s \in mine THEN "idle" ELSE pc[s]]
  /\ call' = [s \in Sups |-> IF s \in mine THEN NoCall ELSE call[s]]
  /\ slotOwner' = [slotOwner EXCEPT ![p] = Nobody]
  /\ flock' = IF flock \in mine THEN Nobody ELSE flock
  /\ wstat' = [w \in Workers |-> IF Exited(w) /\ \E s \in mine : child[s] = w
                                 THEN "none" ELSE wstat[w]]
  /\ UNCHANGED <<portOf, listener>>

-----------------------------------------------------------------------------
SupStep(s) ==
  \/ Preflight(s) \/ AcquireProcessSlot(s) \/ OpenLockFile(s) \/ TryFlock(s)
  \/ Spawn(s) \/ PollExit(s) \/ RetryPort(s)
  \/ Reap(s) \/ ReleaseFlock(s) \/ ReleaseProcessSlot(s)

Caller(s) ==
  \/ \E m \in StartMethod, model \in Models, p \in Ports :
       CallStart(s, m, model, p)
  \/ \E p \in Ports : CallRefresh(s, p)
  \/ CallStop(s)

World ==
  \/ \E s \in Sups : PollChance(s) \/ Deadline(s)
  \/ \E w \in Workers : WorkerBind(w) \/ WorkerLoaded(w)
  \/ \E w \in Workers, code \in FailureCode : WorkerExit(w, code)
  \/ \E p \in Ports : ForeignBind(p) \/ ForeignClose(p)

Environment == World \/ \E p \in Procs : Crash(p)

Next ==
  \/ \E s \in Sups : SupStep(s) \/ Caller(s)
  \/ Environment

Spec == Init /\ [][Next]_vars

(* A method that was called goes on; clocks advance; a worker whose port is  *)
(* taken gives up.  The readiness loop samples the port every 20 ms, so it   *)
(* does not miss for ever what is the case again and again (strong fairness).*)
(* Callers, crashes, foreign programs and failing probes owe nothing.        *)
SupervisorFairness ==
  /\ \A s \in Sups : /\ WF_vars(SupStep(s))
                      /\ SF_vars(PollExit(s))
                      /\ WF_vars(Deadline(s))
  /\ \A w \in Workers : WF_vars(WorkerExit(w, "PortConflict"))

(* A worker that has bound its port ends its model load, one way or another. *)
WorkerFairness == \A w \in Workers : WF_vars(WorkerLoaded(w))

FairSpec     == Spec /\ SupervisorFairness /\ WorkerFairness
HungLoadSpec == Spec /\ SupervisorFairness

-----------------------------------------------------------------------------
(* Properties *)

(* The machine has one model slot (docs/USAGE.md:88): no two supervisors, of *)
(* one process or of two, own a worker process at the same time.  start()    *)
(* spawns under the flock and every teardown reaps before it releases.       *)
AtMostOneSupervisedWorker ==
  \A s, t \in Sups : child[s] # Nobody /\ child[t] # Nobody => s = t

(* A supervisor that owns a worker still holds everything that keeps others  *)
(* from starting one: the flock, and the lease that names the running model. *)
SlotCoversWorker ==
  \A s \in Sups : child[s] # Nobody =>
     /\ flock = s
     /\ processSlot[s] = activeModel[s]
     /\ slotOwner[ProcOf[s]] = activeModel[s]

(* No error path of start, start_and_wait, refresh or stop forgets a worker  *)
(* process: a process without a supervisor comes from a crash of the engine. *)
NoWorkerLost ==
  (\E w \in Workers : wstat[w] # "none" /\ \A s \in Sups : child[s] # w)
     => crashes > 0

(* A supervisor at rest without a worker blocks no other engine process: the *)
(* flock goes back on every path out of start, refresh and stop.             *)
FlockFreeAtRest ==
  \A s \in Sups : pc[s] = "idle" /\ child[s] = Nobody => flock # s

(* A supervisor at rest says Ready only while it still owns a child; a       *)
(* cleaned-up worker is never reported as ready to the engine's refresh.     *)
ReadyOwnsChild ==
  \A s \in Sups : pc[s] = "idle" /\ state[s] = "Ready" => child[s] # Nobody

(* The in-process slot is taken exactly while some lease of the process      *)
(* exists, and by one: SlotLease::drop compares owner names, so two leases   *)
(* for the same model name would free each other's slot.                     *)
LeaseMatchesSlot ==
  \A p \in Procs :
    LET holders == {s \in Sups : ProcOf[s] = p /\ processSlot[s] # Nobody} IN
    /\ slotOwner[p] # Nobody <=> holders # {}
    /\ \A s, t \in holders : s = t
    /\ \A s \in holders : processSlot[s] = slotOwner[p]

(* All supervisors together implement the abstract slot: it is held by the   *)
(* owner of the flock, and a worker runs in it while someone owns a child.   *)
Slot == INSTANCE ModelSlot WITH holder  <- flock,
                                running <- \E s \in Sups : child[s] # Nobody

ImplementsModelSlot == Slot!Spec

(* "Startet genau einen Worker und wartet synchron bis Readiness, Exit oder  *)
(* Deadline": every method that was called returns.                          *)
CallsReturn == \A s \in Sups : pc[s] # "idle" ~> pc[s] = "idle"

(* "Jeder Fehlerpfad ... gibt den globalen Modell-Slot frei"                 *)
(* (supervisor.rs:302-304; slot.rs:4-5): a supervisor at rest without a      *)
(* worker, be it after a failed start, leaves the in-process slot free.      *)
FailedStartFreesSlot ==
  \A s \in Sups : pc[s] = "idle" /\ child[s] = Nobody
                     => processSlot[s] = Nobody

(* "Do not expose that startup race as an inference-ready engine"            *)
(* (supervisor.rs:364-366): a supervisor never says Ready while its own      *)
(* worker listens on its port but still answers 503.                         *)
ReadyNotLoading ==
  \A s \in Sups : state[s] = "Ready" /\ child[s] # Nobody
     => ~(wstat[child[s]] = "starting" /\ listener[portOf[child[s]]] = child[s])
=============================================================================
