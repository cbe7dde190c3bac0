# TLA+ models of the triAI engine

This directory holds the TLA+ specification of `triAI-Engine` (the local LLM
engine of this repository): modules, TLC configurations, and TLAPS proofs. Every
definition is translated from the Rust code under `src/triAI-Engine/src` (below:
`R/`); `PROJECT.json` maps each definition to its lines.

    tlc -workers 2 -config slot_processes.cfg MCWorkerSupervisor.tla
    tlc -workers 2 -config components.cfg MCComponents.tla
    tlapm WorkerSupervisorProofs.tla      (and the other *Proofs modules)

## 1. The system and its parts

The engine is one process that owns at most one `llama-server` child, the
worker, and serves an OpenAI-like HTTP API by proxying to it. A machine may run
several engine processes; a lock file keeps them to one worker.

```
 clients ── HTTP ──> gateway threads ──(engine mutex)──> Engine ──> WorkerSupervisor ──> llama-server
                        │  │                                            │        │
                        │  └─(catalog RwLock)─ catalog, scan, download  │        └─ flock (machine)
                        └─ plan mutex, cancel registry, counters        └─ AtomicSlot (process)
 KernelWorker (VRAM/RAM/disk tiers)   ChunkLoader cache   evidence writer + rotation   monitor -> analysis
```

| Component (sources) | State | Operations | Interacts with | Hard behaviour | What makes it correct |
|---|---|---|---|---|---|
| Worker supervisor (`supervisor.rs`) | child handle, state, active model, last failure, flock handle, slot lease | start, start_and_wait, start_and_wait_with_retry, refresh, stop, Drop | the OS (spawn, kill, flock, ports), the slot | several processes; the worker dies, hangs or loses its port; the engine is killed; six ways to fail in the middle of a start | one supervised worker on the machine; locks cover the worker; no worker or lock is forgotten; calls return |
| Model slot (`supervisor/slot.rs`) | owner of the process' slot | acquire, drop of the lease | supervisors of a process | two supervisors with one owner name | taken exactly while one lease exists |
| Engine (`engine.rs`) | state, active model, endpoint | start_model(_ready), recover_with_fallback, refresh, begin/finish_request, stop_model, switch_model | supervisor, gateway | a refresh between the begin and the end of a request; a stop that follows | it serves a model only on a worker it owns; documented life cycle |
| Mini-model failover (`supervisor/fallback.rs`) | active: Primary or Fallback, failover count | ensure_ready, fail_over, apply_advice_failure | engine | failure in the middle of stop-then-start; retry | Ok means the selected model serves; one failover at most per call |
| Primary supervisor, manifest (`supervisor/primary.rs`, `manifest.rs`) | none of its own | verify, start | supervisor | stale manifest | starts only what the manifest lists |
| HTTP gateway (`http.rs`, `api.rs`) | engine mutex, latest plan mutex, cancellation registry, connection counter, rescan flag | about 40 routes, one thread per connection | everything | locks held over I/O, lock order, client-chosen ids, panics, streams that break | no deadlock, a start runs the plan that was shown, cancel reaches its own request |
| OpenAI front end (`openai.rs`, `attachments.rs`, `prompt/*.rs`) | none; `total_usage` of a running chat | validate, prepare the prompt, loop over tool rounds | gateway, tools | limits; a loop over the worker | limits hold; an answer accounts for all its rounds |
| Project tools (`coding_tools.rs`) | the project tree | nine tools, two of which write | chats | concurrent chats on one file, a crash between two steps, texts cut in the middle of a character | writes are atomic and stay in the project |
| Catalog (`model_catalog.rs`, `model_sources.rs`, `gguf_registry.rs`, `model_registry.rs`) | entries behind a RwLock, rescan flag | scan, rescan, lookup | gateway, downloads | files that change under a scan, a source that fails, a scan that overlaps a download | a start loads what was asked for; a source that fails hides no other |
| Downloads (`download.rs`) | jobs, `.part` files | start, cancel, resume, run | catalog, gateway | two jobs on one file, cancel against completion, restart | a file in place is complete and verified |
| Staging (`staging.rs`) | stage directory, commit markers | stage, commit, recover, clean | downloads | crash between any two steps, concurrent recovery | a committed stage is whole |
| Kernel worker (`kernel_worker.rs`) | VRAM, RAM and disk maps, pins, events: one mutex each | load, evict, prefetch, pin, report, monitor thread | chunk code | lock order, checks under one lock and acts under another | pins respected |
| Chunk cache (`chunk/loader.rs`, `rollback.rs`) | entries, byte total | load, insert, evict, clear | archive | concurrent misses, damaged files | within the budget |
| Chunk archive (`chunk/packer.rs`, `gguf.rs`, `index.rs`, `warmup.rs`, `classify.rs`) | chunk files, manifest, tensor index | pack, verify, load, warm | files | a packer that dies, rot, fallback | a tensor comes back as it was, or not at all |
| Evidence (`evidence/*.rs`) | channel, buffers, cached file handles | write, flush, shutdown, rotate | file system | one file of several fails; rotation against a cached handle; crash | what flush acknowledged has been handed to its file; no record is dropped without a failed write or rotation |
| Logs (`persistence.rs`, `analysis/store.rs`) | append-only files | append, load | gateway, analysis | two write calls per line, either of which may fail | a line is whole |
| Planner (`planner.rs`, `resources.rs`) | none | plan | gateway | rounding, minimums, memory that moves | a plan fits into what was measured |
| Monitor (`monitor/*.rs`, `performance.rs`) | cooldown per trigger, hysteresis | capture, evaluate, evict | analysis | clock and backoff | firings back off |
| Analysis (`analysis/*.rs`) | job times, idempotency keys, policy versions | due, submit, propose, gate | monitor | gates in order over windows that need not belong together, clocks that go back | a measured regression is not promoted; runs keep their interval |
| MCP client (`mcp.rs`) | a server process, its output channel | list, call | tools | late and repeated answers, a server that dies | a result is the answer to this call |
| Assistant, learning, tool registry | tables, files | match, store | gateway | - | - |
| Kernel modules (`kernel/*.c`, `hixx-native/kernel`) | ring of 64 slots, metrics, page table | push, pop, ioctl | hixx daemon | lock-free readers, full and empty ring | FIFO, bound |

The parts of section 2 are modelled; `PROJECT.json` gives the status of every
part and lists the hazards with their lines.

## 2. What is modelled

### WorkerSupervisor.tla

| State | Code |
|---|---|
| `child`, `state`, `activeModel`, `lastFailure` | fields of `WorkerSupervisor` |
| `processSlot`, `slotOwner[p]` | `process_slot` (the lease) and `AtomicSlot.owner` of process `p` |
| `flock` | the supervisor whose `slot_lock` file handle has the lock |
| `pc`, `call` | where the running method stands, its arguments and locals |
| `wstat`, `portOf`, `listener`, `crashes` | the world: life of each child process, its port, who listens on a port, SIGKILLs so far |

One supervisor runs one method at a time (`&mut self`); each system call whose
order matters is a step of its own, so the steps of several supervisors, their
workers, other programs on the port and a SIGKILL interleave:

| Actions | Code |
|---|---|
| `CallStart`, `Preflight`, `AcquireProcessSlot`, `OpenLockFile`, `TryFlock`, `Spawn` | `start` from its guard to the spawned child, with an error exit after every step |
| `PollExit`, `PollChance`, `Deadline` | the readiness loop of `start_and_wait`: the worker found dead, ready, answering 503, or the deadline |
| `RetryPort` | the second start of `start_and_wait_with_retry` after a port conflict |
| `Reap`, `ReleaseFlock`, `ReleaseProcessSlot` | `cleanup_failed_worker` and `stop`, in the order of the code |
| `CallRefresh`, `CallStop` | `refresh`, `stop` and `Drop` |
| `WorkerBind`, `WorkerLoaded`, `WorkerExit`, `ForeignBind`, `ForeignClose` | the worker and other programs (external) |
| `Crash` | the engine process is killed: its flock goes, its child stays |

Left out: the content of the worker's command line and of its log (an exit is
either a port conflict or another failure, which is all the code distinguishes),
CPU pinning, and the values of the timeouts (the deadline may pass at any time).
`preflight_worker_policy` reads the machine; it is a choice between its verdicts.

`ModelSlot.tla` is the promise in 25 lines: a slot that is claimed, may run one
worker, and is released only without one. `WorkerSupervisor` implements it with
`holder <- flock` and `running <- \E s : child[s] # Nobody`.

### Engine.tla

EXTENDS `WorkerSupervisor` with the fields of `Engine` (`estate`, `emodel`,
`eport`), `MiniModelSupervisor.active` (`mini`) and the method in progress
(`job`). An engine method that calls the supervisor is split at that call, so
that the supervisor's own steps run inside it; a guard that refuses a call makes
the action impossible. `EngineCrash` resets the engine with its process.
`FairEngineSpec` composes both layers.

`EngineLifecycle.tla` is the life cycle over state, model and whether a worker
exists; `Engine` implements it. It is that of the enum and the methods of
`engine.rs`, and has transitions the drawing in `docs/USAGE.md:81-86` lacks: a
rollback that fails or starts from Failed, and a stop of an engine that is not
Ready. Its Draining is over within `stop_model` (`engine.rs:170`).

### HttpGateway.tla

One thread per connection, over the engine of `EngineLifecycle`: a thread inside
the engine mutex takes that module's steps, so the gateway is checked against
everything `Engine` may do (which the run `engine` shows it does).

| State | Code |
|---|---|
| `engineLock`, `planLock` | the thread that holds the guard of `engine.lock()`, of `latest_plan.lock()` |
| `plan`, `gen` | `ServerState.latest_plan`; what `resources::read` would find now |
| `registry`, `flag` | `ServerState.cancellations`: whose `AtomicBool` an id stands for; the flag of a thread's request |
| `active` | `ACTIVE_CONNECTIONS`, with the places that panics have left taken |
| `pc`, `req` | where a thread stands; its parsed request |
| `cancelled` | history: ids for which a cancellation was answered with 202 |

| Actions | Code |
|---|---|
| `Accept`, `ReadFails`, `Register`, `Close` | `serve_with_catalog`, `handle_connection` up to its routes, the cancellation guard and the end of the thread |
| `RunTools`, `ToolPanics` | the tools of a round, outside the mutex: the next round, an end, or a panic, which drops the guard and skips the `fetch_sub` of the connection |
| `Cancel` | `POST /api/requests/<id>/cancel` |
| `PutPlan`, `LockPlan` | `plan_and_respond`; the plan mutex and the two validations of a planned start |
| `Lock`, `Unlock` | a handler's guard of the engine mutex; a chat with tools takes it once per round |
| `Refresh`, `Start`, `Stop`, `BeginInference`, `FinishInference` | the engine calls of the handlers |
| `Send`, `ProxyEnds` | `proxy_worker_json` up to the write to the worker, and its read loop |
| `StreamChunk`, `ClientTakes` | the relay of a stream, chunk by chunk |
| `ResourcesChange` | the machine (external) |

Left out: the text of requests and responses; embeddings, which are a chat of one
round; routes that only read, and those of catalog, downloads and stages, which
use locks of their own; panics elsewhere, and lock poisoning (a tool runs without
a lock). Panics unwind in a development build only: the release profile aborts
the process, which is `Crash` of `WorkerSupervisor`. The plan of a request is of
any generation, because resources come with the request or from an earlier
snapshot. The variants `Request::StartModelPlanned` and `Response::Accepted` that
`http.rs` uses are missing from `api.rs` at this commit; the model follows
`http.rs`.

### Downloads.tla (downloads, staging)

A job is a thread that goes through `stage`: connect, stream, hash, rename,
commit, inspect, list and recover, copy, place, clean. Each step that
another thread or a crash can see is an action; the `.part`, `.bin` and `.commit`
files are `part`, `bin`, `commit` per key, the model directory is `placed`. An
open handle follows its file through a rename, as on Linux. A file is a sequence
of units and a unit may arrive damaged. The server announces a length or not,
honours a range or not, stops at any unit; a client cancels at any time; a disk
fails; the process dies (`DLCrash`) and the next one starts with the files it
finds. Nothing keeps two jobs from working on one key at a time; `contested`
remembers the keys on which that has happened. The scan that follows a download
is that of `ModelCatalog`.

### MemoryTiers.tla, ChunkCache.tla, ChunkArchive.tla

`MemoryTiers`: threads in the methods of the kernel worker and the monitoring
thread, one step per mutex held at a time, with the answers of `nvidia-smi` as
input. `overlapped` remembers that two callers were inside at once.

`ChunkCache`: loads of several threads as the code splits them (ask, read
unlocked, insert), the byte count next to the entries, verification on load, and
the fallback file, which may be gone, damaged or without a place for a tensor. A
chunk gets its time stamp before the insert takes the lock, so it may go behind
chunks of the cache that were touched since: `since` remembers which. `ChunkArchive`: a GGUF file is its header and a list
of tensors with offsets; `pack_gguf` reads tensor by tensor into the chunk that is
being put together (`group`, `raw`, and `located` for the places the index will
name), writes chunk by chunk, then manifest, then index, then verifies, and may
fail or die at each point; files rot; a tensor is loaded from what is there. The
code forms all groups before it reads the first tensor; they depend on sizes and
categories only, so forming them on the way gives the same chunks. A byte is its
position in the GGUF, which makes a digest the data itself. `WarmupPlan` is the
list `execute` makes; `InOrder` is its sort.

### EvidenceLog.tla, JsonLines.tla

`EvidenceLog`: `WriteRecord`, `RequestFlush`, `RequestShutdown` put messages into
the bounded channel (a shutdown consumes the writer, so no flush waits then), or
the writer is dropped and the channel ends. The task takes one message at a time
and flushes buffers one by one: `work`, `todo`, `reply` are where
`flush_all_buffers` stands. `write_all` on a tokio `File` copies the buffer and
answers; a thread of the pool writes it (`flight`, `PoolWrites`), and if that fails
(`PoolFails`) the next write to the same `File` hears of it (`unheard`,
`HearOfFailure`), or nobody. A buffer that is larger than a `File` takes at once
goes piece by piece, and may fail halfway with a part of it written, which a retry
writes again. A failed write may leave a piece of a record (`Torn`), and the next
record is glued to it. `sync_all` waits for the write under way and its error is
only logged. Rotation lists, renames and unlinks by name, beside the task and its
cached handles.

`JsonLines`: both journals of two-write appends. `AppendFails` is an open or a
write that fails: nothing may have been written, the beginning of the JSON (`cut`),
or all of it without its newline. What a load of a session returns is computed
from the tokens in the file (`Load`): a line counts when it is alone between
newlines and whole, and not when it is longer than the limit; a file over its
limit is refused. The policy store has no reader; its property is about the lines
of the file.

### ModelCatalog.tla, Planner.tla, Monitoring.tla

`ModelCatalog`: a scan goes through the sources, lists each, hashes a file,
inspects it, adds an offer, while files change; the result replaces the catalog
at the end. `ReadsValue`, `Inspects`, `FamilyOf`, `ContextOf` are the header
reader, `ReadsManifest`, `Claims` the Ollama manifests, `Merge`, `Metadata` the
conflict rules of the catalog. A root, a file or a blob may fail to be read
(`failed`; `lostRoots` for the scan that was published). A start takes a digest (`StartModel`) or a path;
of a start it is remembered (`started`) whether the file that was taken, and
whether any location of the model (`settled`), has changed since its scan began.

`Planner`: `Normalized`, `Plan` and `PartialLayers` are the arithmetic of
`planner.rs`. The share of layers is an f64 quotient times the layers, rounded
down; where the exact value is a whole number it may come out one less, which the
constant `RoundedDown` says for each such triple (the run has one that does). A
generation is the tuple the code hashes (no
collisions); free memory moves between a plan and its use.

`Monitoring`: a clock, snapshots, the two families of triggers with their
hysteresis and backoff, and the eviction controller.

### RequestEdge.tla, ProjectTools.tla, ToolChat.tla

`RequestEdge` (operators, no state): what a chat, an embedding or an attachment
is refused for, in the order of the code, and what the prompt is after
compression and caps. `ProjectTools`: which paths a tool accepts, what it visits,
and whether it ends in a result, an error or a panic; a sandboxed command whose
background child keeps the pipe open has no end (`held`), because
`wait_with_output` has no timeout. `ToolChat` is the loop
around them, with several chats at once: the worker answers with tool calls or
without, each call ends as above, a write goes through create, write and rename,
usage adds up, the chat ends answered, failed, or gone with its thread. `shared`
remembers the temporary files that two writes have had at one time.

### Analysis.tla, McpSession.tla

`Analysis`: `TakeDue`, `Submit`, `Propose` and `Judge`. The repository has no
caller of them, so any job is submitted, any window proposed, and any proposal
judged beside any window, and the clock is read in any order. The f64 quotient of
a decode change is compared as it comes out: 1.2 - 1 is below a fifth and 1.1 - 1
above a tenth (`AboveTenth`, `AboveFifth`). `McpSession`: the
handshake, the request ids, the reader thread's channel, a server that answers
anything in any order and asks under any id, and the end of the session in every
way.

### MCComponents.tla

The modules above share no state with each other, so one run has all of them:
the first step picks the component that runs and the others keep their initial
states. State spaces add up instead of multiplying.

A definition under a comment "Seeded fault" is a wrong variant of the action
below it. No specification uses it; it documents which slip in the code each
property would notice.

## 3. Runs

| Run | Question | Instance |
|---|---|---|
| `slot_processes` | Is there ever a second supervised worker, a worker without locks, a forgotten worker or a forgotten flock, with two engine processes one of which may be killed? | 2 supervisors in 2 processes, 1 model, 1 port, 2 worker ids (symmetric), 2 flock attempts, 1 crash |
| `slot_threads` | Do lease and slot agree, is the abstract slot implemented, and does every call return, with two supervisors in one process? | as above in 1 process, no crash, fairness |
| `engine` | Does the engine agree with its worker between calls, keep a worker under a request, follow the life cycle, and return from every call? | 1 engine, 2 models (primary and fallback), 1 port, 2 workers, 1 flock attempt, 1 crash |
| `gateway` | Does a planned start run the latest plan, is the engine Busy only under its own request, is a cancelled request kept from the worker, is a registered id that of a request still there? | 3 connection threads, 2 at a time; the second may carry the first one's id, the third only fills the bound; panics of tools; 2 models, 2 generations, 1 tool round |
| `gateway_returns` | Does every connection end? | as above with 1 model, 1 generation, own ids, fairness |
| `slot_leak` (violation) | Is the slot free after a failed start? No: the `?` at `supervisor.rs:166`. | 1 supervisor |
| `start_hangs` (violation) | Does a start return although the worker never finishes loading? No: `supervisor.rs:369` jumps over the deadline. | 1 supervisor, no fairness for the load |
| `ready_while_loading` (violation) | Is a worker that answers 503 never reported ready? `refresh` reports it (`supervisor.rs:449`). | 1 supervisor |
| `stalled_stream` (violation) | Does every connection end although a client stops reading its stream? No: `http.rs:1983` writes without a timeout. | as `gateway_returns`, no fairness for the client |
| `components` | Do the twelve parts of the modules from `Downloads` to `ChunkArchive` keep their properties (list below)? | see below |
| `torn_write` (violation) | Are writes of tools atomic? No: `coding_tools.rs:410`. | 2 chats, the targets `a.rs` and `a.md` |
| `session_lines` (violation) | Is a line of a session always in one piece? No: `persistence.rs:158`. | 2 threads, 2 journals, 4 lines; the counterexample has no crash and no failed write |

Why these bounds are enough: the lock logic compares a supervisor with "somebody
else", so two supervisors meet every case of it, once sharing the AtomicSlot and
once not; two worker ids let an old worker and a new one live side by side, and
an orphan beside both; the flock loop needs one failed attempt before the last
one; one crash leaves one orphan, and a restarted process starts from `Init`'s
values, so more crashes add orphans but no new kind of state. One port makes
every pair of workers conflict. In the gateway each lock has a holder and a
waiter, and a wait for each other needs two threads and the two mutexes; a
closed connection's thread identity is used again, so sequences of connections
are unbounded. `MaxConnections` is 2 of 64, and a third thread meets
the full bound, `MaxRounds` 1 of 4: one round is enough to have the mutex released and
taken again. `gateway_returns` drops what only data differs in. `engine` needs two models because failover and
switch change from one to the other; a second engine would only repeat what the
slot runs show. Where there are proofs (section 4) they remove the bounds.

The properties of `components`, each about a hazard of `PROJECT.json`:

| Property | What it says |
|---|---|
| `PartIsPrefix`, `PlacedIsVerified`, `JobsEnd` | over resumes, restarts and crashes a `.part` neither repeats nor skips; what is placed was verified; every job ends. The first two except keys two jobs have fought over |
| `PinnedStays` | as long as callers do not overlap, nothing evicts a pinned page |
| `CacheWithinBudget` | what the cache holds is within its budget, although two misses of one chunk are both counted |
| `OkMeansHandedOver`, `EvidenceKept` | after an Ok nothing older is left in memory, and after a shutdown nothing is under way; a record is somewhere or on a line of its own, unless its write failed in the pool, a torn piece spoiled it, rotation took it, or the last flush failed |
| `LockedLosesOnePerFault` | a journal under its lock loses at most one acknowledged line per crash or failed append |
| `StartedIsAsked`, `GoodFilesStart` | a start runs the bytes that were asked for; a failing source hides no good file |
| `CurrentPlanFits`, `MoreMemoryNeverHurts` | a plan that counts as current fits; more memory gives no worse plan |
| `FiringsBackOff` | waits double with every firing, up to their maximum |
| `LoneWritesAreAtomic` | a target is whole at every moment, whatever other targets' writes do, fail or crash, unless its own temporary file was shared |
| `AnswerAccountsForRounds` | an answer shows the usage of all rounds and no result is left unsent |
| `MeasuredRegressionBlocks`, `RunsAreSpaced` | from a window through a proposal to a verdict beside another window, a measured regression is not promoted and a large one rolled back; runs keep their interval though clocks go back |
| `ResultIsOwnAnswer` | a result is the answer to this very call |
| `TensorsComeBack`, `WarmupLoadsUrgent` | a tensor comes back as it was or not at all; a limited warmup leaves out nothing more urgent |

The instance of `components`: three downloads of files of two units, two of them of
one file, so that two jobs meet at every step and one is beside them; two pinned,
and one file damaged now and then, so that one verifies by hash and one by header,
and a restart finds parts of none, one and both units; two starts in a behaviour;
two callers and the monitor over two pages and a budget of one, the least at which
loads evict; a cache of three bytes and chunks of one, three and four (fits beside,
fills, never fits), one of them broken, one unreadable, one without a place in the
fallback; two evidence files of which one fails, two records in buffers of two
through a `File` that takes one at a time, so that a buffer is flushed full, by a
flush or by the timer, and fails in its first piece or its last; a channel of
three, which holds both records and a flush; two threads over one journal of each
kind, four lines, two crashes and a failed append; three paths, one per source, two
of them with one content, and one change; memory values on both sides of every
threshold of the planner, and below its reserves; a cooldown that doubles once
before its maximum (further doublings are only in the theorem); two chats, one round
of tools and one call in each, every other tool with inputs for each of its ends,
one chat writing `a.rs`, the other `a.md` of the same temporary file or a third
target of its own; windows on both sides of
every gate, one without a baseline; two MCP sessions, three lines per session beyond
the answers, with ids of the server's own and one that the client uses; four GGUF
files (all kinds of chunks, a duplicate name, a refused version, an empty tensor)
and two attempts to pack.

Deadlock is checked in the runs of the worker and the engine, and in `gateway`. In
`gateway_returns` and `stalled_stream` every place of a connection may have been
left by a panic, and then nobody is served. In `components` and the two runs beside
it behaviours end at a bound, and the pin and the pressure eviction of
`MemoryTiers` may wait for each other (section 5).


### Fairness

`SupervisorFairness`: a method that was called takes its next step (a thread is
scheduled, and system calls return). The readiness loop samples the port every
20 ms, so a condition that holds again and again is eventually seen: strong
fairness of `PollExit`, the "seen dead / seen ready / deadline" decision. Clocks
advance: `Deadline`. A worker whose port is taken exits: `llama-server` does.
`WorkerFairness`: a worker that bound its port ends its load; `start_hangs` drops
just this assumption. Callers, crashes, other programs and failing probes get no
fairness. `EngineFairness` is the same for the composed steps.

`ThreadFairness`: strong, because a thread that waits for a mutex must get it
although others keep taking it (`std::sync::Mutex` is not fair in theory; threads
that take it again and again are parked by the OS in practice). It covers the
engine calls, which return (`EngineCallsReturn`), and `ProxyEnds`, which the
deadline of `proxy_worker_json` forces. `RequestsArrive` and `StreamsAreRead` are
assumptions about clients: sockets of clients have no timeouts, so a client that
sends nothing keeps its thread (and no lock), and one that does not read its
stream keeps the engine as well; `stalled_stream` drops just the second.

`DLFairness`: the thread of a download runs on. Reads and connects of its HTTP
client time out, so the next unit of the server comes or fails. The clients that
start and cancel jobs, scans and the other components get no fairness.

## 4. Proofs

`WorkerSupervisorProofs.tla` proves, for all sets of supervisors, processes,
models, ports and workers, all numbers of flock attempts and all crash bounds,
under `SlotAssumption` only (every supervisor lives in a process, at least one
attempt, some port, and `Nobody` is none of the identities):

| Theorem | Statement |
|---|---|
| `TypeCorrect` | `Spec => []TypeOK` |
| `SingleWorker` | `Spec => []AtMostOneSupervisedWorker` |
| `SlotCovers` | `Spec => []SlotCoversWorker` |
| `NoWorkerIsLost` | `Spec => []NoWorkerLost` |
| `FlockReturned` | `Spec => []FlockFreeAtRest` |
| `ReadyMeansChild` | `Spec => []ReadyOwnsChild` |
| `LeasesMatch` | `Spec => []LeaseMatchesSlot` |
| `RefinesModelSlot` | `Spec => ImplementsModelSlot` |

All rest on one inductive invariant, `IInv`. None of the properties is inductive
alone: that there is one worker follows only from "a child implies that its
supervisor has the flock", and a spawn keeps that only because a method that
stands before the spawn already has the flock, the lease and no child. So `IInv`
has: `TypeOK`; `ChildHoldsFlock` and `FlockIsUsed` (who has a child has the
flock, and who has the flock has a child or is on the way to or from one);
`StepFacts` (what the method has established at each `pc`); `ChildHasModel` and
`LeaseOwnsSlot` (child, model and lease belong together, one lease per process);
`ReadyUntilReset`; `NoWorkerLost`. `InitEstablishesIInv` and `NextPreservesIInv`
(one step per action, one substep per conjunct the action can disturb) give
`IInvHolds`; each theorem is a consequence. `SlotStep` and `CrashStep` map every
step to a step of `ModelSlot` or to a stutter.

`EngineProofs.tla`, for all supervisors, processes, models, ports and workers,
under `SlotAssumption` and `ManifestAssumption`:

| Theorem | Statement |
|---|---|
| `EngineTypeCorrect` | `EngineSpec => []EngineTypeOK` |
| `EngineAgrees` | `EngineSpec => []EngineCoherent` |
| `OkMeansSelected` | `EngineSpec => []EnsureReadyDelivers` |
| `BusyIsLeftAlone` | `EngineSpec => BusyKeepsWorker` |
| `FollowsLifecycle` | `EngineSpec => ImplementsLifecycle` |

An engine method drives its supervisor through many steps, so what the engine
believes is true only between calls. `EngineInv` keeps `IInv` (all an engine does
to supervisors is call them) and says for each method in progress what holds: a
start that found the supervisor empty has, once there is a worker, the worker and
the port it asked for (`RunningStart`); a refresh reaps only a dead worker
(`RunningRefresh`); a stop ends empty-handed (`RunningStop`); what follows a stop
starts from nothing (`AboutToRestart`); inside `ensure_ready` the model in work is
the selected one (`Ensuring`). `OthersStay` and `WorldLeaves` are the frame: other
supervisors, workers and programs leave all of it, because only the one holder of
the flock spawns. `StepFor` and `LifeStep` split a step by the engine it is about.

`HttpGatewayProofs.tla`, for all threads, models, request ids, generations and
bounds, under `GatewayAssumption`:

| Theorem | Statement |
|---|---|
| `GatewayTypeCorrect` | `Spec => []GatewayTypeOK` |
| `PlannedStartsAreLatest` | `Spec => []StartRunsLatestPlan` |
| `BusyUnderItsProxy` | `Spec => []BusyIsProxied` |
| `RegisteredRequestsRun` | `Spec => []RegisteredIsRunning` |
| `CancellationIsKept` | `Spec => CancelledNotForwarded` |

The invariant `GInv` says, for a thread at a step, which mutexes it has
(`MutexInv`), which operations come to that step (`OpInv`), and what it has
established: that the plan it checked is still the latest (`PlanInv`, because the
plan mutex is kept over the start), that the engine is Busy only below a proxy
(`BusyInv`), that no fewer connections are counted than are open (`CountInv`:
more, once a handler has panicked), and that an id stands for a thread that has it
and a cancellation that was answered has set that thread's flag (`CancelInv`). Without `MutexInv` none of the others is kept by a step of another
thread.

`EvidenceLogProofs.tla`, for all files, capacities, buffer sizes, pieces of a `File`
and any files whose opens and writes fail: `OkLeavesNothingBehind`
(`OkMeansHandedOver`) and `NoRecordIsLost` (`EvidenceKept`). A flush answers for
messages that were sent before it, so `LInv` is about the order in the channel:
behind a flush that waits there are only records younger than it, behind a shutdown
nothing (`Waiting`); while a flush works and has met no error, what it is done with
is empty (`Emptied`); after a good answer all that is in memory is younger
(`Younger`). `ReadableGrows` and `Appending` say what a write, whole, half or torn,
makes of the lines of a file.

`ChunkProofs.tla` is about the memory side:

| Theorem | Statement | For all |
|---|---|---|
| `PinsHoldAlone` | `MTSpec => []PinnedStays` | callers, pages, budgets |
| `CacheStaysWithinBudget` | `CCSpec => []CacheWithinBudget` | threads, chunks, sizes, budgets |
| `TensorsComeBackWhole` | `CASpec => []TensorsComeBack` | GGUF files, alignments, packer configurations |
| `WarmupTakesMostUrgent` | `CASpec => []WarmupLoadsUrgent` | the same, and warmup limits |

The pin is looked at under one mutex and used under another, so `TInv` says what a
caller that is alone has seen and still finds, and that the monitor beside it does
nothing but evict. `CacheInv` adds to the property that the LRU order lists every
entry once: an eviction takes a prefix of the order, and only then is what is
subtracted from `bytes` no more than what leaves the cache. The sums over entries
are cardinalities of sets of bytes (`Held`), so that they add up by the library's
theorems on finite sets. `TensorsComeBack` says nothing of an archive that is being
packed, so `ArchiveInv` follows each tensor: into the buffer at the length the
buffer has (`LocatedAreHeld`), with the buffer into the digest of a descriptor,
from there to manifest (`ManifestHolds`) and index (`IndexHolds`); the chunk files
do not occur in it, as rot may change them at any time, and `HeldComesBack` then
says that whatever has a chunk's digest gives back each of its tensors.
`PlanIsMostUrgent` needs that a finite set can be listed by a total order:
`SortedExists` gives each element the number of those before it as its place,
which needs no induction.

`DownloadsProofs.tla`, for all jobs, keys, sizes, pins, damaged files and any
number of crashes, with any number of jobs for a key: `PartsStayPrefixes`
(`PartIsPrefix`) and `PlacedStaysVerified` (`PlacedIsVerified`). Both say nothing
of a key once two jobs have worked on it at a time, because the code mixes their
bytes then (section 5), and everything of every other key. `StageInv` in `DInv`
says what the files of such a key hold at each stage of its one live job
(`OneJob`): a resume position is the length of the part, a renamed part was
verified, a copy holds what was verified.

`ChatProofs.tla` is about the parts around a chat:

| Theorem | Statement | For all |
|---|---|---|
| `McpResultIsOwnAnswer` | `MCPSpec => []ResultIsOwnAnswer` | tools, jobs, server ids |
| `ChatAnswerAccountsForRounds` | `TCSpec => []AnswerAccountsForRounds` | chats, rounds, calls, usages |
| `LoneWritesStayAtomic` | `TCSpec => []LoneWritesAreAtomic` | chats, targets, temporary files |
| `JournalLosesOnePerFault` | `JLSpec => []LockedLosesOnePerFault` | threads, journals, lines, crashes, failures |

`MInv`: the i-th request of a session has the id i and is of this session's job
once there is a second one, and a line that carries a result answers a request
that was sent; without the first part an answer to `initialize` could pass for
the tool's. `TInv` balances the accounts of one chat: the results not yet sent
back are those of this round, and the worker is asked only when there are none.
`WInv` says where the write of a chat stands (`LoneWrite`), what its open file is
(`OpenFile`), and that two chats at one temporary file have made it `shared`
(`SharedWith`); nothing is assumed of the names, and `torn_write` shows what
becomes of a target whose temporary file was shared. In a locked journal an
acknowledged line can be spoiled only by what stands before it, and a torn end may
still spoil the next line; `JInv` therefore counts the end of the file (`Spoils`)
as a debt beside the lines already lost, and a crash or a failed append pays for
one of them (`Paid`).

`DecisionProofs.tla` is about the parts that decide:

| Theorem | Statement | For all |
|---|---|---|
| `AnalysisBlocksRegressions` | `ANSpec => []MeasuredRegressionBlocks` | windows, proposals, verdicts |
| `AnalysisRunsAreSpaced` | `ANSpec => []RunsAreSpaced` | kinds, intervals, clock readings |
| `PlannerCurrentPlanFits` | `PLSpec => []CurrentPlanFits` | profiles, resources, reserves |
| `PlannerMoreMemoryNeverHurts` | `PLSpec => []MoreMemoryNeverHurts` | profiles, resources, reserves |
| `MonitorFiringsBackOff` | `MOSpec => []FiringsBackOff` | triggers, cooldowns, times |
| `CatalogStartsWhatIsAsked` | `MCatSpec => []StartedIsAsked` | files, headers, manifests, changes |
| `CatalogGoodFilesStart` | `MCatSpec => []GoodFilesStart` | the same |

`VerdictInv`: every proposal came from some window and every verdict from some
proposal and some other window; `GatesBlock` is the chain of gates over any two
windows. `RunsInv`: no run is later than `last_run_ms`, which a clock that goes
back never lowers. `PInv` is small (a plan is what `plan_with_runtime` makes of
some profile and some resources); the work is in the lemmas on rounding:
`DivisionKeepsOrder`, `UsableGrows`, `PartialLayersGrow`, `LanesImprove`. `FInv`
ties the cooldown to the number of firings, `PowersDouble` gives the powers of two.
`CInv` follows a file through a scan: what is pending or hashed is what is on disk
unless the path changed since the scan began (`InHand`), every file of a root that
was read is on its way or offered (`NoneOverlooked`), and a published catalog
keeps both (`Published`).

What the proofs changed in the models. `CurrentPlanFits`
did not cover KV memory and disk and was false of a plan that needs nothing where
less is free than the reserves keep; the run has such values now. A start could be
called paged for a family of another location that was replaced between its hash
and its header (`settled`; section 5). The packer's groups and the warmup's sort
were library operators over sequences that the provers cannot expand; they are
steps and a CHOOSE with the same values.

Every safety invariant of a passing run, every action property and every
refinement is stated by a theorem. Only model-checked is liveness (`CallsReturn`,
`EngineCallsReturn`, `HandlersReturn`, `JobsEnd`): leads-to under fairness and
ENABLED are out of the prover's reach. Of recursive or folded definitions only
what holds without induction over data is proved: `FromFallback` (a FlattenSeq)
is used only where its result has a digest, `PowersDouble` counts subsets.
The assumptions are those named in the modules, which TLC evaluates in
every run. Environments are proved about as they are modelled: ids of processes
are never used again, SHA-256 has no collisions, a lock excludes. The properties
of the violation runs do not hold of the code.

## 5. Findings

Six runs end in a counterexample on purpose; each states what a comment of the
code says and shows the code doing otherwise: a leaked slot (`slot_leak`), a
deadline that is skipped (`start_hangs`), a loading worker reported as ready
(`ready_while_loading`), an inference timeout that does not reach a stream whose
client stopped reading (`stalled_stream`), a temporary file that two targets
share (`torn_write`), session lines that interleave (`session_lines`).
`PROJECT.json` quotes the lines.

Observed while modelling, without a run: an engine that is Loading or Busy makes
`ensure_ready` fail over for good although the primary model is healthy
(`fallback.rs:139`); `refresh` writes Ready over Busy (`engine.rs:123`), which is
harmless only because the gateway keeps its mutex for the whole request
(`BusyIsProxied`); after a SIGKILL of the engine its orphaned `llama-server` runs on
beside the next engine's worker (`supervisor.rs:156`: the flock is close-on-exec). Because of that mutex, too, a request that meets a busy engine
waits for it instead of getting the error of `docs/API.md:20-22`, `queue_depth`
is always 0 (`http.rs:269`), and a stop is never refused as busy. Whether the
resources still are those of the plan is looked at before the wait for the
engine. A cancellation that is answered with 202 has no effect on the chat of
`POST /` (`http.rs:1381`), and an id that two connections share stands for the
later one. A stream that is cancelled or runs into its deadline after its first
bytes gets a second response head behind them (`http.rs:1780-1796`).

Of the other components:

- Downloads: `create` accepts two jobs for one url and name (`download.rs:258-323`);
  both append to one `.part` file and mix their bytes, each may rename or remove
  what the other has verified, and what is placed may be damaged (drop `\ contested`
  from a property to see it). Once a `.part` is complete and the process dies, the
  next job asks for a range past its end; the server refuses, and the job fails
  however often it is tried. A scan that began before a download was placed may
  publish after the scan of that download and hide the model until the next scan,
  which `download.rs:23-29` rules out (`http.rs:1455`; the models have one scan at a
  time); a scan that panics leaves the flag set.
- Kernel worker: `pin_chunk` takes the VRAM map and then the pins,
  `evict_cold_entries` the other way round (`kernel_worker.rs:470`): they can
  wait for each other for ever. Two callers at once can evict a pinned page (the
  pin set is read, unlocked, and used, 279) and reset a pin count. Two calls of
  start within an interval leave two monitoring threads, with several GPUs the
  last line of `nvidia-smi` decides, and the pressure is cut to eight bits.
- Evidence: the comment of `flush`, "Flush all buffers to disk" (`jsonl.rs:116`),
  promises more than `write_all` without an awaited `flush()` gives: Ok means that
  the records were handed to the file. A write that fails after that is reported to
  the next flush of the same file, whose records it then keeps back, or to nobody if
  there is none; `sync_all` errors at shutdown are only logged (173-176), and
  shutdown still answers Ok. A retry repeats what was written of its buffer and may
  glue its first record to a piece of one. Records that go to a file rotation has
  unlinked count as written. When the writer is dropped instead of shut down, errors
  of its last flush vanish (184).
- Logs: an append whose second write fails (`store.rs:51`, `persistence.rs:160`)
  reports an error and leaves its line without a newline; the next line, which is
  acknowledged, lands behind it.
- Tools: a text is cut at a byte limit (`coding_tools.rs:244`, 395), which panics
  inside a character: the unwinding thread gives its cancellation id back and never
  reaches the `fetch_sub` at `http.rs:181`, so after 64 such panics the gateway serves
  nobody (a release build aborts instead); a sandboxed command that
  fills its pipe never ends before its timeout, because nothing reads the pipe
  until it exits, and one whose background child keeps the pipe open holds its
  request for as long as that child lives (237-239; the timeout watches and kills
  only `sh`); one unreadable directory fails a listing; one failing call
  fails the chat after the writes before it; the limit of rounds is looked at
  after the last round's tools have run (`http.rs:862-876`); the results of all
  tools are named `read_attachment`.
- Request edge: an absent `max_tokens` is not capped; the input of embeddings is
  not prepared; a default attachment id may equal an explicit one.
- Catalog: a manifest that names a missing or unreadable blob makes a good file of
  the same digest unstartable, against `model_sources.rs:3-5`; a root that is not found is empty without a warning; the
  catalog is stale once a file is replaced; a location that is replaced between
  its hash and the reading of its header lends its family to the other locations
  of that digest, so that a model is called paged that is not.
- Planner: a partial offload may be planned that leaves no room for the context
  (`http.rs:2048`); the context has a minimum of 512 even for smaller models.
- Monitor: the first firing already doubles the cooldown; `reset_if_stale` has no
  caller. Analysis: versions start again after a restart; a window without a
  baseline counts as unchanged (`policy.rs:26-27`), so any regression of it is
  promoted; a proposal is judged by the observations of whatever window the caller
  passes.
- MCP: the timeout starts again at every line; a request of the server with an id
  of the client's is taken for the answer, which has no result then: the call
  fails although its answer may follow.
- Archive: a frame as large as its data is read as raw data, so packing such a
  chunk fails its own verification; the input is opened by path several times;
  tensors of one name cannot be told apart; the report of a warmup counts the
  tensors of chunks it left out.

## 6. Plan

| # | Modules | Composition | State |
|---|---|---|---|
| 1 | `WorkerSupervisor`, `ModelSlot`, proofs | the slot is implemented by the supervisors | modelled, checked, proved |
| 2 | `Engine`, `EngineLifecycle` | EXTENDS 1; implements the life cycle | modelled, checked, proved |
| 3 | `HttpGateway` | on the actions of `EngineLifecycle` under a mutex | modelled, checked, proved |
| 4 | `Downloads`, `ModelCatalog` | - | modelled, checked, proved |
| 5 | `MemoryTiers`, `ChunkCache`, `ChunkArchive` | - | modelled, checked, proved |
| 6 | `EvidenceLog`, `JsonLines` | - | modelled, checked, proved |
| 7 | `Planner`, `Monitoring`, `Analysis` | - | modelled, checked, proved |
| 8 | `RequestEdge`, `ProjectTools`, `ToolChat`, `McpSession` | EXTENDS chain | modelled, checked; `ToolChat`, `McpSession` proved |
| 9 | proofs about 2 to 8 | - | all safety properties, section 4 |
| 10 | the rest of section 7 | - | open |

## 7. Not modelled, and why

- The rendering of JSON and of metrics, logging, benchmarks and storage probes,
  configuration: no state that another part depends on.
- `supervisor/primary.rs` and `manifest.rs` wrap the supervisor with a static list
  of models; expert tracker, MoE routing and speculative decoding are counters and
  parsers beside the worker; `assistant.rs`, `learning.rs` and `tool_registry.rs`
  match texts against tables and keep small files. They are next if the models grow.
- Two scans of the catalog at a time, the manual one and one after a download.
- Crashes of the machine: what is written counts as kept once the system call has
  returned.
- `stage_bytes`, `cleanup_incomplete`, the periodic rotation and the second writer
  of the evidence module, the alias table of `model_registry.rs`, the expert
  classes of the kernel worker.
- The kernel modules in C and the hixx daemon.
- The twins `supervisor/slot/mod.rs`, `supervisor/manifest/mod.rs` and similar are
  not part of the compiled module tree. `crates/` are stubs.
