----------------------------- MODULE MemoryTiers -----------------------------
(***************************************************************************)
(* The kernel worker (kernel_worker.rs): pages in VRAM and RAM, pins, and  *)
(* a monitoring thread that evicts cold pages under memory pressure.       *)
(*                                                                         *)
(* Every tier has a mutex.  Nobody takes the RAM mutex without holding     *)
(* that of VRAM, so two remain: vramLock and pinLock.  A method that holds *)
(* one while it waits for the other takes a step per mutex; a method that  *)
(* takes one mutex alone is one step, possible while the mutex is free.    *)
(***************************************************************************)
EXTENDS Naturals, FiniteSets, Functions, SequencesExt

CONSTANTS
  Callers,    \* threads that call the worker's methods
  Monitor,    \* the thread of start_monitoring
  Chunks,     \* chunk ids
  SizeOf,     \* size_bytes of a chunk
  Budget,     \* vram_budget_bytes
  HotAfter,   \* record_access: is_hot above this count (3 in the code)
  GpuAnswers, \* what nvidia-smi may print: sequences of lines
  Garbled,    \* a line that does not parse
  MaxPins,    \* bound: pins of a page
  MaxUses,    \* bound: calls in a behaviour
  Nobody, NoChunk

Threads == Callers \cup {Monitor}

ASSUME TiersAssumption ==
  /\ SizeOf \in [Chunks -> Nat] /\ Budget \in Nat
  /\ HotAfter \in Nat \ {0} /\ MaxPins \in Nat /\ MaxUses \in Nat
  /\ Nobody \notin Threads /\ Monitor \notin Callers
  /\ NoChunk \notin Chunks

VARIABLES
  vram,       \* the chunks in vram_pages
  ram,        \* the chunks in ram_pages
  pins,       \* pin_count of a page in VRAM
  uses,       \* its access_count, up to the first count that is hot
  pinned,     \* pinned_keys
  vramLock, pinLock,
  monitoring, \* the flag start_monitoring and stop_monitoring set
  called,     \* calls so far
  overlapped, \* two callers were inside at once (history)
  does, on    \* what a thread is doing, and the chunk it does it to

pages  == <<vram, ram, pins, uses, pinned>>
locks2 == <<vramLock, pinLock>>
mtVars == <<pages, locks2, monitoring, called, overlapped, does, on>>

Idle(t) == does[t] = "idle"
IsHot(c) == uses[c] > HotAfter
Used == SumFunctionOnSet(SizeOf, vram)

MTInit ==
  /\ vram = {} /\ ram = {} /\ pinned = {}
  /\ pins = [c \in Chunks |-> 0]
  /\ uses = [c \in Chunks |-> 0]
  /\ vramLock = Nobody /\ pinLock = Nobody
  /\ monitoring = FALSE
  /\ called = 0 /\ overlapped = FALSE
  /\ does = [t \in Threads |-> "idle"]
  /\ on = [t \in Threads |-> NoChunk]

Become(t, what, c) ==
  /\ does' = [does EXCEPT ![t] = what]
  /\ on' = [on EXCEPT ![t] = c]

Return(t) == Become(t, "idle", NoChunk)

(* A page that leaves VRAM; its counters go with it. *)
MoveToRam(cs) ==
  /\ vram' = vram \ cs
  /\ ram' = ram \cup cs
  /\ pins' = [c \in Chunks |-> IF c \in cs THEN 0 ELSE pins[c]]
  /\ uses' = [c \in Chunks |-> IF c \in cs THEN 0 ELSE uses[c]]

(* A method begins when it gets its first mutex: until then a caller that    *)
(* waits for it and one that has not called are the same.                    *)
Begins(t, lock) ==
  /\ t \in Callers /\ Idle(t)
  /\ lock = Nobody
  /\ called < MaxUses /\ called' = called + 1
  /\ overlapped' = (overlapped \/ \E u \in Callers : ~Idle(u))

-----------------------------------------------------------------------------
SetMonitoring ==
  /\ monitoring' = ~monitoring
  /\ UNCHANGED <<pages, locks2, called, overlapped, does, on>>

(* record_access; on a chunk without a page it does nothing. *)
Accessed(c) ==
  uses' = [uses EXCEPT ![c] = IF c \in vram /\ @ <= HotAfter THEN @ + 1 ELSE @]

RecordAccess(t) ==
  /\ Begins(t, vramLock)
  /\ \E c \in Chunks : Accessed(c)
  /\ UNCHANGED <<vram, ram, pins, pinned, locks2, monitoring, does, on>>

(* load_to_vram looks, and gives the mutex back before it makes room; when   *)
(* the page is there it takes the mutex again for record_access.             *)
Looks(t, c) ==
  Become(t, IF c \in vram THEN "touch"
            ELSE IF Used + SizeOf[c] > Budget THEN "makeroom" ELSE "insert", c)

LoadToVram(t) ==
  /\ Begins(t, vramLock)
  /\ \E c \in Chunks : Looks(t, c)
  /\ UNCHANGED <<pages, locks2, monitoring>>

(* prefetch_experts looks for itself, and then calls load_to_vram, which     *)
(* looks again, or record_access.                                            *)
PrefetchExpert(t) ==
  /\ Begins(t, vramLock)
  /\ \E c \in Chunks : Become(t, IF c \in vram THEN "touch" ELSE "look", c)
  /\ UNCHANGED <<pages, locks2, monitoring>>

PrefetchLoads(t) ==
  /\ does[t] = "look" /\ vramLock = Nobody
  /\ Looks(t, on[t])
  /\ UNCHANGED <<pages, locks2, monitoring, called, overlapped>>

LoadTouches(t) ==
  /\ does[t] = "touch" /\ vramLock = Nobody
  /\ Accessed(on[t])
  /\ Return(t)
  /\ UNCHANGED <<vram, ram, pins, pinned, locks2, monitoring, called, overlapped>>

(* It inserts whatever it finds by then; the copy in RAM stays. *)
LoadInserts(t) ==
  LET c == on[t] IN
  /\ does[t] = "insert" /\ vramLock = Nobody
  /\ vram' = vram \cup {c}
  /\ pins' = [pins EXCEPT ![c] = 0]
  /\ uses' = [uses EXCEPT ![c] = 1]
  /\ Return(t)
  /\ UNCHANGED <<ram, pinned, locks2, monitoring, called, overlapped>>

(* evict_to_ram reads the pins under their mutex, and evicts without it. *)
EvictToRam(t) ==
  /\ Begins(t, pinLock)
  /\ \E c \in Chunks \ pinned : Become(t, "remove", c)
  /\ UNCHANGED <<pages, locks2, monitoring>>

EvictRemoves(t) ==
  /\ does[t] = "remove" /\ vramLock = Nobody
  /\ MoveToRam({on[t]} \cap vram)
  /\ Return(t)
  /\ UNCHANGED <<pinned, locks2, monitoring, called, overlapped>>

-----------------------------------------------------------------------------
(* pin_chunk, unpin_chunk and get_report: VRAM first, then the pins. *)

HoldVram(t) ==
  /\ Begins(t, vramLock)
  /\ vramLock' = t
  /\ \/ \E c \in Chunks : pins[c] < MaxPins /\ Become(t, "pin", c)
     \/ \E c \in Chunks : Become(t, "unpin", c)
     \/ Become(t, "report", NoChunk)
  /\ UNCHANGED <<pages, pinLock, monitoring>>

BothHeld(t, what) ==
  /\ does[t] = what /\ pinLock = Nobody
  /\ vramLock' = Nobody
  /\ Return(t)
  /\ UNCHANGED <<vram, ram, uses, pinLock, monitoring, called, overlapped>>

PinChunk(t) ==
  LET c == on[t] IN
  /\ BothHeld(t, "pin")
  /\ IF c \in vram
     THEN /\ pins' = [pins EXCEPT ![c] = @ + 1]
          /\ pinned' = pinned \cup {c}
     ELSE UNCHANGED <<pins, pinned>>

UnpinChunk(t) ==
  LET c == on[t]
      left == IF pins[c] > 0 THEN pins[c] - 1 ELSE 0
  IN
  /\ BothHeld(t, "unpin")
  /\ IF c \in vram
     THEN /\ pins' = [pins EXCEPT ![c] = left]
          /\ pinned' = IF left = 0 THEN pinned \ {c} ELSE pinned
     ELSE UNCHANGED <<pins, pinned>>

GetReport(t) == BothHeld(t, "report") /\ UNCHANGED <<pins, pinned>>

(* evict_cold_entries: the pins first, then VRAM; the budget is not asked. *)
HoldPins(t) ==
  /\ does[t] = "makeroom" /\ pinLock = Nobody
  /\ pinLock' = t
  /\ UNCHANGED <<pages, vramLock, monitoring, called, overlapped, does, on>>

(* Seeded fault: cold is cold, pinned or not. *)
EvictAllCold(t) ==
  /\ does[t] = "makeroom" /\ pinLock = t /\ vramLock = Nobody
  /\ MoveToRam({c \in vram : ~IsHot(c)})
  /\ pinLock' = Nobody
  /\ IF t = Monitor THEN Return(t) ELSE Become(t, "insert", on[t])
  /\ UNCHANGED <<pinned, vramLock, monitoring, called, overlapped>>

EvictCold(t) ==
  /\ does[t] = "makeroom" /\ pinLock = t /\ vramLock = Nobody
  /\ MoveToRam({c \in vram : c \notin pinned /\ ~IsHot(c)})
  /\ pinLock' = Nobody
  /\ IF t = Monitor THEN Return(t) ELSE Become(t, "insert", on[t])
  /\ UNCHANGED <<pinned, vramLock, monitoring, called, overlapped>>

(* nvidia-smi prints a line per GPU; the last one that parses is taken, and  *)
(* no such line, or one without memory, is no use at all.                    *)
MemoryUtilPercent(lines) ==
  LET parsed == SelectSeq(lines, LAMBDA l : l # Garbled) IN
  IF parsed = <<>> \/ Last(parsed).total = 0 THEN 0
  ELSE (Last(parsed).used * 100) \div Last(parsed).total

(* The monitoring thread finds the GPU under pressure and takes the pins. *)
Pressure ==
  /\ monitoring /\ Idle(Monitor)
  /\ \E lines \in GpuAnswers : MemoryUtilPercent(lines) >= 85
  /\ pinLock = Nobody /\ pinLock' = Monitor
  /\ Become(Monitor, "makeroom", NoChunk)
  /\ UNCHANGED <<pages, vramLock, monitoring, called, overlapped>>

MTStep(t) ==
  \/ RecordAccess(t) \/ PrefetchExpert(t) \/ PrefetchLoads(t)
  \/ LoadToVram(t) \/ LoadTouches(t) \/ LoadInserts(t)
  \/ EvictToRam(t) \/ EvictRemoves(t)
  \/ HoldVram(t) \/ PinChunk(t) \/ UnpinChunk(t) \/ GetReport(t)
  \/ HoldPins(t) \/ EvictCold(t)

MTNext ==
  \/ \E t \in Threads : MTStep(t)
  \/ SetMonitoring
  \/ Pressure

MTSpec == MTInit /\ [][MTNext]_mtVars

-----------------------------------------------------------------------------
(* kernel_worker.rs 387: a pinned chunk cannot be evicted.  While no two     *)
(* callers were inside at once, no pressure eviction of the monitor, which   *)
(* runs beside them, and no load takes a pinned page out of VRAM or forgets  *)
(* its pins.                                                                 *)
PinnedStays == ~overlapped => \A c \in pinned : c \in vram /\ pins[c] > 0
=============================================================================
