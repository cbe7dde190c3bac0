----------------------------- MODULE ChunkProofs ------------------------------
(***************************************************************************)
(* Theorems about the chunks of a packed model and where they are held:    *)
(* the pages of the kernel worker (MemoryTiers), the cache of the chunk    *)
(* loader (ChunkCache) and the archive that the packer writes and the      *)
(* loader reads (ChunkArchive), for every set of threads and chunks, every *)
(* size and budget, every file that parses and every grouping.             *)
(***************************************************************************)
EXTENDS MemoryTiers, ChunkCache, ChunkArchive, FiniteSetTheorems, WellFoundedInduction, TLAPS

-----------------------------------------------------------------------------
(* MemoryTiers.  A pin is checked and used under different mutexes, so that  *)
(* pinned pages stay is a matter of who is inside: TInv says what a caller   *)
(* that is alone has established about its chunk at each step, and that the  *)
(* monitor beside it does nothing but evict.                                 *)
Doing == {"idle", "touch", "makeroom", "insert", "look", "remove",
          "pin", "unpin", "report"}

TiersTypeOK ==
  /\ vram \subseteq Chunks /\ ram \subseteq Chunks /\ pinned \subseteq Chunks
  /\ pins \in [Chunks -> Nat] /\ uses \in [Chunks -> 0..(HotAfter + 1)]
  /\ does \in [Threads -> Doing]
  /\ on \in [Threads -> Chunks \cup {NoChunk}]
  /\ \A t \in Threads :
       /\ does[t] \in {"touch", "insert", "look", "remove", "pin", "unpin"} => on[t] \in Chunks
       /\ t \in Callers /\ does[t] = "makeroom" => on[t] \in Chunks

(* The monitor only makes room. *)
MonitorEvicts == does[Monitor] \in {"idle", "makeroom"}

(* While calls do not overlap there is one caller inside, and what it saw    *)
(* of its chunk is still so: only it changes pins, and pages enter VRAM by   *)
(* it alone.                                                                 *)
Alone == \A t, u \in Callers : ~Idle(t) /\ ~Idle(u) => t = u
StillAway == \A t \in Callers : does[t] \in {"makeroom", "insert"} => on[t] \notin vram
StillFree == \A t \in Callers : does[t] = "remove" => on[t] \notin pinned

TInv ==
  /\ TiersTypeOK
  /\ MonitorEvicts
  /\ ~overlapped => Alone /\ StillAway /\ StillFree
  /\ PinnedStays

-----------------------------------------------------------------------------
(* Initially nothing is loaded and nobody is inside. *)
LEMMA InitEstablishesTInv == MTInit => TInv
BY TiersAssumption DEF MTInit, TInv, TiersTypeOK, MonitorEvicts, Alone, StillAway,
   StillFree, PinnedStays, Idle, Threads, Doing

(* A call that begins alone finds every caller outside. *)
LEMMA BeginsAlone ==
  ASSUME NEW t \in Threads, NEW lock, Begins(t, lock), ~overlapped'
  PROVE  t \in Callers /\ ~overlapped /\ \A u \in Callers : Idle(u)
BY DEF Begins

(* Pages that leave VRAM. *)
LEMMA MoveTyped ==
  ASSUME TiersTypeOK, NEW cs, cs \subseteq vram, MoveToRam(cs)
  PROVE  /\ vram' \subseteq Chunks /\ ram' \subseteq Chunks
         /\ pins' \in [Chunks -> Nat] /\ uses' \in [Chunks -> 0..(HotAfter + 1)]
         /\ vram' = vram \ cs
         /\ \A c \in Chunks : c \notin cs => pins'[c] = pins[c]
BY TiersAssumption DEF TiersTypeOK, MoveToRam

(* Types, action by action. *)
LEMMA TypesStep ==
  ASSUME TInv, MTNext
  PROVE  TiersTypeOK' /\ MonitorEvicts'
<1> USE TiersAssumption DEF Threads
<1>t. TiersTypeOK /\ MonitorEvicts
  BY DEF TInv
<1>1. CASE SetMonitoring
  BY <1>1, <1>t DEF SetMonitoring, pages, TiersTypeOK, MonitorEvicts
<1>2. CASE Pressure
  BY <1>2, <1>t DEF Pressure, pages, Become, TiersTypeOK, MonitorEvicts, Doing, Idle
<1>3. ASSUME NEW t \in Threads, MTStep(t) PROVE TiersTypeOK' /\ MonitorEvicts'
  <2>c. t \in Callers \/ (t = Monitor /\ does[t] \in {"idle", "makeroom"})
    BY <1>t DEF MonitorEvicts
  <2>1. CASE RecordAccess(t)
    BY <2>1, <1>t DEF RecordAccess, Begins, Accessed, TiersTypeOK, MonitorEvicts
  <2>2. CASE LoadToVram(t) \/ PrefetchExpert(t)
    BY <2>2, <1>t DEF LoadToVram, PrefetchExpert, Looks, Begins, Become, pages,
       TiersTypeOK, MonitorEvicts, Doing
  <2>3. CASE PrefetchLoads(t)
    BY <2>3, <2>c, <1>t DEF PrefetchLoads, Looks, Become, pages, TiersTypeOK,
       MonitorEvicts, Doing
  <2>4. CASE LoadTouches(t)
    BY <2>4, <2>c, <1>t DEF LoadTouches, Accessed, Return, Become, TiersTypeOK,
       MonitorEvicts, Doing
  <2>5. CASE LoadInserts(t)
    BY <2>5, <2>c, <1>t DEF LoadInserts, Return, Become, TiersTypeOK,
       MonitorEvicts, Doing
  <2>6. CASE EvictToRam(t)
    BY <2>6, <1>t DEF EvictToRam, Begins, Become, pages, TiersTypeOK, MonitorEvicts, Doing
  <2>7. CASE EvictRemoves(t)
    BY <2>7, <2>c, <1>t, MoveTyped DEF EvictRemoves, Return, Become, TiersTypeOK,
       MonitorEvicts, Doing
  <2>8. CASE HoldVram(t)
    BY <2>8, <1>t DEF HoldVram, Begins, Become, pages, TiersTypeOK, MonitorEvicts, Doing
  <2>9. CASE PinChunk(t) \/ UnpinChunk(t) \/ GetReport(t)
    BY <2>9, <2>c, <1>t DEF PinChunk, UnpinChunk, GetReport, BothHeld, Return, Become,
       TiersTypeOK, MonitorEvicts, Doing
  <2>10. CASE HoldPins(t)
    BY <2>10, <1>t DEF HoldPins, pages, TiersTypeOK, MonitorEvicts
  <2>11. CASE EvictCold(t)
    <3> DEFINE cs == {c \in vram : c \notin pinned /\ ~IsHot(c)}
    <3>1. /\ vram' \subseteq Chunks /\ ram' \subseteq Chunks
          /\ pins' \in [Chunks -> Nat] /\ uses' \in [Chunks -> 0..(HotAfter + 1)]
      <4>1. cs \subseteq vram /\ MoveToRam(cs)
        BY <2>11 DEF EvictCold
      <4> QED
        BY <4>1, <1>t, MoveTyped
    <3>2. t = Monitor \/ on[t] \in Chunks
      BY <2>11, <2>c, <1>t DEF EvictCold, TiersTypeOK
    <3> QED
      BY <2>11, <2>c, <1>t, <3>1, <3>2 DEF EvictCold, Return, Become, TiersTypeOK,
         MonitorEvicts, Doing
  <2> QED
    BY <1>3, <2>1, <2>2, <2>3, <2>4, <2>5, <2>6, <2>7, <2>8, <2>9, <2>10, <2>11 DEF MTStep
<1> QED
  BY <1>1, <1>2, <1>3 DEF MTNext

(* Who is alone inside, and what it saw, action by action. *)
LEMMA AloneStep ==
  ASSUME TInv, MTNext, ~overlapped'
  PROVE  Alone' /\ StillAway' /\ StillFree' /\ \A c \in pinned' : c \in vram' /\ pins'[c] > 0
<1> DEFINE Goal ==
      Alone' /\ StillAway' /\ StillFree' /\ \A c \in pinned' : c \in vram' /\ pins'[c] > 0
<1> USE TiersAssumption DEF Threads, Idle
<1>t. TiersTypeOK /\ MonitorEvicts
  BY DEF TInv
<1>o. ~overlapped
  BY DEF MTNext, MTStep, RecordAccess, PrefetchExpert, PrefetchLoads, LoadToVram, LoadTouches,
     LoadInserts, EvictToRam, EvictRemoves, HoldVram, PinChunk, UnpinChunk, GetReport,
     BothHeld, HoldPins, EvictCold, Begins, SetMonitoring, Pressure
<1>a. Alone /\ StillAway /\ StillFree /\ \A c \in pinned : c \in vram /\ pins[c] > 0
  BY <1>o DEF TInv, PinnedStays
<1>1. CASE SetMonitoring
  BY <1>1, <1>a DEF SetMonitoring, pages, Alone, StillAway, StillFree
<1>2. CASE Pressure
  BY <1>2, <1>a, <1>t DEF Pressure, Become, pages, Alone, StillAway, StillFree, TiersTypeOK
<1>3. ASSUME NEW t \in Threads, MTStep(t) PROVE Goal
  <2>c. t \in Callers \/ (t = Monitor /\ does[t] \in {"idle", "makeroom"})
    BY <1>t DEF MonitorEvicts
  <2> USE <1>t, <1>a DEF Alone, StillAway, StillFree, Become, Return, TiersTypeOK
  <2>1. CASE RecordAccess(t)
    BY <2>1 DEF RecordAccess, Begins
  <2>2. CASE LoadToVram(t) \/ PrefetchExpert(t)
    BY <2>2 DEF LoadToVram, PrefetchExpert, Looks, Begins, pages
  <2>3. CASE PrefetchLoads(t)
    BY <2>3, <2>c DEF PrefetchLoads, Looks, pages
  <2>4. CASE LoadTouches(t)
    BY <2>4, <2>c DEF LoadTouches, Accessed
  <2>5. CASE LoadInserts(t)
    BY <2>5, <2>c DEF LoadInserts
  <2>6. CASE EvictToRam(t)
    BY <2>6 DEF EvictToRam, Begins, pages
  <2>7. CASE EvictRemoves(t)
    <3>1. t \in Callers /\ on[t] \notin pinned
      BY <2>7, <2>c DEF EvictRemoves
    <3>2. /\ vram' = vram \ ({on[t]} \cap vram)
          /\ \A c \in Chunks : c # on[t] => pins'[c] = pins[c]
      <4>1. MoveToRam({on[t]} \cap vram)
        BY <2>7 DEF EvictRemoves
      <4> QED
        BY <4>1, MoveTyped
    <3>3. \A c \in pinned' : c \in vram' /\ pins'[c] > 0
      BY <2>7, <3>1, <3>2 DEF EvictRemoves
    <3>4. Alone' /\ StillAway' /\ StillFree'
      BY <2>7, <3>1, <3>2 DEF EvictRemoves
    <3> QED
      BY <3>3, <3>4
  <2>8. CASE HoldVram(t)
    <3>1. \E what \in {"pin", "unpin", "report"}, c \in Chunks \cup {NoChunk} : Become(t, what, c)
      BY <2>8 DEF HoldVram
    <3>2. t \in Callers /\ (\A u \in Callers : Idle(u)) /\ UNCHANGED <<vram, pins, pinned>>
      BY <2>8 DEF HoldVram, Begins, pages
    <3>3. \A u \in Callers : u # t => does'[u] = "idle"
      BY <3>1, <3>2
    <3> QED
      BY <3>1, <3>2, <3>3
  <2>9. CASE PinChunk(t)
    BY <2>9, <2>c DEF PinChunk, BothHeld
  <2>10. CASE UnpinChunk(t)
    BY <2>10, <2>c DEF UnpinChunk, BothHeld
  <2>11. CASE GetReport(t)
    BY <2>11, <2>c DEF GetReport, BothHeld
  <2>12. CASE HoldPins(t)
    BY <2>12 DEF HoldPins, pages
  <2>13. CASE EvictCold(t)
    <3> DEFINE cs == {c \in vram : c \notin pinned /\ ~IsHot(c)}
    <3>1. vram' = vram \ cs /\ \A c \in pinned : pins'[c] = pins[c]
      <4>1. cs \subseteq vram /\ MoveToRam(cs)
        BY <2>13 DEF EvictCold
      <4> QED
        BY <4>1, MoveTyped
    <3> QED
      BY <2>13, <2>c, <3>1 DEF EvictCold
  <2> QED
    BY <1>3, <2>1, <2>2, <2>3, <2>4, <2>5, <2>6, <2>7, <2>8, <2>9, <2>10, <2>11, <2>12,
       <2>13 DEF MTStep
<1> QED
  BY <1>1, <1>2, <1>3 DEF MTNext

(* TInv is inductive. *)
LEMMA NextPreservesTInv == TInv /\ [MTNext]_mtVars => TInv'
<1> SUFFICES ASSUME TInv, [MTNext]_mtVars PROVE TInv'
  OBVIOUS
<1>1. CASE MTNext
  BY <1>1, TypesStep, AloneStep DEF TInv, PinnedStays
<1>2. CASE UNCHANGED mtVars
  BY <1>2 DEF TInv, mtVars, pages, locks2, TiersTypeOK, MonitorEvicts, Alone, StillAway,
     StillFree, PinnedStays, Idle
<1> QED
  BY <1>1, <1>2

(* TInv holds in every reachable state. *)
LEMMA TInvHolds == MTSpec => []TInv
BY InitEstablishesTInv, NextPreservesTInv, PTL DEF MTSpec

(* While calls do not overlap, a pinned page stays in VRAM and keeps its     *)
(* pins, whatever the monitor evicts beside them (pin_chunk, evict_to_ram,   *)
(* evict_cold_entries).                                                      *)
THEOREM PinsHoldAlone == MTSpec => []PinnedStays
<1>1. TInv => PinnedStays
  BY DEF TInv
<1> QED
  BY <1>1, TInvHolds, PTL

-----------------------------------------------------------------------------
(* ChunkCache.  Cache.bytes counts a chunk twice when two threads missed it  *)
(* at once, so that the budget holds is not a matter of the count alone: the *)
(* order of the cache lists each of its entries once, what they take is what *)
(* the evicted and the kept ones take together, and the count is no less.    *)

(* The chunks of a cache are in its order, each once.                        *)
InOrderOnce(order) ==
  /\ order \in Seq(Packed)
  /\ \A i, j \in 1..Len(order) : order[i] = order[j] => i = j

(* Finitely many chunks have finitely many bytes. *)
LEMMA BytesAreFinite ==
  ASSUME NEW cs \in SUBSET Packed
  PROVE  IsFiniteSet(cs) /\ IsFiniteSet(HeldBytes(cs)) /\ Held(cs) \in Nat
<1> DEFINE Of(c) == {c} \X (1..BytesOf[c])
           S == {Of(c) : c \in cs}
           f == [c \in cs |-> Of(c)]
<1>1. IsFiniteSet(cs)
  BY FS_Subset, CacheAssumption
<1>2. f \in Surjection(cs, S)
  BY DEF Surjection
<1>3. IsFiniteSet(S)
  <2> HIDE DEF f, S
  <2> QED  BY <1>1, <1>2, FS_Surjection DEF ExistsSurjection
<1>4. ASSUME NEW T \in S PROVE IsFiniteSet(T)
  <2>1. PICK c \in cs : T = Of(c)
    OBVIOUS
  <2>2. PICK b \in Int : b = BytesOf[c]
    BY CacheAssumption
  <2>3. IsFiniteSet({c})
    BY FS_Singleton
  <2>4. IsFiniteSet(1..b)
    BY FS_Interval
  <2> QED  BY <2>1, <2>2, <2>3, <2>4, FS_Product
<1>5. IsFiniteSet(UNION S)
  <2> HIDE DEF S
  <2> QED  BY <1>3, <1>4, FS_UNION
<1>6. HeldBytes(cs) = UNION S
  BY DEF HeldBytes
<1>7. IsFiniteSet(HeldBytes(cs))
  BY <1>5, <1>6
<1> QED  BY <1>1, <1>7, FS_CardinalityType DEF Held

(* A chunk takes its raw_size. *)
LEMMA OneChunkHeld ==
  ASSUME NEW c \in Packed
  PROVE  Held({c}) = BytesOf[c] /\ BytesOf[c] \in Nat
<1>1. PICK b \in Nat : b = BytesOf[c]
  BY CacheAssumption
<1>2. HeldBytes({c}) = {c} \X (1..b)
  BY <1>1 DEF HeldBytes
<1>3. IsFiniteSet({c}) /\ Cardinality({c}) = 1
  BY FS_Singleton
<1>4. IsFiniteSet(1..b) /\ Cardinality(1..b) = IF 1 > b THEN 0 ELSE b - 1 + 1
  BY FS_Interval
<1>5. Cardinality(1..b) = b
  BY <1>4
<1>6. Cardinality({c} \X (1..b)) = 1 * b
  BY <1>3, <1>4, <1>5, FS_Product
<1>7. Held({c}) = Cardinality({c} \X (1..b))
  BY <1>2 DEF Held
<1> QED  BY <1>1, <1>6, <1>7

(* Different chunks share no bytes. *)
LEMMA ChunksAddUp ==
  ASSUME NEW A \in SUBSET Packed, NEW B \in SUBSET Packed, A \cap B = {}
  PROVE  Held(A \cup B) = Held(A) + Held(B)
<1>1. HeldBytes(A \cup B) = HeldBytes(A) \cup HeldBytes(B)
  BY DEF HeldBytes
<1>2. HeldBytes(A) \cap HeldBytes(B) = {}
  BY DEF HeldBytes
<1>3. IsFiniteSet(HeldBytes(A)) /\ IsFiniteSet(HeldBytes(B))
      /\ Held(A) \in Nat /\ Held(B) \in Nat
  BY BytesAreFinite
<1>4. Cardinality(HeldBytes(A \cup B)) =
        Cardinality(HeldBytes(A)) + Cardinality(HeldBytes(B)) - Cardinality({})
  BY <1>1, <1>2, <1>3, FS_Union
<1> QED  BY <1>3, <1>4, FS_EmptySet DEF Held

(* An order without a chunk has the others, each once. *)
LEMMA WithoutIsOrdered ==
  ASSUME NEW order, InOrderOnce(order), NEW c \in Packed
  PROVE  /\ InOrderOnce(Without(order, c))
         /\ ToSet(Without(order, c)) = ToSet(order) \ {c}
<1> USE DEF InOrderOnce, ToSet
<1>1. CASE c \notin ToSet(order)
  BY <1>1 DEF Without
<1>2. CASE c \in ToSet(order)
  <2>1. PICK k \in 1..Len(order) :
          order[k] = c /\ Without(order, c) = RemoveAt(order, k)
    <3>1. DOMAIN order = 1..Len(order)
      OBVIOUS
    <3>2. \E i \in 1..Len(order) : order[i] = c
      BY <1>2, <3>1, Zenon
    <3>3. Without(order, c) =
            RemoveAt(order, CHOOSE i \in 1..Len(order) : order[i] = c)
      BY <1>2, Zenon DEF Without
    <3> QED  BY <3>2, <3>3, Zenon
  <2>2. PICK n \in Nat : n = Len(order) /\ k \in 1..n
    OBVIOUS
  <2>3. PICK s : s = RemoveAt(order, k)
    OBVIOUS
  <2>4. /\ s \in Seq(Packed) /\ Len(s) = n - 1
        /\ \A i \in 1..(n - 1) : s[i] = IF i < k THEN order[i] ELSE order[i + 1]
    <3>1. /\ SubSeq(order, 1, k - 1) \in Seq(Packed) /\ Len(SubSeq(order, 1, k - 1)) = k - 1
          /\ \A i \in 1..(k - 1) : SubSeq(order, 1, k - 1)[i] = order[i]
      BY <2>2
    <3>2. /\ SubSeq(order, k + 1, n) \in Seq(Packed) /\ Len(SubSeq(order, k + 1, n)) = n - k
          /\ \A i \in 1..(n - k) : SubSeq(order, k + 1, n)[i] = order[i + k]
      BY <2>2
    <3>3. s = SubSeq(order, 1, k - 1) \o SubSeq(order, k + 1, n)
      BY <2>2, <2>3 DEF RemoveAt
    <3>4. PICK a \in Seq(Packed), b \in Seq(Packed) :
            /\ s = a \o b /\ Len(a) = k - 1 /\ Len(b) = n - k
            /\ \A i \in 1..(k - 1) : a[i] = order[i]
            /\ \A i \in 1..(n - k) : b[i] = order[i + k]
      BY <3>1, <3>2, <3>3
    <3>5. s \in Seq(Packed) /\ Len(s) = n - 1
      <4>1. a \o b \in Seq(Packed) /\ Len(a \o b) = Len(a) + Len(b)
        OBVIOUS
      <4>2. (k - 1) + (n - k) = n - 1
        BY <2>2
      <4> QED  BY <3>4, <4>1, <4>2
    <3>6. ASSUME NEW i \in 1..(n - 1)
          PROVE  s[i] = IF i < k THEN order[i] ELSE order[i + 1]
      <4>1. CASE i < k
        BY <2>2, <3>4, <4>1
      <4>2. CASE i >= k
        <5>1. PICK j \in 1..(n - k) : i = (k - 1) + j
          BY <2>2, <4>2
        <5>2. s[i] = b[j]
          BY <2>2, <3>4, <5>1
        <5>3. b[j] = order[j + k] /\ j + k = i + 1
          BY <2>2, <3>4, <5>1
        <5>4. s[i] = order[i + 1]
          BY <5>2, <5>3
        <5>5. ~(i < k)
          BY <2>2, <4>2
        <5> QED  BY <5>4, <5>5
      <4> QED  BY <2>2, <4>1, <4>2
    <3> QED  BY <3>5, <3>6
  <2>5. \A i \in 1..n : i # k =>
          \E j \in 1..(n - 1) : s[j] = order[i]
    <3>1. ASSUME NEW i \in 1..n, i < k PROVE i \in 1..(n - 1) /\ s[i] = order[i]
      BY <2>2, <2>4, <3>1
    <3>2. ASSUME NEW i \in 1..n, i > k PROVE i - 1 \in 1..(n - 1) /\ s[i - 1] = order[i]
      BY <2>2, <2>4, <3>2
    <3> QED  BY <2>2, <3>1, <3>2
  <2>6. \A j \in 1..(n - 1) : \E i \in 1..n : i # k /\ s[j] = order[i]
    BY <2>2, <2>4
  <2>7. \A i, j \in 1..(n - 1) : s[i] = s[j] => i = j
    BY <2>2, <2>4
  <2>8. ToSet(s) = ToSet(order) \ {c}
    <3>1. DOMAIN s = 1..(n - 1) /\ DOMAIN order = 1..n
      BY <2>2, <2>4
    <3>2. ASSUME NEW x \in ToSet(s) PROVE x \in ToSet(order) \ {c}
      <4>1. PICK j \in 1..(n - 1) : x = s[j]
        BY <3>1
      <4>2. PICK i \in 1..n : i # k /\ x = order[i]
        BY <2>6, <4>1
      <4>3. x # c
        BY <2>1, <2>2, <4>2
      <4> QED  BY <3>1, <4>2, <4>3
    <3>3. ASSUME NEW x \in ToSet(order) \ {c} PROVE x \in ToSet(s)
      <4>1. PICK i \in 1..n : i # k /\ x = order[i]
        BY <2>1, <3>1
      <4> QED  BY <2>5, <3>1, <4>1
    <3> QED  BY <3>2, <3>3
  <2>9. InOrderOnce(s)
    BY <2>4, <2>7
  <2>10. Without(order, c) = s
    BY <2>1, <2>3
  <2> HIDE DEF InOrderOnce, ToSet
  <2> QED  BY <2>8, <2>9, <2>10
<1> QED  BY <1>1, <1>2

(* The inductive invariant: the order lists the entries, Cache.bytes is no   *)
(* less than they take, and they take no more than the budget.               *)
CacheInv ==
  /\ InOrderOnce(recent) /\ ToSet(recent) = Cached
  /\ bytes \in Nat /\ Held(Cached) <= bytes /\ Held(Cached) <= CacheBudget
  /\ loads \in [Loaders -> Packed \cup {Unchecked}]

(* A set of naturals that is not empty has a least element. *)
LEMMA LeastExists ==
  ASSUME NEW S \in SUBSET Nat, S # {}
  PROVE  \E n \in S : \A m \in S : n <= m
<1>1. \E n \in S : \A m \in S : ~(<<m, n>> \in OpToRel(<, Nat))
  BY NatLessThanWellFounded, WFMin
<1>2. PICK n \in S : \A m \in S : ~(m < n)
  BY <1>1 DEF OpToRel
<1>3. ASSUME NEW m \in S PROVE n <= m
  <2>1. m \in Nat /\ n \in Nat /\ ~(m < n)
    BY <1>2
  <2> QED  BY <2>1
<1> QED  BY <1>3

(* insert evicts as many of the oldest as it takes for the new chunk to fit, *)
(* or all.                                                                   *)
LEMMA EvictionsMakeRoom ==
  ASSUME NEW need, Len(recent) \in Nat
  PROVE  LET n == Evictions(need) IN
         /\ n \in 0..Len(recent)
         /\ n = Len(recent) \/ Fits(n, need)
<1> DEFINE enough == {n \in 0..Len(recent) : Fits(n, need)}
<1>1. CASE enough = {}
  BY <1>1 DEF Evictions
<1>2. CASE enough # {}
  <2>1. enough \in SUBSET Nat
    OBVIOUS
  <2>2. \E n \in enough : \A m \in enough : n <= m
    <3> HIDE DEF enough
    <3> QED  BY <1>2, <2>1, LeastExists
  <2>3. Evictions(need) = CHOOSE n \in enough : \A m \in enough : n <= m
    BY <1>2 DEF Evictions
  <2>4. Evictions(need) \in enough
    <3> HIDE DEF enough
    <3> QED  BY <2>2, <2>3
  <2> QED  BY <2>4
<1> QED  BY <1>1, <1>2

(* What is left of an order when the first n are gone, and what went. *)
LEMMA OrderSplits ==
  ASSUME NEW order, InOrderOnce(order), NEW n \in 0..Len(order)
  PROVE  LET gone == SubSeq(order, 1, n)
             left == SubSeq(order, n + 1, Len(order))
         IN  /\ InOrderOnce(left)
             /\ ToSet(gone) \cup ToSet(left) = ToSet(order)
             /\ ToSet(gone) \cap ToSet(left) = {}
             /\ ToSet(order) \subseteq Packed
             /\ n = Len(order) => ToSet(left) = {}
<1>1. PICK l \in Nat : l = Len(order) /\ n \in 0..l /\ n \in Nat
  BY DEF InOrderOnce
<1>2. PICK gone \in Seq(Packed) :
        /\ gone = SubSeq(order, 1, n) /\ Len(gone) = n
        /\ \A i \in 1..n : gone[i] = order[i]
  <2>1. order \in Seq(Packed)
    BY DEF InOrderOnce
  <2>2. SubSeq(order, 1, n) \in Seq(Packed) /\ Len(SubSeq(order, 1, n)) = n
    BY <1>1, <2>1
  <2>3. \A i \in 1..n : SubSeq(order, 1, n)[i] = order[i]
    BY <1>1, <2>1
  <2> QED  BY <2>2, <2>3
<1>3. PICK left \in Seq(Packed) :
        /\ left = SubSeq(order, n + 1, l) /\ Len(left) = l - n
        /\ \A i \in 1..(l - n) : left[i] = order[i + n]
  <2>1. order \in Seq(Packed)
    BY DEF InOrderOnce
  <2>2. SubSeq(order, n + 1, l) \in Seq(Packed) /\ Len(SubSeq(order, n + 1, l)) = l - n
    BY <1>1, <2>1
  <2>3. \A i \in 1..(l - n) : SubSeq(order, n + 1, l)[i] = order[i + n]
    BY <1>1, <2>1
  <2> QED  BY <2>2, <2>3
<1>4. /\ ToSet(gone) = {order[i] : i \in 1..n}
      /\ ToSet(left) = {order[i] : i \in (n + 1)..l}
      /\ ToSet(order) = {order[i] : i \in 1..l}
  <2>1. ToSet(gone) = {order[i] : i \in 1..n}
    <3>1. DOMAIN gone = 1..n
      BY <1>1, <1>2
    <3> QED  BY <1>2, <3>1 DEF ToSet
  <2>2. ToSet(left) = {order[i] : i \in (n + 1)..l}
    <3>1. DOMAIN left = 1..(l - n)
      BY <1>1, <1>3
    <3>2. ASSUME NEW i \in (n + 1)..l PROVE i - n \in 1..(l - n) /\ left[i - n] = order[i]
      <4>1. i - n \in 1..(l - n) /\ (i - n) + n = i
        BY <1>1
      <4> QED  BY <1>3, <4>1
    <3>3. ASSUME NEW i \in 1..(l - n) PROVE i + n \in (n + 1)..l /\ left[i] = order[i + n]
      <4>1. i + n \in (n + 1)..l
        BY <1>1
      <4> QED  BY <1>3, <4>1
    <3>4. ToSet(left) = {left[i] : i \in 1..(l - n)}
      BY <3>1 DEF ToSet
    <3>5. ASSUME NEW i \in 1..(l - n) PROVE left[i] \in {order[k] : k \in (n + 1)..l}
      BY <3>3
    <3>6. ASSUME NEW i \in (n + 1)..l PROVE order[i] \in {left[k] : k \in 1..(l - n)}
      BY <3>2
    <3> QED  BY <3>4, <3>5, <3>6
  <2>3. ToSet(order) = {order[i] : i \in 1..l}
    BY <1>1 DEF ToSet, InOrderOnce
  <2> QED  BY <2>1, <2>2, <2>3
<1>5. InOrderOnce(left)
  <2>1. ASSUME NEW i \in 1..(l - n), NEW j \in 1..(l - n), left[i] = left[j]
        PROVE  i = j
    <3>1. order[i + n] = order[j + n]
      BY <1>3, <2>1
    <3>2. i + n \in 1..l /\ j + n \in 1..l
      BY <1>1
    <3>3. i + n = j + n
      BY <1>1, <3>1, <3>2 DEF InOrderOnce
    <3> QED  BY <1>1, <3>3
  <2> QED  BY <1>1, <1>3, <2>1 DEF InOrderOnce
<1>6. ToSet(gone) \cup ToSet(left) = ToSet(order)
  <2>1. \A i \in 1..l : i \in 1..n \/ i \in (n + 1)..l
    BY <1>1
  <2>2. \A i \in 1..n : i \in 1..l
    BY <1>1
  <2>3. \A i \in (n + 1)..l : i \in 1..l
    BY <1>1
  <2> QED  BY <1>4, <2>1, <2>2, <2>3
<1>7. ToSet(gone) \cap ToSet(left) = {}
  <2>1. ASSUME NEW i \in 1..n, NEW j \in (n + 1)..l PROVE order[i] # order[j]
    BY <1>1 DEF InOrderOnce
  <2> QED  BY <1>4, <2>1
<1>8. ToSet(order) \subseteq Packed
  BY <1>1, <1>4 DEF InOrderOnce
<1>9. n = l => ToSet(left) = {}
  BY <1>1, <1>4
<1> HIDE DEF InOrderOnce
<1> QED  BY <1>1, <1>2, <1>3, <1>5, <1>6, <1>7, <1>8, <1>9

(* A chunk at the end, as a hit makes it, is in order. *)
LEMMA AppendedIsOrdered ==
  ASSUME NEW order, InOrderOnce(order), NEW c \in Packed, c \notin ToSet(order)
  PROVE  /\ InOrderOnce(Append(order, c))
         /\ ToSet(Append(order, c)) = ToSet(order) \cup {c}
<1>1. PICK n \in Nat : n = Len(order)
  BY DEF InOrderOnce
<1>2. PICK s \in Seq(Packed) :
        /\ s = Append(order, c) /\ Len(s) = n + 1 /\ s[n + 1] = c
        /\ \A i \in 1..n : s[i] = order[i]
  <2>1. order \in Seq(Packed)
    BY DEF InOrderOnce
  <2>2. Append(order, c) \in Seq(Packed) /\ Len(Append(order, c)) = n + 1
    BY <1>1, <2>1
  <2>3. Append(order, c)[n + 1] = c /\ \A i \in 1..n : Append(order, c)[i] = order[i]
    BY <1>1, <2>1
  <2> QED  BY <2>2, <2>3
<1>3. \A i \in 1..n : order[i] # c
  BY <1>1 DEF InOrderOnce, ToSet
<1>4. InOrderOnce(s)
  <2>1. ASSUME NEW i \in 1..(n + 1), NEW j \in 1..(n + 1), s[i] = s[j] PROVE i = j
    <3>1. CASE i = n + 1 /\ j = n + 1
      BY <3>1
    <3>2. CASE i = n + 1 /\ j # n + 1
      BY <1>1, <1>2, <1>3, <2>1, <3>2
    <3>3. CASE i # n + 1 /\ j = n + 1
      BY <1>1, <1>2, <1>3, <2>1, <3>3
    <3>4. CASE i # n + 1 /\ j # n + 1
      <4>1. i \in 1..n /\ j \in 1..n
        BY <3>4
      <4> QED  BY <1>1, <1>2, <2>1, <4>1 DEF InOrderOnce
    <3> QED  BY <3>1, <3>2, <3>3, <3>4
  <2> QED  BY <1>2, <2>1 DEF InOrderOnce
<1>5. ToSet(s) = ToSet(order) \cup {c}
  <2>1. ToSet(s) = {s[i] : i \in 1..(n + 1)} /\ ToSet(order) = {order[i] : i \in 1..n}
    BY <1>1, <1>2 DEF ToSet, InOrderOnce
  <2>2. ASSUME NEW i \in 1..(n + 1) PROVE s[i] \in ToSet(order) \cup {c}
    BY <1>2, <2>1
  <2>3. ASSUME NEW i \in 1..n PROVE order[i] \in ToSet(s)
    BY <1>2, <2>1
  <2>4. c \in ToSet(s)
    <3>1. n + 1 \in 1..(n + 1)
      OBVIOUS
    <3> QED  BY <1>2, <2>1, <3>1
  <2> QED  BY <2>1, <2>2, <2>3, <2>4
<1> QED  BY <1>2, <1>4, <1>5

(* So is one that goes between the others. *)
LEMMA InsertedIsOrdered ==
  ASSUME NEW order, InOrderOnce(order), NEW c \in Packed, c \notin ToSet(order),
         NEW at \in 0..Len(order)
  PROVE  /\ InOrderOnce(InsertAt(order, at + 1, c))
         /\ ToSet(InsertAt(order, at + 1, c)) = ToSet(order) \cup {c}
<1>1. PICK n \in Nat : n = Len(order) /\ at \in 0..n
  BY DEF InOrderOnce
<1>2. PICK s \in Seq(Packed) :
        /\ s = InsertAt(order, at + 1, c) /\ Len(s) = n + 1 /\ s[at + 1] = c
        /\ \A i \in 1..at : s[i] = order[i]
        /\ \A i \in (at + 1)..n : s[i + 1] = order[i]
  <2>1. order \in Seq(Packed)
    BY DEF InOrderOnce
  <2>2. PICK a \in Seq(Packed), b \in Seq(Packed) :
          /\ a = SubSeq(order, 1, at) /\ b = SubSeq(order, at + 1, n)
          /\ Len(a) = at /\ Len(b) = n - at
          /\ \A i \in 1..at : a[i] = order[i]
          /\ \A i \in 1..(n - at) : b[i] = order[i + at]
    <3>1. /\ SubSeq(order, 1, at) \in Seq(Packed) /\ Len(SubSeq(order, 1, at)) = at
          /\ \A i \in 1..at : SubSeq(order, 1, at)[i] = order[i]
      BY <1>1, <2>1
    <3>2. /\ SubSeq(order, at + 1, n) \in Seq(Packed)
          /\ Len(SubSeq(order, at + 1, n)) = n - at
          /\ \A i \in 1..(n - at) : SubSeq(order, at + 1, n)[i] = order[i + at]
      BY <1>1, <2>1
    <3> QED  BY <3>1, <3>2
  <2>3. PICK m \in Seq(Packed) : m = <<c>> /\ Len(m) = 1 /\ m[1] = c
    <3>1. <<c>> \in Seq(Packed) /\ Len(<<c>>) = 1 /\ <<c>>[1] = c
      OBVIOUS
    <3> QED  BY <3>1
  <2>4. InsertAt(order, at + 1, c) = a \o m \o b
    <3>1. (at + 1) - 1 = at
      BY <1>1
    <3> QED  BY <1>1, <2>2, <2>3, <3>1 DEF InsertAt
  <2>5. PICK f \in Seq(Packed) :
          /\ f = a \o m /\ Len(f) = at + 1 /\ f[at + 1] = c
          /\ \A i \in 1..at : f[i] = order[i]
    <3>1. a \o m \in Seq(Packed) /\ Len(a \o m) = at + 1
      BY <1>1, <2>2, <2>3
    <3>2. (a \o m)[at + 1] = c
      BY <1>1, <2>2, <2>3
    <3>3. \A i \in 1..at : (a \o m)[i] = order[i]
      BY <1>1, <2>2, <2>3
    <3> QED  BY <3>1, <3>2, <3>3
  <2>6. /\ f \o b \in Seq(Packed) /\ Len(f \o b) = n + 1 /\ (f \o b)[at + 1] = c
        /\ \A i \in 1..at : (f \o b)[i] = order[i]
    <3>1. /\ f \o b \in Seq(Packed) /\ Len(f \o b) = Len(f) + Len(b)
          /\ \A i \in 1..Len(f) : (f \o b)[i] = f[i]
      OBVIOUS
    <3>2. Len(f) + Len(b) = n + 1
      <4>1. Len(f) = at + 1 /\ Len(b) = n - at
        BY <2>2, <2>5
      <4>2. (at + 1) + (n - at) = n + 1
        BY <1>1
      <4> QED  BY <4>1, <4>2
    <3>3. at + 1 \in 1..Len(f) /\ \A i \in 1..at : i \in 1..Len(f)
      BY <1>1, <2>5
    <3> QED  BY <2>5, <3>1, <3>2, <3>3
  <2>7. \A i \in (at + 1)..n : (f \o b)[i + 1] = order[i]
    <3>1. ASSUME NEW i \in (at + 1)..n PROVE (f \o b)[i + 1] = order[i]
      <4>1. PICK j \in 1..(n - at) : i = at + j
        <5>1. i - at \in 1..(n - at) /\ i = at + (i - at)
          BY <1>1
        <5> QED  BY <5>1
      <4>2. (f \o b)[(at + 1) + j] = b[j]
        <5>1. \A k \in 1..Len(b) : (f \o b)[Len(f) + k] = b[k]
          OBVIOUS
        <5> QED  BY <2>2, <2>5, <4>1, <5>1
      <4>3. (at + 1) + j = i + 1 /\ j + at = i
        BY <1>1, <4>1
      <4> QED  BY <2>2, <4>1, <4>2, <4>3
    <3> QED  BY <3>1
  <2> QED  BY <2>4, <2>5, <2>6, <2>7
<1>3. \A i \in 1..n : order[i] # c
  BY <1>1 DEF InOrderOnce, ToSet
<1>4. \A i \in 1..(n + 1) :
        \/ i = at + 1 /\ s[i] = c
        \/ \E k \in 1..n : s[i] = order[k] /\ ((i <= at /\ k = i) \/ (i > at + 1 /\ k = i - 1))
  <2>1. ASSUME NEW i \in 1..(n + 1), i > at + 1
        PROVE  i - 1 \in (at + 1)..n /\ i - 1 \in 1..n /\ s[i] = order[i - 1]
    <3>1. i - 1 \in (at + 1)..n /\ i - 1 \in 1..n /\ (i - 1) + 1 = i
      BY <1>1, <2>1
    <3> QED  BY <1>2, <3>1
  <2>2. ASSUME NEW i \in 1..(n + 1), i <= at PROVE i \in 1..n /\ s[i] = order[i]
    <3>1. i \in 1..at /\ i \in 1..n
      BY <1>1, <2>2
    <3> QED  BY <1>2, <3>1
  <2>3. \A i \in 1..(n + 1) : i = at + 1 \/ i > at + 1 \/ i <= at
    BY <1>1
  <2>4. ASSUME NEW i \in 1..(n + 1)
        PROVE  \/ i = at + 1 /\ s[i] = c
               \/ \E k \in 1..n : s[i] = order[k] /\ ((i <= at /\ k = i) \/ (i > at + 1 /\ k = i - 1))
    <3>1. CASE i = at + 1
      BY <1>2, <3>1
    <3>2. CASE i > at + 1
      BY <2>1, <3>2
    <3>3. CASE i <= at
      <4>1. i \in 1..n /\ s[i] = order[i]
        BY <2>2, <3>3
      <4>2. s[i] = order[i] /\ ((i <= at /\ i = i) \/ (i > at + 1 /\ i = i - 1))
        BY <3>3, <4>1
      <4> QED  BY <4>1, <4>2, Zenon
    <3> QED  BY <2>3, <3>1, <3>2, <3>3
  <2> QED  BY <2>4
<1>5. InOrderOnce(s)
  <2>1. ASSUME NEW i \in 1..(n + 1), NEW j \in 1..(n + 1), s[i] = s[j] PROVE i = j
    <3>1. CASE i = at + 1 \/ j = at + 1
      BY <1>1, <1>2, <1>3, <1>4, <2>1, <3>1
    <3>2. CASE i # at + 1 /\ j # at + 1
      <4>1. PICK k \in 1..n : s[i] = order[k] /\ ((i <= at /\ k = i) \/ (i > at + 1 /\ k = i - 1))
        BY <1>4, <3>2
      <4>2. PICK l \in 1..n : s[j] = order[l] /\ ((j <= at /\ l = j) \/ (j > at + 1 /\ l = j - 1))
        BY <1>4, <3>2
      <4>3. k = l
        BY <1>1, <2>1, <4>1, <4>2 DEF InOrderOnce
      <4> QED  BY <1>1, <4>1, <4>2, <4>3
    <3> QED  BY <3>1, <3>2
  <2> QED  BY <1>2, <2>1 DEF InOrderOnce
<1>6. ToSet(s) = ToSet(order) \cup {c}
  <2>1. ToSet(s) = {s[i] : i \in 1..(n + 1)} /\ ToSet(order) = {order[i] : i \in 1..n}
    BY <1>1, <1>2 DEF ToSet, InOrderOnce
  <2>2. ASSUME NEW i \in 1..(n + 1) PROVE s[i] \in ToSet(order) \cup {c}
    BY <1>4, <2>1
  <2>3. ASSUME NEW i \in 1..n PROVE order[i] \in ToSet(s)
    <3>1. CASE i <= at
      <4>1. i \in 1..at /\ i \in 1..(n + 1)
        BY <1>1, <3>1
      <4>2. s[i] = order[i]
        BY <1>2, <4>1, Zenon
      <4> QED  BY <2>1, <4>1, <4>2, Zenon
    <3>2. CASE i > at
      <4>1. i \in (at + 1)..n /\ i + 1 \in 1..(n + 1)
        BY <1>1, <3>2
      <4> QED  BY <1>2, <2>1, <4>1
    <3> QED  BY <1>1, <3>1, <3>2
  <2>4. c \in ToSet(s)
    <3>1. at + 1 \in 1..(n + 1)
      BY <1>1
    <3> QED  BY <1>2, <2>1, <3>1
  <2> QED  BY <2>1, <2>2, <2>3, <2>4
<1> QED  BY <1>2, <1>5, <1>6

(* Fewer chunks take no more. *)
LEMMA FewerTakeLess ==
  ASSUME NEW B \in SUBSET Packed, NEW A \in SUBSET B
  PROVE  Held(A) \in Nat /\ Held(B) \in Nat /\ Held(A) <= Held(B)
<1>1. HeldBytes(A) \subseteq HeldBytes(B)
  BY DEF HeldBytes
<1>2. A \in SUBSET Packed
  OBVIOUS
<1>3. IsFiniteSet(HeldBytes(B)) /\ Held(A) \in Nat /\ Held(B) \in Nat
  BY <1>2, BytesAreFinite
<1> QED  BY <1>1, <1>3, FS_Subset DEF Held

(* An empty cache holds nothing. *)
LEMMA EmptyCacheIsInOrder ==
  InOrderOnce(<<>>) /\ ToSet(<<>>) = {} /\ Held({}) = 0 /\ CacheBudget \in Nat
<1>1. InOrderOnce(<<>>) /\ ToSet(<<>>) = {}
  BY DEF InOrderOnce, ToSet
<1>2. HeldBytes({}) = {}
  BY DEF HeldBytes
<1> QED  BY <1>1, <1>2, FS_EmptySet, CacheAssumption DEF Held

(* Cache::insert: what the new chunk finds left takes no more than what      *)
(* Cache.bytes counts, and with it no more than the budget.                  *)
LEMMA InsertKeepsCacheInv ==
  ASSUME CacheInv, NEW t \in Loaders, Insert(t)
  PROVE  CacheInv'
<1> DEFINE c == loads[t]
           need == BytesOf[c]
           n == Evictions(need)
           gone == ToSet(SubSeq(recent, 1, n))
           left == SubSeq(recent, n + 1, Len(recent))
           rest == Monus(bytes, Held(gone))
<1>1. c \in Packed /\ need \in Nat /\ Held({c}) = need /\ CacheBudget \in Nat
  <2>1. c \in Packed
    BY DEF Insert, Idles, CacheInv
  <2> QED  BY <2>1, OneChunkHeld, CacheAssumption
<1>2. /\ IF need <= CacheBudget
         THEN /\ bytes' = rest + need
              /\ InsertByStamp(Without(left, c), c, t)
              /\ Cached' = ToSet(left) \cup {c}
         ELSE /\ bytes' = rest
              /\ recent' = left
              /\ Cached' = ToSet(left)
      /\ loads' = [loads EXCEPT ![t] = Unchecked]
  BY DEF Insert, Restrict, Cached
<1>3. n \in 0..Len(recent) /\ (n = Len(recent) \/ rest + need <= CacheBudget)
  <2>1. Len(recent) \in Nat
    BY DEF CacheInv, InOrderOnce
  <2> QED  BY <2>1, EvictionsMakeRoom DEF Fits
<1>4. /\ InOrderOnce(left)
      /\ gone \cup ToSet(left) = Cached /\ gone \cap ToSet(left) = {} /\ Cached \subseteq Packed
      /\ n = Len(recent) => ToSet(left) = {}
  BY <1>3, OrderSplits DEF CacheInv
<1> HIDE DEF c, need, n, gone, left, rest
<1>5. PICK held \in Nat, evicted \in Nat, kept \in Nat :
        /\ held = Held(Cached) /\ evicted = Held(gone) /\ kept = Held(ToSet(left))
        /\ held = evicted + kept
  BY <1>4, ChunksAddUp, BytesAreFinite
<1>6. rest \in Nat /\ kept <= rest
  BY <1>5 DEF rest, Monus, CacheInv
<1>7. kept <= CacheBudget /\ (n = Len(recent) => kept = 0)
  <2>1. held <= CacheBudget
    BY <1>5 DEF CacheInv
  <2>2. n = Len(recent) => kept = Cardinality({})
    BY <1>4, <1>5 DEF Held, HeldBytes
  <2> QED  BY <1>1, <1>5, <2>1, <2>2, FS_EmptySet
<1>8. loads' \in [Loaders -> Packed \cup {Unchecked}]
  BY <1>2 DEF CacheInv
<1>9. CASE need <= CacheBudget
  <2>1. InOrderOnce(recent') /\ ToSet(recent') = ToSet(left) \cup {c}
    <3>1. /\ InOrderOnce(Without(left, c)) /\ ToSet(Without(left, c)) = ToSet(left) \ {c}
      BY <1>1, <1>4, WithoutIsOrdered
    <3>2. PICK at \in 0..Len(Without(left, c)) :
            recent' = InsertAt(Without(left, c), at + 1, c)
      BY <1>2, <1>9 DEF InsertByStamp
    <3>3. PICK others : others = Without(left, c)
      OBVIOUS
    <3>4. /\ InOrderOnce(others) /\ ToSet(others) = ToSet(left) \ {c} /\ c \notin ToSet(others)
          /\ recent' = InsertAt(others, at + 1, c) /\ at \in 0..Len(others)
      BY <3>1, <3>2, <3>3
    <3>5. InOrderOnce(recent') /\ ToSet(recent') = ToSet(others) \cup {c}
      BY <1>1, <3>4, InsertedIsOrdered
    <3> QED  BY <3>4, <3>5
  <2>2. Held(ToSet(left) \cup {c}) \in Nat /\ Held(ToSet(left) \cup {c}) <= kept + need
    <3>1. ToSet(left) \in SUBSET Packed /\ ToSet(left) \ {c} \in SUBSET Packed
          /\ {c} \in SUBSET Packed
      BY <1>1, <1>4
    <3>2. Held((ToSet(left) \ {c}) \cup {c}) = Held(ToSet(left) \ {c}) + Held({c})
      BY <3>1, ChunksAddUp
    <3>3. (ToSet(left) \ {c}) \cup {c} = ToSet(left) \cup {c}
      OBVIOUS
    <3>4. Held(ToSet(left) \ {c}) \in Nat /\ Held(ToSet(left) \ {c}) <= kept
      <4>1. PICK B \in SUBSET Packed : B = ToSet(left)
        BY <3>1
      <4>2. Held(B \ {c}) \in Nat /\ Held(B \ {c}) <= Held(B)
        BY FewerTakeLess
      <4> QED  BY <1>5, <4>1, <4>2
    <3>5. PICK others \in Nat : others = Held(ToSet(left) \ {c}) /\ others <= kept
      BY <3>4
    <3>6. Held(ToSet(left) \cup {c}) = others + need
      BY <1>1, <3>2, <3>3, <3>5
    <3> QED  BY <1>1, <1>5, <3>5, <3>6
  <2>3. Held(ToSet(left) \cup {c}) <= CacheBudget
    BY <1>1, <1>3, <1>5, <1>6, <1>7, <1>9, <2>2
  <2>4. bytes' \in Nat /\ Held(ToSet(left) \cup {c}) <= bytes'
    BY <1>1, <1>2, <1>5, <1>6, <1>9, <2>2
  <2> QED  BY <1>2, <1>8, <1>9, <2>1, <2>3, <2>4 DEF CacheInv
<1>10. CASE ~(need <= CacheBudget)
  BY <1>2, <1>4, <1>5, <1>6, <1>7, <1>8, <1>10 DEF CacheInv
<1> QED  BY <1>9, <1>10

(* Every step of the loader. *)
LEMMA NextPreservesCacheInv ==
  ASSUME CacheInv, [CCNext]_ccVars
  PROVE  CacheInv'
<1>1. CASE \E t \in Loaders : Insert(t)
  BY <1>1, InsertKeepsCacheInv
<1>2. ASSUME NEW t \in Loaders, LoadChunk(t) PROVE CacheInv'
  <2>1. PICK c \in Packed :
          IF c \in Cached
          THEN recent' = MostRecent(recent, c) /\ UNCHANGED loads
          ELSE loads' = [loads EXCEPT ![t] = c] /\ UNCHANGED recent
    BY <1>2 DEF LoadChunk
  <2>2. UNCHANGED <<entries, bytes>> /\ Cached' = Cached
    BY <1>2 DEF LoadChunk, Cached
  <2>3. CASE c \in Cached
    <3>1. /\ InOrderOnce(Without(recent, c)) /\ ToSet(Without(recent, c)) = Cached \ {c}
      BY WithoutIsOrdered DEF CacheInv
    <3>2. recent' = Append(Without(recent, c), c)
      BY <2>1, <2>3 DEF MostRecent
    <3>3. PICK order : order = Without(recent, c)
      OBVIOUS
    <3>4. InOrderOnce(order) /\ ToSet(order) = Cached \ {c} /\ recent' = Append(order, c)
      BY <3>1, <3>2, <3>3
    <3>5. c \notin ToSet(order) /\ ToSet(order) \cup {c} = Cached
      BY <2>3, <3>4
    <3>6. InOrderOnce(Append(order, c)) /\ ToSet(Append(order, c)) = ToSet(order) \cup {c}
      BY <3>4, <3>5, AppendedIsOrdered
    <3>7. InOrderOnce(recent') /\ ToSet(recent') = Cached
      BY <3>4, <3>5, <3>6
    <3> QED  BY <2>1, <2>2, <2>3, <3>7 DEF CacheInv
  <2>4. CASE c \notin Cached
    BY <2>1, <2>2, <2>4 DEF CacheInv
  <2> QED  BY <2>3, <2>4
<1>3. ASSUME NEW t \in Loaders, LoadFails(t) \/ LoadPrimary(t) \/ ReconstructChunk(t)
      PROVE  CacheInv'
  <2>1. UNCHANGED <<entries, recent, bytes>> /\ Cached' = Cached
    BY <1>3 DEF LoadFails, LoadPrimary, ReconstructChunk, Cached
  <2>2. loads' \in [Loaders -> Packed \cup {Unchecked}]
    BY <1>3 DEF LoadFails, LoadPrimary, ReconstructChunk, CacheInv
  <2> QED  BY <2>1, <2>2 DEF CacheInv
<1>4. CASE ClearCache
  <2>1. recent' = <<>> /\ bytes' = 0 /\ Cached' = {} /\ UNCHANGED loads
    BY <1>4 DEF ClearCache, Cached
  <2> QED  BY <2>1, EmptyCacheIsInOrder DEF CacheInv
<1>5. CASE OpenLoader \/ UNCHANGED ccVars
  <2>1. UNCHANGED <<entries, recent, bytes, loads>> /\ Cached' = Cached
    BY <1>5 DEF OpenLoader, ccVars, Cached
  <2> QED  BY <2>1 DEF CacheInv
<1> QED  BY <1>1, <1>2, <1>3, <1>4, <1>5 DEF CCNext

(* In every execution what the cache holds takes no more than Cache.bytes    *)
(* counts, and no more than the budget.                                      *)
THEOREM CacheStaysWithinBudget == CCSpec => []CacheWithinBudget
<1>1. CCInit => CacheInv
  <2> SUFFICES ASSUME CCInit PROVE CacheInv
    OBVIOUS
  <2>1. recent = <<>> /\ bytes = 0 /\ Cached = {}
    BY DEF CCInit, Cached
  <2>2. loads \in [Loaders -> Packed \cup {Unchecked}]
    BY DEF CCInit
  <2> QED  BY <2>1, <2>2, EmptyCacheIsInOrder DEF CacheInv
<1>2. CacheInv /\ [CCNext]_ccVars => CacheInv'
  BY NextPreservesCacheInv
<1>3. CacheInv => CacheWithinBudget
  BY DEF CacheInv, CacheWithinBudget
<1> QED  BY <1>1, <1>2, <1>3, PTL DEF CCSpec

-----------------------------------------------------------------------------
(* ChunkArchive.  That a tensor comes back is prepared while the chunks are  *)
(* packed: ArchiveInv follows each tensor from the buffer it is appended to  *)
(* through the digest of the chunk to the manifest and the tensor index.     *)
TensorNames == UNION {{h.tensors[i].name : i \in 1..Len(h.tensors)} : h \in GgufFiles}

ChunkFile == [content : Seq(Nat), same : BOOLEAN, frame : BOOLEAN]
Described == [sha256 : Seq(Nat), same : BOOLEAN, names : Seq(TensorNames)]
Location  == [chunk : Nat, offset : Nat]
Entry     == [name : TensorNames, category : Categories, start : Nat, size : Nat,
              chunk : Nat, offset : Nat]

ArchiveTypes ==
  /\ packing \in {"none", "chunks", "manifest", "index", "done", "left"}
  /\ packing # "none" => gguf \in GgufFiles /\ config \in Packers /\ ParsesHeader(gguf)
  /\ files \in Seq(ChunkFile) /\ manifest \in Seq(Described) /\ index \in Seq(Entry)
  /\ raw \in Seq(Nat) /\ located \in Seq(Location) /\ described \in Seq(Described)
  /\ group \in Seq(Nat)
  /\ packing = "chunks" => \A k \in 1..Len(group) : group[k] \in 1..Len(gguf.tensors)

(* The bytes of tensor i are in a chunk's bytes, from an offset on. *)
Holds(h, whole, offset, i) ==
  /\ offset + SpanSize(h, i) <= Len(whole)
  /\ \A k \in 1..SpanSize(h, i) : whole[offset + k] = SpanStart(h, i) + k - 1

InChunk(h, chunks, at, i) ==
  at.chunk \in 1..Len(chunks) /\ Holds(h, chunks[at.chunk].sha256, at.offset, i)
InBuffer(h, chunks, buffer, at, i) ==
  at.chunk = Len(chunks) + 1 /\ Holds(h, buffer, at.offset, i)

(* Every tensor read so far is in the chunk being put together, or in one    *)
(* whose descriptor has its bytes for a digest.                              *)
LocatedAreHeld ==
  packing = "chunks" =>
    /\ Len(files) = Len(described) /\ Len(located) <= Len(gguf.tensors)
    /\ \A i \in 1..Len(located) :
         \/ InChunk(gguf, described, located[i], i)
         \/ group # <<>> /\ InBuffer(gguf, described, raw, located[i], i)

ManifestHolds ==
  packing \in {"manifest", "index"} =>
    /\ Len(files) = Len(manifest) /\ Len(located) = Len(gguf.tensors)
    /\ \A i \in 1..Len(located) : InChunk(gguf, manifest, located[i], i)

IndexHolds ==
  /\ packing \in {"none", "chunks"} => manifest = <<>>
  /\ packing \in {"none", "chunks", "manifest"} => index = <<>>
  /\ index # <<>> =>
       /\ Len(files) = Len(manifest) /\ Len(index) = Len(gguf.tensors)
       /\ \A i \in 1..Len(index) :
            index[i].size = SpanSize(gguf, i) /\ InChunk(gguf, manifest, index[i], i)

DeliveredIsOwn ==
  /\ packing = "done" => passed
  /\ got.tensor # 0 => packing \in {"done", "left"} /\ got.data = Span(gguf, got.tensor)

(* Outside pack_gguf its locals are gone, and before it there are no files.  *)
OnlyWhilePacking ==
  /\ packing \in {"none", "done", "left"} => NothingPacked
  /\ packing = "none" => files = <<>>

ArchiveInv ==
  /\ ArchiveTypes /\ OnlyWhilePacking
  /\ LocatedAreHeld /\ ManifestHolds /\ IndexHolds /\ DeliveredIsOwn

-----------------------------------------------------------------------------
(* In a header that parses every tensor has a span inside the file. *)
LEMMA SpansAreRanges ==
  ASSUME NEW h \in GgufFiles, ParsesHeader(h), NEW i \in 1..Len(h.tensors)
  PROVE  SpanStart(h, i) \in Nat /\ SpanSize(h, i) \in Nat /\ Span(h, i) \in Seq(Nat)
         /\ Len(Span(h, i)) = SpanSize(h, i)
<1>1. PICK n \in Nat : n = Len(h.tensors) /\ i \in 1..n
  BY ArchiveAssumption
<1>2. PICK start \in Nat : start = DataStart(h)
  <2>1. h.headerEnd \in Nat /\ Alignment \in Nat \ {0}
    BY ArchiveAssumption
  <2>2. PICK x \in Nat, a \in Nat \ {0} : x = h.headerEnd + Alignment - 1 /\ a = Alignment
    BY <2>1
  <2>3. PICK q \in Nat : q = x \div a
    BY <2>2
  <2>4. q * a \in Nat
    BY <2>2
  <2> QED  BY <2>2, <2>3, <2>4 DEF DataStart
<1>3. \A k \in 1..n : h.tensors[k].offset \in Nat
  BY <1>1, ArchiveAssumption
<1>4. SpanStart(h, i) \in Nat
  BY <1>1, <1>2, <1>3 DEF SpanStart
<1>5. SpanSize(h, i) \in Nat
  <2>1. CASE i = n
    <3>1. start + h.tensors[i].offset <= h.fileLen /\ h.fileLen \in Nat
      BY <1>1, <1>2, ArchiveAssumption DEF ParsesHeader
    <3>2. h.tensors[i].offset \in Nat
      BY <1>1, <1>3
    <3>3. SpanSize(h, i) = h.fileLen - (start + h.tensors[i].offset)
      BY <1>1, <1>2, <2>1 DEF SpanSize, SpanEnd, SpanStart
    <3> QED  BY <3>1, <3>2, <3>3
  <2>2. CASE i # n
    <3>1. i \in 1..(n - 1) /\ i + 1 \in 1..n
      BY <1>1, <2>2
    <3>2. h.tensors[i].offset < h.tensors[i + 1].offset
      BY <1>1, <3>1 DEF ParsesHeader
    <3>3. h.tensors[i].offset \in Nat /\ h.tensors[i + 1].offset \in Nat
      BY <1>1, <1>3, <3>1
    <3>4. SpanSize(h, i) = (start + h.tensors[i + 1].offset) - (start + h.tensors[i].offset)
      BY <1>1, <1>2, <2>2 DEF SpanSize, SpanEnd, SpanStart
    <3> QED  BY <3>2, <3>3, <3>4
  <2> QED  BY <2>1, <2>2
<1>6. PICK a \in Nat, z \in Nat : a = SpanStart(h, i) /\ z = SpanSize(h, i)
  BY <1>4, <1>5
<1>7. Span(h, i) = [k \in 1..z |-> a + k - 1]
  BY <1>6 DEF Span
<1>8. \A k \in 1..z : a + k - 1 \in Nat
  BY <1>6
<1>9. Span(h, i) \in Seq(Nat) /\ Len(Span(h, i)) = z
  BY <1>6, <1>7, <1>8
<1> QED  BY <1>4, <1>5, <1>6, <1>9

(* extend_from_slice: what was in the buffer keeps its place, and the tensor *)
(* is at the length it had.                                                  *)
LEMMA AppendedBytes ==
  ASSUME NEW a \in Seq(Nat), NEW b \in Seq(Nat)
  PROVE  /\ a \o b \in Seq(Nat) /\ Len(a \o b) = Len(a) + Len(b)
         /\ \A k \in 1..Len(a) : (a \o b)[k] = a[k]
         /\ \A k \in 1..Len(b) : (a \o b)[Len(a) + k] = b[k]
<1>1. PICK n \in Nat, m \in Nat : n = Len(a) /\ m = Len(b)
  OBVIOUS
<1>2. a \o b \in Seq(Nat) /\ Len(a \o b) = n + m
  BY <1>1
<1>3. \A k \in 1..n : (a \o b)[k] = a[k]
  BY <1>1
<1>4. \A k \in 1..m : (a \o b)[n + k] = b[k]
  BY <1>1
<1> QED  BY <1>1, <1>2, <1>3, <1>4

(* A tensor that is held comes back as its span. *)
LEMMA HeldComesBack ==
  ASSUME NEW whole \in Seq(Nat), NEW offset \in Nat, gguf \in GgufFiles, ParsesHeader(gguf),
         NEW i \in 1..Len(gguf.tensors), Holds(gguf, whole, offset, i)
  PROVE  SubSeq(whole, offset + 1, offset + SpanSize(gguf, i)) = Span(gguf, i)
<1>1. PICK a \in Nat, z \in Nat : a = SpanStart(gguf, i) /\ z = SpanSize(gguf, i)
  BY SpansAreRanges
<1>2. PICK n \in Nat : n = Len(whole) /\ offset + z <= n
  BY <1>1 DEF Holds
<1>3. PICK s : s = SubSeq(whole, offset + 1, offset + z)
  OBVIOUS
<1>4. s \in Seq(Nat) /\ Len(s) = z
  BY <1>2, <1>3
<1>5. ASSUME NEW k \in 1..z PROVE s[k] = whole[offset + k]
  <2>1. PICK lo \in Nat, hi \in Nat : lo = offset + 1 /\ hi = offset + z /\ hi <= n
    BY <1>2
  <2>2. SubSeq(whole, lo, hi) = [x \in 1..(hi - lo + 1) |-> whole[lo + x - 1]]
    BY <1>2, <2>1
  <2>3. k \in 1..(hi - lo + 1) /\ lo + k - 1 = offset + k
    BY <2>1
  <2> QED  BY <1>3, <2>1, <2>2, <2>3
<1>6. \A k \in 1..z : s[k] = a + k - 1
  BY <1>1, <1>5 DEF Holds
<1>7. s = [k \in 1..z |-> a + k - 1]
  <2>1. DOMAIN s = 1..z
    BY <1>4
  <2>2. s = [k \in 1..z |-> s[k]]
    BY <1>4, <2>1
  <2> QED  BY <1>6, <2>2
<1> QED  BY <1>1, <1>3, <1>7 DEF Span

(* A buffer that grows holds what it held, and the tensor read last. *)
LEMMA GrowingHolds ==
  ASSUME gguf \in GgufFiles, ParsesHeader(gguf), NEW whole \in Seq(Nat),
         NEW last \in 1..Len(gguf.tensors)
  PROVE  /\ whole \o Span(gguf, last) \in Seq(Nat)
         /\ Holds(gguf, whole \o Span(gguf, last), Len(whole), last)
         /\ \A i \in 1..Len(gguf.tensors), offset \in Nat :
              Holds(gguf, whole, offset, i) => Holds(gguf, whole \o Span(gguf, last), offset, i)
<1>1. PICK b \in Seq(Nat) : b = Span(gguf, last) /\ Len(b) = SpanSize(gguf, last)
  BY SpansAreRanges
<1>2. PICK c \in Seq(Nat) :
        /\ c = whole \o b /\ Len(c) = Len(whole) + Len(b)
        /\ \A k \in 1..Len(whole) : c[k] = whole[k]
        /\ \A k \in 1..Len(b) : c[Len(whole) + k] = b[k]
  BY AppendedBytes
<1>3. Holds(gguf, c, Len(whole), last)
  <2>1. \A k \in 1..SpanSize(gguf, last) : b[k] = SpanStart(gguf, last) + k - 1
    BY <1>1 DEF Span
  <2> QED  BY <1>1, <1>2, <2>1 DEF Holds
<1>4. ASSUME NEW i \in 1..Len(gguf.tensors), NEW offset \in Nat, Holds(gguf, whole, offset, i)
      PROVE  Holds(gguf, c, offset, i)
  <2>1. PICK z \in Nat, n \in Nat, m \in Nat :
          z = SpanSize(gguf, i) /\ n = Len(whole) /\ m = Len(b)
    BY SpansAreRanges
  <2>2. offset + z <= n /\ \A k \in 1..z : whole[offset + k] = SpanStart(gguf, i) + k - 1
    BY <1>4, <2>1 DEF Holds
  <2>3. \A k \in 1..z : offset + k \in 1..n
    BY <2>1, <2>2
  <2>4. \A k \in 1..z : c[offset + k] = whole[offset + k]
    BY <1>2, <2>1, <2>3
  <2>5. offset + z <= Len(c)
    BY <1>2, <2>1, <2>2
  <2> QED  BY <2>1, <2>2, <2>4, <2>5 DEF Holds
<1> QED  BY <1>1, <1>2, <1>3, <1>4

(* Append, for records. *)
LEMMA AppendedRecord ==
  ASSUME NEW S, NEW s \in Seq(S), NEW e \in S
  PROVE  /\ Append(s, e) \in Seq(S) /\ Len(Append(s, e)) = Len(s) + 1
         /\ Append(s, e)[Len(s) + 1] = e
         /\ \A k \in 1..Len(s) : Append(s, e)[k] = s[k]
<1>1. Append(s, e) \in Seq(S) /\ Len(Append(s, e)) = Len(s) + 1
  OBVIOUS
<1>2. Append(s, e)[Len(s) + 1] = e
  OBVIOUS
<1>3. \A k \in 1..Len(s) : Append(s, e)[k] = s[k]
  OBVIOUS
<1> QED  BY <1>1, <1>2, <1>3

-----------------------------------------------------------------------------
(* Before anything is packed. *)
LEMMA InitEstablishesArchiveInv == CAInit => ArchiveInv
<1> SUFFICES ASSUME CAInit PROVE ArchiveInv
  OBVIOUS
<1>1. got.tensor = 0
  BY DEF CAInit, NothingGot
<1>2. ArchiveTypes
  BY DEF CAInit, NothingPacked, ArchiveTypes
<1> QED
  BY <1>1, <1>2 DEF CAInit, ArchiveInv, OnlyWhilePacking, LocatedAreHeld, ManifestHolds,
     IndexHolds, DeliveredIsOwn

(* pack_gguf begins with nothing. *)
LEMMA BeginPackKeeps ==
  ASSUME ArchiveInv, NEW h \in GgufFiles, NEW cfg \in Packers, BeginPack(h, cfg)
  PROVE  ArchiveInv'
<1> USE DEF BeginPack, packer
<1>1. group = <<>> /\ raw = <<>> /\ located = <<>> /\ described = <<>>
      /\ files = <<>> /\ index = <<>> /\ manifest = <<>> /\ got.tensor = 0
  BY DEF ArchiveInv, OnlyWhilePacking, NothingPacked, IndexHolds, DeliveredIsOwn
<1>2. ArchiveTypes'
  <2>1. ParsesHeader(gguf)'
    BY DEF ParsesHeader, DataStart
  <2> QED  BY <1>1, <2>1 DEF ArchiveInv, ArchiveTypes
<1>3. Len(gguf'.tensors) \in Nat
  BY ArchiveAssumption
<1> QED
  BY <1>1, <1>2, <1>3 DEF ArchiveInv, OnlyWhilePacking, NothingPacked, LocatedAreHeld, ManifestHolds,
     IndexHolds, DeliveredIsOwn

(* A tensor is appended to the chunk that is being put together. *)
LEMMA PackTensorKeeps ==
  ASSUME ArchiveInv, PackTensor
  PROVE  ArchiveInv'
<1> DEFINE i == Len(located) + 1
           here == [chunk |-> Len(files) + 1, offset |-> Len(raw)]
<1>1. /\ gguf \in GgufFiles /\ ParsesHeader(gguf) /\ packing = "chunks"
      /\ i \in 1..Len(gguf.tensors) /\ Len(gguf.tensors) \in Nat /\ i \in Nat
      /\ raw \in Seq(Nat) /\ located \in Seq(Location) /\ group \in Seq(Nat)
      /\ Len(files) \in Nat
  BY ArchiveAssumption DEF PackTensor, ArchiveInv, ArchiveTypes
<1>2. /\ raw' = raw \o Span(gguf, i) /\ group' = Append(group, i)
      /\ located' = Append(located, here)
      /\ UNCHANGED <<gguf, config, packing, described, files, manifest, index, passed, got>>
  BY DEF PackTensor
<1>3. here \in Location /\ here.chunk = Len(files) + 1 /\ here.offset = Len(raw)
  BY <1>1 DEF Location
<1> HIDE DEF here
<1>4. /\ located' \in Seq(Location) /\ Len(located') = i /\ located'[i] = here
      /\ \A k \in 1..Len(located) : located'[k] = located[k]
  BY <1>1, <1>2, <1>3, AppendedRecord
<1>5. /\ group' \in Seq(Nat) /\ Len(group') = Len(group) + 1 /\ group'[Len(group) + 1] = i
      /\ \A k \in 1..Len(group) : group'[k] = group[k]
  BY <1>1, <1>2, AppendedRecord
<1>6. /\ raw' \in Seq(Nat) /\ Holds(gguf, raw', Len(raw), i)
      /\ \A k \in 1..Len(gguf.tensors), offset \in Nat :
           Holds(gguf, raw, offset, k) => Holds(gguf, raw', offset, k)
  BY <1>1, <1>2, GrowingHolds
<1>7. ArchiveTypes'
  <2>1. ParsesHeader(gguf)'
    BY <1>1, <1>2 DEF ParsesHeader, DataStart
  <2>2. \A k \in 1..Len(group') : group'[k] \in 1..Len(gguf.tensors)
    <3>1. \A k \in 1..Len(group) : group[k] \in 1..Len(gguf.tensors)
      BY <1>1 DEF ArchiveInv, ArchiveTypes
    <3>2. PICK n \in Nat : n = Len(group)
      BY <1>1
    <3>3. ASSUME NEW k \in 1..(n + 1) PROVE k \in 1..n \/ k = n + 1
      OBVIOUS
    <3> QED  BY <1>1, <1>5, <3>1, <3>2, <3>3
  <2> QED  BY <1>1, <1>2, <1>4, <1>5, <1>6, <2>1, <2>2 DEF ArchiveInv, ArchiveTypes
<1>8. LocatedAreHeld'
  <2>1. Len(files) = Len(described)
    BY <1>1 DEF ArchiveInv, LocatedAreHeld
  <2>2. group' # <<>>
    BY <1>1, <1>5
  <2>3. ASSUME NEW k \in 1..Len(located')
        PROVE  \/ InChunk(gguf, described, located'[k], k)
               \/ InBuffer(gguf, described, raw', located'[k], k)
    <3>1. CASE k = i
      BY <1>3, <1>4, <1>6, <2>1, <3>1 DEF InBuffer
    <3>2. CASE k # i
      <4>1. k \in 1..Len(located) /\ k \in 1..Len(gguf.tensors)
        BY <1>1, <1>4, <3>2
      <4>2. located'[k] = located[k] /\ located[k] \in Location
        BY <1>1, <1>4, <4>1
      <4>3. located[k].offset \in Nat
        BY <4>2 DEF Location
      <4>4. \/ InChunk(gguf, described, located[k], k)
            \/ InBuffer(gguf, described, raw, located[k], k)
        BY <1>1, <4>1 DEF ArchiveInv, LocatedAreHeld
      <4>5. InBuffer(gguf, described, raw, located[k], k)
              => InBuffer(gguf, described, raw', located[k], k)
        BY <1>6, <4>1, <4>3 DEF InBuffer
      <4> QED  BY <4>2, <4>4, <4>5
    <3> QED  BY <3>1, <3>2
  <2>4. Len(files') = Len(described') /\ Len(located') <= Len(gguf'.tensors)
    BY <1>1, <1>2, <1>4, <2>1
  <2>5. ASSUME NEW k \in 1..Len(located')
        PROVE  \/ InChunk(gguf', described', located'[k], k)
               \/ group' # <<>> /\ InBuffer(gguf', described', raw', located'[k], k)
    <3>1. gguf' = gguf /\ described' = described
      BY <1>2
    <3> QED  BY <2>2, <2>3, <3>1
  <2> QED  BY <2>4, <2>5 DEF LocatedAreHeld
<1> QED
  BY <1>1, <1>2, <1>7, <1>8 DEF ArchiveInv, OnlyWhilePacking, ManifestHolds, IndexHolds,
     DeliveredIsOwn

(* A chunk that is complete gets its file and its descriptor: its tensors    *)
(* are now in that chunk.                                                    *)
LEMMA PackChunkKeeps ==
  ASSUME ArchiveInv, PackChunk
  PROVE  ArchiveInv'
<1>0. PICK names : names = [k \in 1..Len(group) |-> gguf.tensors[group[k]].name]
  OBVIOUS
<1>1. PICK same \in BOOLEAN, frame \in BOOLEAN :
        /\ files' = Append(files, [content |-> raw, same |-> same, frame |-> frame])
        /\ described' = Append(described, [sha256 |-> raw, same |-> same, names |-> names])
  <2>1. gguf \in GgufFiles /\ config \in Packers
    BY DEF PackChunk, ArchiveInv, ArchiveTypes
  <2>2. Compresses \in BOOLEAN
    BY <2>1, ArchiveAssumption DEF Compresses
  <2>3. PICK frame \in BOOLEAN : frame = Compresses
    BY <2>2
  <2> QED  BY <1>0, <2>3 DEF PackChunk
<1>2. /\ gguf \in GgufFiles /\ ParsesHeader(gguf) /\ packing = "chunks" /\ config \in Packers
      /\ raw \in Seq(Nat) /\ described \in Seq(Described) /\ group \in Seq(Nat)
      /\ files \in Seq(ChunkFile) /\ located \in Seq(Location)
      /\ Len(gguf.tensors) \in Nat
      /\ \A k \in 1..Len(group) : group[k] \in 1..Len(gguf.tensors)
  BY ArchiveAssumption DEF PackChunk, ArchiveInv, ArchiveTypes
<1>3. /\ group' = <<>> /\ raw' = <<>>
      /\ UNCHANGED <<gguf, config, packing, located, manifest, index, passed, got>>
  BY DEF PackChunk
<1>4. names \in Seq(TensorNames)
  <2>1. PICK n \in Nat : n = Len(group)
    BY <1>2
  <2>2. \A k \in 1..n : gguf.tensors[group[k]].name \in TensorNames
    BY <1>2, <2>1 DEF TensorNames
  <2> QED  BY <1>0, <2>1, <2>2
<1>5. PICK d \in Described : described' = Append(described, d) /\ d.sha256 = raw
  <2>1. [sha256 |-> raw, same |-> same, names |-> names] \in Described
    BY <1>1, <1>2, <1>4 DEF Described
  <2> QED  BY <1>1, <2>1
<1>6. PICK f \in ChunkFile : files' = Append(files, f)
  <2>1. [content |-> raw, same |-> same, frame |-> frame] \in ChunkFile
    BY <1>1, <1>2 DEF ChunkFile
  <2> QED  BY <1>1, <2>1
<1>7. /\ described' \in Seq(Described) /\ Len(described') = Len(described) + 1
      /\ described'[Len(described) + 1] = d
      /\ \A k \in 1..Len(described) : described'[k] = described[k]
  BY <1>2, <1>5, AppendedRecord
<1>8. files' \in Seq(ChunkFile) /\ Len(files') = Len(files) + 1
  BY <1>2, <1>6, AppendedRecord
<1>9. ArchiveTypes'
  <2>1. ParsesHeader(gguf)'
    BY <1>2, <1>3 DEF ParsesHeader, DataStart
  <2> QED  BY <1>2, <1>3, <1>7, <1>8, <2>1 DEF ArchiveInv, ArchiveTypes
<1>10. LocatedAreHeld'
  <2>1. Len(files) = Len(described) /\ Len(located) <= Len(gguf.tensors)
    BY <1>2 DEF ArchiveInv, LocatedAreHeld
  <2>2. ASSUME NEW k \in 1..Len(located) PROVE InChunk(gguf, described', located[k], k)
    <3>1. CASE InChunk(gguf, described, located[k], k)
      <4>1. located[k].chunk \in 1..Len(described')
        BY <1>2, <1>7, <3>1 DEF InChunk
      <4> QED  BY <1>7, <3>1, <4>1 DEF InChunk
    <3>2. CASE InBuffer(gguf, described, raw, located[k], k)
      <4>1. located[k].chunk = Len(described) + 1 /\ Len(described) + 1 \in 1..Len(described')
        BY <1>2, <1>7, <3>2 DEF InBuffer
      <4> QED  BY <1>5, <1>7, <3>2, <4>1 DEF InBuffer, InChunk
    <3> QED  BY <1>2, <3>1, <3>2 DEF ArchiveInv, LocatedAreHeld
  <2>3. Len(files') = Len(described') /\ Len(located') <= Len(gguf'.tensors)
    BY <1>3, <1>7, <1>8, <2>1
  <2>4. ASSUME NEW k \in 1..Len(located') PROVE InChunk(gguf', described', located'[k], k)
    <3>1. gguf' = gguf /\ located' = located
      BY <1>3
    <3> QED  BY <2>2, <3>1
  <2> QED  BY <2>3, <2>4 DEF LocatedAreHeld
<1> QED
  BY <1>2, <1>3, <1>9, <1>10 DEF ArchiveInv, OnlyWhilePacking, ManifestHolds, IndexHolds,
     DeliveredIsOwn

(* The manifest names the chunks that were written. *)
LEMMA WriteManifestKeeps ==
  ASSUME ArchiveInv, WriteManifest
  PROVE  ArchiveInv'
<1>1. /\ packing = "chunks" /\ packing' = "manifest" /\ manifest' = described
      /\ Len(located) = Len(gguf.tensors) /\ group = <<>>
      /\ UNCHANGED <<gguf, config, group, raw, located, described, files, index, passed, got>>
  BY DEF WriteManifest, packer
<1>2. ArchiveTypes'
  <2>1. ParsesHeader(gguf)'
    BY <1>1 DEF ArchiveInv, ArchiveTypes, ParsesHeader, DataStart
  <2> QED  BY <1>1, <2>1 DEF ArchiveInv, ArchiveTypes
<1>3. ManifestHolds'
  <2>1. Len(files') = Len(manifest') /\ Len(located') = Len(gguf'.tensors)
    BY <1>1 DEF ArchiveInv, LocatedAreHeld
  <2>2. ASSUME NEW i \in 1..Len(located') PROVE InChunk(gguf', manifest', located'[i], i)
    <3>1. InChunk(gguf, described, located[i], i)
      BY <1>1 DEF ArchiveInv, LocatedAreHeld
    <3> QED  BY <1>1, <3>1
  <2> QED  BY <2>1, <2>2 DEF ManifestHolds
<1> QED
  BY <1>1, <1>2, <1>3 DEF ArchiveInv, OnlyWhilePacking, LocatedAreHeld, IndexHolds,
     DeliveredIsOwn

(* The tensor index has every tensor's place. *)
LEMMA WriteIndexKeeps ==
  ASSUME ArchiveInv, WriteIndex
  PROVE  ArchiveInv'
<1>1. /\ packing = "manifest" /\ packing' = "index" /\ index' = TensorIndex
      /\ UNCHANGED <<gguf, config, group, raw, located, described, files, manifest, passed, got>>
  BY DEF WriteIndex, packer
<1>2. PICK n \in Nat : n = Len(gguf.tensors)
  BY <1>1, ArchiveAssumption DEF ArchiveInv, ArchiveTypes
<1>3. /\ gguf \in GgufFiles /\ ParsesHeader(gguf)
      /\ located \in Seq(Location) /\ Len(located) = n /\ Len(files) = Len(manifest)
      /\ \A i \in 1..n : InChunk(gguf, manifest, located[i], i)
  BY <1>1, <1>2 DEF ArchiveInv, ArchiveTypes, ManifestHolds
<1>4. ASSUME NEW i \in 1..n
      PROVE  /\ [name |-> gguf.tensors[i].name, category |-> gguf.tensors[i].category,
                 start |-> SpanStart(gguf, i), size |-> SpanSize(gguf, i),
                 chunk |-> located[i].chunk, offset |-> located[i].offset] \in Entry
  <2>1. gguf.tensors[i].name \in TensorNames /\ gguf.tensors[i].category \in Categories
    BY <1>2, <1>3, ArchiveAssumption DEF TensorNames
  <2>2. SpanStart(gguf, i) \in Nat /\ SpanSize(gguf, i) \in Nat
    BY <1>2, <1>3, SpansAreRanges
  <2>3. located[i] \in Location
    BY <1>3
  <2> QED  BY <2>1, <2>2, <2>3 DEF Entry, Location
<1>5. /\ index' \in Seq(Entry) /\ Len(index') = n
      /\ \A i \in 1..n : /\ index'[i].size = SpanSize(gguf, i)
                         /\ index'[i].chunk = located[i].chunk
                         /\ index'[i].offset = located[i].offset
  BY <1>1, <1>2, <1>4 DEF TensorIndex
<1>6. ArchiveTypes'
  <2>1. ParsesHeader(gguf)'
    BY <1>1, <1>3 DEF ParsesHeader, DataStart
  <2> QED  BY <1>1, <1>5, <2>1 DEF ArchiveInv, ArchiveTypes
<1>7. IndexHolds'
  <2>1. ASSUME NEW i \in 1..Len(index')
        PROVE  index'[i].size = SpanSize(gguf', i) /\ InChunk(gguf', manifest', index'[i], i)
    <3>1. InChunk(gguf, manifest, located[i], i)
      BY <1>3, <1>5
    <3>2. InChunk(gguf, manifest, index'[i], i)
      BY <1>5, <3>1 DEF InChunk
    <3> QED  BY <1>1, <1>5, <3>2
  <2> QED  BY <1>1, <1>2, <1>3, <1>5, <2>1 DEF IndexHolds
<1>8. ManifestHolds'
  <2>1. ASSUME NEW i \in 1..Len(located') PROVE InChunk(gguf', manifest', located'[i], i)
    BY <1>1, <1>3
  <2> QED  BY <1>1, <1>2, <1>3, <2>1 DEF ManifestHolds
<1> QED
  BY <1>1, <1>6, <1>7, <1>8 DEF ArchiveInv, OnlyWhilePacking, LocatedAreHeld, DeliveredIsOwn

(* pack_gguf ends or dies. *)
LEMMA PackEndsKeeps ==
  ASSUME ArchiveInv, VerifyArchive \/ PackFails \/ PackerDies
  PROVE  ArchiveInv'
<1>1. /\ UNCHANGED <<gguf, config, got>> /\ Returns
      /\ packing \in {"chunks", "manifest", "index"}
      /\ \/ packing' = "done" /\ passed' /\ packing = "index"
            /\ UNCHANGED <<files, manifest, index>>
         \/ packing' = "none" /\ NoFiles
         \/ packing' = "left" /\ UNCHANGED <<files, manifest, index>>
  BY DEF VerifyArchive, PackFails, PackerDies
<1>2. got.tensor = 0
  BY <1>1 DEF ArchiveInv, DeliveredIsOwn
<1>3. ArchiveTypes'
  <2>1. ParsesHeader(gguf)'
    BY <1>1 DEF ArchiveInv, ArchiveTypes, ParsesHeader, DataStart
  <2>2. files' \in Seq(ChunkFile) /\ manifest' \in Seq(Described) /\ index' \in Seq(Entry)
    <3>1. /\ files \in Seq(ChunkFile) /\ manifest \in Seq(Described) /\ index \in Seq(Entry)
      BY DEF ArchiveInv, ArchiveTypes
    <3>2. CASE NoFiles
      BY <3>2 DEF NoFiles
    <3>3. CASE UNCHANGED <<files, manifest, index>>
      BY <3>1, <3>3
    <3> QED  BY <1>1, <3>2, <3>3
  <2>3. /\ raw' \in Seq(Nat) /\ located' \in Seq(Location) /\ described' \in Seq(Described)
        /\ group' \in Seq(Nat)
    BY <1>1 DEF Returns
  <2>4. gguf' \in GgufFiles /\ config' \in Packers
    BY <1>1 DEF ArchiveInv, ArchiveTypes
  <2>5. packing' \in {"none", "done", "left"}
    BY <1>1
  <2> QED  BY <2>1, <2>2, <2>3, <2>4, <2>5 DEF ArchiveTypes
<1>4. OnlyWhilePacking'
  BY <1>1 DEF OnlyWhilePacking, NothingPacked, Returns, NoFiles
<1>5. IndexHolds'
  <2>1. CASE UNCHANGED <<files, manifest, index>> /\ packing' \in {"done", "left"}
    BY <1>1, <2>1 DEF ArchiveInv, IndexHolds
  <2>2. CASE NoFiles
    BY <2>2 DEF IndexHolds, NoFiles
  <2> QED  BY <1>1, <2>1, <2>2
<1> QED
  BY <1>1, <1>2, <1>3, <1>4, <1>5 DEF ArchiveInv, LocatedAreHeld, ManifestHolds,
     DeliveredIsOwn

(* The medium changes what a chunk file holds, not how many there are. *)
LEMMA ChunkRotsKeeps ==
  ASSUME ArchiveInv, NEW n \in 1..Len(files), ChunkRots(n)
  PROVE  ArchiveInv'
<1>1. /\ packing \in {"done", "left"}
      /\ files' = [files EXCEPT ![n].content = <<0>>]
      /\ UNCHANGED <<gguf, config, packing, group, raw, located, described, manifest, index,
                     passed, got>>
  BY DEF ChunkRots, packer
<1>2. files' \in Seq(ChunkFile) /\ Len(files') = Len(files)
  <2>1. PICK m \in Nat : files \in Seq(ChunkFile) /\ m = Len(files)
    BY DEF ArchiveInv, ArchiveTypes
  <2>2. PICK f \in ChunkFile : f = [files[n] EXCEPT !.content = <<0>>]
    <3>1. files[n] \in ChunkFile
      BY <2>1
    <3>2. <<0>> \in Seq(Nat)
      OBVIOUS
    <3>3. PICK zero \in Seq(Nat) : zero = <<0>>
      BY <3>2
    <3>4. [files[n] EXCEPT !.content = zero] \in ChunkFile
      BY <3>1 DEF ChunkFile
    <3> QED  BY <3>3, <3>4
  <2>3. files' = [files EXCEPT ![n] = f]
    BY <1>1, <2>2
  <2> QED  BY <2>1, <2>3
<1>3. ArchiveTypes'
  <2>1. ParsesHeader(gguf)'
    BY <1>1 DEF ArchiveInv, ArchiveTypes, ParsesHeader, DataStart
  <2> QED  BY <1>1, <1>2, <2>1 DEF ArchiveInv, ArchiveTypes
<1>4. IndexHolds'
  BY <1>1, <1>2 DEF ArchiveInv, IndexHolds
<1> QED
  BY <1>1, <1>3, <1>4 DEF ArchiveInv, OnlyWhilePacking, NothingPacked, LocatedAreHeld,
     ManifestHolds, DeliveredIsOwn

(* The first tensor with a name that some tensor has. *)
LEMMA FirstIsFound ==
  ASSUME index \in Seq(Entry), NEW i \in 1..Len(index)
  PROVE  FirstNamed(index[i].name) \in 1..Len(index)
<1>1. PICK n \in Nat : n = Len(index) /\ i \in 1..n
  OBVIOUS
<1> DEFINE same == {k \in 1..n : index[k].name = index[i].name}
<1>2. PICK first \in same : \A k \in same : first <= k
  <2>1. same \in SUBSET Nat /\ i \in same
    BY <1>1
  <2> HIDE DEF same
  <2> QED  BY <2>1, LeastExists
<1>3. \A k \in 1..(first - 1) : k \in 1..n /\ k \notin same
  BY <1>1, <1>2
<1>4. \E f \in 1..Len(index) :
        index[f].name = index[i].name /\ \A k \in 1..f - 1 : index[k].name # index[i].name
  BY <1>1, <1>2, <1>3
<1> QED  BY <1>4 DEF FirstNamed

(* A tensor comes from a chunk whose bytes have the digest of the manifest:  *)
(* the packed file, or what the fallback gave.                               *)
LEMMA LoadTensorKeeps ==
  ASSUME ArchiveInv, NEW i \in 1..Len(index), NEW spare \in BOOLEAN, LoadTensor(i, spare)
  PROVE  ArchiveInv'
<1>1. PICK f : f = FirstNamed(index[i].name)
  OBVIOUS
<1>2. PICK e : e = index[f]
  OBVIOUS
<1>3. PICK whole : whole = manifest[e.chunk].sha256
  OBVIOUS
<1>4. /\ packing \in {"done", "left"} /\ index # <<>>
      /\ got'.tensor = f
      /\ got'.data = SubSeq(whole, e.offset + 1, e.offset + e.size)
      /\ UNCHANGED <<gguf, config, packing, group, raw, located, described, files, manifest,
                     index, passed>>
  BY <1>1, <1>2, <1>3 DEF LoadTensor, Sound, ArchiveOpens, packer
<1>5. /\ gguf \in GgufFiles /\ ParsesHeader(gguf)
      /\ index \in Seq(Entry) /\ manifest \in Seq(Described)
  BY <1>4 DEF ArchiveInv, ArchiveTypes
<1>6. f \in 1..Len(index) /\ f \in 1..Len(gguf.tensors) /\ e \in Entry
  <2>1. f \in 1..Len(index)
    BY <1>1, <1>5, FirstIsFound
  <2> QED  BY <1>2, <1>4, <1>5, <2>1 DEF ArchiveInv, IndexHolds
<1>7. e.size = SpanSize(gguf, f) /\ InChunk(gguf, manifest, e, f)
  BY <1>2, <1>4, <1>6 DEF ArchiveInv, IndexHolds
<1>8. whole \in Seq(Nat) /\ e.offset \in Nat /\ Holds(gguf, whole, e.offset, f)
  <2>1. manifest[e.chunk] \in Described
    BY <1>5, <1>7 DEF InChunk
  <2>2. whole \in Seq(Nat)
    BY <1>3, <2>1 DEF Described
  <2>3. e.offset \in Nat
    BY <1>6 DEF Entry
  <2>4. Holds(gguf, whole, e.offset, f)
    BY <1>3, <1>7 DEF InChunk
  <2> QED  BY <2>2, <2>3, <2>4
<1>9. got'.data = Span(gguf, f)
  <2>1. PICK offset \in Nat : offset = e.offset /\ Holds(gguf, whole, offset, f)
    BY <1>8
  <2>2. SubSeq(whole, offset + 1, offset + SpanSize(gguf, f)) = Span(gguf, f)
    BY <1>5, <1>6, <1>8, <2>1, HeldComesBack
  <2> QED  BY <1>4, <1>7, <2>1, <2>2
<1>10. ArchiveTypes'
  <2>1. ParsesHeader(gguf)'
    BY <1>4, <1>5 DEF ParsesHeader, DataStart
  <2> QED  BY <1>4, <2>1 DEF ArchiveInv, ArchiveTypes
<1>11. DeliveredIsOwn'
  <2>1. got'.tensor = f /\ got'.data = Span(gguf', f) /\ packing' \in {"done", "left"}
        /\ (packing' = "done" => passed')
    BY <1>4, <1>9 DEF ArchiveInv, DeliveredIsOwn
  <2>2. got'.data = Span(gguf', got'.tensor)
    BY <2>1
  <2> QED  BY <2>1, <2>2 DEF DeliveredIsOwn
<1> QED
  BY <1>4, <1>10, <1>11 DEF ArchiveInv, OnlyWhilePacking, NothingPacked, LocatedAreHeld,
     ManifestHolds, IndexHolds

(* Steps that leave the archive alone. *)
LEMMA ArchiveUntouched ==
  ASSUME ArchiveInv,
         UNCHANGED <<gguf, config, packing, packer, files, manifest, index, passed, got>>
  PROVE  ArchiveInv'
<1>1. ArchiveTypes'
  <2>1. packing # "none" => ParsesHeader(gguf)'
    BY DEF ArchiveInv, ArchiveTypes, ParsesHeader, DataStart
  <2> QED  BY <2>1 DEF ArchiveInv, ArchiveTypes, packer
<1> QED
  BY <1>1 DEF ArchiveInv, OnlyWhilePacking, NothingPacked, LocatedAreHeld, ManifestHolds,
     IndexHolds, DeliveredIsOwn, packer

(* Every step of the packer, the loader and the medium. *)
LEMMA NextPreservesArchiveInv == ArchiveInv /\ [CANext]_caVars => ArchiveInv'
<1> SUFFICES ASSUME ArchiveInv, [CANext]_caVars PROVE ArchiveInv'
  OBVIOUS
<1>1. CASE \E h \in GgufFiles, cfg \in Packers : BeginPack(h, cfg)
  BY <1>1, BeginPackKeeps
<1>2. CASE PackTensor
  BY <1>2, PackTensorKeeps
<1>3. CASE PackChunk
  BY <1>3, PackChunkKeeps
<1>4. CASE WriteManifest
  BY <1>4, WriteManifestKeeps
<1>5. CASE WriteIndex
  BY <1>5, WriteIndexKeeps
<1>6. CASE VerifyArchive \/ PackFails \/ PackerDies
  BY <1>6, PackEndsKeeps
<1>7. CASE \E n \in 1..Len(files) : ChunkRots(n)
  BY <1>7, ChunkRotsKeeps
<1>8. CASE \E i \in 1..Len(index), spare \in BOOLEAN : LoadTensor(i, spare)
  BY <1>8, LoadTensorKeeps
<1>9. CASE \E limit \in WarmupLimits, strict \in BOOLEAN : Warmup(limit, strict)
  <2>1. UNCHANGED <<gguf, config, packing, packer, files, manifest, index, passed, got>>
    BY <1>9 DEF Warmup
  <2> QED  BY <2>1, ArchiveUntouched
<1>10. CASE UNCHANGED caVars
  <2>1. UNCHANGED <<gguf, config, packing, packer, files, manifest, index, passed, got>>
    BY <1>10 DEF caVars
  <2> QED  BY <2>1, ArchiveUntouched
<1> QED
  BY <1>1, <1>2, <1>3, <1>4, <1>5, <1>6, <1>7, <1>8, <1>9, <1>10 DEF CANext

(* In every execution. *)
LEMMA ArchiveInvHolds == CASpec => []ArchiveInv
<1>1. CAInit => ArchiveInv
  BY InitEstablishesArchiveInv
<1>2. ArchiveInv /\ [CANext]_caVars => ArchiveInv'
  BY NextPreservesArchiveInv
<1> QED  BY <1>1, <1>2, PTL DEF CASpec

(* TensorsComeBack: whatever a loader that verifies delivers is the tensor's *)
(* bytes of the GGUF, for any files that parse, any grouping of their        *)
(* tensors, after rot of any chunk and after a packer that died anywhere.    *)
THEOREM TensorsComeBackWhole == CASpec => []TensorsComeBack
<1>1. ArchiveInv => TensorsComeBack
  <2> SUFFICES ASSUME ArchiveInv PROVE TensorsComeBack
    OBVIOUS
  <2>1. ASSUME ArchiveOpens, NEW i \in 1..Len(index) PROVE index[i].chunk \in 1..Len(manifest)
    BY <2>1 DEF ArchiveInv, IndexHolds, ArchiveOpens, InChunk
  <2> QED
    BY <2>1 DEF ArchiveInv, IndexHolds, DeliveredIsOwn, ArchiveOpens, TensorsComeBack
<1> QED  BY <1>1, ArchiveInvHolds, PTL

-----------------------------------------------------------------------------
(* The warmup.  R is a strict total order of S. *)
TotalOrder(R, S) ==
  /\ R \subseteq S \X S
  /\ \A x \in S : <<x, x>> \notin R
  /\ \A x, y, z \in S : <<x, y>> \in R /\ <<y, z>> \in R => <<x, z>> \in R
  /\ \A x, y \in S : x # y => <<x, y>> \in R \/ <<y, x>> \in R

(* What sort_by gives: each element of S before those it precedes in R.      *)
ListsInOrder(s, R, S) ==
  /\ s \in [1..Cardinality(S) -> S]
  /\ \A i, j \in 1..Cardinality(S) : i < j => <<s[i], s[j]>> \in R

(* A finite set has such a list: an element's place is one more than the     *)
(* number of those before it (sort_by in warmup.rs).                         *)
LEMMA SortedExists ==
  ASSUME NEW S, IsFiniteSet(S), NEW R, TotalOrder(R, S)
  PROVE  \E s : ListsInOrder(s, R, S)
<1>1. PICK N \in Nat : N = Cardinality(S)
  BY FS_CardinalityType
<1> DEFINE Below(x) == {y \in S : <<y, x>> \in R}
           rank == [x \in S |-> Cardinality(Below(x)) + 1]
<1>2. ASSUME NEW x \in S
      PROVE  IsFiniteSet(Below(x)) /\ Cardinality(Below(x)) \in Nat /\ rank[x] \in 1..N
  <2>1. Below(x) \in SUBSET (S \ {x})
    BY DEF TotalOrder
  <2>2. IsFiniteSet(S \ {x}) /\ Cardinality(S \ {x}) = N - 1
    BY <1>1, FS_RemoveElement
  <2>3. IsFiniteSet(Below(x)) /\ Cardinality(Below(x)) <= N - 1
    BY <2>1, <2>2, FS_Subset
  <2>4. Cardinality(Below(x)) \in Nat
    BY <2>3, FS_CardinalityType
  <2> QED  BY <1>1, <2>3, <2>4
<1>3. ASSUME NEW x \in S, NEW y \in S, <<x, y>> \in R
      PROVE  rank[x] < rank[y]
  <2>1. Below(x) \in SUBSET Below(y)
    BY <1>3 DEF TotalOrder
  <2>2. x \in Below(y) /\ x \notin Below(x)
    BY <1>3 DEF TotalOrder
  <2>3. Cardinality(Below(x)) <= Cardinality(Below(y))
        /\ (Cardinality(Below(y)) = Cardinality(Below(x)) => Below(y) = Below(x))
    BY <1>2, <2>1, FS_Subset
  <2>4. Cardinality(Below(x)) # Cardinality(Below(y))
    BY <2>2, <2>3
  <2> QED  BY <1>2, <2>3, <2>4
<1> HIDE DEF Below
<1>4. rank \in [S -> 1..N]
  BY <1>2
<1>5. \A x \in S : rank[x] \in 1..N
  BY <1>2
<1> HIDE DEF rank
<1>6. \A x, y \in S : rank[x] = rank[y] => x = y
  <2> SUFFICES ASSUME NEW x \in S, NEW y \in S, x # y PROVE rank[x] # rank[y]
    OBVIOUS
  <2>1. rank[x] < rank[y] \/ rank[y] < rank[x]
    BY <1>3 DEF TotalOrder
  <2> QED  BY <1>5, <2>1
<1>7. rank \in Injection(S, 1..N)
  BY <1>4, <1>6 DEF Injection, IsInjective
<1>8. IsFiniteSet(1..N) /\ Cardinality(1..N) = N
  BY FS_Interval
<1>9. rank \in Surjection(S, 1..N)
  BY <1>1, <1>7, <1>8, FS_Injection
<1>10. \A i \in 1..N : \E x \in S : rank[x] = i
  BY <1>9 DEF Surjection
<1> DEFINE s == [i \in 1..N |-> CHOOSE x \in S : rank[x] = i]
<1>11. \A i \in 1..N : s[i] \in S /\ rank[s[i]] = i
  BY <1>10
<1>12. s \in [1..N -> S]
  BY <1>11
<1> HIDE DEF s
<1>13. ASSUME NEW i \in 1..N, NEW j \in 1..N, i < j PROVE <<s[i], s[j]>> \in R
  <2>1. s[i] # s[j]
    BY <1>11, <1>13
  <2>2. <<s[j], s[i]>> \in R => rank[s[j]] < rank[s[i]]
    BY <1>3, <1>11
  <2>3. <<s[j], s[i]>> \notin R
    BY <1>11, <1>13, <2>2
  <2> QED  BY <1>11, <2>1, <2>3 DEF TotalOrder
<1> QED  BY <1>1, <1>12, <1>13 DEF ListsInOrder

(* The list has every element of the set (sort_by drops none).               *)
LEMMA SortedHasAll ==
  ASSUME NEW S, IsFiniteSet(S), NEW R, TotalOrder(R, S), NEW s, ListsInOrder(s, R, S)
  PROVE  s \in Seq(S) /\ Len(s) = Cardinality(S) /\ ToSet(s) = S
<1>1. PICK N \in Nat : N = Cardinality(S)
  BY FS_CardinalityType
<1>2. s \in [1..N -> S]
  BY <1>1 DEF ListsInOrder
<1>3. \A i, j \in 1..N : s[i] = s[j] => i = j
  <2> SUFFICES ASSUME NEW i \in 1..N, NEW j \in 1..N, i < j PROVE s[i] # s[j]
    OBVIOUS
  <2> QED  BY <1>1, <1>2 DEF ListsInOrder, TotalOrder
<1>4. IsFiniteSet(1..N) /\ Cardinality(1..N) = N
  BY FS_Interval
<1>5. s \in Injection(1..N, S)
  BY <1>2, <1>3 DEF Injection, IsInjective
<1>6. s \in Surjection(1..N, S)
  BY <1>1, <1>4, <1>5, FS_Injection
<1>7. ToSet(s) = S
  BY <1>2, <1>6 DEF Surjection, ToSet
<1> QED  BY <1>1, <1>2, <1>7

(* warmup_priority of a category is one of ten.                              *)
LEMMA PrioritiesAreRanks == ASSUME NEW c \in Categories PROVE Priority(c) \in 1..10
<1>1. \E p \in 1..10 : <<"metadata", "tokenizer", "norms", "router", "embeddings",
    "output", "attention", "ffn", "expert", "kv">>[p] = c
  BY DEF Categories
<1> QED  BY <1>1 DEF Priority

(* A planned chunk has a least priority among its eager tensors.             *)
LEMMA UrgencyIsLeast ==
  ASSUME index \in Seq(Entry), NEW n \in EagerChunks
  PROVE  Urgency(n) \in Nat
<1> DEFINE Of(p) == \E i \in 1..Len(index) : index[i].chunk = n /\ IsEager(index[i].category)
                                /\ Priority(index[i].category) = p
           ps == {p \in 1..10 : Of(p)}
<1>1. PICK i \in 1..Len(index) : index[i].chunk = n /\ IsEager(index[i].category)
  BY DEF EagerChunks
<1>2. \A k \in 1..Len(index) : Priority(index[k].category) \in 1..10
  <2> TAKE k \in 1..Len(index)
  <2>1. index[k] \in Entry
    OBVIOUS
  <2>2. index[k].category \in Categories
    BY <2>1 DEF Entry
  <2> QED  BY <2>2, PrioritiesAreRanks
<1>3. Priority(index[i].category) \in ps
  BY <1>1, <1>2
<1>4. \E p \in ps : \A q \in ps : p <= q
  <2>0. ps \subseteq 1..10
    OBVIOUS
  <2>1. ps \in SUBSET Nat /\ ps # {}
    <3> HIDE DEF ps
    <3> QED  BY <1>3, <2>0
  <2> HIDE DEF ps
  <2> QED  BY <2>1, LeastExists
<1>5. \E p \in 1..10 :
        /\ Of(p)
        /\ \A k \in 1..Len(index) : index[k].chunk = n /\ IsEager(index[k].category)
                                     => p <= Priority(index[k].category)
  BY <1>2, <1>4
<1>6. Urgency(n) \in 1..10
  BY <1>5 DEF Urgency
<1> QED  BY <1>6

(* The comparison of the first sort_by: by priority, then by chunk id.       *)
LEMMA UrgencyOrders ==
  ASSUME index \in Seq(Entry), NEW S \in SUBSET EagerChunks
  PROVE  TotalOrder({p \in S \X S : MoreUrgent(p[1], p[2])}, S)
<1> DEFINE R == {p \in S \X S : MoreUrgent(p[1], p[2])}
<1>1. ASSUME NEW x \in S PROVE x \in Nat /\ Urgency(x) \in Nat
  <2>1. x \in EagerChunks
    OBVIOUS
  <2>2. PICK i \in 1..Len(index) : x = index[i].chunk
    BY <2>1 DEF EagerChunks
  <2>3. index[i] \in Entry
    OBVIOUS
  <2> QED  BY <2>1, <2>2, <2>3, UrgencyIsLeast DEF Entry
<1>2. \A x, y \in S : <<x, y>> \in R <=> MoreUrgent(x, y)
  OBVIOUS
<1>3. R \subseteq S \X S
  OBVIOUS
<1> HIDE DEF R
<1>4. \A x \in S : <<x, x>> \notin R
  BY <1>1, <1>2 DEF MoreUrgent
<1>5. \A x, y, z \in S : <<x, y>> \in R /\ <<y, z>> \in R => <<x, z>> \in R
  BY <1>1, <1>2 DEF MoreUrgent
<1>6. \A x, y \in S : x # y => <<x, y>> \in R \/ <<y, x>> \in R
  BY <1>1, <1>2 DEF MoreUrgent
<1> QED  BY <1>3, <1>4, <1>5, <1>6 DEF TotalOrder, R

(* The comparison of strict_order: by chunk id.                              *)
LEMMA NumbersOrder ==
  ASSUME NEW S \in SUBSET Nat
  PROVE  TotalOrder({p \in S \X S : p[1] < p[2]}, S)
BY DEF TotalOrder

(* The index has finitely many eager tensors, and so the plan chunks.        *)
LEMMA EagerChunksAreFinite ==
  ASSUME index \in Seq(Entry)
  PROVE  IsFiniteSet(EagerChunks) /\ EagerChunks \subseteq Nat
<1> DEFINE I == {i \in 1..Len(index) : IsEager(index[i].category)}
           f == [i \in I |-> index[i].chunk]
<1>1. IsFiniteSet(I)
  <2>1. Len(index) \in Int /\ I \in SUBSET (1..Len(index))
    OBVIOUS
  <2>2. IsFiniteSet(1..Len(index))
    BY <2>1, FS_Interval
  <2> QED  BY <2>1, <2>2, FS_Subset
<1>2. f \in Surjection(I, EagerChunks)
  BY DEF Surjection, EagerChunks
<1>3. IsFiniteSet(EagerChunks)
  <2> HIDE DEF f, I
  <2> QED  BY <1>1, <1>2, FS_Surjection
<1>4. ASSUME NEW n \in EagerChunks PROVE n \in Nat
  <2>1. PICK i \in 1..Len(index) : n = index[i].chunk
    BY DEF EagerChunks
  <2>2. index[i] \in Entry
    OBVIOUS
  <2> QED  BY <2>1, <2>2 DEF Entry
<1> QED  BY <1>3, <1>4

(* The first sort_by lists every eager chunk, the more urgent ones first.    *)
LEMMA WorkIsSorted ==
  ASSUME index \in Seq(Entry)
  PROVE  LET work == InOrder(EagerChunks, MoreUrgent) IN
         /\ work \in Seq(EagerChunks) /\ ToSet(work) = EagerChunks
         /\ \A i, j \in 1..Len(work) : i < j => MoreUrgent(work[i], work[j])
<1> DEFINE S == EagerChunks
           R == {p \in S \X S : MoreUrgent(p[1], p[2])}
<1>1. IsFiniteSet(S) /\ TotalOrder(R, S)
  BY EagerChunksAreFinite, UrgencyOrders
<1>2. \E s : ListsInOrder(s, R, S)
  <2> HIDE DEF R, S
  <2> QED  BY <1>1, SortedExists
<1>3. \E s \in [1..Cardinality(S) -> S] :
        \A i, j \in 1..Cardinality(S) : i < j => MoreUrgent(s[i], s[j])
  BY <1>2 DEF ListsInOrder
<1>4. PICK s : s = InOrder(S, MoreUrgent)
  OBVIOUS
<1>5. /\ s \in [1..Cardinality(S) -> S]
      /\ \A i, j \in 1..Cardinality(S) : i < j => MoreUrgent(s[i], s[j])
  BY <1>3, <1>4 DEF InOrder
<1>6. ListsInOrder(s, R, S)
  BY <1>5 DEF ListsInOrder
<1>7. s \in Seq(S) /\ Len(s) = Cardinality(S) /\ ToSet(s) = S
  <2> HIDE DEF R, S
  <2> QED  BY <1>1, <1>6, SortedHasAll
<1> QED  BY <1>4, <1>5, <1>7

(* The second sort_by keeps what is left after the cut.                      *)
LEMMA AscendingHasAll ==
  ASSUME NEW S \in SUBSET Nat, IsFiniteSet(S)
  PROVE  ToSet(InOrder(S, <)) = S
<1> DEFINE R == {p \in S \X S : p[1] < p[2]}
<1>1. TotalOrder(R, S)
  BY NumbersOrder
<1>2. \E s : ListsInOrder(s, R, S)
  <2> HIDE DEF R
  <2> QED  BY <1>1, SortedExists
<1>3. \E s \in [1..Cardinality(S) -> S] :
        \A i, j \in 1..Cardinality(S) : i < j => s[i] < s[j]
  BY <1>2 DEF ListsInOrder
<1>4. PICK s : s = InOrder(S, <)
  OBVIOUS
<1>5. /\ s \in [1..Cardinality(S) -> S]
      /\ \A i, j \in 1..Cardinality(S) : i < j => s[i] < s[j]
  BY <1>3, <1>4 DEF InOrder
<1>6. ListsInOrder(s, R, S)
  BY <1>5 DEF ListsInOrder
<1>7. ToSet(s) = S
  <2> HIDE DEF R
  <2> QED  BY <1>1, <1>6, SortedHasAll
<1> QED  BY <1>4, <1>7

(* WarmupStrategy::execute: a cut of the list leaves out no chunk that is    *)
(* more urgent than one it keeps, and the second sort changes nothing of it. *)
LEMMA PlanIsMostUrgent ==
  ASSUME index \in Seq(Entry), NEW limit \in Nat, NEW strict \in BOOLEAN
  PROVE  LET plan == ToSet(WarmupPlan(limit, strict)) IN
         /\ limit = 0 => plan = EagerChunks
         /\ \A a \in plan, b \in EagerChunks \ plan : Urgency(a) <= Urgency(b)
<1>1. PICK work \in Seq(EagerChunks) :
        /\ work = InOrder(EagerChunks, MoreUrgent) /\ ToSet(work) = EagerChunks
        /\ \A i, j \in 1..Len(work) : i < j => MoreUrgent(work[i], work[j])
  BY WorkIsSorted
<1>2. PICK N \in Nat : N = Len(work)
  OBVIOUS
<1>3. PICK m \in 0..N : m = IF limit = 0 THEN N ELSE IF limit < N THEN limit ELSE N
  BY <1>2
<1>4. PICK cut : cut = IF limit = 0 THEN work ELSE Shortest(work, limit)
  OBVIOUS
<1>5. cut \in Seq(EagerChunks) /\ Len(cut) = m /\ \A i \in 1..m : cut[i] = work[i]
  <2>1. CASE limit = 0
    BY <1>2, <1>3, <1>4, <2>1
  <2>2. CASE limit # 0
    <3>1. cut = SubSeq(work, 1, m)
      BY <1>2, <1>3, <1>4, <2>2 DEF Shortest
    <3>2. cut \in Seq(EagerChunks) /\ Len(cut) = m
      BY <1>2, <1>3, <3>1
    <3>3. \A i \in 1..m : cut[i] = work[i]
      BY <1>2, <1>3, <3>1
    <3> QED  BY <3>2, <3>3
  <2> QED  BY <2>1, <2>2
<1>6. ToSet(cut) = {work[i] : i \in 1..m} /\ ToSet(work) = {work[i] : i \in 1..N}
  <2>1. DOMAIN cut = 1..m /\ DOMAIN work = 1..N
    BY <1>2, <1>5
  <2>2. {cut[i] : i \in 1..m} = {work[i] : i \in 1..m}
    BY <1>5
  <2> QED  BY <2>1, <2>2 DEF ToSet
<1>7. ToSet(WarmupPlan(limit, strict)) = ToSet(cut)
  <2>1. WarmupPlan(limit, strict) = IF strict THEN InOrder(ToSet(cut), <) ELSE cut
    BY <1>1, <1>4 DEF WarmupPlan
  <2>2. IsFiniteSet(EagerChunks) /\ EagerChunks \subseteq Nat
    BY EagerChunksAreFinite
  <2>3. ToSet(cut) \in SUBSET EagerChunks
    <3>1. \A i \in 1..m : i \in 1..N
      BY <1>3
    <3> QED  BY <1>1, <1>6, <3>1
  <2>4. IsFiniteSet(ToSet(cut)) /\ ToSet(cut) \in SUBSET Nat
    BY <2>2, <2>3, FS_Subset
  <2>5. ToSet(InOrder(ToSet(cut), <)) = ToSet(cut)
    BY <2>4, AscendingHasAll
  <2> QED  BY <2>1, <2>5
<1>8. limit = 0 => ToSet(cut) = EagerChunks
  BY <1>1, <1>4
<1>9. ASSUME NEW a \in ToSet(cut), NEW b \in EagerChunks \ ToSet(cut)
      PROVE  Urgency(a) <= Urgency(b)
  <2>1. PICK i \in 1..m : a = work[i]
    BY <1>6
  <2>2. PICK j \in 1..N : b = work[j] /\ j \notin 1..m
    BY <1>1, <1>6
  <2>3. i \in 1..N /\ i < j
    BY <1>3, <2>2
  <2>4. MoreUrgent(a, b)
    BY <1>1, <1>2, <2>1, <2>2, <2>3
  <2>5. a \in EagerChunks /\ Urgency(a) \in Nat /\ Urgency(b) \in Nat
    BY <1>1, <1>6, <2>1, <2>3, UrgencyIsLeast
  <2> QED  BY <2>4, <2>5 DEF MoreUrgent
<1> QED  BY <1>7, <1>8, <1>9

(* A warmup that loaded chunks had an archive that does not change its index. *)
WarmupInv ==
  warmed.chunks # <<>> => packing \in {"done", "left"} /\ WarmupLoadsUrgent

(* Every step of the packer, the loader, the warmup and the medium.          *)
LEMMA NextPreservesWarmupInv ==
  ArchiveInv /\ WarmupInv /\ [CANext]_caVars => WarmupInv'
<1> SUFFICES ASSUME ArchiveInv, WarmupInv, [CANext]_caVars PROVE WarmupInv'
  OBVIOUS
<1>1. ASSUME UNCHANGED <<index, packing, warmed>> PROVE WarmupInv'
  <2>1. EagerChunks' = EagerChunks /\ \A n : Urgency(n)' = Urgency(n)
    BY <1>1 DEF EagerChunks, Urgency
  <2>2. WarmupLoadsUrgent => WarmupLoadsUrgent'
    BY <1>1, <2>1 DEF WarmupLoadsUrgent
  <2> QED  BY <1>1, <2>2 DEF WarmupInv
<1>2. CASE UNCHANGED warmed /\ packing \notin {"done", "left"}
  BY <1>2 DEF WarmupInv, WarmupLoadsUrgent
<1>3. ASSUME NEW limit \in WarmupLimits, NEW strict \in BOOLEAN, Warmup(limit, strict)
      PROVE  WarmupInv'
  <2>1. /\ packing' \in {"done", "left"} /\ index' = index
        /\ warmed'.limit = limit /\ warmed'.chunks = WarmupPlan(limit, strict)
    BY <1>3 DEF Warmup, ArchiveOpens
  <2>2. index \in Seq(Entry) /\ limit \in Nat
    BY ArchiveAssumption DEF ArchiveInv, ArchiveTypes
  <2>3. EagerChunks' = EagerChunks /\ \A n : Urgency(n)' = Urgency(n)
    BY <2>1 DEF EagerChunks, Urgency
  <2>4. WarmupLoadsUrgent'
    BY <2>1, <2>2, <2>3, PlanIsMostUrgent DEF WarmupLoadsUrgent
  <2> QED  BY <2>1, <2>4 DEF WarmupInv
<1>4. CASE \E h \in GgufFiles, cfg \in Packers : BeginPack(h, cfg)
  BY <1>2, <1>4 DEF BeginPack
<1>5. CASE PackTensor \/ PackChunk \/ WriteManifest \/ WriteIndex \/ VerifyArchive
           \/ PackFails \/ PackerDies
  BY <1>2, <1>5 DEF PackTensor, PackChunk, WriteManifest, WriteIndex, VerifyArchive,
     PackFails, PackerDies
<1>6. CASE \E n \in 1..Len(files) : ChunkRots(n)
  BY <1>1, <1>6 DEF ChunkRots
<1>7. CASE \E i \in 1..Len(index), spare \in BOOLEAN : LoadTensor(i, spare)
  BY <1>1, <1>7 DEF LoadTensor
<1>8. CASE UNCHANGED caVars
  BY <1>1, <1>8 DEF caVars
<1> QED
  BY <1>3, <1>4, <1>5, <1>6, <1>7, <1>8 DEF CANext

(* WarmupLoadsUrgent: in every execution the chunks a limited warmup loads   *)
(* are the most urgent ones of the archive, with and without strict_order.   *)
THEOREM WarmupTakesMostUrgent == CASpec => []WarmupLoadsUrgent
<1>1. CAInit => WarmupInv
  BY DEF CAInit, WarmupInv
<1>2. ArchiveInv /\ WarmupInv /\ [CANext]_caVars => WarmupInv'
  BY NextPreservesWarmupInv
<1>3. WarmupInv => WarmupLoadsUrgent
  BY DEF WarmupInv, WarmupLoadsUrgent
<1> QED  BY <1>1, <1>2, <1>3, ArchiveInvHolds, PTL DEF CASpec

=============================================================================
