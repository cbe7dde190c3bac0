----------------------------- MODULE ChunkCache ------------------------------
(***************************************************************************)
(* The chunk loader (chunk/loader.rs) with its cache, and the fallback to  *)
(* the original GGUF (chunk/rollback.rs).                                  *)
(*                                                                         *)
(* load_chunk asks the cache under its mutex, reads without it, and takes  *)
(* it again to insert: load_eager, the prefetches and the warmup are       *)
(* threads that do this for one chunk after another.  The content of a     *)
(* chunk is its good bytes or others.                                      *)
(***************************************************************************)
EXTENDS Naturals, SequencesExt

CONSTANTS
  Loaders,     \* threads inside the loader
  Packed,      \* chunk ids of the manifest
  BytesOf,     \* raw_size of a chunk
  CacheBudget, \* cache_budget_bytes
  Broken,      \* chunks whose packed file decodes to other bytes
  Unreadable,  \* chunks whose packed file cannot be read or decoded
  Unplaced,    \* chunks with a tensor whose place in the GGUF is not known
  Unchecked    \* the value of "no chunk"

ASSUME CacheAssumption ==
  /\ IsFiniteSet(Packed)
  /\ BytesOf \in [Packed -> Nat] /\ CacheBudget \in Nat
  /\ Broken \subseteq Packed /\ Unreadable \subseteq Packed /\ Unplaced \subseteq Packed
  /\ Unchecked \notin Packed /\ Loaders \cap Packed = {}

VARIABLES
  entries,   \* Cache.entries: chunk -> whether the bytes are good, and verified
  recent,    \* the chunks of the cache, least recently used first
  bytes,     \* Cache.bytes
  verify,    \* verify_on_load
  fallback,  \* closed before open; then none, the original GGUF, or one
             \* damaged since
  loads,     \* the chunk a thread is loading
  result,    \* what it read, stamped with the time
  since      \* the chunks stamped later than that, and the threads whose
             \* result is

ccVars == <<entries, recent, bytes, verify, fallback, loads, result, since>>

Cached == DOMAIN entries

(* What chunks take: the number of their bytes, each by its place.           *)
HeldBytes(cs) == UNION {{c} \X (1..BytesOf[c]) : c \in cs}
Held(cs)      == Cardinality(HeldBytes(cs))

CCInit ==
  /\ entries = <<>> /\ recent = <<>> /\ bytes = 0
  /\ verify = FALSE
  /\ fallback = "closed"
  /\ loads = [t \in Loaders |-> Unchecked]
  /\ result = [t \in Loaders |-> Unchecked]
  /\ since = [t \in Loaders |-> {}]

(* ChunkLoader::open.  A fallback has the digest of the index then; a file   *)
(* that is mapped may change later.                                          *)
OpenLoader ==
  /\ fallback = "closed"
  /\ verify' \in BOOLEAN
  /\ fallback' \in {"none", "good", "damaged"}
  /\ UNCHANGED <<entries, recent, bytes, loads, result, since>>

Monus(a, b) == IF a > b THEN a - b ELSE 0

-----------------------------------------------------------------------------
Idles(t) == loads[t] = Unchecked

(* A hit makes the chunk the most recent one; a miss goes on to read. *)
Without(order, c) ==
  IF c \in ToSet(order)
  THEN RemoveAt(order, CHOOSE i \in 1..Len(order) : order[i] = c)
  ELSE order

MostRecent(order, c) == Append(Without(order, c), c)

(* x has the youngest stamp now. *)
Stamp(x) ==
  since' = [u \in Loaders |-> IF result[u] = Unchecked THEN {} ELSE since[u] \cup {x}]

LoadChunk(t) ==
  /\ Idles(t) /\ fallback # "closed"
  /\ \E c \in Packed :
       IF c \in Cached
       THEN recent' = MostRecent(recent, c) /\ Stamp(c) /\ UNCHANGED loads
       ELSE loads' = [loads EXCEPT ![t] = c] /\ UNCHANGED <<recent, since>>
  /\ UNCHANGED <<entries, bytes, verify, fallback, result>>

(* load_primary: a bad size or digest shows only with verify_on_load.  What  *)
(* it refuses is put together again from the original GGUF, and always       *)
(* checked; without a fallback, with a damaged one, or with a tensor that    *)
(* has no offset or a span past its end, the load fails.                     *)
PrimaryAccepted(c) == c \notin Unreadable /\ (c \notin Broken \/ ~verify)
Reconstructs(c)    == fallback = "good" /\ c \notin Unplaced

LoadFails(t) ==
  /\ ~Idles(t) /\ result[t] = Unchecked
  /\ ~PrimaryAccepted(loads[t]) /\ ~Reconstructs(loads[t])
  /\ loads' = [loads EXCEPT ![t] = Unchecked]
  /\ UNCHANGED <<entries, recent, bytes, verify, fallback, result, since>>

LoadPrimary(t) ==
  /\ ~Idles(t) /\ result[t] = Unchecked
  /\ PrimaryAccepted(loads[t])
  /\ result' = [result EXCEPT ![t] =
                  [good |-> loads[t] \notin Broken, verified |-> verify]]
  /\ Stamp(t)
  /\ UNCHANGED <<entries, recent, bytes, verify, fallback, loads>>

ReconstructChunk(t) ==
  /\ ~Idles(t) /\ result[t] = Unchecked
  /\ ~PrimaryAccepted(loads[t]) /\ Reconstructs(loads[t])
  /\ result' = [result EXCEPT ![t] = [good |-> TRUE, verified |-> TRUE]]
  /\ Stamp(t)
  /\ UNCHANGED <<entries, recent, bytes, verify, fallback, loads>>

-----------------------------------------------------------------------------
(* Cache::insert: evict from the front until the chunk fits or nothing is    *)
(* left; keep it if it fits an empty cache.                                  *)
Fits(n, need) ==
  Monus(bytes, Held(ToSet(SubSeq(recent, 1, n)))) + need <= CacheBudget

(* Seeded fault: one eviction too few. *)
EvictionsShort(need) ==
  LET enough == {n \in 0..Len(recent) : Fits(n, need)} IN
  IF enough = {} THEN Len(recent)
  ELSE Monus(CHOOSE n \in enough : \A m \in enough : n <= m, 1)

Evictions(need) ==
  LET enough == {n \in 0..Len(recent) : Fits(n, need)} IN
  IF enough = {} THEN Len(recent)
  ELSE CHOOSE n \in enough : \A m \in enough : n <= m

(* The chunk carries the stamp of its result, taken before the mutex, and    *)
(* goes in front of what was stamped since.                                  *)
InsertByStamp(order, c, t) ==
  \E i \in 0..Len(order) :
    /\ \A k \in 1..Len(order) : order[k] \in since[t] <=> k > i
    /\ recent' = InsertAt(order, i + 1, c)

Insert(t) ==
  LET c == loads[t]
      need == BytesOf[c]
      n == Evictions(need)
      left == SubSeq(recent, n + 1, Len(recent))
      rest == Monus(bytes, Held(ToSet(SubSeq(recent, 1, n))))
  IN
  /\ ~Idles(t) /\ result[t] # Unchecked
  /\ IF need <= CacheBudget
     THEN /\ bytes' = rest + need
          /\ InsertByStamp(Without(left, c), c, t)
          /\ entries' = [x \in ToSet(left) \cup {c} |->
                       IF x = c THEN result[t] ELSE entries[x]]
     ELSE /\ bytes' = rest
          /\ recent' = left
          /\ entries' = Restrict(entries, ToSet(left))
  /\ loads' = [loads EXCEPT ![t] = Unchecked]
  /\ result' = [result EXCEPT ![t] = Unchecked]
  /\ since' = [u \in Loaders |->
       IF u = t THEN {}
       ELSE (since[u] \ {c, t}) \cup (IF t \in since[u] THEN {c} ELSE {})]
  /\ UNCHANGED <<verify, fallback>>

ClearCache ==
  /\ entries' = <<>> /\ recent' = <<>> /\ bytes' = 0
  /\ UNCHANGED <<verify, fallback, loads, result, since>>

CCNext ==
  \/ \E t \in Loaders :
       \/ LoadChunk(t) \/ LoadFails(t) \/ LoadPrimary(t) \/ ReconstructChunk(t)
       \/ Insert(t)
  \/ OpenLoader
  \/ ClearCache

CCSpec == CCInit /\ [][CCNext]_ccVars

-----------------------------------------------------------------------------
(* Two misses of one chunk both add its bytes, so the count of Cache.bytes   *)
(* may exceed what the cache holds.  It never falls short of it, and what    *)
(* the cache holds stays within the budget, through every order of           *)
(* concurrent misses, evictions and clear_cache.                             *)
CacheWithinBudget ==
  /\ ToSet(recent) = Cached
  /\ Held(Cached) <= bytes
  /\ Held(Cached) <= CacheBudget

=============================================================================
