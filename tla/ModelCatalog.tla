----------------------------- MODULE ModelCatalog -----------------------------
(***************************************************************************)
(* A scan of the model sources (model_sources.rs, gguf_registry.rs), the   *)
(* catalog it fills (model_catalog.rs), and the resolution of a model id   *)
(* when a worker is started (resolve_start_config of http.rs).             *)
(*                                                                         *)
(* A scan reads the disk file by file while others replace files, and      *)
(* publishes its result at the end.  A content stands for the bytes of a   *)
(* file with the GGUF signature: its SHA-256 is the content itself, its    *)
(* size and its header are given.  The catalog merges what was found by    *)
(* digest: a set of offers, which is what the BTreeSets of an              *)
(* EntryAccumulator add up to.                                             *)
(***************************************************************************)
EXTENDS Naturals, FiniteSets, SequencesExt

CONSTANTS
  Paths,       \* model files below the roots, and blobs of Ollama
  SourceAt,    \* the SourceKind of a path
  Rank,        \* the order of locations: source, then path
  ModelBytes,  \* contents
  BytesIn,     \* size of a content
  HeaderOf,    \* content -> [version, entries: what its metadata say]
  Manifests,   \* of Ollama: [small, json, layers]
  FlakyRoots,  \* sources of which a root or file cannot be read at times
  FirstDisk,   \* what is on disk at first
  MaxChanges,  \* bound: files replaced or removed in a behaviour
  Absent

(* scan: the roots in this order, then the manifests. *)
ScanOrder == <<"DirectGguf", "LmStudio", "Jan", "Ollama">>

ASSUME CatalogAssumption ==
  /\ SourceAt \in [Paths -> {ScanOrder[i] : i \in 1..4}]
  /\ Rank \in [Paths -> Nat]
  /\ \A p, q \in Paths : Rank[p] = Rank[q] => p = q
  /\ BytesIn \in [ModelBytes -> Nat]
  /\ FlakyRoots \subseteq {ScanOrder[i] : i \in 1..4}
  /\ Absent \notin ModelBytes /\ FirstDisk \in [Paths -> ModelBytes \cup {Absent}]
  /\ MaxChanges \in Nat

VARIABLES
  onDisk,     \* the content at a path
  turn,       \* the source the scan is at, 0 between scans
  listed,     \* whether it has listed this source
  pending,    \* what it listed and has not looked at
  hashed,     \* the file or blob it has hashed and will inspect
  offers,     \* scan.catalog, as what was added to it
  failed,     \* the roots and blobs that could not be read
  known,      \* the shared catalog: offers of the last scan
  lostRoots,  \* and the roots and blobs that scan could not read
  touched,    \* paths changed since the running scan began (history)
  stale,      \* paths changed since the scan of the catalog began (history)
  changes,    \* changes so far
  started     \* the last worker started: what was asked for, what it loads

mcVars == <<onDisk, turn, listed, pending, hashed, offers, failed, known,
            lostRoots, touched, stale, changes, started>>

scanning  == <<turn, listed, pending, hashed, offers, failed>>
published == <<known, lostRoots, stale, started>>

Nothing == [ask |-> Absent]

MCatInit ==
  /\ onDisk = FirstDisk
  /\ turn = 0 /\ listed = FALSE /\ pending = {} /\ hashed = {}
  /\ offers = {} /\ failed = {}
  /\ known = {} /\ lostRoots = {} /\ stale = Paths
  /\ touched = {} /\ changes = 0
  /\ started = Nothing

-----------------------------------------------------------------------------
(* The header: the metadata before the tensors.  *)

(* read_metadata_value: fixed widths, strings and arrays up to a limit, no   *)
(* array of arrays and no type that is not known.                            *)
ReadsValue(e) ==
  \/ e.type \in {"unsigned", "other"}
  \/ e.type = "string" /\ ~e.long
  \/ e.type = "array" /\ ~e.long /\ e.of \in {"unsigned", "other", "string"}

(* inspect: version 2 or 3, and every entry can be read. *)
Inspects(bytes) ==
  /\ HeaderOf[bytes].version \in 2..3
  /\ \A i \in DOMAIN HeaderOf[bytes].entries : ReadsValue(HeaderOf[bytes].entries[i])

(* The last entry of a key counts, and one of another type is passed over.   *)
Stated(bytes, key, type) ==
  LET entries == HeaderOf[bytes].entries
      named   == {i \in DOMAIN entries : entries[i].key = key /\ entries[i].type = type}
  IN IF named = {} THEN Absent ELSE entries[Max(named)].value

FamilyOf(bytes)  == Stated(bytes, "general.architecture", "string")
ContextOf(bytes) == Stated(bytes, "context_length", "unsigned")

-----------------------------------------------------------------------------
(* The manifests of Ollama. *)

ModelLayers(m) == SelectSeq(m.layers, LAMBDA l : l.media = "model")

(* A manifest over 4 MiB, one that is no JSON, and one that has not exactly  *)
(* one model layer with a SHA-256 claim nothing.                             *)
ReadsManifest(m) == m.small /\ m.json

Claims ==
  {[blob |-> ModelLayers(m)[1].blob, digest |-> ModelLayers(m)[1].digest,
    size |-> ModelLayers(m)[1].size] :
     m \in {n \in Manifests :
             /\ ReadsManifest(n)
             /\ Len(ModelLayers(n)) = 1
             /\ ModelLayers(n)[1].digest # Absent}}

(* The blob of a digest has one path, whether or not it is there.            *)
ASSUME ClaimsAssumption == \A m \in Claims : m.blob \in Paths

-----------------------------------------------------------------------------
(* The catalog.  EntryAccumulator::to_entry, from the offers of a digest. *)

Of(d) == {o \in known : o.digest = d}

(* Stated by a file of itself, and of more than one value: single_value and  *)
(* record_conflict.                                                          *)
Several(values) == Cardinality(values \ {Absent}) > 1

Conflict(d) ==
  \/ Several({o.size : o \in Of(d)})
  \/ Several({o.family : o \in Of(d)})
  \/ Several({o.context : o \in Of(d)})

Startable(d) ==
  /\ Of(d) # {}
  /\ \A o \in Of(d) : o.available
  /\ ~Conflict(d)

PagedSupported(d) ==
  Startable(d) /\ \E o \in Of(d) : o.verified /\ o.family = "qwen2"

StartLocation(d) ==
  CHOOSE p \in {o.path : o \in Of(d)} :
    \A o \in Of(d) : Rank[p] <= Rank[o.path]

-----------------------------------------------------------------------------
(* The scan. *)

BeginScan ==
  /\ turn = 0
  /\ turn' = 1 /\ listed' = FALSE
  /\ offers' = {} /\ failed' = {} /\ touched' = {}
  /\ UNCHANGED <<onDisk, pending, hashed, published, changes>>

(* Seeded fault: a root that cannot be read ends the scan with nothing. *)
ListRootOrNothing ==
  LET source == ScanOrder[turn] IN
  /\ turn \in 1..3 /\ ~listed
  /\ listed' = TRUE
  /\ \/ /\ pending' = {[blob |-> p, digest |-> Absent, size |-> BytesIn[onDisk[p]]] :
                        p \in {q \in Paths : SourceAt[q] = source /\ onDisk[q] # Absent}}
        /\ UNCHANGED <<failed, offers>>
     \/ /\ source \in FlakyRoots
        /\ failed' = failed \cup {source}
        /\ offers' = {}
        /\ UNCHANGED pending
  /\ UNCHANGED <<onDisk, turn, hashed, published, touched, changes>>

(* gguf_registry::scan: one error in a root, a file that vanishes during the *)
(* walk included, and none of it is listed.  One root for each source.       *)
ListRoot ==
  LET source == ScanOrder[turn] IN
  /\ turn \in 1..3 /\ ~listed
  /\ listed' = TRUE
  /\ \/ /\ pending' = {[blob |-> p, digest |-> Absent, size |-> BytesIn[onDisk[p]]] :
                        p \in {q \in Paths : SourceAt[q] = source /\ onDisk[q] # Absent}}
        /\ UNCHANGED failed
     \/ /\ source \in FlakyRoots
        /\ failed' = failed \cup {source}
        /\ UNCHANGED pending
  /\ UNCHANGED <<onDisk, turn, hashed, offers, published, touched, changes>>

(* scan_ollama: a directory of manifests that cannot be read, and none of    *)
(* them is.                                                                  *)
ListManifests ==
  /\ turn = 4 /\ ~listed
  /\ listed' = TRUE
  /\ \/ pending' = Claims /\ UNCHANGED failed
     \/ /\ "Ollama" \in FlakyRoots
        /\ failed' = failed \cup {"Ollama"}
        /\ UNCHANGED pending
  /\ UNCHANGED <<onDisk, turn, hashed, offers, published, touched, changes>>

(* resolve_under walks the root again and looks for the file, then sha256sum *)
(* reads it; a walk that fails costs this file only.                         *)
HashFile ==
  /\ turn \in 1..3 /\ hashed = {}
  /\ \E x \in pending :
       /\ pending' = pending \ {x}
       /\ \/ /\ hashed' = IF onDisk[x.blob] = Absent THEN {}
                          ELSE {[path |-> x.blob, digest |-> onDisk[x.blob],
                                 size |-> x.size, good |-> TRUE]}
             /\ UNCHANGED failed
          \/ /\ SourceAt[x.blob] \in FlakyRoots
             /\ failed' = failed \cup {SourceAt[x.blob]}
             /\ UNCHANGED hashed
  /\ UNCHANGED <<onDisk, turn, listed, offers, published, touched, changes>>

(* Seeded fault: the size of a blob is compared, its digest is not. *)
SizeBlob ==
  /\ turn = 4 /\ hashed = {}
  /\ \E x \in pending :
       LET bytes == onDisk[x.blob] IN
       /\ pending' = pending \ {x}
       /\ hashed' = {[path |-> x.blob, digest |-> x.digest, size |-> x.size,
                      good |-> bytes # Absent /\ BytesIn[bytes] = x.size]}
  /\ UNCHANGED <<onDisk, turn, listed, offers, failed, published, touched, changes>>

(* The blob must have the size and the digest of the manifest; one that is   *)
(* there and cannot be read or hashed is not confirmed either.               *)
HashBlob ==
  /\ turn = 4 /\ hashed = {}
  /\ \E x \in pending, confirmed \in BOOLEAN :
       LET bytes == onDisk[x.blob] IN
       /\ pending' = pending \ {x}
       /\ hashed' = {[path |-> x.blob, digest |-> x.digest, size |-> x.size,
                      good |-> confirmed]}
       /\ \/ /\ confirmed <=> /\ bytes # Absent
                               /\ bytes = x.digest /\ BytesIn[bytes] = x.size
             /\ UNCHANGED failed
          \/ /\ ~confirmed /\ "Ollama" \in FlakyRoots
             /\ failed' = failed \cup {x.blob}
  /\ UNCHANGED <<onDisk, turn, listed, offers, published, touched, changes>>

(* metadata_for_file: the header is read last, with what is there by then. *)
Metadata(x) ==
  LET bytes == onDisk[x.path]
      readable == bytes # Absent /\ Inspects(bytes)
  IN [digest |-> x.digest, path |-> x.path, size |-> x.size,
      family |-> IF readable THEN FamilyOf(bytes) ELSE Absent,
      context |-> IF readable THEN ContextOf(bytes) ELSE Absent,
      verified |-> readable /\ x.good,
      available |-> readable /\ x.good]

(* ModelCatalog::add, EntryAccumulator::merge: nothing found is taken back.  *)
Merge(catalog, offer) == catalog \cup {offer}

AddOffer ==
  /\ \E x \in hashed : offers' = Merge(offers, Metadata(x))
  /\ hashed' = {}
  /\ UNCHANGED <<onDisk, turn, listed, pending, failed, published, touched, changes>>

NextSource ==
  /\ turn \in 1..3 /\ listed /\ pending = {} /\ hashed = {}
  /\ turn' = turn + 1 /\ listed' = FALSE
  /\ UNCHANGED <<onDisk, pending, hashed, offers, failed, published, touched, changes>>

(* rescan_and_apply: the result replaces the catalog at once. *)
Publish ==
  /\ turn = 4 /\ listed /\ pending = {} /\ hashed = {}
  /\ known' = offers /\ lostRoots' = failed /\ stale' = touched
  /\ turn' = 0 /\ listed' = FALSE /\ offers' = {} /\ failed' = {}
  /\ touched' = {}
  /\ UNCHANGED <<onDisk, pending, hashed, changes, started>>

-----------------------------------------------------------------------------
(* A download is placed, or the operator replaces or removes a file. *)
ReplaceFile ==
  /\ changes < MaxChanges
  /\ changes' = changes + 1
  /\ \E p \in Paths, bytes \in ModelBytes \cup {Absent} :
       /\ bytes # onDisk[p]
       /\ onDisk' = [onDisk EXCEPT ![p] = bytes]
       /\ touched' = IF turn = 0 THEN {} ELSE touched \cup {p}
       /\ stale' = stale \cup {p}
  /\ UNCHANGED <<scanning, known, lostRoots, started>>

(* resolve_start_config by id; a location that is gone refuses the start.    *)
(* Whether the catalog still is what is on disk (fresh, for the location it  *)
(* takes, and settled, for all of them) is history.                          *)
StartModel ==
  /\ \E d \in {o.digest : o \in known} :
       /\ Startable(d)
       /\ LET p == StartLocation(d) IN
          /\ onDisk[p] # Absent
          /\ started' = [ask |-> d, loads |-> onDisk[p], fresh |-> p \notin stale,
                         settled |-> \A o \in Of(d) : o.path \notin stale,
                         paged |-> PagedSupported(d)]
  /\ UNCHANGED <<onDisk, scanning, known, lostRoots, stale, touched, changes>>

(* And by a path below the model directory, which has to have a header now. *)
StartByPath ==
  /\ \E p \in Paths :
       /\ SourceAt[p] = "DirectGguf" /\ onDisk[p] # Absent /\ Inspects(onDisk[p])
       /\ started' = [ask |-> onDisk[p], loads |-> onDisk[p], fresh |-> TRUE,
                      settled |-> TRUE, paged |-> FALSE]
  /\ UNCHANGED <<onDisk, scanning, known, lostRoots, stale, touched, changes>>

MCatNext ==
  \/ BeginScan \/ ListRoot \/ ListManifests \/ HashFile \/ HashBlob \/ AddOffer
  \/ NextSource \/ Publish
  \/ ReplaceFile \/ StartModel \/ StartByPath

MCatSpec == MCatInit /\ [][MCatNext]_mcVars

-----------------------------------------------------------------------------
(* A model is asked for by its digest.  Unless the file has changed since    *)
(* the scan began that listed it, the worker gets these bytes, with a header *)
(* that can be read, whichever of several locations start_location takes and *)
(* whatever else failed; and only a qwen2 is called paged, if no other       *)
(* location of the model has changed either (one that is replaced between    *)
(* its hash and the reading of its header lends the model a wrong family).   *)
StartedIsAsked ==
  started # Nothing /\ started.fresh =>
    /\ started.loads = started.ask
    /\ Inspects(started.loads)
    /\ started.paged /\ started.settled => FamilyOf(started.loads) = "qwen2"

(* model_sources.rs 3-5: what fails in one source does not keep another from *)
(* delivering its models.  With nothing changed since the scan began, a file *)
(* with a good header below a root that was read can be started, unless a    *)
(* manifest says something else of the same digest, or of a blob of that     *)
(* digest which the scan could not read: such a claim takes the file along.  *)
GoodFilesStart ==
  stale = {} =>
    \A p \in Paths :
      LET bytes == onDisk[p] IN
      /\ SourceAt[p] \notin lostRoots \cup {"Ollama"}
      /\ bytes # Absent /\ Inspects(bytes)
      /\ \A m \in Claims : m.digest = bytes =>
           /\ m.blob \notin lostRoots
           /\ onDisk[m.blob] = bytes /\ m.size = BytesIn[bytes]
      => Startable(bytes)
=============================================================================
