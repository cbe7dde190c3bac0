----------------------------- MODULE ChunkArchive -----------------------------
(***************************************************************************)
(* The packed archive of a model: the bounded GGUF reader (chunk/gguf.rs), *)
(* the packer (packer.rs) with its manifest and tensor index (index.rs),   *)
(* what a loader gets back from it (loader.rs, rollback.rs) and the order  *)
(* of the warmup (warmup.rs, classify.rs).                                 *)
(*                                                                         *)
(* A byte of the GGUF is its position in the file, so a digest is the      *)
(* sequence of positions itself.  Concurrent loads and the cache are       *)
(* module ChunkCache.                                                      *)
(***************************************************************************)
EXTENDS Naturals, SequencesExt

CONSTANTS
  GgufFiles,      \* GGUF files: version, headerEnd, fileLen and the tensors in
                \* order, each with name, category, dims and offset
  Alignment,    \* ALIGNMENT (32)
  MaxDims, MaxEntries,
  Packers,      \* PackerConfig: target, level, separate, selective
  WarmupLimits, \* max_chunks, 3 for critical_only
  MaxPacks      \* bound: attempts to pack

Categories == {"metadata", "tokenizer", "norms", "router", "embeddings",
               "output", "attention", "ffn", "expert", "kv"}

ASSUME ArchiveAssumption ==
  /\ Alignment \in Nat \ {0} /\ MaxPacks \in Nat /\ WarmupLimits \subseteq Nat
  /\ \A h \in GgufFiles :
       /\ h.headerEnd \in Nat /\ h.fileLen \in Nat /\ Len(h.tensors) \in Nat
       /\ \A i \in 1..Len(h.tensors) :
            h.tensors[i].category \in Categories /\ h.tensors[i].offset \in Nat
  /\ \A cfg \in Packers : cfg.target \in Nat /\ cfg.selective \in BOOLEAN

VARIABLES
  gguf,      \* the file being packed
  config,    \* PackerConfig of the attempt
  packing,   \* where pack_gguf stands
  group,     \* tensors of the chunk that is being put together
  raw,       \* their bytes
  located,    \* chunk and chunk_offset of the tensors read so far
  described, \* descriptors of the chunks written so far
  files,     \* chunk files by number
  manifest,  \* manifest.json: descriptors by number, <<>> when absent
  index,     \* tensor_index.json, <<>> when absent
  attempts,
  passed,    \* verify_archive accepted this archive (history)
  got,       \* what load_tensor_chunk gave last, and for which tensor
  warmed     \* the last warmup: what it was asked and the chunks it loaded

packer == <<group, raw, located, described>>
caVars == <<gguf, config, packing, packer, files, manifest, index, attempts, passed, got,
            warmed>>

NothingGot == [tensor |-> 0]

-----------------------------------------------------------------------------
(* parse_header. *)
DataStart(h) == ((h.headerEnd + Alignment - 1) \div Alignment) * Alignment

ParsesHeader(h) ==
  LET n == Len(h.tensors) IN
  /\ h.version \in 2..3
  /\ n <= MaxEntries
  /\ \A i \in 1..n : h.tensors[i].dims <= MaxDims
  /\ DataStart(h) <= h.fileLen
  /\ \A i \in 1..n - 1 : h.tensors[i].offset < h.tensors[i + 1].offset
  /\ \A i \in 1..n : DataStart(h) + h.tensors[i].offset <= h.fileLen

(* A tensor's span goes up to the next one, the last one's to the end. *)
SpanStart(h, i) == DataStart(h) + h.tensors[i].offset

SpanEnd(h, i) == IF i = Len(h.tensors) THEN h.fileLen ELSE SpanStart(h, i + 1)

SpanSize(h, i) == SpanEnd(h, i) - SpanStart(h, i)

Span(h, i) == [k \in 1..SpanSize(h, i) |-> SpanStart(h, i) + k - 1]

(* An expert is a chunk of its own; others share one up to the target.       *)
Separate(i) == gguf.tensors[i].category = "expert" /\ config.separate

Joins(i) ==
  group # <<>> =>
    /\ ~Separate(i) /\ ~Separate(group[Len(group)])
    /\ Len(raw) + SpanSize(gguf, i) <= config.target

Compressible == {"embeddings", "output", "norms", "tokenizer", "metadata"}

Compresses ==
  config.selective =>
    \A k \in 1..Len(group) : gguf.tensors[group[k]].category \in Compressible

(* TensorEntry of every tensor, with its chunk and its place in it. *)
TensorIndex ==
  [i \in 1..Len(gguf.tensors) |->
    [name |-> gguf.tensors[i].name, category |-> gguf.tensors[i].category,
     start |-> SpanStart(gguf, i), size |-> SpanSize(gguf, i),
     chunk |-> located[i].chunk, offset |-> located[i].offset]]

NothingPacked == group = <<>> /\ raw = <<>> /\ located = <<>> /\ described = <<>>

-----------------------------------------------------------------------------
CAInit ==
  /\ gguf = <<>> /\ config = <<>> /\ packing = "none"
  /\ NothingPacked
  /\ files = <<>> /\ manifest = <<>> /\ index = <<>>
  /\ attempts = 0 /\ passed = FALSE /\ got = NothingGot /\ warmed = [limit |-> 0, chunks |-> <<>>]

(* pack_gguf: an existing output directory, a bad configuration or a file    *)
(* that does not parse is refused before anything is created.                *)
BeginPack(h, cfg) ==
  /\ packing = "none" /\ attempts < MaxPacks
  /\ cfg.target > 0 /\ cfg.level \in 1..22
  /\ ParsesHeader(h) /\ h.tensors # <<>>
  /\ gguf' = h /\ config' = cfg /\ packing' = "chunks"
  /\ attempts' = attempts + 1 /\ passed' = FALSE
  /\ UNCHANGED <<packer, files, manifest, index, got, warmed>>

(* The loop over the groups, tensor by tensor: read its span, note the chunk *)
(* and the offset it gets there.                                             *)
PackTensor ==
  LET i == Len(located) + 1 IN
  /\ packing = "chunks" /\ i <= Len(gguf.tensors) /\ Joins(i)
  /\ located' = Append(located, [chunk |-> Len(files) + 1, offset |-> Len(raw)])
  /\ raw' = raw \o Span(gguf, i)
  /\ group' = Append(group, i)
  /\ UNCHANGED <<gguf, config, packing, described, files, manifest, index, attempts,
                 passed, got, warmed>>

(* A group that is complete: the chunk file holds its bytes or a zstd frame  *)
(* of them - whether the frame has as many bytes as the raw data is up to    *)
(* the data - and its descriptor the digest, the sizes and the names.        *)
PackChunk ==
  /\ packing = "chunks" /\ group # <<>>
  /\ Len(located) < Len(gguf.tensors) => ~Joins(Len(located) + 1)
  /\ \E same \in IF Compresses THEN BOOLEAN ELSE {TRUE} :
       /\ files' = Append(files, [content |-> raw, same |-> same, frame |-> Compresses])
       /\ described' = Append(described,
            [sha256 |-> raw, same |-> same,
             names |-> [k \in 1..Len(group) |-> gguf.tensors[group[k]].name]])
  /\ group' = <<>> /\ raw' = <<>>
  /\ UNCHANGED <<gguf, config, packing, located, manifest, index, attempts, passed, got,
                 warmed>>

WriteManifest ==
  /\ packing = "chunks" /\ Len(located) = Len(gguf.tensors) /\ group = <<>>
  /\ manifest' = described
  /\ packing' = "manifest"
  /\ UNCHANGED <<gguf, config, packer, files, index, attempts, passed, got, warmed>>

WriteIndex ==
  /\ packing = "manifest"
  /\ index' = TensorIndex
  /\ packing' = "index"
  /\ UNCHANGED <<gguf, config, packer, files, manifest, attempts, passed, got, warmed>>

(* A file is taken as raw when its descriptor's sizes agree, and otherwise   *)
(* decoded; what that cannot make sense of is an error or other bytes.       *)
Decoded(n) ==
  IF files[n].frame # manifest[n].same THEN files[n].content ELSE <<>>

(* Seeded fault: only the size of a chunk is compared. *)
SizeSound(n) == Len(Decoded(n)) = Len(manifest[n].sha256)

Sound(n) == Decoded(n) = manifest[n].sha256

(* pack_gguf returns, or dies: its locals are gone; on an error so are the   *)
(* files.                                                                    *)
Returns == group' = <<>> /\ raw' = <<>> /\ located' = <<>> /\ described' = <<>>
NoFiles == files' = <<>> /\ manifest' = <<>> /\ index' = <<>>

VerifyArchive ==
  /\ packing = "index"
  /\ IF \A n \in 1..Len(manifest) : Sound(n)
     THEN packing' = "done" /\ passed' = TRUE /\ UNCHANGED <<files, manifest, index>>
     ELSE packing' = "none" /\ passed' = FALSE /\ NoFiles
  /\ Returns
  /\ UNCHANGED <<gguf, config, attempts, got, warmed>>

(* A read or write that fails: the directory is removed. *)
PackFails ==
  /\ packing \in {"chunks", "manifest", "index"}
  /\ packing' = "none" /\ NoFiles /\ Returns
  /\ UNCHANGED <<gguf, config, attempts, passed, got, warmed>>

(* The process dies while it packs: what it wrote stays, and the directory   *)
(* is never packed into again.                                               *)
PackerDies ==
  /\ packing \in {"chunks", "manifest", "index"}
  /\ packing' = "left" /\ Returns
  /\ UNCHANGED <<gguf, config, files, manifest, index, attempts, passed, got, warmed>>

(* The medium: the content of a chunk file changes. *)
ChunkRots(n) ==
  /\ packing \in {"done", "left"}
  /\ files[n].content # <<0>>
  /\ files' = [files EXCEPT ![n].content = <<0>>]
  /\ UNCHANGED <<gguf, config, packing, packer, manifest, index, attempts, passed, got,
                 warmed>>

-----------------------------------------------------------------------------
(* ChunkLoader::open reads both files. *)
ArchiveOpens == packing \in {"done", "left"} /\ manifest # <<>> /\ index # <<>>

FirstNamed(name) ==
  CHOOSE i \in 1..Len(index) :
    index[i].name = name /\ \A k \in 1..i - 1 : index[k].name # name

(* reconstruct_chunk: the spans of the names, from the original file. *)
FromFallback(n) ==
  LET span(name) == LET e == index[FirstNamed(name)] IN
                    [k \in 1..e.size |-> e.start + k - 1]
  IN FlattenSeq([k \in 1..Len(manifest[n].names) |-> span(manifest[n].names[k])])

(* load_tensor_chunk, with verify_on_load and the cache cold: the packed     *)
(* file, or else the fallback, whose bytes must have the digest too.         *)
LoadTensor(i, fallback) ==
  LET e == index[FirstNamed(index[i].name)]
      n == e.chunk
  IN
  /\ ArchiveOpens
  /\ Sound(n) \/ (fallback /\ FromFallback(n) = manifest[n].sha256)
  /\ got' = [tensor |-> FirstNamed(index[i].name),
             data |-> SubSeq(IF Sound(n) THEN Decoded(n) ELSE FromFallback(n),
                             e.offset + 1, e.offset + e.size)]
  /\ UNCHANGED <<gguf, config, packing, packer, files, manifest, index, attempts, passed,
                 warmed>>

-----------------------------------------------------------------------------
(* The warmup: the chunks of eager tensors, by their most urgent one.        *)
Priority(category) ==
  CHOOSE p \in 1..10 : <<"metadata", "tokenizer", "norms", "router", "embeddings",
    "output", "attention", "ffn", "expert", "kv">>[p] = category

IsEager(category) == Priority(category) <= 4

EagerChunks == {index[i].chunk : i \in {i \in 1..Len(index) : IsEager(index[i].category)}}

Urgency(n) ==
  CHOOSE p \in 1..10 :
    /\ \E i \in 1..Len(index) : index[i].chunk = n /\ IsEager(index[i].category)
                                /\ Priority(index[i].category) = p
    /\ \A i \in 1..Len(index) : index[i].chunk = n /\ IsEager(index[i].category)
                                => p <= Priority(index[i].category)

MoreUrgent(a, b) == Urgency(a) < Urgency(b) \/ (Urgency(a) = Urgency(b) /\ a < b)

(* sort_by. *)
InOrder(S, before(_, _)) ==
  CHOOSE s \in [1..Cardinality(S) -> S] :
    \A i, j \in 1..Cardinality(S) : i < j => before(s[i], s[j])

Shortest(seq, n) == SubSeq(seq, 1, IF n < Len(seq) THEN n ELSE Len(seq))

(* Seeded fault: the chunks are put in order before they are cut. *)
WarmupSortedFirst(limit, strict) ==
  LET work == IF strict THEN InOrder(EagerChunks, <) ELSE InOrder(EagerChunks, MoreUrgent)
  IN IF limit = 0 THEN work ELSE Shortest(work, limit)

(* WarmupStrategy::execute: sort by urgency, cut, and with strict_order sort *)
(* what is left by its number.                                               *)
WarmupPlan(limit, strict) ==
  LET work == InOrder(EagerChunks, MoreUrgent)
      cut == IF limit = 0 THEN work ELSE Shortest(work, limit)
  IN IF strict THEN InOrder(ToSet(cut), <) ELSE cut

(* A chunk that cannot be loaded fails the warmup.  critical_only cuts at 3; *)
(* a limit of 0 is none.                                                     *)
Warmup(limit, strict) ==
  /\ ArchiveOpens
  /\ \A n \in ToSet(WarmupPlan(limit, strict)) : Sound(n)
  /\ warmed' = [limit |-> limit, chunks |-> WarmupPlan(limit, strict)]
  /\ UNCHANGED <<gguf, config, packing, packer, files, manifest, index, attempts, passed,
                 got>>

-----------------------------------------------------------------------------
CANext ==
  \/ \E h \in GgufFiles, cfg \in Packers : BeginPack(h, cfg)
  \/ PackTensor \/ PackChunk \/ WriteManifest \/ WriteIndex \/ VerifyArchive
  \/ PackFails \/ PackerDies
  \/ \E n \in 1..Len(files) : ChunkRots(n)
  \/ \E i \in 1..Len(index), fallback \in BOOLEAN : LoadTensor(i, fallback)
  \/ \E limit \in WarmupLimits, strict \in BOOLEAN : Warmup(limit, strict)

CASpec == CAInit /\ [][CANext]_caVars

-----------------------------------------------------------------------------
(* "Tensor spans packed as independently verifiable zstd frames" (packer.rs) *)
(* from which a loader with verify_on_load gets a tensor back: whatever it   *)
(* delivers is the tensor's bytes of the GGUF, whether from the packed file  *)
(* or from the fallback, after rot and after a packer that died; and an      *)
(* archive that opens has every chunk its manifest names.                    *)
TensorsComeBack ==
  /\ got.tensor # 0 => got.data = Span(gguf, got.tensor)
  /\ ArchiveOpens => /\ Len(files) = Len(manifest)
              /\ \A i \in 1..Len(index) : index[i].chunk \in 1..Len(manifest)
  /\ packing = "done" => passed

(* The chunks a limited warmup loads are the most urgent ones: none of those *)
(* it leaves out has a more urgent eager tensor (warmup.rs execute).         *)
WarmupLoadsUrgent ==
  warmed.chunks # <<>> =>
    LET plan == ToSet(warmed.chunks) IN
    /\ warmed.limit = 0 => plan = EagerChunks
    /\ \A a \in plan, b \in EagerChunks \ plan : Urgency(a) <= Urgency(b)
=============================================================================
