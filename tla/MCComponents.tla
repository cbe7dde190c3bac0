----------------------------- MODULE MCComponents -----------------------------
(***************************************************************************)
(* Small instances of the components beside the worker, for one run.       *)
(*                                                                         *)
(* The models share no state, so a behaviour follows one of them: the      *)
(* first step picks it and the others keep their initial states.  The run  *)
(* explores the state spaces side by side and multiplies nothing.          *)
(***************************************************************************)
EXTENDS Downloads, MemoryTiers, ChunkCache, EvidenceLog, JsonLines,
        ModelCatalog, Planner, Monitoring, MCToolChat, Analysis, McpSession,
        ChunkArchive, TLC

CONSTANTS
  j1, j2, j3, f1, f2,           \* Downloads
  ca, cb, cc,                   \* MemoryTiers, ChunkCache
  d1, l1, b1, good, second, junk \* ModelCatalog

VARIABLE component              \* the one that runs, "none" at first

-----------------------------------------------------------------------------
(* Two jobs for one key, pinned and not, and one for a key that is damaged   *)
(* on its way now and then.                                                  *)
DLFileOf == j1 :> f1 @@ j2 :> f1 @@ j3 :> f2

MTSizeOf == ca :> 1 @@ cb :> 1

(* One GPU in use, one of two full, an error. *)
MTGpuAnswers ==
  {<<[total |-> 11264, used |-> 9000]>>,
   <<[total |-> 11264, used |-> 100], [total |-> 11264, used |-> 9600]>>,
   <<Garbled>>}

(* A chunk as large as the cache, and one that never fits. *)
CCBytesOf == ca :> 1 @@ cb :> 3 @@ cc :> 4

(* Three locations of three sources, two of them with one content; headers   *)
(* with a key twice, a key of the wrong type and a type that is not known.   *)
MCatSourceAt  == d1 :> "DirectGguf" @@ l1 :> "LmStudio" @@ b1 :> "Ollama"
MCatRank      == d1 :> 1 @@ b1 :> 2 @@ l1 :> 3
MCatBytesIn   == good :> 1 @@ second :> 1 @@ junk :> 2
Entry(k, t, v) == [key |-> k, type |-> t, value |-> v, long |-> FALSE]
Family(v)      == Entry("general.architecture", "string", v)
MCatHeaderOf ==
  good :> [version |-> 3,
           entries |-> <<Family("llama"), Family("qwen2"),
                         Entry("context_length", "unsigned", 8)>>] @@
  second :> [version |-> 2,
            entries |-> <<Family("llama"), Entry("context_length", "other", 9),
                          [key |-> "tokens", type |-> "array", of |-> "string",
                           long |-> FALSE, value |-> 0]>>] @@
  junk :> [version |-> 3, entries |-> <<Family("qwen2"), Entry("x", "13", 0)>>]
Layer(m, d) == [media |-> m, blob |-> b1, digest |-> d, size |-> 1]
MCatManifests ==
  {[small |-> TRUE, json |-> TRUE,
    layers |-> <<Layer("license", second), Layer("model", good)>>],
   [small |-> TRUE, json |-> TRUE, layers |-> <<Layer("license", second)>>],
   [small |-> TRUE, json |-> TRUE, layers |-> <<Layer("model", Absent)>>],
   [small |-> FALSE, json |-> TRUE, layers |-> <<Layer("model", second)>>]}
MCatFirstDisk == d1 :> second @@ l1 :> good @@ b1 :> good

(* Models that fit nowhere, everywhere, only without their layers; memory on *)
(* both sides of the thresholds and of the steps of 64 MB.                   *)
PLProfiles ==
  {[mb |-> 1000, layers |-> 10, context |-> 8192],
   [mb |-> 4000, layers |-> 0, context |-> 0],
   [mb |-> 300, layers |-> 999, context |-> 400],
   [mb |-> 0, layers |-> 3, context |-> 4096],
   [mb |-> 3136, layers |-> 49, context |-> 4096]}
PLVramFree == {511, 576, 1536, 6000}
PLRamFree  == {2111, 2112, 9000}
(* 64.0 / 3136.0 * 49.0 is a little less than 1. *)
PLRoundedDown == {<<49, 64, 3136>>}
PLSsdFree  == {300, 1535}
PLReserves == [vram |-> 512, ram |-> 600, ssd |-> 500]
PLGiven == {[vram |-> 1536, ram |-> 2112, ssd |-> 1535,
             keep |-> [vram |-> 0, ram |-> 0, ssd |-> 0]],
            [vram |-> 6000, ram |-> 2111, ssd |-> 1535, keep |-> PLReserves]}
PLAsked == {[mb |-> 1000, gpu |-> 0, ram |-> 1300, layers |-> 4,
             context |-> 256, requested |-> 8192]}

(* Windows on both sides of every gate, one measured twice, one reversed. *)
Window(start, seen, models, saved, base, new) ==
  [start |-> start, end |-> 2, observations |-> seen, models |-> models,
   savings |-> saved, baseline |-> base, candidate |-> new, confidence |-> 80]
ANWindows ==
  {Window(1, 30, 2, 20, 10, 11), Window(1, 30, 2, 20, 10, 10),
   Window(1, 29, 2, 20, 10, 13), Window(1, 30, 2, 15, 0, 50),
   Window(1, 30, 2, 15, 10, 12), Window(2, 30, 2, 20, 10, 9)}
ANIntervals == [moe |-> 2, anomaly |-> 1]

(* A file with every kind of chunk, one with a name twice, one of a version  *)
(* the reader refuses, one with an empty tensor at the end.                  *)
Tensor(name, category, offset) ==
  [name |-> name, category |-> category, dims |-> 1, offset |-> offset]
Gguf(v, end, len, tensors) ==
  [version |-> v, headerEnd |-> end, fileLen |-> len, tensors |-> tensors]
CAGgufFiles ==
  {Gguf(3, 3, 10, <<Tensor("a", "ffn", 0), Tensor("n", "norms", 2),
                    Tensor("e", "expert", 3), Tensor("r", "router", 4),
                    Tensor("t", "tokenizer", 5)>>),
   Gguf(3, 3, 6, <<Tensor("a", "output", 1), Tensor("a", "norms", 2)>>),
   Gguf(1, 3, 6, <<Tensor("a", "output", 1)>>),
   Gguf(3, 3, 6, <<Tensor("a", "output", 1), Tensor("b", "norms", 1)>>)}
CAPackers ==
  {[target |-> 3, level |-> 3, separate |-> TRUE, selective |-> TRUE],
   [target |-> 2, level |-> 3, separate |-> FALSE, selective |-> FALSE]}

-----------------------------------------------------------------------------
Init ==
  /\ component = "none"
  /\ DLInit /\ MTInit /\ CCInit /\ EVInit /\ JLInit /\ MCatInit
  /\ PLInit /\ MOInit /\ TCInit /\ ANInit /\ MCPInit /\ CAInit

Picks(c) == component \in {"none", c} /\ component' = c

firstVars == <<mtVars, ccVars, evVars, jlVars, mcVars, plVars>>
lastVars == <<moVars, tcVars, anVars, mcpVars, caVars>>

Next ==
  \/ /\ Picks("Downloads") /\ DLNext
     /\ UNCHANGED <<firstVars, lastVars>>
  \/ /\ Picks("MemoryTiers") /\ MTNext
     /\ UNCHANGED <<dlVars, ccVars, evVars, jlVars, mcVars, plVars, lastVars>>
  \/ /\ Picks("ChunkCache") /\ CCNext
     /\ UNCHANGED <<dlVars, mtVars, evVars, jlVars, mcVars, plVars, lastVars>>
  \/ /\ Picks("EvidenceLog") /\ EVNext
     /\ UNCHANGED <<dlVars, mtVars, ccVars, jlVars, mcVars, plVars, lastVars>>
  \/ /\ Picks("JsonLines") /\ JLNext
     /\ UNCHANGED <<dlVars, mtVars, ccVars, evVars, mcVars, plVars, lastVars>>
  \/ /\ Picks("ModelCatalog") /\ MCatNext
     /\ UNCHANGED <<dlVars, mtVars, ccVars, evVars, jlVars, plVars, lastVars>>
  \/ /\ Picks("Planner") /\ PLNext
     /\ UNCHANGED <<dlVars, mtVars, ccVars, evVars, jlVars, mcVars, lastVars>>
  \/ /\ Picks("Monitoring") /\ MONext
     /\ UNCHANGED <<dlVars, firstVars, tcVars, anVars, mcpVars, caVars>>
  \/ /\ Picks("ToolChat") /\ TCNext
     /\ UNCHANGED <<dlVars, firstVars, moVars, anVars, mcpVars, caVars>>
  \/ /\ Picks("Analysis") /\ ANNext
     /\ UNCHANGED <<dlVars, firstVars, moVars, tcVars, mcpVars, caVars>>
  \/ /\ Picks("McpSession") /\ MCPNext
     /\ UNCHANGED <<dlVars, firstVars, moVars, tcVars, anVars, caVars>>
  \/ /\ Picks("ChunkArchive") /\ CANext
     /\ UNCHANGED <<dlVars, firstVars, moVars, tcVars, anVars, mcpVars>>

(* Only the download threads owe progress here, and they have nothing to do  *)
(* in a behaviour of another component.                                      *)
Spec ==
  /\ Init /\ [][Next]_<<component, dlVars, firstVars, lastVars>>
  /\ \A j \in Jobs : WF_dlVars(component = "Downloads" /\ (Stream(j) \/ Finish(j)))
=============================================================================
