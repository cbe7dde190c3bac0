------------------------------- MODULE Planner --------------------------------
(***************************************************************************)
(* The resource planner (planner.rs) and the two profiles the gateway      *)
(* makes for it (resolve_worker_config and handle_engine_plan_auto of      *)
(* http.rs).                                                               *)
(*                                                                         *)
(* A plan is made for what was free then; by the time it is used, memory   *)
(* has moved.  Numbers are megabytes and tokens, as in the code; the ids   *)
(* are the values they are computed from.  Where the code saturates at     *)
(* 2^64 the numbers of an instance are far below it.                       *)
(***************************************************************************)
EXTENDS Naturals

CONSTANTS
  Profiles,   \* model files: [mb, layers, context], layers 0 when not stated
  VramFree,   \* what resources::read may find
  RamFree,
  SsdFree,
  Reserves,   \* config.reserves: [vram, ram, ssd]
  Given,      \* resources a client may send: [vram, ram, ssd, keep]
  Asked,      \* profiles a client may send
  RoundedDown, \* <<layers, vram, gpu>> whose exact quotient floats fall short of
  Context     \* config.worker.default_context

ASSUME PlannerAssumption ==
  /\ Profiles \subseteq [mb : Nat, layers : Nat, context : Nat]
  /\ VramFree \subseteq Nat /\ RamFree \subseteq Nat /\ SsdFree \subseteq Nat
  /\ Reserves \in [vram : Nat, ram : Nat, ssd : Nat]
  /\ Given \subseteq [vram : Nat, ram : Nat, ssd : Nat,
                     keep : [vram : Nat, ram : Nat, ssd : Nat]]
  /\ Asked \subseteq [mb : Nat, gpu : Nat, ram : Nat, layers : Nat, context : Nat,
                     requested : Nat]
  /\ Context \in Nat

VARIABLES
  free,     \* what is free now: [vram, ram, ssd]
  planned   \* the last plan, with the profile it is for, or NoPlan

plVars == <<free, planned>>

NoPlan == [lane |-> "none"]

Least(a, b)    == IF a < b THEN a ELSE b
Greatest(a, b) == IF a < b THEN b ELSE a
Less(a, b)     == IF a > b THEN a - b ELSE 0
CeilDiv(a, b)  == (a + b - 1) \div b

-----------------------------------------------------------------------------
(* default_resources_from_snapshot: what is free, and what is kept of it. *)
Resources(r) == [vram |-> r.vram, ram |-> r.ram, ssd |-> r.ssd, keep |-> Reserves]

(* 64 MB steps; the reserves are exact. *)
Normalized(r) ==
  [vram |-> (r.vram \div 64) * 64, ram |-> (r.ram \div 64) * 64,
   ssd |-> (r.ssd \div 64) * 64, keep |-> r.keep]

(* Seeded fault: the disk is left out of the generation. *)
MemoryGeneration(r) ==
  [vram |-> Normalized(r).vram, ram |-> Normalized(r).ram, keep |-> r.keep]

ResourceGeneration(r) == Normalized(r)

(* Usable memory, and KV memory at 64 KiB a token for one slot. *)
Usable(r) ==
  [vram |-> Less(r.vram, r.keep.vram), ram |-> Less(r.ram, r.keep.ram),
   ssd |-> Less(r.ssd, r.keep.ssd)]

PlanContext(profile) ==
  Greatest(512, Least(profile.requested, profile.context))

KvMb(tokens) == CeilDiv(tokens * 64, 1024)
ComputeMb == 256

(* Seeded fault: the share of the VRAM is not capped. *)
UncappedLayers(profile, vram) ==
  (profile.layers * vram) \div Greatest(profile.gpu, 1)

(* Layers for the GPU by its share of the model, never all of them.  The     *)
(* code multiplies the layers with a rounded ratio: next to a quotient that  *)
(* is whole, the product may fall below it, and one layer is lost.           *)
PartialLayers(profile, vram) ==
  LET gpu == Greatest(profile.gpu, 1)
      product == profile.layers * vram
      lost == IF product # 0 /\ product % gpu = 0
                /\ <<profile.layers, vram, gpu>> \in RoundedDown
              THEN 1 ELSE 0
  IN Least(product \div gpu - lost, profile.layers - 1)

(* identified_plan: the plan_id is what it is hashed from, the plan itself.  *)
Identified(profile, r, lane, layers, vram, ram) ==
  [lane |-> lane, layers |-> layers, ctx |-> PlanContext(profile), vram |-> vram,
   ram |-> ram, generation |-> ResourceGeneration(r), for |-> profile]

(* plan_with_runtime: the first lane that fits. *)
Plan(profile, r) ==
  LET u == Usable(Normalized(r))
      kv == KvMb(PlanContext(profile))
      gpuNeed == profile.gpu + kv + ComputeMb
      ramNeed == profile.ram + kv
      made(lane, layers, vram, ram) == Identified(profile, r, lane, layers, vram, ram)
  IN
  IF profile.layers \in {0, 999} THEN made("Reject", 0, 0, ramNeed)
  ELSE IF gpuNeed <= u.vram THEN made("GpuFast", profile.layers, gpuNeed, ramNeed)
  ELSE IF ramNeed <= u.ram /\ profile.mb <= u.ssd
       THEN made("RamBalanced", PartialLayers(profile, u.vram), Least(u.vram, gpuNeed),
                 ramNeed)
  ELSE IF profile.mb <= u.ssd /\ kv <= u.ram THEN made("CpuSafe", 0, kv, ramNeed)
  ELSE made("Reject", 0, 0, 0)

Safe(plan) == plan.lane # "Reject"

-----------------------------------------------------------------------------
(* resolve_worker_config, for StartModel: 32 layers if the file states none, *)
(* RAM for five quarters of the file.                                        *)
StartProfile(f) ==
  [mb |-> f.mb, gpu |-> f.mb, ram |-> (f.mb * 5) \div 4,
   layers |-> IF f.layers = 0 THEN 32 ELSE f.layers,
   context |-> Greatest(Context, 512), requested |-> Context]

(* handle_engine_plan_auto: the context of the file, at most the configured. *)
AutoProfile(f) ==
  LET tokens == Least(IF f.context = 0 THEN Context ELSE f.context, Context) IN
  [mb |-> Greatest(f.mb, 1), gpu |-> Greatest(f.mb, 1), ram |-> Greatest(f.mb, 1),
   layers |-> f.layers, context |-> tokens, requested |-> tokens]

-----------------------------------------------------------------------------
PLInit ==
  /\ free = [vram |-> 0, ram |-> 0, ssd |-> 0]
  /\ planned = NoPlan

MemoryMoves ==
  /\ free' \in [vram : VramFree, ram : RamFree, ssd : SsdFree]
  /\ UNCHANGED planned

PlanStart ==
  /\ \E f \in Profiles : planned' = Plan(StartProfile(f), Resources(free))
  /\ UNCHANGED free

PlanAuto ==
  /\ \E f \in Profiles :
       f.layers # 0 /\ planned' = Plan(AutoProfile(f), Resources(free))
  /\ UNCHANGED free

(* handle_engine_plan: the profile is the client's, and the resources may    *)
(* be.                                                                       *)
PlanAsked ==
  /\ \E asked \in Asked, r \in Given \cup {Resources(free)} : planned' = Plan(asked, r)
  /\ UNCHANGED free

PLNext == MemoryMoves \/ PlanStart \/ PlanAuto \/ PlanAsked

PLSpec == PLInit /\ [][PLNext]_plVars

-----------------------------------------------------------------------------
LaneRank(lane) ==
  CASE lane = "GpuFast" -> 3 [] lane = "RamBalanced" -> 2
    [] lane = "CpuSafe" -> 1 [] lane = "Reject" -> 0

(* A plan that the gateway still takes as current, because the generation of *)
(* what is free has not changed (validated_planned_start), fits what is free *)
(* now, to the megabyte and with the reserves, in the memory its lane lives  *)
(* on: the VRAM of GpuFast; the RAM, the disk and its share of the VRAM of   *)
(* RamBalanced; the KV memory in RAM and the disk of CpuSafe.  A need of     *)
(* nothing fits even where less is free than the reserves keep.              *)
RoomFor(need, reserve, there) == need = 0 \/ need + reserve <= there

CurrentPlanFits ==
  planned # NoPlan /\ planned.generation = ResourceGeneration(Resources(free)) /\ Safe(planned) =>
    /\ planned.lane # "CpuSafe" => RoomFor(planned.vram, Reserves.vram, free.vram)
    /\ planned.lane = "RamBalanced" => RoomFor(planned.ram, Reserves.ram, free.ram)
    /\ planned.lane = "CpuSafe" => RoomFor(KvMb(planned.ctx), Reserves.ram, free.ram)
    /\ planned.lane # "GpuFast" => RoomFor(planned.for.mb, Reserves.ssd, free.ssd)

(* More free memory never makes a plan worse: neither a slower lane nor      *)
(* fewer layers on the GPU, across every threshold of plan_with_runtime and  *)
(* the rounding of normalize_resources.                                      *)
MoreMemoryNeverHurts ==
  planned # NoPlan =>
    LET now == Plan(planned.for, Resources(free))
        more == {r \in [vram : VramFree, ram : RamFree, ssd : SsdFree] :
                   r.vram >= free.vram /\ r.ram >= free.ram /\ r.ssd >= free.ssd}
    IN \A r \in more :
         /\ LaneRank(Plan(planned.for, Resources(r)).lane) >= LaneRank(now.lane)
         /\ Plan(planned.for, Resources(r)).layers >= now.layers

=============================================================================
