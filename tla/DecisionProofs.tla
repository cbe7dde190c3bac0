---------------------------- MODULE DecisionProofs ----------------------------
(***************************************************************************)
(* Proofs about the parts that decide from what was measured: the gates    *)
(* over an analysis window (Analysis), the planner (Planner), the cooldown *)
(* of a trigger (Monitoring) and the catalog a worker is started from      *)
(* (ModelCatalog).  Each has its inductive invariant and the theorem that  *)
(* follows from it.                                                        *)
(***************************************************************************)
EXTENDS ModelCatalog, Planner, Monitoring, Analysis, FiniteSetTheorems,
        WellFoundedInduction, TLAPS

-----------------------------------------------------------------------------
(***************************************************************************)
(* Analysis: jobs, proposals and gates.                                    *)
(***************************************************************************)

(* The verdict that stands is what the gates say of a proposal next made of  *)
(* one window, beside another one.                                           *)
VerdictInv ==
  /\ version \in Nat
  /\ \A p \in proposals : \E v \in Nat, w \in Windows : p = Proposal(v, w)
  /\ verdict # NoVerdict =>
       \E u \in Windows, v \in Nat, w \in Windows :
         verdict = [window |-> u, proposal |-> Proposal(v, w),
                    decision |-> Gates(u, Proposal(v, w))]

(* The last of the runs of a kind is in last_run_ms, and they are apart.     *)
RunsInv ==
  /\ lastRun \in [Kinds -> Nat] /\ runs \in [Kinds -> SUBSET Nat]
  /\ \A k \in Kinds : \A t \in runs[k] : t <= lastRun[k]
  /\ RunsAreSpaced

(* PolicyVersioner::next and PromotionGates::evaluate over any two windows.  *)
LEMMA GatesBlock ==
  ASSUME NEW u \in Windows, NEW w \in Windows, NEW v \in Nat
  PROVE  LET p == Proposal(v, w) IN
         /\ Gates(u, p) = "promote" =>
              /\ w.baseline > 0 => 10 * w.candidate <= 11 * w.baseline
              /\ w.baseline > 0 /\ w.candidate > w.baseline => p.prefetch = 1
              /\ p.cache = 512
              /\ u.observations >= 30 /\ u.models >= 2
         /\ w.baseline > 0 /\ 10 * w.candidate > 12 * w.baseline => Gates(u, p) = "rollback"
<1> DEFINE p == Proposal(v, w)
<1>1. /\ w.baseline \in Nat /\ w.candidate \in Nat /\ w.savings \in Int
      /\ u.observations \in Nat /\ u.models \in Nat
  BY AnalysisAssumption
<1>2. /\ p.window = w /\ p.cache = IF w.savings >= 15 THEN 512 ELSE 256
      /\ p.prefetch = IF NotSlower(w) THEN 2 ELSE 1
  BY DEF Proposal
<1> HIDE DEF p
<1>3. ASSUME Gates(u, p) = "promote"
      PROVE  /\ w.baseline > 0 => 10 * w.candidate < 11 * w.baseline
             /\ w.savings >= 15 /\ u.observations >= 30 /\ u.models >= 2
  BY <1>1, <1>2, <1>3 DEF Gates, AboveTenth
<1>4. ASSUME w.baseline > 0, 10 * w.candidate > 12 * w.baseline
      PROVE  Gates(u, p) = "rollback"
  BY <1>2, <1>4 DEF Gates, AboveFifth
<1>5. w.baseline > 0 /\ w.candidate > w.baseline => p.prefetch = 1
  BY <1>1, <1>2 DEF NotSlower
<1> QED  BY <1>1, <1>2, <1>3, <1>4, <1>5 DEF p

(* Every step of the scheduler, the versioner and the gates.                 *)
LEMMA NextPreservesVerdicts ==
  ASSUME VerdictInv, [ANNext]_anVars
  PROVE  VerdictInv'
<1>1. CASE \/ \E at \in 0..LastTime : TakeDue(at)
           \/ \E k \in Kinds, w \in Windows : Submit(k, w)
           \/ UNCHANGED anVars
  BY <1>1 DEF TakeDue, Submit, anVars, VerdictInv
<1>2. ASSUME NEW w \in Windows, Propose(w) PROVE VerdictInv'
  <2>1. version' \in Nat /\ proposals' = proposals \cup {Proposal(version', w)}
        /\ verdict' = verdict
    BY <1>2 DEF Propose, VerdictInv
  <2> QED  BY <2>1 DEF VerdictInv
<1>3. ASSUME NEW u \in Windows, NEW p \in proposals, Judge(u, p) PROVE VerdictInv'
  <2>1. PICK v \in Nat, w \in Windows : p = Proposal(v, w)
    BY DEF VerdictInv
  <2>2. /\ verdict' = [window |-> u, proposal |-> Proposal(v, w),
                       decision |-> Gates(u, Proposal(v, w))]
        /\ UNCHANGED <<version, proposals>>
    BY <1>3, <2>1 DEF Judge
  <2> QED  BY <2>2 DEF VerdictInv
<1> QED  BY <1>1, <1>2, <1>3 DEF ANNext

(* A kind that is due was last so an interval ago.                           *)
LEMMA NextPreservesRuns ==
  ASSUME RunsInv, [ANNext]_anVars
  PROVE  RunsInv'
<1>1. ASSUME NEW at \in 0..LastTime, TakeDue(at) PROVE RunsInv'
  <2>1. at \in Nat /\ \A k \in Kinds : Intervals[k] \in Nat
    BY AnalysisAssumption
  <2>2. ASSUME NEW k \in Kinds
        PROVE  \/ lastRun'[k] = lastRun[k] /\ runs'[k] = runs[k]
               \/ /\ at - lastRun[k] >= Intervals[k]
                  /\ lastRun'[k] = at /\ runs'[k] = runs[k] \cup {at}
    BY <1>1 DEF TakeDue, Due
  <2>3. lastRun' \in [Kinds -> Nat] /\ runs' \in [Kinds -> SUBSET Nat]
    BY <1>1, <2>1 DEF TakeDue, RunsInv
  <2>4. ASSUME NEW k \in Kinds
        PROVE  /\ \A t \in runs'[k] : t <= lastRun'[k]
               /\ \A s, t \in runs'[k] : s < t => t - s >= Intervals[k]
    <3>1. /\ runs[k] \subseteq Nat /\ lastRun[k] \in Nat /\ Intervals[k] \in Nat
          /\ \A t \in runs[k] : t <= lastRun[k]
          /\ \A s, t \in runs[k] : s < t => t - s >= Intervals[k]
      BY <2>1 DEF RunsInv, RunsAreSpaced
    <3>2. CASE lastRun'[k] = lastRun[k] /\ runs'[k] = runs[k]
      BY <3>1, <3>2
    <3>3. CASE /\ at - lastRun[k] >= Intervals[k]
               /\ lastRun'[k] = at /\ runs'[k] = runs[k] \cup {at}
      BY <2>1, <3>1, <3>3
    <3> QED  BY <2>2, <3>2, <3>3
  <2> QED  BY <2>3, <2>4 DEF RunsInv, RunsAreSpaced
<1>2. CASE \/ \E k \in Kinds, w \in Windows : Submit(k, w)
           \/ \E w \in Windows : Propose(w)
           \/ \E w \in Windows, p \in proposals : Judge(w, p)
           \/ UNCHANGED anVars
  BY <1>2 DEF Submit, Propose, Judge, anVars, RunsInv, RunsAreSpaced
<1> QED  BY <1>1, <1>2 DEF ANNext

(* A measured regression is not promoted, and a large one rolled back, for   *)
(* all windows and in every order of proposals and verdicts.                 *)
THEOREM AnalysisBlocksRegressions == ANSpec => []MeasuredRegressionBlocks
<1>1. ANInit => VerdictInv
  BY DEF ANInit, VerdictInv
<1>2. VerdictInv /\ [ANNext]_anVars => VerdictInv'
  BY NextPreservesVerdicts
<1>3. VerdictInv => MeasuredRegressionBlocks
  <2> SUFFICES ASSUME VerdictInv, verdict # NoVerdict PROVE MeasuredRegressionBlocks
    BY DEF MeasuredRegressionBlocks
  <2>1. PICK u \in Windows, v \in Nat, w \in Windows :
           verdict = [window |-> u, proposal |-> Proposal(v, w),
                      decision |-> Gates(u, Proposal(v, w))]
    BY DEF VerdictInv
  <2>2. Proposal(v, w).window = w
    BY DEF Proposal
  <2>3. verdict.window = u /\ verdict.proposal = Proposal(v, w)
        /\ verdict.decision = Gates(u, Proposal(v, w))
    BY <2>1
  <2> QED  BY <2>2, <2>3, GatesBlock DEF MeasuredRegressionBlocks
<1> QED  BY <1>1, <1>2, <1>3, PTL DEF ANSpec

(* A kind of analysis is due once in its interval, whatever the order in     *)
(* which callers read the clock (take_due).                                  *)
THEOREM AnalysisRunsAreSpaced == ANSpec => []RunsAreSpaced
<1>1. ANInit => RunsInv
  BY DEF ANInit, RunsInv, RunsAreSpaced
<1>2. RunsInv /\ [ANNext]_anVars => RunsInv'
  BY NextPreservesRuns
<1>3. RunsInv => RunsAreSpaced
  BY DEF RunsInv
<1> QED  BY <1>1, <1>2, <1>3, PTL DEF ANSpec

-----------------------------------------------------------------------------
(***************************************************************************)
(* The planner: plans against what is free.                                *)
(***************************************************************************)

Profile ==
  [mb : Nat, gpu : Nat, ram : Nat, layers : Nat, context : Nat, requested : Nat]

Reserve   == [vram : Nat, ram : Nat, ssd : Nat]
Resource  == [vram : Nat, ram : Nat, ssd : Nat, keep : Reserve]

(* The inductive invariant: a plan is always plan_with_runtime's, of some    *)
(* profile and some resources.                                               *)
PInv ==
  /\ free \in Reserve
  /\ planned = NoPlan \/ \E p \in Profile, r \in Resource : planned = Plan(p, r)

(* Division rounds down, so it keeps an order. *)
LEMMA DivisionKeepsOrder ==
  ASSUME NEW x \in Nat, NEW y \in Nat, NEW g \in Nat \ {0}, x <= y
  PROVE  x \div g \in Nat /\ x \div g <= y \div g
<1>1. PICK a \in Nat : a = x \div g /\ g * a <= x
  OBVIOUS
<1>2. PICK b \in Nat : b = y \div g /\ y < g * (b + 1)
  OBVIOUS
<1>3. g * a < g * (b + 1)
  BY <1>1, <1>2
<1>4. a < b + 1
  <2>1. ASSUME a >= b + 1 PROVE FALSE
    <3>1. g * a >= g * (b + 1)
      BY <2>1
    <3> QED  BY <1>3, <3>1
  <2> QED  BY <2>1
<1> QED  BY <1>1, <1>2, <1>4

(* A whole quotient lies above those of smaller dividends, and is not zero.  *)
LEMMA WholeQuotients ==
  ASSUME NEW x \in Nat, NEW y \in Nat, NEW g \in Nat \ {0}, x < y, y % g = 0
  PROVE  x \div g \in Nat /\ y \div g \in Nat /\ x \div g <= y \div g - 1
<1>1. PICK a \in Nat : a = x \div g /\ g * a <= x
  OBVIOUS
<1>2. PICK b \in Nat : b = y \div g /\ y = g * b
  OBVIOUS
<1>3. a < b
  <2>1. ASSUME a >= b PROVE FALSE
    <3>1. g * a >= g * b
      BY <2>1
    <3> QED  BY <1>1, <1>2, <3>1
  <2> QED  BY <2>1
<1> QED  BY <1>1, <1>2, <1>3

(* A product with one factor fixed keeps an order. *)
LEMMA ProductKeepsOrder ==
  ASSUME NEW a \in Nat, NEW x \in Nat, NEW y \in Nat, x <= y
  PROVE  a * x \in Nat /\ a * x <= a * y
OBVIOUS

(* normalize_resources rounds to steps of 64 MB and keeps the reserves.      *)
LEMMA NormalizedIsTyped ==
  ASSUME NEW r \in Resource
  PROVE  /\ Normalized(r) \in Resource /\ Normalized(r).keep = r.keep
         /\ Normalized(r).vram <= r.vram /\ Normalized(r).ram <= r.ram
         /\ Normalized(r).ssd <= r.ssd
<1>1. \A x \in Nat : (x \div 64) * 64 \in Nat /\ (x \div 64) * 64 <= x
  OBVIOUS
<1>2. r.vram \in Nat /\ r.ram \in Nat /\ r.ssd \in Nat /\ r.keep \in Reserve
  BY DEF Resource
<1>3. Normalized(r) \in Resource
  BY <1>1, <1>2 DEF Normalized, Resource
<1> QED  BY <1>1, <1>2, <1>3 DEF Normalized

(* usable_memory is what is there beyond the reserves, or nothing.           *)
LEMMA UsableIsTyped ==
  ASSUME NEW r \in Resource
  PROVE  /\ Usable(r) \in Reserve
         /\ Usable(r).vram = 0 \/ Usable(r).vram + r.keep.vram = r.vram
         /\ Usable(r).ram = 0 \/ Usable(r).ram + r.keep.ram = r.ram
         /\ Usable(r).ssd = 0 \/ Usable(r).ssd + r.keep.ssd = r.ssd
<1>1. \A a, b \in Nat : Less(a, b) \in Nat /\ (Less(a, b) = 0 \/ Less(a, b) + b = a)
  BY DEF Less
<1>2. /\ r.vram \in Nat /\ r.ram \in Nat /\ r.ssd \in Nat
      /\ r.keep.vram \in Nat /\ r.keep.ram \in Nat /\ r.keep.ssd \in Nat
  BY DEF Resource, Reserve
<1> QED  BY <1>1, <1>2 DEF Usable, Reserve

(* The KV memory is never nothing: the context has at least 512 tokens.      *)
LEMMA NeedsAreTyped ==
  ASSUME NEW p \in Profile
  PROVE  /\ PlanContext(p) \in Nat
         /\ KvMb(PlanContext(p)) \in Nat \ {0}
<1>1. p.requested \in Nat /\ p.context \in Nat
  BY DEF Profile
<1>2. PlanContext(p) \in Nat /\ PlanContext(p) >= 512
  BY <1>1 DEF PlanContext, Greatest, Least
<1>3. \A n \in Nat : n >= 512 => KvMb(n) \in Nat \ {0}
  BY DEF KvMb, CeilDiv
<1> QED  BY <1>2, <1>3

(* What a plan says of its lane: the memory it counts with was usable.       *)
LanesFit(plan, p, u) ==
  LET kv == KvMb(PlanContext(p)) IN
  /\ plan.for = p /\ plan.ctx = PlanContext(p)
  /\ plan.lane \in {"GpuFast", "RamBalanced", "CpuSafe", "Reject"}
  /\ plan.lane = "GpuFast" => plan.vram <= u.vram /\ plan.layers = p.layers
  /\ plan.lane = "RamBalanced" =>
       /\ plan.vram <= u.vram /\ plan.ram <= u.ram /\ p.mb <= u.ssd
       /\ plan.layers = PartialLayers(p, u.vram)
  /\ plan.lane = "CpuSafe" => kv <= u.ram /\ p.mb <= u.ssd
  /\ plan.lane \in {"CpuSafe", "Reject"} => plan.layers = 0

(* plan_with_runtime takes a lane only when what it counts with is usable.   *)
LEMMA PlansFitTheirLane ==
  ASSUME NEW p \in Profile, NEW r \in Resource
  PROVE  /\ LanesFit(Plan(p, r), p, Usable(Normalized(r)))
         /\ Plan(p, r).generation = Normalized(r)
         /\ Plan(p, r).vram \in Nat /\ Plan(p, r).ram \in Nat
<1> DEFINE u == Usable(Normalized(r))
           kv == KvMb(PlanContext(p))
           gpuNeed == p.gpu + kv + ComputeMb
           ramNeed == p.ram + kv
           made(lane, layers, vram, ram) == Identified(p, r, lane, layers, vram, ram)
<1>1. u \in Reserve
  BY NormalizedIsTyped, UsableIsTyped
<1>2. /\ kv \in Nat /\ gpuNeed \in Nat /\ ramNeed \in Nat
      /\ u.vram \in Nat /\ u.ram \in Nat /\ p.mb \in Nat
  BY <1>1, NeedsAreTyped DEF Reserve, Profile, ComputeMb
<1>3. Plan(p, r) =
        IF p.layers \in {0, 999} THEN made("Reject", 0, 0, ramNeed)
        ELSE IF gpuNeed <= u.vram THEN made("GpuFast", p.layers, gpuNeed, ramNeed)
        ELSE IF ramNeed <= u.ram /\ p.mb <= u.ssd
             THEN made("RamBalanced", PartialLayers(p, u.vram), Least(u.vram, gpuNeed), ramNeed)
        ELSE IF p.mb <= u.ssd /\ kv <= u.ram THEN made("CpuSafe", 0, kv, ramNeed)
        ELSE made("Reject", 0, 0, 0)
  BY DEF Plan
<1>4. ASSUME NEW lane, NEW layers, NEW vram, NEW ram
      PROVE  /\ made(lane, layers, vram, ram).lane = lane
             /\ made(lane, layers, vram, ram).layers = layers
             /\ made(lane, layers, vram, ram).vram = vram
             /\ made(lane, layers, vram, ram).ram = ram
             /\ made(lane, layers, vram, ram).for = p
             /\ made(lane, layers, vram, ram).ctx = PlanContext(p)
             /\ made(lane, layers, vram, ram).generation = Normalized(r)
  BY DEF Identified, ResourceGeneration
<1>5. Least(u.vram, gpuNeed) \in Nat /\ Least(u.vram, gpuNeed) <= u.vram
  BY <1>2 DEF Least
<1>6. PICK plan : plan = Plan(p, r)
  OBVIOUS
<1>7. kv = KvMb(PlanContext(p))
  OBVIOUS
<1> HIDE DEF u, kv, gpuNeed, ramNeed, made
<1>8. CASE p.layers \in {0, 999}
  BY <1>2, <1>3, <1>4, <1>6, <1>8 DEF LanesFit, u
<1>9. CASE p.layers \notin {0, 999} /\ gpuNeed <= u.vram
  BY <1>2, <1>3, <1>4, <1>6, <1>9 DEF LanesFit, u
<1>10. CASE /\ p.layers \notin {0, 999} /\ ~(gpuNeed <= u.vram)
            /\ ramNeed <= u.ram /\ p.mb <= u.ssd
  BY <1>2, <1>3, <1>4, <1>5, <1>6, <1>10 DEF LanesFit, u
<1>11. CASE /\ p.layers \notin {0, 999} /\ ~(gpuNeed <= u.vram)
            /\ ~(ramNeed <= u.ram /\ p.mb <= u.ssd)
            /\ p.mb <= u.ssd /\ kv <= u.ram
  BY <1>2, <1>3, <1>4, <1>6, <1>7, <1>11 DEF LanesFit, u
<1>12. CASE /\ p.layers \notin {0, 999} /\ ~(gpuNeed <= u.vram)
            /\ ~(ramNeed <= u.ram /\ p.mb <= u.ssd)
            /\ ~(p.mb <= u.ssd /\ kv <= u.ram)
  BY <1>2, <1>3, <1>4, <1>6, <1>12 DEF LanesFit, u
<1> QED  BY <1>8, <1>9, <1>10, <1>11, <1>12

(* Every plan is made for a file, for the engine's own profile of it or for  *)
(* the client's.                                                             *)
LEMMA ProfilesAreTyped ==
  ASSUME NEW f \in Profiles
  PROVE  StartProfile(f) \in Profile /\ AutoProfile(f) \in Profile
<1>1. f.mb \in Nat /\ f.layers \in Nat /\ f.context \in Nat /\ Context \in Nat
  BY PlannerAssumption
<1>2. (f.mb * 5) \div 4 \in Nat
  BY <1>1
<1>3. \A a, b \in Nat : Least(a, b) \in Nat /\ Greatest(a, b) \in Nat
  BY DEF Least, Greatest
<1>4. StartProfile(f) \in Profile
  <2>1. (IF f.layers = 0 THEN 32 ELSE f.layers) \in Nat
    BY <1>1
  <2>2. Greatest(Context, 512) \in Nat
    BY <1>1 DEF Greatest
  <2> QED  BY <1>1, <1>2, <2>1, <2>2 DEF StartProfile, Profile
<1>5. AutoProfile(f) \in Profile
  <2>1. (IF f.context = 0 THEN Context ELSE f.context) \in Nat
    BY <1>1
  <2> QED  BY <1>1, <1>3, <2>1 DEF AutoProfile, Profile
<1> QED  BY <1>4, <1>5

(* default_resources_from_snapshot keeps what was measured apart from the    *)
(* reserves.                                                                 *)
LEMMA ResourcesAreTyped ==
  ASSUME NEW f \in Reserve
  PROVE  /\ Resources(f) \in Resource
         /\ Resources(f).vram = f.vram /\ Resources(f).ram = f.ram
         /\ Resources(f).ssd = f.ssd /\ Resources(f).keep = Reserves
BY PlannerAssumption DEF Resources, Resource, Reserve

(* There is no plan at first. *)
LEMMA InitEstablishesPInv == PLInit => PInv
BY DEF PLInit, PInv, Reserve

(* Whichever way a plan is asked for, plan_with_runtime makes it.            *)
LEMMA NextPreservesPInv ==
  ASSUME PInv, [PLNext]_plVars
  PROVE  PInv'
<1>1. CASE MemoryMoves
  <2>1. free' \in Reserve
    BY <1>1, PlannerAssumption DEF MemoryMoves, Reserve
  <2> QED  BY <1>1, <2>1 DEF MemoryMoves, PInv
<1>2. ASSUME NEW p \in Profile, NEW r \in Resource, planned' = Plan(p, r), UNCHANGED free
      PROVE  PInv'
  BY <1>2 DEF PInv
<1>3. Resources(free) \in Resource
  BY ResourcesAreTyped DEF PInv
<1>4. CASE PlanStart \/ PlanAuto
  BY <1>2, <1>3, <1>4, ProfilesAreTyped DEF PlanStart, PlanAuto
<1>5. CASE PlanAsked
  <2>1. Asked \subseteq Profile /\ Given \subseteq Resource
    BY PlannerAssumption DEF Profile, Resource, Reserve
  <2> QED  BY <1>2, <1>3, <1>5, <2>1 DEF PlanAsked
<1>6. CASE UNCHANGED plVars
  BY <1>6 DEF plVars, PInv
<1> QED  BY <1>1, <1>4, <1>5, <1>6 DEF PLNext

(* A plan's generation is all it saw of the resources: when it is the one of *)
(* what is free now, what was usable then is usable now, and normalizing has *)
(* rounded it down.                                                          *)
LEMMA PInvMeansCurrentPlanFits == PInv => CurrentPlanFits
<1> SUFFICES ASSUME PInv, planned # NoPlan,
                    planned.generation = ResourceGeneration(Resources(free))
             PROVE  /\ planned.lane \in {"GpuFast", "RamBalanced"} =>
                         RoomFor(planned.vram, Reserves.vram, free.vram)
                    /\ planned.lane = "RamBalanced" =>
                         RoomFor(planned.ram, Reserves.ram, free.ram)
                    /\ planned.lane = "CpuSafe" =>
                         RoomFor(KvMb(planned.ctx), Reserves.ram, free.ram)
                    /\ planned.lane \in {"RamBalanced", "CpuSafe"} =>
                         RoomFor(planned.for.mb, Reserves.ssd, free.ssd)
                    /\ planned.lane \in {"GpuFast", "RamBalanced", "CpuSafe", "Reject"}
  BY DEF CurrentPlanFits, Safe
<1>1. PICK p \in Profile, r \in Resource : planned = Plan(p, r)
  BY DEF PInv
<1>2. PICK n \in Resource :
        /\ n = Normalized(r) /\ n = Normalized(Resources(free)) /\ n.keep = Reserves
        /\ n.vram <= free.vram /\ n.ram <= free.ram /\ n.ssd <= free.ssd
  <2>1. Normalized(r) = Normalized(Resources(free))
    BY <1>1, PlansFitTheirLane DEF ResourceGeneration
  <2>2. free \in Reserve
    BY DEF PInv
  <2> QED  BY <2>1, <2>2, NormalizedIsTyped, ResourcesAreTyped
<1>3. PICK u \in Reserve :
        /\ u = Usable(n)
        /\ u.vram = 0 \/ u.vram + Reserves.vram = n.vram
        /\ u.ram = 0 \/ u.ram + Reserves.ram = n.ram
        /\ u.ssd = 0 \/ u.ssd + Reserves.ssd = n.ssd
  BY <1>2, UsableIsTyped
<1>4. /\ LanesFit(planned, p, u) /\ planned.vram \in Nat /\ planned.ram \in Nat
      /\ p.mb \in Nat /\ KvMb(PlanContext(p)) \in Nat
  BY <1>1, <1>2, <1>3, PlansFitTheirLane, NeedsAreTyped DEF Profile
<1>5. ASSUME NEW need \in Nat, NEW usable \in Nat, NEW reserve \in Nat, NEW n0 \in Nat,
             NEW there \in Nat, usable = 0 \/ usable + reserve = n0, n0 <= there,
             need <= usable
      PROVE  RoomFor(need, reserve, there)
  BY <1>5 DEF RoomFor
<1>6. /\ u.vram \in Nat /\ u.ram \in Nat /\ u.ssd \in Nat
      /\ n.vram \in Nat /\ n.ram \in Nat /\ n.ssd \in Nat
      /\ free.vram \in Nat /\ free.ram \in Nat /\ free.ssd \in Nat
      /\ Reserves.vram \in Nat /\ Reserves.ram \in Nat /\ Reserves.ssd \in Nat
  BY PlannerAssumption DEF Reserve, Resource, PInv
<1>7. planned.lane \in {"GpuFast", "RamBalanced"} =>
        RoomFor(planned.vram, Reserves.vram, free.vram)
  BY <1>2, <1>3, <1>4, <1>5, <1>6 DEF LanesFit
<1>8. planned.lane = "RamBalanced" => RoomFor(planned.ram, Reserves.ram, free.ram)
  BY <1>2, <1>3, <1>4, <1>5, <1>6 DEF LanesFit
<1>9. planned.lane = "CpuSafe" => RoomFor(KvMb(planned.ctx), Reserves.ram, free.ram)
  BY <1>2, <1>3, <1>4, <1>5, <1>6 DEF LanesFit
<1>10. planned.lane \in {"RamBalanced", "CpuSafe"} =>
         RoomFor(planned.for.mb, Reserves.ssd, free.ssd)
  BY <1>2, <1>3, <1>4, <1>5, <1>6 DEF LanesFit
<1>11. planned.lane \in {"GpuFast", "RamBalanced", "CpuSafe", "Reject"}
  BY <1>4 DEF LanesFit
<1> QED  BY <1>7, <1>8, <1>9, <1>10, <1>11

(* In every execution a plan whose generation is still current fits what is  *)
(* free, with the reserves, in the memory of its lane.                       *)
THEOREM PlannerCurrentPlanFits == PLSpec => []CurrentPlanFits
<1>1. PLInit => PInv
  BY InitEstablishesPInv
<1>2. PInv /\ [PLNext]_plVars => PInv'
  BY NextPreservesPInv
<1>3. PInv => CurrentPlanFits
  BY PInvMeansCurrentPlanFits
<1> QED  BY <1>1, <1>2, <1>3, PTL DEF PLSpec

(* The lane and the layers that plan_with_runtime takes, by what is usable.  *)
LaneOf(p, u) ==
  LET kv == KvMb(PlanContext(p)) IN
  IF p.layers \in {0, 999} THEN "Reject"
  ELSE IF p.gpu + kv + ComputeMb <= u.vram THEN "GpuFast"
  ELSE IF p.ram + kv <= u.ram /\ p.mb <= u.ssd THEN "RamBalanced"
  ELSE IF p.mb <= u.ssd /\ kv <= u.ram THEN "CpuSafe"
  ELSE "Reject"

LayersOf(p, u) ==
  CASE LaneOf(p, u) = "GpuFast" -> p.layers
    [] LaneOf(p, u) = "RamBalanced" -> PartialLayers(p, u.vram)
    [] OTHER -> 0

(* plan_with_runtime over what is usable: the lane and the layers it takes.  *)
LEMMA LaneAndLayers ==
  ASSUME NEW p, NEW r
  PROVE  /\ Plan(p, r).lane = LaneOf(p, Usable(Normalized(r)))
         /\ Plan(p, r).layers = LayersOf(p, Usable(Normalized(r)))
BY DEF Plan, LaneOf, LayersOf, Identified

(* The share of the layers grows with the VRAM and stays below all of them.  *)
LEMMA PartialLayersGrow ==
  ASSUME NEW p \in Profile, p.layers # 0, NEW v \in Nat, NEW w \in Nat, v <= w
  PROVE  /\ PartialLayers(p, v) \in Nat
         /\ PartialLayers(p, v) <= PartialLayers(p, w)
         /\ PartialLayers(p, v) <= p.layers
<1>1. PICK n \in Nat \ {0} : n = p.layers
  BY DEF Profile
<1>2. PICK g \in Nat \ {0} : g = Greatest(p.gpu, 1)
  <2>1. p.gpu \in Nat
    BY DEF Profile
  <2> QED  BY <2>1 DEF Greatest
<1>3. n * v \in Nat /\ n * w \in Nat /\ n * v <= n * w
  BY ProductKeepsOrder
<1> DEFINE lost(x) == IF n * x # 0 /\ (n * x) % g = 0 /\ <<n, x, g>> \in RoundedDown THEN 1 ELSE 0
<1>4. /\ (n * v) \div g \in Nat /\ (n * w) \div g \in Nat
      /\ (n * v) \div g <= (n * w) \div g
  BY <1>3, DivisionKeepsOrder
<1>5. PICK a \in Nat, b \in Nat : a = (n * v) \div g /\ b = (n * w) \div g /\ a <= b
  BY <1>4
<1>6. /\ PartialLayers(p, v) = Least(a - lost(v), n - 1)
      /\ PartialLayers(p, w) = Least(b - lost(w), n - 1)
  BY <1>1, <1>2, <1>5 DEF PartialLayers
<1>7. a - lost(v) \in Nat
  <2>1. CASE lost(v) = 1
    <3>1. 0 < n * v /\ (n * v) % g = 0
      BY <1>3, <2>1
    <3>2. 0 \div g <= (n * v) \div g - 1 /\ 0 \div g \in Nat
      BY <1>3, <3>1, WholeQuotients
    <3> QED  BY <1>5, <2>1, <3>2
  <2>2. CASE lost(v) = 0
    BY <1>5, <2>2
  <2> QED  BY <2>1, <2>2
<1>8. b - lost(w) \in Int /\ a - lost(v) <= b - lost(w)
  <2>1. CASE v = w
    BY <1>5, <1>7, <2>1
  <2>2. CASE v # w /\ lost(w) = 0
    BY <1>5, <2>2
  <2>3. CASE v # w /\ lost(w) = 1
    <3>1. n * v < n * w
      <4>1. w = v + (w - v) /\ w - v \in Nat \ {0}
        BY <2>3
      <4>2. n * w = n * v + n * (w - v) /\ n * (w - v) > 0
        BY <4>1
      <4> QED  BY <1>3, <4>2
    <3>2. (n * v) \div g <= (n * w) \div g - 1
      BY <1>3, <2>3, <3>1, WholeQuotients
    <3> QED  BY <1>5, <2>3, <3>2
  <2> QED  BY <2>1, <2>2, <2>3
<1> HIDE DEF lost
<1> QED  BY <1>1, <1>6, <1>7, <1>8 DEF Least

(* normalize_resources and usable_memory keep the order of what is free.     *)
LEMMA UsableGrows ==
  ASSUME NEW r \in Reserve, NEW s \in Reserve,
         r.vram <= s.vram, r.ram <= s.ram, r.ssd <= s.ssd
  PROVE  LET u == Usable(Normalized(Resources(r)))
             w == Usable(Normalized(Resources(s)))
         IN  u \in Reserve /\ w \in Reserve
             /\ u.vram <= w.vram /\ u.ram <= w.ram /\ u.ssd <= w.ssd
<1> DEFINE u == Usable(Normalized(Resources(r)))
           w == Usable(Normalized(Resources(s)))
<1>1. u \in Reserve /\ w \in Reserve
  BY ResourcesAreTyped, NormalizedIsTyped, UsableIsTyped
<1>2. ASSUME NEW x \in Nat, NEW y \in Nat, NEW keep \in Nat, x <= y
      PROVE  Less((x \div 64) * 64, keep) <= Less((y \div 64) * 64, keep)
  <2>1. /\ (x \div 64) * 64 \in Nat /\ (y \div 64) * 64 \in Nat
        /\ (x \div 64) * 64 <= (y \div 64) * 64
    BY <1>2
  <2> QED  BY <2>1 DEF Less
<1>3. /\ r.vram \in Nat /\ r.ram \in Nat /\ r.ssd \in Nat
      /\ s.vram \in Nat /\ s.ram \in Nat /\ s.ssd \in Nat
      /\ Reserves.vram \in Nat /\ Reserves.ram \in Nat /\ Reserves.ssd \in Nat
  BY PlannerAssumption DEF Reserve
<1>4. /\ u.vram = Less((r.vram \div 64) * 64, Reserves.vram)
      /\ u.ram = Less((r.ram \div 64) * 64, Reserves.ram)
      /\ u.ssd = Less((r.ssd \div 64) * 64, Reserves.ssd)
      /\ w.vram = Less((s.vram \div 64) * 64, Reserves.vram)
      /\ w.ram = Less((s.ram \div 64) * 64, Reserves.ram)
      /\ w.ssd = Less((s.ssd \div 64) * 64, Reserves.ssd)
  BY DEF Usable, Normalized, Resources
<1> HIDE DEF u, w
<1>5. u.vram <= w.vram /\ u.ram <= w.ram /\ u.ssd <= w.ssd
  BY <1>2, <1>3, <1>4
<1> QED  BY <1>1, <1>5 DEF u, w

(* With more usable memory the lanes that fitted still fit, so the first     *)
(* that fits is no slower.                                                   *)
LEMMA LanesImprove ==
  ASSUME NEW p \in Profile, NEW u \in Reserve, NEW w \in Reserve,
         u.vram <= w.vram, u.ram <= w.ram, u.ssd <= w.ssd
  PROVE  /\ LaneRank(LaneOf(p, w)) >= LaneRank(LaneOf(p, u))
         /\ LayersOf(p, w) >= LayersOf(p, u)
<1>1. PICK kv \in Nat : kv = KvMb(PlanContext(p))
  BY NeedsAreTyped
<1>2. /\ p.gpu \in Nat /\ p.ram \in Nat /\ p.mb \in Nat /\ p.layers \in Nat
      /\ u.vram \in Nat /\ u.ram \in Nat /\ u.ssd \in Nat
      /\ w.vram \in Nat /\ w.ram \in Nat /\ w.ssd \in Nat
  BY DEF Profile, Reserve
<1>3. p.layers # 0 =>
        /\ PartialLayers(p, u.vram) \in Nat /\ PartialLayers(p, w.vram) \in Nat
        /\ PartialLayers(p, u.vram) <= PartialLayers(p, w.vram)
        /\ PartialLayers(p, u.vram) <= p.layers
  BY <1>2, PartialLayersGrow
<1>4. /\ LaneRank("GpuFast") = 3 /\ LaneRank("RamBalanced") = 2
      /\ LaneRank("CpuSafe") = 1 /\ LaneRank("Reject") = 0
  BY DEF LaneRank
<1>5. ASSUME NEW x \in {u, w}
      PROVE  \/ LaneOf(p, x) = "GpuFast" /\ LayersOf(p, x) = p.layers
             \/ LaneOf(p, x) = "RamBalanced" /\ LayersOf(p, x) = PartialLayers(p, x.vram)
             \/ LaneOf(p, x) \in {"CpuSafe", "Reject"} /\ LayersOf(p, x) = 0
  BY DEF LaneOf, LayersOf
<1>6. CASE LaneOf(p, u) = "Reject"
  BY <1>2, <1>3, <1>4, <1>5, <1>6 DEF LaneOf
<1>7. CASE LaneOf(p, u) = "CpuSafe"
  <2>1. LaneOf(p, w) # "Reject" /\ p.layers # 0
    BY <1>1, <1>2, <1>7 DEF LaneOf
  <2> QED  BY <1>2, <1>3, <1>4, <1>5, <1>7, <2>1
<1>8. CASE LaneOf(p, u) = "RamBalanced"
  <2>1. LaneOf(p, w) \in {"RamBalanced", "GpuFast"} /\ p.layers # 0
    BY <1>1, <1>2, <1>8 DEF LaneOf
  <2> QED  BY <1>2, <1>3, <1>4, <1>5, <1>8, <2>1
<1>9. CASE LaneOf(p, u) = "GpuFast"
  <2>1. LaneOf(p, w) = "GpuFast" /\ p.layers # 0
    <3> DEFINE need == p.gpu + kv + ComputeMb
    <3>1. need \in Nat /\ need <= u.vram /\ p.layers \notin {0, 999}
      BY <1>1, <1>2, <1>9 DEF LaneOf, ComputeMb
    <3>2. need <= w.vram
      BY <1>2, <3>1
    <3> QED  BY <1>1, <3>1, <3>2 DEF LaneOf
  <2> QED  BY <1>2, <1>4, <1>5, <1>9, <2>1
<1> QED  BY <1>5, <1>6, <1>7, <1>8, <1>9

(* For the profile of any plan, more free memory makes no worse a plan.      *)
LEMMA PInvMeansMoreMemoryNeverHurts == PInv => MoreMemoryNeverHurts
<1> SUFFICES ASSUME PInv, planned # NoPlan,
                    NEW r \in [vram : VramFree, ram : RamFree, ssd : SsdFree],
                    r.vram >= free.vram, r.ram >= free.ram, r.ssd >= free.ssd
             PROVE  /\ LaneRank(Plan(planned.for, Resources(r)).lane)
                         >= LaneRank(Plan(planned.for, Resources(free)).lane)
                    /\ Plan(planned.for, Resources(r)).layers
                         >= Plan(planned.for, Resources(free)).layers
  BY DEF MoreMemoryNeverHurts
<1>1. planned.for \in Profile
  BY PlansFitTheirLane DEF PInv, LanesFit
<1>2. r \in Reserve /\ free \in Reserve
  BY PlannerAssumption DEF PInv, Reserve
<1>3. free.vram <= r.vram /\ free.ram <= r.ram /\ free.ssd <= r.ssd
  BY <1>2 DEF Reserve
<1>4. PICK u \in Reserve, w \in Reserve :
        /\ u = Usable(Normalized(Resources(free))) /\ w = Usable(Normalized(Resources(r)))
        /\ u.vram <= w.vram /\ u.ram <= w.ram /\ u.ssd <= w.ssd
  BY <1>2, <1>3, UsableGrows
<1> QED  BY <1>1, <1>4, LanesImprove, LaneAndLayers

(* In every execution more free memory never makes the plan of a profile     *)
(* worse, neither its lane nor its layers on the GPU.                        *)
THEOREM PlannerMoreMemoryNeverHurts == PLSpec => []MoreMemoryNeverHurts
<1>1. PLInit => PInv
  BY InitEstablishesPInv
<1>2. PInv /\ [PLNext]_plVars => PInv'
  BY NextPreservesPInv
<1>3. PInv => MoreMemoryNeverHurts
  BY PInvMeansMoreMemoryNeverHurts
<1> QED  BY <1>1, <1>2, <1>3, PTL DEF PLSpec

-----------------------------------------------------------------------------
(***************************************************************************)
(* The monitor: cooldowns that double.                                     *)
(***************************************************************************)

(* What doubling a cooldown does to the power that bounds it.  tlapm has no  *)
(* rule for powers; the number of subsets of an interval gives it this one.  *)
LEMMA PowersDouble ==
  ASSUME NEW n \in Nat
  PROVE  2 ^ n \in Nat /\ 2 ^ (n + 1) = 2 * 2 ^ n
<1> DEFINE S == 1..n
           T == SUBSET S
           A == SUBSET (1..(n + 1))
           B == A \ T
           f == [X \in T |-> X \cup {n + 1}]
<1>1. IsFiniteSet(S) /\ Cardinality(S) = n /\ IsFiniteSet(1..(n + 1))
      /\ Cardinality(1..(n + 1)) = n + 1
  BY FS_Interval
<1>2. IsFiniteSet(T) /\ Cardinality(T) = 2 ^ n
  BY <1>1, FS_SUBSET
<1>3. Cardinality(A) = 2 ^ (n + 1)
  BY <1>1, FS_SUBSET
<1>4. f \in Bijection(T, B)
  <2>1. f \in [T -> B]
    OBVIOUS
  <2>2. ASSUME NEW X \in T, NEW Y \in T, f[X] = f[Y]
        PROVE  X = Y
    <3>1. n + 1 \notin X /\ n + 1 \notin Y
      OBVIOUS
    <3>2. X \cup {n + 1} = Y \cup {n + 1}
      BY <2>2
    <3> QED  BY <3>1, <3>2
  <2>3. ASSUME NEW Z \in B
        PROVE  \E X \in T : f[X] = Z
    <3>1. n + 1 \in Z
      OBVIOUS
    <3>2. Z \ {n + 1} \in T
      OBVIOUS
    <3>3. (Z \ {n + 1}) \cup {n + 1} = Z
      BY <3>1
    <3> QED  BY <3>2, <3>3
  <2> HIDE DEF f, T, B
  <2> QED  BY <2>1, <2>2, <2>3 DEF Bijection, Injection, Surjection, IsInjective
<1>5. IsFiniteSet(B) /\ Cardinality(B) = 2 ^ n
  <2>1. ExistsBijection(T, B)
    BY <1>4 DEF ExistsBijection
  <2> HIDE DEF T, B
  <2> QED  BY <1>2, <2>1, FS_Bijection
<1>6. A = T \cup B /\ T \cap B = {}
  OBVIOUS
<1> HIDE DEF A, T, B
<1>7. Cardinality(A) = Cardinality(T) + Cardinality(B) - Cardinality({})
  BY <1>2, <1>5, <1>6, FS_Union
<1>8. 2 ^ n \in Nat
  BY <1>2, FS_CardinalityType
<1> QED  BY <1>2, <1>3, <1>5, <1>7, <1>8, FS_EmptySet

(* The wait a trigger owes after n firings: n doublings of the base.         *)
Wait(n) == BaseCooldown * 2 ^ n

(* NextCooldown doubles what a trigger waits. *)
LEMMA WaitsDouble ==
  ASSUME NEW n \in Nat
  PROVE  /\ Wait(n) \in Nat /\ Wait(n + 1) = 2 * Wait(n)
         /\ Wait(1) = 2 * BaseCooldown
<1>1. PICK p \in Nat : p = 2 ^ n
  BY PowersDouble
<1>2. 2 ^ (n + 1) = 2 * p
  BY <1>1, PowersDouble
<1>3. BaseCooldown \in Nat
  BY MonitoringAssumption
<1>4. BaseCooldown * p \in Nat /\ BaseCooldown * (2 * p) = 2 * (BaseCooldown * p)
  BY <1>3
<1>5. 2 ^ 1 = 2
  <2>1. 2 ^ 0 = 1
    <3>1. Cardinality(SUBSET {}) = 2 ^ 0
      BY FS_EmptySet, FS_SUBSET
    <3>2. SUBSET {} = {{}}
      OBVIOUS
    <3> QED  BY <3>1, <3>2, FS_Singleton
  <2>2. 2 ^ (0 + 1) = 2 * 2 ^ 0
    BY PowersDouble
  <2> QED  BY <2>1, <2>2
<1> QED  BY <1>1, <1>2, <1>3, <1>4, <1>5 DEF Wait

Firings == [count : Nat, last : Nat, gap : Nat]

(* The cooldown of a trigger that fired n times is what n doublings make of  *)
(* the base, or the maximum.                                                 *)
BackedOff(t) ==
  fired[t].count > 0 =>
    cooldown[t] >= Wait(fired[t].count) \/ cooldown[t] >= MaxCooldown

GapLong(f) == f.count > 1 => f.gap >= Wait(f.count - 1) \/ f.gap >= MaxCooldown

MonitorTypes ==
  /\ now \in Nat
  /\ cooldown \in [Triggers -> Nat]
  /\ fired \in [Triggers -> Firings] /\ evictions \in Firings
  /\ \A t \in Triggers : fired[t].last <= now
  /\ evictions.last <= now

(* The inductive invariant: between two firings the cooldown is the bound    *)
(* that the next gap will have to keep.                                      *)
FInv ==
  /\ MonitorTypes
  /\ \A t \in Triggers : BackedOff(t) /\ GapLong(fired[t])
  /\ evictions.count > 1 => evictions.gap >= EvictPause

(* record_trigger once more: the count goes up by one, the gap is the time   *)
(* since the last firing.                                                    *)
LEMMA AgainCounts ==
  ASSUME NEW f \in Firings, now \in Nat, f.last <= now
  PROVE  /\ Again(f) \in Firings
         /\ Again(f).count = f.count + 1 /\ Again(f).last = now
         /\ f.count > 0 => Again(f).gap = now - f.last
<1>1. f.count \in Nat /\ f.last \in Nat
  BY DEF Firings
<1>2. (IF f.count = 0 THEN 0 ELSE now - f.last) \in Nat
  BY <1>1
<1> QED  BY <1>1, <1>2 DEF Again, Firings

(* Nothing has fired at first.                                               *)
LEMMA InitEstablishesFInv == MOInit => FInv
<1> SUFFICES ASSUME MOInit PROVE FInv
  OBVIOUS
<1>1. Never \in Firings /\ Never.count = 0 /\ Never.last = 0
  BY DEF Never, Firings
<1>2. \A t \in Triggers : fired[t] = Never /\ evictions = Never /\ now = 0
  BY DEF MOInit
<1>3. MonitorTypes
  BY <1>1 DEF MOInit, MonitorTypes
<1>4. evictions.count = 0
  BY <1>1 DEF MOInit
<1> QED  BY <1>1, <1>2, <1>3, <1>4 DEF FInv, BackedOff, GapLong

(* evaluate fires a trigger only when its cooldown is over, and doubles the  *)
(* cooldown with the count.                                                  *)
LEMMA EvaluateBacksOff ==
  ASSUME FInv, Evaluate
  PROVE  FInv'
<1>1. now \in Nat /\ UNCHANGED <<now, evictions>>
  BY DEF FInv, MonitorTypes, Evaluate
<1>2. ASSUME NEW t \in Triggers
      PROVE  /\ cooldown'[t] \in Nat /\ fired'[t] \in Firings
             /\ fired'[t].last <= now
             /\ BackedOff(t)' /\ GapLong(fired[t])'
  <2>1. PICK f \in Firings, c \in Nat : f = fired[t] /\ c = cooldown[t]
    BY <1>2 DEF FInv, MonitorTypes
  <2>2. /\ f.last <= now /\ f.count \in Nat /\ f.last \in Nat /\ f.gap \in Nat
        /\ f.count > 0 => c >= Wait(f.count) \/ c >= MaxCooldown
        /\ GapLong(f)
    BY <1>2, <2>1 DEF FInv, MonitorTypes, BackedOff, Firings
  <2>3. CASE t \in Crossed /\ CanTrigger(t)
    <3>1. PICK g \in Firings, d \in Nat : g = fired'[t] /\ d = cooldown'[t]
          /\ g = Again(f) /\ d = NextCooldown(t)
      <4>1. fired'[t] = Again(f) /\ cooldown'[t] = NextCooldown(t)
        BY <1>2, <2>1, <2>3 DEF Evaluate
      <4>2. Again(f) \in Firings
        BY <1>1, <2>2, AgainCounts
      <4>3. NextCooldown(t) \in Nat
        BY <2>1, MonitoringAssumption DEF NextCooldown
      <4> QED  BY <4>1, <4>2, <4>3
    <3>2. /\ g.count = f.count + 1 /\ g.last = now
          /\ f.count > 0 => g.gap = now - f.last
      BY <1>1, <2>2, <3>1, AgainCounts
    <3>3. f.count > 0 => now - f.last >= c
      BY <2>1, <2>2, <2>3 DEF CanTrigger
    <3>4. d = LET current == IF f.count = 0 THEN BaseCooldown ELSE c
              IN IF 2 * current < MaxCooldown THEN 2 * current ELSE MaxCooldown
      BY <2>1, <3>1 DEF NextCooldown
    <3>5. /\ Wait(f.count) \in Nat /\ Wait(f.count + 1) = 2 * Wait(f.count)
          /\ Wait(1) = 2 * BaseCooldown
          /\ BaseCooldown \in Nat /\ MaxCooldown \in Nat
      BY <2>2, WaitsDouble, MonitoringAssumption
    <3>6. d >= Wait(g.count) \/ d >= MaxCooldown
      <4>1. CASE f.count = 0
        <5>1. g.count = 1
          BY <3>2, <4>1
        <5>2. Wait(g.count) = 2 * BaseCooldown
          BY <3>5, <5>1
        <5> QED  BY <3>4, <3>5, <4>1, <5>2
      <4>2. CASE f.count > 0
        <5>1. Wait(g.count) = 2 * Wait(f.count)
          BY <3>2, <3>5
        <5> QED  BY <2>2, <3>4, <3>5, <4>2, <5>1
      <4> QED  BY <2>2, <4>1, <4>2
    <3>7. GapLong(g)
      <4>1. SUFFICES ASSUME g.count > 1
                     PROVE  g.gap >= Wait(g.count - 1) \/ g.gap >= MaxCooldown
        BY DEF GapLong
      <4>2. f.count > 0 /\ g.count - 1 = f.count
        BY <2>2, <3>2, <4>1
      <4>3. g.gap >= c
        BY <3>2, <3>3, <4>2
      <4>4. Wait(g.count - 1) = Wait(f.count) /\ g.gap \in Nat
        BY <3>1, <4>2 DEF Firings
      <4> QED  BY <2>2, <3>5, <4>2, <4>3, <4>4
    <3>8. g.last <= now
      BY <1>1, <3>2
    <3> QED  BY <1>2, <3>1, <3>6, <3>7, <3>8 DEF BackedOff, GapLong
  <2>4. CASE ~(t \in Crossed /\ CanTrigger(t))
    <3>1. fired'[t] = f /\ cooldown'[t] = c
      BY <1>2, <2>1, <2>4 DEF Evaluate
    <3> QED  BY <2>1, <2>2, <3>1 DEF BackedOff, GapLong
  <2> QED  BY <2>3, <2>4
<1>3. MonitorTypes'
  <2>1. cooldown' \in [Triggers -> Nat] /\ fired' \in [Triggers -> Firings]
    BY <1>2 DEF Evaluate
  <2> QED  BY <1>1, <1>2, <2>1 DEF FInv, MonitorTypes
<1> QED  BY <1>1, <1>2, <1>3 DEF FInv

(* TriggerController::evaluate: a second eviction waits for the pause.       *)
LEMMA EvictionsPause ==
  ASSUME FInv, ControlEvictions
  PROVE  FInv'
<1>1. UNCHANGED <<now, cooldown, fired>> /\ now \in Nat /\ EvictPause \in Nat
  BY MonitoringAssumption DEF FInv, MonitorTypes, ControlEvictions
<1>2. PICK f \in Firings : f = evictions /\ f.last <= now
  BY DEF FInv, MonitorTypes
<1>3. evictions' \in Firings /\ evictions'.last <= now
      /\ (evictions'.count > 1 => evictions'.gap >= EvictPause)
  <2>1. CASE evictions' = evictions
    BY <1>2, <2>1 DEF FInv
  <2>2. CASE evictions' = Again(f) /\ (f.count = 0 \/ now - f.last >= EvictPause)
    <3>1. PICK g \in Firings : /\ g = evictions' /\ g.count = f.count + 1 /\ g.last = now
                               /\ f.count > 0 => g.gap = now - f.last
      BY <1>1, <1>2, <2>2, AgainCounts
    <3>2. f.count \in Nat
      BY DEF Firings
    <3> QED  BY <1>1, <2>2, <3>1, <3>2
  <2> QED  BY <1>2, <2>1, <2>2 DEF ControlEvictions
<1> QED  BY <1>1, <1>3 DEF FInv, MonitorTypes, BackedOff, GapLong

(* Time that passes and measurements that arrive shorten no wait.            *)
LEMMA NextPreservesFInv ==
  ASSUME FInv, [MONext]_moVars
  PROVE  FInv'
<1>1. CASE Evaluate
  BY <1>1, EvaluateBacksOff
<1>2. CASE ControlEvictions
  BY <1>2, EvictionsPause
<1>3. CASE Advance
  <2>1. UNCHANGED <<cooldown, fired, evictions>> /\ now' = now + 1
    BY <1>3 DEF Advance
  <2>2. ASSUME NEW f \in Firings, now \in Nat, f.last <= now
        PROVE  f.last <= now + 1
    <3>1. f.last \in Nat
      BY DEF Firings
    <3> QED  BY <2>2, <3>1
  <2>3. MonitorTypes'
    BY <2>1, <2>2 DEF FInv, MonitorTypes
  <2> QED  BY <2>1, <2>3 DEF FInv, BackedOff, GapLong
<1>4. CASE CaptureSnapshot \/ UpdateReported \/ UNCHANGED moVars
  <2>1. UNCHANGED <<now, cooldown, fired, evictions>>
    BY <1>4 DEF CaptureSnapshot, UpdateReported, moVars
  <2> QED  BY <2>1 DEF FInv, MonitorTypes, BackedOff, GapLong
<1> QED  BY <1>1, <1>2, <1>3, <1>4 DEF MONext

(* In every execution a trigger that has fired n times waits 2^n base        *)
(* cooldowns, at most the maximum, before it fires again, and two evictions  *)
(* are no closer than the pause.                                             *)
THEOREM MonitorFiringsBackOff == MOSpec => []FiringsBackOff
<1>1. MOInit => FInv
  BY InitEstablishesFInv
<1>2. FInv /\ [MONext]_moVars => FInv'
  BY NextPreservesFInv
<1>3. FInv => FiringsBackOff
  BY DEF FInv, GapLong, Wait, FiringsBackOff
<1> QED  BY <1>1, <1>2, <1>3, PTL DEF MOSpec

-----------------------------------------------------------------------------
(***************************************************************************)
(* The catalog: a scan, its result and the starts from it.                 *)
(***************************************************************************)

(* What an offer says of a path that has not changed since: the header that  *)
(* is there, and the hash of a file below a root or what a manifest claims   *)
(* of a blob, good only if that is what is there.                            *)
Readable(bytes) == bytes # Absent /\ Inspects(bytes)

Matches(x) ==
  /\ onDisk[x.path] # Absent
  /\ x.digest = onDisk[x.path] /\ x.size = BytesIn[x.digest]

OfClaim(x, m) == x.path = m.blob /\ x.digest = m.digest /\ x.size = m.size

AsHashed(x) ==
  /\ x.good => Matches(x)
  /\ \/ x.good
     \/ \E m \in Claims : OfClaim(x, m)

AsOffered(o) ==
  LET bytes == onDisk[o.path] IN
  /\ o.family = IF Readable(bytes) THEN FamilyOf(bytes) ELSE Absent
  /\ o.context = IF Readable(bytes) THEN ContextOf(bytes) ELSE Absent
  /\ o.available => Readable(bytes) /\ Matches(o)
  /\ \/ Matches(o) /\ (Readable(bytes) => o.available)
     \/ \E m \in Claims : OfClaim(o, m)

(* And one that could be read is good if that is what is there.              *)
Confirmed(o) == Matches(o) /\ Readable(onDisk[o.path]) => o.available

CatalogTypes ==
  /\ onDisk \in [Paths -> ModelBytes \cup {Absent}]
  /\ turn \in 0..4 /\ listed \in BOOLEAN
  /\ turn = 0 => offers = {}
  /\ turn = 0 \/ ~listed => pending = {} /\ hashed = {}
  /\ \A x, y \in hashed : x = y

(* What the scan has in hand is what is on disk, for every path that has not *)
(* changed since the scan began.                                             *)
InHand ==
  /\ \A x \in pending :
       /\ x.blob \in Paths
       /\ turn = 4 => x \in Claims
       /\ turn # 4 /\ x.blob \notin touched =>
            onDisk[x.blob] # Absent /\ x.size = BytesIn[onDisk[x.blob]]
  /\ \A x \in hashed : x.path \in Paths /\ (x.path \notin touched => AsHashed(x))
  /\ \A o \in offers : o.path \in Paths /\ (o.path \notin touched => AsOffered(o))

NoneDoubted ==
  /\ \A x \in hashed : x.path \notin touched \cup failed => (Matches(x) => x.good)
  /\ \A o \in offers : o.path \notin touched \cup failed => Confirmed(o)

(* And every file below a root that was read is on its way or offered.       *)
Looked(p) ==
  \E i \in 1..3 : SourceAt[p] = ScanOrder[i] /\ (i < turn \/ (i = turn /\ listed))

OnItsWay(p) ==
  /\ SourceAt[p] = ScanOrder[turn]
  /\ \/ \E x \in pending : x.blob = p
     \/ \E x \in hashed : x.path = p /\ x.digest = onDisk[p]

OfferedIn(catalog, p) == \E o \in catalog : o.path = p /\ o.digest = onDisk[p]

NoneOverlooked ==
  turn # 0 =>
    \A p \in Paths \ touched :
      onDisk[p] # Absent /\ Looked(p) /\ SourceAt[p] \notin failed =>
        OnItsWay(p) \/ OfferedIn(offers, p)

(* The same of the catalog that was published. *)
Published ==
  /\ \A o \in known : o.path \in Paths /\ (o.path \notin stale => AsOffered(o))
  /\ \A o \in known : o.path \notin stale \cup lostRoots => Confirmed(o)
  /\ \A p \in Paths \ stale :
       onDisk[p] # Absent /\ SourceAt[p] \notin lostRoots \cup {"Ollama"} =>
         OfferedIn(known, p)

CInv ==
  /\ CatalogTypes /\ InHand /\ NoneDoubted /\ NoneOverlooked /\ Published
  /\ StartedIsAsked

(* start_location takes the first of the locations in their order.           *)
LEMMA StartLocationIsOne ==
  ASSUME NEW d, Of(d) # {}, \A o \in Of(d) : o.path \in Paths
  PROVE  \E o \in Of(d) : o.path = StartLocation(d)
<1> DEFINE T == {Rank[o.path] : o \in Of(d)}
<1>1. T \subseteq Nat /\ T # {}
  BY CatalogAssumption
<1>2. \E x \in T : \A y \in T : ~(<<y, x>> \in OpToRel(<, Nat))
  BY <1>1, NatLessThanWellFounded, WFMin
<1>3. PICK x \in T : \A y \in T : ~(y < x)
  BY <1>1, <1>2 DEF OpToRel
<1>4. PICK b \in Of(d) : x = Rank[b.path]
  OBVIOUS
<1>5. ASSUME NEW o \in Of(d) PROVE Rank[b.path] <= Rank[o.path]
  <2>1. Rank[o.path] \in T /\ Rank[o.path] \in Nat /\ Rank[b.path] \in Nat
    BY CatalogAssumption
  <2>2. ~(Rank[o.path] < x)
    BY <1>3, <2>1
  <2> QED  BY <1>4, <2>1, <2>2
<1>6. b.path \in {o.path : o \in Of(d)}
  OBVIOUS
<1>7. \E p \in {o.path : o \in Of(d)} : \A o \in Of(d) : Rank[p] <= Rank[o.path]
  BY <1>5, <1>6
<1>8. StartLocation(d) \in {o.path : o \in Of(d)}
  BY <1>7 DEF StartLocation
<1> QED  BY <1>8

(* A start by id, from the catalog: its location is one of the digest's, and *)
(* available there.                                                          *)
LEMMA StartsWhatIsAsked ==
  ASSUME CInv, StartModel
  PROVE  StartedIsAsked'
<1>1. PICK d : /\ Startable(d)
               /\ LET p == StartLocation(d) IN
                  started' = [ask |-> d, loads |-> onDisk[p], fresh |-> p \notin stale,
                              settled |-> \A o \in Of(d) : o.path \notin stale,
                              paged |-> PagedSupported(d)]
  BY DEF StartModel
<1>2. ASSUME NEW o \in Of(d), o.path \notin stale
      PROVE  /\ onDisk[o.path] = d /\ Inspects(d)
             /\ o.family = FamilyOf(d)
  <2>1. o \in known /\ o.digest = d /\ o.available
    BY <1>1 DEF Of, Startable
  <2>2. AsOffered(o)
    BY <1>2, <2>1 DEF CInv, Published
  <2>3. Readable(onDisk[o.path]) /\ onDisk[o.path] = d
    BY <2>1, <2>2 DEF AsOffered, Matches
  <2> QED  BY <2>2, <2>3 DEF AsOffered, Readable
<1>3. PICK o \in Of(d) : o.path = StartLocation(d)
  <2>1. \A x \in Of(d) : x.path \in Paths
    BY DEF CInv, Published, Of
  <2> QED  BY <1>1, <2>1, StartLocationIsOne DEF Startable
<1>4. ASSUME started'.fresh
      PROVE  /\ started'.loads = started'.ask /\ Inspects(started'.loads)
             /\ started'.loads = d
  BY <1>1, <1>2, <1>3, <1>4
<1>5. ASSUME started'.paged, started'.settled
      PROVE  FamilyOf(d) = "qwen2"
  BY <1>1, <1>2, <1>5 DEF PagedSupported
<1> QED  BY <1>4, <1>5 DEF StartedIsAsked, Inspects, FamilyOf, Stated

(* Before the first scan every path counts as changed.                       *)
LEMMA InitEstablishesCInv == MCatInit => CInv
<1> SUFFICES ASSUME MCatInit PROVE CInv
  OBVIOUS
<1> USE DEF MCatInit
<1>1. CatalogTypes
  <2>1. onDisk \in [Paths -> ModelBytes \cup {Absent}]
    BY CatalogAssumption
  <2>2. turn \in 0..4
    OBVIOUS
  <2>3. listed \in BOOLEAN
    OBVIOUS
  <2> QED  BY <2>1, <2>2, <2>3 DEF CatalogTypes
<1>2. InHand /\ NoneDoubted /\ NoneOverlooked
  BY DEF InHand, NoneDoubted, NoneOverlooked
<1>3. Published
  BY DEF Published
<1>4. StartedIsAsked
  BY DEF StartedIsAsked
<1> QED  BY <1>1, <1>2, <1>3, <1>4 DEF CInv

(* What is said of a path depends on the disk at this path only.             *)
LEMMA OtherPathsKeep ==
  ASSUME NEW p, onDisk'[p] = onDisk[p]
  PROVE  /\ \A x : x.path = p /\ AsHashed(x) => AsHashed(x)'
         /\ \A o : o.path = p /\ AsOffered(o) => AsOffered(o)'
         /\ \A o : o.path = p => Matches(o)' = Matches(o) /\ Confirmed(o)' = Confirmed(o)
<1>1. ASSUME NEW x, x.path = p
      PROVE  Matches(x)' <=> Matches(x)
  BY <1>1 DEF Matches
<1>2. Claims' = Claims /\ \A x, m : OfClaim(x, m)' <=> OfClaim(x, m)
  BY DEF Claims, OfClaim
<1>3. /\ Readable(onDisk[p])' = Readable(onDisk[p])
      /\ FamilyOf(onDisk[p])' = FamilyOf(onDisk[p])
      /\ ContextOf(onDisk[p])' = ContextOf(onDisk[p])
  BY DEF Readable, Inspects, ReadsValue, FamilyOf, ContextOf, Stated
<1>4. ASSUME NEW x, x.path = p, AsHashed(x) PROVE AsHashed(x)'
  BY <1>1, <1>2, <1>4 DEF AsHashed
<1>5. ASSUME NEW o, o.path = p, AsOffered(o) PROVE AsOffered(o)'
  BY <1>1, <1>2, <1>3, <1>5 DEF AsOffered
<1>6. ASSUME NEW o, o.path = p
      PROVE  Matches(o)' = Matches(o) /\ Confirmed(o)' = Confirmed(o)
  BY <1>1, <1>3, <1>6 DEF Confirmed, Matches
<1> QED  BY <1>4, <1>5, <1>6

(* A replaced file is a changed path: nothing is said of it any more.        *)
LEMMA ReplacedFilesCount ==
  ASSUME CInv, ReplaceFile
  PROVE  CInv'
<1>1. PICK p \in Paths, bytes \in ModelBytes \cup {Absent} :
        /\ onDisk' = [onDisk EXCEPT ![p] = bytes]
        /\ touched' = IF turn = 0 THEN {} ELSE touched \cup {p}
        /\ stale' = stale \cup {p}
  BY DEF ReplaceFile
<1>2. UNCHANGED <<turn, listed, pending, hashed, offers, failed, known, lostRoots, started>>
  BY DEF ReplaceFile, scanning
<1>3. onDisk \in [Paths -> ModelBytes \cup {Absent}]
  BY DEF CInv, CatalogTypes
<1>4. CatalogTypes'
  BY <1>1, <1>2 DEF CInv, CatalogTypes
<1>5. ASSUME NEW q \in Paths, q # p PROVE onDisk'[q] = onDisk[q]
  BY <1>1, <1>3, <1>5
<1>6. InHand' /\ NoneDoubted' /\ NoneOverlooked'
  <2>1. CASE turn = 0
    <3>1. pending = {} /\ hashed = {} /\ offers = {}
      BY <2>1 DEF CInv, CatalogTypes
    <3> QED  BY <1>2, <2>1, <3>1 DEF InHand, NoneDoubted, NoneOverlooked
  <2>2. CASE turn # 0
    <3>1. touched' = touched \cup {p}
      BY <1>1, <2>2
    <3>2. ASSUME NEW x \in pending
          PROVE  /\ x.blob \in Paths /\ (turn = 4 => x \in Claims)
                 /\ turn # 4 /\ x.blob \notin touched' =>
                      onDisk'[x.blob] # Absent /\ x.size = BytesIn[onDisk'[x.blob]]
      BY <1>5, <3>1 DEF CInv, InHand
    <3>3. ASSUME NEW x \in hashed
          PROVE  x.path \in Paths /\ (x.path \notin touched' => AsHashed(x)')
      BY <1>5, <3>1, OtherPathsKeep DEF CInv, InHand
    <3>4. ASSUME NEW o \in offers
          PROVE  o.path \in Paths /\ (o.path \notin touched' => AsOffered(o)')
      BY <1>5, <3>1, OtherPathsKeep DEF CInv, InHand
    <3>5. Claims' = Claims
      BY DEF Claims
    <3>6. InHand'
      BY <1>2, <3>2, <3>3, <3>4, <3>5 DEF InHand
    <3>7. NoneOverlooked'
      <4>1. ASSUME NEW q \in Paths \ touched', onDisk'[q] # Absent, Looked(q)',
                   SourceAt[q] \notin failed'
            PROVE  OnItsWay(q)' \/ OfferedIn(offers, q)'
        <5>1. onDisk'[q] = onDisk[q] /\ q \in Paths \ touched
          BY <1>5, <3>1, <4>1
        <5>2. Looked(q)
          BY <1>2, <4>1 DEF Looked
        <5>3. OnItsWay(q) \/ OfferedIn(offers, q)
          BY <1>2, <2>2, <4>1, <5>1, <5>2 DEF CInv, NoneOverlooked
        <5> QED  BY <1>2, <5>1, <5>3 DEF OnItsWay, OfferedIn
      <4> QED  BY <4>1 DEF NoneOverlooked
    <3>8. NoneDoubted'
      <4>1. ASSUME NEW x \in hashed, x.path \notin touched' \cup failed
            PROVE  Matches(x)' => x.good
        BY <1>5, <3>1, <4>1, OtherPathsKeep DEF CInv, InHand, NoneDoubted
      <4>2. ASSUME NEW o \in offers, o.path \notin touched' \cup failed
            PROVE  Confirmed(o)'
        BY <1>5, <3>1, <4>2, OtherPathsKeep DEF CInv, InHand, NoneDoubted
      <4> QED  BY <1>2, <4>1, <4>2 DEF NoneDoubted
    <3> QED  BY <3>6, <3>7, <3>8
  <2> QED  BY <2>1, <2>2
<1>7. Published'
  <2>1. ASSUME NEW o \in known', o.path \notin stale'
        PROVE  AsOffered(o)'
    BY <1>1, <1>2, <1>5, <2>1, OtherPathsKeep DEF CInv, Published
  <2>2. ASSUME NEW q \in Paths \ stale', onDisk'[q] # Absent,
               SourceAt[q] \notin lostRoots' \cup {"Ollama"}
        PROVE  OfferedIn(known, q)'
    <3>1. onDisk'[q] = onDisk[q] /\ q \in Paths \ stale
      BY <1>1, <1>5, <2>2
    <3>2. OfferedIn(known, q)
      BY <1>2, <2>2, <3>1 DEF CInv, Published
    <3> QED  BY <1>2, <3>1, <3>2 DEF OfferedIn
  <2>3. ASSUME NEW o \in known', o.path \notin stale' \cup lostRoots'
        PROVE  Confirmed(o)'
    BY <1>1, <1>2, <1>5, <2>3, OtherPathsKeep DEF CInv, Published
  <2> QED  BY <1>2, <2>1, <2>2, <2>3 DEF CInv, Published
<1>8. StartedIsAsked'
  BY <1>2 DEF CInv, StartedIsAsked
<1> QED  BY <1>4, <1>6, <1>7, <1>8 DEF CInv

(* The sources have four names. *)
LEMMA SourcesAreFour ==
  ASSUME NEW i \in 1..4, NEW j \in 1..4, ScanOrder[i] = ScanOrder[j]
  PROVE  i = j
<1>1. i \in {1, 2, 3, 4} /\ j \in {1, 2, 3, 4}
  OBVIOUS
<1> QED  BY <1>1 DEF ScanOrder

(* A step of the scan that leaves the catalog alone, and what is on disk.    *)
LEMMA PublishedStays ==
  ASSUME CInv, UNCHANGED <<onDisk, known, lostRoots, stale, started>>
  PROVE  Published' /\ StartedIsAsked'
<1>1. \A o : AsOffered(o)' <=> AsOffered(o)
  BY OtherPathsKeep DEF AsOffered, Matches, OfClaim, Claims
<1>2. \A o : Confirmed(o)' <=> Confirmed(o)
  BY OtherPathsKeep
<1> QED  BY <1>1, <1>2 DEF CInv, Published, OfferedIn, StartedIsAsked

(* What was in hand and is not doubted stays so when more is lost.           *)
LEMMA UndoubtedStay ==
  ASSUME NoneDoubted, UNCHANGED <<onDisk, offers, touched>>, failed \subseteq failed',
         hashed' \subseteq hashed
  PROVE  NoneDoubted'
<1>1. \A o : Confirmed(o)' = Confirmed(o) /\ Matches(o)' = Matches(o)
  BY OtherPathsKeep
<1> QED  BY <1>1 DEF NoneDoubted

(* A root is listed with the sizes that are there.                           *)
LEMMA ListingKeepsCInv ==
  ASSUME CInv, ListRoot \/ ListManifests
  PROVE  CInv'
<1>1. /\ turn \in 1..4 /\ ~listed /\ listed' = TRUE
      /\ UNCHANGED <<onDisk, turn, hashed, offers, known, lostRoots, stale, started, touched>>
  <2>1. turn \in 1..4
    BY DEF ListRoot, ListManifests
  <2>2. ~listed /\ listed' = TRUE
    BY DEF ListRoot, ListManifests
  <2> QED  BY <2>1, <2>2 DEF ListRoot, ListManifests, published
<1>2. pending = {} /\ hashed = {}
  BY <1>1 DEF CInv, CatalogTypes
<1>3. failed \subseteq failed'
  BY DEF ListRoot, ListManifests
<1>4. \/ /\ turn \in 1..3
         /\ pending' = {[blob |-> p, digest |-> Absent, size |-> BytesIn[onDisk[p]]] :
                        p \in {q \in Paths : SourceAt[q] = ScanOrder[turn] /\ onDisk[q] # Absent}}
      \/ turn = 4 /\ pending' = Claims
      \/ pending' = {} /\ ScanOrder[turn] \in failed'
  BY <1>2 DEF ListRoot, ListManifests, ScanOrder
<1>5. CatalogTypes'
  BY <1>1, <1>2 DEF CInv, CatalogTypes
<1>6. Claims' = Claims /\ \A m \in Claims : m.blob \in Paths
  BY ClaimsAssumption DEF Claims
<1>7. InHand'
  <2>1. ASSUME NEW x \in pending'
        PROVE  /\ x.blob \in Paths /\ (turn = 4 => x \in Claims)
               /\ turn # 4 /\ x.blob \notin touched =>
                    onDisk[x.blob] # Absent /\ x.size = BytesIn[onDisk[x.blob]]
    BY <1>4, <1>6, <2>1
  <2>2. \A o \in offers : o.path \in Paths /\ (o.path \notin touched => AsOffered(o)')
    BY <1>1, OtherPathsKeep DEF CInv, InHand
  <2> QED  BY <1>1, <1>2, <1>6, <2>1, <2>2 DEF InHand
<1>8. NoneOverlooked'
  <2>1. ASSUME NEW q \in Paths \ touched, onDisk[q] # Absent, Looked(q)', SourceAt[q] \notin failed'
        PROVE  OnItsWay(q)' \/ OfferedIn(offers, q)'
    <3>1. CASE Looked(q)
      <4>1. OfferedIn(offers, q)
        BY <1>1, <1>2, <1>3, <2>1, <3>1 DEF CInv, NoneOverlooked, OnItsWay
      <4> QED  BY <1>1, <4>1 DEF OfferedIn
    <3>2. CASE ~Looked(q)
      <4>1. turn \in 1..3 /\ SourceAt[q] = ScanOrder[turn]
        <5>1. PICK i \in 1..3 : SourceAt[q] = ScanOrder[i] /\ (i < turn \/ i = turn)
          BY <1>1, <2>1 DEF Looked
        <5>2. ~(i < turn)
          BY <3>2, <5>1 DEF Looked
        <5> QED  BY <5>1, <5>2
      <4>2. [blob |-> q, digest |-> Absent, size |-> BytesIn[onDisk[q]]] \in pending'
        BY <1>4, <2>1, <4>1
      <4> QED  BY <1>1, <4>1, <4>2 DEF OnItsWay
    <3> QED  BY <3>1, <3>2
  <2> QED  BY <1>1, <2>1 DEF NoneOverlooked
<1>9. NoneDoubted'
  BY <1>1, <1>3, UndoubtedStay DEF CInv
<1> QED  BY <1>1, <1>5, <1>7, <1>8, <1>9, PublishedStays DEF CInv

(* A file or a blob is hashed: the listed size, the hash of what is there.   *)
LEMMA HashingKeepsCInv ==
  ASSUME CInv, HashFile \/ HashBlob
  PROVE  CInv'
<1>1. /\ turn \in 1..4 /\ hashed = {}
      /\ UNCHANGED <<onDisk, turn, listed, offers, known, lostRoots, stale, started, touched>>
      /\ failed \subseteq failed'
  BY DEF HashFile, HashBlob, published
<1>2. PICK x \in pending :
        /\ pending' = pending \ {x}
        /\ \/ /\ turn \in 1..3
              /\ hashed' = IF onDisk[x.blob] = Absent THEN {}
                           ELSE {[path |-> x.blob, digest |-> onDisk[x.blob],
                                  size |-> x.size, good |-> TRUE]}
           \/ turn \in 1..3 /\ hashed' = {} /\ SourceAt[x.blob] \in failed'
           \/ /\ turn = 4
              /\ \E confirmed \in BOOLEAN :
                   /\ hashed' = {[path |-> x.blob, digest |-> x.digest, size |-> x.size,
                                  good |-> confirmed]}
                   /\ confirmed => /\ onDisk[x.blob] # Absent
                                   /\ onDisk[x.blob] = x.digest
                                   /\ BytesIn[onDisk[x.blob]] = x.size
                   /\ \/ x.blob \in failed'
                      \/ ~confirmed => ~ /\ onDisk[x.blob] # Absent
                                         /\ onDisk[x.blob] = x.digest
                                         /\ BytesIn[onDisk[x.blob]] = x.size
  BY <1>1 DEF HashFile, HashBlob
<1>3. CatalogTypes'
  <2>1. listed /\ turn # 0
    BY <1>1 DEF CInv, CatalogTypes
  <2>2. \A y, z \in hashed' : y = z
    BY <1>2
  <2> QED  BY <1>1, <2>1, <2>2 DEF CInv, CatalogTypes
<1>4. Claims' = Claims
  BY DEF Claims
<1>5. /\ x.blob \in Paths
      /\ turn = 4 => x \in Claims
      /\ turn # 4 /\ x.blob \notin touched =>
           onDisk[x.blob] # Absent /\ x.size = BytesIn[onDisk[x.blob]]
  BY DEF CInv, InHand
<1>6. InHand'
  <2>1. ASSUME NEW y \in hashed' PROVE y.path \in Paths /\ (y.path \notin touched => AsHashed(y)')
    <3>1. y.path = x.blob
      BY <1>2, <2>1
    <3>2. CASE turn = 4
      <4>1. OfClaim(y, x) /\ (y.good => Matches(y))
        BY <1>2, <2>1, <3>2 DEF OfClaim, Matches
      <4> QED  BY <1>1, <1>5, <3>1, <3>2, <4>1, OtherPathsKeep DEF AsHashed
    <3>3. CASE turn # 4
      <4>1. /\ onDisk[x.blob] # Absent /\ y.digest = onDisk[x.blob] /\ y.size = x.size /\ y.good
        BY <1>1, <1>2, <2>1, <3>3
      <4> QED  BY <1>1, <1>5, <3>1, <3>3, <4>1, OtherPathsKeep DEF AsHashed, Matches
    <3> QED  BY <3>2, <3>3
  <2>2. \A o \in offers : o.path \in Paths /\ (o.path \notin touched => AsOffered(o)')
    BY <1>1, OtherPathsKeep DEF CInv, InHand
  <2>3. pending' \subseteq pending
    BY <1>2
  <2> QED  BY <1>1, <1>4, <2>1, <2>2, <2>3 DEF CInv, InHand
<1>7. NoneOverlooked'
  <2>1. ASSUME NEW q \in Paths \ touched, onDisk[q] # Absent, Looked(q)', SourceAt[q] \notin failed'
        PROVE  OnItsWay(q)' \/ OfferedIn(offers, q)'
    <3>1. OnItsWay(q) \/ OfferedIn(offers, q)
      BY <1>1, <2>1 DEF CInv, NoneOverlooked, Looked
    <3>2. CASE OfferedIn(offers, q)
      BY <1>1, <3>2 DEF OfferedIn
    <3>3. CASE OnItsWay(q)
      <4>1. PICK y \in pending : y.blob = q
        BY <1>1, <3>3 DEF OnItsWay
      <4>2. SourceAt[q] = ScanOrder[turn]
        BY <3>3 DEF OnItsWay
      <4>3. CASE y # x
        <5>1. y \in pending'
          BY <1>2, <4>3
        <5> QED  BY <1>1, <4>1, <4>2, <5>1 DEF OnItsWay
      <4>4. CASE y = x
        <5>1. turn \in 1..3
          <6>1. PICK i \in 1..3 : SourceAt[q] = ScanOrder[i]
            BY <2>1 DEF Looked
          <6>2. i \in 1..4 /\ ScanOrder[i] = ScanOrder[turn]
            BY <4>2, <6>1
          <6>3. i = turn
            BY <1>1, <6>2, SourcesAreFour
          <6> QED  BY <6>3
        <5>2. PICK z \in hashed' : z.path = q /\ z.digest = onDisk[q]
          <6>1. x.blob = q /\ turn # 4
            BY <4>1, <4>4, <5>1
          <6>2. [path |-> q, digest |-> onDisk[q], size |-> x.size, good |-> TRUE] \in hashed'
            BY <1>2, <2>1, <6>1
          <6> QED  BY <6>2
        <5> QED  BY <1>1, <4>2, <5>2 DEF OnItsWay
      <4> QED  BY <4>3, <4>4
    <3> QED  BY <3>1, <3>2, <3>3
  <2> QED  BY <1>1, <2>1 DEF NoneOverlooked
<1>8. NoneDoubted'
  <2>1. \A o : Confirmed(o)' = Confirmed(o) /\ Matches(o)' = Matches(o)
    BY <1>1, OtherPathsKeep
  <2>2. ASSUME NEW y \in hashed', y.path \notin failed', Matches(y)
        PROVE  y.good
    <3>1. y.path = x.blob
      BY <1>2, <2>2
    <3>2. CASE turn = 4
      BY <1>2, <2>2, <3>1, <3>2 DEF Matches
    <3>3. CASE turn # 4
      BY <1>1, <1>2, <2>2, <3>3
    <3> QED  BY <3>2, <3>3
  <2>3. \A o \in offers : o.path \notin touched \cup failed => Confirmed(o)
    BY DEF CInv, NoneDoubted
  <2> QED  BY <1>1, <2>1, <2>2, <2>3 DEF NoneDoubted
<1> QED  BY <1>1, <1>3, <1>6, <1>7, <1>8, PublishedStays DEF CInv

(* The header is read last: of an unchanged path, what is there is what was  *)
(* hashed.                                                                   *)
LEMMA AddingKeepsCInv ==
  ASSUME CInv, AddOffer
  PROVE  CInv'
<1>1. PICK x \in hashed : offers' = offers \cup {Metadata(x)}
  BY DEF AddOffer, Merge
<1>2. /\ hashed' = {}
      /\ UNCHANGED <<onDisk, turn, listed, pending, failed, known, lostRoots, stale, started,
                     touched>>
  BY DEF AddOffer, published
<1>3. CatalogTypes' /\ turn # 0
  BY <1>2 DEF CInv, CatalogTypes
<1>4. PICK o : o = Metadata(x)
  OBVIOUS
<1>5. /\ o.path = x.path /\ o.digest = x.digest /\ o.size = x.size
      /\ o.family = IF Readable(onDisk[o.path]) THEN FamilyOf(onDisk[o.path]) ELSE Absent
      /\ o.context = IF Readable(onDisk[o.path]) THEN ContextOf(onDisk[o.path]) ELSE Absent
      /\ o.available <=> Readable(onDisk[o.path]) /\ x.good
  BY <1>4 DEF Metadata, Readable
<1>6. o.path \in Paths /\ (o.path \notin touched => AsOffered(o))
  <2>1. ASSUME o.path \notin touched PROVE AsOffered(o)
    <3>1. AsHashed(x)
      BY <1>5, <2>1 DEF CInv, InHand
    <3>2. Matches(o) <=> Matches(x)
      BY <1>5 DEF Matches
    <3>3. \A m : OfClaim(o, m) <=> OfClaim(x, m)
      BY <1>5 DEF OfClaim
    <3> QED  BY <1>5, <3>1, <3>2, <3>3 DEF AsHashed, AsOffered
  <2> QED  BY <1>5, <2>1 DEF CInv, InHand
<1>7. InHand'
  <2>1. ASSUME NEW y \in offers' PROVE y.path \in Paths /\ (y.path \notin touched => AsOffered(y)')
    BY <1>1, <1>2, <1>4, <1>6, OtherPathsKeep DEF CInv, InHand
  <2>2. Claims' = Claims
    BY DEF Claims
  <2> QED  BY <1>2, <2>1, <2>2 DEF CInv, InHand
<1>8. NoneOverlooked'
  <2>1. ASSUME NEW q \in Paths \ touched, onDisk[q] # Absent, Looked(q)', SourceAt[q] \notin failed
        PROVE  OnItsWay(q)' \/ OfferedIn(offers, q)'
    <3>1. OnItsWay(q) \/ OfferedIn(offers, q)
      BY <1>2, <1>3, <2>1 DEF CInv, NoneOverlooked, Looked
    <3>2. CASE OfferedIn(offers, q)
      BY <1>1, <1>2, <3>2 DEF OfferedIn
    <3>3. CASE OnItsWay(q)
      <4>1. CASE \E y \in pending : y.blob = q
        BY <1>2, <3>3, <4>1 DEF OnItsWay
      <4>2. CASE \E y \in hashed : y.path = q /\ y.digest = onDisk[q]
        <5>1. x.path = q /\ x.digest = onDisk[q]
          BY <4>2 DEF CInv, CatalogTypes
        <5> QED  BY <1>1, <1>2, <1>4, <1>5, <5>1 DEF OfferedIn
      <4> QED  BY <3>3, <4>1, <4>2 DEF OnItsWay
    <3> QED  BY <3>1, <3>2, <3>3
  <2> QED  BY <1>2, <2>1 DEF NoneOverlooked
<1>9. NoneDoubted'
  <2>1. \A y : Confirmed(y)' = Confirmed(y)
    BY <1>2, OtherPathsKeep
  <2>2. ASSUME o.path \notin touched \cup failed PROVE Confirmed(o)
    <3>1. Matches(x) => x.good
      BY <1>5, <2>2 DEF CInv, NoneDoubted
    <3>2. Matches(o) <=> Matches(x)
      BY <1>5 DEF Matches
    <3> QED  BY <1>5, <3>1, <3>2 DEF Confirmed
  <2>3. \A y \in offers' : y.path \notin touched \cup failed => Confirmed(y)
    BY <1>1, <1>4, <2>2 DEF CInv, NoneDoubted
  <2> QED  BY <1>2, <2>1, <2>3 DEF NoneDoubted
<1> QED  BY <1>2, <1>3, <1>7, <1>8, <1>9, PublishedStays DEF CInv

(* Between the steps that look at files: a scan begins with nothing, goes on *)
(* to the next source when this one is done, and is published as it is.      *)
LEMMA TurnsKeepCInv ==
  ASSUME CInv, BeginScan \/ NextSource \/ Publish
  PROVE  CInv'
<1>1. UNCHANGED onDisk /\ Claims' = Claims
  BY DEF BeginScan, NextSource, Publish, Claims
<1>2. CASE BeginScan
  <2>1. /\ turn' = 1 /\ listed' = FALSE /\ offers' = {} /\ failed' = {} /\ touched' = {}
        /\ pending' = {} /\ hashed' = {}
        /\ UNCHANGED <<known, lostRoots, stale, started>>
    BY <1>2 DEF BeginScan, CInv, CatalogTypes, published
  <2>2. CatalogTypes'
    <3>1. turn' \in 0..4
      BY <2>1
    <3>2. listed' \in BOOLEAN
      BY <2>1
    <3> QED  BY <1>1, <2>1, <3>1, <3>2 DEF CInv, CatalogTypes
  <2>3. InHand' /\ NoneDoubted' /\ NoneOverlooked'
    BY <2>1 DEF InHand, NoneDoubted, NoneOverlooked, Looked
  <2> QED  BY <1>1, <2>1, <2>2, <2>3, PublishedStays DEF CInv
<1>3. CASE NextSource
  <2>1. /\ turn \in 1..3 /\ listed /\ turn' = turn + 1 /\ listed' = FALSE
        /\ pending = {} /\ hashed = {}
        /\ UNCHANGED <<pending, hashed, offers, failed, touched>>
        /\ UNCHANGED <<known, lostRoots, stale, started>>
    BY <1>3 DEF NextSource, published
  <2>2. CatalogTypes'
    <3>1. turn' \in 0..4
      BY <2>1
    <3>2. listed' \in BOOLEAN
      BY <2>1
    <3> QED  BY <1>1, <2>1, <3>1, <3>2 DEF CInv, CatalogTypes
  <2>3. InHand'
    BY <1>1, <2>1, OtherPathsKeep DEF CInv, InHand
  <2>4. NoneOverlooked'
    <3>1. ASSUME NEW q \in Paths \ touched, onDisk[q] # Absent, Looked(q)',
                 SourceAt[q] \notin failed
          PROVE  OfferedIn(offers, q)
      <4>1. Looked(q)
        BY <2>1, <3>1 DEF Looked
      <4>2. ~OnItsWay(q)
        BY <2>1 DEF OnItsWay
      <4> QED  BY <2>1, <3>1, <4>1, <4>2 DEF CInv, NoneOverlooked
    <3> QED  BY <1>1, <2>1, <3>1 DEF NoneOverlooked, OfferedIn
  <2>5. NoneDoubted'
    BY <1>1, <2>1, UndoubtedStay DEF CInv
  <2> QED  BY <1>1, <2>1, <2>2, <2>3, <2>4, <2>5, PublishedStays DEF CInv
<1>4. CASE Publish
  <2>1. /\ turn = 4 /\ pending = {} /\ hashed = {}
        /\ known' = offers /\ lostRoots' = failed /\ stale' = touched
        /\ turn' = 0 /\ listed' = FALSE /\ offers' = {}
        /\ UNCHANGED <<pending, hashed, started>>
    BY <1>4 DEF Publish
  <2>2. CatalogTypes'
    <3>1. turn' \in 0..4
      BY <2>1
    <3>2. listed' \in BOOLEAN
      BY <2>1
    <3> QED  BY <1>1, <2>1, <3>1, <3>2 DEF CInv, CatalogTypes
  <2>3. InHand' /\ NoneDoubted' /\ NoneOverlooked'
    BY <2>1 DEF InHand, NoneDoubted, NoneOverlooked
  <2>4. Published'
    <3>1. \A o \in known' : o.path \in Paths /\ (o.path \notin stale' => AsOffered(o)')
      BY <1>1, <2>1, OtherPathsKeep DEF CInv, InHand
    <3>2. ASSUME NEW q \in Paths \ touched, onDisk[q] # Absent,
                 SourceAt[q] \notin failed \cup {"Ollama"}
          PROVE  OfferedIn(offers, q)
      <4>1. PICK i \in 1..4 : SourceAt[q] = ScanOrder[i]
        BY CatalogAssumption
      <4>2. i \in 1..3
        <5>1. ScanOrder[4] = "Ollama"
          BY DEF ScanOrder
        <5>2. i # 4
          BY <3>2, <4>1, <5>1
        <5> QED  BY <5>2
      <4>3. Looked(q)
        BY <2>1, <4>1, <4>2 DEF Looked
      <4>4. ~OnItsWay(q)
        BY <2>1 DEF OnItsWay
      <4> QED  BY <2>1, <3>2, <4>3, <4>4 DEF CInv, NoneOverlooked
    <3>3. \A o \in known' : o.path \notin stale' \cup lostRoots' => Confirmed(o)'
      BY <1>1, <2>1, OtherPathsKeep DEF CInv, NoneDoubted
    <3> QED  BY <1>1, <2>1, <3>1, <3>2, <3>3 DEF Published, OfferedIn
  <2>5. StartedIsAsked'
    BY <2>1 DEF CInv, StartedIsAsked
  <2> QED  BY <2>2, <2>3, <2>4, <2>5 DEF CInv
<1> QED  BY <1>2, <1>3, <1>4

(* A start changes nothing of the catalog. *)
LEMMA StartingKeepsCInv ==
  ASSUME CInv, StartModel \/ StartByPath
  PROVE  CInv'
<1>1. UNCHANGED <<onDisk, turn, listed, pending, hashed, offers, failed, known, lostRoots,
                  stale, touched>>
  BY DEF StartModel, StartByPath, scanning
<1>2. \A x : AsHashed(x)' <=> AsHashed(x)
  BY <1>1, OtherPathsKeep DEF AsHashed, Matches, OfClaim, Claims
<1>3. \A o : AsOffered(o)' <=> AsOffered(o)
  BY <1>1, OtherPathsKeep DEF AsOffered, Matches, OfClaim, Claims
<1>4. CatalogTypes'
  BY <1>1 DEF CInv, CatalogTypes
<1>5. InHand'
  BY <1>1, <1>2, <1>3 DEF CInv, InHand, Claims
<1>6. NoneOverlooked'
  BY <1>1 DEF CInv, NoneOverlooked, Looked, OnItsWay, OfferedIn
<1>7. \A o : Confirmed(o)' = Confirmed(o)
  BY <1>1, OtherPathsKeep
<1>8. Published'
  BY <1>1, <1>3, <1>7 DEF CInv, Published, OfferedIn
<1>9. NoneDoubted'
  BY <1>1, UndoubtedStay DEF CInv
<1>10. StartedIsAsked'
  <2>1. CASE StartByPath
    <3>1. PICK p \in Paths : /\ Inspects(onDisk[p])
                             /\ started' = [ask |-> onDisk[p], loads |-> onDisk[p], fresh |-> TRUE,
                                            settled |-> TRUE, paged |-> FALSE]
      BY <2>1 DEF StartByPath
    <3>2. started'.loads = onDisk[p] /\ started'.ask = onDisk[p] /\ ~started'.paged
      BY <3>1
    <3> QED  BY <3>1, <3>2 DEF StartedIsAsked, Inspects
  <2> QED  BY <2>1, StartsWhatIsAsked
<1> QED  BY <1>4, <1>5, <1>6, <1>8, <1>9, <1>10 DEF CInv

(* Every step of the scan, of the disk and of a start. *)
LEMMA NextPreservesCInv ==
  ASSUME CInv, [MCatNext]_mcVars
  PROVE  CInv'
<1>1. CASE UNCHANGED mcVars
  <2>1. UNCHANGED <<onDisk, turn, listed, pending, hashed, offers, failed, known, lostRoots,
                    stale, touched, started>>
    BY <1>1 DEF mcVars
  <2>2. \A x : AsHashed(x)' <=> AsHashed(x)
    BY <2>1, OtherPathsKeep DEF AsHashed, Matches, OfClaim, Claims
  <2>3. Published' /\ StartedIsAsked'
    BY <2>1, PublishedStays
  <2>4. CatalogTypes'
    BY <2>1 DEF CInv, CatalogTypes
  <2>5. InHand'
    BY <2>1, <2>2, OtherPathsKeep DEF CInv, InHand, Claims
  <2>6. NoneOverlooked'
    BY <2>1 DEF CInv, NoneOverlooked, Looked, OnItsWay, OfferedIn
  <2>7. NoneDoubted'
    BY <2>1, UndoubtedStay DEF CInv
  <2> QED  BY <2>3, <2>4, <2>5, <2>6, <2>7 DEF CInv
<1>2. CASE MCatNext
  BY <1>2, TurnsKeepCInv, ListingKeepsCInv, HashingKeepsCInv, AddingKeepsCInv,
     ReplacedFilesCount, StartingKeepsCInv DEF MCatNext
<1> QED  BY <1>1, <1>2

(* In every execution a worker gets the bytes that were asked for.           *)
THEOREM CatalogStartsWhatIsAsked == MCatSpec => []StartedIsAsked
<1>1. MCatInit => CInv
  BY InitEstablishesCInv
<1>2. CInv /\ [MCatNext]_mcVars => CInv'
  BY NextPreservesCInv
<1>3. CInv => StartedIsAsked
  BY DEF CInv
<1> QED  BY <1>1, <1>2, <1>3, PTL DEF MCatSpec

(* Values that agree are not several. *)
LEMMA OneValueIsNoConflict ==
  ASSUME NEW S, NEW v, S \subseteq {v}
  PROVE  ~Several(S)
<1>1. S \ {Absent} = {} \/ S \ {Absent} = {v}
  OBVIOUS
<1>2. Cardinality(S \ {Absent}) = 0 \/ Cardinality(S \ {Absent}) = 1
  BY <1>1, FS_EmptySet, FS_Singleton
<1> QED  BY <1>2 DEF Several

(* With nothing changed, all offers of a good file's digest say the same and *)
(* are available: they are of files with these bytes, or of blobs that a     *)
(* manifest that does not contradict the file claims.                        *)
LEMMA CInvMeansGoodFilesStart == CInv => GoodFilesStart
<1> SUFFICES ASSUME CInv, stale = {}, NEW p \in Paths, NEW d, d = onDisk[p],
                    SourceAt[p] \notin lostRoots \cup {"Ollama"}, Readable(d),
                    \A m \in Claims : m.digest = d =>
                      /\ m.blob \notin lostRoots
                      /\ onDisk[m.blob] = d /\ m.size = BytesIn[d]
             PROVE  Startable(d)
  BY DEF GoodFilesStart, Readable
<1>1. PICK o \in known : o.path = p /\ o.digest = d
  BY DEF CInv, Published, OfferedIn, Readable
<1>2. ASSUME NEW x \in Of(d)
      PROVE  /\ x.available /\ x.size = BytesIn[d]
             /\ x.family = FamilyOf(d) /\ x.context = ContextOf(d)
  <2>1. AsOffered(x) /\ x.digest = d
    BY DEF CInv, Published, Of
  <2>2. Matches(x) /\ x.available
    <3>1. CASE Matches(x) /\ (Readable(onDisk[x.path]) => x.available)
      BY <2>1, <3>1 DEF Matches
    <3>2. ASSUME NEW m \in Claims, OfClaim(x, m)
          PROVE  Matches(x) /\ x.available
      <4>1. x.path = m.blob /\ m.digest = d /\ x.size = m.size
        BY <2>1, <3>2 DEF OfClaim
      <4>2. x.path \notin lostRoots /\ onDisk[x.path] = d /\ x.size = BytesIn[d]
        BY <4>1
      <4>3. Matches(x) /\ Readable(onDisk[x.path])
        BY <2>1, <4>2 DEF Matches, Readable
      <4>4. Confirmed(x)
        BY <2>1, <4>2 DEF CInv, Published, Of
      <4> QED  BY <4>3, <4>4 DEF Confirmed
    <3> QED  BY <2>1, <3>1, <3>2 DEF AsOffered
  <2> QED  BY <2>1, <2>2 DEF AsOffered, Matches
<1>3. /\ {x.size : x \in Of(d)} \subseteq {BytesIn[d]}
      /\ {x.family : x \in Of(d)} \subseteq {FamilyOf(d)}
      /\ {x.context : x \in Of(d)} \subseteq {ContextOf(d)}
  BY <1>2
<1>4. ~Conflict(d)
  BY <1>3, OneValueIsNoConflict DEF Conflict
<1>5. Of(d) # {}
  BY <1>1 DEF Of
<1> QED  BY <1>2, <1>4, <1>5 DEF Startable

(* In every execution what fails in one source keeps no other from           *)
(* delivering its models.                                                    *)
THEOREM CatalogGoodFilesStart == MCatSpec => []GoodFilesStart
<1>1. MCatInit => CInv
  BY InitEstablishesCInv
<1>2. CInv /\ [MCatNext]_mcVars => CInv'
  BY NextPreservesCInv
<1>3. CInv => GoodFilesStart
  BY CInvMeansGoodFilesStart
<1> QED  BY <1>1, <1>2, <1>3, PTL DEF MCatSpec

=============================================================================
