------------------------------- MODULE Analysis -------------------------------
(***************************************************************************)
(* Background analysis: the scheduler of jobs over closed windows          *)
(* (analysis/job.rs), the versioned proposals made from a window           *)
(* (policy.rs) and the gates a proposal passes (gates.rs).                 *)
(*                                                                         *)
(* The repository has no caller yet, so none is assumed: the scheduler     *)
(* takes any job and is asked at any time, next makes a proposal of any    *)
(* window, and evaluate judges any proposal beside any window, whether or  *)
(* not they belong together.                                               *)
(***************************************************************************)
EXTENDS Integers

CONSTANTS
  Windows,    \* aggregate windows: start, end, observations, models,
              \* savings, baseline, candidate, confidence (in percent)
  Intervals,  \* how often a kind of analysis is due
  LastTime, MaxVersions,  \* bounds
  NoVerdict

Kinds == DOMAIN Intervals

ASSUME AnalysisAssumption ==
  /\ \A w \in Windows :
       /\ {w.start, w.end, w.observations, w.models, w.baseline, w.candidate} \subseteq Nat
       /\ {w.savings, w.confidence} \subseteq Int
  /\ \A k \in Kinds : Intervals[k] \in Nat \ {0}
  /\ LastTime \in Nat /\ MaxVersions \in Nat

VARIABLES
  lastRun,    \* last_run_ms; a kind that never ran counts from 0
  runs,       \* the times at which a kind was due (history)
  submitted,  \* idempotency keys
  version,    \* last_version
  proposals,  \* what next returned
  verdict     \* what evaluate said last, and of what

anVars == <<lastRun, runs, submitted, version, proposals, verdict>>

ANInit ==
  /\ lastRun = [k \in Kinds |-> 0] /\ runs = [k \in Kinds |-> {}]
  /\ submitted = {} /\ version = 0 /\ proposals = {} /\ verdict = NoVerdict

-----------------------------------------------------------------------------
(* Seeded fault: a difference that wraps when the clock went back. *)
DueWrapping(k, now) == now < lastRun[k] \/ now - lastRun[k] >= Intervals[k]

(* now_ms is the caller's reading of the clock; readings may come in any     *)
(* order, and the difference saturates at 0.                                 *)
Due(k, now) == now - lastRun[k] >= Intervals[k]

TakeDue(now) ==
  LET due == {k \in Kinds : Due(k, now)} IN
  /\ lastRun' = [k \in Kinds |-> IF k \in due THEN now ELSE lastRun[k]]
  /\ runs' = [k \in Kinds |-> IF k \in due THEN runs[k] \cup {now} ELSE runs[k]]
  /\ UNCHANGED <<submitted, version, proposals, verdict>>

ValidWindow(w) == w.end > w.start /\ w.observations > 0 /\ w.confidence \in 0..100

IdempotencyKey(k, w) == <<k, w.start, w.end>>

(* The key leaves the counters out: a window that was measured again is a    *)
(* repetition.                                                               *)
Submit(k, w) ==
  /\ ValidWindow(w)
  /\ submitted' = submitted \cup {IdempotencyKey(k, w)}
  /\ UNCHANGED <<lastRun, runs, version, proposals, verdict>>

-----------------------------------------------------------------------------
(* The decode change is ((candidate / baseline) - 1) * 100 in f64, and 0     *)
(* without a baseline.  At the thresholds themselves 1.2 - 1 comes out below *)
(* a fifth and 1.1 - 1 above a tenth; every other quotient of times below    *)
(* 2^26 ms falls on its side.                                                *)
AboveTenth(w) == w.baseline > 0 /\ 10 * w.candidate >= 11 * w.baseline
AboveFifth(w) == w.baseline > 0 /\ 10 * w.candidate > 12 * w.baseline
NotSlower(w) == w.baseline = 0 \/ w.candidate <= w.baseline

(* The change, the confidence and the savings go into the proposal; the      *)
(* observations stay behind in the window.                                   *)
Proposal(v, w) ==
  [version  |-> v,
   cache    |-> IF w.savings >= 15 THEN 512 ELSE 256,
   prefetch |-> IF NotSlower(w) THEN 2 ELSE 1,
   window   |-> w]

Propose(w) ==
  /\ version < MaxVersions
  /\ version' = version + 1
  /\ proposals' = proposals \cup {Proposal(version', w)}
  /\ UNCHANGED <<lastRun, runs, submitted, verdict>>

(* Seeded fault: what is held for want of observations is not rolled back. *)
HoldFirst(w, p) ==
  IF w.observations < 30 \/ w.models < 2 THEN "hold"
  ELSE IF AboveFifth(p.window) THEN "rollback"
  ELSE IF p.window.confidence < 80 \/ p.window.savings < 15 \/ AboveTenth(p.window)
  THEN "hold" ELSE "promote"

(* PromotionGates::default and evaluate: observations of the window it is    *)
(* given, everything else of the proposal.                                   *)
Gates(w, p) ==
  IF AboveFifth(p.window) THEN "rollback"
  ELSE IF \/ w.observations < 30 \/ w.models < 2
          \/ p.window.confidence < 80 \/ p.window.savings < 15 \/ AboveTenth(p.window)
  THEN "hold" ELSE "promote"

Judge(w, p) ==
  /\ verdict' = [window |-> w, proposal |-> p, decision |-> Gates(w, p)]
  /\ UNCHANGED <<lastRun, runs, submitted, version, proposals>>

ANNext ==
  \/ \E now \in 0..LastTime : TakeDue(now)
  \/ \E k \in Kinds, w \in Windows : Submit(k, w)
  \/ \E w \in Windows : Propose(w)
  \/ \E w \in Windows, p \in proposals : Judge(w, p)

ANSpec == ANInit /\ [][ANNext]_anVars

-----------------------------------------------------------------------------
(* "Regression blockiert Promotion" (docs/COMPLETION-PLAN.md 105), from the  *)
(* window a proposal was made of, through its rounded numbers, to a verdict  *)
(* over another window: what is promoted was measured at most a tenth slower *)
(* than its baseline, where there was one, and asks for no more than its     *)
(* window allows; and what was measured to be more than a fifth slower is    *)
(* rolled back beside every window, however few observations that has.       *)
(* A window without a baseline has no regression to show and passes.         *)
MeasuredRegressionBlocks ==
  verdict # NoVerdict =>
    LET p == verdict.proposal
        w == p.window
    IN
    /\ verdict.decision = "promote" =>
         /\ w.baseline > 0 => 10 * w.candidate <= 11 * w.baseline
         /\ w.baseline > 0 /\ w.candidate > w.baseline => p.prefetch = 1
         /\ p.cache = 512
         /\ verdict.window.observations >= 30 /\ verdict.window.models >= 2
    /\ w.baseline > 0 /\ 10 * w.candidate > 12 * w.baseline => verdict.decision = "rollback"

(* A kind of analysis is due no more often than its interval, in whatever    *)
(* order its callers, background tasks, bring their readings of the clock    *)
(* (take_due, job.rs 82-95).                                                 *)
RunsAreSpaced ==
  \A k \in Kinds : \A s, t \in runs[k] : s < t => t - s >= Intervals[k]
=============================================================================
