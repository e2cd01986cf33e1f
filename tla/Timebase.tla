------------------------------ MODULE Timebase ------------------------------
(***************************************************************************)
(* The pacing planner of the simulation loop (timebase.rs) and the part of *)
(* the loop that calls it (loop_runner.rs): one action is one iteration,   *)
(* which sleeps until the wall clock reaches the simulation's, reads it,   *)
(* and plans how many fixed steps of physics to run.                       *)
(*                                                                         *)
(* All times are microseconds since the epoch of the loop.                 *)
(***************************************************************************)
EXTENDS Integers

CONSTANTS
    StepUs,             \* step_us: what one step of physics advances the clock
    GapThresholdUs,     \* gap_threshold_us: the most lateness that is replayed
    MaxCatchupSteps,    \* max_catchup_steps: the most steps of one iteration
    Top,                \* u64::MAX, where the counters saturate
    MaxCount,           \* u32::MAX, where gap_count saturates
    MaxWall             \* bound of the model: the last wall clock reading

ASSUME StepAssumption == StepUs \in Nat \ {0}
ASSUME ThresholdAssumption == GapThresholdUs \in Nat
ASSUME CatchupAssumption == MaxCatchupSteps \in Nat \ {0}
ASSUME TopAssumption == Top \in Nat /\ MaxCount \in Nat \ {0} /\ StepUs <= Top
ASSUME WallAssumption == MaxWall \in Nat /\ MaxWall <= Top

VARIABLES
    wall,               \* the wall clock as the last iteration read it
    simUs, discardedUs, stepsDone, catchupSteps,
    gapCount, maxGapUs, sessionInvalid

lossVars == <<gapCount, maxGapUs, sessionInvalid>>

vars == <<wall, simUs, discardedUs, stepsDone, catchupSteps, lossVars>>

------------------------------------------------------------------------------
AtLeast(lo, x) == IF x < lo THEN lo ELSE x

AtMost(hi, x) == IF x > hi THEN hi ELSE x

\* Unsigned arithmetic that saturates.
SatSub(x, y) == AtLeast(0, x - y)

Sat(x) == AtMost(Top, x)

\* The steps the gap threshold can pay for.
BudgetSteps == AtLeast(1, GapThresholdUs \div StepUs)

Allowance == AtMost(BudgetSteps, MaxCatchupSteps)

IntegratedUs == SatSub(simUs, discardedUs)

------------------------------------------------------------------------------
(* decide: what to do when the wall clock reads w.                         *)

Deficit(w) == SatSub(w, simUs)

Gap(w) == Deficit(w) > GapThresholdUs

\* At least one step, at most the allowance.
Steps(w) == AtLeast(1, AtMost(Allowance, Deficit(w) \div StepUs))

\* Mutant of Lost: a residue below the threshold is thrown away as well.
LostSilently(w) == SatSub(Deficit(w), Steps(w) * StepUs)

\* What a gap leaves unabsorbed is lost; without a gap the rest stays owed.
Lost(w) ==
    IF Gap(w) THEN SatSub(Deficit(w), Steps(w) * StepUs) ELSE 0

(* apply: the counters after the iteration.                                *)

\* Only time that the clock moved through is recorded as lost.
Recorded(w) ==
    AtMost(Sat(simUs + Steps(w) * StepUs + Lost(w)) - simUs, Lost(w))

NoteGap(w) ==
    IF Gap(w)
      THEN /\ gapCount' = AtMost(MaxCount, gapCount + 1)
           /\ maxGapUs' = AtLeast(maxGapUs, Deficit(w))
           /\ sessionInvalid' = TRUE
      ELSE UNCHANGED lossVars

\* plan: decide, then apply.
Plan(w) ==
    /\ simUs' = Sat(simUs + Steps(w) * StepUs + Lost(w))
    /\ discardedUs' = Sat(discardedUs + Recorded(w))
    /\ stepsDone' = Sat(stepsDone + Steps(w))
    /\ catchupSteps' = Sat(catchupSteps + Steps(w) - 1)
    /\ NoteGap(w)

\* Mutant of SubStepEnd: the steps are stamped where they begin.
SubStepBegin(t, n, k) == SatSub(t, (n - k + 1) * StepUs)

\* When the k-th of n steps ends that brought the clock to t.
SubStepEnd(t, n, k) == SatSub(t, (n - k) * StepUs)

------------------------------------------------------------------------------
Init ==
    /\ wall = 0
    /\ simUs = 0
    /\ discardedUs = 0
    /\ stepsDone = 0
    /\ catchupSteps = 0
    /\ gapCount = 0
    /\ maxGapUs = 0
    /\ sessionInvalid = FALSE

\* The loop sleeps until epoch + deadline_us; it may wake, or arrive, late.
Iterate(w) ==
    /\ w >= wall
    /\ w >= simUs
    /\ wall' = w
    /\ Plan(w)

Next == \E w \in 0..MaxWall : Iterate(w)

Spec == Init /\ [][Next]_vars

------------------------------------------------------------------------------
TypeOK ==
    /\ wall \in 0..MaxWall
    /\ simUs \in 0..Top
    /\ discardedUs \in 0..Top
    /\ stepsDone \in 0..Top
    /\ catchupSteps \in 0..Top
    /\ gapCount \in 0..MaxCount
    /\ maxGapUs \in 0..Top
    /\ sessionInvalid \in BOOLEAN

\* Every microsecond of the clock is either a step of physics or recorded as
\* lost, exactly, and only at the end of its type does the clock say less.
\* (Invariant 1 of timebase.rs; the debug_assert of apply, identity_holds.)
Identity == simUs = Sat(stepsDone * StepUs + discardedUs)

\* After an iteration the clock never lags the wall by more than the window in
\* which PX4 clamps its integration, and never leads it by more than one step:
\* lateness is neither hidden nor replayed twice.  (Invariant 2.)
Anchored ==
    /\ wall - simUs <= GapThresholdUs
    /\ simUs - wall <= StepUs

\* With the cap the loop derives (budget_steps_at) all lateness within the
\* threshold is paid off at once: less than a step stays owed.
PaidOff == MaxCatchupSteps >= BudgetSteps => wall - simUs < StepUs

\* The record of losses is consistent: the session is invalid exactly when gaps
\* were counted, nothing is lost without one, no loss is larger than its gap,
\* and the largest gap exceeds the threshold.
LossLedger ==
    /\ sessionInvalid <=> gapCount > 0
    /\ sessionInvalid <=> maxGapUs > GapThresholdUs
    /\ gapCount = MaxCount \/ discardedUs <= gapCount * maxGapUs

\* Neither clock runs backwards, and a lost session stays lost.  (Invariant 3:
\* a backward step of the integrated clock silences the GPS for good.)
Monotone ==
    [][/\ simUs' >= simUs
       /\ IntegratedUs' >= IntegratedUs
       /\ sessionInvalid => sessionInvalid' /\ maxGapUs' >= maxGapUs]_vars

\* The physics steps of an iteration end after everything stamped before it,
\* across a gap too, unless the clock has come to its end.
StampsAdvance ==
    [][LET n == stepsDone' - stepsDone
       IN  simUs' < Top =>
             /\ n >= 1
             /\ \A k \in 1..n : SubStepEnd(simUs', n, k) > simUs
             /\ SubStepEnd(simUs', n, n) = simUs']_vars
==============================================================================
