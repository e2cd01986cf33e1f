--------------------------- MODULE TimebaseProofs ---------------------------
(***************************************************************************)
(* The invariants that timebase.rs documents, for every step, threshold,   *)
(* cap and counter width.  The steps of the physics enter the accounting   *)
(* as a product (stepsDone * StepUs), so the arithmetic about products and *)
(* quotients is stated once, in the lemmas of the first section.           *)
(***************************************************************************)
EXTENDS Timebase, TimebaseReport, TLAPS

\* A quotient, times the divisor, misses the dividend by less than the divisor.
LEMMA Quotient ==
    ASSUME NEW d \in Nat, NEW s \in Nat \ {0}
    PROVE  /\ d \div s \in Nat
           /\ (d \div s) * s <= d
           /\ d < (d \div s) * s + s
  BY SMT

\* Products, for a solver that does not look into them: over a sum, ...
LEMMA Distributes ==
    ASSUME NEW a \in Int, NEW b \in Int, NEW s \in Int
    PROVE  (a + b) * s = a * s + b * s
  BY SMT

\* ... of a larger number, ...
LEMMA ProductGrows ==
    ASSUME NEW a \in Nat, NEW b \in Nat, NEW s \in Nat, a <= b
    PROVE  a * s <= b * s /\ a * s \in Nat /\ b * s \in Nat
  BY SMT

\* ... the other way round, ...
LEMMA ProductCommutes ==
    ASSUME NEW a \in Nat, NEW b \in Nat
    PROVE  a * b = b * a /\ a * b \in Nat
  BY SMT

\* ... and by at least one.
LEMMA ProductCovers ==
    ASSUME NEW a \in Nat, NEW s \in Nat \ {0}
    PROVE  a <= a * s /\ a * s \in Nat
  BY SMT

\* A count whose product is part of a clock short of its end is short of it too.
LEMMA BelowTheEnd ==
    ASSUME NEW a \in Nat, NEW p \in Nat, NEW d \in Nat, NEW reading \in Nat,
           NEW end \in Nat, a <= p, reading = AtMost(end, p + d), reading < end
    PROVE  a < end
  BY SMT DEF AtMost

\* A clock that moves by some physics and some loss, up to its end: where it
\* stands to the wall and what of the lateness is owed.
LEMMA Anchoring ==
    ASSUME NEW w \in Nat, NEW now \in Nat, NEW next \in Nat, NEW top \in Nat,
           NEW m \in Nat, NEW shed \in Nat, NEW step \in Nat, NEW gap \in Nat,
           now <= w, w <= top,
           next = top \/ next = now + m + shed,
           next <= now + m + shed,
           m = step \/ m <= w - now,
           w - now <= gap \/ shed + m >= w - now,
           shed = 0 \/ shed + m = w - now
    PROVE  w - next <= gap /\ next - w <= step
  BY SMT

\* Unless it is a gap, what is left of the lateness is less than a step.
LEMMA PayingOff ==
    ASSUME NEW w \in Nat, NEW now \in Nat, NEW next \in Nat, NEW top \in Nat,
           NEW m \in Nat, NEW shed \in Nat, NEW step \in Nat \ {0},
           now <= w, w <= top,
           next = top \/ next = now + m + shed,
           shed + m >= w - now \/ w - now < m + step
    PROVE  w - next < step
  BY SMT

\* A stamp that leaves out fewer steps than the clock moved lies after its start.
LEMMA Stamping ==
    ASSUME NEW now \in Nat, NEW next \in Nat, NEW m \in Nat, NEW later \in Nat,
           NEW step \in Nat \ {0}, next >= now + m, later + step <= m
    PROVE  AtLeast(0, next - later) > now
  BY SMT DEF AtLeast

------------------------------------------------------------------------------
USE StepAssumption, ThresholdAssumption, CatchupAssumption, TopAssumption,
    WallAssumption

\* What an iteration decides: at least one step, and unless it is that one
\* forced step no more physics than the deficit; what is lost is the rest of a
\* gap, and what stays owed is within the threshold.
LEMMA Decision ==
    ASSUME NEW w \in Nat, simUs \in Nat
    PROVE  /\ Deficit(w) \in Nat /\ Deficit(w) <= w
           /\ Gap(w) \in BOOLEAN
           /\ Steps(w) \in Nat /\ Steps(w) >= 1
           /\ Steps(w) * StepUs \in Nat
           /\ Steps(w) = 1 \/ Steps(w) * StepUs <= Deficit(w)
           /\ Lost(w) \in Nat /\ Lost(w) <= Deficit(w)
           /\ ~ Gap(w) => Lost(w) = 0
           /\ Gap(w) => Lost(w) + Steps(w) * StepUs >= Deficit(w)
           /\ Lost(w) > 0 => Lost(w) + Steps(w) * StepUs = Deficit(w)
           /\ MaxCatchupSteps >= BudgetSteps /\ ~ Gap(w)
                => Deficit(w) < Steps(w) * StepUs + StepUs
<1> DEFINE d == Deficit(w)
           q == d \div StepUs
           n == Steps(w)
<1>1. d \in Nat /\ d <= w /\ Gap(w) \in BOOLEAN
  BY DEF Deficit, SatSub, AtLeast, Gap
<1>2. q \in Nat /\ q * StepUs <= d /\ d < q * StepUs + StepUs
  BY <1>1, Quotient
<1>3. GapThresholdUs \div StepUs \in Nat
  BY Quotient
<1>4. BudgetSteps \in Nat /\ BudgetSteps >= 1 /\ BudgetSteps >= GapThresholdUs \div StepUs
  BY <1>3 DEF BudgetSteps, AtLeast
<1>5. Allowance \in Nat /\ Allowance >= 1
      /\ (MaxCatchupSteps >= BudgetSteps => Allowance = BudgetSteps)
  BY <1>4 DEF Allowance, AtMost
<1>6. n \in Nat /\ n >= 1 /\ (n = 1 \/ n <= q) /\ (n = Allowance \/ n >= q)
  BY <1>2, <1>5 DEF Steps, AtLeast, AtMost
<1>7. n * StepUs \in Nat
  BY <1>6, ProductGrows
<1>8. n = 1 \/ n * StepUs <= d
  BY <1>1, <1>2, <1>6, ProductGrows
<1>9. Lost(w) = IF Gap(w) THEN AtLeast(0, d - n * StepUs) ELSE 0
  BY DEF Lost, SatSub
<1>10. ASSUME MaxCatchupSteps >= BudgetSteps, ~ Gap(w)
       PROVE  d < n * StepUs + StepUs
  <2> DEFINE t == GapThresholdUs \div StepUs
  <2>1. d <= GapThresholdUs
    BY <1>1, <1>10 DEF Gap
  <2>2. GapThresholdUs < t * StepUs + StepUs
    BY Quotient
  <2>3. CASE n >= q
    <3>1. q * StepUs <= n * StepUs
      BY <1>2, <1>6, <2>3, ProductGrows
    <3> HIDE DEF q, n, d
    <3> QED BY <1>1, <1>2, <1>7, <3>1, ProductGrows
  <2>4. CASE n = Allowance
    <3>1. t * StepUs <= n * StepUs /\ t * StepUs \in Nat
      BY <1>3, <1>4, <1>5, <1>6, <1>10, <2>4, ProductGrows
    <3> HIDE DEF t, n, d
    <3> QED BY <1>1, <1>7, <2>1, <2>2, <3>1
  <2> QED BY <1>6, <2>3, <2>4
<1> QED
  <2> HIDE DEF d, n
  <2>1. /\ Lost(w) \in Nat /\ Lost(w) <= d
        /\ ~ Gap(w) => Lost(w) = 0
        /\ Gap(w) => Lost(w) + n * StepUs >= d
        /\ Lost(w) > 0 => Lost(w) + n * StepUs = d
    BY <1>1, <1>7, <1>9 DEF AtLeast
  <2> QED BY <1>1, <1>6, <1>7, <1>8, <1>10, <2>1 DEF d, n

------------------------------------------------------------------------------
(* The inductive invariant: the conjunction of the documented ones.        *)

IInv == TypeOK /\ Identity /\ Anchored /\ PaidOff /\ LossLedger

\* What an iteration does to the clocks: how far they move.
LEMMA Movement ==
    ASSUME TypeOK, NEW w \in 0..MaxWall, Iterate(w)
    PROVE  /\ w \in Nat /\ w <= Top /\ w >= simUs /\ wall' = w
           /\ Deficit(w) = w - simUs
           /\ simUs' \in 0..Top
           /\ simUs' = Top \/ simUs' = simUs + Steps(w) * StepUs + Lost(w)
           /\ simUs' <= simUs + Steps(w) * StepUs + Lost(w)
           /\ Recorded(w) \in Nat /\ Recorded(w) <= Lost(w)
           /\ Recorded(w) <= simUs' - simUs
           /\ Recorded(w) = Lost(w) \/ (simUs' = Top /\ Recorded(w) = Top - simUs)
           /\ discardedUs' = Sat(discardedUs + Recorded(w))
           /\ stepsDone' = Sat(stepsDone + Steps(w))
<1> DEFINE advance == Steps(w) * StepUs + Lost(w)
<1>1. w \in Nat /\ w <= Top /\ w >= simUs /\ wall' = w
  BY DEF Iterate
<1>2. simUs \in 0..Top
  BY DEF TypeOK
<1>3. Deficit(w) = w - simUs
  BY <1>1, <1>2 DEF Deficit, SatSub, AtLeast
<1>4. Steps(w) * StepUs \in Nat /\ Lost(w) \in Nat /\ Steps(w) \in Nat
  BY <1>1, <1>2, Decision
<1>5. simUs' = Sat(simUs + Steps(w) * StepUs + Lost(w))
      /\ discardedUs' = Sat(discardedUs + Recorded(w))
      /\ stepsDone' = Sat(stepsDone + Steps(w))
  BY DEF Iterate, Plan
<1>6. Recorded(w) = AtMost(simUs' - simUs, Lost(w))
  BY <1>5 DEF Recorded
<1>7. /\ simUs' \in 0..Top
      /\ simUs' = Top \/ simUs' = simUs + Steps(w) * StepUs + Lost(w)
      /\ simUs' <= simUs + Steps(w) * StepUs + Lost(w)
      /\ simUs' >= simUs
  BY <1>2, <1>4, <1>5 DEF Sat, AtMost
<1>8. /\ Recorded(w) \in Nat /\ Recorded(w) <= Lost(w)
      /\ Recorded(w) <= simUs' - simUs
      /\ Recorded(w) = Lost(w) \/ (simUs' = Top /\ Recorded(w) = Top - simUs)
  <2> DEFINE m == Steps(w) * StepUs
  <2>1. /\ m \in Nat /\ Lost(w) \in Nat /\ simUs \in Nat /\ simUs' \in Nat
        /\ Top \in Nat /\ simUs' >= simUs
        /\ simUs' = Top \/ simUs' = simUs + m + Lost(w)
    BY <1>2, <1>4, <1>7
  <2>2. Recorded(w) = IF Lost(w) > simUs' - simUs THEN simUs' - simUs ELSE Lost(w)
    BY <1>6 DEF AtMost
  <2> HIDE DEF m
  <2>3. CASE Lost(w) > simUs' - simUs
    <3>1. Recorded(w) = simUs' - simUs
      BY <2>2, <2>3
    <3>2. simUs' = Top
      BY <2>1, <2>3
    <3> QED BY <2>1, <2>3, <3>1, <3>2
  <2>4. CASE ~ (Lost(w) > simUs' - simUs)
    <3>1. Recorded(w) = Lost(w)
      BY <2>2, <2>4
    <3> QED BY <2>1, <2>4, <3>1
  <2> QED BY <2>3, <2>4
<1> QED BY <1>1, <1>3, <1>5, <1>7, <1>8

\* Every counter stays within its type.
LEMMA TypeStep ==
    ASSUME TypeOK, [Next]_vars
    PROVE  TypeOK'
<1>1. ASSUME NEW w \in 0..MaxWall, Iterate(w)
      PROVE  TypeOK'
  <2>1. /\ w \in Nat /\ w <= Top /\ wall' = w
        /\ simUs \in 0..Top /\ simUs' \in 0..Top
        /\ Recorded(w) \in Nat
        /\ discardedUs' = Sat(discardedUs + Recorded(w))
        /\ stepsDone' = Sat(stepsDone + Steps(w))
    BY <1>1, Movement DEF TypeOK
  <2>2. Deficit(w) \in Nat /\ Deficit(w) <= w /\ Steps(w) \in Nat /\ Steps(w) >= 1
    BY <2>1, Decision
  <2>3. discardedUs' \in 0..Top /\ stepsDone' \in 0..Top
    BY <2>1, <2>2 DEF TypeOK, Sat, AtMost
  <2>4. catchupSteps' \in 0..Top
    BY <1>1, <2>2 DEF TypeOK, Iterate, Plan, Sat, AtMost
  <2>5. gapCount' \in 0..MaxCount /\ maxGapUs' \in 0..Top /\ sessionInvalid' \in BOOLEAN
    <3>1. CASE Gap(w)
      BY <1>1, <2>1, <2>2, <3>1 DEF TypeOK, Iterate, Plan, NoteGap, AtMost, AtLeast
    <3>2. CASE ~ Gap(w)
      BY <1>1, <3>2 DEF TypeOK, Iterate, Plan, NoteGap, lossVars
    <3> QED BY <3>1, <3>2
  <2> QED BY <2>1, <2>3, <2>4, <2>5 DEF TypeOK
<1>2. CASE UNCHANGED vars
  BY <1>2 DEF vars, lossVars, TypeOK
<1> QED BY <1>1, <1>2 DEF Next

\* The accounting is exact, or past the end of the counters for good.
LEMMA IdentityStep ==
    ASSUME TypeOK, Identity, [Next]_vars
    PROVE  Identity'
<1>1. ASSUME NEW w \in 0..MaxWall, Iterate(w)
      PROVE  Identity'
  <2> DEFINE n == Steps(w)
             p == stepsDone * StepUs
             m == n * StepUs
             p2 == stepsDone' * StepUs
             r == Recorded(w)
  <2>1. /\ simUs \in 0..Top /\ simUs' \in 0..Top
        /\ simUs' = Top \/ simUs' = simUs + m + Lost(w)
        /\ simUs' <= simUs + m + Lost(w)
        /\ r \in Nat /\ r <= Lost(w) /\ r <= simUs' - simUs
        /\ r = Lost(w) \/ (simUs' = Top /\ r = Top - simUs)
        /\ discardedUs' = Sat(discardedUs + r)
        /\ stepsDone' = Sat(stepsDone + n)
        /\ w \in Nat /\ discardedUs \in 0..Top /\ stepsDone \in 0..Top
    BY <1>1, Movement DEF TypeOK
  <2>2. n \in Nat /\ n >= 1 /\ m \in Nat /\ Lost(w) \in Nat
    BY <2>1, Decision
  <2>3. m >= StepUs /\ p \in Nat /\ Top <= Top * StepUs
    <3>1. 1 * StepUs <= n * StepUs
      BY <2>2, ProductGrows
    <3>2. 0 * StepUs <= p /\ p \in Nat
      BY <2>1, ProductGrows
    <3>3. 1 * Top <= StepUs * Top
      BY ProductGrows
    <3> QED BY <3>1, <3>2, <3>3
  <2>4. p + discardedUs = simUs \/ (p + discardedUs > Top /\ simUs = Top)
    BY DEF Identity, Sat, AtMost
  <2>5. CASE stepsDone + n <= Top
    <3>1. stepsDone' = stepsDone + n
      BY <2>1, <2>2, <2>5 DEF Sat, AtMost
    <3>2. p2 = p + m
      BY <2>1, <2>2, <3>1, Distributes
    <3>3. discardedUs' = discardedUs + r \/ (discardedUs' = Top /\ discardedUs + r > Top)
      BY <2>1 DEF Sat, AtMost
    <3> HIDE DEF p, m, p2, n, r
    <3>4. p2 + discardedUs' = simUs' \/ (p2 + discardedUs' > Top /\ simUs' = Top)
      BY <2>1, <2>2, <2>3, <2>4, <3>2, <3>3
    <3>5. simUs' = AtMost(Top, p2 + discardedUs')
      BY <2>1, <3>4 DEF AtMost
    <3> QED BY <3>5 DEF Identity, Sat, p2
  <2>6. CASE stepsDone + n > Top
    <3>1. stepsDone' = Top
      BY <2>1, <2>2, <2>6 DEF Sat, AtMost
    <3>2. discardedUs' \in Nat /\ (discardedUs' = 0 => discardedUs = 0 /\ r = 0)
      BY <2>1 DEF Sat, AtMost
    <3>3. CASE StepUs = 1
      <4>1. p = stepsDone /\ m = n /\ p2 = Top
        BY <2>1, <2>2, <3>1, <3>3
      <4> HIDE DEF p, m, p2, n, r
      <4>2. simUs' = Top
        BY <2>1, <2>2, <2>4, <2>6, <4>1
      <4>3. simUs' = AtMost(Top, p2 + discardedUs')
        BY <2>1, <3>2, <4>1, <4>2 DEF AtMost
      <4> QED BY <4>3 DEF Identity, Sat, p2
    <3>4. CASE StepUs # 1
      <4>1. 2 * Top <= StepUs * Top
        BY <3>4, ProductGrows
      <4>2. p2 > Top /\ p2 \in Nat
        BY <3>1, <4>1
      <4>3. stepsDone <= p /\ n <= m
        <5>1. 1 * stepsDone <= StepUs * stepsDone /\ 1 * n <= StepUs * n
          BY <2>1, <2>2, ProductGrows
        <5>2. StepUs * stepsDone = p /\ StepUs * n = m
          BY <2>1, <2>2, ProductCommutes
        <5> QED BY <2>1, <2>2, <5>1, <5>2
      <4> HIDE DEF p, m, p2, n, r
      <4>4. simUs' = Top
        BY <2>1, <2>2, <2>3, <2>4, <2>6, <4>3
      <4>5. simUs' = AtMost(Top, p2 + discardedUs')
        BY <2>1, <3>2, <4>2, <4>4 DEF AtMost
      <4> QED BY <4>5 DEF Identity, Sat, p2
    <3> QED BY <3>3, <3>4
  <2> QED BY <2>1, <2>2, <2>5, <2>6
<1>2. CASE UNCHANGED vars
  BY <1>2 DEF vars, Identity
<1> QED BY <1>1, <1>2 DEF Next

\* The clock stays within the threshold behind the wall and a step ahead of it,
\* and a cap that covers the threshold leaves less than a step owed.
LEMMA AnchoredStep ==
    ASSUME TypeOK, Anchored, PaidOff, [Next]_vars
    PROVE  Anchored' /\ PaidOff'
<1>1. ASSUME NEW w \in 0..MaxWall, Iterate(w)
      PROVE  Anchored' /\ PaidOff'
  <2> DEFINE m == Steps(w) * StepUs
  <2>1. /\ w \in Nat /\ Top \in Nat /\ w <= Top /\ wall' = w /\ simUs <= w
        /\ simUs \in Nat /\ simUs' \in Nat
        /\ Deficit(w) = w - simUs
        /\ simUs' = Top \/ simUs' = simUs + m + Lost(w)
        /\ simUs' <= simUs + m + Lost(w)
    BY <1>1, Movement DEF TypeOK
  <2>2. /\ m \in Nat /\ Lost(w) \in Nat
        /\ m = StepUs \/ m <= Deficit(w)
        /\ Lost(w) = 0 \/ Lost(w) + m = Deficit(w)
    BY <2>1, Decision
  <2>3. Deficit(w) <= GapThresholdUs \/ Lost(w) + m >= Deficit(w)
    BY <2>1, Decision DEF Gap
  <2>4. ASSUME MaxCatchupSteps >= BudgetSteps
        PROVE  Lost(w) + m >= Deficit(w) \/ Deficit(w) < m + StepUs
    BY <2>1, <2>4, Decision
  <2> HIDE DEF m
  <2>5. w - simUs' <= GapThresholdUs /\ simUs' - w <= StepUs
    <3>1. /\ m = StepUs \/ m <= w - simUs
          /\ Lost(w) = 0 \/ Lost(w) + m = w - simUs
          /\ w - simUs <= GapThresholdUs \/ Lost(w) + m >= w - simUs
      BY <2>1, <2>2, <2>3
    <3> QED BY <2>1, <2>2, <3>1, Anchoring
  <2>6. ASSUME MaxCatchupSteps >= BudgetSteps
        PROVE  w - simUs' < StepUs
    <3>1. Lost(w) + m >= w - simUs \/ w - simUs < m + StepUs
      BY <2>1, <2>4, <2>6
    <3> QED BY <2>1, <2>2, <3>1, PayingOff
  <2>7. Anchored'
    BY <2>1, <2>5 DEF Anchored
  <2>8. BudgetSteps' = BudgetSteps
    OBVIOUS
  <2>9. PaidOff'
    BY <2>1, <2>6, <2>8 DEF PaidOff
  <2> QED BY <2>7, <2>9
<1>2. CASE UNCHANGED vars
  BY <1>2 DEF vars, Anchored, PaidOff
<1> QED BY <1>1, <1>2 DEF Next

\* The record of losses stays consistent.
LEMMA LedgerStep ==
    ASSUME TypeOK, LossLedger, [Next]_vars
    PROVE  LossLedger'
<1>1. ASSUME NEW w \in 0..MaxWall, Iterate(w)
      PROVE  LossLedger'
  <2>1. /\ w \in Nat /\ simUs \in 0..Top
        /\ discardedUs \in 0..Top /\ Recorded(w) \in Nat /\ Recorded(w) <= Lost(w)
        /\ discardedUs' = Sat(discardedUs + Recorded(w))
        /\ gapCount \in 0..MaxCount /\ maxGapUs \in 0..Top
    BY <1>1, Movement DEF TypeOK
  <2>2. /\ Deficit(w) \in Nat /\ Lost(w) \in Nat /\ Lost(w) <= Deficit(w)
        /\ ~ Gap(w) => Lost(w) = 0
    BY <2>1, Decision
  <2>3. CASE Gap(w)
    <3>1. /\ gapCount' = AtMost(MaxCount, gapCount + 1)
          /\ maxGapUs' = AtLeast(maxGapUs, Deficit(w))
          /\ sessionInvalid' = TRUE
      BY <1>1, <2>3 DEF Iterate, Plan, NoteGap
    <3>2. gapCount' > 0 /\ (gapCount' = MaxCount \/ gapCount' = gapCount + 1)
      BY <2>1, <3>1 DEF AtMost
    <3>3. /\ maxGapUs' \in Nat /\ maxGapUs' >= maxGapUs /\ maxGapUs' >= Deficit(w)
          /\ maxGapUs' > GapThresholdUs
      BY <2>1, <2>2, <2>3, <3>1 DEF AtLeast, Gap
    <3>4. discardedUs' <= discardedUs + Deficit(w) /\ discardedUs' \in Nat
      BY <2>1, <2>2 DEF Sat, AtMost
    <3>5. ASSUME gapCount' = gapCount + 1, gapCount # MaxCount
          PROVE  discardedUs' <= gapCount' * maxGapUs'
      <4>1. discardedUs <= gapCount * maxGapUs
        BY <3>5 DEF LossLedger
      <4>2. maxGapUs * gapCount <= maxGapUs' * gapCount
        <5>1. maxGapUs \in Nat /\ maxGapUs' \in Nat /\ gapCount \in Nat
          BY <2>1, <3>3
        <5> QED BY <3>3, <5>1, ProductGrows
      <4>3. gapCount' * maxGapUs' = gapCount * maxGapUs' + 1 * maxGapUs'
        BY <2>1, <3>3, <3>5, Distributes
      <4>4. gapCount * maxGapUs \in Nat /\ gapCount * maxGapUs' \in Nat
            /\ gapCount * maxGapUs = maxGapUs * gapCount
            /\ gapCount * maxGapUs' = maxGapUs' * gapCount
        <5>1. maxGapUs \in Nat /\ maxGapUs' \in Nat /\ gapCount \in Nat
          BY <2>1, <3>3
        <5> QED BY <5>1, ProductCommutes
      <4> QED BY <2>1, <2>2, <3>3, <3>4, <4>1, <4>2, <4>3, <4>4
    <3>6. gapCount' = MaxCount \/ discardedUs' <= gapCount' * maxGapUs'
      BY <2>1, <3>1, <3>2, <3>5 DEF AtMost
    <3> QED BY <3>1, <3>2, <3>3, <3>6 DEF LossLedger
  <2>4. CASE ~ Gap(w)
    <3>1. gapCount' = gapCount /\ maxGapUs' = maxGapUs /\ sessionInvalid' = sessionInvalid
      BY <1>1, <2>4 DEF Iterate, Plan, NoteGap, lossVars
    <3>2. discardedUs' = discardedUs
      BY <2>1, <2>2, <2>4 DEF Sat, AtMost
    <3> QED BY <3>1, <3>2 DEF LossLedger
  <2> QED BY <2>3, <2>4
<1>2. CASE UNCHANGED vars
  BY <1>2 DEF vars, lossVars, LossLedger
<1> QED BY <1>1, <1>2 DEF Next

\* Before the first iteration every record is zero, and so is every clock.
LEMMA InitIInv == Init => IInv
<1> SUFFICES ASSUME Init PROVE IInv
  OBVIOUS
<1>1. TypeOK /\ Anchored /\ PaidOff
  <2>1. TypeOK
    <3>1. sessionInvalid \in BOOLEAN
      BY DEF Init
    <3>2. /\ wall = 0 /\ simUs = 0 /\ discardedUs = 0 /\ stepsDone = 0
          /\ catchupSteps = 0 /\ gapCount = 0 /\ maxGapUs = 0
      BY DEF Init
    <3>3. 0 \in 0..MaxWall /\ 0 \in 0..Top /\ 0 \in 0..MaxCount
      OBVIOUS
    <3> QED BY <3>1, <3>2, <3>3, Zenon DEF TypeOK
  <2>2. wall - simUs = 0 /\ simUs - wall = 0
    BY DEF Init
  <2> QED BY <2>1, <2>2 DEF Anchored, PaidOff
<1>2. Identity
  <2>1. 0 * StepUs = 0
    BY SMT
  <2> QED BY <2>1 DEF Init, Identity, Sat, AtMost
<1>3. LossLedger
  <2>1. gapCount * maxGapUs = 0
    BY SMT DEF Init
  <2> QED BY <2>1 DEF Init, LossLedger
<1> QED BY <1>1, <1>2, <1>3 DEF IInv

\* Every iteration keeps the accounting and the clocks.
LEMMA NextIInv == IInv /\ [Next]_vars => IInv'
  BY TypeStep, IdentityStep, AnchoredStep, LedgerStep DEF IInv

\* The inductive invariant holds in every state of every behaviour.
THEOREM Invariance == Spec => []IInv
  BY InitIInv, NextIInv, PTL DEF Spec

\* Every counter stays within the width of its type.
THEOREM TypeCorrect == Spec => []TypeOK
  BY Invariance, PTL DEF IInv

\* sim_us is exactly the physics done plus the time recorded as lost: invariant
\* 1 of timebase.rs, through the saturation of any counter.
THEOREM AccountingIsExact == Spec => []Identity
  BY Invariance, PTL DEF IInv

\* The clock is never further from the wall than one step ahead and the gap
\* threshold behind: invariant 2 of timebase.rs, with the bound on the lead that
\* its caller owes to sleeping until the deadline.
THEOREM ClockIsAnchored == Spec => []Anchored
  BY Invariance, PTL DEF IInv

\* With the cap of budget_steps_at no lateness within the threshold is left
\* unpaid beyond a fraction of a step, at every rate.
THEOREM LatenessIsPaidOff == Spec => []PaidOff
  BY Invariance, PTL DEF IInv

\* The counters that describe the losses of a session agree with one another.
THEOREM LedgerIsConsistent == Spec => []LossLedger
  BY Invariance, PTL DEF IInv

------------------------------------------------------------------------------
(* What a step may never do.                                               *)

\* Neither clock of an iteration runs backwards and no loss is forgotten.
LEMMA MonotoneStep ==
    ASSUME TypeOK, NEW w \in 0..MaxWall, Iterate(w)
    PROVE  /\ simUs' >= simUs
           /\ IntegratedUs' >= IntegratedUs
           /\ sessionInvalid => sessionInvalid' /\ maxGapUs' >= maxGapUs
<1>1. /\ w \in Nat /\ simUs \in Nat /\ simUs' \in Nat
      /\ discardedUs \in Nat /\ maxGapUs \in Nat
      /\ Recorded(w) \in Nat
      /\ Recorded(w) <= simUs' - simUs
      /\ discardedUs' = Sat(discardedUs + Recorded(w))
  BY Movement DEF TypeOK
<1>2. discardedUs' \in Nat /\ discardedUs' <= discardedUs + Recorded(w)
  BY <1>1 DEF Sat, AtMost
<1>3. IntegratedUs' >= IntegratedUs
  <2>1. simUs' - discardedUs' >= simUs - discardedUs
    BY <1>1, <1>2
  <2> QED BY <1>1, <1>2, <2>1 DEF IntegratedUs, SatSub, AtLeast
<1>4. sessionInvalid => sessionInvalid' /\ maxGapUs' >= maxGapUs
  <2>1. Deficit(w) \in Nat
    BY <1>1, Decision
  <2>2. CASE Gap(w)
    <3>1. sessionInvalid' /\ maxGapUs' = AtLeast(maxGapUs, Deficit(w))
      BY <2>2 DEF Iterate, Plan, NoteGap
    <3>2. maxGapUs' >= maxGapUs
      BY <1>1, <2>1, <3>1 DEF AtLeast
    <3> QED BY <3>1, <3>2
  <2>3. CASE ~ Gap(w)
    <3>1. sessionInvalid' = sessionInvalid /\ maxGapUs' = maxGapUs
      BY <2>3 DEF Iterate, Plan, NoteGap, lossVars
    <3>2. maxGapUs' >= maxGapUs
      BY <1>1, <3>1
    <3> QED BY <3>1, <3>2
  <2> QED BY <2>2, <2>3
<1> QED BY <1>1, <1>3, <1>4

\* The steps of an iteration end after the clock it started from, and the last
\* of them where it leaves the clock.
LEMMA StampsStep ==
    ASSUME TypeOK, Identity', TypeOK', NEW w \in 0..MaxWall, Iterate(w),
           simUs' < Top
    PROVE  LET n == stepsDone' - stepsDone
           IN  /\ n >= 1
               /\ \A k \in 1..n : SubStepEnd(simUs', n, k) > simUs
               /\ SubStepEnd(simUs', n, n) = simUs'
<1> DEFINE n == stepsDone' - stepsDone
           m == n * StepUs
<1>1. /\ w \in Nat /\ simUs \in Nat /\ simUs' \in Nat /\ stepsDone \in Nat
      /\ simUs' = Top \/ simUs' = simUs + Steps(w) * StepUs + Lost(w)
      /\ stepsDone' = Sat(stepsDone + Steps(w))
  BY Movement DEF TypeOK
<1>2. Steps(w) \in Nat /\ Steps(w) >= 1 /\ Lost(w) \in Nat
  BY <1>1, Decision
<1>3. n = Steps(w) /\ n \in Nat /\ n >= 1
  <2> DEFINE p2 == stepsDone' * StepUs
  <2>1. stepsDone' \in Nat /\ discardedUs' \in Nat
    BY DEF TypeOK
  <2>2. stepsDone' <= p2 /\ p2 \in Nat
    BY <2>1, ProductCovers
  <2>3. simUs' = AtMost(Top, p2 + discardedUs')
    BY DEF Identity, Sat
  <2> HIDE DEF p2
  <2>4. stepsDone' < Top
    <3>1. simUs' \in Nat /\ Top \in Nat
      BY <1>1
    <3> QED BY <2>1, <2>2, <2>3, <3>1, BelowTheEnd
  <2> QED BY <1>1, <1>2, <2>4 DEF Sat, AtMost
<1>4. m \in Nat
  BY <1>3, ProductGrows
<1>5. simUs' >= simUs + m
  <2>1. simUs' = simUs + m + Lost(w)
    BY <1>1, <1>3
  <2> HIDE DEF m, n
  <2> QED BY <1>1, <1>2, <1>4, <2>1
<1> HIDE DEF n
<1>6. ASSUME NEW k \in 1..n
      PROVE  SubStepEnd(simUs', n, k) > simUs
  <2> DEFINE later == (n - k) * StepUs
  <2>1. n - k \in Nat /\ n - k + 1 <= n
    BY <1>3
  <2>2. later \in Nat /\ (n - k + 1) * StepUs <= m
    BY <1>3, <2>1, ProductGrows
  <2>3. (n - k + 1) * StepUs = later + 1 * StepUs
    BY <2>1, Distributes
  <2>4. SubStepEnd(simUs', n, k) = AtLeast(0, simUs' - later)
    BY DEF SubStepEnd, SatSub
  <2>5. later + StepUs <= m
    BY <2>2, <2>3
  <2> HIDE DEF later, m
  <2>6. AtLeast(0, simUs' - later) > simUs
    <3>1. simUs \in Nat /\ simUs' \in Nat
      BY <1>1
    <3> QED BY <1>4, <1>5, <2>2, <2>5, <3>1, Stamping
  <2> QED BY <2>4, <2>6
<1>7. SubStepEnd(simUs', n, n) = simUs'
  <2>1. (n - n) * StepUs = 0
    BY <1>3
  <2> QED BY <1>1, <2>1 DEF SubStepEnd, SatSub, AtLeast
<1> QED BY <1>3, <1>6, <1>7 DEF n

\* sim_us and integrated_us never decrease, and an invalid session stays one:
\* invariant 3 of timebase.rs.
THEOREM ClocksAreMonotone == Spec => Monotone
<1>1. TypeOK /\ [Next]_vars
        => [/\ simUs' >= simUs
            /\ IntegratedUs' >= IntegratedUs
            /\ sessionInvalid => sessionInvalid' /\ maxGapUs' >= maxGapUs]_vars
  BY MonotoneStep DEF Next
<1> QED BY <1>1, TypeCorrect, PTL DEF Spec, Monotone

\* The physics steps of every iteration are stamped after everything before it.
THEOREM StampsAreMonotone == Spec => StampsAdvance
<1>1. IInv /\ IInv' /\ [Next]_vars
        => [LET n == stepsDone' - stepsDone
            IN  simUs' < Top =>
                  /\ n >= 1
                  /\ \A k \in 1..n : SubStepEnd(simUs', n, k) > simUs
                  /\ SubStepEnd(simUs', n, n) = simUs']_vars
  BY StampsStep DEF Next, IInv
<1> QED BY <1>1, Invariance, PTL DEF Spec, StampsAdvance

------------------------------------------------------------------------------
(* What is told of it: TimebaseReport, for any periods, bounds and losses. *)

\* The two modules agree on a gap: what Timebase plans when the wall clock reads w
\* is a plan of TimebaseReport, with a coarse step and without.
LEMMA GapsArePlanned ==
    ASSUME NEW w \in Nat, simUs \in Nat,
           StepUs > GapThresholdUs => Coarse
    PROVE  Planned(Gap(w), Lost(w))
<1> DEFINE b == GapThresholdUs \div StepUs
           n == Steps(w)
           d == Deficit(w)
<1>1. /\ d \in Nat /\ n \in Nat /\ n * StepUs \in Nat /\ Lost(w) \in Nat
      /\ Lost(w) > 0 => Gap(w)
  BY Decision
<1>2. ASSUME Gap(w), StepUs <= GapThresholdUs
      PROVE  Lost(w) > 0
  <2>1. b \in Nat /\ b * StepUs <= GapThresholdUs /\ GapThresholdUs < b * StepUs + StepUs
    BY Quotient
  <2>2. b >= 1
    <3>1. CASE b = 0
      <4> HIDE DEF b
      <4> QED  BY <1>2, <2>1, <3>1
    <3> HIDE DEF b
    <3> QED  BY <2>1, <3>1
  <2>3. n <= b
    <3>1. d \div StepUs \in Nat
      BY <1>1, Quotient
    <3> HIDE DEF b
    <3>2. BudgetSteps = AtLeast(1, b)
      BY DEF BudgetSteps, b
    <3> QED  BY <2>1, <2>2, <3>1, <3>2 DEF Steps, Allowance, AtLeast, AtMost, d
  <2>4. n * StepUs <= b * StepUs /\ b * StepUs \in Nat
    BY <1>1, <2>1, <2>3, ProductGrows
  <2>5. Lost(w) = AtLeast(0, d - n * StepUs)
    BY <1>2 DEF Lost, SatSub
  <2>6. d > GapThresholdUs
    BY <1>2 DEF Gap
  <2> HIDE DEF b, n, d
  <2> QED  BY <1>1, <2>1, <2>4, <2>5, <2>6 DEF AtLeast
<1>3. StepUs <= GapThresholdUs \/ Coarse
  OBVIOUS
<1> QED  BY <1>1, <1>2, <1>3 DEF Planned

\* Time was lost and a window of the session is graded for it, or the window
\* that lost it is still open.
Owed == lost > 0 => winLost \/ worst = Faulted

\* How far the news of the first gap has come: it is in the channel, or it is
\* in the statistics and at most a publication away, or it waits for the window
\* that was open when it came.
Travels ==
    running /\ gaps > 0 =>
        \/ GateRefuses(published, FALSE)
        \/ GateRefuses(stats, FALSE) /\ sinceGap <= Window + MaxStall + pubAge
        \/ sinceGap <= winAge

\* What a stopped loop has left behind.
Final ==
    ~running => /\ published = stats
                /\ lost > 0 => worst = Faulted \/ (winLost /\ winAge < MinFinal)

\* Gaps and losses: a step that is not coarse leaves something of every gap.
Accounted ==
    /\ lost > 0 => gaps > 0
    /\ gaps > 0 => lost > 0 \/ Coarse

Inv ==
    /\ ReportTypeOK
    /\ SnapshotConsistent
    /\ stats.worst = worst
    /\ stats.invalid => gaps > 0
    /\ Accounted
    /\ Owed
    /\ GateRefuses(published, FALSE) => GateRefuses(stats, FALSE)
    /\ GapsAllNamed
    /\ LogNeverUnderstates
    /\ Travels
    /\ Final

------------------------------------------------------------------------------
(* The operators of an iteration.                                          *)

\* A capped age stays within its cap, and never runs ahead of the time.
LEMMA OlderType ==
    ASSUME NEW cap \in Nat, NEW age \in 0..cap, NEW d \in Nat
    PROVE  /\ Older(age, d, cap) \in 0..cap
           /\ Older(age, d, cap) <= age + d
           /\ age <= Older(age, d, cap)
BY DEF Older

\* The worse of two healths is one of them and not below either.
LEMMA WorseType ==
    ASSUME NEW a \in 0..2, NEW b \in 0..2
    PROVE  /\ Worse(a, b) \in 0..2
           /\ Worse(a, b) >= a /\ Worse(a, b) >= b
           /\ Worse(a, b) = a \/ Worse(a, b) = b
BY DEF Worse

\* What two losses make together is no less than either, and nothing only when
\* both are.
LEMMA SumsType ==
    ASSUME NEW a \in 0..2, NEW b \in 0..2, NEW c \in Sums(a, b)
    PROVE  /\ c \in 0..2
           /\ c > 0 <=> a > 0 \/ b > 0
<1>1. c = Worse(a, b) \/ (c = 2 /\ a > 0 /\ b > 0)
  BY DEF Sums
<1> QED  BY <1>1 DEF Worse

\* A new build leaves everything that was measured.
LEMMA ReconfiguredKeeps ==
    ASSUME NEW s \in Snapshots
    PROVE  Reconfigured(s) = s
BY DEF Snapshots, Reconfigured, Unmeasured, Healths, Ok, Degraded, Faulted

\* A line names what was held back, and a gap that is not named is held back.
LEMMA ReportGapStep ==
    ASSUME ReportTypeOK, GapsAllNamed,
           NEW d \in Nat, NEW gap \in BOOLEAN, NEW loss \in Losses,
           gap => gaps < MaxGaps,
           Lose(d, gap, loss), ReportGap(d, gap)
    PROVE  /\ gapAge' \in 0..WarnInterval
           /\ suppressed' \in 0..MaxGaps /\ named' \in 0..MaxGaps
           /\ gaps' \in 0..MaxGaps
           /\ GapsAllNamed'
BY IntervalAssumption
   DEF ReportTypeOK, GapsAllNamed, Lose, ReportGap, Older, Losses

\* After a window was reported the log names a health that is not milder.
LEMMA DecideStep ==
    ASSUME ReportTypeOK, NEW d \in Nat, NEW h \in Healths, Decide(d, h)
    PROVE  /\ reported' \in Healths
           /\ warnAge' \in 0..WarnInterval
           /\ beatAge' \in 0..Heartbeat
           /\ reported' >= h
BY IntervalAssumption
   DEF ReportTypeOK, Decide, Older, Healths, Ok, Degraded, Faulted

\* Nothing is said between two windows.
LEMMA SayNothingStep ==
    ASSUME ReportTypeOK, NEW d \in Nat, SayNothing(d)
    PROVE  /\ reported' = reported
           /\ warnAge' \in 0..WarnInterval
           /\ beatAge' \in 0..Heartbeat
BY IntervalAssumption DEF ReportTypeOK, SayNothing, Older

\* A graded window leaves consistent statistics, and the gate that refused
\* them before refuses them still.
LEMMA RollUpStep ==
    ASSUME ReportTypeOK, Consistent(stats), stats.worst = worst,
           NEW h \in Healths, RollUp(stats, h),
           gaps' \in 0..MaxGaps, gaps' >= gaps, lost' \in 0..2,
           Accounted',
           stats.invalid => gaps > 0,
           lost' > 0 => h = Faulted \/ worst = Faulted
    PROVE  /\ worst' \in Healths /\ stats' \in Snapshots
           /\ Consistent(stats')
           /\ stats'.worst = worst'
           /\ stats'.invalid <=> gaps' > 0
           /\ stats'.health = h
           /\ lost' > 0 => worst' = Faulted
           /\ GateRefuses(stats, FALSE) => GateRefuses(stats', FALSE)
           /\ gaps' > 0 => GateRefuses(stats', FALSE)
<1>1. worst' \in Healths /\ worst' >= h /\ worst' >= worst /\ worst' = Worse(worst, h)
  BY WorseType DEF RollUp, ReportTypeOK, Healths, Ok, Degraded, Faulted
<1>2. stats' = [measured |-> TRUE, health |-> h, worst |-> worst',
                invalid |-> gaps' > 0,
                lostMs |-> IF lost' = 2 THEN 2 ELSE 0, gaps |-> gaps']
  BY <1>1 DEF RollUp
<1>a. /\ stats'.invalid <=> gaps' > 0
      /\ stats'.worst = worst' /\ stats'.health = h
      /\ stats'.measured /\ stats'.gaps = gaps'
      /\ stats'.lostMs = IF lost' = 2 THEN 2 ELSE 0
  BY <1>2
<1>3. stats' \in Snapshots
  BY <1>1, <1>2 DEF Snapshots
<1>4. lost' > 0 => worst' = Faulted
  <2>1. CASE h = Faulted
    BY <1>1, <2>1 DEF Healths, Ok, Degraded, Faulted
  <2>2. CASE worst = Faulted
    BY <1>1, <2>2 DEF Healths, Ok, Degraded, Faulted
  <2> QED  BY <2>1, <2>2
<1>5. Consistent(stats')
  <2>1. stats'.health <= stats'.worst
    BY <1>1, <1>a DEF Healths, Ok, Degraded, Faulted
  <2>2. stats'.invalid /\ ~Coarse => stats'.worst = Faulted
    BY <1>4, <1>a DEF Accounted
  <2>3. stats'.lostMs > 0 => lost' > 0
    <3>1. stats'.lostMs > 0 => lost' = 2
      BY <1>a
    <3> QED  BY <3>1
  <2>4. stats'.lostMs > 0 => stats'.invalid /\ stats'.worst = Faulted
    BY <1>4, <1>a, <2>3 DEF Accounted
  <2> QED  BY <1>a, <2>1, <2>2, <2>4 DEF Consistent
<1>6. GateRefuses(stats, FALSE) => GateRefuses(stats', FALSE)
  <2>1. ASSUME GateRefuses(stats, FALSE)
        PROVE  gaps > 0 \/ worst = Faulted
    BY <2>1 DEF GateRefuses, Consistent
  <2>2. CASE gaps > 0
    <3>1. stats'.invalid
      BY <2>2, <1>a DEF ReportTypeOK
    <3> QED  BY <3>1 DEF GateRefuses
  <2>3. CASE worst = Faulted
    BY <2>3, <1>1, <1>a DEF GateRefuses, Healths, Ok, Degraded, Faulted
  <2> QED  BY <2>1, <2>2, <2>3
<1>7. gaps' > 0 => GateRefuses(stats', FALSE)
  BY <1>a DEF GateRefuses
<1> QED  BY <1>1, <1>a, <1>3, <1>4, <1>5, <1>6, <1>7

------------------------------------------------------------------------------
(* The steps.                                                              *)

\* What the plan of an iteration does to the counters of the clock.
LEMMA LoseStep ==
    ASSUME ReportTypeOK, Accounted,
           NEW d \in Nat, NEW gap \in BOOLEAN, NEW loss \in Losses,
           Planned(gap, loss), gap => gaps < MaxGaps,
           Lose(d, gap, loss)
    PROVE  /\ gaps' \in 0..MaxGaps /\ lost' \in 0..2 /\ sinceGap' \in 0..StaleAfter
           /\ gaps' >= gaps
           /\ lost' > 0 <=> lost > 0 \/ loss > 0
           /\ Accounted'
           /\ gaps = 0 => sinceGap' = 0
           /\ sinceGap' <= sinceGap + d
<1>1. StaleAfter \in Nat
  BY IntervalAssumption DEF StaleAfter
<1>2. sinceGap' \in 0..StaleAfter /\ sinceGap' <= sinceGap + d
  <2>1. sinceGap \in 0..StaleAfter
    BY DEF ReportTypeOK
  <2>2. CASE gaps = 0
    <3>1. sinceGap' = 0
      BY <2>2 DEF Lose
    <3> QED  BY <1>1, <2>1, <3>1
  <2>3. CASE gaps # 0
    <3>1. sinceGap' = Older(sinceGap, d, StaleAfter)
      BY <2>3 DEF Lose
    <3> QED  BY <1>1, <2>1, <3>1 DEF Older
  <2> QED  BY <2>2, <2>3
<1>3. gaps' \in 0..MaxGaps /\ gaps' >= gaps
  BY IntervalAssumption DEF ReportTypeOK, Lose
<1>4. lost' \in 0..2 /\ (lost' > 0 <=> lost > 0 \/ loss > 0)
  <2>1. lost \in 0..2 /\ loss \in 0..2 /\ lost' \in Sums(lost, loss)
    BY DEF ReportTypeOK, Losses, Lose
  <2> QED  BY <2>1, SumsType
<1>5. gaps' > 0 <=> gaps > 0 \/ gap
  BY IntervalAssumption DEF ReportTypeOK, Lose
<1>6. Accounted'
  BY <1>4, <1>5 DEF Accounted, Planned
<1> QED  BY <1>2, <1>3, <1>4, <1>6 DEF Lose

\* What a publication does: the channel holds the statistics of before the
\* window that may close in the same iteration.
LEMMA PublishStep ==
    ASSUME Inv, NEW d \in Nat, PublishStats(d, stats)
    PROVE  /\ published' \in Snapshots /\ Consistent(published')
           /\ unseen' \in BOOLEAN
           /\ pubAge' \in 0..(Publish - 1)
           /\ GateRefuses(published', FALSE) => GateRefuses(stats, FALSE)
           /\ GateRefuses(published, FALSE) => GateRefuses(published', FALSE)
           /\ \/ published' = stats /\ pubAge' = 0
              \/ published' = published /\ pubAge' = pubAge + d
<1>1. CASE pubAge + d >= Publish
  <2>1. published' = stats /\ pubAge' = 0 /\ unseen' = TRUE
    BY <1>1 DEF PublishStats
  <2>2. 0 \in 0..(Publish - 1)
    BY IntervalAssumption
  <2> QED  BY <2>1, <2>2 DEF Inv, ReportTypeOK, SnapshotConsistent
<1>2. CASE ~(pubAge + d >= Publish)
  <2>1. published' = published /\ pubAge' = pubAge + d /\ unseen' = unseen
    BY <1>2 DEF PublishStats
  <2>2. pubAge + d \in 0..(Publish - 1)
    BY <1>2, IntervalAssumption DEF Inv, ReportTypeOK
  <2> QED  BY <2>1, <2>2 DEF Inv, ReportTypeOK, SnapshotConsistent
<1> QED  BY <1>1, <1>2

\* What the health window does, full or not.
LEMMA WindowStep ==
    ASSUME Inv, running, NEW d \in 0..MaxStall, NEW gap \in BOOLEAN,
           NEW loss \in Losses, NEW rate \in Healths,
           Planned(gap, loss), gap => gaps < MaxGaps,
           Lose(d, gap, loss), HealthWindow(d, loss, rate, stats)
    PROVE  /\ winAge' \in 0..(Window - 1) /\ winLost' \in BOOLEAN
           /\ worst' \in Healths /\ stats' \in Snapshots /\ Consistent(stats')
           /\ stats'.worst = worst'
           /\ stats'.invalid => gaps' > 0
           /\ lost' > 0 => winLost' \/ worst' = Faulted
           /\ GateRefuses(stats, FALSE) => GateRefuses(stats', FALSE)
           /\ reported' \in Healths
           /\ warnAge' \in 0..WarnInterval /\ beatAge' \in 0..Heartbeat
           /\ reported' >= stats'.health
           /\ \/ winAge + d >= Window /\ (gaps' > 0 => GateRefuses(stats', FALSE))
              \/ winAge' = winAge + d
<1> DEFINE h == Verdict(rate, winLost \/ loss > 0)
<1>d. d \in Nat
  BY IntervalAssumption
<1>1. h \in Healths /\ (winLost \/ loss > 0 => h = Faulted)
  BY DEF Verdict, Healths
<1>2. /\ gaps' \in 0..MaxGaps /\ lost' \in 0..2 /\ gaps' >= gaps
      /\ lost' > 0 <=> lost > 0 \/ loss > 0
      /\ Accounted'
  BY <1>d, LoseStep DEF Inv
<1>3. lost' > 0 => winLost \/ loss > 0 \/ worst = Faulted
  BY <1>2 DEF Inv, Owed
<1>4. CASE winAge + d >= Window
  <2>1. RollUp(stats, h) /\ Decide(d, h) /\ winAge' = 0 /\ winLost' = FALSE
    BY <1>4 DEF HealthWindow
  <2>2. lost' > 0 => h = Faulted \/ worst = Faulted
    BY <1>1, <1>3
  <2>3. /\ worst' \in Healths /\ stats' \in Snapshots
        /\ Consistent(stats')
        /\ stats'.worst = worst'
        /\ stats'.invalid <=> gaps' > 0
        /\ stats'.health = h
        /\ lost' > 0 => worst' = Faulted
        /\ GateRefuses(stats, FALSE) => GateRefuses(stats', FALSE)
        /\ gaps' > 0 => GateRefuses(stats', FALSE)
    <3> HIDE DEF h
    <3> QED  BY <1>1, <1>2, <2>1, <2>2, RollUpStep DEF Inv, SnapshotConsistent
  <2>4. /\ reported' \in Healths /\ reported' >= h
        /\ warnAge' \in 0..WarnInterval /\ beatAge' \in 0..Heartbeat
    <3> HIDE DEF h
    <3> QED  BY <1>d, <1>1, <2>1, DecideStep DEF Inv
  <2>5. 0 \in 0..(Window - 1)
    BY IntervalAssumption
  <2> HIDE DEF h
  <2> QED  BY <1>4, <2>1, <2>3, <2>4, <2>5
<1>5. CASE ~(winAge + d >= Window)
  <2>1. /\ winAge' = winAge + d /\ winLost' = (winLost \/ loss > 0)
        /\ stats' = stats /\ worst' = worst /\ SayNothing(d)
    BY <1>5 DEF HealthWindow
  <2>2. winAge + d \in 0..(Window - 1)
    BY <1>5, <1>d, IntervalAssumption DEF Inv, ReportTypeOK
  <2>3. /\ reported' = reported
        /\ warnAge' \in 0..WarnInterval /\ beatAge' \in 0..Heartbeat
    BY <1>d, <2>1, SayNothingStep DEF Inv
  <2>4. stats.invalid => gaps' > 0
    <3>1. gaps > 0 => gaps' > 0
      BY <1>2 DEF Inv, ReportTypeOK
    <3> QED  BY <3>1 DEF Inv
  <2>5. reported >= stats.health
    BY DEF Inv, LogNeverUnderstates
  <2> QED  BY <1>3, <2>1, <2>2, <2>3, <2>4, <2>5 DEF Inv, ReportTypeOK, SnapshotConsistent
<1> QED  BY <1>4, <1>5

\* A gap that waited for its window is at most an iteration older than that.
LEMMA WindowIsLate ==
    ASSUME NEW p \in Nat, NEW w \in 0..(Window - 1), NEW a \in Int, NEW b \in Int,
           NEW d \in 0..MaxStall, a <= w, b <= a + d
    PROVE  b <= Window + MaxStall + p
BY IntervalAssumption

\* A gap that was just made is as young as can be.
LEMMA NewIsYoung ==
    ASSUME NEW p \in Nat
    PROVE  0 <= Window + MaxStall + p
BY IntervalAssumption

\* The news of a gap moves on with the time.
LEMMA TravelsStep ==
    ASSUME Inv, running, NEW d \in 0..MaxStall, NEW gap \in BOOLEAN,
           NEW loss \in Losses, NEW rate \in Healths,
           Planned(gap, loss), gap => gaps < MaxGaps,
           Lose(d, gap, loss), PublishStats(d, stats), HealthWindow(d, loss, rate, stats)
    PROVE  gaps' > 0 =>
               \/ GateRefuses(published', FALSE)
               \/ GateRefuses(stats', FALSE) /\ sinceGap' <= Window + MaxStall + pubAge'
               \/ sinceGap' <= winAge'
<1> SUFFICES ASSUME gaps' > 0
             PROVE  \/ GateRefuses(published', FALSE)
                    \/ GateRefuses(stats', FALSE) /\ sinceGap' <= Window + MaxStall + pubAge'
                    \/ sinceGap' <= winAge'
  OBVIOUS
<1>d. d \in Nat
  BY IntervalAssumption
<1>1. /\ sinceGap' \in 0..StaleAfter /\ (gaps = 0 => sinceGap' = 0)
      /\ sinceGap' <= sinceGap + d
  BY <1>d, LoseStep DEF Inv
<1>2. /\ pubAge' \in 0..(Publish - 1)
      /\ GateRefuses(published, FALSE) => GateRefuses(published', FALSE)
      /\ \/ published' = stats /\ pubAge' = 0
         \/ published' = published /\ pubAge' = pubAge + d
  BY <1>d, PublishStep
<1>3. /\ winAge' \in 0..(Window - 1)
      /\ GateRefuses(stats, FALSE) => GateRefuses(stats', FALSE)
      /\ \/ winAge + d >= Window /\ GateRefuses(stats', FALSE)
         \/ winAge' = winAge + d
  BY WindowStep
<1>n. /\ pubAge' \in 0..(Publish - 1) /\ pubAge' \in Nat
      /\ winAge' \in 0..(Window - 1) /\ winAge' \in Nat
      /\ sinceGap \in Int /\ sinceGap' \in Int
  <2>1. StaleAfter \in Nat
    BY IntervalAssumption DEF StaleAfter
  <2> QED  BY <1>1, <1>2, <1>3, <2>1, IntervalAssumption DEF Inv, ReportTypeOK
<1>m. sinceGap' <= sinceGap + d /\ d <= MaxStall
  BY <1>1, IntervalAssumption
<1>4. CASE gaps = 0
  <2>1. sinceGap' = 0
    BY <1>1, <1>4
  <2>2. 0 <= winAge'
    BY <1>n
  <2> QED  BY <2>1, <2>2
<1>5. CASE gaps > 0
  <2>1. CASE GateRefuses(published, FALSE)
    BY <1>2, <2>1
  <2>2. CASE GateRefuses(stats, FALSE) /\ sinceGap <= Window + MaxStall + pubAge
    <3>1. CASE published' = stats
      BY <2>2, <3>1
    <3>2. CASE pubAge' = pubAge + d
      <4>1. sinceGap' <= Window + MaxStall + pubAge'
        BY <1>1, <1>d, <2>2, <3>2, IntervalAssumption DEF Inv, ReportTypeOK
      <4> QED  BY <1>3, <2>2, <4>1
    <3> QED  BY <1>2, <3>1, <3>2
  <2>3. CASE sinceGap <= winAge
    <3>1. CASE winAge + d >= Window /\ GateRefuses(stats', FALSE)
      <4>1. sinceGap' <= Window + MaxStall + pubAge'
        <5>1. winAge \in 0..(Window - 1) /\ sinceGap <= winAge
          BY <2>3 DEF Inv, ReportTypeOK
        <5> QED  BY <1>n, <1>m, <5>1, WindowIsLate
      <4> QED  BY <3>1, <4>1
    <3>2. CASE winAge' = winAge + d
      <4>1. sinceGap' <= winAge'
        <5>1. winAge \in Int /\ sinceGap <= winAge
          BY <2>3, IntervalAssumption DEF Inv, ReportTypeOK
        <5> QED  BY <1>d, <1>n, <1>m, <3>2, <5>1
      <4> QED  BY <4>1
    <3> QED  BY <1>3, <3>1, <3>2
  <2> QED  BY <1>5, <2>1, <2>2, <2>3 DEF Inv, Travels
<1>6. gaps = 0 \/ gaps > 0
  BY DEF Inv, ReportTypeOK
<1> QED  BY <1>4, <1>5, <1>6

\* An iteration keeps the invariant.
LEMMA IterateStep ==
    ASSUME Inv, NEW d \in 0..MaxStall, NEW gap \in BOOLEAN, NEW loss \in Losses,
           NEW rate \in Healths, NEW build \in BOOLEAN,
           IterateAndReport(d, gap, loss, rate, build)
    PROVE  /\ Inv'
           /\ GateRefuses(published, FALSE) => GateRefuses(published', FALSE)
<1>d. d \in Nat
  BY IntervalAssumption
<1>1. /\ running /\ running' = running
      /\ Planned(gap, loss) /\ (gap => gaps < MaxGaps)
      /\ Lose(d, gap, loss) /\ ReportGap(d, gap)
      /\ PublishStats(d, stats) /\ HealthWindow(d, loss, rate, stats)
      /\ sentAge' = Older(sentAge, d, MinInterval)
      /\ announced' = announced /\ candidate' = candidate /\ consecutive' = consecutive
  <2>1. Reconfigured(stats) = stats
    BY ReconfiguredKeeps DEF Inv, ReportTypeOK
  <2> QED  BY <2>1 DEF IterateAndReport, policy
<1>2. /\ gaps' \in 0..MaxGaps /\ lost' \in 0..2 /\ sinceGap' \in 0..StaleAfter
      /\ Accounted'
  BY <1>1, <1>d, LoseStep DEF Inv
<1>3. /\ gapAge' \in 0..WarnInterval
      /\ suppressed' \in 0..MaxGaps /\ named' \in 0..MaxGaps
      /\ GapsAllNamed'
  BY <1>1, <1>d, ReportGapStep DEF Inv
<1>4. /\ published' \in Snapshots /\ Consistent(published')
      /\ unseen' \in BOOLEAN
      /\ pubAge' \in 0..(Publish - 1)
      /\ GateRefuses(published', FALSE) => GateRefuses(stats, FALSE)
      /\ GateRefuses(published, FALSE) => GateRefuses(published', FALSE)
  BY <1>1, <1>d, PublishStep
<1>5. /\ winAge' \in 0..(Window - 1) /\ winLost' \in BOOLEAN
      /\ worst' \in Healths /\ stats' \in Snapshots /\ Consistent(stats')
      /\ stats'.worst = worst'
      /\ stats'.invalid => gaps' > 0
      /\ lost' > 0 => winLost' \/ worst' = Faulted
      /\ GateRefuses(stats, FALSE) => GateRefuses(stats', FALSE)
      /\ reported' \in Healths
      /\ warnAge' \in 0..WarnInterval /\ beatAge' \in 0..Heartbeat
      /\ reported' >= stats'.health
  BY <1>1, WindowStep
<1>6. Travels'
  BY <1>1, TravelsStep DEF Travels
<1>7. sentAge' \in 0..MinInterval
  BY <1>1, <1>d, OlderType, IntervalAssumption DEF Inv, ReportTypeOK
<1>8. ReportTypeOK'
  <2>1. lost' \in Losses
    BY <1>2 DEF Losses
  <2> QED  BY <1>1, <1>2, <1>3, <1>4, <1>5, <1>7, <2>1 DEF Inv, ReportTypeOK
<1>9. Final' /\ LogNeverUnderstates' /\ Owed'
  BY <1>1, <1>5 DEF Final, LogNeverUnderstates, Owed
<1> QED  BY <1>2, <1>3, <1>4, <1>5, <1>6, <1>8, <1>9 DEF Inv, SnapshotConsistent

\* The end of the loop keeps it.
LEMMA StopStep ==
    ASSUME Inv, NEW rate \in Healths, Stop(rate)
    PROVE  /\ Inv'
           /\ GateRefuses(published, FALSE) => GateRefuses(published', FALSE)
<1> DEFINE h == Verdict(rate, winLost)
<1>1. /\ running /\ running' = FALSE /\ unseen' = TRUE /\ published' = stats'
      /\ gaps' = gaps /\ lost' = lost /\ sinceGap' = sinceGap
      /\ winAge' = winAge /\ winLost' = winLost /\ pubAge' = pubAge
      /\ reported' = reported /\ warnAge' = warnAge /\ beatAge' = beatAge
      /\ gapAge' = gapAge /\ suppressed' = suppressed /\ named' = named
      /\ announced' = announced /\ candidate' = candidate
      /\ consecutive' = consecutive /\ sentAge' = sentAge
  BY DEF Stop, clock, reporter, gapLines, policy
<1>2. h \in Healths /\ (winLost => h = Faulted)
  BY DEF Verdict, Healths
<1>3. /\ worst' \in Healths /\ stats' \in Snapshots
      /\ Consistent(stats')
      /\ stats'.worst = worst'
      /\ stats'.invalid => gaps > 0
      /\ GateRefuses(stats, FALSE) => GateRefuses(stats', FALSE)
      /\ lost > 0 => worst' = Faulted \/ (winLost /\ winAge < MinFinal)
      /\ worst = Faulted => worst' = Faulted
  <2>1. CASE winAge >= MinFinal
    <3>1. RollUp(stats, h)
      BY <2>1 DEF Stop
    <3>2. lost' > 0 => h = Faulted \/ worst = Faulted
      BY <1>1, <1>2 DEF Inv, Owed
    <3>3. /\ gaps' \in 0..MaxGaps /\ gaps' >= gaps /\ lost' \in 0..2
          /\ Accounted'
      BY <1>1 DEF Inv, ReportTypeOK, Losses, Accounted
    <3>4. /\ worst' \in Healths /\ stats' \in Snapshots
          /\ Consistent(stats')
          /\ stats'.worst = worst'
          /\ stats'.invalid <=> gaps' > 0
          /\ lost' > 0 => worst' = Faulted
          /\ GateRefuses(stats, FALSE) => GateRefuses(stats', FALSE)
      <4> HIDE DEF h
      <4> QED  BY <1>2, <3>1, <3>2, <3>3, RollUpStep DEF Inv, SnapshotConsistent
    <3>5. worst = Faulted => worst' = Faulted
      <4>1. worst' = Worse(worst, h) /\ worst \in 0..2 /\ h \in 0..2
        <5> HIDE DEF h
        <5> QED  BY <1>2, <3>1 DEF RollUp, Inv, ReportTypeOK, Healths, Ok, Degraded, Faulted
      <4> HIDE DEF h
      <4> QED  BY <4>1 DEF Worse, Faulted
    <3> QED  BY <1>1, <3>4, <3>5 DEF Inv
  <2>2. CASE ~(winAge >= MinFinal)
    <3>1. stats' = stats /\ worst' = worst
      BY <2>2 DEF Stop
    <3>2. winAge < MinFinal
      BY <2>2, IntervalAssumption DEF Inv, ReportTypeOK
    <3> QED  BY <3>1, <3>2 DEF Inv, ReportTypeOK, SnapshotConsistent, Owed
  <2> QED  BY <2>1, <2>2
<1>4. ReportTypeOK'
  BY <1>1, <1>3 DEF Inv, ReportTypeOK
<1>5. GapsAllNamed' /\ LogNeverUnderstates' /\ Travels'
  BY <1>1 DEF Inv, GapsAllNamed, LogNeverUnderstates, Travels
<1>6. Final'
  BY <1>1, <1>3 DEF Final
<1>7. Owed' /\ Accounted'
  BY <1>1, <1>3 DEF Owed, Accounted, Inv
<1> QED  BY <1>1, <1>3, <1>4, <1>5, <1>6, <1>7 DEF Inv, SnapshotConsistent

\* The annunciator touches nothing that the loop or the gate reads.
LEMMA ObserveStep ==
    ASSUME Inv, Observe
    PROVE  Inv' /\ published' = published
<1>1. /\ running' = running /\ unseen' = FALSE
      /\ gaps' = gaps /\ lost' = lost /\ sinceGap' = sinceGap
      /\ winAge' = winAge /\ winLost' = winLost /\ worst' = worst
      /\ stats' = stats /\ published' = published /\ pubAge' = pubAge
      /\ reported' = reported /\ warnAge' = warnAge /\ beatAge' = beatAge
      /\ gapAge' = gapAge /\ suppressed' = suppressed /\ named' = named
  BY DEF Observe, clock, window, channel, reporter, gapLines
<1>2. published.health \in Healths
  BY DEF Inv, ReportTypeOK, Snapshots
<1>3. consecutive' \in 0..Settled
  BY IntervalAssumption DEF Observe, Inv, ReportTypeOK
<1>4. announced' \in Healths /\ candidate' \in Healths /\ sentAge' \in 0..MinInterval
  <2>1. 0 \in 0..MinInterval
    BY IntervalAssumption
  <2>2. announced' \in {announced, published.health} /\ sentAge' \in {sentAge, 0}
    BY DEF Observe
  <2> QED  BY <1>2, <2>1, <2>2 DEF Observe, Inv, ReportTypeOK
<1>5. ReportTypeOK'
  BY <1>1, <1>3, <1>4 DEF Inv, ReportTypeOK
<1> QED  BY <1>1, <1>5
         DEF Inv, SnapshotConsistent, Accounted, Owed, GapsAllNamed, LogNeverUnderstates,
             Travels, Final

------------------------------------------------------------------------------
(* The theorems.                                                           *)

\* The invariant holds to begin with.
LEMMA ReportInitInv ==
    ReportInit => Inv
<1> SUFFICES ASSUME ReportInit PROVE Inv
  OBVIOUS
<1>1. StaleAfter \in Nat
  BY IntervalAssumption DEF StaleAfter
<1>2. Unmeasured \in Snapshots /\ Consistent(Unmeasured) /\ ~GateRefuses(Unmeasured, FALSE)
  BY IntervalAssumption
     DEF Unmeasured, Snapshots, Consistent, GateRefuses, Healths, Ok, Degraded, Faulted
<1>3. Unmeasured.worst = Ok /\ Unmeasured.invalid = FALSE /\ Unmeasured.health = Ok
  BY DEF Unmeasured
<1>4. ReportTypeOK
  <2>1. /\ 0 \in 0..MaxGaps /\ 0 \in Losses /\ 0 \in 0..StaleAfter
        /\ 0 \in 0..(Window - 1) /\ 0 \in 0..(Publish - 1) /\ Ok \in Healths
        /\ 0 \in 0..WarnInterval /\ 0 \in 0..Heartbeat /\ 0 \in 0..Settled
        /\ MinInterval \in 0..MinInterval
    BY <1>1, IntervalAssumption DEF Losses, Healths
  <2> QED  BY <1>2, <2>1 DEF ReportInit, ReportTypeOK
<1>5. LogNeverUnderstates
  <2>1. reported = 0 /\ stats.health = 0
    BY <1>3 DEF ReportInit, Ok
  <2> QED  BY <2>1 DEF LogNeverUnderstates
<1>6. GapsAllNamed
  <2>1. named = 0 /\ suppressed = 0 /\ gaps = 0
    BY DEF ReportInit
  <2> QED  BY <2>1 DEF GapsAllNamed
<1>7. Owed /\ Travels /\ Final /\ Accounted
  <2>1. gaps = 0 /\ lost = 0 /\ running = TRUE
    BY DEF ReportInit
  <2>2. ~(gaps > 0) /\ ~(lost > 0)
    BY <2>1
  <2> QED  BY <2>1, <2>2 DEF Owed, Travels, Final, Accounted
<1>8. stats = Unmeasured /\ published = Unmeasured /\ worst = Ok
  BY DEF ReportInit
<1> QED  BY <1>2, <1>3, <1>4, <1>5, <1>6, <1>7, <1>8 DEF Inv, SnapshotConsistent

\* Every step keeps the invariant, and the gate's refusal with it.
LEMMA ReportNextInv ==
    ASSUME Inv, [ReportNext]_reportVars
    PROVE  /\ Inv'
           /\ GateRefuses(published, FALSE) => GateRefuses(published', FALSE)
<1>1. ASSUME NEW d \in 0..MaxStall, NEW gap \in BOOLEAN, NEW loss \in Losses,
             NEW rate \in Healths, NEW build \in BOOLEAN,
             IterateAndReport(d, gap, loss, rate, build)
      PROVE  /\ Inv'
             /\ GateRefuses(published, FALSE) => GateRefuses(published', FALSE)
  BY <1>1, IterateStep
<1>2. ASSUME NEW rate \in Healths, Stop(rate)
      PROVE  /\ Inv'
             /\ GateRefuses(published, FALSE) => GateRefuses(published', FALSE)
  BY <1>2, StopStep
<1>3. CASE Observe
  BY <1>3, ObserveStep
<1>4. CASE UNCHANGED reportVars
  BY <1>4 DEF reportVars, clock, window, channel, reporter, gapLines, policy, Inv, ReportTypeOK,
       SnapshotConsistent, Accounted, Owed, GapsAllNamed, LogNeverUnderstates, Travels, Final
<1> QED  BY <1>1, <1>2, <1>3, <1>4 DEF ReportNext

\* The invariant holds in every behaviour.
THEOREM ReportInvariance == ReportSpec => []Inv
<1>1. Inv /\ [ReportNext]_reportVars => Inv'
  BY ReportNextInv
<1> QED  BY ReportInitInv, <1>1, PTL DEF ReportSpec

\* The variables keep their types, for all intervals.
THEOREM ReportTypeCorrect == ReportSpec => []ReportTypeOK
<1>1. Inv => ReportTypeOK
  BY DEF Inv
<1> QED  BY ReportInvariance, <1>1, PTL

\* The banner, the self-test and the gate read snapshots that agree, except
\* about a gap that a coarse step made good for.
THEOREM SnapshotsConsistent == ReportSpec => []SnapshotConsistent
<1>1. Inv => SnapshotConsistent
  BY DEF Inv
<1> QED  BY ReportInvariance, <1>1, PTL

\* A refusal to arm is for the life of the daemon.
THEOREM RefusalIsForever == ReportSpec => NeverCleared
<1>1. Inv /\ [ReportNext]_reportVars
        => [GateRefuses(published, FALSE) => GateRefuses(published', FALSE)]_reportVars
  BY ReportNextInv
<1> QED  BY ReportInvariance, <1>1, PTL DEF ReportSpec, NeverCleared

\* No gap is swallowed by the throttled log.
THEOREM GapsNamed == ReportSpec => []GapsAllNamed
<1>1. Inv => GapsAllNamed
  BY DEF Inv
<1> QED  BY ReportInvariance, <1>1, PTL

\* The log never names something milder than the last window.
THEOREM LogHonest == ReportSpec => []LogNeverUnderstates
<1>1. Inv => LogNeverUnderstates
  BY DEF Inv
<1> QED  BY ReportInvariance, <1>1, PTL

\* A gate that passes rests on statistics that are at most StaleAfter old.
THEOREM StalenessBounded == ReportSpec => []StaleBound
<1>1. Inv => StaleBound
  <2> SUFFICES ASSUME Inv, running, gaps > 0, sinceGap >= StaleAfter,
                      NEW armed \in BOOLEAN, NEW landed \in Landed
               PROVE  FlightInProgress(armed, landed)
                        \/ GateRefuses(published, FlightInProgress(armed, landed))
    BY DEF StaleBound
  <2>1. /\ sinceGap \in 0..StaleAfter /\ winAge \in 0..(Window - 1)
        /\ pubAge \in 0..(Publish - 1)
    BY DEF Inv, ReportTypeOK
  <2>2. ~(sinceGap <= Window + MaxStall + pubAge) /\ ~(sinceGap <= winAge)
    BY <2>1, IntervalAssumption DEF StaleAfter
  <2>3. GateRefuses(published, FALSE)
    BY <2>2 DEF Inv, Travels
  <2> QED  BY <2>3 DEF GateRefuses
<1> QED  BY ReportInvariance, <1>1, PTL

\* A self-test that passes lost nothing that a window could grade, and had no
\* gap there either where a step is no longer than the threshold.
THEOREM GradesHonest == ReportSpec => []GradeHonest
<1>1. Inv => GradeHonest
  <2> SUFFICES ASSUME Inv, ~running, SelftestExit(published) = 0
               PROVE  \/ lost = 0 /\ (gaps = 0 \/ Coarse)
                      \/ winLost /\ winAge < MinFinal
    BY DEF GradeHonest
  <2>1. published.worst = Ok
    BY DEF SelftestExit
  <2>2. worst # Faulted
    BY <2>1 DEF Inv, Final, Ok, Faulted
  <2>3. lost > 0 => winLost /\ winAge < MinFinal
    BY <2>2 DEF Inv, Final
  <2>4. (lost = 0 \/ lost > 0) /\ (gaps = 0 \/ gaps > 0)
    BY IntervalAssumption DEF Inv, ReportTypeOK, Losses
  <2> QED  BY <2>3, <2>4 DEF Inv, Accounted
<1> QED  BY ReportInvariance, <1>1, PTL

==============================================================================
