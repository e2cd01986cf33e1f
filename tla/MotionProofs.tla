---------------------------- MODULE MotionProofs ----------------------------
(***************************************************************************)
(* Proofs about SimLoop and Link, the two modules that run process_actuator_*)
(* commands: what Actuators preserves, then each of them, for any boards,   *)
(* budgets, timeouts, delays and bounds.                                    *)
(***************************************************************************)
EXTENDS SimLoop, Link, TLAPS

(* Actuators.                                                              *)

\* An initial state has its type.
LEMMA ActuatorsInitType == ActuatorsInit => ActuatorsTypeOK
<1> SUFFICES ASSUME ActuatorsInit PROVE ActuatorsTypeOK
    OBVIOUS
<1>1. None \in Commands /\ <<>> \in Seq(Commands) /\ Len(<<>>) <= QueueCap
    BY ActuatorAssumption DEF None, Commands
<1>2. /\ at = "top" /\ commands = <<>> /\ latest = None /\ cmdAge = 0
      /\ motors = FALSE /\ armed = FALSE /\ stall = FALSE
    BY DEF ActuatorsInit
<1>3. cmdAge \in 0..(Stale + 1)
    BY <1>2, ActuatorAssumption
<1> QED BY <1>1, <1>2, <1>3 DEF ActuatorsTypeOK

\* The age of a command is capped, and once it is late it stays late.
LEMMA AgedType ==
    ASSUME ActuatorsTypeOK, NEW d \in Nat
    PROVE  /\ Aged(d) \in 0..(Stale + 1)
           /\ cmdAge > Stale => Aged(d) > Stale
BY ActuatorAssumption DEF Aged, ActuatorsTypeOK

\* The receiver adds a command, or finds no room for it.
LEMMA DeliverType ==
    ASSUME ActuatorsTypeOK, NEW c \in Commands, Deliver(c)
    PROVE  ActuatorsTypeOK'
<1>1. commands' \in Seq(Commands) /\ Len(commands') <= QueueCap
    BY ActuatorAssumption DEF Deliver, ActuatorsTypeOK
<1> QED BY <1>1 DEF Deliver, ActuatorsTypeOK, shared

\* A reset or a lost flight controller writes the three shared fields.
LEMMA QuietType ==
    ASSUME ActuatorsTypeOK, Quiet
    PROVE  ActuatorsTypeOK'
BY DEF Quiet, ActuatorsTypeOK

\* The four steps of process_actuator_commands.
LEMMA ProcessType ==
    ASSUME ActuatorsTypeOK, ProcessCommands
    PROVE  ActuatorsTypeOK'
<1> USE ActuatorAssumption
<1>1. CASE TakeCommand
  <2>1. commands[Len(commands)] \in Commands
      BY <1>1 DEF TakeCommand, ActuatorsTypeOK
  <2> QED BY <1>1, <2>1 DEF TakeCommand, ActuatorsTypeOK, shared
<1>2. CASE ApplyCommand
  <2>1. latest.motors \in BOOLEAN /\ latest.armed \in BOOLEAN /\ None \in Commands
      BY DEF ActuatorsTypeOK, Commands, None
  <2>2. /\ motors' \in BOOLEAN /\ armed' \in BOOLEAN /\ stall' = FALSE
        /\ latest' = None /\ at' = "plan"
        /\ UNCHANGED <<commands, cmdAge>>
      BY <1>2, <2>1 DEF ApplyCommand
  <2> QED BY <2>1, <2>2 DEF ActuatorsTypeOK
<1>3. CASE CheckStale
    BY <1>3 DEF CheckStale, ActuatorsTypeOK, shared
<1>4. CASE StopMotors
    BY <1>4 DEF StopMotors, ActuatorsTypeOK
<1> QED BY <1>1, <1>2, <1>3, <1>4 DEF ProcessCommands

------------------------------------------------------------------------------
(* SimLoop: the invariant.                                                 *)

Steps == AtMost(owed, Budget)

\* Where the thread is says how old the command can be that it acts upon.
Commanded ==
    /\ at = "took" => cmdAge = 0
    /\ at = "stale" => cmdAge > Stale
    /\ at \in {"plan", "step", "emit"} /\ motors => cmdAge <= Stale
    /\ stall => ~motors /\ (cmdAge > Stale \/ at = "took")

\* An impact that is not reported yet outlasts the sub-steps that are left.
Felt ==
    /\ unfelt => at \in {"step", "emit"} /\ impulse > left
    /\ at = "step" => left > 0 /\ left <= Steps
    /\ at = "step" /\ left = Steps => ~unfelt
    /\ at # "top" => owed > 0
    /\ impulse > 0 => hitAge + impulse = Impact

\* After the sub-steps the contact is what the last of them saw.
Grounded ==
    /\ at = "emit" => /\ contact => seen \in {"touch", "near"}
                      /\ seen = "touch" => contact
    /\ EmissionHonest

\* The next update is at the end of the slot, or due with none in this slot.
OnGrid ==
    /\ first => inThisSlot = 0 /\ toSlot <= 0
    /\ ~first /\ at \notin {"step", "emit"} => inThisSlot = 1 /\ toSlot = Slot - inSlot
    /\ ~first /\ at \in {"step", "emit"} =>
         \/ inThisSlot = 0 /\ toSlot <= 0
         \/ inThisSlot = 1 /\ toSlot = Slot - inSlot

\* The channel has been full for no longer than nothing was accepted.
Timed == full <= sentAge /\ (error => sentAge >= ErrorAt)

LoopIInv == LoopTypeOK /\ Commanded /\ Felt /\ Grounded /\ OnGrid /\ Timed
------------------------------------------------------------------------------
(* The arithmetic of the loop.                                             *)

\* A minimum is one of the two and above neither; a difference is not negative.
LEMMA Bounds ==
    ASSUME NEW a \in Int, NEW b \in Int
    PROVE  /\ AtMost(a, b) \in {a, b}
           /\ AtMost(a, b) <= a /\ AtMost(a, b) <= b
           /\ Minus(a, b) \in Nat
           /\ Minus(a, b) = 0 \/ Minus(a, b) = a - b
           /\ a > b => Minus(a, b) = a - b
           /\ Minus(a, b) = 0 <=> a <= b
BY DEF AtMost, Minus

\* The clock within its slot stays in it, and a time that does not reach the end
\* of the slot just adds up.
LEMMA SlotArithmetic ==
    ASSUME NEW n \in Nat \ {0}, NEW x \in Nat
    PROVE  /\ x % n \in 0..(n - 1)
           /\ x < n => x % n = x
OBVIOUS

------------------------------------------------------------------------------
(* Every action preserves the invariant.                                   *)

\* Nothing has been commanded, felt or emitted before the first iteration.
LEMMA LoopInitInv == LoopInit => LoopIInv
<1> SUFFICES ASSUME LoopInit PROVE LoopIInv
    OBVIOUS
<1> USE ActuatorAssumption, LoopAssumption DEF LoopInit, ActuatorsInit
<1>1. LoopTypeOK
  <2>1. ActuatorsTypeOK
      BY ActuatorsInitType
  <2>2. full \in Never..ErrorAt /\ owed \in 0..(Budget + MaxLost) /\ left \in 0..Budget
      BY DEF Never
  <2>3. /\ impulse \in 0..Impact /\ inSlot \in 0..(Slot - 1) /\ toSlot \in Int
        /\ toSlot <= Slot /\ mav \in 0..MavCap /\ hitAge \in 0..Impact /\ inThisSlot \in Nat
        /\ sentAge \in 0..ErrorAt
      OBVIOUS
  <2>4. /\ place \in Places /\ known \in BOOLEAN /\ falling \in BOOLEAN
        /\ contact \in BOOLEAN /\ first \in BOOLEAN
        /\ unfelt \in BOOLEAN /\ error \in BOOLEAN
      BY DEF Places
  <2>5. /\ emission \in [accel : {"none", "impulse", "rest", "mean"}, slow : BOOLEAN]
        /\ seen \in {"nothing", "touch", "near", "high", "unknown"}
      OBVIOUS
  <2> HIDE DEF LoopInit, ActuatorsInit
  <2> QED BY <2>1, <2>2, <2>3, <2>4, <2>5 DEF LoopTypeOK
<1>2. Commanded
    BY DEF Commanded
<1>3. Felt
    BY DEF Felt
<1>4. Grounded
    BY DEF Grounded, EmissionHonest
<1>5. OnGrid
    BY DEF OnGrid
<1>6. Timed
    BY DEF Timed, Never
<1> QED BY <1>1, <1>2, <1>3, <1>4, <1>5, <1>6 DEF LoopIInv

\* The wake-up: time passes, and perhaps the vehicle is reset.
LEMMA WakeStep ==
    ASSUME LoopIInv, NEW d \in 1..(Budget + MaxLost), Wake(d)
    PROVE  LoopIInv'
<1> USE ActuatorAssumption, LoopAssumption
<1>0. /\ d \in Nat /\ d > 0
      /\ LoopTypeOK /\ Commanded /\ Felt /\ Grounded /\ OnGrid /\ Timed
    BY DEF LoopIInv
<1>1. /\ Aged(d) \in 0..(Stale + 1)
      /\ cmdAge > Stale => Aged(d) > Stale
    BY <1>0, AgedType DEF LoopTypeOK
<1>2. /\ motors' \in BOOLEAN /\ armed' \in BOOLEAN /\ stall' \in BOOLEAN
      /\ place' \in Places /\ falling' \in BOOLEAN
      /\ stall' => stall /\ (~motors => ~motors')
  <2>1. CASE UNCHANGED <<shared, place, falling>>
      BY <1>0, <2>1 DEF shared, LoopTypeOK, ActuatorsTypeOK
  <2>2. CASE ResetVehicle
      BY <2>2 DEF ResetVehicle, Places
  <2> QED BY <2>1, <2>2 DEF Wake
<1>3. /\ full' \in Never..ErrorAt
      /\ sentAge' \in 0..ErrorAt
      /\ full' <= sentAge'
      /\ sentAge >= ErrorAt => sentAge' >= ErrorAt
    BY <1>0 DEF Wake, Timed, LoopTypeOK, Never, AtMost
<1>4. LoopTypeOK'
    BY <1>0, <1>1, <1>2, <1>3 DEF Wake, LoopTypeOK, ActuatorsTypeOK, ground, Places
<1>5. Commanded'
  <2>1. at = "top" /\ at' = "begin" /\ cmdAge' = Aged(d)
      BY DEF Wake
  <2> QED BY <1>0, <1>1, <1>2, <2>1 DEF Commanded, LoopTypeOK, ActuatorsTypeOK
<1>6. Felt'
    BY <1>0 DEF Wake, Felt, ground
<1>7. Grounded'
    BY <1>0 DEF Wake, Grounded, EmissionHonest, ground
<1>8. OnGrid'
    BY <1>0 DEF Wake, OnGrid
<1>9. Timed'
    BY <1>0, <1>3 DEF Wake, Timed
<1> QED BY <1>4, <1>5, <1>6, <1>7, <1>8, <1>9 DEF LoopIInv

\* The motor commands: only process_actuator_commands writes, in four places.
LEMMA ActuateStep ==
    ASSUME LoopIInv, Actuate
    PROVE  LoopIInv'
<1> USE ActuatorAssumption, LoopAssumption
<1>0. /\ LoopTypeOK /\ Commanded /\ Felt /\ Grounded /\ OnGrid /\ Timed
      /\ UNCHANGED <<owed, left, place, known, falling, contact, impulse, seen, unfelt, hitAge>>
      /\ UNCHANGED <<inSlot, toSlot, first, inThisSlot, mav, full, emission, sentAge, error>>
    BY DEF LoopIInv, Actuate, vehicle, ground, slots, output
<1>1. /\ at \in {"begin", "took", "stale"}
      /\ at' \in {"took", "stale", "plan"}
    BY DEF Actuate, ProcessCommands, TakeCommand, ApplyCommand, CheckStale, StopMotors
<1>2. ActuatorsTypeOK /\ ActuatorsTypeOK'
    BY <1>0, ProcessType DEF LoopTypeOK, Actuate
<1>3. LoopTypeOK'
    BY <1>0, <1>2 DEF LoopTypeOK
<1>4. Commanded'
  <2>1. CASE TakeCommand
      BY <1>0, <1>2, <2>1 DEF TakeCommand, ActuatorsTypeOK, Commanded, shared
  <2>2. CASE ApplyCommand
    <3>1. stall' = FALSE /\ at = "took" /\ at' = "plan" /\ cmdAge' = cmdAge
        BY <2>2 DEF ApplyCommand
    <3> QED BY <1>0, <1>2, <3>1 DEF ActuatorsTypeOK, Commanded
  <2>3. CASE CheckStale
      BY <1>0, <1>2, <2>3 DEF CheckStale, ActuatorsTypeOK, Commanded, shared
  <2>4. CASE StopMotors
      BY <1>0, <1>2, <2>4 DEF StopMotors, ActuatorsTypeOK, Commanded
  <2> QED BY <2>1, <2>2, <2>3, <2>4 DEF Actuate, ProcessCommands
<1>5. Felt'
    BY <1>0, <1>1 DEF Felt
<1>6. Grounded'
    BY <1>0, <1>1 DEF Grounded, EmissionHonest
<1>7. OnGrid'
    BY <1>0, <1>1 DEF OnGrid
<1>8. Timed'
    BY <1>0 DEF Timed
<1> QED BY <1>3, <1>4, <1>5, <1>6, <1>7, <1>8 DEF LoopIInv

\* The plan: the clock and the schedules move by all the time that is due.
LEMMA PlanStep ==
    ASSUME LoopIInv, PlanSteps
    PROVE  LoopIInv'
<1> USE ActuatorAssumption, LoopAssumption
<1>0. /\ LoopTypeOK /\ Commanded /\ Felt /\ Grounded /\ OnGrid /\ Timed
      /\ UNCHANGED <<commands, latest, motors, armed, stall, cmdAge, owed>>
      /\ UNCHANGED <<place, known, falling, contact, impulse, seen, unfelt, hitAge, first>>
      /\ UNCHANGED <<mav, full, emission, sentAge, error>>
      /\ at = "plan" /\ at' = "step"
    BY DEF LoopIInv, PlanSteps, shared, vehicle, ground, output
<1>1. /\ owed \in Nat /\ owed > 0 /\ inSlot \in 0..(Slot - 1)
      /\ toSlot \in Int /\ toSlot <= Slot /\ inThisSlot \in Nat
    BY <1>0 DEF LoopTypeOK, Felt
<1>2. /\ left' = Steps /\ Steps' = Steps /\ Steps \in 1..Budget
    BY <1>0, <1>1 DEF PlanSteps, Steps, AtMost
<1>3. /\ inSlot' \in 0..(Slot - 1)
      /\ inSlot + owed < Slot => inSlot' = inSlot + owed
  <2>1. inSlot' = (inSlot + owed) % Slot
      BY DEF PlanSteps
  <2>2. inSlot + owed \in Nat
      BY <1>1
  <2> QED BY <2>1, <2>2, SlotArithmetic
<1>4. /\ toSlot' = toSlot - owed
      /\ inThisSlot' = IF inSlot + owed >= Slot THEN 0 ELSE inThisSlot
    BY DEF PlanSteps
<1>5. LoopTypeOK'
    BY <1>0, <1>1, <1>2, <1>3, <1>4 DEF LoopTypeOK, ActuatorsTypeOK
<1>6. Commanded'
    BY <1>0 DEF Commanded
<1>7. Felt'
    BY <1>0, <1>1, <1>2 DEF Felt
<1>8. Grounded'
    BY <1>0 DEF Grounded, EmissionHonest
<1>9. OnGrid'
  <2>1. CASE first
      BY <1>0, <1>1, <1>4, <2>1 DEF OnGrid
  <2>2. CASE ~first
    <3>1. inThisSlot = 1 /\ toSlot = Slot - inSlot
        BY <1>0, <2>2 DEF OnGrid
    <3>2. CASE inSlot + owed >= Slot
        BY <1>0, <1>1, <1>4, <2>2, <3>1, <3>2 DEF OnGrid
    <3>3. CASE inSlot + owed < Slot
        BY <1>0, <1>1, <1>3, <1>4, <2>2, <3>1, <3>3 DEF OnGrid
    <3> QED BY <1>1, <3>2, <3>3
  <2> QED BY <2>1, <2>2
<1>10. Timed'
    BY <1>0 DEF Timed
<1> QED BY <1>5, <1>6, <1>7, <1>8, <1>9, <1>10 DEF LoopIInv

\* One sub-step: the contact, and the impulse with what it has to report.
LEMMA SubStepStep ==
    ASSUME LoopIInv, NEW p \in Places, NEW fast \in BOOLEAN, SubStep(p, fast)
    PROVE  LoopIInv'
<1> USE ActuatorAssumption, LoopAssumption
<1> DEFINE touches == known /\ p = "touch"
           hard == touches /\ fast
<1>0. /\ LoopTypeOK /\ Commanded /\ Felt /\ Grounded /\ OnGrid /\ Timed
      /\ UNCHANGED <<commands, latest, motors, armed, stall, cmdAge, owed>>
      /\ UNCHANGED <<inSlot, toSlot, first, inThisSlot, mav, full, emission, sentAge, error>>
      /\ at = "step" /\ at' \in {"step", "emit"}
    BY DEF LoopIInv, SubStep, shared, slots, output
<1>1. /\ left \in Nat /\ left > 0 /\ left <= Steps /\ owed \in Nat /\ owed > 0
      /\ impulse \in 0..Impact /\ hitAge \in 0..Impact
      /\ left' = left - 1
      /\ at' = IF left = 1 THEN "emit" ELSE "step"
    BY <1>0 DEF LoopTypeOK, Felt, SubStep
<1>2. /\ Steps \in 1..Budget /\ Steps' = Steps
    BY <1>0, <1>1 DEF Steps, AtMost
<1>3. /\ StepTime \in Nat /\ StepTime > 0
      /\ left # Steps => StepTime = 1
    BY <1>1, <1>2 DEF StepTime, Elapsed, Steps, AtMost
<1>4. /\ impulse' \in 0..Impact
      /\ hard /\ impulse <= StepTime => impulse' = Impact /\ hitAge' = 0
      /\ ~(hard /\ impulse <= StepTime) =>
           /\ impulse' = Minus(impulse, StepTime)
           /\ hitAge' = AtMost(hitAge + StepTime, Impact)
    BY <1>1, <1>3 DEF SubStep, ImpulseAfter, Minus
<1>5. /\ contact' = (touches \/ (contact /\ ~Release(p)))
      /\ unfelt' = (unfelt \/ (hard /\ impulse <= StepTime))
      /\ seen' = IF known THEN p ELSE "unknown"
      /\ place' \in Places /\ known' \in BOOLEAN /\ falling' \in BOOLEAN
    BY <1>0 DEF SubStep, LoopTypeOK, Places
<1>6. LoopTypeOK'
  <2>1. ActuatorsTypeOK'
      BY <1>0 DEF LoopTypeOK, ActuatorsTypeOK
  <2>2. hitAge' \in 0..Impact
      BY <1>1, <1>3, <1>4 DEF AtMost
  <2>3. contact' \in BOOLEAN /\ unfelt' \in BOOLEAN
      BY <1>0, <1>5 DEF LoopTypeOK
  <2>4. seen' \in {"nothing", "touch", "near", "high", "unknown"}
      BY <1>5 DEF Places
  <2>5. left' \in 0..Budget
      BY <1>1, <1>2
  <2> QED BY <1>0, <1>4, <1>5, <2>1, <2>2, <2>3, <2>4, <2>5 DEF LoopTypeOK
<1>7. Commanded'
    BY <1>0 DEF Commanded
<1>8. Felt'
  <2>1. left' < Steps
      BY <1>1, <1>2
  <2>2. at' = "step" => left' > 0 /\ left' <= Steps
      BY <1>1, <1>2
  <2>3. ASSUME unfelt' PROVE impulse' > left'
    <3>1. CASE hard /\ impulse <= StepTime
        BY <1>1, <1>2, <1>4, <3>1, <2>1
    <3>2. CASE ~(hard /\ impulse <= StepTime)
      <4>1. unfelt
          BY <1>5, <2>3, <3>2
      <4>2. impulse > left /\ left # Steps
          BY <1>0, <4>1 DEF Felt
      <4> QED BY <1>1, <1>3, <1>4, <3>2, <4>2 DEF Minus
    <3> QED BY <3>1, <3>2
  <2>4. ASSUME impulse' > 0 PROVE hitAge' + impulse' = Impact
    <3>1. CASE hard /\ impulse <= StepTime
        BY <1>4, <3>1
    <3>2. CASE ~(hard /\ impulse <= StepTime)
      <4>1. impulse > StepTime /\ impulse' = impulse - StepTime
          BY <1>1, <1>3, <1>4, <2>4, <3>2 DEF Minus
      <4>2. hitAge + impulse = Impact
          BY <1>0, <1>1, <1>3, <4>1 DEF Felt
      <4> QED BY <1>1, <1>3, <1>4, <3>2, <4>1, <4>2 DEF AtMost
    <3> QED BY <3>1, <3>2
  <2>5. at' = "step" /\ left' = Steps => ~unfelt'
      BY <1>1, <1>2, <2>1
  <2> QED BY <1>0, <1>1, <1>2, <2>2, <2>3, <2>4, <2>5 DEF Felt
<1>9. Grounded'
  <2>1. contact' => seen' \in {"touch", "near"}
      BY <1>5 DEF Release, Places
  <2>2. seen' = "touch" => contact'
      BY <1>5
  <2> QED BY <1>0, <2>1, <2>2 DEF Grounded, EmissionHonest
<1>10. OnGrid'
    BY <1>0 DEF OnGrid
<1>11. Timed'
    BY <1>0 DEF Timed
<1> QED BY <1>6, <1>7, <1>8, <1>9, <1>10, <1>11 DEF LoopIInv
\* The emission: what is reported, and when compass and barometer are next due.
LEMMA EmitStep ==
    ASSUME LoopIInv, NEW gps \in BOOLEAN, Emit(gps)
    PROVE  LoopIInv'
<1> USE ActuatorAssumption, LoopAssumption
<1> DEFINE due == toSlot <= 0
           room == mav < MavCap
<1>0. /\ LoopTypeOK /\ Commanded /\ Felt /\ Grounded /\ OnGrid /\ Timed
      /\ UNCHANGED <<commands, latest, motors, armed, stall, cmdAge, owed, left>>
      /\ UNCHANGED <<place, known, falling, contact, impulse, seen, hitAge, inSlot>>
      /\ at = "emit" /\ at' = "top" /\ first' = FALSE
    BY DEF LoopIInv, Emit, shared, vehicle
<1>1. /\ inSlot \in 0..(Slot - 1) /\ toSlot \in Int /\ toSlot <= Slot /\ inThisSlot \in Nat
      /\ mav \in 0..MavCap /\ full \in Never..ErrorAt /\ sentAge \in 0..ErrorAt
      /\ left \in Nat /\ impulse \in Nat /\ full <= sentAge
    BY <1>0 DEF LoopTypeOK, Timed, Never
<1>2. /\ emission' = [accel |-> Accel, slow |-> due \/ first]
      /\ unfelt' = (unfelt /\ Accel # "impulse")
      /\ toSlot' = IF due THEN NextSlot ELSE toSlot
      /\ inThisSlot' = IF due \/ first THEN inThisSlot + 1 ELSE inThisSlot
      /\ SendSensor(room)
    BY DEF Emit
<1>3. /\ Accel \in {"impulse", "rest", "mean"}
      /\ Accel = "rest" => contact
      /\ Accel = "mean" => ~contact
      /\ impulse > 0 => Accel = "impulse"
    BY DEF Accel
<1>4. mav' \in 0..MavCap
    BY <1>1 DEF Emit, AtMost
<1>5. /\ full' \in Never..ErrorAt /\ sentAge' \in 0..ErrorAt
      /\ full' <= sentAge' /\ error' \in BOOLEAN
      /\ error' => sentAge' >= ErrorAt
  <2>1. CASE room
    <3>1. full' = -1 /\ sentAge' = 0 /\ error' = FALSE
        BY <1>2, <2>1 DEF SendSensor, Never
    <3>2. full' \in Never..ErrorAt /\ sentAge' \in 0..ErrorAt /\ full' <= sentAge'
        BY <3>1 DEF Never
    <3> QED BY <3>1, <3>2
  <2>2. CASE ~room
    <3> DEFINE since == IF full = Never THEN 0 ELSE full
    <3>1. since \in 0..ErrorAt /\ since <= sentAge
        BY <1>1 DEF Never
    <3>2. /\ error' = (since >= ErrorAt)
          /\ full' = IF since >= ErrorAt THEN 0 ELSE since
          /\ sentAge' = sentAge
        BY <1>2, <2>2 DEF SendSensor
    <3>3. full' \in 0..ErrorAt /\ full' <= sentAge'
        BY <1>1, <3>1, <3>2
    <3>4. error' => sentAge' >= ErrorAt
      <4>1. since >= ErrorAt => sentAge' >= ErrorAt
          BY <1>1, <3>1, <3>2
      <4> QED BY <3>2, <4>1, Zenon
    <3>5. error' \in BOOLEAN
        BY <3>2
    <3> QED BY <1>1, <3>2, <3>3, <3>4, <3>5 DEF Never
  <2> QED BY <2>1, <2>2
<1>6. toSlot' \in Int /\ toSlot' <= Slot /\ inThisSlot' \in Nat
    BY <1>1, <1>2 DEF NextSlot
<1>7. LoopTypeOK'
  <2>1. ActuatorsTypeOK'
      BY <1>0 DEF LoopTypeOK, ActuatorsTypeOK
  <2>2. unfelt' \in BOOLEAN
      BY <1>0, <1>2 DEF LoopTypeOK
  <2>3. emission' \in [accel : {"none", "impulse", "rest", "mean"}, slow : BOOLEAN]
    <3>1. (due \/ first) \in BOOLEAN
        OBVIOUS
    <3> QED BY <1>2, <1>3, <3>1
  <2> QED BY <1>0, <1>4, <1>5, <1>6, <2>1, <2>2, <2>3 DEF LoopTypeOK
<1>8. Commanded'
    BY <1>0 DEF Commanded
<1>9. Felt'
  <2>1. ~unfelt'
    <3>1. unfelt => impulse > 0
        BY <1>0, <1>1 DEF Felt
    <3> QED BY <1>2, <1>3, <3>1
  <2> QED BY <1>0, <2>1 DEF Felt
<1>10. Grounded'
  <2>1. emission'.accel = Accel
      BY <1>2
  <2> QED BY <1>0, <1>3, <2>1 DEF Grounded, EmissionHonest
<1>11. OnGrid'
  <2>1. CASE first
      BY <1>0, <1>1, <1>2, <2>1 DEF OnGrid, NextSlot
  <2>2. CASE ~first /\ due
      BY <1>0, <1>1, <1>2, <2>2 DEF OnGrid, NextSlot
  <2>3. CASE ~first /\ ~due
      BY <1>0, <1>1, <1>2, <2>3 DEF OnGrid
  <2> QED BY <2>1, <2>2, <2>3
<1>12. Timed'
    BY <1>5 DEF Timed
<1> QED BY <1>7, <1>8, <1>9, <1>10, <1>11, <1>12 DEF LoopIInv

\* The other threads: a command arrives, the state is reset, the ground changes,
\* the bridge takes a message.
LEMMA OthersStep ==
    ASSUME LoopIInv,
           \/ \E c \in Commands : Receive(c)
           \/ Reset \/ Lost \/ ChangeTerrain \/ TakeMessage
    PROVE  LoopIInv'
<1> USE ActuatorAssumption, LoopAssumption
<1>0. /\ LoopTypeOK /\ Commanded /\ Felt /\ Grounded /\ OnGrid /\ Timed
      /\ UNCHANGED <<at, latest, cmdAge, owed, left, contact, impulse, seen, unfelt, hitAge>>
      /\ UNCHANGED <<inSlot, toSlot, first, inThisSlot, full, emission, sentAge, error>>
    BY DEF LoopIInv, Receive, Deliver, Reset, Lost, MarkFcLost, Quiet, ChangeTerrain,
       TakeMessage, actuators, vehicle, ground, slots, output
<1>1. /\ motors' \in BOOLEAN /\ armed' \in BOOLEAN /\ stall' \in BOOLEAN
      /\ stall' => stall /\ (~motors => ~motors')
      /\ motors' => motors
  <2>1. CASE UNCHANGED shared
      BY <1>0, <2>1 DEF shared, LoopTypeOK, ActuatorsTypeOK
  <2>2. CASE motors' = FALSE /\ armed' = FALSE /\ stall' = FALSE
      BY <2>2
  <2> QED BY <2>1, <2>2 DEF Receive, Deliver, Reset, ResetVehicle, Lost, MarkFcLost, Quiet,
             ChangeTerrain, TakeMessage, actuators
<1>2. /\ place' \in Places /\ known' \in BOOLEAN /\ falling' \in BOOLEAN
      /\ mav' \in 0..MavCap
  <2>1. UNCHANGED place \/ place' \in Places
      BY DEF Receive, Reset, ResetVehicle, Lost, ChangeTerrain, TakeMessage, vehicle, Places
  <2>2. UNCHANGED known \/ known' \in BOOLEAN
      BY DEF Receive, Reset, Lost, ChangeTerrain, TakeMessage, vehicle
  <2>3. UNCHANGED mav \/ (mav > 0 /\ mav' = mav - 1)
      BY DEF Receive, Reset, Lost, ChangeTerrain, TakeMessage, output
  <2>4. UNCHANGED falling \/ falling' = FALSE
      BY DEF Receive, Reset, ResetVehicle, Lost, ChangeTerrain, TakeMessage, vehicle
  <2>5. falling' \in BOOLEAN
      BY <1>0, <2>4 DEF LoopTypeOK
  <2> QED BY <1>0, <2>1, <2>2, <2>3, <2>5 DEF LoopTypeOK
<1>3. commands' \in Seq(Commands) /\ Len(commands') <= QueueCap
  <2>0. commands \in Seq(Commands) /\ Len(commands) <= QueueCap
      BY <1>0 DEF LoopTypeOK, ActuatorsTypeOK
  <2>1. CASE UNCHANGED commands
      BY <2>0, <2>1
  <2>2. ASSUME NEW c \in Commands, Deliver(c)
        PROVE  commands' \in Seq(Commands) /\ Len(commands') <= QueueCap
      BY <2>0, <2>2 DEF Deliver
  <2> QED BY <2>1, <2>2 DEF Receive, Reset, Lost, MarkFcLost, Quiet, ChangeTerrain,
             TakeMessage, actuators
<1>4. LoopTypeOK'
    BY <1>0, <1>1, <1>2, <1>3 DEF LoopTypeOK, ActuatorsTypeOK
<1>5. Commanded'
    BY <1>0, <1>1 DEF Commanded
<1>6. Felt'
    BY <1>0 DEF Felt, Steps
<1>7. Grounded'
    BY <1>0 DEF Grounded, EmissionHonest
<1>8. OnGrid'
    BY <1>0 DEF OnGrid
<1>9. Timed'
    BY <1>0 DEF Timed
<1> QED BY <1>4, <1>5, <1>6, <1>7, <1>8, <1>9 DEF LoopIInv

\* No step of the loop or of another thread disturbs the invariant.
LEMMA LoopNextInv == LoopIInv /\ [LoopNext]_loopVars => LoopIInv'
<1> SUFFICES ASSUME LoopIInv, [LoopNext]_loopVars PROVE LoopIInv'
    OBVIOUS
<1>1. CASE \E d \in 1..(Budget + MaxLost) : Wake(d)
    BY <1>1, WakeStep
<1>2. CASE Actuate
    BY <1>2, ActuateStep
<1>3. CASE PlanSteps
    BY <1>3, PlanStep
<1>4. CASE \E p \in Places, fast \in BOOLEAN : SubStep(p, fast)
    BY <1>4, SubStepStep
<1>5. CASE \E gps \in BOOLEAN : Emit(gps)
    BY <1>5, EmitStep
<1>6. CASE \/ \E c \in Commands : Receive(c)
           \/ Reset \/ Lost \/ ChangeTerrain \/ TakeMessage
    BY <1>6, OthersStep
<1>7. CASE UNCHANGED loopVars
  <2>1. UNCHANGED <<at, commands, latest, motors, armed, stall, cmdAge, owed, left>>
      BY <1>7 DEF loopVars, actuators, shared
  <2>2. UNCHANGED <<place, known, falling, contact, impulse, seen, unfelt, hitAge>>
      BY <1>7 DEF loopVars, vehicle, ground
  <2>3. UNCHANGED <<inSlot, toSlot, first, inThisSlot, mav, full, emission, sentAge, error>>
      BY <1>7 DEF loopVars, slots, output
  <2> QED BY <2>1, <2>2, <2>3 DEF LoopIInv, LoopTypeOK, ActuatorsTypeOK, Commanded, Felt, Steps,
             Grounded, EmissionHonest, OnGrid, Timed
<1> QED BY <1>1, <1>2, <1>3, <1>4, <1>5, <1>6, <1>7 DEF LoopNext

------------------------------------------------------------------------------
(* The theorems.                                                           *)

\* The strengthening of all the properties of the loop is invariant.
THEOREM LoopInvariance == LoopSpec => []LoopIInv
BY LoopInitInv, LoopNextInv, PTL DEF LoopSpec

\* Every variable keeps its type.
THEOREM LoopTypeCorrect == LoopSpec => []LoopTypeOK
<1>1. LoopIInv => LoopTypeOK
    BY DEF LoopIInv
<1> QED BY LoopInvariance, <1>1, PTL

\* The physics never steps on commands that were late when the iteration looked,
\* and the stall flag is up only while the motors stand still, for any timeout
\* and whatever other threads write between the two locks of
\* process_actuator_commands.
THEOREM StallGuarded == LoopSpec => []StallGuard
<1>1. LoopIInv => StallGuard
    BY DEF LoopIInv, Commanded, StallGuard
<1> QED BY LoopInvariance, <1>1, PTL

\* The iteration that hits the ground reports the impulse, and nothing reports it
\* beyond its duration, for any catch-up that the duration covers.
THEOREM ImpactIsFelt == LoopSpec => []ImpactFelt
<1>1. LoopIInv => ImpactFelt
  <2> SUFFICES ASSUME LoopIInv PROVE ImpactFelt
      OBVIOUS
  <2>1. Felt /\ hitAge \in 0..Impact /\ impulse \in 0..Impact
      BY DEF LoopIInv, LoopTypeOK
  <2>2. at = "top" => ~unfelt
      BY <2>1 DEF Felt
  <2>3. impulse > 0 => hitAge < Impact
      BY <2>1, LoopAssumption DEF Felt
  <2> QED BY <2>2, <2>3 DEF ImpactFelt
<1> QED BY LoopInvariance, <1>1, PTL

\* The accelerometer claims the ground only where the last sub-step saw it.
THEOREM AccelerometerHonest == LoopSpec => []EmissionHonest
<1>1. LoopIInv => EmissionHonest
    BY DEF LoopIInv, Grounded
<1> QED BY LoopInvariance, <1>1, PTL

\* Compass and barometer are updated once in every slot in which the loop emits.
THEOREM ScheduleKept == LoopSpec => []SlotsKept
<1>1. LoopIInv => SlotsKept
    BY DEF LoopIInv, OnGrid, SlotsKept
<1> QED BY LoopInvariance, <1>1, PTL

\* The error line about a full channel is said only of a channel that took no
\* HIL_SENSOR for as long as the line says.
THEOREM FullLineIsHonest == LoopSpec => []FullLineHonest
<1>1. LoopIInv => FullLineHonest
    BY DEF LoopIInv, Timed, FullLineHonest
<1> QED BY LoopInvariance, <1>1, PTL

------------------------------------------------------------------------------
(* Link: the invariant.                                                    *)

\* The receiver of the link lives only until the manager has joined it or given it
\* up, and only from there to the next link is the status the manager's own, or else
\* one that was given up has overtaken it.
Owned ==
    /\ receiver # "off" => manager \in {"up", "lost", "abort"}
    /\ ~overtaken =>
         /\ manager \in {"choose", "sleep", "scan", "open"} => status # "connected"
         /\ LinkOpen /\ ~suspected => status = "connected"

\* The verdict that asks for the long backoff is either still flagged, or its
\* time is over, or the rest of it is slept.
Spent ==
    /\ manager \in {"scan", "open"} => sinceVerdict >= BootBackoff
    /\ manager = "sleep" => sinceVerdict + wait >= BootBackoff
    /\ manager \in {"up", "lost", "abort", "report", "choose"} /\ ~suspected
         => sinceVerdict >= BootBackoff

LinkIInv == LinkTypeOK /\ Owned /\ Spent

------------------------------------------------------------------------------
(* Counters and messages.                                                  *)

\* A counter that stops at its bound keeps its range; one that runs down and one
\* that runs up towards b lose nothing of their sum below b.
LEMMA Counters ==
    ASSUME NEW b \in Nat, NEW x \in 0..b, NEW y \in 0..b
    PROVE  /\ Plus1(x, b) \in 0..b
           /\ Minus1(y) \in 0..b
           /\ x >= b => Plus1(x, b) >= b /\ x + y >= b
           /\ x + y >= b => Plus1(x, b) + Minus1(y) >= b
BY DEF Plus1, Minus1

\* A count of retries that grows stays within its end.
LEMMA MoreType == ASSUME LinkTypeOK PROVE More \in 0..MaxRetry
BY LinkAssumption DEF More, LinkTypeOK

\* What a motor message carries is a command.
LEMMA MotionType ==
    ASSUME NEW m \in Messages \cup {Nothing}, m.kind = "motors"
    PROVE  m.command \in Commands
<1>1. Motion \subseteq Commands
  <2>1. None \in Commands /\ [motors |-> TRUE, armed |-> TRUE] \in Commands
      BY DEF Commands, None
  <2> QED BY <2>1 DEF Motion
<1>2. m \in [kind : {"motors"}, command : Motion]
    BY DEF Messages, Nothing
<1> QED BY <1>1, <1>2

------------------------------------------------------------------------------
(* Every action preserves the invariant.                                   *)

\* There is no link, and no task of one, before the first connection.
LEMMA LinkInitInv == LinkInit => LinkIInv
<1> SUFFICES ASSUME LinkInit PROVE LinkIInv
    OBVIOUS
<1>1. ActuatorsTypeOK
    BY ActuatorsInitType DEF LinkInit
<1>2. LinkTypeOK
  <2>1. rx \in Seq(Messages) /\ Len(rx) <= RxCap
      BY LinkAssumption DEF LinkInit
  <2>2. /\ wait \in 0..BootBackoff /\ retry \in 0..MaxRetry
        /\ quiet \in 0..(Timeout + 1) /\ sinceVerdict \in 0..BootBackoff
      BY LinkAssumption DEF LinkInit
  <2>3. stray \in Strays /\ overtaken \in BOOLEAN
      BY DEF LinkInit, Nobody, Strays
  <2> QED BY <1>1, <2>1, <2>2, <2>3 DEF LinkInit, LinkTypeOK, States
<1>3. Owned
    BY DEF LinkInit, Owned, LinkOpen
<1>4. Spent
    BY LinkAssumption DEF LinkInit, Spent
<1> QED BY <1>2, <1>3, <1>4 DEF LinkIInv

\* The board and the port: nothing that the link stands on but its flag.
LEMMA EnvironmentStep ==
    ASSUME LinkIInv,
           \/ \E b \in Boards \cup {NoBoard} : Replug(b)
           \/ \E m \in {"boot", "runs", "silent"} : Behave(m)
           \/ \E m \in Messages : Speak(m)
           \/ PortFails
    PROVE  LinkIInv'
<1> USE LinkAssumption
<1>0. /\ LinkTypeOK /\ Owned /\ Spent /\ ActuatorsTypeOK
      /\ UNCHANGED actuators => ActuatorsTypeOK'
    BY DEF LinkIInv, LinkTypeOK, actuators, shared, ActuatorsTypeOK
<1>1. ASSUME NEW b \in Boards \cup {NoBoard}, Replug(b) PROVE LinkIInv'
  <2>1. LinkTypeOK'
      BY <1>0, <1>1 DEF LinkTypeOK, Replug, Others, ends, port, cable, watch, told, late
  <2>2. Owned'
      BY <1>0, <1>1 DEF Owned, LinkOpen, Replug, Others, ends, port, cable, watch, told, late
  <2>3. Spent'
      BY <1>0, <1>1 DEF Spent, Replug, Others, ends, port, cable, watch, told, late
  <2> QED BY <2>1, <2>2, <2>3 DEF LinkIInv
<1>2. ASSUME NEW m \in {"boot", "runs", "silent"}, Behave(m) PROVE LinkIInv'
  <2>1. LinkTypeOK'
      BY <1>0, <1>2 DEF LinkTypeOK, Behave, Others, ends, port, cable, watch, told, late
  <2>2. Owned'
      BY <1>0, <1>2 DEF Owned, LinkOpen, Behave, Others, ends, port, cable, watch, told, late
  <2>3. Spent'
      BY <1>0, <1>2 DEF Spent, Behave, Others, ends, port, cable, watch, told, late
  <2> QED BY <2>1, <2>2, <2>3 DEF LinkIInv
<1>3. ASSUME NEW m \in Messages, Speak(m) PROVE LinkIInv'
  <2>1. LinkTypeOK'
      BY <1>0, <1>3 DEF LinkTypeOK, Speak, Others, ends, port, cable, watch, told, late
  <2>2. Owned'
      BY <1>0, <1>3 DEF Owned, LinkOpen, Speak, Others, ends, port, cable, watch, told, late
  <2>3. Spent'
      BY <1>0, <1>3 DEF Spent, Speak, Others, ends, port, cable, watch, told, late
  <2> QED BY <2>1, <2>2, <2>3 DEF LinkIInv
<1>4. ASSUME PortFails PROVE LinkIInv'
  <2>1. LinkTypeOK'
      BY <1>0, <1>4 DEF LinkTypeOK, PortFails, Others, ends, port, cable, watch, told, late
  <2>2. Owned'
      BY <1>0, <1>4 DEF Owned, LinkOpen, PortFails, Others, ends, port, cable, watch, told, late
  <2>3. Spent'
      BY <1>0, <1>4 DEF Spent, PortFails, Others, ends, port, cable, watch, told, late
  <2> QED BY <2>1, <2>2, <2>3 DEF LinkIInv
<1> QED BY <1>1, <1>2, <1>3, <1>4

\* The receiver: it ends, or names the board, before the manager has joined it.
LEMMA ReceiverStep ==
    ASSUME LinkIInv, Receiver
    PROVE  LinkIInv'
<1> USE LinkAssumption
<1>0. /\ LinkTypeOK /\ Owned /\ Spent /\ ActuatorsTypeOK
      /\ UNCHANGED actuators => ActuatorsTypeOK'
    BY DEF LinkIInv, LinkTypeOK, actuators, shared, ActuatorsTypeOK
<1>1. CASE ReceiverTop
  <2>1. LinkTypeOK'
    <3>1. rx # <<>> => Head(rx) \in Messages /\ Tail(rx) \in Seq(Messages)
                     /\ Len(Tail(rx)) <= RxCap
        BY <1>0 DEF LinkTypeOK
    <3>2. /\ held' \in Messages \cup {Nothing} /\ rx' \in Seq(Messages) /\ Len(rx') <= RxCap
        BY <1>0, <1>1, <3>1 DEF ReceiverTop, LinkTypeOK, port
    <3>3. /\ receiver' \in {"off", "top", "got", "model", "suspect"}
          /\ disconnected' \in BOOLEAN /\ suspected' \in BOOLEAN
        BY <1>0, <1>1 DEF ReceiverTop, LinkTypeOK, port
    <3>4. sinceVerdict' = 0 \/ sinceVerdict' = sinceVerdict
        BY <1>1 DEF ReceiverTop
    <3>5. sinceVerdict' \in 0..BootBackoff
        BY <1>0, <3>4 DEF LinkTypeOK
    <3>6. UNCHANGED <<board, mode, linked, cut, manager, wait, retry, heard, quiet,
                      model, identity, status, stray, overtaken>>
        BY <1>1 DEF ReceiverTop, cable, ends, watch, told, late
    <3>7. ActuatorsTypeOK'
        BY <1>0, <1>1 DEF ReceiverTop
    <3> QED BY <1>0, <3>2, <3>3, <3>5, <3>6, <3>7 DEF LinkTypeOK
  <2>2. Owned'
      BY <1>0, <1>1 DEF Owned, LinkOpen, ReceiverTop, cable, ends, port, watch, told, late
  <2>3. Spent'
    <3>1. manager' = manager /\ manager \in {"up", "lost", "abort"}
        BY <1>0, <1>1 DEF Owned, ReceiverTop
    <3>2. \/ suspected' = TRUE
          \/ suspected' = suspected /\ sinceVerdict' = sinceVerdict
        BY <1>1 DEF ReceiverTop
    <3> QED BY <1>0, <3>1, <3>2, Zenon DEF Spent
  <2> QED BY <2>1, <2>2, <2>3 DEF LinkIInv
<1>2. CASE ReceiverSuspects
  <2>1. LinkTypeOK'
      BY <1>0, <1>2 DEF LinkTypeOK, ReceiverSuspects, Tell, cable, ends, port, watch, told, late
  <2>2. Owned'
      BY <1>0, <1>2 DEF Owned, LinkOpen, ReceiverSuspects, Tell, cable, ends, port, watch, told, late
  <2>3. Spent'
      BY <1>0, <1>2 DEF Spent, ReceiverSuspects, Tell, cable, ends, port, watch, told, late
  <2> QED BY <2>1, <2>2, <2>3 DEF LinkIInv
<1>3. CASE ReceiverActuates
  <2>1. LinkTypeOK'
    <3>1. Deliver(held.command) /\ held.command \in Commands
        BY <1>0, <1>3, MotionType DEF ReceiverActuates, LinkTypeOK
    <3>2. ActuatorsTypeOK'
        BY <1>0, <3>1, DeliverType
    <3> QED BY <1>0, <1>3, <3>2
       DEF LinkTypeOK, ReceiverActuates, cable, ends, port, watch, told, late
  <2>2. Owned'
      BY <1>0, <1>3 DEF Owned, LinkOpen, ReceiverActuates, cable, ends, port, watch, told, late
  <2>3. Spent'
      BY <1>0, <1>3 DEF Spent, ReceiverActuates, cable, ends, port, watch, told, late
  <2> QED BY <2>1, <2>2, <2>3 DEF LinkIInv
<1>4. CASE ReceiverIdentifies
  <2>1. LinkTypeOK'
      BY <1>0, <1>4 DEF LinkTypeOK, ReceiverIdentifies, cable, ends, port, watch, told, late
  <2>2. Owned'
      BY <1>0, <1>4 DEF Owned, LinkOpen, ReceiverIdentifies, cable, ends, port, watch, told, late
  <2>3. Spent'
      BY <1>0, <1>4 DEF Spent, ReceiverIdentifies, cable, ends, port, watch, told, late
  <2> QED BY <2>1, <2>2, <2>3 DEF LinkIInv
<1>5. CASE ReceiverHears
  <2>1. LinkTypeOK'
      BY <1>0, <1>5 DEF LinkTypeOK, ReceiverHears, cable, ends, port, watch, told, late
  <2>2. Owned'
      BY <1>0, <1>5 DEF Owned, LinkOpen, ReceiverHears, cable, ends, port, watch, told, late
  <2>3. Spent'
      BY <1>0, <1>5 DEF Spent, ReceiverHears, cable, ends, port, watch, told, late
  <2> QED BY <2>1, <2>2, <2>3 DEF LinkIInv
<1>6. CASE ReceiverNames
  <2>1. LinkTypeOK'
    <3>1. model' \in {model, linked} /\ status' \in {status, "connected"}
          /\ overtaken' \in {overtaken, FALSE} /\ receiver' = "top"
        BY <1>6 DEF ReceiverNames, Tell
    <3>2. model' \in Boards \cup {NoBoard} /\ overtaken' \in BOOLEAN
          /\ status' \in {"connected", "reconnecting", "searching", "bootloader"}
        BY <1>0, <3>1 DEF LinkTypeOK
    <3> QED BY <1>0, <1>6, <3>1, <3>2
       DEF LinkTypeOK, ReceiverNames, cable, ends, port, watch
  <2>2. Owned'
      BY <1>0, <1>6 DEF Owned, LinkOpen, ReceiverNames, Tell, cable, ends, port, watch, told, late
  <2>3. Spent'
      BY <1>0, <1>6 DEF Spent, ReceiverNames, Tell, cable, ends, port, watch, told, late
  <2> QED BY <2>1, <2>2, <2>3 DEF LinkIInv
<1>7. CASE ReceiverAborted
  <2>1. LinkTypeOK'
      BY <1>0, <1>7 DEF LinkTypeOK, ReceiverAborted, cable, ends, port, watch, told, late
  <2>2. Owned'
      BY <1>0, <1>7 DEF Owned, LinkOpen, ReceiverAborted, cable, ends, port, watch, told, late
  <2>3. Spent'
      BY <1>0, <1>7 DEF Spent, ReceiverAborted, cable, ends, port, watch, told, late
  <2> QED BY <2>1, <2>2, <2>3 DEF LinkIInv
<1> QED BY <1>1, <1>2, <1>3, <1>4, <1>5, <1>6, <1>7 DEF Receiver

\* A receiver that outlived its join writes what it has to write and marks a status
\* of its own.
LEMMA StrayStep ==
    ASSUME LinkIInv, StrayEnds
    PROVE  LinkIInv'
<1>0. /\ LinkTypeOK /\ Owned /\ Spent /\ ActuatorsTypeOK
      /\ UNCHANGED actuators => ActuatorsTypeOK'
    BY DEF LinkIInv, LinkTypeOK, actuators, shared, ActuatorsTypeOK
<1>1. /\ stray' = Nobody
      /\ UNCHANGED <<board, mode, linked, cut, manager, wait, retry, disconnected, rx>>
      /\ UNCHANGED <<receiver, held, heard, quiet, suspected, sinceVerdict>>
    BY DEF StrayEnds, cable, watch, ends, port
<1>2. stray.does \in Messages \cup {Suspicion, Nothing} /\ stray.of \in Boards \cup {NoBoard}
    BY <1>0 DEF LinkTypeOK, Strays
<1>3. /\ model' \in {model, stray.of} /\ identity' \in {identity, stray.of}
      /\ status' \in {status, "connected", "bootloader"}
      /\ overtaken' \in {overtaken, TRUE}
      /\ ~overtaken' => UNCHANGED <<status, overtaken>>
    BY DEF StrayEnds, told
<1>4. ActuatorsTypeOK'
  <2>1. CASE UNCHANGED actuators
      BY <1>0, <2>1
  <2>2. CASE stray.does.kind = "motors" /\ Deliver(stray.does.command)
    <3>1. stray.does \in Messages \cup {Nothing}
        BY <1>2, <2>2 DEF Suspicion
    <3>2. stray.does.command \in Commands
        BY <2>2, <3>1, MotionType
    <3> QED BY <1>0, <2>2, <3>2, DeliverType
  <2> QED BY <2>1, <2>2 DEF StrayEnds
<1>5. LinkTypeOK'
  <2>1. Nobody \in Strays
      BY DEF Nobody, Strays
  <2>2. /\ model' \in Boards \cup {NoBoard} /\ identity' \in Boards \cup {NoBoard}
        /\ status' \in {"connected", "reconnecting", "searching", "bootloader"}
        /\ overtaken' \in BOOLEAN
      BY <1>0, <1>2, <1>3 DEF LinkTypeOK
  <2> QED BY <1>0, <1>1, <1>4, <2>1, <2>2 DEF LinkTypeOK
<1>6. Owned'
    BY <1>0, <1>1, <1>3 DEF Owned, LinkOpen
<1>7. Spent'
    BY <1>0, <1>1 DEF Spent
<1> QED BY <1>5, <1>6, <1>7 DEF LinkIInv

\* What an aborted receiver is still to do is a message or the suspicion.
LEMMA RestType ==
    ASSUME LinkTypeOK
    PROVE  Rest \in Strays
<1>1. [kind |-> "heartbeat"] \in Messages
    BY DEF Messages
<1> QED BY <1>1 DEF Rest, Nobody, Strays, LinkTypeOK

\* The connection manager: the status is its own from the join to the next link,
\* and the backoff that a verdict asks for is chosen before the flag is cleared.
LEMMA ManagerStep ==
    ASSUME LinkIInv, Manager \/ ManagerOpens
    PROVE  LinkIInv'
<1> USE LinkAssumption
<1>0. /\ LinkTypeOK /\ Owned /\ Spent /\ ActuatorsTypeOK
      /\ UNCHANGED actuators => ActuatorsTypeOK'
    BY DEF LinkIInv, LinkTypeOK, actuators, shared, ActuatorsTypeOK
<1>1. CASE ManagerNotices
  <2>1. LinkTypeOK'
    <3>1. ActuatorsTypeOK'
        BY <1>0, <1>1, QuietType DEF ManagerNotices, MarkFcLost
    <3> QED BY <1>0, <1>1, <3>1 DEF LinkTypeOK, States, ManagerNotices, Steady, cable, ends,
               port, watch, told, late
  <2>2. Owned'
      BY <1>0, <1>1
         DEF Owned, LinkOpen, ManagerNotices, Steady, cable, ends, port, watch, told, late
  <2>3. Spent'
      BY <1>0, <1>1 DEF Spent, ManagerNotices, Steady, cable, ends, port, watch, told, late
  <2> QED BY <2>1, <2>2, <2>3 DEF LinkIInv
<1>2. CASE ManagerWithdraws
  <2>1. LinkTypeOK'
      BY <1>0, <1>2
         DEF LinkTypeOK, States, ManagerWithdraws, Steady, cable, ends, port, watch,
         told, late
  <2>2. Owned'
      BY <1>0, <1>2
         DEF Owned, LinkOpen, ManagerWithdraws, Steady, cable, ends, port, watch, told, late
  <2>3. Spent'
      BY <1>0, <1>2 DEF Spent, ManagerWithdraws, Steady, cable, ends, port, watch, told, late
  <2> QED BY <2>1, <2>2, <2>3 DEF LinkIInv
<1>3. CASE ManagerJoins
  <2>0. Abandon /\ receiver' = "off" /\ (stray' = stray \/ stray' = Rest)
      BY <1>3 DEF ManagerJoins
  <2>1. LinkTypeOK'
    <3>1. /\ quiet' \in 0..(Timeout + 1) /\ rx' \in Seq(Messages) /\ Len(rx') <= RxCap
          /\ retry' \in 0..MaxRetry
        BY <1>0, <2>0, MoreType DEF Abandon
    <3>2. ActuatorsTypeOK'
        BY <1>0, <2>0 DEF Abandon
    <3>3. stray' \in Strays
        BY <1>0, <2>0, RestType DEF LinkTypeOK
    <3> QED BY <1>0, <2>0, <3>1, <3>2, <3>3 DEF LinkTypeOK, States, Abandon, cable, told
  <2>2. Owned'
      BY <1>0, <2>0 DEF Owned, LinkOpen, Abandon, cable, told
  <2>3. Spent'
      BY <1>0, <2>0 DEF Spent, Abandon, cable, told
  <2> QED BY <2>1, <2>2, <2>3 DEF LinkIInv
<1>4. CASE ManagerReports
  <2>1. LinkTypeOK'
    <3>1. status' \in {"reconnecting", "bootloader"} /\ overtaken' = FALSE
        BY <1>4 DEF ManagerReports, Tell
    <3>2. /\ status' \in {"connected", "reconnecting", "searching", "bootloader"}
          /\ overtaken' \in BOOLEAN
        BY <3>1
    <3> QED BY <1>0, <1>4, <3>2
       DEF LinkTypeOK, States, ManagerReports, Steady, cable, ends, port, watch
  <2>2. Owned'
      BY <1>0, <1>4
         DEF Owned, LinkOpen, ManagerReports, Tell, Steady, cable, ends, port, watch, told, late
  <2>3. Spent'
      BY <1>0, <1>4 DEF Spent, ManagerReports, Tell, Steady, cable, ends, port, watch, told, late
  <2> QED BY <2>1, <2>2, <2>3 DEF LinkIInv
<1>5. CASE ManagerBacksOff
  <2>1. LinkTypeOK'
    <3>1. wait' \in {BootBackoff, Delay} /\ suspected' = FALSE
        BY <1>5 DEF ManagerBacksOff
    <3>2. wait' \in 0..BootBackoff
        BY <3>1
    <3>3. /\ manager' = "sleep"
          /\ UNCHANGED <<board, mode, linked, cut, disconnected, rx, held, heard, quiet>>
          /\ UNCHANGED <<identity, sinceVerdict, retry, receiver, model, status>>
          /\ UNCHANGED <<stray, overtaken>>
        BY <1>5 DEF ManagerBacksOff, Steady, cable, ends, port, watch, late
    <3>4. ActuatorsTypeOK'
        BY <1>0, <1>5 DEF ManagerBacksOff
    <3>5. suspected' \in BOOLEAN
        BY <3>1
    <3> QED BY <1>0, <3>2, <3>3, <3>4, <3>5 DEF LinkTypeOK, States
  <2>2. Owned'
      BY <1>0, <1>5
         DEF Owned, LinkOpen, ManagerBacksOff, Steady, cable, ends, port, watch, told, late
  <2>3. Spent'
    <3>1. /\ wait \in 0..BootBackoff /\ sinceVerdict \in 0..BootBackoff
          /\ sinceVerdict' = sinceVerdict
        BY <1>0, <1>5 DEF LinkTypeOK, ManagerBacksOff, Steady
    <3>2. CASE suspected
      <4>1. manager' = "sleep" /\ wait' = BootBackoff
          BY <1>5, <3>2 DEF ManagerBacksOff
      <4>2. sinceVerdict' + wait' >= BootBackoff
          BY <3>1, <4>1
      <4> QED BY <4>1, <4>2 DEF Spent
    <3>3. CASE ~suspected
      <4>1. manager' = "sleep" /\ wait' = Delay /\ sinceVerdict >= BootBackoff
          BY <1>0, <1>5, <3>3 DEF ManagerBacksOff, Spent
      <4>2. sinceVerdict' + wait' >= BootBackoff
          BY <3>1, <4>1
      <4> QED BY <4>1, <4>2 DEF Spent
    <3> QED BY <3>2, <3>3
  <2> QED BY <2>1, <2>2, <2>3 DEF LinkIInv
<1>6. CASE ManagerWakes
  <2>1. LinkTypeOK'
      BY <1>0, <1>6
         DEF LinkTypeOK, States, ManagerWakes, Steady, cable, ends, port, watch, told, late
  <2>2. Owned'
      BY <1>0, <1>6
         DEF Owned, LinkOpen, ManagerWakes, Steady, cable, ends, port, watch, told, late
  <2>3. Spent'
    <3>1. /\ wait \in 0..BootBackoff /\ sinceVerdict \in 0..BootBackoff
          /\ sinceVerdict' = sinceVerdict
        BY <1>0, <1>6 DEF LinkTypeOK, ManagerWakes, Steady
    <3>2. manager' = "scan" /\ wait = 0 /\ sinceVerdict + wait >= BootBackoff
        BY <1>0, <1>6 DEF ManagerWakes, Spent
    <3>3. sinceVerdict' >= BootBackoff
        BY <3>1, <3>2
    <3> QED BY <3>2, <3>3 DEF Spent
  <2> QED BY <2>1, <2>2, <2>3 DEF LinkIInv
<1>7. CASE ManagerScans
  <2>1. LinkTypeOK'
    <3>1. /\ status' \in {status, "bootloader", "searching", "reconnecting"}
          /\ overtaken' \in {overtaken, FALSE} /\ manager' \in {"open", "sleep"}
          /\ wait' \in {wait, Delay} /\ retry' \in {retry, More}
        BY <1>7 DEF ManagerScans, Tell
    <3>2. /\ status' \in {"connected", "reconnecting", "searching", "bootloader"}
          /\ overtaken' \in BOOLEAN /\ wait' \in 0..BootBackoff /\ retry' \in 0..MaxRetry
      <4>1. overtaken' \in BOOLEAN
          BY <1>0, <3>1 DEF LinkTypeOK
      <4>2. status' \in {"connected", "reconnecting", "searching", "bootloader"}
          BY <1>0, <3>1 DEF LinkTypeOK
      <4>3. wait' \in 0..BootBackoff
          BY <1>0, <3>1 DEF LinkTypeOK
      <4>4. retry' \in 0..MaxRetry
          BY <1>0, <3>1, MoreType DEF LinkTypeOK
      <4> QED BY <4>1, <4>2, <4>3, <4>4
    <3>3. /\ UNCHANGED <<board, mode, linked, cut, disconnected, rx, held, heard, quiet>>
          /\ UNCHANGED <<identity, sinceVerdict, receiver, suspected, model, stray>>
          /\ ActuatorsTypeOK'
        BY <1>0, <1>7 DEF ManagerScans, Steady, cable, ends, port, watch
    <3>4. manager' \in States
        BY <3>1 DEF States
    <3> QED BY <1>0, <3>2, <3>3, <3>4 DEF LinkTypeOK
  <2>2. Owned'
      BY <1>0, <1>7
         DEF Owned, LinkOpen, ManagerScans, Tell, Steady, cable, ends, port, watch, told, late
  <2>3. Spent'
    <3>1. /\ wait \in 0..BootBackoff /\ sinceVerdict \in 0..BootBackoff
          /\ sinceVerdict' = sinceVerdict
        BY <1>0, <1>7 DEF LinkTypeOK, ManagerScans, Tell, Steady
    <3>2. /\ manager' \in {"open", "sleep"} /\ wait' \in {wait, Delay}
          /\ sinceVerdict >= BootBackoff
        BY <1>0, <1>7 DEF ManagerScans, Tell, Spent
    <3>3. /\ wait' \in 0..BootBackoff /\ sinceVerdict' \in 0..BootBackoff
          /\ sinceVerdict' >= BootBackoff
        BY <3>1, <3>2
    <3>4. sinceVerdict' + wait' >= BootBackoff
        BY <3>3, Counters
    <3> QED BY <3>2, <3>3, <3>4 DEF Spent
  <2> QED BY <2>1, <2>2, <2>3 DEF LinkIInv
<1>8. CASE ManagerFailsToOpen
  <2>1. LinkTypeOK'
      BY <1>0, <1>8, MoreType
         DEF LinkTypeOK, States, ManagerFailsToOpen, Steady, cable, ends, port, watch,
         told, late
  <2>2. Owned'
      BY <1>0, <1>8
         DEF Owned, LinkOpen, ManagerFailsToOpen, Steady, cable, ends, port, watch, told, late
  <2>3. Spent'
    <3>1. /\ wait \in 0..BootBackoff /\ sinceVerdict \in 0..BootBackoff
          /\ sinceVerdict' = sinceVerdict
        BY <1>0, <1>8 DEF LinkTypeOK, ManagerFailsToOpen, Steady
    <3>2. /\ manager' \in {"open", "sleep"} /\ wait' \in {wait, Delay}
          /\ sinceVerdict >= BootBackoff
        BY <1>0, <1>8 DEF ManagerFailsToOpen, Spent
    <3>3. /\ wait' \in 0..BootBackoff /\ sinceVerdict' \in 0..BootBackoff
          /\ sinceVerdict' >= BootBackoff
        BY <3>1, <3>2
    <3>4. sinceVerdict' + wait' >= BootBackoff
        BY <3>3, Counters
    <3> QED BY <3>2, <3>3, <3>4 DEF Spent
  <2> QED BY <2>1, <2>2, <2>3 DEF LinkIInv
<1>9. CASE ManagerOpens
  <2>1. LinkTypeOK'
    <3>1. /\ quiet' \in 0..(Timeout + 1) /\ rx' \in Seq(Messages) /\ Len(rx') <= RxCap
          /\ retry' \in 0..MaxRetry
        BY <1>0, <1>9 DEF ManagerOpens
    <3>2. ActuatorsTypeOK'
        BY <1>0, <1>9 DEF ManagerOpens
    <3> QED BY <1>0, <1>9, <3>1, <3>2 DEF LinkTypeOK, States, ManagerOpens, Tell, cable
  <2>2. Owned'
      BY <1>0, <1>9
         DEF Owned, LinkOpen, ManagerOpens, Tell, Steady, cable, ends, port, watch, told, late
  <2>3. Spent'
      BY <1>0, <1>9 DEF Spent, ManagerOpens, Tell, Steady, cable, ends, port, watch, told, late
  <2> QED BY <2>1, <2>2, <2>3 DEF LinkIInv
<1> QED BY <1>1, <1>2, <1>3, <1>4, <1>5, <1>6, <1>7, <1>8, <1>9 DEF Manager

\* The simulation thread, and the time that passes.
LEMMA TimeStep ==
    ASSUME LinkIInv, Simulation \/ Tick
    PROVE  LinkIInv'
<1> USE LinkAssumption
<1>0. /\ LinkTypeOK /\ Owned /\ Spent /\ ActuatorsTypeOK
      /\ UNCHANGED actuators => ActuatorsTypeOK'
    BY DEF LinkIInv, LinkTypeOK, actuators, shared, ActuatorsTypeOK
<1>1. CASE Simulation
  <2>1. LinkTypeOK'
    <3>1. ActuatorsTypeOK'
      <4>1. ASSUME NEW d \in {0, Stale + 1}, SimIterates(d) PROVE ActuatorsTypeOK'
        <5>1. d \in Nat
            BY ActuatorAssumption
        <5>2. cmdAge' \in 0..(Stale + 1)
            BY <1>0, <4>1, <5>1, AgedType DEF SimIterates
        <5> QED BY <1>0, <4>1, <5>2 DEF SimIterates, shared, ActuatorsTypeOK
      <4> QED BY <1>0, <1>1, <4>1, ProcessType DEF Simulation
    <3> QED BY <1>0, <1>1, <3>1 DEF LinkTypeOK, Simulation, cable, ends, port, watch, told, late
  <2>2. Owned'
      BY <1>0, <1>1 DEF Owned, LinkOpen, Simulation, cable, ends, port, watch, told, late
  <2>3. Spent'
      BY <1>0, <1>1 DEF Spent, Simulation, cable, ends, port, watch, told, late
  <2> QED BY <2>1, <2>2, <2>3 DEF LinkIInv
<1>2. CASE Tick
  <2>1. LinkTypeOK'
    <3>1. /\ wait' \in 0..BootBackoff /\ sinceVerdict' \in 0..BootBackoff
          /\ quiet' \in 0..(Timeout + 1)
        BY <1>0, <1>2 DEF Tick, Plus1, Minus1, LinkTypeOK
    <3> QED BY <1>0, <1>2, <3>1 DEF LinkTypeOK, Tick, cable, ends, port, told, late
  <2>2. Owned'
      BY <1>0, <1>2 DEF Owned, LinkOpen, Tick, cable, ends, port, told, late
  <2>3. Spent'
    <3>1. /\ sinceVerdict >= BootBackoff => sinceVerdict' >= BootBackoff
          /\ sinceVerdict + wait >= BootBackoff => sinceVerdict' + wait' >= BootBackoff
      <4>1. /\ wait' = Minus1(wait) /\ sinceVerdict' = Plus1(sinceVerdict, BootBackoff)
            /\ wait \in 0..BootBackoff /\ sinceVerdict \in 0..BootBackoff
          BY <1>0, <1>2 DEF Tick, LinkTypeOK
      <4> QED BY <4>1, Counters
    <3> QED BY <1>0, <1>2, <3>1 DEF Spent, Tick
  <2> QED BY <2>1, <2>2, <2>3 DEF LinkIInv
<1> QED BY <1>1, <1>2

\* No step of the manager, the receiver, the clock or a board disturbs the invariant.
LEMMA LinkNextInv == LinkIInv /\ [LinkNext]_linkVars => LinkIInv'
<1> SUFFICES ASSUME LinkIInv, [LinkNext]_linkVars PROVE LinkIInv'
    OBVIOUS
<1>1. CASE \/ \E b \in Boards \cup {NoBoard} : Replug(b)
           \/ \E m \in {"boot", "runs", "silent"} : Behave(m)
           \/ \E m \in Messages : Speak(m)
           \/ PortFails
    BY <1>1, EnvironmentStep
<1>2. CASE Receiver
    BY <1>2, ReceiverStep
<1>3. CASE Manager \/ ManagerOpens
    BY <1>3, ManagerStep
<1>4. CASE Simulation \/ Tick
    BY <1>4, TimeStep
<1>5. CASE StrayEnds
    BY <1>5, StrayStep
<1>6. CASE UNCHANGED linkVars
    BY <1>6 DEF linkVars, actuators, shared, cable, ends, port, watch, told, late, LinkIInv, LinkTypeOK,
       ActuatorsTypeOK, Owned, LinkOpen, Spent
<1> QED BY <1>1, <1>2, <1>3, <1>4, <1>5, <1>6 DEF LinkNext

------------------------------------------------------------------------------
(* The theorems.                                                           *)

\* The strengthening is invariant.
THEOREM LinkInvariance == LinkSpec => []LinkIInv
BY LinkInitInv, LinkNextInv, PTL DEF LinkSpec

\* Every variable keeps its type.
THEOREM LinkTypeCorrect == LinkSpec => []LinkTypeOK
<1>1. LinkIInv => LinkTypeOK
    BY DEF LinkIInv
<1> QED BY LinkInvariance, <1>1, PTL

\* While there is no link the browser was not last told "connected", and while there
\* is one it was: the manager joins the receiver of a link before it reports the loss,
\* and so it reports last, or a receiver that outlived its join did.
THEOREM StatusIsHonest == LinkSpec => []StatusHonest
<1>1. LinkIInv => StatusHonest
    BY DEF LinkIInv, Owned, StatusHonest
<1> QED BY LinkInvariance, <1>1, PTL

\* A port is not opened before the backoff that a verdict asked for is over, for
\* any length of it.
THEOREM BackoffIsKept == LinkSpec => BackoffKept
<1>1. LinkIInv => (manager = "scan" => sinceVerdict >= BootBackoff)
    BY DEF LinkIInv, Spent
<1>2. LinkIInv /\ [LinkNext]_linkVars
        => [manager = "scan" /\ manager' = "open" => sinceVerdict >= BootBackoff]_linkVars
    BY <1>1
<1> QED BY LinkInvariance, <1>2, PTL DEF LinkSpec, BackoffKept

==============================================================================
