------------------------------- MODULE SimLoop -------------------------------
(***************************************************************************)
(* One iteration of the simulation thread after its pacing (Timebase):     *)
(* the motor commands, the physics sub-steps with the contact to the       *)
(* ground, and the one HIL_SENSOR that leaves (loop_runner.rs), while      *)
(* other threads reset the vehicle, exchange the build and change the      *)
(* terrain.  Every sub-step takes the lock of the state for itself.        *)
(*                                                                         *)
(* Time is counted in physics steps.  Of the motion of the vehicle only    *)
(* its height over the ground is kept, in the bands that the contact model *)
(* tells apart, and whether it comes down fast enough for an impact; the   *)
(* integration changes both to anything.                                   *)
(***************************************************************************)
EXTENDS Actuators, Integers

CONSTANTS
    Budget,     \* sub-steps that an iteration may catch up
    MaxLost,    \* bound of the model: the longest gap, in steps
    Impact,     \* IMPACT_DURATION_US
    Slot,       \* SENSOR_50HZ_PERIOD_US
    ErrorAt,    \* DROP_ERROR_THRESHOLD
    MavCap      \* bound of the channel to the flight controller

ASSUME LoopAssumption ==
    /\ Budget \in Nat \ {0} /\ MaxLost \in Nat
    /\ Slot \in Nat \ {0} /\ ErrorAt \in Nat /\ MavCap \in Nat \ {0}
    /\ Impact \in Nat /\ Impact >= Budget

VARIABLES
    \* the time that has come due, and the sub-steps left of this iteration
    owed, left,
    \* the height over the ground, whether the ground is known there, and
    \* velocity[2] > IMPACT_VEL_THRESHOLD
    place, known, falling,
    \* ground_contact_active, and how long ground_impact_until_us is ahead
    contact, impulse,
    \* the simulation clock within its slot, and next_mag_us (next_baro_us)
    \* ahead of the clock
    inSlot, toSlot,
    \* total_ticks = 0
    first,
    \* messages in the channel to the bridge; channel_full_since as an age
    mav, full,
    \* the last HIL_SENSOR: where its acceleration came from, and its flags
    emission,
    \* history: what the last sub-step saw, an impact not reported yet, the
    \* time since the last impact, the samples flagged in this slot, the time
    \* since the last HIL_SENSOR that was accepted, and the error line
    seen, unfelt, hitAge, inThisSlot, sentAge, error

vehicle == <<place, known, falling>>
ground  == <<contact, impulse, seen, unfelt, hitAge>>
slots   == <<inSlot, toSlot, first, inThisSlot>>
output  == <<mav, full, emission, sentAge, error>>

loopVars == <<actuators, owed, left, vehicle, ground, slots, output>>

------------------------------------------------------------------------------
Places == {"touch", "near", "high"}    \* at or under; up to 0.10 m over; higher
Never == -1

LoopTypeOK ==
    /\ ActuatorsTypeOK
    /\ owed \in 0..(Budget + MaxLost) /\ left \in 0..Budget
    /\ place \in Places /\ known \in BOOLEAN /\ falling \in BOOLEAN
    /\ contact \in BOOLEAN /\ impulse \in 0..Impact
    /\ inSlot \in 0..(Slot - 1) /\ toSlot \in Int /\ toSlot <= Slot
    /\ first \in BOOLEAN
    /\ mav \in 0..MavCap /\ full \in Never..ErrorAt
    /\ emission \in [accel : {"none", "impulse", "rest", "mean"}, slow : BOOLEAN]
    /\ seen \in {"nothing", "touch", "near", "high", "unknown"}
    /\ unfelt \in BOOLEAN /\ hitAge \in 0..Impact
    /\ inThisSlot \in Nat
    /\ sentAge \in 0..ErrorAt /\ error \in BOOLEAN

AtMost(a, b) == IF a <= b THEN a ELSE b
Minus(a, b)  == IF a <= b THEN 0 ELSE a - b

LoopInit ==
    /\ ActuatorsInit
    /\ owed = 0 /\ left = 0
    /\ place = "touch" /\ known = TRUE /\ falling = FALSE
    /\ contact = TRUE /\ impulse = 0
    /\ inSlot = 0 /\ toSlot = 0 /\ first = TRUE
    /\ mav = 0 /\ full = Never
    /\ emission = [accel |-> "none", slow |-> FALSE]
    /\ seen = "nothing" /\ unfelt = FALSE /\ hitAge = Impact
    /\ inThisSlot = 0 /\ sentAge = 0 /\ error = FALSE

------------------------------------------------------------------------------
(* The simulation thread.                                                  *)

\* SimulationState::reset: the vehicle stands at the origin; what the loop keeps
\* for itself (contact, impulse, schedules) stays.
ResetVehicle ==
    /\ motors' = FALSE /\ armed' = FALSE /\ stall' = FALSE
    /\ place' = "touch" /\ falling' = FALSE

\* The loop wakes at its deadline or late, and may find a new build.
Wake(d) ==
    /\ at = "top"
    /\ at' = "begin"
    /\ owed' = d
    /\ cmdAge' = Aged(d)
    /\ full' = IF full = Never THEN Never ELSE AtMost(full + d, ErrorAt)
    /\ sentAge' = AtMost(sentAge + d, ErrorAt)
    /\ \/ UNCHANGED <<shared, place, falling>>
       \/ ResetVehicle
    /\ UNCHANGED <<commands, latest, left, known, ground, inSlot, toSlot, first,
                   inThisSlot, mav, emission, error>>

Actuate ==
    /\ ProcessCommands
    /\ UNCHANGED <<owed, left, vehicle, ground, slots, output>>

\* The plan of the timebase: the clock takes the whole time that is due, the
\* physics at most the budget.
PlanSteps ==
    /\ at = "plan"
    /\ at' = "step"
    /\ left' = AtMost(owed, Budget)
    /\ inSlot' = (inSlot + owed) % Slot
    /\ toSlot' = toSlot - owed
    /\ inThisSlot' = IF inSlot + owed >= Slot THEN 0 ELSE inThisSlot
    /\ UNCHANGED <<commands, latest, shared, cmdAge, owed, vehicle, ground,
                   first, output>>

\* The clock between the ends of two sub-steps: a gap comes before the first.
Elapsed == 1 + owed - AtMost(owed, Budget)
StepTime == IF left = AtMost(owed, Budget) THEN Elapsed ELSE 1

\* Unknown ground is never ground to stand on.
OnGround == known /\ place = "touch"

\* Physics is skipped only for motors at rest on the ground.
Integrates == motors \/ ~OnGround

\* Mutant of Release: where the ground is not known the contact stays.
ReleaseKnown(p) == known /\ p = "high"

\* The contact ends over ten centimetres, and where the ground is not known.
Release(p) == ~known \/ p = "high"

\* An impact starts the impulse unless one is being reported.
ImpulseAfter(hard) ==
    LET rest == Minus(impulse, StepTime)
    IN  IF hard /\ rest = 0 THEN Impact ELSE rest

\* step_physics: p is where the integration brings the vehicle, relative to the
\* ground sampled before it, and fast whether it comes down at speed there.  A step
\* that is skipped keeps both: motors at rest and ground that has come up under a
\* falling vehicle are an impact, too.
SubStep(p, fast) ==
    LET touches == known /\ p = "touch"
        hard    == touches /\ fast
    IN
    /\ at = "step" /\ left > 0
    /\ Integrates \/ (p = place /\ fast = falling)
    /\ left' = left - 1
    /\ contact' = (touches \/ (contact /\ ~Release(p)))
    /\ impulse' = ImpulseAfter(hard)
    /\ unfelt' = (unfelt \/ (hard /\ impulse <= StepTime))
    /\ hitAge' = IF hard /\ impulse <= StepTime THEN 0
                                                ELSE AtMost(hitAge + StepTime, Impact)
    /\ seen' = IF known THEN p ELSE "unknown"
    \* a clamped vehicle stays where it is, another meets what ground there is
    /\ falling' = (fast /\ ~touches)
    /\ IF touches THEN place' = "touch" /\ UNCHANGED known
                  ELSE place' \in Places /\ known' \in BOOLEAN
    /\ at' = IF left = 1 THEN "emit" ELSE "step"
    /\ UNCHANGED <<commands, latest, shared, cmdAge, owed, slots, output>>

\* Mutant of Accel: the resting sample is substituted before the impulse.
AccelRestFirst ==
    IF contact THEN "rest" ELSE IF impulse > 0 THEN "impulse" ELSE "mean"

\* ground_override: the impulse, else the resting sample, else the mean of the
\* sub-steps.
Accel == IF impulse > 0 THEN "impulse" ELSE IF contact THEN "rest" ELSE "mean"

\* Mutant of NextSlot: one period after the last update, off the grid.
NextSlotPeriod == toSlot + Slot

\* next_slot_us: the first point of the grid after the clock.
NextSlot == Slot - inSlot

\* try_send of the HIL_SENSOR: a channel that stays full is an error once per
\* threshold.
SendSensor(room) ==
    IF room
      THEN full' = Never /\ sentAge' = 0 /\ error' = FALSE
      ELSE LET since == IF full = Never THEN 0 ELSE full
           IN  /\ error' = (since >= ErrorAt)
               /\ full' = IF since >= ErrorAt THEN 0 ELSE since
               /\ UNCHANGED sentAge

\* sample_and_send_sensors: one HIL_SENSOR per iteration, and a HIL_GPS when the
\* receiver of the model has one; what does not fit is dropped.
Emit(gps) ==
    LET due  == toSlot <= 0
        room == mav < MavCap
        sent == IF room THEN mav + 1 ELSE mav
    IN
    /\ at = "emit"
    /\ at' = "top"
    /\ emission' = [accel |-> Accel, slow |-> due \/ first]
    /\ unfelt' = (unfelt /\ Accel # "impulse")
    /\ toSlot' = IF due THEN NextSlot ELSE toSlot
    /\ first' = FALSE
    /\ inThisSlot' = IF due \/ first THEN inThisSlot + 1 ELSE inThisSlot
    /\ SendSensor(room)
    /\ mav' = IF gps THEN AtMost(sent + 1, MavCap) ELSE sent
    /\ UNCHANGED <<commands, latest, shared, cmdAge, owed, left, vehicle, contact,
                   impulse, seen, hitAge, inSlot>>

------------------------------------------------------------------------------
(* Other threads.                                                          *)

\* The receiver hands over a command.
Receive(c) == Deliver(c) /\ UNCHANGED <<owed, left, vehicle, ground, slots, output>>

\* RTL or a vehicle reset.
Reset ==
    /\ ResetVehicle
    /\ UNCHANGED <<at, commands, latest, cmdAge, owed, left, known, ground, slots,
                   output>>

\* The connection manager declares the flight controller lost.
Lost == MarkFcLost /\ UNCHANGED <<owed, left, vehicle, ground, slots, output>>

\* Tiles arrive or are evicted: another ground under the vehicle, or none.
ChangeTerrain ==
    /\ place' \in Places /\ known' \in BOOLEAN
    /\ UNCHANGED <<actuators, owed, left, falling, ground, slots, output>>

\* The bridge to the flight controller takes a message.
TakeMessage ==
    /\ mav > 0
    /\ mav' = mav - 1
    /\ UNCHANGED <<actuators, owed, left, vehicle, ground, slots, full, emission,
                   sentAge, error>>

LoopNext ==
    \/ \E d \in 1..(Budget + MaxLost) : Wake(d)
    \/ Actuate
    \/ PlanSteps
    \/ \E p \in Places, fast \in BOOLEAN : SubStep(p, fast)
    \/ \E gps \in BOOLEAN : Emit(gps)
    \/ \E c \in Commands : Receive(c)
    \/ Reset \/ Lost \/ ChangeTerrain \/ TakeMessage

LoopSpec == LoopInit /\ [][LoopNext]_loopVars

------------------------------------------------------------------------------
(* Properties.                                                             *)

\* The stall guard: the physics never steps on motor commands that were late
\* when the iteration looked, and the flag is up only while the motors stand still
\* and the last command is late (or the thread is about to write a new one),
\* whatever a reset or a lost flight controller writes in between.
\* (process_actuator_commands)
StallGuard ==
    /\ stall => ~motors /\ (cmdAge > Stale \/ at = "took")
    /\ at \in {"step", "emit"} /\ motors => cmdAge <= Stale

\* Every impact is reported: the iteration in which the vehicle hits the ground
\* already emits the impulse, however many sub-steps it catches up and whether they
\* integrate or are skipped, and the impulse is not reported beyond its duration of
\* simulation time.  (step_physics, impact_active, ground_override)
ImpactFelt ==
    /\ at = "top" => ~unfelt
    /\ impulse > 0 => hitAge < Impact

\* The accelerometer does not claim the ground where there is none: the resting
\* sample is sent only when the last sub-step was on known ground or within the
\* ten centimetres of the take-off, and the mean of the flight never while it
\* stood on the ground.  (ground_override, the latch in step_physics)
EmissionHonest ==
    at = "top" =>
        /\ emission.accel = "rest" => seen \in {"touch", "near"}
        /\ emission.accel = "mean" => seen # "touch"

\* Compass and barometer keep their 50 Hz: in every slot of the grid in which
\* the loop emits at all, one sample, the first, carries them, whatever gaps and
\* new builds come in between.  (next_slot_us, fields_updated)
SlotsKept == at = "top" /\ ~first => inThisSlot = 1

\* "Channel full for more than two seconds" is only said when no HIL_SENSOR was
\* accepted for that long.  (channel_full_since)
FullLineHonest == error => sentAge >= ErrorAt
=============================================================================
