------------------------------ MODULE Actuators ------------------------------
(***************************************************************************)
(* The motor commands of the flight controller on their way into the       *)
(* simulation: the bounded channel that the MAVLink receiver fills, and    *)
(* process_actuator_commands (loop_runner.rs), which the simulation thread *)
(* runs once per iteration, against the writers of the shared state that   *)
(* run on other threads (state.rs): a reset, and the connection manager    *)
(* that declares the flight controller lost.                               *)
(*                                                                         *)
(* The function is not atomic.  It takes the lock of the state twice when  *)
(* no command came, and holds the command it took in a local variable      *)
(* before it takes the lock, so another thread can write in between.       *)
(*                                                                         *)
(* Modules that run the thread extend this one.                            *)
(***************************************************************************)
EXTENDS Naturals, Sequences

CONSTANTS
    Stale,      \* ACTUATOR_STALE_TIMEOUT, in the time unit of the loop
    QueueCap    \* bound of the actuator channel

ASSUME ActuatorAssumption ==
    /\ Stale \in Nat
    /\ QueueCap \in Nat \ {0}

VARIABLES
    at,         \* where the simulation thread is in its iteration
    commands,   \* the actuator channel
    latest,     \* process_actuator_commands: the command it took, at "took"
    motors,     \* is a motor command above the idle threshold?
    armed,      \* SimulationStateInner.armed
    stall,      \* SimulationStateInner.board_stall
    cmdAge      \* time since the last command was applied, up to Stale + 1

shared    == <<motors, armed, stall>>
actuators == <<at, commands, latest, shared, cmdAge>>

\* ActuatorOutputs: do the motors turn, does the mode say armed?
Commands == [motors : BOOLEAN, armed : BOOLEAN]

None == [motors |-> FALSE, armed |-> FALSE]

ActuatorsTypeOK ==
    /\ at \in {"top", "begin", "took", "stale", "plan", "step", "emit"}
    /\ commands \in Seq(Commands) /\ Len(commands) <= QueueCap
    /\ latest \in Commands
    /\ motors \in BOOLEAN /\ armed \in BOOLEAN /\ stall \in BOOLEAN
    /\ cmdAge \in 0..(Stale + 1)

ActuatorsInit ==
    /\ at = "top"
    /\ commands = <<>>
    /\ latest = None
    /\ motors = FALSE /\ armed = FALSE /\ stall = FALSE
    /\ cmdAge = 0

------------------------------------------------------------------------------
(* The receiver.                                                           *)

\* A HIL_ACTUATOR_CONTROLS: try_send, so a full channel drops it.
Deliver(c) ==
    /\ commands' = IF Len(commands) < QueueCap THEN Append(commands, c)
                                               ELSE commands
    /\ UNCHANGED <<at, latest, shared, cmdAge>>

------------------------------------------------------------------------------
(* The simulation thread.                                                  *)

\* Time passes while the thread is between two iterations.
Aged(d) == IF cmdAge + d > Stale THEN Stale + 1 ELSE cmdAge + d

\* Everything in the channel is taken, the last command counts.
TakeCommand ==
    /\ at = "begin" /\ commands # <<>>
    /\ latest' = commands[Len(commands)]
    /\ commands' = <<>>
    /\ cmdAge' = 0
    /\ at' = "took"
    /\ UNCHANGED shared

\* Mutant of ApplyCommand: a command does not end the stall.
ApplyCommandInStall ==
    /\ at = "took"
    /\ motors' = latest.motors
    /\ armed' = latest.armed
    /\ latest' = None
    /\ at' = "plan"
    /\ UNCHANGED <<commands, stall, cmdAge>>

\* The lock is taken, and the command written.
ApplyCommand ==
    /\ at = "took"
    /\ motors' = latest.motors
    /\ armed' = latest.armed
    /\ stall' = FALSE
    /\ latest' = None
    /\ at' = "plan"
    /\ UNCHANGED <<commands, cmdAge>>

\* No command: under the read lock, do the motors turn?
CheckStale ==
    /\ at = "begin" /\ commands = <<>>
    /\ at' = IF motors /\ cmdAge > Stale THEN "stale" ELSE "plan"
    /\ UNCHANGED <<commands, latest, shared, cmdAge>>

\* The commands are late: under the write lock the motors stop and the stall is
\* flagged; the vehicle stays armed.
StopMotors ==
    /\ at = "stale"
    /\ motors' = FALSE
    /\ stall' = TRUE
    /\ at' = "plan"
    /\ UNCHANGED <<commands, latest, armed, cmdAge>>

ProcessCommands == TakeCommand \/ ApplyCommand \/ CheckStale \/ StopMotors

------------------------------------------------------------------------------
(* Other threads.                                                          *)

\* SimulationStateInner::reset and mark_fc_lost write the same three fields.
Quiet ==
    /\ motors' = FALSE /\ armed' = FALSE /\ stall' = FALSE
    /\ UNCHANGED <<at, commands, latest, cmdAge>>

\* mark_fc_lost: the flight controller is gone.
MarkFcLost == Quiet
=============================================================================
