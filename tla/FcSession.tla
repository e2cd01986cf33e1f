------------------------------ MODULE FcSession ------------------------------
(***************************************************************************)
(* The flow-controller session of the daemon and the three flows that      *)
(* share it: ConfigureBuild requests (build_config.rs), vehicle resets     *)
(* (vehicle_reset.rs) and the parameter re-push after a reconnect          *)
(* (build_config.rs, started by the connection manager of main.rs), next   *)
(* to the simulation thread that applies builds and the connection manager *)
(* that loses and finds the board.                                         *)
(*                                                                         *)
(* A flow is an asynchronous task: each await is a point where every other *)
(* actor may step, so each stretch between two awaits is an action.  The   *)
(* flow controller, its estimator (EKF2) and the link are external; their  *)
(* actions say what this code relies on and no more.                       *)
(***************************************************************************)
EXTENDS Integers, Sequences

CONSTANTS
    Configures,     \* ids of the ConfigureBuild requests in flight
    Resets,         \* ids of the vehicle resets in flight
    Repushes,       \* ids of the re-pushes in flight: bounds how many reconnects overlap
    Builds,         \* the builds (with their flight location) a request may name
    NoBuild,        \* no build: an empty cache, the default parameters
    NoFlow,         \* nobody holds the session
    ShellBound,     \* bound of the model: how many shell commands are outstanding
    NParams,        \* how many parameters a push writes for a build that hovers
    Hovering,       \* the builds whose thrust exceeds their weight
    SimOnly         \* --sim-only: the daemon runs without a flight controller

Flows == Configures \cup Resets \cup Repushes

ASSUME FlowsAssumption ==
    /\ Configures \cap Resets = {}
    /\ Configures \cap Repushes = {}
    /\ Resets \cap Repushes = {}
    /\ NoFlow \notin Flows

ASSUME BuildsAssumption ==
    /\ NoBuild \notin Builds
    /\ Hovering \subseteq Builds

ASSUME NParamsAssumption == NParams \in Nat \ {0}

ASSUME ShellBoundAssumption == ShellBound \in Nat

ASSUME SimOnlyAssumption == SimOnly \in BOOLEAN

Params == 1..NParams

\* The last parameter is MPC_THR_HOVER: a build that cannot hover has no value
\* for it, and the board keeps the one it holds.
Pushed(b) == IF b \in Hovering THEN NParams ELSE NParams - 1

------------------------------------------------------------------------------
VARIABLES
    \* FcSession.lock, a FIFO mutex that hands over to its first waiter
    holder, waiters,
    \* per flow: where it is, and the build it works on
    pc, build,
    \* the parameters the running push has had acknowledged so far
    acked,
    \* BuildConfigHandler: last_pid_fingerprint and last_verified_params
    fingerprint, lastVerified,
    \* where the flight origin and the terrain datum are anchored
    origin,
    \* the simulation thread: the live build, the bounded(1) channel to it,
    \* whether config_generation moved since the holder read it, the armed flag
    \* it keeps, and whether it runs at all
    simBuild, channel, moved, simArmed, running,
    \* the board: the connection manager's view of it, its parameters in RAM, its
    \* estimator, and the commands of its shell whose prompt is still to come
    link, ram, ekf, shell,
    \* history: since the holder took the session, something outside it disturbed
    \* the vehicle, its parameters or its estimator; and a prompt ended another
    \* command of the holder's than its own
    outside, crossed

lockState == <<holder, waiters>>
history   == <<outside, crossed>>
flowState == <<pc, build, acked, history>>
caches    == <<fingerprint, lastVerified>>
simState  == <<simBuild, channel, moved, simArmed, running>>
board     == <<link, ram, ekf, shell>>

vars == <<holder, waiters, pc, build, acked, fingerprint, lastVerified, origin,
          simBuild, channel, moved, simArmed, running, link, ram, ekf, shell,
          outside, crossed>>

BuildOrNone == Builds \cup {NoBuild}

\* The parameters of b are on the board.
Holds(b) == \A i \in 1..Pushed(b) : ram[i] = b

\* FcSession::px4_reports_armed
Px4ReportsArmed == ~ SimOnly /\ simArmed

\* The places of a flow that owns the session, and those of one that pushes.
InSession == {"entered", "granted", "fetching", "pushing", "verified", "moving",
              "handing", "applying", "resetting", "stopping", "stopSent",
              "starting", "startSent", "readying"}
Places == {"idle", "door", "sleeping", "waiting"} \cup InSession

Init ==
    /\ holder = NoFlow
    /\ waiters = <<>>
    /\ pc = [f \in Flows |-> "idle"]
    /\ build = [f \in Flows |-> NoBuild]
    /\ acked = 0
    /\ fingerprint = NoBuild
    /\ lastVerified = NoBuild
    /\ origin = NoBuild
    /\ simBuild = NoBuild
    /\ channel = NoBuild
    /\ moved = FALSE
    /\ simArmed = FALSE
    /\ running = TRUE
    /\ link = "searching"
    /\ ram = [i \in Params |-> NoBuild]
    /\ ekf = "fresh"
    /\ shell = <<>>
    /\ outside = FALSE
    /\ crossed = FALSE

------------------------------------------------------------------------------
(* The session.                                                            *)

Goto(f, place) == pc' = [pc EXCEPT ![f] = place]

\* Mutant of Release: the mutex is freed and its waiters are not woken.
ReleaseWakesNobody(f) ==
    /\ holder' = NoFlow
    /\ waiters' = <<>>
    /\ Goto(f, "idle")
    /\ build' = [build EXCEPT ![f] = NoBuild]
    /\ acked' = 0
    /\ moved' = FALSE
    /\ outside' = FALSE
    /\ crossed' = FALSE

\* The guard is dropped: the mutex passes to its first waiter, if any.
Release(f) ==
    /\ holder' = IF waiters = <<>> THEN NoFlow ELSE Head(waiters)
    /\ waiters' = IF waiters = <<>> THEN <<>> ELSE Tail(waiters)
    /\ pc' = [g \in Flows |->
                IF g = f THEN "idle"
                ELSE IF waiters # <<>> /\ g = Head(waiters) THEN "granted"
                ELSE pc[g]]
    /\ build' = [build EXCEPT ![f] = NoBuild]
    /\ acked' = 0
    /\ moved' = FALSE
    /\ outside' = FALSE
    /\ crossed' = FALSE

\* begin_unless_armed, the check at the door: a request is refused while PX4
\* reports armed, and otherwise goes on to the lock.
RequestConfigure(f, b) ==
    /\ f \in Configures
    /\ pc[f] = "idle"
    /\ ~ Px4ReportsArmed
    /\ Goto(f, "door")
    /\ build' = [build EXCEPT ![f] = b]
    /\ UNCHANGED <<lockState, acked, history, caches, origin, simState, board>>

RequestReset(f) ==
    /\ f \in Resets
    /\ pc[f] = "idle"
    /\ ~ Px4ReportsArmed
    /\ Goto(f, "door")
    /\ UNCHANGED <<lockState, build, acked, history, caches, origin, simState, board>>

\* try_begin: the lock is free and taken, ...
TakeSession(f) ==
    /\ pc[f] = "door"
    /\ holder = NoFlow
    /\ holder' = f
    /\ Goto(f, "entered")
    /\ UNCHANGED <<waiters, build, acked, history, caches, origin, simState, board>>

\* ... or another flow has it and the request is refused as busy.
RefuseBusy(f) ==
    /\ pc[f] = "door"
    /\ holder # NoFlow
    /\ Goto(f, "idle")
    /\ build' = [build EXCEPT ![f] = NoBuild]
    /\ UNCHANGED <<lockState, acked, history, caches, origin, simState, board>>

\* begin_unless_armed, the check inside: the vehicle may have armed meanwhile.
CheckArmedInside(f) ==
    /\ pc[f] = "entered"
    /\ IF Px4ReportsArmed
         THEN Release(f) /\ UNCHANGED <<simBuild, channel, simArmed, running>>
         ELSE /\ Goto(f, IF f \in Configures THEN "fetching" ELSE "resetting")
              /\ UNCHANGED <<lockState, build, acked, history, simState>>
    /\ UNCHANGED <<caches, origin, board>>

------------------------------------------------------------------------------
(* ConfigureBuild: BuildConfigHandler::handle and apply.                   *)

\* Mutant of FailConfigure: a failed push leaves the fingerprint it found.
FailKeepsFingerprint(f) ==
    /\ f \in Configures
    /\ UNCHANGED caches
    /\ Release(f)

\* Every failure forgets the fingerprint, drops the guard and reports Error.
FailConfigure(f) ==
    /\ f \in Configures
    /\ fingerprint' = NoBuild
    /\ UNCHANGED lastVerified
    /\ Release(f)

\* A component cannot be fetched, has no usable specs, or the location is invalid.
FetchFails(f) ==
    /\ pc[f] = "fetching"
    /\ FailConfigure(f)
    /\ UNCHANGED <<origin, simBuild, channel, simArmed, running, board>>

\* Mutant of FetchSpecs: the origin is anchored before the push.
FetchSpecsAnchors(f) ==
    /\ pc[f] = "fetching"
    /\ Goto(f, IF SimOnly \/ fingerprint = build[f] THEN "verified" ELSE "pushing")
    /\ origin' = build[f]
    /\ UNCHANGED <<lockState, build, acked, history, caches, simState, board>>

\* The specs are there. The push is skipped without a board, and when the
\* fingerprint says that the board holds this very build.
FetchSpecs(f) ==
    /\ pc[f] = "fetching"
    /\ Goto(f, IF SimOnly \/ fingerprint = build[f] THEN "verified" ELSE "pushing")
    /\ UNCHANGED <<lockState, build, acked, history, caches, origin, simState, board>>

\* PARAM_SET and the PARAM_VALUE that confirms it.
PushParam(f) ==
    /\ pc[f] = "pushing"
    /\ acked < Pushed(build[f])
    /\ link = "connected"
    /\ ram' = [ram EXCEPT ![acked + 1] = build[f]]
    /\ acked' = acked + 1
    /\ UNCHANGED <<lockState, pc, build, history, caches, origin, simState, link, ekf, shell>>

\* No attempt was confirmed. The parameter may have landed all the same.
PushFails(f) ==
    /\ pc[f] = "pushing"
    /\ acked < Pushed(build[f])
    /\ \/ UNCHANGED ram
       \/ link = "connected" /\ ram' = [ram EXCEPT ![acked + 1] = build[f]]
    /\ IF f \in Configures
         THEN FailConfigure(f)
         ELSE Release(f) /\ UNCHANGED caches
    /\ UNCHANGED <<origin, simBuild, channel, simArmed, running, link, ekf, shell>>

\* Every parameter is confirmed. A re-push reports Ready and is done.
FinishPush(f) ==
    /\ pc[f] = "pushing"
    /\ acked = Pushed(build[f])
    /\ fingerprint' = build[f]
    /\ lastVerified' = build[f]
    /\ IF f \in Configures
         THEN /\ Goto(f, "verified")
              /\ acked' = 0
              /\ UNCHANGED <<lockState, build, history, moved>>
         ELSE Release(f)
    /\ UNCHANGED <<origin, simBuild, channel, simArmed, running, board>>

\* A pilot can arm from the RC while the parameters are pushed.
CheckArmedAfterPush(f) ==
    /\ pc[f] = "verified"
    /\ IF Px4ReportsArmed
         THEN FailConfigure(f)
         ELSE /\ Goto(f, "moving")
              /\ UNCHANGED <<lockState, build, acked, history, caches, moved>>
    /\ UNCHANGED <<origin, simBuild, channel, simArmed, running, board>>

\* anchor_origin, and config_generation is read.
AnchorOrigin(f) ==
    /\ pc[f] = "moving"
    /\ origin' = build[f]
    /\ moved' = FALSE
    /\ Goto(f, "handing")
    /\ UNCHANGED <<lockState, build, acked, history, caches, simBuild, channel,
                   simArmed, running, board>>

\* config_tx.send blocks while an earlier build is still in the channel.
SendBuild(f) ==
    /\ pc[f] = "handing"
    /\ running
    /\ channel = NoBuild
    /\ channel' = build[f]
    /\ Goto(f, "applying")
    /\ UNCHANGED <<lockState, build, acked, history, caches, origin, simBuild,
                   moved, simArmed, running, board>>

\* The simulation thread is gone and its end of the channel with it.
SendFails(f) ==
    /\ pc[f] = "handing"
    /\ ~ running
    /\ FailConfigure(f)
    /\ UNCHANGED <<origin, simBuild, channel, simArmed, running, board>>

\* Mutant of ConfigApplied: the flow does not wait for the build to go live.
ConfigAssumedApplied(f) ==
    /\ pc[f] = "applying"
    /\ IF SimOnly
         THEN Release(f) /\ UNCHANGED <<simBuild, channel, simArmed, running>>
         ELSE /\ Goto(f, "stopping")
              /\ UNCHANGED <<lockState, build, acked, history, simState>>
    /\ UNCHANGED <<caches, origin, board>>

\* wait_for_config_applied: the generation moved.
ConfigApplied(f) ==
    /\ pc[f] = "applying"
    /\ moved
    /\ IF SimOnly
         THEN Release(f) /\ UNCHANGED <<simBuild, channel, simArmed, running>>
         ELSE /\ Goto(f, "stopping")
              /\ UNCHANGED <<lockState, build, acked, history, simState>>
    /\ UNCHANGED <<caches, origin, board>>

\* ... or CONFIG_APPLY_TIMEOUT passed first. The build stays in the channel.
ConfigApplyTimeout(f) ==
    /\ pc[f] = "applying"
    /\ ~ moved
    /\ FailConfigure(f)
    /\ UNCHANGED <<origin, simBuild, channel, simArmed, running, board>>

------------------------------------------------------------------------------
(* Resets, and what they share with a configure: the EKF2 restart.         *)

\* The vehicle jumps to the start, under an estimator that tracked it elsewhere.
Jump == ekf' = IF ekf = "fresh" THEN "stale" ELSE ekf

\* SimulationState::reset. In sim-only mode the reset is now Ready.
ResetVehicle(f) ==
    /\ pc[f] = "resetting"
    /\ simArmed' = FALSE
    /\ Jump
    /\ IF SimOnly
         THEN Release(f)
         ELSE Goto(f, "stopping") /\ UNCHANGED <<lockState, build, acked, history, moved>>
    /\ UNCHANGED <<caches, origin, simBuild, channel, running, link, ram, shell>>

\* run_nsh: "ekf2 stop" and "ekf2 start" are queued and sent, ...
SendStop(f) ==
    /\ pc[f] = "stopping"
    /\ link = "connected"
    /\ Len(shell) < ShellBound
    /\ shell' = Append(shell, "stop")
    /\ Goto(f, "stopSent")
    /\ UNCHANGED <<lockState, build, acked, history, caches, origin, simState,
                   link, ram, ekf>>

SendStart(f) ==
    /\ pc[f] = "starting"
    /\ link = "connected"
    /\ Len(shell) < ShellBound
    /\ shell' = Append(shell, "start")
    /\ Goto(f, "startSent")
    /\ UNCHANGED <<lockState, build, acked, history, caches, origin, simState,
                   link, ram, ekf>>

\* ... and confirmed by a prompt, which carries no id.  When earlier commands are
\* outstanding it is the prompt of the first of them.  "ekf2 stop" is accepted
\* whatever was printed, "ekf2 start" with no error line (Prompt says which).
Confirmed(f) ==
    /\ crossed' = (crossed \/ Len(shell) > 1)
    /\ Goto(f, IF pc[f] = "stopSent" THEN "starting" ELSE "readying")
    /\ UNCHANGED <<lockState, build, acked, outside, caches, simBuild, channel, moved,
                   simArmed, running>>

\* The restart is given up, and whatever was sent goes on.
RestartGivenUp(f) ==
    /\ IF f \in Configures
         THEN FailConfigure(f)
         ELSE Release(f) /\ UNCHANGED caches
    /\ UNCHANGED <<simBuild, channel, simArmed, running>>

\* No room in the NSH queue, no link, or no prompt within NSH_REPLY_TIMEOUT.
RestartFails(f) ==
    /\ pc[f] \in {"stopping", "stopSent", "starting", "startSent"}
    /\ RestartGivenUp(f)
    /\ UNCHANGED <<origin, board>>

\* wait_for_px4_ready answers Healthy or Unknown: the flow reports Ready ...
ReportReady(f) ==
    /\ pc[f] = "readying"
    /\ Release(f)
    /\ UNCHANGED <<caches, origin, simBuild, channel, simArmed, running, board>>

\* ... or PX4 could not arm within ready_timeout.
NeverReady(f) ==
    /\ pc[f] = "readying"
    /\ IF f \in Configures
         THEN FailConfigure(f)
         ELSE Release(f) /\ UNCHANGED caches
    /\ UNCHANGED <<origin, simBuild, channel, simArmed, running, board>>

------------------------------------------------------------------------------
(* The re-push: repush_if_configured.                                      *)

\* Three seconds after the reconnect it takes the session or queues for it.
QueueRepush(f) ==
    /\ f \in Repushes
    /\ pc[f] = "sleeping"
    /\ IF holder = NoFlow
         THEN holder' = f /\ Goto(f, "granted") /\ UNCHANGED waiters
         ELSE waiters' = Append(waiters, f) /\ Goto(f, "waiting") /\ UNCHANGED holder
    /\ UNCHANGED <<build, acked, history, caches, origin, simState, board>>

\* What to push is read with the session held; without it there is nothing to do.
RepushSnapshot(f) ==
    /\ f \in Repushes
    /\ pc[f] = "granted"
    /\ IF lastVerified = NoBuild
         THEN Release(f) /\ UNCHANGED caches
         ELSE /\ build' = [build EXCEPT ![f] = lastVerified]
              /\ fingerprint' = NoBuild
              /\ Goto(f, "pushing")
              /\ UNCHANGED <<lockState, acked, history, lastVerified, moved>>
    /\ UNCHANGED <<origin, simBuild, channel, simArmed, running, board>>

------------------------------------------------------------------------------
(* The simulation thread and the commands that reach it past the session.  *)

\* The loop takes a build from the channel: reconfigure resets the vehicle and
\* bumps config_generation last.
SimApply ==
    LET own == holder # NoFlow => pc[holder] = "applying" /\ build[holder] = channel
    IN  /\ running
        /\ channel # NoBuild
        /\ simBuild' = channel
        /\ channel' = NoBuild
        /\ simArmed' = FALSE
        /\ Jump
        /\ moved' = (\E f \in Configures : pc[f] \in {"handing", "applying"})
        /\ outside' = (outside \/ ~ own)
        /\ UNCHANGED <<lockState, pc, build, acked, crossed, caches, origin, running,
                       link, ram, shell>>

\* An actuator command carries PX4's armed flag (sim-only: the hover generator's).
ActuatorCommand ==
    /\ running
    /\ SimOnly \/ link = "connected"
    /\ simArmed' = ~ simArmed
    /\ UNCHANGED <<lockState, flowState, caches, origin, simBuild, channel, moved,
                   running, board>>

\* The Rtl command resets the vehicle without the session.
Rtl ==
    /\ simArmed' = FALSE
    /\ Jump
    /\ outside' = (holder # NoFlow)
    /\ UNCHANGED <<lockState, pc, build, acked, crossed, caches, origin, simBuild,
                   channel, moved, running, link, ram, shell>>

\* EmergencyStop: the loop ends, and a build still in the channel is lost.
EmergencyStop ==
    /\ running
    /\ running' = FALSE
    /\ channel' = NoBuild
    /\ UNCHANGED <<lockState, flowState, caches, origin, simBuild, moved, simArmed, board>>

------------------------------------------------------------------------------
(* The board and the connection manager.                                   *)

\* The board restarts: its RAM holds whatever its flash held, its estimator
\* starts by itself, and the link falls silent.
Reboot ==
    /\ link = "connected"
    /\ link' = "silent"
    /\ ram' \in [Params -> BuildOrNone]
    /\ ekf' = "fresh"
    /\ shell' = <<>>
    /\ outside' = (holder # NoFlow)
    /\ UNCHANGED <<lockState, pc, build, acked, crossed, caches, origin, simState>>

\* The shell ends the first of its commands.  An estimator that runs is not
\* started again, and a start can fail.
Effect(cmd, failed) ==
    ekf' = IF cmd = "stop" THEN "stopped"
           ELSE IF cmd = "start" /\ ekf = "stopped" /\ ~ failed THEN "fresh"
           ELSE ekf

Awaits(f) == pc[f] \in {"stopSent", "startSent"}

\* Its prompt comes, with an error line or none.  It ends the command that the NSH
\* task has pending: the holder's, unless the task is not there yet.
Prompt(failed) ==
    /\ shell # <<>>
    /\ link \in {"connected", "silent"}
    /\ Effect(Head(shell), failed)
    /\ shell' = Tail(shell)
    /\ \/ \E f \in Flows :
            /\ Awaits(f)
            /\ IF failed /\ pc[f] = "startSent" THEN RestartGivenUp(f) ELSE Confirmed(f)
       \/ /\ \A f \in Flows : Awaits(f) => Len(shell) > 1
          /\ UNCHANGED <<lockState, flowState, caches, simState>>
    /\ UNCHANGED <<origin, link, ram>>

\* Its output is lost, or the command itself was.
Unheard ==
    /\ shell # <<>>
    /\ \/ \E failed \in BOOLEAN : Effect(Head(shell), failed)
       \/ UNCHANGED ekf
    /\ shell' = Tail(shell)
    /\ UNCHANGED <<lockState, flowState, caches, origin, simState, link, ram>>

\* A command of a browser goes to the shell, and may be given up before its prompt;
\* but not while the NSH task, which takes one at a time, has a flow's pending.
BrowserCommand ==
    /\ link = "connected"
    /\ Len(shell) < ShellBound
    /\ \A f \in Flows : ~ Awaits(f)
    /\ shell' = Append(shell, "other")
    /\ UNCHANGED <<lockState, flowState, caches, origin, simState, link, ram, ekf>>

LinkDrops ==
    /\ link = "connected"
    /\ link' = "silent"
    /\ UNCHANGED <<lockState, flowState, caches, origin, simState, ram, ekf, shell>>

\* mark_fc_lost, and from here on a connection is a reconnection.
NoticeLoss ==
    /\ link = "silent"
    /\ link' = "retrying"
    /\ simArmed' = FALSE
    /\ UNCHANGED <<lockState, flowState, caches, origin, simBuild, channel, moved,
                   running, ram, ekf, shell>>

\* retry_count counts failed scans too, before the first connection as well.
ScanFails ==
    /\ link = "searching"
    /\ ~ SimOnly
    /\ link' = "retrying"
    /\ UNCHANGED <<lockState, flowState, caches, origin, simState, ram, ekf, shell>>

Connect ==
    /\ link = "searching"
    /\ ~ SimOnly
    /\ link' = "connected"
    /\ UNCHANGED <<lockState, flowState, caches, origin, simState, ram, ekf, shell>>

\* The fingerprint is forgotten at once; the re-push waits three seconds.
Reconnect ==
    /\ link = "retrying"
    /\ link' = "connected"
    /\ fingerprint' = NoBuild
    /\ \E f \in Repushes : pc[f] = "idle" /\ Goto(f, "sleeping")
    /\ UNCHANGED <<lockState, build, acked, history, lastVerified, origin, simState,
                   ram, ekf, shell>>

------------------------------------------------------------------------------
\* What a flow does by itself, once it was started.
FlowStep(f) ==
    \/ TakeSession(f) \/ RefuseBusy(f) \/ CheckArmedInside(f)
    \/ FetchFails(f) \/ FetchSpecs(f)
    \/ PushParam(f) \/ PushFails(f) \/ FinishPush(f)
    \/ CheckArmedAfterPush(f) \/ AnchorOrigin(f)
    \/ SendBuild(f) \/ SendFails(f) \/ ConfigApplied(f) \/ ConfigApplyTimeout(f)
    \/ ResetVehicle(f) \/ SendStop(f) \/ SendStart(f) \/ RestartFails(f)
    \/ ReportReady(f) \/ NeverReady(f)
    \/ QueueRepush(f) \/ RepushSnapshot(f)

Request(f) ==
    \/ \E b \in Builds : RequestConfigure(f, b)
    \/ RequestReset(f)

Environment ==
    \/ ActuatorCommand \/ Rtl \/ EmergencyStop
    \/ \E failed \in BOOLEAN : Prompt(failed)
    \/ Unheard \/ BrowserCommand
    \/ Reboot \/ LinkDrops \/ NoticeLoss \/ ScanFails \/ Connect \/ Reconnect

Next ==
    \/ \E f \in Flows : Request(f) \/ FlowStep(f)
    \/ SimApply
    \/ Environment

\* The runtime polls every task that can go on, every wait in a flow has a
\* deadline, and the simulation thread runs its loop; nobody has to send a
\* request or to plug the board in.
Fairness ==
    /\ \A f \in Flows : WF_vars(FlowStep(f))
    /\ WF_vars(SimApply)

Spec == Init /\ [][Next]_vars

FairSpec == Spec /\ Fairness

------------------------------------------------------------------------------
TypeOK ==
    /\ holder \in Flows \cup {NoFlow}
    /\ waiters \in Seq(Repushes)
    /\ pc \in [Flows -> Places]
    /\ build \in [Flows -> BuildOrNone]
    /\ acked \in 0..NParams
    /\ fingerprint \in BuildOrNone
    /\ lastVerified \in BuildOrNone
    /\ origin \in BuildOrNone
    /\ simBuild \in BuildOrNone
    /\ channel \in BuildOrNone
    /\ moved \in BOOLEAN
    /\ simArmed \in BOOLEAN
    /\ running \in BOOLEAN
    /\ link \in {"searching", "connected", "silent", "retrying"}
    /\ ram \in [Params -> BuildOrNone]
    /\ ekf \in {"fresh", "stale", "stopped"}
    /\ shell \in Seq({"stop", "start", "other"})
    /\ outside \in BOOLEAN
    /\ crossed \in BOOLEAN

\* At most one reset, configure or re-push works on the board at a time, across
\* refusals, hand-overs and every early return.  (FcSession: "at most one
\* reset, configure or re-push runs at a time".)
SessionExclusive ==
    \A f, g \in Flows :
        pc[f] \in InSession /\ pc[g] \in InSession => f = g

\* A re-push that the connection manager started and that has not read yet
\* what to push.
RepushPending == \E f \in Repushes : pc[f] \in {"sleeping", "waiting", "granted"}

\* While nobody is writing parameters and no re-push is due, a remembered
\* fingerprint is never a lie: a connected board holds every parameter of the
\* build it names.  The next ConfigureBuild of that build skips its push on the
\* strength of it, so a stale fingerprint flies a build on foreign gains.
FingerprintHonest ==
    fingerprint # NoBuild /\ link = "connected"
        => \/ Holds(fingerprint)
           \/ \E f \in Flows : pc[f] = "pushing"
           \/ RepushPending

\* The flight origin and the build the simulation flies never part for good:
\* when they differ, the build that belongs to the origin is on its way to the
\* loop.  (BuildConfigHandler::handle: a failure leaves the previous location,
\* physics and vehicle in effect, or the new ones, and no mixture.)
OriginMatchesBuild ==
    running =>
        \/ origin = simBuild
        \/ origin = channel
        \/ \E f \in Configures : pc[f] \in {"handing", "applying"} /\ build[f] = origin

\* What stands behind a Ready, unless something outside the session interfered
\* while the flow ran: a configure leaves its build in the simulation, at its
\* origin and in the cache a reconnect restores, and on the board (or a re-push
\* of it due); and a configure and a reset leave an estimator that was started
\* after the vehicle last jumped, unless a prompt confirmed one of their commands
\* that was another's: prompts carry no id.  (BuildConfigHandler::apply,
\* reset_steps, restart_ekf2)
ReadyCoherent ==
    \A f \in Flows : pc[f] = "readying" /\ ~ outside =>
        /\ crossed \/ ekf = "fresh"
        /\ f \in Configures =>
             /\ simBuild = build[f]
             /\ origin = build[f]
             /\ lastVerified = build[f]
             /\ Holds(build[f]) \/ RepushPending

\* Every flow that was started ends: none waits for the session forever, and
\* the re-push that a reconnect starts is never lost behind a refused request.
FlowsEnd == \A f \in Flows : []<>(pc[f] = "idle")

------------------------------------------------------------------------------
\* The session implements the abstract lock.
Lock == INSTANCE SessionLock
            WITH Flow <- Flows, owner <- holder, queue <- waiters

ImplementsLock == Lock!Spec
==============================================================================
