----------------------------- MODULE Provisioning -----------------------------
(***************************************************************************)
(* Provisioning a flight controller for HITL and restoring it              *)
(* (PreflightHandler in preflight.rs): every request runs as a task of its *)
(* own, captures the parameters it will overwrite and waits for a browser  *)
(* to store them, writes, saves, reboots the board, waits until it is back *)
(* and verifies; then a cooldown keeps the next request off the board.     *)
(*                                                                         *)
(* A set of parameters is the set of those that hold the value for HITL;   *)
(* the others hold the owner's value.  A snapshot is such a set.           *)
(*                                                                         *)
(* The board and the browsers are external.  A board that is up and can be *)
(* reached sends a HEARTBEAT more often than once in the quiet period: a   *)
(* silence that long means a reboot, or a link that was lost and may come  *)
(* back with the same board, still running, behind it.                     *)
(***************************************************************************)
EXTENDS Integers

CONSTANTS
    Applies,        \* ids of the ApplyPreflightParams requests in flight
    Restores,       \* ids of the RestoreSnapshot requests in flight
    NParams,        \* how many parameters are provisioned
    NFlags,         \* the first NFlags of them are visible in a HEARTBEAT
    NoSnapshot,     \* no snapshot was captured in this session
    MaxAttempts     \* PROVISION_ATTEMPTS

Ops == Applies \cup Restores

ASSUME OpsAssumption == Applies \cap Restores = {}

ASSUME SizesAssumption ==
    /\ NParams \in Nat
    /\ NFlags \in 1..NParams
    /\ MaxAttempts \in Nat \ {0}

Params == 1..NParams
Flags == 1..NFlags

------------------------------------------------------------------------------
VARIABLES
    \* per request: where it is, what it writes, how many parameters of the
    \* running attempt are confirmed, and which attempt it is (0: none yet)
    pc, target, written, attempt,
    \* PreflightHandler.applying, and whether the cooldown is running
    applying, cooling,
    \* PreflightHandler.session_snapshot
    session,
    \* browsers: the snapshots they were sent, and those they stored
    offered, stored,
    \* the board: is it up, its parameters in RAM and in flash, the flags it
    \* booted with, and what it held before anybody provisioned it
    up, ram, flash, live, pristine,
    \* the link to it: does it carry messages
    linked,
    \* the cached HEARTBEAT: its flags, and whether one came since the board last
    \* booted and the link was last lost
    flags, heard,
    \* a reboot command is on its way through the NSH task
    rebooting,
    \* history: the link was down at some moment between the last reboot command
    \* and the silence that was taken for the reboot
    cut

requests == <<pc, target, written, attempt>>
handler  == <<applying, cooling, session>>
browsers == <<offered, stored>>
params   == <<ram, flash, pristine>>
status   == <<up, live, linked, flags, heard, rebooting, cut>>

vars == <<pc, target, written, attempt, applying, cooling, session, offered, stored,
          up, ram, flash, live, pristine, linked, flags, heard, rebooting, cut>>

\* The places of a request that holds the guard.
Working == {"reading", "acking", "writing", "settling", "quieting", "listening",
            "verifying"}
\* Its guard is dropped and its result is due.
Ended == {"succeeded", "failed", "refused"}
Places == {"idle", "entry"} \cup Working \cup Ended

Init ==
    /\ pc = [o \in Ops |-> "idle"]
    /\ target = [o \in Ops |-> {}]
    /\ written = [o \in Ops |-> 0]
    /\ attempt = [o \in Ops |-> 0]
    /\ applying = FALSE
    /\ cooling = FALSE
    /\ session = NoSnapshot
    /\ offered = {}
    /\ stored = {}
    /\ up = TRUE
    /\ ram \in SUBSET Params
    /\ flash = ram
    /\ pristine = ram
    /\ live = (Flags \subseteq ram)
    /\ linked = TRUE
    /\ flags = FALSE
    /\ heard = FALSE
    /\ rebooting = FALSE
    /\ cut = FALSE

------------------------------------------------------------------------------
(* What every request shares.                                              *)

\* The board answers, and what it sends arrives.
Reached == up /\ linked

Goto(o, place) == pc' = [pc EXCEPT ![o] = place]

\* ApplyGuard is dropped with apply_inner or restore_inner.
Leave(o, place) ==
    /\ Goto(o, place)
    /\ applying' = FALSE

\* apply, restore: while the cooldown runs a request is refused and leaves no
\* trace; otherwise it goes on to the guard.
CheckCooldown(o) ==
    /\ pc[o] = "idle"
    /\ ~ cooling
    /\ \/ o \in Applies /\ target' = [target EXCEPT ![o] = Params]
       \/ o \in Restores /\ \E s \in stored : target' = [target EXCEPT ![o] = s]
    /\ Goto(o, "entry")
    /\ UNCHANGED <<written, attempt, handler, browsers, params, status>>

\* Mutant of Enter: a request that is refused releases the guard it did not get.
EnterAndRelease(o) ==
    /\ pc[o] = "entry"
    /\ applying' = ~applying
    /\ Goto(o, IF applying THEN "refused" ELSE "reading")
    /\ UNCHANGED <<target, written, attempt, cooling, session, browsers, params, status>>

\* applying.swap(true): one request goes on, the others are refused.
Enter(o) ==
    /\ pc[o] = "entry"
    /\ applying' = TRUE
    /\ Goto(o, IF applying THEN "refused" ELSE "reading")
    /\ UNCHANGED <<target, written, attempt, cooling, session, browsers, params, status>>

\* mark_cycle_finished, and the terminal result goes to every client.
Finish(o) ==
    /\ pc[o] \in Ended
    /\ cooling' = TRUE
    /\ Goto(o, "idle")
    /\ target' = [target EXCEPT ![o] = {}]
    /\ written' = [written EXCEPT ![o] = 0]
    /\ attempt' = [attempt EXCEPT ![o] = 0]
    /\ UNCHANGED <<applying, session, browsers, params, status>>

CooldownElapses ==
    /\ cooling
    /\ cooling' = FALSE
    /\ UNCHANGED <<requests, applying, session, browsers, params, status>>

------------------------------------------------------------------------------
(* Before the first write.                                                 *)

\* No flight controller, no identity, a parameter that cannot be read, no
\* browser; for a restore a snapshot of another board or an empty one.
Decline(o) ==
    /\ pc[o] = "reading"
    /\ Leave(o, "failed")
    /\ UNCHANGED <<target, written, attempt, cooling, session, browsers, params, status>>

StartWriting(o) ==
    /\ Goto(o, "writing")
    /\ written' = [written EXCEPT ![o] = 0]
    /\ attempt' = [attempt EXCEPT ![o] = @ + 1]

\* capture_and_confirm_snapshot: the parameters are read, kept for the session
\* and sent to the browsers.
Capture(o) ==
    /\ o \in Applies
    /\ pc[o] = "reading"
    /\ Reached
    /\ session' = ram
    /\ offered' = offered \cup {ram}
    /\ Goto(o, "acking")
    /\ UNCHANGED <<target, written, attempt, applying, cooling, stored, params, status>>

\* A browser stores a snapshot it was sent and says so.  Every browser answers,
\* however late; the answer names the board and not the snapshot, and whoever
\* waits for one takes it.
BrowserStores(s) ==
    /\ s \in offered
    /\ stored' = stored \cup {s}
    /\ \/ \E o \in Applies :
            /\ pc[o] = "acking"
            /\ StartWriting(o)
            /\ UNCHANGED <<target, handler>>
       \/ /\ \A o \in Applies : pc[o] # "acking"
          /\ UNCHANGED <<requests, handler>>
    /\ UNCHANGED <<offered, params, status>>

\* Mutant of SnapshotNotStored: any answer counts as stored.
AnyAnswerWillDo(o) ==
    /\ pc[o] = "acking"
    /\ StartWriting(o)
    /\ UNCHANGED <<target, handler, browsers, params, status>>

\* A browser could not store it, or none answered within SNAPSHOT_ACK_TIMEOUT.
SnapshotNotStored(o) ==
    /\ pc[o] = "acking"
    /\ Leave(o, "failed")
    /\ UNCHANGED <<target, written, attempt, cooling, session, browsers, params, status>>

\* restore_inner: the snapshot is of this board.
AcceptRequest(o) ==
    /\ o \in Restores
    /\ pc[o] = "reading"
    /\ StartWriting(o)
    /\ UNCHANGED <<target, handler, browsers, params, status>>

------------------------------------------------------------------------------
(* The write cycle: apply_once, and its counterpart in restore_inner.      *)

\* Parameter p gets the value that o wants it to have.
Write(o, p) ==
    ram' = IF p \in target[o] THEN ram \cup {p} ELSE ram \ {p}

\* PARAM_SET and the PARAM_VALUE that confirms it.
WriteParam(o) ==
    /\ pc[o] = "writing"
    /\ written[o] < NParams
    /\ Reached
    /\ Write(o, written[o] + 1)
    /\ written' = [written EXCEPT ![o] = @ + 1]
    /\ UNCHANGED <<pc, target, attempt, handler, browsers, flash, pristine, status>>

\* No attempt was confirmed. The parameter may have landed all the same.
WriteFails(o) ==
    /\ pc[o] = "writing"
    /\ written[o] < NParams
    /\ \/ UNCHANGED ram
       \/ Reached /\ Write(o, written[o] + 1)
    /\ Leave(o, "failed")
    /\ UNCHANGED <<target, written, attempt, cooling, session, browsers, flash, pristine,
                   status>>

\* PARAM_SAVE is handed to the writer and PARAM_SAVE_SETTLE_DELAY is waited
\* out.  Nobody confirms a save: the board has committed its RAM, or has not.
Save(o) ==
    /\ pc[o] = "writing"
    /\ written[o] = NParams
    /\ \/ UNCHANGED flash
       \/ Reached /\ flash' = ram
    /\ Goto(o, "settling")
    /\ UNCHANGED <<target, written, attempt, handler, browsers, ram, pristine, status>>

\* The writer takes nothing more: no save, and no reboot either.
SaveFails(o) ==
    /\ pc[o] = "writing"
    /\ written[o] = NParams
    /\ Leave(o, "failed")
    /\ UNCHANGED <<target, written, attempt, cooling, session, browsers, params, status>>

\* send_reboot_via_nsh: the command is queued for the NSH task, ...
SendReboot(o) ==
    /\ pc[o] = "settling"
    /\ rebooting' = TRUE
    /\ cut' = ~ linked
    /\ Goto(o, "quieting")
    /\ UNCHANGED <<target, written, attempt, handler, browsers, params,
                   up, live, linked, flags, heard>>

\* ... or there is no NSH task.
SendRebootFails(o) ==
    /\ pc[o] = "settling"
    /\ Leave(o, "failed")
    /\ UNCHANGED <<target, written, attempt, cooling, session, browsers, params, status>>

\* Mutant of ConfirmQuiet: a HEARTBEAT ends the wait without a silence before.
TrustStraggler(o) ==
    /\ pc[o] = "quieting"
    /\ heard
    /\ Goto(o, "verifying")
    /\ UNCHANGED <<target, written, attempt, handler, browsers, params, status>>

\* wait_for_reconnect: the quiet period passed without a HEARTBEAT, because the
\* board is down or because the link is ...
ConfirmQuiet(o) ==
    /\ pc[o] = "quieting"
    /\ ~ Reached
    /\ Goto(o, "listening")
    /\ UNCHANGED <<target, written, attempt, handler, browsers, params, status>>

\* ... and then one came ...
Reconnected(o) ==
    /\ pc[o] = "listening"
    /\ heard
    /\ Goto(o, "verifying")
    /\ UNCHANGED <<target, written, attempt, handler, browsers, params, status>>

\* ... or PREFLIGHT_RECONNECT_TIMEOUT passed first.
NotReconnected(o) ==
    /\ pc[o] \in {"quieting", "listening"}
    /\ Leave(o, "failed")
    /\ UNCHANGED <<target, written, attempt, cooling, session, browsers, params, status>>

\* An apply trusts the flags of the HEARTBEAT.
VerifyFlags(o) ==
    /\ o \in Applies
    /\ pc[o] = "verifying"
    /\ flags
    /\ Leave(o, "succeeded")
    /\ UNCHANGED <<target, written, attempt, cooling, session, browsers, params, status>>

\* Mutant of FlagsWrong: the retries are not counted.
RetryForever(o) ==
    /\ o \in Applies
    /\ pc[o] = "verifying"
    /\ ~ flags
    /\ Goto(o, "writing")
    /\ written' = [written EXCEPT ![o] = 0]
    /\ UNCHANGED <<target, attempt, handler, browsers, params, status>>

\* They did not take effect: the cycle is run again, or given up.
FlagsWrong(o) ==
    /\ o \in Applies
    /\ pc[o] = "verifying"
    /\ ~ flags
    /\ IF attempt[o] < MaxAttempts
         THEN StartWriting(o) /\ UNCHANGED applying
         ELSE Leave(o, "failed") /\ UNCHANGED <<written, attempt>>
    /\ UNCHANGED <<target, cooling, session, browsers, params, status>>

\* A restore reads every parameter back and compares, ...
ReadBack(o) ==
    /\ o \in Restores
    /\ pc[o] = "verifying"
    /\ Reached
    /\ Leave(o, IF ram = target[o] THEN "succeeded" ELSE "failed")
    /\ UNCHANGED <<target, written, attempt, cooling, session, browsers, params, status>>

\* ... unless one cannot be read.
ReadBackFails(o) ==
    /\ o \in Restores
    /\ pc[o] = "verifying"
    /\ Leave(o, "failed")
    /\ UNCHANGED <<target, written, attempt, cooling, session, browsers, params, status>>

------------------------------------------------------------------------------
(* The board.                                                              *)

\* It goes down, and what was not in flash is lost.
GoDown ==
    /\ up
    /\ up' = FALSE
    /\ ram' = flash
    /\ heard' = FALSE
    /\ UNCHANGED <<flash, pristine, live, linked, flags, cut>>

\* The reboot command runs, ...
Reboot ==
    /\ rebooting
    /\ linked
    /\ rebooting' = FALSE
    /\ GoDown
    /\ UNCHANGED <<requests, handler, browsers>>

\* ... or is lost: no link, or the NSH task gave it up.
RebootLost ==
    /\ rebooting
    /\ rebooting' = FALSE
    /\ UNCHANGED <<requests, handler, browsers, params, up, live, linked, flags,
                   heard, cut>>

\* The owner unplugs it, or it restarts by itself.
PowerCycle ==
    /\ GoDown
    /\ UNCHANGED <<requests, handler, browsers, rebooting>>

\* It takes its HITL mode and its airframe from what it boots with.
Boot ==
    /\ ~ up
    /\ up' = TRUE
    /\ live' = (Flags \subseteq ram)
    /\ UNCHANGED <<requests, handler, browsers, params, linked, flags, heard, rebooting,
                   cut>>

\* Its first HEARTBEAT can come before it has published its own state; so may the
\* first that comes over a new link.
Heartbeat ==
    /\ Reached
    /\ heard' = TRUE
    /\ flags' \in (IF heard THEN {live} ELSE {live, FALSE})
    /\ UNCHANGED <<requests, handler, browsers, params, up, live, linked, rebooting, cut>>

\* The connection manager finds the port gone or the FC silent.  The cached
\* HEARTBEAT stays, and a request that waits is told nothing.
LinkLost ==
    /\ linked
    /\ linked' = FALSE
    /\ heard' = FALSE
    /\ cut' = (cut \/ \E o \in Ops : pc[o] = "quieting")
    /\ UNCHANGED <<requests, handler, browsers, params, up, live, flags, rebooting>>

\* It opens the link again.
LinkBack ==
    /\ ~ linked
    /\ linked' = TRUE
    /\ UNCHANGED <<requests, handler, browsers, params, up, live, flags, heard, rebooting,
                   cut>>

------------------------------------------------------------------------------
\* What a request does by itself, once it was sent.
Step(o) ==
    \/ Enter(o) \/ Decline(o) \/ Capture(o) \/ SnapshotNotStored(o) \/ AcceptRequest(o)
    \/ WriteParam(o) \/ WriteFails(o) \/ Save(o) \/ SaveFails(o)
    \/ SendReboot(o) \/ SendRebootFails(o)
    \/ ConfirmQuiet(o) \/ Reconnected(o) \/ NotReconnected(o)
    \/ VerifyFlags(o) \/ FlagsWrong(o) \/ ReadBack(o) \/ ReadBackFails(o)
    \/ Finish(o)

Next ==
    \/ \E o \in Ops : CheckCooldown(o) \/ Step(o)
    \/ \E s \in offered : BrowserStores(s)
    \/ CooldownElapses
    \/ Reboot \/ RebootLost \/ PowerCycle \/ Boot \/ Heartbeat
    \/ LinkLost \/ LinkBack

Spec == Init /\ [][Next]_vars

\* The runtime polls every task, and every wait of a request has a deadline.
FairSpec == Spec /\ \A o \in Ops : WF_vars(Step(o))

------------------------------------------------------------------------------
TypeOK ==
    /\ pc \in [Ops -> Places]
    /\ target \in [Ops -> SUBSET Params]
    /\ written \in [Ops -> 0..NParams]
    /\ attempt \in [Ops -> 0..MaxAttempts]
    /\ applying \in BOOLEAN
    /\ cooling \in BOOLEAN
    /\ session \in (SUBSET Params) \cup {NoSnapshot}
    /\ offered \in SUBSET SUBSET Params
    /\ stored \in SUBSET offered
    /\ up \in BOOLEAN
    /\ ram \in SUBSET Params
    /\ flash \in SUBSET Params
    /\ live \in BOOLEAN
    /\ pristine \in SUBSET Params
    /\ linked \in BOOLEAN
    /\ flags \in BOOLEAN
    /\ heard \in BOOLEAN
    /\ rebooting \in BOOLEAN
    /\ cut \in BOOLEAN

\* However the requests of several browsers interleave with refusals, retries
\* and ends, at most one of them works on the board.  (PreflightHandler.applying:
\* "Guards against two concurrent apply() runs against the same physical FC".)
OneAtATime ==
    \A o, q \in Ops : pc[o] \in Working /\ pc[q] \in Working => o = q

\* Whenever the board, in RAM or in flash, differs from what it was before it was
\* provisioned, a browser has stored what it was: through failed applies, late and
\* mistaken acknowledgements, repeated applies and restores.  ("Writing first would
\* open a window in which the board is modified and nothing can put it back".)
RestorePointExists ==
    ram # pristine \/ flash # pristine => pristine \in stored

\* Unless the link was down between the reboot command and the silence that was
\* taken for the reboot, a success does not rest on what the board was before it
\* rebooted: a successful restore has left the snapshot in flash, and a successful
\* apply the flags it verified, although nobody confirms a save, the reboot command
\* may be lost or late and the board may restart by itself at any moment.  With the
\* link cut the read-back of a restore still speaks of RAM.  (wait_for_reconnect,
\* apply_once, restore_inner)
SuccessIsDurable ==
    [][\A o \in Ops :
         pc[o] = "verifying" /\ pc'[o] = "succeeded" =>
             IF o \in Restores
               THEN ram = target[o] /\ (cut \/ flash = target[o])
               ELSE cut \/ Flags \subseteq flash]_vars

\* Every request ends with a result, whatever the board, the browsers and the
\* other requests do or fail to do.
EveryRequestEnds == \A o \in Ops : []<>(pc[o] = "idle")
==============================================================================
