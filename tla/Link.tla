-------------------------------- MODULE Link --------------------------------
(***************************************************************************)
(* The link to the flight controller and the tasks that live on it         *)
(* (main.rs): the connection manager, which finds a board, opens its port, *)
(* and cleans up after a loss; the receiver of one connection, with its    *)
(* heartbeat watchdog; the reader and writer of the port (async_io.rs),    *)
(* which raise the disconnect flag; and the simulation thread, to which    *)
(* the receiver hands the motor commands (Actuators).  The manager waits   *)
(* for the receiver of a lost link for one second only: one that is in the *)
(* middle of a message by then finishes that, whatever came after.         *)
(*                                                                         *)
(* The board is the environment: it is plugged in and out, exchanged, may  *)
(* sit in its bootloader, speak, or fall silent on an open port.           *)
(***************************************************************************)
EXTENDS Actuators

CONSTANTS
    Boards,         \* the boards a user has
    Timeout,        \* heartbeat_timeout, in the time unit of the manager
    BootBackoff,    \* bootloader_backoff
    Delay,          \* reconnect_delay
    MaxRetry,       \* 255, where retry_count saturates
    RxCap,          \* bound of the channel from the reader to the receiver
    Preferred,      \* was a port given on the command line?
    Arms            \* is the board ever armed?

ASSUME LinkAssumption ==
    /\ Boards # {}
    /\ Timeout \in Nat /\ BootBackoff \in Nat /\ Delay \in Nat
    /\ BootBackoff >= Delay
    /\ MaxRetry \in Nat \ {0} /\ RxCap \in Nat \ {0}
    /\ Preferred \in BOOLEAN /\ Arms \in BOOLEAN

NoBoard == "none"

VARIABLES
    board,          \* the board on the cable
    mode,           \* what it does: "boot", "runs", "silent"
    manager,        \* where the connection manager is
    wait,           \* what is left of its sleep
    retry,          \* retry_count
    linked,         \* the board that the link was opened to
    cut,            \* it was pulled since
    disconnected,   \* MavlinkIo.shutdown: the flag of the link
    rx,             \* what the reader parsed and the receiver has not taken
    receiver,       \* where the receiver task is
    held,           \* the message it handles
    heard,          \* a HEARTBEAT arrived on this link
    quiet,          \* time since the last one, or since the link opened
    suspected,      \* bootloader_suspected
    model,          \* fc_model: whose name it is
    identity,       \* board_identity: whose it is
    status,         \* the last ConnectionStatus broadcast
    stray,          \* what a receiver that outlived its join is still to do
    overtaken,      \* history: the last status is of such a receiver
    sinceVerdict    \* history: time since a watchdog suspected the bootloader

cable == <<board, mode>>
ends  == <<linked, cut>>
port  == <<disconnected, rx>>
watch == <<heard, quiet>>
told  == <<model, identity, status>>
late  == <<stray, overtaken>>

linkVars == <<actuators, cable, ends, manager, wait, retry, port, receiver, held, watch,
          suspected, told, late, sinceVerdict>>

Motion == {None} \cup (IF Arms THEN {[motors |-> TRUE, armed |-> TRUE]} ELSE {})
Nothing == [kind |-> "nothing"]
Messages == {[kind |-> "heartbeat"], [kind |-> "version"]}
                \cup [kind : {"motors"}, command : Motion]
Suspicion == [kind |-> "suspicion"]
Nobody == [does |-> Nothing, of |-> NoBoard]
Strays == [does : Messages \cup {Suspicion, Nothing}, of : Boards \cup {NoBoard}]

States == {"up", "lost", "abort", "report", "choose", "sleep", "scan", "open"}

LinkTypeOK ==
    /\ ActuatorsTypeOK
    /\ board \in Boards \cup {NoBoard} /\ mode \in {"boot", "runs", "silent"}
    /\ manager \in States
    /\ wait \in 0..BootBackoff /\ retry \in 0..MaxRetry
    /\ linked \in Boards \cup {NoBoard} /\ cut \in BOOLEAN
    /\ disconnected \in BOOLEAN
    /\ rx \in Seq(Messages) /\ Len(rx) <= RxCap
    /\ receiver \in {"off", "top", "got", "model", "suspect"}
    /\ held \in Messages \cup {Nothing}
    /\ heard \in BOOLEAN /\ quiet \in 0..(Timeout + 1)
    /\ suspected \in BOOLEAN
    /\ model \in Boards \cup {NoBoard} /\ identity \in Boards \cup {NoBoard}
    /\ status \in {"connected", "reconnecting", "searching", "bootloader"}
    /\ stray \in Strays
    /\ overtaken \in BOOLEAN
    /\ sinceVerdict \in 0..BootBackoff

LinkInit ==
    /\ ActuatorsInit
    /\ board \in Boards \cup {NoBoard} /\ mode = "boot"
    /\ manager = "scan" /\ wait = 0 /\ retry = 0
    /\ linked = NoBoard /\ cut = TRUE
    /\ disconnected = TRUE /\ rx = <<>>
    /\ receiver = "off" /\ held = Nothing
    /\ heard = FALSE /\ quiet = 0
    /\ suspected = FALSE
    /\ model = NoBoard /\ identity = NoBoard /\ status = "searching"
    /\ stray = Nobody /\ overtaken = FALSE
    /\ sinceVerdict = BootBackoff

------------------------------------------------------------------------------
(* The board and the port.                                                 *)

Others == <<actuators, manager, wait, retry, receiver, held, watch, suspected,
            told, late, sinceVerdict>>

\* A board is plugged in, or another one, or none; a new one boots.
Replug(b) ==
    /\ b # board
    /\ board' = b /\ mode' = "boot"
    /\ cut' = TRUE
    /\ UNCHANGED <<linked, port, Others>>

\* The firmware starts, hangs, or returns to the bootloader.
Behave(m) ==
    /\ board # NoBoard /\ m # mode
    /\ mode' = m
    /\ UNCHANGED <<board, ends, port, Others>>

LinkOpen == manager = "up" /\ ~disconnected

\* reader_task: a message is parsed and handed over; a full channel blocks it.
Speak(m) ==
    /\ LinkOpen /\ ~cut /\ mode = "runs"
    /\ Len(rx) < RxCap
    /\ rx' = Append(rx, m)
    /\ UNCHANGED <<cable, ends, disconnected, Others>>

\* reader_task, writer_task: the port fails, at the latest when its board is gone.
PortFails ==
    /\ LinkOpen
    /\ disconnected' = TRUE
    /\ UNCHANGED <<cable, ends, rx, Others>>

------------------------------------------------------------------------------
(* The receiver task of a connection.                                      *)

\* Mutant of Verdict: heartbeats that stop after the first are not noticed.
VerdictOfFirst ==
    IF quiet <= Timeout \/ heard THEN "alive" ELSE "never"

\* heartbeat_verdict
Verdict ==
    IF quiet <= Timeout THEN "alive" ELSE IF heard THEN "silent" ELSE "never"

\* The top of its loop: the flag, the watchdog, the next message.
ReceiverTop ==
    /\ receiver = "top"
    /\ \/ /\ disconnected
          /\ receiver' = "off"
          /\ UNCHANGED <<port, held, suspected, sinceVerdict>>
       \/ /\ ~disconnected /\ Verdict = "silent"
          /\ disconnected' = TRUE /\ receiver' = "off"
          /\ UNCHANGED <<rx, held, suspected, sinceVerdict>>
       \/ /\ ~disconnected /\ Verdict = "never"
          /\ suspected' = TRUE /\ sinceVerdict' = 0 /\ receiver' = "suspect"
          /\ UNCHANGED <<port, held>>
       \/ /\ ~disconnected /\ Verdict = "alive" /\ rx # <<>>
          /\ held' = Head(rx) /\ rx' = Tail(rx) /\ receiver' = "got"
          /\ UNCHANGED <<disconnected, suspected, sinceVerdict>>
    /\ UNCHANGED <<actuators, cable, ends, manager, wait, retry, watch, told, late>>

\* The status is broadcast by a task of this link or by the manager.
Tell(s) == status' = s /\ overtaken' = FALSE

\* A board that never spoke is in its bootloader: the browser is told, and the
\* link is given up.
ReceiverSuspects ==
    /\ receiver = "suspect"
    /\ Tell("bootloader")
    /\ disconnected' = TRUE
    /\ receiver' = "off"
    /\ UNCHANGED <<actuators, cable, ends, manager, wait, retry, rx, held, watch,
                   suspected, model, identity, stray, sinceVerdict>>

\* A motor command is handed to the simulation without looking at the flag again.
ReceiverActuates ==
    /\ receiver = "got" /\ held.kind = "motors"
    /\ Deliver(held.command)
    /\ receiver' = "top" /\ held' = Nothing
    /\ UNCHANGED <<cable, ends, manager, wait, retry, port, watch, suspected,
                   told, late, sinceVerdict>>

\* AUTOPILOT_VERSION, the answer to the request at the first heartbeat.
ReceiverIdentifies ==
    /\ receiver = "got" /\ held.kind = "version"
    /\ identity' = linked
    /\ receiver' = "top" /\ held' = Nothing
    /\ UNCHANGED <<actuators, cable, ends, manager, wait, retry, port, watch,
                   suspected, model, status, late, sinceVerdict>>

\* A HEARTBEAT feeds the watchdog, then the task waits for the lock of fc_model.
ReceiverHears ==
    /\ receiver = "got" /\ held.kind = "heartbeat"
    /\ heard' = TRUE /\ quiet' = 0
    /\ receiver' = "model" /\ held' = Nothing
    /\ UNCHANGED <<actuators, cable, ends, manager, wait, retry, port, suspected,
                   told, late, sinceVerdict>>

\* The first HEARTBEAT names the board to the browser.
ReceiverNames ==
    /\ receiver = "model"
    /\ IF model = NoBoard
         THEN model' = linked /\ Tell("connected")
         ELSE UNCHANGED <<model, status, overtaken>>
    /\ receiver' = "top"
    /\ UNCHANGED <<actuators, cable, ends, manager, wait, retry, port, held, watch,
                   suspected, identity, stray, sinceVerdict>>

\* An aborted task ends where it waits.
ReceiverAborted ==
    /\ manager = "abort" /\ receiver = "model"
    /\ receiver' = "off"
    /\ UNCHANGED <<actuators, cable, ends, manager, wait, retry, port, held, watch,
                   suspected, told, late, sinceVerdict>>

Receiver ==
    \/ ReceiverTop \/ ReceiverSuspects \/ ReceiverActuates
    \/ ReceiverIdentifies \/ ReceiverHears \/ ReceiverNames \/ ReceiverAborted

------------------------------------------------------------------------------
(* The connection manager.                                                 *)

Steady == <<cable, ends, port, held, watch, identity, sinceVerdict>>

More == IF retry < MaxRetry THEN retry + 1 ELSE retry

\* It polls the flag; a link that is down is cleaned up, the vehicle first.
ManagerNotices ==
    /\ manager = "up" /\ disconnected
    /\ manager' = "lost"
    /\ MarkFcLost
    /\ UNCHANGED <<Steady, wait, retry, receiver, suspected, model, status, late>>

\* mav_io and fc_model are withdrawn; board_identity is not.
ManagerWithdraws ==
    /\ manager = "lost"
    /\ manager' = "abort"
    /\ model' = NoBoard
    /\ UNCHANGED <<Steady, actuators, wait, retry, receiver, suspected, status, late>>

\* The channels of the link go with it.
Abandon ==
    /\ manager = "abort"
    /\ manager' = "report"
    /\ retry' = More
    /\ rx' = <<>> /\ linked' = NoBoard
    /\ held' = Nothing /\ heard' = FALSE /\ quiet' = 0
    /\ UNCHANGED <<actuators, cable, cut, wait, disconnected, suspected, told, overtaken,
                   sinceVerdict>>

\* Mutant of ManagerJoins: the receiver is not waited for.
ManagerDoesNotJoin ==
    /\ Abandon
    /\ UNCHANGED <<receiver, stray>>

\* What a receiver in the middle of a message does before it comes to its flag: at
\* the top of its loop nothing.
Rest ==
    IF receiver = "top"
      THEN Nobody
      ELSE [does |-> IF receiver = "suspect" THEN Suspicion
                     ELSE IF receiver = "model" THEN [kind |-> "heartbeat"] ELSE held,
            of   |-> linked]

\* The tasks of the link are aborted and waited for, each for one second: an aborted
\* receiver ends where it waits, and if it has not come to that in time it is left
\* to itself.  One at a time outlives its link (bound of the model).
ManagerJoins ==
    /\ Abandon
    /\ receiver' = "off"
    /\ \/ receiver = "off" /\ UNCHANGED stray
       \/ receiver # "off" /\ stray = Nobody /\ stray' = Rest

\* The receiver that was left finishes its message, with the board and the status of
\* the link that it knows, and ends; at the lock of fc_model it may end at once.
StrayEnds ==
    /\ stray # Nobody
    /\ stray' = Nobody
    /\ \/ /\ stray.does.kind = "motors"
          /\ Deliver(stray.does.command)
          /\ UNCHANGED <<told, overtaken>>
       \/ /\ stray.does.kind = "version"
          /\ identity' = stray.of
          /\ UNCHANGED <<actuators, model, status, overtaken>>
       \/ /\ stray.does.kind = "heartbeat" /\ model = NoBoard
          /\ model' = stray.of /\ status' = "connected" /\ overtaken' = TRUE
          /\ UNCHANGED <<actuators, identity>>
       \/ /\ stray.does.kind = "heartbeat"
          /\ UNCHANGED <<actuators, told, overtaken>>
       \/ /\ stray.does = Suspicion
          /\ status' = "bootloader" /\ overtaken' = TRUE
          /\ UNCHANGED <<actuators, model, identity>>
    /\ UNCHANGED <<cable, ends, manager, wait, retry, port, receiver, held, watch,
                   suspected, sinceVerdict>>

ManagerReports ==
    /\ manager = "report"
    /\ manager' = "choose"
    /\ Tell(IF suspected THEN "bootloader" ELSE "reconnecting")
    /\ UNCHANGED <<Steady, actuators, wait, retry, receiver, suspected, model, stray>>

\* Mutant of ManagerBacksOff: always the short delay.
ManagerBacksOffShort ==
    /\ manager = "choose"
    /\ manager' = "sleep"
    /\ suspected' = FALSE
    /\ wait' = Delay
    /\ UNCHANGED <<Steady, actuators, retry, receiver, model, status, late>>

\* A board in its bootloader keeps its port for ten seconds.
ManagerBacksOff ==
    /\ manager = "choose"
    /\ manager' = "sleep"
    /\ suspected' = FALSE
    /\ wait' = IF suspected THEN BootBackoff ELSE Delay
    /\ UNCHANGED <<Steady, actuators, retry, receiver, model, status, late>>

ManagerWakes ==
    /\ manager = "sleep" /\ wait = 0
    /\ manager' = "scan"
    /\ UNCHANGED <<Steady, actuators, wait, retry, receiver, suspected, model,
                   status, late>>

\* detect_flight_controller passes over a board in its bootloader, if the
\* descriptor says so; a port given by the user is opened without a look.
ManagerScans ==
    /\ manager = "scan"
    /\ \/ /\ Preferred \/ board # NoBoard
          /\ manager' = "open"
          /\ UNCHANGED <<wait, retry, status, overtaken>>
       \/ /\ ~Preferred /\ (board = NoBoard \/ mode # "runs")
          /\ manager' = "sleep" /\ wait' = Delay /\ retry' = More
          /\ \/ Tell("bootloader") /\ board # NoBoard /\ mode = "boot"
             \/ Tell("searching") \/ Tell("reconnecting")
    /\ UNCHANGED <<Steady, actuators, receiver, suspected, model, stray>>

\* MavlinkIo::spawn returns: the port is open, a new link begins.
ManagerOpens ==
    /\ manager = "open" /\ board # NoBoard
    /\ manager' = "up"
    /\ retry' = 0
    /\ linked' = board /\ cut' = FALSE
    /\ disconnected' = FALSE /\ rx' = <<>>
    /\ receiver' = "top"
    /\ heard' = FALSE /\ quiet' = 0
    /\ suspected' = FALSE
    /\ Tell("connected")
    /\ UNCHANGED <<actuators, cable, wait, held, model, identity, stray, sinceVerdict>>

\* It does not open, or not within OPEN_TIMEOUT.
ManagerFailsToOpen ==
    /\ manager = "open"
    /\ manager' = "sleep" /\ wait' = Delay /\ retry' = More
    /\ UNCHANGED <<Steady, actuators, receiver, suspected, model, status, late>>

Manager ==
    \/ ManagerNotices \/ ManagerWithdraws \/ ManagerJoins \/ ManagerReports
    \/ ManagerBacksOff \/ ManagerWakes \/ ManagerScans \/ ManagerFailsToOpen

------------------------------------------------------------------------------
(* The simulation thread, and time.                                        *)

\* The rest of the iteration, and the sleep before the next.
SimIterates(d) ==
    /\ at \in {"top", "plan"}
    /\ at' = "begin"
    /\ cmdAge' = Aged(d)
    /\ UNCHANGED <<commands, latest, shared>>

Simulation ==
    /\ (\E d \in {0, Stale + 1} : SimIterates(d)) \/ ProcessCommands
    /\ UNCHANGED <<cable, ends, manager, wait, retry, port, receiver, held, watch,
                   suspected, told, late, sinceVerdict>>

Minus1(n) == IF n = 0 THEN 0 ELSE n - 1
Plus1(n, max) == IF n < max THEN n + 1 ELSE max

Tick ==
    /\ wait > 0 \/ (LinkOpen /\ quiet <= Timeout)
    /\ wait' = Minus1(wait)
    /\ quiet' = IF LinkOpen THEN Plus1(quiet, Timeout + 1) ELSE quiet
    /\ sinceVerdict' = Plus1(sinceVerdict, BootBackoff)
    /\ UNCHANGED <<actuators, cable, ends, manager, retry, port, receiver, held, heard,
                   suspected, told, late>>

LinkNext ==
    \/ \E b \in Boards \cup {NoBoard} : Replug(b)
    \/ \E m \in {"boot", "runs", "silent"} : Behave(m)
    \/ \E m \in Messages : Speak(m)
    \/ PortFails
    \/ Receiver \/ StrayEnds
    \/ Manager \/ ManagerOpens
    \/ Simulation
    \/ Tick

LinkSpec == LinkInit /\ [][LinkNext]_linkVars

\* Tasks and timers run; a running board beats; the port of a board that was
\* pulled fails; and a port that is opened again and again opens some time.
Fairness ==
    /\ WF_linkVars(Receiver) /\ WF_linkVars(Manager) /\ WF_linkVars(Tick)
    /\ WF_linkVars(Speak([kind |-> "heartbeat"]))
    /\ WF_linkVars(cut /\ PortFails)
    /\ SF_linkVars(ManagerOpens)

FairLinkSpec == LinkSpec /\ Fairness

------------------------------------------------------------------------------
(* Properties.                                                             *)

\* The browser is never left with "connected" while there is no link, nor with
\* anything else while there is one: once the manager sleeps or looks for a board, the
\* last status is one of its own, unless a receiver that had not ended a second after
\* it was aborted has spoken since.
\* (order of abort, join and broadcast in the connection manager)
StatusHonest ==
    ~overtaken =>
        /\ manager \in {"sleep", "scan", "open"} => status # "connected"
        /\ LinkOpen /\ ~suspected => status = "connected"

\* A board that was found in its bootloader keeps its port to itself for the
\* whole backoff, however the verdict of the watchdog races with a port that
\* fails by itself.  (bootloader_suspected)
BackoffKept ==
    [][manager = "scan" /\ manager' = "open" => sinceVerdict >= BootBackoff]_linkVars

\* A link is never held to a board that does not speak, and never given up for
\* one that does: a board that runs from now on is connected again and again
\* (a slow receiver may drop it in between), a board that does not is let go.
LinkFollowsBoard ==
    /\ <>[](board # NoBoard /\ mode = "runs") => []<>LinkOpen
    /\ <>[](mode # "runs") => []<>(manager # "up")
=============================================================================
