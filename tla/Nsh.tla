---------------------------------- MODULE Nsh ----------------------------------
(***************************************************************************)
(* The shell of the flight controller and what the daemon does over it:    *)
(* the NSH task (main.rs), which takes one command at a time from a queue, *)
(* sends it, and ends it with the first prompt that comes back or at its   *)
(* deadline; a browser's commands (handler.rs); and the EKF2 restart       *)
(* (fc_session.rs, nsh_await.rs), which waits for two commands and then    *)
(* for a health report that says PX4 can arm (px4_ready.rs).               *)
(*                                                                         *)
(* What comes back from the shell carries no request id.  The text of an   *)
(* answer is kept as the set of the commands whose output it holds, with   *)
(* the failed ones among them.                                             *)
(***************************************************************************)
EXTENDS Naturals, Sequences

CONSTANTS
    QueueCap,       \* bound of the command channel
    ReplyTimeout,   \* NSH_REPLY_TIMEOUT: how long a restart waits for an answer
    TaskTimeout,    \* NSH_COMMAND_TIMEOUT_MS: when the task gives up on it
    UserTimeout,    \* the timeout a browser asks for
    Guard,          \* PX4_HEALTH_GUARD
    Absent,         \* SYS_STATUS_ABSENT
    Ready,          \* PX4_READY_TIMEOUT
    Latency,        \* the longest time a SYS_STATUS is on its way
    MaxId           \* bound of the model: how many commands are sent

ASSUME NshAssumption ==
    /\ QueueCap \in Nat \ {0} /\ MaxId \in Nat \ {0}
    /\ ReplyTimeout \in Nat /\ TaskTimeout \in Nat /\ UserTimeout \in Nat
    /\ ReplyTimeout < TaskTimeout
    /\ Guard \in Nat /\ Absent \in Nat /\ Ready \in Nat
    /\ Guard <= Absent /\ Absent <= Ready
    /\ Latency \in Nat /\ Latency < Guard

VARIABLES
    lastId,     \* ids given out
    queue,      \* commands waiting for the NSH task
    link,       \* mav_io: "none", "up", or "down" before it is withdrawn
    cached,     \* cached_mav_io of the task
    pending,    \* current_request_id, with its command
    deadline,   \* what is left until request_deadline
    buffer,     \* response_buffer
    out, back,  \* NshRequests on the link, and what the reader made of the answers
    shell,      \* the command the shell runs
    ekf,        \* the estimator: the "old" one, "stopped", or the "new" one
    flow,       \* where the EKF2 restart is: "idle", "stop", "start", "wait"
    own,        \* the id it waits for
    timer,      \* what is left of its wait
    inbox,      \* the answer to own on the broadcast channel
    since,      \* time since confirmed_at
    flight,     \* a SYS_STATUS on its way
    report,     \* the last one: the estimator it tells of, and when it came
    verdict,    \* how the last restart ended, and on which estimator's word
    answers,    \* history: how often each id was answered for good
    echoed,     \* history: a restart went on without a prompt
    crossed     \* history: a prompt ended another command than its own

task   == <<queue, link, cached, pending, deadline, buffer, answers, crossed>>
wire   == <<out, back>>
board  == <<shell, ekf>>
caller == <<lastId, flow, own, timer, inbox, verdict, echoed>>
health == <<since, flight, report>>

vars == <<task, wire, board, caller, health>>

------------------------------------------------------------------------------
Ids == 1..MaxId
Cmds == [id : Ids, what : {"user", "stop", "start"}]
NoCmd == [id |-> 0, what |-> "none"]
NoReply == [ok |-> FALSE, by |-> "none", text |-> {}]
NoReport == [of |-> "none", arm |-> FALSE, at |-> 0]
Sent(c) == [of |-> c.id, bad |-> FALSE]
Pieces == [of : Ids, bad : BOOLEAN]
Longest == TaskTimeout + UserTimeout + Ready + Guard

TypeOK ==
    /\ lastId \in 0..MaxId
    /\ queue \in Seq(Cmds) /\ Len(queue) <= QueueCap
    /\ link \in {"none", "up", "down"} /\ cached \in {"none", "up", "down"}
    /\ pending \in Cmds \cup {NoCmd} /\ deadline \in 0..Longest
    /\ buffer \subseteq Pieces
    /\ out \in Seq(Cmds)
    /\ back \in Seq([piece : Pieces, prompt : BOOLEAN])
    /\ shell \in Cmds \cup {NoCmd}
    /\ ekf \in {"old", "stopped", "new"}
    /\ flow \in {"idle", "stop", "start", "wait"}
    /\ own \in 0..MaxId /\ timer \in 0..Longest
    /\ inbox.ok \in BOOLEAN /\ inbox.by \in {"none", "link", "prompt", "deadline"}
    /\ since \in 0..Ready
    /\ flight.arm \in BOOLEAN /\ report.arm \in BOOLEAN
    /\ verdict \in [end : {"none", "healthy", "unknown", "failed"},
                    of : {"none", "old", "stopped", "new"}]
    /\ answers \in [Ids -> 0..2] /\ echoed \in BOOLEAN /\ crossed \in BOOLEAN

Init ==
    /\ lastId = 0 /\ queue = <<>>
    /\ link = "none" /\ cached = "none"
    /\ pending = NoCmd /\ deadline = 0 /\ buffer = {}
    /\ out = <<>> /\ back = <<>>
    /\ shell = NoCmd /\ ekf = "old"
    /\ flow = "idle" /\ own = 0 /\ timer = 0 /\ inbox = NoReply
    /\ since = 0 /\ flight = NoReport /\ report = NoReport
    /\ verdict = [end |-> "none", of |-> "none"]
    /\ answers = [i \in Ids |-> 0] /\ echoed = FALSE /\ crossed = FALSE

------------------------------------------------------------------------------
(* The NSH task.                                                           *)

\* An answer for good: it goes to every subscriber.
Answer(c, reply) ==
    /\ answers' = [answers EXCEPT ![c.id] = IF @ < 2 THEN @ + 1 ELSE @]
    /\ inbox' = IF c.id = own THEN reply ELSE inbox

\* The top of the loop: a link that is gone is replaced by the current one.
Refresh ==
    /\ cached # "up" /\ cached # link
    /\ cached' = link
    /\ UNCHANGED <<queue, link, pending, deadline, buffer, answers, crossed, wire, board,
                   caller, health>>

\* No link, or one that just went: the command is answered at once.
RefuseCommand ==
    /\ pending = NoCmd /\ queue # <<>> /\ cached # "up"
    /\ queue' = Tail(queue)
    /\ cached' = "none"
    /\ Answer(Head(queue), [ok |-> FALSE, by |-> "link", text |-> {}])
    /\ UNCHANGED <<link, pending, deadline, buffer, crossed, wire, board, lastId, flow,
                   own, timer, verdict, echoed, health>>

\* Mutant of Patience: the task ends a restart's command before the restart does.
PatienceShort(c) == IF c.what = "user" THEN UserTimeout ELSE ReplyTimeout - 1

\* The timeout a command came with.
Patience(c) == IF c.what = "user" THEN UserTimeout ELSE TaskTimeout

\* One command at a time: it is sent, and the buffer emptied for its output.
SendCommand ==
    /\ pending = NoCmd /\ queue # <<>> /\ cached = "up"
    /\ queue' = Tail(queue)
    /\ pending' = Head(queue)
    /\ deadline' = Patience(Head(queue))
    /\ buffer' = {}
    /\ out' = Append(out, Head(queue))
    /\ UNCHANGED <<link, cached, answers, crossed, back, board, caller, health>>

\* A piece of output is appended; a prompt completes the command that is pending.
TakeOutput ==
    LET piece == Head(back) IN
    /\ cached # "none" /\ back # <<>>
    /\ back' = Tail(back)
    /\ IF piece.prompt /\ pending # NoCmd
         THEN /\ Answer(pending, [ok |-> TRUE, by |-> "prompt",
                                  text |-> buffer \cup {piece.piece}])
              /\ pending' = NoCmd /\ buffer' = {} /\ deadline' = 0
              /\ crossed' = (crossed \/ piece.piece.of # pending.id)
         ELSE /\ buffer' = buffer \cup {piece.piece}
              /\ UNCHANGED <<answers, crossed, inbox, pending, deadline>>
    /\ UNCHANGED <<queue, link, cached, out, board, lastId, flow, own, timer,
                   verdict, echoed, health>>

\* Mutant of Expire: the deadline is only looked at on a link that is up.
ExpireLinked ==
    /\ pending # NoCmd /\ deadline = 0
    /\ cached = "up" /\ back = <<>>
    /\ Answer(pending, [ok |-> buffer # {}, by |-> "deadline", text |-> buffer])
    /\ pending' = NoCmd /\ buffer' = {}
    /\ UNCHANGED <<queue, link, cached, deadline, crossed, wire, board, lastId, flow,
                   own, timer, verdict, echoed, health>>

\* The deadline, when nothing is left to read: what came is the answer, and some
\* output is taken for success.
Expire ==
    /\ pending # NoCmd /\ deadline = 0
    /\ cached = "none" \/ back = <<>>
    /\ Answer(pending, [ok |-> buffer # {}, by |-> "deadline", text |-> buffer])
    /\ pending' = NoCmd /\ buffer' = {}
    /\ UNCHANGED <<queue, link, cached, deadline, crossed, wire, board, lastId, flow,
                   own, timer, verdict, echoed, health>>

NshTask == Refresh \/ RefuseCommand \/ SendCommand \/ TakeOutput \/ Expire

------------------------------------------------------------------------------
(* The callers.                                                            *)

Queued(what) == Append(queue, [id |-> lastId + 1, what |-> what])
Room == Len(queue) < QueueCap /\ lastId < MaxId

\* handle_nsh_command: a command that finds no room is refused on the spot.
UserCommand ==
    /\ Room
    /\ lastId' = lastId + 1
    /\ queue' = Queued("user")
    /\ UNCHANGED <<link, cached, pending, deadline, buffer, answers, crossed, wire, board,
                   flow, own, timer, inbox, verdict, echoed, health>>

\* run_nsh: the command is queued, and its answer waited for.
RunNsh(what) ==
    /\ queue' = Queued(what)
    /\ lastId' = lastId + 1
    /\ own' = lastId + 1
    /\ timer' = ReplyTimeout
    /\ inbox' = NoReply

Ended(end, of) ==
    /\ flow' = "idle"
    /\ own' = 0 /\ timer' = 0 /\ inbox' = NoReply
    /\ verdict' = [end |-> end, of |-> of]

Older(e) == IF e = "new" THEN "old" ELSE e

\* restart_ekf2 begins: what the board says from now on of the estimator that runs
\* is of the old one.
Begin ==
    /\ flow = "idle" /\ Room
    /\ RunNsh("stop")
    /\ flow' = "stop"
    /\ ekf' = Older(ekf)
    /\ flight' = [flight EXCEPT !.of = Older(@)]
    /\ report' = [report EXCEPT !.of = Older(@)]
    /\ verdict' = [end |-> "none", of |-> "none"]
    /\ UNCHANGED <<link, cached, pending, deadline, buffer, answers, crossed, wire, shell,
                   echoed, since>>

\* judge_ekf2_start looks for an error in the text, judge_ekf2_stop does not.
Accepted == inbox.ok /\ (flow = "start" => \A piece \in inbox.text : ~piece.bad)

\* The stop is confirmed; the start follows, if it finds room in the queue.
Stopped ==
    /\ flow = "stop" /\ inbox # NoReply /\ Accepted
    /\ \/ /\ Room
          /\ RunNsh("start") /\ flow' = "start" /\ UNCHANGED verdict
       \/ ~Room /\ Ended("failed", "none") /\ UNCHANGED <<queue, lastId>>
    /\ echoed' = (echoed \/ inbox.by # "prompt")
    /\ UNCHANGED <<link, cached, pending, deadline, buffer, answers, crossed, wire, board,
                   health>>

\* The start is confirmed: confirmed_at.
Started ==
    /\ flow = "start" /\ inbox # NoReply /\ Accepted
    /\ flow' = "wait"
    /\ own' = 0 /\ timer' = 0 /\ inbox' = NoReply
    /\ since' = 0
    /\ report' = [report EXCEPT !.at = 0]
    /\ echoed' = (echoed \/ inbox.by # "prompt")
    /\ UNCHANGED <<task, wire, board, lastId, verdict, flight>>

\* The answer says no, or none comes in time.
RestartFails ==
    /\ flow \in {"stop", "start"}
    /\ \/ inbox # NoReply /\ ~Accepted
       \/ inbox = NoReply /\ timer = 0
    /\ Ended("failed", "none")
    /\ UNCHANGED <<task, wire, board, lastId, echoed, health>>

------------------------------------------------------------------------------
(* wait_for_px4_ready.                                                     *)

\* report.at counts from 1 at confirmed_at; 0 is before it.
Heard == report.at > 0

\* Mutant of CanArm: any report since the confirmation counts.
CanArmNow == report.arm /\ Heard

\* A passing report counts only from the guard on.
CanArm == report.arm /\ report.at > Guard

WaitReady ==
    /\ flow = "wait" /\ CanArm
    /\ Ended("healthy", report.of)
    /\ UNCHANGED <<task, wire, board, lastId, echoed, health>>

\* Nothing was heard: a firmware that does not send the report.
WaitUnknown ==
    /\ flow = "wait" /\ ~CanArm /\ ~Heard /\ since >= Absent
    /\ Ended("unknown", "none")
    /\ UNCHANGED <<task, wire, board, lastId, echoed, health>>

\* A board that says it cannot arm is waited for so long.
WaitGivesUp ==
    /\ flow = "wait" /\ ~CanArm /\ Heard /\ since >= Ready
    /\ Ended("failed", "none")
    /\ UNCHANGED <<task, wire, board, lastId, echoed, health>>

Restart ==
    \/ Stopped \/ Started \/ RestartFails
    \/ WaitReady \/ WaitUnknown \/ WaitGivesUp

------------------------------------------------------------------------------
(* The link, the board, and time.                                          *)

\* The link fails; the shell of a board that lost it forgets what it ran.
LinkFails ==
    /\ link = "up"
    /\ link' = "down"
    /\ cached' = IF cached = "up" THEN "down" ELSE cached
    /\ out' = <<>>
    /\ shell' = NoCmd
    /\ UNCHANGED <<queue, pending, deadline, buffer, answers, crossed, back, ekf, caller,
                   health>>

LinkWithdrawn ==
    /\ link = "down"
    /\ link' = "none"
    /\ UNCHANGED <<queue, cached, pending, deadline, buffer, answers, crossed, wire, board,
                   caller, health>>

\* A new link has its own channels.
LinkOpens ==
    /\ link = "none"
    /\ link' = "up"
    /\ cached' = IF cached = "down" THEN "none" ELSE cached
    /\ out' = <<>> /\ back' = <<>>
    /\ UNCHANGED <<queue, pending, deadline, buffer, answers, crossed, board, caller, health>>

\* The writer sends a command, and the shell begins it.
ShellBegins ==
    /\ link = "up" /\ shell = NoCmd /\ out # <<>>
    /\ shell' = Head(out)
    /\ out' = Tail(out)
    /\ UNCHANGED <<task, back, ekf, caller, health>>

\* It echoes the command.
ShellEchoes ==
    /\ link = "up" /\ shell # NoCmd
    /\ \A n \in DOMAIN back : back[n].piece # Sent(shell)
    /\ Sent(shell) \notin buffer
    /\ back' = Append(back, [piece |-> Sent(shell), prompt |-> FALSE])
    /\ UNCHANGED <<task, out, board, caller, health>>

\* It is done: the estimator stops or starts, or does not start, and the prompt
\* follows.  A start next to a running estimator changes nothing.
ShellEnds(bad) ==
    /\ link = "up" /\ shell # NoCmd
    /\ bad => shell.what = "start"
    /\ ekf' = IF shell.what = "stop" THEN "stopped"
              ELSE IF shell.what = "start" /\ ekf = "stopped" /\ ~bad THEN "new"
              ELSE ekf
    /\ back' = Append(back, [piece |-> [of |-> shell.id, bad |-> bad],
                             prompt |-> TRUE])
    /\ shell' = NoCmd
    /\ UNCHANGED <<task, out, caller, health>>

\* PX4 sends its SYS_STATUS; a stopped estimator does not pass the check.
StatusSent(arm) ==
    /\ link = "up" /\ flight = NoReport
    /\ arm => ekf # "stopped"
    /\ flight' = [of |-> ekf, arm |-> arm, at |-> 0]
    /\ UNCHANGED <<task, wire, board, caller, since, report>>

\* The receiver hands it to the monitor, which keeps the last.
StatusReceived ==
    /\ flight # NoReport
    /\ report' = [of |-> flight.of, arm |-> flight.arm,
                  at |-> IF flow = "wait" THEN since + 1 ELSE 0]
    /\ flight' = NoReport
    /\ UNCHANGED <<task, wire, board, caller, since>>

Minus1(n) == IF n = 0 THEN 0 ELSE n - 1

\* A second passes.  A restart that is due to give up does so first, and a status
\* on its way keeps to its time.
Tick ==
    /\ ~(flow \in {"stop", "start"} /\ timer = 0)
    /\ ~(flow = "wait" /\ since = Ready)
    /\ flight # NoReport => flight.at < Latency
    /\ pending # NoCmd \/ flow # "idle"
    /\ deadline' = Minus1(deadline)
    /\ timer' = Minus1(timer)
    /\ since' = IF flow = "wait" THEN since + 1 ELSE since
    /\ flight' = IF flight = NoReport THEN flight ELSE [flight EXCEPT !.at = @ + 1]
    /\ UNCHANGED <<queue, link, cached, pending, buffer, answers, crossed, wire, board,
                   lastId, flow, own, inbox, verdict, echoed, report>>

Next ==
    \/ NshTask
    \/ UserCommand \/ Begin \/ Restart
    \/ LinkFails \/ LinkWithdrawn \/ LinkOpens
    \/ ShellBegins \/ ShellEchoes \/ \E bad \in BOOLEAN : ShellEnds(bad)
    \/ \E arm \in BOOLEAN : StatusSent(arm)
    \/ StatusReceived
    \/ Tick

Spec == Init /\ [][Next]_vars

\* The tasks and the clock run; nothing is asked of the board.
Fairness ==
    /\ WF_vars(RefuseCommand \/ SendCommand) /\ WF_vars(TakeOutput \/ Expire)
    /\ WF_vars(Restart) /\ WF_vars(StatusReceived)
    /\ SF_vars(Tick)

FairSpec == Spec /\ Fairness

------------------------------------------------------------------------------
(* Properties.                                                             *)

\* Every command that was accepted is answered for good, exactly once, whatever
\* the board and the link do: a hung shell, a link that goes or is exchanged.
\* (the NSH task)
EveryCommandAnswered ==
    /\ [](\A i \in Ids : answers[i] <= 1)
    /\ \A i \in Ids : i <= lastId ~> answers[i] = 1

\* "That echo would count as PX4 confirming the command": a restart goes on only
\* with a prompt of the shell, never with what the task had at its deadline.
\* (NSH_COMMAND_TIMEOUT_MS, run_nsh)
NoEchoConfirms == ~echoed

\* "Ready" is said of the estimator that the restart started: a report of the one
\* before it, still on its way when the start was confirmed, does not count.
\* (wait_for_px4_ready, judge_ekf2_start)
ReadyDescribesNew == verdict.end = "healthy" => verdict.of = "new"

\* The one way this goes wrong is the output of a command that was given up: its
\* prompt ends, and with it confirms, a later command.
\* (NSH task, restart_ekf2, wait_for_px4_ready)
ReadyUnlessCrossed == crossed \/ ReadyDescribesNew
=============================================================================
