-------------------------------- MODULE Gateway --------------------------------
(***************************************************************************)
(* The WebSocket server and a browser's connection to it (server.rs,       *)
(* handler.rs).  A connection is two tasks: one reads what the browser     *)
(* sends and handles it in line, the other is a select over the responses, *)
(* the broadcasts and the ping timer, and the only one that writes.  The   *)
(* forwarders of the server put the connection status and the terrain      *)
(* origin where a connection that opens later finds them, and then on the  *)
(* broadcasts.  Commands that pass go to a queue, and from it to the       *)
(* simulation (main.rs).                                                   *)
(*                                                                         *)
(* One browser connects, closes and connects again.  A request that runs   *)
(* on a task of its own - a configure, a reset - reports on the channel of *)
(* the connection it came from.                                            *)
(***************************************************************************)
EXTENDS Naturals, Sequences, SequencesExt

CONSTANTS
    Window,         \* COMMAND_RATE_LIMIT_WINDOW
    MaxCommands,    \* MAX_COMMANDS_PER_WINDOW
    ResponseCap,    \* bound of the response channel of a connection
    CommandCap,     \* bound of the command channel
    BroadcastCap,   \* bound of the broadcasts
    Origins,        \* terrain origins
    HasBoard,       \* the daemon drives a flight controller: nsh_tx is there
    MaxSent, MaxNews, MaxConnections    \* bounds of the model

ASSUME GatewayAssumption ==
    /\ Window \in Nat /\ MaxCommands \in Nat \ {0}
    /\ ResponseCap \in Nat \ {0} /\ CommandCap \in Nat \ {0} /\ BroadcastCap \in Nat \ {0}
    /\ HasBoard \in BOOLEAN
    /\ MaxSent \in Nat /\ MaxNews \in Nat /\ MaxConnections \in Nat

\* Takeoff stands for every command with a payload that is validated and a gate to
\* pass; Recharge is done on the spot.
CommandType == {"Takeoff", "Recharge"}
\* Unanswered is what is stored, passed on, or run by a task that reports on a
\* broadcast, so that who sent it gets no answer of its own: TerrainTiles,
\* SnapshotStored, RestoreSnapshot, ApplyPreflightParams.
Requests == CommandType \cup {"Handshake", "ResetVehicle", "ConfigureBuild", "NshCommand",
                              "RequestPreflightCheck", "Unanswered"}

VARIABLES
    conn,       \* "none", "greeting", "cached", "open", or "half": the writer has ended
    inbound,    \* what the browser sent and the reader has not handled
    hold,       \* the response or the command that the reader waits to hand over
    flows,      \* the tasks of configures and resets: what each has yet to say, and
                \* whether there is still a connection to say it to
    responses,  \* response_tx, response_rx
    statusQ, originQ,           \* the connection's receivers of the broadcasts
    connected, statusNews,      \* pixhawk_connected, and a status not yet broadcast
    latest, originNews,         \* terrain_origin_latest, and an origin not yet broadcast
    cached,     \* what was read from terrain_origin_latest for this connection
    limit,      \* the entry of rate_limits: its age, capped past Window, and its count
    commands,   \* how many commands wait in command_tx, command_rx
    seen,       \* browser: the origin and the link it was last told of
    owed,       \* browser: requests of this connection that were not answered
    recent,     \* history: the ages of the commands admitted within Window
    misjudged,  \* history: a command was refused below the limit
    crossed,    \* history: the last status overtook a HandshakeAck
    budget

admits  == <<limit, recent, misjudged>>
reader  == <<inbound, hold, flows, admits>>
news    == <<connected, statusNews, latest, originNews>>
queues  == <<responses, statusQ, originQ>>
view    == <<seen, owed, crossed>>
gatewayVars == <<conn, reader, news, queues, cached, commands, view, budget>>

------------------------------------------------------------------------------
NoOrigin == "none"
Nothing == [kind |-> "none"]
NoEntry == [age |-> 0, count |-> 0]

GatewayInit ==
    /\ conn = "none" /\ inbound = <<>> /\ hold = Nothing /\ flows = <<>>
    /\ responses = <<>> /\ statusQ = <<>> /\ originQ = <<>>
    /\ connected = FALSE /\ statusNews = <<>>
    /\ latest = NoOrigin /\ originNews = <<>> /\ cached = NoOrigin
    /\ limit = NoEntry
    /\ commands = 0
    /\ seen = [origin |-> NoOrigin, link |-> "unknown"]
    /\ owed = 0 /\ crossed = FALSE
    /\ recent = <<>> /\ misjudged = FALSE
    /\ budget = [sent |-> MaxSent, news |-> MaxNews, connections |-> MaxConnections]

Spend(what) ==
    /\ budget[what] > 0
    /\ budget' = [budget EXCEPT ![what] = @ - 1]

\* tokio's broadcast: a receiver that lags loses the oldest.
Broadcast(q, x) == IF Len(q) < BroadcastCap THEN Append(q, x) ELSE Append(Tail(q), x)

------------------------------------------------------------------------------
(* The forwarders.                                                         *)

\* The status is stored for later handshakes before it is broadcast.
StoreStatus ==
    /\ Spend("news") /\ statusNews = <<>>
    /\ connected' = ~connected
    /\ statusNews' = <<connected'>>
    /\ UNCHANGED <<conn, reader, latest, originNews, queues, cached, commands, view>>

ForwardStatus ==
    /\ statusNews # <<>>
    /\ statusNews' = <<>>
    /\ statusQ' = IF conn \in {"none", "half"} THEN statusQ
                  ELSE Broadcast(statusQ, Head(statusNews))
    /\ UNCHANGED <<conn, reader, connected, latest, originNews, responses, originQ, cached,
                   commands, view, budget>>

StoreOrigin(origin) ==
    /\ Spend("news") /\ originNews = <<>> /\ origin # latest
    /\ latest' = origin
    /\ originNews' = <<origin>>
    /\ UNCHANGED <<conn, reader, connected, statusNews, queues, cached, commands, view>>

\* Mutant of Subscribed: a connection subscribes once it has sent what was stored.
SubscribedLate == conn = "open"
Subscribed == conn \in {"greeting", "cached", "open"}

ForwardOrigin ==
    /\ originNews # <<>>
    /\ originNews' = <<>>
    /\ originQ' = IF Subscribed THEN Broadcast(originQ, Head(originNews)) ELSE originQ
    /\ UNCHANGED <<conn, reader, connected, statusNews, latest, responses, statusQ, cached,
                   commands, view, budget>>

------------------------------------------------------------------------------
(* A connection opens: it subscribes, says what it can, and tells the      *)
(* origin it finds.                                                        *)

Connect ==
    /\ Spend("connections") /\ conn = "none"
    /\ conn' = "greeting"
    /\ UNCHANGED <<reader, news, queues, cached, commands, view>>

ReadStored ==
    /\ conn = "greeting"
    /\ conn' = "cached" /\ cached' = latest
    /\ UNCHANGED <<reader, news, queues, commands, view, budget>>

TellStored ==
    /\ conn = "cached"
    /\ conn' = "open" /\ cached' = NoOrigin
    /\ seen' = IF cached = NoOrigin THEN seen ELSE [seen EXCEPT !.origin = cached]
    /\ UNCHANGED <<reader, news, queues, commands, owed, crossed, budget>>

Orphaned == [i \in DOMAIN flows |-> [flows[i] EXCEPT !.mine = FALSE]]

\* The end of a connection: both tasks, its queues and its rate limit are gone.
Closed ==
    /\ conn' = "none" /\ inbound' = <<>> /\ hold' = Nothing
    /\ responses' = <<>> /\ statusQ' = <<>> /\ originQ' = <<>> /\ cached' = NoOrigin
    /\ limit' = NoEntry /\ recent' = <<>>
    /\ owed' = 0
    /\ seen' = [origin |-> NoOrigin, link |-> "unknown"]
    /\ crossed' = FALSE
    /\ flows' = Orphaned
    /\ UNCHANGED <<news, commands, misjudged>>

\* The browser closes, or its socket fails.
Disconnect ==
    /\ conn # "none" /\ hold.kind # "command"
    /\ Closed /\ UNCHANGED budget

------------------------------------------------------------------------------
(* The reader.                                                             *)

Send(what) ==
    /\ Spend("sent") /\ conn \in {"open", "half"} /\ inbound = <<>>
    /\ inbound' = <<what>>
    /\ owed' = owed + (CASE what = "Unanswered" -> 0 [] what = "ResetVehicle" -> 2 [] OTHER -> 1)
    /\ UNCHANGED <<conn, hold, flows, admits, news, queues, cached, commands, seen,
                   crossed>>

Ack == [kind |-> "ack"]
\* Mutant of HandshakeAck: the forwarder keeps the status in a copy of its own.
HandshakeAckUnshared == [kind |-> "handshake", connected |-> FALSE]
HandshakeAck == [kind |-> "handshake", connected |-> connected]

\* Mutant of Expired: the window ends with its last instant.
ExpiredEarly == limit.age >= Window
\* duration_since(window_start) > COMMAND_RATE_LIMIT_WINDOW
Expired == limit.age > Window

Entry == IF Expired THEN NoEntry ELSE limit
Admitted == Entry.count < MaxCommands

CheckRateLimit ==
    /\ limit' = IF Admitted THEN [Entry EXCEPT !.count = @ + 1] ELSE Entry
    /\ recent' = IF Admitted THEN Append(recent, 0) ELSE recent
    /\ misjudged' = (misjudged \/ (~Admitted /\ Len(recent) < MaxCommands))

Take(what) ==
    /\ conn \in {"open", "half"} /\ hold = Nothing
    /\ inbound # <<>> /\ Head(inbound) = what
    /\ inbound' = Tail(inbound)

\* Mutant of Refusal: a command over the limit is dropped without an answer.
RefusalSilent == Nothing
\* CommandAck with success FALSE, or one with TRUE.
Refusal == Ack

\* A command that is refused for its rate or its payload, or by the arming gate.
RefuseCommand(what) ==
    /\ what \in CommandType /\ Take(what)
    /\ CheckRateLimit
    /\ \/ ~Admitted
       \/ what = "Takeoff"     \* its altitude is out of bounds, or arming_refusal
    /\ hold' = Refusal
    /\ UNCHANGED <<conn, flows, news, queues, cached, commands, view, budget>>

Recharge ==
    /\ Take("Recharge") /\ Admitted
    /\ CheckRateLimit
    /\ hold' = Ack
    /\ UNCHANGED <<conn, flows, news, queues, cached, commands, view, budget>>

\* The command that passes waits for room in the queue; the answer comes after.
AcceptCommand(what) ==
    /\ what \in CommandType \ {"Recharge"} /\ Take(what) /\ Admitted
    /\ CheckRateLimit
    /\ hold' = [kind |-> "command"]
    /\ UNCHANGED <<conn, flows, news, queues, cached, commands, view, budget>>

Forward ==
    /\ hold.kind = "command" /\ commands < CommandCap
    /\ commands' = commands + 1
    /\ hold' = Ack
    /\ UNCHANGED <<conn, inbound, flows, admits, news, queues, cached, view, budget>>

HandleHandshake ==
    /\ Take("Handshake")
    /\ hold' = HandshakeAck
    /\ UNCHANGED <<conn, flows, admits, news, queues, cached, commands, view, budget>>

\* The status that is cached is told at once.
CheckPreflight ==
    /\ Take("RequestPreflightCheck")
    /\ hold' = Ack
    /\ UNCHANGED <<conn, flows, admits, news, queues, cached, commands, view, budget>>

\* A shell command counts against the same limit, unless there is no board to run
\* it.  Too often, empty, too long, blocked, or the shell is busy: it is refused;
\* else it is acknowledged, and its output comes later (module Nsh).
HandleNsh ==
    /\ Take("NshCommand")
    /\ IF HasBoard THEN CheckRateLimit ELSE UNCHANGED admits
    /\ hold' = Refusal
    /\ UNCHANGED <<conn, flows, news, queues, cached, commands, view, budget>>

HandleUnanswered ==
    /\ Take("Unanswered")
    /\ UNCHANGED <<conn, hold, flows, admits, news, queues, cached, commands, view, budget>>

\* A reset is acknowledged and then run; a configure is only run.  The one that
\* finds another running is told so, by its own task.
Dispatch(what) ==
    /\ what \in {"ResetVehicle", "ConfigureBuild"} /\ Take(what)
    /\ hold' = IF what = "ResetVehicle" THEN [kind |-> "started"] ELSE Nothing
    /\ flows' = Append(flows, [mine |-> conn = "open",
                               says |-> IF flows = <<>> THEN <<"stage", "result">> ELSE <<"result">>])
    /\ UNCHANGED <<conn, admits, news, queues, cached, commands, view, budget>>

\* The reader hands its response over, waiting for room.  With the writer gone
\* the channel is closed, and the reader ends.
Respond ==
    /\ hold.kind \in {"ack", "handshake", "started"}
    /\ \/ /\ conn = "open" /\ Len(responses) < ResponseCap
          /\ responses' = Append(responses, hold)
          /\ hold' = Nothing
          /\ UNCHANGED <<conn, inbound, flows, admits, news, statusQ, originQ, cached,
                         commands, view, budget>>
       \/ /\ conn = "half" /\ hold.kind # "started"
          /\ Closed /\ UNCHANGED budget
       \/ /\ conn = "half" /\ hold.kind = "started"
          /\ hold' = Nothing
          /\ UNCHANGED <<conn, inbound, flows, admits, news, queues, cached, commands, view,
                         budget>>

\* A detached task says its next word, to its connection or to nobody.
Progress(i) ==
    /\ flows[i].mine => hold.kind # "started" /\ Len(responses) < ResponseCap
    /\ responses' = IF flows[i].mine THEN Append(responses, [kind |-> Head(flows[i].says)])
                    ELSE responses
    /\ flows' = IF Len(flows[i].says) = 1 THEN RemoveAt(flows, i)
                ELSE [flows EXCEPT ![i].says = Tail(@)]
    /\ UNCHANGED <<conn, inbound, hold, admits, news, statusQ, originQ, cached, commands,
                   view, budget>>

------------------------------------------------------------------------------
(* The writer.                                                             *)

SendResponse ==
    /\ conn = "open" /\ responses # <<>>
    /\ LET r == Head(responses) IN
         /\ responses' = Tail(responses)
         /\ owed' = IF r.kind # "stage" /\ owed > 0 THEN owed - 1 ELSE owed
         /\ seen' = IF r.kind = "handshake"
                      THEN [seen EXCEPT !.link = IF r.connected THEN "up" ELSE "down"] ELSE seen
    /\ UNCHANGED <<conn, reader, news, statusQ, originQ, cached, commands, crossed, budget>>

SendStatus ==
    /\ conn = "open" /\ statusQ # <<>>
    /\ statusQ' = Tail(statusQ)
    /\ seen' = [seen EXCEPT !.link = IF Head(statusQ) THEN "up" ELSE "down"]
    /\ crossed' = (\E r \in {hold} \cup {responses[i] : i \in DOMAIN responses} :
                    r.kind = "handshake")
    /\ UNCHANGED <<conn, reader, news, responses, originQ, cached, commands, owed, budget>>

SendOrigin ==
    /\ conn = "open" /\ originQ # <<>>
    /\ originQ' = Tail(originQ)
    /\ seen' = [seen EXCEPT !.origin = Head(originQ)]
    /\ UNCHANGED <<conn, reader, news, responses, statusQ, cached, commands, owed, crossed,
                   budget>>

\* At a ping, nothing was heard for PONG_TIMEOUT: the writer ends, the reader does not.
PongTimeout ==
    /\ conn = "open"
    /\ conn' = "half"
    /\ responses' = <<>> /\ statusQ' = <<>> /\ originQ' = <<>>
    /\ flows' = Orphaned
    /\ UNCHANGED <<inbound, hold, admits, news, cached, commands, view, budget>>

------------------------------------------------------------------------------
(* The command task of main.rs, and the world.                             *)

RunCommand ==
    /\ commands > 0
    /\ commands' = commands - 1
    /\ UNCHANGED <<conn, reader, news, queues, cached, view, budget>>

Older(ages) == [i \in DOMAIN ages |-> ages[i] + 1]

\* Of the ages, in which the oldest comes first, what is left within Window.
Recent(ages, left) ==
    \E out \in 0..Len(ages) :
        /\ \A i \in 1..out : ages[i] > Window
        /\ \A i \in (out + 1)..Len(ages) : ages[i] <= Window
        /\ left = [i \in 1..(Len(ages) - out) |-> ages[i + out]]

Tick ==
    /\ limit.count > 0 /\ (~Expired \/ recent # <<>>)
    /\ limit' = [limit EXCEPT !.age = IF @ > Window THEN @ ELSE @ + 1]
    /\ Recent(Older(recent), recent')
    /\ UNCHANGED <<conn, inbound, hold, flows, misjudged, news, queues, cached, commands,
                   view, budget>>

------------------------------------------------------------------------------
GatewayNext ==
    \/ StoreStatus \/ ForwardStatus
    \/ \E origin \in Origins : StoreOrigin(origin)
    \/ ForwardOrigin
    \/ Connect \/ ReadStored \/ TellStored \/ Disconnect
    \/ \E what \in Requests : Send(what)
    \/ \E what \in CommandType : RefuseCommand(what) \/ AcceptCommand(what)
    \/ Recharge \/ Forward
    \/ HandleHandshake \/ CheckPreflight \/ HandleNsh \/ HandleUnanswered
    \/ \E what \in Requests : Dispatch(what)
    \/ Respond
    \/ \E i \in DOMAIN flows : Progress(i)
    \/ SendResponse \/ SendStatus \/ SendOrigin
    \/ PongTimeout
    \/ RunCommand \/ Tick

GatewaySpec == GatewayInit /\ [][GatewayNext]_gatewayVars

Handle ==
    \/ \E what \in CommandType : RefuseCommand(what) \/ AcceptCommand(what)
    \/ Recharge \/ HandleHandshake \/ CheckPreflight \/ HandleNsh \/ HandleUnanswered
    \/ \E what \in Requests : Dispatch(what)

\* The tasks run, and the browser reads.
FairGatewaySpec ==
    /\ GatewaySpec
    /\ WF_gatewayVars(Handle) /\ WF_gatewayVars(Forward) /\ WF_gatewayVars(Respond)
    /\ WF_gatewayVars(\E i \in DOMAIN flows : Progress(i))
    /\ WF_gatewayVars(SendResponse) /\ WF_gatewayVars(RunCommand)

------------------------------------------------------------------------------
(* Properties                                                              *)

GatewayTypeOK ==
    /\ conn \in {"none", "greeting", "cached", "open", "half"}
    /\ inbound \in Seq(Requests) /\ Len(responses) <= ResponseCap
    /\ commands \in 0..CommandCap
    /\ Len(statusQ) <= BroadcastCap /\ Len(originQ) <= BroadcastCap
    /\ limit.age \in 0..(Window + 1) /\ limit.count \in 0..MaxCommands
    /\ owed \in 0..(2 * MaxSent)

\* A browser that joins while the origin moves ends on the latest one, whatever
\* of the store and the broadcast it saw first (server.rs:373-386, 583-587).
OriginConverges ==
    (conn = "open" /\ originQ = <<>> /\ originNews = <<>>) => seen.origin = latest

\* So it is with the link, but for one case: a status that was broadcast after
\* a handshake was answered is sent before the answer, which comes from another
\* queue of the same select (server.rs:690-742, handle_handshake).
StatusUnlessCrossed ==
    (conn = "open" /\ statusQ = <<>> /\ statusNews = <<>> /\ seen.link # "unknown" /\ ~crossed)
        => seen.link = (IF connected THEN "up" ELSE "down")

\* No window, wherever it starts, admits twice the limit, and no command is
\* refused while fewer than the limit were admitted within one, commands for the
\* vehicle and for the shell counted together (check_rate_limit).
RateBound == Len(recent) < 2 * MaxCommands /\ ~misjudged

\* Everything that a browser asks is answered while its connection is open: a
\* refusal, a full queue or a task that another connection started never eats
\* an answer, and the two tasks of a connection never wait for each other.
AnswersOwed == (owed > 0) ~> (owed = 0 \/ conn # "open")
================================================================================
