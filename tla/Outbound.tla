------------------------------- MODULE Outbound -------------------------------
(***************************************************************************)
(* The way of a frame from the simulation to the flight controller, over   *)
(* one link after another (main.rs, async_io.rs):                          *)
(*                                                                         *)
(*   simulation -> sim_mav_rx -> bridge -> sim_rx -> sender -> tx -> writer *)
(*                                                                         *)
(* sim_mav_rx is shared by the bridges of all links, the rest belongs to   *)
(* one link.  The bridge is a blocking thread, which cannot be aborted; the *)
(* sender is a task, which the connection manager aborts where it waits;   *)
(* the writer ends when the flag of its link is up.  QGC's messages join at *)
(* the sender.                                                             *)
(***************************************************************************)
EXTENDS Naturals, Sequences, SequencesExt

CONSTANTS
    SimCap,     \* bound of sim_mav_rx
    BridgeCap,  \* bound of sim_rx
    PortCap,    \* CHANNEL_BUFFER_SIZE, the bound of tx
    MaxFrames, MaxLinks, MaxQgc     \* bounds of the model

ASSUME OutboundAssumption ==
    /\ SimCap \in Nat \ {0} /\ BridgeCap \in Nat \ {0} /\ PortCap \in Nat \ {0}
    /\ MaxFrames \in Nat /\ MaxLinks \in Nat \ {0} /\ MaxQgc \in Nat

Links == 1..MaxLinks
Qgc == 0                    \* a message of QGC; the frames are 1, 2, ...
NoFrame == MaxFrames + 1

VARIABLES
    made,       \* frames that the simulation made
    simQ,       \* sim_mav_tx, sim_mav_rx
    links,      \* how many links were opened; the last one is the current one
    manager,    \* "scan", "up", "abort", and "ended" with the daemon
    flag,       \* MavlinkIo.shutdown, of each link
    bridge,     \* of each link: "none", "recv", "hold", "gone"
    held,       \* the frame that a bridge hands over
    stop,       \* bridge_stop
    bridgeQ,    \* sim_tx, sim_rx
    sender,     \* of each link: "none", "wait", "drain", "ending", "gone"
    portQ,      \* MavlinkIo.tx and the writer's rx
    writer,     \* of each link: "none", "recv", "gone"
    drops,      \* outbound_drops
    qgc,        \* messages that QGC still sends
    stopping,   \* the shutdown flag of the daemon
    wire,       \* history: what was written to the port of each link
    taken       \* history: how many messages were taken for each link

bridges == <<bridge, held>>
senders == <<stop, sender, drops, qgc>>
ports   == <<flag, portQ, writer, wire>>
life    == <<links, manager, stopping>>
outboundVars == <<made, simQ, life, bridges, bridgeQ, senders, ports, taken>>

OutboundInit ==
    /\ made = 0 /\ simQ = <<>>
    /\ links = 0 /\ manager = "scan" /\ stopping = FALSE
    /\ flag = [g \in Links |-> FALSE]
    /\ bridge = [g \in Links |-> "none"] /\ held = [g \in Links |-> NoFrame]
    /\ stop = [g \in Links |-> FALSE]
    /\ bridgeQ = [g \in Links |-> <<>>] /\ portQ = [g \in Links |-> <<>>]
    /\ sender = [g \in Links |-> "none"] /\ writer = [g \in Links |-> "none"]
    /\ drops = [g \in Links |-> 0] /\ qgc = MaxQgc
    /\ wire = [g \in Links |-> <<>>] /\ taken = [g \in Links |-> 0]

------------------------------------------------------------------------------
\* The simulation makes a frame; a full channel drops it (SimLoop counts that).
MakeFrame ==
    /\ made < MaxFrames /\ ~stopping
    /\ made' = made + 1
    /\ simQ' = IF Len(simQ) < SimCap THEN Append(simQ, made') ELSE simQ
    /\ UNCHANGED <<life, bridges, bridgeQ, senders, ports, taken>>

(* The bridge: a thread between a crossbeam and a tokio channel.           *)

BridgeTakes(g) ==
    /\ bridge[g] = "recv" /\ simQ # <<>>
    /\ bridge' = [bridge EXCEPT ![g] = "hold"]
    /\ held' = [held EXCEPT ![g] = Head(simQ)] /\ simQ' = Tail(simQ)
    /\ taken' = [taken EXCEPT ![g] = @ + 1]
    /\ UNCHANGED <<made, life, bridgeQ, senders, ports>>

\* Mutant of BridgeTimesOut: only the flag ends it.
BridgeTimesOutBlind(g) ==
    /\ bridge[g] = "recv" /\ simQ = <<>>
    /\ stop[g]
    /\ bridge' = [bridge EXCEPT ![g] = "gone"]
    /\ UNCHANGED <<made, simQ, life, held, bridgeQ, senders, ports, taken>>

\* Nothing within 5 ms: the flag is looked at; or the channel is closed, once every
\* sender is gone.
BridgeTimesOut(g) ==
    /\ bridge[g] = "recv" /\ simQ = <<>>
    /\ stop[g] \/ manager = "ended"
    /\ bridge' = [bridge EXCEPT ![g] = "gone"]
    /\ UNCHANGED <<made, simQ, life, held, bridgeQ, senders, ports, taken>>

\* blocking_send waits for room, and fails once the receiver was dropped: the
\* frame it took from the shared channel is lost with the link.
BridgeHands(g) ==
    /\ bridge[g] = "hold"
    /\ IF sender[g] = "gone"
         THEN /\ bridge' = [bridge EXCEPT ![g] = "gone"]
              /\ UNCHANGED bridgeQ
         ELSE /\ Len(bridgeQ[g]) < BridgeCap
              /\ bridge' = [bridge EXCEPT ![g] = IF stop[g] THEN "gone" ELSE "recv"]
              /\ bridgeQ' = [bridgeQ EXCEPT ![g] = Append(@, held[g])]
    /\ held' = [held EXCEPT ![g] = NoFrame]
    /\ UNCHANGED <<made, simQ, life, senders, ports, taken>>

Bridge(g) == BridgeTakes(g) \/ BridgeTimesOut(g) \/ BridgeHands(g)

------------------------------------------------------------------------------
(* The sender task.                                                        *)

\* It leaves its loop: the bridge is told to stop, and waited for.
Leaves(g) ==
    /\ sender' = [sender EXCEPT ![g] = "ending"]
    /\ stop' = [stop EXCEPT ![g] = TRUE]

Continues(g, at) ==
    /\ sender' = [sender EXCEPT ![g] = at]
    /\ UNCHANGED stop

\* The top of the loop: the flags, then the wait for a message.
Top(g) == IF stopping \/ flag[g] THEN Leaves(g) ELSE Continues(g, "wait")

\* Mutant of Dropped: what does not fit while draining is not counted.
DroppedQuietly(g) ==
    drops' = [drops EXCEPT ![g] = IF sender[g] = "wait" THEN @ + 1 ELSE @]

Dropped(g) == drops' = [drops EXCEPT ![g] = @ + 1]

\* MavlinkIo::try_send of x, then the drain; or what "closed" says, when the writer
\* is gone.
TrySend(g, x, closed(_)) ==
    \/ /\ writer[g] = "gone"
       /\ closed(g) /\ UNCHANGED <<portQ, drops>>
    \/ /\ writer[g] # "gone" /\ Len(portQ[g]) < PortCap
       /\ portQ' = [portQ EXCEPT ![g] = Append(@, x)]
       /\ Continues(g, "drain") /\ UNCHANGED drops
    \/ /\ writer[g] # "gone" /\ Len(portQ[g]) = PortCap
       /\ Dropped(g)
       /\ Continues(g, "drain") /\ UNCHANGED portQ

\* select, biased: the simulation before QGC.
SenderForwards(g) ==
    /\ sender[g] = "wait" /\ bridgeQ[g] # <<>>
    /\ bridgeQ' = [bridgeQ EXCEPT ![g] = Tail(@)]
    /\ TrySend(g, Head(bridgeQ[g]), Leaves)
    /\ UNCHANGED <<made, simQ, life, bridges, qgc, flag, writer, wire, taken>>

SenderHearsQgc(g) ==
    /\ sender[g] = "wait" /\ bridgeQ[g] = <<>> /\ qgc > 0
    /\ qgc' = qgc - 1
    /\ \/ /\ taken' = [taken EXCEPT ![g] = @ + 1]
          /\ TrySend(g, Qgc, Leaves)
       \/ /\ Top(g)                         \* not a MAVLink message
          /\ UNCHANGED <<portQ, drops, taken>>
       \/ /\ Leaves(g)                      \* the socket fails: the link stays up
          /\ UNCHANGED <<portQ, drops, taken>>
    /\ UNCHANGED <<made, simQ, life, bridges, bridgeQ, flag, writer, wire>>

\* The drain of what has queued up; a writer that is gone ends only the drain.
SenderDrains(g) ==
    /\ sender[g] = "drain"
    /\ IF bridgeQ[g] = <<>>
         THEN Top(g) /\ UNCHANGED <<bridgeQ, portQ, drops>>
         ELSE /\ bridgeQ' = [bridgeQ EXCEPT ![g] = Tail(@)]
              /\ TrySend(g, Head(bridgeQ[g]), Top)
    /\ UNCHANGED <<made, simQ, life, bridges, qgc, flag, writer, wire, taken>>

\* The end of the task drops sim_rx, and its counter with it.
SenderEnds(g) ==
    /\ sender' = [sender EXCEPT ![g] = "gone"]
    /\ bridgeQ' = [bridgeQ EXCEPT ![g] = <<>>]
    /\ drops' = [drops EXCEPT ![g] = 0] /\ taken' = [taken EXCEPT ![g] = 0]
    /\ UNCHANGED <<made, simQ, life, bridges, stop, qgc, ports>>

SenderDone(g) == sender[g] = "ending" /\ bridge[g] = "gone" /\ SenderEnds(g)

\* Mutant of Aborts: the manager leaves the sender to end by itself.
AbortsNothing(g) == FALSE

\* JoinHandle::abort ends a task where it waits.
Aborts(g) == manager = "abort" /\ g = links /\ sender[g] \in {"wait", "ending"}

SenderAborted(g) == Aborts(g) /\ SenderEnds(g)

\* sim_rx is never found closed here: the bridge ends before the sender only when
\* the sender has told it to, or with the daemon.
Sender(g) ==
    SenderForwards(g) \/ SenderDrains(g) \/ SenderDone(g)

------------------------------------------------------------------------------
(* The port.                                                               *)

\* What the writer leaves behind is lost, and the flag goes up.
WriterGone(g) ==
    /\ writer' = [writer EXCEPT ![g] = "gone"]
    /\ portQ' = [portQ EXCEPT ![g] = <<>>]
    /\ flag' = [flag EXCEPT ![g] = TRUE]

\* The loop of the writer: the flag, the heartbeat and the NSH requests - which may
\* fail like any write - and the next message, for as long as NSH_POLL_INTERVAL.
WriterIdles(g) ==
    /\ writer[g] = "recv" /\ portQ[g] = <<>>
    /\ WriterGone(g)
    /\ UNCHANGED <<made, simQ, life, bridges, bridgeQ, senders, wire, taken>>

WriterWrites(g) ==
    /\ writer[g] = "recv" /\ portQ[g] # <<>>
    /\ \/ /\ wire' = [wire EXCEPT ![g] = Append(@, Head(portQ[g]))]
          /\ IF flag[g] THEN WriterGone(g)
             ELSE /\ portQ' = [portQ EXCEPT ![g] = Tail(@)]
                  /\ UNCHANGED <<flag, writer>>
       \/ WriterGone(g) /\ UNCHANGED wire
    /\ UNCHANGED <<made, simQ, life, bridges, bridgeQ, senders, taken>>

WriterFails(g) == ~flag[g] /\ WriterIdles(g)

Writer(g) == WriterWrites(g) \/ (flag[g] /\ WriterIdles(g))

\* The reader ends, or the watchdog of the receiver gives the link up.
PortFails(g) ==
    /\ g = links /\ manager = "up" /\ ~flag[g]
    /\ flag' = [flag EXCEPT ![g] = TRUE]
    /\ UNCHANGED <<made, simQ, life, bridges, bridgeQ, senders, portQ, writer, wire,
                   taken>>

------------------------------------------------------------------------------
(* The connection manager, and the end of the daemon.                      *)

Untouched == <<made, simQ, held, bridgeQ, drops, qgc, portQ, wire, taken>>

\* MavlinkIo::spawn, then the tasks of the link.
ManagerOpens ==
    /\ manager = "scan" /\ links < MaxLinks /\ ~stopping
    /\ links' = links + 1 /\ manager' = "up"
    /\ bridge' = [bridge EXCEPT ![links'] = "recv"]
    /\ sender' = [sender EXCEPT ![links'] = "wait"]
    /\ writer' = [writer EXCEPT ![links'] = "recv"]
    /\ UNCHANGED <<Untouched, flag, stop, stopping>>

ManagerNotices ==
    /\ manager = "up" /\ flag[links] /\ ~stopping
    /\ manager' = "abort"
    /\ UNCHANGED <<Untouched, bridge, senders, flag, writer, links, stopping>>

\* The abort is waited for, for a second at most: a task that runs comes to a
\* point where it waits much sooner.
ManagerJoins ==
    /\ manager = "abort" /\ sender[links] = "gone"
    /\ manager' = "scan"
    /\ UNCHANGED <<Untouched, bridge, senders, flag, writer, links, stopping>>

Stop ==
    /\ ~stopping /\ stopping' = TRUE
    /\ UNCHANGED <<Untouched, bridge, senders, flag, writer, links, manager>>

\* main returns: the manager was aborted, and the runtime drops every task.
MainReturns ==
    /\ stopping /\ manager # "ended"
    /\ manager' = "ended"
    /\ sender' = [g \in Links |-> IF g <= links THEN "gone" ELSE "none"]
    /\ writer' = [g \in Links |-> IF g <= links THEN "gone" ELSE "none"]
    /\ bridgeQ' = [g \in Links |-> <<>>] /\ portQ' = [g \in Links |-> <<>>]
    /\ drops' = [g \in Links |-> 0] /\ taken' = [g \in Links |-> 0]
    /\ UNCHANGED <<made, simQ, bridges, stop, qgc, flag, wire, links, stopping>>

Manager == ManagerNotices \/ ManagerJoins

OutboundNext ==
    \/ MakeFrame
    \/ \E g \in Links :
         \/ Bridge(g) \/ Sender(g) \/ SenderHearsQgc(g) \/ SenderAborted(g)
         \/ Writer(g) \/ WriterFails(g) \/ PortFails(g)
    \/ ManagerOpens \/ Manager
    \/ Stop \/ MainReturns

OutboundSpec == OutboundInit /\ [][OutboundNext]_outboundVars

\* Threads and tasks run; the simulation need not make another frame, no port need
\* fail, QGC need not send, and no board need be found.
Fairness ==
    /\ \A g \in Links :
         WF_outboundVars(Bridge(g)) /\ WF_outboundVars(Sender(g)) /\ WF_outboundVars(Writer(g))
           /\ WF_outboundVars(SenderAborted(g))
    /\ WF_outboundVars(Manager) /\ WF_outboundVars(MainReturns)

FairOutboundSpec == OutboundSpec /\ Fairness

------------------------------------------------------------------------------
(* Properties.                                                             *)

Frames == 1..MaxFrames

OutboundTypeOK ==
    /\ made \in 0..MaxFrames
    /\ simQ \in Seq(Frames) /\ Len(simQ) <= SimCap
    /\ links \in 0..MaxLinks /\ manager \in {"scan", "up", "abort", "ended"}
    /\ stopping \in BOOLEAN /\ flag \in [Links -> BOOLEAN] /\ stop \in [Links -> BOOLEAN]
    /\ bridge \in [Links -> {"none", "recv", "hold", "gone"}]
    /\ sender \in [Links -> {"none", "wait", "drain", "ending", "gone"}]
    /\ writer \in [Links -> {"none", "recv", "gone"}]
    /\ held \in [Links -> Frames \cup {NoFrame}]
    /\ bridgeQ \in [Links -> Seq(Frames)] /\ portQ \in [Links -> Seq(Frames \cup {Qgc})]
    /\ wire \in [Links -> Seq(Frames \cup {Qgc})]
    /\ \A g \in Links : Len(bridgeQ[g]) <= BridgeCap /\ Len(portQ[g]) <= PortCap
    /\ drops \in [Links -> Nat] /\ taken \in [Links -> Nat] /\ qgc \in 0..MaxQgc

\* As long as a link is up, whatever was taken for it is under way, written, or in
\* the count of the drops that the log reports.  (outbound_drops)
LossNamed ==
    \A g \in Links :
        sender[g] \notin {"none", "gone"} /\ ~flag[g] =>
            taken[g] = Len(bridgeQ[g]) + Len(portQ[g]) + Len(wire[g]) + drops[g]
                        + (IF held[g] = NoFrame THEN 0 ELSE 1)

\* A link that is given up leaves no task behind, even when the sender already
\* waits for a bridge that waits for the sender; its thread outlives it at most
\* for as long as there is no frame to take.
\* (abort on the reconnect path, bridge_stop)
TornDown ==
    \A g \in Links :
        (g <= links /\ flag[g]) ~>
            /\ sender[g] = "gone" /\ writer[g] = "gone"
            /\ bridge[g] = "gone" \/ simQ = <<>>

\* Once the daemon is told to stop, every thread that the runtime waits for ends.
\* (shutdown of main)
ThreadsEnd ==
    stopping ~> (manager = "ended" /\ \A g \in Links : bridge[g] \in {"none", "gone"})
=============================================================================
