--------------------------- MODULE FcSessionProofs ---------------------------
(***************************************************************************)
(* What FcSession guarantees for every set of flows and builds and every   *)
(* number of parameters.                                                   *)
(***************************************************************************)
EXTENDS FcSession, SequenceTheorems, TLAPS

\* Each kind of flow keeps to its own places, and works on a build.
KindInv ==
    /\ \A f \in Repushes :
         pc[f] \in {"idle", "sleeping", "waiting", "granted", "pushing"}
    /\ \A f \in Resets :
         pc[f] \in {"idle", "door", "entered", "resetting", "stopping", "stopSent",
                    "starting", "startSent", "readying"}
    /\ \A f \in Configures :
         /\ pc[f] \in {"idle", "door", "entered", "fetching", "pushing", "verified",
                       "moving", "handing", "applying", "stopping", "stopSent",
                       "starting", "startSent", "readying"}
         /\ pc[f] # "idle" => build[f] \in Builds

\* The mutex and the places of the flows tell the same story.
LockInv ==
    /\ \A f \in Flows : pc[f] \in InSession <=> holder = f
    /\ \A i \in 1..Len(waiters) : pc[waiters[i]] = "waiting"
    /\ \A i, j \in 1..Len(waiters) : waiters[i] = waiters[j] => i = j
    /\ waiters # <<>> => holder # NoFlow

\* The board answers, or it has not been heard of yet.
Reachable == link \in {"searching", "connected"}

\* What has been written so far is on the board, and so is what the
\* fingerprint names, unless a re-push that will write it again is due.
PushInv ==
    /\ fingerprint \in {NoBuild, lastVerified}
    /\ \A f \in Repushes : pc[f] = "pushing" => fingerprint = NoBuild
    /\ acked # 0 => \E f \in Flows : pc[f] = "pushing"
    /\ \A f \in Flows : pc[f] = "pushing" /\ Reachable /\ ~ RepushPending
         => \A i \in 1..acked : ram[i] = build[f]
    /\ fingerprint # NoBuild /\ Reachable
         => \/ Holds(fingerprint)
            \/ \E f \in Flows : pc[f] = "pushing"
            \/ RepushPending

Handing == \E f \in Configures : pc[f] = "handing"

\* Where the build that belongs to the origin is on its way to the loop.
HandInv ==
    /\ \A f \in Configures : pc[f] \in {"handing", "applying"} => origin = build[f]
    /\ channel # NoBuild /\ ~ Handing => channel = origin
    /\ running /\ channel = NoBuild /\ ~ Handing => simBuild = origin
    /\ ~ running => channel = NoBuild

\* The places of an EKF2 restart.
Restarting == {"stopping", "stopSent", "starting", "startSent"}

\* What a flow has established at each of its places, undisturbed.
ReadyInv ==
    \A f \in Flows : ~ outside =>
        /\ f \in Configures =>
             /\ pc[f] = "handing" => ~ moved
             /\ pc[f] = "applying" /\ moved => simBuild = build[f]
             /\ pc[f] \in Restarting \cup {"readying"} =>
                  /\ ~ SimOnly
                  /\ simBuild = build[f]
                  /\ origin = build[f]
             /\ ~ SimOnly /\ pc[f] \in {"verified", "moving", "handing", "applying",
                                        "readying"} \cup Restarting =>
                  /\ lastVerified = build[f]
                  /\ \/ Holds(build[f])
                     \/ RepushPending
                     \/ /\ ~ Reachable
                        /\ pc[f] \notin {"stopSent", "starting", "startSent", "readying"}

\* Where the estimator is on its way through a restart that no other command's
\* prompt has confirmed: what is still to run before its own command, and after
\* it, does not undo what was confirmed.
EkfInv ==
    \A f \in Flows : ~ outside /\ ~ crossed =>
        /\ pc[f] = "stopSent" /\ shell # <<>> => shell[Len(shell)] = "stop"
        /\ pc[f] \in {"starting", "startSent", "readying"} =>
             /\ ekf # "stale"
             /\ \A i \in 1..Len(shell) : shell[i] # "stop"
        /\ pc[f] = "startSent" /\ shell # <<>> => shell[Len(shell)] = "start"
        /\ pc[f] = "readying" => ekf = "fresh"

IInv ==
    /\ TypeOK
    /\ KindInv
    /\ LockInv
    /\ PushInv
    /\ HandInv
    /\ ReadyInv
    /\ EkfInv

------------------------------------------------------------------------------
\* A non-empty queue has a head, and its tail is the queue shifted by one.
LEMMA QueueHead ==
    ASSUME NEW q \in Seq(Repushes), q # <<>>
    PROVE  /\ Len(q) \in Nat \ {0}
           /\ Head(q) \in Repushes
           /\ Head(q) = q[1]
           /\ Tail(q) \in Seq(Repushes)
           /\ Len(Tail(q)) = Len(q) - 1
           /\ \A i \in 1..Len(Tail(q)) : i + 1 \in 1..Len(q) /\ Tail(q)[i] = q[i + 1]
  BY HeadTailProperties, EmptySeq

\* The shell's commands after the first are still its commands.
LEMMA TailShell ==
    ASSUME TypeOK, shell # <<>>
    PROVE  /\ Tail(shell) \in Seq({"stop", "start", "other"})
           /\ Len(shell) \in Nat \ {0}
           /\ Len(shell) > 1 \/ Len(shell) = 1
           /\ Head(shell) = shell[1]
           /\ Len(Tail(shell)) = Len(shell) - 1
           /\ \A i \in 1..Len(Tail(shell)) :
                 i + 1 \in 1..Len(shell) /\ Tail(shell)[i] = shell[i + 1]
           /\ Tail(shell) # <<>> =>
                 Len(shell) > 1 /\ Tail(shell)[Len(Tail(shell))] = shell[Len(shell)]
<1>1. /\ Tail(shell) \in Seq({"stop", "start", "other"})
      /\ Len(shell) \in Nat \ {0}
      /\ Head(shell) = shell[1]
      /\ Len(Tail(shell)) = Len(shell) - 1
      /\ \A i \in 1..Len(Tail(shell)) :
            i + 1 \in 1..Len(shell) /\ Tail(shell)[i] = shell[i + 1]
  BY HeadTailProperties, EmptySeq DEF TypeOK
<1>2. Tail(shell) # <<>> => Len(Tail(shell)) \in 1..Len(Tail(shell))
  BY <1>1, EmptySeq
<1> QED
  BY <1>1, <1>2

\* Dropping the guard keeps the types of what it assigns.
LEMMA ReleaseTypes ==
    ASSUME TypeOK, NEW f \in Flows, Release(f)
    PROVE  /\ holder' \in Flows \cup {NoFlow}
           /\ waiters' \in Seq(Repushes)
           /\ pc' \in [Flows -> Places]
           /\ build' \in [Flows -> BuildOrNone]
           /\ acked' \in 0..NParams
           /\ moved' \in BOOLEAN
           /\ outside' \in BOOLEAN
           /\ crossed' \in BOOLEAN
<1>1. "idle" \in Places /\ "granted" \in Places /\ NoBuild \in BuildOrNone
  BY DEF Places, InSession, BuildOrNone
<1>2. waiters # <<>> => Head(waiters) \in Flows /\ Tail(waiters) \in Seq(Repushes)
  BY QueueHead DEF TypeOK, Flows
<1>3. holder' \in Flows \cup {NoFlow} /\ waiters' \in Seq(Repushes)
  BY <1>2, EmptySeq DEF TypeOK, Release
<1>4. pc' \in [Flows -> Places]
  BY <1>1 DEF TypeOK, Release
<1>5. build' \in [Flows -> BuildOrNone]
  BY <1>1 DEF TypeOK, Release
<1>6. acked' \in 0..NParams
  <2>1. 0 \in 0..NParams
    BY NParamsAssumption
  <2> QED
    BY <2>1 DEF Release
<1>7. moved' \in BOOLEAN /\ outside' \in BOOLEAN /\ crossed' \in BOOLEAN
  BY Zenon DEF Release
<1> QED
  BY <1>3, <1>4, <1>5, <1>6, <1>7

------------------------------------------------------------------------------
(* What any step does to the mutex and to the places of the flows.         *)

\* f goes on without the session, or inside it.
MovesOutside(f) ==
    /\ pc[f] \notin InSession \cup {"waiting"}
    /\ pc'[f] \notin InSession \cup {"waiting"}
    /\ pc' = [pc EXCEPT ![f] = pc'[f]]
    /\ UNCHANGED <<holder, waiters>>

MovesInside(f) ==
    /\ pc[f] \in InSession
    /\ pc'[f] \in InSession
    /\ pc' = [pc EXCEPT ![f] = pc'[f]]
    /\ UNCHANGED <<holder, waiters>>

\* f takes the free session.
Enters(f) ==
    /\ pc[f] \notin InSession \cup {"waiting"}
    /\ holder = NoFlow
    /\ pc'[f] \in InSession
    /\ pc' = [pc EXCEPT ![f] = pc'[f]]
    /\ holder' = f
    /\ UNCHANGED waiters

\* f waits for the session, at the end of the queue.
Queues(f) ==
    /\ pc[f] \notin InSession \cup {"waiting"}
    /\ f \in Repushes
    /\ holder # NoFlow
    /\ pc' = [pc EXCEPT ![f] = "waiting"]
    /\ waiters' = Append(waiters, f)
    /\ UNCHANGED holder

Leaves(f) == pc[f] \in InSession /\ Release(f)

Shape ==
    \/ UNCHANGED <<holder, waiters, pc>>
    \/ \E f \in Flows : \/ MovesOutside(f) \/ MovesInside(f) \/ Enters(f)
                        \/ Queues(f) \/ Leaves(f)

\* Every step of the model has one of these shapes.
LEMMA StepShape ==
    ASSUME TypeOK, [Next]_vars
    PROVE  Shape
<1> USE DEF TypeOK, InSession, Goto, lockState, flowState, history, caches, simState, board
<1>1. ASSUME NEW f \in Flows, NEW b \in Builds, RequestConfigure(f, b) PROVE MovesOutside(f)
  BY <1>1 DEF RequestConfigure, MovesOutside
<1>2. ASSUME NEW f \in Flows, RequestReset(f) PROVE MovesOutside(f)
  BY <1>2 DEF RequestReset, MovesOutside
<1>3. ASSUME NEW f \in Flows, TakeSession(f) PROVE Enters(f)
  BY <1>3 DEF TakeSession, Enters
<1>4. ASSUME NEW f \in Flows, RefuseBusy(f) PROVE MovesOutside(f)
  BY <1>4 DEF RefuseBusy, MovesOutside
<1>5. ASSUME NEW f \in Flows, CheckArmedInside(f) PROVE MovesInside(f) \/ Leaves(f)
  BY <1>5 DEF CheckArmedInside, MovesInside, Leaves
<1>6. ASSUME NEW f \in Flows, FetchFails(f) PROVE Leaves(f)
  BY <1>6 DEF FetchFails, FailConfigure, Leaves
<1>7. ASSUME NEW f \in Flows, FetchSpecs(f) PROVE MovesInside(f)
  BY <1>7 DEF FetchSpecs, MovesInside
<1>8. ASSUME NEW f \in Flows, PushParam(f) PROVE UNCHANGED <<holder, waiters, pc>>
  BY <1>8 DEF PushParam, Shape
<1>9. ASSUME NEW f \in Flows, PushFails(f) PROVE Leaves(f)
  BY <1>9 DEF PushFails, FailConfigure, Leaves
<1>10. ASSUME NEW f \in Flows, FinishPush(f) PROVE MovesInside(f) \/ Leaves(f)
  BY <1>10 DEF FinishPush, MovesInside, Leaves
<1>11. ASSUME NEW f \in Flows, CheckArmedAfterPush(f) PROVE MovesInside(f) \/ Leaves(f)
  BY <1>11 DEF CheckArmedAfterPush, FailConfigure, MovesInside, Leaves
<1>12. ASSUME NEW f \in Flows, AnchorOrigin(f) PROVE MovesInside(f)
  BY <1>12 DEF AnchorOrigin, MovesInside
<1>13. ASSUME NEW f \in Flows, SendBuild(f) PROVE MovesInside(f)
  BY <1>13 DEF SendBuild, MovesInside
<1>14. ASSUME NEW f \in Flows, SendFails(f) PROVE Leaves(f)
  BY <1>14 DEF SendFails, FailConfigure, Leaves
<1>15. ASSUME NEW f \in Flows, ConfigApplied(f) PROVE MovesInside(f) \/ Leaves(f)
  BY <1>15 DEF ConfigApplied, MovesInside, Leaves
<1>16. ASSUME NEW f \in Flows, ConfigApplyTimeout(f) PROVE Leaves(f)
  BY <1>16 DEF ConfigApplyTimeout, FailConfigure, Leaves
<1>17. ASSUME NEW f \in Flows, ResetVehicle(f) PROVE MovesInside(f) \/ Leaves(f)
  BY <1>17 DEF ResetVehicle, MovesInside, Leaves
<1>18. ASSUME NEW f \in Flows, SendStop(f) PROVE MovesInside(f)
  BY <1>18 DEF SendStop, MovesInside
<1>19. ASSUME NEW f \in Flows, SendStart(f) PROVE MovesInside(f)
  BY <1>19 DEF SendStart, MovesInside
<1>20. ASSUME NEW f \in Flows, RestartFails(f) PROVE Leaves(f)
  BY <1>20 DEF RestartFails, RestartGivenUp, FailConfigure, Leaves
<1>21. ASSUME NEW f \in Flows, ReportReady(f) PROVE Leaves(f)
  BY <1>21 DEF ReportReady, Leaves
<1>22. ASSUME NEW f \in Flows, NeverReady(f) PROVE Leaves(f)
  BY <1>22 DEF NeverReady, FailConfigure, Leaves
<1>23. ASSUME NEW f \in Flows, QueueRepush(f) PROVE Enters(f) \/ Queues(f)
  BY <1>23 DEF QueueRepush, Enters, Queues
<1>24. ASSUME NEW f \in Flows, RepushSnapshot(f) PROVE MovesInside(f) \/ Leaves(f)
  BY <1>24 DEF RepushSnapshot, MovesInside, Leaves
<1>25. ASSUME SimApply PROVE UNCHANGED <<holder, waiters, pc>>
  BY <1>25 DEF SimApply, Shape
<1>26. ASSUME ActuatorCommand PROVE UNCHANGED <<holder, waiters, pc>>
  BY <1>26 DEF ActuatorCommand, Shape
<1>27. ASSUME Rtl PROVE UNCHANGED <<holder, waiters, pc>>
  BY <1>27 DEF Rtl, Shape
<1>28. ASSUME EmergencyStop PROVE UNCHANGED <<holder, waiters, pc>>
  BY <1>28 DEF EmergencyStop, Shape
<1>29. ASSUME Reboot PROVE UNCHANGED <<holder, waiters, pc>>
  BY <1>29 DEF Reboot, Shape
<1>30. ASSUME LinkDrops PROVE UNCHANGED <<holder, waiters, pc>>
  BY <1>30 DEF LinkDrops, Shape
<1>31. ASSUME NoticeLoss PROVE UNCHANGED <<holder, waiters, pc>>
  BY <1>31 DEF NoticeLoss, Shape
<1>32. ASSUME ScanFails PROVE UNCHANGED <<holder, waiters, pc>>
  BY <1>32 DEF ScanFails, Shape
<1>33. ASSUME Connect PROVE UNCHANGED <<holder, waiters, pc>>
  BY <1>33 DEF Connect, Shape
<1>34. ASSUME Reconnect PROVE \E f \in Flows : MovesOutside(f)
  BY <1>34 DEF Reconnect, MovesOutside, Flows
<1>35. CASE UNCHANGED vars
  BY <1>35 DEF vars, Shape
<1>36. ASSUME NEW failed \in BOOLEAN, Prompt(failed) PROVE Shape
  <2>1. ASSUME NEW f \in Flows, Awaits(f), Confirmed(f) PROVE MovesInside(f)
    BY <2>1 DEF Awaits, Confirmed, MovesInside
  <2>2. ASSUME NEW f \in Flows, Awaits(f), RestartGivenUp(f) PROVE Leaves(f)
    BY <2>2 DEF Awaits, RestartGivenUp, FailConfigure, Leaves
  <2> QED
    BY <1>36, <2>1, <2>2 DEF Prompt, Shape
<1>37. ASSUME Unheard PROVE UNCHANGED <<holder, waiters, pc>>
  BY <1>37 DEF Unheard, Shape
<1>38. ASSUME BrowserCommand PROVE UNCHANGED <<holder, waiters, pc>>
  BY <1>38 DEF BrowserCommand, Shape
<1> QED
  BY <1>1, <1>2, <1>3, <1>4, <1>5, <1>6, <1>7, <1>8, <1>9, <1>10, <1>11,
     <1>12, <1>13, <1>14, <1>15, <1>16, <1>17, <1>18, <1>19, <1>20, <1>21,
     <1>22, <1>23, <1>24, <1>25, <1>26, <1>27, <1>28, <1>29, <1>30, <1>31,
     <1>32, <1>33, <1>34, <1>35, <1>36, <1>37, <1>38
     DEF Next, Request, FlowStep, Environment, Shape

------------------------------------------------------------------------------
(* The types.                                                              *)

\* No step breaks the types.
LEMMA TypeStep ==
    ASSUME TypeOK, [Next]_vars
    PROVE  TypeOK'
<1> USE NParamsAssumption
        DEF TypeOK, BuildOrNone, Goto, Jump, lockState, flowState, history, caches, simState,
            board
<1>0. \A p \in {"idle", "door", "sleeping", "waiting", "entered", "granted", "fetching",
              "pushing", "verified", "moving", "handing", "applying", "resetting",
              "stopping", "stopSent", "starting", "startSent", "readying"} : p \in Places
  BY DEF Places, InSession
<1>a. NoBuild \in BuildOrNone
  OBVIOUS
<1>1. ASSUME NEW f \in Flows, NEW b \in Builds, RequestConfigure(f, b)
      PROVE  TypeOK'
  BY <1>1, <1>0 DEF RequestConfigure
<1>2. ASSUME NEW f \in Flows, RequestReset(f)
      PROVE  TypeOK'
  BY <1>2, <1>0 DEF RequestReset
<1>3. ASSUME NEW f \in Flows, TakeSession(f) PROVE TypeOK'
  BY <1>3, <1>0 DEF TakeSession
<1>4. ASSUME NEW f \in Flows, RefuseBusy(f) PROVE TypeOK'
  BY <1>4, <1>0 DEF RefuseBusy
<1>5. ASSUME NEW f \in Flows, CheckArmedInside(f) PROVE TypeOK'
  <2>1. CASE Release(f)
    BY <1>5, <2>1, ReleaseTypes DEF CheckArmedInside
  <2>2. CASE ~ Release(f)
    BY <1>5, <2>2, <1>0 DEF CheckArmedInside
  <2> QED
    BY <2>1, <2>2
<1>6. ASSUME NEW f \in Flows, FetchFails(f) PROVE TypeOK'
  BY <1>6, ReleaseTypes DEF FetchFails, FailConfigure
<1>7. ASSUME NEW f \in Flows, FetchSpecs(f) PROVE TypeOK'
  BY <1>7, <1>0 DEF FetchSpecs
<1>8. ASSUME NEW f \in Flows, PushParam(f) PROVE TypeOK'
  BY <1>8, <1>0 DEF PushParam, Pushed, Params
<1>9. ASSUME NEW f \in Flows, PushFails(f) PROVE TypeOK'
  BY <1>9, ReleaseTypes DEF PushFails, FailConfigure
<1>10. ASSUME NEW f \in Flows, FinishPush(f) PROVE TypeOK'
  <2>1. CASE Release(f)
    BY <1>10, <2>1, ReleaseTypes DEF FinishPush
  <2>2. CASE ~ Release(f)
    BY <1>10, <2>2, <1>0 DEF FinishPush
  <2> QED
    BY <2>1, <2>2
<1>11. ASSUME NEW f \in Flows, CheckArmedAfterPush(f) PROVE TypeOK'
  <2>1. CASE Release(f)
    BY <1>11, <2>1, ReleaseTypes DEF CheckArmedAfterPush, FailConfigure
  <2>2. CASE ~ Release(f)
    BY <1>11, <2>2, <1>0 DEF CheckArmedAfterPush, FailConfigure
  <2> QED
    BY <2>1, <2>2
<1>12. ASSUME NEW f \in Flows, AnchorOrigin(f) PROVE TypeOK'
  <2>1. pc' \in [Flows -> Places]
    BY <1>12, <1>0, SMT DEF AnchorOrigin
  <2>2. origin' \in BuildOrNone
    BY <1>12, SMT DEF AnchorOrigin
  <2> HIDE DEF Goto, BuildOrNone
  <2> QED
    BY <1>12, <2>1, <2>2, Zenon DEF AnchorOrigin
<1>13. ASSUME NEW f \in Flows, SendBuild(f) PROVE TypeOK'
  BY <1>13, <1>0 DEF SendBuild
<1>14. ASSUME NEW f \in Flows, SendFails(f) PROVE TypeOK'
  BY <1>14, ReleaseTypes DEF SendFails, FailConfigure
<1>15. ASSUME NEW f \in Flows, ConfigApplied(f) PROVE TypeOK'
  <2>1. CASE Release(f)
    BY <1>15, <2>1, ReleaseTypes DEF ConfigApplied
  <2>2. CASE ~ Release(f)
    <3>1. Goto(f, "stopping")
      BY <1>15, <2>2, Zenon DEF ConfigApplied
    <3>2. pc' \in [Flows -> Places]
      BY <3>1, <1>0, SMT
    <3> HIDE DEF Goto, BuildOrNone
    <3> QED
      BY <1>15, <2>2, <3>2, Zenon DEF ConfigApplied
  <2> QED
    BY <2>1, <2>2
<1>16. ASSUME NEW f \in Flows, ConfigApplyTimeout(f) PROVE TypeOK'
  BY <1>16, ReleaseTypes DEF ConfigApplyTimeout, FailConfigure
<1>17. ASSUME NEW f \in Flows, ResetVehicle(f) PROVE TypeOK'
  <2>1. ekf' \in {"fresh", "stale", "stopped"}
    BY <1>17, SMT DEF ResetVehicle
  <2>2. CASE Release(f)
    <3> HIDE DEF TypeOK
    <3>1. /\ holder' \in Flows \cup {NoFlow}  /\ waiters' \in Seq(Repushes)
          /\ pc' \in [Flows -> Places]         /\ build' \in [Flows -> BuildOrNone]
          /\ acked' \in 0..NParams             /\ moved' \in BOOLEAN
          /\ outside' \in BOOLEAN              /\ crossed' \in BOOLEAN
      BY <2>2, ReleaseTypes, Zenon
    <3> USE DEF TypeOK
    <3> HIDE DEF Goto, Jump, BuildOrNone
    <3> QED
      BY <1>17, <2>1, <3>1, Zenon DEF ResetVehicle
  <2>3. CASE Goto(f, "stopping") /\ UNCHANGED <<lockState, build, acked, history, moved>>
    <3>1. pc' \in [Flows -> Places]
      BY <2>3, <1>0, SMT
    <3> HIDE DEF Goto, Jump, BuildOrNone
    <3> QED
      BY <1>17, <2>1, <2>3, <3>1, Zenon DEF ResetVehicle
  <2> QED
    BY <1>17, <2>2, <2>3, Zenon DEF ResetVehicle
<1>18. ASSUME NEW f \in Flows, SendStop(f) PROVE TypeOK'
  BY <1>18, <1>0 DEF SendStop
<1>19. ASSUME NEW f \in Flows, SendStart(f) PROVE TypeOK'
  BY <1>19, <1>0 DEF SendStart
<1>20. ASSUME NEW f \in Flows, RestartFails(f) PROVE TypeOK'
  BY <1>20, ReleaseTypes DEF RestartFails, RestartGivenUp, FailConfigure
<1>21. ASSUME NEW f \in Flows, ReportReady(f) PROVE TypeOK'
  BY <1>21, ReleaseTypes DEF ReportReady
<1>22. ASSUME NEW f \in Flows, NeverReady(f) PROVE TypeOK'
  BY <1>22, ReleaseTypes DEF NeverReady, FailConfigure
<1>23. ASSUME NEW f \in Flows, QueueRepush(f) PROVE TypeOK'
  <2>1. pc' \in [Flows -> Places]
    BY <1>23, <1>0, SMT DEF QueueRepush
  <2>2. holder' \in Flows \cup {NoFlow}
    BY <1>23, SMT DEF QueueRepush
  <2>3. waiters' \in Seq(Repushes)
    <3>1. f \in Repushes
      BY <1>23, Zenon DEF QueueRepush
    <3>2. waiters' = waiters \/ waiters' = Append(waiters, f)
      BY <1>23, Zenon DEF QueueRepush
    <3> QED
      BY <3>1, <3>2, SMT
  <2> HIDE DEF Goto, BuildOrNone
  <2> QED
    BY <1>23, <2>1, <2>2, <2>3, Zenon DEF QueueRepush
<1>24. ASSUME NEW f \in Flows, RepushSnapshot(f) PROVE TypeOK'
  <2>1. CASE Release(f)
    BY <1>24, <2>1, ReleaseTypes DEF RepushSnapshot
  <2>2. CASE ~ Release(f)
    BY <1>24, <2>2, <1>0 DEF RepushSnapshot
  <2> QED
    BY <2>1, <2>2
<1>25. ASSUME SimApply PROVE TypeOK'
  BY <1>25, <1>0 DEF SimApply
<1>26. ASSUME ActuatorCommand PROVE TypeOK'
  BY <1>26, <1>0 DEF ActuatorCommand
<1>27. ASSUME Rtl PROVE TypeOK'
  <2>1. outside' \in BOOLEAN
    BY <1>27, Zenon DEF Rtl
  <2>2. ekf' \in {"fresh", "stale", "stopped"}
    BY <1>27, SMT DEF Rtl
  <2> HIDE DEF Jump, BuildOrNone
  <2> QED
    BY <1>27, <2>1, <2>2, Zenon DEF Rtl
<1>28. ASSUME EmergencyStop PROVE TypeOK'
  <2> HIDE DEF BuildOrNone
  <2> QED
    BY <1>28, <1>a, Zenon DEF EmergencyStop
<1>29. ASSUME Reboot PROVE TypeOK'
  BY <1>29, <1>0 DEF Reboot
<1>30. ASSUME LinkDrops PROVE TypeOK'
  BY <1>30, <1>0 DEF LinkDrops
<1>31. ASSUME NoticeLoss PROVE TypeOK'
  <2> HIDE DEF BuildOrNone
  <2> QED
    BY <1>31, Zenon DEF NoticeLoss
<1>32. ASSUME ScanFails PROVE TypeOK'
  BY <1>32, <1>0 DEF ScanFails
<1>33. ASSUME Connect PROVE TypeOK'
  BY <1>33, <1>0 DEF Connect
<1>34. ASSUME Reconnect PROVE TypeOK'
  <2>1. pc' \in [Flows -> Places]
    BY <1>34, <1>0, SMT DEF Reconnect, Flows
  <2> HIDE DEF Goto, BuildOrNone
  <2> QED
    BY <1>34, <1>a, <2>1, Zenon DEF Reconnect
<1>35. CASE UNCHANGED vars
  BY <1>35 DEF TypeOK, vars
<1>36. ASSUME NEW failed \in BOOLEAN, Prompt(failed) PROVE TypeOK'
  <2>1. shell' \in Seq({"stop", "start", "other"})
    BY <1>36, TailShell, Zenon DEF Prompt
  <2>2. ekf' \in {"fresh", "stale", "stopped"}
    BY <1>36 DEF Prompt, Effect
  <2>3. ASSUME NEW f \in Flows, Awaits(f), Confirmed(f) PROVE TypeOK'
    <3>1. pc' \in [Flows -> Places]
      BY <2>3, <1>0 DEF Confirmed
    <3>2. crossed' \in BOOLEAN
      BY <2>3, Zenon DEF Confirmed
    <3> HIDE DEF Goto, BuildOrNone
    <3> QED
      BY <1>36, <2>1, <2>2, <2>3, <3>1, <3>2, Zenon DEF Prompt, Confirmed
  <2>4. ASSUME NEW f \in Flows, Awaits(f), RestartGivenUp(f) PROVE TypeOK'
    BY <1>36, <2>1, <2>2, <2>4, ReleaseTypes DEF Prompt, RestartGivenUp, FailConfigure
  <2>5. CASE UNCHANGED <<lockState, flowState, caches, simState>>
    BY <1>36, <2>1, <2>2, <2>5 DEF Prompt
  <2> QED
    BY <1>36, <2>3, <2>4, <2>5, Zenon DEF Prompt
<1>37. ASSUME Unheard PROVE TypeOK'
  <2>1. shell' \in Seq({"stop", "start", "other"})
    BY <1>37, TailShell, Zenon DEF Unheard
  <2>2. ekf' \in {"fresh", "stale", "stopped"}
    BY <1>37 DEF Unheard, Effect
  <2> QED
    BY <1>37, <2>1, <2>2 DEF Unheard
<1>38. ASSUME BrowserCommand PROVE TypeOK'
  BY <1>38 DEF BrowserCommand
<1> QED
  BY <1>1, <1>2, <1>3, <1>4, <1>5, <1>6, <1>7, <1>8, <1>9, <1>10, <1>11,
     <1>12, <1>13, <1>14, <1>15, <1>16, <1>17, <1>18, <1>19, <1>20, <1>21,
     <1>22, <1>23, <1>24, <1>25, <1>26, <1>27, <1>28, <1>29, <1>30, <1>31,
     <1>32, <1>33, <1>34, <1>35, <1>36, <1>37, <1>38
     DEF Next, Request, FlowStep, Environment

------------------------------------------------------------------------------
(* The mutex.                                                              *)

\* No step of these shapes breaks the agreement of the mutex and the places.
LEMMA LockStep ==
    ASSUME TypeOK, LockInv, Shape
    PROVE  LockInv'
<1>1. CASE UNCHANGED <<holder, waiters, pc>>
  BY <1>1 DEF LockInv
<1>2. ASSUME NEW f \in Flows, MovesOutside(f) PROVE LockInv'
  BY <1>2 DEF TypeOK, LockInv, MovesOutside, Flows
<1>3. ASSUME NEW f \in Flows, MovesInside(f) PROVE LockInv'
  BY <1>3 DEF TypeOK, LockInv, MovesInside, Flows, InSession
<1>4. ASSUME NEW f \in Flows, Enters(f) PROVE LockInv'
  BY <1>4, FlowsAssumption DEF TypeOK, LockInv, Enters, Flows, InSession
<1>5. ASSUME NEW f \in Flows, Queues(f) PROVE LockInv'
  <2>1. /\ waiters' \in Seq(Repushes)
        /\ Len(waiters') = Len(waiters) + 1
        /\ \A i \in 1..Len(waiters) : waiters'[i] = waiters[i]
        /\ waiters'[Len(waiters) + 1] = f
    BY <1>5, AppendProperties DEF TypeOK, Queues
  <2>2. \A i \in 1..Len(waiters) : waiters[i] # f
    BY <1>5 DEF TypeOK, LockInv, Queues
  <2>3. \A g \in Flows : pc'[g] \in InSession <=> holder' = g
    BY <1>5 DEF TypeOK, LockInv, Queues, InSession
  <2>4. \A i \in 1..Len(waiters') : pc'[waiters'[i]] = "waiting"
    BY <1>5, <2>1, <2>2 DEF TypeOK, LockInv, Queues, Flows
  <2>5. \A i, j \in 1..Len(waiters') : waiters'[i] = waiters'[j] => i = j
    BY <2>1, <2>2 DEF TypeOK, LockInv
  <2> QED
    BY <1>5, <2>3, <2>4, <2>5 DEF LockInv, Queues
<1>6. ASSUME NEW f \in Flows, Leaves(f) PROVE LockInv'
  <2>1. CASE waiters = <<>>
    BY <1>6, <2>1, FlowsAssumption DEF TypeOK, LockInv, Leaves, Release, InSession
  <2>2. CASE waiters # <<>>
    <3> DEFINE h == Head(waiters)
    <3>1. /\ Len(waiters) \in Nat \ {0}
          /\ h \in Repushes
          /\ h = waiters[1]
          /\ Tail(waiters) \in Seq(Repushes)
          /\ Len(Tail(waiters)) = Len(waiters) - 1
          /\ \A i \in 1..Len(Tail(waiters)) :
                i + 1 \in 1..Len(waiters) /\ Tail(waiters)[i] = waiters[i + 1]
      BY <2>2, QueueHead DEF TypeOK
    <3>2. pc[h] = "waiting" /\ h \in Flows /\ h # f
      BY <1>6, <3>1 DEF LockInv, Leaves, InSession, Flows
    <3>3. /\ holder' = h
          /\ waiters' = Tail(waiters)
          /\ pc' = [g \in Flows |-> IF g = f THEN "idle"
                                    ELSE IF g = h THEN "granted" ELSE pc[g]]
      BY <1>6, <2>2 DEF Leaves, Release
    <3>4. \A g \in Flows : pc'[g] \in InSession <=> holder' = g
      BY <1>6, <3>2, <3>3 DEF LockInv, Leaves, InSession
    <3>5. \A i \in 1..Len(waiters') :
            /\ waiters'[i] # h
            /\ waiters'[i] # f
            /\ pc[waiters'[i]] = "waiting"
            /\ waiters'[i] \in Flows
      BY <1>6, <3>1, <3>3 DEF LockInv, Leaves, InSession, Flows, TypeOK
    <3>6. \A i \in 1..Len(waiters') : pc'[waiters'[i]] = "waiting"
      BY <3>3, <3>5
    <3>7. \A i, j \in 1..Len(waiters') : waiters'[i] = waiters'[j] => i = j
      BY <3>1, <3>3 DEF LockInv
    <3>8. holder' # NoFlow
      BY <3>2, <3>3, FlowsAssumption
    <3> QED
      BY <3>4, <3>6, <3>7, <3>8 DEF LockInv
  <2> QED
    BY <2>1, <2>2
<1> QED
  BY <1>1, <1>2, <1>3, <1>4, <1>5, <1>6 DEF Shape

\* Where everyone is after f has dropped its guard.
Dropped(f) ==
    /\ pc'[f] = "idle"
    /\ \A g \in Flows \ {f} :
         /\ \/ pc'[g] = pc[g]
            \/ g \in Repushes /\ pc[g] = "waiting" /\ pc'[g] = "granted"
         /\ build'[g] = build[g]
    /\ acked' = 0 /\ ~ moved' /\ ~ outside'
    /\ pc[f] # "granted" => (RepushPending' <=> RepushPending)

\* Dropping the guard frees f, hands over to a waiting re-push, and nothing else.
LEMMA ReleasePlaces ==
    ASSUME TypeOK, LockInv, NEW f \in Flows, pc[f] \in InSession, Release(f)
    PROVE  Dropped(f)
<1>1. waiters # <<>> => /\ Head(waiters) \in Repushes
                        /\ pc[Head(waiters)] = "waiting"
  BY QueueHead DEF TypeOK, LockInv
<1>2. \A g \in Flows \ {f} :
        \/ pc'[g] = pc[g]
        \/ g \in Repushes /\ pc[g] = "waiting" /\ pc'[g] = "granted"
  BY <1>1 DEF TypeOK, Release
<1>3. pc'[f] = "idle" /\ \A g \in Flows \ {f} : build'[g] = build[g]
  BY DEF TypeOK, Release
<1>4. pc[f] # "granted" => (RepushPending' <=> RepushPending)
  BY <1>2, <1>3 DEF RepushPending, InSession, Flows
<1>5. acked' = 0 /\ ~ moved' /\ ~ outside'
  BY DEF Release
<1> QED
  BY <1>2, <1>3, <1>4, <1>5 DEF Dropped

------------------------------------------------------------------------------
(* The places of each kind of flow.                                        *)

\* No step takes a flow to a place of another kind, or its build away.
LEMMA KindInvStep ==
    ASSUME TypeOK, LockInv, KindInv, [Next]_vars
    PROVE  KindInv'
<1> USE FlowsAssumption
         DEF TypeOK, LockInv, KindInv, Flows, InSession, Dropped, Goto, Jump,
             lockState, flowState, history, caches, simState, board
<1>0. \A f \in Flows : pc[f] \in InSession /\ Release(f) => Dropped(f)
  BY ReleasePlaces
<1>1. ASSUME NEW f \in Flows, NEW b \in Builds, RequestConfigure(f, b) PROVE KindInv'
  BY <1>1 DEF RequestConfigure
<1>2. ASSUME NEW f \in Flows, RequestReset(f) PROVE KindInv'
  BY <1>2 DEF RequestReset
<1>3. ASSUME NEW f \in Flows, TakeSession(f) PROVE KindInv'
  BY <1>3 DEF TakeSession
<1>4. ASSUME NEW f \in Flows, RefuseBusy(f) PROVE KindInv'
  BY <1>4 DEF RefuseBusy
<1>5. ASSUME NEW f \in Flows, CheckArmedInside(f) PROVE KindInv'
  BY <1>0, <1>5 DEF CheckArmedInside
<1>6. ASSUME NEW f \in Flows, FetchFails(f) PROVE KindInv'
  BY <1>0, <1>6 DEF FetchFails, FailConfigure
<1>7. ASSUME NEW f \in Flows, FetchSpecs(f) PROVE KindInv'
  BY <1>7 DEF FetchSpecs
<1>8. ASSUME NEW f \in Flows, PushParam(f) PROVE KindInv'
  BY <1>8 DEF PushParam
<1>9. ASSUME NEW f \in Flows, PushFails(f) PROVE KindInv'
  BY <1>0, <1>9 DEF PushFails, FailConfigure
<1>10. ASSUME NEW f \in Flows, FinishPush(f) PROVE KindInv'
  BY <1>0, <1>10 DEF FinishPush
<1>11. ASSUME NEW f \in Flows, CheckArmedAfterPush(f) PROVE KindInv'
  BY <1>0, <1>11 DEF CheckArmedAfterPush, FailConfigure
<1>12. ASSUME NEW f \in Flows, AnchorOrigin(f) PROVE KindInv'
  BY <1>12 DEF AnchorOrigin
<1>13. ASSUME NEW f \in Flows, SendBuild(f) PROVE KindInv'
  BY <1>13 DEF SendBuild
<1>14. ASSUME NEW f \in Flows, SendFails(f) PROVE KindInv'
  BY <1>0, <1>14 DEF SendFails, FailConfigure
<1>15. ASSUME NEW f \in Flows, ConfigApplied(f) PROVE KindInv'
  <2>1. CASE SimOnly
    BY <1>0, <1>15, <2>1 DEF ConfigApplied
  <2>2. CASE ~ SimOnly
    <3>1. pc[f] = "applying" /\ Goto(f, "stopping") /\ build' = build
      BY <1>15, <2>2 DEF ConfigApplied
    <3> QED
      BY <3>1
  <2> QED
    BY <2>1, <2>2
<1>16. ASSUME NEW f \in Flows, ConfigApplyTimeout(f) PROVE KindInv'
  BY <1>0, <1>16 DEF ConfigApplyTimeout, FailConfigure
<1>17. ASSUME NEW f \in Flows, ResetVehicle(f) PROVE KindInv'
  BY <1>0, <1>17 DEF ResetVehicle
<1>18. ASSUME NEW f \in Flows, SendStop(f) PROVE KindInv'
  BY <1>18 DEF SendStop
<1>19. ASSUME NEW f \in Flows, SendStart(f) PROVE KindInv'
  BY <1>19 DEF SendStart
<1>20. ASSUME NEW f \in Flows, RestartFails(f) PROVE KindInv'
  BY <1>0, <1>20 DEF RestartFails, RestartGivenUp, FailConfigure
<1>21. ASSUME NEW f \in Flows, ReportReady(f) PROVE KindInv'
  BY <1>0, <1>21 DEF ReportReady
<1>22. ASSUME NEW f \in Flows, NeverReady(f) PROVE KindInv'
  BY <1>0, <1>22 DEF NeverReady, FailConfigure
<1>23. ASSUME NEW f \in Flows, QueueRepush(f) PROVE KindInv'
  BY <1>23 DEF QueueRepush
<1>24. ASSUME NEW f \in Flows, RepushSnapshot(f) PROVE KindInv'
  BY <1>0, <1>24 DEF RepushSnapshot
<1>25. ASSUME SimApply PROVE KindInv'
  BY <1>25 DEF SimApply
<1>26. ASSUME ActuatorCommand PROVE KindInv'
  BY <1>26 DEF ActuatorCommand
<1>27. ASSUME Rtl PROVE KindInv'
  BY <1>27 DEF Rtl
<1>28. ASSUME EmergencyStop PROVE KindInv'
  BY <1>28 DEF EmergencyStop
<1>29. ASSUME Reboot PROVE KindInv'
  BY <1>29 DEF Reboot
<1>30. ASSUME LinkDrops PROVE KindInv'
  BY <1>30 DEF LinkDrops
<1>31. ASSUME NoticeLoss PROVE KindInv'
  BY <1>31 DEF NoticeLoss
<1>32. ASSUME ScanFails PROVE KindInv'
  BY <1>32 DEF ScanFails
<1>33. ASSUME Connect PROVE KindInv'
  BY <1>33 DEF Connect
<1>34. ASSUME Reconnect PROVE KindInv'
  BY <1>34 DEF Reconnect
<1>35. CASE UNCHANGED vars
  BY <1>35 DEF vars
<1>36. ASSUME NEW failed \in BOOLEAN, Prompt(failed) PROVE KindInv'
  <2>1. UNCHANGED <<origin, link, ram>>
    BY <1>36 DEF Prompt
  <2>2. ASSUME NEW f \in Flows, Awaits(f), Confirmed(f) PROVE KindInv'
    BY <2>1, <2>2 DEF Awaits, Confirmed
  <2>3. ASSUME NEW f \in Flows, Awaits(f), RestartGivenUp(f) PROVE KindInv'
    BY <1>0, <2>1, <2>3 DEF Awaits, RestartGivenUp, FailConfigure
  <2>4. CASE UNCHANGED <<lockState, flowState, caches, simState>>
    BY <2>1, <2>4
  <2> QED
    BY <1>36, <2>2, <2>3, <2>4 DEF Prompt
<1>37. ASSUME Unheard PROVE KindInv'
  BY <1>37 DEF Unheard
<1>38. ASSUME BrowserCommand PROVE KindInv'
  BY <1>38 DEF BrowserCommand
<1> QED
  BY <1>1, <1>2, <1>3, <1>4, <1>5, <1>6, <1>7, <1>8, <1>9, <1>10, <1>11,
     <1>12, <1>13, <1>14, <1>15, <1>16, <1>17, <1>18, <1>19, <1>20, <1>21,
     <1>22, <1>23, <1>24, <1>25, <1>26, <1>27, <1>28, <1>29, <1>30, <1>31,
     <1>32, <1>33, <1>34, <1>35, <1>36, <1>37, <1>38
     DEF Next, Request, FlowStep, Environment

------------------------------------------------------------------------------
(* The origin and the build in the simulation.                             *)

\* No step parts the origin from the build that goes with it.
LEMMA HandInvStep ==
    ASSUME TypeOK, LockInv, KindInv, HandInv, [Next]_vars
    PROVE  HandInv'
<1> USE FlowsAssumption, BuildsAssumption
         DEF TypeOK, LockInv, KindInv, HandInv, Handing, Flows, InSession,
             BuildOrNone, Dropped, Goto, Jump, lockState, flowState, history, caches, simState, board
<1>0. \A f \in Flows : pc[f] \in InSession /\ Release(f) => Dropped(f)
  BY ReleasePlaces
<1>1. ASSUME NEW f \in Flows, NEW b \in Builds, RequestConfigure(f, b) PROVE HandInv'
  BY <1>1 DEF RequestConfigure
<1>2. ASSUME NEW f \in Flows, RequestReset(f) PROVE HandInv'
  BY <1>2 DEF RequestReset
<1>3. ASSUME NEW f \in Flows, TakeSession(f) PROVE HandInv'
  BY <1>3 DEF TakeSession
<1>4. ASSUME NEW f \in Flows, RefuseBusy(f) PROVE HandInv'
  BY <1>4 DEF RefuseBusy
<1>5. ASSUME NEW f \in Flows, CheckArmedInside(f) PROVE HandInv'
  BY <1>0, <1>5 DEF CheckArmedInside
<1>6. ASSUME NEW f \in Flows, FetchFails(f) PROVE HandInv'
  BY <1>0, <1>6 DEF FetchFails, FailConfigure
<1>7. ASSUME NEW f \in Flows, FetchSpecs(f) PROVE HandInv'
  BY <1>7 DEF FetchSpecs
<1>8. ASSUME NEW f \in Flows, PushParam(f) PROVE HandInv'
  BY <1>8 DEF PushParam
<1>9. ASSUME NEW f \in Flows, PushFails(f) PROVE HandInv'
  BY <1>0, <1>9 DEF PushFails, FailConfigure
<1>10. ASSUME NEW f \in Flows, FinishPush(f) PROVE HandInv'
  BY <1>0, <1>10 DEF FinishPush
<1>11. ASSUME NEW f \in Flows, CheckArmedAfterPush(f) PROVE HandInv'
  BY <1>0, <1>11 DEF CheckArmedAfterPush, FailConfigure
<1>12. ASSUME NEW f \in Flows, AnchorOrigin(f) PROVE HandInv'
  BY <1>12 DEF AnchorOrigin
<1>13. ASSUME NEW f \in Flows, SendBuild(f) PROVE HandInv'
  BY <1>13 DEF SendBuild
<1>14. ASSUME NEW f \in Flows, SendFails(f) PROVE HandInv'
  <2>1. ~ running' /\ channel = NoBuild
    BY <1>14 DEF SendFails
  <2> QED
    BY <1>0, <1>14, <2>1 DEF SendFails, FailConfigure
<1>15. ASSUME NEW f \in Flows, ConfigApplied(f) PROVE HandInv'
  <2>1. CASE SimOnly
    BY <1>0, <1>15, <2>1 DEF ConfigApplied
  <2>2. CASE ~ SimOnly
    BY <1>15, <2>2 DEF ConfigApplied
  <2> QED
    BY <2>1, <2>2
<1>16. ASSUME NEW f \in Flows, ConfigApplyTimeout(f) PROVE HandInv'
  BY <1>0, <1>16 DEF ConfigApplyTimeout, FailConfigure
<1>17. ASSUME NEW f \in Flows, ResetVehicle(f) PROVE HandInv'
  BY <1>0, <1>17 DEF ResetVehicle
<1>18. ASSUME NEW f \in Flows, SendStop(f) PROVE HandInv'
  BY <1>18 DEF SendStop
<1>19. ASSUME NEW f \in Flows, SendStart(f) PROVE HandInv'
  BY <1>19 DEF SendStart
<1>20. ASSUME NEW f \in Flows, RestartFails(f) PROVE HandInv'
  BY <1>0, <1>20 DEF RestartFails, RestartGivenUp, FailConfigure
<1>21. ASSUME NEW f \in Flows, ReportReady(f) PROVE HandInv'
  BY <1>0, <1>21 DEF ReportReady
<1>22. ASSUME NEW f \in Flows, NeverReady(f) PROVE HandInv'
  BY <1>0, <1>22 DEF NeverReady, FailConfigure
<1>23. ASSUME NEW f \in Flows, QueueRepush(f) PROVE HandInv'
  BY <1>23 DEF QueueRepush
<1>24. ASSUME NEW f \in Flows, RepushSnapshot(f) PROVE HandInv'
  BY <1>0, <1>24 DEF RepushSnapshot
<1>25. ASSUME SimApply PROVE HandInv'
  BY <1>25 DEF SimApply
<1>26. ASSUME ActuatorCommand PROVE HandInv'
  BY <1>26 DEF ActuatorCommand
<1>27. ASSUME Rtl PROVE HandInv'
  BY <1>27 DEF Rtl
<1>28. ASSUME EmergencyStop PROVE HandInv'
  BY <1>28 DEF EmergencyStop
<1>29. ASSUME Reboot PROVE HandInv'
  BY <1>29 DEF Reboot
<1>30. ASSUME LinkDrops PROVE HandInv'
  BY <1>30 DEF LinkDrops
<1>31. ASSUME NoticeLoss PROVE HandInv'
  BY <1>31 DEF NoticeLoss
<1>32. ASSUME ScanFails PROVE HandInv'
  BY <1>32 DEF ScanFails
<1>33. ASSUME Connect PROVE HandInv'
  BY <1>33 DEF Connect
<1>34. ASSUME Reconnect PROVE HandInv'
  BY <1>34 DEF Reconnect
<1>35. CASE UNCHANGED vars
  BY <1>35 DEF vars
<1>36. ASSUME NEW failed \in BOOLEAN, Prompt(failed) PROVE HandInv'
  <2>1. UNCHANGED <<origin, link, ram>>
    BY <1>36 DEF Prompt
  <2>2. ASSUME NEW f \in Flows, Awaits(f), Confirmed(f) PROVE HandInv'
    BY <2>1, <2>2 DEF Awaits, Confirmed
  <2>3. ASSUME NEW f \in Flows, Awaits(f), RestartGivenUp(f) PROVE HandInv'
    BY <1>0, <2>1, <2>3 DEF Awaits, RestartGivenUp, FailConfigure
  <2>4. CASE UNCHANGED <<lockState, flowState, caches, simState>>
    BY <2>1, <2>4
  <2> QED
    BY <1>36, <2>2, <2>3, <2>4 DEF Prompt
<1>37. ASSUME Unheard PROVE HandInv'
  BY <1>37 DEF Unheard
<1>38. ASSUME BrowserCommand PROVE HandInv'
  BY <1>38 DEF BrowserCommand
<1> QED
  BY <1>1, <1>2, <1>3, <1>4, <1>5, <1>6, <1>7, <1>8, <1>9, <1>10, <1>11,
     <1>12, <1>13, <1>14, <1>15, <1>16, <1>17, <1>18, <1>19, <1>20, <1>21,
     <1>22, <1>23, <1>24, <1>25, <1>26, <1>27, <1>28, <1>29, <1>30, <1>31,
     <1>32, <1>33, <1>34, <1>35, <1>36, <1>37, <1>38
     DEF Next, Request, FlowStep, Environment

------------------------------------------------------------------------------
(* The parameters on the board.                                            *)

\* No step makes the fingerprint or the progress of a push untrue.
LEMMA PushInvStep ==
    ASSUME TypeOK, LockInv, KindInv, PushInv, [Next]_vars
    PROVE  PushInv'
<1> USE FlowsAssumption, BuildsAssumption, NParamsAssumption
         DEF TypeOK, LockInv, KindInv, PushInv, Holds, Pushed, Params, Reachable,
             RepushPending, Flows, InSession, BuildOrNone,
             Dropped, Goto, Jump, lockState, flowState, history, caches, simState, board
<1>0. \A f \in Flows : pc[f] \in InSession /\ Release(f) => Dropped(f)
  BY ReleasePlaces
<1>1. ASSUME NEW f \in Flows, NEW b \in Builds, RequestConfigure(f, b) PROVE PushInv'
  BY <1>1 DEF RequestConfigure
<1>2. ASSUME NEW f \in Flows, RequestReset(f) PROVE PushInv'
  BY <1>2 DEF RequestReset
<1>3. ASSUME NEW f \in Flows, TakeSession(f) PROVE PushInv'
  BY <1>3 DEF TakeSession
<1>4. ASSUME NEW f \in Flows, RefuseBusy(f) PROVE PushInv'
  BY <1>4 DEF RefuseBusy
<1>5. ASSUME NEW f \in Flows, CheckArmedInside(f) PROVE PushInv'
  BY <1>0, <1>5 DEF CheckArmedInside
<1>6. ASSUME NEW f \in Flows, FetchFails(f) PROVE PushInv'
  BY <1>0, <1>6 DEF FetchFails, FailConfigure
<1>7. ASSUME NEW f \in Flows, FetchSpecs(f) PROVE PushInv'
  BY <1>7 DEF FetchSpecs
<1>8. ASSUME NEW f \in Flows, PushParam(f) PROVE PushInv'
  BY <1>8 DEF PushParam
<1>9. ASSUME NEW f \in Flows, PushFails(f) PROVE PushInv'
  <2>1. /\ pc[f] = "pushing" /\ Dropped(f) /\ lastVerified' = lastVerified /\ link' = link
        /\ IF f \in Configures THEN fingerprint' = NoBuild ELSE fingerprint' = fingerprint
    BY <1>0, <1>9 DEF PushFails, FailConfigure
  <2>2. fingerprint' = NoBuild
    BY <2>1
  <2>3. \A g \in Flows : pc'[g] # "pushing"
    BY <2>1
  <2> QED
    BY <2>1, <2>2, <2>3
<1>10. ASSUME NEW f \in Flows, FinishPush(f) PROVE PushInv'
  BY <1>0, <1>10 DEF FinishPush
<1>11. ASSUME NEW f \in Flows, CheckArmedAfterPush(f) PROVE PushInv'
  BY <1>0, <1>11 DEF CheckArmedAfterPush, FailConfigure
<1>12. ASSUME NEW f \in Flows, AnchorOrigin(f) PROVE PushInv'
  BY <1>12 DEF AnchorOrigin
<1>13. ASSUME NEW f \in Flows, SendBuild(f) PROVE PushInv'
  BY <1>13 DEF SendBuild
<1>14. ASSUME NEW f \in Flows, SendFails(f) PROVE PushInv'
  BY <1>0, <1>14 DEF SendFails, FailConfigure
<1>15. ASSUME NEW f \in Flows, ConfigApplied(f) PROVE PushInv'
  <2>1. CASE SimOnly
    BY <1>0, <1>15, <2>1 DEF ConfigApplied
  <2>2. CASE ~ SimOnly
    BY <1>15, <2>2 DEF ConfigApplied
  <2> QED
    BY <2>1, <2>2
<1>16. ASSUME NEW f \in Flows, ConfigApplyTimeout(f) PROVE PushInv'
  BY <1>0, <1>16 DEF ConfigApplyTimeout, FailConfigure
<1>17. ASSUME NEW f \in Flows, ResetVehicle(f) PROVE PushInv'
  BY <1>0, <1>17 DEF ResetVehicle
<1>18. ASSUME NEW f \in Flows, SendStop(f) PROVE PushInv'
  BY <1>18 DEF SendStop
<1>19. ASSUME NEW f \in Flows, SendStart(f) PROVE PushInv'
  BY <1>19 DEF SendStart
<1>20. ASSUME NEW f \in Flows, RestartFails(f) PROVE PushInv'
  <2>1. /\ pc[f] \notin {"granted", "pushing"}
        /\ Dropped(f)
        /\ UNCHANGED <<lastVerified, link, ram>>
        /\ fingerprint' \in {NoBuild, fingerprint}
    BY <1>0, <1>20 DEF RestartFails, RestartGivenUp, FailConfigure
  <2> QED
    BY <2>1
<1>21. ASSUME NEW f \in Flows, ReportReady(f) PROVE PushInv'
  BY <1>0, <1>21 DEF ReportReady
<1>22. ASSUME NEW f \in Flows, NeverReady(f) PROVE PushInv'
  BY <1>0, <1>22 DEF NeverReady, FailConfigure
<1>23. ASSUME NEW f \in Flows, QueueRepush(f) PROVE PushInv'
  BY <1>23 DEF QueueRepush
<1>24. ASSUME NEW f \in Flows, RepushSnapshot(f) PROVE PushInv'
  BY <1>0, <1>24 DEF RepushSnapshot
<1>25. ASSUME SimApply PROVE PushInv'
  BY <1>25 DEF SimApply
<1>26. ASSUME ActuatorCommand PROVE PushInv'
  BY <1>26 DEF ActuatorCommand
<1>27. ASSUME Rtl PROVE PushInv'
  BY <1>27 DEF Rtl
<1>28. ASSUME EmergencyStop PROVE PushInv'
  BY <1>28 DEF EmergencyStop
<1>29. ASSUME Reboot PROVE PushInv'
  BY <1>29 DEF Reboot
<1>30. ASSUME LinkDrops PROVE PushInv'
  BY <1>30 DEF LinkDrops
<1>31. ASSUME NoticeLoss PROVE PushInv'
  BY <1>31 DEF NoticeLoss
<1>32. ASSUME ScanFails PROVE PushInv'
  BY <1>32 DEF ScanFails
<1>33. ASSUME Connect PROVE PushInv'
  BY <1>33 DEF Connect
<1>34. ASSUME Reconnect PROVE PushInv'
  BY <1>34 DEF Reconnect
<1>35. CASE UNCHANGED vars
  BY <1>35 DEF vars
<1>36. ASSUME NEW failed \in BOOLEAN, Prompt(failed) PROVE PushInv'
  <2>1. UNCHANGED <<origin, link, ram>>
    BY <1>36 DEF Prompt
  <2>2. ASSUME NEW f \in Flows, Awaits(f), Confirmed(f) PROVE PushInv'
    BY <2>1, <2>2 DEF Awaits, Confirmed
  <2>3. ASSUME NEW f \in Flows, Awaits(f), RestartGivenUp(f) PROVE PushInv'
    BY <1>0, <2>1, <2>3 DEF Awaits, RestartGivenUp, FailConfigure
  <2>4. CASE UNCHANGED <<lockState, flowState, caches, simState>>
    BY <2>1, <2>4
  <2> QED
    BY <1>36, <2>2, <2>3, <2>4 DEF Prompt
<1>37. ASSUME Unheard PROVE PushInv'
  BY <1>37 DEF Unheard
<1>38. ASSUME BrowserCommand PROVE PushInv'
  BY <1>38 DEF BrowserCommand
<1> HIDE DEF TypeOK, LockInv, KindInv, PushInv
<1> QED
  BY <1>1, <1>2, <1>3, <1>4, <1>5, <1>6, <1>7, <1>8, <1>9, <1>10, <1>11,
     <1>12, <1>13, <1>14, <1>15, <1>16, <1>17, <1>18, <1>19, <1>20, <1>21,
     <1>22, <1>23, <1>24, <1>25, <1>26, <1>27, <1>28, <1>29, <1>30, <1>31,
     <1>32, <1>33, <1>34, <1>35, <1>36, <1>37, <1>38
     DEF Next, Request, FlowStep, Environment

------------------------------------------------------------------------------
(* What stands behind a Ready.                                             *)

\* No undisturbed step loses what a flow has established so far.
LEMMA ReadyInvStep ==
    ASSUME TypeOK, LockInv, KindInv, PushInv, HandInv,
           ReadyInv, [Next]_vars
    PROVE  ReadyInv'
<1> USE FlowsAssumption, BuildsAssumption
         DEF TypeOK, LockInv, KindInv, PushInv, HandInv, ReadyInv, Restarting, Holds, Reachable,
             RepushPending, Flows, InSession, BuildOrNone,
             Dropped, Goto, Jump, lockState, flowState, history, caches, simState, board
<1>0. \A f \in Flows : pc[f] \in InSession /\ Release(f) => Dropped(f)
  BY ReleasePlaces
<1>1. ASSUME NEW f \in Flows, NEW b \in Builds, RequestConfigure(f, b) PROVE ReadyInv'
  BY <1>1 DEF RequestConfigure
<1>2. ASSUME NEW f \in Flows, RequestReset(f) PROVE ReadyInv'
  BY <1>2 DEF RequestReset
<1>3. ASSUME NEW f \in Flows, TakeSession(f) PROVE ReadyInv'
  BY <1>3 DEF TakeSession
<1>4. ASSUME NEW f \in Flows, RefuseBusy(f) PROVE ReadyInv'
  BY <1>4 DEF RefuseBusy
<1>5. ASSUME NEW f \in Flows, CheckArmedInside(f) PROVE ReadyInv'
  BY <1>0, <1>5 DEF CheckArmedInside
<1>6. ASSUME NEW f \in Flows, FetchFails(f) PROVE ReadyInv'
  BY <1>0, <1>6 DEF FetchFails, FailConfigure
<1>7. ASSUME NEW f \in Flows, FetchSpecs(f) PROVE ReadyInv'
  BY <1>7 DEF FetchSpecs
<1>8. ASSUME NEW f \in Flows, PushParam(f) PROVE ReadyInv'
  BY <1>8 DEF PushParam
<1>9. ASSUME NEW f \in Flows, PushFails(f) PROVE ReadyInv'
  BY <1>0, <1>9 DEF PushFails, FailConfigure
<1>10. ASSUME NEW f \in Flows, FinishPush(f) PROVE ReadyInv'
  BY <1>0, <1>10 DEF FinishPush
<1>11. ASSUME NEW f \in Flows, CheckArmedAfterPush(f) PROVE ReadyInv'
  BY <1>0, <1>11 DEF CheckArmedAfterPush, FailConfigure
<1>12. ASSUME NEW f \in Flows, AnchorOrigin(f) PROVE ReadyInv'
  BY <1>12 DEF AnchorOrigin
<1>13. ASSUME NEW f \in Flows, SendBuild(f) PROVE ReadyInv'
  BY <1>13 DEF SendBuild
<1>14. ASSUME NEW f \in Flows, SendFails(f) PROVE ReadyInv'
  BY <1>0, <1>14 DEF SendFails, FailConfigure
<1>15. ASSUME NEW f \in Flows, ConfigApplied(f) PROVE ReadyInv'
  <2>1. CASE SimOnly
    BY <1>0, <1>15, <2>1 DEF ConfigApplied
  <2>2. CASE ~ SimOnly
    BY <1>15, <2>2 DEF ConfigApplied
  <2> QED
    BY <2>1, <2>2
<1>16. ASSUME NEW f \in Flows, ConfigApplyTimeout(f) PROVE ReadyInv'
  BY <1>0, <1>16 DEF ConfigApplyTimeout, FailConfigure
<1>17. ASSUME NEW f \in Flows, ResetVehicle(f) PROVE ReadyInv'
  BY <1>0, <1>17 DEF ResetVehicle
<1>18. ASSUME NEW f \in Flows, SendStop(f) PROVE ReadyInv'
  BY <1>18 DEF SendStop
<1>19. ASSUME NEW f \in Flows, SendStart(f) PROVE ReadyInv'
  BY <1>19 DEF SendStart
<1>20. ASSUME NEW f \in Flows, RestartFails(f) PROVE ReadyInv'
  BY <1>0, <1>20 DEF RestartFails, RestartGivenUp, FailConfigure
<1>21. ASSUME NEW f \in Flows, ReportReady(f) PROVE ReadyInv'
  BY <1>0, <1>21 DEF ReportReady
<1>22. ASSUME NEW f \in Flows, NeverReady(f) PROVE ReadyInv'
  BY <1>0, <1>22 DEF NeverReady, FailConfigure
<1>23. ASSUME NEW f \in Flows, QueueRepush(f) PROVE ReadyInv'
  BY <1>23 DEF QueueRepush
<1>24. ASSUME NEW f \in Flows, RepushSnapshot(f) PROVE ReadyInv'
  BY <1>0, <1>24 DEF RepushSnapshot
<1>25. ASSUME SimApply PROVE ReadyInv'
  <2>1. CASE holder = NoFlow
    <3>1. \A f \in Flows : pc'[f] \notin InSession
      BY <1>25, <2>1 DEF SimApply
    <3> QED
      BY <3>1
  <2>2. CASE holder # NoFlow /\ pc[holder] = "applying" /\ build[holder] = channel
    <3>1. /\ simBuild' = build[holder]
          /\ \A f \in Flows : pc'[f] \in InSession => f = holder
          /\ pc'[holder] = "applying"
      BY <1>25, <2>2 DEF SimApply
    <3>2. outside' = outside
      BY <1>25, <2>2 DEF SimApply
    <3> QED
      BY <1>25, <2>2, <3>1, <3>2 DEF SimApply
  <2>3. CASE holder # NoFlow /\ ~ (pc[holder] = "applying" /\ build[holder] = channel)
    <3>1. outside'
      BY <1>25, <2>3 DEF SimApply
    <3> QED
      BY <3>1
  <2> QED
    BY <2>1, <2>2, <2>3
<1>26. ASSUME ActuatorCommand PROVE ReadyInv'
  BY <1>26 DEF ActuatorCommand
<1>27. ASSUME Rtl PROVE ReadyInv'
  <2>1. CASE holder = NoFlow
    <3>1. \A f \in Flows : pc'[f] \notin InSession
      BY <1>27, <2>1 DEF Rtl
    <3> QED
      BY <3>1
  <2>2. CASE holder # NoFlow
    <3>1. outside'
      BY <1>27, <2>2 DEF Rtl
    <3> QED
      BY <3>1
  <2> QED
    BY <2>1, <2>2
<1>28. ASSUME EmergencyStop PROVE ReadyInv'
  BY <1>28 DEF EmergencyStop
<1>29. ASSUME Reboot PROVE ReadyInv'
  <2>1. CASE holder = NoFlow
    <3>1. \A f \in Flows : pc'[f] \notin InSession
      BY <1>29, <2>1 DEF Reboot
    <3> QED
      BY <3>1
  <2>2. CASE holder # NoFlow
    <3>1. outside'
      BY <1>29, <2>2 DEF Reboot
    <3> QED
      BY <3>1
  <2> QED
    BY <2>1, <2>2
<1>30. ASSUME LinkDrops PROVE ReadyInv'
  BY <1>30 DEF LinkDrops
<1>31. ASSUME NoticeLoss PROVE ReadyInv'
  BY <1>31 DEF NoticeLoss
<1>32. ASSUME ScanFails PROVE ReadyInv'
  BY <1>32 DEF ScanFails
<1>33. ASSUME Connect PROVE ReadyInv'
  BY <1>33 DEF Connect
<1>34. ASSUME Reconnect PROVE ReadyInv'
  BY <1>34 DEF Reconnect
<1>35. CASE UNCHANGED vars
  BY <1>35 DEF vars
<1>36. ASSUME NEW failed \in BOOLEAN, Prompt(failed) PROVE ReadyInv'
  <2>1. UNCHANGED <<origin, link, ram>>
    BY <1>36 DEF Prompt
  <2>2. ASSUME NEW f \in Flows, Awaits(f), Confirmed(f) PROVE ReadyInv'
    BY <2>1, <2>2 DEF Awaits, Confirmed
  <2>3. ASSUME NEW f \in Flows, Awaits(f), RestartGivenUp(f) PROVE ReadyInv'
    BY <1>0, <2>1, <2>3 DEF Awaits, RestartGivenUp, FailConfigure
  <2>4. CASE UNCHANGED <<lockState, flowState, caches, simState>>
    BY <2>1, <2>4
  <2> QED
    BY <1>36, <2>2, <2>3, <2>4 DEF Prompt
<1>37. ASSUME Unheard PROVE ReadyInv'
  BY <1>37 DEF Unheard
<1>38. ASSUME BrowserCommand PROVE ReadyInv'
  BY <1>38 DEF BrowserCommand
<1> QED
  BY <1>1, <1>2, <1>3, <1>4, <1>5, <1>6, <1>7, <1>8, <1>9, <1>10, <1>11,
     <1>12, <1>13, <1>14, <1>15, <1>16, <1>17, <1>18, <1>19, <1>20, <1>21,
     <1>22, <1>23, <1>24, <1>25, <1>26, <1>27, <1>28, <1>29, <1>30, <1>31,
     <1>32, <1>33, <1>34, <1>35, <1>36, <1>37, <1>38
     DEF Next, Request, FlowStep, Environment

------------------------------------------------------------------------------
(* The estimator.                                                          *)

\* No undisturbed step undoes what the prompts of a restart have confirmed.
LEMMA EkfInvStep ==
    ASSUME TypeOK, LockInv, EkfInv, [Next]_vars
    PROVE  EkfInv'
<1> USE FlowsAssumption
         DEF TypeOK, LockInv, EkfInv, Flows, InSession,
             Dropped, Goto, Jump, lockState, flowState, history, caches, simState, board
<1>0. \A f \in Flows : pc[f] \in InSession /\ Release(f) => Dropped(f)
  BY ReleasePlaces
<1>1. ASSUME NEW f \in Flows, NEW b \in Builds, RequestConfigure(f, b) PROVE EkfInv'
  BY <1>1 DEF RequestConfigure
<1>2. ASSUME NEW f \in Flows, RequestReset(f) PROVE EkfInv'
  BY <1>2 DEF RequestReset
<1>3. ASSUME NEW f \in Flows, TakeSession(f) PROVE EkfInv'
  BY <1>3 DEF TakeSession
<1>4. ASSUME NEW f \in Flows, RefuseBusy(f) PROVE EkfInv'
  BY <1>4 DEF RefuseBusy
<1>5. ASSUME NEW f \in Flows, CheckArmedInside(f) PROVE EkfInv'
  BY <1>0, <1>5 DEF CheckArmedInside
<1>6. ASSUME NEW f \in Flows, FetchFails(f) PROVE EkfInv'
  BY <1>0, <1>6 DEF FetchFails, FailConfigure
<1>7. ASSUME NEW f \in Flows, FetchSpecs(f) PROVE EkfInv'
  BY <1>7 DEF FetchSpecs
<1>8. ASSUME NEW f \in Flows, PushParam(f) PROVE EkfInv'
  BY <1>8 DEF PushParam
<1>9. ASSUME NEW f \in Flows, PushFails(f) PROVE EkfInv'
  BY <1>0, <1>9 DEF PushFails, FailConfigure
<1>10. ASSUME NEW f \in Flows, FinishPush(f) PROVE EkfInv'
  BY <1>0, <1>10 DEF FinishPush
<1>11. ASSUME NEW f \in Flows, CheckArmedAfterPush(f) PROVE EkfInv'
  BY <1>0, <1>11 DEF CheckArmedAfterPush, FailConfigure
<1>12. ASSUME NEW f \in Flows, AnchorOrigin(f) PROVE EkfInv'
  BY <1>12 DEF AnchorOrigin
<1>13. ASSUME NEW f \in Flows, SendBuild(f) PROVE EkfInv'
  BY <1>13 DEF SendBuild
<1>14. ASSUME NEW f \in Flows, SendFails(f) PROVE EkfInv'
  BY <1>0, <1>14 DEF SendFails, FailConfigure
<1>15. ASSUME NEW f \in Flows, ConfigApplied(f) PROVE EkfInv'
  <2>1. CASE SimOnly
    BY <1>0, <1>15, <2>1 DEF ConfigApplied
  <2>2. CASE ~ SimOnly
    BY <1>15, <2>2 DEF ConfigApplied
  <2> QED
    BY <2>1, <2>2
<1>16. ASSUME NEW f \in Flows, ConfigApplyTimeout(f) PROVE EkfInv'
  BY <1>0, <1>16 DEF ConfigApplyTimeout, FailConfigure
<1>17. ASSUME NEW f \in Flows, ResetVehicle(f) PROVE EkfInv'
  BY <1>0, <1>17 DEF ResetVehicle
<1>18. ASSUME NEW f \in Flows, SendStop(f) PROVE EkfInv'
  <2>1. shell' # <<>> => shell'[Len(shell')] = "stop"
    BY <1>18, AppendProperties DEF SendStop
  <2> QED
    BY <1>18, <2>1 DEF SendStop
<1>19. ASSUME NEW f \in Flows, SendStart(f) PROVE EkfInv'
  <2>1. /\ shell'[Len(shell')] = "start"
        /\ (\A i \in 1..Len(shell) : shell[i] # "stop")
             => \A i \in 1..Len(shell') : shell'[i] # "stop"
    BY <1>19, AppendProperties DEF SendStart
  <2> QED
    BY <1>19, <2>1 DEF SendStart
<1>20. ASSUME NEW f \in Flows, RestartFails(f) PROVE EkfInv'
  BY <1>0, <1>20 DEF RestartFails, RestartGivenUp, FailConfigure
<1>21. ASSUME NEW f \in Flows, ReportReady(f) PROVE EkfInv'
  BY <1>0, <1>21 DEF ReportReady
<1>22. ASSUME NEW f \in Flows, NeverReady(f) PROVE EkfInv'
  BY <1>0, <1>22 DEF NeverReady, FailConfigure
<1>23. ASSUME NEW f \in Flows, QueueRepush(f) PROVE EkfInv'
  BY <1>23 DEF QueueRepush
<1>24. ASSUME NEW f \in Flows, RepushSnapshot(f) PROVE EkfInv'
  BY <1>0, <1>24 DEF RepushSnapshot
<1>25. ASSUME SimApply PROVE EkfInv'
  <2>1. CASE \A f \in Flows : pc[f] \notin {"stopSent", "starting", "startSent", "readying"}
    BY <1>25, <2>1 DEF SimApply
  <2>2. CASE \E f \in Flows : pc[f] \in {"stopSent", "starting", "startSent", "readying"}
    <3>1. outside'
      BY <1>25, <2>2 DEF SimApply
    <3> QED
      BY <3>1
  <2> QED
    BY <2>1, <2>2
<1>26. ASSUME ActuatorCommand PROVE EkfInv'
  BY <1>26 DEF ActuatorCommand
<1>27. ASSUME Rtl PROVE EkfInv'
  <2>1. CASE holder = NoFlow
    <3>1. \A f \in Flows : pc'[f] \notin InSession
      BY <1>27, <2>1 DEF Rtl
    <3> QED
      BY <3>1
  <2>2. CASE holder # NoFlow
    <3>1. outside'
      BY <1>27, <2>2 DEF Rtl
    <3> QED
      BY <3>1
  <2> QED
    BY <2>1, <2>2
<1>28. ASSUME EmergencyStop PROVE EkfInv'
  BY <1>28 DEF EmergencyStop
<1>29. ASSUME Reboot PROVE EkfInv'
  <2>1. CASE holder = NoFlow
    <3>1. \A f \in Flows : pc'[f] \notin InSession
      BY <1>29, <2>1 DEF Reboot
    <3> QED
      BY <3>1
  <2>2. CASE holder # NoFlow
    <3>1. outside'
      BY <1>29, <2>2 DEF Reboot
    <3> QED
      BY <3>1
  <2> QED
    BY <2>1, <2>2
<1>30. ASSUME LinkDrops PROVE EkfInv'
  BY <1>30 DEF LinkDrops
<1>31. ASSUME NoticeLoss PROVE EkfInv'
  BY <1>31 DEF NoticeLoss
<1>32. ASSUME ScanFails PROVE EkfInv'
  BY <1>32 DEF ScanFails
<1>33. ASSUME Connect PROVE EkfInv'
  BY <1>33 DEF Connect
<1>34. ASSUME Reconnect PROVE EkfInv'
  BY <1>34 DEF Reconnect
<1>35. CASE UNCHANGED vars
  BY <1>35 DEF vars
<1>36. ASSUME NEW failed \in BOOLEAN, Prompt(failed) PROVE EkfInv'
  <2>1. /\ shell # <<>>
        /\ Effect(shell[1], failed)
        /\ shell' = Tail(shell)
    BY <1>36, TailShell DEF Prompt
  <2>2. ASSUME NEW f \in Flows, Awaits(f), Confirmed(f),
               ~ (failed /\ pc[f] = "startSent")
        PROVE  EkfInv'
    <3>1. CASE Len(shell) > 1
      <4>1. crossed'
        BY <2>2, <3>1 DEF Confirmed
      <4> QED
        BY <4>1
    <3>2. CASE Len(shell) = 1
      <4>1. shell' = <<>> /\ \A i \in 1..Len(shell') : FALSE
        BY <2>1, <3>2, TailShell
      <4>2. \A g \in Flows \ {f} : pc'[g] = pc[g] /\ pc[g] \notin InSession
        BY <2>2 DEF Awaits, Confirmed
      <4>3. CASE pc[f] = "stopSent"
        BY <2>1, <2>2, <3>2, <4>1, <4>2, <4>3 DEF Confirmed, Effect
      <4>4. CASE pc[f] = "startSent"
        BY <2>1, <2>2, <3>2, <4>1, <4>2, <4>4 DEF Confirmed, Effect
      <4> QED
        BY <2>2, <4>3, <4>4 DEF Awaits
    <3>3. Len(shell) > 1 \/ Len(shell) = 1
      BY <2>1, TailShell, Zenon
    <3> QED
      BY <3>1, <3>2, <3>3
  <2>3. ASSUME NEW f \in Flows, Awaits(f), RestartGivenUp(f) PROVE EkfInv'
    BY <1>0, <2>3 DEF Awaits, RestartGivenUp, FailConfigure
  <2>4. CASE /\ \A f \in Flows : Awaits(f) => Len(shell) > 1
             /\ UNCHANGED <<lockState, flowState, caches, simState>>
    BY <2>1, <2>4, TailShell DEF Awaits, Effect
  <2> QED
    BY <1>36, <2>2, <2>3, <2>4 DEF Prompt
<1>37. ASSUME Unheard PROVE EkfInv'
  <2>1. /\ shell # <<>>
        /\ ekf' = ekf \/ \E failed \in BOOLEAN : Effect(shell[1], failed)
        /\ shell' = Tail(shell)
    BY <1>37, TailShell DEF Unheard
  <2>2. UNCHANGED <<pc, history>>
    BY <1>37 DEF Unheard
  <2>3. CASE ekf' = ekf
    BY <2>1, <2>2, <2>3, TailShell
  <2>4. ASSUME NEW failed \in BOOLEAN, Effect(shell[1], failed) PROVE EkfInv'
    BY <2>1, <2>2, <2>4, TailShell DEF Effect
  <2> QED
    BY <2>1, <2>3, <2>4
<1>38. ASSUME BrowserCommand PROVE EkfInv'
  <2>1. (\A i \in 1..Len(shell) : shell[i] # "stop")
          => \A i \in 1..Len(shell') : shell'[i] # "stop"
    BY <1>38, AppendProperties DEF BrowserCommand
  <2> QED
    BY <1>38, <2>1 DEF BrowserCommand, Awaits
<1> QED
  BY <1>1, <1>2, <1>3, <1>4, <1>5, <1>6, <1>7, <1>8, <1>9, <1>10, <1>11,
     <1>12, <1>13, <1>14, <1>15, <1>16, <1>17, <1>18, <1>19, <1>20, <1>21,
     <1>22, <1>23, <1>24, <1>25, <1>26, <1>27, <1>28, <1>29, <1>30, <1>31,
     <1>32, <1>33, <1>34, <1>35, <1>36, <1>37, <1>38
     DEF Next, Request, FlowStep, Environment

------------------------------------------------------------------------------
(* The theorems.                                                           *)

\* The invariant holds before anything has been requested or connected.
LEMMA InitIInv == Init => IInv
<1> SUFFICES ASSUME Init PROVE IInv
  OBVIOUS
<1> USE FlowsAssumption, BuildsAssumption, NParamsAssumption
        DEF Init, Flows, InSession, Places, Params, BuildOrNone
<1>1. TypeOK
  <2>1. /\ holder \in Flows \cup {NoFlow} /\ waiters \in Seq(Repushes)
        /\ pc \in [Flows -> Places] /\ build \in [Flows -> BuildOrNone]
    BY EmptySeq
  <2>2. acked \in 0..NParams /\ ram \in [Params -> BuildOrNone]
    OBVIOUS
  <2>3. /\ fingerprint \in BuildOrNone /\ lastVerified \in BuildOrNone
        /\ origin \in BuildOrNone /\ simBuild \in BuildOrNone
        /\ channel \in BuildOrNone
        /\ link \in {"searching", "connected", "silent", "retrying"}
        /\ ekf \in {"fresh", "stale", "stopped"}
        /\ shell \in Seq({"stop", "start", "other"})
    BY EmptySeq
  <2>4. /\ moved \in BOOLEAN /\ simArmed \in BOOLEAN
        /\ running \in BOOLEAN /\ outside \in BOOLEAN
        /\ crossed \in BOOLEAN
    BY Zenon
  <2> QED
    BY <2>1, <2>2, <2>3, <2>4 DEF TypeOK
<1>2. KindInv
  BY DEF KindInv
<1>3. LockInv
  BY DEF LockInv
<1>4. PushInv
  BY DEF PushInv
<1>5. HandInv
  BY DEF HandInv
<1>6. ReadyInv
  BY DEF ReadyInv, Restarting
<1>7. EkfInv
  BY DEF EkfInv
<1> QED
  BY <1>1, <1>2, <1>3, <1>4, <1>5, <1>6, <1>7 DEF IInv

\* The invariant is inductive.
LEMMA NextIInv == IInv /\ [Next]_vars => IInv'
<1> SUFFICES ASSUME IInv, [Next]_vars PROVE IInv'
  OBVIOUS
<1> USE DEF IInv
<1>1. TypeOK'
  BY TypeStep
<1>2. KindInv'
  BY KindInvStep
<1>3. LockInv'
  BY StepShape, LockStep
<1>4. PushInv'
  BY PushInvStep
<1>5. HandInv'
  BY HandInvStep
<1>6. ReadyInv'
  BY ReadyInvStep
<1>7. EkfInv'
  BY EkfInvStep
<1> QED
  BY <1>1, <1>2, <1>3, <1>4, <1>5, <1>6, <1>7

\* The inductive invariant: the types, and what the mutex, the caches, the
\* hand-over to the simulation and every place of a flow have to do with each
\* other.
THEOREM Invariance == Spec => []IInv
  BY InitIInv, NextIInv, PTL DEF Spec

\* Every variable of the session model keeps its type.
THEOREM TypeCorrect == Spec => []TypeOK
<1>1. IInv => TypeOK
  BY DEF IInv
<1> QED
  BY <1>1, Invariance, PTL

\* At most one reset, configure or re-push is in the session, for any number of
\* requests and overlapping reconnects.
THEOREM Exclusion == Spec => []SessionExclusive
<1>1. IInv => SessionExclusive
  BY DEF IInv, LockInv, SessionExclusive
<1> QED
  BY <1>1, Invariance, PTL

\* The fingerprint that lets a ConfigureBuild skip its push is true of a
\* connected board, unless a push or a re-push is about to make it so.
THEOREM HonestFingerprint == Spec => []FingerprintHonest
<1>1. IInv => FingerprintHonest
  BY DEF IInv, PushInv, Reachable, FingerprintHonest
<1> QED
  BY <1>1, Invariance, PTL

\* Whatever fails and whenever, the build of the flight origin is the one the
\* simulation flies or is about to fly.
THEOREM OriginFollowsBuild == Spec => []OriginMatchesBuild
<1>1. IInv => OriginMatchesBuild
  <2> SUFFICES ASSUME IInv, running PROVE \/ origin = simBuild
                                         \/ origin = channel
                                         \/ \E f \in Configures :
                                               /\ pc[f] \in {"handing", "applying"}
                                               /\ build[f] = origin
    BY DEF OriginMatchesBuild
  <2>1. CASE Handing
    BY <2>1 DEF IInv, HandInv, Handing
  <2>2. CASE ~ Handing
    BY <2>2 DEF IInv, HandInv
  <2> QED
    BY <2>1, <2>2
<1> QED
  BY <1>1, Invariance, PTL

\* A Ready is reported for the build that the simulation flies at its origin,
\* that a reconnect would restore, and that the board holds, and, unless another
\* command's prompt confirmed one of the restart's, under an estimator started
\* after the vehicle last jumped.
THEOREM ReadyIsCoherent == Spec => []ReadyCoherent
<1>1. IInv => ReadyCoherent
  BY DEF IInv, LockInv, ReadyInv, EkfInv, Restarting, Reachable, ReadyCoherent
<1> QED
  BY <1>1, Invariance, PTL

\* The session is a lock as SessionLock describes it: it starts free, and every
\* step takes it, queues for it, hands it over or leaves it alone.
THEOREM LockRefinement == Spec => Lock!Safety
<1> USE DEF Lock!lockVars, Lock!Next, Lock!Take, Lock!Await, Lock!Leave
<1>1. Init => Lock!Init
  BY DEF Init, Lock!Init
<1>2. IInv /\ [Next]_vars => [Lock!Next]_(Lock!lockVars)
  <2> SUFFICES ASSUME IInv, [Next]_vars PROVE [Lock!Next]_(Lock!lockVars)
    OBVIOUS
  <2> USE DEF IInv
  <2>1. Shape
    BY StepShape
  <2>2. CASE UNCHANGED <<holder, waiters, pc>>
    BY <2>2
  <2>3. ASSUME NEW f \in Flows, MovesOutside(f) \/ MovesInside(f)
        PROVE  UNCHANGED <<holder, waiters>>
    BY <2>3 DEF MovesOutside, MovesInside
  <2>4. ASSUME NEW f \in Flows, Enters(f) PROVE Lock!Take(f)
    BY <2>4 DEF Enters
  <2>5. ASSUME NEW f \in Flows, Queues(f) PROVE Lock!Await(f)
    BY <2>5 DEF Queues, LockInv, Lock!Waits
  <2>6. ASSUME NEW f \in Flows, Leaves(f) PROVE Lock!Leave
    BY <2>6, FlowsAssumption DEF Leaves, Release, LockInv
  <2> QED
    BY <2>1, <2>2, <2>3, <2>4, <2>5, <2>6 DEF Shape
<1> QED
  BY <1>1, <1>2, Invariance, PTL DEF Spec, Lock!Safety
==============================================================================
