-------------------------- MODULE ProvisioningProofs --------------------------
(***************************************************************************)
(* What Provisioning guarantees for every set of requests, every number of *)
(* parameters and flags, and every number of attempts.                     *)
(***************************************************************************)
EXTENDS Provisioning, TLAPS

\* A request that has not started to write is in no attempt.
AttemptInv ==
    \A o \in Ops : pc[o] \in {"idle", "entry", "reading", "acking"} => attempt[o] = 0

\* The guard is up while a request works, and one request works.
GuardInv ==
    /\ \A o \in Ops : pc[o] \in Working => applying
    /\ OneAtATime

\* A request at one of these places has written or is about to.
Writing == {"writing", "settling", "quieting", "listening", "verifying"}

\* Until a browser has stored what the board was, the board is what it was, every
\* snapshot on its way to a browser says so, and nobody is about to write.
PointInv ==
    \/ pristine \in stored
    \/ /\ stored = {}
       /\ \A s \in offered : s = pristine
       /\ ram = pristine
       /\ flash = pristine
       /\ \A o \in Ops : pc[o] \notin Writing
       /\ \A o \in Restores : pc[o] = "idle"

\* A board that is down has lost what was not in flash, and nothing is heard of one
\* that is down or out of reach.  If the link held while a request waited for the
\* silence, the silence was a reboot, and what the board says later is what it booted
\* with, which is what is in flash.
BootInv ==
    /\ ~ up => ram = flash
    /\ ~ Reached => ~ heard
    /\ \A o \in Ops : pc[o] = "quieting" /\ ~ linked => cut
    /\ \A o \in Ops : pc[o] \in {"listening", "verifying"} /\ ~ cut =>
         /\ ram = flash
         /\ up /\ live => Flags \subseteq flash
         /\ pc[o] = "verifying" \/ heard => (flags => Flags \subseteq flash)

IInv == TypeOK /\ AttemptInv /\ GuardInv /\ PointInv /\ BootInv

USE SizesAssumption, OpsAssumption

------------------------------------------------------------------------------
(* The initial states.                                                     *)

\* Nothing is written, offered or heard before the first request.
LEMMA InitHolds == Init => IInv
<1> SUFFICES ASSUME Init PROVE IInv
  OBVIOUS
<1>1. TypeOK
  <2>1. live \in BOOLEAN
    BY Zenon DEF Init
  <2>2. 0 \in 0..NParams /\ 0 \in 0..MaxAttempts
    OBVIOUS
  <2> QED
    BY <2>1, <2>2, Zenon DEF Init, TypeOK, Places
<1>2. AttemptInv
  BY DEF Init, AttemptInv
<1>3. GuardInv
  BY DEF Init, GuardInv, OneAtATime, Working
<1>4. PointInv
  BY DEF Init, PointInv, Writing, Ops
<1>5. BootInv
  BY DEF Init, BootInv
<1> QED
  BY <1>1, <1>2, <1>3, <1>4, <1>5 DEF IInv

------------------------------------------------------------------------------
(* Types, and the attempts.                                                *)

\* Every step keeps the types, and a count of attempts within its limit.
LEMMA TypeStep ==
    ASSUME TypeOK, AttemptInv, [Next]_vars
    PROVE  TypeOK' /\ AttemptInv'
<1> USE DEF TypeOK, AttemptInv, Places, Working, Ended, Goto, Leave, StartWriting,
            requests, handler, browsers, params, status
<1>1. CASE UNCHANGED vars
  BY <1>1 DEF vars
<1>2. ASSUME NEW o \in Ops, CheckCooldown(o)
      PROVE  TypeOK' /\ AttemptInv'
  BY <1>2 DEF CheckCooldown, Ops
<1>3. ASSUME NEW o \in Ops, Enter(o)
      PROVE  TypeOK' /\ AttemptInv'
  BY <1>3 DEF Enter
<1>4. ASSUME NEW o \in Ops,
             Decline(o) \/ SnapshotNotStored(o) \/ SaveFails(o) \/ SendRebootFails(o)
               \/ NotReconnected(o) \/ VerifyFlags(o) \/ ReadBack(o) \/ ReadBackFails(o)
      PROVE  TypeOK' /\ AttemptInv'
  <2>1. CASE Decline(o) \/ SnapshotNotStored(o)
    BY <2>1 DEF Decline, SnapshotNotStored
  <2>2. CASE SaveFails(o) \/ SendRebootFails(o)
    BY <2>2 DEF SaveFails, SendRebootFails
  <2>3. CASE NotReconnected(o) \/ VerifyFlags(o)
    BY <2>3 DEF NotReconnected, VerifyFlags
  <2>4. CASE ReadBack(o) \/ ReadBackFails(o)
    BY <2>4 DEF ReadBack, ReadBackFails
  <2> QED
    BY <1>4, <2>1, <2>2, <2>3, <2>4
<1>5. ASSUME NEW o \in Ops, Capture(o)
      PROVE  TypeOK' /\ AttemptInv'
  BY <1>5 DEF Capture
<1>6. ASSUME NEW o \in Ops, AcceptRequest(o)
      PROVE  TypeOK' /\ AttemptInv'
  BY <1>6 DEF AcceptRequest
<1>7. ASSUME NEW o \in Ops, WriteParam(o)
      PROVE  TypeOK' /\ AttemptInv'
  <2>1. written[o] + 1 \in Params /\ written[o] + 1 \in 0..NParams
    BY <1>7 DEF WriteParam, Params
  <2>2. ram' \in SUBSET Params
    BY <1>7, <2>1, Zenon DEF WriteParam, Write
  <2>3. written' \in [Ops -> 0..NParams]
    BY <1>7, <2>1 DEF WriteParam
  <2> QED
    BY <1>7, <2>2, <2>3 DEF WriteParam
<1>8. ASSUME NEW o \in Ops, WriteFails(o)
      PROVE  TypeOK' /\ AttemptInv'
  <2>1. written[o] + 1 \in Params
    BY <1>8 DEF WriteFails, Params
  <2>2. ram' \in SUBSET Params
    BY <1>8, <2>1, Zenon DEF WriteFails, Write
  <2> QED
    BY <1>8, <2>2 DEF WriteFails
<1>9. ASSUME NEW o \in Ops, Save(o)
      PROVE  TypeOK' /\ AttemptInv'
  BY <1>9 DEF Save
<1>10. ASSUME NEW o \in Ops, SendReboot(o) \/ ConfirmQuiet(o) \/ Reconnected(o)
       PROVE  TypeOK' /\ AttemptInv'
  <2>1. CASE SendReboot(o)
    BY <2>1 DEF SendReboot
  <2>2. CASE ConfirmQuiet(o)
    BY <2>2 DEF ConfirmQuiet
  <2>3. CASE Reconnected(o)
    BY <2>3 DEF Reconnected
  <2> QED
    BY <1>10, <2>1, <2>2, <2>3
<1>11. ASSUME NEW o \in Ops, FlagsWrong(o)
       PROVE  TypeOK' /\ AttemptInv'
  <2>1. CASE attempt[o] < MaxAttempts
    <3>1. attempt' \in [Ops -> 0..MaxAttempts]
      BY <1>11, <2>1 DEF FlagsWrong
    <3>2. written' \in [Ops -> 0..NParams]
      BY <1>11, <2>1 DEF FlagsWrong
    <3> QED
      BY <1>11, <2>1, <3>1, <3>2 DEF FlagsWrong
  <2>2. CASE ~ (attempt[o] < MaxAttempts)
    BY <1>11, <2>2 DEF FlagsWrong
  <2> QED
    BY <2>1, <2>2
<1>12. ASSUME NEW o \in Ops, Finish(o)
       PROVE  TypeOK' /\ AttemptInv'
  BY <1>12 DEF Finish
<1>13. ASSUME NEW s \in offered, BrowserStores(s)
       PROVE  TypeOK' /\ AttemptInv'
  BY <1>13 DEF BrowserStores, Ops
<1>14. CASE CooldownElapses \/ RebootLost
  BY <1>14 DEF CooldownElapses, RebootLost
<1>15. CASE Reboot \/ PowerCycle
  BY <1>15 DEF Reboot, PowerCycle, GoDown
<1>16. CASE Boot
  BY <1>16 DEF Boot
<1>17. CASE Heartbeat
  BY <1>17 DEF Heartbeat
<1>18. CASE LinkLost \/ LinkBack
  BY <1>18 DEF LinkLost, LinkBack
<1> QED
  BY <1>1, <1>2, <1>3, <1>4, <1>5, <1>6, <1>7, <1>8, <1>9, <1>10, <1>11, <1>12,
     <1>13, <1>14, <1>15, <1>16, <1>17, <1>18 DEF Next, Step

------------------------------------------------------------------------------
(* The guard.                                                              *)

\* Every step keeps the guard with the one task that works.
LEMMA GuardStep ==
    ASSUME TypeOK, GuardInv, [Next]_vars
    PROVE  GuardInv'
<1> USE DEF TypeOK, GuardInv, OneAtATime, Working, Ended, Goto, Leave, StartWriting,
            requests, handler, browsers, params, status
<1>1. CASE UNCHANGED vars
  BY <1>1 DEF vars
<1>2. ASSUME NEW o \in Ops, CheckCooldown(o) \/ Finish(o)
      PROVE  GuardInv'
  BY <1>2 DEF CheckCooldown, Finish
<1>3. ASSUME NEW o \in Ops, Enter(o)
      PROVE  GuardInv'
  BY <1>3 DEF Enter
\* Whoever leaves was the one that worked.
<1>4. ASSUME NEW o \in Ops,
             Decline(o) \/ SnapshotNotStored(o) \/ SaveFails(o) \/ SendRebootFails(o)
               \/ NotReconnected(o) \/ VerifyFlags(o) \/ ReadBack(o) \/ ReadBackFails(o)
               \/ WriteFails(o)
      PROVE  GuardInv'
  BY <1>4 DEF Decline, SnapshotNotStored, SaveFails, SendRebootFails, NotReconnected,
              VerifyFlags, ReadBack, ReadBackFails, WriteFails
\* Whoever goes on within the guard was the one that worked.
<1>5. ASSUME NEW o \in Ops,
             Capture(o) \/ AcceptRequest(o) \/ WriteParam(o) \/ Save(o) \/ SendReboot(o)
               \/ ConfirmQuiet(o) \/ Reconnected(o)
      PROVE  GuardInv'
  BY <1>5 DEF Capture, AcceptRequest, WriteParam, Save, SendReboot, ConfirmQuiet,
              Reconnected
<1>6. ASSUME NEW o \in Ops, FlagsWrong(o)
      PROVE  GuardInv'
  BY <1>6 DEF FlagsWrong
<1>7. ASSUME NEW s \in offered, BrowserStores(s)
      PROVE  GuardInv'
  BY <1>7 DEF BrowserStores, Ops
<1>8. CASE CooldownElapses \/ Reboot \/ RebootLost \/ PowerCycle \/ Boot \/ Heartbeat
             \/ LinkLost \/ LinkBack
  BY <1>8 DEF CooldownElapses, Reboot, RebootLost, PowerCycle, GoDown, Boot, Heartbeat,
              LinkLost, LinkBack
<1> QED
  BY <1>1, <1>2, <1>3, <1>4, <1>5, <1>6, <1>7, <1>8 DEF Next, Step

------------------------------------------------------------------------------
(* The restore point.                                                      *)

\* Every step keeps a way back to what the board was.
LEMMA PointStep ==
    ASSUME TypeOK, PointInv, [Next]_vars
    PROVE  PointInv'
<1>1. pristine' = pristine /\ stored \subseteq stored'
  BY DEF Next, Step, vars, CheckCooldown, Enter, Decline, Capture, SnapshotNotStored,
         AcceptRequest, WriteParam, WriteFails, Save, SaveFails, SendReboot,
         SendRebootFails, ConfirmQuiet, Reconnected, NotReconnected, VerifyFlags,
         FlagsWrong, ReadBack, ReadBackFails, Finish, BrowserStores, CooldownElapses,
         Reboot, RebootLost, PowerCycle, GoDown, Boot, Heartbeat, LinkLost, LinkBack,
         browsers, params, status
<1>2. CASE pristine \in stored
  BY <1>1, <1>2 DEF PointInv
<1> SUFFICES ASSUME pristine \notin stored
             PROVE  PointInv'
  BY <1>2
<1>3. /\ stored = {} /\ ram = pristine /\ flash = pristine
      /\ \A s \in offered : s = pristine
      /\ \A o \in Ops : pc[o] \notin Writing
      /\ \A o \in Restores : pc[o] = "idle"
  BY DEF PointInv
<1> USE <1>1, <1>3 DEF TypeOK, PointInv, Writing, Ended, Ops, Goto, Leave, requests,
                       handler, browsers, params, status
<1>4. CASE UNCHANGED vars
  BY <1>4 DEF vars
<1>5. ASSUME NEW o \in Ops,
             CheckCooldown(o) \/ Enter(o) \/ Decline(o) \/ SnapshotNotStored(o)
               \/ Finish(o)
      PROVE  PointInv'
  BY <1>5 DEF CheckCooldown, Enter, Decline, SnapshotNotStored, Finish
\* What is captured is what the board was.
<1>6. ASSUME NEW o \in Ops, Capture(o)
      PROVE  PointInv'
  BY <1>6 DEF Capture
\* The first snapshot that is stored is one of those.
<1>7. ASSUME NEW s \in offered, BrowserStores(s)
      PROVE  PointInv'
  BY <1>7 DEF BrowserStores
<1>8. ASSUME NEW o \in Ops, AcceptRequest(o)
      PROVE  PointInv'
  BY <1>8 DEF AcceptRequest
\* Nobody is at one of the later places.
<1>9. ASSUME NEW o \in Ops,
             WriteParam(o) \/ WriteFails(o) \/ Save(o) \/ SaveFails(o) \/ SendReboot(o)
               \/ SendRebootFails(o) \/ ConfirmQuiet(o) \/ Reconnected(o)
               \/ NotReconnected(o) \/ VerifyFlags(o) \/ FlagsWrong(o) \/ ReadBack(o)
               \/ ReadBackFails(o)
      PROVE  PointInv'
  BY <1>9 DEF WriteParam, WriteFails, Save, SaveFails, SendReboot, SendRebootFails,
              ConfirmQuiet, Reconnected, NotReconnected, VerifyFlags, FlagsWrong,
              ReadBack, ReadBackFails
<1>10. CASE CooldownElapses \/ Reboot \/ RebootLost \/ PowerCycle \/ Boot \/ Heartbeat
              \/ LinkLost \/ LinkBack
  BY <1>10 DEF CooldownElapses, Reboot, RebootLost, PowerCycle, GoDown, Boot, Heartbeat,
               LinkLost, LinkBack
<1> QED
  BY <1>4, <1>5, <1>6, <1>7, <1>8, <1>9, <1>10 DEF Next, Step

------------------------------------------------------------------------------
(* The board and its reboot.                                               *)

\* The last thing o established is what o may rely on: nobody else works.
LEMMA Alone ==
    ASSUME GuardInv, NEW o \in Ops, pc[o] \in Working,
           NEW q \in Ops, pc[q] \in {"listening", "verifying", "quieting"}
    PROVE  q = o
BY DEF GuardInv, OneAtATime, Working

\* Between the silence of a reboot and the result, RAM and flash stay the same; a
\* silence that was not one leaves its mark in `cut`.
LEMMA BootStep ==
    ASSUME TypeOK, GuardInv, BootInv, [Next]_vars
    PROVE  BootInv'
<1> USE DEF TypeOK, BootInv, Reached, Working, Ended, Goto, Leave, StartWriting,
            requests, handler, browsers, params, status
<1>1. CASE UNCHANGED vars
  BY <1>1 DEF vars
\* Neither the board nor anybody's wait for it is touched.
<1>2. ASSUME NEW o \in Ops,
             CheckCooldown(o) \/ Enter(o) \/ Decline(o) \/ Capture(o)
               \/ SnapshotNotStored(o) \/ AcceptRequest(o) \/ SaveFails(o)
               \/ SendRebootFails(o) \/ NotReconnected(o)
               \/ VerifyFlags(o) \/ ReadBack(o) \/ ReadBackFails(o) \/ Finish(o)
      PROVE  BootInv'
  BY <1>2 DEF CheckCooldown, Enter, Decline, Capture, SnapshotNotStored, AcceptRequest,
              SaveFails, SendRebootFails, NotReconnected, VerifyFlags,
              ReadBack, ReadBackFails, Finish
\* Nobody waits for the board while o writes, saves or asks for a reboot.
<1>3. ASSUME NEW o \in Ops,
             WriteParam(o) \/ WriteFails(o) \/ Save(o) \/ SendReboot(o)
      PROVE  BootInv'
  <2>1. \A q \in Ops : pc[q] \notin {"listening", "verifying", "quieting"}
    BY <1>3, Alone DEF WriteParam, WriteFails, Save, SendReboot
  <2>2. \A q \in Ops : pc'[q] \notin {"listening", "verifying"}
    BY <1>3, <2>1 DEF WriteParam, WriteFails, Save, SendReboot
  <2>3. \A q \in Ops : pc'[q] = "quieting" /\ ~ linked' => cut'
    BY <1>3, <2>1 DEF WriteParam, WriteFails, Save, SendReboot
  <2>4. ~ up' => ram' = flash'
    BY <1>3 DEF WriteParam, WriteFails, Save, SendReboot
  <2>5. ~ Reached' => ~ heard'
    BY <1>3 DEF WriteParam, WriteFails, Save, SendReboot
  <2> QED
    BY <2>2, <2>3, <2>4, <2>5
<1>4. ASSUME NEW o \in Ops, ConfirmQuiet(o)
      PROVE  BootInv'
  BY <1>4 DEF ConfirmQuiet
<1>5. ASSUME NEW o \in Ops, Reconnected(o)
      PROVE  BootInv'
  BY <1>5 DEF Reconnected
<1>6. ASSUME NEW o \in Ops, FlagsWrong(o)
      PROVE  BootInv'
  BY <1>6 DEF FlagsWrong
<1>7. ASSUME NEW s \in offered, BrowserStores(s)
      PROVE  BootInv'
  BY <1>7 DEF BrowserStores, Ops
<1>8. CASE CooldownElapses \/ RebootLost
  BY <1>8 DEF CooldownElapses, RebootLost
<1>9. CASE Reboot \/ PowerCycle
  BY <1>9 DEF Reboot, PowerCycle, GoDown
<1>10. CASE Boot
  <2>1. ram = flash /\ ~ heard
    BY <1>10 DEF Boot
  <2>2. live' => Flags \subseteq flash
    BY <1>10, <2>1, Zenon DEF Boot
  <2> QED
    BY <1>10, <2>1, <2>2 DEF Boot
<1>11. CASE Heartbeat
  <2>1. flags' => live
    BY <1>11 DEF Heartbeat
  <2> QED
    BY <1>11, <2>1 DEF Heartbeat
<1>12. CASE LinkLost
  <2>1. \A o \in Ops : pc[o] = "quieting" => cut'
    BY <1>12 DEF LinkLost
  <2> QED
    BY <1>12, <2>1 DEF LinkLost
<1>13. CASE LinkBack
  BY <1>13 DEF LinkBack
<1> QED
  BY <1>1, <1>2, <1>3, <1>4, <1>5, <1>6, <1>7, <1>8, <1>9, <1>10, <1>11, <1>12, <1>13
  DEF Next, Step

------------------------------------------------------------------------------
(* The theorems.                                                           *)

\* The inductive invariant.
THEOREM Invariance == Spec => []IInv
<1>1. IInv /\ [Next]_vars => IInv'
  BY TypeStep, GuardStep, PointStep, BootStep DEF IInv
<1> QED
  BY InitHolds, <1>1, PTL DEF Spec

\* Every variable keeps its type; in particular an apply never exceeds its attempts.
THEOREM TypeCorrect == Spec => []TypeOK
BY Invariance, PTL DEF IInv

\* At most one request works on the board, for every number of requests.
THEOREM Exclusion == Spec => []OneAtATime
BY Invariance, PTL DEF IInv, GuardInv

\* A board that differs from what it was can be put back: a browser has stored it.
THEOREM RestorePoint == Spec => []RestorePointExists
<1>1. IInv => RestorePointExists
  BY DEF IInv, PointInv, RestorePointExists
<1> QED
  BY Invariance, <1>1, PTL

\* Only a verification that went well turns into a success.
LEMMA SucceedsVerified ==
    ASSUME TypeOK, Next, NEW o \in Ops, pc[o] = "verifying", pc'[o] = "succeeded"
    PROVE  VerifyFlags(o) \/ ReadBack(o)
<1> USE DEF TypeOK, Goto, Leave, StartWriting, requests
<1>1. ASSUME NEW q \in Ops,
             CheckCooldown(q) \/ Enter(q) \/ Decline(q) \/ Capture(q)
               \/ SnapshotNotStored(q) \/ AcceptRequest(q) \/ WriteFails(q) \/ Save(q)
               \/ SaveFails(q) \/ SendReboot(q) \/ SendRebootFails(q) \/ ConfirmQuiet(q)
               \/ Reconnected(q) \/ NotReconnected(q) \/ ReadBackFails(q) \/ Finish(q)
      PROVE  FALSE
  BY <1>1 DEF CheckCooldown, Enter, Decline, Capture, SnapshotNotStored, AcceptRequest,
              WriteFails, Save, SaveFails, SendReboot, SendRebootFails, ConfirmQuiet,
              Reconnected, NotReconnected, ReadBackFails, Finish, Ended
<1>2. ASSUME NEW q \in Ops, WriteParam(q)
      PROVE  FALSE
  BY <1>2 DEF WriteParam
<1>3. ASSUME NEW q \in Ops, FlagsWrong(q)
      PROVE  FALSE
  BY <1>3 DEF FlagsWrong
<1>4. ASSUME NEW q \in Ops, VerifyFlags(q) \/ ReadBack(q)
      PROVE  q = o
  BY <1>4 DEF VerifyFlags, ReadBack
<1>5. ASSUME NEW s \in offered, BrowserStores(s)
      PROVE  FALSE
  BY <1>5 DEF BrowserStores, Ops
<1>6. ASSUME CooldownElapses \/ Reboot \/ RebootLost \/ PowerCycle \/ Boot \/ Heartbeat
               \/ LinkLost \/ LinkBack
      PROVE  FALSE
  BY <1>6 DEF CooldownElapses, Reboot, RebootLost, PowerCycle, Boot, Heartbeat, LinkLost,
              LinkBack
<1> QED
  BY <1>1, <1>2, <1>3, <1>4, <1>5, <1>6 DEF Next, Step

\* A success was verified against what the board booted with, and is in flash, unless
\* the link was cut while the request waited for the silence of the reboot.
THEOREM DurableSuccess == Spec => SuccessIsDurable
<1> DEFINE Durable(o) ==
             pc[o] = "verifying" /\ pc'[o] = "succeeded" =>
                 IF o \in Restores
                   THEN ram = target[o] /\ (cut \/ flash = target[o])
                   ELSE cut \/ Flags \subseteq flash
<1>1. ASSUME IInv, Next, NEW o \in Ops
      PROVE  Durable(o)
  <2> SUFFICES ASSUME pc[o] = "verifying", pc'[o] = "succeeded"
               PROVE  IF o \in Restores
                        THEN ram = target[o] /\ (cut \/ flash = target[o])
                        ELSE cut \/ Flags \subseteq flash
    OBVIOUS
  <2>1. VerifyFlags(o) \/ ReadBack(o)
    BY <1>1, SucceedsVerified DEF IInv
  <2>2. cut \/ (ram = flash /\ (flags => Flags \subseteq flash))
    BY <1>1 DEF IInv, BootInv
  <2>3. CASE VerifyFlags(o)
    BY <2>2, <2>3 DEF VerifyFlags, Ops
  <2>4. CASE ReadBack(o)
    BY <1>1, <2>2, <2>4 DEF ReadBack, Leave, Goto, IInv, TypeOK
  <2> QED
    BY <2>1, <2>3, <2>4
<1>2. IInv /\ [Next]_vars => [\A o \in Ops : Durable(o)]_vars
  BY <1>1
<1> QED
  BY Invariance, <1>2, PTL DEF Spec, SuccessIsDurable
==============================================================================
