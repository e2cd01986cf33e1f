---------------------------- MODULE ChannelProofs ----------------------------
(***************************************************************************)
(* Proofs about Gateway, between the daemon and a browser, and Outbound,   *)
(* between the daemon and a board: for any bounds of their queues, any     *)
(* window, limit and origins, and any number of links, frames and commands.*)
(***************************************************************************)
EXTENDS Gateway, Outbound, SequenceTheorems, TLAPS

(* Gateway: the rate limit.                                                *)

LimitType ==
    /\ limit \in [age : 0..(Window + 1), count : 0..MaxCommands]
    /\ recent \in Seq(0..Window)

\* What was admitted within Window is what this entry counts, as long as it has
\* not expired, and before it less than the limit of the entry it replaced; of an
\* entry that has expired at least the first command is gone, too.
Counted ==
    LET k == Len(recent)
        n == limit.count IN
    /\ n = 0 => limit.age = 0 /\ k = 0
    /\ Expired => k < MaxCommands
    /\ ~Expired => n <= k /\ k - n < MaxCommands
    /\ ~Expired => \A i \in 1..k : i <= k - n + 1 => recent[i] >= limit.age
    /\ ~Expired => \A i \in 1..k : i > k - n => recent[i] <= limit.age

RateInv == LimitType /\ Counted /\ misjudged = FALSE

\* A connection begins with no entry.
LEMMA RateInit ==
    ASSUME limit = NoEntry, recent = <<>>, misjudged = FALSE
    PROVE  RateInv
<1> USE GatewayAssumption
<1>1. LimitType
  <2>1. recent \in Seq(0..Window)
      OBVIOUS
  <2> QED BY <2>1 DEF LimitType, NoEntry
<1>2. Len(recent) = 0
    OBVIOUS
<1>3. limit.age = 0 /\ limit.count = 0
    BY DEF NoEntry
<1>4. Counted
    BY <1>2, <1>3 DEF Counted, Expired
<1> QED BY <1>1, <1>4 DEF RateInv

\* check_rate_limit admits a command or refuses it.
LEMMA RateChecked ==
    ASSUME RateInv, CheckRateLimit
    PROVE  RateInv'
<1> USE GatewayAssumption
<1> DEFINE k == Len(recent)
           n == limit.count
<1>1. /\ limit \in [age : 0..(Window + 1), count : 0..MaxCommands]
      /\ limit.age \in 0..(Window + 1) /\ n \in 0..MaxCommands
      /\ recent \in Seq(0..Window) /\ k \in Nat /\ misjudged = FALSE
    BY DEF RateInv, LimitType
<1>2. /\ n = 0 => limit.age = 0 /\ k = 0
      /\ limit.age > Window => k < MaxCommands
      /\ limit.age <= Window => n <= k /\ k - n < MaxCommands
      /\ limit.age <= Window => \A i \in 1..k : i <= k - n + 1 => recent[i] >= limit.age
      /\ limit.age <= Window => \A i \in 1..k : i > k - n => recent[i] <= limit.age
    BY <1>1 DEF RateInv, Counted, Expired
<1>3. CASE ~Admitted
  <2>1. ~Expired /\ n >= MaxCommands
      BY <1>1, <1>3 DEF Admitted, Entry, NoEntry
  <2>2. limit' = limit /\ recent' = recent
      BY <1>3, <2>1 DEF CheckRateLimit, Entry
  <2>3. k >= MaxCommands
      BY <1>1, <1>2, <2>1 DEF Expired
  <2>4. ~(Len(recent) < MaxCommands)
      BY <1>1, <2>3
  <2>5. misjudged' = FALSE
      BY <1>1, <2>4 DEF CheckRateLimit
  <2> QED BY <2>2, <2>5 DEF RateInv, LimitType, Counted, Expired
<1>4. CASE Admitted
  <2>1. /\ limit' = [Entry EXCEPT !.count = @ + 1]
        /\ recent' = Append(recent, 0)
      BY <1>4 DEF CheckRateLimit
  <2>2. misjudged' = FALSE
      BY <1>1, <1>4 DEF CheckRateLimit
  <2>3. /\ recent' \in Seq(0..Window) /\ Len(recent') = k + 1
        /\ \A i \in 1..k : recent'[i] = recent[i]
        /\ recent'[k + 1] = 0
      BY <1>1, <2>1
  <2>4. \A i \in 1..k : recent[i] \in 0..Window
      BY <1>1
  <2>5. CASE Expired
    <3>1. limit' = [age |-> 0, count |-> 1]
        BY <2>1, <2>5 DEF Entry, NoEntry
    <3>2. LimitType'
        BY <2>2, <2>3, <3>1 DEF LimitType
    <3>3. limit'.age = 0 /\ limit'.count = 1
        BY <3>1
    <3>4. k < MaxCommands
        BY <1>1, <1>2, <2>5 DEF Expired
    <3>5. Counted'
        BY <1>1, <2>3, <2>4, <3>3, <3>4 DEF Counted, Expired
    <3> QED BY <2>2, <3>2, <3>5 DEF RateInv
  <2>6. CASE ~Expired
    <3>1. n < MaxCommands /\ limit' = [limit EXCEPT !.count = n + 1]
        BY <1>1, <1>4, <2>1, <2>6 DEF Admitted, Entry
    <3>3. limit'.age = limit.age /\ limit'.count = n + 1
          /\ limit' = [age |-> limit.age, count |-> n + 1]
        BY <1>1, <3>1
    <3>2. LimitType'
      <4>1. n + 1 \in 0..MaxCommands
          BY <1>1, <3>1
      <4> QED BY <1>1, <2>3, <3>3, <4>1 DEF LimitType
    <3>4. limit.age <= Window
        BY <1>1, <2>6 DEF Expired
    <3> HIDE DEF k, n
    <3>5. ASSUME NEW i \in 1..(k + 1), i <= k - n + 1 PROVE recent'[i] >= limit.age
      <4>1. CASE i \in 1..k
          BY <1>2, <2>3, <3>4, <3>5, <4>1
      <4>2. CASE i = k + 1
          BY <1>1, <1>2, <2>3, <3>5, <4>2
      <4> QED BY <1>1, <4>1, <4>2
    <3>6. ASSUME NEW i \in 1..(k + 1), i > k - n PROVE recent'[i] <= limit.age
      <4>1. CASE i \in 1..k
          BY <1>2, <2>3, <3>4, <3>6, <4>1
      <4>2. CASE i = k + 1
          BY <1>1, <2>3, <4>2
      <4> QED BY <1>1, <4>1, <4>2
    <3>7. Counted'
        BY <1>1, <1>2, <2>3, <3>3, <3>4, <3>5, <3>6 DEF Counted, Expired
    <3> QED BY <2>2, <3>2, <3>7 DEF RateInv
  <2> QED BY <2>5, <2>6
<1> QED BY <1>3, <1>4

\* Time passes: an entry expires with the first of its commands.
LEMMA RateAges ==
    ASSUME RateInv, Tick
    PROVE  RateInv'
<1> USE GatewayAssumption
<1> DEFINE k == Len(recent)
           n == limit.count
<1>1. /\ limit \in [age : 0..(Window + 1), count : 0..MaxCommands]
      /\ limit.age \in 0..(Window + 1) /\ n \in 1..MaxCommands
      /\ recent \in Seq(0..Window) /\ k \in Nat
      /\ \A i \in 1..k : recent[i] \in 0..Window
    BY DEF RateInv, LimitType, Tick
<1>2. /\ limit.age > Window => k < MaxCommands
      /\ limit.age <= Window => n <= k /\ k - n < MaxCommands
      /\ limit.age <= Window => \A i \in 1..k : i <= k - n + 1 => recent[i] >= limit.age
      /\ limit.age <= Window => \A i \in 1..k : i > k - n => recent[i] <= limit.age
    BY <1>1 DEF RateInv, Counted, Expired
<1>3. /\ Len(Older(recent)) = k
      /\ \A i \in 1..k : Older(recent)[i] = recent[i] + 1
    BY <1>1 DEF Older
<1>12. PICK out \in 0..Len(Older(recent)) :
        /\ \A i \in 1..out : Older(recent)[i] > Window
        /\ \A i \in (out + 1)..Len(Older(recent)) : Older(recent)[i] <= Window
        /\ recent' = [i \in 1..(Len(Older(recent)) - out) |-> Older(recent)[i + out]]
    BY DEF Tick, Recent
<1> HIDE DEF k, n
<1>4. /\ out \in 0..k
      /\ \A i \in 1..out : recent[i] + 1 > Window
      /\ \A i \in (out + 1)..k : recent[i] + 1 <= Window
      /\ recent' = [i \in 1..(k - out) |-> Older(recent)[i + out]]
  <2>1. out \in 0..k /\ Len(Older(recent)) = k
      BY <1>3, <1>12
  <2>2. ASSUME NEW i \in 1..out PROVE recent[i] + 1 > Window
    <3>1. i \in 1..k
        BY <1>1, <2>1
    <3> QED BY <1>3, <1>12, <3>1
  <2>3. ASSUME NEW i \in (out + 1)..k PROVE recent[i] + 1 <= Window
    <3>1. i \in 1..k
        BY <1>1, <2>1
    <3> QED BY <1>3, <1>12, <2>1, <3>1
  <2> QED BY <1>12, <2>1, <2>2, <2>3
<1>5. ASSUME NEW i \in 1..(k - out)
      PROVE  /\ i + out \in 1..k /\ i + out \in (out + 1)..k
             /\ Older(recent)[i + out] = recent[i + out] + 1
             /\ recent[i + out] + 1 \in 0..Window
  <2>1. i + out \in 1..k /\ i + out \in (out + 1)..k
      BY <1>1, <1>4
  <2>2. recent[i + out] \in 0..Window /\ recent[i + out] + 1 <= Window
      BY <1>1, <1>4, <2>1
  <2> QED BY <1>3, <2>1, <2>2
<1>6. /\ recent' \in Seq(0..Window) /\ Len(recent') = k - out /\ k - out \in Nat
      /\ \A i \in 1..(k - out) : recent'[i] = recent[i + out] + 1
  <2>1. k - out \in Nat
      BY <1>1, <1>4
  <2>2. \A i \in 1..(k - out) : Older(recent)[i + out] \in 0..Window
      BY <1>5
  <2>3. recent' \in [1..(k - out) -> 0..Window]
      BY <1>4, <2>2
  <2>4. recent' \in Seq(0..Window) /\ Len(recent') = k - out
      BY <2>1, <2>3
  <2>5. ASSUME NEW i \in 1..(k - out) PROVE recent'[i] = recent[i + out] + 1
      BY <1>4, <1>5
  <2> QED BY <2>1, <2>4, <2>5
<1>7. /\ limit'.age = (IF limit.age > Window THEN limit.age ELSE limit.age + 1)
      /\ limit'.count = n
      /\ limit' = [age |-> limit'.age, count |-> n]
      /\ misjudged' = misjudged
  <2>1. limit' = [limit EXCEPT !.age = IF @ > Window THEN @ ELSE @ + 1]
      BY DEF Tick
  <2>2. misjudged' = misjudged
      BY DEF Tick
  <2> QED BY <1>1, <2>1, <2>2 DEF n
<1>8. LimitType' /\ misjudged' = FALSE
  <2>1. limit'.age \in 0..(Window + 1) /\ n \in 0..MaxCommands
      BY <1>1, <1>7
  <2> QED BY <1>6, <1>7, <2>1 DEF RateInv, LimitType
<1>9. CASE limit.age > Window
  <2>1. limit'.age > Window /\ k - out < MaxCommands
      BY <1>1, <1>2, <1>4, <1>7, <1>9
  <2>2. Counted'
      BY <1>1, <1>6, <1>7, <2>1 DEF Counted, Expired
  <2> QED BY <1>8, <2>2 DEF RateInv
<1>10. CASE limit.age = Window
  <2>1. k - n + 1 \in 1..k /\ recent[k - n + 1] \in 0..Window /\ recent[k - n + 1] >= Window
    <3>1. k - n + 1 \in 1..k
        BY <1>1, <1>2, <1>10
    <3> QED BY <1>1, <1>2, <1>10, <3>1
  <2>2. out >= k - n + 1
    <3>1. SUFFICES ASSUME ~(out >= k - n + 1) PROVE FALSE
        OBVIOUS
    <3>2. k - n + 1 \in (out + 1)..k
        BY <1>1, <1>4, <2>1, <3>1
    <3> QED BY <1>1, <1>4, <2>1, <3>2
  <2>3. limit'.age > Window /\ k - out < MaxCommands
      BY <1>1, <1>2, <1>4, <1>7, <1>10, <2>2
  <2>4. Counted'
      BY <1>1, <1>6, <1>7, <2>3 DEF Counted, Expired
  <2> QED BY <1>8, <2>4 DEF RateInv
<1>11. CASE limit.age < Window
  <2>1. out <= k - n
    <3>1. SUFFICES ASSUME ~(out <= k - n) PROVE FALSE
        OBVIOUS
    <3>2. out \in 1..k /\ out \in 1..out /\ out > k - n
        BY <1>1, <1>2, <1>4, <1>11, <3>1
    <3>3. recent[out] <= limit.age /\ recent[out] + 1 > Window /\ recent[out] \in 0..Window
        BY <1>1, <1>2, <1>4, <1>11, <3>2
    <3> QED BY <1>1, <1>11, <3>3
  <2>2. limit'.age = limit.age + 1 /\ limit'.age <= Window
      BY <1>1, <1>7, <1>11
  <2>3. ASSUME NEW i \in 1..(k - out), i <= k - out - n + 1
        PROVE  recent'[i] >= limit.age + 1
    <3>1. i + out \in 1..k /\ i + out <= k - n + 1 /\ recent[i + out] \in 0..Window
        BY <1>1, <1>4, <1>5, <2>3
    <3>2. recent[i + out] >= limit.age
        BY <1>1, <1>2, <1>11, <3>1
    <3>3. recent'[i] = recent[i + out] + 1
        BY <1>6
    <3> QED BY <1>1, <3>1, <3>2, <3>3
  <2>4. ASSUME NEW i \in 1..(k - out), i > k - out - n
        PROVE  recent'[i] <= limit.age + 1
    <3>1. i + out \in 1..k /\ i + out > k - n /\ recent[i + out] \in 0..Window
        BY <1>1, <1>4, <1>5, <2>4
    <3>2. recent[i + out] <= limit.age
        BY <1>1, <1>2, <1>11, <3>1
    <3>3. recent'[i] = recent[i + out] + 1
        BY <1>6
    <3> QED BY <1>1, <3>1, <3>2, <3>3
  <2>5. n <= k - out /\ k - out - n < MaxCommands
      BY <1>1, <1>2, <1>4, <1>11, <2>1
  <2>6. /\ Len(recent') = k - out /\ limit'.count = n /\ n # 0
        /\ limit'.age = limit.age + 1 /\ ~(limit'.age > Window)
      BY <1>1, <1>6, <1>7, <2>2
  <2>7. Counted'
      BY <2>3, <2>4, <2>5, <2>6 DEF Counted, Expired
  <2> QED BY <1>8, <2>7 DEF RateInv
<1> QED BY <1>1, <1>9, <1>10, <1>11

\* An action checks the limit, forgets it with its connection, lets it age or leaves
\* it alone.
LEMMA RateStep == RateInv /\ [GatewayNext]_gatewayVars => RateInv'
<1> SUFFICES ASSUME RateInv, [GatewayNext]_gatewayVars PROVE RateInv'
    OBVIOUS
<1>1. CASE UNCHANGED admits
    BY <1>1 DEF RateInv, LimitType, Counted, Expired, admits
<1>2. CASE CheckRateLimit
    BY <1>2, RateChecked
<1>3. ASSUME Closed PROVE RateInv'
  <2>1. limit' = NoEntry /\ recent' = <<>> /\ misjudged' = FALSE
      BY <1>3 DEF Closed, RateInv
  <2>2. LimitType'
      BY <2>1, GatewayAssumption DEF LimitType, NoEntry
  <2>3. Len(recent') = 0 /\ limit'.age = 0 /\ limit'.count = 0
      BY <2>1 DEF NoEntry
  <2>4. Counted'
      BY <2>3, GatewayAssumption DEF Counted, Expired
  <2> QED BY <2>1, <2>2, <2>4 DEF RateInv
<1>4. CASE Tick
    BY <1>4, RateAges
<1>5. ASSUME NEW what \in Requests,
             \/ Send(what) \/ Dispatch(what)
      PROVE  UNCHANGED admits
    BY <1>5 DEF Send, Dispatch, admits
<1>6. ASSUME NEW what \in CommandType,
             RefuseCommand(what) \/ AcceptCommand(what)
      PROVE  CheckRateLimit
    BY <1>6 DEF RefuseCommand, AcceptCommand
<1>7. CASE Recharge \/ HandleNsh
    BY <1>1, <1>2, <1>7 DEF Recharge, HandleNsh
<1>8. CASE Disconnect \/ Respond
    BY <1>1, <1>3, <1>8 DEF Disconnect, Respond, admits
<1>9. ASSUME \/ StoreStatus \/ ForwardStatus \/ ForwardOrigin
             \/ \E origin \in Origins : StoreOrigin(origin)
             \/ Connect \/ ReadStored \/ TellStored
      PROVE  UNCHANGED admits
    BY <1>9 DEF StoreStatus, ForwardStatus, ForwardOrigin, StoreOrigin, Connect,
                ReadStored, TellStored, reader, admits
<1>10. ASSUME \/ Forward \/ HandleHandshake \/ CheckPreflight \/ HandleUnanswered
              \/ \E i \in DOMAIN flows : Progress(i)
       PROVE  UNCHANGED admits
    BY <1>10 DEF Forward, HandleHandshake, CheckPreflight, HandleUnanswered, Progress, admits
<1>11. ASSUME \/ SendResponse \/ SendStatus \/ SendOrigin \/ PongTimeout \/ RunCommand
       PROVE  UNCHANGED admits
    BY <1>11 DEF SendResponse, SendStatus, SendOrigin, PongTimeout, RunCommand, reader, admits
<1>12. CASE UNCHANGED gatewayVars
    BY <1>1, <1>12 DEF gatewayVars, reader, admits
<1>13. CASE GatewayNext
    BY <1>1, <1>2, <1>4, <1>5, <1>6, <1>7, <1>8, <1>9, <1>10, <1>11, <1>13 DEF GatewayNext
<1> QED BY <1>12, <1>13

\* No window admits twice the limit, and below it nothing is refused
\* (check_rate_limit).
THEOREM RateIsBounded == GatewaySpec => []RateBound
<1>1. GatewayInit => RateInv
    BY RateInit DEF GatewayInit
<1>2. RateInv => RateBound
  <2> SUFFICES ASSUME RateInv PROVE RateBound
      OBVIOUS
  <2>1. /\ limit.age \in 0..(Window + 1) /\ limit.count \in 0..MaxCommands
        /\ Len(recent) \in Nat
      BY DEF RateInv, LimitType
  <2>2. Len(recent) < 2 * MaxCommands
      BY <2>1, GatewayAssumption DEF RateInv, Counted, Expired
  <2> QED BY <2>2 DEF RateInv, RateBound
<1> QED BY <1>1, <1>2, RateStep, PTL DEF GatewaySpec

------------------------------------------------------------------------------
(* Gateway: the origin that a browser is told.                             *)

OriginTypes ==
    /\ conn \in {"none", "greeting", "cached", "open", "half"}
    /\ latest \in Origins \cup {NoOrigin} /\ cached \in Origins \cup {NoOrigin}
    /\ originNews \in {<<>>} \cup {<<origin>> : origin \in Origins}
    /\ originQ \in Seq(Origins)
    /\ seen \in [origin : Origins \cup {NoOrigin}, link : {"unknown", "up", "down"}]

\* The latest origin is the last one on its way to a connection that listens: yet
\* to be broadcast, at the end of its queue, read for it, or told.
OriginOnItsWay ==
    /\ originNews # <<>> => originNews = <<latest>>
    /\ Subscribed /\ originNews = <<>> /\ originQ # <<>> => Last(originQ) = latest
    /\ originNews = <<>> /\ originQ = <<>> =>
         (conn = "cached" => cached = latest) /\ (conn = "open" => seen.origin = latest)
    /\ conn \in {"none", "greeting", "cached"} => seen.origin = NoOrigin
    /\ conn = "none" => originQ = <<>>

OriginInv == OriginTypes /\ OriginOnItsWay

\* A broadcast ends with what was put there last.
LEMMA BroadcastLast ==
    ASSUME NEW S, NEW q \in Seq(S), NEW x \in S
    PROVE  /\ Broadcast(q, x) \in Seq(S) /\ Broadcast(q, x) # <<>>
           /\ Last(Broadcast(q, x)) = x
<1>1. ASSUME NEW p \in Seq(S)
      PROVE  Append(p, x) \in Seq(S) /\ Append(p, x) # <<>> /\ Last(Append(p, x)) = x
    BY <1>1 DEF Last
<1>2. CASE Len(q) < BroadcastCap
    BY <1>1, <1>2 DEF Broadcast
<1>3. CASE ~(Len(q) < BroadcastCap)
  <2>1. q # <<>>
      BY <1>3, EmptySeq, GatewayAssumption
  <2>2. Tail(q) \in Seq(S)
      BY <2>1, HeadTailProperties
  <2> QED BY <1>1, <1>3, <2>2 DEF Broadcast
<1> QED BY <1>2, <1>3

\* What is sent first leaves the last one in its place, unless it was the last.
LEMMA TailLast ==
    ASSUME NEW S, NEW q \in Seq(S), q # <<>>
    PROVE  /\ Head(q) \in S /\ Tail(q) \in Seq(S)
           /\ Tail(q) # <<>> => Last(Tail(q)) = Last(q)
           /\ Tail(q) = <<>> => Head(q) = Last(q)
<1>1. /\ Head(q) \in S /\ Tail(q) \in Seq(S) /\ Len(Tail(q)) = Len(q) - 1
      /\ \A i \in 1..Len(Tail(q)) : Tail(q)[i] = q[i + 1]
    BY HeadTailProperties
<1>2. Len(q) \in Nat \ {0} /\ Head(q) = q[1]
    BY EmptySeq
<1>3. ASSUME Tail(q) # <<>> PROVE Last(Tail(q)) = Last(q)
  <2>1. Len(Tail(q)) \in Nat \ {0}
      BY <1>1, <1>3, EmptySeq
  <2>2. Tail(q)[Len(q) - 1] = q[(Len(q) - 1) + 1] /\ (Len(q) - 1) + 1 = Len(q)
      BY <1>1, <1>2, <2>1
  <2> QED BY <1>1, <2>2 DEF Last
<1>4. ASSUME Tail(q) = <<>> PROVE Head(q) = Last(q)
  <2> DEFINE rest == Tail(q)
  <2>1. rest = <<>> /\ Len(rest) = Len(q) - 1
      BY <1>1, <1>4
  <2> HIDE DEF rest
  <2>2. Len(q) = 1
      BY <1>2, <2>1
  <2> QED BY <1>2, <2>2 DEF Last
<1> QED BY <1>1, <1>3, <1>4

\* A connection has not begun: no origin is on its way.
LEMMA OriginInit == GatewayInit => OriginInv
BY DEF GatewayInit, OriginInv, OriginTypes, OriginOnItsWay, Subscribed

\* Every step keeps the last origin on its way, or shown.
LEMMA OriginStep == OriginInv /\ [GatewayNext]_gatewayVars => OriginInv'
<1> SUFFICES ASSUME OriginInv, [GatewayNext]_gatewayVars PROVE OriginInv'
    OBVIOUS
<1> USE DEF OriginInv
<1>1. CASE UNCHANGED <<conn, latest, originNews, originQ, cached, seen>>
    BY <1>1 DEF OriginTypes, OriginOnItsWay, Subscribed
<1>2. ASSUME NEW origin \in Origins, StoreOrigin(origin) PROVE OriginInv'
  <2>1. /\ latest' = origin /\ originNews' = <<origin>>
        /\ UNCHANGED <<conn, originQ, cached, seen>>
      BY <1>2 DEF StoreOrigin, queues, view
  <2> QED BY <2>1 DEF OriginTypes, OriginOnItsWay
<1>3. CASE ForwardOrigin
  <2>1. /\ originNews' = <<>> /\ UNCHANGED <<conn, latest, cached, seen>>
        /\ originQ' = IF Subscribed THEN Broadcast(originQ, Head(originNews)) ELSE originQ
      BY <1>3 DEF ForwardOrigin, view
  <2>2. Head(originNews) = latest /\ latest \in Origins
      BY <1>3 DEF ForwardOrigin, OriginTypes, OriginOnItsWay
  <2>3. CASE Subscribed
    <3>1. originQ' = Broadcast(originQ, latest)
        BY <2>1, <2>2, <2>3
    <3>2. originQ' \in Seq(Origins) /\ originQ' # <<>> /\ Last(originQ') = latest
        BY <2>2, <3>1, BroadcastLast DEF OriginTypes
    <3> QED BY <2>1, <2>3, <3>2 DEF OriginTypes, OriginOnItsWay, Subscribed
  <2>4. CASE ~Subscribed
      BY <2>1, <2>4 DEF OriginTypes, OriginOnItsWay, Subscribed
  <2> QED BY <2>3, <2>4
<1>4. CASE Connect
  <2>1. /\ conn = "none" /\ conn' = "greeting"
        /\ UNCHANGED <<latest, originNews, originQ, cached, seen>>
      BY <1>4 DEF Connect, news, queues, view
  <2> QED BY <2>1 DEF OriginTypes, OriginOnItsWay, Subscribed
<1>5. CASE ReadStored
  <2>1. /\ conn = "greeting" /\ conn' = "cached" /\ cached' = latest
        /\ UNCHANGED <<latest, originNews, originQ, seen>>
      BY <1>5 DEF ReadStored, news, queues, view
  <2> QED BY <2>1 DEF OriginTypes, OriginOnItsWay, Subscribed
<1>6. CASE TellStored
  <2>1. /\ conn = "cached" /\ conn' = "open" /\ cached' = NoOrigin
        /\ seen' = IF cached = NoOrigin THEN seen ELSE [seen EXCEPT !.origin = cached]
        /\ UNCHANGED <<latest, originNews, originQ>>
      BY <1>6 DEF TellStored, news, queues
  <2>2. seen.origin = NoOrigin
      BY <2>1 DEF OriginOnItsWay
  <2>3. seen'.origin = cached /\ seen' \in [origin : Origins \cup {NoOrigin}, link : {"unknown", "up", "down"}]
      BY <2>1, <2>2 DEF OriginTypes
  <2> QED BY <2>1, <2>3 DEF OriginTypes, OriginOnItsWay, Subscribed
<1>7. ASSUME Closed PROVE OriginInv'
  <2>1. /\ conn' = "none" /\ originQ' = <<>> /\ cached' = NoOrigin
        /\ seen' = [origin |-> NoOrigin, link |-> "unknown"]
        /\ UNCHANGED <<latest, originNews>>
      BY <1>7 DEF Closed, news
  <2> QED BY <2>1 DEF OriginTypes, OriginOnItsWay, Subscribed
<1>8. CASE SendOrigin
  <2>1. /\ conn = "open" /\ originQ # <<>> /\ originQ' = Tail(originQ)
        /\ seen' = [seen EXCEPT !.origin = Head(originQ)]
        /\ UNCHANGED <<conn, latest, originNews, cached>>
      BY <1>8 DEF SendOrigin, news
  <2>2. /\ Head(originQ) \in Origins /\ Tail(originQ) \in Seq(Origins)
        /\ Tail(originQ) # <<>> => Last(Tail(originQ)) = Last(originQ)
        /\ Tail(originQ) = <<>> => Head(originQ) = Last(originQ)
      BY <2>1, TailLast DEF OriginTypes
  <2>3. seen'.origin = Head(originQ) /\ seen' \in [origin : Origins \cup {NoOrigin}, link : {"unknown", "up", "down"}]
      BY <2>1, <2>2 DEF OriginTypes
  <2> QED BY <2>1, <2>2, <2>3 DEF OriginTypes, OriginOnItsWay, Subscribed
<1>9. CASE PongTimeout
  <2>1. /\ conn' = "half" /\ originQ' = <<>>
        /\ UNCHANGED <<latest, originNews, cached, seen>>
      BY <1>9 DEF PongTimeout, news, view
  <2> QED BY <2>1 DEF OriginTypes, OriginOnItsWay, Subscribed
<1>10. CASE SendResponse \/ SendStatus
  <2>1. /\ UNCHANGED <<conn, latest, originNews, originQ, cached>>
        /\ seen' = seen \/ \E link \in {"up", "down"} : seen' = [seen EXCEPT !.link = link]
    <3>1. CASE SendResponse
      <4>1. UNCHANGED <<conn, latest, originNews, originQ, cached>>
          BY <3>1 DEF SendResponse, news
      <4>2. \/ seen' = seen
            \/ seen' = [seen EXCEPT !.link = IF Head(responses).connected THEN "up" ELSE "down"]
          BY <3>1 DEF SendResponse
      <4> QED BY <4>1, <4>2
    <3>2. CASE SendStatus
      <4>1. UNCHANGED <<conn, latest, originNews, originQ, cached>>
          BY <3>2 DEF SendStatus, news
      <4>2. seen' = [seen EXCEPT !.link = IF Head(statusQ) THEN "up" ELSE "down"]
          BY <3>2 DEF SendStatus
      <4> QED BY <4>1, <4>2
    <3> QED BY <1>10, <3>1, <3>2
  <2>2. seen'.origin = seen.origin /\ seen' \in [origin : Origins \cup {NoOrigin}, link : {"unknown", "up", "down"}]
      BY <2>1 DEF OriginTypes
  <2> QED BY <2>1, <2>2 DEF OriginTypes, OriginOnItsWay, Subscribed
<1>11. CASE Disconnect
    BY <1>7, <1>11 DEF Disconnect
<1>12. CASE Respond
    BY <1>1, <1>7, <1>12 DEF Respond, news, queues, view
<1>13. ASSUME NEW what \in Requests, Send(what) PROVE OriginInv'
    BY <1>1, <1>13 DEF Send, news, queues
<1>18. ASSUME NEW what \in Requests, Dispatch(what) PROVE OriginInv'
    BY <1>1, <1>18 DEF Dispatch, Take, news, queues, view
<1>14. ASSUME NEW what \in CommandType, RefuseCommand(what) \/ AcceptCommand(what)
       PROVE  OriginInv'
    BY <1>1, <1>14 DEF RefuseCommand, AcceptCommand, news, queues, view
<1>15. CASE Recharge \/ HandleNsh \/ Forward \/ HandleHandshake \/ CheckPreflight
             \/ HandleUnanswered
    BY <1>1, <1>15 DEF Recharge, HandleNsh, Forward, HandleHandshake, CheckPreflight,
                       HandleUnanswered, news, queues, view
<1>16. CASE StoreStatus \/ ForwardStatus \/ RunCommand \/ Tick
             \/ \E i \in DOMAIN flows : Progress(i)
    BY <1>1, <1>16 DEF StoreStatus, ForwardStatus, RunCommand, Tick, Progress, news, queues,
                       view
<1>17. CASE UNCHANGED gatewayVars
    BY <1>1, <1>17 DEF gatewayVars, news, queues, view
<1> QED BY <1>2, <1>3, <1>4, <1>5, <1>6, <1>8, <1>9, <1>10, <1>11, <1>12, <1>13, <1>14,
           <1>15, <1>16, <1>17, <1>18 DEF GatewayNext

\* A browser that joins while the origin moves ends on the latest one
\* (server.rs:373-386, 583-587).
THEOREM BrowserConverges == GatewaySpec => []OriginConverges
<1>1. OriginInv => OriginConverges
    BY DEF OriginInv, OriginOnItsWay, OriginConverges
<1> QED BY OriginInit, OriginStep, <1>1, PTL DEF GatewaySpec

------------------------------------------------------------------------------
(* Gateway: what a browser is answered, and what it is told of the link.   *)

Messages == [kind : {"ack", "started", "stage", "result"}]
              \cup [kind : {"handshake"}, connected : BOOLEAN]
Tasks == [mine : BOOLEAN, says : {<<"stage", "result">>, <<"result">>}]

\* A task has something to say as long as there is one, and says it to the open
\* connection that it came from; only an open one has responses.
Served ==
    /\ conn \in {"none", "greeting", "cached", "open", "half"}
    /\ hold \in Messages \cup {Nothing, [kind |-> "command"]}
    /\ flows \in Seq(Tasks) /\ responses \in Seq(Messages)
    /\ connected \in BOOLEAN
    /\ conn # "open" => responses = <<>> /\ \A i \in DOMAIN flows : ~flows[i].mine
    /\ conn \in {"none", "greeting", "cached"} => hold = Nothing

\* The tasks but the one at i.
LEMMA RemoveAtType ==
    ASSUME NEW S, NEW s \in Seq(S), NEW i \in 1..Len(s)
    PROVE  /\ RemoveAt(s, i) \in Seq(S)
           /\ \A j \in DOMAIN RemoveAt(s, i) : \E k \in DOMAIN s : RemoveAt(s, i)[j] = s[k]
<1> DEFINE a == SubSeq(s, 1, i - 1)
           b == SubSeq(s, i + 1, Len(s))
<1>1. Len(s) \in Nat /\ DOMAIN s = 1..Len(s)
    BY LenProperties
<1>2. /\ a \in Seq(S) /\ Len(a) = i - 1
      /\ \A j \in 1..(i - 1) : a[j] = s[j]
  <2>1. \A j \in 1..(i - 1) : s[j] \in S
      BY <1>1
  <2>2. /\ SubSeq(s, 1, i - 1) \in Seq(S)
        /\ Len(SubSeq(s, 1, i - 1)) = IF 1 <= i - 1 THEN (i - 1) - 1 + 1 ELSE 0
        /\ \A j \in 1..((i - 1) - 1 + 1) : SubSeq(s, 1, i - 1)[j] = s[1 + j - 1]
    <3>1. 1 \in Int /\ i - 1 \in Int
        BY <1>1
    <3> QED BY <2>1, <3>1, SubSeqProperties
  <2> QED BY <1>1, <2>2
<1>3. /\ b \in Seq(S) /\ Len(b) = Len(s) - i
      /\ \A j \in 1..(Len(s) - i) : b[j] = s[i + j]
  <2> DEFINE m == i + 1
             n == Len(s)
  <2>1. /\ m \in Int /\ n \in Int /\ m = i + 1 /\ i \in 1..n
        /\ \A j \in m..n : s[j] \in S
      BY <1>1
  <2> HIDE DEF m, n
  <2>2. /\ SubSeq(s, m, n) \in Seq(S)
        /\ Len(SubSeq(s, m, n)) = IF m <= n THEN n - m + 1 ELSE 0
        /\ \A j \in 1..(n - m + 1) : SubSeq(s, m, n)[j] = s[m + j - 1]
      BY <2>1, SubSeqProperties
  <2>3. Len(SubSeq(s, m, n)) = n - i
      BY <2>1, <2>2
  <2>4. ASSUME NEW j \in 1..(n - i) PROVE SubSeq(s, m, n)[j] = s[i + j]
    <3>1. j \in 1..(n - m + 1) /\ m + j - 1 = i + j
        BY <2>1
    <3> QED BY <2>2, <3>1
  <2>5. b = SubSeq(s, m, n)
      BY DEF m, n
  <2>6. /\ b \in Seq(S) /\ Len(b) = n - i
        /\ \A j \in 1..(n - i) : b[j] = s[i + j]
      BY <2>2, <2>3, <2>4, <2>5, Zenon
  <2> QED BY <2>6, Zenon DEF n
<1> HIDE DEF a, b
<1>4. /\ a \o b \in Seq(S) /\ Len(a \o b) = Len(a) + Len(b)
      /\ \A j \in 1..(Len(a) + Len(b)) :
           (a \o b)[j] = IF j <= Len(a) THEN a[j] ELSE b[j - Len(a)]
    BY <1>2, <1>3, ConcatProperties
<1>5. DOMAIN (a \o b) = 1..(Len(a) + Len(b))
    BY <1>4, LenProperties
<1>6. ASSUME NEW j \in DOMAIN (a \o b) PROVE \E k \in DOMAIN s : (a \o b)[j] = s[k]
  <2>1. CASE j <= i - 1
      BY <1>1, <1>2, <1>3, <1>4, <1>5, <2>1
  <2>2. CASE ~(j <= i - 1)
    <3>1. j - (i - 1) \in 1..(Len(s) - i) /\ i + (j - (i - 1)) \in 1..Len(s)
        BY <1>1, <1>2, <1>3, <1>5, <2>2
    <3>2. (a \o b)[j] = b[j - (i - 1)]
        BY <1>1, <1>2, <1>3, <1>4, <1>5, <2>2
    <3> QED BY <1>1, <1>3, <3>1, <3>2
  <2> QED BY <2>1, <2>2
<1>7. RemoveAt(s, i) = a \o b
    BY DEF RemoveAt, a, b
<1> QED BY <1>4, <1>6, <1>7

\* A task says one thing at a time, and then the rest of it, if there is one.
LEMMA TaskType ==
    ASSUME NEW f \in Tasks
    PROVE  /\ Head(f.says) \in {"stage", "result"}
           /\ Len(f.says) # 1 => [f EXCEPT !.says = Tail(@)] \in Tasks
           /\ [f EXCEPT !.says = Tail(@)].mine = f.mine
<1>1. f.mine \in BOOLEAN /\ f = [mine |-> f.mine, says |-> f.says]
    BY DEF Tasks
<1>2. CASE f.says = <<"stage", "result">>
  <2>1. Head(f.says) = "stage" /\ Tail(f.says) = <<"result">>
    <3>1. Head(<<"stage", "result">>) = "stage"
        OBVIOUS
    <3>2. Tail(<<"stage", "result">>) = <<"result">>
        OBVIOUS
    <3> QED BY <1>2, <3>1, <3>2, Zenon
  <2> DEFINE rest == Tail(f.says)
  <2>2. rest = <<"result">>
      BY <2>1
  <2> HIDE DEF rest
  <2>3. /\ [f EXCEPT !.says = rest] = [mine |-> f.mine, says |-> <<"result">>]
        /\ [mine |-> f.mine, says |-> <<"result">>] \in Tasks
        /\ [f EXCEPT !.says = rest].mine = f.mine
      BY <1>1, <2>2 DEF Tasks
  <2>4. [f EXCEPT !.says = Tail(@)] = [f EXCEPT !.says = rest]
      BY Zenon DEF rest
  <2> QED BY <2>1, <2>3, <2>4, Zenon
<1>3. CASE f.says = <<"result">>
    BY <1>1, <1>3 DEF Tasks
<1> QED BY <1>2, <1>3 DEF Tasks

\* A task whose connection is gone has nobody to report to.
LEMMA OrphanedType ==
    ASSUME Served
    PROVE  /\ Orphaned \in Seq(Tasks)
           /\ \A i \in DOMAIN Orphaned : ~Orphaned[i].mine
<1>1. /\ flows \in Seq(Tasks) /\ DOMAIN flows = 1..Len(flows) /\ Len(flows) \in Nat
    BY LenProperties DEF Served
<1>2. ASSUME NEW i \in 1..Len(flows)
      PROVE  [flows[i] EXCEPT !.mine = FALSE] \in Tasks /\ [flows[i] EXCEPT !.mine = FALSE].mine = FALSE
  <2>1. flows[i] \in Tasks
      BY <1>1, ElementOfSeq
  <2> QED BY <2>1 DEF Tasks
<1>3. Orphaned = [i \in 1..Len(flows) |-> [flows[i] EXCEPT !.mine = FALSE]]
    BY <1>1 DEF Orphaned
<1>4. Orphaned \in [1..Len(flows) -> Tasks]
    BY <1>2, <1>3
<1>5. Orphaned \in Seq(Tasks)
    BY <1>1, <1>4
<1> QED BY <1>2, <1>3, <1>5

\* Every step leaves the requests in service to the connection that made them.
LEMMA ServedStep == Served /\ [GatewayNext]_gatewayVars => Served'
<1> SUFFICES ASSUME Served, [GatewayNext]_gatewayVars PROVE Served'
    OBVIOUS
<1>0. /\ conn \in {"none", "greeting", "cached", "open", "half"}
      /\ hold \in Messages \cup {Nothing, [kind |-> "command"]}
      /\ flows \in Seq(Tasks) /\ responses \in Seq(Messages)
      /\ Len(flows) \in Nat /\ DOMAIN flows = 1..Len(flows)
      /\ \A i \in DOMAIN flows : flows[i] \in Tasks
    BY LenProperties, ElementOfSeq DEF Served
<1>1. CASE UNCHANGED <<conn, hold, flows, responses, connected>>
    BY <1>1 DEF Served
<1>2. ASSUME UNCHANGED <<conn, flows, responses, connected>>, conn \in {"open", "half"},
             hold' \in Messages \cup {Nothing, [kind |-> "command"]}
      PROVE  Served'
    BY <1>0, <1>2 DEF Served
<1>3. Ack \in Messages /\ HandshakeAck \in Messages /\ [kind |-> "started"] \in Messages
    BY DEF Ack, HandshakeAck, Messages, Served
<1>4. ASSUME Closed PROVE Served'
  <2>1. /\ conn' = "none" /\ hold' = Nothing /\ responses' = <<>> /\ flows' = Orphaned
        /\ connected' = connected
      BY <1>4 DEF Closed, news
  <2> QED BY <2>1, OrphanedType DEF Served
<1>5. CASE Disconnect
    BY <1>4, <1>5 DEF Disconnect
<1>6. CASE Connect \/ ReadStored \/ TellStored
  <2>1. /\ conn' \in {"greeting", "cached", "open"} /\ conn \in {"none", "greeting", "cached"}
        /\ UNCHANGED <<hold, flows, responses, connected>>
      BY <1>6 DEF Connect, ReadStored, TellStored, reader, news, queues
  <2> QED BY <2>1 DEF Served
<1>7. ASSUME NEW what \in Requests, Dispatch(what) PROVE Served'
  <2> DEFINE task == [mine |-> conn = "open",
                      says |-> IF flows = <<>> THEN <<"stage", "result">> ELSE <<"result">>]
  <2>1. /\ conn \in {"open", "half"} /\ flows' = Append(flows, task)
        /\ hold' \in {[kind |-> "started"], Nothing}
        /\ UNCHANGED <<conn, responses, connected>>
      BY <1>7 DEF Dispatch, Take, news, queues
  <2>2. task \in Tasks /\ (task.mine => conn = "open")
      BY DEF Tasks
  <2> HIDE DEF task
  <2>3. /\ flows' \in Seq(Tasks) /\ DOMAIN flows' = 1..(Len(flows) + 1)
        /\ \A i \in 1..Len(flows) : flows'[i] = flows[i]
        /\ flows'[Len(flows) + 1] = task
      BY <1>0, <2>1, <2>2, AppendProperties, LenProperties
  <2>4. conn # "open" => \A i \in DOMAIN flows' : ~flows'[i].mine
      BY <1>0, <2>2, <2>3 DEF Served
  <2> QED BY <1>0, <1>3, <2>1, <2>3, <2>4 DEF Served
<1>8. CASE Respond
  <2>1. ASSUME conn = "open", responses' = Append(responses, hold), hold' = Nothing,
               UNCHANGED <<conn, flows, connected>>, hold.kind \in {"ack", "handshake", "started"}
        PROVE  Served'
    <3>1. hold \in Messages
        BY <1>0, <2>1 DEF Nothing
    <3>2. responses' \in Seq(Messages)
        BY <1>0, <2>1, <3>1, AppendProperties
    <3> QED BY <1>0, <2>1, <3>2 DEF Served
  <2> QED BY <1>2, <1>4, <1>8, <2>1 DEF Respond, news, queues
<1>9. ASSUME NEW i \in DOMAIN flows, Progress(i) PROVE Served'
  <2> DEFINE said == [kind |-> Head(flows[i].says)]
             rest == [flows[i] EXCEPT !.says = Tail(@)]
  <2>1. said \in Messages /\ rest.mine = flows[i].mine /\ (Len(flows[i].says) # 1 => rest \in Tasks)
      BY <1>0, TaskType DEF Messages
  <2> HIDE DEF said, rest
  <2>2. /\ responses' = IF flows[i].mine THEN Append(responses, said) ELSE responses
        /\ flows' = IF Len(flows[i].says) = 1 THEN RemoveAt(flows, i)
                    ELSE [flows EXCEPT ![i] = rest]
        /\ UNCHANGED <<conn, hold, connected>>
      BY <1>9 DEF Progress, said, rest, news
  <2>3. responses' \in Seq(Messages) /\ (conn # "open" => responses' = <<>>)
    <3>1. Append(responses, said) \in Seq(Messages)
        BY <1>0, <2>1, AppendProperties
    <3> QED BY <1>0, <2>2, <3>1 DEF Served
  <2>4. CASE Len(flows[i].says) = 1
    <3>1. /\ flows' \in Seq(Tasks)
          /\ \A j \in DOMAIN flows' : \E k \in DOMAIN flows : flows'[j] = flows[k]
        BY <1>0, <2>2, <2>4, RemoveAtType
    <3> QED BY <1>0, <2>2, <2>3, <3>1 DEF Served
  <2>5. CASE Len(flows[i].says) # 1
    <3>1. flows' = [flows EXCEPT ![i] = rest] /\ rest \in Tasks
        BY <2>1, <2>2, <2>5
    <3>2. flows' \in Seq(Tasks) /\ DOMAIN flows' = DOMAIN flows
        BY <1>0, <3>1, ExceptSeq
    <3>3. \A j \in DOMAIN flows : flows'[j].mine = flows[j].mine
        BY <1>0, <2>1, <3>1
    <3> QED BY <1>0, <2>2, <2>3, <3>2, <3>3 DEF Served
  <2> QED BY <2>4, <2>5
<1>10. CASE SendResponse
  <2>1. /\ conn = "open" /\ responses # <<>> /\ responses' = Tail(responses)
        /\ UNCHANGED <<conn, hold, flows, connected>>
      BY <1>10 DEF SendResponse, reader, news
  <2>2. responses' \in Seq(Messages)
      BY <1>0, <2>1, HeadTailProperties
  <2> QED BY <2>1, <2>2 DEF Served
<1>11. CASE PongTimeout
  <2>1. /\ conn = "open" /\ conn' = "half" /\ responses' = <<>> /\ flows' = Orphaned
        /\ UNCHANGED <<hold, connected>>
      BY <1>11 DEF PongTimeout, news
  <2> QED BY <2>1, OrphanedType DEF Served
<1>12. CASE StoreStatus
    BY <1>12 DEF StoreStatus, Served, reader, queues
<1>13. ASSUME NEW what \in CommandType, RefuseCommand(what) \/ AcceptCommand(what)
       PROVE  Served'
    BY <1>2, <1>3, <1>13 DEF RefuseCommand, AcceptCommand, Refusal, Take, news, queues
<1>14. CASE Recharge \/ HandleNsh \/ HandleHandshake \/ CheckPreflight
    BY <1>2, <1>3, <1>14 DEF Recharge, HandleNsh, HandleHandshake, CheckPreflight, Refusal,
                             Take, news, queues
<1>15. CASE Forward
  <2>1. conn \in {"open", "half"} /\ hold' = Ack /\ UNCHANGED <<conn, flows, responses, connected>>
      BY <1>0, <1>15 DEF Forward, Served, Nothing, news, queues
  <2> QED BY <1>2, <1>3, <2>1
<1>16. ASSUME NEW what \in Requests, Send(what) PROVE Served'
    BY <1>1, <1>16 DEF Send, news, queues
<1>17. CASE HandleUnanswered \/ ForwardStatus \/ ForwardOrigin \/ RunCommand \/ Tick
             \/ \E origin \in Origins : StoreOrigin(origin)
    BY <1>1, <1>17 DEF HandleUnanswered, ForwardStatus, ForwardOrigin, RunCommand, Tick,
                       StoreOrigin, reader, news, queues
<1>18. CASE SendStatus \/ SendOrigin
    BY <1>1, <1>18 DEF SendStatus, SendOrigin, reader, news
<1>19. CASE UNCHANGED gatewayVars
    BY <1>1, <1>19 DEF gatewayVars, reader, news, queues
<1> QED BY <1>5, <1>6, <1>7, <1>8, <1>9, <1>10, <1>11, <1>12, <1>13, <1>14, <1>15, <1>16,
           <1>17, <1>18, <1>19 DEF GatewayNext

Pending == {hold} \cup {responses[i] : i \in DOMAIN responses}

LinkIs(up) == IF up THEN "up" ELSE "down"

StatusTypes ==
    /\ statusNews \in {<<>>, <<TRUE>>, <<FALSE>>} /\ statusQ \in Seq(BOOLEAN)
    /\ crossed \in BOOLEAN

\* The latest status is the last one on its way to a connection that listens; once
\* it was told, no answer that says otherwise is left, unless it was crossed.
StatusOnItsWay ==
    /\ statusNews # <<>> => statusNews = <<connected>>
    /\ conn \in {"greeting", "cached", "open"} /\ statusNews = <<>> /\ statusQ # <<>>
         => Last(statusQ) = connected
    /\ conn = "open" /\ statusNews = <<>> /\ statusQ = <<>> /\ crossed = FALSE =>
         /\ \A r \in Pending : r.kind = "handshake" => r.connected = connected
         /\ seen.link = "unknown" \/ seen.link = LinkIs(connected)
    /\ conn \in {"none", "greeting", "cached"} => seen.link = "unknown"
    /\ conn = "none" => statusQ = <<>>

StatusInv == StatusTypes /\ StatusOnItsWay

\* Nothing was told yet.
LEMMA StatusInit == GatewayInit => Served /\ StatusInv
<1> SUFFICES ASSUME GatewayInit PROVE Served /\ StatusInv
    OBVIOUS
<1>1. Served
  <2>1. /\ conn = "none" /\ hold = Nothing /\ flows = <<>> /\ responses = <<>>
        /\ connected = FALSE
      BY DEF GatewayInit
  <2>2. flows \in Seq(Tasks) /\ responses \in Seq(Messages) /\ DOMAIN flows = {}
      BY <2>1
  <2> QED BY <2>1, <2>2 DEF Served
<1>2. StatusTypes /\ StatusOnItsWay
    BY EmptySeq DEF GatewayInit, StatusTypes, StatusOnItsWay
<1> QED BY <1>1, <1>2 DEF StatusInv

\* Every step keeps the last status on its way, or told, or what crossed it noted.
LEMMA StatusStep == Served /\ OriginInv /\ StatusInv /\ [GatewayNext]_gatewayVars => StatusInv'
<1> SUFFICES ASSUME Served, OriginInv, StatusInv, [GatewayNext]_gatewayVars PROVE StatusInv'
    OBVIOUS
<1>0. /\ Served' /\ StatusTypes /\ StatusOnItsWay
      /\ seen \in [origin : Origins \cup {NoOrigin}, link : {"unknown", "up", "down"}]
      /\ conn \in {"none", "greeting", "cached", "open", "half"}
      /\ responses \in Seq(Messages) /\ statusQ \in Seq(BOOLEAN) /\ connected \in BOOLEAN
      /\ Len(responses) \in Nat /\ DOMAIN responses = 1..Len(responses)
    BY ServedStep, LenProperties DEF StatusInv, OriginInv, OriginTypes, Served, StatusTypes
<1>1. ASSUME UNCHANGED <<conn, connected, statusNews, statusQ, crossed>>,
             seen'.link = seen.link,
             \A r \in Pending' : r.kind = "handshake" => r \in Pending \/ r.connected = connected
      PROVE  StatusInv'
    BY <1>0, <1>1 DEF StatusInv, StatusTypes, StatusOnItsWay, LinkIs
<1>2. ASSUME NEW r, r \in {Ack, Nothing, [kind |-> "command"], [kind |-> "started"], HandshakeAck},
             r.kind = "handshake"
      PROVE  r.connected = connected
    BY <1>2 DEF Ack, Nothing, HandshakeAck
<1>3. ASSUME UNCHANGED <<conn, responses, connected, statusNews, statusQ, seen, crossed>>,
             \/ hold' \in {Ack, Nothing, [kind |-> "command"], [kind |-> "started"], HandshakeAck}
             \/ hold' = hold
      PROVE  StatusInv'
  <2>1. \A r \in Pending' : r.kind = "handshake" => r \in Pending \/ r.connected = connected
      BY <1>2, <1>3 DEF Pending
  <2> QED BY <1>1, <1>3, <2>1
<1>4. CASE StoreStatus
  <2>1. /\ connected' = ~connected /\ statusNews' = <<connected'>>
        /\ UNCHANGED <<conn, hold, responses, statusQ, seen, crossed>>
      BY <1>4 DEF StoreStatus, reader, queues, view
  <2>2. statusNews' # <<>> /\ statusNews' \in {<<TRUE>>, <<FALSE>>}
      BY <1>0, <2>1
  <2> QED BY <1>0, <2>1, <2>2 DEF StatusInv, StatusTypes, StatusOnItsWay
<1>5. CASE ForwardStatus
  <2>1. /\ statusNews # <<>> /\ statusNews' = <<>>
        /\ statusQ' = IF conn \in {"none", "half"} THEN statusQ
                      ELSE Broadcast(statusQ, Head(statusNews))
        /\ UNCHANGED <<conn, connected, seen, crossed>>
      BY <1>5 DEF ForwardStatus, view
  <2>2. Head(statusNews) = connected
    <3>1. statusNews = <<connected>>
        BY <1>0, <2>1 DEF StatusOnItsWay
    <3> QED BY <3>1
  <2>3. CASE conn \in {"none", "half"}
      BY <1>0, <2>1, <2>3 DEF StatusInv, StatusTypes, StatusOnItsWay
  <2>4. CASE conn \notin {"none", "half"}
    <3>1. statusQ' = Broadcast(statusQ, connected)
        BY <2>1, <2>2, <2>4
    <3>2. statusQ' \in Seq(BOOLEAN) /\ statusQ' # <<>> /\ Last(statusQ') = connected
        BY <1>0, <3>1, BroadcastLast
    <3> QED BY <1>0, <2>1, <2>4, <3>2 DEF StatusInv, StatusTypes, StatusOnItsWay
  <2> QED BY <2>3, <2>4
<1>6. CASE Connect \/ ReadStored
  <2>1. /\ conn' \in {"greeting", "cached"} /\ conn \in {"none", "greeting"}
        /\ UNCHANGED <<connected, statusNews, statusQ, seen, crossed>>
      BY <1>6 DEF Connect, ReadStored, news, queues, view
  <2> QED BY <1>0, <2>1 DEF StatusInv, StatusTypes, StatusOnItsWay
<1>7. CASE TellStored
  <2>1. /\ conn = "cached" /\ conn' = "open" /\ seen'.link = seen.link
        /\ UNCHANGED <<hold, responses, connected, statusNews, statusQ, crossed>>
      BY <1>0, <1>7 DEF TellStored, reader, news, queues
  <2>2. hold = Nothing /\ responses = <<>> /\ seen.link = "unknown"
      BY <1>0, <2>1 DEF Served, StatusOnItsWay
  <2>3. \A r \in Pending' : r.kind # "handshake"
      BY <2>1, <2>2 DEF Pending, Nothing
  <2> QED BY <1>0, <2>1, <2>2, <2>3 DEF StatusInv, StatusTypes, StatusOnItsWay
<1>8. ASSUME Closed PROVE StatusInv'
  <2>1. /\ conn' = "none" /\ statusQ' = <<>> /\ seen'.link = "unknown" /\ crossed' = FALSE
        /\ UNCHANGED <<connected, statusNews>>
      BY <1>8 DEF Closed, news
  <2> QED BY <1>0, <2>1, EmptySeq DEF StatusInv, StatusTypes, StatusOnItsWay
<1>9. CASE Disconnect
    BY <1>8, <1>9 DEF Disconnect
<1>10. CASE PongTimeout
  <2>1. /\ conn' = "half" /\ statusQ' = <<>>
        /\ UNCHANGED <<connected, statusNews, seen, crossed>>
      BY <1>10 DEF PongTimeout, news, view
  <2> QED BY <1>0, <2>1, EmptySeq DEF StatusInv, StatusTypes, StatusOnItsWay
<1>11. CASE Respond
  <2>1. ASSUME responses' = Append(responses, hold), hold' = Nothing,
               UNCHANGED <<conn, connected, statusNews, statusQ, seen, crossed>>
        PROVE  StatusInv'
    <3>1. \A i \in DOMAIN responses' : responses'[i] \in Pending
        BY <1>0, <2>1 DEF Pending
    <3>2. \A r \in Pending' : r.kind = "handshake" => r \in Pending
        BY <2>1, <3>1 DEF Pending, Nothing
    <3> QED BY <1>1, <2>1, <3>2
  <2> QED BY <1>3, <1>8, <1>11, <2>1 DEF Respond, news, queues, view
<1>12. ASSUME NEW i \in DOMAIN flows, Progress(i) PROVE StatusInv'
  <2> DEFINE said == [kind |-> Head(flows[i].says)]
  <2>1. said.kind # "handshake"
      BY LenProperties, ElementOfSeq, TaskType DEF Served
  <2> HIDE DEF said
  <2>2. /\ responses' = Append(responses, said) \/ responses' = responses
        /\ UNCHANGED <<conn, hold, connected, statusNews, statusQ, seen, crossed>>
      BY <1>12 DEF Progress, said, news, view
  <2>3. \A j \in DOMAIN responses' : responses'[j] \in Pending \cup {said}
      BY <1>0, <2>2 DEF Pending
  <2>4. \A r \in Pending' : r.kind = "handshake" => r \in Pending
      BY <2>1, <2>2, <2>3 DEF Pending
  <2> QED BY <1>1, <2>2, <2>4
<1>13. CASE SendResponse
  <2>1. /\ conn = "open" /\ responses # <<>> /\ responses' = Tail(responses)
        /\ UNCHANGED <<conn, hold, connected, statusNews, statusQ, crossed>>
      BY <1>13 DEF SendResponse, reader, news
  <2>2. Head(responses) \in Messages /\ Head(responses) \in Pending
      BY <1>0, <2>1 DEF Pending
  <2>3. \A r \in Pending' : r \in Pending
    <3>1. \A i \in DOMAIN responses' : responses'[i] \in Pending
      <4>1. /\ responses' \in Seq(Messages) /\ Len(responses') = Len(responses) - 1
            /\ \A i \in 1..Len(responses') : responses'[i] = responses[i + 1]
          BY <1>0, <2>1, HeadTailProperties
      <4>2. DOMAIN responses' = 1..(Len(responses) - 1)
          BY <4>1, LenProperties
      <4>3. ASSUME NEW i \in DOMAIN responses' PROVE responses'[i] \in Pending
        <5>1. i + 1 \in DOMAIN responses /\ responses'[i] = responses[i + 1]
            BY <1>0, <4>1, <4>2
        <5> QED BY <5>1 DEF Pending
      <4> QED BY <4>3
    <3> QED BY <2>1, <3>1 DEF Pending
  <2>4. CASE Head(responses).kind # "handshake"
    <3>1. seen' = seen
        BY <1>13, <2>4 DEF SendResponse
    <3> QED BY <1>1, <2>1, <2>3, <3>1
  <2>5. CASE Head(responses).kind = "handshake"
    <3>1. seen' = [seen EXCEPT !.link = IF Head(responses).connected THEN "up" ELSE "down"]
        BY <1>13, <2>5 DEF SendResponse
    <3>2. seen'.link = LinkIs(Head(responses).connected)
        BY <1>0, <3>1 DEF LinkIs
    <3> QED BY <1>0, <2>1, <2>2, <2>3, <2>5, <3>2 DEF StatusInv, StatusTypes, StatusOnItsWay
  <2> QED BY <2>4, <2>5
<1>14. CASE SendStatus
  <2>1. /\ conn = "open" /\ statusQ # <<>> /\ statusQ' = Tail(statusQ)
        /\ UNCHANGED <<conn, hold, responses, connected, statusNews>>
        /\ crossed' = (\E r \in Pending : r.kind = "handshake")
      BY <1>14 DEF SendStatus, Pending, reader, news
  <2>2. seen'.link = LinkIs(Head(statusQ))
      BY <1>0, <1>14 DEF SendStatus, LinkIs
  <2>3. /\ Tail(statusQ) \in Seq(BOOLEAN)
        /\ Tail(statusQ) # <<>> => Last(Tail(statusQ)) = Last(statusQ)
        /\ Tail(statusQ) = <<>> => Head(statusQ) = Last(statusQ)
      BY <1>0, <2>1, TailLast
  <2>4. crossed' \in BOOLEAN
      BY <2>1
  <2>5. crossed' = FALSE => \A r \in Pending' : r.kind # "handshake"
      BY <2>1 DEF Pending
  <2>6. statusNews = <<>> => Last(statusQ) = connected
      BY <1>0, <2>1 DEF StatusOnItsWay
  <2> QED BY <1>0, <2>1, <2>2, <2>3, <2>4, <2>5, <2>6 DEF StatusInv, StatusTypes, StatusOnItsWay
<1>15. CASE SendOrigin
  <2>1. /\ UNCHANGED <<conn, hold, responses, connected, statusNews, statusQ, crossed>>
        /\ seen'.link = seen.link
      BY <1>0, <1>15 DEF SendOrigin, reader, news
  <2>2. Pending' = Pending
      BY <2>1 DEF Pending
  <2> QED BY <1>1, <2>1, <2>2
<1>16. ASSUME NEW what \in Requests, Dispatch(what) PROVE StatusInv'
    BY <1>3, <1>16 DEF Dispatch, Take, news, queues, view
<1>17. ASSUME NEW what \in CommandType, RefuseCommand(what) \/ AcceptCommand(what)
       PROVE  StatusInv'
    BY <1>3, <1>17 DEF RefuseCommand, AcceptCommand, Refusal, news, queues, view
<1>18. CASE Recharge \/ HandleNsh \/ HandleHandshake \/ CheckPreflight \/ Forward
    BY <1>3, <1>18 DEF Recharge, HandleNsh, HandleHandshake, CheckPreflight, Forward, Refusal,
                       news, queues, view
<1>19. ASSUME NEW what \in Requests, Send(what) PROVE StatusInv'
    BY <1>3, <1>19 DEF Send, news, queues
<1>20. CASE HandleUnanswered \/ ForwardOrigin \/ RunCommand \/ Tick
             \/ \E origin \in Origins : StoreOrigin(origin)
    BY <1>3, <1>20 DEF HandleUnanswered, ForwardOrigin, RunCommand, Tick, StoreOrigin,
                       reader, news, queues, view
<1>21. CASE UNCHANGED gatewayVars
    BY <1>3, <1>21 DEF gatewayVars, reader, news, queues, view
<1> QED BY <1>4, <1>5, <1>6, <1>7, <1>9, <1>10, <1>11, <1>12, <1>13, <1>14, <1>15, <1>16,
           <1>17, <1>18, <1>19, <1>20, <1>21 DEF GatewayNext

\* What a browser was told last of the link holds, once all that is on its way has
\* come, but for the status that overtook an answer (server.rs:690-742,
\* handle_handshake).
THEOREM LinkIsHonest == GatewaySpec => []StatusUnlessCrossed
<1>1. GatewayInit => Served /\ OriginInv /\ StatusInv
    BY OriginInit, StatusInit
<1>2. Served /\ OriginInv /\ StatusInv /\ [GatewayNext]_gatewayVars
        => (Served /\ OriginInv /\ StatusInv)'
    BY ServedStep, OriginStep, StatusStep
<1>3. Served /\ OriginInv /\ StatusInv => StatusUnlessCrossed
    BY DEF StatusInv, StatusTypes, StatusOnItsWay, StatusUnlessCrossed, LinkIs
<1> QED BY <1>1, <1>2, <1>3, PTL DEF GatewaySpec

------------------------------------------------------------------------------
(* Outbound: what was taken for a link.                                    *)

Alive(g) == sender[g] \notin {"none", "gone"} /\ flag[g] = FALSE

InHand(g) == IF held[g] = NoFrame THEN 0 ELSE 1

Ledger(g) ==
    taken[g] = Len(bridgeQ[g]) + Len(portQ[g]) + Len(wire[g]) + drops[g] + InHand(g)

\* A link that was never opened has nothing yet.
Unopened(g) ==
    /\ flag[g] = FALSE /\ bridge[g] = "none" /\ sender[g] = "none" /\ writer[g] = "none"
    /\ bridgeQ[g] = <<>> /\ portQ[g] = <<>> /\ wire[g] = <<>>
    /\ drops[g] = 0 /\ taken[g] = 0

\* While the flag is down the writer is there, so that what is not in the ledger was
\* written to nobody.
LinkInv(g) ==
    /\ held[g] = NoFrame <=> bridge[g] # "hold"
    /\ g > links => Unopened(g)
    /\ writer[g] = "gone" /\ sender[g] # "gone" => flag[g] = TRUE
    /\ Alive(g) => Ledger(g)

LossInv == OutboundTypeOK /\ \A g \in Links : LinkInv(g)

\* A step on one link leaves the others as they are.
LEMMA OtherLink ==
    ASSUME NEW h \in Links, LinkInv(h), links' = links,
           /\ flag'[h] = flag[h] /\ bridge'[h] = bridge[h] /\ held'[h] = held[h]
           /\ bridgeQ'[h] = bridgeQ[h] /\ sender'[h] = sender[h] /\ portQ'[h] = portQ[h]
           /\ writer'[h] = writer[h] /\ drops'[h] = drops[h] /\ wire'[h] = wire[h]
           /\ taken'[h] = taken[h]
    PROVE  LinkInv(h)'
BY DEF LinkInv, Unopened, Alive, Ledger, InHand

\* A step on a link that is open keeps its invariant when what the daemon has in hand
\* changes with what it counts.
LEMMA LinkKept ==
    ASSUME NEW g \in Links, LinkInv(g), links' = links, ~(g > links),
           held'[g] = NoFrame <=> bridge'[g] # "hold",
           writer'[g] = "gone" /\ sender'[g] # "gone" => flag'[g] = TRUE,
           Alive(g)' => Alive(g), Alive(g)' /\ Ledger(g) => Ledger(g)'
    PROVE  LinkInv(g)'
<1>1. Alive(g)' => Ledger(g)'
    BY DEF LinkInv
<1>2. ~(g > links')
    OBVIOUS
<1> HIDE DEF Alive, Ledger, Unopened
<1> QED BY <1>1, <1>2 DEF LinkInv

\* No link was opened yet.
LEMMA LossInit == OutboundInit => LossInv
<1> SUFFICES ASSUME OutboundInit PROVE LossInv
    OBVIOUS
<1> USE OutboundAssumption
<1>1. OutboundTypeOK
  <2>1. /\ <<>> \in Seq(Frames) /\ <<>> \in Seq(Frames \cup {Qgc}) /\ Len(<<>>) = 0
        /\ 0 <= SimCap /\ 0 <= BridgeCap /\ 0 <= PortCap
      BY EmptySeq
  <2>2. /\ bridgeQ \in [Links -> Seq(Frames)] /\ portQ \in [Links -> Seq(Frames \cup {Qgc})]
        /\ wire \in [Links -> Seq(Frames \cup {Qgc})]
        /\ \A g \in Links : Len(bridgeQ[g]) <= BridgeCap /\ Len(portQ[g]) <= PortCap
      BY <2>1 DEF OutboundInit
  <2>3. simQ \in Seq(Frames) /\ Len(simQ) <= SimCap
      BY <2>1 DEF OutboundInit
  <2>4. made \in 0..MaxFrames /\ links \in 0..MaxLinks /\ qgc \in 0..MaxQgc
      BY DEF OutboundInit
  <2>5. /\ held \in [Links -> Frames \cup {NoFrame}]
        /\ drops \in [Links -> Nat] /\ taken \in [Links -> Nat]
      BY DEF OutboundInit
  <2>6. /\ manager \in {"scan", "up", "abort", "ended"}
        /\ stopping \in BOOLEAN /\ flag \in [Links -> BOOLEAN] /\ stop \in [Links -> BOOLEAN]
        /\ bridge \in [Links -> {"none", "recv", "hold", "gone"}]
        /\ sender \in [Links -> {"none", "wait", "drain", "ending", "gone"}]
        /\ writer \in [Links -> {"none", "recv", "gone"}]
      BY DEF OutboundInit
  <2> QED BY <2>2, <2>3, <2>4, <2>5, <2>6 DEF OutboundTypeOK
<1>2. ASSUME NEW g \in Links PROVE LinkInv(g)
    BY DEF OutboundInit, LinkInv, Unopened, Alive, Links
<1> QED BY <1>1, <1>2 DEF LossInv

\* The types of what one link has.
LEMMA LinkTypes ==
    ASSUME LossInv, NEW g \in Links
    PROVE  /\ LinkInv(g) /\ flag[g] \in BOOLEAN /\ held[g] \in Frames \cup {NoFrame}
           /\ bridgeQ[g] \in Seq(Frames) /\ Len(bridgeQ[g]) \in 0..BridgeCap
           /\ portQ[g] \in Seq(Frames \cup {Qgc}) /\ Len(portQ[g]) \in 0..PortCap
           /\ wire[g] \in Seq(Frames \cup {Qgc}) /\ Len(wire[g]) \in Nat
           /\ drops[g] \in Nat /\ taken[g] \in Nat
           /\ NoFrame \notin Frames
<1>1. /\ bridgeQ[g] \in Seq(Frames) /\ portQ[g] \in Seq(Frames \cup {Qgc})
      /\ wire[g] \in Seq(Frames \cup {Qgc})
    BY DEF LossInv, OutboundTypeOK
<1>2. Len(bridgeQ[g]) \in 0..BridgeCap /\ Len(portQ[g]) \in 0..PortCap /\ Len(wire[g]) \in Nat
    BY <1>1, LenProperties, OutboundAssumption DEF LossInv, OutboundTypeOK
<1>3. NoFrame \notin Frames
    BY OutboundAssumption DEF NoFrame, Frames
<1> QED BY <1>1, <1>2, <1>3 DEF LossInv, OutboundTypeOK

\* The numbers of the ledger.
LEMMA LinkNats ==
    ASSUME LossInv, NEW g \in Links
    PROVE  /\ Len(bridgeQ[g]) \in Nat /\ Len(portQ[g]) \in Nat /\ Len(wire[g]) \in Nat
           /\ drops[g] \in Nat /\ taken[g] \in Nat /\ InHand(g) \in Nat
<1>1. InHand(g) \in Nat
    BY DEF InHand
<1> QED BY <1>1, LinkTypes, OutboundAssumption

\* What the bridge takes is counted and in its hand, then in its queue, or lost with a
\* sender that is gone.
LEMMA BridgeStep ==
    ASSUME LossInv, NEW g \in Links, Bridge(g)
    PROVE  LossInv'
<1> USE OutboundAssumption
<1>0. /\ OutboundTypeOK /\ LinkInv(g) /\ held[g] \in Frames \cup {NoFrame}
      /\ bridgeQ[g] \in Seq(Frames) /\ Len(bridgeQ[g]) \in 0..BridgeCap
      /\ Len(portQ[g]) \in Nat /\ Len(wire[g]) \in Nat /\ drops[g] \in Nat /\ taken[g] \in Nat
      /\ NoFrame \notin Frames
    BY LinkTypes DEF LossInv
<1>1. CASE BridgeTakes(g)
  <2>1. /\ bridge[g] = "recv" /\ simQ # <<>> /\ simQ' = Tail(simQ)
        /\ bridge' = [bridge EXCEPT ![g] = "hold"] /\ held' = [held EXCEPT ![g] = Head(simQ)]
        /\ taken' = [taken EXCEPT ![g] = taken[g] + 1]
        /\ UNCHANGED <<made, links, manager, stopping, bridgeQ, stop, sender, drops, qgc, flag,
                       portQ, writer, wire>>
      BY <1>1 DEF BridgeTakes, life, senders, ports
  <2>2. Head(simQ) \in Frames /\ Tail(simQ) \in Seq(Frames) /\ Len(Tail(simQ)) = Len(simQ) - 1
      BY <1>0, <2>1, HeadTailProperties DEF OutboundTypeOK
  <2>3. OutboundTypeOK'
    <3>1. simQ' \in Seq(Frames) /\ Len(simQ') <= SimCap
        BY <1>0, <2>1, <2>2 DEF OutboundTypeOK
    <3>2. /\ bridge' \in [Links -> {"none", "recv", "hold", "gone"}]
          /\ held' \in [Links -> Frames \cup {NoFrame}] /\ taken' \in [Links -> Nat]
        BY <1>0, <2>1, <2>2 DEF OutboundTypeOK
    <3> QED BY <1>0, <2>1, <3>1, <3>2 DEF OutboundTypeOK
  <2>4. /\ held[g] = NoFrame /\ held'[g] = Head(simQ) /\ bridge'[g] = "hold"
        /\ taken'[g] = taken[g] + 1
      BY <1>0, <2>1 DEF LinkInv, OutboundTypeOK
  <2>5. LinkInv(g)'
    <3>1. ~(g > links)
        BY <1>0, <2>1 DEF LinkInv, Unopened
    <3>3. held'[g] # NoFrame
        BY <1>0, <2>2, <2>4
    <3>4. InHand(g) = 0 /\ InHand(g)' = 1
        BY <2>4, <3>3 DEF InHand
    <3>2. Alive(g)' => Ledger(g)'
      <4>1. Alive(g)' => Alive(g)
          BY <2>1 DEF Alive
      <4>2. /\ bridgeQ'[g] = bridgeQ[g] /\ portQ'[g] = portQ[g] /\ wire'[g] = wire[g]
            /\ drops'[g] = drops[g]
          BY <2>1
      <4> DEFINE b == Len(bridgeQ[g])
                 p == Len(portQ[g])
                 w == Len(wire[g])
      <4>3. b \in Nat /\ p \in Nat /\ w \in Nat /\ drops[g] \in Nat
          BY <1>0
      <4>4. Ledger(g) <=> taken[g] = b + p + w + drops[g] + 0
          BY <3>4 DEF Ledger
      <4>5. Ledger(g)' <=> taken[g] + 1 = b + p + w + drops[g] + 1
          BY <2>4, <3>4, <4>2 DEF Ledger
      <4> HIDE DEF b, p, w
      <4>6. Ledger(g) => Ledger(g)'
          BY <1>0, <4>3, <4>4, <4>5
      <4> QED BY <1>0, <4>1, <4>6 DEF LinkInv
    <3> QED BY <1>0, <2>1, <2>4, <3>1, <3>2, <3>3 DEF LinkInv
  <2>6. ASSUME NEW h \in Links, h # g PROVE LinkInv(h)'
      BY <1>0, <2>1, <2>6, OtherLink DEF OutboundTypeOK, LossInv
  <2> QED BY <2>3, <2>5, <2>6 DEF LossInv
<1>2. CASE BridgeTimesOut(g)
  <2>1. /\ bridge[g] = "recv" /\ bridge' = [bridge EXCEPT ![g] = "gone"]
        /\ UNCHANGED <<made, simQ, links, manager, stopping, held, bridgeQ, stop, sender, drops,
                       qgc, flag, portQ, writer, wire, taken>>
      BY <1>2 DEF BridgeTimesOut, life, senders, ports
  <2>2. OutboundTypeOK'
      BY <1>0, <2>1 DEF OutboundTypeOK
  <2>3. bridge'[g] = "gone"
      BY <1>0, <2>1 DEF OutboundTypeOK
  <2>6. ~(g > links)
      BY <1>0, <2>1 DEF LinkInv, Unopened
  <2>7. Alive(g)' => Alive(g)
      BY <2>1 DEF Alive
  <2>8. Ledger(g) => Ledger(g)'
      BY <2>1 DEF Ledger, InHand
  <2>4. LinkInv(g)'
      BY <1>0, <2>1, <2>3, <2>6, <2>7, <2>8, LinkKept DEF LinkInv
  <2>5. ASSUME NEW h \in Links, h # g PROVE LinkInv(h)'
      BY <1>0, <2>1, <2>5, OtherLink DEF OutboundTypeOK, LossInv
  <2> QED BY <2>2, <2>4, <2>5 DEF LossInv
<1>3. CASE BridgeHands(g)
  <2>1. /\ bridge[g] = "hold" /\ held' = [held EXCEPT ![g] = NoFrame]
        /\ UNCHANGED <<made, simQ, links, manager, stopping, stop, sender, drops, qgc, flag,
                       portQ, writer, wire, taken>>
      BY <1>3 DEF BridgeHands, life, senders, ports
  <2>2. \/ /\ sender[g] = "gone" /\ bridge' = [bridge EXCEPT ![g] = "gone"]
           /\ bridgeQ' = bridgeQ
        \/ /\ sender[g] # "gone" /\ Len(bridgeQ[g]) < BridgeCap
           /\ \/ bridge' = [bridge EXCEPT ![g] = "gone"]
              \/ bridge' = [bridge EXCEPT ![g] = "recv"]
           /\ bridgeQ' = [bridgeQ EXCEPT ![g] = Append(bridgeQ[g], held[g])]
      BY <1>3 DEF BridgeHands
  <2>3. /\ held[g] # NoFrame /\ held[g] \in Frames /\ held'[g] = NoFrame
        /\ bridge'[g] \in {"gone", "recv"}
      BY <1>0, <2>1, <2>2 DEF LinkInv, OutboundTypeOK
  <2>4. /\ Append(bridgeQ[g], held[g]) \in Seq(Frames)
        /\ Len(Append(bridgeQ[g], held[g])) = Len(bridgeQ[g]) + 1
      BY <1>0, <2>3, AppendProperties
  <2>5. OutboundTypeOK'
    <3>1. /\ bridge' \in [Links -> {"none", "recv", "hold", "gone"}]
          /\ held' \in [Links -> Frames \cup {NoFrame}] /\ bridgeQ' \in [Links -> Seq(Frames)]
      <4>1. bridgeQ' \in [Links -> Seq(Frames)]
          BY <1>0, <2>2, <2>4 DEF OutboundTypeOK
      <4>2. bridge' \in [Links -> {"none", "recv", "hold", "gone"}]
          BY <1>0, <2>2 DEF OutboundTypeOK
      <4> QED BY <1>0, <2>1, <4>1, <4>2 DEF OutboundTypeOK
    <3>2. ASSUME NEW h \in Links PROVE Len(bridgeQ'[h]) <= BridgeCap
      <4>1. CASE bridgeQ'[h] = bridgeQ[h]
          BY <1>0, <4>1 DEF OutboundTypeOK
      <4>2. CASE Len(bridgeQ[g]) < BridgeCap /\ bridgeQ'[h] = Append(bridgeQ[g], held[g])
        <5> DEFINE b == Len(bridgeQ[g])
        <5>1. b \in Nat /\ b < BridgeCap /\ Len(bridgeQ'[h]) = b + 1
            BY <1>0, <2>4, <4>2
        <5> HIDE DEF b
        <5> QED BY <5>1
      <4> QED BY <1>0, <2>2, <4>1, <4>2 DEF OutboundTypeOK
    <3> QED BY <1>0, <2>1, <3>1, <3>2 DEF OutboundTypeOK
  <2>6. LinkInv(g)'
    <3>1. CASE sender[g] = "gone"
        BY <1>0, <2>1, <2>3, <3>1 DEF LinkInv, Unopened, Alive
    <3>2. CASE sender[g] # "gone"
      <4>1. bridgeQ'[g] = Append(bridgeQ[g], held[g])
          BY <1>0, <2>2, <3>2 DEF OutboundTypeOK
      <4>2. Len(bridgeQ'[g]) = Len(bridgeQ[g]) + 1
          BY <2>4, <4>1
      <4>3. InHand(g) = 1 /\ InHand(g)' = 0
          BY <2>3 DEF InHand
      <4>4. Ledger(g) => Ledger(g)'
        <5> DEFINE b == Len(bridgeQ[g])
                   p == Len(portQ[g])
                   w == Len(wire[g])
        <5>1. b \in Nat /\ p \in Nat /\ w \in Nat /\ drops[g] \in Nat
            BY <1>0
        <5>2. Ledger(g) <=> taken[g] = b + p + w + drops[g] + 1
            BY <4>3 DEF Ledger
        <5>3. Ledger(g)' <=> taken[g] = (b + 1) + p + w + drops[g] + 0
            BY <2>1, <4>2, <4>3 DEF Ledger
        <5> HIDE DEF b, p, w
        <5> QED BY <1>0, <5>1, <5>2, <5>3
      <4>5. Alive(g)' => Ledger(g)'
          BY <1>0, <2>1, <4>4 DEF LinkInv, Alive
      <4>6. ~(g > links)
          BY <1>0, <2>1 DEF LinkInv, Unopened
      <4> QED BY <1>0, <2>1, <2>3, <4>5, <4>6 DEF LinkInv
    <3> QED BY <3>1, <3>2
  <2>7. ASSUME NEW h \in Links, h # g PROVE LinkInv(h)'
      BY <1>0, <2>1, <2>2, <2>7, OtherLink DEF OutboundTypeOK, LossInv
  <2> QED BY <2>5, <2>6, <2>7 DEF LossInv
<1> QED BY <1>1, <1>2, <1>3 DEF Bridge

\* What try_send does with x, and what the sender does after it or at the top of its
\* loop.
Sent(g, x) ==
    \/ writer[g] = "gone" /\ portQ' = portQ /\ drops' = drops
    \/ /\ writer[g] # "gone" /\ Len(portQ[g]) < PortCap
       /\ portQ' = [portQ EXCEPT ![g] = Append(portQ[g], x)] /\ drops' = drops
    \/ /\ writer[g] # "gone" /\ portQ' = portQ
       /\ drops' = [drops EXCEPT ![g] = drops[g] + 1]

Moves(g) ==
    /\ \E at \in {"wait", "drain", "ending"} : sender' = [sender EXCEPT ![g] = at]
    /\ stop' = stop \/ stop' = [stop EXCEPT ![g] = TRUE]

\* A message that is sent while the writer is there is in the queue of the port, or
\* among the drops.
LEMMA SentCounts ==
    ASSUME LossInv, NEW g \in Links, NEW x \in Frames \cup {Qgc}, Sent(g, x)
    PROVE  /\ portQ' \in [Links -> Seq(Frames \cup {Qgc})] /\ drops' \in [Links -> Nat]
           /\ \A h \in Links : Len(portQ'[h]) <= PortCap
           /\ \A h \in Links : h # g => portQ'[h] = portQ[h] /\ drops'[h] = drops[h]
           /\ writer[g] # "gone" =>
                Len(portQ'[g]) + drops'[g] = Len(portQ[g]) + drops[g] + 1
<1> USE OutboundAssumption
<1>1. /\ portQ \in [Links -> Seq(Frames \cup {Qgc})] /\ drops \in [Links -> Nat]
      /\ \A h \in Links : Len(portQ[h]) <= PortCap
    BY DEF LossInv, OutboundTypeOK
<1>5. portQ[g] \in Seq(Frames \cup {Qgc}) /\ Len(portQ[g]) \in Nat /\ drops[g] \in Nat
    BY LinkTypes, LinkNats
<1>2. CASE writer[g] = "gone" /\ portQ' = portQ /\ drops' = drops
    BY <1>1, <1>5, <1>2
<1>3. CASE /\ writer[g] # "gone" /\ Len(portQ[g]) < PortCap
           /\ portQ' = [portQ EXCEPT ![g] = Append(portQ[g], x)] /\ drops' = drops
  <2> DEFINE k == Len(portQ[g])
  <2>1. /\ Append(portQ[g], x) \in Seq(Frames \cup {Qgc})
        /\ Len(Append(portQ[g], x)) = k + 1
      BY <1>1, <1>5, AppendProperties
  <2>2. portQ' \in [Links -> Seq(Frames \cup {Qgc})]
      BY <1>1, <1>3, <2>1
  <2>3. portQ'[g] = Append(portQ[g], x) /\ \A h \in Links : h # g => portQ'[h] = portQ[h]
      BY <1>1, <1>3
  <2>4. Len(portQ'[g]) = k + 1 /\ k \in Nat /\ k < PortCap
      BY <1>1, <1>5, <1>3, <2>1, <2>3
  <2> HIDE DEF k
  <2>5. ASSUME NEW h \in Links PROVE Len(portQ'[h]) <= PortCap
    <3>1. CASE h = g
        BY <2>4, <3>1
    <3>2. CASE h # g
        BY <1>1, <2>3, <3>2
    <3> QED BY <3>1, <3>2
  <2>6. Len(portQ'[g]) + drops'[g] = k + drops[g] + 1
      BY <1>1, <1>5, <1>3, <2>4
  <2> QED BY <1>1, <1>3, <2>2, <2>3, <2>5, <2>6 DEF k
<1>4. CASE /\ writer[g] # "gone" /\ portQ' = portQ
           /\ drops' = [drops EXCEPT ![g] = drops[g] + 1]
  <2>1. drops'[g] = drops[g] + 1 /\ \A h \in Links : h # g => drops'[h] = drops[h]
      BY <1>1, <1>5, <1>4
  <2>2. drops' \in [Links -> Nat]
      BY <1>1, <1>5, <1>4
  <2> DEFINE k == Len(portQ[g])
             d == drops[g]
  <2>3. k \in Nat /\ d \in Nat /\ Len(portQ'[g]) = k /\ drops'[g] = d + 1
      BY <1>4, <1>5, <2>1
  <2> HIDE DEF k, d
  <2>4. Len(portQ'[g]) + drops'[g] = k + d + 1
      BY <2>3
  <2> QED BY <1>1, <1>4, <2>1, <2>2, <2>4 DEF k, d
<1> QED BY <1>2, <1>3, <1>4 DEF Sent

\* Where the sender goes on keeps its types, and leaves the others where they are.
LEMMA MovesTypes ==
    ASSUME LossInv, NEW g \in Links, Moves(g)
    PROVE  /\ sender' \in [Links -> {"none", "wait", "drain", "ending", "gone"}]
           /\ stop' \in [Links -> BOOLEAN]
           /\ sender'[g] \in {"wait", "drain", "ending"}
           /\ \A h \in Links : h # g => sender'[h] = sender[h]
<1>1. /\ sender \in [Links -> {"none", "wait", "drain", "ending", "gone"}]
      /\ stop \in [Links -> BOOLEAN]
    BY DEF LossInv, OutboundTypeOK
<1>2. stop' \in [Links -> BOOLEAN]
    BY <1>1 DEF Moves
<1>3. PICK at \in {"wait", "drain", "ending"} : sender' = [sender EXCEPT ![g] = at]
    BY DEF Moves
<1> QED BY <1>1, <1>2, <1>3

\* A frame goes from the queue of the link to the port.
LEMMA ForwardStep ==
    ASSUME LossInv, NEW g \in Links, sender[g] \in {"wait", "drain"}, bridgeQ[g] # <<>>,
           bridgeQ' = [bridgeQ EXCEPT ![g] = Tail(bridgeQ[g])],
           Sent(g, Head(bridgeQ[g])), Moves(g),
           UNCHANGED <<made, simQ, links, manager, stopping, bridge, held, qgc, flag, writer,
                       wire, taken>>
    PROVE  LossInv'
<1> USE OutboundAssumption
<1>0. /\ OutboundTypeOK /\ LinkInv(g)
      /\ bridgeQ[g] \in Seq(Frames) /\ Len(bridgeQ[g]) \in 0..BridgeCap
    BY LinkTypes DEF LossInv
<1>9. /\ Len(portQ[g]) \in Nat /\ Len(wire[g]) \in Nat /\ drops[g] \in Nat /\ taken[g] \in Nat
      /\ InHand(g) \in Nat
    BY LinkNats
<1>1. /\ Head(bridgeQ[g]) \in Frames /\ Tail(bridgeQ[g]) \in Seq(Frames)
      /\ Len(Tail(bridgeQ[g])) = Len(bridgeQ[g]) - 1
    BY <1>0, HeadTailProperties
<1>2. /\ portQ' \in [Links -> Seq(Frames \cup {Qgc})] /\ drops' \in [Links -> Nat]
      /\ \A h \in Links : Len(portQ'[h]) <= PortCap
      /\ \A h \in Links : h # g => portQ'[h] = portQ[h] /\ drops'[h] = drops[h]
      /\ writer[g] # "gone" => Len(portQ'[g]) + drops'[g] = Len(portQ[g]) + drops[g] + 1
    BY <1>1, SentCounts
<1>3. /\ sender' \in [Links -> {"none", "wait", "drain", "ending", "gone"}]
      /\ stop' \in [Links -> BOOLEAN] /\ sender'[g] \in {"wait", "drain", "ending"}
      /\ \A h \in Links : h # g => sender'[h] = sender[h]
    BY MovesTypes
<1>4. /\ bridgeQ' \in [Links -> Seq(Frames)] /\ bridgeQ'[g] = Tail(bridgeQ[g])
      /\ \A h \in Links : h # g => bridgeQ'[h] = bridgeQ[h]
    BY <1>0, <1>1 DEF OutboundTypeOK
<1>5. \A h \in Links : Len(bridgeQ'[h]) <= BridgeCap
  <2> SUFFICES ASSUME NEW h \in Links PROVE Len(bridgeQ'[h]) <= BridgeCap
      OBVIOUS
  <2>1. CASE h = g
    <3> DEFINE b == Len(bridgeQ[g])
    <3>1. b \in 0..BridgeCap /\ Len(bridgeQ'[h]) = b - 1
        BY <1>0, <1>1, <1>4, <2>1
    <3> HIDE DEF b
    <3> QED BY <3>1
  <2>2. CASE h # g
      BY <1>0, <1>4, <2>2 DEF OutboundTypeOK
  <2> QED BY <2>1, <2>2
<1>6. OutboundTypeOK'
    BY <1>0, <1>2, <1>3, <1>4, <1>5 DEF OutboundTypeOK
<1>7. LinkInv(g)'
  <2>1. ~(g > links)
      BY <1>0 DEF LinkInv, Unopened
  <2>2. Alive(g)' => Alive(g) /\ writer[g] # "gone"
      BY <1>0 DEF LinkInv, Alive
  <2>3. Alive(g)' /\ Ledger(g) => Ledger(g)'
    <3> SUFFICES ASSUME Alive(g)', Ledger(g) PROVE Ledger(g)'
        OBVIOUS
    <3> DEFINE b == Len(bridgeQ[g])
               p == Len(portQ[g])
               q == Len(portQ'[g])
               w == Len(wire[g])
               d == drops[g]
               e == drops'[g]
               t == taken[g]
               i == InHand(g)
    <3>1. /\ b \in Nat /\ p \in Nat /\ w \in Nat /\ d \in Nat /\ i \in Nat /\ t \in Nat
          /\ q \in Nat /\ e \in Nat
      <4>1. portQ'[g] \in Seq(Frames \cup {Qgc}) /\ drops'[g] \in Nat
          BY <1>2
      <4>2. Len(portQ'[g]) \in Nat
          BY <4>1, LenProperties
      <4> QED BY <1>0, <1>9, <4>1, <4>2
    <3>2. q + e = p + d + 1
        BY <1>2, <2>2
    <3>3. t = b + p + w + d + i
        BY DEF Ledger
    <3>4. InHand(g)' = InHand(g)
        BY DEF InHand
    <3>5. Ledger(g)' <=> t = (b - 1) + q + w + e + i
        BY <1>1, <1>4, <3>4 DEF Ledger
    <3> HIDE DEF b, p, q, w, d, e, t, i
    <3> QED BY <3>1, <3>2, <3>3, <3>5
  <2>4. writer'[g] = "gone" /\ sender'[g] # "gone" => flag'[g] = TRUE
      BY <1>0 DEF LinkInv
  <2> QED BY <1>0, <2>1, <2>2, <2>3, <2>4, LinkKept DEF LinkInv
<1>8. ASSUME NEW h \in Links, h # g PROVE LinkInv(h)'
  <2>1. LinkInv(h)
      BY DEF LossInv
  <2> QED BY <1>2, <1>3, <1>4, <1>8, <2>1, OtherLink
<1> QED BY <1>6, <1>7, <1>8 DEF LossInv

\* A message of QGC goes to the port; or there is none, and the sender goes on.
LEMMA QgcStep ==
    ASSUME LossInv, NEW g \in Links, sender[g] \in {"wait", "drain"}, Moves(g),
           qgc' \in 0..MaxQgc,
           \/ Sent(g, Qgc) /\ taken' = [taken EXCEPT ![g] = taken[g] + 1]
           \/ UNCHANGED <<portQ, drops, taken>>,
           UNCHANGED <<made, simQ, links, manager, stopping, bridge, held, bridgeQ, flag,
                       writer, wire>>
    PROVE  LossInv'
<1> USE OutboundAssumption
<1>0. OutboundTypeOK /\ LinkInv(g) /\ taken \in [Links -> Nat]
    BY DEF LossInv, OutboundTypeOK
<1>1. /\ Len(bridgeQ[g]) \in Nat /\ Len(portQ[g]) \in Nat /\ Len(wire[g]) \in Nat
      /\ drops[g] \in Nat /\ taken[g] \in Nat /\ InHand(g) \in Nat
    BY LinkNats
<1>2. /\ sender' \in [Links -> {"none", "wait", "drain", "ending", "gone"}]
      /\ stop' \in [Links -> BOOLEAN] /\ sender'[g] \in {"wait", "drain", "ending"}
      /\ \A h \in Links : h # g => sender'[h] = sender[h]
    BY MovesTypes
<1>3. ~(g > links)
    BY <1>0 DEF LinkInv, Unopened
<1>4. Alive(g)' => Alive(g) /\ writer[g] # "gone"
    BY <1>0 DEF LinkInv, Alive
<1>5. writer'[g] = "gone" /\ sender'[g] # "gone" => flag'[g] = TRUE
    BY <1>0 DEF LinkInv
<1>6. CASE Sent(g, Qgc) /\ taken' = [taken EXCEPT ![g] = taken[g] + 1]
  <2>1. /\ portQ' \in [Links -> Seq(Frames \cup {Qgc})] /\ drops' \in [Links -> Nat]
        /\ \A h \in Links : Len(portQ'[h]) <= PortCap
        /\ \A h \in Links : h # g => portQ'[h] = portQ[h] /\ drops'[h] = drops[h]
        /\ writer[g] # "gone" => Len(portQ'[g]) + drops'[g] = Len(portQ[g]) + drops[g] + 1
      BY <1>6, SentCounts
  <2>2. /\ taken' \in [Links -> Nat] /\ taken'[g] = taken[g] + 1
        /\ \A h \in Links : h # g => taken'[h] = taken[h]
      BY <1>0, <1>6
  <2>3. OutboundTypeOK'
      BY <1>0, <1>2, <2>1, <2>2 DEF OutboundTypeOK
  <2>4. Alive(g)' /\ Ledger(g) => Ledger(g)'
    <3> SUFFICES ASSUME Alive(g)', Ledger(g) PROVE Ledger(g)'
        OBVIOUS
    <3> DEFINE b == Len(bridgeQ[g])
               p == Len(portQ[g])
               q == Len(portQ'[g])
               w == Len(wire[g])
               d == drops[g]
               e == drops'[g]
               t == taken[g]
               i == InHand(g)
    <3>1. /\ b \in Nat /\ p \in Nat /\ w \in Nat /\ d \in Nat /\ i \in Nat /\ t \in Nat
          /\ q \in Nat /\ e \in Nat
      <4>1. portQ'[g] \in Seq(Frames \cup {Qgc}) /\ drops'[g] \in Nat
          BY <2>1
      <4>2. Len(portQ'[g]) \in Nat
          BY <4>1, LenProperties
      <4> QED BY <1>1, <4>1, <4>2
    <3>2. q + e = p + d + 1
        BY <1>4, <2>1
    <3>3. t = b + p + w + d + i
        BY DEF Ledger
    <3>4. InHand(g)' = InHand(g)
        BY DEF InHand
    <3>5. Ledger(g)' <=> t + 1 = b + q + w + e + i
        BY <2>2, <3>4 DEF Ledger
    <3> HIDE DEF b, p, q, w, d, e, t, i
    <3> QED BY <3>1, <3>2, <3>3, <3>5
  <2>5. LinkInv(g)'
      BY <1>0, <1>3, <1>4, <1>5, <2>4, LinkKept DEF LinkInv
  <2>6. ASSUME NEW h \in Links, h # g PROVE LinkInv(h)'
    <3>1. LinkInv(h)
        BY DEF LossInv
    <3> QED BY <1>2, <2>1, <2>2, <2>6, <3>1, OtherLink
  <2> QED BY <2>3, <2>5, <2>6 DEF LossInv
<1>7. CASE UNCHANGED <<portQ, drops, taken>>
  <2>1. OutboundTypeOK'
      BY <1>0, <1>2, <1>7 DEF OutboundTypeOK
  <2>2. Ledger(g) => Ledger(g)'
      BY <1>7 DEF Ledger, InHand
  <2>3. LinkInv(g)'
      BY <1>0, <1>3, <1>4, <1>5, <2>2, LinkKept DEF LinkInv
  <2>4. ASSUME NEW h \in Links, h # g PROVE LinkInv(h)'
    <3>1. LinkInv(h)
        BY DEF LossInv
    <3> QED BY <1>2, <1>7, <2>4, <3>1, OtherLink
  <2> QED BY <2>1, <2>3, <2>4 DEF LossInv
<1> QED BY <1>6, <1>7

\* The end of the sender takes its queue and its counts with it.
LEMMA EndsStep ==
    ASSUME LossInv, NEW g \in Links, sender[g] # "none", SenderEnds(g)
    PROVE  LossInv'
<1> USE OutboundAssumption
<1>0. OutboundTypeOK /\ LinkInv(g)
    BY DEF LossInv
<1>1. /\ sender' = [sender EXCEPT ![g] = "gone"] /\ bridgeQ' = [bridgeQ EXCEPT ![g] = <<>>]
      /\ drops' = [drops EXCEPT ![g] = 0] /\ taken' = [taken EXCEPT ![g] = 0]
      /\ UNCHANGED <<made, simQ, links, manager, stopping, bridge, held, stop, qgc, flag, portQ,
                     writer, wire>>
    BY DEF SenderEnds, life, bridges, ports
<1>2. /\ bridgeQ' \in [Links -> Seq(Frames)]
      /\ \A h \in Links : Len(bridgeQ'[h]) <= BridgeCap
    BY <1>0, <1>1, EmptySeq DEF OutboundTypeOK
<1>3. /\ sender' \in [Links -> {"none", "wait", "drain", "ending", "gone"}]
      /\ drops' \in [Links -> Nat] /\ taken' \in [Links -> Nat] /\ sender'[g] = "gone"
    BY <1>0, <1>1 DEF OutboundTypeOK
<1>4. OutboundTypeOK'
    BY <1>0, <1>1, <1>2, <1>3 DEF OutboundTypeOK
<1>5. ~(g > links)
    BY <1>0 DEF LinkInv, Unopened
<1>6. ~Alive(g)'
    BY <1>3 DEF Alive
<1>7. LinkInv(g)'
    BY <1>0, <1>1, <1>3, <1>5, <1>6, LinkKept DEF LinkInv
<1>8. ASSUME NEW h \in Links, h # g PROVE LinkInv(h)'
  <2>1. LinkInv(h)
      BY DEF LossInv
  <2> QED BY <1>0, <1>1, <1>8, <2>1, OtherLink DEF OutboundTypeOK
<1> QED BY <1>4, <1>7, <1>8 DEF LossInv

\* Every step of the sender is one of these.
LEMMA SenderStep ==
    ASSUME LossInv, NEW g \in Links,
           Sender(g) \/ SenderHearsQgc(g) \/ SenderAborted(g)
    PROVE  LossInv'
<1>0. OutboundTypeOK
    BY DEF LossInv
<1>1. CASE SenderForwards(g)
  <2>1. Sent(g, Head(bridgeQ[g])) /\ Moves(g)
      BY <1>1 DEF SenderForwards, TrySend, Dropped, Continues, Leaves, Sent, Moves
  <2> QED BY <1>1, <2>1, ForwardStep DEF SenderForwards, life, bridges
<1>2. CASE SenderDrains(g) /\ bridgeQ[g] # <<>>
  <2>1. Sent(g, Head(bridgeQ[g])) /\ Moves(g)
      BY <1>2 DEF SenderDrains, TrySend, Dropped, Continues, Top, Leaves, Sent, Moves
  <2> QED BY <1>2, <2>1, ForwardStep DEF SenderDrains, life, bridges
<1>3. CASE SenderDrains(g) /\ bridgeQ[g] = <<>>
  <2>1. Moves(g)
      BY <1>3 DEF SenderDrains, Continues, Top, Leaves, Moves
  <2> QED BY <1>0, <1>3, <2>1, QgcStep DEF SenderDrains, OutboundTypeOK, life, bridges
<1>4. CASE SenderHearsQgc(g)
  <2>1. Moves(g)
      BY <1>4 DEF SenderHearsQgc, TrySend, Continues, Top, Leaves, Moves
  <2>2. qgc' \in 0..MaxQgc
      BY <1>0, <1>4, OutboundAssumption DEF SenderHearsQgc, OutboundTypeOK
  <2>3. \/ Sent(g, Qgc) /\ taken' = [taken EXCEPT ![g] = taken[g] + 1]
        \/ UNCHANGED <<portQ, drops, taken>>
      BY <1>4 DEF SenderHearsQgc, TrySend, Dropped, Sent
  <2> QED BY <1>4, <2>1, <2>2, <2>3, QgcStep DEF SenderHearsQgc, life, bridges
<1>5. CASE SenderDone(g) \/ SenderAborted(g)
  <2>1. SenderEnds(g) /\ sender[g] # "none"
      BY <1>5 DEF SenderDone, SenderAborted, Aborts
  <2> QED BY <2>1, EndsStep
<1> QED BY <1>1, <1>2, <1>3, <1>4, <1>5 DEF Sender

\* What the writer takes from its queue it writes, or the flag is up.
LEMMA WriterStep ==
    ASSUME LossInv, NEW g \in Links, Writer(g) \/ WriterFails(g) \/ PortFails(g)
    PROVE  LossInv'
<1> USE OutboundAssumption
<1>0. /\ OutboundTypeOK /\ LinkInv(g) /\ portQ[g] \in Seq(Frames \cup {Qgc})
      /\ wire[g] \in Seq(Frames \cup {Qgc})
    BY LinkTypes DEF LossInv
<1>1. /\ Len(bridgeQ[g]) \in Nat /\ Len(portQ[g]) \in Nat /\ Len(wire[g]) \in Nat
      /\ drops[g] \in Nat /\ taken[g] \in Nat /\ InHand(g) \in Nat
    BY LinkNats
<1>2. ASSUME writer[g] # "none", WriterGone(g),
             \/ wire' = wire
             \/ portQ[g] # <<>> /\ wire' = [wire EXCEPT ![g] = Append(wire[g], Head(portQ[g]))],
             UNCHANGED <<made, simQ, links, manager, stopping, bridge, held, bridgeQ, stop,
                         sender, drops, qgc, taken>>
      PROVE  LossInv'
  <2>1. /\ writer' \in [Links -> {"none", "recv", "gone"}]
        /\ portQ' \in [Links -> Seq(Frames \cup {Qgc})] /\ flag' \in [Links -> BOOLEAN]
        /\ flag'[g] = TRUE
      BY <1>0, <1>2, EmptySeq DEF OutboundTypeOK, WriterGone
  <2>2. \A h \in Links : h # g =>
            writer'[h] = writer[h] /\ portQ'[h] = portQ[h] /\ flag'[h] = flag[h]
      BY <1>0, <1>2 DEF OutboundTypeOK, WriterGone
  <2>3. portQ'[g] = <<>>
      BY <1>0, <1>2 DEF OutboundTypeOK, WriterGone
  <2>4. \A h \in Links : Len(portQ'[h]) <= PortCap
    <3>1. Len(portQ'[g]) = 0 /\ 0 <= PortCap
        BY <2>3, EmptySeq
    <3>2. \A h \in Links : Len(portQ[h]) <= PortCap
        BY <1>0 DEF OutboundTypeOK
    <3> QED BY <2>2, <3>1, <3>2
  <2>5. /\ wire' \in [Links -> Seq(Frames \cup {Qgc})]
        /\ \A h \in Links : h # g => wire'[h] = wire[h]
    <3>1. CASE wire' = wire
        BY <1>0, <3>1 DEF OutboundTypeOK
    <3>2. CASE portQ[g] # <<>> /\ wire' = [wire EXCEPT ![g] = Append(wire[g], Head(portQ[g]))]
      <4>1. Append(wire[g], Head(portQ[g])) \in Seq(Frames \cup {Qgc})
          BY <1>0, <3>2, HeadTailProperties, AppendProperties
      <4> QED BY <1>0, <3>2, <4>1 DEF OutboundTypeOK
    <3> QED BY <1>2, <3>1, <3>2
  <2>6. OutboundTypeOK'
      BY <1>0, <1>2, <2>1, <2>4, <2>5 DEF OutboundTypeOK
  <2>7. ~(g > links)
      BY <1>0, <1>2 DEF LinkInv, Unopened
  <2>8. ~Alive(g)'
      BY <2>1 DEF Alive
  <2>9. LinkInv(g)'
      BY <1>0, <1>2, <2>1, <2>7, <2>8, LinkKept DEF LinkInv
  <2>10. ASSUME NEW h \in Links, h # g PROVE LinkInv(h)'
    <3>1. LinkInv(h)
        BY DEF LossInv
    <3> QED BY <1>2, <2>2, <2>5, <2>10, <3>1, OtherLink
  <2> QED BY <2>6, <2>9, <2>10 DEF LossInv
<1>3. CASE WriterIdles(g)
    BY <1>2, <1>3 DEF WriterIdles, life, bridges, senders
<1>4. CASE /\ WriterWrites(g)
           /\ \/ WriterGone(g) /\ UNCHANGED wire
              \/ flag[g] /\ wire' = [wire EXCEPT ![g] = Append(wire[g], Head(portQ[g]))]
                         /\ WriterGone(g)
    BY <1>2, <1>4 DEF WriterWrites, life, bridges, senders
<1>5. CASE /\ WriterWrites(g)
           /\ wire' = [wire EXCEPT ![g] = Append(wire[g], Head(portQ[g]))]
           /\ portQ' = [portQ EXCEPT ![g] = Tail(portQ[g])]
           /\ UNCHANGED <<flag, writer>>
  <2>1. /\ portQ[g] # <<>> /\ writer[g] = "recv"
        /\ UNCHANGED <<made, simQ, links, manager, stopping, bridge, held, bridgeQ, stop,
                       sender, drops, qgc, taken>>
      BY <1>5 DEF WriterWrites, life, bridges, senders
  <2>2. /\ Head(portQ[g]) \in Frames \cup {Qgc} /\ Tail(portQ[g]) \in Seq(Frames \cup {Qgc})
        /\ Len(Tail(portQ[g])) = Len(portQ[g]) - 1
      BY <1>0, <2>1, HeadTailProperties
  <2>3. /\ Append(wire[g], Head(portQ[g])) \in Seq(Frames \cup {Qgc})
        /\ Len(Append(wire[g], Head(portQ[g]))) = Len(wire[g]) + 1
      BY <1>0, <2>2, AppendProperties
  <2>4. /\ portQ' \in [Links -> Seq(Frames \cup {Qgc})] /\ portQ'[g] = Tail(portQ[g])
        /\ \A h \in Links : h # g => portQ'[h] = portQ[h]
      BY <1>0, <1>5, <2>2 DEF OutboundTypeOK
  <2>5. /\ wire' \in [Links -> Seq(Frames \cup {Qgc})]
        /\ wire'[g] = Append(wire[g], Head(portQ[g]))
        /\ \A h \in Links : h # g => wire'[h] = wire[h]
      BY <1>0, <1>5, <2>3 DEF OutboundTypeOK
  <2>6. \A h \in Links : Len(portQ'[h]) <= PortCap
    <3> SUFFICES ASSUME NEW h \in Links PROVE Len(portQ'[h]) <= PortCap
        OBVIOUS
    <3>1. CASE h = g
      <4> DEFINE p == Len(portQ[g])
      <4>1. p \in Nat /\ p <= PortCap /\ Len(portQ'[h]) = p - 1
          BY <1>0, <1>1, <2>2, <2>4, <3>1 DEF OutboundTypeOK
      <4> HIDE DEF p
      <4> QED BY <4>1
    <3>2. CASE h # g
        BY <1>0, <2>4, <3>2 DEF OutboundTypeOK
    <3> QED BY <3>1, <3>2
  <2>7. OutboundTypeOK'
      BY <1>0, <1>5, <2>1, <2>4, <2>5, <2>6 DEF OutboundTypeOK
  <2>8. Ledger(g) => Ledger(g)'
    <3> DEFINE b == Len(bridgeQ[g])
               p == Len(portQ[g])
               w == Len(wire[g])
               d == drops[g]
               t == taken[g]
               i == InHand(g)
    <3>1. b \in Nat /\ p \in Nat /\ w \in Nat /\ d \in Nat /\ t \in Nat /\ i \in Nat
        BY <1>1
    <3>2. Ledger(g) <=> t = b + p + w + d + i
        BY DEF Ledger
    <3>3. InHand(g)' = InHand(g)
        BY <2>1 DEF InHand
    <3>4. Ledger(g)' <=> t = b + (p - 1) + (w + 1) + d + i
        BY <2>1, <2>2, <2>3, <2>4, <2>5, <3>3 DEF Ledger
    <3> HIDE DEF b, p, w, d, t, i
    <3> QED BY <3>1, <3>2, <3>4
  <2>9. ~(g > links)
      BY <1>0, <2>1 DEF LinkInv, Unopened
  <2>10. Alive(g)' => Alive(g)
      BY <1>5, <2>1 DEF Alive
  <2>11. LinkInv(g)'
      BY <1>0, <1>5, <2>1, <2>8, <2>9, <2>10, LinkKept DEF LinkInv
  <2>12. ASSUME NEW h \in Links, h # g PROVE LinkInv(h)'
    <3>1. LinkInv(h)
        BY DEF LossInv
    <3> QED BY <1>5, <2>1, <2>4, <2>5, <2>12, <3>1, OtherLink
  <2> QED BY <2>7, <2>11, <2>12 DEF LossInv
<1>6. CASE PortFails(g)
  <2>1. /\ g = links /\ flag' = [flag EXCEPT ![g] = TRUE]
        /\ UNCHANGED <<made, simQ, links, manager, stopping, bridge, held, bridgeQ, stop,
                       sender, portQ, writer, drops, qgc, wire, taken>>
      BY <1>6 DEF PortFails, life, bridges, senders
  <2>2. /\ flag' \in [Links -> BOOLEAN] /\ flag'[g] = TRUE
        /\ \A h \in Links : h # g => flag'[h] = flag[h]
      BY <1>0, <2>1 DEF OutboundTypeOK
  <2>3. OutboundTypeOK'
      BY <1>0, <2>1, <2>2 DEF OutboundTypeOK
  <2>4. ~(g > links) /\ ~Alive(g)'
      BY <1>0, <2>1, <2>2 DEF Alive, OutboundTypeOK
  <2>5. LinkInv(g)'
      BY <1>0, <2>1, <2>2, <2>4, LinkKept DEF LinkInv
  <2>6. ASSUME NEW h \in Links, h # g PROVE LinkInv(h)'
    <3>1. LinkInv(h)
        BY DEF LossInv
    <3> QED BY <2>1, <2>2, <2>6, <3>1, OtherLink
  <2> QED BY <2>3, <2>5, <2>6 DEF LossInv
<1>7. WriterWrites(g) =>
        \/ WriterGone(g) /\ UNCHANGED wire
        \/ flag[g] /\ wire' = [wire EXCEPT ![g] = Append(wire[g], Head(portQ[g]))]
                   /\ WriterGone(g)
        \/ /\ wire' = [wire EXCEPT ![g] = Append(wire[g], Head(portQ[g]))]
           /\ portQ' = [portQ EXCEPT ![g] = Tail(portQ[g])]
           /\ UNCHANGED <<flag, writer>>
    BY DEF WriterWrites
<1> QED BY <1>3, <1>4, <1>5, <1>6, <1>7 DEF Writer, WriterFails

\* A manager that only notices, or a daemon that is told to stop, leaves the links
\* as they are; a frame that is made goes to what they share.
LEMMA SharedStep ==
    ASSUME LossInv, MakeFrame \/ Manager \/ Stop
    PROVE  LossInv'
<1> USE OutboundAssumption
<1>0. OutboundTypeOK
    BY DEF LossInv
<1>1. UNCHANGED <<links, flag, bridge, held, stop, bridgeQ, sender, portQ, writer, drops, qgc, wire,
                  taken>>
    BY DEF MakeFrame, Manager, ManagerNotices, ManagerJoins, Stop, Untouched, life, bridges,
           senders, ports
<1>2. made' \in 0..MaxFrames /\ simQ' \in Seq(Frames) /\ Len(simQ') <= SimCap
  <2>1. CASE MakeFrame
    <3>1. /\ made < MaxFrames /\ made' = made + 1 /\ made \in Nat
          /\ \/ simQ' = simQ
             \/ Len(simQ) < SimCap /\ simQ' = Append(simQ, made')
        BY <1>0, <2>1 DEF MakeFrame, OutboundTypeOK
    <3>2. made' \in Frames /\ made' \in 0..MaxFrames
        BY <3>1 DEF Frames
    <3>3. CASE simQ' = simQ
        BY <1>0, <3>2, <3>3 DEF OutboundTypeOK
    <3>4. CASE Len(simQ) < SimCap /\ simQ' = Append(simQ, made')
      <4> DEFINE k == Len(simQ)
      <4>1. simQ' \in Seq(Frames) /\ Len(simQ') = k + 1 /\ k \in Nat /\ k < SimCap
          BY <1>0, <3>2, <3>4, AppendProperties, LenProperties DEF OutboundTypeOK
      <4> HIDE DEF k
      <4> QED BY <3>2, <4>1
    <3> QED BY <3>1, <3>3, <3>4
  <2>2. CASE Manager \/ Stop
      BY <1>0, <2>2
         DEF OutboundTypeOK, Manager, ManagerNotices, ManagerJoins, Stop, Untouched
  <2> QED BY <2>1, <2>2
<1>3. manager' \in {"scan", "up", "abort", "ended"} /\ stopping' \in BOOLEAN
    BY <1>0 DEF OutboundTypeOK, MakeFrame, Manager, ManagerNotices, ManagerJoins, Stop, life
<1>4. OutboundTypeOK'
    BY <1>0, <1>1, <1>2, <1>3 DEF OutboundTypeOK
<1>5. ASSUME NEW h \in Links PROVE LinkInv(h)'
  <2>1. LinkInv(h)
      BY DEF LossInv
  <2> QED BY <1>1, <2>1, OtherLink
<1> QED BY <1>4, <1>5 DEF LossInv

\* A link that is opened has nothing yet; at the end no link has a sender.
LEMMA ManagerStep ==
    ASSUME LossInv, ManagerOpens \/ MainReturns
    PROVE  LossInv'
<1> USE OutboundAssumption
<1>0. OutboundTypeOK
    BY DEF LossInv
<1>1. CASE ManagerOpens
  <2>1. PICK n \in Links : n = links + 1 /\ n > links /\ links' = n /\ manager' = "up"
    <3>1. links \in 0..MaxLinks /\ links < MaxLinks /\ links' = links + 1 /\ manager' = "up"
        BY <1>0, <1>1 DEF ManagerOpens, OutboundTypeOK
    <3> QED BY <3>1 DEF Links
  <2>2. /\ bridge' = [bridge EXCEPT ![n] = "recv"] /\ sender' = [sender EXCEPT ![n] = "wait"]
        /\ writer' = [writer EXCEPT ![n] = "recv"]
        /\ UNCHANGED <<made, simQ, held, bridgeQ, drops, qgc, portQ, wire, taken, flag, stop,
                       stopping>>
      BY <1>1, <2>1 DEF ManagerOpens, Untouched
  <2>3. /\ bridge' \in [Links -> {"none", "recv", "hold", "gone"}]
        /\ sender' \in [Links -> {"none", "wait", "drain", "ending", "gone"}]
        /\ writer' \in [Links -> {"none", "recv", "gone"}]
        /\ bridge'[n] = "recv" /\ sender'[n] = "wait" /\ writer'[n] = "recv"
        /\ \A h \in Links : h # n =>
              bridge'[h] = bridge[h] /\ sender'[h] = sender[h] /\ writer'[h] = writer[h]
      BY <1>0, <2>1, <2>2 DEF OutboundTypeOK
  <2>4. links' \in 0..MaxLinks
      BY <2>1 DEF Links
  <2>5. OutboundTypeOK'
      BY <1>0, <2>1, <2>2, <2>3, <2>4 DEF OutboundTypeOK
  <2>6. LinkInv(n)'
    <3>1. LinkInv(n) /\ Unopened(n)
        BY <2>1 DEF LossInv, LinkInv
    <3>2. held[n] = NoFrame
        BY <3>1 DEF LinkInv, Unopened
    <3>3. InHand(n)' = 0
        BY <2>2, <3>2 DEF InHand
    <3>4. /\ bridgeQ'[n] = <<>> /\ portQ'[n] = <<>> /\ wire'[n] = <<>>
          /\ drops'[n] = 0 /\ taken'[n] = 0
        BY <2>2, <3>1 DEF Unopened
    <3>5. Ledger(n)'
        BY <3>3, <3>4, EmptySeq DEF Ledger
    <3>6. ~(n > links')
        BY <2>1
    <3> QED BY <2>2, <2>3, <3>2, <3>5, <3>6 DEF LinkInv
  <2>7. ASSUME NEW h \in Links, h # n PROVE LinkInv(h)'
    <3>1. LinkInv(h)
        BY DEF LossInv
    <3>2. h > links' => h > links
        BY <1>0, <2>1 DEF Links, OutboundTypeOK
    <3>3. Unopened(h) => Unopened(h)'
        BY <2>2, <2>3, <2>7 DEF Unopened
    <3>4. Alive(h)' => Alive(h)
        BY <2>2, <2>3, <2>7 DEF Alive
    <3>5. Ledger(h) => Ledger(h)'
        BY <2>2 DEF Ledger, InHand
    <3> QED BY <2>2, <2>3, <2>7, <3>1, <3>2, <3>3, <3>4, <3>5 DEF LinkInv
  <2> QED BY <2>5, <2>6, <2>7 DEF LossInv
<1>2. CASE MainReturns
  <2>1. /\ sender' = [g \in Links |-> IF g <= links THEN "gone" ELSE "none"]
        /\ writer' = [g \in Links |-> IF g <= links THEN "gone" ELSE "none"]
        /\ bridgeQ' = [g \in Links |-> <<>>] /\ portQ' = [g \in Links |-> <<>>]
        /\ drops' = [g \in Links |-> 0] /\ taken' = [g \in Links |-> 0]
        /\ manager' = "ended"
        /\ UNCHANGED <<made, simQ, links, bridge, held, stop, qgc, flag, wire, stopping>>
      BY <1>2 DEF MainReturns, bridges
  <2>2. /\ bridgeQ' \in [Links -> Seq(Frames)] /\ portQ' \in [Links -> Seq(Frames \cup {Qgc})]
        /\ drops' \in [Links -> Nat] /\ taken' \in [Links -> Nat]
      BY <2>1, EmptySeq
  <2>3. \A h \in Links : Len(bridgeQ'[h]) <= BridgeCap /\ Len(portQ'[h]) <= PortCap
    <3>1. \A h \in Links : bridgeQ'[h] = <<>> /\ portQ'[h] = <<>>
        BY <2>1
    <3>2. Len(<<>>) = 0 /\ 0 <= BridgeCap /\ 0 <= PortCap
        BY EmptySeq
    <3> QED BY <3>1, <3>2
  <2>4. /\ sender' \in [Links -> {"none", "wait", "drain", "ending", "gone"}]
        /\ writer' \in [Links -> {"none", "recv", "gone"}]
      BY <2>1
  <2>5. OutboundTypeOK'
      BY <1>0, <2>1, <2>2, <2>3, <2>4 DEF OutboundTypeOK
  <2>6. ASSUME NEW h \in Links PROVE LinkInv(h)'
    <3>1. LinkInv(h)
        BY DEF LossInv
    <3>2. sender'[h] \in {"none", "gone"} /\ writer'[h] = sender'[h]
        BY <2>1
    <3>3. ~Alive(h)'
        BY <3>2 DEF Alive
    <3>4. h > links => Unopened(h)'
      <4> SUFFICES ASSUME h > links PROVE Unopened(h)'
          OBVIOUS
      <4>1. Unopened(h) /\ ~(h <= links)
          BY <1>0, <3>1 DEF LinkInv, OutboundTypeOK, Links
      <4>2. sender'[h] = "none" /\ writer'[h] = "none"
          BY <2>1, <4>1
      <4> QED BY <2>1, <4>1, <4>2 DEF Unopened
    <3>5. writer'[h] = "gone" /\ sender'[h] # "gone" => flag'[h] = TRUE
        BY <3>2
    <3> QED BY <2>1, <3>1, <3>3, <3>4, <3>5 DEF LinkInv
  <2> QED BY <2>5, <2>6 DEF LossInv
<1> QED BY <1>1, <1>2

\* Every step of every thread and task keeps the ledger of every link.
LEMMA LossStep == LossInv /\ [OutboundNext]_outboundVars => LossInv'
<1> SUFFICES ASSUME LossInv, [OutboundNext]_outboundVars PROVE LossInv'
    OBVIOUS
<1>1. ASSUME NEW g \in Links,
             \/ Bridge(g) \/ Sender(g) \/ SenderHearsQgc(g) \/ SenderAborted(g)
             \/ Writer(g) \/ WriterFails(g) \/ PortFails(g)
      PROVE  LossInv'
    BY <1>1, BridgeStep, SenderStep, WriterStep
<1>2. CASE MakeFrame \/ Manager \/ Stop
    BY <1>2, SharedStep
<1>3. CASE ManagerOpens \/ MainReturns
    BY <1>3, ManagerStep
<1>4. CASE UNCHANGED outboundVars
  <2>1. UNCHANGED <<made, simQ, links, manager, flag, bridge, held, stop, bridgeQ, sender, portQ,
                    writer, drops, qgc, stopping, wire, taken>>
      BY <1>4 DEF outboundVars, life, bridges, senders, ports
  <2>2. OutboundTypeOK'
      BY <2>1 DEF LossInv, OutboundTypeOK
  <2>3. ASSUME NEW h \in Links PROVE LinkInv(h)'
    <3>1. LinkInv(h)
        BY DEF LossInv
    <3> QED BY <2>1, <3>1, OtherLink
  <2> QED BY <2>2, <2>3 DEF LossInv
<1> QED BY <1>1, <1>2, <1>3, <1>4 DEF OutboundNext

\* The state of the outbound path has its types, and none of its queues more than
\* its capacity.
THEOREM OutboundTypeCorrect == OutboundSpec => []OutboundTypeOK
<1>1. LossInv => OutboundTypeOK
    BY DEF LossInv
<1> QED BY <1>1, LossInit, LossStep, PTL DEF OutboundSpec

\* What was taken for a link that is up is under way, written, in the hands of the
\* bridge or counted as dropped (outbound_drops).
THEOREM NoLossUnnamed == OutboundSpec => []LossNamed
<1>1. LossInv => LossNamed
  <2> SUFFICES ASSUME LossInv, NEW g \in Links, sender[g] \notin {"none", "gone"}, ~flag[g]
               PROVE  taken[g] = Len(bridgeQ[g]) + Len(portQ[g]) + Len(wire[g]) + drops[g]
                                    + (IF held[g] = NoFrame THEN 0 ELSE 1)
      BY DEF LossNamed
  <2>1. flag[g] = FALSE
      BY DEF LossInv, OutboundTypeOK
  <2>2. Ledger(g)
      BY <2>1 DEF LossInv, LinkInv, Alive
  <2> QED BY <2>2 DEF Ledger, InHand
<1> QED BY <1>1, LossInit, LossStep, PTL DEF OutboundSpec

==============================================================================
