------------------------------- MODULE NshProofs -------------------------------
(***************************************************************************)
(* Proofs about Nsh: for any bounds of the queue, any timeouts that are in *)
(* the order of the daemon's, and any number of commands.                  *)
(*                                                                         *)
(* The commands go through the daemon and the board in the order of their  *)
(* ids: those that wait, the one that is pending, those that the board has *)
(* not finished, and what it said of the others.  That a prompt of its own *)
(* ends a command therefore shows that nothing is left of it, or of any    *)
(* command before it.                                                      *)
(***************************************************************************)
EXTENDS Nsh, SequenceTheorems, TLAPS

(* Sequences, as the sets of what is in them, and in order.                *)

In(s) == {s[i] : i \in 1..Len(s)}

\* Commands in the order of their ids.
Sorted(s) == \A i, j \in 1..Len(s) : i < j => s[i].id < s[j].id

\* What comes back: nothing follows the prompt of the same command.
Precedes(a, b) ==
    a.piece.of <= b.piece.of /\ (a.prompt = TRUE => a.piece.of # b.piece.of)

Ordered(s) == \A i, j \in 1..Len(s) : i < j => Precedes(s[i], s[j])

\* An appended element comes last, and the others keep their places.
LEMMA AppendAt ==
    ASSUME NEW S, NEW s \in Seq(S), NEW x \in S
    PROVE  /\ Append(s, x) \in Seq(S) /\ Len(Append(s, x)) = Len(s) + 1 /\ Len(s) \in Nat
           /\ \A i \in 1..Len(s) : Append(s, x)[i] = s[i]
           /\ Append(s, x)[Len(s) + 1] = x
           /\ In(Append(s, x)) = In(s) \cup {x}
<1>1. /\ Append(s, x) \in Seq(S) /\ Len(Append(s, x)) = Len(s) + 1 /\ Len(s) \in Nat
      /\ \A i \in 1..Len(s) : Append(s, x)[i] = s[i]
      /\ Append(s, x)[Len(s) + 1] = x
    BY AppendProperties, LenProperties
<1> DEFINE t == Append(s, x)
           k == Len(s)
<1>2. /\ Len(t) = k + 1 /\ k \in Nat /\ \A i \in 1..k : t[i] = s[i]
      /\ t[k + 1] = x
    BY <1>1
<1> HIDE DEF t, k
<1>3. {t[i] : i \in 1..(k + 1)} = {s[i] : i \in 1..k} \cup {x}
  <2>1. 1..(k + 1) = (1..k) \cup {k + 1}
      BY <1>2
  <2> QED BY <1>2, <2>1
<1> QED BY <1>1, <1>2, <1>3 DEF In, t, k

\* The first element is taken, and the others move up.
LEMMA TailAt ==
    ASSUME NEW S, NEW s \in Seq(S), s # <<>>
    PROVE  /\ Tail(s) \in Seq(S) /\ Head(s) \in S /\ Len(s) \in Nat /\ Len(s) >= 1
           /\ Len(Tail(s)) = Len(s) - 1 /\ Head(s) = s[1]
           /\ \A i \in 1..(Len(s) - 1) : Tail(s)[i] = s[i + 1]
           /\ In(s) = In(Tail(s)) \cup {Head(s)}
<1>1. /\ Tail(s) \in Seq(S) /\ Head(s) \in S /\ Len(s) \in Nat /\ Len(s) >= 1
      /\ Len(Tail(s)) = Len(s) - 1 /\ Head(s) = s[1]
      /\ \A i \in 1..(Len(s) - 1) : Tail(s)[i] = s[i + 1]
    BY HeadTailProperties, EmptySeq
<1> DEFINE t == Tail(s)
           k == Len(s)
           h == Head(s)
<1>2. /\ Len(t) = k - 1 /\ k \in Nat /\ k >= 1 /\ \A i \in 1..(k - 1) : t[i] = s[i + 1]
      /\ h = s[1]
    BY <1>1
<1> HIDE DEF t, k, h
<1>3. {s[i] : i \in 1..k} \subseteq {t[i] : i \in 1..(k - 1)} \cup {h}
  <2> SUFFICES ASSUME NEW i \in 1..k PROVE s[i] \in {t[j] : j \in 1..(k - 1)} \cup {h}
      OBVIOUS
  <2>1. CASE i = 1
      BY <1>2, <2>1
  <2>2. CASE i # 1
    <3>1. i - 1 \in 1..(k - 1) /\ (i - 1) + 1 = i
        BY <1>2, <2>2
    <3>2. t[i - 1] = s[i]
        BY <1>2, <3>1
    <3> QED BY <3>1, <3>2
  <2> QED BY <2>1, <2>2
<1>4. {t[i] : i \in 1..(k - 1)} \cup {h} \subseteq {s[i] : i \in 1..k}
  <2>1. h \in {s[i] : i \in 1..k}
      BY <1>2
  <2>2. ASSUME NEW i \in 1..(k - 1) PROVE t[i] \in {s[j] : j \in 1..k}
    <3>1. i + 1 \in 1..k /\ t[i] = s[i + 1]
        BY <1>2
    <3> QED BY <3>1
  <2> QED BY <2>1, <2>2
<1> QED BY <1>1, <1>2, <1>3, <1>4 DEF In, t, k, h

\* A command with a later id keeps the order at the end of the queue.
LEMMA SortedAppend ==
    ASSUME NEW s \in Seq(Cmds), NEW x \in Cmds, Sorted(s), \A c \in In(s) : c.id < x.id
    PROVE  Sorted(Append(s, x))
<1> DEFINE t == Append(s, x)
           k == Len(s)
<1>1. /\ Len(t) = k + 1 /\ k \in Nat /\ \A i \in 1..k : t[i] = s[i]
      /\ t[k + 1] = x
    BY AppendAt
<1>2. \A i \in 1..k : s[i].id < x.id
    BY DEF In
<1>3. \A i, j \in 1..k : i < j => s[i].id < s[j].id
    BY DEF Sorted
<1> HIDE DEF t, k
<1>4. ASSUME NEW i \in 1..(k + 1), NEW j \in 1..(k + 1), i < j PROVE t[i].id < t[j].id
  <2>1. CASE j = k + 1
      BY <1>1, <1>2, <1>4, <2>1
  <2>2. CASE j \in 1..k
      BY <1>1, <1>3, <1>4, <2>2
  <2> QED BY <1>1, <2>1, <2>2
<1> QED BY <1>1, <1>4 DEF Sorted, t, k

\* The first of the commands is before the others, which stay in order.
LEMMA SortedTail ==
    ASSUME NEW s \in Seq(Cmds), s # <<>>, Sorted(s)
    PROVE  Sorted(Tail(s)) /\ \A c \in In(Tail(s)) : Head(s).id < c.id
<1> DEFINE t == Tail(s)
           k == Len(s)
           h == Head(s)
<1>1. /\ Len(t) = k - 1 /\ k \in Nat /\ k >= 1 /\ \A i \in 1..(k - 1) : t[i] = s[i + 1]
      /\ h = s[1]
    BY TailAt
<1>2. \A i, j \in 1..k : i < j => s[i].id < s[j].id
    BY DEF Sorted
<1> HIDE DEF t, k, h
<1>3. ASSUME NEW i \in 1..(k - 1) PROVE h.id < t[i].id
    BY <1>1, <1>2
<1>4. ASSUME NEW i \in 1..(k - 1), NEW j \in 1..(k - 1), i < j PROVE t[i].id < t[j].id
  <2>1. i + 1 \in 1..k /\ j + 1 \in 1..k /\ i + 1 < j + 1
      BY <1>1, <1>4
  <2>2. t[i] = s[i + 1] /\ t[j] = s[j + 1]
      BY <1>1
  <2> QED BY <1>2, <2>1, <2>2
<1> QED BY <1>1, <1>3, <1>4 DEF Sorted, In, t, k, h

\* The same for what comes back.
LEMMA OrderedAppend ==
    ASSUME NEW S, NEW s \in Seq(S), NEW x \in S, Ordered(s), \A b \in In(s) : Precedes(b, x)
    PROVE  Ordered(Append(s, x))
<1> DEFINE t == Append(s, x)
           k == Len(s)
<1>1. /\ Len(t) = k + 1 /\ k \in Nat /\ \A i \in 1..k : t[i] = s[i]
      /\ t[k + 1] = x
    BY AppendAt
<1>2. \A i \in 1..k : Precedes(s[i], x)
    BY DEF In
<1>3. \A i, j \in 1..k : i < j => Precedes(s[i], s[j])
    BY DEF Ordered
<1> HIDE DEF t, k
<1>4. ASSUME NEW i \in 1..(k + 1), NEW j \in 1..(k + 1), i < j PROVE Precedes(t[i], t[j])
  <2>1. CASE j = k + 1
    <3>1. i \in 1..k
        BY <1>1, <1>4, <2>1
    <3> QED BY <1>1, <1>2, <2>1, <3>1
  <2>2. CASE j \in 1..k
    <3>1. i \in 1..k
        BY <1>1, <1>4, <2>2
    <3> QED BY <1>1, <1>3, <1>4, <2>2, <3>1
  <2> QED BY <1>1, <2>1, <2>2
<1> QED BY <1>1, <1>4 DEF Ordered, t, k

\* Taking the first element out of an ordered sequence leaves it ordered.
LEMMA OrderedTail ==
    ASSUME NEW S, NEW s \in Seq(S), s # <<>>, Ordered(s)
    PROVE  Ordered(Tail(s)) /\ \A b \in In(Tail(s)) : Precedes(Head(s), b)
<1> DEFINE t == Tail(s)
           k == Len(s)
           h == Head(s)
<1>1. /\ Len(t) = k - 1 /\ k \in Nat /\ k >= 1 /\ \A i \in 1..(k - 1) : t[i] = s[i + 1]
      /\ h = s[1]
    BY TailAt
<1>2. \A i, j \in 1..k : i < j => Precedes(s[i], s[j])
    BY DEF Ordered
<1> HIDE DEF t, k, h
<1>3. ASSUME NEW i \in 1..(k - 1) PROVE Precedes(h, t[i])
  <2>1. 1 \in 1..k /\ i + 1 \in 1..k /\ 1 < i + 1 /\ t[i] = s[i + 1]
      BY <1>1
  <2> QED BY <1>1, <1>2, <2>1
<1>4. ASSUME NEW i \in 1..(k - 1), NEW j \in 1..(k - 1), i < j PROVE Precedes(t[i], t[j])
  <2>1. i + 1 \in 1..k /\ j + 1 \in 1..k /\ i + 1 < j + 1
      BY <1>1, <1>4
  <2>2. t[i] = s[i + 1] /\ t[j] = s[j + 1]
      BY <1>1
  <2> QED BY <1>2, <2>1, <2>2
<1> QED BY <1>1, <1>3, <1>4 DEF Ordered, In, t, k, h

------------------------------------------------------------------------------
(* The types, in the groups of the state.                                  *)

Items == [piece : Pieces, prompt : BOOLEAN]
Replies == [ok : BOOLEAN, by : {"none", "link", "prompt", "deadline"}, text : SUBSET Pieces]
Reports == [of : {"none", "old", "stopped", "new"}, arm : BOOLEAN, at : Nat]

TaskTypes ==
    /\ queue \in Seq(Cmds) /\ Len(queue) <= QueueCap
    /\ link \in {"none", "up", "down"} /\ cached \in {"none", "up", "down"}
    /\ pending \in Cmds \cup {NoCmd} /\ deadline \in 0..Longest
    /\ buffer \subseteq Pieces
    /\ answers \in [Ids -> 0..2] /\ crossed \in BOOLEAN

WireTypes == out \in Seq(Cmds) /\ back \in Seq(Items)

BoardTypes == shell \in Cmds \cup {NoCmd} /\ ekf \in {"old", "stopped", "new"}

CallerTypes ==
    /\ lastId \in 0..MaxId /\ flow \in {"idle", "stop", "start", "wait"}
    /\ own \in 0..MaxId /\ timer \in 0..Longest /\ inbox \in Replies
    /\ verdict \in [end : {"none", "healthy", "unknown", "failed"},
                    of : {"none", "old", "stopped", "new"}]
    /\ echoed \in BOOLEAN

HealthTypes == since \in 0..Ready /\ flight \in Reports /\ report \in Reports

NshTypes == TaskTypes /\ WireTypes /\ BoardTypes /\ CallerTypes /\ HealthTypes

(* The commands on their way.                                              *)

Waiting == In(queue)

\* What the board has not finished.
Underway == In(out) \cup ({shell} \ {NoCmd})

\* The commands that are out of the queue are before those in it, and every command
\* that waits or is pending is still to be answered.
QueueInv ==
    /\ Sorted(queue) /\ pending.id <= lastId
    /\ \A c \in Waiting : c.id <= lastId /\ pending.id < c.id
    /\ \A i \in Ids : answers[i] <= 1
    /\ \A i \in Ids : i > lastId => answers[i] = 0
    /\ pending # NoCmd => answers[pending.id] = 0
    /\ \A c \in Waiting : answers[c.id] = 0

\* What is on the link and on the board comes in the order of the ids.
PipeInv ==
    /\ Sorted(out) /\ Ordered(back)
    /\ shell # NoCmd => \A o \in In(out) : shell.id < o.id
    /\ \A c \in Underway :
          /\ c.id <= lastId /\ \A w \in Waiting : c.id < w.id
          /\ pending # NoCmd => c.id <= pending.id
    /\ \A b \in In(back) :
          /\ b.piece.of <= lastId /\ \A w \in Waiting : b.piece.of < w.id
          /\ pending # NoCmd => b.piece.of <= pending.id
          /\ \A o \in In(out) : b.piece.of < o.id
          /\ shell # NoCmd =>
                b.piece.of <= shell.id /\ (b.prompt = TRUE => b.piece.of # shell.id)

\* The task gives up on the command of a restart later than the restart does, by as
\* much as its timeout is longer: what the restart hears is a prompt, or that there
\* is no link.
EchoInv ==
    /\ echoed = FALSE
    /\ own <= lastId /\ timer <= ReplyTimeout
    /\ own = 0 <=> flow \notin {"stop", "start"}
    /\ own = 0 => inbox = NoReply
    /\ \/ inbox = NoReply
       \/ inbox.ok = TRUE /\ inbox.by = "prompt"
       \/ inbox.ok = FALSE /\ inbox.by = "link"
    /\ pending # NoCmd /\ pending.id = own =>
          /\ pending.what = flow /\ inbox = NoReply
          /\ deadline >= timer + (TaskTimeout - ReplyTimeout)
    /\ \A c \in Waiting : c.id = own => c.what = flow /\ inbox = NoReply
    /\ \A c \in Underway : c.id = own => c.what = flow

Users(S) == \A c \in S : c.what = "user"

\* As long as no prompt ended another command than its own: when the stop is
\* confirmed, the estimator is stopped, and no restart before this one has a command
\* left; ...
StopInv ==
    flow = "stop" =>
        /\ \A c \in Waiting \cup Underway : c.id > own => c.what = "user"
        /\ \A b \in In(back) : b.prompt = TRUE /\ b.piece.of = own => ekf = "stopped"
        /\ inbox.ok = TRUE => ekf = "stopped" /\ Users(Waiting \cup Underway)

\* ... when the start is confirmed, the new one runs; ...
StartInv ==
    flow = "start" =>
        /\ \A c \in Waiting \cup Underway : c.id # own => c.what = "user"
        /\ \A c \in Waiting \cup Underway : c.id = own => ekf = "stopped" /\ inbox.ok = FALSE
        /\ \A b \in In(back) :
              b.prompt = TRUE /\ b.piece.of = own /\ b.piece.bad = FALSE => ekf = "new"
        /\ inbox.ok = TRUE /\ (\A piece \in inbox.text : piece.bad = FALSE) => ekf = "new"

\* ... and a report of an estimator before it comes before the guard is over.
WaitInv ==
    flow = "wait" =>
        /\ Users(Waiting \cup Underway) /\ ekf = "new"
        /\ flight # NoReport /\ flight.of # "new" => flight.at >= since
        /\ report.at > Guard => report.of = "new"

StagesInv == StopInv /\ StartInv /\ WaitInv /\ ReadyDescribesNew

RestartInv == flight.at <= Latency /\ (crossed = FALSE => StagesInv)

NshInv == NshTypes /\ QueueInv /\ PipeInv /\ EchoInv /\ RestartInv

\* At the start every variable has its type.
LEMMA NshTypesInit == Init => NshTypes
<1> SUFFICES ASSUME Init PROVE NshTypes
    OBVIOUS
<1> USE NshAssumption
<1>1. TaskTypes
  <2>1. queue \in Seq(Cmds) /\ Len(queue) <= QueueCap
      BY EmptySeq DEF Init
  <2>2. Longest \in Nat
      BY DEF Longest
  <2>3. deadline \in 0..Longest
      BY <2>2 DEF Init
  <2>4. answers \in [Ids -> 0..2]
      BY DEF Init
  <2> QED BY <2>1, <2>3, <2>4 DEF Init, TaskTypes
<1>2. WireTypes
    BY EmptySeq DEF Init, WireTypes
<1>3. BoardTypes
    BY DEF Init, BoardTypes
<1>5. CallerTypes
  <2>1. Longest \in Nat
      BY DEF Longest
  <2>2. lastId \in 0..MaxId /\ own \in 0..MaxId /\ timer \in 0..Longest
      BY <2>1 DEF Init
  <2>3. inbox \in Replies
      BY DEF Init, Replies, NoReply
  <2> QED BY <2>2, <2>3 DEF Init, CallerTypes
<1>4. HealthTypes
    BY DEF Init, HealthTypes, Reports, NoReport
<1> QED BY <1>1, <1>2, <1>3, <1>4, <1>5 DEF NshTypes

\* An answer keeps its types.
LEMMA AnswerTypes ==
    ASSUME NshTypes, NEW c \in Cmds, NEW reply \in Replies, Answer(c, reply)
    PROVE  answers' \in [Ids -> 0..2] /\ inbox' \in Replies
<1>1. answers \in [Ids -> 0..2] /\ c.id \in Ids /\ inbox \in Replies
    BY DEF NshTypes, TaskTypes, CallerTypes, Cmds
<1>2. (IF answers[c.id] < 2 THEN answers[c.id] + 1 ELSE answers[c.id]) \in 0..2
    BY <1>1
<1> QED BY <1>1, <1>2 DEF Answer

\* So does a command that is queued.
LEMMA QueuedTypes ==
    ASSUME NshTypes, Room, NEW what \in {"user", "stop", "start"}
    PROVE  /\ Queued(what) \in Seq(Cmds) /\ Len(Queued(what)) <= QueueCap
           /\ lastId + 1 \in 1..MaxId /\ [id |-> lastId + 1, what |-> what] \in Cmds
           /\ In(Queued(what)) = Waiting \cup {[id |-> lastId + 1, what |-> what]}
<1> USE NshAssumption
<1>1. lastId + 1 \in 1..MaxId
    BY DEF NshTypes, CallerTypes, Room
<1>2. [id |-> lastId + 1, what |-> what] \in Cmds
    BY <1>1 DEF Cmds, Ids
<1> DEFINE k == Len(queue)
<1>3. /\ queue \in Seq(Cmds) /\ k < QueueCap /\ k \in Nat
      /\ Queued(what) \in Seq(Cmds) /\ Len(Queued(what)) = k + 1
      /\ In(Queued(what)) = Waiting \cup {[id |-> lastId + 1, what |-> what]}
    BY <1>2, AppendAt DEF NshTypes, TaskTypes, Room, Queued, Waiting
<1> HIDE DEF k
<1> QED BY <1>1, <1>2, <1>3

\* Every step of the channel, the board and the callers keeps the types.
LEMMA NshTypesStep == NshTypes /\ [Next]_vars => NshTypes'
<1> SUFFICES ASSUME NshTypes, [Next]_vars PROVE NshTypes'
    OBVIOUS
<1> USE NshAssumption
<1>0. TaskTypes /\ WireTypes /\ BoardTypes /\ CallerTypes /\ HealthTypes
    BY DEF NshTypes
<1>t. UNCHANGED task => TaskTypes'
    BY <1>0 DEF task, TaskTypes
<1>w. UNCHANGED wire => WireTypes'
    BY <1>0 DEF wire, WireTypes
<1>b. UNCHANGED board => BoardTypes'
    BY <1>0 DEF board, BoardTypes
<1>c. UNCHANGED caller => CallerTypes'
    BY <1>0 DEF caller, CallerTypes
<1>h. UNCHANGED health => HealthTypes'
    BY <1>0 DEF health, HealthTypes
<1>1. CASE Refresh
  <2>1. TaskTypes'
      BY <1>0, <1>1 DEF Refresh, TaskTypes
  <2> QED BY <1>w, <1>b, <1>c, <1>h, <1>1, <2>1 DEF Refresh, NshTypes
<1>2. CASE RefuseCommand
  <2>1. queue' \in Seq(Cmds) /\ Head(queue) \in Cmds /\ Len(queue') <= QueueCap
    <3> DEFINE k == Len(queue)
    <3>1. /\ queue' \in Seq(Cmds) /\ Head(queue) \in Cmds /\ Len(queue') = k - 1
          /\ k \in Nat /\ k <= QueueCap
        BY <1>0, <1>2, TailAt DEF RefuseCommand, TaskTypes
    <3> HIDE DEF k
    <3> QED BY <3>1
  <2>2. [ok |-> FALSE, by |-> "link", text |-> {}] \in Replies
      BY DEF Replies
  <2>3. answers' \in [Ids -> 0..2] /\ inbox' \in Replies
      BY <1>2, <2>1, <2>2, AnswerTypes DEF RefuseCommand
  <2>4. TaskTypes'
      BY <1>0, <1>2, <2>1, <2>3 DEF RefuseCommand, TaskTypes
  <2>5. CallerTypes'
      BY <1>0, <1>2, <2>3 DEF RefuseCommand, CallerTypes
  <2> QED BY <1>w, <1>b, <1>h, <1>2, <2>4, <2>5 DEF RefuseCommand, NshTypes
<1>3. CASE SendCommand
  <2>1. queue' \in Seq(Cmds) /\ Head(queue) \in Cmds /\ Len(queue') <= QueueCap
    <3> DEFINE k == Len(queue)
    <3>1. /\ queue' \in Seq(Cmds) /\ Head(queue) \in Cmds /\ Len(queue') = k - 1
          /\ k \in Nat /\ k <= QueueCap
        BY <1>0, <1>3, TailAt DEF SendCommand, TaskTypes
    <3> HIDE DEF k
    <3> QED BY <3>1
  <2>2. deadline' \in 0..Longest
      BY <1>3 DEF SendCommand, Patience, Longest
  <2>3. TaskTypes'
      BY <1>0, <1>3, <2>1, <2>2 DEF SendCommand, TaskTypes
  <2>4. WireTypes'
      BY <1>0, <1>3, <2>1, AppendAt DEF SendCommand, WireTypes
  <2> QED BY <1>b, <1>c, <1>h, <1>3, <2>3, <2>4 DEF SendCommand, NshTypes
<1>4. CASE TakeOutput
  <2>1. /\ Head(back) \in Items /\ Head(back).piece \in Pieces /\ Head(back).prompt \in BOOLEAN
        /\ back' \in Seq(Items)
    <3>1. Head(back) \in Items /\ back' \in Seq(Items)
        BY <1>0, <1>4, TailAt DEF TakeOutput, WireTypes
    <3> QED BY <3>1 DEF Items
  <2>2. buffer \cup {Head(back).piece} \subseteq Pieces
      BY <1>0, <2>1 DEF TaskTypes
  <2>3. CASE Head(back).prompt = TRUE /\ pending # NoCmd
    <3> DEFINE reply == [ok |-> TRUE, by |-> "prompt", text |-> buffer \cup {Head(back).piece}]
    <3>1. reply \in Replies
        BY <2>2 DEF Replies
    <3>2. pending \in Cmds /\ Answer(pending, reply)
        BY <1>0, <1>4, <2>3 DEF TakeOutput, TaskTypes
    <3>3. answers' \in [Ids -> 0..2] /\ inbox' \in Replies
        BY <3>1, <3>2, AnswerTypes
    <3>4. crossed' \in BOOLEAN
        BY <1>4, <2>3, <1>0 DEF TakeOutput
    <3>5. TaskTypes'
        BY <1>0, <1>4, <2>3, <3>3, <3>4 DEF TakeOutput, TaskTypes, Longest
    <3>6. CallerTypes'
        BY <1>0, <1>4, <3>3 DEF TakeOutput, CallerTypes
    <3>7. WireTypes'
        BY <1>0, <1>4, <2>1 DEF TakeOutput, WireTypes
    <3> QED BY <1>b, <1>h, <1>4, <3>5, <3>6, <3>7 DEF TakeOutput, NshTypes
  <2>4. CASE ~(Head(back).prompt = TRUE /\ pending # NoCmd)
    <3>1. UNCHANGED <<answers, crossed, inbox, pending, deadline>>
            /\ buffer' = buffer \cup {Head(back).piece}
        BY <1>4, <2>1, <2>4 DEF TakeOutput
    <3>2. TaskTypes'
        BY <1>0, <1>4, <2>2, <3>1 DEF TakeOutput, TaskTypes
    <3>3. CallerTypes'
        BY <1>0, <1>4, <3>1 DEF TakeOutput, CallerTypes
    <3>4. WireTypes'
        BY <1>0, <1>4, <2>1 DEF TakeOutput, WireTypes
    <3> QED BY <1>b, <1>h, <1>4, <3>2, <3>3, <3>4 DEF TakeOutput, NshTypes
  <2> QED BY <2>3, <2>4
<1>5. CASE Expire
  <2>1. [ok |-> buffer # {}, by |-> "deadline", text |-> buffer] \in Replies
      BY <1>0 DEF TaskTypes, Replies
  <2>2. pending \in Cmds
      BY <1>0, <1>5 DEF Expire, TaskTypes
  <2>3. answers' \in [Ids -> 0..2] /\ inbox' \in Replies
      BY <1>5, <2>1, <2>2, AnswerTypes DEF Expire
  <2>4. TaskTypes'
      BY <1>0, <1>5, <2>3 DEF Expire, TaskTypes
  <2>5. CallerTypes'
      BY <1>0, <1>5, <2>3 DEF Expire, CallerTypes
  <2> QED BY <1>w, <1>b, <1>h, <1>5, <2>4, <2>5 DEF Expire, NshTypes
<1>6. CASE UserCommand
  <2>1. queue' \in Seq(Cmds) /\ Len(queue') <= QueueCap /\ lastId' \in 0..MaxId
      BY <1>6, QueuedTypes DEF UserCommand
  <2>2. TaskTypes'
      BY <1>0, <1>6, <2>1 DEF UserCommand, TaskTypes
  <2>3. CallerTypes'
      BY <1>0, <1>6, <2>1 DEF UserCommand, CallerTypes
  <2> QED BY <1>w, <1>b, <1>h, <1>6, <2>2, <2>3 DEF UserCommand, NshTypes
<1>7. CASE Begin
  <2>1. /\ queue' \in Seq(Cmds) /\ Len(queue') <= QueueCap /\ lastId' \in 0..MaxId
        /\ own' \in 0..MaxId
      BY <1>7, QueuedTypes DEF Begin, RunNsh
  <2>2. TaskTypes'
      BY <1>0, <1>7, <2>1 DEF Begin, RunNsh, TaskTypes
  <2>3. timer' \in 0..Longest /\ inbox' \in Replies
      BY <1>7 DEF Begin, RunNsh, Longest, Replies, NoReply
  <2>4. CallerTypes'
      BY <1>0, <1>7, <2>1, <2>3 DEF Begin, CallerTypes
  <2>5. BoardTypes'
      BY <1>0, <1>7 DEF Begin, Older, BoardTypes
  <2>6. HealthTypes'
      BY <1>0, <1>7 DEF Begin, Older, HealthTypes, Reports
  <2> QED BY <1>w, <1>7, <2>2, <2>4, <2>5, <2>6 DEF Begin, NshTypes
<1>8. CASE Stopped
  <2>1. CASE Room /\ RunNsh("start") /\ flow' = "start" /\ UNCHANGED verdict
    <3>1. /\ queue' \in Seq(Cmds) /\ Len(queue') <= QueueCap /\ lastId' \in 0..MaxId
          /\ own' \in 0..MaxId
        BY <2>1, QueuedTypes DEF RunNsh
    <3>2. TaskTypes'
        BY <1>0, <1>8, <3>1 DEF Stopped, TaskTypes
    <3>3. timer' \in 0..Longest /\ inbox' \in Replies
        BY <2>1 DEF RunNsh, Longest, Replies, NoReply
    <3>4. echoed' \in BOOLEAN
        BY <1>0, <1>8 DEF Stopped
    <3>5. CallerTypes'
        BY <1>0, <2>1, <3>1, <3>3, <3>4 DEF CallerTypes
    <3> QED BY <1>w, <1>b, <1>h, <1>8, <3>2, <3>5 DEF Stopped, NshTypes
  <2>2. CASE Ended("failed", "none") /\ UNCHANGED <<queue, lastId>>
    <3>1. TaskTypes'
        BY <1>0, <1>8, <2>2 DEF Stopped, TaskTypes
    <3>2. echoed' \in BOOLEAN
        BY <1>0, <1>8 DEF Stopped
    <3>3. CallerTypes'
        BY <1>0, <2>2, <3>2 DEF Ended, CallerTypes, Longest, Replies, NoReply
    <3> QED BY <1>w, <1>b, <1>h, <1>8, <3>1, <3>3 DEF Stopped, NshTypes
  <2> QED BY <1>8, <2>1, <2>2 DEF Stopped
<1>9. CASE Started
  <2>1. echoed' \in BOOLEAN
      BY <1>0, <1>9 DEF Started
  <2>2. CallerTypes'
      BY <1>0, <1>9, <2>1 DEF Started, CallerTypes, Longest, Replies, NoReply
  <2>3. HealthTypes'
      BY <1>0, <1>9 DEF Started, HealthTypes, Reports
  <2> QED BY <1>t, <1>w, <1>b, <1>9, <2>2, <2>3 DEF Started, NshTypes
<1>10. CASE RestartFails \/ WaitReady \/ WaitUnknown \/ WaitGivesUp
  <2>1. \E end \in {"healthy", "unknown", "failed"}, of \in {"none", "old", "stopped", "new"} :
            Ended(end, of)
      BY <1>0, <1>10 DEF RestartFails, WaitReady, WaitUnknown, WaitGivesUp, HealthTypes, Reports
  <2>2. UNCHANGED <<task, wire, board, lastId, echoed, health>>
      BY <1>10 DEF RestartFails, WaitReady, WaitUnknown, WaitGivesUp
  <2>3. CallerTypes'
      BY <1>0, <2>1, <2>2 DEF Ended, CallerTypes, Longest, Replies, NoReply
  <2> QED BY <1>t, <1>w, <1>b, <1>h, <2>2, <2>3 DEF NshTypes
<1>11. CASE LinkFails \/ LinkWithdrawn \/ LinkOpens
  <2>1. TaskTypes'
      BY <1>0, <1>11 DEF LinkFails, LinkWithdrawn, LinkOpens, TaskTypes
  <2>2. WireTypes'
      BY <1>0, <1>11, EmptySeq DEF LinkFails, LinkWithdrawn, LinkOpens, WireTypes, wire
  <2>3. BoardTypes'
      BY <1>0, <1>11 DEF LinkFails, LinkWithdrawn, LinkOpens, BoardTypes, board
  <2> QED BY <1>c, <1>h, <1>11, <2>1, <2>2, <2>3
        DEF LinkFails, LinkWithdrawn, LinkOpens, NshTypes
<1>12. CASE ShellBegins
  <2>1. out' \in Seq(Cmds) /\ Head(out) \in Cmds
      BY <1>0, <1>12, TailAt DEF ShellBegins, WireTypes
  <2>2. WireTypes' /\ BoardTypes'
      BY <1>0, <1>12, <2>1 DEF ShellBegins, WireTypes, BoardTypes
  <2> QED BY <1>t, <1>c, <1>h, <1>12, <2>2 DEF ShellBegins, NshTypes
<1>13. CASE ShellEchoes
  <2>1. [piece |-> Sent(shell), prompt |-> FALSE] \in Items
      BY <1>0, <1>13 DEF ShellEchoes, BoardTypes, Items, Sent, Pieces, Cmds
  <2>2. WireTypes'
      BY <1>0, <1>13, <2>1, AppendAt DEF ShellEchoes, WireTypes
  <2> QED BY <1>t, <1>b, <1>c, <1>h, <1>13, <2>2 DEF ShellEchoes, NshTypes
<1>14. ASSUME NEW bad \in BOOLEAN, ShellEnds(bad) PROVE NshTypes'
  <2>1. [piece |-> [of |-> shell.id, bad |-> bad], prompt |-> TRUE] \in Items
      BY <1>0, <1>14 DEF ShellEnds, BoardTypes, Items, Pieces, Cmds
  <2>2. WireTypes'
      BY <1>0, <1>14, <2>1, AppendAt DEF ShellEnds, WireTypes
  <2>3. BoardTypes'
      BY <1>0, <1>14 DEF ShellEnds, BoardTypes
  <2> QED BY <1>t, <1>c, <1>h, <1>14, <2>2, <2>3 DEF ShellEnds, NshTypes
<1>15. ASSUME NEW arm \in BOOLEAN, StatusSent(arm) PROVE NshTypes'
  <2>1. HealthTypes'
      BY <1>0, <1>15 DEF StatusSent, HealthTypes, Reports, BoardTypes
  <2> QED BY <1>t, <1>w, <1>b, <1>c, <1>15, <2>1 DEF StatusSent, NshTypes
<1>16. CASE StatusReceived
  <2>1. HealthTypes'
      BY <1>0, <1>16 DEF StatusReceived, HealthTypes, Reports, NoReport
  <2> QED BY <1>t, <1>w, <1>b, <1>c, <1>16, <2>1 DEF StatusReceived, NshTypes
<1>17. CASE Tick
  <2>1. TaskTypes'
      BY <1>0, <1>17 DEF Tick, Minus1, TaskTypes, Longest
  <2>2. CallerTypes'
      BY <1>0, <1>17 DEF Tick, Minus1, CallerTypes, Longest
  <2>3. HealthTypes'
      BY <1>0, <1>17 DEF Tick, HealthTypes, Reports
  <2> QED BY <1>w, <1>b, <1>17, <2>1, <2>2, <2>3 DEF Tick, NshTypes
<1>18. CASE UNCHANGED vars
    BY <1>t, <1>w, <1>b, <1>c, <1>h, <1>18 DEF vars, NshTypes
<1> QED BY <1>1, <1>2, <1>3, <1>4, <1>5, <1>6, <1>7, <1>8, <1>9, <1>10, <1>11, <1>12, <1>13,
           <1>14, <1>15, <1>16, <1>17, <1>18 DEF Next, NshTask, Restart

------------------------------------------------------------------------------
(* The order of the commands.                                              *)

\* What is in the sequences is of their types.
LEMMA SetTypes ==
    ASSUME NshTypes
    PROVE  /\ Waiting \subseteq Cmds /\ In(out) \subseteq Cmds /\ Underway \subseteq Cmds
           /\ In(back) \subseteq Items
           /\ lastId \in Nat /\ pending.id \in Nat /\ (pending # NoCmd => pending \in Cmds)
           /\ (pending = NoCmd => pending.id = 0)
           /\ (shell # NoCmd => shell \in Cmds) /\ own \in Nat
<1> USE NshAssumption
<1>1. \A i \in 1..Len(queue) : queue[i] \in Cmds
    BY ElementOfSeq DEF NshTypes, TaskTypes
<1>2. \A i \in 1..Len(out) : out[i] \in Cmds
    BY ElementOfSeq DEF NshTypes, WireTypes
<1>3. \A i \in 1..Len(back) : back[i] \in Items
    BY ElementOfSeq DEF NshTypes, WireTypes
<1>4. shell # NoCmd => shell \in Cmds
    BY DEF NshTypes, BoardTypes
<1>5. /\ pending.id \in Nat /\ (pending # NoCmd => pending \in Cmds)
      /\ (pending = NoCmd => pending.id = 0)
    BY DEF NshTypes, TaskTypes, Cmds, NoCmd, Ids
<1>6. lastId \in Nat /\ own \in Nat
    BY DEF NshTypes, CallerTypes
<1> QED BY <1>1, <1>2, <1>3, <1>4, <1>5, <1>6 DEF In, Waiting, Underway

\* The ids of commands are not 0.
LEMMA IdsPositive == \A c \in Cmds : c.id \in Ids /\ c.id \in Nat /\ c.id >= 1 /\ c # NoCmd
BY NshAssumption DEF Cmds, Ids, NoCmd

\* A command that is to be answered is answered once, and no other.
LEMMA AnswersOne ==
    ASSUME NshTypes, NEW c \in Cmds, NEW reply, Answer(c, reply), answers[c.id] = 0
    PROVE  answers'[c.id] = 1 /\ \A i \in Ids : i # c.id => answers'[i] = answers[i]
<1>1. answers \in [Ids -> 0..2] /\ c.id \in Ids
    BY DEF NshTypes, TaskTypes, Cmds
<1> QED BY <1>1 DEF Answer

\* A command that is queued comes after all others.
LEMMA QueuedLast ==
    ASSUME NshTypes, QueueInv, Room, NEW what \in {"user", "stop", "start"},
           queue' = Queued(what), lastId' = lastId + 1, UNCHANGED <<pending, answers>>
    PROVE  QueueInv' /\ Waiting' = Waiting \cup {[id |-> lastId + 1, what |-> what]}
<1> DEFINE c == [id |-> lastId + 1, what |-> what]
<1>1. c \in Cmds /\ c.id = lastId + 1 /\ Waiting' = Waiting \cup {c} /\ lastId + 1 \in Ids
    BY QueuedTypes DEF Waiting, Ids
<1>2. Waiting \subseteq Cmds /\ lastId \in Nat /\ pending.id \in Nat
    BY SetTypes
<1>3. \A x \in Waiting : x.id <= lastId /\ x.id \in Nat /\ pending.id < x.id /\ answers[x.id] = 0
    BY <1>2, IdsPositive DEF QueueInv
<1>4. \A x \in Waiting : x.id < c.id
    BY <1>1, <1>2, <1>3
<1>5. Sorted(Append(queue, c))
    BY <1>1, <1>4, SortedAppend DEF QueueInv, Waiting, NshTypes, TaskTypes
<1>6. Sorted(queue')
    BY <1>5 DEF Queued
<1>7. pending.id <= lastId + 1 /\ pending.id < lastId + 1 /\ answers[lastId + 1] = 0
    BY <1>1, <1>2 DEF QueueInv
<1>8. \A x \in Waiting' : x.id <= lastId' /\ pending'.id < x.id /\ answers'[x.id] = 0
  <2> SUFFICES ASSUME NEW x \in Waiting' PROVE x.id <= lastId' /\ pending'.id < x.id
                                                  /\ answers'[x.id] = 0
      OBVIOUS
  <2>1. CASE x \in Waiting
      BY <1>2, <1>3, <2>1
  <2>2. CASE x = c
      BY <1>1, <1>2, <1>7, <2>2
  <2> QED BY <1>1, <2>1, <2>2
<1>9. \A i \in Ids : i > lastId' => answers'[i] = 0
    BY <1>2 DEF QueueInv, Ids
<1> QED BY <1>1, <1>6, <1>7, <1>8, <1>9 DEF QueueInv

\* The first command leaves the queue.
LEMMA FirstLeaves ==
    ASSUME NshTypes, QueueInv, queue # <<>>, queue' = Tail(queue)
    PROVE  /\ Head(queue) \in Cmds /\ Head(queue) \in Waiting
           /\ Waiting = Waiting' \cup {Head(queue)}
           /\ Sorted(queue') /\ \A c \in Waiting' : Head(queue).id < c.id
<1>1. queue \in Seq(Cmds) /\ Sorted(queue)
    BY DEF NshTypes, TaskTypes, QueueInv
<1>2. Head(queue) \in Cmds /\ In(queue) = In(Tail(queue)) \cup {Head(queue)}
    BY <1>1, TailAt
<1>3. Sorted(Tail(queue)) /\ \A c \in In(Tail(queue)) : Head(queue).id < c.id
    BY <1>1, SortedTail
<1> QED BY <1>2, <1>3 DEF Waiting

\* At the start nothing is queued.
LEMMA QueueInit == Init => QueueInv
<1> SUFFICES ASSUME Init PROVE QueueInv
    OBVIOUS
<1>1. Len(queue) = 0 /\ Waiting = {}
    BY EmptySeq DEF Init, Waiting, In
<1>2. Sorted(queue)
    BY <1>1 DEF Sorted
<1> QED BY <1>1, <1>2 DEF Init, QueueInv, NoCmd

\* Every step keeps the queue in the order the commands were numbered.
LEMMA QueueStep == NshTypes /\ QueueInv /\ [Next]_vars => QueueInv'
<1> SUFFICES ASSUME NshTypes, QueueInv, [Next]_vars PROVE QueueInv'
    OBVIOUS
<1>0. /\ Waiting \subseteq Cmds /\ lastId \in Nat /\ pending.id \in Nat
      /\ (pending # NoCmd => pending \in Cmds) /\ (pending = NoCmd => pending.id = 0)
    BY SetTypes
<1>1. CASE RefuseCommand
  <2> DEFINE c == Head(queue)
  <2>1. /\ c \in Cmds /\ c \in Waiting /\ Waiting = Waiting' \cup {c} /\ Sorted(queue')
        /\ \A x \in Waiting' : c.id < x.id
      BY <1>1, FirstLeaves DEF RefuseCommand
  <2>2. pending = NoCmd /\ UNCHANGED <<pending, lastId>> /\ \E reply : Answer(c, reply)
      BY <1>1 DEF RefuseCommand
  <2>3. answers'[c.id] = 1 /\ \A i \in Ids : i # c.id => answers'[i] = answers[i]
      BY <2>1, <2>2, AnswersOne DEF QueueInv
  <2> HIDE DEF c
  <2>4. \A x \in Waiting' : /\ x \in Waiting /\ x.id # c.id /\ x.id \in Ids
      BY <1>0, <2>1, IdsPositive
  <2>5. c.id <= lastId /\ c.id \in Ids /\ c.id \in Nat
      BY <2>1, IdsPositive DEF QueueInv
  <2>6. \A i \in Ids : answers'[i] <= 1 /\ (i > lastId => answers'[i] = 0)
      BY <1>0, <2>3, <2>5 DEF QueueInv, Ids
  <2>7. \A x \in Waiting' : answers'[x.id] = 0
      BY <2>3, <2>4 DEF QueueInv
  <2> QED BY <1>0, <2>1, <2>2, <2>4, <2>6, <2>7 DEF QueueInv
<1>2. CASE SendCommand
  <2> DEFINE c == Head(queue)
  <2>1. /\ c \in Cmds /\ c \in Waiting /\ Waiting = Waiting' \cup {c} /\ Sorted(queue')
        /\ \A x \in Waiting' : c.id < x.id
      BY <1>2, FirstLeaves DEF SendCommand
  <2>2. pending' = c /\ UNCHANGED <<answers, lastId>>
      BY <1>2 DEF SendCommand, caller
  <2> HIDE DEF c
  <2> QED BY <2>1, <2>2 DEF QueueInv
<1>3. ASSUME pending # NoCmd, NEW reply, Answer(pending, reply), pending' = NoCmd,
             UNCHANGED <<queue, lastId>>
      PROVE  QueueInv'
  <2>1. pending \in Cmds /\ pending.id \in Ids /\ pending.id \in Nat /\ answers[pending.id] = 0
      BY <1>0, <1>3, IdsPositive DEF QueueInv
  <2>2. answers'[pending.id] = 1 /\ \A i \in Ids : i # pending.id => answers'[i] = answers[i]
      BY <1>3, <2>1, AnswersOne
  <2>3. Waiting' = Waiting /\ pending'.id = 0
      BY <1>3 DEF Waiting, NoCmd
  <2>4. \A x \in Waiting : x.id # pending.id /\ x.id \in Ids /\ x.id \in Nat /\ 0 < x.id
      BY <1>0, IdsPositive DEF QueueInv
  <2>5. \A i \in Ids : answers'[i] <= 1 /\ (i > lastId => answers'[i] = 0)
      BY <1>0, <2>1, <2>2 DEF QueueInv, Ids
  <2>6. \A x \in Waiting' : answers'[x.id] = 0
      BY <2>2, <2>3, <2>4 DEF QueueInv
  <2> QED BY <1>0, <1>3, <2>3, <2>4, <2>5, <2>6 DEF QueueInv
<1>4. CASE TakeOutput
  <2>1. CASE Head(back).prompt /\ pending # NoCmd
    <3>1. \E reply : Answer(pending, reply)
        BY <1>4, <2>1 DEF TakeOutput
    <3> QED BY <1>3, <1>4, <2>1, <3>1 DEF TakeOutput
  <2>2. CASE ~(Head(back).prompt /\ pending # NoCmd)
      BY <1>4, <2>2 DEF TakeOutput, QueueInv, Waiting
  <2> QED BY <2>1, <2>2
<1>5. CASE Expire
  <2>1. \E reply : Answer(pending, reply)
      BY <1>5 DEF Expire
  <2> QED BY <1>3, <1>5, <2>1 DEF Expire
<1>6. CASE UserCommand
    BY <1>6, QueuedLast DEF UserCommand
<1>7. CASE Begin
    BY <1>7, QueuedLast DEF Begin, RunNsh
<1>8. CASE Stopped /\ Room /\ RunNsh("start")
    BY <1>8, QueuedLast DEF Stopped, RunNsh
<1>9. ASSUME UNCHANGED <<queue, pending, answers, lastId>> PROVE QueueInv'
    BY <1>9 DEF QueueInv, Waiting
<1>10. CASE Stopped /\ UNCHANGED <<queue, lastId>>
    BY <1>9, <1>10 DEF Stopped
<1>11. CASE Refresh
    BY <1>9, <1>11 DEF Refresh, caller
<1>12. CASE Started
    BY <1>9, <1>12 DEF Started, task
<1>13. CASE RestartFails \/ WaitReady \/ WaitUnknown \/ WaitGivesUp
    BY <1>9, <1>13 DEF RestartFails, WaitReady, WaitUnknown, WaitGivesUp, task
<1>14. CASE LinkFails \/ LinkWithdrawn \/ LinkOpens
    BY <1>9, <1>14 DEF LinkFails, LinkWithdrawn, LinkOpens, caller
<1>15. CASE ShellBegins \/ ShellEchoes \/ \E bad \in BOOLEAN : ShellEnds(bad)
    BY <1>9, <1>15 DEF ShellBegins, ShellEchoes, ShellEnds, task, caller
<1>16. CASE StatusReceived \/ \E arm \in BOOLEAN : StatusSent(arm)
    BY <1>9, <1>16 DEF StatusReceived, StatusSent, task, caller
<1>17. CASE Tick
    BY <1>9, <1>17 DEF Tick
<1>18. CASE UNCHANGED vars
    BY <1>9, <1>18 DEF vars, task, caller
<1>19. Stopped => \/ Stopped /\ Room /\ RunNsh("start")
                  \/ Stopped /\ UNCHANGED <<queue, lastId>>
    BY DEF Stopped
<1> QED BY <1>1, <1>2, <1>4, <1>5, <1>6, <1>7, <1>8, <1>10, <1>11, <1>12, <1>13, <1>14, <1>15,
           <1>16, <1>17, <1>18, <1>19 DEF Next, NshTask, Restart

\* What is taken away leaves the rest in order.
LEMMA PipeLess ==
    ASSUME PipeInv, Sorted(out'), In(out') \subseteq In(out),
           Ordered(back'), In(back') \subseteq In(back),
           shell' = shell \/ shell' = NoCmd, Waiting' \subseteq Waiting,
           pending' = pending \/ pending' = NoCmd, lastId' = lastId
    PROVE  PipeInv'
<1>1. Underway' \subseteq Underway
    BY DEF Underway
<1>2. (shell' # NoCmd => shell # NoCmd /\ shell' = shell)
        /\ (pending' # NoCmd => pending # NoCmd /\ pending' = pending)
    OBVIOUS
<1>3. \A c \in Underway' :
          /\ c.id <= lastId' /\ \A w \in Waiting' : c.id < w.id
          /\ pending' # NoCmd => c.id <= pending'.id
    BY <1>1, <1>2 DEF PipeInv
<1>4. \A b \in In(back') :
          /\ b.piece.of <= lastId' /\ \A w \in Waiting' : b.piece.of < w.id
          /\ pending' # NoCmd => b.piece.of <= pending'.id
          /\ \A o \in In(out') : b.piece.of < o.id
          /\ shell' # NoCmd =>
                b.piece.of <= shell'.id /\ (b.prompt = TRUE => b.piece.of # shell'.id)
    BY <1>2 DEF PipeInv
<1>5. shell' # NoCmd => \A o \in In(out') : shell'.id < o.id
    BY <1>2 DEF PipeInv
<1> QED BY <1>3, <1>4, <1>5 DEF PipeInv

\* A command that is queued comes after all that is under way.
LEMMA PipeQueued ==
    ASSUME NshTypes, PipeInv, NEW what \in {"user", "stop", "start"}, lastId' = lastId + 1,
           Waiting' = Waiting \cup {[id |-> lastId + 1, what |-> what]},
           UNCHANGED <<out, back, shell, pending>>
    PROVE  PipeInv'
<1> DEFINE c == [id |-> lastId + 1, what |-> what]
<1>1. c.id = lastId + 1 /\ Waiting' = Waiting \cup {c}
    OBVIOUS
<1> HIDE DEF c
<1>2. Underway' = Underway /\ lastId \in Nat /\ Underway \subseteq Cmds /\ In(back) \subseteq Items
    BY SetTypes DEF Underway
<1>3. \A x \in Underway' :
          /\ x.id <= lastId' /\ \A w \in Waiting' : x.id < w.id
          /\ pending' # NoCmd => x.id <= pending'.id
  <2> SUFFICES ASSUME NEW x \in Underway
               PROVE  /\ x.id <= lastId' /\ \A w \in Waiting' : x.id < w.id
                      /\ pending' # NoCmd => x.id <= pending'.id
      BY <1>2
  <2>1. x.id \in Nat /\ x.id <= lastId
      BY <1>2, IdsPositive DEF PipeInv
  <2> QED BY <1>1, <1>2, <2>1 DEF PipeInv
<1>4. \A b \in In(back') :
          /\ b.piece.of <= lastId' /\ \A w \in Waiting' : b.piece.of < w.id
          /\ pending' # NoCmd => b.piece.of <= pending'.id
          /\ \A o \in In(out') : b.piece.of < o.id
          /\ shell' # NoCmd =>
                b.piece.of <= shell'.id /\ (b.prompt = TRUE => b.piece.of # shell'.id)
  <2> SUFFICES ASSUME NEW b \in In(back)
               PROVE  /\ b.piece.of <= lastId' /\ \A w \in Waiting' : b.piece.of < w.id
                      /\ pending' # NoCmd => b.piece.of <= pending'.id
                      /\ \A o \in In(out') : b.piece.of < o.id
                      /\ shell' # NoCmd =>
                            b.piece.of <= shell'.id /\ (b.prompt = TRUE => b.piece.of # shell'.id)
      OBVIOUS
  <2>1. b.piece.of \in Nat /\ b.piece.of <= lastId
      BY <1>2, NshAssumption DEF PipeInv, Items, Pieces, Ids
  <2> QED BY <1>1, <1>2, <2>1 DEF PipeInv
<1> QED BY <1>3, <1>4 DEF PipeInv

\* At the start nothing is under way.
LEMMA PipeInit == Init => PipeInv
<1> SUFFICES ASSUME Init PROVE PipeInv
    OBVIOUS
<1>1. Len(out) = 0 /\ Len(back) = 0
    BY EmptySeq DEF Init
<1>2. In(out) = {} /\ In(back) = {} /\ Sorted(out) /\ Ordered(back)
    BY <1>1 DEF In, Sorted, Ordered
<1>3. Underway = {} /\ shell = NoCmd
    BY <1>2 DEF Init, Underway
<1> QED BY <1>2, <1>3 DEF PipeInv

\* The command that is sent goes to the end of what is under way, and is pending.
LEMMA PipeSent ==
    ASSUME NshTypes, QueueInv, PipeInv, SendCommand
    PROVE  /\ PipeInv' /\ Head(queue) \in Cmds /\ Waiting = Waiting' \cup {Head(queue)}
           /\ Underway' = Underway \cup {Head(queue)} /\ pending' = Head(queue)
<1> DEFINE c == Head(queue)
<1>1. /\ c \in Cmds /\ c \in Waiting /\ Waiting = Waiting' \cup {c}
      /\ \A x \in Waiting' : c.id < x.id
    BY FirstLeaves DEF SendCommand
<1>2. pending' = c /\ UNCHANGED <<back, shell, lastId>> /\ out' = Append(out, c)
    BY DEF SendCommand, board, caller
<1>3. In(out') = In(out) \cup {c}
    BY <1>1, <1>2, AppendAt DEF NshTypes, WireTypes
<1> HIDE DEF c
<1>4. \A x \in Underway : x.id < c.id
    BY <1>1 DEF PipeInv
<1>5. In(out) \subseteq Underway
    BY DEF Underway
<1>6. Sorted(out')
    BY <1>1, <1>2, <1>4, <1>5, SortedAppend DEF NshTypes, WireTypes, PipeInv
<1>7. Underway' = Underway \cup {c}
    BY <1>2, <1>3 DEF Underway
<1>8. /\ c.id \in Nat /\ c.id <= lastId /\ Underway \subseteq Cmds /\ In(back) \subseteq Items
    BY <1>1, IdsPositive, SetTypes DEF QueueInv
<1>9. shell' # NoCmd => \A o \in In(out') : shell'.id < o.id
  <2> SUFFICES ASSUME shell # NoCmd, NEW o \in In(out) \cup {c} PROVE shell.id < o.id
      BY <1>2, <1>3
  <2>1. shell \in Underway
      BY DEF Underway
  <2> QED BY <1>4, <2>1 DEF PipeInv
<1>10. \A x \in Underway' :
          /\ x.id <= lastId' /\ \A w \in Waiting' : x.id < w.id
          /\ pending' # NoCmd => x.id <= pending'.id
  <2> SUFFICES ASSUME NEW x \in Underway \cup {c}
               PROVE  x.id <= lastId /\ (\A w \in Waiting' : x.id < w.id) /\ x.id <= c.id
      BY <1>2, <1>7
  <2>1. CASE x = c
      BY <1>1, <1>8, <2>1
  <2>2. CASE x \in Underway
    <3>1. x.id \in Nat /\ x.id < c.id
        BY <1>4, <1>8, <2>2, IdsPositive
    <3> QED BY <1>1, <1>8, <2>2, <3>1 DEF PipeInv
  <2> QED BY <2>1, <2>2
<1>11. \A b \in In(back') :
          /\ b.piece.of <= lastId' /\ \A w \in Waiting' : b.piece.of < w.id
          /\ pending' # NoCmd => b.piece.of <= pending'.id
          /\ \A o \in In(out') : b.piece.of < o.id
          /\ shell' # NoCmd =>
                b.piece.of <= shell'.id /\ (b.prompt = TRUE => b.piece.of # shell'.id)
  <2> SUFFICES ASSUME NEW b \in In(back)
               PROVE  /\ b.piece.of <= lastId /\ \A w \in Waiting' : b.piece.of < w.id
                      /\ b.piece.of <= c.id
                      /\ \A o \in In(out) \cup {c} : b.piece.of < o.id
                      /\ shell # NoCmd =>
                            b.piece.of <= shell.id /\ (b.prompt = TRUE => b.piece.of # shell.id)
      BY <1>2, <1>3
  <2>1. b.piece.of \in Nat /\ b.piece.of < c.id
      BY <1>1, <1>8, NshAssumption DEF PipeInv, Items, Pieces, Ids
  <2> QED BY <1>1, <1>8, <2>1 DEF PipeInv
<1> QED BY <1>1, <1>2, <1>6, <1>7, <1>9, <1>10, <1>11 DEF PipeInv, c

\* What the shell says of a command comes after what it said before, and its prompt
\* when it is done.
LEMMA PipeSaid ==
    ASSUME NshTypes, PipeInv, shell # NoCmd, NEW item \in Items, item.piece.of = shell.id,
           back' = Append(back, item), shell' = NoCmd \/ (shell' = shell /\ item.prompt = FALSE),
           UNCHANGED <<out, queue, pending, lastId>>
    PROVE  PipeInv' /\ In(back') = In(back) \cup {item} /\ Underway' \subseteq Underway
<1>1. In(back') = In(back) \cup {item}
    BY AppendAt DEF NshTypes, WireTypes
<1>2. Underway' \subseteq Underway /\ shell \in Underway /\ In(out) \subseteq Underway
    BY DEF Underway
<1>3. \A b \in In(back) : Precedes(b, item)
    BY DEF PipeInv, Precedes
<1>4. Ordered(back')
    BY <1>3, OrderedAppend DEF NshTypes, WireTypes, PipeInv
<1>5. Waiting' = Waiting
    BY DEF Waiting
<1>6. \A c \in Underway' :
          /\ c.id <= lastId' /\ \A w \in Waiting' : c.id < w.id
          /\ pending' # NoCmd => c.id <= pending'.id
    BY <1>2, <1>5 DEF PipeInv
<1>7. \A b \in In(back') :
          /\ b.piece.of <= lastId' /\ \A w \in Waiting' : b.piece.of < w.id
          /\ pending' # NoCmd => b.piece.of <= pending'.id
          /\ \A o \in In(out') : b.piece.of < o.id
          /\ shell' # NoCmd =>
                b.piece.of <= shell'.id /\ (b.prompt = TRUE => b.piece.of # shell'.id)
  <2> SUFFICES ASSUME NEW b \in In(back) \cup {item}
               PROVE  /\ b.piece.of <= lastId /\ \A w \in Waiting : b.piece.of < w.id
                      /\ pending # NoCmd => b.piece.of <= pending.id
                      /\ \A o \in In(out) : b.piece.of < o.id
                      /\ shell' # NoCmd =>
                            b.piece.of <= shell'.id /\ (b.prompt = TRUE => b.piece.of # shell'.id)
      BY <1>1, <1>5
  <2>1. CASE b \in In(back)
      BY <2>1 DEF PipeInv
  <2>2. CASE b = item
    <3>1. shell.id \in Nat
        BY IdsPositive, SetTypes
    <3> QED BY <1>2, <2>2, <3>1 DEF PipeInv
  <2> QED BY <2>1, <2>2
<1>8. Sorted(out') /\ (shell' # NoCmd => \A o \in In(out') : shell'.id < o.id)
    BY DEF PipeInv
<1> QED BY <1>1, <1>2, <1>4, <1>6, <1>7, <1>8 DEF PipeInv

\* The shell begins the first of the commands on the link.
LEMMA PipeBegins ==
    ASSUME NshTypes, PipeInv, ShellBegins
    PROVE  PipeInv' /\ Underway' = Underway
<1> DEFINE c == Head(out)
<1>1. /\ shell = NoCmd /\ out # <<>> /\ shell' = c /\ out' = Tail(out)
      /\ UNCHANGED <<queue, pending, lastId, back>>
    BY DEF ShellBegins, task, caller
<1>2. out \in Seq(Cmds) /\ Sorted(out)
    BY DEF NshTypes, WireTypes, PipeInv
<1>3. c \in Cmds /\ In(out) = In(out') \cup {c}
    BY <1>1, <1>2, TailAt
<1>4. Sorted(out') /\ \A o \in In(out') : c.id < o.id
    BY <1>1, <1>2, SortedTail
<1> HIDE DEF c
<1>5. c # NoCmd /\ Underway = In(out) /\ Underway' = In(out') \cup {c}
    BY <1>1, <1>3, IdsPositive DEF Underway
<1>6. Underway' = Underway /\ Waiting' = Waiting
    BY <1>1, <1>3, <1>5 DEF Waiting
<1>7. \A b \in In(back) : b.piece.of \in Nat /\ c.id \in Nat /\ b.piece.of < c.id
    BY <1>3, SetTypes, IdsPositive, NshAssumption DEF PipeInv, Items, Pieces, Ids
<1>8. \A b \in In(back') :
          /\ b.piece.of <= lastId' /\ \A w \in Waiting' : b.piece.of < w.id
          /\ pending' # NoCmd => b.piece.of <= pending'.id
          /\ \A o \in In(out') : b.piece.of < o.id
          /\ shell' # NoCmd =>
                b.piece.of <= shell'.id /\ (b.prompt = TRUE => b.piece.of # shell'.id)
    BY <1>1, <1>3, <1>6, <1>7 DEF PipeInv
<1> QED BY <1>1, <1>4, <1>6, <1>8 DEF PipeInv

\* Every step keeps the numbers in order along the pipeline.
LEMMA PipeStep == NshTypes /\ QueueInv /\ PipeInv /\ [Next]_vars => PipeInv'
<1> SUFFICES ASSUME NshTypes, QueueInv, PipeInv, [Next]_vars PROVE PipeInv'
    OBVIOUS
<1>0. Sorted(out) /\ Ordered(back)
    BY DEF PipeInv
<1>e. In(<<>>) = {} /\ Sorted(<<>>) /\ Ordered(<<>>)
    BY EmptySeq DEF In, Sorted, Ordered
<1>1. CASE RefuseCommand
  <2>1. Waiting' \subseteq Waiting
      BY <1>1, FirstLeaves DEF RefuseCommand
  <2> QED BY <1>0, <1>1, <2>1, PipeLess DEF RefuseCommand, wire, board
<1>2. CASE SendCommand
    BY <1>2, PipeSent
<1>3. CASE TakeOutput
  <2>1. /\ back # <<>> /\ back' = Tail(back) /\ (pending' = pending \/ pending' = NoCmd)
        /\ UNCHANGED <<queue, out, shell, lastId>>
      BY <1>3 DEF TakeOutput, board
  <2>2. back \in Seq(Items)
      BY DEF NshTypes, WireTypes
  <2>3. Ordered(back') /\ In(back') \subseteq In(back)
    <3>1. Ordered(Tail(back))
        BY <1>0, <2>1, <2>2, OrderedTail
    <3>2. In(back) = In(Tail(back)) \cup {Head(back)}
        BY <2>1, <2>2, TailAt
    <3> QED BY <2>1, <3>1, <3>2
  <2> QED BY <1>0, <2>1, <2>3, PipeLess DEF Waiting
<1>4. CASE Expire
    BY <1>0, <1>4, PipeLess DEF Expire, wire, board, Waiting
<1>5. CASE UserCommand
  <2>1. Waiting' = Waiting \cup {[id |-> lastId + 1, what |-> "user"]}
      BY <1>5, QueuedLast DEF UserCommand
  <2> QED BY <1>5, <2>1, PipeQueued DEF UserCommand, wire, board
<1>6. CASE Begin
  <2>1. Waiting' = Waiting \cup {[id |-> lastId + 1, what |-> "stop"]}
      BY <1>6, QueuedLast DEF Begin, RunNsh
  <2> QED BY <1>6, <2>1, PipeQueued DEF Begin, RunNsh, wire
<1>7. CASE Stopped /\ Room /\ RunNsh("start")
  <2>1. Waiting' = Waiting \cup {[id |-> lastId + 1, what |-> "start"]}
      BY <1>7, QueuedLast DEF Stopped, RunNsh
  <2> QED BY <1>7, <2>1, PipeQueued DEF Stopped, RunNsh, wire, board
<1>8. ASSUME UNCHANGED <<queue, pending, out, back, shell, lastId>> PROVE PipeInv'
    BY <1>0, <1>8, PipeLess DEF Waiting
<1>9. CASE Stopped /\ UNCHANGED <<queue, lastId>>
    BY <1>8, <1>9 DEF Stopped, wire, board
<1>10. CASE Refresh
    BY <1>8, <1>10 DEF Refresh, caller, wire, board
<1>11. CASE Started
    BY <1>8, <1>11 DEF Started, task, wire, board
<1>12. CASE RestartFails \/ WaitReady \/ WaitUnknown \/ WaitGivesUp
    BY <1>8, <1>12 DEF RestartFails, WaitReady, WaitUnknown, WaitGivesUp, task, wire, board
<1>13. CASE LinkFails
    BY <1>0, <1>e, <1>13, PipeLess DEF LinkFails, caller, Waiting
<1>14. CASE LinkWithdrawn
    BY <1>8, <1>14 DEF LinkWithdrawn, caller, wire, board
<1>15. CASE LinkOpens
    BY <1>0, <1>e, <1>15, PipeLess DEF LinkOpens, caller, board, Waiting
<1>16. CASE ShellBegins
    BY <1>16, PipeBegins
<1>17. CASE ShellEchoes
  <2> DEFINE item == [piece |-> Sent(shell), prompt |-> FALSE]
  <2>1. shell # NoCmd /\ back' = Append(back, item) /\ UNCHANGED <<out, shell, queue, pending, lastId>>
      BY <1>17 DEF ShellEchoes, board, task, caller
  <2>2. item \in Items /\ item.piece.of = shell.id /\ item.prompt = FALSE
      BY <2>1 DEF NshTypes, BoardTypes, Items, Sent, Pieces, Cmds
  <2> HIDE DEF item
  <2> QED BY <2>1, <2>2, PipeSaid
<1>18. ASSUME NEW bad \in BOOLEAN, ShellEnds(bad) PROVE PipeInv'
  <2> DEFINE item == [piece |-> [of |-> shell.id, bad |-> bad], prompt |-> TRUE]
  <2>1. /\ shell # NoCmd /\ back' = Append(back, item) /\ shell' = NoCmd
        /\ UNCHANGED <<out, queue, pending, lastId>>
      BY <1>18 DEF ShellEnds, task, caller
  <2>2. item \in Items /\ item.piece.of = shell.id
      BY <2>1 DEF NshTypes, BoardTypes, Items, Pieces, Cmds
  <2> HIDE DEF item
  <2> QED BY <2>1, <2>2, PipeSaid
<1>19. CASE StatusReceived \/ \E arm \in BOOLEAN : StatusSent(arm)
    BY <1>8, <1>19 DEF StatusReceived, StatusSent, task, caller, wire, board
<1>20. CASE Tick
    BY <1>8, <1>20 DEF Tick, wire, board
<1>21. CASE UNCHANGED vars
    BY <1>8, <1>21 DEF vars, task, caller, wire, board
<1>22. Stopped => \/ Stopped /\ Room /\ RunNsh("start")
                  \/ Stopped /\ UNCHANGED <<queue, lastId>>
    BY DEF Stopped
<1> QED BY <1>1, <1>2, <1>3, <1>4, <1>5, <1>6, <1>7, <1>9, <1>10, <1>11, <1>12, <1>13, <1>14,
           <1>15, <1>16, <1>17, <1>18, <1>19, <1>20, <1>21, <1>22 DEF Next, NshTask, Restart

------------------------------------------------------------------------------
(* What a restart hears.                                                   *)

\* At the start nothing was taken for an answer.
LEMMA EchoInit == Init => EchoInv
<1> SUFFICES ASSUME Init PROVE EchoInv
    OBVIOUS
<1> USE NshAssumption
<1>1. Len(queue) = 0 /\ Len(out) = 0
    BY EmptySeq DEF Init
<1>2. Waiting = {} /\ Underway = {}
    BY <1>1 DEF Init, Waiting, Underway, In
<1> QED BY <1>2 DEF Init, EchoInv

\* What is answered, or taken away, leaves the rest of a restart's command as it is.
LEMMA EchoLess ==
    ASSUME EchoInv, Waiting' \subseteq Waiting, Underway' \subseteq Underway \cup Waiting,
           pending' = pending \/ pending' = NoCmd, deadline' = deadline \/ pending' = NoCmd,
           UNCHANGED <<lastId, flow, own, timer, inbox, echoed>>
    PROVE  EchoInv'
BY DEF EchoInv

\* A restart that ends waits for no answer.
LEMMA EchoEnds ==
    ASSUME NshTypes, EchoInv, flow' \notin {"stop", "start"}, own' = 0, timer' = 0,
           inbox' = NoReply, echoed' = FALSE,
           UNCHANGED <<lastId, queue, pending, deadline, out, shell>>
    PROVE  EchoInv'
<1>1. Waiting' = Waiting /\ Underway' = Underway
    BY DEF Waiting, Underway
<1>2. /\ \A c \in Waiting : c.id # 0
      /\ \A c \in Underway : c.id # 0
      /\ pending # NoCmd => pending.id # 0
    BY SetTypes, IdsPositive
<1>3. lastId \in Nat /\ 0 <= lastId /\ 0 <= ReplyTimeout
    BY SetTypes, NshAssumption
<1> QED BY <1>1, <1>2, <1>3 DEF EchoInv

\* A restart that queues a command waits for that one.
LEMMA EchoQueued ==
    ASSUME NshTypes, QueueInv, PipeInv, EchoInv, Room, NEW what \in {"stop", "start"},
           RunNsh(what), flow' = what, echoed' = FALSE,
           UNCHANGED <<pending, answers, deadline, out, shell>>
    PROVE  EchoInv'
<1> DEFINE c == [id |-> lastId + 1, what |-> what]
<1>1. Waiting' = Waiting \cup {c} /\ Underway' = Underway
    BY QueuedLast DEF RunNsh, Underway
<1>2. lastId' = lastId + 1 /\ own' = lastId + 1 /\ timer' = ReplyTimeout /\ inbox' = NoReply
    BY DEF RunNsh
<1>3. /\ c.id = lastId + 1 /\ c.what = what /\ lastId \in Nat
      /\ pending.id \in Nat /\ pending.id <= lastId
    BY SetTypes DEF QueueInv
<1>4. /\ \A x \in Waiting : x.id \in Nat /\ x.id <= lastId
      /\ \A x \in Underway : x.id \in Nat /\ x.id <= lastId
    BY SetTypes, IdsPositive DEF QueueInv, PipeInv
<1> HIDE DEF c
<1>5. \A x \in Waiting' : x.id = own' => x.what = flow' /\ inbox' = NoReply
  <2> SUFFICES ASSUME NEW x \in Waiting \cup {c}, x.id = lastId + 1 PROVE x.what = what
      BY <1>1, <1>2
  <2> QED BY <1>3, <1>4
<1>6. \A x \in Underway' : x.id = own' => x.what = flow'
    BY <1>1, <1>2, <1>3, <1>4
<1>7. pending' # NoCmd /\ pending'.id = own' => FALSE
    BY <1>2, <1>3
<1>8. own' <= lastId' /\ timer' <= ReplyTimeout /\ own' # 0
    BY <1>2, <1>3, NshAssumption
<1> QED BY <1>2, <1>5, <1>6, <1>7, <1>8 DEF EchoInv

\* The answer to the pending command, when it is the restart's, finds nothing left of it
\* in the queue.
LEMMA EchoAnswered ==
    ASSUME NshTypes, QueueInv, EchoInv, pending # NoCmd, NEW reply \in Replies,
           Answer(pending, reply), pending' = NoCmd,
           pending.id = own => reply.ok = TRUE /\ reply.by = "prompt",
           UNCHANGED <<queue, out, shell, lastId, flow, own, timer, echoed>>
    PROVE  EchoInv'
<1>1. Waiting' = Waiting /\ Underway' = Underway
    BY DEF Waiting, Underway
<1>2. pending.id # 0 /\ \A c \in Waiting : c.id # pending.id
    BY SetTypes, IdsPositive DEF QueueInv
<1>3. CASE pending.id = own
  <2>1. inbox' = reply
      BY <1>3 DEF Answer
  <2> QED BY <1>1, <1>2, <1>3, <2>1 DEF EchoInv
<1>4. CASE pending.id # own
  <2>1. inbox' = inbox
      BY <1>4 DEF Answer
  <2> QED BY <1>1, <2>1 DEF EchoInv
<1> QED BY <1>3, <1>4

\* The deadline of a restart's command never ends it: the restart has given up before.
LEMMA PatienceEnough ==
    ASSUME NshTypes, EchoInv, pending # NoCmd, deadline = 0
    PROVE  pending.id # own
<1> SUFFICES ASSUME pending.id = own PROVE FALSE
    OBVIOUS
<1>1. deadline >= timer + (TaskTimeout - ReplyTimeout) /\ timer \in 0..Longest
    BY DEF EchoInv, NshTypes, CallerTypes
<1> QED BY <1>1, NshAssumption

\* Every step keeps what EchoInv says of the own command and its answer.
LEMMA EchoStep ==
    NshTypes /\ QueueInv /\ PipeInv /\ EchoInv /\ [Next]_vars => EchoInv'
<1> SUFFICES ASSUME NshTypes, QueueInv, PipeInv, EchoInv, [Next]_vars PROVE EchoInv'
    OBVIOUS
<1> USE NshAssumption
<1>1. CASE RefuseCommand
  <2> DEFINE c == Head(queue)
             reply == [ok |-> FALSE, by |-> "link", text |-> {}]
  <2>1. /\ c \in Cmds /\ Waiting = Waiting' \cup {c} /\ \A x \in Waiting' : c.id < x.id
      BY <1>1, FirstLeaves DEF RefuseCommand
  <2>2. /\ pending = NoCmd /\ Answer(c, reply) /\ Underway' = Underway
        /\ UNCHANGED <<pending, lastId, flow, own, timer, echoed>>
      BY <1>1 DEF RefuseCommand, wire, board, Underway
  <2>3. reply.ok = FALSE /\ reply.by = "link"
      OBVIOUS
  <2>4. \A x \in Waiting' : x \in Waiting /\ x.id # c.id
      BY <2>1, SetTypes, IdsPositive
  <2>5. c.id # 0
      BY <2>1, IdsPositive
  <2> HIDE DEF c, reply
  <2>6. CASE c.id = own
    <3>1. inbox' = reply
        BY <2>2, <2>6 DEF Answer
    <3> QED BY <2>1, <2>2, <2>3, <2>4, <2>5, <2>6, <3>1 DEF EchoInv
  <2>7. CASE c.id # own
    <3>1. inbox' = inbox
        BY <2>2, <2>7 DEF Answer
    <3> QED BY <2>1, <2>2, <3>1 DEF EchoInv
  <2> QED BY <2>6, <2>7
<1>2. CASE SendCommand
  <2> DEFINE c == Head(queue)
  <2>1. /\ c \in Cmds /\ Waiting = Waiting' \cup {c} /\ Underway' = Underway \cup {c}
        /\ pending' = c /\ UNCHANGED <<lastId, flow, own, timer, inbox, echoed>>
      BY <1>2, PipeSent DEF SendCommand, caller
  <2>2. deadline' = Patience(c)
      BY <1>2 DEF SendCommand
  <2> HIDE DEF c
  <2>3. c.id = own => c.what = flow /\ inbox = NoReply
      BY <2>1 DEF EchoInv
  <2>4. c.id = own => deadline' = TaskTimeout
    <3>1. c.id = own => flow \in {"stop", "start"}
        BY <2>1, IdsPositive DEF EchoInv
    <3> QED BY <2>2, <2>3, <3>1 DEF Patience
  <2>5. timer \in Nat /\ timer <= ReplyTimeout
      BY DEF EchoInv, NshTypes, CallerTypes
  <2>6. c.id = own => deadline' >= timer' + (TaskTimeout - ReplyTimeout)
      BY <2>1, <2>4, <2>5
  <2> QED BY <2>1, <2>3, <2>6 DEF EchoInv
<1>3. CASE TakeOutput
  <2>1. CASE Head(back).prompt /\ pending # NoCmd
    <3> DEFINE reply == [ok |-> TRUE, by |-> "prompt", text |-> buffer \cup {Head(back).piece}]
    <3>1. reply \in Replies
      <4>1. Head(back) \in Items /\ buffer \subseteq Pieces
          BY <1>3, TailAt DEF TakeOutput, NshTypes, WireTypes, TaskTypes
      <4> QED BY <4>1 DEF Items, Replies
    <3>2. /\ Answer(pending, reply) /\ pending' = NoCmd
          /\ UNCHANGED <<queue, out, shell, lastId, flow, own, timer, echoed>>
        BY <1>3, <2>1 DEF TakeOutput, board
    <3>3. reply.ok = TRUE /\ reply.by = "prompt"
        OBVIOUS
    <3> HIDE DEF reply
    <3> QED BY <2>1, <3>1, <3>2, <3>3, EchoAnswered
  <2>2. CASE ~(Head(back).prompt /\ pending # NoCmd)
    <3>1. UNCHANGED <<queue, pending, deadline, out, shell, lastId, flow, own, timer, inbox, echoed>>
        BY <1>3, <2>2 DEF TakeOutput, board
    <3> QED BY <3>1, EchoLess DEF Waiting, Underway
  <2> QED BY <2>1, <2>2
<1>4. CASE Expire
  <2> DEFINE reply == [ok |-> buffer # {}, by |-> "deadline", text |-> buffer]
  <2>1. reply \in Replies
      BY DEF Replies, NshTypes, TaskTypes
  <2>2. /\ pending # NoCmd /\ deadline = 0 /\ Answer(pending, reply) /\ pending' = NoCmd
        /\ UNCHANGED <<queue, out, shell, lastId, flow, own, timer, echoed>>
      BY <1>4 DEF Expire, wire, board
  <2> HIDE DEF reply
  <2> QED BY <2>1, <2>2, PatienceEnough, EchoAnswered
<1>5. CASE UserCommand
  <2> DEFINE c == [id |-> lastId + 1, what |-> "user"]
  <2>1. /\ Waiting' = Waiting \cup {c} /\ lastId' = lastId + 1 /\ Underway' = Underway
        /\ UNCHANGED <<pending, deadline, flow, own, timer, inbox, echoed>>
      BY <1>5, QueuedLast DEF UserCommand, wire, board, Underway
  <2>2. c.id # own /\ own <= lastId' /\ lastId \in Nat /\ own \in Nat
      BY <2>1, SetTypes DEF EchoInv
  <2> HIDE DEF c
  <2> QED BY <2>1, <2>2 DEF EchoInv
<1>6. CASE Begin
    BY <1>6, EchoQueued DEF Begin, wire, EchoInv
<1>7. echoed' = FALSE \/ ~(Stopped \/ Started)
  <2>1. CASE Stopped \/ Started
    <3>1. inbox # NoReply /\ inbox.ok /\ echoed' = (echoed \/ inbox.by # "prompt")
        BY <2>1 DEF Stopped, Started, Accepted
    <3> QED BY <3>1 DEF EchoInv
  <2> QED BY <2>1
<1>8. CASE Stopped /\ Room /\ RunNsh("start") /\ flow' = "start"
    BY <1>7, <1>8, EchoQueued DEF Stopped, wire, board
<1>9. CASE Stopped /\ Ended("failed", "none") /\ UNCHANGED <<queue, lastId>>
    BY <1>7, <1>9, EchoEnds DEF Stopped, Ended, wire, board
<1>10. CASE Started
    BY <1>7, <1>10, EchoEnds DEF Started, task, wire, board
<1>11. CASE RestartFails \/ WaitReady \/ WaitUnknown \/ WaitGivesUp
  <2>1. \E end, of : Ended(end, of)
      BY <1>11 DEF RestartFails, WaitReady, WaitUnknown, WaitGivesUp
  <2>2. UNCHANGED <<task, wire, board, lastId, echoed, health>>
      BY <1>11 DEF RestartFails, WaitReady, WaitUnknown, WaitGivesUp
  <2>3. echoed = FALSE
      BY DEF EchoInv
  <2> QED BY <2>1, <2>2, <2>3, EchoEnds DEF Ended, task, wire, board
<1>12. ASSUME UNCHANGED <<queue, pending, deadline, lastId, flow, own, timer, inbox, echoed>>,
              Underway' \subseteq Underway
       PROVE  EchoInv'
    BY <1>12, EchoLess DEF Waiting
<1>e. In(<<>>) = {}
    BY EmptySeq DEF In
<1>13. CASE LinkFails \/ LinkOpens
    BY <1>12, <1>13, <1>e DEF LinkFails, LinkOpens, caller, board, Underway
<1>14. CASE Refresh \/ LinkWithdrawn
    BY <1>12, <1>14 DEF Refresh, LinkWithdrawn, caller, wire, board, Underway
<1>15. CASE ShellBegins
    BY <1>12, <1>15, PipeBegins DEF ShellBegins, task, caller
<1>16. CASE ShellEchoes \/ \E bad \in BOOLEAN : ShellEnds(bad)
    BY <1>12, <1>16 DEF ShellEchoes, ShellEnds, task, caller, board, Underway
<1>17. CASE StatusReceived \/ \E arm \in BOOLEAN : StatusSent(arm)
    BY <1>12, <1>17 DEF StatusReceived, StatusSent, task, caller, wire, board, Underway
<1>18. CASE Tick
  <2>1. /\ ~(flow \in {"stop", "start"} /\ timer = 0)
        /\ deadline' = Minus1(deadline) /\ timer' = Minus1(timer)
        /\ UNCHANGED <<queue, pending, out, shell, lastId, flow, own, inbox, echoed>>
      BY <1>18 DEF Tick, wire, board
  <2>2. Waiting' = Waiting /\ Underway' = Underway
      BY <2>1 DEF Waiting, Underway
  <2>3. timer \in Nat /\ deadline \in Nat /\ timer <= ReplyTimeout
      BY DEF EchoInv, NshTypes, CallerTypes, TaskTypes
  <2>4. timer' <= ReplyTimeout
      BY <2>1, <2>3 DEF Minus1
  <2>5. pending # NoCmd /\ pending.id = own =>
            deadline' >= timer' + (TaskTimeout - ReplyTimeout)
    <3> SUFFICES ASSUME pending # NoCmd, pending.id = own
                 PROVE  deadline' >= timer' + (TaskTimeout - ReplyTimeout)
        OBVIOUS
    <3>1. own # 0
        BY SetTypes, IdsPositive
    <3>2. timer # 0
        BY <2>1, <3>1 DEF EchoInv
    <3>3. deadline >= timer + (TaskTimeout - ReplyTimeout)
        BY DEF EchoInv
    <3> QED BY <2>1, <2>3, <3>2, <3>3 DEF Minus1
  <2> QED BY <2>1, <2>2, <2>4, <2>5 DEF EchoInv
<1>19. CASE UNCHANGED vars
    BY <1>12, <1>19 DEF vars, task, caller, wire, board, Underway
<1>20. Stopped => \/ Stopped /\ Room /\ RunNsh("start") /\ flow' = "start"
                  \/ Stopped /\ Ended("failed", "none") /\ UNCHANGED <<queue, lastId>>
    BY DEF Stopped
<1> QED BY <1>1, <1>2, <1>3, <1>4, <1>5, <1>6, <1>8, <1>9, <1>10, <1>11, <1>13, <1>14, <1>15,
           <1>16, <1>17, <1>18, <1>19, <1>20 DEF Next, NshTask, Restart

------------------------------------------------------------------------------
(* What a restart that succeeded says.                                     *)

OpenCommands == Waiting \cup Underway

\* Commands that a browser sends, output without a prompt, and a refusal, change
\* nothing for a restart.
LEMMA StagesKept ==
    ASSUME StagesInv,
           \A c \in OpenCommands' : c \in OpenCommands \/ (c.what = "user" /\ c.id # own),
           \A b \in In(back') : b \in In(back) \/ b.prompt = FALSE,
           inbox' = inbox \/ inbox'.ok = FALSE,
           UNCHANGED <<flow, own, ekf, flight, since, report, verdict>>
    PROVE  StagesInv'
<1>1. StopInv'
    BY DEF StagesInv, StopInv, Users, OpenCommands
<1>2. StartInv'
  <2> SUFFICES ASSUME flow = "start" PROVE StartInv'
      BY DEF StartInv
  <2>1. \A c \in OpenCommands' : c.id # own => c.what = "user"
      BY DEF StagesInv, StartInv, OpenCommands
  <2>2. \A c \in OpenCommands' : c.id = own => ekf' = "stopped" /\ inbox'.ok = FALSE
      BY DEF StagesInv, StartInv, OpenCommands
  <2>3. \A b \in In(back') :
            b.prompt = TRUE /\ b.piece.of = own /\ b.piece.bad = FALSE => ekf' = "new"
      BY DEF StagesInv, StartInv
  <2>4. inbox'.ok = TRUE /\ (\A piece \in inbox'.text : piece.bad = FALSE) => ekf' = "new"
      BY DEF StagesInv, StartInv
  <2> QED BY <2>1, <2>2, <2>3, <2>4 DEF StartInv, OpenCommands
<1>3. WaitInv'
    BY DEF StagesInv, WaitInv, Users, OpenCommands
<1>4. ReadyDescribesNew'
    BY DEF StagesInv, ReadyDescribesNew
<1> QED BY <1>1, <1>2, <1>3, <1>4 DEF StagesInv

\* The prompt of a restart's own command shows that nothing is left of it, or of a
\* command before it.
LEMMA OwnPrompt ==
    ASSUME NshTypes, QueueInv, PipeInv, EchoInv, StagesInv, TakeOutput,
           Head(back).prompt = TRUE, pending # NoCmd, pending.id = own,
           Head(back).piece.of = own
    PROVE  StagesInv'
<1> DEFINE b == Head(back)
<1>1. /\ back # <<>> /\ back' = Tail(back)
      /\ inbox' = [ok |-> TRUE, by |-> "prompt", text |-> buffer \cup {b.piece}]
      /\ UNCHANGED <<queue, out, shell, lastId, flow, own, ekf, flight, since, report, verdict>>
    BY DEF TakeOutput, Answer, board, health
<1>2. back \in Seq(Items) /\ Ordered(back)
    BY DEF NshTypes, WireTypes, PipeInv
<1>3. b \in Items /\ In(back) = In(Tail(back)) \cup {b}
    BY <1>1, <1>2, TailAt
<1>4. \A x \in In(Tail(back)) : Precedes(b, x)
    BY <1>1, <1>2, OrderedTail
<1> HIDE DEF b
<1>5. b.prompt = TRUE /\ b.piece.of = own /\ b \in In(back)
    BY <1>3 DEF b
<1>6. own \in Nat /\ In(back) \subseteq Items /\ Underway \subseteq Cmds /\ Waiting \subseteq Cmds
    BY SetTypes
<1>7. In(back') = {}
  <2> SUFFICES ASSUME NEW x \in In(Tail(back)) PROVE FALSE
      BY <1>1
  <2>1. x \in In(back) /\ Precedes(b, x) /\ x.piece.of \in Nat
      BY <1>3, <1>4, <1>6, NshAssumption DEF Items, Pieces, Ids
  <2>2. x.piece.of <= own
      BY <2>1 DEF PipeInv
  <2> QED BY <1>5, <1>6, <2>1, <2>2 DEF Precedes
<1>8. shell = NoCmd
  <2> SUFFICES ASSUME shell # NoCmd PROVE FALSE
      OBVIOUS
  <2>1. shell \in Underway /\ shell.id \in Nat
      BY SetTypes, IdsPositive DEF Underway
  <2>2. shell.id <= own /\ own <= shell.id /\ own # shell.id
      BY <1>5, <2>1 DEF PipeInv
  <2> QED BY <1>6, <2>1, <2>2
<1>9. In(out) = {}
  <2> SUFFICES ASSUME NEW o \in In(out) PROVE FALSE
      OBVIOUS
  <2>1. o \in Underway /\ o.id \in Nat
      BY <1>6, IdsPositive DEF Underway
  <2>2. o.id <= own /\ own < o.id
      BY <1>5, <2>1 DEF PipeInv
  <2> QED BY <1>6, <2>1, <2>2
<1>10. Underway' = {} /\ Waiting' = Waiting
    BY <1>1, <1>8, <1>9 DEF Underway, Waiting
<1>11. \A c \in Waiting : own < c.id /\ c.id # own
    BY <1>6, IdsPositive DEF QueueInv
<1>12. inbox'.ok = TRUE /\ b.piece \in inbox'.text
    BY <1>1
<1>13. flow \in {"stop", "start"}
    BY SetTypes, IdsPositive DEF EchoInv
<1>14. CASE flow = "stop"
  <2>1. ekf = "stopped"
      BY <1>5, <1>14 DEF StagesInv, StopInv
  <2>2. Users(Waiting)
      BY <1>11, <1>14, <1>6 DEF StagesInv, StopInv, Users
  <2>3. StopInv'
      BY <1>1, <1>7, <1>10, <2>1, <2>2 DEF StopInv, Users
  <2> QED BY <1>1, <1>14, <2>3 DEF StagesInv, StartInv, WaitInv, ReadyDescribesNew
<1>15. CASE flow = "start"
  <2>1. \A c \in Waiting : c.what = "user"
      BY <1>11, <1>15 DEF StagesInv, StartInv
  <2>2. (\A piece \in inbox'.text : piece.bad = FALSE) => ekf = "new"
      BY <1>5, <1>12, <1>15 DEF StagesInv, StartInv
  <2>3. StartInv'
      BY <1>1, <1>7, <1>10, <1>11, <2>1, <2>2 DEF StartInv
  <2> QED BY <1>1, <1>15, <2>3 DEF StagesInv, StopInv, WaitInv, ReadyDescribesNew
<1> QED BY <1>13, <1>14, <1>15

\* The shell is done with a command: with the restart's own the estimator does what it
\* was told to, with a browser's nothing.
LEMMA DoneKept ==
    ASSUME NshTypes, PipeInv, EchoInv, StagesInv, NEW bad \in BOOLEAN, ShellEnds(bad)
    PROVE  StagesInv'
<1> DEFINE item == [piece |-> [of |-> shell.id, bad |-> bad], prompt |-> TRUE]
<1>1. /\ shell # NoCmd /\ back' = Append(back, item) /\ shell' = NoCmd
      /\ UNCHANGED <<queue, out, flow, own, inbox, flight, since, report, verdict>>
      /\ ekf' = IF shell.what = "stop" THEN "stopped"
                ELSE IF shell.what = "start" /\ ekf = "stopped" /\ ~bad THEN "new"
                ELSE ekf
    BY DEF ShellEnds, task, caller, health
<1>2. shell \in Cmds /\ shell \in Underway /\ shell.id \in Nat /\ own \in Nat
    BY <1>1, SetTypes, IdsPositive DEF Underway
<1>3. /\ item \in Items /\ item.piece.of = shell.id /\ item.prompt = TRUE
      /\ item.piece.bad = bad
    BY <1>2 DEF Items, Pieces, Cmds
<1> HIDE DEF item
<1>4. In(back') = In(back) \cup {item}
    BY <1>1, <1>3, AppendAt DEF NshTypes, WireTypes
<1>5. Underway' \subseteq Underway /\ Waiting' = Waiting /\ Underway' = In(out)
    BY <1>1 DEF Underway, Waiting
<1>6. ekf' = ekf \/ shell.what # "user"
    BY <1>1
<1>7. ReadyDescribesNew'
    BY <1>1 DEF StagesInv, ReadyDescribesNew
<1>8. \A b \in In(back) : b.prompt = TRUE => b.piece.of < shell.id /\ b.piece.of \in Nat
  <2> SUFFICES ASSUME NEW b \in In(back), b.prompt = TRUE
               PROVE  b.piece.of < shell.id /\ b.piece.of \in Nat
      OBVIOUS
  <2>1. b.piece.of \in Nat
      BY SetTypes, NshAssumption DEF Items, Pieces, Ids
  <2>2. b.piece.of <= shell.id /\ b.piece.of # shell.id
      BY <1>1 DEF PipeInv
  <2> QED BY <1>2, <2>1, <2>2
<1>9. StopInv'
  <2> SUFFICES ASSUME flow = "stop" PROVE StopInv'
      BY <1>1 DEF StopInv
  <2>1. \A c \in Waiting' \cup Underway' : c.id > own => c.what = "user"
      BY <1>5 DEF StagesInv, StopInv
  <2>2. \A b \in In(back') : b.prompt = TRUE /\ b.piece.of = own => ekf' = "stopped"
    <3> SUFFICES ASSUME NEW b \in In(back) \cup {item}, b.prompt = TRUE, b.piece.of = own
                 PROVE  ekf' = "stopped"
        BY <1>4
    <3>1. CASE b = item
        BY <1>1, <1>2, <1>3, <3>1 DEF EchoInv
    <3>2. CASE b \in In(back)
      <4>1. own < shell.id
          BY <1>8, <3>2
      <4>2. shell.what = "user" /\ ekf = "stopped"
          BY <1>2, <3>2, <4>1 DEF StagesInv, StopInv
      <4> QED BY <1>6, <4>2
    <3> QED BY <3>1, <3>2
  <2>3. inbox'.ok = TRUE => ekf' = "stopped" /\ Users(Waiting' \cup Underway')
      BY <1>1, <1>2, <1>5, <1>6 DEF StagesInv, StopInv, Users
  <2> QED BY <1>1, <2>1, <2>2, <2>3 DEF StopInv
<1>10. StartInv'
  <2> SUFFICES ASSUME flow = "start" PROVE StartInv'
      BY <1>1 DEF StartInv
  <2>1. \A c \in Waiting' \cup Underway' : c.id # own => c.what = "user"
      BY <1>5 DEF StagesInv, StartInv
  <2>2. CASE shell.id # own
    <3>1. ekf' = ekf
        BY <1>2, <1>6, <2>2 DEF StagesInv, StartInv
    <3>2. \A c \in Waiting' \cup Underway' : c.id = own => ekf = "stopped" /\ inbox.ok = FALSE
        BY <1>5 DEF StagesInv, StartInv
    <3>3. \A b \in In(back') :
              b.prompt = TRUE /\ b.piece.of = own /\ b.piece.bad = FALSE => ekf = "new"
        BY <1>3, <1>4, <2>2 DEF StagesInv, StartInv
    <3>4. inbox.ok = TRUE /\ (\A piece \in inbox.text : piece.bad = FALSE) => ekf = "new"
        BY DEF StagesInv, StartInv
    <3> QED BY <1>1, <2>1, <3>1, <3>2, <3>3, <3>4 DEF StartInv
  <2>3. CASE shell.id = own
    <3>1. ekf = "stopped" /\ inbox.ok = FALSE
        BY <1>2, <2>3 DEF StagesInv, StartInv
    <3>2. shell.what = "start"
        BY <1>2, <2>3 DEF EchoInv
    <3>3. bad = FALSE => ekf' = "new"
        BY <1>1, <3>1, <3>2
    <3>4. \A c \in Waiting' \cup Underway' : c.id # own
      <4>1. \A c \in Waiting : shell.id < c.id /\ c.id \in Nat
          BY <1>2, SetTypes, IdsPositive DEF PipeInv
      <4>2. \A o \in In(out) : shell.id < o.id /\ o.id \in Nat
          BY <1>1, SetTypes, IdsPositive DEF PipeInv
      <4> QED BY <1>2, <1>5, <2>3, <4>1, <4>2
    <3>5. \A b \in In(back') :
              b.prompt = TRUE /\ b.piece.of = own /\ b.piece.bad = FALSE => ekf' = "new"
      <4> SUFFICES ASSUME NEW b \in In(back) \cup {item}, b.prompt = TRUE, b.piece.of = own,
                          b.piece.bad = FALSE
                   PROVE  ekf' = "new"
          BY <1>4
      <4>1. CASE b = item
          BY <1>3, <3>3, <4>1
      <4>2. ASSUME b \in In(back) PROVE FALSE
        <5>1. b.piece.of < shell.id
            BY <1>8, <4>2
        <5> QED BY <1>2, <2>3, <5>1
      <4> QED BY <4>1, <4>2
    <3>6. inbox'.ok = FALSE /\ own' = own /\ Waiting' = Waiting
        BY <1>1, <1>5, <3>1
    <3> QED BY <1>1, <2>1, <3>4, <3>5, <3>6 DEF StartInv
  <2> QED BY <2>2, <2>3
<1>11. WaitInv'
    BY <1>1, <1>2, <1>5, <1>6 DEF StagesInv, WaitInv, Users
<1> QED BY <1>7, <1>9, <1>10, <1>11 DEF StagesInv

\* As long as nothing is crossed, every step keeps what the stages of a restart know.
LEMMA StagesStep ==
    ASSUME NshTypes, QueueInv, PipeInv, EchoInv, StagesInv, flight.at <= Latency,
           [Next]_vars, crossed' = FALSE
    PROVE  StagesInv'
<1> USE NshAssumption
<1>k. ASSUME OpenCommands' \subseteq OpenCommands, In(back') \subseteq In(back),
             inbox' = inbox \/ inbox'.ok = FALSE,
             UNCHANGED <<flow, own, ekf, flight, since, report, verdict>>
      PROVE  StagesInv'
    BY <1>k, StagesKept
<1>u. UNCHANGED <<queue, out, shell>> => OpenCommands' = OpenCommands
    BY DEF OpenCommands, Waiting, Underway
<1>e. In(<<>>) = {}
    BY EmptySeq DEF In
<1>i. ASSUME flow' = "idle", verdict'.end = "healthy" => verdict'.of = "new" PROVE StagesInv'
    BY <1>i DEF StagesInv, StopInv, StartInv, WaitInv, ReadyDescribesNew
<1>o. /\ \A c \in OpenCommands : c.id \in Nat /\ c.id <= lastId
      /\ \A b \in In(back) : b.piece.of \in Nat /\ b.piece.of <= lastId
      /\ lastId \in Nat
  <2>1. \A c \in OpenCommands : c.id \in Nat /\ c.id <= lastId
      BY SetTypes, IdsPositive DEF QueueInv, PipeInv, OpenCommands
  <2>2. \A b \in In(back) : b.piece.of \in Nat /\ b.piece.of <= lastId
      BY SetTypes DEF PipeInv, Items, Pieces, Ids
  <2> QED BY <2>1, <2>2, SetTypes
<1>1. CASE RefuseCommand
  <2>1. OpenCommands' \subseteq OpenCommands
      BY <1>1, FirstLeaves DEF RefuseCommand, wire, board, OpenCommands, Underway
  <2>2. inbox' = inbox \/ inbox'.ok = FALSE
      BY <1>1 DEF RefuseCommand, Answer
  <2> QED BY <1>k, <1>1, <2>1, <2>2 DEF RefuseCommand, wire, board, health
<1>2. CASE SendCommand
  <2>1. OpenCommands' = OpenCommands
      BY <1>2, PipeSent DEF OpenCommands
  <2> QED BY <1>k, <1>2, <2>1 DEF SendCommand, board, caller, health
<1>3. CASE TakeOutput
  <2>1. /\ back # <<>> /\ back' = Tail(back)
        /\ UNCHANGED <<queue, out, shell, flow, own, ekf, flight, since, report, verdict>>
      BY <1>3 DEF TakeOutput, board, health
  <2>2. In(back') \subseteq In(back) /\ Head(back) \in Items
    <3>1. back \in Seq(Items)
        BY DEF NshTypes, WireTypes
    <3>2. In(back) = In(Tail(back)) \cup {Head(back)} /\ Head(back) \in Items
        BY <2>1, <3>1, TailAt
    <3> QED BY <2>1, <3>2
  <2>3. CASE Head(back).prompt = TRUE /\ pending # NoCmd /\ pending.id = own
    <3>1. Head(back).piece.of = own
        BY <1>3, <2>3 DEF TakeOutput
    <3> QED BY <1>3, <2>3, <3>1, OwnPrompt
  <2>4. CASE ~(Head(back).prompt = TRUE /\ pending # NoCmd /\ pending.id = own)
    <3>1. Head(back).prompt \in BOOLEAN
        BY <2>2 DEF Items
    <3>2. inbox' = inbox
        BY <1>3, <2>4, <3>1 DEF TakeOutput, Answer
    <3> QED BY <1>k, <1>u, <2>1, <2>2, <3>2
  <2> QED BY <2>3, <2>4
<1>4. CASE Expire
  <2>1. inbox' = inbox
      BY <1>4, PatienceEnough DEF Expire, Answer
  <2> QED BY <1>k, <1>u, <1>4, <2>1 DEF Expire, wire, board, health
<1>5. CASE UserCommand
  <2> DEFINE c == [id |-> lastId + 1, what |-> "user"]
  <2>1. OpenCommands' = OpenCommands \cup {c}
      BY <1>5, QueuedLast DEF UserCommand, wire, board, OpenCommands, Underway
  <2>2. c.what = "user" /\ c.id # own
      BY <1>o, SetTypes DEF EchoInv
  <2> HIDE DEF c
  <2> QED BY <1>5, <2>1, <2>2, StagesKept DEF UserCommand, wire, board, health
<1>6. CASE Begin
  <2> DEFINE c == [id |-> lastId + 1, what |-> "stop"]
  <2>1. /\ OpenCommands' = OpenCommands \cup {c} /\ own' = lastId + 1 /\ inbox' = NoReply
        /\ flow' = "stop" /\ back' = back /\ verdict' = [end |-> "none", of |-> "none"]
      BY <1>6, QueuedLast DEF Begin, RunNsh, wire, OpenCommands, Underway
  <2>2. c.id = lastId + 1
      OBVIOUS
  <2> HIDE DEF c
  <2>3. \A x \in OpenCommands' : x.id > own' => x.what = "user"
      BY <1>o, <2>1, <2>2
  <2>4. \A b \in In(back') : b.piece.of # own'
      BY <1>o, <2>1
  <2>5. inbox'.ok = FALSE
      BY <2>1 DEF NoReply
  <2> QED BY <2>1, <2>3, <2>4, <2>5
          DEF StagesInv, StopInv, StartInv, WaitInv, ReadyDescribesNew, OpenCommands
<1>7. CASE Stopped /\ Room /\ RunNsh("start") /\ flow' = "start" /\ UNCHANGED verdict
  <2> DEFINE c == [id |-> lastId + 1, what |-> "start"]
  <2>1. /\ OpenCommands' = OpenCommands \cup {c} /\ own' = lastId + 1 /\ inbox' = NoReply
        /\ back' = back /\ ekf' = ekf /\ verdict' = verdict /\ flow' = "start"
      BY <1>7, QueuedLast DEF Stopped, RunNsh, wire, board, OpenCommands, Underway
  <2>2. c.id = lastId + 1
      OBVIOUS
  <2> HIDE DEF c
  <2>3. flow = "stop" /\ inbox.ok = TRUE
      BY <1>7 DEF Stopped, Accepted, NshTypes, CallerTypes, Replies
  <2>4. ekf = "stopped" /\ Users(OpenCommands)
      BY <2>3 DEF StagesInv, StopInv, OpenCommands
  <2>5. \A x \in OpenCommands' : x.id # own' => x.what = "user"
      BY <2>1, <2>2, <2>4 DEF Users
  <2>6. \A b \in In(back') : b.piece.of # own'
      BY <1>o, <2>1
  <2>7. inbox'.ok = FALSE
      BY <2>1 DEF NoReply
  <2>8. verdict'.end = "healthy" => verdict'.of = "new"
      BY <2>1 DEF StagesInv, ReadyDescribesNew
  <2> QED BY <2>1, <2>4, <2>5, <2>6, <2>7, <2>8
          DEF StagesInv, StopInv, StartInv, WaitInv, ReadyDescribesNew, OpenCommands
<1>8. CASE Stopped /\ Ended("failed", "none")
    BY <1>i, <1>8 DEF Ended
<1>9. CASE Started
  <2>1. /\ flow = "start" /\ flow' = "wait" /\ since' = 0 /\ report' = [report EXCEPT !.at = 0]
        /\ UNCHANGED <<queue, out, shell, ekf, flight, verdict>>
      BY <1>9 DEF Started, task, wire, board
  <2>2. inbox.ok = TRUE /\ \A piece \in inbox.text : piece.bad = FALSE
    <3>1. inbox \in Replies
        BY DEF NshTypes, CallerTypes
    <3>2. inbox.ok = TRUE /\ \A piece \in inbox.text : ~piece.bad
        BY <1>9, <2>1, <3>1 DEF Started, Accepted, Replies
    <3> QED BY <3>1, <3>2 DEF Replies, Pieces
  <2>3. ekf = "new"
      BY <2>1, <2>2 DEF StagesInv, StartInv
  <2>4. Users(OpenCommands')
      BY <1>u, <2>1, <2>2 DEF StagesInv, StartInv, OpenCommands, Users
  <2>5. report'.at = 0 /\ flight'.at >= since'
      BY <2>1 DEF NshTypes, HealthTypes, Reports
  <2>6. verdict'.end = "healthy" => verdict'.of = "new"
      BY <2>1 DEF StagesInv, ReadyDescribesNew
  <2>7. WaitInv'
      BY <2>1, <2>3, <2>4, <2>5 DEF WaitInv, OpenCommands
  <2> QED BY <2>1, <2>6, <2>7 DEF StagesInv, StopInv, StartInv, ReadyDescribesNew
<1>10. CASE WaitReady
  <2>1. flow = "wait" /\ report.at > Guard /\ Ended("healthy", report.of)
      BY <1>10 DEF WaitReady, CanArm
  <2>2. report.of = "new"
      BY <2>1 DEF StagesInv, WaitInv
  <2> QED BY <1>i, <2>1, <2>2 DEF Ended
<1>11. CASE RestartFails \/ WaitUnknown \/ WaitGivesUp
    BY <1>i, <1>11 DEF RestartFails, WaitUnknown, WaitGivesUp, Ended
<1>12. CASE LinkFails \/ LinkOpens
  <2>1. OpenCommands' \subseteq OpenCommands /\ In(back') \subseteq In(back)
      BY <1>e, <1>12 DEF LinkFails, LinkOpens, board, OpenCommands, Waiting, Underway
  <2> QED BY <1>k, <1>12, <2>1 DEF LinkFails, LinkOpens, board, caller, health
<1>13. CASE Refresh \/ LinkWithdrawn
    BY <1>k, <1>u, <1>13 DEF Refresh, LinkWithdrawn, wire, board, caller, health
<1>14. CASE ShellBegins
  <2>1. OpenCommands' = OpenCommands
      BY <1>14, PipeBegins DEF ShellBegins, task, OpenCommands, Waiting
  <2> QED BY <1>k, <1>14, <2>1 DEF ShellBegins, caller, health
<1>15. CASE ShellEchoes
  <2> DEFINE item == [piece |-> Sent(shell), prompt |-> FALSE]
  <2>1. /\ shell # NoCmd /\ back' = Append(back, item) /\ item.prompt = FALSE
        /\ UNCHANGED <<queue, out, shell, flow, own, inbox, ekf, flight, since, report, verdict>>
      BY <1>15 DEF ShellEchoes, task, board, caller, health
  <2>2. item \in Items
      BY <2>1 DEF NshTypes, BoardTypes, Items, Sent, Pieces, Cmds
  <2> HIDE DEF item
  <2>3. In(back') = In(back) \cup {item}
      BY <2>1, <2>2, AppendAt DEF NshTypes, WireTypes
  <2> QED BY <1>u, <2>1, <2>3, StagesKept
<1>16. CASE \E bad \in BOOLEAN : ShellEnds(bad)
    BY <1>16, DoneKept
<1>17. CASE \E arm \in BOOLEAN : StatusSent(arm)
  <2>1. /\ flight'.of = ekf
        /\ UNCHANGED <<queue, out, shell, back, flow, own, inbox, ekf, since, report, verdict>>
      BY <1>17 DEF StatusSent, task, wire, board, caller
  <2>2. StopInv' /\ StartInv' /\ ReadyDescribesNew'
      BY <1>u, <2>1 DEF StagesInv, StopInv, StartInv, ReadyDescribesNew, OpenCommands
  <2>3. WaitInv'
      BY <1>u, <2>1 DEF StagesInv, WaitInv, OpenCommands
  <2> QED BY <2>2, <2>3 DEF StagesInv
<1>18. CASE StatusReceived
  <2>1. /\ flight # NoReport /\ flight' = NoReport /\ report'.of = flight.of
        /\ report'.at = IF flow = "wait" THEN since + 1 ELSE 0
        /\ UNCHANGED <<queue, out, shell, back, flow, own, inbox, ekf, since, verdict>>
      BY <1>18 DEF StatusReceived, task, wire, board, caller
  <2>2. StopInv' /\ StartInv' /\ ReadyDescribesNew'
      BY <1>u, <2>1 DEF StagesInv, StopInv, StartInv, ReadyDescribesNew, OpenCommands
  <2>3. flow = "wait" => (report'.at > Guard => report'.of = "new")
    <3> SUFFICES ASSUME flow = "wait", flight.of # "new" PROVE ~(report'.at > Guard)
        BY <2>1
    <3>1. flight.at >= since /\ report'.at = since + 1
        BY <2>1 DEF StagesInv, WaitInv
    <3>2. flight.at \in Nat /\ since \in Nat
        BY DEF NshTypes, HealthTypes, Reports
    <3> QED BY <3>1, <3>2
  <2>4. WaitInv'
      BY <1>u, <2>1, <2>3 DEF StagesInv, WaitInv, OpenCommands
  <2> QED BY <2>2, <2>4 DEF StagesInv
<1>19. CASE Tick
  <2>1. /\ flight' = (IF flight = NoReport THEN flight ELSE [flight EXCEPT !.at = @ + 1])
        /\ since' = (IF flow = "wait" THEN since + 1 ELSE since)
        /\ UNCHANGED <<queue, out, shell, back, flow, own, inbox, ekf, report, verdict>>
      BY <1>19 DEF Tick, wire, board
  <2>2. StopInv' /\ StartInv' /\ ReadyDescribesNew'
      BY <1>u, <2>1 DEF StagesInv, StopInv, StartInv, ReadyDescribesNew, OpenCommands
  <2>3. flow = "wait" => (flight' # NoReport /\ flight'.of # "new" => flight'.at >= since')
    <3> SUFFICES ASSUME flow = "wait", flight' # NoReport, flight'.of # "new"
                 PROVE  flight'.at >= since'
        OBVIOUS
    <3>1. flight \in Reports /\ since \in Nat /\ flight.at \in Nat
        BY DEF NshTypes, HealthTypes, Reports
    <3>2. flight # NoReport
        BY <2>1
    <3>3. flight'.of = flight.of /\ flight'.at = flight.at + 1
        BY <2>1, <3>1, <3>2 DEF Reports
    <3>4. flight.at >= since
        BY <3>2, <3>3 DEF StagesInv, WaitInv
    <3> QED BY <2>1, <3>1, <3>3, <3>4
  <2>4. WaitInv'
      BY <1>u, <2>1, <2>3 DEF StagesInv, WaitInv, OpenCommands
  <2> QED BY <2>2, <2>4 DEF StagesInv
<1>20. CASE UNCHANGED vars
    BY <1>k, <1>u, <1>20 DEF vars, task, wire, board, caller, health
<1>21. Stopped =>
          \/ Stopped /\ Room /\ RunNsh("start") /\ flow' = "start" /\ UNCHANGED verdict
          \/ Stopped /\ Ended("failed", "none")
    BY DEF Stopped
<1> QED BY <1>1, <1>2, <1>3, <1>4, <1>5, <1>6, <1>7, <1>8, <1>9, <1>10, <1>11, <1>12, <1>13,
           <1>14, <1>15, <1>16, <1>17, <1>18, <1>19, <1>20, <1>21 DEF Next, NshTask, Restart

\* A SYS_STATUS is never on its way for longer than Latency.
LEMMA FlightStep ==
    ASSUME NshTypes, flight.at <= Latency, [Next]_vars
    PROVE  flight'.at <= Latency
<1> USE NshAssumption
<1>0. flight \in Reports /\ flight.at \in Nat
    BY DEF NshTypes, HealthTypes, Reports
<1>1. CASE Tick
    BY <1>0, <1>1 DEF Tick, Reports, NoReport
<1>2. CASE Begin
    BY <1>0, <1>2 DEF Begin, Reports
<1>3. CASE StatusReceived \/ \E arm \in BOOLEAN : StatusSent(arm)
    BY <1>3 DEF StatusReceived, StatusSent, NoReport
<1>4. CASE NshTask \/ UserCommand \/ Restart \/ UNCHANGED vars
    BY <1>4 DEF NshTask, Refresh, RefuseCommand, SendCommand, TakeOutput, Expire, UserCommand,
                Restart, Stopped, Started, RestartFails, WaitReady, WaitUnknown, WaitGivesUp,
                vars, health
<1>5. CASE \/ LinkFails \/ LinkWithdrawn \/ LinkOpens \/ ShellBegins \/ ShellEchoes
           \/ \E bad \in BOOLEAN : ShellEnds(bad)
    BY <1>5 DEF LinkFails, LinkWithdrawn, LinkOpens, ShellBegins, ShellEchoes, ShellEnds, health
<1> QED BY <1>1, <1>2, <1>3, <1>4, <1>5 DEF Next

\* A prompt that ended another command than its own is not forgotten.
LEMMA CrossedForever ==
    ASSUME NshTypes, [Next]_vars, crossed' = FALSE
    PROVE  crossed = FALSE
<1>0. crossed \in BOOLEAN
    BY DEF NshTypes, TaskTypes
<1>1. CASE TakeOutput
    BY <1>0, <1>1 DEF TakeOutput
<1>2. CASE Refresh \/ RefuseCommand \/ SendCommand \/ Expire \/ UserCommand \/ Begin
    BY <1>2 DEF Refresh, RefuseCommand, SendCommand, Expire, UserCommand, Begin
<1>3. CASE Restart \/ Tick \/ UNCHANGED vars
    BY <1>3 DEF Restart, Stopped, Started, RestartFails, WaitReady, WaitUnknown, WaitGivesUp,
                Tick, vars, task
<1>4. CASE \/ LinkFails \/ LinkWithdrawn \/ LinkOpens \/ ShellBegins \/ ShellEchoes
           \/ (\E bad \in BOOLEAN : ShellEnds(bad)) \/ StatusReceived
           \/ \E arm \in BOOLEAN : StatusSent(arm)
    BY <1>4 DEF LinkFails, LinkWithdrawn, LinkOpens, ShellBegins, ShellEchoes, ShellEnds,
                StatusReceived, StatusSent, task
<1> QED BY <1>1, <1>2, <1>3, <1>4 DEF Next, NshTask

\* The whole invariant holds at the start ...
LEMMA NshInit == Init => NshInv
<1> SUFFICES ASSUME Init PROVE NshInv
    OBVIOUS
<1>1. flight.at <= Latency
    BY NshAssumption DEF Init, NoReport
<1>2. StagesInv
    BY DEF Init, StagesInv, StopInv, StartInv, WaitInv, ReadyDescribesNew
<1> QED BY <1>1, <1>2, NshTypesInit, QueueInit, PipeInit, EchoInit DEF NshInv, RestartInv

\* ... and every step keeps it.
LEMMA NshStep == NshInv /\ [Next]_vars => NshInv'
<1> SUFFICES ASSUME NshInv, [Next]_vars PROVE NshInv'
    OBVIOUS
<1>1. NshTypes /\ QueueInv /\ PipeInv /\ EchoInv /\ flight.at <= Latency
    BY DEF NshInv, RestartInv
<1>2. NshTypes' /\ QueueInv' /\ PipeInv' /\ EchoInv'
    BY <1>1, NshTypesStep, QueueStep, PipeStep, EchoStep
<1>3. flight'.at <= Latency
    BY <1>1, FlightStep
<1>4. crossed' = FALSE => StagesInv'
  <2> SUFFICES ASSUME crossed' = FALSE PROVE StagesInv'
      OBVIOUS
  <2>1. StagesInv
      BY <1>1, CrossedForever DEF NshInv, RestartInv
  <2> QED BY <1>1, <2>1, StagesStep
<1> QED BY <1>2, <1>3, <1>4 DEF NshInv, RestartInv

\* The state of the shell, its callers and the board has its types.
THEOREM NshTypeCorrect == Spec => []TypeOK
<1>1. NshInv => TypeOK
    BY DEF NshInv, NshTypes, TaskTypes, WireTypes, BoardTypes, CallerTypes, HealthTypes, TypeOK,
           Items, Replies, Reports
<1> QED BY <1>1, NshInit, NshStep, PTL DEF Spec

\* No command is answered for good twice, and none before it was sent or refused (the
\* NSH task): the safety half of EveryCommandAnswered.
THEOREM AnsweredOnce == Spec => [](\A i \in Ids : answers[i] <= 1)
<1>1. NshInv => \A i \in Ids : answers[i] <= 1
    BY DEF NshInv, QueueInv
<1> QED BY <1>1, NshInit, NshStep, PTL DEF Spec

\* A restart goes on only with a prompt of the shell, never with what the task had at
\* its deadline (NSH_COMMAND_TIMEOUT_MS, run_nsh).
THEOREM EchoConfirmsNothing == Spec => []NoEchoConfirms
<1>1. NshInv => NoEchoConfirms
    BY DEF NshInv, EchoInv, NoEchoConfirms
<1> QED BY <1>1, NshInit, NshStep, PTL DEF Spec

\* "Ready" is said of the estimator that the restart started, unless a prompt ended
\* another command than its own (wait_for_px4_ready).
THEOREM ReadyIsNew == Spec => []ReadyUnlessCrossed
<1>1. NshInv => ReadyUnlessCrossed
    BY DEF NshInv, NshTypes, TaskTypes, RestartInv, StagesInv, ReadyUnlessCrossed
<1> QED BY <1>1, NshInit, NshStep, PTL DEF Spec

================================================================================
