--------------------------- MODULE TimebaseReport ---------------------------
(***************************************************************************)
(* Who is told that the clock of the simulation lost time, and when: the   *)
(* health windows of the loop (loop_runner.rs, timebase.rs), its log       *)
(* lines, the snapshot it publishes, the banner of the browser and the     *)
(* self-test that read the snapshot (timebase_cli.rs), and the gate that   *)
(* refuses to arm (preflight.rs).                                          *)
(*                                                                         *)
(* Time is counted in units of the publish interval.  An age is the time   *)
(* since an event, and stays at the threshold it is compared with.         *)
(***************************************************************************)
EXTENDS Integers

CONSTANTS
    Publish,        \* STATS_PUBLISH_INTERVAL
    Window,         \* TIMEBASE_HEALTH_WINDOW
    MinFinal,       \* MIN_FINAL_WINDOW: the shortest last window that is graded
    WarnInterval,   \* TIMEBASE_WARN_INTERVAL
    Heartbeat,      \* TIMEBASE_HEARTBEAT_INTERVAL
    MinInterval,    \* ANNUNCIATOR_MIN_INTERVAL
    Settled,        \* ANNUNCIATOR_DEESCALATE_WINDOWS
    Coarse,         \* whether a step is longer than GAP_THRESHOLD_US (below 50 Hz)
    MaxStall,       \* bound of the model: the longest iteration
    MaxGaps         \* bound of the model: how many gaps a session has

ASSUME IntervalAssumption ==
    /\ Publish \in Nat \ {0}
    /\ Window \in Nat \ {0}
    /\ MinFinal \in Nat
    /\ WarnInterval \in Nat
    /\ Heartbeat \in Nat
    /\ MinInterval \in Nat
    /\ Settled \in Nat \ {0}
    /\ Coarse \in BOOLEAN
    /\ MaxStall \in Nat
    /\ MaxGaps \in Nat

\* How long the gate may rest on statistics from before a gap: the gap waits
\* for its window to close, which is late by an iteration at most, and then for
\* a publication.
StaleAfter == Window + MaxStall + Publish

VARIABLES
    running,
    \* the Timebase: its gaps, and what they lost in milliseconds: 0 nothing,
    \* 1 less than one, 2 one or more
    gaps, lost,
    \* the window being filled: its age, and whether time was lost in it
    winAge, winLost,
    \* TimebaseSession.worst_health
    worst,
    \* SimulationLoop.stats, and the copy in the watch channel, with its age
    stats, published, pubAge,
    \* TimebaseReporter: the health its last line named, the ages of its lines
    reported, warnAge, beatAge,
    \* the gap lines: age of the last, and the gaps counted but not named yet
    gapAge, suppressed,
    \* the annunciator: news in the channel, and the state of its policy
    unseen, announced, candidate, consecutive, sentAge,
    \* history: gaps that a line has named, age of the first gap
    named, sinceGap

clock     == <<gaps, lost, sinceGap>>
window    == <<winAge, winLost, worst>>
channel   == <<stats, published, pubAge>>
reporter  == <<reported, warnAge, beatAge>>
gapLines  == <<gapAge, suppressed, named>>
policy    == <<announced, candidate, consecutive>>

reportVars == <<running, clock, window, channel, reporter, gapLines, policy,
                unseen, sentAge>>

------------------------------------------------------------------------------
(* Health, in the order of severity_rank.                                  *)

Ok == 0
Degraded == 1
Faulted == 2
Healths == {Ok, Degraded, Faulted}

\* Mutant of Verdict: a window is graded by its rate alone.
VerdictByRate(rate, lostTime) == rate

\* timebase_health: any lost time is a fault, whatever rate was kept; rate is
\* the health that the iterations per second alone amount to.
Verdict(rate, lostTime) == IF lostTime THEN Faulted ELSE rate

Worse(a, b) == IF a > b THEN a ELSE b

Older(age, d, threshold) == IF age + d < threshold THEN age + d ELSE threshold

\* What the loop has measured: nothing before the first window closes.
Unmeasured == [measured |-> FALSE, health |-> Ok, worst |-> Ok, invalid |-> FALSE,
               lostMs |-> 0, gaps |-> 0]

Snapshots == [measured : BOOLEAN, health : Healths, worst : Healths,
              invalid : BOOLEAN, lostMs : {0, 2}, gaps : 0..MaxGaps]

\* Mutant of Reconfigured: the worst window is not carried over.
ReconfiguredForgets(s) ==
    [Unmeasured EXCEPT !.measured = s.measured, !.health = s.health,
                       !.invalid = s.invalid, !.lostMs = s.lostMs, !.gaps = s.gaps]

\* stats_after_reconfigure: the message counts start again, what was measured
\* of the clock and of the host is carried over field by field.
Reconfigured(s) ==
    [Unmeasured EXCEPT !.measured = s.measured, !.health = s.health,
                       !.worst = s.worst, !.invalid = s.invalid,
                       !.lostMs = s.lostMs, !.gaps = s.gaps]

\* Mutant of GateRefuses: only the last window counts.
GateRefusesLastWindow(s, inFlight) == ~inFlight /\ s.health = Faulted

\* timebase_arming_gate: a session that lost time, or had one faulted window,
\* does not arm again; a flight in progress is never interrupted.
GateRefuses(s, inFlight) ==
    /\ ~inFlight
    /\ s.invalid \/ s.lostMs > 0 \/ s.worst = Faulted

Landed == {"undefined", "on_ground", "takeoff", "in_air", "landing"}

\* flight_in_progress: an unknown landed state falls back to armed.
FlightInProgress(armed, landed) == armed /\ landed # "on_ground"

\* run_selftest, for a loop that has stopped: 2 when no window closed, 0 for a
\* session without one bad window.
SelftestExit(s) == IF ~s.measured THEN 2 ELSE IF s.worst = Ok THEN 0 ELSE 1

------------------------------------------------------------------------------
(* One iteration of SimulationLoop::run.                                   *)

ReportInit ==
    /\ running = TRUE
    /\ gaps = 0 /\ lost = 0 /\ sinceGap = 0
    /\ winAge = 0 /\ winLost = FALSE /\ worst = Ok
    /\ stats = Unmeasured /\ published = Unmeasured /\ pubAge = 0
    /\ reported = Ok /\ warnAge = 0 /\ beatAge = 0
    /\ gapAge = 0 /\ suppressed = 0 /\ named = 0
    /\ unseen = FALSE
    /\ announced = Ok /\ candidate = Ok /\ consecutive = 0
    /\ sentAge = MinInterval

\* What an iteration loses: nothing, or less or more than a millisecond.
Losses == 0..2

\* Two losses of less than a millisecond may make one together.
Sums(a, b) == {Worse(a, b)} \cup {c \in {2} : a > 0 /\ b > 0}

\* Timebase::decide: time is lost in a gap only, and in each of them unless one
\* step is longer than the threshold and makes good for all of it.
Planned(gap, loss) == (loss > 0 => gap) /\ (gap => loss > 0 \/ Coarse)

\* Timebase::apply, as far as it is told of: the gaps, and what they lost.
Lose(d, gap, loss) ==
    /\ gaps' = IF gap THEN gaps + 1 ELSE gaps
    /\ lost' \in Sums(lost, loss)
    /\ sinceGap' = IF gaps = 0 THEN 0 ELSE Older(sinceGap, d, StaleAfter)

\* report_gap: the first gap of a session is always named, and a line names
\* those that were held back since the line before it.
ReportGap(d, gap) ==
    IF ~gap \/ (gaps # 0 /\ gapAge + d < WarnInterval) THEN
        /\ gapAge' = Older(gapAge, d, WarnInterval)
        /\ suppressed' = IF gap THEN suppressed + 1 ELSE suppressed
        /\ UNCHANGED named
    ELSE
        /\ gapAge' = 0
        /\ named' = named + suppressed + 1
        /\ suppressed' = 0

\* publish_stats, at its interval: s is what the iteration has of the
\* statistics when it gets there.
PublishStats(d, s) ==
    IF pubAge + d >= Publish
    THEN published' = s /\ pubAge' = 0 /\ unseen' = TRUE
    ELSE pubAge' = pubAge + d /\ UNCHANGED <<published, unseen>>

\* Mutant of Decide: an escalation waits as everything else does.
DecideThrottlesAll(d, h) ==
    LET held == warnAge + d < WarnInterval
        line == (h # Ok \/ reported # Ok) /\ ~held
        beat == h = Ok /\ reported = Ok /\ beatAge + d >= Heartbeat
    IN  /\ reported' = IF line THEN h ELSE reported
        /\ warnAge' = IF line THEN 0 ELSE Older(warnAge, d, WarnInterval)
        /\ beatAge' = IF beat \/ (line /\ h = Ok) THEN 0
                      ELSE Older(beatAge, d, Heartbeat)

\* TimebaseReporter::decide: a line about a bad window or a recovery waits out
\* the interval unless it escalates; a healthy log shows a sign of life.
Decide(d, h) ==
    LET held == h <= reported /\ warnAge + d < WarnInterval
        line == (h # Ok \/ reported # Ok) /\ ~held
        beat == h = Ok /\ reported = Ok /\ beatAge + d >= Heartbeat
    IN  /\ reported' = IF line THEN h ELSE reported
        /\ warnAge' = IF line THEN 0 ELSE Older(warnAge, d, WarnInterval)
        /\ beatAge' = IF beat \/ (line /\ h = Ok) THEN 0
                      ELSE Older(beatAge, d, Heartbeat)

SayNothing(d) ==
    /\ warnAge' = Older(warnAge, d, WarnInterval)
    /\ beatAge' = Older(beatAge, d, Heartbeat)
    /\ UNCHANGED reported

\* roll_up_timebase_window: grade the window, keep the worst of the session
\* and put both, with the totals of the clock, into the statistics.
RollUp(s, h) ==
    /\ worst' = Worse(worst, h)
    /\ stats' = [measured |-> TRUE, health |-> h, worst |-> Worse(worst, h),
                 invalid |-> gaps' > 0,
                 lostMs |-> IF lost' = 2 THEN 2 ELSE 0, gaps |-> gaps']

\* The health window of the loop: when it is full it is graded by what it lost,
\* not by its gaps, reported and started again; rate is what the iterations per second amount to.
HealthWindow(d, loss, rate, s) ==
    LET h == Verdict(rate, winLost \/ loss > 0)
    IN  IF winAge + d >= Window THEN
            /\ RollUp(s, h)
            /\ Decide(d, h)
            /\ winAge' = 0 /\ winLost' = FALSE
        ELSE
            /\ winAge' = winAge + d
            /\ winLost' = (winLost \/ loss > 0)
            /\ stats' = s
            /\ SayNothing(d)
            /\ UNCHANGED worst

\* d is the time since the last iteration, build whether a new build was
\* waiting for the loop.
IterateAndReport(d, gap, loss, rate, build) ==
    LET s == IF build THEN Reconfigured(stats) ELSE stats
    IN  /\ running
        /\ Planned(gap, loss)
        /\ gap => gaps < MaxGaps
        /\ Lose(d, gap, loss)
        /\ ReportGap(d, gap)
        /\ PublishStats(d, s)
        /\ HealthWindow(d, loss, rate, s)
        /\ sentAge' = Older(sentAge, d, MinInterval)
        /\ UNCHANGED <<running, policy>>

\* The loop finds that it was stopped: the window it interrupts is graded when
\* it is long enough, without a line, and the result is published.
Stop(rate) ==
    /\ running
    /\ running' = FALSE
    /\ UNCHANGED clock
    /\ IF winAge >= MinFinal THEN RollUp(stats, Verdict(rate, winLost))
       ELSE UNCHANGED <<stats, worst>>
    /\ published' = stats'
    /\ unseen' = TRUE
    /\ UNCHANGED <<winAge, winLost, pubAge, reporter, gapLines, policy,
                   sentAge>>

------------------------------------------------------------------------------
(* The annunciator: a task of its own that wakes when a snapshot is new.   *)

\* Mutant of Announces: what waits must be new each time it is looked at.
AnnouncesExactly(h, n) ==
    /\ h # announced
    /\ h > announced \/ (n = Settled - 1 /\ sentAge >= MinInterval)

\* AnnunciatorPolicy::observe: an escalation at once, anything else when it was
\* seen n times in a row and the last message is old enough.
Announces(h, n) ==
    /\ h # announced
    /\ h > announced \/ (n >= Settled /\ sentAge >= MinInterval)

\* spawn_timebase_annunciator: one pass over the newest snapshot; those that
\* were replaced before are never seen.
Observe ==
    LET h == published.health
        n == IF h # candidate THEN 1
             ELSE IF consecutive < Settled THEN consecutive + 1 ELSE consecutive
    IN  /\ unseen
        /\ unseen' = FALSE
        /\ candidate' = h
        /\ consecutive' = n
        /\ announced' = IF Announces(h, n) THEN h ELSE announced
        /\ sentAge' = IF Announces(h, n) THEN 0 ELSE sentAge
        /\ UNCHANGED <<running, clock, window, channel, reporter, gapLines>>

ReportNext ==
    \/ \E d \in 0..MaxStall, gap \in BOOLEAN, loss \in Losses, rate \in Healths,
          build \in BOOLEAN : IterateAndReport(d, gap, loss, rate, build)
    \/ \E rate \in Healths : Stop(rate)
    \/ Observe

\* The loop's thread runs and time passes; the annunciator is a task of the
\* runtime, woken by each publication.
Fairness ==
    /\ WF_reportVars(\E d \in 1..MaxStall, gap \in BOOLEAN, loss \in Losses,
                        rate \in Healths, build \in BOOLEAN :
                            IterateAndReport(d, gap, loss, rate, build))
    /\ WF_reportVars(Observe)

ReportSpec == ReportInit /\ [][ReportNext]_reportVars

FairReportSpec == ReportSpec /\ Fairness

------------------------------------------------------------------------------
(* Properties.                                                             *)

\* Types.
ReportTypeOK ==
    /\ running \in BOOLEAN
    /\ gaps \in 0..MaxGaps /\ lost \in Losses /\ sinceGap \in 0..StaleAfter
    /\ winAge \in 0..(Window - 1) /\ winLost \in BOOLEAN /\ worst \in Healths
    /\ stats \in Snapshots /\ published \in Snapshots /\ pubAge \in 0..(Publish - 1)
    /\ reported \in Healths /\ warnAge \in 0..WarnInterval /\ beatAge \in 0..Heartbeat
    /\ gapAge \in 0..WarnInterval /\ suppressed \in 0..MaxGaps /\ named \in 0..MaxGaps
    /\ unseen \in BOOLEAN
    /\ announced \in Healths /\ candidate \in Healths /\ consecutive \in 0..Settled
    /\ sentAge \in 0..MinInterval

\* What the gate reads is consistent: no snapshot shows a window worse than the
\* worst, and one that admits lost time is invalid and graded Faulted.  So the
\* banner, the self-test and the gate, which read different fields, agree -
\* except about a gap that a coarse step made good for, which makes the session
\* invalid and no window Faulted.
Consistent(s) ==
    /\ s.health <= s.worst
    /\ s.lostMs > 0 => s.invalid /\ s.worst = Faulted
    /\ s.invalid /\ ~Coarse => s.worst = Faulted
    /\ s.invalid <=> s.gaps > 0
    /\ ~s.measured => s = Unmeasured
SnapshotConsistent == Consistent(stats) /\ Consistent(published)

\* A session that the gate refuses is refused for good: neither a good window
\* nor a new build clears it ("Never, for the life of the daemon process").
NeverCleared ==
    [][GateRefuses(published, FALSE) => GateRefuses(published', FALSE)]_reportVars

\* No gap is swallowed: each one was named by a line or is counted for the
\* next, and the first of a session is named at once.
GapsAllNamed ==
    /\ named + suppressed = gaps
    /\ gaps > 0 => named > 0

\* The log never rests on something milder than the last window: an escalation
\* is not throttled, and a recovery is only written for a window that is Ok.
LogNeverUnderstates == running => reported >= stats.health

\* The gate may pass on statistics from before a gap, but not for longer than
\* the gap needs to reach the channel.
StaleBound ==
    running /\ gaps > 0 /\ sinceGap >= StaleAfter =>
        \A armed \in BOOLEAN, landed \in Landed :
            FlightInProgress(armed, landed)
                \/ GateRefuses(published, FlightInProgress(armed, landed))

\* A self-test that passes lost no time, and without a coarse step had no gap,
\* except in a last window too short to be graded.
GradeHonest ==
    ~running /\ SelftestExit(published) = 0 =>
        \/ lost = 0 /\ (gaps = 0 \/ Coarse)
        \/ winLost /\ winAge < MinFinal

\* A health that stays is announced, whatever was announced before.
AnnouncementSettles ==
    \A h \in Healths :
        <>[](running /\ stats.health = h) => <>[](announced = h)

==============================================================================
