# Verification of hitl-daemon

TLA+ models of the hardware-in-the-loop daemon, TLC configurations that check
them on small instances, and TLAPS proofs of the properties that matter most for
every instance.  Paths are relative to `src/`.

Contents: [1. Inventory](#1-inventory), [2. The modules](#2-the-modules),
[3. The runs](#3-the-runs), [4. Fairness](#4-fairness), [5. Proofs](#5-proofs),
[6. Where the code and its documentation differ](#6-where-the-code-and-its-documentation-differ),
[7. Not modelled](#7-not-modelled), [8. What could come next](#8-what-could-come-next).

## 1. Inventory

The daemon connects a PX4 flight controller (FC) on a serial port, a physics
simulation that feeds it sensor values at 400 Hz, and a browser over a websocket.

| Component | State | Operations | Module |
|---|---|---|---|
| FC session `crates/websocket/src/fc_session.rs` | one FIFO mutex, internal NSH ids | `try_begin`, `begin_unless_armed`, `begin`, `restart_ekf2` | `FcSession` |
| Build configuration `build_config.rs` | `last_pid_fingerprint`, `last_verified_params` | `handle`/`apply`, `push_pids_and_verify`, `repush_if_configured` | `FcSession` |
| Build specification `build_config.rs` | the `BuildSpec` of a request | one fetch per part, defaults, disclosure, hover | `Specs` |
| Vehicle reset `vehicle_reset.rs` | none of its own | `run_reset` | `FcSession` |
| Simulation state `crates/simulation/src/state.rs` | vehicle, live config, generation, armed and stall flags | `reset`, `reconfigure`, `mark_fc_lost` | `FcSession`, `Actuators` |
| Timebase `timebase.rs` | nine counters | `plan` (`decide`, `apply`) | `Timebase` |
| Timebase reporting, arming gate `loop_runner.rs`, `timebase.rs`, `timebase_cli.rs`, `preflight.rs` | windows, session record, published snapshot, throttles | roll-up, publish, log, announce, self-test, gate | `TimebaseReport` |
| Simulation loop `loop_runner.rs` | contact, impulse, sensor schedules, channel | one iteration | `SimLoop` over `Actuators` |
| Connection manager `src/main.rs` 1406-2095 | link, `retry_count`, bootloader flag, watchdog | lose, clean up, back off, scan, open | `Link` over `Actuators` |
| Port detection `crates/mavlink-io/src/serial.rs` | a search in progress | classify, probe, adopt | `Detect` |
| MAVLink I/O `async_io.rs`, sender and bridge of `main.rs` | bounded queues, shutdown flag per link | forward, drain, write, tear down | `Outbound`, `Link` |
| NSH channel `src/main.rs` 1172-1370, `nsh_await.rs` | the request in flight, buffer, deadline | queue, send, prompt, expire | `Nsh` |
| PX4 readiness `px4_ready.rs`, `px4_health.rs` | last health report | `wait_for_px4_ready` | `Nsh` |
| Provisioning `preflight.rs`, `snapshot.rs`, `param_io.rs` | apply guard, cooldown, snapshot | `check`, `apply`, `restore` | `Provisioning` |
| Websocket server, command handler `server.rs`, `handler.rs` | queues and subscriptions per client, rate limits | the two tasks of a connection, dispatch | `Gateway` |
| Websocket protocol `protocol.rs` | none | encode, decode | `Wire` |
| Terrain cache `crates/terrain/src/lib.rs`, its ingest and need ticker | origin, zoom, tiles, cadence | `set_origin`, `insert_tiles`, `evict_to_bound`, `missing_around_vehicle` | `Terrain` |
| others | | scheduling, TUI, self-update, MAVLink encodings, repository checks | section 7 |

How they interact:

* Three kinds of flow (configure, reset, re-push) share the board through the
  session; the simulation thread, the connection manager, `Rtl` and
  `EmergencyStop`, the pilot's RC and provisioning act past it.
* The receiver of a link hands motor commands to the simulation thread through a
  bounded channel; frames go back over a channel that all links share, one
  bridge thread and one sender task per link, and the writer of the port.
* The browser sees the daemon through a connection of two tasks: one reads and
  handles in line, the other is the only one that writes.
* The terrain cache is filled by the browser, emptied by a configure, and read
  by the simulation thread, each under the lock for a moment only.

What is hard here: steps of several tasks in orders nobody tests; awaits that
end by a deadline while what they waited for still happens; answers without an
id; a board that reboots, loses its parameters, or blocks whoever opens its
port; bounded queues that fill in a circle; integer time with a threshold, a cap
and saturation; and a catalogue and peers that say only part of what is asked.
`PROJECT.json` lists the hazards line by line with the properties that cover them.

## 2. The modules

Conventions.  A stretch between two awaits, or one critical section, is one
action.  `...TypeOK`/`TypeOK` is the one type invariant of a module.  History
variables are marked as such where they are declared.  An age counts up to the
threshold it is compared with and stays there.  An operator whose comment begins
"Mutant of" is the definition after it with a plausible bug; section 3.

### FcSession, SessionLock - the session and its flows

`fc_session.rs`, `build_config.rs`, `vehicle_reset.rs`, the parts of the
connection manager and of the simulation loop that touch them, and the board as
far as the code relies on it.  `pc[f]` is the place of a flow.

| Variable | In the code |
|---|---|
| `holder`, `waiters` | `FcSession.lock` (a tokio mutex hands over to its first waiter) |
| `pc`, `build`, `acked` | the tasks of ConfigureBuild, reset and re-push, the build in their locals, the loop counter of the push |
| `fingerprint`, `lastVerified` | `last_pid_fingerprint`, `last_verified_params` |
| `origin` | where `anchor_origin` left the flight origin and the terrain datum |
| `simBuild`, `channel`, `moved` | the live config, the bounded(1) `config_tx`, "config_generation differs from what the holder read" |
| `simArmed`, `running` | the armed flag and whether the loop runs |
| `ram`, `ekf` | external: the board's parameters, and whether its estimator was started after the vehicle last jumped |
| `shell` | external: the commands sent to the board's shell whose prompt is still to come, in their order |
| `outside`, `crossed` | history, since the holder came: something past the session disturbed the vehicle or board; a prompt ended another command of the holder's than its own |

* A *build* stands for a request with its flight location and its gains.  The
  fingerprint is the build it was computed from (hash collisions are left out).
  `Hovering` separates the builds for which one parameter more is pushed.
* The retries of one PARAM_SET are one action that ends confirmed or not; when it
  is not, the parameter may have landed (`PushFails`).
* `ekf2 stop` and `ekf2 start` are sent (`SendStop`, `SendStart`), run some time
  (`Effect`), and are confirmed by the next prompt, whose ever it is (`Prompt`): one
  that was given up (`RestartFails`) stays in `shell` and can confirm its successor.
  What the NSH task does in between is `Nsh`.
* A reboot makes `ram` arbitrary and drops the link.  A restart that is over
  before the link is declared lost is a hazard without a property.
* PARAM_SETs queued while the link is down can land after the reconnect, before
  the re-push that then writes all of them again: left out.

`SessionLock` is what the session promises: one owner, no barging, FIFO
hand-over (`NoFlow` is meant to be no element of `Flow`).  `FcSession` is checked,
and its safety part proved, to implement it.

### Timebase - the clock of the simulation

`timebase.rs` operator by operator (`Deficit`, `Gap`, `Steps`, `Lost` are
`decide`; `Recorded`, `NoteGap`, `Plan` are `apply`), and from `loop_runner.rs`
what its caller owes it: `Iterate` sleeps until `deadline_us` and reads a wall
clock that never runs back.  How late it arrives is any amount.  Saturating
arithmetic is kept: `Top` is `u64::MAX`, `MaxCount` is `u32::MAX`.

### TimebaseReport - who is told that time was lost

The iterations of the loop as seen by its reporting: a gap and what it lost
(`Planned` says which go together: with a step longer than the gap threshold,
`Coarse`, a gap may lose nothing; `Lose`), the health window (`RollUp`), the log lines with their throttles, the snapshot published
every `Publish`, `stats_after_reconfigure` when a build arrives, the browser's
annunciator as a second process that sees some snapshots twice and others never,
the self-test's exit code, and `timebase_gate` of `preflight.rs`.  Lost time is
kept as none, less than a millisecond, or more, because the snapshot rounds to
milliseconds; small losses may add up.  The wording of the lines and the latency figures are left out.

### Actuators, SimLoop - one iteration of the simulation thread

`Actuators` is `process_actuator_commands`: not atomic, it takes the lock of the
state twice, or once with the command already taken from the channel; resets and
`mark_fc_lost` of other threads come in between.  `SimLoop` and `Link` extend it,
the first with the thread that runs it, the second with the receiver that feeds it.

`SimLoop` adds the rest of an iteration: waking late (`Wake`), the plan with its
sub-steps, one `SubStep` per sub-step under its own lock, the contact latch and
the impact impulse (`ground_override`), the 50 Hz slots, and the HIL_SENSOR with
its `fields_updated` on a channel that may be full.  Of the motion of the vehicle
only the height over the ground is kept, in the bands that the contact model
tells apart, and whether it comes down fast enough for an impact (`falling`); the
integration may change both to anything, and a sub-step that is skipped (motors at
rest on the ground) keeps both, so that ground that comes up under a falling vehicle
is an impact as well.  Time is in physics steps.

### Link - the connection manager

`manager` walks through lose, abort, report, choose (the delay), sleep, scan, open.
`receiver` is the receiver task with its watchdog (`Verdict`), `disconnected` the
flag that reader, writer and watchdog raise.  The board is the environment: pulled,
exchanged, booting, running or silent on an open port.  `ManagerScans` stands for a
whole search; its inside is `Detect`.

The manager joins an aborted receiver under `timeout(1 s)` and drops its handle.  A
receiver that is in the middle of a message by then becomes the `stray`: it finishes
that message (`StrayEnds`) at any later moment, also on top of the next link, and a
status that it broadcasts sets `overtaken`.  One outlives its link at a time.

### Detect - finding a board among the serial ports

`classify_ports`, `candidate_probe_ports`, `scan_for_heartbeat` and
`detect_flight_controller`, against devices that come, go and enter their
bootloader at any moment, also between an enumeration and an open.  Opening a
bootloader blocks for ever.  The order in which the system lists ports is
arbitrary, so lists are sets.  The offsets of the message id in a header, the
size of a read and of the window are constants, so that a header of a few bytes
can be split in every way.

### Outbound - frames on their way to the board

`sim_mav_rx` is shared by the bridges of all links; `sim_rx`, sender, `tx` and
writer belong to one link.  A bridge is a blocking thread, which cannot be aborted;
a sender is a task, which is aborted where it waits.  Writing a heartbeat or an NSH
request appears only as a write that may fail.  An `open()` that never returns is
left out (it is in `Detect`).

### Nsh - the shell, the EKF2 restart and readiness

The NSH task (`SendCommand`, `TakeOutput`, `Expire`), the browser's commands, and
`restart_ekf2` with `wait_for_px4_ready` (`flow`).  What comes back carries no
request id.  A text is kept as the set of the commands whose output it holds, with
the failed ones among them; the shell (external) echoes, answers late, fails or
hangs.  A health report names the estimator it tells of.

### Gateway - a browser's connection

The two tasks of a connection (`Handle` for the reader, `SendResponse`, `Forward`
for the writer), the forwarders of the server, the rate limit and the command
queue.  `Takeoff` stands for every command with a payload to validate and a gate
to pass, `Recharge` for those done on the spot, `Unanswered` for the requests that
are stored, passed on, or answered by a broadcast.  One browser connects, leaves
half a connection behind, and comes back: a rate limit entry and a flow's reports
outlive a connection.  State frames, TLS and the `Shutdown` message are left out.

### Terrain - the cache of elevation tiles

The cache (`SetOrigin`, `WriteTiles` with `evict_to_bound`), the ingest of a frame in
its three steps (taken, validated against the origin under a read lock, written
under the write lock), the vehicle's position that the loop publishes without the
lock, the need ticker with its two cadences, and a browser that answers.  The
world is a line of cells, and a coarse tile is two of them.  A place is finer than a
cell: `Tolerance` (`SAME_ORIGIN_METERS`) is how far apart two may be and still count as
the same, which is not transitive, and `set_origin` moves the origin also when it keeps
the tiles.  `kept` counts, as history, how often it did since the cache was emptied.
Elevations are kept only as plausible or not; the origin's datum, interpolation and the
packaged tiles are left out.

### Wire, Specs - messages and what a build is made of

`Wire` is `protocol.rs`: every message of both directions laid out as bytes (an
opaque value of n bytes is n numbered bytes, so a reader that is off by one reads
no value at all) and every reader of the daemon, against peers of an earlier, this
and a later version.  Tiles also come with one to three bytes where none belong
(`WriteStray`), and a reader that slices past the end of a frame panics (`Panicked`).
Other cut frames of this version are left out; a JSON body is one value, a function of
the keys that were written.

`Specs` continues with the build request that `Wire` read: `apply` up to the push of
the parameters, one action per catalogue fetch, which may fail, be empty or lack
fields.  A value is represented by where it came from, so that the model can say
whether what is disclosed as an estimate is one.  The physics that is computed from
it (crate hitl-physics) is outside the repository.

### Provisioning - provisioning and restoring a board

`PreflightHandler`, one task per request: `CheckCooldown` and `Enter` are `apply` and
`restore` up to the guard, `Capture`, `BrowserStores` and `SnapshotNotStored` are
`capture_and_confirm_snapshot` and `await_snapshot_ack`, `WriteParam` to `FlagsWrong`
are the loop of `apply_inner` around `apply_once`, `AcceptRequest` and `ReadBack` the
parts of `restore_inner` that differ, `Finish` is `mark_cycle_finished` with the
terminal result.

| Variable | In the code |
|---|---|
| `pc`, `target`, `written`, `attempt` | the task, what it writes, its loop counters |
| `applying`, `cooling` | `applying`, and "`last_cycle_finished` is less than `cycle_cooldown` ago" |
| `session` | `session_snapshot` |
| `flags`, `heard` | the cached HEARTBEAT flags, and whether the counter moved since the last boot |
| `offered`, `stored` | external: the snapshots that browsers were sent, and stored |
| `up`, `ram`, `flash`, `live`, `pristine`, `rebooting` | external: the board, and the reboot command under way in the NSH task |
| `linked` | whether the serial link carries messages (`LinkLost`, `LinkBack`: the manager in `main.rs`) |
| `cut` | history: the link was down between the reboot command and the silence taken for the reboot |

* A set of parameters is the set of those that hold the HITL value.  The first
  `NFlags` are those a HEARTBEAT shows (`SYS_HITL`, `SYS_AUTOSTART`).
* Time is order: a timeout is an alternative step.  `wait_for_reconnect` takes
  silence for a reboot.  That a board which is up and reached is heard more often
  than every `PREFLIGHT_QUIET_PERIOD` is assumed; that silence means a reboot is not: a
  link that is lost is as silent, and comes back with the same board behind it.
  `SuccessIsDurable` therefore excuses a `cut` (section 6).
* A save is committed within `PARAM_SAVE_SETTLE_DELAY`, or not at all.
* A capture reads the board in one step; nobody else writes while it lasts.
* There is one board, and a restore sends back a snapshot stored in this session.
* Every browser may answer for any snapshot it was sent, at any time and more than
  once: the broadcast reaches every tab and an answer names only the board.

## 3. The runs

| Run | Question | Instance | States |
|---|---|---|---|
| `session` | does an interleaving of a configure, a reset and a re-push with losses, reboots, arming, Rtl, an emergency stop, late prompts and failures break what a fingerprint, the origin or a Ready says? | 1 flow of each kind, 2 builds, 1 parameter, 2 shell commands outstanding | 5.1 million |
| `flows` | does every flow end, and is the session the abstract lock? | the same with 1 build | 650 000 |
| `timebase` | is the ledger of the clock kept under every lateness, to the end of its counters? do log, snapshot, banner, self-test and gate tell the same story, and how late may the gate be? | clock: step 2, threshold 7 (no multiple), derived cap 3, counters end at 32 and 2; reports: 2 gaps, with or without a loss, windows of 2 publications, iterations up to 2 long, a coarse step | 480 000 |
| `loop` | is what reaches the board honest about stalls, impacts, contact and schedules? | 2 sub-steps, gaps of 1, impulse and slot of 3 steps, channels of 1 | 6 million |
| `link` | do status, backoff and reconnection follow the board? | 1 board that never arms, heartbeat timeout 1, delay 1, bootloader backoff 2 | 940 000 |
| `detect` | does the search miss a header, or never end? | 3 devices: a known vendor, another vendor with paired nodes, an excluded name; headers of 2 and 4 bytes, reads of 2, 5 bytes | 310 000 |
| `outbound` | is every lost frame accounted for, does anything outlive its link or the daemon? | 2 links, 2 frames, 1 message of QGC, channels of 1 | 94 000 |
| `nsh` | is every command answered, can an echo confirm a restart, is "ready" said of the old estimator? | 3 commands, queue of 2, deadlines 2 and 3 | 610 000 |
| `provisioning` | does one request at a time work, can the board always be put back, is a success in flash, does every request end? | 1 apply with 2 attempts, 1 restore, 1 parameter | 320 000 |
| `gateway` | is what a browser was last told true, is everything answered? | every queue of 1, 3 messages, 2 news, 2 connections, limit 1 per window of 1 | 1.2 million |
| `terrain` | is a tile of another origin ever kept, does the ring fill? | 6 cells, 3 sites of which two are within the tolerance, 4 resident tiles, 2 builds, 1 move, stray frame or reload | 360 000 |
| `configure` | are frames of three versions read as what was sent, and is every estimate of the build disclosed? | headers of 1-4 bytes, up to 2 tiles of up to 2x2 samples; 5 pages, 4 answers for the FC board, every subset of failures | 44 000 |

What each property says stands in the comment above it.  By run:

* `session`: `FingerprintHonest` (a fingerprint names a build that the connected
  board holds, unless a push or re-push is under way), `OriginMatchesBuild`,
  `ReadyCoherent` (what a Ready stands for, unless `outside`; its estimator part
  also unless `crossed`).  `flows`: `FlowsEnd`, `ImplementsLock` (refinement).
* `timebase` (`MCTimebase` runs either the clock or its reports, which share no
  variable): `LossLedger` relates the four records of a loss; `StampsAdvance`
  is about the stamps that the loop gives the physics steps across iterations;
  `LogNeverUnderstates`, `StaleBound` (the gate may pass on statistics from before a
  gap for at most `StaleAfter`), `SnapshotConsistent` (the fields that banner,
  self-test and gate read agree), `NeverCleared`, `AnnouncementSettles`.
* `loop`: `StallGuard`, `ImpactFelt`, `EmissionHonest`, `SlotsKept`.
* `link`: `StatusHonest` (unless `overtaken`), `BackoffKept`, `LinkFollowsBoard`.  What
  a motor command says does not touch these; a board that arms is in `loop`, and the
  theorems on `StatusHonest` and `BackoffKept` hold for both values of `Arms`.
* `detect`: `HeaderNeverMissed`, `SearchEnds`, which an open bootloader would block; that
  none is opened, but in a race, is the theorem `BootloaderSpared`.
* `outbound`: `LossNamed`, `TornDown`, `ThreadsEnd`.
* `nsh`: `EveryCommandAnswered`, `NoEchoConfirms`, `ReadyUnlessCrossed` - the
  last shows that a late output is the only way to a wrong "ready".
* `provisioning`: `OneAtATime`, `RestorePointExists`, `SuccessIsDurable`, `EveryRequestEnds`.
* `gateway`: `OriginConverges`, `StatusUnlessCrossed`, `AnswersOwed`, `RateBound`.  With
  a limit of one the last says that nobody is refused too early and that no two
  commands pass in one window; a burst across the edge of a window needs a larger
  limit, and is bounded by the theorem `RateIsBounded`.
* `terrain`: `AnchoredUnlessRaced`, `RingFills`; that the tile underfoot is kept is the
  theorem `GroundUnderfoot`.  The first bounds how
  far a tile may be from the origin by the re-anchorings that kept it: the tolerance
  alone would not hold (section 6).
* `configure`: `NothingInvented`, `TilesPlacedOnce`, `EstimatesDisclosed`.
  The second says which stray bytes are refused: not all are (section 6).

Why the bounds are enough to be interesting:

* Two builds are needed for a cache to name the wrong one; a third configure would
  only be refused as busy.  Liveness and refinement are a run of their own, in
  which builds need not be told apart.  The session runs with one parameter; a push that fails half-way,
  and builds of which not all hover, are covered by the proofs, which hold for every
  `NParams` and `Hovering`.  The same goes for `provisioning`, whose one parameter
  is a flag, and whose requests repeat without bound, so that a second apply meets
  what a failed one left.
* Queues of one are full after one message, which is the case that blocks.  The
  queue of the NSH has two, since a command behind another is where answers cross.
* With `Top = 32` the clock passes its end after every combination of late
  iterations, and three gaps saturate the count.  The reports run with a coarse step,
  which has the gaps of a shorter one and others; what holds of a shorter one alone is
  in the theorems.
* Timeouts need to differ and to be passed: the smallest values that keep the
  order of the code's constants are taken, and the assumptions state that order.
* Two links, because an old bridge and a new one share a channel; two connections,
  because what outlives the first meets the second; three sites, to move between far and near,
  and strays of a fourth, near to one of the two that are near to each other.
* A header of four bytes read by two is split in every way, and five bytes are
  more than the window of three keeps.

Where an instance bounds its environment (moves, messages, gaps, frames), it does so
by the constants marked "bound of the model"; `session`, `provisioning`, `link` and
`loop` need none for what repeats.  Where the deadlock check is off, that bound, a
message that was read, or a daemon or board that has stopped is where the model
ends.  No instance uses symmetry.

Every property of a run has a mutant in `PROJECT.json`: a definition changed as a
plausible bug would change it, under which the run finds the property violated.

## 4. Fairness

Everywhere the same rule: a step that the runtime, a thread or a deadline takes
by itself is weakly fair; what a user, a pilot, a board, a browser or an operating
system may do is not, with the exceptions named here.

* `FcSession`: each flow's next step, and the loop taking a build.  Every await has
  a deadline (`CONFIG_APPLY_TIMEOUT`, the retries of a PARAM_SET, the 3 s of an NSH
  command, `ready_timeout`), modelled as an alternative step; the blocking
  `config_tx.send` ends because the loop takes the build or drops its end.  A flow
  ends also when the board never comes back.  `SessionLock` assumes only that an
  owner leaves.
* `Provisioning`: a request's next step; each of its waits (`PARAM_ACK_TIMEOUT`,
  `SNAPSHOT_ACK_TIMEOUT`, `PREFLIGHT_RECONNECT_TIMEOUT`, the read budget) has a
  deadline.
* `TimebaseReport`: the loop iterates, and the annunciator runs.
* `Link`: receiver, manager and clock; a running board sends heartbeats; the port of
  a board that was pulled fails; and, strongly, a port that is opened again and
  again opens some time - without it no retry loop could be said to succeed.
* `Detect`: the search, and the end of a probe at its deadline, which also data do
  not put off; strongly, an open that can return returns some time.  Nothing makes
  the open of a bootloader return: `SearchEnds` names that case.
* `Outbound`: bridges, senders, writers, the manager, the abort of a task that
  waits, and the return of main.  `BridgeTimesOut` is the 5 ms of `recv_timeout`.
* `Nsh`: the task, the restart, the delivery of a health report; strongly, the clock,
  which other steps interrupt.  Nothing is assumed of the shell or the link.
* `Gateway`: the two tasks, the flows, the simulation taking a command.  The
  browser need not read, ask or stay.
* `Terrain`: the loop, the ingest, the ticker; strongly, that a browser that is
  asked again and again answers some time, and that its first batch arrives -
  each answer may still be lost.

## 5. Proofs

All are by an inductive invariant (`IInv` or `Inv` at the top of the module), which
contains the type invariant; the last step of each theorem combines the
initial states, the steps and the implication by temporal reasoning.  The
assumptions are those of the constants, named in the modules.

`FcSessionProofs`, for every number of flows, builds and parameters: `TypeCorrect`,
`Exclusion`, `HonestFingerprint`, `OriginFollowsBuild`, `ReadyIsCoherent`,
`LockRefinement`.  The inductive invariant adds

* `KindInv`: which places each kind of flow can be in;
* `LockInv`: a flow is in the session iff it is the holder, and waits iff it is in
  the queue, once - exclusion alone does not survive a hand-over;
* `PushInv`: the parameters confirmed so far are on the board, or the board was
  lost and a re-push is due - the reason a fingerprint set at the end is true;
* `HandInv`: where the build that belongs to the origin is on its way;
* `ReadyInv`: what holds at each place between the hand-over and the Ready;
* `EkfInv`: as long as no prompt crossed, the last command in the shell is the one a
  flow waits for, and behind a confirmed stop no other stop is left that would undo
  the start.

`StepShape` reduces every action to one of five things it does to the session
(enter, queue, leave, move inside, move outside), so that the lock is argued about
once and not once per action.

`TimebaseProofs`, for every step, threshold, cap and width of the counters:
`TypeCorrect`, `AccountingIsExact`, `ClockIsAnchored`, `LatenessIsPaidOff`,
`LedgerIsConsistent`, `ClocksAreMonotone`, `StampsAreMonotone`.  The conjunction of
the invariants is inductive; two lemmas carry it, `Decision` (what a plan decides)
and `Movement` (how far the clocks move), on top of facts about products and
quotients.

`ProvisioningProofs`, for every set of requests and every number of parameters,
flags and attempts: `TypeCorrect`, `Exclusion`, `RestorePoint`, `DurableSuccess`.
The inductive invariant adds

* `AttemptInv`: no attempt before the first write;
* `GuardInv`: whoever works has the guard - without it the swap would admit a second;
* `PointInv`: until a browser has stored what the board was, the board is still
  that, every snapshot on its way says so and nobody is about to write - which is
  why an acknowledgement of the wrong snapshot does no harm;
* `BootInv`: unless the link was cut while the silence was awaited, RAM and flash agree
  between that silence and the result, and what was heard speaks of the boot; `cut`
  is set whenever a request waits for silence and the link is down.

The same module has the reporting, for all intervals and any number of gaps:
`ReportTypeCorrect`, `SnapshotsConsistent`, `RefusalIsForever`, `GapsNamed`,
`LogHonest`, `StalenessBounded`, `GradesHonest`.  `Travels` says how far the news of
a gap has come - waiting for the open window, in the statistics, or in the channel -
and how old it can be there; `StaleBound` is read off the three ages.  A gap is not a
loss: `Owed` says the same of a loss and the Faulted window it makes, `Accounted` which
of the two there can be without the other, and `GapsArePlanned` that what `Timebase`
plans, at any rate, is what the reporting assumes.

`DetectProofs`, for any devices, header layouts, windows and reads: `TypeCorrect`,
`BootloaderSpared`, `RecognisedGoFirst`, `NoHeaderMissed`.  `Described` says that
every port in hand was told apart from a bootloader after its device last changed;
`TailOf` that the window is the end of the stream and long enough to hold all but
the last byte of a header, so that a header that the window does not show is not in
the stream either.

`MotionProofs`, for all timeouts, budgets, gaps, boards, delays and channels: what
`Actuators` preserves, and then its two users.

* The loop: `LoopTypeCorrect`, `StallGuarded`, `ImpactIsFelt`, `AccelerometerHonest`,
  `ScheduleKept`, `FullLineIsHonest`.  Its invariant has one conjunct per concern:
  `Commanded` (how old a command can be at each place of the thread), `Felt` (an
  impact that is not reported yet outlasts the sub-steps that are left, which is why
  `Impact >= Budget` is assumed), `Grounded`, `OnGrid`, `Timed`.
* The link: `LinkTypeCorrect`, `StatusIsHonest`, `BackoffIsKept`.  `Owned` says where
  the receiver of a link can exist, and that from its end on the last status is the
  manager's or `overtaken`; `Spent` that the rest of
  the long backoff is either still flagged, slept, or over.

`ChannelProofs`, for any bounds of the queues, any window and limit, and any number
of links, frames and commands:

* `RateIsBounded`: `Counted` relates the entry of the limiter (when its window began,
  how many it counted) to the commands that were in fact admitted.  The limit is that
  of the code: a window is anchored at its first command, so up to twice the limit
  less one pass within any one `Window`, and no more.
* `BrowserConverges`: `OriginOnItsWay` - the latest origin is the last one still to be
  broadcast, or at the end of the queue of a connection that listens, or read for it
  at its greeting, or told.  That it is the *last* is what makes a lagging queue safe.
* `LinkIsHonest`: `StatusOnItsWay` says the same of the status, and that no answer to a
  handshake says otherwise unless it was crossed.
* `NoLossUnnamed`: for each link a ledger (`Ledger`) of what its bridge took: in the
  bridge, in the sender's queue, in the port's, on the wire, or counted as dropped.  It
  balances as long as the link is alive; inductive only together with the fact that a
  writer that is gone has raised the flag, or the frames it leaves would be lost
  behind a link that looks well.

`NshProofs`, for any capacity, any number of commands and any timeouts in the order of
the daemon's: `NshTypeCorrect`, `AnsweredOnce`, `EchoConfirmsNothing`, `ReadyIsNew`.

* `QueueInv`, `PipeInv`: commands wait, run and answer in the order of their ids, so
  that a prompt of its own shows that nothing is left of a command or of any before it.
* `EchoInv`: the task gives up on a command of a restart later than the restart does,
  by `TaskTimeout - ReplyTimeout`; what a restart hears is therefore a prompt, or that
  there is no link, and never an echo that a deadline cut off.
* `StagesInv`: unless a prompt ended another command than its own, a confirmed stop
  leaves the estimator stopped and no other restart's command behind, a confirmed
  start leaves the new one running, and every report of the old one arrives before the
  guard of `wait_for_px4_ready` is over.

`PageProofs`, for any world, bound of the cache, frames, builds, tiles and header
lengths:

* The terrain: `AnchoredGround`, `OneTilePerPlace`, `GroundUnderfoot`.  `GroundInv` says
  that the tiles are one to a coordinate and of one zoom, and that they and the frame
  in hand are near the origin - within the tolerance of a place that it has crept away
  from since, by one tolerance at a time - unless the cache was emptied under an ingest.
  From the first part follows that eviction, which takes the furthest, leaves the tile underfoot;
  this is an induction over the runs of a frame, which are stored one by one.
* The frames: `NothingIsInvented`, `TilesInPlace`, `NeverAnotherKind`.  `WireInv` says
  that what is on the wire is the message as some peer lays it out (`LaidOut`), and
  that what was made of it is what its reader makes of that; the rest is about data.
  `Part(d, p, b)` says that a frame holds certain bytes at an offset.  Each layout is
  taken apart into its parts, each field is read off its part, and a string ends at
  its terminator because no string holds one.  The parts of a state frame hold of
  every cut of it and of whatever continues it (`Cut`); the length then decides which
  of its last fields are told.  Of tiles the body begins at one place only: the filler
  is at most 3 bytes and samples are multiples of 4, so that one to three stray bytes
  fit nowhere, or are as many as the filler, or lie before a start past the end, where
  what is left saturates to what no tiles take (`BodyStray`).
* The builds: `LimitsAreHonest`, `EstimatesAreDisclosed`.  `LimitsInv` says at every fetch that
  `limit_prov` names exactly the limits that the catalogue supplied, `MassesInv` that
  `estimated_masses` names exactly the parts that did not supply theirs.  The request
  they begin with is one that was read, which takes `WireInv`: its capacity is the
  page's, or the default when it sent none (`CapacityRead`).

The library's induction theorems take an operator as a parameter, which the provers
cannot instantiate.  The inductions needed are on sets instead: a set of numbers
that is not empty has a least element (`LeastOf`, from the well-foundedness of `<`), so
the counterexamples to a claim are either none or include a first one (`InductionOf`).
With it `FlattenInTurn` says what the library's fold of a sequence of sequences is,
one element at a time.

Every safety property that a passing run checks is stated by a theorem; what is only
model-checked is liveness (the prover has no ENABLED): `FlowsEnd`,
`EveryRequestEnds`, `AnnouncementSettles`, `LinkFollowsBoard`, `SearchEnds`, `TornDown`,
`ThreadsEnd`, `EveryCommandAnswered`, `AnswersOwed`, `RingFills`, and with them the
fairness part of `ImplementsLock`; of `Gateway` also that every variable keeps its
type, of which the proofs need, and have, only a part.  No module proved about declares
or reaches a recursive operator.

## 6. Where the code and its documentation differ

Met while modelling.  The models do what the code does; none of these is hidden by
a property, which is stated around it where it says "unless".

Session, builds and provisioning:

* A build refused because the vehicle armed during its push stays in
  `last_verified_params`; the re-push after a reconnect restores its gains although
  the simulation still flies the previous build (`build_config.rs:882`).
* A build that timed out is still in the channel; applied late, it moves the
  generation that the next request waits for, and EKF2 is restarted before that
  request's build is live (`build_config.rs:1300`).
* A push that fails half-way leaves new gains under the old physics; nothing
  restores them, and the vehicle can arm (`build_config.rs:875`).
* `wait_for_reconnect` takes two seconds of silence for a reboot ("genuine",
  `preflight.rs:1386`); a link that is lost and reopened with the reboot command
  dropped is as silent, the read-back is then of RAM, and a restore reports Done with
  nothing in flash.
* On a board whose two flags were right before, a save that did not land loses the
  other parameters, and Done is reported (`preflight.rs:1312`).
* An apply after a failed one captures what that one wrote and replaces the
  session's snapshot of what the board was.
* A declined or refused request stamps the cooldown and broadcasts a terminal
  result (`preflight.rs:832`); the cooldown is read before the guard is taken (813);
  the board may be exchanged while an apply waits for its reboot (1177).
* `estimated_masses` names only propeller and battery (`build_config.rs`, doc
  at 751-755); builds that hover between 80 and 100 % are given 0.8 (805).

Simulation and time:

* Below 50 Hz a step is longer than the gap threshold; an iteration late by more
  than the threshold and no more than the step invalidates the session although the
  step absorbs all of it (`timebase.rs:518`): the gate refuses for good, while no
  window is Faulted and the self-test passes, though `preflight.rs:200` says of what is
  refused "wall time the loop could not simulate at all".  `SnapshotConsistent`
  and `GradeHonest` say what still agrees, and are stronger where the step is shorter.
* The annunciator steps down by candidate windows it may have seen twice
  (`timebase_cli.rs:181`).
* A full actuator channel drops the newest command, not the oldest, as
  `main.rs:1706-1718` has it.  A motor command that was already received re-arms the
  vehicle after `mark_fc_lost` (`main.rs:1428`).

Link, port and shell:

* A receiver that has not ended a second after its abort is left to itself
  (`main.rs:1436`): its last message may still set a motor command, the identity, the
  name or the status, after the manager has reported the loss or opened another link.
* `board_identity` is never cleared when the board is lost (`main.rs:1430`);
  "reconnected" means that a retry was counted (1580).
* No deadline guards `detect_flight_controller`, which blocks on a worker of the
  async runtime; the search at the start is only logged, the manager searches again;
  the probe adopts any device whose bytes look like a header.
* `ready` after a restart can be said of the old estimator when a late output
  confirms the command (`main.rs:1303-1319`, `px4_ready.rs:36-39`); an `ekf2 stop`
  that was given up may still run.  `fc_session.rs:112` rests the order of the two
  commands on the prompt ("the awaited prompt means stop finished"): the model
  reaches a prompt that means something else.
* Arm and Disarm commands are never forwarded to the FC.
* `bridge_stop` is not set when the sender is aborted, so an old bridge can take one
  frame of the next link (`main.rs:1977`); the sender ends on a receive error of
  QGC's socket while the link stays up (2033); drops while draining are reported
  only when the count happens to be 1 modulo 400 (2056-2073); an `open()` that never
  returns keeps its thread (2134); up to 512 old frames go to a new link; one return
  path of the writer does not raise the flag (`async_io.rs`, near 431).

Browser:

* A status broadcast after a handshake was answered may be sent before the answer
  (`server.rs:690`); a final NSH answer before its "complete: false"; the gate is
  checked before `command_tx.send().await`.
* Only the send task ends on `PONG_TIMEOUT`: its receive task stays until the socket
  fails (`server.rs:530-532`, 842); a receive loop that is blocked lets a live client
  look silent.
* EmergencyStop counts against the rate limit (`handler.rs:604-618`).
* `handler.rs:227-233` says that ApplyPreflightParams answers over `progress_tx`; the
  result is broadcast (463-483, `preflight.rs:828-839`).
* `TerrainTiles::from_bytes` slices past the end of a frame that names no tiles when
  its filler is cut (`protocol.rs:1631-1649`, against 1516-1517); an unpadded
  frame followed by exactly as many bytes as the filler is read shifted, and so is a
  padded one that lacks as many at its end; the documentation of HandshakeAck (38-43) lacks
  `version_patch`.
* Terrain: a ring at the edge of the world asks for x >= n for ever
  (`lib.rs:388-402`); the slow cadence is not left on progress
  (`server.rs:640-655`); a first batch that is lost is never asked for again
  (`lib.rs:377`, against `protocol.rs:1483-1487`); the origin can move between
  `is_anchored_to` and the write (`handler.rs:318`); a refusal is only logged, though
  308-318 say that the client is told; re-anchorings within the tolerance add up, and
  keep tiles whose own frame would by now be refused (`lib.rs:227`, against 1286 and
  223).

## 7. Not modelled

* Physics, sensor noise and geodesy: floating point, and the physics crate is
  outside the repository.
* Encodings of single MAVLink messages, and the parser of frames in `async_io.rs`:
  functions without state, over data that no property tells apart.
* `rtsched`, the terminal interface, self-update, parameter files, repository checks,
  the terrain pack: calls into the operating system, presentation, or input read once.
* TLS, the listener, state frames and the `Shutdown` message of the server; several
  browsers at a time (each has its own connection; what they share is in
  `Provisioning` and `Terrain`, where a second sender appears).
* A board that restarts faster than its link is declared lost, and writes of
  provisioning during a configure: hazards that `PROJECT.json` lists without a property.

## 8. What could come next

1. The composition of `Provisioning` with `FcSession`, whose session it does not
   take.  The two share only the board; their product is beyond what TLC finishes, so
   it would begin from an abstraction of each, shown to be implemented.
2. An abstract specification of the NSH channel (each command is answered once, in
   order) and of a link (frames are taken, written or counted), with the refinement
   proved as it is for the session: the ledgers and orders it needs are among the
   invariants above.
3. Larger instances: `session` and `provisioning` with two parameters, `link` with a
   board that arms and with two boards, `gateway` with a limit of two.
