# A TLA+ model of MICS

MICS is a fleet of interceptor drones that a ground station tasks against
attacking drones, with a gateway and a browser client to watch and to replay it.
This directory holds TLA+ modules of its control logic, the TLC configurations
that check them, and proofs that TLAPS checks. The modules are written from the
source; where a comment names a requirement (FR-...) it is from the PRD documents
of the repository.

## 1. The system

| Part | Code | State it keeps | What it does |
|---|---|---|---|
| Onboard autonomy | `mics/drone.py` | state, assignment, lock timer, track filter, events to report | `set_assignment` on each assignment; `step` on each tick: safety, the handler of the state, guidance |
| Safety node | `mics/safety.py` | armed, killed | forces a return (fence, battery, kill), permits or forbids a capture |
| Track filter | `mics/fusion.py` | estimate, covariance, time of the last accepted measurement | seeds, predicts, gates and updates; reports quality |
| Allocator | `mics/allocator.py` | roster, table of assignments, paused | `allocate()` on every tick of the ground station |
| Solver | `mics/hungarian.py` | none | minimum-cost matching |
| Cues and track picture | `mics/cue_degrader.py`, `mics/track_manager.py` | latency buffer; tracks by id | drops, delays and perturbs truth; associates, smooths and ages tracks |
| In-process simulation | `mics/sim.py` | all of the above plus metrics | one loop that calls every part in a fixed order |
| ROS processes | `ros2_ws/src/mics_nodes/mics_nodes/*.py` | the same objects, one per process | callbacks on topics, each with its own queue and clock |
| Scoring processes | `attacker_sim_node.py`, `monitor_node.py`, `clock_bridge_node.py` | truth and who lives; the last truth heard, the score; the next tick of Gazebo's clock | each judges every capture event; the monitor ends the run |
| Run orchestrator | `sim_orchestrator_node.py`, `gazebo.launch.py` | the active run and its process group, the requested speed | accepts, watches, cancels and reports runs; changes the speed of Gazebo's world |
| Viewer gateway | `viewer_gateway/{server,aggregator,logbus,ros_source}.py` | latest entities, capture events, log ring, clients | collects from the bus, broadcasts frames and logs, relays run control |
| Fixture source | `viewer_gateway/sources.py` | a synthetic pass: thread, captured targets, state | flies passes in a thread, begins and halts them for the panel, reports statuses |
| Recorder, replayer | `viewer_gateway/{recorder,replayer,sources}.py` | sessions with segments and a manifest; playhead | record what is broadcast; re-emit it, paced, with pause and seek |
| Viewer client | `mics-view/src/app/*.ts*`, `ui/*.tsx` | the connection, pending requests, the scene | applies frames, sends requests and matches answers |

How the parts meet: the allocator hears of the drones only through their
reported states and speaks to them only through its table, which is sent again
in full on every tick. The drones report captures; who decides whether a capture
was real is the simulation (in process) or two scoring nodes (as processes). The
gateway only listens, except that it relays run control to the orchestrator. A
client speaks to the gateway over one WebSocket, on which frames and answers
arrive in order; answers carry the name of their action and nothing else.

What is hard: an assignment takes effect in whatever state the drone has reached
meanwhile; safety overrides every state on every tick; the allocator acts on reports that
are one tick old in process and arbitrarily old between processes; messages are lost and
overtaken; the orchestrator's callbacks run in several threads on one set of fields, and
commands that take seconds reach a world that may have changed; the gateway's loop changes
hands at every `await`, and its sources are threads of their own; a viewer may be slow,
come, go and reconnect; the gateway may die while it records. The list in `PROJECT.json`
("hazards") gives each of these at its line, with the properties that watch it.

What makes each part correct:

- drone: stage, target and track always belong together; a capture is fired only
  on a fresh measurement of the reported target; an engagement ends;
- allocator: failed drones and lost targets are released, committed drones are
  left alone, targets get neither too many drones nor too few; the solver finds a
  cheapest matching;
- simulation: table, drones and score agree, tick after tick;
- fleet: the same in spite of queues that lose and delay;
- scoring: both judges agree, every shot is scored once, the run ends;
- track picture: live targets stay in it, dead ones leave it;
- orchestrator: one launch at a time, watched to its end, and every goal answered; the
  speed it reports is the speed of the world;
- gateway and client: every capture event and log record reaches each screen once and
  in order; no target leaves the map without its capture; the panel shows how the run
  is; every answer meets its request; the page comes back after a broken connection;
- recorder and replayer: what was recorded is what is shown, and a stopped session
  never changes.

## 2. The modules

| Module | Models | EXTENDS |
|---|---|---|
| `Msgs` | the values of the messages the logic tells apart | |
| `Engagement` | what the ground station and the scorer may rely on of a drone (abstract) | `Msgs` |
| `Drone` | onboard autonomy with safety node and the age of the track | `Msgs`; instance of `Engagement` |
| `Allocator` | `allocate()`, roster, table | `Msgs` |
| `Hungarian` | the solver, on integer costs | |
| `Simulation` | one loop over drones, allocator, cues and scoring | `Drone`, `Allocator` |
| `Fleet` | aircraft and allocator as processes with lossy queues | `Drone`, `Allocator` |
| `Scoring` | the two judges of a capture and the end of a run | `Msgs` |
| `TrackPicture` | truth, cues, association and ageing as processes | `Msgs` |
| `RunService` | what a client of the orchestrator may rely on (abstract) | |
| `SimOrchestrator` | the orchestrator's callbacks and its process groups | instance of `RunService` |
| `RunControl` | `set_sim_speed`, the worlds of the launches and the factor each sets at boot | `SimOrchestrator` |
| `Feed` | capture events and logs from their sources to the screens | |
| `Fixture` | the fixture's thread and run control, with the server's loop and the panels | |
| `Recording` | sessions, streams, segments, manifest, merge | |
| `Replay` | the replay pump and its transport commands | `Recording` |
| `ViewerClient` | the page: connection, requests, panels, and the handlers that answer | |
| `ScoringProofs`, `PictureProofs`, `RunControlProofs`, `FixtureProofs`, `FeedProofs`, `ReplayProofs`, `ViewerClientProofs` | theorems | the module and `TLAPS` |
| `SystemProofs` | theorems about the loop and the fleet | `Simulation`, `Fleet`, and the proofs of their parts |
| `MC*` | instances for TLC | the module |

The operators marked "Mutant" in the modules are slips that the code could
plausibly contain. No specification uses them; each shows, when it takes the
place of the definition it stands beside, that a property can fail.

### Drone

The variables are the fields of `Drone` and `Safety`, as functions of the drone
id. `SetAssignment(d, t)` is `set_assignment`, with `t = None` for target 0.
`Step(d, visible)` is `step`, one disjunct for each way through it: `RtlStep`
(safety first: fail and fly home in the same tick), `IdleStep`, `MidcourseStep`
(also from ASSIGNED, which the code leaves in the tick it is first stepped in),
`AcquiringStep`, `TerminalStep`, `ReturnStep`.

Time is counted in ticks. `age` is the age of the filter's last accepted
measurement, cut off at `Stale`, the first age beyond every threshold; a filter
nothing has seeded has that age too, as `last_update = -1e9` gives it in the
code. `trk` names the target whose measurements the filter holds. It is no field
of the code, but the code resets the filter exactly where the target changes,
and that this suffices is a property (`TrackOfTask`). What real numbers decide is
a choice: whether a sensor returns a measurement and whether it passes the gate
(`Fuse`), whether the covariance is small enough (`HoldLock`, never beyond
`LostTimeout`), capture geometry, divergence (`TerminalStep`) and arrival at home
(`GoHome`). `Trips` says which conditions may force a return in a run. A fence
breach excludes being at home in the same tick, as homes lie inside the fence.

`Engagement` is the view of those who cannot see into a drone: its stage (nothing, approach,
acquire, pursue, over), its target and what it reports. `Promise` is `Drone` seen this way:
`Stage` maps the states to stages, ASSIGNED and MIDCOURSE to one, CAPTURED and FAILED, the
states of the flight home, to another; `assignment` and `capture_events` are the target and
the report. `KeepsPromise` says that every step of `Drone` is one of `Engagement` or leaves
all three alone. Hence no stage is skipped, none is gone back to but by ending the
engagement, and a success is claimed once, out of pursuit and of the target of the moment.
`Engagement` allows what the code allows and a reader may not expect: a new target in any
stage (`Engage`), and a miss reported on every tick in which safety turns back a drone that
is on its way home already (`Abort`).

Left out: positions and velocities, `_lost_timer` (written, never read),
`fail_reason` (logging), and the idle drone's flight home.

### Allocator and Hungarian

`Allocation(r, as, tr)` is the set of tables one run of `allocate()` may leave, from
roster `r`, table `as` and live tracks `tr`: step 1 replaces the entries of dead drones
and vanished targets by target 0 (`Cleared`), step 2 matches the available drones with the
open slots (`IsMatching`), step 3 writes the matched pairs over the entries (`Overwrite`).
What such a run owes is stated once, of a roster, a table, the tracks and the new table
(`Owed` and its four parts), so that it can be said of the allocator alone, of the loop
and of the fleet. Both solvers return a matching that leaves no drone and slot over
together; the costs decide which, and the model allows every one. The hysteresis in
`_maybe_assign` never takes effect, because `_cost_to_target` returns None; the model
therefore has none.

`Hungarian` is the algorithm of `_munkres` step by step on integer matrices:
reduction, starring, priming, augmenting paths, adjustment, and the padding and
dropping of `solve`. `IsOptimal` compares its result with the cheapest of all
pairings. Rounding of floating-point costs is not modelled.

### Simulation

`turn` is the position in `Simulation.step`: 0 for the ground station, 1..N for
the push of the table in list order, N+1..2N for the drones' steps, 2N+1 for the
scoring. The roster is read once per tick, before the push. `alive` are the
attackers that live, `cued` those of which a cue may still be in the latency
buffer, and `FuseTracks` lets the track picture be any subset of the old tracks
and the cued targets. That keeps alive the track of a dead target as long as
another target's cues are associated to it, as `TrackManager._nearest` does
within 50 m. `CollectMetrics` drains the capture events: the first real claim
kills the target, all others are false fires. The run stops when every attacker
is dead, which is why this run does not check for deadlock.

Left out: the metrics that nothing reads back (handoffs, misses, reassignments,
times, separation), and the positions of teammates.

### Fleet

Each callback is an action. `statusQ` is the allocator's one queue of the reports of all
drones, `assignQ[d]` that of aircraft `d`, with the messages for all of them, of which
`OnAssign` heeds only its own; a full queue drops its oldest messages, whoever they are
from or for (keep-last). The writer's queue (10 messages) and the reader's (50) are one
here, of `StatusDepth` and `AssignDepth`: what is lost is lost in either. `AircraftClock`
steps the drone and publishes its state; `AllocatorClock` expires tracks, allocates, and
publishes the whole table again, in any order of the drones. The truth of a killed target
lingers in the aircraft (`truth_ttl`), so what a drone senses is not tied to what is
alive. `OnStatus` updates the roster at once, where the code keeps the status until the
next clock message copies it: only `allocate()` reads the roster, so the two cannot be
told apart.

`FleetInv` says what messages that are lost cannot harm. A full queue drops its oldest
messages, and whoever changes the table or a state publishes it in the same callback. The
whole table is published at once and fits into a queue (`DepthAssumption`), so that the
newest message for a drone is never pushed out by those for others: it is what the table
says now, and an aircraft that has read those for it has the target of the table or none
(`LatestWord`). The reports come one by one, so that many aircraft that report while the
allocator does not read can push out the newest one of another; until that drone reports
again it is in `overrun`, and `LatestReport` says that of all others the newest report, or
the roster once it is read, is the present state.

Left out: the odometry of the gazebo profile, and the captures, which other
processes judge (`Scoring`).

### Scoring

A run has one of two profiles. Under software-sim, `Tick` is the timer of
`attacker_sim_node`: the clock goes out, the attackers that live fly one point on,
their truth goes out, and `/sim/done` once none is left. Under gazebo, `GazeboStep` is
one dt of the physics, of which `clock_bridge_node` makes a tick; `OnOdom` is the
odometry of a model, and `OnClockTick` the callback that steps the script from there,
commands the model's velocity and publishes the odometry as the truth. A `/clock`
message that crosses several dt is as many steps of `GazeboStep` before anybody handles
one; models that have not been commanded stand still meanwhile.

`OnCapture` and `OnEvent` are the two callbacks that judge the same event, from
different positions of the target. `Declare` is what `Drone._capture` and `_fail` send,
at the drone's estimate of the target, which is off by any of `Offsets`. It comes
after `3 * MaxLag` ticks: a drone has held its lock for T_lock by then, and the monitor
has heard of the target. `MaxLag`
bounds how many ticks a message is under way; odometry arrives within one. The
assumptions `Margin + MaxLag < Reach` (software-sim) and `Margin + 2 * MaxLag < Reach`
(gazebo, where the truth is already old when it is published) are what makes both
judges come to the same verdict of an event that is clear: off by at most `Margin`, or by
so much more than the reach that what moves meanwhile does not matter (`Clear`). With a
reach of one less they do not. An estimate that is off by about the reach is judged
differently by the two although no message is late (section 5): `unclear` records the
targets of which such a success was declared, `JudgesAgree` speaks of the others, and its
last part, as `ShotsScoredOnce`, of all. `claims` and
`shots` count events and exist for the properties and the bound only.

Left out: the other metrics of the monitor.

### TrackPicture

Clock and truth go from `attacker_sim_node` to `target_ingest_node`, whose cues
go through the latency buffer of `CueDegrader` to `track_manager_node`. Positions
are reduced to whose they are (`origin`) and which pairs fly within the
association gate (`Company`). A cue of a target that has no track of its own is
merged into one within the gate (`OnRaw`). The assumptions say what continuity
needs of the system: a `truth_ttl` of twice the lag, and a `ttl` of the cues dropped in a
row and three times the lag. Both bounds are sharp: with a tick less, `PictureInv` fails.

`Continuity` speaks of groups of targets that nobody else flies near. The gate is no
equivalence: of three in a row, the cue of the middle one may update the track of the first,
and then that of the last one may take the same track, which is no longer within the gate of
the first. A lone target is a group, and keeps its own track; of a row only this is sure,
that it stays in the picture as a whole.

Left out: messages that are lost on these topics (truth and cues are dropped only where
`CueDegrader` drops them), and targets that come into or leave each other's company.

### RunService and SimOrchestrator

`pc[g]` is where the execute callback of goal `g` stands, cut where the code
blocks or publishes something a client may act on; `state`, `proc` and `run` are
the fields `_state`, `_proc`, `_run_id` that all callbacks share. A launch is a
leader process (`ros2 launch`) and the nodes in its group: `Interrupt`,
`Terminate` and `Kill` signal the group, `LeaderExits` and `NodesExit` are what
the processes do, in their own time. `Raises` is an execute callback that ends
with an exception: the action server aborts the goal, and the fields stay as they
are. `patient` records an assumption about the clients, that they wait for each
other's goal to be answered. The shipped viewers do not (each has its own Run
button), so both cases are in every run; what holds in each is said by the
properties.

`RunService` is the abstract specification: a goal is declined or started, one
launch at a time, and concluded after its launch has ended. `ServesRuns` is the
refinement, with the launches' leaders for its phases.

Left out: the counters and times in the status, and the contents of overlays (`Known`
are the goals that resolve).

### RunControl

The actions of `SimOrchestrator` again, with what each does to the factors: `_execute`
takes the goal's factor over as the requested one (`BeginRun`), a launch brings a world
with the factor of `mics.sdf` (`BootWorld`), three seconds later `gazebo.launch.py` sets
the launch's own (`BootRtf`), the reset forgets the requested one (`ForgetRun`), and the
world goes with the nodes of the launch (`EndWorld`). A call of `set_sim_speed` is cut
where `_set_gz_rtf` waits for its command: `SetSpeed` has passed the guards, `ApplySpeed`
is the command that reaches a world, `SpeedSet` and `SpeedNotSet` are the two ways the
service goes on. A command that times out may have reached the world all the same. All
worlds have the same name, so where two of them are up a command reaches either.

`amiss` records that in this run two changes of speed met (a call with the launch's own,
with another call, or with the next run), or that an answer was lost. In each of these
cases the reported factor may be wrong for good, because nothing reads the factor of the
world back. `FactorIsTrue` says that these are the only cases. With clients that do not
wait for each other several runs share the fields anyway, so calls are explored for
patient clients only (`Explored`).

### Feed

Events and records are numbered in the order in which the aggregator and the log bus take
them in. `pump` are the coroutines of the state pump and the log pump, each with the
`_broadcast` it awaits. Between two awaits no other coroutine runs, so an action of a pump
goes on to its end or to the first send that suspends (`Broadcast`); a send suspends only
when the connection holds `WireLimit` messages, whichever pump filled it. The set iterator
of `_broadcast` remembers the size of the set it started with; when the pump resumes and
the size has changed, Python raises `RuntimeError` and the pump's task ends, since nobody
awaits it (`ResumeRaises`); a recorder that cannot write does the same before anything is
sent (`WriteRaises`). The pumps end each other in this way too: one discards a dead client
while the other is suspended. The log bus drops its oldest records when it is full
(`lost`). The client coalesces frames: `OnFrame` appends the events of a frame to those
held, `FlushFrame` applies them on the next animation frame; logs go to the store at once
(`OnLogs`). The store keeps the newest `LogRows` logs and the newest `EventRows` events
(200 in the code, which a drone that reports a miss on every tick exceeds); `NothingLost`
allows for the oldest of a full ring and nothing else. `ClickRun` clears the scene and
asks for a run, `ProxyRun` clears the aggregator.

Left out: the content of frames other than events.

### Fixture

`thread` is where the thread of `FixtureSource` stands in one step of a pass: the tracks of
the targets that live, then for each drone that reaches one the capture (`CaptureTarget`:
marked and reported) and the expiry of its track, then the tick with a status every so
often, or the completion. `loop` is the server's loop: it halts a pass, which blocks it
until the thread has ended, begins the next, answers a speed change, broadcasts a status or
a frame. `calls` are the statuses handed to the loop by `run_coroutine_threadsafe`. A status
is built from fields that the other thread may change before it is handed over; the model
keeps that moment where it matters, in `sim.setSpeed` (`SetSpeed`, `SpeedTold`). `scene` is
what a page has seen: the targets owed to it are those it was shown alive and whose capture
it has not seen.

Each status is broadcast by a task of its own, in `sends` with the pages it has yet to
visit: `BroadcastStatus` sends to some pages and waits for one that is slow, `SendOn` goes
on, and a page does not take a later status before an earlier one, as its connection is one
queue. `IteratorValid` is as in `Feed`: when a page has come or gone meanwhile and the size
of the set has changed, `SendEnds` is the `RuntimeError`, which nobody sees, and the pages
not yet visited miss the status for good. A page that opens meanwhile may be visited or not.

`raced` records the passes that completed while the loop told another status of them, and
`missed` the steadfast pages that the broadcast of the end of the present pass did not come
to. `StatusesInOrder` and `Settles` say that these are the only two ways in which a panel
that stays connected misses the end of a pass.

Left out: where drones and targets are, the logs, the coalescing of frames (`Feed`), a
thread that does not end within the second that `_halt` waits for it, a broadcast of a frame
that suspends (`Feed`), the two further ways in which a send can end (the write lock of a
connection, a set that is rebuilt at the same size), and pages that are found dead.

### Recording and Replay

A session has two streams; `open` is the segment each is writing, `closed` are
the finished ones, `manifest` is what the file on disk says. `Start` and `Stop`
write the manifest, nothing between them does. `Write` may rotate the segment
before the row is written. Frames carry the sim time, which `NextRun` sets back,
logs the wall clock. `Crash` loses the open segments. `written` is a record of
what was handed to the recorder, numbered in that order, which only the properties
read. `Merged` is the stable sort of `iter_merged`, said by what it puts where: the i-th
message is the one that i - 1 others come before.

`Replay` puts a second gateway beside it. `at` says where the pump awaits: held
by a pause, waiting until a message is due, sending, or resting between two
passes. `BeginPass` reads the `events` of the pass, as the pump does. `Advance` is the
code from one await to the next: the skip of what lies behind the playhead comes after
the hold. `SentRaises` is the `RuntimeError` of `_broadcast` when a viewer has come or gone
while a message was being sent: it ends the pump (`at = "crashed"`) and no pass follows. Of
the viewers there is only this. The remaining variables (`pass`,
`goal`, `since`, `heldAt`, `sought`, `leaked`) record the pass for the properties.

Left out: speed, which only changes how long the pump waits; disk errors (`Feed`); the
listing of sessions; a session id that is used twice within one second.

### ViewerClient

`sock` are the WebSocket objects with the messages on them, `ws` the one that
`GatewayClient` sends on, `timers` the reconnect timers that run. `pending` are
the promises by action name. The panels' requests are `Chains`; a message on a
socket carries its place in its chain, which the code does not send and which
only tells the properties whose answer it really is. `Serve` is `_on_message`,
`ServeRaises` the proxy that raises without an orchestrator, `Break` a connection
that is refused or lost, `Switch` another viewer at the recorder. The recorder is
counted (`recorder`): odd is active, so that an older status can be told from a
newer one.

Left out: frames (`Feed`), the run's status with Stop and speed (`Fixture`), the buttons
of `ReplayTransport` (`RecordingBrowser.tsx`), the rendering.

## 3. The runs

| Run | Instance | Properties | Shows |
|---|---|---|---|
| `drone` | 1 drone, 2 targets, T_lock 2, T_lost 2, T_fresh 1, lost_timeout 3, fence and battery | `TimerInv`, `TaskAndTrack`, `CaptureConfirmed`, `KeepsPromise`, `PursuitNeedsMeasurements`, `ReturnsToIdle` | what the state machine guarantees alone, against every order of assignments, switches and trips; that it implements `Engagement` |
| `allocator` | 3 drones, 2 targets, redundancy 2, solver matrices up to 3 x 4 | `SolverIsOptimal`, `EntriesKept`, `NeverPilesOn`, `NoIdleWhileOpen` | what one run of `allocate()` does to any table, roster and picture, and that the solver is right |
| `simulation` | 2 drones, 2 targets, T_lock 2, the other timers 1 | `SimInv`, `HandoffOnCurrentTarget`, `ObeysTable`, `TrackedIsEngaged` | the loop: table, drones and score agree; a tracked target is engaged again and again |
| `fleet` | 1 drone, 2 targets, `StatusDepth` and `AssignDepth` 2, shortest timers | `FleetInv`, `TableIsObeyed`, `FailedIsReleased` | the newest message stands; recovery from lost and overtaken messages |
| `double_commitment` | as `simulation` | `NeverDoubleCommitted` (violated) | section 5 |
| `scoring` | both profiles, 2 drones, 2 targets, 5 ticks, reach 4, margin 1, lag 1, estimates off by 1 either way, 4 and 8, 2 claims (gazebo: 1) | `ScoringInv`, `RunEnds` | both judges agree on what is clear, each shot is scored once, the run ends |
| `pictures` | 2 targets that fly together, truth_ttl 2, latency 1, ttl 4, lag 1, 1 dropped cue | `PictureInv`, `GhostsFade` | no group of live targets leaves the picture, every dead target does |
| `orchestrator` | `RunControl` with 3 goals, one of which does not resolve, and 2 callers with different speeds; Popen may fail | `RunIsWatched`, `ActiveIsExecuting`, `ControlInv`, `ServesRuns`, `CancelAnswered` | goals one at a time and overlapping, and the speed of the world |
| `feed` | 2 viewers, one of them steadfast and an operator, 3 items (events or logs), write limit 1, log rings of 1, an event ring of 2, writes may fail | `FeedInv`, `NothingLost`, `ScreensCatchUp` | events and logs reach a screen once and in order while their pump lives |
| `fixture` | 2 pages, one of them steadfast, 2 targets, period 1, 2 passes, 1 waiting status, 1 status being sent | `FixtureInv`, `StatusesInOrder`, `Settles` | no capture is missed, statuses come in order, each pass ends and is seen to |
| `replay` | 2 sessions, 3 messages, 2 commands | `ReplayInv`, `TransportObeyed`, `SessionsImmutable`, `PlaysAgain` | what was recorded is what is shown |
| `client` | 2 sockets, 2 switches of the recorder, 1 open request of an action | `ClientInv`, `AnswersMeetRequests`, `IndicatorFollows`, `ComesBack` | one page on a connection that breaks at any point |

Why the bounds are enough.

- `drone`: no action of `Drone` reads another drone, so one is enough, and two
  targets give every retasking. The timers are short but distinct, so that each
  threshold lies strictly between others: `lost_timeout` beyond `T_lost` beyond
  `T_fresh`, as in the code's order of tests.
- `allocator`: three drones on two targets with two slots each give a surplus, a
  shortage, a partly covered target and a drone that must not be switched. The
  matrices are those that three drones and four slots can make, square and not,
  with costs 0..2 (0..1 beyond nine cells): ties, zeros off the diagonal, and
  matrices that need several adjustments.
- `simulation`: two drones compete for two targets; the shorter timers keep all
  orders of events and cut only the waiting. Without trips, so that the liveness
  property fits; with them the state machine is checked in `drone`.
- `fleet`: queues of two are the smallest in which messages both overtake a decision and
  get lost. One drone is what the liveness properties allow in the time. Drones meet in the
  table, which `simulation` covers, and in the queues: that the messages of others do no
  harm is proved of any number (`LatestWordStands`), and was checked of two drones on one
  target as far as six and a half million states. With several drones `FailedIsReleased`
  needs in addition that the allocator reads its queue as often as the drones fill it.
- `scoring`: two events are enough for two drones on one target and for one drone that
  fires twice; attackers fly one way, at a speed of one, so that a message that is late by
  `MaxLag` puts the judges furthest apart. Five ticks leave one after the first event in
  which the truth it is judged by can change. The estimates are the two sharpest clear
  hits, the sharpest clear miss and one off by just the reach. Under gazebo one event is
  enough for that; that each is scored once does not depend on the profile.
- `pictures`: two targets in company are the smallest picture in which a cue can
  go to another target's track; `truth_ttl`, `ttl`, lag and drops are the smallest
  numbers that satisfy the assumptions without slack.
- `orchestrator`: two goals are needed to overlap, a third to be accepted between
  the end of one and the reset by the other. One goal asks for a factor, the others for
  none; two callers that want different factors overtake each other, the launch and the
  next run.
- `feed`: one viewer whose connection is full and one that joins or leaves while
  a pump is suspended on it; two items have an order or belong to different pumps that
  share a connection. Rings of one log overflow with the second record, the ring of two
  events with the third, so that both have a newest and an oldest item to confuse.
- `fixture`: two targets, so that one capture leaves a target alive; two passes, so that
  one replaces the other; and a page that is closed and opened late, also while a status is
  being sent. With a period of two, which adds ticks without captures, the run passes too,
  in more time. One status that is being sent makes
  the next one wait; with two at a time the order of statuses was checked without the
  liveness properties (ten million states), and it is proved for any number. The bound on
  waiting statuses does not hold for the last status of a pass, nor for those of a halt, so
  that more may wait.
- `replay`: two sessions for a crash of the first; three messages give both
  streams and a rotation; two commands give a seek under a pause and a pause after
  a seek. While a session is replayed nothing more is recorded, though a recording
  that is under way may be stopped.
- `client`: a page with more than one socket would be an error, and two sockets
  are enough to see it. One open request of an action per panel button gives two
  panels that ask for the same action at once (poll and refresh).

Symmetry is used only for targets or drones that no definition tells apart, and never where
liveness is checked. `CHECK_DEADLOCK FALSE` stands where the system may really stop: a run
whose attackers are dead (`simulation`), a run that has ended (`scoring`), goals that are
all answered and worlds that are left alone (`orchestrator`), no session to replay and no
more messages (`replay`).

Fairness.

- `BeatFairSpec` (in `MCDrone`): every drone is stepped for ever (the loop or the
  clock calls it) and one that keeps flying home arrives (it flies at cruise speed
  to a fixed point). The variable `beat` makes every tick a change of state:
  otherwise a tick that leaves a lost target lost would be a stuttering step, and
  fairness would promise a measurement.
- `SimFairSpec`: the loop goes on, and arrival is strongly fair because the drone's
  turn comes only once per tick.
- `FleetFairSpec`, `ScoringFairSpec`, `PictureFairSpec`: timers and clocks keep
  coming and executors work their queues off; neither tracks, measurements nor
  captures are assumed to come.
- `ControlFairSpec` (and `OrchFairSpec`): the executor's threads go on. Nothing is assumed
  of clients or of launched processes: that a cancelled goal is answered rests on the
  SIGKILL at the end of `_terminate_proc`.
- `FeedFairSpec`: the event loop goes on with each pump, browsers read and flush. Events,
  logs and connections need not come.
- `FixtureFairSpec`: the thread runs, and the loop, which takes its tasks in turn, answers
  what it has begun. Broadcasting a status, and ending the broadcast that has waited
  longest, is strongly fair: the loop may do something else again and again, but asyncio
  calls what was scheduled in the order in which it was, and a page that does not read is
  disconnected by the keepalive of its connection. Clicks and frames need not come.
- `ReplaySpec`: the loop wakes the pump when what it awaits is over. `PlaysAgain` supposes
  that no viewer ends the pump.
- `ClientFairSpec`: timers fire, the browser handles what arrives, the server
  answers; and a connection that is tried again and again opens one day, which is
  strong fairness and the least that "comes back" can rest on.

`TrackedIsEngaged` supposes that in the end exactly one track is left and its target
lives. With two it does not hold: the double commitment of section 5 can bind
both drones to one target and starve the other for ever.

## 4. The proofs

`SystemProofs` begins with `Drone`, for every set of drones and targets and every setting
of the timers, from `NoneAssumption` and `DroneAssumption` only. The inductive
invariant `DroneInv` is the conjunction of `TimerInv` (types, and `HandoffInTime`) and
`TaskAndTrack`, all of which the run `drone` checks. `HandoffInTime` is needed
for the bound of the lock timer (`TimersInRange`), which is carried from MIDCOURSE into
ACQUIRING and incremented in both; `TaskConsistent` is needed for `TrackOfTask`, because a
measurement is taken on the assigned target. There is one lemma for each way
through `step` and each part of tasking. `CaptureIsConfirmed` then shows FR-OB-5
for every step: only the capture of TERMINAL leads to CAPTURED, and there the age
is at most `T_lost`, so the filter has been seeded, so it holds the assigned
target. `PursuesItsTarget` says the like of every tick that goes on pursuing; it is the
safety half of `PursuitNeedsMeasurements`, whose other half, that ticks keep coming, is
fairness.

`DronesKeepPromise` is the refinement. `StagesFact` and `StageFact` compute the stage that a
change of state leads to, and there is one lemma for each kind of step: a tasking is
`Engage`, `Withdraw` or nothing (`TaskingEngages`), quality control is `Hold` or `Advance`
(`LockAdvances`), every loss and every forced return is `Abort` (`LossAborts`), and
`StepEngages` puts the ways through `step` together. It needs `DroneInv`: that an idle
drone has no target makes a target 0 sent to it no step at all.

Then `Allocator`, for every finite fleet, any targets and any redundancy, from
`NoneAssumption` and `AllocatorAssumption`. Type correctness is the only
invariant needed. `TableChange` shows that a changed table comes from one run of
`allocate()`; the properties of that run (`EntriesAreKept`, `NeverPilesOnTarget`,
`NoDroneIdles`) follow from the definition of a matching, two of them by counting.
`OwedFact` states all four parts of `Owed` of one run, and is what the loop and the fleet cite.

Then the two together, for any drones in any order, any finite set of targets, any timers,
and redundancy and queues of any depth that holds the table, from the assumptions of the
parts, `OrderAssumption`, `TargetsAssumption` and `DepthAssumption`. This uses what was
shown of one step of one drone (`StepInv`, `SetAssignmentInv`) and never opens the state
machine again, except to see that no step ends in ASSIGNED (`StepReports`). For the loop
`SimIInv` adds three conjuncts that speak of the turn of the tick. `AssignedInFlight`: a
drone is ASSIGNED only between its push and its flight, so that the roster is exact and
never says ASSIGNED when `allocate()` runs. `PushedObey`: whoever has been pushed obeys
the table. `TerminalIsKept`: what is about to be pushed to a drone in TERMINAL is its own
target or none, because its entry was its target when the roster was taken and a committed
drone's entry is kept or cleared. Without the last, `HandoffOnCurrentTarget` is not
inductive: `set_assignment` would put a drone with an old lock on a new target.
`ObeysTable` is `PushedObey` outside the push loop. `CapturesCountKills` is by counting
the dead of one tick. `SimStepsDrones` says that the loop does to the drones what `Drone`
does, or drains their reports; with it `SimCaptureConfirmed` and `SimKeepsPromise` follow
from what was shown of `Drone`. The roster is exact when `allocate()` runs, so
`LoopIsAllocated` is about the states and tracks of that very tick.

For the fleet `FleetImplementsDrones` shows that its aircraft are the drones of `Drone`,
so that FR-OB-5, `TaskAndTrack` and `KeepsPromise` hold of it whatever the topics do; what
needs exact reports (`HandoffOnCurrentTarget`) does not, as section 5 says.
`LatestWordStands` rests on `FleetIInv`: `LatestWord` and `LatestReport` are each
inductive together with `FleetTyped`, which is the types, `DroneInv`, and that no message
is for a drone the table does not know. `EnqueueFact` says which messages a full queue
keeps, whatever drones they concern, and `ReadFact` that reading the head leaves the
newest of each drone, or was it. For `LatestWord`, `AllocatorClock` writes the table and
the queues together: the burst is no longer than the queue, so it survives whole, and any
later message of a drone would be of the same burst (`PublishFact`); `OnAssign` passes on
only its own messages (`ToldFact`), and no tick gives a drone a target
(`StepKeepsTarget`). For `LatestReport`, `AircraftClock` is the only step that makes a
state other than IDLE or ASSIGNED, and reports it (`ToldStates`); whose newest report that
pushes out is in `overrun`. The assumption that the table fits is needed: with a queue
shorter than the table the entry of one drone is lost to those of the others on every
tick. `FleetIsAllocated` is about the states last reported, which is all the allocator
knows.

`ScoringProofs`, for any finite sets of drones and targets, both profiles, any length of
the run, and any reach, margin and lag that `ScoringAssumption` allows, which is where the
judges need the reach. `TrackInv` says of every living attacker that the truths on their
way lead, one after the other, from what the monitor knows to where the attacker is, each
no wider of it than it is old (`Leads`); under gazebo the truth is older by what the
odometry lags. Hence an event that was right when it was declared is within reach of every
place by which either judge may still decide, and one that was wide is within reach of none
(`AimInv`: `Near` or `Far`, for the targets outside `unclear`; of an event that is neither
nothing of the kind holds). Hence both judges decide alike, and `OnTheWay` can say that
what one has decided is on its way to the other, whose queue it has not left. Each shot
is counted where it is (`ShotsScoredOnce`) by moving one pair of `Unscored` at a time, a
bijection between the positions of a queue and of its tail. The attempt to prove this
found that `Declare` has to wait for `3 * MaxLag` ticks: an earlier guard, `MaxLag + 1`,
is enough for a lag of one, but with a lag of two an event under gazebo can meet a monitor
that has no recent truth of its target.

`PictureProofs`, for any finite set of targets, any of them in company, any latency, lag and
number of drops in a row, from `PictureAssumption`. A track is aged out when no cue comes
for `ttl`, so the invariant has to say where the next cue is (`OnTime`): it waits to be
associated, or has a place in the latency buffer, or the drops counted so far leave it time
to be made. `Regular` says that cues in the buffer are at most `MaxDrop + 1` places apart,
`Watched` that the truth of a live target is never forgotten, `Herded` that no cue updates a
track of another group. The three delays add up to `MaxDrop + 3 * MaxLag`. The attempt to
prove this found that the assumptions made before, `MaxLag < TruthTTL` and
`MaxDrop + 2 * MaxLag < TTL`, are enough for a lag of one tick only, and that continuity
does not hold of each target in a row of three.

`RunControlProofs`, for any goals, callers and factors, from `OrchAssumption` and
`ControlAssumption`, begins with the orchestrator alone. `OrchTypeOK` is
inductive by itself and says, beside the types, that a goal is answered exactly
when its execution is over. `RunInv` adds, for patient clients, that at most one
goal is open and that how far it has come determines `_proc`, the run, the state,
the launch and the answer (`Placed`). `EveryRunIsWatched` and `NeverWedged` follow
from it directly; `ImplementsRunService` shows step by step that what the
orchestrator does is a step of `RunService` or none of its business: `Launch` is
`Start` because no other goal has come that far, an answer is `Conclude` because
`Placed` has the launch down by then. Without the patience of clients all three
are false, which section 5 describes.

`ControlImplementsOrch` then shows that the orchestrator with its speed
service is still the one of `SimOrchestrator`, since every step of `RunControl` is one of
its steps or leaves its variables alone; the theorems about goals therefore hold of it,
and `RunInv` is a lemma here. `ReportedFactorIsTrue` needs the stronger `SpeedInv`: while
nothing is amiss there is one world, no change is on its way while the launch's own is
still to come, at most one caller's is applied, and what the world runs at is named by
whichever of the three stages the factor is in (`Ran`).

`FixtureProofs`, for any pages, any finite set of targets and any period, from
`FixtureAssumption`. `CapturesAnnounced` alone is not inductive: what the next frame shows
depends on the aggregator. `ScenesCurrent` adds that whatever a screen shows alive, of the
pass that runs, is alive in the aggregator or has its capture among the pending events;
`CaptureTarget` keeps this because the event is in before the track goes, which is the
order of the calls in `_step`. `StatusesInOrder` compares two frames of one panel, and
needs the statuses that are still on their way: `StatusOrder` says that what a panel
shows, the calls waiting for the loop, the status a change of speed has read but not yet
told, and the present state come in this order (`Trail`, `MayCome`), that the status
untold is of the present pass, and that a pass marked STOPPED has an ended thread, so that
only a change of speed can still speak of it. What a panel shows and the statuses that are
being sent count as one set (`Told`), as any number of broadcasts may be under way: for
each page they are in line, the sooner begun the older (`InLine`), because none overtakes
another on one connection. The exceptions are the passes in `raced`,
where two threads really tell statuses at once; the set only grows (`FollowsFact`).

`FeedProofs`, for any finite set of viewers, write limit, ring sizes and number of items,
from `FeedAssumption`. `Path` is one sequence, but an action moves items between its five
stretches: the store, the frames held, the wire, what a suspended broadcast has yet to
send, and the source. `InLine` says that each stretch is in order and every one before the
next, `Stuff` is what they hold together, and there is one lemma for each way in which
items move between them (`InLineReach`, `InLineArrive`, `InLineFlush` and so on).
`FeedIInv` says this of both pumps and every viewer that stays, and adds what no screen
shows: such a viewer is in every round of every pump and never among its dead
(`Connected`), so a round cannot end before it has been served, and a connection holds
more than its limit only while a pump waits for it (`WiresBounded`). `EventsOnWay` and
`LogsOnWay` are `NothingLost` with the stretches in the place of the path; a full ring gives
up its oldest items, which are older than anything behind them on the path. `PathFact` puts the
stretches together; it needs that messages in order stay so when `FlattenSeq` joins
them (`FlattenFact`), an induction on their number in the form of a least counterexample.

`ReplayProofs`, for any number of sessions, messages, pauses and seeks, from
`RecordingAssumption` and `ReplayAssumption`. `RecordingInv` says where a recorded message
is: while the session is active, in the finished segments of its stream or in the open one
(`Opened`), and once it is stopped all are in what its manifest lists (`Finished`). Each
segment is in order and every one before the next (`Lined`), which rotation preserves
(`ListingFact`) and from which `FlattenFact` gives `StoppedIsComplete`. `Unborn`, that
nothing is there of a session before it starts, is what `SessionsImmutable` needs of
`Start`. `MergedFact` shows that the merge is sorted and has each message once: the number of
messages before a message tells any two apart, so every rank up to the last is taken.
`PlayInv` follows the pump from await to await: what it sends is a stopped session in order
(`Shown`), a pass that nobody disturbs has sent exactly the messages before the one it is at,
and none of them is behind the playhead (`Straight`; at its start by `StartsFirst`, because
the span begins with the earliest head of a segment), a pause lets through only what was
waited for when it came (`Quiet`), and from a seek on, the message it was held at and its
goal fix the next one (`Target`, by `GoalFact`, which needs the order of the stamps). The steps
of the pump share one lemma for each await they may end in (`SendFact`, `AwaitFact`,
`HoldFact`, `FinishFact`).

`ViewerClientProofs`, for any number of sockets, requests and recordings, from
`ClientAssumption`. `Lifeline` strengthens `OneLifeline`: the one socket in use is the one
the page sends on, so nothing is ever read from another. `AnswersMeetRequests` is then
inductive: a request joins the pending and the road at their ends, an answer takes the
place of its request (`RoadServe`), and one that arrives was at the head of the road, so it
is the first of its action there (`ThreadsHead`). The lemmas on `Threads` build the
embedding of the pending requests in the road for each of these. `Ordered` says that the
statuses on their way are in the order in which they were true, from which
`IndicatorNeverTurnsBack` follows.

Only model-checked: all liveness properties (fairness and ENABLED are out of the
prover's reach), the solver (a recursive operator), and
everything in section 5.

## 5. Where the code and its documents disagree

Checked:

1. `double_commitment`. A drone in CAPTURED is "available" to `allocate()`, and
   so is an idle one; the entry it still has in the table is neither cleared nor
   counted as coverage. If the capture was false, or the dead target's track is
   kept alive, a second drone is given the target while the first flies home; the
   first, idle again, is pushed its old entry. Two drones are then committed to
   one target, against FR-ALLOC-2 and the comment in `_open_slots`' caller.

Reachable in the models, or seen in the code while they were written:

2. `_broadcast` iterates over the set of clients while it awaits each send. A viewer that
   connects or leaves while a send is suspended changes the set; the pump's task ends with
   a `RuntimeError` that nobody sees, and no viewer gets another frame (or log), nor does
   the recorder. A write of the recorder that raises has the same effect. `server.py` says
   that the server pumps on a fixed cadence. Every property of `Feed` therefore speaks of a
   pump that has not crashed. The replay pump awaits the same `_broadcast` and ends in the
   same way: then nothing is shown any more, and Play, Pause and Seek do nothing. A status of
   a run that is being sent meanwhile is lost to the pages it has not come to.
3. `must_rtl` is tested in CAPTURED too: a drone that leaves the fence after its
   capture becomes FAILED and reports a miss on the target it captured. A failed
   drone keeps its assignment until target 0 arrives, and while `must_rtl` holds it
   reports a miss on every tick.
4. `set_assignment` resets the track but not the stage: in the fleet, where an
   assignment may be computed from an old IDLE report, a drone in TERMINAL is given
   another target and is in TERMINAL for it without any lock (FR-OB-3). It cannot
   fire before it measures the new target (`CaptureConfirmed`).
5. With a low battery or after a kill, a drone that stands at home and is tasked
   goes ASSIGNED, FAILED and IDLE within one tick: no report shows the failure, and
   the allocator tasks it again for ever. At the default drain this takes about
   half an hour of flight, which no shipped scenario reaches.
6. The orchestrator accepts a goal while no run is active, but a run becomes active
   only in the execute callback. Two goals sent at once are both launched; the
   second takes the first one's place in `_proc`, and the first launch is watched
   by nobody. The reset at the end of one run can clear the process of the next.
   When `Popen` raises, the state stays LAUNCHING and every later goal is rejected.
   The last resort of `_terminate_proc` kills only the leader: nodes that ignored
   the signals before it stay.
7. The monitor's `/sim/done` can overtake the last capture event: the run is called
   neutralised with fewer captures than targets. The two judges compare the point of a
   capture with different places of the target (`attacker_sim_node.py:134`,
   `monitor_node.py:89`), and the point is a drone's estimate: where it is off by about
   `r_capture_m + 0.5` they disagree although no message is late, so that the score counts a
   capture of a target that lives, or calls a kill a false fire, against the monitor's
   "truth-validated". If a message takes longer than the reach allows, they may disagree
   about any capture.
8. A target that first appears within 50 m of another one's track is merged into
   that track. When its companion is killed, the picture shows the survivor under
   the dead one's id. Of three that fly in a row the picture may show one, on the
   track of any of them, until the next cues arrive.
9. The manifest is written at start and stop only: after a crash, segments that
   were long finished are not listed and not replayed. Two runs in one session
   are merged by a sim time that starts again, so the replay mixes them. A seek
   that arrives while the pump waits for a message is undone by that message.
10. `rejectAll` forgets the promises of a lost connection without settling them: the
    Run button stays disabled. Other viewers are never told that a recording was
    started. A frame that is under way when the scene is cleared brings back an
    event of the run before.
11. The statuses of a run are not sent to a page when it connects, and `_halt` says
    nothing about a pass that has completed: a page that misses the last status of a pass
    (`missed`), or is told an older one after it (`raced`), shows it as running, with Run
    disabled, until the next pass; Stop does not help. The first status of the fixture is
    built before the source is attached to the loop and is dropped. `ros_source.py` gives
    itself the attribute `loop` only after its spin thread has started: a status that
    comes before that raises in the thread, one that comes before `serve()` has set it is
    dropped.
12. A speed change that times out at the orchestrator, meets the one of
    `gazebo.launch.py`, or is still under way when its run ends leaves `_requested_rtf`
    and the world at different factors for good (`amiss`).
13. In live mode the gateway never expires a track: `expire_track` is called by the fixture
    only, and a track message that is under way when the scene is cleared stays on the map.
14. `_stop_scenario` asks the action client for `_cancel_all_goals`, which rclpy
    does not define, and otherwise does nothing: Stop cancels no run;
    `_run_scenario` answers "accepted" before the orchestrator has accepted, and
    its `wait_for_server` blocks the gateway's loop for up to two seconds; where no
    proxy exists its `RuntimeError` closes the connection. `RecordingControls.tsx`
    says that recording is disabled in replay mode, which the server does not
    enforce.
15. The hysteresis of the allocator never refuses a switch (`_cost_to_target`
    returns None).

## 6. Not modelled, and the plan

Not modelled for good: real-valued motion, guidance, Kalman arithmetic, sensor
noise, geodesy, rendering, launch files, configuration loading.

Not modelled because nothing depends on it: the metrics of the monitor and of the
simulation, the derived columns of the frames, the listing and the names of recordings,
the copying of fields between messages (`conversions.py`), log severities.

Next, in this order:

1. The status topic of the orchestrator with its counters, and the teardown when the node
   itself is stopped; two gateways on one orchestrator.
2. The odometry of the gazebo profile in `Fleet`.
