# Autonomon in TLA+

Autonomon drives a small robot from a Python asyncio process: sensors are
polled over HTTP, a world model folds the readings into a state, a planner turns
states into plans, and an action layer posts a plan's commands to the robot.
This directory holds TLA+ models of it, the TLC configurations that check them
on small instances, and proofs that TLAPS checks. Paths below are relative to
the repository's root; `A/` stands for `src/autonomon/`.

## The system

    Perceptron(s) --q_perception--> world model --q_world--> planner --q_plan--> VehicleAction --HTTP--> robot
      (FanInSlot)      (LayerSlot)                (LayerSlot)              (LayerSlot)

| component | state | operations | what makes it correct |
|---|---|---|---|
| Perceptron `A/perception/perceptron.py` | none but its stop event | poll an endpoint, put an event, sleep | every answered poll becomes one event, in order |
| VisionPerceptron, detectors `A/perception/vision.py`, `detector.py` | a detector, the last frame | fetch a frame, detect, put an event | one event per frame; the chosen detection is the best one |
| ObstacleWorldModel `A/world_model/obstacle.py` | two flags | fold an event, emit on change | no change of a flag stays unreported |
| OccupancyWorldModel `A/world_model/occupancy.py` | cells with their last-seen time, two flags, the last emission | fold, decay, emit on salient change, also when idle | the memory is raised at once and falls on schedule |
| TargetWorldModel `A/world_model/target.py` | smoothed target, last-seen times, `vision_seq` | fold, age out, emit on movement | visibility is lost on schedule; fresh frames reach the planner |
| AvoidancePlanner `A/planning/avoidance.py` | last state, last kind, hold deadline | select, hold, emit on change of kind | no state is left unanswered; a manoeuvre is not cut short |
| RulePlanner `A/planning/rule.py` | rule table, last state, last name, hold deadline | first match, hold, emit on change | with the explore table it is the AvoidancePlanner |
| FollowPlanner, PursuitPlanner `A/planning/follow.py`, `pursuit.py` | camera and steering angles, burst and search state | track, straighten, hold, search | no drive outlives its burst without a fresh frame; angles stay in range |
| VehicleAction `A/action/vehicle.py` | last plan, time of the last command | execute, retry, safety stop, renew leases | motion goes on while commanded and ends when it is not |
| LayerSlot, FanInSlot, Pipeline `A/slot.py`, `fan_in.py`, `pipeline.py` | layer tasks, their state | start, run, stop with timeout and cancellation | stops end and leave nothing behind; errors surface |
| PluginTokenAuth `A/plugin_auth.py` | the token, a lock | acquire, refresh on 401, once for all callers | concurrent 401s refresh once |
| command line `A/routines/cli.py`, StatusReporter `reporting.py` | the run's events on stdout, those posted to nomothetic | check the environment, run a routine, report, exit | events, exit code and reports tell what happened, and every run ends |
| catalog publisher `A/routines/publish.py`, key commands of `A/plugin_auth.py`, `scripts/deploy.sh` | the catalogue file, the key file, the registered key | write the catalogue, make and register a key | readers see whole files; deploying again keeps the registered key |
| registry, package facade | a dictionary filled at import | look up a routine | nothing changes it while a routine runs |

The layers share nothing but the queues, the HTTP client and, through it, the
token. All tasks run on one event loop, so what a task does between two awaits
is atomic, and the hard behaviour is in what happens at the awaits: queues that
fill up and suspend their producers, timeouts that race an answer, time that
passes in a hold or a lease, and a stop or a cancellation that arrives anywhere.
`PROJECT.json` lists these hazards with their lines and the properties that
watch them.

## The modules

| module | models | state and actions |
|---|---|---|
| `ObstacleWorldModel` | `A/world_model/obstacle.py` | `worldState` is `_state`, `emitted` run()'s local flag. `ReceiveEvent` is one turn of `run`: get, `_apply`, put (`Emit`) or nothing (`Suppress`) |
| `AvoidancePlanner` | `A/planning/avoidance.py` | `lastState`, `lastKind` are the fields of the same names; `holdLeft` is what is left until `_avoid_until`. `ReceiveUpdate` and `IdleTick` are the two ways a turn of `run` can go, both with `_tick` (`Committed` or `Reevaluate`); `TimePasses` is the clock |
| `ExploreLoop` | the explore routine: two sensors, the two modules above and the plan the action layer holds | composes the two by INSTANCE. `Poll` is a perceptron's put, `Execute` the action layer taking a plan |
| `MCExploreLoop` | | readings on both sides of each threshold |
| `RulePlanner` | `A/planning/rule.py` for any table | `Rules` is the table, `lastState`, `lastName`, `holdLeft` the planner's fields; the same two ways a turn can go, and the same clock |
| `RuleExplore` | the explore routine with `planner = "rule"` and the table `A/planning/rules/explore.toml` | `ExploreLoop` with the table in the AvoidancePlanner's place; `ExploreLoop!Spec` is its abstract specification |
| `MCRuleExplore` | | the readings of `MCExploreLoop`; an assumption compares `_op_match` with what each operator means |
| `ExploreProofs` | | theorems about `ExploreLoop`, and that `RuleExplore` implements it |
| `OccupancyWorldModel` | `A/world_model/occupancy.py` | `cells` maps a cell to its age (the time since it was seen); `ReceiveEvent` and `IdleTurn` are the two ways a turn of `run` can go, `CellsAge` the clock |
| `PatrolLoop` | the patrol routine: two sensors, the two modules above with `A/planning/rules/patrol.toml`, and the plan the action layer holds | as `ExploreLoop`; one clock ages the cells and spends the hold |
| `MCPatrolLoop` | | readings at the obstacle threshold, at the grid's radius and beyond it |
| `PatrolLoopProofs` | | theorems about `PatrolLoop` |
| `TargetWorldModel` | `A/world_model/target.py` | `estimate` groups the smoothed bearing, vertical bearing and camera range, `echo` is the ultrasonic range; last-seen times are ages. `ReceiveEvent` and `IdleTurn` as above, both with `_age_out` and `_maybe_emit` |
| `FollowPlanner` | `A/planning/follow.py` | the fields of the same names; `Turn` is `_tick`, with `Track`, `Continue` (`Hold`, `Straighten` or nothing) and `Search` (`SweepOn`, `RotateEnds` or `Dwell`) as its branches |
| `FollowLoop` | the follow-user routine: vision and ultrasonic, the two modules above and the plans on their way to the action layer | as `ExploreLoop` |
| `MCFollowLoop` | | a target ahead and one to the side, frames without it, echoes too near |
| `FollowLoopProofs` | | theorems about `FollowLoop` |
| `Detection` | `A/perception/detector.py` and a poll of `A/perception/vision.py` | `rows` is the network's output, `todo` the boxes still to be looked at, `detections` the list the detector returns. `Postprocess` and `Suppress` are YOLO's `_postprocess` and a turn of `_nms`; `DnnRow` and `HogRow` a turn of the other detectors' loops; `Report` is `_select`, `_build_event` and the put |
| `MCDetection` | | boxes that overlap in a chain, apart, empty, out of the frame and with exchanged corners |
| `DetectionProofs` | | theorems about `Detection` |
| `Rounding` | `round`, `_quantise`, `_clamp` | Python's arithmetic on whole numbers, used by the occupancy grid and the follow planner |
| `VehicleAction` | `A/action/vehicle.py`, with the robot's leases and the network as external parts | `pc` is the await the task is suspended in, `wait` what is left of its timeout. One action per way on from an await (`TakePlan`, `IdlePoll`, `Answered`, `Rejected`, `Failed`, `TimedOut`, `BackoffEnds`, `SafetyStopEnds`), plus the network's and the device's (`Reach`, `LateArrives`), the planner's put, `Stop` (the layer's `_stop`, looked at in `NextTurn`), a `Crash` (of the process, or a cancellation of the task) and the `Tick` |
| `MCVehicleAction` | | the explore routine's two plans |
| `MCVehicleHealthy` | | besides these the plan that only stops; asserts that the timings fit (`Prompt`, `LeaseLasts`) |
| `VehicleActionProofs` | | theorems about `VehicleAction` |
| `PipelineRun` | what `Pipeline.run` promises its caller | `life` is how far `run` is, `failed` whether a layer has raised, `outcome` how `run` leaves |
| `Pipeline` | `A/pipeline.py`, `slot.py`, `fan_in.py`, and each layer's loop as far as stopping sees it | `phase` per task, `flag` is a layer's `_stop`, `doomed` a cancellation not yet raised, `stopper` where each of two coroutines is in `Pipeline.stop`, `outcome` how `run` ends; `StopBeforeRun` and `StartsRun` begin its life. It implements `PipelineRun` under the mapping in `Promise` |
| `MCPipeline` | | the explore routine's two sources |
| `PipelineProofs` | | theorems about `Pipeline`, the refinement of `PipelineRun` among them |
| `Plugin` | `A/routines/cli.py` and `reporting.py`, with `asyncio.run` as an external part | `pc` is the await `run()` is suspended in, `events` stdout, `told` what nomothetic received. `Refuse`, `MainRaises` and `RunBegins` are `main` and `run` up to the first await, `PostAnswered` and `PostFails` the two ends of a report, `PipelineEnds` the handlers of `run`, `CancelLands` a cancellation at each of its awaits, `Leave` the rest of `main`. The pipeline is `PipelineRun` (INSTANCE) |
| `PluginProofs` | | theorems about `Plugin` |
| `TokenAuth` | `A/plugin_auth.py`, with the lock and the device's tokens as external parts | `token` is `_token`, `holder` and `waiters` are `_lock`; `pc` is the await each task is in. `Request` and `Rejected` are the two ways into `_refresh` (`Enter`), `Wake` a waiter's turn in the lock, `Grant` and `Acquired` the exchange, `Leave` the end of a flow by an answer, an error or a cancellation |
| `MCTokenAuth` | | three tasks |
| `Deploy` | `A/routines/publish.py`, `generate_keypair`, `load_private_key` and the two commands of `A/plugin_auth.py`, in the order of `scripts/deploy.sh`, whose other steps are left out (see Not modelled) | `tmp` and `target` are the publisher's two names and `handle` a file it has open (a rename takes the open file along); `key`, `registered` and `plugin` are the key in its file, at nomothetic and in a running plugin. One action per step of a deployment, `Crash` at any of them |
| `MCDeploy` | | two interchangeable deployers |
| `PluginAuthProofs` | | theorems about `TokenAuth` and `Deploy` |

Conventions. A queue and the one item its producer is suspended on are one
sequence of at most `Capacity + 1` items; the producer has no step while its put
is suspended. `q_perception` has two producers, whose suspended puts complete
in either order, so there an event joins the queue when its put completes
(`ExploreLoop!Poll`); `Pipeline` models the suspension itself. A plan is its
kind where its commands do not matter (`ExploreLoop`, `PatrolLoop`) and its set
of actions where they do (`VehicleAction`). In the rule tables a rule's plan is its
name. `FollowLoop` computes in whole degrees, percent and centimetres, the
floats of smoothing and gains rounded down. Operators whose comment begins with "mutant:"
are deliberate errors; no specification uses them, and putting one in the place
of the definition below it makes a run fail (`PROJECT.json`, "mutants").

Assumed of the platform: Python 3.12 (the version of the repository's CI), in
which `asyncio.wait_for` neither loses an item nor swallows a cancellation. An
earlier `wait_for` may do both in the moment a timeout and its result meet. Its
`asyncio.run` cancels the main task at the first SIGINT and raises
`KeyboardInterrupt` at the next. stdout stays open, and a detector's `detect`,
which runs in a thread that no cancellation reaches, returns. nomothetic
replaces a registered key by the one registered last.

## Runs

| run | what it checks | what it shows |
|---|---|---|
| `explore` | `ExploreLoop`: the type invariant, `Agreement` (`SensedInOrder`, `PlannerCatchesUp`, `ActionCatchesUp`, `PlansAlternate`, `CruiseSeesClear`, `HoldAccounts`), `NoBlindCruise`, `CommittedAvoid`, `StableReadingsWin` | the loop loses and reorders nothing: from the sensor through suppressed updates, holds and debounced plans, the layers agree once nothing is in flight, a manoeuvre lasts its hold, and readings that stay blocked, or clear, end in the matching plan for good |
| `rule_explore` | `RuleExplore`: `ReproducesAvoidance` | the bundled table, through queues, holds and idle ticks, behaves as the hand-written planner does |
| `patrol` | `PatrolLoop`: the type invariant, `RememberedForDecay`, `ForwardIsSafe` (with `UnheldFitsState`), `HoldsAreKept`, `PatrolSettles` | the memory lasts its decay and is reported, no forward plan outlives its reason, a manoeuvre is not cut short by another rule's, and what the sensors go on saying is what the robot ends up doing |
| `patrol_baseline` | `PlannedFromObservation`, violated | the first idle turn emits an all-clear state, and the planner cruises on it before anything was observed |
| `follow` | `FollowLoop`: the type invariant, `DriveIsAccounted` (`DriveHasReason`, `DriveIsTimed`), `FrameMovesCameraOnce`, `CommandsInRange`, `EstimateReported`, `LostOnSchedule` | a robot that drives does so in a burst on a frame younger than `drive_burst_s` or in a timed rotation; a frame moves the camera once, whatever other updates carry its bearing; commands stay within the camera's travel, and within half a rounding step of the limits of wheels and motor; the planner's picture stays within the epsilon of the estimate; dropouts are bridged as long as meant |
| `detection` | `Detection`: `SuppressionIsGreedy`, `BestIsReported`, `TargetInView` | a person is kept once and dropped only for a better box that was itself kept, overlap being counted in cells of the grid and not by the code's formula; the event is about the most confident person above both thresholds; a malformed box leaves bearing and distance in range |
| `vehicle_faults` | `VehicleAction` with every fault: the type invariant, `StaleMotionLapses`, `ExecutionBounded`, `EndsAtRest` | superseded motion lapses within a lease; an execution takes at most its attempts' time; a layer that is told to stop, cancelled or killed leaves a robot that comes to rest and stays at rest, although nothing posts a stop |
| `vehicle_healthy` | `VehicleAction` without faults: `NoStall`, `ReactsInTime` | a plan's motion keeps its lease between plans and through renewals; a new plan is in force after the time of the backlog, on channels it leaves alone a lease later |
| `pipeline_stop` | `Pipeline`: the type invariant, `OrderlyStop` (`UpstreamFirst`, `NothingOutlivesStop`), `KeepsPromise`, `StopEnds` | a stop that comes before `run`, two overlapping stops, layers that fail or hang, and cancelled stoppers: every stop ends, in order, with nothing left running; `KeepsPromise` is the refinement of `PipelineRun`: a failure ends `run` and comes out of it, also when it falls into a caller's stop that swallows it |
| `plugin` | `Plugin`: `EventsTellTheRun` (`AnnouncedWhileRunning`, `LastWord`), `ToldTheEnd`, `Ends` | while layers may move the robot the last event says `running`; exit code and last event agree through three interrupts; nomothetic is told the end unless a post failed; an interrupt, also one that a slot swallows, and a layer's failure end the process whether nomothetic answers or not |
| `token_auth` | `TokenAuth`: the type invariant, `AcquiresOnlyWhenStale`, `RetryUsesNewToken`, `LockIsPassedOn` | however tokens expire, exchanges fail and requests are cancelled, one task at a time acquires a token, only in place of a stale one; a rejected request goes out again with a newer token, and no task queues for ever |
| `deploy` | `Deploy`: the type invariant, `CatalogueAndKeyHold` (`ReadersSeeWhole`, `StillWelcome`), `SettledIsUsable` | while deployments do not overlap, wherever one dies and however often it is repeated, the catalogue is never half written and the key a running plugin has loaded stays the registered one; one that ran alone and succeeded leaves its own catalogue and the file's key registered. Neither says that a running plugin is not disturbed: `deploy.sh` also removes its `.venv` and reloads nomothetic |

Where the code and its documents disagree. `patrol_baseline` shows one
disagreement. Others, met while modelling, have no run:
`max_steer_deg` is called a hard cap (`A/planning/follow.py:70-72`) and is passed
by up to half a `steer_quantum_deg`, as the clamped angle is rounded (with 33 and
steps of 5, 123 degrees become 125; `WholeStepCapIsHard` has the hypothesis under
which it is one); `max_speed_pct`, a "magnitude cap" (line 61), is passed in the
same way, by a larger `min_drive_speed_pct`, and by a larger
`body_rotate_speed_pct` in the search;
`A/world_model/obstacle.py:68-69` has a first update with an empty delta, while
it names the flag a first event raises; the docstring of `_post_with_retries`
(`A/action/vehicle.py:228-229`) has its flag raised only for a command that did
not reach the device, while a command whose answer was late raises it too;
`A/world_model/base.py:38` and `A/planning/base.py:38` say that a stopped layer
drains its queue, while every loop leaves it unread; and the follow routine
says that only a loss pauses the motor, while a target that moves less than the
epsilons is not reported and pauses it as well; and the docstring of `Detection`
(`A/perception/detector.py:34`) has all coordinates in [0, 1], while only the
DNN detector clamps them (`TargetInView` is about that one). `publish` promises
atomicity for one writer: of two that overlap, one can rename what the other
still writes (which `deploy.sh` then finds unreadable) or find nothing to
rename.

### Bounds

- `ExploreLoop`: `Capacity` 2 (three items with the suspended put). Full and empty queues, a suspended producer behind a
  full queue behind a suspended producer all occur at these sizes. The hold is
  2 ticks: it can be entered, passed through and left. Six readings: each sensor
  at and beyond its threshold and without a value. The theorems lift the safety
  results to every capacity, threshold, hold and set of readings.
- `RuleExplore`: the bounds of `ExploreLoop`; the proof lifts
  the result to all of them.
- `PatrolLoop`: queues of one item and one suspended put, each of which fills.
  The obstacle threshold lies in the first of three cells and the grid's radius
  in the last, so that a cell is marked with and without the obstacle flag and a
  reading falls outside the grid. The holds and the decay keep the order of the
  routine's defaults (cliff hold above obstacle hold); a decay of 2 ticks lets a
  cell be seen, refreshed, aged and dropped, with and without events between. The
  theorems lift the safety results to every queue, threshold, grid, decay and hold.
- `FollowLoop`: queues of one item and one suspended put. `MaxDetections` = 3
  frames with the target, in any order with frames without it, echoes and time:
  three are what it takes for two movements below the epsilon to add up to one
  above it, and for the steering to ramp past its cap if nothing held it. The
  roll of the camera has two steps, the steered and the straight part of a burst
  and the loss of the target are a tick each, and the camera's travel is narrow
  enough to be reached. `MaxSteer` = 33 and `MinDriveSpeed` = 43 lie between two
  of the steps commands are rounded to, `MaxSpeed` on one: rounding comes after
  the clamp and passes the cap by up to half a step, which is what
  `CommandsInRange` bounds. The theorems lift all of the run's properties to
  every number of detections and every other constant.
- `VehicleAction`, faults: one retry, a timeout of 2, a lease of 2 and a renewal
  of 1 tick, and `MaxLate` = 1 given-up request in the network at a time. All
  paths of `_post_with_retries` are taken, and leases lapse in the middle of
  executions. The type invariant, `StaleMotionLapses` and `ExecutionBounded` are
  proved for every value of these.
- `VehicleAction`, healthy: `Renew` 5, `Poll` 1, `Latency` 1 and `Lease` 10 keep
  the code's proportions (`renew_interval_s` is half the TTL). The lease is as
  short as it can be: `LeaseLasts` is
  `Renew + Poll + (MostRequests + 1) * Latency <= Lease`, for plans of at most
  `MostRequests` requests. A tick below it, TLC finds a stall. With the defaults
  (TTL 500 ms, renewal at 250 ms, 50 ms poll) and the avoid plan's three requests
  motion thus lasts as long as a request takes at most 50 ms. A third plan sets
  one channel only, so that the other waits for its lease. `Watch` = 21 bounds the
  history `sincePut` beyond `Backlog + Lease` = 19, the later bound of
  `ReactsInTime`. Both properties are proved from these conditions.
- `Pipeline`: queues of one item and two sources; the theorems hold for every
  sequence of sources and every queue. Deadlock checking is off: a
  pipeline that has stopped has no further step.
- `Plugin`: three interrupts: one cancels, one forces, one abandons; more change
  nothing, and the theorems hold for every number.
- `Deploy`: two deployers and three deployments (two that overlap and one after
  them), and two tries to register. The theorems hold for every number.
- `Detection`: a grid of six cells and frames of up to three boxes: in a chain of
  three the outer ones do not overlap each other. Scores lie on, between and
  beside the default thresholds. Boxes on the grid keep areas whole; that an
  overlap is exactly at `iou_threshold` up to a float's rounding is left out.
  The theorems hold for every set of boxes and every size of a frame.
- `TokenAuth`: three tasks, so that one is in the lock, one is queued and one has
  its 401 still to come, and `MaxTokens` = 3: the first token, the one that
  replaces it and the one that a late 401 must not be answered with. The safety
  theorems hold for every set of tasks and every number of tokens.

### Fairness

- `ExploreLoop`: weak fairness of the world model's, planner's and action
  layer's turns and of the clock. asyncio runs every ready task, a get is
  retried for ever, and `loop.time()` advances. None is assumed of the sensors.
- `PatrolLoop`: the same, and the world model's idle turns, by which alone the
  memory runs out (`PatrolSettles`); the code's get has a timeout of a tick.
- `FollowLoop`: its properties are safety properties and need none.
- `VehicleAction`: the clock advances and the network does not keep a request
  for ever. `Tick` does not pass a moment at which the task is due to run: the
  event loop is taken to be prompt. For `EndsAtRest` the task also goes on when
  its await ends (`Resumes`), by its timeout at the latest.
- `Pipeline`: a stopper goes on when the task it awaits is over, its timeout
  fires, a cancellation is raised in the cancelled task, and `run` wakes when
  its `asyncio.wait` is over. No layer is assumed to answer anything.
- `Plugin`: a post ends, by the client's timeout if not before; the pipeline keeps
  the promise that `pipeline_stop` shows; `aclose` and `asyncio.run` end. Nothing
  is assumed of nomothetic.
- `Detection` and `Deploy`: safety only, none.
- `TokenAuth`: a waiter that can run runs, and an exchange ends, since its client
  has a timeout per request. The device need not answer, and no request need end.

## Proofs

`ExploreProofs` proves of `ExploreLoop!Spec`, from `ExploreAssumption` alone
(the constants' types, and `None` being none of the values it is compared with):

- `TypeCorrect`: `[]TypeOK`;
- `Invariance`: `[]IInv`, where `IInv` is the type invariant with the run's
  other invariants. `NoBlindCruise` is not inductive: it speaks of the two ends
  of the pipeline only when nothing is between them. `IInv` says what each
  stretch holds at every moment: `SensedInOrder` from the sensors to the world
  model, `PlannerCatchesUp` from the world model to the planner,
  `CruiseSeesClear` within the planner, `ActionCatchesUp` from the planner to
  the action layer. Each is disturbed by few actions, and with empty queues
  they join to `NoBlindCruise`;
- `NeverBlind`: `[]NoBlindCruise`, and `LayersAgree`: `[]Agreement`, from
  `Invariance`;
- `AvoidIsCommitted`: `CommittedAvoid`, from the type invariant and
  `HoldAccounts`: at a switch to cruise the hold is spent, so the manoeuvre has
  had all of its time.

Of `RuleExplore!RuleSpec` it proves, from the same assumption,

- `TableReproducesPlanner`: `ReproducesAvoidance`, a step simulation under the
  identity (the rule planner's `_last_name` is the planner's `_last_kind`).
  `TableMatches` says when the first rule matches a state, `SameSelection` that
  the table then selects the plan and the hold the planner's conditions select,
  `SameTick` that a whole `_tick` is the same; all need the state to be one the
  world model emits, so the type invariant is carried along the simulation.

`PluginAuthProofs` proves of `TokenAuth!Spec`, from `AuthAssumption`,

- `TypeCorrect`: `[]TypeOK`, with at most one exchange at a time;
- `Invariance`: `[]IInv`. Whether a task in the lock replaces a token that the
  device accepts depends on what it saw before it queued: `RefreshOK` says that
  every task in `_refresh` has a token that was rejected (or none), that the one
  in the lock has the shared token, and that a granted token is newer than that.
  It needs `QueueOK` (the tasks in the queue are those that wait, each once),
  which rests on what `Append`, `Tail` and `Without` do to a queue
  (`AppendKeepsQueue`, `TailKeepsQueue`, `WithoutKeepsQueue`);
- `SingleFlight`: `[]AcquiresOnlyWhenStale`, and `RetryIsNewer`:
  `RetryUsesNewToken`, both from `Invariance`.

Of `DeploySpec` it proves, from `DeployAssumption`,

- `DeploymentTypeCorrect`: `[]DeployTypeOK`;
- `DeploymentInvariance`: `[]DeploymentInv`. The properties speak of deployments
  that did not overlap, which no single step can tell: `AloneOK` says what a
  deployment knows of the files as long as no other one began (its temporary file is empty, then
  its own, then the catalogue; the key it checked is the key it registers),
  `Undisturbed` that all are alone while none overlapped, and `SettledOK` that
  what a lone one left stays until the next begins. A step of one deployer
  contradicts that another is alone, so each step concerns one of them;
- `RepeatsKeepCatalogueAndKey`: `[]CatalogueAndKeyHold`, and `Repairs`:
  `[]SettledIsUsable`, both from `DeploymentInvariance`.

`PipelineProofs` proves of `Pipeline!Spec`, from `PipelineAssumption` (the sources
are distinct tasks, at least one),

- `TypeCorrect`: `[]TypeOK`;
- `Invariance`: `[]IInv`. `Passed` says of each of two stoppers that what comes
  before its place in `Order` is over; since a phase that is over stays so,
  neither stopper disturbs it for the other. `Untouched` says what holds before
  `run`, when sources can be told to stop and nothing exists, and `RunOK` how
  `run`'s place and outcome go together;
- `StopsInOrder`: `[]OrderlyStop`, from `Invariance`;
- `ImplementsRun`: `Pipeline!Spec => Promise!Spec`, the safety part of
  `KeepsPromise`: each step of a task, a stopper or `run` is a step of
  `PipelineRun` under the mapping, or a stutter.

`VehicleActionProofs` proves of `VehicleAction!Spec`, from `VehicleAssumption`,

- `TypeCorrect`: `[]TypeOK`;
- `Invariance`: `[]IInv`. To `StaleMotionLapses`, which speaks of the device, `IInv`
  adds what the task is about to send it: `UnderWay` says that a request under way
  or still to come is one of the newest plan's (`Retained`: that is `_last_plan`),
  and `WithinBudget` that the time an execution has used and what its remaining
  attempts can still use are within `Cost` of the plan. `Cost` sums over a set of
  requests, so that taking the first one off has to take its cost off
  (`CostSplits`). This and the back-off's `PowerOfTwo` go by induction over the
  numbers, which `NatInductive` states of a set instead of a predicate and takes
  from the well-foundedness of `<`;
- `StaleMotionEnds`: `[]StaleMotionLapses`, and `ExecutionEnds`:
  `[]ExecutionBounded`, both from `Invariance`.

Two more have timings as hypotheses. `Prompt` has no request fail and each be
answered within `Latency`, before the client gives up; `LeaseLasts` is the
condition on the lease above. TLC evaluates both in `vehicle_healthy`
(`MCVehicleHealthy`), and the defaults satisfy them while requests take at most
50 ms. No two actions of a plan share a priority, which is an action's place in
the sorted list (`VehicleAssumption`).

- `MotionPersists`: `[]NoStall`, under `Prompt` and `LeaseLasts`. `NoStall` says
  nothing of an execution under way, so `Held` bounds each lease at every await
  from below: by what is left of the execution, of the renewal interval and of the
  poll, and by the requests that come before the command in the renewal
  (`HeldOf`). It rests on `Undisturbed`: without faults there is no back-off, no
  safety stop and no late request, and requests are answered in the order of
  their priorities. Working it out gave the condition its form: an earlier one,
  `Renew + Poll + 3 * Latency < Lease`, was true for a latency of one tick only;
- `BacklogClears`: `[]ReactsInTime`, under `Prompt`. `OnTime` is the accounting:
  the time since the last put, that of the queued plans and the work left of the
  execution (`Work`) stay within `Backlog`. `LastPutIsLast` says that the plan then
  in force is the last one put, and `Settled` that the channels it has set are as
  it asks or idle; the others are over a lease after it was taken, by
  `StaleMotionLapses`.

`PatrolLoopProofs` proves of `PatrolLoop!Spec`, from `PatrolAssumption`, which has the
obstacle's hold no longer than the cliff's, as the table has them (only the bound
of the hold and the cap of the history `manoeuvre` use it),

- `TypeCorrect`: `[]TypeOK`, with `CellInGrid`: rounding keeps order, so a
  reading within the radius falls on one of the grid's cells;
- `Invariance`: `[]IInv`. As in `ExploreLoop`, a conjunct for each stretch from
  the sensors to the action layer (`SensedInOrder`, `EmittedIsCurrent`,
  `PlannerCatchesUp`, `HeldOrFitting`, `ActionCatchesUp`); besides these,
  `SightingKept` ties the cells to the time since the last sighting, and
  `HoldAccounts` the hold to the time a manoeuvre has had;
- `SightingsAreRemembered`: `[]RememberedForDecay`, `NeverBlind`:
  `[]ForwardIsSafe`, `ManoeuvresAreHeld`: `HoldsAreKept`, from `Invariance`.

`FollowLoopProofs` proves of `FollowLoop!Spec`, from `FollowAssumption`, whose
conjuncts that are not plain types are these: a burst and a rotation last a tick
or more, and the bearing's epsilon is positive; the ends of the camera's travel
are in order (`PanMin <= PanMax`, `TiltMin <= TiltMax`); and what the code calls a
magnitude (`max_steer_deg`, `max_steer_step_deg`, `max_speed_pct`,
`min_drive_speed_pct`) is not negative. No limit has to be a whole rounding step,
the floor of the speed may be above its cap, and the rotation's steering and speed
are any. A frame with a target has both bearings (`A/perception/vision.py:175-176`).

- `TypeCorrect`: `[]TypeOK`, which rests on the planner's arithmetic. Commands are
  rounded after they were clamped (`A/planning/follow.py:338-339`), so they lie
  between the steps nearest to the limits (`Nearest`). The steering's ramp starts
  from an angle that was rounded before, and yet the roundings do not add up
  (`SteerInRange`): the ramp stays between where it starts and where it leads,
  rounding keeps order (`QuantiseKeepsOrder`), and what is on a step stays there
  (`QuantiseAgain`);
- `Invariance`: `[]IInv`, in three parts. `WorldInv`: the estimate is there while
  the target is visible, visibility follows the time since the last detection,
  and the state last emitted is within an epsilon of the estimate. `ChannelInv`:
  the last item on `q_world`, or else the planner's state, is that state
  (`PlannerCatchesUp`), and frame numbers do not decrease along the queue
  (`FramesAdvance`). `PlannerInv`: the planner's command, burst and search fit the
  state it read (`PlannerFits`), and the ages it keeps bound the time it has
  driven (`BurstTimed`, `RotationTimed`);
- `PlansAreInRange`: `[]CommandsInRange`, since rounding moves a value by half a
  step at most (`HalfAStep`);
- `WholeStepCapIsHard`: `[]SteerIsCapped`, where both ends of the steering's range
  are whole steps, as with the defaults (30 degrees, steps of 5). In the instance
  of the run `follow`, where they are not, it does not hold;
- `EstimateIsReported`:
  `[]EstimateReported`, `LossIsOnSchedule`: `LostOnSchedule`,
  `FramesAreFollowedOnce`: `FrameMovesCameraOnce` and `DrivesAreAccounted`:
  `DriveIsAccounted`, from `Invariance`.

`PluginProofs` proves of `Plugin!Spec`, from no assumption,

- `Invariance`: `[]IInv`. `Underway` and `Ending` say what the events are in each
  await of `run` and how they agree with what `run` is about to return; `LastWord`
  follows from them when the process leaves, if nothing was cancelled without an
  interrupt (`InterruptedBefore`). `Reported` relates nomothetic's record to
  stdout while no post has failed: it is the events from the second on (`InOrder`),
  and as many of them as each await allows (`Behind`: one less while one is being
  posted);
- `EventsAreTrue`: `[]EventsTellTheRun`, and `EndIsTold`: `[]ToldTheEnd`, both from
  `Invariance`.

`DetectionProofs` proves of `Detection!Spec`, from `DetectionAssumption`: scores and
thresholds are percentages, the logistic function gives percentages, the smallest
box is no higher than the frame, and `iou_threshold` is above 0 (at 0, `_nms` drops
boxes that do not touch),

- `Invariance`: `[]IInv`. `KeptApart` says that the boxes kept are of different
  persons, of each other and of those still to be looked at, which are in the order
  of their scores; `NoneForgotten` that a likely box is among either, or yields to
  a better one kept. `NoneSkipped` says the same of the other detectors' loops,
  `NoneInvented` that every detection has the confidence of an accepted row, and
  `Clamped` that the DNN's boxes are within the frame;
- `OneBoxPerPerson`: `[]SuppressionIsGreedy`, `NoBestIsLost`: `[]BestIsReported`, and
  `MalformedStaysInView`: `[]TargetInView`, from `Invariance`.

The lemmas carry most of it. `OverlapIsSamePerson`: the code's formula for the
overlap says what counting cells says, since an intersection of intervals has as
many cells as `Shared` says and products and unions are counted by the library's
theorems. `AtPlacesKeeps`: indexing by a mask keeps the elements and their order,
as the number of places up to a place numbers them; the standard `SelectSeq`,
which is defined by recursion, cannot be reasoned about here. `SelectIsBest`: a
first most confident candidate exists, and `_select` returns it. `Quotients` and
`ScaledOffset`: division and scaling keep order.

Each `IInv` was checked by TLC, as an invariant of the runs' instances, before it
was proved.

Only model-checked: liveness (`StableReadingsWin`, `PatrolSettles`, `EndsAtRest`,
`StopEnds`, `Ends`, `LockIsPassedOn`, and the part of `KeepsPromise` that a failure
ends the run), as TLAPS reaches neither fairness nor ENABLED. Every invariant and
every action property that a passing run checks is proved.

## Not modelled

A start of the pipeline that raises (a wrongly wired pipeline) and a second
`run` on stopped layers, neither of which a routine brings about. What the
interpreters of `Perceptron` make of a body, beyond a reading or none, the
results telemetry of `VehicleAction` (a `put_nowait` that never blocks),
timestamps, ids and logging. Reading and validating a rule table, the fields of
the occupancy state that are not salient, and the defaults of parameters. The
networks of the detectors, the decoding of a frame and the scripted
`FakeDetector`. `PursuitPlanner` is built by no routine: what it would be
composed with, and so what its plans have to be right about, is not in the
code. The routine registry is a dictionary filled at import time, the package
facade re-exports names, and the cryptography is a library's.

Of `scripts/deploy.sh`, the steps besides the catalogue and the key, although they
reach a device that runs: the removal of the `.venv` (line 351), out of which a
plugin may be running and into which the catalogue points, and its rebuilding;
the checkout and the tests; the new env file (522-545); the reload or restart of
nomothetic between key and registration (553-560); and the rollback on an error
(310-337), which restores the old tree and leaves the new catalogue. `Launch` can
therefore happen where the program is missing, a restart that ends a plugin is
`PluginExits`, and nothing is said of whether nomothetic remembers a key over its
restart. `CatalogueAndKeyHold` and `SettledIsUsable` are about the catalogue and
the keys only: neither says that a deployment leaves a running plugin undisturbed
or that the program in the catalogue is there.

## Plan

Done: the explore loop with both planners, the patrol loop, the follow loop and
its detectors, the action layer with its stop, the pipeline's life and the
promise it implements, the plugin process on top of that promise, the token
refresh, the deployment of catalogue and key; proofs about all of them. Next, in
this order:

1. Liveness of the follow loop (a search goes on for ever), with fewer
   detections.
2. `VehicleAction` with a bounded number of faults: how much later `ReactsInTime`
   holds for each request that fails.
