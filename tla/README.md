# A TLA+ model of the vision darts service

This directory holds TLA+ modules that model the offline darts service of this
repository, TLC configurations that check them on small instances, and theorems
about them that TLAPS proves for every value of the constants. It is meant to be
read beside the code; every definition was translated from the sources under
`src/src`, `src/include` and `src/apps` (paths below are given as in the
repository tree, `src/` being its root).

`PROJECT.json` is the index: the components, what each run checks, the mutation
that each checked property is known to detect, the source lines every definition
stands for, the hazards of the code, the disagreements found, and the theorems.

## 1. Inventory

### The parts and how they interact

```
 HTTP threads (httplib pool)                     vision_replay (program)
      | start / stop / calibrate / healthcheck        | list, load, run, compare
      v                                               v
 ServiceController ---- worker thread ----> OfflineVisionEngine::run_scenario
      ^   |                 |                  | calibration, ImpactDetector::detect,
      |   |                 | enqueue_event    | FusionEngine::fuse, ScoreEngine::score_point,
      |   | owns            v                  | json_contains_expected_subset
      |   +--------> HttpEventPublisher        v
      |                     | worker thread    exactly one event per scenario
      +-- error callback ---+---- POST ----> backend (another process)
```

| component | state it keeps | operations | what is hard | what makes it correct |
| --- | --- | --- | --- | --- |
| **Event publisher** `src/src/api/event_publisher.cpp` | `queue_`, `started_`, `stop_requested_`, `last_error_`, a worker thread | `start`, `stop`, `enqueue_event`, `worker_loop`, `post_once` | producers, owner and worker interleave; a condition variable; posts are lost, late, doubled; `stop` while work is queued; an exception in the thread | no event lost, doubled in the queue or reordered; verdicts to be trusted; every loss reported once; `stop` drains and returns |
| **Service controller** `src/src/app/service_controller.cpp` | `state_`, `current_scenario_`, `last_error_`, `calibration_loaded_`, `calibration_overrides_`, `shot_sequence_`, `stop_requested_`, `worker_` | `start`, `stop`, `apply_calibration_payload`, `healthcheck`, `worker_loop`, the publisher's callback | commands run on many threads and use `worker_` and `stop_requested_` outside the mutex; errors come from three sides; a batch can fail in the middle | one worker at a time and unique shot ids as long as starts do not overlap; one event per scenario, in order; the state agrees with the error; a stop takes hold; commands return, batches end |
| **Offline engine** `src/src/app/offline_engine.cpp` | none | `run_scenario` | order of the early returns: missing fixture, missing or corrupt calibration, invalid shot | the right one of five events, and a comparison that cannot pass by accident |
| **Impact detector** `src/src/vision/impact_detector.cpp` | the loop's best and second best | `detect` | one pass over contours in an arbitrary order; ties; ambiguity | best and runner-up are what their names say; every verdict has its reason |
| **Fusion engine** `src/src/vision/fusion_engine.cpp` | the loop's largest cluster | `fuse` | agreement is not transitive; equal clusters; zero weights | the used cameras agree, rejections are justified, the mean lies among the points |
| **Board and score** `src/src/core/board_model.cpp` | none | `score_point` | wires of rings and sectors, the wrap at the top | the score a board on the wall would give |
| **JSON comparison** `src/src/core/json_utils.cpp` | the path of the mismatch | `json_contains_expected_subset`, a recursion over objects and arrays | nesting, absent fields, the tolerance, NaN, the first difference | a mismatch is a mismatch, and the path reported is that of the first one |
| **Replay source** `src/src/vision/replay.cpp` | none | `list_scenarios`, `load_scenario` | a directory that cannot be read | throws, never skips |
| **vision_replay** `src/apps/vision_replay.cpp` | the success flag, the shot number | `main` | a mismatch or an unreadable scenario in the middle of a list | the exit code tells the truth |
| **Calibration** `src/src/vision/calibration.cpp` | none; the two files of each scenario | the choice of the file, `load` in two formats, `compute_calibration`, both projections | the file is looked at several times and nothing locks it; exceptions of several kinds; order and direction of rotation and matrix | what is used is sound; a sound file is used; the projections undo each other |
| **vision_service** `src/apps/vision_service.cpp` | the controller and the server | `main`: build, bind, listen, destroy | the port may be taken; the order of the two stops; the process may be killed and launched again | nothing is left when it returns; a crash loses only the end |
| **HTTP routes** `src/src/app/http_service.cpp` | none | the routes | handlers run concurrently | see the controller |
| **vision_calibration_check** `src/apps/vision_calibration_check.cpp` | the array it prints | `main` | arguments that are missing or no numbers | prints all or nothing, and points that are right |
| **Configuration, types** `src/src/core/config.cpp`, `types.cpp` | none | parsing | - | not modelled: no decision that takes several steps |
| **mock_backend** `src/apps/mock_backend.cpp` | none | answers and prints | - | the backend is modelled as the publisher sees it |

`build/` (generated), `doc/opencv`, `doc/nlhomann`, `doc/openjson` (documentation of
libraries) and the images of `fixtures/` are left aside.

### Hazards

`PROJECT.json` lists them at the lines where they bite. The most serious ones are
the use of `worker_` and `stop_requested_` outside the controller's mutex
(`service_controller.cpp:35-56`), the life of the publisher's thread around
`stop` (`event_publisher.cpp:60-79`, `108-120`), posts whose outcome the client
cannot know (`126`), a queue in memory that a killed process takes with it (`85`),
a calibration file that changes while it is looked for, tested and read
(`replay.cpp:32`, `calibration.cpp:52-91`), the single pass of the detector (`impact_detector.cpp:120-144`)
and the clusters of the fusion (`fusion_engine.cpp:79-113`).

## 2. Modules

| module | models | abstract or detailed | extends / uses |
| --- | --- | --- | --- |
| `EventOutbox` | what the publisher promises to those who enqueue | abstract specification | - |
| `EventPublisher` | `HttpEventPublisher` with its threads | detailed | `INSTANCE EventOutbox` |
| `OfflineEngine` | `run_scenario` and the comparison, as operators | pure | `ScoreEngine` |
| `ScoreEngine` | `score_point` on integers | pure | - |
| `BatchReplay` | what the controller promises to those who listen to its events | abstract specification | - |
| `ServiceController` | the controller, its commands and its worker | detailed | `OfflineEngine`, `INSTANCE BatchReplay` |
| `VisionService` | the process: `main`, controller and publisher together, its death and its next launch | composition | `ServiceController`, `INSTANCE EventPublisher` |
| `VisionReplay` | `main` of `vision_replay` | detailed | `OfflineEngine` |
| `ImpactDetector` | the choice in `detect` | detailed | - |
| `FusionEngine` | `fuse` | detailed | - |
| `JsonSubset` | `compare_json_recursive` | detailed | - |
| `CalibrationGeometry` | both projections, on integers | pure | - |
| `CalibrationStore` | where the calibration of a scenario comes from | detailed | `CalibrationGeometry` |
| `CalibrationCheck` | `main` of `vision_calibration_check` | detailed | `CalibrationStore` |
| `MC*` | the instances TLC checks | - | the module of the name |
| `*_proofs` | the theorems; `EventPublisher_proofs` and `ServiceController_proofs` also hold those of their abstract specifications, `CalibrationCheck_proofs` those of `CalibrationStore` and `CalibrationGeometry`, `VisionReplay_proofs` those of `ScoreEngine` | - | the module of the name |

How the state and the actions correspond to the code:

**`EventPublisher`.** `queue`, `started`, `stop_requested`, `last_error` are the
members of those names; `worker` says where `worker_loop` is (and `"none"` that
`worker_` is not joinable), `owner` where `stop()` is, `producing` where each
caller is in `enqueue_event`; `current` and `attempt` are the worker's locals.
A critical section of `mutex_` is one action; a notification, which the code
sends after unlocking, is an action of its own (`enqueue_notify`, `stop_notify`),
and so is the join. Testing the predicate of the wait and falling asleep is one
action, as the standard library guarantees; `spurious_wakeup` exists. A post has
three outcomes: recorded and acknowledged (`post_succeeds`), anything that makes
`post_once` return false (`post_fails`: the copy may still be recorded at any
later time, `record_late`, or never), and an exception (`post_throws`), which
nothing in the thread catches and which ends the process. `accepted`, `settled`,
`promised` are history variables. Owner calls come one at a time, as from
`ServiceController`'s constructor and destructor; `start` may follow a `stop`.

**`EventOutbox`.** Accepted events are settled one after the other, delivered or
given up; the backend may record a copy of an event from its turn on, also long
after it was settled. `EventPublisher` implements it with the identity as
refinement mapping: `accepted`, `settled`, `received` have the same names.

**`ServiceController`.** The members of the class without their underscore.
`at[h]` says where the command of HTTP thread `h` is, `loop[t]` where worker
thread `t` is; `index`, `shot`, `overridden`, `event` are locals of
`worker_loop`. `mutex_` protects single blocks, each of which is one action; all
uses of `worker_`, `stop_requested_` and `shot_sequence_`, which no lock protects, are
actions of their own, so that two commands, or two workers, interleave as two threads
do. The statement `worker_ = std::thread(...)` of line 46 is three steps: its temporary
is a thread that runs from its construction on (`start_spawn`, or `start_spawn_fails`;
`hand[h]` is the thread until it is stored), then the assignment looks at `worker_`
(`start_assign`, or `start_terminates` if it is joinable, with the new thread already
running), then it stores the thread (`start_store`). `shot_sequence_++` is a read
(`read_shot_sequence`) and a write (in `set_options`). Where the code has a data race the
outcomes of the standard libraries are steps. Two calls of `join` on one `std::thread`:
the second one is refused with an exception, at once (POSIX) or when the first has closed
the handle (Windows), and both are `join_throws`. Two assignments at once: the second
finds what the first has just stored and ends the process (libstdc++ swaps and destroys
what it swapped out), or overwrites it (Microsoft's).

`crossed` and `stranded` are history. `crossed` is what has overlapped a start so far,
another start or a stop: `StartsApart` says that no two starts ever did, `CommandsApart`
that no start overlapped any command. Most of what a reader expects of the class is lost
when they do (section 5), so the properties name the one or the other; none assumes
anything about stops that overlap stops, about calibrate commands or about failures.
`stranded` says that the start that set the state to Running got no thread.

`throws` is an exception out of
`list_scenarios`, `load_scenario` or `run_scenario`. `error_callback` comes at
most once per event handed over. `healthcheck` and `reset_reference` change
nothing: what healthcheck reports is state that the properties are about. The
publisher is reduced to the history of what was handed over; `VisionService`
says what becomes of it.

**`BatchReplay`.** A batch is begun, publishes one entry for each scenario in their
order, with a shot number above all earlier ones, and ends after the last, with
a failure or while a stop is asked for. `ServiceController` implements it for
commands that overlap in any way until two starts do (from then on two workers replay side
by side, and the code implements nothing of the kind): `active` is that a worker is
between `list_scenarios` and the end of its loop, `position` is how many scenarios it
has published, `log` is what was handed over, `stopping` is `stop_requested_`.

**`VisionService`.** Extends the controller and instantiates the publisher; where
both have a name the publisher's begins with `p_`. `main` says where the thread of
`main` is: in the constructor (which starts the publisher), binding the port (which
may be taken), listening, in `~ServiceController` (`destruction` is the order of its
two stops) or gone. The thread of main is one of the `Handlers`, and the only
command it runs is that stop. Requests come while main listens; the server
joins its threads before `listen` returns. A worker that publishes enqueues in the
same step, since nothing happens between the two, and waits until `enqueue_event` has
notified; the publisher's thread calls the controller's callback. `kill` ends the process at
any moment; `launch_again` resets everything except what the backend has recorded
and what is still under way to it. `earlier` keeps of each launch how many of its
events had a verdict.

**`OfflineEngine`, `ScoreEngine`.** Operators. `Facts` says what each scenario
directory holds: whether its calibration file is present and readable, the point
the detector accepts (or none), and `expected.json` reduced to event, error code
and score. `actual_event` has the early returns of `run_scenario` in their order,
`event_json` the fields that matter, `matches_expected` the comparison. A point
of the board is polar: radii in twentieths of a millimetre and angles in half
sectors, so that every wire is an exact integer.

**`VisionReplay`.** One action for listing, loading, running and each way to
return; `printed` is standard output.

**`ImpactDetector`.** A contour is its outcome: area within the bounds or not, its
score (hundredths) and its tip. `take_best`, `take_second`, `pass_over` and
`skip_contour` are the branches of the loop body, `decide` the tests after it.

**`JsonSubset`.** A document is a function from the paths of its nodes to what they
are, each with its keys in the order in which the loops meet them (nlohmann::json sorts
those of an object). One step is one call of `compare_json_recursive`; `calls` holds the
calls still to be made, in their order, which is what the recursion keeps on the stack.

**`CalibrationStore`.** `files` are `calibration.fs.json` and `calibration.json` of one
scenario, complete with one of `Contents`, spoilt (`Torn`) or absent. `choose_path` is
`load_scenario`, `check_exists` to `read_file_storage` are the looks `load` takes at the
file, `answer` the catch blocks of `run_scenario`. Between any two of them another
process may begin a write (which empties the file), end it, die in it, or remove
the file. What OpenCV does with a file that is no JSON or has a node of a wrong type
(throw, or not open) is modelled as `load` sees it.

**`CalibrationGeometry`, `CalibrationCheck`.** Points have homogeneous integer
coordinates, a turn is cosine, sine and their norm as integers, so that the
projections are exact. `findHomography` is external. `project_next` is one
iteration of the tool's loop, `output` its array, `printed` standard output.

**`FusionEngine`.** `try_anchor` is one round of the outer loop, `candidate_cluster`
the inner one. Positions in the list stand for the copies the code makes.
`add_weighted` is one round of the loop of `weighted_mean`, in the order in which
`std::sort` leaves the cluster; the mean is kept as sums: exact, without division.

## 3. Runs

Every run finishes without an error unless "violation" is said. States are distinct states.

| run | instance | what it shows |
| --- | --- | --- |
| `publisher_safety` | 2 producers, 3 events, 2 attempts, one event on which `post_once` throws; stop and restart at any time | no event lost or reordered (`EveryEventAccounted`), verdicts right (`VerdictsTrustworthy`), stop drains (`StopDrains`), refinement of the outbox (`ImplementsOutbox`) |
| `publisher_send_failure` | 2 producers, 2 events, one of them throwing; **violation** | finding 1 |
| `controller_concurrent` | 2 HTTP threads, 2 workers, batch of 2, files, thread creation and a send fail | what no interleaving of commands breaks: `RunningMeansWork`, a complaint at most once per worker (`CalibrationTakesEffect`); what only overlapping starts break: `OnlyOverlappingStartsTerminate`, `SingleWorker`, `CalibrationLoadedIsEarned`, refinement of the replay of batches (`ImplementsBatchReplay`); what only a start that overlaps another command breaks: `NeverIdleWhileProcessing`, `StopTakesHold`, `StopReturnsQuiet` |
| `controller_two_starts` | 2 HTTP threads, 2 workers; **violation** | finding 2 |
| `service` | main and 1 client, 1 worker, batch of 2, 2 launches, 1 attempt, the second event throws, port, files, sends and threads fail, the first launch is killed at any moment | a main that returns has settled everything (`ShutdownSettlesEverything`), what its destructor waits for is finite (`DrainIsFinite`), losses reach the controller (`LossesReachTheController`), a launch loses only the end of what it published (`CrashLosesOnlyTheEnd`); types (`ServiceTypeOK`) |
| `service_liveness` | main and 2 clients, 1 worker, batch of 1, 1 launch, files, sends and threads fail | commands are answered (`CommandsReturn`), batches end (`BatchEnds`), every published event gets its verdict (`PublishedEventsSettle`), the destructor returns (`ShutdownEnds`); no notification is lost |
| `detector` | up to 4 contours of 16 kinds in any order | best and runner-up (`BestIsFirstHighest`, `SecondIsRunnerUp`), reasons (`VerdictHasItsReason`), and which rivals can be missed (`OnlyNeighboursHideRivals`) |
| `fusion` | up to 4 cameras, 5 places, qualities 0 and 0.9 | `FirstLargestGroupWins`, `UsedCamerasAgree`, `RejectionIsJustified`, `FusedPointAmongUsed`, `CamerasUsedIsTheCount` |
| `vision_replay` | 91 points of the board alone, lists of up to two of 31 scenarios | `ExitCodeTellsTheTruth`, `ShotNumbersArePositions`, `ScoresAreTheBoards` |
| `calibration` | the engine on files of every kind with up to 3 writes; the tool on up to 4 arguments, 3 homographies, 4 offsets | the preferred file alone decides (`PreferredFileDecides`), `JsonNeverThrows`, `UsedCalibrationIsSound`, `PrintedPointsAreRight` |
| `calibration_filestorage` | the engine on files of every kind that nobody writes to; **violation** | finding 3 |
| `json_subset` | all pairs of flat documents over 5 leaves, and of nested ones over 2 | `ContainedIffEveryNodeAgrees`, `MismatchPathIsFirst` |

Every property of a passing run is paired in `PROJECT.json` with a mutation of one
definition, kept beside the original as `..._mutant`, that TLC finds to violate it.

### Bounds, and why they are enough

- *Events* (3), *producers* (2): order and loss need a predecessor, an event in the
  worker's hands and one behind it in the queue; the race with `stop` and with
  falling asleep needs one more thread than the worker. Each event is enqueued at
  most once, which makes the history finite and identifies events.
- *`post_retry_count`* 2: a first, a repeated and a used-up attempt. The runs of the whole
  service have 1: what becomes of repeated attempts is the publisher's run.
- *Threads* (2): `threads_left` accepts no more starts than threads remain to run
  them. Two are needed for "the old worker and the new one"; nothing in the
  code depends on how many ended before.
- *Handlers* (2): each of the races of start and stop is between two commands. With the
  constraint `NoStopAfterOverlap` nobody stops any more once two starts have overlapped,
  to keep the states few: the two properties that still say something then,
  `RunningMeansWork` and `CalibrationTakesEffect`, are proved without it (section 4).
- *Errors* of the publisher: one at most in `controller_concurrent`, and before a start
  overlaps another command (`OneEarlyError`): the callback writes the state as a rejected
  calibrate command does, which may come at any time. In the service every event given
  up is reported. The service runs have one worker thread, so that starts do not
  overlap in them.
- *Batch* of 2: a scenario before and after a stop, a failure or a calibration. One
  has no calibration file, one scores.
- *Launches* (`MaxRuns` = 2): what one launch leaves to the next; only a launch that
  another one follows is killed. One worker publishes two events in each, one
  before and one after a crash; calibrate commands, which touch no event, are
  left out of `service` by the constraint `NoCalibration`, and accepted ones of
  `service_liveness` by `NoOverride`.
- *Writes* (`MaxWrites` = 3): a file that is there when it is chosen, empty when it is
  opened, and complete again when it is read, or one removed and one written.
  The tool's files are not written meanwhile (`Bounded`).
- *Arguments* (`MaxArguments` = 4) of the tool: two pairs, and every incomplete list.
- *Documents*: two keys and up to two elements; a node that is missing, of another
  type, within, at and beyond the tolerance, before and after another difference,
  and the way back from one nested level to the next field of the level above.
- *Contours* up to `MaxContours` = 4: a rival, a neighbour that hides it, a best one
  and one more; scores on both sides of the floor (20) and of 92 % of 50, tips on
  both sides of 20 pixels (19 and exactly 20 by 12-16-20).
- *Impacts* of up to 4 cameras: chains, two equal groups, an outlier, an invalid one;
  distances of exactly the threshold and just above.
- *Points*: both sides of every ring's wire; the angles at the top, on both sides of
  its wires, in the last half sector, and one elsewhere.

`CHECK_DEADLOCK FALSE` stands where the system may stop: the process of
`publisher_safety`, of the service and of the violation runs may end through
`std::terminate`, the concurrent controller likewise, `main` of the service and of the
two tools returns, and the detector, the fusion and the comparison terminate.
In `service_liveness` a deadlock would leave a command, a batch, an event or the
destructor without its end.

### Fairness

`FairServiceSpec` assumes weak fairness of the constructor and the steps of the
destructor, of each command once begun, of each worker's loop, of the
notification that ends `enqueue_event`, of the publisher's thread and of the steps of its
`stop()`: these are threads the system schedules, and an attempt ends at
the latest when the time-outs that `post_once` sets (`event_publisher.cpp:156-158`)
expire. There is no fairness on requests, on the end of the server, on spurious
wakeups, on the backend, on late records, on kills or on launches. `ShutdownEnds` counts
from the destructor's first stop: nobody has to end the server. `BatchEnds` excepts a
start whose thread could not be created, after which the state stays Running until a
stop (see section 5).

## 4. Proofs

`tlapm` proves the following for all values of the constants that satisfy the named
assumptions (`PublisherAssumption`, `FactsAssumption`, `ControllerAssumption`,
`ServiceAssumption`, `ReplayAssumption`, `DetectorAssumption`, `FusionAssumption`,
`StoreAssumption`, `CheckAssumption`, `SubsetAssumption`: types and distinct model values, a
quality floor in 0..1, at most one impact per camera for the fusion, for the service that
`Main` is one of the `Handlers` and that sends may fail, matrices of integers for the
calibration, and for the comparison that documents are trees whose keys are sorted,
without NaN in the expected one). Every invariant a passing run checks is among
them, and so are both refinements.

- `EventPublisher_proofs`, the outbox: **OutboxDeliversInOrder**. The invariant adds that
  verdicts follow the order of acceptance, that no event is accepted twice, that the log
  holds only events whose turn has come and all delivered ones.
- `EventPublisher_proofs`, the publisher: **TypeCorrect** (types and `WorkerDiscipline`,
  which are inductive together), **NoEventIsLost**, **StopDrainsTheQueue**,
  **LossesAreReported** (`EveryLossReported`, by `VerdictsAndLosses`),
  **PublisherImplementsOutbox**, **PublisherDeliversInOrder** (the outbox's theorem
  through the refinement). `IInv` adds `CopiesDue` (a copy in flight is of an event
  whose turn has come, without which a late record would be no step of the outbox)
  and `Drained` (a worker that ended has left nothing promised behind, which is
  what `stop` relies on after the join). **VerdictsAreTrustworthy** counts: by
  `TallyInv` the copies of an event, recorded or in flight, are as many as the attempts
  begun for it (`Tallied`), and from its verdict on they stay so (`Trusted`), since a late
  record only moves a copy from one side to the other and no event comes twice.
- `ServiceController_proofs`, the replay of batches: **ReplayKeepsOrder**, every published
  scenario is the first of its batch or follows its predecessor, since the log ends with
  the scenario at `position`.
- `ServiceController_proofs`, the controller, for any number of commands at a time, any
  batch and any failures, without an assumption on the constants beyond their types.
  For every interleaving: **TypeCorrect**, **StatusIsConsistent** (Error exactly while
  `last_error_` is set), **RunningIsTruthful**, **CalibrationsTakeEffect** (by `OverrideHolds`:
  once a worker's event has come too late for an override, every scenario it sends to the
  engine has seen it), **OverlappingStartsTerminate** (nothing but overlapping starts ends
  the process).
  As long as starts do not overlap: **OneWorkerAtATime**, by `WorkerInv` (past its join a
  start finds no worker and nothing in `worker_`, and whoever joins joins what `worker_`
  denotes, alone), which needs `PlaceInv` (which command can be where); **ShotIdsAreUnique**,
  with `ShotPending`: the number a worker is about to publish is larger than any
  published and smaller than the next, which is inductive only together with one worker;
  **CalibrationFlagIsEarned**; **ControllerReplaysBatches** (each step before the overlap is
  a step of the replay or a stutter) and with it **ScenariosStayInOrder**.
  As long as no start overlaps another command, however stops overlap: **IdleIsTruthful**,
  **StopsTakeHold**, **StopsAreQuiet** (also `IdleShowsNoScenario`). `ApartInv` says that
  whoever finishes a stop finds no worker left and that the flag stays set while any stop is
  executed, `HoldInv` that a worker that has published during a stop is past its
  scenario and, while it lives, that some stop still is.
- `VisionService_proofs`: **ServiceHasOneWorker**, **DrainsAreFinite**,
  **ShutdownsSettleEverything**, **LossesReachController**, **CrashesLoseOnlyTheEnd**,
  **ServiceTypesCorrect**, for any number of launches. `SInv` puts together the
  controller's invariant, the publisher's (its lemmas are used through an instance of its
  proof module), where main may be while which stop is under way (`MainInv`,
  `OwnerInv`, and that no worker is left then, as long as starts did not overlap), and `HandOver`: the n-th event published is the n-th the
  publisher accepted. `CrashInv` adds that the backend hears of an event only when
  everything published before it in its launch has a verdict.
- `ImpactDetector_proofs`: **BestIsRight**, **SecondIsRight**, **VerdictsAreJustified**,
  **RivalsAreHidden**. The first two are the loop invariant, for any number of
  contours; `Decided` ties the verdict to the tests.
- `FusionEngine_proofs`: **LargestGroupWins**, **UsedCamerasAreConsistent**,
  **RejectionsAreJustified**, **CamerasAreCounted**, from the loop invariant
  `Phases`/`Results`: the cluster is that of the first largest of the anchors tried.
  **FusedPointsAreAmong** needs the invariant of the second loop, `Sums`: in each
  coordinate some impact summed so far is not above the mean and some is not below
  (`MeanStaysAmong` is the step: a positive weight more keeps it so).
- `VisionReplay_proofs`: **TypeCorrect**, **NumbersArePositions**, **ExitCodeIsTrue**,
  from `Verdicts`: the success flag is the conjunction of the comparisons so far.
  **ScoresAreRight** is about the code's arithmetic for every point: the index computed
  from the angle is that of the sector, at the top too (`IndexIsSector`), and the order of
  the ring tests leaves to each ring its interval (`ScoreIsWorth`).
- `CalibrationCheck_proofs`, the engine's load: **PreferredFileAlwaysDecides**, **JsonIsCaught**,
  **CalibrationsAreSound**, for any contents and any number of writes. `EngineInv` says
  what is known of the content at each place of `load` (`LoadInv`: what reaches the
  answer is usable and was read from one file) and, as long as nobody wrote, that
  it is still the chosen file's (`CalmInv`).
- `CalibrationCheck_proofs`, the tool: **PointsAreRight**. `CheckInv` adds that each entry of
  `output` is the projection of its pair (`LoopInv`) and that what is printed is all of
  them (`ExitInv`). Its geometry is proved as identities of integers: a turn and the
  turn back cancel (`TurnsCancel`), a matrix undoes its adjugate (`InverseLeadsBack`), and
  together `ProjectedLeadsBack`.
- `JsonSubset_proofs`: **SubsetIsNodewise**, **FirstMismatchIsShown**, for any two trees, without
  induction over them: by `SearchInv` every node of the expected document agrees or lies
  at or below a call still to be made, and these calls are in the order of the document.
  A call that finds no mismatch replaces its node by the children, which keeps both.

`WorkerDiscipline`, `EveryLossReported`, `DeliveredInOrder`, `StatusConsistent`,
`ShotIdsIncrease`, `ScenariosInOrder` and `IdleShowsNoScenario` are proved and
follow from, or support, what the runs check; no run repeats them.

Only model-checked: `PublishedEventsSettle`, `ShutdownEnds`, `CommandsReturn` and
`BatchEnds`. They are liveness properties, and liveness under fairness and ENABLED are out
of the prover's reach. No property says what floating-point rounding
could change: the models compute with exact integers.

## 5. Findings

1. `publisher_send_failure`: an exception in `post_once` (an invalid `post_url`, an
   event that cannot be serialised) ends the process, although
   `doc/basev1/03-pipeline-d-un-tir.md:158-164` wants a usable event for a failed
   send.
2. `controller_two_starts`: two overlapping start commands can both pass the check at
   line 29, both find nothing to join and both create a thread; the assignment of line 46
   that comes second finds `worker_` joinable: `std::terminate`. The trace also shows two
   live workers before the process ends.
3. `calibration_filestorage`: the branch of `load` for FileStorage has no handler
   (`calibration.cpp:91`): a spoilt `calibration.fs.json` lets an exception of OpenCV out of
   `run_scenario`, and in the service the rest of the batch is lost, although
   `fix/fix-log-2026-04-09-110454.md:41` and `:55` want a `CalibrationLoadError` and the event
   `calibration_load_failure`. `PreferredFileDecides` is what does hold for both formats.

Other behaviours the models show, without a run of their own:

- until the second assignment of two overlapping starts ends the process, two workers
  replay the batch at the same time: their events mix, both count with the unlocked
  `shot_sequence_++`, so that two shots may get the same number, each may complain late
  about a calibration, and `calibration_loaded_` may be of the earlier of two events. The
  process survives, with two workers, if a command joins the first one before the second
  is stored, or with a library whose assignment overwrites: what two starts at once mean is
  no more than that each worker behaves, and the properties claim no more;
- a start that overlaps a stop resets `stop_requested_` (`service_controller.cpp:42`); the stop then
  waits for the whole batch, although `README.md:350` says it ends the worker
  cleanly. `StopTakesHold` therefore excepts it (`CommandsApart`);
- a stop that found no worker may answer after a start has created one and set the
  state to Idle while the batch runs (`NeverIdleWhileProcessing`, `StopReturnsQuiet`
  except it);
- a rejected calibrate command, or one event that could not be delivered, makes
  healthcheck say `running: false` while the batch goes on, since `set_last_error`
  writes the state whoever calls it;
- a worker that ended on an exception leaves its scenario in `current_scenario_`
  (`IdleShowsNoScenario` says that this shows only while the state is Error);
- a FALSE in `calibration_loaded_` may come from a scenario begun before the calibrate
  command; the override itself takes effect (`CalibrationTakesEffect`);
- when the thread cannot be created, the state stays Running with no worker until a stop
  (`RunningMeansWork` and `BatchEnds` say that this is the only way);
- no signal is handled, and the queue is in memory: a killed process loses what it has
  queued, and a late copy of its last post may reach the backend after events of
  the next launch;
- `shot_sequence_` starts again at 1 in every launch, so that shots of two launches have the
  same `shot_id`, which `doc/basev1/04-api-locale-et-contrat-json.md:173` calls unique;
- with three close scores, a second-best contour next to the best hides a rival that is
  far away, which `README.md:606-610` does not suggest; `OnlyNeighboursHideRivals`
  says that this is the only way to miss one;
- a calibration that vanishes between the test and the opening is answered with
  `calibration_load_failure`, not with `calibration_required`;
- a point on the horizon of the homography is projected to the centre of the board, the
  inner bull;
- in the comparison a NaN differs from no number;
- with a single valid impact, fusion marks the first impact of the list as used,
  whichever the valid one is (`fusion_engine.cpp:75`); the count is right;
- `vision_replay` on a directory without scenarios returns 0.

## 6. What is not modelled, and what is left

Not modelled: image processing (OpenCV: a contour and an impact are their
outcomes), `findHomography`, floating-point rounding, confidences, times and time stamps,
wording and layout of JSON, the conversions of `json_utils.cpp` and `types.cpp` (each writes
the fields of one record), debug images, HTTP status codes and socket options,
the configuration parser (fields with defaults: no state and no decision that takes
several steps), the program `mock_backend` (it answers and prints), and memory.

The modules were written in the order of what depends on them: the two concurrent
components, the algorithms, then the composition, and last what stands beside
it (calibration and comparison). What could be added:

1. the directory listing of the replay source (`replay.cpp`), with entries that
   appear and vanish while it is read;
2. the detector and the fusion as refinements of the operators `OfflineEngine` uses
   for them.
