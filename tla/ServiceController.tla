-------------------------- MODULE ServiceController --------------------------
(***************************************************************************)
(* ServiceController (src/src/app/service_controller.cpp): the start, stop  *)
(* and calibrate commands, which the HTTP server runs on a pool of threads, *)
(* the worker thread that replays the batch of scenarios, and the state     *)
(* they share. healthcheck and reset_reference change nothing and have no   *)
(* action; the state predicates below say what healthcheck reports.         *)
(*                                                                          *)
(* A critical section of mutex_ is one step. worker_, stop_requested_ and   *)
(* shot_sequence_ are used outside the mutex, so each use of them is a step *)
(* of its own. "worker_ = std::thread(...)" is three: the new thread runs   *)
(* from its construction on, then the assignment looks at worker_, then it  *)
(* stores the thread there. Where the code has a data race the outcomes of  *)
(* both standard libraries are steps: a second join of a thread is refused, *)
(* at once (POSIX) or when the first has closed the handle (Windows), which *)
(* is join_throws in both cases; an assignment that meets another one ends  *)
(* the process (libstdc++ swaps, and destroys what it swapped out) or       *)
(* overwrites what the other has stored (Microsoft's).                      *)
(***************************************************************************)
EXTENDS Naturals, Sequences, FiniteSets, OfflineEngine

CONSTANTS
    Handlers,            \* threads of the HTTP server
    Threads,             \* the worker threads that may ever be created
    NoThread,            \* worker_ is not joinable
    NoScenario,          \* current_scenario_ is empty
    Batch,               \* list_scenarios(scenario_root): the sorted directories
    allow_single_source, \* ExecutionConfig::allow_single_source
    SpawnMayFail,        \* the constructor of std::thread may throw
    FilesMayFail,        \* list_scenarios, load_scenario, run_scenario may throw
    SendMayFail          \* the publisher may report an event it could not deliver

ASSUME ControllerAssumption ==
    /\ Batch \in Seq(Scenarios)
    /\ allow_single_source \in BOOLEAN
    /\ {SpawnMayFail, FilesMayFail, SendMayFail} \subseteq BOOLEAN
    /\ NoThread \notin Threads
    /\ NoScenario \notin Scenarios

VARIABLES
    state,              \* state_
    stop_requested,     \* stop_requested_
    worker,             \* worker_: the thread its handle denotes
    current_scenario,   \* current_scenario_
    last_error,         \* last_error_: what set it
    calibration_loaded, \* calibration_loaded_
    overrides,          \* calibration_overrides_: the cameras that have one
    shot_sequence,      \* shot_sequence_
    command,            \* the command each handler executes
    at,                 \* where in it the handler is
    hand,               \* the thread it created and has not stored, or joins
    crossed,            \* history: "start", "stop": what overlapped a start so far
    stranded,           \* history: a start of this run of Running got no thread
    loop,               \* where in worker_loop each thread is
    index,              \* the position in the batch of each thread's for loop
    shot,               \* options.shot_sequence of each thread
    overridden,         \* whether options.calibration_override is set
    event,              \* result.actual_event of each thread
    published,          \* history: the events handed to the publisher, in order
    send_errors,        \* how often the publisher called back
    alive               \* FALSE once std::terminate has ended the process

status_vars == <<state, current_scenario, last_error>>
calibration_vars == <<calibration_loaded, overrides>>
history_vars == <<crossed, stranded>>
handler_vars == <<command, at, hand, history_vars>>
local_vars == <<index, shot, overridden, event>>
output_vars == <<shot_sequence, published>>
vars == <<status_vars, calibration_vars, handler_vars, local_vars, output_vars,
          stop_requested, worker, loop, send_errors, alive>>

\* What the worker computes alone, and what the commands compute alone.
worker_local == <<local_vars, output_vars, loop>>

live(t) == loop[t] \notin {"unborn", "done"}

Init ==
    /\ state = "idle"
    /\ stop_requested = FALSE
    /\ worker = NoThread
    /\ current_scenario = NoScenario
    /\ last_error = "none"
    /\ calibration_loaded = FALSE
    /\ overrides = {}
    /\ shot_sequence = 1
    /\ command = [h \in Handlers |-> "none"]
    /\ at = [h \in Handlers |-> "idle"]
    /\ hand = [h \in Handlers |-> NoThread]
    /\ crossed = {}
    /\ stranded = FALSE
    /\ loop = [t \in Threads |-> "unborn"]
    /\ index = [t \in Threads |-> 1]
    /\ shot = [t \in Threads |-> 0]
    /\ overridden = [t \in Threads |-> FALSE]
    /\ event = [t \in Threads |-> "none"]
    /\ published = <<>>
    /\ send_errors = 0
    /\ alive = TRUE
-----------------------------------------------------------------------------
(* Shared by the commands. *)

go(h, place) == at' = [at EXCEPT ![h] = place]

leave(h) ==
    /\ go(h, "idle")
    /\ command' = [command EXCEPT ![h] = "none"]

take(h, t) == hand' = [hand EXCEPT ![h] = t]

Starting == \E h \in Handlers : command[h] = "start"
Stopping == \E h \in Handlers : command[h] = "stop"

set_last_error(source) ==
    /\ last_error' = source
    /\ state' = "error"

\* The batch is over or interrupted: an error stays, anything else is idle.
settle_state_mutant == UNCHANGED state
settle_state == state' = IF state = "error" THEN "error" ELSE "idle"
-----------------------------------------------------------------------------
(* start and stop *)

\* Bound: no more starts are accepted than threads are left to run them.
threads_left ==
    Cardinality({h \in Handlers : command[h] = "start" /\ at[h] \notin {"assign", "store"}})
        < Cardinality({t \in Threads : loop[t] = "unborn"})

\* A start that finds the state Running answers and changes nothing.
start_check(h) ==
    /\ alive
    /\ at[h] = "idle"
    /\ state # "running"
    /\ threads_left
    /\ command' = [command EXCEPT ![h] = "start"]
    /\ go(h, "joinable")
    /\ crossed' = crossed \cup ({command[k] : k \in Handlers} \ {"none"})
    /\ UNCHANGED <<hand, stranded, status_vars, calibration_vars, worker_local, stop_requested, worker, send_errors, alive>>

stop_request(h) ==
    /\ alive
    /\ at[h] = "idle"
    /\ stop_requested' = TRUE
    /\ command' = [command EXCEPT ![h] = "stop"]
    /\ go(h, "joinable")
    /\ crossed' = crossed \cup (IF Starting THEN {"stop"} ELSE {})
    /\ UNCHANGED <<hand, stranded, status_vars, calibration_vars, worker_local, worker, send_errors, alive>>

\* What either command does once there is no worker to join (any more).
after_join_mutant(h) == "joinable"
after_join(h) == IF command[h] = "start" THEN "arm" ELSE "finish"

joinable_mutant == FALSE
joinable == worker # NoThread

check_joinable(h) ==
    /\ alive
    /\ at[h] = "joinable"
    /\ go(h, IF joinable THEN "join" ELSE after_join(h))
    /\ UNCHANGED <<command, hand, history_vars, status_vars, calibration_vars, worker_local, stop_requested, worker, send_errors, alive>>

\* Nothing is left to join, or another command is joining it.
join_refused(h) ==
    ~ joinable \/ \E k \in Handlers \ {h} : at[k] = "joining" /\ hand[k] = worker

join_begins(h) ==
    /\ alive
    /\ at[h] = "join"
    /\ ~ join_refused(h)
    /\ take(h, worker)
    /\ go(h, "joining")
    /\ UNCHANGED <<command, history_vars, status_vars, calibration_vars, worker_local, stop_requested, worker, send_errors, alive>>

\* std::system_error leaves the command; the server answers 500.
join_throws(h) ==
    /\ alive
    /\ at[h] = "join"
    /\ join_refused(h)
    /\ leave(h)
    /\ UNCHANGED <<hand, history_vars, status_vars, calibration_vars, worker_local, stop_requested, worker, send_errors, alive>>

join_returns(h) ==
    /\ alive
    /\ at[h] = "joining"
    /\ \A t \in Threads : t = hand[h] => ~ live(t)
    /\ worker' = NoThread
    /\ take(h, NoThread)
    /\ go(h, after_join(h))
    /\ UNCHANGED <<command, history_vars, status_vars, calibration_vars, worker_local, stop_requested, send_errors, alive>>

\* last_error_.reset()
cleared_error == "none"

start_arm(h) ==
    /\ alive
    /\ at[h] = "arm"
    /\ stop_requested' = FALSE
    /\ state' = "running"
    /\ last_error' = cleared_error
    /\ stranded' = FALSE
    /\ go(h, "spawn")
    /\ UNCHANGED <<current_scenario, command, hand, crossed, calibration_vars, worker_local, worker, send_errors, alive>>

\* The constructor of std::thread: the new thread runs from here on.
start_spawn(h) ==
    /\ alive
    /\ at[h] = "spawn"
    /\ \E t \in Threads :
        /\ loop[t] = "unborn"
        /\ take(h, t)
        /\ loop' = [loop EXCEPT ![t] = "list"]
    /\ go(h, "assign")
    /\ UNCHANGED <<command, history_vars, status_vars, calibration_vars, local_vars, output_vars, stop_requested, worker, send_errors, alive>>

\* std::system_error: no thread could be created. The state stays Running.
start_spawn_fails(h) ==
    /\ alive
    /\ SpawnMayFail
    /\ at[h] = "spawn"
    /\ stranded' = TRUE
    /\ leave(h)
    /\ UNCHANGED <<hand, crossed, status_vars, calibration_vars, worker_local, stop_requested, worker, send_errors, alive>>

\* Assigning to a joinable std::thread calls std::terminate.
handle_taken == worker # NoThread

start_assign(h) ==
    /\ alive
    /\ at[h] = "assign"
    /\ ~ handle_taken
    /\ go(h, "store")
    /\ UNCHANGED <<command, hand, history_vars, status_vars, calibration_vars, worker_local, stop_requested, worker, send_errors, alive>>

\* At "store" another start has stored its thread since start_assign looked.
start_terminates(h) ==
    /\ alive
    /\ at[h] \in {"assign", "store"}
    /\ handle_taken
    /\ alive' = FALSE
    /\ UNCHANGED <<status_vars, calibration_vars, handler_vars, worker_local, stop_requested, worker, send_errors>>

start_store(h) ==
    /\ alive
    /\ at[h] = "store"
    /\ worker' = hand[h]
    /\ take(h, NoThread)
    /\ leave(h)
    /\ UNCHANGED <<history_vars, status_vars, calibration_vars, worker_local, stop_requested, send_errors, alive>>

stop_finish(h) ==
    /\ alive
    /\ at[h] = "finish"
    /\ settle_state
    /\ current_scenario' = NoScenario
    /\ leave(h)
    /\ UNCHANGED <<last_error, hand, history_vars, calibration_vars, worker_local, stop_requested, worker, send_errors, alive>>

\* The steps of a command that was begun.
command_step(h) ==
    \/ check_joinable(h) \/ join_begins(h) \/ join_throws(h) \/ join_returns(h)
    \/ start_arm(h) \/ start_spawn(h) \/ start_spawn_fails(h)
    \/ start_assign(h) \/ start_terminates(h) \/ start_store(h)
    \/ stop_finish(h)
-----------------------------------------------------------------------------
(* apply_calibration_payload *)

calibrate_accepted(h, camera) ==
    /\ alive
    /\ at[h] = "idle"
    /\ overrides' = overrides \cup {camera}
    /\ calibration_loaded' = TRUE
    /\ UNCHANGED <<status_vars, handler_vars, worker_local, stop_requested, worker, send_errors, alive>>

\* The payload lacks a field or compute_calibration rejects the points.
calibrate_rejected(h) ==
    /\ alive
    /\ at[h] = "idle"
    /\ set_last_error("calibration")
    /\ UNCHANGED <<current_scenario, calibration_vars, handler_vars, worker_local, stop_requested, worker, send_errors, alive>>
-----------------------------------------------------------------------------
(* worker_loop *)

advance(t, place) == loop' = [loop EXCEPT ![t] = place]

\* enqueue_event, with what the history remembers of the moment.
publish(t, scenario, what, is_late) ==
    published' = Append(published,
        [by |-> t, scenario |-> scenario, event |-> what, shot |-> shot[t],
         late |-> is_late, stopping |-> Stopping])

list_scenarios(t) ==
    /\ alive
    /\ loop[t] = "list"
    /\ advance(t, "next")
    /\ UNCHANGED <<status_vars, calibration_vars, handler_vars, local_vars, output_vars, stop_requested, worker, send_errors, alive>>

\* list_scenarios, load_scenario or run_scenario throws.
throws(t) ==
    /\ alive
    /\ FilesMayFail
    /\ loop[t] \in {"list", "load", "run"}
    /\ advance(t, "failed")
    /\ UNCHANGED <<status_vars, calibration_vars, handler_vars, local_vars, output_vars, stop_requested, worker, send_errors, alive>>

\* The head of the for loop: the end of the batch, or the stop flag.
interrupted_mutant == FALSE
interrupted == stop_requested

for_each_scenario(t) ==
    /\ alive
    /\ loop[t] = "next"
    /\ advance(t, IF interrupted \/ index[t] > Len(Batch) THEN "finish" ELSE "load")
    /\ UNCHANGED <<status_vars, calibration_vars, handler_vars, local_vars, output_vars, stop_requested, worker, send_errors, alive>>

\* scenario_config.name
scenario_name(t) == Batch[index[t]]

load_scenario(t) ==
    /\ alive
    /\ loop[t] = "load"
    /\ current_scenario' = scenario_name(t)
    /\ advance(t, "options")
    /\ UNCHANGED <<state, last_error, calibration_vars, handler_vars, local_vars, output_vars, stop_requested, worker, send_errors, alive>>

\* shot_sequence_++, a plain integer that no lock protects: what the thread
\* reads is in its options, and one more than that is written back.
read_shot_sequence(t) ==
    /\ alive
    /\ loop[t] = "options"
    /\ shot' = [shot EXCEPT ![t] = shot_sequence]
    /\ advance(t, "number")
    /\ UNCHANGED <<index, overridden, event, output_vars, status_vars, calibration_vars, handler_vars, stop_requested, worker, send_errors, alive>>

next_shot_mutant(t) == shot[t]
next_shot(t) == shot[t] + 1

find_override_mutant(camera) == FALSE
find_override(camera) == camera \in overrides

set_options(t) ==
    /\ alive
    /\ loop[t] = "number"
    /\ shot_sequence' = next_shot(t)
    /\ overridden' = [overridden EXCEPT ![t] = find_override(Facts[Batch[index[t]]].camera)]
    /\ advance(t, "run")
    /\ UNCHANGED <<index, shot, event, published, status_vars, calibration_vars, handler_vars, stop_requested, worker, send_errors, alive>>

options(t) ==
    [ compare_expected |-> FALSE,
      allow_single_source |-> allow_single_source,
      overridden |-> overridden[t] ]

run_scenario(t) ==
    LET s == Batch[index[t]]
        result == actual_event(s, options(t))
    IN
    /\ alive
    /\ loop[t] = "run"
    /\ event' = [event EXCEPT ![t] = result]
    /\ publish(t, s, result, Facts[s].camera \in overrides)
    /\ advance(t, "note")
    /\ UNCHANGED <<index, shot, overridden, shot_sequence, status_vars, calibration_vars, handler_vars, stop_requested, worker, send_errors, alive>>

next_index(t) == index[t] + 1

\* Whether an event says that the scenario had a calibration.
calibrated_mutant(what) == what # "calibration_load_failure"
calibrated(what) == what \notin {"calibration_required", "calibration_load_failure"}

note_calibration(t) ==
    /\ alive
    /\ loop[t] = "note"
    /\ calibration_loaded' = calibrated(event[t])
    /\ index' = [index EXCEPT ![t] = next_index(t)]
    /\ advance(t, "next")
    /\ UNCHANGED <<shot, overridden, event, overrides, output_vars, status_vars, handler_vars, stop_requested, worker, send_errors, alive>>

\* current_scenario_.clear()
cleared_scenario == NoScenario

finish_batch(t) ==
    /\ alive
    /\ loop[t] = "finish"
    /\ settle_state
    /\ current_scenario' = cleared_scenario
    /\ advance(t, "done")
    /\ UNCHANGED <<last_error, calibration_vars, handler_vars, local_vars, output_vars, stop_requested, worker, send_errors, alive>>

\* The catch block: the event first, then the state. The rest of the batch is
\* abandoned and current_scenario_ keeps its value.
publish_failure(t) ==
    /\ alive
    /\ loop[t] = "failed"
    /\ publish(t, NoScenario, "offline_worker_failure", FALSE)
    /\ advance(t, "record")
    /\ UNCHANGED <<shot_sequence, local_vars, status_vars, calibration_vars, handler_vars, stop_requested, worker, send_errors, alive>>

record_failure(t) ==
    /\ alive
    /\ loop[t] = "record"
    /\ set_last_error("worker")
    /\ advance(t, "done")
    /\ UNCHANGED <<current_scenario, calibration_vars, handler_vars, local_vars, output_vars, stop_requested, worker, send_errors, alive>>

worker_loop(t) ==
    \/ list_scenarios(t) \/ throws(t) \/ for_each_scenario(t) \/ load_scenario(t)
    \/ read_shot_sequence(t) \/ set_options(t) \/ run_scenario(t) \/ note_calibration(t)
    \/ finish_batch(t) \/ publish_failure(t) \/ record_failure(t)
-----------------------------------------------------------------------------
(* The publisher's error callback, installed by the constructor. It comes at *)
(* most once for each event handed over, at any later time.                  *)
error_callback ==
    /\ alive
    /\ SendMayFail
    /\ send_errors < Len(published)
    /\ send_errors' = send_errors + 1
    /\ set_last_error("publisher")
    /\ UNCHANGED <<current_scenario, calibration_vars, handler_vars, worker_local, stop_requested, worker, alive>>
-----------------------------------------------------------------------------
Next ==
    \/ \E h \in Handlers :
        \/ start_check(h) \/ stop_request(h) \/ command_step(h)
        \/ calibrate_rejected(h)
        \/ \E camera \in Cameras : calibrate_accepted(h, camera)
    \/ \E t \in Threads : worker_loop(t)
    \/ error_callback

Spec == Init /\ [][Next]_vars

-----------------------------------------------------------------------------
(* What must hold. *)

LoopPlaces ==
    {"unborn", "list", "next", "load", "options", "number", "run", "note", "finish", "failed", "record", "done"}

PublishedEvents == EngineEvents \cup {"offline_worker_failure"}

Entry == [by : Threads, scenario : Scenarios \cup {NoScenario}, event : PublishedEvents,
          shot : Nat, late : BOOLEAN, stopping : BOOLEAN]

TypeOK ==
    /\ state \in {"idle", "running", "error"}
    /\ stop_requested \in BOOLEAN
    /\ worker \in Threads \cup {NoThread}
    /\ current_scenario \in Scenarios \cup {NoScenario}
    /\ last_error \in {"none", "calibration", "publisher", "worker"}
    /\ calibration_loaded \in BOOLEAN
    /\ overrides \subseteq Cameras
    /\ shot_sequence \in Nat
    /\ command \in [Handlers -> {"none", "start", "stop"}]
    /\ at \in [Handlers -> {"idle", "joinable", "join", "joining", "arm", "spawn", "assign", "store", "finish"}]
    /\ hand \in [Handlers -> Threads \cup {NoThread}]
    /\ crossed \subseteq {"start", "stop"}
    /\ stranded \in BOOLEAN
    /\ loop \in [Threads -> LoopPlaces]
    /\ index \in [Threads -> 1..(Len(Batch) + 1)]
    /\ shot \in [Threads -> Nat]
    /\ overridden \in [Threads -> BOOLEAN]
    /\ event \in [Threads -> EngineEvents \cup {"none"}]
    /\ published \in Seq(Entry)
    /\ send_errors \in Nat
    /\ alive \in BOOLEAN

(***************************************************************************)
(* state_ and last_error_ agree: the service is in error exactly while it  *)
(* has an error to show, whichever of the commands, the worker and the     *)
(* publisher wrote last. (set_last_error, start, stop, end of worker_loop.) *)
(***************************************************************************)
StatusConsistent == (state = "error") <=> (last_error # "none")

\* No two starts were ever executed at the same time; no start was executed at
\* the same time as another start or a stop. (A start that finds the state
\* Running does nothing and counts as none.)
StartsApart == "start" \notin crossed
CommandsApart == crossed = {}

\* A start has created t and is about to store it in worker_.
holds(h, t) == at[h] \in {"assign", "store"} /\ hand[h] = t

(***************************************************************************)
(* As long as starts do not overlap, and however stops overlap them and     *)
(* each other, at most one worker thread runs at a time, and worker_        *)
(* denotes it or the start that created it is about to store it there: no   *)
(* batch is replayed twice at the same time, none escapes the next join.    *)
(***************************************************************************)
SingleWorker ==
    (alive /\ StartsApart) =>
        \A t \in Threads : live(t) =>
            /\ worker = t \/ \E h \in Handlers : holds(h, t)
            /\ \A u \in Threads : live(u) => u = t

IsShot(i) == published[i].event \in ShotEvents

(***************************************************************************)
(* shot_id is unique within a run of the service: as long as starts do not  *)
(* overlap, shots reach the publisher with strictly increasing numbers,     *)
(* across batches and restarted workers, although shot_sequence_ is a plain *)
(* integer that is read and written back without a lock.                    *)
(***************************************************************************)
ShotIdsIncrease ==
    StartsApart =>
        \A i, j \in 1..Len(published) :
            (i < j /\ IsShot(i) /\ IsShot(j)) => published[i].shot < published[j].shot

Complains(i) == published[i].event \in {"calibration_required", "calibration_load_failure"}

LateRequests(camera) ==
    {i \in 1..Len(published) :
        /\ published[i].late
        /\ Complains(i)
        /\ Facts[published[i].scenario].camera = camera}

(***************************************************************************)
(* An accepted calibrate command takes effect: from then on each worker     *)
(* complains at most once more about that camera's calibration, for the     *)
(* scenario whose options were already set, and as long as starts do not    *)
(* overlap a single worker does. (find_override is read once per scenario,  *)
(* outside the section that publishes.)                                    *)
(***************************************************************************)
CalibrationTakesEffect ==
    \A camera \in Cameras : \A i, j \in LateRequests(camera) :
        i = j \/ (published[i].by # published[j].by /\ ~ StartsApart)

\* The last scenario whose event has been noted, in the order of publication.
LastNoted(i) ==
    LET noted(k) == /\ published[k].event \in EngineEvents
                    /\ ~ (k = Len(published) /\ \E t \in Threads : loop[t] = "note")
    IN noted(i) /\ \A k \in (i + 1)..Len(published) : ~ noted(k)

(***************************************************************************)
(* healthcheck's calibration_loaded has a reason: TRUE means that an        *)
(* override was accepted or that the last scenario replayed had a           *)
(* calibration, FALSE that the last one had none, or that there was neither. *)
(* (Two writers: note_calibration, from a result computed before, and the    *)
(* calibrate command; a FALSE may therefore be older than an override. With  *)
(* overlapping starts two workers note their events in any order.)          *)
(***************************************************************************)
CalibrationLoadedIsEarned ==
    LET last == {i \in 1..Len(published) : LastNoted(i)} IN
    StartsApart =>
        /\ calibration_loaded => overrides # {} \/ \E i \in last : ~ Complains(i)
        /\ ~ calibration_loaded =>
            \/ \E i \in last : Complains(i)
            \/ overrides = {} /\ last = {}

(***************************************************************************)
(* "Le service traite deja des scenarios" is true when start says so,       *)
(* whatever overlaps and whatever fails: while the state is Running a       *)
(* worker is at work or about to be created, unless a start has failed to   *)
(* create its thread since the state was last set to Running.               *)
(***************************************************************************)
RunningMeansWork ==
    (alive /\ state = "running" /\ ~ stranded) =>
        \/ \E t \in Threads : live(t)
        \/ \E h \in Handlers : at[h] = "spawn"

(***************************************************************************)
(* No command ends the process.                                            *)
(***************************************************************************)
NeverTerminates == alive

(***************************************************************************)
(* Nothing but two starts at the same time makes the assignment to worker_  *)
(* meet a joinable thread and end the process: neither stops that overlap   *)
(* starts or each other, nor a start on top of a worker that is still busy  *)
(* after an error, nor a thread that could not be created.                  *)
(***************************************************************************)
OnlyOverlappingStartsTerminate == StartsApart => alive

(***************************************************************************)
(* The state is never Idle while a worker is replaying scenarios, so a     *)
(* start cannot be accepted on top of a batch that is going well: however   *)
(* stops overlap each other, as long as none of them overlaps a start.      *)
(***************************************************************************)
NeverIdleWhileProcessing ==
    (alive /\ CommandsApart /\ state = "idle") => \A t \in Threads : ~ live(t)

(***************************************************************************)
(* While healthcheck says Idle it names no current scenario, whichever way *)
(* the batch came to an end. (Only a worker that failed leaves its name    *)
(* behind, and then the state is Error.)                                   *)
(***************************************************************************)
IdleShowsNoScenario == (CommandsApart /\ state = "idle") => current_scenario = NoScenario

PublishedWhileStopping(t) ==
    {i \in 1..Len(published) : published[i].by = t /\ published[i].stopping}

(***************************************************************************)
(* A stop takes hold at the next scenario: over the whole life of a worker  *)
(* it publishes at most one event while stops are being executed, the one   *)
(* it was at when the first of them came, however many overlap and even if  *)
(* some are refused. (The flag set by stop, the test at the head of the     *)
(* loop, the reset in start; a start that overlaps a stop takes it back.)   *)
(***************************************************************************)
StopTakesHold ==
    CommandsApart => \A t \in Threads : Cardinality(PublishedWhileStopping(t)) <= 1

(***************************************************************************)
(* When stop() answers that it is done, the worker has ended and            *)
(* healthcheck shows neither a running batch nor a current scenario: also   *)
(* when other stops overlap, as long as no start does.                      *)
(***************************************************************************)
StopReturnsQuiet ==
    [][\A h \in Handlers :
        (at[h] = "finish" /\ at'[h] = "idle" /\ CommandsApart) =>
            /\ \A t \in Threads : ~ live(t)'
            /\ state' # "running"
            /\ current_scenario' = NoScenario]_vars

(***************************************************************************)
(* Every command is answered: whoever waits in join waits for a worker     *)
(* that ends.                                                              *)
(***************************************************************************)
CommandsReturn ==
    \A h \in Handlers : (at[h] # "idle") ~> (at[h] = "idle" \/ ~ alive)

(***************************************************************************)
(* A batch comes to an end: the service does not stay Running for ever, so *)
(* a later start is accepted, unless the start that set it to Running got   *)
(* no thread.                                                              *)
(***************************************************************************)
BatchEnds == (state = "running") ~> (state # "running" \/ ~ alive \/ stranded)

-----------------------------------------------------------------------------
(* The controller implements the replay of batches: a batch is being replayed *)
(* until its worker leaves the loop or has published its failure.            *)
busy(t) == loop[t] \in {"list", "next", "load", "options", "number", "run", "note", "failed"}

replaying == \E t \in Threads : busy(t)

replayed ==
    IF replaying
    THEN LET t == CHOOSE t \in Threads : busy(t)
         IN index[t] - 1 + (IF loop[t] = "note" THEN 1 ELSE 0)
    ELSE 0

Failure == [scenario |-> NoScenario, event |-> "offline_worker_failure", shot |-> 0]

entry_of(entry) ==
    IF entry.event = "offline_worker_failure" THEN Failure
    ELSE [scenario |-> entry.scenario, event |-> entry.event, shot |-> entry.shot]

may_produce(s) ==
    { actual_event(s, [ compare_expected |-> FALSE,
                        allow_single_source |-> allow_single_source,
                        overridden |-> overriding ]) : overriding \in BOOLEAN }

BatchReplay == INSTANCE BatchReplay WITH
    Outcomes <- [s \in Scenarios |-> may_produce(s)],
    active <- replaying,
    position <- replayed,
    log <- [i \in 1..Len(published) |-> entry_of(published[i])],
    stopping <- stop_requested

(***************************************************************************)
(* Until two starts overlap, and however stops, calibrates, the worker and  *)
(* the callback interleave with them, the events handed to the publisher    *)
(* are those of batches replayed one after the other, each begun at its     *)
(* first scenario and ended by its last, by a failure or while a stop is    *)
(* asked for, with increasing shot numbers. (worker_loop, start's join.)    *)
(***************************************************************************)
ImplementsBatchReplay ==
    /\ BatchReplay!Init
    /\ [][StartsApart' => [BatchReplay!Next]_(BatchReplay!vars)]_vars

(***************************************************************************)
(* As long as starts do not overlap each published scenario is the first of *)
(* the batch or comes right after its predecessor: two batches never mix    *)
(* in what is handed to the publisher. (start joins the old worker first.)  *)
(***************************************************************************)
ScenariosInOrder == StartsApart => BatchReplay!ScenariosInOrder
=============================================================================
