----------------------- MODULE ServiceController_proofs -----------------------
(***************************************************************************)
(* What ServiceController guarantees for every number of HTTP threads, of   *)
(* worker threads, of scenarios and of cameras, with files, threads and     *)
(* sends failing or not.                                                    *)
(***************************************************************************)
EXTENDS ServiceController, SequenceTheorems, FiniteSetTheorems, TLAPS

USE ControllerAssumption DEF ControllerAssumption

-----------------------------------------------------------------------------
(* Types. A thread that has passed the head of the loop is inside the batch.  *)

InBatch ==
    \A t \in Threads : loop[t] \in {"load", "options", "number", "run", "note"} => index[t] <= Len(Batch)

\* run_scenario produces one of the engine's events.
LEMMA EngineEventsOnly ==
    ASSUME NEW s \in Scenarios, NEW o \in Options
    PROVE  actual_event(s, o) \in EngineEvents
  <1>1. Facts[s] \in ScenarioFacts
    BY FactsAssumption DEF FactsAssumption
  <1> QED
    BY <1>1 DEF actual_event, calibration_outcome, shot_event, EngineEvents, ShotEvents, ScenarioFacts, Options, fused_valid

\* An idle service without a worker.
LEMMA TypeInit == Init => TypeOK /\ InBatch
  <1> SUFFICES ASSUME Init PROVE TypeOK /\ InBatch
    OBVIOUS
  <1>1. published \in Seq(Entry)
    BY EmptySeq DEF Init
  <1>2. /\ command \in [Handlers -> {"none", "start", "stop"}]
        /\ at \in [Handlers -> {"idle", "joinable", "join", "joining", "arm", "spawn", "assign", "store", "finish"}]
        /\ hand \in [Handlers -> Threads \cup {NoThread}]
        /\ loop \in [Threads -> LoopPlaces]
        /\ shot \in [Threads -> Nat]
        /\ overridden \in [Threads -> BOOLEAN]
        /\ event \in [Threads -> EngineEvents \cup {"none"}]
    BY DEF Init, LoopPlaces
  <1>3. index \in [Threads -> 1..(Len(Batch) + 1)]
    BY LenProperties DEF Init
  <1> QED
    BY <1>1, <1>2, <1>3 DEF Init, TypeOK, InBatch

\* The steps of start and stop.
LEMMA CommandsKeepTypes ==
    ASSUME TypeOK, InBatch, NEW h \in Handlers,
           start_check(h) \/ stop_request(h) \/ command_step(h)
    PROVE  TypeOK' /\ InBatch'
  <1> USE DEF TypeOK, InBatch, LoopPlaces, status_vars, calibration_vars, handler_vars, local_vars,
              output_vars, history_vars, worker_local, go, leave, take
  <1>1. CASE start_check(h)
    <2>1. {command[k] : k \in Handlers} \ {"none"} \subseteq {"start", "stop"}
      OBVIOUS
    <2>2. crossed' \subseteq {"start", "stop"}
      BY <1>1, <2>1 DEF start_check
    <2> QED
      BY <1>1, <2>2 DEF start_check
  <1>2. CASE stop_request(h)
    BY <1>2 DEF stop_request
  <1>3. CASE check_joinable(h)
    BY <1>3 DEF check_joinable, after_join
  <1>4. CASE join_begins(h)
    BY <1>4 DEF join_begins
  <1>5. CASE join_throws(h)
    BY <1>5 DEF join_throws
  <1>6. CASE join_returns(h)
    BY <1>6 DEF join_returns, after_join
  <1>7. CASE start_arm(h)
    BY <1>7 DEF start_arm, cleared_error
  <1>8. CASE start_terminates(h)
    BY <1>8 DEF start_terminates
  <1>9. CASE start_spawn(h)
    BY <1>9 DEF start_spawn
  <1>10. CASE start_spawn_fails(h)
    BY <1>10 DEF start_spawn_fails
  <1>11. CASE start_assign(h)
    BY <1>11 DEF start_assign
  <1>12. CASE start_store(h)
    BY <1>12 DEF start_store
  <1>13. CASE stop_finish(h)
    BY <1>13 DEF stop_finish, settle_state
  <1> QED
    BY <1>1, <1>2, <1>3, <1>4, <1>5, <1>6, <1>7, <1>8, <1>9, <1>10, <1>11, <1>12, <1>13
       DEF command_step

\* calibrate, the callback of the publisher and stuttering.
LEMMA OthersKeepTypes ==
    ASSUME TypeOK, InBatch,
           \/ \E h \in Handlers :
                calibrate_rejected(h) \/ \E camera \in Cameras : calibrate_accepted(h, camera)
           \/ error_callback
           \/ UNCHANGED vars
    PROVE  TypeOK' /\ InBatch'
  <1> USE DEF TypeOK, InBatch, LoopPlaces, status_vars, calibration_vars, handler_vars, local_vars,
              output_vars, history_vars, worker_local, set_last_error
  <1>1. ASSUME NEW h \in Handlers, calibrate_rejected(h) PROVE TypeOK' /\ InBatch'
    BY <1>1 DEF calibrate_rejected
  <1>2. ASSUME NEW h \in Handlers, NEW camera \in Cameras, calibrate_accepted(h, camera)
        PROVE  TypeOK' /\ InBatch'
    BY <1>2 DEF calibrate_accepted
  <1>3. CASE error_callback
    <2>1. /\ last_error' = "publisher" /\ state' = "error" /\ send_errors' \in Nat
          /\ UNCHANGED <<current_scenario, calibration_vars, handler_vars, worker_local, stop_requested,
                         worker, alive>>
      BY <1>3 DEF error_callback
    <2> QED
      BY <2>1
  <1>4. CASE UNCHANGED vars
    BY <1>4 DEF vars
  <1> QED
    BY <1>1, <1>2, <1>3, <1>4

\* The steps of a worker; it goes to a scenario only within the batch.
LEMMA WorkerKeepsTypes ==
    ASSUME TypeOK, InBatch, NEW t \in Threads, worker_loop(t)
    PROVE  TypeOK' /\ InBatch'
  <1> USE DEF TypeOK, InBatch, LoopPlaces, status_vars, calibration_vars, handler_vars, local_vars,
              output_vars, history_vars, set_last_error, advance
  <1>1. CASE list_scenarios(t)
    BY <1>1 DEF list_scenarios
  <1>2. CASE throws(t)
    BY <1>2 DEF throws
  <1>3. CASE for_each_scenario(t)
    BY <1>3 DEF for_each_scenario, interrupted
  <1>4. CASE load_scenario(t)
    BY <1>4 DEF load_scenario, scenario_name
  <1>5. CASE read_shot_sequence(t) \/ set_options(t)
    <2>1. CASE read_shot_sequence(t)
      BY <2>1 DEF read_shot_sequence
    <2>2. CASE set_options(t)
      <3>1. shot_sequence' \in Nat
        BY <2>2 DEF set_options, next_shot
      <3>2. overridden' \in [Threads -> BOOLEAN]
        BY <2>2 DEF set_options, find_override
      <3> QED
        BY <2>2, <3>1, <3>2 DEF set_options
    <2> QED
      BY <1>5, <2>1, <2>2
  <1>6. CASE run_scenario(t)
    <2> DEFINE s == Batch[index[t]]
    <2>1. s \in Scenarios /\ options(t) \in Options
      BY <1>6 DEF run_scenario, options, Options
    <2>2. actual_event(s, options(t)) \in EngineEvents
      BY <2>1, EngineEventsOnly
    <2>3. (Facts[s].camera \in overrides) \in BOOLEAN
      OBVIOUS
    <2>4. published' \in Seq(Entry)
      <3> DEFINE entry == [by |-> t, scenario |-> s, event |-> actual_event(s, options(t)),
                           shot |-> shot[t], late |-> (Facts[s].camera \in overrides),
                           stopping |-> Stopping]
      <3>1. Stopping \in BOOLEAN
        BY DEF Stopping
      <3>2. entry \in Entry
        BY <2>1, <2>2, <2>3, <3>1 DEF Entry, PublishedEvents
      <3>3. published' = Append(published, entry)
        BY <1>6 DEF run_scenario, publish
      <3> HIDE DEF entry
      <3> QED
        BY <3>2, <3>3, AppendProperties
    <2>5. event' \in [Threads -> EngineEvents \cup {"none"}]
      BY <1>6, <2>2 DEF run_scenario
    <2> QED
      BY <1>6, <2>4, <2>5 DEF run_scenario
  <1>7. CASE note_calibration(t)
    BY <1>7 DEF note_calibration, calibrated, next_index
  <1>8. CASE finish_batch(t)
    BY <1>8 DEF finish_batch, settle_state, cleared_scenario
  <1>9. CASE publish_failure(t)
    <2> DEFINE entry == [by |-> t, scenario |-> NoScenario, event |-> "offline_worker_failure",
                         shot |-> shot[t], late |-> FALSE, stopping |-> Stopping]
    <2>1. entry \in Entry
      BY DEF Entry, PublishedEvents, Stopping
    <2>2. published' = Append(published, entry)
      BY <1>9 DEF publish_failure, publish
    <2> HIDE DEF entry
    <2>3. published' \in Seq(Entry)
      BY <2>1, <2>2, AppendProperties
    <2> QED
      BY <1>9, <2>3 DEF publish_failure
  <1>10. CASE record_failure(t)
    BY <1>10 DEF record_failure
  <1> QED
    BY <1>1, <1>2, <1>3, <1>4, <1>5, <1>6, <1>7, <1>8, <1>9, <1>10 DEF worker_loop

(* Every variable of the controller keeps its type, and no worker ever reads *)
(* beyond the end of the batch.                                              *)
THEOREM TypeCorrect == Spec => [](TypeOK /\ InBatch)
  <1>1. TypeOK /\ InBatch /\ [Next]_vars => TypeOK' /\ InBatch'
    BY CommandsKeepTypes, WorkerKeepsTypes, OthersKeepTypes DEF Next
  <1> QED
    BY <1>1, TypeInit, PTL DEF Spec
-----------------------------------------------------------------------------
(* The state and the error it shows.                                          *)

\* Every write of state_ or last_error_ keeps them in agreement.
LEMMA StepKeepsStatus ==
    ASSUME StatusConsistent, [Next]_vars
    PROVE  StatusConsistent'
  <1> USE DEF StatusConsistent, status_vars
  <1>1. ASSUME NEW h \in Handlers,
               start_check(h) \/ stop_request(h) \/ command_step(h) \/ calibrate_rejected(h)
                 \/ \E camera \in Cameras : calibrate_accepted(h, camera)
        PROVE  StatusConsistent'
    BY <1>1 DEF start_check, stop_request, command_step, check_joinable, join_begins, join_throws,
                join_returns, start_arm, cleared_error, start_terminates, start_spawn,
                start_spawn_fails, start_assign, start_store, stop_finish, settle_state, calibrate_rejected, set_last_error,
                calibrate_accepted
  <1>2. ASSUME NEW t \in Threads, worker_loop(t) PROVE StatusConsistent'
    BY <1>2 DEF worker_loop, list_scenarios, throws, for_each_scenario, load_scenario,
                read_shot_sequence, set_options, run_scenario, note_calibration, finish_batch, settle_state, cleared_scenario, publish_failure,
                record_failure, set_last_error
  <1>3. CASE error_callback
    BY <1>3 DEF error_callback, set_last_error
  <1>4. CASE UNCHANGED vars
    BY <1>4 DEF vars
  <1> QED
    BY <1>1, <1>2, <1>3, <1>4 DEF Next

(* The service is in error exactly while it has an error to show, whichever  *)
(* of the commands, the worker and the publisher wrote last.                 *)
THEOREM StatusIsConsistent == Spec => []StatusConsistent
  <1>1. Init => StatusConsistent
    BY DEF Init, StatusConsistent
  <1> QED
    BY <1>1, StepKeepsStatus, PTL DEF Spec
-----------------------------------------------------------------------------
(* One worker at a time, and the numbers of its shots.                        *)

\* The place of a handler tells which command it executes.
PlaceInv ==
    \A h \in Handlers :
        /\ at[h] = "idle" <=> command[h] = "none"
        /\ at[h] \in {"arm", "spawn", "assign", "store"} => command[h] = "start"
        /\ at[h] = "finish" => command[h] = "stop"

\* As long as starts do not overlap: past its join a start finds no worker and
\* nothing in worker_, and whoever joins joins what worker_ denotes, alone.
WorkerInv ==
    (alive /\ StartsApart) =>
        /\ \A h, k \in Handlers : command[h] = "start" /\ command[k] = "start" => h = k
        /\ \A t \in Threads : live(t) =>
            /\ worker = t \/ \E h \in Handlers : holds(h, t)
            /\ \A u \in Threads : live(u) => u = t
        /\ \A h \in Handlers :
            /\ at[h] \in {"arm", "spawn"} => \A t \in Threads : ~ live(t)
            /\ at[h] \in {"arm", "spawn", "assign", "store"} => worker = NoThread
            /\ at[h] = "joining" => worker # NoThread /\ hand[h] = worker
        /\ \A h, k \in Handlers : at[h] = "joining" /\ at[k] = "joining" => h = k

\* The number a worker is about to publish is new: larger than any published
\* one, and not larger than the next one to be given out.
ShotPending ==
    StartsApart =>
        /\ \A i \in 1..Len(published) : IsShot(i) => published[i].shot < shot_sequence
        /\ \A t \in Threads : loop[t] = "number" => shot[t] = shot_sequence
        /\ \A t \in Threads : loop[t] = "run" =>
            /\ shot[t] < shot_sequence
            /\ \A i \in 1..Len(published) : IsShot(i) => published[i].shot < shot[t]

IInv == TypeOK /\ InBatch /\ PlaceInv /\ WorkerInv /\ ShotPending /\ ShotIdsIncrease

LEMMA WorkerInvMeansSingle == WorkerInv => SingleWorker
  BY DEF WorkerInv, SingleWorker

\* As long as starts do not overlap a live worker is alone.
LEMMA ThreadsAlone ==
    ASSUME IInv, alive, StartsApart, NEW t \in Threads, live(t), NEW u \in Threads, u # t
    PROVE  ~ live(u)
  BY DEF IInv, WorkerInv

\* A step that is none of a command, and creates no worker.
LEMMA QuietWorkers ==
    ASSUME PlaceInv, WorkerInv, alive' => alive, UNCHANGED <<handler_vars, worker>>,
           \A t \in Threads : live(t)' => live(t)
    PROVE  PlaceInv' /\ WorkerInv'
  <1> USE DEF handler_vars, history_vars
  <1>1. PlaceInv'
    BY DEF PlaceInv
  <1>2. WorkerInv'
    BY DEF WorkerInv, holds, StartsApart
  <1> QED
    BY <1>1, <1>2

\* A step that numbers no shot, lets none pass to the engine, publishes nothing.
LEMMA QuietNumbers ==
    ASSUME ShotPending, ShotIdsIncrease, StartsApart' => StartsApart,
           UNCHANGED <<shot, shot_sequence, published>>,
           \A t \in Threads : loop'[t] \in {"number", "run"} => loop'[t] = loop[t]
    PROVE  ShotPending' /\ ShotIdsIncrease'
  BY DEF ShotPending, ShotIdsIncrease, IsShot

\* What a command does not touch.
LEMMA CommandsPublishNothing ==
    ASSUME TypeOK, NEW h \in Handlers,
           start_check(h) \/ stop_request(h) \/ command_step(h)
    PROVE  /\ UNCHANGED <<local_vars, output_vars, send_errors>>
           /\ \A t \in Threads : loop'[t] = loop[t] \/ (loop[t] = "unborn" /\ loop'[t] = "list" /\ start_spawn(h))
           /\ crossed \subseteq crossed'
           /\ alive
  <1> USE DEF TypeOK, worker_local, handler_vars, history_vars
  <1>1. CASE start_check(h) \/ stop_request(h)
    BY <1>1 DEF start_check, stop_request
  <1>2. CASE check_joinable(h) \/ join_begins(h) \/ join_throws(h) \/ join_returns(h)
    BY <1>2 DEF check_joinable, join_begins, join_throws, join_returns
  <1>3. CASE start_spawn(h)
    BY <1>3 DEF start_spawn
  <1>4. CASE start_arm(h) \/ start_spawn_fails(h) \/ start_assign(h) \/ start_terminates(h) \/ start_store(h)
    BY <1>4 DEF start_arm, start_spawn_fails, start_assign, start_terminates, start_store
  <1>5. CASE stop_finish(h)
    BY <1>5 DEF stop_finish
  <1> QED
    BY <1>1, <1>2, <1>3, <1>4, <1>5 DEF command_step

\* start and stop know their place.
LEMMA CommandsKeepPlace ==
    ASSUME TypeOK, PlaceInv, NEW h \in Handlers,
           start_check(h) \/ stop_request(h) \/ command_step(h)
    PROVE  PlaceInv'
  <1> USE DEF TypeOK, PlaceInv, go, leave, handler_vars, history_vars
  <1>1. CASE start_check(h) \/ stop_request(h)
    BY <1>1 DEF start_check, stop_request
  <1>2. CASE check_joinable(h)
    BY <1>2 DEF check_joinable, after_join
  <1>3. CASE join_begins(h) \/ join_throws(h)
    BY <1>3 DEF join_begins, join_throws
  <1>4. CASE join_returns(h)
    BY <1>4 DEF join_returns, after_join
  <1>5. CASE start_arm(h) \/ start_spawn(h) \/ start_assign(h)
    BY <1>5 DEF start_arm, start_spawn, start_assign
  <1>6. CASE start_spawn_fails(h) \/ start_terminates(h) \/ start_store(h)
    BY <1>6 DEF start_spawn_fails, start_terminates, start_store
  <1>7. CASE stop_finish(h)
    BY <1>7 DEF stop_finish
  <1> QED
    BY <1>1, <1>2, <1>3, <1>4, <1>5, <1>6, <1>7 DEF command_step

\* A step of a command that leaves worker_ and the threads alone, and the
\* handler out of the places where WorkerInv speaks of it.
LEMMA MovesKeepWorkerInv ==
    ASSUME TypeOK, WorkerInv, alive, StartsApart, NEW h \in Handlers, NEW place, NEW c,
           UNCHANGED <<worker, loop, hand>>,
           at[h] \notin {"assign", "store"},
           place \notin {"arm", "spawn", "assign", "store", "joining"},
           at' = [at EXCEPT ![h] = place],
           command' = [command EXCEPT ![h] = c],
           c = "start" => command[h] = "start"
    PROVE  WorkerInv'
  <1> USE DEF TypeOK
  <1>1. /\ at'[h] = place
        /\ \A k \in Handlers : k # h => at'[k] = at[k] /\ command'[k] = command[k]
        /\ \A k \in Handlers : command'[k] = "start" => command[k] = "start"
    OBVIOUS
  <1>2. \A k \in Handlers, t \in Threads : holds(k, t) => holds(k, t)'
    BY <1>1 DEF holds
  <1>3. \A t \in Threads : live(t)' <=> live(t)
    BY DEF live
  <1>4. \A k \in Handlers : at'[k] \in {"arm", "spawn", "assign", "store", "joining"} => at'[k] = at[k]
    BY <1>1
  <1>5. \A h1, k \in Handlers : (command[h1] = "start" /\ command[k] = "start" => h1 = k)'
    BY <1>1 DEF WorkerInv
  <1>6. \A t \in Threads : live(t)' =>
            /\ (worker = t \/ \E k \in Handlers : holds(k, t))'
            /\ \A u \in Threads : live(u)' => u = t
    BY <1>2, <1>3 DEF WorkerInv
  <1> HIDE DEF TypeOK
  <1>7. ASSUME NEW k \in Handlers
        PROVE  /\ at'[k] \in {"arm", "spawn"} => \A t \in Threads : ~ live(t)'
               /\ at'[k] \in {"arm", "spawn", "assign", "store"} => worker' = NoThread
               /\ at'[k] = "joining" => worker' # NoThread /\ hand'[k] = worker'
    BY <1>3, <1>4 DEF WorkerInv
  <1>8. \A h1, k \in Handlers : at'[h1] = "joining" /\ at'[k] = "joining" => h1 = k
    BY <1>4 DEF WorkerInv
  <1> QED
    BY <1>5, <1>6, <1>7, <1>8 DEF WorkerInv

\* start and stop: a start that does not overlap another creates its worker when
\* no other is at work, and worker_ changes only when that harms no worker.
LEMMA CommandsKeepWorkerInv ==
    ASSUME TypeOK, PlaceInv, WorkerInv, NEW h \in Handlers,
           start_check(h) \/ stop_request(h) \/ command_step(h)
    PROVE  WorkerInv'
  <1> SUFFICES ASSUME alive', StartsApart' PROVE WorkerInv'
    BY DEF WorkerInv
  <1>0. /\ alive /\ StartsApart
        /\ TypeOK
    BY CommandsPublishNothing DEF StartsApart
  <1> USE <1>0 DEF TypeOK, WorkerInv, holds, live, worker_local, go, leave, take, history_vars
  <1>1. CASE start_check(h)
    <2>1. \A k \in Handlers : command[k] # "start"
      BY <1>1 DEF start_check, StartsApart
    <2> QED
      BY <1>1, <2>1 DEF start_check
  <1>2. CASE stop_request(h)
    <2>1. /\ at[h] = "idle" /\ at' = [at EXCEPT ![h] = "joinable"]
          /\ command' = [command EXCEPT ![h] = "stop"]
          /\ UNCHANGED <<worker, loop, hand>>
      BY <1>2 DEF stop_request
    <2> QED
      BY <2>1, MovesKeepWorkerInv
  <1>3. CASE check_joinable(h)
    <2>0. at[h] = "joinable" /\ UNCHANGED <<worker, loop, hand, command>>
      BY <1>3 DEF check_joinable
    <2>1. CASE joinable
      <3>1. at' = [at EXCEPT ![h] = "join"] /\ command' = [command EXCEPT ![h] = command[h]]
        BY <1>3, <2>0, <2>1 DEF check_joinable
      <3> QED
        BY <2>0, <3>1, MovesKeepWorkerInv
    <2>2. CASE ~ joinable
      <3>1. worker = NoThread /\ \A k \in Handlers : at[k] # "joining"
        BY <2>2 DEF joinable
      <3>2. CASE command[h] = "start"
        <4>1. \A k \in Handlers : at[k] \notin {"arm", "spawn", "assign", "store"}
          BY <2>0, <3>2 DEF PlaceInv
        <4>2. \A t \in Threads : ~ live(t)
          BY <3>1, <4>1
        <4>3. at' = [at EXCEPT ![h] = "arm"]
          BY <1>3, <2>2, <3>2 DEF check_joinable, after_join
        <4> QED
          BY <2>0, <3>1, <4>1, <4>2, <4>3
      <3>3. CASE command[h] # "start"
        <4>1. at' = [at EXCEPT ![h] = "finish"] /\ command' = [command EXCEPT ![h] = command[h]]
          BY <1>3, <2>0, <2>2, <3>3 DEF check_joinable, after_join
        <4> QED
          BY <2>0, <4>1, MovesKeepWorkerInv
      <3> QED
        BY <3>2, <3>3
    <2> QED
      BY <2>1, <2>2
  <1>4. CASE join_begins(h)
    <2>1. worker # NoThread /\ \A k \in Handlers : at[k] # "joining"
      BY <1>4 DEF join_begins, join_refused, joinable
    <2> QED
      BY <1>4, <2>1 DEF join_begins
  <1>5. CASE join_throws(h)
    <2>1. /\ at[h] = "join" /\ at' = [at EXCEPT ![h] = "idle"]
          /\ command' = [command EXCEPT ![h] = "none"]
          /\ UNCHANGED <<worker, loop, hand>>
      BY <1>5 DEF join_throws
    <2> QED
      BY <2>1, MovesKeepWorkerInv
  <1>6. CASE join_returns(h)
    <2>1. /\ \A t \in Threads : ~ live(t)
          /\ \A k \in Handlers : k # h => at[k] # "joining"
      <3>1. /\ hand[h] = worker /\ worker # NoThread
            /\ \A t \in Threads : t = hand[h] => ~ live(t)
            /\ \A k \in Handlers : at[k] \notin {"assign", "store"}
        BY <1>6 DEF join_returns
      <3> QED
        BY <1>6, <3>1 DEF join_returns
    <2> QED
      BY <1>6, <2>1 DEF join_returns, after_join
  <1>7. CASE start_arm(h)
    BY <1>7 DEF start_arm
  <1>8. CASE start_spawn(h)
    <2>1. PICK u \in Threads : hand' = [hand EXCEPT ![h] = u] /\ loop' = [loop EXCEPT ![u] = "list"]
      BY <1>8 DEF start_spawn
    <2>2. /\ \A t \in Threads : ~ live(t)
          /\ worker = NoThread /\ at[h] = "spawn"
          /\ command[h] = "start"
      BY <1>8 DEF start_spawn, PlaceInv
    <2>3. \A t \in Threads : live(t)' => t = u
      BY <2>1, <2>2
    <2>4. holds(h, u)'
      BY <1>8, <2>1 DEF start_spawn
    <2>5. \A k \in Handlers : k # h => at'[k] \notin {"arm", "spawn"}
      BY <1>8, <2>2 DEF start_spawn, PlaceInv
    <2>6. at'[h] = "assign" /\ UNCHANGED <<worker, command>> /\ \A k \in Handlers : k # h => at'[k] = at[k] /\ hand'[k] = hand[k]
      BY <1>8, <2>1 DEF start_spawn
    <2>7. \A k \in Handlers : at[k] # "joining"
      BY <2>2
    <2> QED
      BY <2>2, <2>3, <2>4, <2>5, <2>6, <2>7
  <1>9. CASE start_spawn_fails(h)
    BY <1>9 DEF start_spawn_fails
  <1>10. CASE start_assign(h)
    BY <1>10 DEF start_assign
  <1>11. CASE start_store(h)
    <2>1. /\ command[h] = "start"
          /\ \A k \in Handlers : k # h => at[k] \notin {"arm", "spawn", "assign", "store"}
          /\ \A k \in Handlers : at[k] # "joining"
          /\ worker = NoThread
      BY <1>11 DEF start_store, PlaceInv
    <2>2. /\ worker' = hand[h] /\ UNCHANGED loop
          /\ at' = [at EXCEPT ![h] = "idle"] /\ command' = [command EXCEPT ![h] = "none"]
      BY <1>11 DEF start_store
    <2>3. \A t \in Threads : live(t) => t = hand[h]
      BY <2>1
    <2> QED
      BY <2>1, <2>2, <2>3
  <1>12. CASE start_terminates(h)
    BY <1>12 DEF start_terminates
  <1>13. CASE stop_finish(h)
    <2>1. /\ at[h] = "finish" /\ at' = [at EXCEPT ![h] = "idle"]
          /\ command' = [command EXCEPT ![h] = "none"]
          /\ UNCHANGED <<worker, loop, hand>>
      BY <1>13 DEF stop_finish
    <2> QED
      BY <2>1, MovesKeepWorkerInv
  <1> QED
    BY <1>1, <1>2, <1>3, <1>4, <1>5, <1>6, <1>7, <1>8, <1>9, <1>10, <1>11, <1>12, <1>13
       DEF command_step

\* start and stop.
LEMMA CommandsKeepWorker ==
    ASSUME IInv, NEW h \in Handlers,
           start_check(h) \/ stop_request(h) \/ command_step(h)
    PROVE  IInv'
  <1>1. TypeOK' /\ InBatch'
    BY CommandsKeepTypes DEF IInv
  <1>2. PlaceInv' /\ WorkerInv'
    BY CommandsKeepPlace, CommandsKeepWorkerInv DEF IInv
  <1>3. /\ UNCHANGED <<shot, shot_sequence, published>>
        /\ StartsApart' => StartsApart
        /\ \A t \in Threads : loop'[t] \in {"number", "run"} => loop'[t] = loop[t]
    BY CommandsPublishNothing DEF IInv, local_vars, output_vars, StartsApart
  <1>4. ShotPending' /\ ShotIdsIncrease'
    BY <1>3, QuietNumbers DEF IInv
  <1> QED
    BY <1>1, <1>2, <1>4 DEF IInv

\* calibrate and the callback start no thread and number no shot.
LEMMA OthersKeepWorker ==
    ASSUME IInv,
           \/ \E h \in Handlers :
                calibrate_rejected(h) \/ \E camera \in Cameras : calibrate_accepted(h, camera)
           \/ error_callback
           \/ UNCHANGED vars
    PROVE  IInv'
  <1>1. TypeOK' /\ InBatch'
    BY OthersKeepTypes DEF IInv
  <1>2. UNCHANGED <<shot, shot_sequence, published, loop, handler_vars, worker, alive>>
    BY DEF calibrate_rejected, calibrate_accepted, error_callback, vars, worker_local, local_vars, output_vars
  <1>3. PlaceInv' /\ WorkerInv'
    BY <1>2, QuietWorkers DEF IInv, live
  <1>4. ShotPending' /\ ShotIdsIncrease'
    BY <1>2, QuietNumbers DEF IInv, StartsApart, handler_vars, history_vars
  <1> QED
    BY <1>1, <1>3, <1>4 DEF IInv

\* The worker that publishes is the only one, so its number is still the largest.
LEMMA PublishKeepsNumbers ==
    ASSUME IInv, NEW t \in Threads, NEW scenario, NEW what, NEW is_late,
           publish(t, scenario, what, is_late), UNCHANGED <<shot, shot_sequence, crossed>>,
           published' \in Seq(Entry),
           loop[t] = "run" \/ what \notin ShotEvents,
           StartsApart => \A u \in Threads : loop'[u] \notin {"number", "run"}
    PROVE  ShotPending' /\ ShotIdsIncrease'
  <1> SUFFICES ASSUME StartsApart PROVE ShotPending' /\ ShotIdsIncrease'
    BY DEF ShotPending, ShotIdsIncrease, StartsApart
  <1>0. PICK n \in Nat : n = Len(published)
    BY DEF IInv, TypeOK
  <1>1. /\ Len(published') = n + 1
        /\ \A i \in 1..n : published'[i] = published[i]
        /\ published'[n + 1].event = what /\ published'[n + 1].shot = shot[t]
    BY <1>0 DEF publish, IInv, TypeOK
  <1>2. \A i \in 1..n : IsShot(i)' <=> IsShot(i)
    BY <1>1 DEF IsShot
  <1>3. IsShot(n + 1)' => loop[t] = "run"
    BY <1>1 DEF IsShot
  <1>4. \A i \in 1..Len(published') : IsShot(i)' => published'[i].shot < shot_sequence'
    BY <1>0, <1>1, <1>2, <1>3 DEF IInv, ShotPending
  <1>5. ShotIdsIncrease'
    <2> SUFFICES ASSUME NEW i \in 1..(n + 1), NEW j \in 1..(n + 1), i < j, IsShot(i)', IsShot(j)'
                 PROVE  published'[i].shot < published'[j].shot
      BY <1>1 DEF ShotIdsIncrease
    <2>1. i \in 1..n /\ IsShot(i)
      <3>1. i \in 1..n
        BY <1>0
      <3> QED
        BY <1>2, <3>1
    <2>2. CASE j \in 1..n
      BY <1>0, <1>1, <1>2, <2>1, <2>2 DEF IInv, ShotIdsIncrease
    <2>3. CASE j = n + 1
      BY <1>0, <1>1, <1>3, <2>1, <2>3 DEF IInv, ShotPending
    <2> QED
      BY <1>1, <2>2, <2>3
  <1> QED
    BY <1>4, <1>5 DEF ShotPending

\* What every step of a worker leaves alone.
LEMMA WorkerStepsAlone ==
    ASSUME TypeOK, NEW t \in Threads, worker_loop(t)
    PROVE  /\ alive /\ alive' /\ live(t)
           /\ UNCHANGED <<handler_vars, worker, stop_requested, send_errors>>
           /\ \A u \in Threads : u # t => loop'[u] = loop[u] /\ index'[u] = index[u] /\ shot'[u] = shot[u]
           /\ loop'[t] # "unborn"
  <1> USE DEF local_vars, output_vars, advance, live, TypeOK
  <1>1. CASE list_scenarios(t) \/ throws(t) \/ for_each_scenario(t) \/ load_scenario(t)
    BY <1>1 DEF list_scenarios, throws, for_each_scenario, load_scenario
  <1>2. CASE read_shot_sequence(t) \/ set_options(t)
    BY <1>2 DEF read_shot_sequence, set_options
  <1>3. CASE run_scenario(t) \/ note_calibration(t)
    BY <1>3 DEF run_scenario, note_calibration
  <1>4. CASE finish_batch(t) \/ publish_failure(t) \/ record_failure(t)
    BY <1>4 DEF finish_batch, publish_failure, record_failure
  <1> QED
    BY <1>1, <1>2, <1>3, <1>4 DEF worker_loop

\* The worker draws the numbers of its shots alone, each larger than the last.
LEMMA WorkerKeepsWorker ==
    ASSUME IInv, NEW t \in Threads, worker_loop(t)
    PROVE  IInv'
  <1> USE DEF local_vars, output_vars, advance
  <1>1. TypeOK' /\ InBatch'
    BY WorkerKeepsTypes DEF IInv
  <1>2. /\ alive /\ alive' /\ live(t)
        /\ UNCHANGED <<handler_vars, worker>>
        /\ \A u \in Threads : u # t => loop'[u] = loop[u]
    BY WorkerStepsAlone DEF IInv
  <1>3. PlaceInv' /\ WorkerInv'
    BY <1>2, QuietWorkers DEF IInv, live
  <1>4. StartsApart => \A u \in Threads : u # t => loop'[u] \notin {"number", "run"} /\ loop[u] \notin {"number", "run"}
    BY <1>2, ThreadsAlone DEF live
  <1>5. StartsApart' = StartsApart /\ crossed' = crossed
    BY <1>2 DEF StartsApart, handler_vars, history_vars
  <1>6. CASE read_shot_sequence(t)
    <2>1. /\ shot'[t] = shot_sequence /\ loop'[t] = "number"
          /\ UNCHANGED <<shot_sequence, published>>
          /\ \A u \in Threads : u # t => shot'[u] = shot[u]
      BY <1>6 DEF read_shot_sequence, IInv, TypeOK
    <2>2. ShotPending'
      BY <1>4, <1>5, <2>1 DEF IInv, ShotPending, IsShot
    <2>3. ShotIdsIncrease'
      BY <1>5, <2>1 DEF IInv, ShotIdsIncrease, IsShot
    <2> QED
      BY <1>1, <1>3, <2>2, <2>3 DEF IInv
  <1>7. CASE set_options(t)
    <2>1. /\ loop[t] = "number" /\ loop'[t] = "run"
          /\ shot_sequence' = shot[t] + 1
          /\ shot[t] \in Nat
          /\ UNCHANGED <<shot, published>>
      BY <1>7 DEF set_options, next_shot, IInv, TypeOK
    <2>2. StartsApart => shot[t] = shot_sequence
      BY <2>1 DEF IInv, ShotPending
    <2>3. \A i \in 1..Len(published) : published[i].shot \in Nat
      <3>1. published \in Seq(Entry)
        BY DEF IInv, TypeOK
      <3>2. ASSUME NEW i \in 1..Len(published) PROVE published[i] \in Entry
        BY <3>1, ElementOfSeq
      <3> QED
        BY <3>2 DEF Entry
    <2>4. ShotPending'
      <3> SUFFICES ASSUME StartsApart PROVE ShotPending'
        BY <1>5 DEF ShotPending
      <3>1. \A i \in 1..Len(published) : IsShot(i) => published[i].shot < shot[t]
        BY <2>2 DEF IInv, ShotPending
      <3>2. \A i \in 1..Len(published) : IsShot(i)' <=> IsShot(i)
        BY <2>1 DEF IsShot
      <3> QED
        BY <1>4, <2>1, <2>3, <3>1, <3>2 DEF ShotPending
    <2>5. ShotIdsIncrease'
      BY <1>5, <2>1 DEF IInv, ShotIdsIncrease, IsShot
    <2> QED
      BY <1>1, <1>3, <2>4, <2>5 DEF IInv
  <1>8. CASE run_scenario(t)
    <2>1. loop[t] = "run" /\ loop'[t] = "note" /\ UNCHANGED <<shot, shot_sequence>>
      BY <1>8 DEF run_scenario, IInv, TypeOK
    <2>2. StartsApart => \A u \in Threads : loop'[u] \notin {"number", "run"}
      BY <1>4, <2>1
    <2>3. ShotPending' /\ ShotIdsIncrease'
      BY <1>1, <1>5, <1>8, <2>1, <2>2, PublishKeepsNumbers DEF run_scenario, TypeOK
    <2> QED
      BY <1>1, <1>3, <2>3 DEF IInv
  <1>9. CASE publish_failure(t)
    <2>1. loop'[t] = "record" /\ UNCHANGED <<shot, shot_sequence>>
      BY <1>9 DEF publish_failure, IInv, TypeOK
    <2>2. StartsApart => \A u \in Threads : loop'[u] \notin {"number", "run"}
      BY <1>4, <2>1
    <2>3. ShotPending' /\ ShotIdsIncrease'
      BY <1>1, <1>5, <1>9, <2>1, <2>2, PublishKeepsNumbers DEF publish_failure, TypeOK, ShotEvents
    <2> QED
      BY <1>1, <1>3, <2>3 DEF IInv
  <1>10. CASE \/ list_scenarios(t) \/ throws(t) \/ for_each_scenario(t) \/ load_scenario(t)
              \/ note_calibration(t) \/ finish_batch(t) \/ record_failure(t)
    <2>1. UNCHANGED <<shot, shot_sequence, published>> /\ loop'[t] \notin {"number", "run"}
      BY <1>10 DEF list_scenarios, throws, for_each_scenario, load_scenario, note_calibration,
                   finish_batch, record_failure, IInv, TypeOK
    <2>2. ShotPending' /\ ShotIdsIncrease'
      BY <1>2, <1>5, <2>1, QuietNumbers DEF IInv
    <2> QED
      BY <1>1, <1>3, <2>2 DEF IInv
  <1> QED
    BY <1>6, <1>7, <1>8, <1>9, <1>10 DEF worker_loop

\* A service that was just built.
LEMMA InitInv == Init => IInv
  <1> SUFFICES ASSUME Init PROVE IInv
    OBVIOUS
  <1>1. PlaceInv /\ WorkerInv
    BY DEF Init, PlaceInv, WorkerInv, live
  <1>2. ShotPending /\ ShotIdsIncrease
    BY DEF Init, ShotPending, ShotIdsIncrease
  <1> QED
    BY <1>1, <1>2, TypeInit DEF IInv

\* The strengthened invariant is inductive.
LEMMA Inductive == Spec => []IInv
  <1>1. IInv /\ [Next]_vars => IInv'
    BY CommandsKeepWorker, WorkerKeepsWorker, OthersKeepWorker DEF Next
  <1> QED
    BY <1>1, InitInv, PTL DEF Spec

(* As long as starts do not overlap, and whatever else does, at most one     *)
(* worker is alive, and worker_ or the start that created it denotes it. (A  *)
(* start past its join finds no worker, from the test to the store.)         *)
THEOREM OneWorkerAtATime == Spec => []SingleWorker
  <1>1. IInv => SingleWorker
    BY WorkerInvMeansSingle DEF IInv
  <1> QED
    BY <1>1, Inductive, PTL

(* As long as starts do not overlap, shots reach the publisher with strictly *)
(* increasing numbers although shot_sequence_ is read and written back       *)
(* without a lock, for any stops, batches and restarts of the worker.        *)
THEOREM ShotIdsAreUnique == Spec => []ShotIdsIncrease
  <1>1. IInv => ShotIdsIncrease
    BY DEF IInv
  <1> QED
    BY <1>1, Inductive, PTL

\* Every step of the controller.
LEMMA StepKeepsAlive ==
    ASSUME IInv, OnlyOverlappingStartsTerminate, [Next]_vars
    PROVE  OnlyOverlappingStartsTerminate'
  <1> SUFFICES ASSUME StartsApart' PROVE alive'
    BY DEF OnlyOverlappingStartsTerminate
  <1>1. ASSUME NEW h \in Handlers, start_check(h) \/ stop_request(h) \/ command_step(h)
        PROVE  alive'
    <2>1. alive /\ StartsApart
      BY <1>1, CommandsPublishNothing DEF IInv, StartsApart
    <2>2. ~ start_terminates(h)
      BY <2>1 DEF start_terminates, handle_taken, IInv, WorkerInv
    <2> QED
      BY <1>1, <2>1, <2>2
         DEF start_check, stop_request, command_step, check_joinable, join_begins, join_throws,
             join_returns, start_arm, start_spawn, start_spawn_fails, start_assign, start_store,
             stop_finish
  <1>2. ASSUME NEW t \in Threads, worker_loop(t) PROVE alive'
    BY <1>2, WorkerStepsAlone DEF IInv
  <1>3. CASE \/ \E h \in Handlers :
                  calibrate_rejected(h) \/ \E camera \in Cameras : calibrate_accepted(h, camera)
             \/ error_callback
             \/ UNCHANGED vars
    BY <1>3 DEF calibrate_rejected, calibrate_accepted, error_callback, vars, handler_vars, history_vars,
         StartsApart, OnlyOverlappingStartsTerminate
  <1> QED
    BY <1>1, <1>2, <1>3 DEF Next

(* Only two starts that overlap make the assignment to worker_ end the       *)
(* process: any other start finds worker_ empty when it assigns.             *)
THEOREM OverlappingStartsTerminate == Spec => []OnlyOverlappingStartsTerminate
  <1>1. IInv /\ OnlyOverlappingStartsTerminate /\ [Next]_vars => OnlyOverlappingStartsTerminate'
    BY StepKeepsAlive
  <1>2. Init => OnlyOverlappingStartsTerminate
    BY DEF Init, OnlyOverlappingStartsTerminate
  <1> QED
    BY <1>1, <1>2, Inductive, PTL DEF Spec
-----------------------------------------------------------------------------
(* Overrides and the events that come too late for them.                      *)

\* Once a complaint came after the camera's override, the override is there for
\* every scenario whose options its worker reads from then on, and for every
\* scenario at all as long as starts do not overlap.
OverrideHolds(camera) ==
    /\ LateRequests(camera) # {} => camera \in overrides
    /\ \A i \in LateRequests(camera), t \in Threads :
        /\ loop[t] = "run" /\ Facts[Batch[index[t]]].camera = camera
        /\ published[i].by = t \/ StartsApart
        => overridden[t]

OverrideInv == CalibrationTakesEffect /\ \A camera \in Cameras : OverrideHolds(camera)

\* A step that publishes no engine event and sends no scenario to the engine.
LEMMA QuietOverrides ==
    ASSUME OverrideInv, \A camera \in Cameras : LateRequests(camera)' = LateRequests(camera),
           \A camera \in Cameras : \A i \in LateRequests(camera) : published'[i] = published[i],
           overrides \subseteq overrides', StartsApart' => StartsApart,
           \A t \in Threads : loop'[t] = "run" =>
                \/ loop[t] = "run" /\ index'[t] = index[t] /\ overridden'[t] = overridden[t]
                \/ overridden'[t] <=> Facts[Batch[index'[t]]].camera \in overrides
    PROVE  OverrideInv'
  <1>1. CalibrationTakesEffect'
    BY DEF OverrideInv, CalibrationTakesEffect
  <1>2. ASSUME NEW camera \in Cameras PROVE OverrideHolds(camera)'
    <2>1. OverrideHolds(camera)
      BY DEF OverrideInv
    <2> QED
      BY <2>1 DEF OverrideHolds
  <1> QED
    BY <1>1, <1>2 DEF OverrideInv

\* Nothing is published.
LEMMA SilentOverrides ==
    ASSUME published' = published
    PROVE  /\ \A camera \in Cameras : LateRequests(camera)' = LateRequests(camera)
           /\ \A camera \in Cameras : \A i \in LateRequests(camera) : published'[i] = published[i]
  BY DEF LateRequests, Complains

\* An event of a scenario that was overridden is no complaint.
LEMMA OverriddenIsNoComplaint ==
    ASSUME NEW s, NEW o, o.overridden
    PROVE  actual_event(s, o) \notin {"calibration_required", "calibration_load_failure"}
  BY DEF actual_event, calibration_outcome, shot_event

\* A worker publishes: if its event is late it is the worker's first, and the
\* first of all as long as the worker is alone.
LEMMA RunKeepsOverrides ==
    ASSUME IInv, OverrideInv, NEW t \in Threads, run_scenario(t)
    PROVE  OverrideInv'
  <1> DEFINE s == Batch[index[t]]
             result == actual_event(s, options(t))
             x == [by |-> t, scenario |-> s, event |-> result, shot |-> shot[t],
                   late |-> (Facts[s].camera \in overrides), stopping |-> Stopping]
  <1>1. PICK n \in Nat : n = Len(published)
    BY DEF IInv, TypeOK
  <1>2. /\ loop[t] = "run" /\ overrides' = overrides
        /\ published' = Append(published, x)
        /\ UNCHANGED <<crossed, index, overridden>>
        /\ loop'[t] # "run" /\ \A u \in Threads : u # t => loop'[u] = loop[u]
    BY DEF run_scenario, publish, calibration_vars, advance, IInv, TypeOK, handler_vars, history_vars
  <1>3. StartsApart => \A u \in Threads : u # t => loop[u] # "run"
    <2>1. alive /\ live(t)
      BY <1>2 DEF run_scenario, live
    <2> QED
      BY <2>1, ThreadsAlone DEF live
  <1>4. /\ x.late <=> Facts[s].camera \in overrides
        /\ x.event = result /\ x.scenario = s /\ x.by = t
    OBVIOUS
  <1> HIDE DEF x, result
  <1>5. /\ Len(published') = n + 1
        /\ \A i \in 1..n : published'[i] = published[i]
        /\ published'[n + 1] = x
    BY <1>1, <1>2 DEF IInv, TypeOK
  <1>6. StartsApart' <=> StartsApart
    BY <1>2 DEF StartsApart
  <1> DEFINE complains(camera) == /\ Facts[s].camera \in overrides
                                  /\ result \in {"calibration_required", "calibration_load_failure"}
                                  /\ Facts[s].camera = camera
  <1>7. ASSUME NEW camera \in Cameras
        PROVE  /\ LateRequests(camera)' = LateRequests(camera) \cup (IF complains(camera) THEN {n + 1} ELSE {})
               /\ LateRequests(camera) \subseteq 1..n
    BY <1>1, <1>4, <1>5 DEF LateRequests, Complains
  <1>8. ASSUME NEW camera \in Cameras, complains(camera), NEW i \in LateRequests(camera)
        PROVE  published[i].by # t /\ ~ StartsApart
    <2>1. ~ overridden[t]
      <3>1. ~ options(t).overridden
        BY <1>8, OverriddenIsNoComplaint DEF result
      <3> QED
        BY <3>1 DEF options
    <2>2. OverrideHolds(camera)
      BY DEF OverrideInv
    <2> QED
      BY <1>2, <1>8, <2>1, <2>2 DEF OverrideHolds
  <1> HIDE DEF s
  <1>9. CalibrationTakesEffect'
    <2> SUFFICES ASSUME NEW camera \in Cameras, NEW i \in LateRequests(camera)', NEW j \in LateRequests(camera)'
                 PROVE  i = j \/ (published'[i].by # published'[j].by /\ ~ StartsApart)
      BY <1>6 DEF CalibrationTakesEffect
    <2>0. LateRequests(camera) \subseteq 1..n
      BY <1>7
    <2>1. CASE i \in LateRequests(camera) /\ j \in LateRequests(camera)
      <3>1. i = j \/ (published[i].by # published[j].by /\ ~ StartsApart)
        BY <2>1 DEF OverrideInv, CalibrationTakesEffect
      <3>2. published'[i] = published[i] /\ published'[j] = published[j]
        BY <1>5, <2>0, <2>1
      <3> QED
        BY <3>1, <3>2
    <2>2. ASSUME NEW k \in LateRequests(camera), complains(camera)
          PROVE  published'[k].by # published'[n + 1].by /\ ~ StartsApart
      <3>1. published'[k] = published[k]
        BY <1>5, <2>0
      <3> QED
        BY <1>4, <1>5, <1>8, <2>2, <3>1
    <2> HIDE DEF complains
    <2> QED
      BY <1>7, <2>1, <2>2
  <1>10. ASSUME NEW camera \in Cameras PROVE OverrideHolds(camera)'
    <2>1. OverrideHolds(camera)
      BY DEF OverrideInv
    <2>2. LateRequests(camera)' # {} => camera \in overrides'
      BY <1>2, <1>7, <2>1 DEF OverrideHolds
    <2>3. ASSUME NEW i \in LateRequests(camera)', NEW u \in Threads,
                 loop'[u] = "run", Facts[Batch[index'[u]]].camera = camera,
                 published'[i].by = u \/ StartsApart'
          PROVE  overridden'[u]
      <3>1. u # t /\ loop[u] = "run" /\ ~ StartsApart /\ published'[i].by = u
        BY <1>2, <1>3, <1>6, <2>3
      <3>2. i \in LateRequests(camera)
        BY <1>4, <1>5, <1>7, <3>1
      <3>3. published[i].by = u
        BY <1>5, <1>7, <3>1, <3>2
      <3> QED
        BY <1>2, <2>1, <2>3, <3>1, <3>2, <3>3 DEF OverrideHolds
    <2> QED
      BY <2>2, <2>3 DEF OverrideHolds
  <1> QED
    BY <1>9, <1>10 DEF OverrideInv

\* Every step of the controller.
LEMMA StepKeepsOverrides ==
    ASSUME IInv, OverrideInv, [Next]_vars
    PROVE  OverrideInv'
  <1> USE DEF worker_local, local_vars, output_vars, calibration_vars, advance
  <1>1. ASSUME NEW h \in Handlers, start_check(h) \/ stop_request(h) \/ command_step(h)
        PROVE  OverrideInv'
    <2>1. /\ UNCHANGED <<published, index, overridden>>
          /\ \A t \in Threads : loop'[t] = "run" => loop[t] = "run"
          /\ StartsApart' => StartsApart
      BY <1>1, CommandsPublishNothing DEF IInv, StartsApart
    <2>2. overrides' = overrides
      BY <1>1 DEF start_check, stop_request, command_step, check_joinable, join_begins, join_throws,
                  join_returns, start_arm, start_spawn, start_spawn_fails, start_assign,
                  start_terminates, start_store, stop_finish
    <2> QED
      BY <2>1, <2>2, SilentOverrides, QuietOverrides
  <1>2. CASE \/ \E h \in Handlers :
                  calibrate_rejected(h) \/ \E camera \in Cameras : calibrate_accepted(h, camera)
             \/ error_callback
             \/ UNCHANGED vars
    <2>1. UNCHANGED <<published, loop, index, overridden, crossed>> /\ overrides \subseteq overrides'
      BY <1>2 DEF calibrate_rejected, calibrate_accepted, error_callback, vars, handler_vars, history_vars
    <2> QED
      BY <2>1, SilentOverrides, QuietOverrides DEF StartsApart
  <1>3. ASSUME NEW t \in Threads, worker_loop(t) PROVE OverrideInv'
    <2>0. StartsApart' => StartsApart
      BY <1>3, WorkerStepsAlone DEF IInv, handler_vars, history_vars, StartsApart
    <2>1. CASE set_options(t)
      <3>1. /\ UNCHANGED <<published, overrides, index>>
            /\ overridden' = [overridden EXCEPT ![t] = Facts[Batch[index[t]]].camera \in overrides]
            /\ loop' = [loop EXCEPT ![t] = "run"]
        BY <2>1 DEF set_options, find_override
      <3>2. \A u \in Threads : loop'[u] = "run" =>
                \/ loop[u] = "run" /\ index'[u] = index[u] /\ overridden'[u] = overridden[u]
                \/ overridden'[u] <=> Facts[Batch[index'[u]]].camera \in overrides
        BY <3>1 DEF IInv, TypeOK
      <3> QED
        BY <2>0, <3>1, <3>2, SilentOverrides, QuietOverrides
    <2>2. CASE run_scenario(t)
      BY <2>2, RunKeepsOverrides
    <2>3. CASE publish_failure(t)
      <3>1. /\ published' = Append(published, [by |-> t, scenario |-> NoScenario,
                    event |-> "offline_worker_failure", shot |-> shot[t], late |-> FALSE,
                    stopping |-> Stopping])
            /\ UNCHANGED <<overrides, index, overridden>>
            /\ \A u \in Threads : loop'[u] = "run" => loop[u] = "run"
        BY <2>3 DEF publish_failure, publish, IInv, TypeOK
      <3>2. published \in Seq(Entry)
        BY DEF IInv, TypeOK
      <3>3. \A camera \in Cameras : LateRequests(camera)' = LateRequests(camera)
        BY <3>1, <3>2 DEF LateRequests, Complains
      <3>4. \A camera \in Cameras : \A i \in LateRequests(camera) : published'[i] = published[i]
        BY <3>1, <3>2 DEF LateRequests
      <3> QED
        BY <2>0, <3>1, <3>3, <3>4, QuietOverrides
    <2>4. CASE \/ list_scenarios(t) \/ throws(t) \/ for_each_scenario(t) \/ load_scenario(t)
               \/ read_shot_sequence(t) \/ note_calibration(t) \/ finish_batch(t) \/ record_failure(t)
      <3>1. /\ UNCHANGED <<published, overrides, overridden>>
            /\ \A u \in Threads : loop'[u] = "run" => loop[u] = "run" /\ index'[u] = index[u]
        BY <2>4 DEF list_scenarios, throws, for_each_scenario, load_scenario, read_shot_sequence,
                    note_calibration, finish_batch, record_failure, IInv, TypeOK
      <3> QED
        BY <2>0, <3>1, SilentOverrides, QuietOverrides
    <2> QED
      BY <1>3, <2>1, <2>2, <2>3, <2>4 DEF worker_loop
  <1> QED
    BY <1>1, <1>2, <1>3 DEF Next

(* Once a calibrate command for a camera was accepted, each worker complains *)
(* at most once more about that camera's calibration, and only one worker    *)
(* does as long as starts do not overlap: a worker reads the override once   *)
(* for each scenario, before the engine runs.                                *)
THEOREM CalibrationsTakeEffect == Spec => []CalibrationTakesEffect
  <1>1. Init => OverrideInv
    <2> SUFFICES ASSUME Init PROVE OverrideInv
      OBVIOUS
    <2>1. \A camera \in Cameras : LateRequests(camera) = {}
      BY DEF Init, LateRequests
    <2> QED
      BY <2>1 DEF OverrideInv, OverrideHolds, CalibrationTakesEffect
  <1>2. IInv /\ OverrideInv /\ [Next]_vars => OverrideInv'
    BY StepKeepsOverrides
  <1>3. OverrideInv => CalibrationTakesEffect
    BY DEF OverrideInv
  <1> QED
    BY <1>1, <1>2, <1>3, Inductive, PTL DEF Spec

\* A worker that is about to note an event has published it last.
EventPending ==
    StartsApart =>
        \A t \in Threads : loop[t] = "note" =>
            Len(published) # 0 /\ event[t] = published[Len(published)].event

EarnedInv == EventPending /\ CalibrationLoadedIsEarned

\* Nothing is published or noted.
LEMMA QuietEarned ==
    ASSUME EarnedInv, UNCHANGED <<published, event, calibration_vars>>, StartsApart' => StartsApart,
           \A t \in Threads : loop'[t] = "note" <=> loop[t] = "note"
    PROVE  EarnedInv'
  BY DEF EarnedInv, EventPending, CalibrationLoadedIsEarned, LastNoted, Complains, calibration_vars

\* An event is published; the scenario noted last is still the same.
LEMMA PublishKeepsLast ==
    ASSUME IInv, StartsApart, NEW t \in Threads, run_scenario(t) \/ publish_failure(t)
    PROVE  /\ {i \in 1..Len(published) : LastNoted(i)}' = {i \in 1..Len(published) : LastNoted(i)}
           /\ \A i \in 1..Len(published) : Complains(i)' <=> Complains(i)
           /\ UNCHANGED calibration_vars
           /\ \A u \in Threads : loop'[u] = "note" =>
                run_scenario(t) /\ u = t /\ Len(published') # 0
                  /\ event'[t] = published'[Len(published')].event
  <1> DEFINE result == actual_event(Batch[index[t]], options(t))
             what == IF run_scenario(t) THEN result ELSE "offline_worker_failure"
  <1>1. PICK n \in Nat : n = Len(published)
    BY DEF IInv, TypeOK
  <1>2. /\ alive /\ live(t)
        /\ \A u \in Threads : u # t => loop'[u] = loop[u]
        /\ UNCHANGED calibration_vars
        /\ loop'[t] = IF run_scenario(t) THEN "note" ELSE "record"
        /\ loop[t] # "note"
        /\ run_scenario(t) => event'[t] = result
    BY DEF run_scenario, publish_failure, advance, live, IInv, TypeOK
  <1>3. \A u \in Threads : u # t => ~ live(u)
    BY <1>2, ThreadsAlone
  <1>4. \E x : published' = Append(published, x) /\ x.event = what
    BY DEF run_scenario, publish_failure, publish
  <1> HIDE DEF result
  <1>5. /\ Len(published') = n + 1
        /\ \A i \in 1..n : published'[i] = published[i]
        /\ published'[n + 1].event = what
    BY <1>1, <1>4 DEF IInv, TypeOK
  <1>6. (\E u \in Threads : loop'[u] = "note") \/ what \notin EngineEvents
    BY <1>2 DEF EngineEvents, ShotEvents
  <1>7. \A u \in Threads : loop[u] # "note"
    BY <1>2, <1>3 DEF live
  <1> HIDE DEF what
  <1>8. \A i \in 1..n : LastNoted(i)' <=> LastNoted(i)
    BY <1>1, <1>5, <1>6, <1>7 DEF LastNoted
  <1>9. ~ LastNoted(n + 1)'
    BY <1>5, <1>6 DEF LastNoted
  <1>10. {i \in 1..Len(published) : LastNoted(i)}' = {i \in 1..Len(published) : LastNoted(i)}
    BY <1>1, <1>5, <1>8, <1>9
  <1>11. \A i \in 1..Len(published) : Complains(i)' <=> Complains(i)
    BY <1>1, <1>5 DEF Complains
  <1>12. ASSUME NEW u \in Threads, loop'[u] = "note"
         PROVE  run_scenario(t) /\ u = t /\ Len(published') # 0
                  /\ event'[t] = published'[Len(published')].event
    <2>1. u = t /\ run_scenario(t)
      BY <1>2, <1>7, <1>12
    <2> QED
      BY <1>1, <1>2, <1>5, <2>1 DEF what
  <1> QED
    BY <1>2, <1>10, <1>11, <1>12

\* The worker notes the event it published last.
LEMMA NoteKeepsEarned ==
    ASSUME IInv, EarnedInv, StartsApart, NEW t \in Threads, note_calibration(t)
    PROVE  EarnedInv'
  <1>1. PICK n \in Nat : n = Len(published)
    BY DEF IInv, TypeOK
  <1>2. /\ UNCHANGED <<published, event, overrides>>
        /\ calibration_loaded' = calibrated(event[t])
        /\ n # 0 /\ event[t] = published[n].event
        /\ published[n].event \in PublishedEvents
        /\ event[t] \in EngineEvents \cup {"none"}
    <2>1. UNCHANGED <<published, event, overrides>> /\ calibration_loaded' = calibrated(event[t])
      BY DEF note_calibration, output_vars
    <2>2. n # 0 /\ event[t] = published[n].event
      BY <1>1 DEF EarnedInv, EventPending, note_calibration
    <2>3. published[n] \in Entry
      <3>1. published \in Seq(Entry)
        BY DEF IInv, TypeOK
      <3>2. n \in 1..Len(published)
        BY <1>1, <2>2
      <3> QED
        BY <3>1, <3>2, ElementOfSeq
    <2> QED
      BY <2>1, <2>2, <2>3 DEF IInv, TypeOK, Entry
  <1>3. event[t] \in EngineEvents
    BY <1>2 DEF PublishedEvents, EngineEvents, ShotEvents
  <1>4. \A u \in Threads : loop'[u] # "note"
    <2>1. /\ alive /\ live(t) /\ loop'[t] # "note"
          /\ \A u \in Threads : u # t => loop'[u] = loop[u]
      BY DEF note_calibration, advance, live, IInv, TypeOK
    <2> QED
      BY <2>1, ThreadsAlone DEF live
  <1>5. LastNoted(n)'
    BY <1>1, <1>2, <1>3, <1>4 DEF LastNoted
  <1>6. Complains(n)' <=> ~ calibration_loaded'
    BY <1>2 DEF Complains, calibrated
  <1> QED
    BY <1>1, <1>2, <1>4, <1>5, <1>6 DEF EarnedInv, EventPending, CalibrationLoadedIsEarned

\* Every step of the controller.
LEMMA StepKeepsEarned ==
    ASSUME IInv, EarnedInv, [Next]_vars
    PROVE  EarnedInv'
  <1> SUFFICES ASSUME StartsApart' PROVE EarnedInv'
    BY DEF EarnedInv, EventPending, CalibrationLoadedIsEarned
  <1> USE DEF worker_local, local_vars, output_vars, calibration_vars, advance
  <1>1. ASSUME NEW h \in Handlers, start_check(h) \/ stop_request(h) \/ command_step(h)
        PROVE  EarnedInv'
    <2>1. /\ UNCHANGED <<published, event>>
          /\ \A t \in Threads : loop'[t] = "note" <=> loop[t] = "note"
          /\ StartsApart' => StartsApart
      BY <1>1, CommandsPublishNothing DEF IInv, StartsApart
    <2>2. UNCHANGED calibration_vars
      BY <1>1 DEF start_check, stop_request, command_step, check_joinable, join_begins, join_throws,
                  join_returns, start_arm, start_spawn, start_spawn_fails, start_assign,
                  start_terminates, start_store, stop_finish
    <2> QED
      BY <2>1, <2>2, QuietEarned
  <1>2. ASSUME NEW h \in Handlers, NEW camera \in Cameras, calibrate_accepted(h, camera)
        PROVE  EarnedInv'
    <2>1. UNCHANGED <<published, event, loop, crossed>> /\ calibration_loaded' /\ overrides' # {}
      BY <1>2 DEF calibrate_accepted, handler_vars, history_vars
    <2> QED
      BY <2>1 DEF EarnedInv, EventPending, CalibrationLoadedIsEarned, StartsApart
  <1>3. CASE (\E h \in Handlers : calibrate_rejected(h)) \/ error_callback \/ UNCHANGED vars
    <2>1. UNCHANGED <<published, event, loop, calibration_vars, crossed>>
      BY <1>3 DEF calibrate_rejected, error_callback, vars, handler_vars, history_vars
    <2> QED
      BY <2>1, QuietEarned DEF StartsApart
  <1>4. ASSUME NEW t \in Threads, worker_loop(t) PROVE EarnedInv'
    <2>0. StartsApart
      BY <1>4, WorkerStepsAlone DEF IInv, handler_vars, history_vars, StartsApart
    <2>1. CASE run_scenario(t) \/ publish_failure(t)
      <3>1. EventPending'
        BY <2>0, <2>1, PublishKeepsLast DEF EventPending
      <3>2. CalibrationLoadedIsEarned'
        <4>1. overrides' = overrides /\ calibration_loaded' = calibration_loaded
          BY <2>0, <2>1, PublishKeepsLast
        <4> QED
          BY <2>0, <2>1, <4>1, PublishKeepsLast DEF EarnedInv, CalibrationLoadedIsEarned
      <3> QED
        BY <3>1, <3>2 DEF EarnedInv
    <2>2. CASE note_calibration(t)
      BY <2>0, <2>2, NoteKeepsEarned
    <2>3. CASE \/ list_scenarios(t) \/ throws(t) \/ for_each_scenario(t) \/ load_scenario(t)
               \/ read_shot_sequence(t) \/ set_options(t) \/ finish_batch(t) \/ record_failure(t)
      <3>1. /\ UNCHANGED <<published, event, calibration_vars>>
            /\ \A u \in Threads : loop'[u] = "note" <=> loop[u] = "note"
        BY <2>3 DEF list_scenarios, throws, for_each_scenario, load_scenario, read_shot_sequence,
                    set_options, finish_batch, record_failure, IInv, TypeOK
      <3> QED
        BY <2>0, <3>1, QuietEarned
    <2> QED
      BY <1>4, <2>1, <2>2, <2>3 DEF worker_loop
  <1> QED
    BY <1>1, <1>2, <1>3, <1>4 DEF Next

(* As long as starts do not overlap, what healthcheck says of the            *)
(* calibration has its reason, although the worker and the calibrate command *)
(* write the flag and the worker writes what it learnt before.               *)
THEOREM CalibrationFlagIsEarned == Spec => []CalibrationLoadedIsEarned
  <1>1. Init => EarnedInv
    BY DEF Init, EarnedInv, EventPending, CalibrationLoadedIsEarned
  <1>2. IInv /\ EarnedInv /\ [Next]_vars => EarnedInv'
    BY StepKeepsEarned
  <1>3. EarnedInv => CalibrationLoadedIsEarned
    BY DEF EarnedInv
  <1> QED
    BY <1>1, <1>2, <1>3, Inductive, PTL DEF Spec
-----------------------------------------------------------------------------
(* Running means that somebody is at work.                                    *)

\* start sets Running only on its way to a thread, or is stranded on it.
LEMMA CommandsKeepWork ==
    ASSUME TypeOK, RunningMeansWork, NEW h \in Handlers,
           start_check(h) \/ stop_request(h) \/ command_step(h)
    PROVE  RunningMeansWork'
  <1> USE DEF TypeOK, RunningMeansWork, status_vars, worker_local, local_vars, output_vars, live, go, leave
  <1>1. CASE start_arm(h)
    BY <1>1 DEF start_arm
  <1>2. CASE start_spawn(h)
    <2>1. \E t \in Threads : loop'[t] = "list"
      BY <1>2 DEF start_spawn
    <2> QED
      BY <2>1
  <1>3. CASE start_terminates(h)
    BY <1>3 DEF start_terminates
  <1>4. CASE start_spawn_fails(h)
    BY <1>4 DEF start_spawn_fails
  <1>5. CASE stop_finish(h)
    BY <1>5 DEF stop_finish, settle_state
  <1>6. CASE \/ start_check(h) \/ stop_request(h) \/ check_joinable(h)
             \/ join_begins(h) \/ join_throws(h) \/ join_returns(h)
             \/ start_assign(h) \/ start_store(h)
    <2>1. at[h] # "spawn" /\ UNCHANGED <<state, alive, loop, stranded>>
      BY <1>6 DEF start_check, stop_request, check_joinable, join_begins, join_throws, join_returns,
                  start_assign, start_store, history_vars
    <2>2. \A k \in Handlers : at[k] = "spawn" => at'[k] = "spawn"
      BY <1>6, <2>1 DEF start_check, stop_request, check_joinable, join_begins, join_throws, join_returns,
                        start_assign, start_store
    <2> QED
      BY <2>1, <2>2
  <1> QED
    BY <1>1, <1>2, <1>3, <1>4, <1>5, <1>6 DEF command_step

\* A worker leaves Running behind only while it goes on.
LEMMA OthersKeepWork ==
    ASSUME TypeOK, RunningMeansWork,
           \/ \E t \in Threads : worker_loop(t)
           \/ \E h \in Handlers :
                calibrate_rejected(h) \/ \E camera \in Cameras : calibrate_accepted(h, camera)
           \/ error_callback
           \/ UNCHANGED vars
    PROVE  RunningMeansWork'
  <1> USE DEF TypeOK, RunningMeansWork, status_vars, handler_vars, history_vars, live
  <1>1. ASSUME NEW t \in Threads, worker_loop(t) PROVE RunningMeansWork'
    <2> USE DEF advance, local_vars, output_vars
    <2>1. CASE finish_batch(t)
      BY <2>1 DEF finish_batch, settle_state, cleared_scenario
    <2>2. CASE record_failure(t)
      BY <2>2 DEF record_failure, set_last_error
    <2>3. CASE \/ list_scenarios(t) \/ throws(t) \/ for_each_scenario(t) \/ load_scenario(t)
               \/ read_shot_sequence(t) \/ set_options(t) \/ run_scenario(t) \/ note_calibration(t)
               \/ publish_failure(t)
      <3>1. loop'[t] \notin {"unborn", "done"}
        BY <2>3 DEF list_scenarios, throws, for_each_scenario, load_scenario, read_shot_sequence,
                    set_options, run_scenario, note_calibration, publish_failure
      <3> QED
        BY <3>1
    <2> QED
      BY <1>1, <2>1, <2>2, <2>3 DEF worker_loop
  <1>2. ASSUME NEW h \in Handlers, calibrate_rejected(h) PROVE RunningMeansWork'
    BY <1>2 DEF calibrate_rejected, set_last_error
  <1>3. ASSUME NEW h \in Handlers, NEW camera \in Cameras, calibrate_accepted(h, camera)
        PROVE  RunningMeansWork'
    BY <1>3 DEF calibrate_accepted, worker_local
  <1>4. CASE error_callback
    BY <1>4 DEF error_callback, set_last_error
  <1>5. CASE UNCHANGED vars
    BY <1>5 DEF vars
  <1> QED
    BY <1>1, <1>2, <1>3, <1>4, <1>5

(* Running means that a worker is at work or just being created, so the      *)
(* answer of a refused start is true, unless a start has set the state and   *)
(* then got no thread: whatever overlaps, also two workers.                  *)
THEOREM RunningIsTruthful == Spec => []RunningMeansWork
  <1>1. Init => RunningMeansWork
    BY DEF Init, RunningMeansWork
  <1>2. TypeOK /\ RunningMeansWork /\ [Next]_vars => RunningMeansWork'
    BY CommandsKeepWork, OthersKeepWork DEF Next
  <1>3. Spec => []TypeOK
    BY TypeCorrect, PTL
  <1> QED
    BY <1>1, <1>2, <1>3, PTL DEF Spec
-----------------------------------------------------------------------------
(* Starts that overlap neither another start nor a stop.                      *)

\* While no start overlaps another command: a start is alone, a stop about to
\* answer has no worker left, its flag is set until then, and an idle service
\* replays nothing.
ApartInv ==
    CommandsApart =>
        /\ \A h, k \in Handlers : command[h] = "start" /\ k # h => command[k] = "none"
        /\ \A h \in Handlers :
            /\ at[h] = "finish" => worker = NoThread /\ \A t \in Threads : ~ live(t)
            /\ at[h] = "spawn" => state # "idle"
            /\ command[h] = "stop" => stop_requested
        /\ state = "idle" => current_scenario = NoScenario /\ \A t \in Threads : ~ live(t)

\* A worker that has published while a stop was executed goes to the end of the
\* loop, and the stop waits for it.
HoldInv ==
    CommandsApart =>
        \A t \in Threads : PublishedWhileStopping(t) # {} =>
            /\ \E i : PublishedWhileStopping(t) = {i}
            /\ loop[t] \in {"note", "next", "finish", "record", "done"}
            /\ live(t) => Stopping /\ stop_requested

StopInv == IInv /\ OnlyOverlappingStartsTerminate /\ ApartInv /\ HoldInv

LEMMA ApartMeansAlive ==
    ASSUME OnlyOverlappingStartsTerminate, CommandsApart
    PROVE  alive /\ StartsApart
  BY DEF OnlyOverlappingStartsTerminate, CommandsApart, StartsApart

\* What a handler past the join of a stop, or past the start of one, excludes.
LEMMA StopFindsWorker ==
    ASSUME StopInv, CommandsApart, NEW h \in Handlers, command[h] = "stop"
    PROVE  /\ \A k \in Handlers : command[k] # "start"
           /\ \A k \in Handlers : at[k] \notin {"arm", "spawn", "assign", "store"}
           /\ \A t \in Threads : live(t) => worker = t
           /\ stop_requested
  <1>1. \A k \in Handlers : command[k] # "start"
    <2> SUFFICES ASSUME NEW k \in Handlers, command[k] = "start" PROVE FALSE
      OBVIOUS
    <2>1. k # h
      OBVIOUS
    <2> QED
      BY <2>1 DEF StopInv, ApartInv
  <1>2. \A k \in Handlers : at[k] \notin {"arm", "spawn", "assign", "store"}
    BY <1>1 DEF StopInv, IInv, PlaceInv
  <1>3. alive /\ StartsApart
    BY ApartMeansAlive DEF StopInv
  <1>4. \A t \in Threads : live(t) => worker = t
    BY <1>2, <1>3 DEF StopInv, IInv, WorkerInv, holds
  <1> QED
    BY <1>1, <1>2, <1>4 DEF StopInv, ApartInv

\* start and stop.
LEMMA CommandsKeepApart ==
    ASSUME StopInv, NEW h \in Handlers,
           start_check(h) \/ stop_request(h) \/ command_step(h)
    PROVE  ApartInv'
  <1> SUFFICES ASSUME CommandsApart' PROVE ApartInv'
    BY DEF ApartInv
  <1>0. TypeOK /\ PlaceInv /\ CommandsApart
    BY CommandsPublishNothing DEF CommandsApart, StopInv, IInv
  <1>00. alive /\ StartsApart
    BY <1>0, ApartMeansAlive DEF StopInv
  <1>a. /\ \A i, k \in Handlers : command[i] = "start" /\ k # i => command[k] = "none"
        /\ \A i \in Handlers :
            /\ at[i] = "finish" => worker = NoThread /\ \A t \in Threads : ~ live(t)
            /\ at[i] = "spawn" => state # "idle"
            /\ command[i] = "stop" => stop_requested
        /\ state = "idle" => current_scenario = NoScenario /\ \A t \in Threads : ~ live(t)
    BY <1>0 DEF StopInv, ApartInv
  <1>b. /\ \A t \in Threads : live(t) => worker = t \/ \E k \in Handlers : holds(k, t)
        /\ \A k \in Handlers :
            /\ at[k] \in {"arm", "spawn"} => \A t \in Threads : ~ live(t)
            /\ at[k] = "joining" => worker # NoThread /\ hand[k] = worker
    BY <1>00 DEF StopInv, IInv, WorkerInv
  <1> USE <1>0, <1>a DEF TypeOK, ApartInv, live, status_vars, worker_local, history_vars, go, leave, take
  <1>1. CASE start_check(h)
    <2>1. \A k \in Handlers : command[k] = "none"
      BY <1>1 DEF start_check, CommandsApart
    <2> QED
      BY <1>1, <2>1 DEF start_check, PlaceInv
  <1>2. CASE stop_request(h)
    <2>1. \A k \in Handlers : command[k] # "start"
      BY <1>2 DEF stop_request, CommandsApart, Starting
    <2> QED
      BY <1>2, <2>1 DEF stop_request, PlaceInv
  <1>3. CASE check_joinable(h)
    <2>1. CASE joinable \/ command[h] = "start"
      BY <1>3, <2>1 DEF check_joinable, after_join
    <2>2. CASE ~ joinable /\ command[h] # "start"
      <3>1. command[h] = "stop"
        BY <1>3, <2>2 DEF check_joinable, PlaceInv
      <3>2. worker = NoThread /\ \A t \in Threads : ~ live(t)
        BY <2>2, <3>1, StopFindsWorker DEF joinable
      <3> QED
        BY <1>3, <2>2, <3>1, <3>2 DEF check_joinable, after_join
    <2> QED
      BY <2>1, <2>2
  <1>4. CASE join_begins(h)
    BY <1>4 DEF join_begins
  <1>5. CASE join_throws(h)
    BY <1>5 DEF join_throws
  <1>6. CASE join_returns(h)
    <2>1. CASE command[h] = "start"
      BY <1>6, <2>1 DEF join_returns, after_join
    <2>2. CASE command[h] # "start"
      <3>1. command[h] = "stop"
        BY <1>6, <2>2 DEF join_returns, PlaceInv
      <3>2. hand[h] = worker /\ \A t \in Threads : t = hand[h] => ~ live(t)
        BY <1>6, <1>b DEF join_returns
      <3>3. \A t \in Threads : ~ live(t)
        BY <3>1, <3>2, StopFindsWorker
      <3> QED
        BY <1>6, <2>2, <3>1, <3>3 DEF join_returns, after_join
    <2> QED
      BY <2>1, <2>2
  <1>7. CASE start_arm(h)
    <2>1. command[h] = "start"
      BY <1>7 DEF start_arm, PlaceInv
    <2>2. \A k \in Handlers : k # h => command[k] = "none" /\ at[k] = "idle"
      BY <2>1 DEF PlaceInv
    <2> QED
      BY <1>7, <2>1, <2>2 DEF start_arm
  <1>8. CASE start_spawn(h)
    <2>1. command[h] = "start" /\ at[h] = "spawn"
      BY <1>8 DEF start_spawn, PlaceInv
    <2>2. \A k \in Handlers : k # h => command[k] = "none" /\ at[k] = "idle"
      BY <2>1 DEF PlaceInv
    <2> QED
      BY <1>8, <2>1, <2>2 DEF start_spawn
  <1>9. CASE start_spawn_fails(h)
    BY <1>9 DEF start_spawn_fails
  <1>10. CASE start_assign(h)
    BY <1>10 DEF start_assign
  <1>11. CASE start_store(h)
    <2>1. command[h] = "start"
      BY <1>11 DEF start_store, PlaceInv
    <2>2. \A k \in Handlers : k # h => command[k] = "none" /\ at[k] = "idle"
      BY <2>1 DEF PlaceInv
    <2> QED
      BY <1>11, <2>1, <2>2 DEF start_store
  <1>12. CASE start_terminates(h)
    BY <1>00, <1>12 DEF start_terminates, handle_taken, StopInv, IInv, WorkerInv
  <1>13. CASE stop_finish(h)
    <2>1. \A t \in Threads : ~ live(t)
      BY <1>13 DEF stop_finish
    <2>2. command[h] = "stop"
      BY <1>13 DEF stop_finish, PlaceInv
    <2>3. \A k \in Handlers : at[k] # "spawn"
      BY <2>2, StopFindsWorker
    <2> QED
      BY <1>13, <2>1, <2>3 DEF stop_finish, settle_state
  <1> QED
    BY <1>1, <1>2, <1>3, <1>4, <1>5, <1>6, <1>7, <1>8, <1>9, <1>10, <1>11, <1>12, <1>13
       DEF command_step

\* The steps of a worker.
LEMMA WorkerKeepsApart ==
    ASSUME StopInv, NEW t \in Threads, worker_loop(t)
    PROVE  ApartInv'
  <1> SUFFICES ASSUME CommandsApart' PROVE ApartInv'
    BY DEF ApartInv
  <1>1. /\ alive /\ live(t)
        /\ UNCHANGED <<handler_vars, worker, stop_requested>>
        /\ \A u \in Threads : u # t => loop'[u] = loop[u]
    BY WorkerStepsAlone DEF StopInv, IInv
  <1>2. CommandsApart /\ StartsApart
    BY <1>1 DEF CommandsApart, StartsApart, handler_vars, history_vars
  <1>3. ApartInv /\ state # "idle" /\ \A h \in Handlers : at[h] \notin {"finish", "spawn"}
    BY <1>1, <1>2 DEF StopInv, ApartInv, IInv, WorkerInv
  <1>4. \A u \in Threads : u # t => ~ live(u)'
    BY <1>1, <1>2, ThreadsAlone DEF StopInv, live
  <1>5. state' = "idle" => current_scenario' = NoScenario /\ \A u \in Threads : ~ live(u)'
    <2>1. CASE finish_batch(t)
      <3>1. loop'[t] = "done" /\ (state' = "idle" => current_scenario' = NoScenario)
        BY <1>3, <2>1 DEF finish_batch, settle_state, cleared_scenario, advance, StopInv, IInv, TypeOK
      <3> QED
        BY <1>4, <3>1 DEF live
    <2>2. CASE ~ finish_batch(t)
      BY <1>3, <2>2 DEF worker_loop, list_scenarios, throws, for_each_scenario, load_scenario,
          read_shot_sequence, set_options, run_scenario, note_calibration, publish_failure,
          record_failure, set_last_error, status_vars
    <2> QED
      BY <2>1, <2>2
  <1> QED
    BY <1>1, <1>2, <1>3, <1>5 DEF ApartInv, handler_vars

\* calibrate, the callback of the publisher and stuttering.
LEMMA OthersKeepApart ==
    ASSUME StopInv,
           \/ \E h \in Handlers :
                calibrate_rejected(h) \/ \E camera \in Cameras : calibrate_accepted(h, camera)
           \/ error_callback
           \/ UNCHANGED vars
    PROVE  ApartInv' /\ HoldInv'
  <1> USE DEF status_vars, handler_vars, history_vars, worker_local, output_vars
  <1>1. /\ UNCHANGED <<at, command, crossed, worker, stop_requested, loop, published, current_scenario>>
        /\ state' \in {state, "error"}
    BY DEF calibrate_rejected, calibrate_accepted, error_callback, vars, set_last_error
  <1>2. ApartInv'
    BY <1>1 DEF StopInv, ApartInv, CommandsApart, live
  <1>3. HoldInv'
    <2>1. \A t \in Threads : PublishedWhileStopping(t)' = PublishedWhileStopping(t)
      BY <1>1 DEF PublishedWhileStopping
    <2>2. HoldInv /\ Stopping' = Stopping
      BY <1>1 DEF StopInv, Stopping
    <2> QED
      BY <1>1, <2>1, <2>2 DEF HoldInv, CommandsApart, live
  <1> QED
    BY <1>2, <1>3

\* While a stop waits for a worker no command ends the waiting of all stops, or
\* takes back the flag.
LEMMA CommandsKeepHold ==
    ASSUME StopInv, ApartInv', NEW h \in Handlers,
           start_check(h) \/ stop_request(h) \/ command_step(h)
    PROVE  HoldInv'
  <1> SUFFICES ASSUME CommandsApart' PROVE HoldInv'
    BY DEF HoldInv
  <1>1. /\ published' = published
        /\ \A t \in Threads : loop'[t] = loop[t] \/ loop[t] = "unborn"
        /\ CommandsApart /\ TypeOK /\ PlaceInv
    BY CommandsPublishNothing DEF CommandsApart, StopInv, IInv, output_vars
  <1>2. \A t \in Threads : PublishedWhileStopping(t)' = PublishedWhileStopping(t)
    BY <1>1 DEF PublishedWhileStopping
  <1>3. ASSUME NEW t \in Threads, live(t), Stopping
        PROVE  Stopping'
    <2>0. PICK k \in Handlers : command[k] = "stop"
      BY <1>3 DEF Stopping
    <2>1. /\ \A i \in Handlers : command[i] # "start"
          /\ worker = t
      BY <1>1, <1>3, <2>0, StopFindsWorker
    <2>2. t # NoThread
      OBVIOUS
    <2> USE <1>1, <2>0, <2>1, <2>2 DEF TypeOK, Stopping, go, leave, take
    <2>3. CASE start_check(h) \/ stop_request(h)
      BY <2>3 DEF start_check, stop_request, PlaceInv
    <2>4. CASE check_joinable(h) \/ join_begins(h) \/ join_returns(h)
      BY <2>4 DEF check_joinable, join_begins, join_returns
    <2>5. CASE join_throws(h)
      <3>1. PICK i \in Handlers \ {h} : at[i] = "joining"
        BY <2>5 DEF join_throws, join_refused, joinable
      <3>2. command[i] = "stop"
        BY <3>1 DEF PlaceInv
      <3> QED
        BY <2>5, <3>1, <3>2 DEF join_throws
    <2>6. CASE \/ start_arm(h) \/ start_spawn(h) \/ start_spawn_fails(h) \/ start_assign(h)
               \/ start_terminates(h) \/ start_store(h)
      <3>1. at[h] \in {"arm", "spawn", "assign", "store"}
        BY <2>6 DEF start_arm, start_spawn, start_spawn_fails, start_assign, start_terminates, start_store
      <3> QED
        BY <3>1 DEF PlaceInv
    <2>7. CASE stop_finish(h)
      BY <1>3, <2>7 DEF stop_finish, StopInv, ApartInv
    <2> QED
      BY <2>3, <2>4, <2>5, <2>6, <2>7 DEF command_step
  <1>4. Stopping' => stop_requested'
    BY DEF ApartInv, Stopping
  <1>5. HoldInv
    BY DEF StopInv
  <1> QED
    BY <1>1, <1>2, <1>3, <1>4, <1>5 DEF HoldInv, live

\* What is published is one entry more.
LEMMA PublishAddsOne ==
    ASSUME TypeOK, NEW t \in Threads, NEW scenario, NEW what, NEW is_late,
           publish(t, scenario, what, is_late)
    PROVE  /\ \A u \in Threads : u # t => PublishedWhileStopping(u)' = PublishedWhileStopping(u)
           /\ PublishedWhileStopping(t)' =
                PublishedWhileStopping(t) \cup (IF Stopping THEN {Len(published) + 1} ELSE {})
  <1>1. PICK n \in Nat : n = Len(published)
    BY DEF TypeOK
  <1>2. /\ Len(published') = n + 1
        /\ \A i \in 1..n : published'[i] = published[i]
        /\ published'[n + 1].by = t /\ published'[n + 1].stopping = Stopping
    BY <1>1 DEF publish, TypeOK
  <1> QED
    BY <1>1, <1>2 DEF PublishedWhileStopping

\* A worker that has published while a stop was executed reads the flag.
LEMMA WorkerKeepsHold ==
    ASSUME StopInv, NEW t \in Threads, worker_loop(t)
    PROVE  HoldInv'
  <1> SUFFICES ASSUME CommandsApart' PROVE HoldInv'
    BY DEF HoldInv
  <1>1. /\ live(t) /\ TypeOK
        /\ UNCHANGED <<handler_vars, worker, stop_requested>>
        /\ \A u \in Threads : u # t => loop'[u] = loop[u]
    BY WorkerStepsAlone DEF StopInv, IInv
  <1>2. CommandsApart /\ Stopping' = Stopping
    BY <1>1 DEF CommandsApart, Stopping, handler_vars, history_vars
  <1>3. HoldInv
    BY DEF StopInv
  <1>4. Stopping => stop_requested
    BY <1>2 DEF StopInv, ApartInv, Stopping
  <1> USE DEF local_vars, output_vars, advance
  <1>5. CASE run_scenario(t) \/ publish_failure(t)
    <2>1. /\ \A u \in Threads : u # t => PublishedWhileStopping(u)' = PublishedWhileStopping(u)
          /\ PublishedWhileStopping(t)' =
                PublishedWhileStopping(t) \cup (IF Stopping THEN {Len(published) + 1} ELSE {})
      BY <1>1, <1>5, PublishAddsOne DEF run_scenario, publish_failure
    <2>2. loop[t] \in {"run", "failed"} /\ loop'[t] \in {"note", "record"}
      BY <1>1, <1>5 DEF run_scenario, publish_failure, TypeOK
    <2>3. PublishedWhileStopping(t) = {}
      BY <1>2, <1>3, <2>2 DEF HoldInv
    <2> QED
      BY <1>1, <1>2, <1>3, <1>4, <2>1, <2>2, <2>3 DEF HoldInv, live
  <1>6. CASE ~ run_scenario(t) /\ ~ publish_failure(t)
    <2>1. published' = published
      BY <1>6 DEF worker_loop, list_scenarios, throws, for_each_scenario, load_scenario,
          read_shot_sequence, set_options, note_calibration, finish_batch, record_failure
    <2>2. \A u \in Threads : PublishedWhileStopping(u)' = PublishedWhileStopping(u)
      BY <2>1 DEF PublishedWhileStopping
    <2>3. ASSUME loop[t] \in {"note", "next", "finish", "record", "done"}, stop_requested
          PROVE  loop'[t] \in {"note", "next", "finish", "record", "done"}
      BY <1>1, <1>6, <2>3 DEF TypeOK, interrupted, worker_loop, list_scenarios, throws, for_each_scenario,
          load_scenario, read_shot_sequence, set_options, note_calibration, finish_batch, record_failure
    <2> QED
      BY <1>1, <1>2, <1>3, <2>2, <2>3 DEF HoldInv, live
  <1> QED
    BY <1>5, <1>6

\* The invariant of the stops is inductive.
LEMMA StopsInductive == Spec => []StopInv
  <1>1. Init => StopInv
    <2> SUFFICES ASSUME Init PROVE StopInv
      OBVIOUS
    <2>1. ApartInv /\ OnlyOverlappingStartsTerminate
      BY DEF Init, ApartInv, live, OnlyOverlappingStartsTerminate
    <2>2. HoldInv
      BY DEF Init, HoldInv, PublishedWhileStopping
    <2> QED
      BY <2>1, <2>2, InitInv DEF StopInv
  <1>2. StopInv /\ [Next]_vars => StopInv'
    <2> SUFFICES ASSUME StopInv, [Next]_vars PROVE StopInv'
      OBVIOUS
    <2>1. IInv' /\ OnlyOverlappingStartsTerminate'
      BY CommandsKeepWorker, WorkerKeepsWorker, OthersKeepWorker, StepKeepsAlive DEF Next, StopInv
    <2>2. ApartInv' /\ HoldInv'
      BY CommandsKeepApart, CommandsKeepHold, WorkerKeepsApart, WorkerKeepsHold, OthersKeepApart DEF Next
    <2> QED
      BY <2>1, <2>2 DEF StopInv
  <1> QED
    BY <1>1, <1>2, PTL DEF Spec

(* However stops overlap each other, the state is never Idle while a batch   *)
(* is being replayed as long as no start overlaps another command, so that   *)
(* no start is accepted on top of it.                                        *)
THEOREM IdleIsTruthful == Spec => []NeverIdleWhileProcessing
  <1>1. StopInv => NeverIdleWhileProcessing
    BY DEF StopInv, ApartInv, NeverIdleWhileProcessing
  <1> QED
    BY <1>1, StopsInductive, PTL

(* A stop takes hold at the next scenario, for any batch, any number of      *)
(* stops at the same time and also when some of them are refused: at least   *)
(* one of them waits until the worker has ended, and no start takes the flag *)
(* back unless it overlaps them.                                             *)
THEOREM StopsTakeHold == Spec => []StopTakesHold
  <1>1. StopInv => StopTakesHold
    <2> SUFFICES ASSUME StopInv, CommandsApart, NEW t \in Threads
                 PROVE  Cardinality(PublishedWhileStopping(t)) <= 1
      BY DEF StopTakesHold
    <2>1. CASE PublishedWhileStopping(t) = {}
      BY <2>1, FS_EmptySet
    <2>2. CASE PublishedWhileStopping(t) # {}
      <3>1. PICK i : PublishedWhileStopping(t) = {i}
        BY <2>2 DEF StopInv, HoldInv
      <3>2. Cardinality({i}) = 1
        BY FS_Singleton
      <3> QED
        BY <3>1, <3>2
    <2> QED
      BY <2>1, <2>2
  <1> QED
    BY <1>1, StopsInductive, PTL

(* When stop answers, the worker has ended and healthcheck shows neither a   *)
(* running batch nor a scenario, however the batch ended before and whatever *)
(* other stops do, as long as no start overlaps another command.             *)
THEOREM StopsAreQuiet == Spec => StopReturnsQuiet /\ []IdleShowsNoScenario
  <1> DEFINE Quiet == \A h \in Handlers :
                        (at[h] = "finish" /\ at'[h] = "idle" /\ CommandsApart) =>
                            /\ \A t \in Threads : ~ live(t)'
                            /\ state' # "running"
                            /\ current_scenario' = NoScenario
  <1>1. StopInv /\ [Next]_vars => [Quiet]_vars
    <2> SUFFICES ASSUME StopInv, Next, NEW h \in Handlers,
                        at[h] = "finish", at'[h] = "idle", CommandsApart
                 PROVE  /\ \A t \in Threads : ~ live(t)'
                        /\ state' # "running"
                        /\ current_scenario' = NoScenario
      OBVIOUS
    <2>1. TypeOK
      BY DEF StopInv, IInv
    <2>2. PICK k \in Handlers : start_check(k) \/ stop_request(k) \/ command_step(k)
      <3>1. ASSUME NEW t \in Threads, worker_loop(t) PROVE FALSE
        BY <2>1, <3>1, WorkerStepsAlone DEF handler_vars
      <3>2. ~ error_callback /\ ~ \E k \in Handlers :
                calibrate_rejected(k) \/ \E camera \in Cameras : calibrate_accepted(k, camera)
        BY DEF handler_vars, calibrate_rejected, calibrate_accepted, error_callback
      <3> QED
        BY <3>1, <3>2 DEF Next
    <2>3. k = h
      BY <2>1, <2>2 DEF TypeOK, leave, go, handler_vars, start_check, stop_request, command_step,
             check_joinable, join_begins, join_throws, join_returns, start_arm, start_spawn,
             start_spawn_fails, start_assign, start_terminates, start_store, stop_finish
    <2>4. stop_finish(h)
      BY <2>2, <2>3 DEF start_check, stop_request, command_step, check_joinable, join_begins, join_throws,
             join_returns, start_arm, start_spawn, start_spawn_fails, start_assign, start_terminates, start_store
    <2>5. \A t \in Threads : ~ live(t) /\ ~ live(t)'
      BY <2>4 DEF stop_finish, worker_local, StopInv, ApartInv, live
    <2> QED
      BY <2>1, <2>4, <2>5 DEF stop_finish, settle_state, TypeOK
  <1>2. StopInv => IdleShowsNoScenario
    BY DEF StopInv, ApartInv, IdleShowsNoScenario
  <1> QED
    BY <1>1, <1>2, StopsInductive, PTL DEF Spec, StopReturnsQuiet
-----------------------------------------------------------------------------
(* The controller implements the replay of batches.                           *)

logged == [i \in 1..Len(published) |-> entry_of(published[i])]

\* The history read as a log is a sequence, entry by entry.
LEMMA LogIsSeq ==
    ASSUME published \in Seq(Entry)
    PROVE  /\ logged \in Seq({entry_of(y) : y \in Entry})
           /\ Len(logged) = Len(published)
           /\ \A i \in 1..Len(published) : logged[i] = entry_of(published[i])
  <1> DEFINE S == {entry_of(y) : y \in Entry}
  <1>1. PICK n \in Nat : n = Len(published)
    BY LenProperties
  <1>2. \A i \in 1..n : entry_of(published[i]) \in S
    BY <1>1, ElementOfSeq
  <1>3. logged = [i \in 1..n |-> entry_of(published[i])]
    BY <1>1 DEF logged
  <1> HIDE DEF S
  <1>4. logged \in [1..n -> S]
    BY <1>2, <1>3
  <1>5. logged \in Seq(S)
    BY <1>4, SeqDef
  <1>6. DOMAIN logged = 1..Len(logged) /\ Len(logged) \in Nat
    BY <1>5, LenProperties
  <1>7. Len(logged) = n
    BY <1>4, <1>6
  <1> QED
    BY <1>1, <1>3, <1>5, <1>7 DEF S

\* An event that is published is one entry more.
LEMMA LogAppends ==
    ASSUME published \in Seq(Entry), NEW x \in Entry, published' = Append(published, x)
    PROVE  /\ Len(logged') = Len(logged) + 1
           /\ logged'[Len(logged')] = entry_of(x)
           /\ logged' = Append(logged, entry_of(x))
  <1> DEFINE S == {entry_of(y) : y \in Entry}
  <1>1. PICK n \in Nat : n = Len(published)
    BY LenProperties
  <1>2. /\ published' \in Seq(Entry)
        /\ Len(published') = n + 1
        /\ \A i \in 1..n : published'[i] = published[i]
        /\ published'[n + 1] = x
    BY <1>1, AppendProperties
  <1>3. /\ logged \in Seq(S) /\ Len(logged) = n
        /\ \A i \in 1..n : logged[i] = entry_of(published[i])
    BY <1>1, LogIsSeq
  <1>4. logged' = [i \in 1..(n + 1) |-> entry_of(published'[i])]
    BY <1>2 DEF logged, entry_of
  <1>5. entry_of(x) \in S /\ \A i \in 1..(n + 1) : entry_of(published'[i]) \in S
    BY <1>2, ElementOfSeq
  <1> HIDE DEF S
  <1>6. logged' \in Seq(S) /\ Len(logged') = n + 1
    <2>1. logged' \in [1..(n + 1) -> S]
      BY <1>4, <1>5
    <2>2. logged' \in Seq(S)
      BY <1>1, <2>1, SeqDef
    <2>3. DOMAIN logged' = 1..Len(logged') /\ Len(logged') \in Nat
      BY <2>2, LenProperties
    <2> QED
      BY <1>1, <2>1, <2>2, <2>3
  <1>7. /\ Append(logged, entry_of(x)) \in Seq(S)
        /\ Len(Append(logged, entry_of(x))) = n + 1
        /\ \A i \in 1..n : Append(logged, entry_of(x))[i] = logged[i]
        /\ Append(logged, entry_of(x))[n + 1] = entry_of(x)
    BY <1>3, <1>5, AppendProperties
  <1>8. \A i \in 1..n : logged'[i] = logged[i]
    BY <1>1, <1>2, <1>3, <1>4
  <1>9. logged'[n + 1] = entry_of(x)
    BY <1>1, <1>2, <1>4
  <1>10. \A i \in 1..(n + 1) : logged'[i] = Append(logged, entry_of(x))[i]
    BY <1>1, <1>7, <1>8, <1>9
  <1>11. logged' = Append(logged, entry_of(x))
    BY <1>6, <1>7, <1>10, SeqEqual
  <1> QED
    BY <1>3, <1>6, <1>9, <1>11

\* A thread that has not been created yet will begin with the first scenario.
RefInv == IInv /\ \A t \in Threads : loop[t] = "unborn" => index[t] = 1

LEMMA StepKeepsRef == RefInv /\ [Next]_vars => RefInv'
  <1> SUFFICES ASSUME RefInv, [Next]_vars PROVE RefInv'
    OBVIOUS
  <1>1. IInv'
    BY CommandsKeepWorker, WorkerKeepsWorker, OthersKeepWorker DEF Next, RefInv
  <1>2. ASSUME NEW h \in Handlers, start_check(h) \/ stop_request(h) \/ command_step(h)
        PROVE  \A t \in Threads : loop'[t] = "unborn" => loop[t] = "unborn" /\ index'[t] = index[t]
    BY <1>2, CommandsPublishNothing DEF RefInv, IInv, local_vars
  <1>3. ASSUME NEW t \in Threads, worker_loop(t)
        PROVE  \A u \in Threads : loop'[u] = "unborn" => loop[u] = "unborn" /\ index'[u] = index[u]
    BY <1>3, WorkerStepsAlone DEF RefInv, IInv
  <1>4. CASE \/ \E h \in Handlers :
                  calibrate_rejected(h) \/ \E camera \in Cameras : calibrate_accepted(h, camera)
             \/ error_callback
             \/ UNCHANGED vars
    <2>1. UNCHANGED <<loop, index>>
      BY <1>4 DEF calibrate_rejected, calibrate_accepted, error_callback, vars, worker_local, local_vars
    <2> QED
      BY <1>1, <2>1 DEF RefInv
  <1> QED
    BY <1>1, <1>2, <1>3, <1>4 DEF RefInv, Next

\* Starts that overlap no more after a step did not before.
LEMMA StartsApartBefore ==
    ASSUME IInv, [Next]_vars, StartsApart'
    PROVE  StartsApart
  <1>1. ASSUME NEW h \in Handlers, start_check(h) \/ stop_request(h) \/ command_step(h)
        PROVE  crossed \subseteq crossed'
    BY <1>1, CommandsPublishNothing DEF IInv
  <1>2. ASSUME NEW t \in Threads, worker_loop(t) PROVE crossed' = crossed
    BY <1>2, WorkerStepsAlone DEF IInv, handler_vars, history_vars
  <1>3. CASE \/ \E h \in Handlers :
                  calibrate_rejected(h) \/ \E camera \in Cameras : calibrate_accepted(h, camera)
             \/ error_callback
             \/ UNCHANGED vars
    <2>1. crossed' = crossed
      BY <1>3 DEF calibrate_rejected, calibrate_accepted, error_callback, vars, handler_vars, history_vars
    <2> QED
      BY <2>1 DEF StartsApart
  <1> QED
    BY <1>1, <1>2, <1>3 DEF Next, StartsApart

\* Where the batch stands whose only worker is t.
position_of(t) ==
    IF busy(t) THEN index[t] - 1 + (IF loop[t] = "note" THEN 1 ELSE 0) ELSE 0

LEMMA Position ==
    ASSUME NEW t \in Threads, \A u \in Threads : busy(u) => u = t
    PROVE  /\ replaying <=> busy(t)
           /\ replayed = position_of(t)
  <1>1. replaying <=> busy(t)
    BY DEF replaying
  <1>2. CASE busy(t)
    <2> DEFINE c == CHOOSE u \in Threads : busy(u)
    <2>1. c = t
      BY <1>2
    <2> HIDE DEF c
    <2>2. replayed = index[c] - 1 + (IF loop[c] = "note" THEN 1 ELSE 0)
      BY <1>1, <1>2 DEF replayed, c
    <2> QED
      BY <1>1, <1>2, <2>1, <2>2 DEF position_of
  <1>3. CASE ~ busy(t)
    BY <1>1, <1>3 DEF replayed, position_of
  <1> QED
    BY <1>1, <1>2, <1>3

LEMMA PositionAfter ==
    ASSUME NEW t \in Threads, \A u \in Threads : busy(u)' => u = t
    PROVE  /\ replaying' <=> busy(t)'
           /\ replayed' = position_of(t)'
  <1>1. replaying' <=> busy(t)'
    BY DEF replaying
  <1>2. CASE busy(t)'
    <2> DEFINE c == CHOOSE u \in Threads : busy(u)'
    <2>1. c = t
      BY <1>2
    <2> HIDE DEF c
    <2>2. replayed' = index'[c] - 1 + (IF loop'[c] = "note" THEN 1 ELSE 0)
      BY <1>1, <1>2 DEF replayed, c
    <2> QED
      BY <1>1, <1>2, <2>1, <2>2 DEF position_of
  <1>3. CASE ~ busy(t)'
    BY <1>1, <1>3 DEF replayed, position_of
  <1> QED
    BY <1>1, <1>2, <1>3

Mapped == BatchReplay!Next \/ UNCHANGED BatchReplay!vars

\* Commands: a start begins a batch, start and stop move the stop flag.
LEMMA CommandsMap ==
    ASSUME RefInv, StartsApart, NEW h \in Handlers, start_check(h) \/ stop_request(h) \/ command_step(h)
    PROVE  Mapped
  <1>1. TypeOK /\ alive /\ UNCHANGED <<index, published>>
    BY CommandsPublishNothing DEF RefInv, IInv, local_vars, output_vars
  <1>2. CASE start_spawn(h)
    <2>1. PICK u \in Threads : loop[u] = "unborn" /\ loop' = [loop EXCEPT ![u] = "list"]
      BY <1>2 DEF start_spawn
    <2>2. stop_requested' = stop_requested /\ \A t \in Threads : ~ live(t)
      BY <1>1, <1>2 DEF start_spawn, RefInv, IInv, WorkerInv
    <2>3. /\ loop'[u] = "list" /\ index'[u] = 1
          /\ \A t \in Threads : t # u => loop'[t] = loop[t]
      BY <1>1, <2>1 DEF TypeOK, RefInv
    <2>4. \A t \in Threads : ~ busy(t)
      BY <2>2 DEF busy, live
    <2>5. \A t \in Threads : busy(t)' => t = u
      BY <2>3, <2>4 DEF busy
    <2>6. ~ replaying /\ replayed = 0
      BY <2>4, Position DEF position_of
    <2>7. busy(u)' /\ position_of(u)' = 0
      BY <2>3 DEF busy, position_of
    <2>8. replaying' /\ replayed' = 0
      BY <2>5, <2>7, PositionAfter
    <2>9. replaying' = TRUE
      BY <2>8 DEF replaying
    <2>10. BatchReplay!Begin
      BY <1>1, <2>2, <2>6, <2>8, <2>9 DEF BatchReplay!Begin
    <2> QED
      BY <2>10 DEF Mapped, BatchReplay!Next
  <1>3. CASE ~ start_spawn(h)
    <2>1. loop' = loop /\ stop_requested' \in BOOLEAN
      BY <1>1, <1>3 DEF TypeOK, worker_local, start_check, stop_request, command_step, check_joinable,
             join_begins, join_throws, join_returns, start_arm, start_spawn_fails, start_assign,
             start_terminates, start_store, stop_finish
    <2>2. UNCHANGED <<replaying, replayed>>
      BY <1>1, <2>1 DEF replaying, replayed, busy
    <2>3. BatchReplay!Ask
      BY <1>1, <2>1, <2>2 DEF BatchReplay!Ask
    <2> QED
      BY <2>3 DEF Mapped, BatchReplay!Next
  <1> QED
    BY <1>2, <1>3

\* The worker that moves replays the batch alone.
LEMMA WorkerPosition ==
    ASSUME IInv, StartsApart, NEW t \in Threads, worker_loop(t)
    PROVE  /\ TypeOK /\ InBatch /\ stop_requested' = stop_requested
           /\ index[t] \in 1..(Len(Batch) + 1) /\ Len(Batch) \in Nat
           /\ replaying <=> busy(t)
           /\ replayed = position_of(t)
           /\ replaying' <=> busy(t)'
           /\ replayed' = position_of(t)'
  <1>1. /\ alive /\ live(t) /\ stop_requested' = stop_requested
        /\ \A u \in Threads : u # t => loop'[u] = loop[u]
    BY WorkerStepsAlone DEF IInv
  <1>2. \A u \in Threads : u # t => ~ live(u)
    BY <1>1, ThreadsAlone
  <1>3. \A u \in Threads : (busy(u) => u = t) /\ (busy(u)' => u = t)
    BY <1>1, <1>2 DEF busy, live
  <1>4. Len(Batch) \in Nat
    BY LenProperties
  <1> QED
    BY <1>1, <1>3, <1>4, Position, PositionAfter DEF IInv, TypeOK

\* A scenario's event: the entry of the scenario at the position of the batch.
LEMMA RunMaps ==
    ASSUME IInv, StartsApart, NEW t \in Threads, run_scenario(t)
    PROVE  BatchReplay!Publish
  <1>1. /\ TypeOK /\ InBatch /\ stop_requested' = stop_requested
        /\ index[t] \in 1..(Len(Batch) + 1) /\ Len(Batch) \in Nat
        /\ replaying <=> busy(t)
        /\ replayed = position_of(t)
        /\ replaying' <=> busy(t)'
        /\ replayed' = position_of(t)'
    BY WorkerPosition DEF worker_loop
  <1> DEFINE s == Batch[index[t]]
             result == actual_event(s, options(t))
             x == [by |-> t, scenario |-> s, event |-> result, shot |-> shot[t],
                   late |-> (Facts[s].camera \in overrides), stopping |-> Stopping]
             entry == [scenario |-> s, event |-> result, shot |-> shot[t]]
  <1>2. /\ index[t] \in 1..Len(Batch) /\ index' = index
        /\ loop[t] = "run" /\ loop'[t] = "note"
        /\ published' = Append(published, x)
    <2>1. loop[t] = "run" /\ index' = index /\ published' = Append(published, x)
      BY DEF run_scenario, publish
    <2>2. loop'[t] = "note"
      BY <1>1 DEF run_scenario, advance, TypeOK
    <2>3. index[t] <= Len(Batch)
      BY <1>1, <2>1 DEF InBatch
    <2> QED
      BY <1>1, <2>1, <2>2, <2>3
  <1>3. /\ replaying = TRUE /\ replaying' = TRUE
        /\ replayed = index[t] - 1 /\ replayed' = index[t]
    <2>1. busy(t) /\ position_of(t) = index[t] - 1
      BY <1>1, <1>2 DEF busy, position_of
    <2>2. busy(t)' /\ position_of(t)' = index[t]
      BY <1>1, <1>2 DEF busy, position_of
    <2> QED
      BY <1>1, <2>1, <2>2 DEF replaying
  <1>4. s \in Scenarios /\ options(t) \in Options /\ shot[t] \in Nat
    BY <1>1, <1>2 DEF options, Options, TypeOK
  <1>5. result \in EngineEvents
    BY <1>4, EngineEventsOnly
  <1>6. x \in Entry /\ entry_of(x) = entry
    BY <1>4, <1>5 DEF Entry, PublishedEvents, entry_of, EngineEvents, ShotEvents, Stopping
  <1>7. result \in may_produce(s)
    BY <1>1 DEF may_produce, options, TypeOK
  <1> HIDE DEF x, result
  <1>8. published \in Seq(Entry)
    BY <1>1 DEF TypeOK
  <1>9. /\ Len(logged') = Len(logged) + 1
        /\ logged'[Len(logged')] = entry
        /\ logged' = Append(logged, entry)
    BY <1>2, <1>6, <1>8, LogAppends
  <1>10. \A i \in 1..Len(logged) : logged[i].event \in ShotEvents => logged[i].shot < entry.shot
    <2> SUFFICES ASSUME NEW i \in 1..Len(published), logged[i].event \in ShotEvents
                 PROVE  logged[i].shot < shot[t]
      BY <1>8, LogIsSeq
    <2>1. logged[i] = entry_of(published[i])
      BY <1>8, LogIsSeq
    <2>2. IsShot(i) /\ logged[i].shot = published[i].shot
      BY <2>1 DEF entry_of, Failure, IsShot, ShotEvents
    <2> QED
      BY <1>1, <1>2, <2>2 DEF IInv, ShotPending
  <1>11. entry # Failure
    BY <1>4 DEF Failure
  <1>12. entry \in BatchReplay!Entries(replayed')
    BY <1>2, <1>3, <1>4, <1>7 DEF BatchReplay!Entries
  <1> HIDE DEF entry
  <1>13. replayed < Len(Batch) /\ replayed' = replayed + 1
    BY <1>2, <1>3, LenProperties
  <1>14. stop_requested' = stop_requested
    BY <1>1
  <1> HIDE DEF s
  <1> QED
    BY <1>3, <1>9, <1>10, <1>11, <1>12, <1>13, <1>14 DEF BatchReplay!Publish, logged

\* The worker: its events are entries, leaving the loop ends the batch.
LEMMA WorkerMaps ==
    ASSUME IInv, StartsApart, NEW t \in Threads, worker_loop(t)
    PROVE  Mapped
  <1>1. /\ TypeOK /\ InBatch /\ stop_requested' = stop_requested
        /\ index[t] \in 1..(Len(Batch) + 1) /\ Len(Batch) \in Nat
        /\ replaying <=> busy(t)
        /\ replayed = position_of(t)
        /\ replaying' <=> busy(t)'
        /\ replayed' = position_of(t)'
    BY WorkerPosition
  <1>2. ASSUME busy(t) <=> busy(t)', position_of(t) = position_of(t)', published' = published
        PROVE  Mapped
    <2>1. UNCHANGED <<replaying, replayed>>
      <3>1. replaying' <=> replaying
        BY <1>1, <1>2
      <3> QED
        BY <1>1, <1>2, <3>1 DEF replaying
    <2> QED
      BY <1>1, <1>2, <2>1 DEF Mapped, BatchReplay!vars
  <1> USE DEF local_vars, output_vars, advance
  <1>3. CASE run_scenario(t)
    BY <1>3, RunMaps DEF Mapped, BatchReplay!Next
  <1>4. CASE publish_failure(t)
    <2> DEFINE x == [by |-> t, scenario |-> NoScenario, event |-> "offline_worker_failure",
                     shot |-> shot[t], late |-> FALSE, stopping |-> Stopping]
    <2>1. published \in Seq(Entry) /\ x \in Entry /\ entry_of(x) = Failure
      BY <1>1 DEF TypeOK, Entry, PublishedEvents, entry_of, Stopping
    <2>2. published' = Append(published, x)
      BY <1>4 DEF publish_failure, publish
    <2> HIDE DEF x
    <2>3. logged' = Append(logged, Failure)
      BY <2>1, <2>2, LogAppends
    <2>4. loop[t] = "failed" /\ loop'[t] = "record"
      BY <1>1, <1>4 DEF publish_failure, TypeOK
    <2>5. busy(t) /\ ~ busy(t)' /\ position_of(t)' = 0
      BY <2>4 DEF busy, position_of
    <2>6. replaying /\ replaying' = FALSE /\ replayed' = 0
      BY <1>1, <2>5 DEF replaying
    <2>7. BatchReplay!Fail
      BY <1>1, <2>3, <2>6 DEF BatchReplay!Fail, BatchReplay!over, logged
    <2> QED
      BY <2>7 DEF Mapped, BatchReplay!Next
  <1>5. CASE for_each_scenario(t) /\ loop'[t] = "finish"
    <2>1. /\ published' = published /\ loop[t] = "next"
          /\ stop_requested \/ index[t] > Len(Batch)
      BY <1>1, <1>5 DEF for_each_scenario, interrupted, TypeOK
    <2>2. /\ busy(t) /\ position_of(t) = index[t] - 1
          /\ ~ busy(t)' /\ position_of(t)' = 0
      BY <1>1, <1>5, <2>1 DEF busy, position_of
    <2>3. replaying /\ replaying' = FALSE /\ replayed' = 0
      BY <1>1, <2>2 DEF replaying
    <2>4. stop_requested \/ replayed = Len(Batch)
      BY <1>1, <2>1, <2>2
    <2>5. BatchReplay!End
      BY <1>1, <2>1, <2>3, <2>4 DEF BatchReplay!End, BatchReplay!over
    <2> QED
      BY <2>5 DEF Mapped, BatchReplay!Next
  <1>6. CASE note_calibration(t)
    <2>1. /\ published' = published /\ loop[t] = "note" /\ loop'[t] = "next"
          /\ index'[t] = index[t] + 1
      BY <1>1, <1>6 DEF note_calibration, next_index, TypeOK
    <2>2. /\ busy(t) /\ position_of(t) = index[t]
          /\ busy(t)' /\ position_of(t)' = index[t]
      BY <1>1, <2>1 DEF busy, position_of
    <2> QED
      BY <1>2, <2>1, <2>2
  <1>7. CASE finish_batch(t) \/ record_failure(t)
    <2>1. /\ published' = published
          /\ loop[t] \in {"finish", "record"} /\ loop'[t] = "done"
      BY <1>1, <1>7 DEF finish_batch, record_failure, TypeOK
    <2>2. ~ busy(t) /\ ~ busy(t)' /\ position_of(t) = 0 /\ position_of(t)' = 0
      BY <2>1 DEF busy, position_of
    <2> QED
      BY <1>2, <2>1, <2>2
  <1>8. CASE \/ list_scenarios(t) \/ throws(t) \/ (for_each_scenario(t) /\ loop'[t] # "finish")
             \/ load_scenario(t) \/ read_shot_sequence(t) \/ set_options(t)
    <2>1. /\ UNCHANGED <<published, index>>
          /\ loop[t] \in {"list", "next", "load", "options", "number", "run"}
          /\ loop'[t] \in {"next", "load", "options", "number", "run", "failed"}
      BY <1>1, <1>8
         DEF list_scenarios, throws, for_each_scenario, load_scenario, read_shot_sequence, set_options, TypeOK
    <2>2. busy(t) /\ busy(t)' /\ position_of(t) = index[t] - 1 /\ position_of(t)' = index[t] - 1
      BY <1>1, <2>1 DEF busy, position_of
    <2> QED
      BY <1>2, <2>1, <2>2
  <1> QED
    BY <1>3, <1>4, <1>5, <1>6, <1>7, <1>8 DEF worker_loop

\* calibrate and the callback concern no batch.
LEMMA OthersMap ==
    ASSUME \/ \E h \in Handlers :
                calibrate_rejected(h) \/ \E camera \in Cameras : calibrate_accepted(h, camera)
           \/ error_callback
           \/ UNCHANGED vars
    PROVE  Mapped
  <1>1. UNCHANGED <<stop_requested, loop, index, published>>
    BY DEF calibrate_rejected, calibrate_accepted, error_callback, vars, worker_local, local_vars, output_vars
  <1>2. UNCHANGED <<replaying, replayed>>
    BY <1>1 DEF replaying, replayed, busy
  <1> QED
    BY <1>1, <1>2 DEF Mapped, BatchReplay!vars

\* As long as starts do not overlap every step is one of the replay, or none.
LEMMA StepMaps == RefInv /\ [Next]_vars => (StartsApart' => [BatchReplay!Next]_(BatchReplay!vars))
  <1> SUFFICES ASSUME RefInv, [Next]_vars, StartsApart' PROVE Mapped
    BY DEF Mapped
  <1>1. IInv /\ StartsApart
    BY StartsApartBefore DEF RefInv
  <1> QED
    BY <1>1, CommandsMap, WorkerMaps, OthersMap DEF Next

(* Until two starts overlap, every behaviour of the controller, however      *)
(* stops, calibrates, the worker and callbacks interleave, is one of the     *)
(* replay of batches.                                                        *)
THEOREM ControllerReplaysBatches == Spec => ImplementsBatchReplay
  <1>1. Init => RefInv
    BY InitInv DEF Init, RefInv
  <1>2. Init => BatchReplay!Init
    BY DEF Init, BatchReplay!Init, replaying, replayed, busy
  <1> DEFINE Step == StartsApart' => [BatchReplay!Next]_(BatchReplay!vars)
  <1>3. RefInv /\ [Next]_vars => RefInv' /\ [Step]_vars
    BY StepKeepsRef, StepMaps
  <1> QED
    BY <1>1, <1>2, <1>3, PTL DEF Spec, ImplementsBatchReplay
-----------------------------------------------------------------------------
(* The order needs to know where the log ends while a batch is replayed: with *)
(* the scenario at its position, if it has begun.                            *)
AllEntries == {Failure} \cup UNION {BatchReplay!Entries(k) : k \in 1..Len(Batch)}

InOrder ==
    \A i \in 1..Len(logged) :
        logged[i] # Failure =>
            \E k \in 1..Len(Batch) :
                /\ logged[i].scenario = Batch[k]
                /\ k > 1 => i > 1 /\ logged[i - 1] # Failure /\ logged[i - 1].scenario = Batch[k - 1]

ReplayInv ==
    /\ logged \in Seq(AllEntries)
    /\ replayed \in 0..Len(Batch)
    /\ ~ replaying => replayed = 0
    /\ replayed > 0 =>
        Len(logged) > 0 /\ logged[Len(logged)] # Failure /\ logged[Len(logged)].scenario = Batch[replayed]
    /\ InOrder

\* The log grows by one entry that may follow its last one.
LEMMA LogGrows ==
    ASSUME ReplayInv, NEW entry \in AllEntries,
           logged' = Append(logged, entry),
           entry # Failure =>
               \E k \in 1..Len(Batch) :
                   /\ entry.scenario = Batch[k]
                   /\ k > 1 => Len(logged) > 0 /\ logged[Len(logged)] # Failure
                                /\ logged[Len(logged)].scenario = Batch[k - 1]
    PROVE  /\ logged' \in Seq(AllEntries)
           /\ Len(logged') = Len(logged) + 1 /\ logged'[Len(logged')] = entry
           /\ InOrder'
  <1>1. logged \in Seq(AllEntries) /\ entry \in AllEntries
    BY DEF ReplayInv
  <1>2. PICK n \in Nat : n = Len(logged)
    BY <1>1
  <1>3. /\ logged' \in Seq(AllEntries)
        /\ Len(logged') = n + 1
        /\ \A i \in 1..n : logged'[i] = logged[i]
        /\ logged'[n + 1] = entry
    BY <1>1, <1>2, AppendProperties
  <1>4. ASSUME NEW i \in 1..(n + 1), logged'[i] # Failure
        PROVE  \E k \in 1..Len(Batch) :
                /\ logged'[i].scenario = Batch[k]
                /\ k > 1 => i > 1 /\ logged'[i - 1] # Failure /\ logged'[i - 1].scenario = Batch[k - 1]
    <2>1. CASE i \in 1..n
      <3>1. PICK k \in 1..Len(Batch) :
              /\ logged[i].scenario = Batch[k]
              /\ k > 1 => i > 1 /\ logged[i - 1] # Failure /\ logged[i - 1].scenario = Batch[k - 1]
        BY <1>2, <1>3, <1>4, <2>1 DEF ReplayInv, InOrder
      <3>2. i > 1 => logged'[i - 1] = logged[i - 1]
        BY <1>3, <2>1
      <3>3. logged'[i] = logged[i]
        BY <1>3, <2>1
      <3> QED
        BY <3>1, <3>2, <3>3
    <2>2. CASE i = n + 1
      <3>1. PICK k \in 1..Len(Batch) :
              /\ entry.scenario = Batch[k]
              /\ k > 1 => n > 0 /\ logged[n] # Failure /\ logged[n].scenario = Batch[k - 1]
        BY <1>2, <1>3, <1>4, <2>2
      <3>2. n > 0 => logged'[n] = logged[n]
        BY <1>3
      <3>3. i - 1 = n /\ (n > 0 => i > 1)
        BY <2>2
      <3>4. logged'[i] = entry
        BY <1>3, <2>2
      <3>5. k > 1 => i > 1 /\ logged'[i - 1] # Failure /\ logged'[i - 1].scenario = Batch[k - 1]
        BY <3>1, <3>2, <3>3
      <3> QED
        BY <3>1, <3>4, <3>5
    <2> QED
      BY <1>2, <2>1, <2>2
  <1>5. InOrder'
    BY <1>3, <1>4 DEF InOrder
  <1> QED
    BY <1>2, <1>3, <1>5

\* A step of the replay.
LEMMA ReplayStep ==
    ASSUME ReplayInv, [BatchReplay!Next]_(BatchReplay!vars)
    PROVE  ReplayInv'
  <1>1. CASE UNCHANGED <<replaying, replayed, logged>>
    BY <1>1 DEF ReplayInv, InOrder
  <1>2. CASE BatchReplay!Ask
    BY <1>1, <1>2 DEF BatchReplay!Ask, logged
  <1>3. CASE BatchReplay!Begin
    <2>1. ~ replaying /\ replaying' /\ UNCHANGED <<replayed, logged>>
      BY <1>3 DEF BatchReplay!Begin, logged
    <2> QED
      BY <2>1 DEF ReplayInv, InOrder
  <1>4. CASE BatchReplay!Publish
    <2> DEFINE entry == logged'[Len(logged')]
    <2>0. /\ replaying /\ replayed < Len(Batch) /\ replayed' = replayed + 1 /\ replaying' = replaying
          /\ logged' = Append(logged, entry)
          /\ entry \in BatchReplay!Entries(replayed') /\ entry # Failure
      BY <1>4 DEF BatchReplay!Publish, logged
    <2>1. /\ replayed' = replayed + 1 /\ replayed' \in 1..Len(Batch)
          /\ replaying' = replaying /\ replaying
          /\ logged' = Append(logged, entry)
          /\ entry \in BatchReplay!Entries(replayed') /\ entry # Failure
      BY <2>0 DEF ReplayInv
    <2> HIDE DEF entry
    <2>2. entry.scenario = Batch[replayed']
      BY <2>1 DEF BatchReplay!Entries
    <2>3. replayed' > 1 =>
            Len(logged) > 0 /\ logged[Len(logged)] # Failure /\ logged[Len(logged)].scenario = Batch[replayed' - 1]
      BY <2>1 DEF ReplayInv
    <2>4. entry \in AllEntries
      BY <2>1 DEF AllEntries
    <2>5. /\ logged' \in Seq(AllEntries)
          /\ Len(logged') = Len(logged) + 1 /\ logged'[Len(logged')] = entry
          /\ InOrder'
      BY <2>1, <2>2, <2>3, <2>4, LogGrows
    <2>6. Len(logged) \in Nat
      BY LenProperties DEF ReplayInv
    <2> QED
      BY <2>1, <2>2, <2>5, <2>6 DEF ReplayInv
  <1>5. CASE BatchReplay!Fail
    <2>1. /\ logged' \in Seq(AllEntries)
          /\ InOrder'
      <3>1. Failure \in AllEntries
        BY DEF AllEntries
      <3>2. logged' = Append(logged, Failure)
        BY <1>5 DEF BatchReplay!Fail, logged
      <3> QED
        BY <3>1, <3>2, LogGrows
    <2> QED
      BY <1>5, <2>1 DEF BatchReplay!Fail, BatchReplay!over, ReplayInv
  <1>6. CASE BatchReplay!End
    <2>1. ~ replaying' /\ replayed' = 0 /\ logged' = logged
      BY <1>6 DEF BatchReplay!End, BatchReplay!over, logged
    <2> QED
      BY <2>1 DEF ReplayInv, InOrder
  <1> QED
    BY <1>1, <1>2, <1>3, <1>4, <1>5, <1>6 DEF BatchReplay!Next, BatchReplay!vars, logged

LEMMA ReplayInitially == BatchReplay!Init => ReplayInv
  <1>1. BatchReplay!Init => replaying = FALSE /\ replayed = 0 /\ logged = <<>>
    BY DEF BatchReplay!Init, logged
  <1> QED
    BY <1>1, EmptySeq DEF ReplayInv, InOrder

LEMMA ReplayInvMeansOrder == ReplayInv => BatchReplay!ScenariosInOrder
  BY DEF ReplayInv, InOrder, BatchReplay!ScenariosInOrder, logged

(* Whatever batches are replayed, fail or are stopped, what is published is   *)
(* a sequence of beginnings of the batch, one after the other.                *)
THEOREM ReplayKeepsOrder == BatchReplay!Spec => []BatchReplay!ScenariosInOrder
  <1>1. ReplayInv /\ [BatchReplay!Next]_(BatchReplay!vars) => ReplayInv'
    BY ReplayStep
  <1> QED
    BY <1>1, ReplayInitially, ReplayInvMeansOrder, PTL DEF BatchReplay!Spec

(* As long as starts do not overlap, what the service publishes is a         *)
(* sequence of beginnings of the batch: no two batches mix and no scenario   *)
(* is left out or repeated, for every number of HTTP threads and of workers. *)
THEOREM ScenariosStayInOrder == Spec => []ScenariosInOrder
  <1> DEFINE OrderInv == RefInv /\ (StartsApart => ReplayInv)
  <1>1. Init => OrderInv
    <2>1. Init => RefInv
      BY InitInv DEF Init, RefInv
    <2>2. Init => BatchReplay!Init
      BY DEF Init, BatchReplay!Init, replaying, replayed, busy
    <2> QED
      BY <2>1, <2>2, ReplayInitially
  <1>2. OrderInv /\ [Next]_vars => OrderInv'
    <2> SUFFICES ASSUME OrderInv, [Next]_vars PROVE OrderInv'
      OBVIOUS
    <2>1. RefInv'
      BY StepKeepsRef
    <2>2. ASSUME StartsApart' PROVE ReplayInv'
      <3>1. ReplayInv
        BY <2>2, StartsApartBefore DEF RefInv
      <3>2. [BatchReplay!Next]_(BatchReplay!vars)
        BY <2>2, StepMaps
      <3> QED
        BY <3>1, <3>2, ReplayStep
    <2> QED
      BY <2>1, <2>2
  <1>3. OrderInv => ScenariosInOrder
    BY ReplayInvMeansOrder DEF ScenariosInOrder
  <1> QED
    BY <1>1, <1>2, <1>3, PTL DEF Spec
=============================================================================
