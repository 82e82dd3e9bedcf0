------------------------- MODULE VisionService_proofs -------------------------
(***************************************************************************)
(* What the controller and the publisher guarantee once they are put        *)
(* together, for any number of threads, scenarios, attempts and launches,   *)
(* with the process killed at any moment.                                   *)
(***************************************************************************)
EXTENDS VisionService, ServiceController_proofs, FiniteSetTheorems

USE ServiceAssumption DEF ServiceAssumption

-----------------------------------------------------------------------------
(* The publisher. *)

\* What is proved of the publisher by itself.
Proved == INSTANCE EventPublisher_proofs WITH
    Events <- ServiceEvents, Producers <- Threads,
    stop_requested <- p_stop_requested, last_error <- p_last_error, worker <- p_worker

\* The steps the service takes of the publisher.
PublisherSteps ==
    \/ Publisher!start \/ Publisher!stop_request \/ Publisher!stop
    \/ \E t \in Threads :
        Publisher!enqueue_notify(t) \/ \E e \in ServiceEvents : Publisher!enqueue_push(t, e)
    \/ Publisher!worker_loop
    \/ Publisher!spurious_wakeup
    \/ \E copy \in in_flight : Publisher!record_late(copy)

LEMMA SameCardinality ==
    \A S : Publisher!Cardinality(S) = Cardinality(S) /\ Proved!Cardinality(S) = Cardinality(S)
  BY DEF Publisher!Cardinality, Proved!Cardinality, Cardinality

\* The publisher of the service is the one of EventPublisher.
LEMMA SamePublisher ==
    /\ PublisherSteps => Proved!Next
    /\ Publisher!Init <=> Proved!Init
    /\ Publisher!EveryLossReported <=> Proved!EveryLossReported
  <1>1. PublisherSteps => Proved!Next
    BY DEF PublisherSteps, Proved!Next,
           Publisher!start, Proved!start, Publisher!stop_request, Proved!stop_request,
           Publisher!stop, Proved!stop, Publisher!stop_notify, Proved!stop_notify,
           Publisher!stop_join, Proved!stop_join, Publisher!stop_close, Proved!stop_close,
           Publisher!enqueue_notify, Proved!enqueue_notify, Publisher!enqueue_push,
           Proved!enqueue_push, Publisher!worker_loop, Proved!worker_loop, Publisher!worker_wait,
           Proved!worker_wait, Publisher!worker_exit, Proved!worker_exit, Publisher!worker_take,
           Proved!worker_take, Publisher!post_succeeds, Proved!post_succeeds, Publisher!post_fails,
           Proved!post_fails, Publisher!post_throws, Proved!post_throws, Publisher!give_up,
           Proved!give_up, Publisher!call_back, Proved!call_back, Publisher!spurious_wakeup,
           Proved!spurious_wakeup, Publisher!record_late, Proved!record_late, Publisher!woken,
           Proved!woken, Publisher!pushed, Proved!pushed, Publisher!wake_condition,
           Proved!wake_condition, Publisher!must_exit, Proved!must_exit, Publisher!try_again,
           Proved!try_again, Publisher!settle, Proved!settle, Publisher!after_post,
           Proved!after_post, Publisher!owner_vars, Proved!owner_vars, Publisher!post_vars,
           Proved!post_vars, Publisher!report_vars, Proved!report_vars, Publisher!enqueue_vars,
           Proved!enqueue_vars
  <1>2. Publisher!Init <=> Proved!Init
    BY DEF Publisher!Init, Proved!Init
  <1>3. Publisher!EveryLossReported <=> Proved!EveryLossReported
    <2>1. Publisher!Lost = Proved!Lost
      BY DEF Publisher!Lost, Proved!Lost
    <2> QED
      BY <2>1, SameCardinality DEF Publisher!EveryLossReported, Proved!EveryLossReported
  <1> QED
    BY <1>1, <1>2, <1>3

\* The queue, the verdicts and the reports.
QInv == Proved!QueueInv /\ Proved!EveryLossReported

LEMMA PublisherKeepsQueue ==
    ASSUME QInv, PublisherSteps
    PROVE  QInv'
  <1>1. Proved!Next
    BY SamePublisher
  <1>2. Proved!TypeOK /\ Proved!WorkerDiscipline
    BY DEF QInv, Proved!QueueInv
  <1> QED
    BY <1>1, <1>2, Proved!QueueInvInductive, Proved!LossesStayReported DEF QInv

\* A step that is none of the publisher's.
LEMMA PublisherRests ==
    ASSUME QInv, UNCHANGED publisher_vars, alive' \in BOOLEAN
    PROVE  QInv'
  BY DEF QInv, publisher_vars, Proved!QueueInv, Proved!TypeOK, Proved!WorkerDiscipline,
         Proved!EveryEventAccounted, Proved!Drained, Proved!EveryLossReported, Proved!Lost, Proved!held
-----------------------------------------------------------------------------
(* The thread of main. *)

\* A thread that an overlapping start has left behind may be all that is left.
NoWorker == worker = NoThread /\ (StartsApart => \A t \in Threads : ~ live(t))

\* What main has done, and what it has not done yet.
MainInv ==
    /\ main \in Places
    /\ run \in 1..MaxRuns
    /\ main # "listen" => \A h \in Clients : at[h] = "idle"
    /\ main # "stopping controller" => at[Main] = "idle"
    /\ main \in {"construct", "bind", "publisher", "stopping publisher", "exited"} => NoWorker
    /\ main = "stopping controller" =>
        /\ at[Main] \in {"joinable", "join", "joining", "finish", "idle"}
        /\ at[Main] # "idle" => command[Main] = "stop"
        /\ at[Main] \in {"join", "joining"} => worker # NoThread
        /\ at[Main] \in {"finish", "idle"} => worker = NoThread

\* The publisher as main knows it.
OwnerInv ==
    /\ owner # "idle" => main = "stopping publisher"
    /\ main \in {"construct", "exited"} => ~ started /\ (StartsApart => promised = Len(published))
    /\ main \in {"bind", "listen", "controller", "stopping controller", "publisher"} => started
    /\ main = "stopping publisher" =>
        /\ StartsApart => promised = Len(published)
        /\ owner = "idle" => ~ started

\* What is published is accepted, and notified before the worker goes on.
HandOver ==
    /\ Len(accepted) = Len(published)
    /\ \A i \in 1..Len(accepted) : accepted[i] = <<run, i>>
    /\ \A t \in Threads : producing[t] = "notify" => live(t)
    /\ send_errors = reported

SInv == IInv /\ QInv /\ MainInv /\ OwnerInv /\ HandOver

\* The first launch, and each later one.
Fresh ==
    /\ Init
    /\ queue = <<>> /\ started = FALSE /\ p_stop_requested = FALSE /\ p_last_error = "none"
    /\ owner = "idle" /\ p_worker = "none" /\ current = NoEvent /\ attempt = 0
    /\ producing = [t \in Threads |-> "idle"] /\ reported = 0
    /\ accepted = <<>> /\ settled = <<>> /\ promised = 0

\* A launch begins with what holds of it.
LEMMA FreshSInv ==
    ASSUME Fresh, main = "construct", run \in 1..MaxRuns,
           received \in Seq(ServiceEvents),
           in_flight \subseteq ServiceEvents \X (0..post_retry_count)
    PROVE  SInv
  <1>1. IInv
    BY InitInv DEF Fresh
  <1>2. QInv
    <2>1. Proved!TypeOK
      <3>1. /\ queue \in Seq(ServiceEvents) /\ accepted \in Seq(ServiceEvents)
            /\ settled \in Seq([event : ServiceEvents, delivered : BOOLEAN])
        BY EmptySeq DEF Fresh
      <3>2. producing \in [Threads -> {"idle", "notify"}]
        BY DEF Fresh
      <3>3. /\ started \in BOOLEAN /\ p_stop_requested \in BOOLEAN /\ alive \in BOOLEAN
            /\ current \in ServiceEvents \cup {NoEvent}
            /\ p_last_error \in {"none", "empty", "failure"}
            /\ owner \in {"idle", "notify", "join", "close"}
            /\ p_worker \in {"none", "test", "waiting", "post", "callback", "exited"}
        BY DEF Fresh, Init
      <3>4. attempt \in 0..post_retry_count /\ promised \in Nat /\ reported \in Nat
        BY DEF Fresh
      <3> QED
        BY <3>1, <3>2, <3>3, <3>4 DEF Proved!TypeOK
    <2>2. Proved!EveryLossReported
      BY FS_EmptySet, SameCardinality DEF Fresh, Proved!EveryLossReported, Proved!Lost
    <2> QED
      BY <2>1, <2>2 DEF Fresh, QInv, Proved!QueueInv, Proved!WorkerDiscipline,
             Proved!EveryEventAccounted, Proved!Drained, Proved!held
  <1>3. MainInv
    BY DEF Fresh, Init, MainInv, Places, NoWorker, live, Clients
  <1>4. OwnerInv /\ HandOver
    BY DEF Fresh, Init, OwnerInv, HandOver
  <1> QED
    BY <1>1, <1>2, <1>3, <1>4 DEF SInv
-----------------------------------------------------------------------------
(* Commands *)

\* A command publishes nothing, ends no thread and leaves other commands alone.
LEMMA CommandFrame ==
    ASSUME IInv, NEW h \in Handlers, start_check(h) \/ stop_request(h) \/ command_step(h)
    PROVE  /\ UNCHANGED <<published, send_errors>>
           /\ alive
           /\ \A k \in Handlers \ {h} : at'[k] = at[k] /\ command'[k] = command[k]
           /\ \A t \in Threads : live(t) => live(t)'
           /\ StartsApart' => StartsApart
  <1>1. /\ UNCHANGED <<published, send_errors>>
        /\ alive
        /\ \A t \in Threads : live(t) => live(t)'
        /\ StartsApart' => StartsApart
    BY CommandsPublishNothing DEF IInv, output_vars, live, StartsApart
  <1>2. \A k \in Handlers \ {h} : at'[k] = at[k] /\ command'[k] = command[k]
    BY DEF IInv, TypeOK, go, leave, handler_vars, start_check, stop_request, command_step, check_joinable,
           join_begins, join_throws, join_returns, start_arm, start_spawn, start_spawn_fails,
           start_assign, start_terminates, start_store, stop_finish
  <1> QED
    BY <1>1, <1>2

\* What a step that leaves the publisher and main alone must not change.
LEMMA ControllerStep ==
    ASSUME SInv, IInv', UNCHANGED <<main_vars, publisher_vars, published, send_errors>>, alive,
           \A t \in Threads : live(t) => live(t)', StartsApart' => StartsApart,
           MainInv'
    PROVE  SInv'
  <1>1. QInv'
    <2>1. alive' \in BOOLEAN
      BY DEF IInv, TypeOK
    <2> QED
      BY <2>1, PublisherRests DEF SInv
  <1>2. OwnerInv' /\ HandOver'
    BY DEF SInv, OwnerInv, HandOver, publisher_vars, main_vars
  <1> QED
    BY <1>1, <1>2 DEF SInv

\* A thread of the server runs commands while main listens.
LEMMA ClientsKeepSInv ==
    ASSUME SInv, NEW h \in Clients, request(h) \/ carry_on(h)
    PROVE  SInv'
  <1>1. h \in Handlers /\ h # Main
    BY DEF Clients
  <1>2. main = "listen" /\ UNCHANGED <<main_vars, publisher_vars>>
    <2>1. CASE request(h)
      BY <2>1 DEF request
    <2>2. CASE carry_on(h)
      <3>1. at[h] # "idle"
        BY <2>2 DEF carry_on, command_step, check_joinable, join_begins, join_throws, join_returns,
                    start_arm, start_spawn, start_spawn_fails, start_assign, start_terminates,
                    start_store, stop_finish
      <3> QED
        BY <2>2, <3>1 DEF carry_on, SInv, MainInv
    <2> QED
      BY <2>1, <2>2
  <1>3. CASE start_check(h) \/ stop_request(h) \/ command_step(h)
    <2>1. IInv'
      BY <1>1, <1>3, CommandsKeepWorker DEF SInv
    <2>2. MainInv'
      BY <1>1, <1>2, <1>3, CommandFrame DEF SInv, MainInv, main_vars
    <2> QED
      BY <1>1, <1>2, <1>3, <2>1, <2>2, CommandFrame, ControllerStep DEF SInv
  <1>4. CASE calibrate_rejected(h) \/ \E camera \in Cameras : calibrate_accepted(h, camera)
    <2>1. IInv'
      BY <1>1, <1>4, OthersKeepWorker DEF SInv
    <2>2. alive /\ UNCHANGED <<at, loop, published, send_errors>>
      BY <1>4 DEF calibrate_rejected, calibrate_accepted, handler_vars, worker_local, output_vars
    <2>3. MainInv'
      BY <1>2, <2>2 DEF SInv, MainInv, main_vars
    <2>4. StartsApart' => StartsApart
      BY <1>4 DEF calibrate_rejected, calibrate_accepted, handler_vars, history_vars, StartsApart
    <2> QED
      BY <1>2, <2>1, <2>2, <2>3, <2>4, ControllerStep DEF live
  <1> QED
    BY <1>3, <1>4 DEF request, carry_on

\* The stop of the destructor joins the worker: nobody else can be joining it.
LEMMA MainStopKeepsSInv ==
    ASSUME SInv, carry_on(Main)
    PROVE  SInv'
  <1>1. Main \in Handlers /\ command_step(Main) /\ UNCHANGED <<main_vars, publisher_vars>>
    BY DEF carry_on
  <1>2. /\ main = "stopping controller" /\ main' = main /\ run' = run
        /\ command[Main] = "stop"
        /\ \A k \in Handlers \ {Main} : at[k] = "idle"
        /\ at[Main] # "idle"
    <2>1. at[Main] # "idle"
      BY <1>1 DEF command_step, check_joinable, join_begins, join_throws, join_returns,
                  start_arm, start_spawn, start_spawn_fails, start_assign, start_terminates,
                    start_store, stop_finish
    <2> QED
      BY <1>1, <2>1 DEF SInv, MainInv, main_vars, Clients
  <1>3. IInv'
    BY <1>1, CommandsKeepWorker DEF SInv
  <1>4. \A k \in Clients : at'[k] = "idle"
    BY <1>1, <1>2, CommandFrame DEF SInv, Clients
  <1>5. /\ at'[Main] \in {"join", "joining", "finish", "idle"}
        /\ at'[Main] # "idle" => command'[Main] = "stop"
        /\ at'[Main] \in {"join", "joining"} => worker' # NoThread
        /\ at'[Main] \in {"finish", "idle"} => worker' = NoThread
    <2> USE DEF go, leave, after_join, joinable, SInv, MainInv, IInv, TypeOK
    <2>1. CASE check_joinable(Main)
      BY <1>1, <1>2, <2>1 DEF check_joinable
    <2>2. CASE join_begins(Main)
      BY <1>1, <1>2, <2>2 DEF join_begins
    <2>3. CASE join_throws(Main)
      BY <1>1, <1>2, <2>3 DEF join_throws, join_refused
    <2>4. CASE join_returns(Main)
      BY <1>1, <1>2, <2>4 DEF join_returns
    <2>5. CASE \/ start_arm(Main) \/ start_spawn(Main) \/ start_spawn_fails(Main)
               \/ start_assign(Main) \/ start_terminates(Main) \/ start_store(Main)
      BY <1>1, <1>2, <2>5 DEF start_arm, start_spawn, start_spawn_fails, start_assign, start_terminates, start_store
    <2>6. CASE stop_finish(Main)
      BY <1>1, <1>2, <2>6 DEF stop_finish
    <2> QED
      BY <1>1, <2>1, <2>2, <2>3, <2>4, <2>5, <2>6 DEF command_step
  <1>6. MainInv'
    BY <1>2, <1>4, <1>5 DEF SInv, MainInv
  <1> QED
    BY <1>1, <1>3, <1>6, CommandFrame, ControllerStep DEF SInv
-----------------------------------------------------------------------------
(* The worker and the publisher *)

\* A worker publishes at most one event, and is not done then.
LEMMA WorkerFrame ==
    ASSUME IInv, NEW t \in Threads, worker_loop(t)
    PROVE  /\ UNCHANGED <<at, command, crossed, worker, alive, send_errors>>
           /\ alive /\ live(t)
           /\ \A u \in Threads \ {t} : loop'[u] = loop[u]
           /\ \/ published' = published
              \/ Len(published') = Len(published) + 1 /\ live(t)'
  <1> USE DEF local_vars, output_vars, handler_vars, history_vars, advance, live, IInv, TypeOK
  <1>1. CASE run_scenario(t) \/ publish_failure(t)
    BY <1>1 DEF run_scenario, publish_failure, publish
  <1>2. CASE ~ (run_scenario(t) \/ publish_failure(t))
    BY <1>2 DEF worker_loop, list_scenarios, throws, for_each_scenario, load_scenario,
                read_shot_sequence, set_options, note_calibration, finish_batch, record_failure
  <1> QED
    BY <1>1, <1>2

\* What a worker publishes is accepted in the same place of the order.
LEMMA WorkKeepsSInv ==
    ASSUME SInv, NEW t \in Threads, work(t)
    PROVE  SInv'
  <1>1. worker_loop(t) /\ producing[t] = "idle" /\ UNCHANGED main_vars /\ IInv /\ QInv
    BY DEF work, SInv
  <1>2. IInv'
    BY <1>1, WorkerKeepsWorker
  <1>3. /\ UNCHANGED <<at, command, crossed, worker, alive, send_errors>>
        /\ alive /\ live(t)
        /\ \A u \in Threads \ {t} : loop'[u] = loop[u]
    BY <1>1, WorkerFrame
  <1>4. StartsApart => main \notin {"construct", "bind", "publisher", "stopping publisher", "exited"}
    BY <1>3 DEF SInv, MainInv, NoWorker
  <1>5. MainInv' /\ (StartsApart' <=> StartsApart)
    BY <1>1, <1>3, <1>4 DEF SInv, MainInv, NoWorker, main_vars, StartsApart
  <1>6. CASE published' = published
    <2>1. UNCHANGED publisher_vars
      BY <1>6, SMT DEF work, enqueue_event
    <2>2. QInv'
      BY <1>1, <1>3, <2>1, PublisherRests DEF IInv, TypeOK
    <2>3. OwnerInv' /\ HandOver'
      BY <1>1, <1>3, <1>5, <1>6, <2>1 DEF SInv, OwnerInv, HandOver, publisher_vars, main_vars, live
    <2> QED
      BY <1>2, <1>5, <2>2, <2>3 DEF SInv
  <1>7. CASE Len(published') = Len(published) + 1 /\ live(t)'
    <2> DEFINE n == Len(published) + 1
    <2>1. Len(published) \in Nat
      BY <1>1 DEF IInv, TypeOK
    <2>2. Publisher!enqueue_push(t, <<run, n>>)
      BY <1>7, <2>1, SMT DEF work, enqueue_event
    <2>3. <<run, n>> \in ServiceEvents
      <3>1. run \in 1..MaxRuns
        BY DEF SInv, MainInv
      <3>2. n \in Nat
        BY <2>1
      <3> HIDE DEF n
      <3> QED
        BY <3>1, <3>2 DEF ServiceEvents
    <2>4. QInv'
      BY <1>1, <2>2, <2>3, PublisherKeepsQueue DEF PublisherSteps
    <2>5. /\ accepted' = Append(accepted, <<run, n>>)
          /\ producing' = [producing EXCEPT ![t] = "notify"]
          /\ UNCHANGED <<owner, started, promised, reported>>
      BY <2>2 DEF Publisher!enqueue_push, Publisher!owner_vars, Publisher!report_vars
    <2>6. accepted \in Seq(ServiceEvents) /\ Len(accepted) = Len(published)
      BY <1>1 DEF QInv, Proved!QueueInv, Proved!TypeOK, SInv, HandOver
    <2>7. /\ Len(accepted') = n
          /\ \A i \in 1..(n - 1) : accepted'[i] = accepted[i]
          /\ accepted'[n] = <<run, n>>
      BY <2>1, <2>5, <2>6
    <2>8. \A i \in 1..Len(accepted') : accepted'[i] = <<run', i>>
      BY <1>1, <2>1, <2>6, <2>7 DEF SInv, HandOver, main_vars
    <2>9. \A u \in Threads : producing'[u] = "notify" => live(u)'
      BY <1>1, <1>3, <1>7, <2>5 DEF SInv, HandOver, live
    <2>10. OwnerInv' /\ HandOver'
      BY <1>1, <1>3, <1>4, <1>5, <1>7, <2>5, <2>7, <2>8, <2>9 DEF SInv, OwnerInv, HandOver, main_vars
    <2> QED
      BY <1>2, <1>5, <2>4, <2>10 DEF SInv
  <1> QED
    BY <1>1, <1>6, <1>7, WorkerFrame

\* The publisher's steps touch nothing else the invariant is about.
LEMMA PublisherFrame ==
    ASSUME \/ Publisher!worker_loop \/ Publisher!spurious_wakeup
           \/ (\E copy \in in_flight : Publisher!record_late(copy))
           \/ (\E t \in Threads : Publisher!enqueue_notify(t))
    PROVE  /\ UNCHANGED <<owner, started, promised, accepted>>
           /\ Publisher!worker_loop \/ reported' = reported
  <1> USE DEF Publisher!owner_vars, Publisher!report_vars, Publisher!enqueue_vars
  <1>1. CASE Publisher!worker_loop
    BY <1>1 DEF Publisher!worker_loop, Publisher!worker_wait, Publisher!worker_exit, Publisher!worker_take,
                Publisher!post_succeeds, Publisher!post_fails, Publisher!post_throws,
                Publisher!give_up, Publisher!call_back
  <1>2. CASE Publisher!spurious_wakeup
    BY <1>2 DEF Publisher!spurious_wakeup
  <1>3. ASSUME NEW copy \in in_flight, Publisher!record_late(copy)
        PROVE  UNCHANGED <<owner, started, promised, accepted, reported>>
    BY <1>3 DEF Publisher!record_late
  <1>4. ASSUME NEW t \in Threads, Publisher!enqueue_notify(t)
        PROVE  UNCHANGED <<owner, started, promised, accepted, reported>>
    BY <1>4 DEF Publisher!enqueue_notify
  <1> QED
    BY <1>1, <1>2, <1>3, <1>4

\* Only the callback reports, and then only that.
LEMMA PostFrame ==
    ASSUME Publisher!worker_loop, QInv
    PROVE  /\ producing' = producing
           /\ p_worker = "callback" => reported' = reported + 1 /\ alive' = alive
           /\ p_worker # "callback" => reported' = reported /\ (alive' => alive)
           /\ alive' \in BOOLEAN
  <1> USE DEF Publisher!owner_vars, Publisher!report_vars, Publisher!enqueue_vars
  <1>1. CASE Publisher!call_back
    BY <1>1 DEF Publisher!call_back, QInv, Proved!QueueInv, Proved!TypeOK
  <1>2. CASE ~ Publisher!call_back
    BY <1>2 DEF Publisher!worker_loop, Publisher!worker_wait, Publisher!worker_exit, Publisher!worker_take,
                Publisher!post_succeeds, Publisher!post_fails, Publisher!post_throws,
                Publisher!give_up, QInv, Proved!QueueInv, Proved!TypeOK
  <1> QED
    BY <1>1, <1>2

\* The controller keeps its invariant while others run, or the process dies.
LEMMA ControllerRests ==
    ASSUME IInv, UNCHANGED controller_vars, alive' \in BOOLEAN, alive' => alive
    PROVE  IInv'
  <1> USE DEF controller_vars, status_vars, calibration_vars, handler_vars, history_vars, local_vars, output_vars
  <1>1. TypeOK' /\ InBatch'
    BY DEF IInv, TypeOK, InBatch
  <1>2. PlaceInv' /\ WorkerInv'
    BY QuietWorkers DEF IInv, live
  <1>3. ShotPending' /\ ShotIdsIncrease'
    BY QuietNumbers DEF IInv, StartsApart
  <1> QED
    BY <1>1, <1>2, <1>3 DEF IInv

\* The publisher's thread, notifications and late copies.
LEMMA PublisherKeepsSInv ==
    ASSUME SInv,
           \/ post_events \/ spurious_wakeup \/ stop_step
           \/ (\E copy \in in_flight : record_late(copy))
           \/ (\E t \in Threads : enqueue_notify(t))
    PROVE  SInv'
  <1>1. UNCHANGED main_vars /\ PublisherSteps /\ IInv /\ QInv
    BY DEF post_events, spurious_wakeup, stop_step, record_late, enqueue_notify, PublisherSteps, SInv
  <1>2. QInv'
    BY <1>1, PublisherKeepsQueue
  <1>3. ASSUME UNCHANGED <<controller_vars>>, alive' => alive
        PROVE  IInv' /\ MainInv'
    <2>1. IInv'
      BY <1>1, <1>2, <1>3, ControllerRests DEF QInv, Proved!QueueInv, Proved!TypeOK
    <2> QED
      BY <1>1, <1>3, <2>1 DEF SInv, MainInv, NoWorker, live, main_vars, controller_vars, handler_vars, history_vars, StartsApart
  <1>4. CASE stop_step
    <2>1. UNCHANGED controller_vars /\ Publisher!stop /\ main = "stopping publisher"
      BY <1>4 DEF stop_step, Publisher!stop, Publisher!stop_notify, Publisher!stop_join,
                  Publisher!stop_close, SInv, OwnerInv
    <2>2. /\ UNCHANGED <<accepted, producing, reported, promised, alive>>
          /\ owner' = "idle" => started' = FALSE
      BY <2>1 DEF Publisher!stop, Publisher!stop_notify, Publisher!stop_join, Publisher!stop_close,
                  Publisher!enqueue_vars, Publisher!report_vars
    <2>3. OwnerInv' /\ HandOver'
      BY <1>1, <2>1, <2>2 DEF SInv, OwnerInv, HandOver, live, main_vars, controller_vars,
             output_vars, handler_vars, history_vars, StartsApart
    <2> QED
      BY <1>2, <1>3, <2>1, <2>2, <2>3 DEF SInv
  <1>5. ASSUME UNCHANGED <<controller_vars, alive, reported>>,
               UNCHANGED <<owner, started, promised, accepted>>,
               \A t \in Threads : producing'[t] = "notify" => producing[t] = "notify"
        PROVE  SInv'
    <2>1. OwnerInv' /\ HandOver'
      BY <1>1, <1>5 DEF SInv, OwnerInv, HandOver, live, main_vars, controller_vars,
             output_vars, handler_vars, history_vars, StartsApart
    <2> QED
      BY <1>2, <1>3, <1>5, <2>1 DEF SInv
  <1>6. CASE spurious_wakeup
    <2>1. Publisher!spurious_wakeup /\ UNCHANGED controller_vars
      BY <1>6 DEF spurious_wakeup
    <2>2. UNCHANGED <<alive, producing, reported>>
      BY <2>1 DEF Publisher!spurious_wakeup, Publisher!enqueue_vars, Publisher!report_vars
    <2> QED
      BY <1>5, <2>1, <2>2, PublisherFrame
  <1>7. ASSUME NEW copy \in in_flight, record_late(copy) PROVE SInv'
    <2>1. Publisher!record_late(copy) /\ UNCHANGED controller_vars
      BY <1>7 DEF record_late
    <2>2. UNCHANGED <<alive, producing, reported>>
      BY <2>1 DEF Publisher!record_late, Publisher!enqueue_vars, Publisher!report_vars
    <2> QED
      BY <1>5, <2>1, <2>2, PublisherFrame
  <1>8. ASSUME NEW t \in Threads, enqueue_notify(t) PROVE SInv'
    <2>1. Publisher!enqueue_notify(t) /\ UNCHANGED controller_vars
      BY <1>8 DEF enqueue_notify
    <2>2. UNCHANGED <<alive, reported>> /\ producing' = [producing EXCEPT ![t] = "idle"]
      BY <2>1 DEF Publisher!enqueue_notify, Publisher!report_vars
    <2>3. \A u \in Threads : producing'[u] = "notify" => producing[u] = "notify"
      BY <1>1, <2>2 DEF QInv, Proved!QueueInv, Proved!TypeOK
    <2> QED
      BY <1>5, <2>1, <2>2, <2>3, PublisherFrame
  <1>9. CASE post_events
    <2>1. Publisher!worker_loop /\ UNCHANGED <<owner, started, promised, accepted, producing>>
      BY <1>1, <1>9, PublisherFrame, PostFrame DEF post_events
    <2>2. CASE p_worker = "callback"
      <3>1. error_callback /\ reported' = reported + 1
        BY <1>1, <1>9, <2>1, <2>2, PostFrame DEF post_events
      <3>2. IInv'
        BY <1>1, <3>1, OthersKeepWorker
      <3>3. send_errors' = send_errors + 1 /\ UNCHANGED <<at, command, crossed, loop, worker, published>>
        BY <3>1 DEF error_callback, handler_vars, history_vars, worker_local, output_vars
      <3>4. MainInv' /\ OwnerInv' /\ HandOver'
        BY <1>1, <2>1, <3>1, <3>3 DEF SInv, MainInv, OwnerInv, HandOver, NoWorker, live, main_vars, StartsApart
      <3> QED
        BY <1>2, <3>2, <3>4 DEF SInv
    <2>3. CASE p_worker # "callback"
      <3>1. UNCHANGED controller_vars /\ reported' = reported /\ (alive' => alive)
        BY <1>1, <1>9, <2>1, <2>3, PostFrame DEF post_events
      <3>2. OwnerInv' /\ HandOver'
        BY <1>1, <2>1, <3>1 DEF SInv, OwnerInv, HandOver, live, main_vars, controller_vars,
             output_vars, handler_vars, history_vars, StartsApart
      <3> QED
        BY <1>2, <1>3, <3>1, <3>2 DEF SInv
    <2> QED
      BY <2>2, <2>3
  <1> QED
    BY <1>4, <1>6, <1>7, <1>8, <1>9
-----------------------------------------------------------------------------
(* main, the end of the process and its next launch *)

\* What main does by itself, and the end of the process.
LEMMA MainKeepsSInv ==
    ASSUME SInv,
           \/ construct \/ construct_throws \/ bind_to_port \/ listen_returns \/ destruct
           \/ kill \/ UNCHANGED service_vars
    PROVE  SInv'
  <1>1. IInv /\ QInv /\ run' = run /\ UNCHANGED <<published, send_errors, accepted, producing, reported, loop>>
    BY DEF SInv, construct, construct_throws, bind_to_port, listen_returns, destruct, stop_controller,
           stop_publisher, stop_returned, kill, service_vars, main_vars, controller_vars, publisher_vars,
           stop_request, worker_local, output_vars, Publisher!start, Publisher!stop_request,
           Publisher!enqueue_vars, Publisher!report_vars
  <1>2. HandOver'
    BY <1>1 DEF SInv, HandOver, live
  <1>3. ASSUME UNCHANGED <<controller_vars, alive>> PROVE IInv' /\ UNCHANGED <<at, command, crossed, worker>>
    <2>1. alive' \in BOOLEAN
      BY <1>1, <1>3 DEF IInv, TypeOK
    <2> QED
      BY <1>1, <1>3, <2>1, ControllerRests DEF controller_vars, handler_vars, history_vars
  <1>4. ASSUME UNCHANGED <<publisher_vars, alive>> PROVE QInv'
    <2>1. alive' \in BOOLEAN
      BY <1>1, <1>4 DEF IInv, TypeOK
    <2> QED
      BY <1>1, <1>4, <2>1, PublisherRests
  <1>5. CASE construct
    <2>1. Publisher!start /\ main = "construct" /\ main' = "bind" /\ UNCHANGED controller_vars
      BY <1>5 DEF construct
    <2>2. UNCHANGED <<alive, owner, promised>> /\ started' = TRUE
      BY <2>1 DEF Publisher!start
    <2>3. QInv'
      BY <1>1, <2>1, PublisherKeepsQueue DEF PublisherSteps
    <2>4. MainInv' /\ OwnerInv'
      BY <1>1, <1>3, <2>1, <2>2 DEF SInv, MainInv, OwnerInv, NoWorker, StartsApart, live, Places
    <2> QED
      BY <1>2, <1>3, <2>1, <2>2, <2>3, <2>4 DEF SInv
  <1>6. CASE construct_throws
    BY <1>1, <1>2, <1>3, <1>4, <1>6
       DEF construct_throws, SInv, MainInv, OwnerInv, NoWorker, StartsApart, live, Places, publisher_vars
  <1>7. CASE bind_to_port
    BY <1>1, <1>2, <1>3, <1>4, <1>7
       DEF bind_to_port, SInv, MainInv, OwnerInv, NoWorker, StartsApart, live, Places, publisher_vars, destruction
  <1>8. CASE listen_returns
    BY <1>1, <1>2, <1>3, <1>4, <1>8
       DEF listen_returns, SInv, MainInv, OwnerInv, NoWorker, StartsApart, live, Places, publisher_vars, destruction, Clients
  <1>9. CASE stop_controller
    <2>1. stop_request(Main) /\ main = "controller" /\ main' = "stopping controller" /\ UNCHANGED publisher_vars
      BY <1>9 DEF stop_controller
    <2>2. IInv'
      BY <1>1, <2>1, CommandsKeepWorker
    <2>3. UNCHANGED alive /\ at'[Main] = "joinable" /\ command'[Main] = "stop" /\ (StartsApart' => StartsApart)
      BY <1>1, <2>1 DEF stop_request, go, IInv, TypeOK, StartsApart
    <2>4. \A h \in Clients : at'[h] = "idle"
      BY <1>1, <2>1, CommandFrame DEF SInv, MainInv, Clients
    <2>5. MainInv' /\ OwnerInv'
      BY <1>1, <2>1, <2>3, <2>4 DEF SInv, MainInv, OwnerInv, Places, publisher_vars
    <2> QED
      BY <1>2, <1>4, <2>1, <2>2, <2>3, <2>5 DEF SInv
  <1>10. CASE stop_publisher
    <2>1. Publisher!stop_request /\ main = "publisher" /\ main' = "stopping publisher" /\ UNCHANGED controller_vars
      BY <1>10 DEF stop_publisher
    <2>2. UNCHANGED <<alive, started>> /\ promised' = Len(accepted) /\ owner' = "notify"
      BY <2>1 DEF Publisher!stop_request
    <2>3. QInv'
      BY <1>1, <2>1, PublisherKeepsQueue DEF PublisherSteps
    <2>4. MainInv' /\ OwnerInv'
      BY <1>1, <1>3, <2>1, <2>2 DEF SInv, MainInv, OwnerInv, HandOver, NoWorker, StartsApart, live, Places
    <2> QED
      BY <1>2, <1>3, <2>1, <2>2, <2>3, <2>4 DEF SInv
  <1>11. CASE stop_returned
    <2>1. UNCHANGED <<controller_vars, publisher_vars, alive>> /\ alive
      BY <1>11 DEF stop_returned
    <2>2. CASE main = "stopping controller"
      <3>1. main' = "publisher" /\ at[Main] = "idle" /\ worker = NoThread
        BY <1>11, <2>2 DEF stop_returned, after, destruction, SInv, MainInv
      <3>2. StartsApart => \A t \in Threads : ~ live(t)
        <4>1. \A h \in Handlers : at[h] = "idle"
          BY <2>2, <3>1 DEF SInv, MainInv, Clients
        <4> QED
          BY <1>1, <2>1, <3>1, <4>1, ControllerAssumption DEF IInv, WorkerInv, holds, ControllerAssumption
      <3>3. MainInv' /\ OwnerInv'
        BY <1>1, <1>3, <2>1, <2>2, <3>1, <3>2 DEF SInv, MainInv, OwnerInv, NoWorker, StartsApart, live, Places, publisher_vars
      <3> QED
        BY <1>2, <1>3, <1>4, <2>1, <3>3 DEF SInv
    <2>3. CASE main = "stopping publisher"
      <3>1. main' = "exited" /\ owner = "idle"
        BY <1>11, <2>3 DEF stop_returned, after, destruction
      <3>2. MainInv' /\ OwnerInv'
        BY <1>1, <1>3, <2>1, <2>3, <3>1 DEF SInv, MainInv, OwnerInv, NoWorker, StartsApart, live, Places, publisher_vars
      <3> QED
        BY <1>2, <1>3, <1>4, <2>1, <3>2 DEF SInv
    <2> QED
      BY <1>11, <2>2, <2>3 DEF stop_returned
  <1>12. CASE kill
    <2>1. /\ UNCHANGED <<main_vars, controller_vars, queue, started, p_stop_requested, p_last_error, owner,
                         p_worker, current, attempt, producing, reported, received, accepted, settled, promised>>
          /\ alive' = FALSE
          /\ \/ in_flight' = in_flight
             \/ p_worker = "post" /\ in_flight' = in_flight \cup {<<current, attempt>>}
      BY <1>12 DEF kill
    <2>2. IInv' /\ UNCHANGED <<at, command, crossed, worker>>
      BY <1>1, <2>1, ControllerRests DEF controller_vars, handler_vars, history_vars
    <2>3. QInv'
      <3>1. in_flight' \subseteq ServiceEvents \X (0..post_retry_count)
        BY <1>1, <2>1 DEF QInv, Proved!QueueInv, Proved!TypeOK, Proved!WorkerDiscipline
      <3>2. Proved!TypeOK'
        BY <1>1, <2>1, <3>1 DEF QInv, Proved!QueueInv, Proved!TypeOK
      <3>3. Proved!WorkerDiscipline' /\ Proved!EveryEventAccounted' /\ Proved!Drained'
        BY <1>1, <2>1 DEF QInv, Proved!QueueInv, Proved!WorkerDiscipline, Proved!EveryEventAccounted,
                          Proved!Drained, Proved!held
      <3>4. Proved!EveryLossReported'
        BY <1>1, <2>1 DEF QInv, Proved!EveryLossReported, Proved!Lost
      <3> QED
        BY <3>2, <3>3, <3>4 DEF QInv, Proved!QueueInv
    <2>4. MainInv' /\ OwnerInv'
      BY <1>1, <2>1, <2>2 DEF SInv, MainInv, OwnerInv, NoWorker, StartsApart, live, main_vars
    <2> QED
      BY <1>2, <2>2, <2>3, <2>4 DEF SInv
  <1>13. CASE UNCHANGED service_vars
    BY <1>1, <1>2, <1>3, <1>4, <1>13
       DEF service_vars, SInv, MainInv, OwnerInv, NoWorker, StartsApart, live, main_vars, publisher_vars
  <1> QED
    BY <1>5, <1>6, <1>7, <1>8, <1>9, <1>10, <1>11, <1>12, <1>13 DEF destruct

\* The next launch knows nothing of the last one.
LEMMA LaunchIsFresh ==
    ASSUME SInv, launch_again
    PROVE  SInv'
  <1>1. /\ main' = "construct" /\ run' \in 1..MaxRuns
        /\ UNCHANGED <<in_flight, received>>
    <2>1. run \in 1..MaxRuns
      BY DEF SInv, MainInv
    <2>2. run < MaxRuns /\ run' = run + 1
      BY DEF launch_again
    <2>3. main' = "construct" /\ UNCHANGED <<in_flight, received>>
      BY DEF launch_again
    <2> QED
      BY <2>1, <2>2, <2>3
  <1>2. Fresh'
    BY DEF launch_again, Fresh, Init
  <1>3. /\ received' \in Seq(ServiceEvents)
        /\ in_flight' \subseteq ServiceEvents \X (0..post_retry_count)
    BY <1>1 DEF SInv, QInv, Proved!QueueInv, Proved!TypeOK
  <1>4. ( /\ Fresh /\ main = "construct" /\ run \in 1..MaxRuns
          /\ received \in Seq(ServiceEvents)
          /\ in_flight \subseteq ServiceEvents \X (0..post_retry_count) )'
    BY <1>1, <1>2, <1>3
  <1> QED
    BY <1>4, FreshSInv, PTL

\* The first launch.
LEMMA InitSInv == ServiceInit => SInv
  <1> SUFFICES ASSUME ServiceInit PROVE SInv
    OBVIOUS
  <1>1. Fresh /\ main = "construct" /\ run = 1 /\ received = <<>> /\ in_flight = {}
    BY DEF ServiceInit, Fresh, Publisher!Init
  <1>2. received \in Seq(ServiceEvents) /\ run \in 1..MaxRuns
    BY <1>1, EmptySeq
  <1> QED
    BY <1>1, <1>2, FreshSInv

\* Every step of the service keeps the invariant.
LEMMA StepKeepsSInv ==
    ASSUME SInv, [ServiceNext]_service_vars
    PROVE  SInv'
  <1>1. ASSUME NEW h \in Handlers, carry_on(h) PROVE SInv'
    BY <1>1, ClientsKeepSInv, MainStopKeepsSInv DEF Clients
  <1> QED
    BY <1>1, ClientsKeepSInv, WorkKeepsSInv, PublisherKeepsSInv, MainKeepsSInv, LaunchIsFresh
       DEF ServiceNext

\* The strengthened invariant is inductive.
LEMMA ServiceInductive == ServiceSpec => []SInv
  BY InitSInv, StepKeepsSInv, PTL DEF ServiceSpec

(* In the whole service, too, at most one worker is at work and the numbers  *)
(* of the shots increase as long as starts do not overlap in a launch: the   *)
(* thread of main, which stops the worker in the end, is one more that runs  *)
(* commands, and a launch that was killed leaves nothing to the next.        *)
THEOREM ServiceHasOneWorker == ServiceSpec => [](SingleWorker /\ ShotIdsIncrease)
  <1>1. SInv => SingleWorker /\ ShotIdsIncrease
    BY WorkerInvMeansSingle DEF SInv, IInv
  <1> QED
    BY <1>1, ServiceInductive, PTL

(* From the moment the destructor asks the publisher to stop nobody is left  *)
(* to enqueue anything, however many commands were under way before, as long *)
(* as no two of them were starts at the same time.                           *)
THEOREM DrainsAreFinite == ServiceSpec => []DrainIsFinite
  <1>1. SInv => DrainIsFinite
    <2> SUFFICES ASSUME SInv, owner # "idle", StartsApart PROVE
          /\ promised = Len(published)
          /\ \A t \in Threads : ~ live(t) /\ producing[t] = "idle"
      BY DEF DrainIsFinite
    <2>1. promised = Len(published) /\ NoWorker
      BY DEF SInv, MainInv, OwnerInv
    <2>2. \A t \in Threads : producing[t] \in {"idle", "notify"}
      BY DEF SInv, QInv, Proved!QueueInv, Proved!TypeOK
    <2> QED
      BY <2>1, <2>2 DEF NoWorker, SInv, HandOver
  <1> QED
    BY <1>1, ServiceInductive, PTL

(* A main that returns leaves no thread behind and no event without a        *)
(* verdict, for any batch and any number of failures, as long as starts did  *)
(* not overlap.                                                              *)
THEOREM ShutdownsSettleEverything == ServiceSpec => []ShutdownSettlesEverything
  <1>1. SInv => ShutdownSettlesEverything
    <2> SUFFICES ASSUME SInv, main = "exited", StartsApart PROVE
          /\ worker = NoThread /\ p_worker = "none"
          /\ \A t \in Threads : ~ live(t)
          /\ Len(settled) = Len(published)
          /\ \A i \in 1..Len(settled) : settled[i].event = <<run, i>>
      BY DEF ShutdownSettlesEverything
    <2>1. NoWorker /\ ~ started /\ promised = Len(published)
      BY DEF SInv, MainInv, OwnerInv
    <2>2. p_worker = "none"
      BY <2>1 DEF SInv, QInv, Proved!QueueInv, Proved!WorkerDiscipline
    <2>3. promised <= Len(settled) /\ Len(settled) <= Len(accepted)
      BY <2>2 DEF SInv, QInv, Proved!QueueInv, Proved!TypeOK, Proved!Drained, Proved!EveryEventAccounted, Proved!held
    <2>4. Len(settled) \in Nat /\ Len(accepted) \in Nat /\ Len(published) = Len(accepted)
      BY DEF SInv, QInv, Proved!QueueInv, Proved!TypeOK, HandOver
    <2>5. Len(settled) = Len(accepted)
      BY <2>1, <2>3, <2>4
    <2>6. \A i \in 1..Len(settled) : settled[i].event = <<run, i>>
      BY <2>5 DEF SInv, QInv, Proved!QueueInv, Proved!EveryEventAccounted, HandOver
    <2> QED
      BY <2>1, <2>2, <2>4, <2>5, <2>6 DEF NoWorker
  <1> QED
    BY <1>1, ServiceInductive, PTL

(* Every event given up reaches the controller as an error, once each, in    *)
(* every launch.                                                             *)
THEOREM LossesReachController == ServiceSpec => []LossesReachTheController
  <1>1. SInv => LossesReachTheController
    BY SamePublisher, SameCardinality DEF SInv, QInv, HandOver, LossesReachTheController, Publisher!EveryLossReported
  <1> QED
    BY <1>1, ServiceInductive, PTL
-----------------------------------------------------------------------------
(* What a crash can lose. *)

\* What is known of the launches before.
Past == earlier \in Seq(Nat) /\ Len(earlier) = run - 1

\* A launch the backend hears of has begun, and everything before e is settled.
Seen(e) == e[1] \in 1..run /\ e[2] <= Verdicts(e[1]) + 1

CrashInv ==
    /\ Past
    /\ \A m \in 1..Len(received) : Seen(received[m])
    /\ \A copy \in in_flight : Seen(copy[1])

\* The event that is being posted.
Posting(e) == p_worker = "post" /\ e = current

\* What is new to the backend is being posted, or was in flight.
Sights ==
    /\ settled' = settled \/ \E v : settled' = Append(settled, v)
    /\ \A copy \in in_flight' : copy \in in_flight \/ Posting(copy[1])
    /\ \/ received' = received
       \/ \E e \in ServiceEvents :
            /\ received' = Append(received, e)
            /\ Posting(e) \/ \E copy \in in_flight : e = copy[1]

LEMMA PublisherSights ==
    ASSUME QInv, PublisherSteps
    PROVE  Sights
  <1> USE DEF Sights, Posting, Publisher!post_vars
  <1>1. QInv => /\ in_flight \subseteq ServiceEvents \X (0..post_retry_count)
                /\ p_worker = "post" => current \in ServiceEvents
    BY DEF QInv, Proved!QueueInv, Proved!TypeOK, Proved!WorkerDiscipline
  <1>2. CASE Publisher!start \/ Publisher!stop_request \/ Publisher!stop
    BY <1>2 DEF Publisher!start, Publisher!stop_request, Publisher!stop, Publisher!stop_notify,
                Publisher!stop_join, Publisher!stop_close
  <1>3. ASSUME NEW t \in Threads,
               Publisher!enqueue_notify(t) \/ \E e \in ServiceEvents : Publisher!enqueue_push(t, e)
        PROVE  Sights
    BY <1>3 DEF Publisher!enqueue_notify, Publisher!enqueue_push
  <1>4. CASE Publisher!worker_wait \/ Publisher!worker_exit \/ Publisher!worker_take
             \/ Publisher!post_throws \/ Publisher!call_back \/ Publisher!spurious_wakeup
    BY <1>4 DEF Publisher!worker_wait, Publisher!worker_exit, Publisher!worker_take,
                Publisher!post_throws, Publisher!call_back, Publisher!spurious_wakeup
  <1>5. CASE Publisher!post_succeeds
    <2>1. /\ p_worker = "post" /\ received' = Append(received, current) /\ in_flight' = in_flight
          /\ settled' = Append(settled, [event |-> current, delivered |-> TRUE])
      BY <1>5 DEF Publisher!post_succeeds, Publisher!settle
    <2> QED
      BY <1>1, <2>1
  <1>6. CASE Publisher!post_fails \/ Publisher!give_up
    <2>1. CASE Publisher!post_fails
      BY <2>1 DEF Publisher!post_fails
    <2>2. CASE Publisher!give_up
      BY <2>2 DEF Publisher!give_up, Publisher!settle
    <2> QED
      BY <1>6, <2>1, <2>2
  <1>7. ASSUME NEW copy \in in_flight, Publisher!record_late(copy) PROVE Sights
    <2>1. /\ received' = Append(received, copy[1]) /\ settled' = settled
          /\ in_flight' \subseteq in_flight /\ copy[1] \in ServiceEvents
      BY <1>1, <1>7 DEF Publisher!record_late
    <2> QED
      BY <2>1
  <1> QED
    BY <1>2, <1>3, <1>4, <1>5, <1>6, <1>7 DEF PublisherSteps, Publisher!worker_loop

\* Within a launch what was seen stays seen, and what is posted is due.
LEMMA SightsKeepCrashInv ==
    ASSUME SInv, CrashInv, Sights, UNCHANGED <<run, earlier>>
    PROVE  CrashInv'
  <1>1. /\ Past' /\ run' = run /\ earlier' = earlier
        /\ run \in 1..MaxRuns
        /\ \A r \in 1..(run - 1) : earlier[r] \in Nat
    <2>1. Past /\ run \in 1..MaxRuns
      BY DEF CrashInv, SInv, MainInv
    <2>2. \A r \in 1..(run - 1) : earlier[r] \in Nat
      BY <2>1, ElementOfSeq DEF Past
    <2> QED
      BY <2>1, <2>2 DEF Past
  <1>2. /\ received \in Seq(ServiceEvents)
        /\ in_flight \subseteq ServiceEvents \X (0..post_retry_count)
        /\ settled \in Seq([event : ServiceEvents, delivered : BOOLEAN])
    BY DEF SInv, QInv, Proved!QueueInv, Proved!TypeOK
  <1>3. Len(settled') >= Len(settled) /\ Len(settled) \in Nat /\ Len(settled') \in Nat
    BY <1>2 DEF Sights
  <1>4. ASSUME NEW e \in ServiceEvents, Seen(e) PROVE Seen(e)'
    BY <1>1, <1>3, <1>4 DEF Seen, Verdicts, ServiceEvents
  <1>5. ASSUME NEW e, Posting(e) PROVE e \in ServiceEvents /\ Seen(e)
    <2>1. Len(settled) + 1 \in 1..Len(accepted) /\ current = accepted[Len(settled) + 1]
      BY <1>5, Proved!PostedIsDue DEF Posting, SInv, QInv
    <2>2. e = <<run, Len(settled) + 1>>
      BY <1>5, <2>1 DEF Posting, SInv, HandOver
    <2> QED
      BY <1>1, <1>3, <2>2 DEF Seen, Verdicts, ServiceEvents
  <1>6. \A copy \in in_flight' : Seen(copy[1])'
    BY <1>2, <1>4, <1>5 DEF Sights, CrashInv
  <1>7. (\A m \in 1..Len(received) : Seen(received[m]))'
    <2>1. CASE received' = received
      BY <1>2, <1>4, <2>1 DEF CrashInv
    <2>2. ASSUME NEW e \in ServiceEvents, received' = Append(received, e),
                 Posting(e) \/ \E copy \in in_flight : e = copy[1]
          PROVE  (\A m \in 1..Len(received) : Seen(received[m]))'
      <3>1. Seen(e)
        BY <1>5, <2>2 DEF CrashInv
      <3>2. \A m \in 1..Len(received') : received'[m] = e \/ (m \in 1..Len(received) /\ received'[m] = received[m])
        BY <1>2, <2>2
      <3> QED
        BY <1>2, <1>4, <3>1, <3>2 DEF CrashInv
    <2> QED
      BY <2>1, <2>2 DEF Sights
  <1> QED
    BY <1>1, <1>6, <1>7 DEF CrashInv

\* A launch that ends leaves behind how far its verdicts went.
LEMMA LaunchKeepsCrashInv ==
    ASSUME SInv, CrashInv, launch_again
    PROVE  CrashInv'
  <1>1. /\ run \in 1..MaxRuns /\ run' = run + 1
        /\ earlier' = Append(earlier, Len(settled))
        /\ UNCHANGED <<in_flight, received>>
        /\ settled' = <<>>
    BY DEF launch_again, SInv, MainInv
  <1>2. /\ received \in Seq(ServiceEvents)
        /\ in_flight \subseteq ServiceEvents \X (0..post_retry_count)
        /\ Len(settled) \in Nat
    BY DEF SInv, QInv, Proved!QueueInv, Proved!TypeOK
  <1>3. /\ earlier' \in Seq(Nat)
        /\ Len(earlier') = run
        /\ \A r \in 1..(run - 1) : earlier'[r] = earlier[r]
        /\ earlier'[run] = Len(settled)
    BY <1>1, <1>2 DEF CrashInv, Past
  <1>4. ASSUME NEW e \in ServiceEvents, Seen(e) PROVE Seen(e)'
    BY <1>1, <1>2, <1>3, <1>4 DEF Seen, Verdicts, ServiceEvents
  <1>5. Past'
    BY <1>1, <1>3 DEF Past
  <1> QED
    BY <1>1, <1>2, <1>4, <1>5 DEF CrashInv

\* Every other step is one of the publisher's, one beside it, or the end.
LEMMA StepsSight ==
    ASSUME SInv, [ServiceNext]_service_vars, ~ launch_again
    PROVE  Sights /\ UNCHANGED <<run, earlier>>
  <1>1. CASE PublisherSteps /\ UNCHANGED <<run, earlier>>
    BY <1>1, PublisherSights DEF SInv
  <1>2. CASE UNCHANGED <<publisher_vars, run, earlier>>
    BY <1>2 DEF publisher_vars, Sights
  <1>3. CASE kill
    BY <1>3 DEF kill, Sights, Posting, main_vars
  <1>4. CASE construct \/ stop_publisher
    BY <1>1, <1>4 DEF construct, stop_publisher, PublisherSteps
  <1>5. CASE construct_throws \/ bind_to_port \/ listen_returns \/ stop_controller \/ stop_returned
    BY <1>2, <1>5 DEF construct_throws, bind_to_port, listen_returns, stop_controller, stop_returned
  <1>6. CASE (\E h \in Clients : request(h)) \/ (\E h \in Handlers : carry_on(h))
    BY <1>2, <1>6 DEF request, carry_on, main_vars
  <1>7. ASSUME NEW t \in Threads, work(t) PROVE Sights /\ UNCHANGED <<run, earlier>>
    <2>1. UNCHANGED <<run, earlier>>
      BY <1>7 DEF work, main_vars
    <2>2. CASE published' = published
      BY <1>2, <1>7, <2>1, <2>2, SMT DEF work, enqueue_event
    <2>3. CASE published' # published
      <3>1. Len(published') = Len(published) + 1 /\ Len(published) \in Nat /\ run \in 1..MaxRuns
        <4>1. worker_loop(t) /\ IInv /\ run \in 1..MaxRuns
          BY <1>7 DEF work, SInv, MainInv
        <4>2. Len(published') = Len(published) + 1
          BY <2>3, <4>1, WorkerFrame
        <4> QED
          BY <4>1, <4>2 DEF IInv, TypeOK
      <3>2. Publisher!enqueue_push(t, <<run, Len(published')>>) /\ <<run, Len(published')>> \in ServiceEvents
        BY <1>7, <3>1 DEF work, enqueue_event, ServiceEvents
      <3> QED
        BY <1>1, <2>1, <3>2 DEF PublisherSteps
    <2> QED
      BY <2>2, <2>3
  <1>8. CASE (\E t \in Threads : enqueue_notify(t)) \/ stop_step \/ post_events \/ spurious_wakeup
             \/ (\E copy \in in_flight : record_late(copy))
    BY <1>1, <1>8 DEF enqueue_notify, stop_step, post_events, spurious_wakeup, record_late,
                      PublisherSteps, main_vars
  <1>9. CASE UNCHANGED service_vars
    BY <1>2, <1>9 DEF service_vars, main_vars
  <1> QED
    BY <1>3, <1>4, <1>5, <1>6, <1>7, <1>8, <1>9 DEF ServiceNext, destruct

\* Both invariants together.
LEMMA CrashInductive == ServiceSpec => [](SInv /\ CrashInv)
  <1>1. ServiceInit => CrashInv
    BY EmptySeq DEF ServiceInit, Publisher!Init, CrashInv, Past
  <1>2. SInv /\ CrashInv /\ [ServiceNext]_service_vars => CrashInv'
    BY LaunchKeepsCrashInv, StepsSight, SightsKeepCrashInv
  <1> QED
    BY <1>1, <1>2, InitSInv, StepKeepsSInv, PTL DEF ServiceSpec

(* A process that is killed, as often as it may be, loses the end of what it *)
(* published: what the backend sees of a launch, late copies too, comes      *)
(* after nothing that launch left without a verdict, but for what it posted. *)
THEOREM CrashesLoseOnlyTheEnd == ServiceSpec => []CrashLosesOnlyTheEnd
  <1>1. SInv /\ CrashInv => CrashLosesOnlyTheEnd
    <2> SUFFICES ASSUME SInv, CrashInv PROVE CrashLosesOnlyTheEnd
      OBVIOUS
    <2>1. /\ Len(settled) \in Nat /\ Len(accepted) \in Nat /\ Len(queue) \in Nat
          /\ Len(settled) <= Len(accepted)
      BY DEF SInv, QInv, Proved!QueueInv, Proved!TypeOK, Proved!EveryEventAccounted, Proved!held
    <2>2. \A i \in 1..Len(settled) : settled[i].event = <<run, i>>
      BY <2>1 DEF SInv, QInv, Proved!QueueInv, Proved!EveryEventAccounted, HandOver
    <2> QED
      BY <2>2 DEF CrashInv, Seen, CrashLosesOnlyTheEnd
  <1> QED
    BY <1>1, CrashInductive, PTL

(* Every part of the service keeps its type in every launch.                 *)
THEOREM ServiceTypesCorrect == ServiceSpec => []ServiceTypeOK
  <1>1. SInv /\ CrashInv => ServiceTypeOK
    <2>1. Proved!TypeOK => Publisher!TypeOK
      BY DEF Proved!TypeOK, Publisher!TypeOK
    <2> QED
      BY <2>1 DEF SInv, IInv, QInv, Proved!QueueInv, MainInv, CrashInv, Past, ServiceTypeOK
  <1> QED
    BY <1>1, CrashInductive, PTL
=============================================================================
