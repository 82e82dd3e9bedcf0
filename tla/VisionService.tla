----------------------------- MODULE VisionService -----------------------------
(***************************************************************************)
(* The process vision_service (src/apps/vision_service.cpp): the controller *)
(* and the publisher it owns, put together, and the thread of main, which   *)
(* builds them, listens and destroys them; the end of the process at any    *)
(* moment, and its next launch.                                             *)
(*                                                                          *)
(* The two components meet in three places. A worker that publishes calls   *)
(* enqueue_event, and goes on when the call has notified. The publisher's   *)
(* thread calls the controller back about an event it gave up. And the      *)
(* destructor of the controller stops its own worker, then the publisher.   *)
(* Main is one more thread that runs commands: it executes only that stop.  *)
(***************************************************************************)
EXTENDS ServiceController

CONSTANTS
    Main,             \* the thread of main, one of Handlers
    MaxRuns,          \* bound: how often the process is launched, and killed before that
    post_retry_count, \* BackendConfig::post_retry_count
    PostThrows,       \* the events on which post_once throws
    NoEvent           \* the publisher's thread holds no event

\* An event is known by the launch it belongs to and its place among what the
\* controller published since.
ServiceEvents == (1..MaxRuns) \X Nat

ASSUME ServiceAssumption ==
    /\ Main \in Handlers
    /\ MaxRuns \in Nat \ {0}
    /\ post_retry_count \in Nat
    /\ PostThrows \subseteq ServiceEvents
    /\ NoEvent \notin ServiceEvents
    /\ SendMayFail

VARIABLES
    main,    \* where the thread of main is
    run,     \* which launch of the process this is
    earlier, \* history: how many events of each earlier launch had a verdict
    queue, started, p_stop_requested, p_last_error, owner, p_worker, current,
    attempt, producing, reported, in_flight, received, accepted, settled,
    promised \* the publisher, see EventPublisher; p_ where the controller has the name too

Publisher == INSTANCE EventPublisher WITH
    Events <- ServiceEvents, Producers <- Threads,
    stop_requested <- p_stop_requested, last_error <- p_last_error, worker <- p_worker

main_vars == <<main, run, earlier>>
controller_vars == <<status_vars, calibration_vars, handler_vars, local_vars, output_vars,
                     stop_requested, worker, loop, send_errors>>
publisher_vars == <<queue, started, p_stop_requested, p_last_error, owner, p_worker, current,
                    attempt, producing, reported, in_flight, received, accepted, settled, promised>>
service_vars == <<main_vars, controller_vars, publisher_vars, alive>>

Clients == Handlers \ {Main}

ServiceInit ==
    /\ Init
    /\ Publisher!Init
    /\ main = "construct"
    /\ run = 1
    /\ earlier = <<>>
-----------------------------------------------------------------------------
(* main, the constructor and the destructor of the controller *)

\* The calls ~ServiceController makes, in their order.
destruction_mutant == <<"publisher", "controller">>
destruction == <<"controller", "publisher">>

after(component) == IF component = destruction[1] THEN destruction[2] ELSE "exited"

construct ==
    /\ main = "construct"
    /\ Publisher!start
    /\ main' = "bind"
    /\ UNCHANGED <<run, earlier, controller_vars>>

\* The publisher's thread cannot be created: the exception ends main.
construct_throws ==
    /\ alive
    /\ SpawnMayFail
    /\ main = "construct"
    /\ main' = "exited"
    /\ UNCHANGED <<run, earlier, controller_vars, publisher_vars, alive>>

\* The port may be taken: then main returns without having listened.
bind_to_port ==
    /\ alive
    /\ main = "bind"
    /\ main' \in {"listen", destruction[1]}
    /\ UNCHANGED <<run, earlier, controller_vars, publisher_vars, alive>>

\* The server ends when it cannot accept connections; it joins its threads first.
listen_returns ==
    /\ alive
    /\ main = "listen"
    /\ \A h \in Clients : at[h] = "idle"
    /\ main' = destruction[1]
    /\ UNCHANGED <<run, earlier, controller_vars, publisher_vars, alive>>

stop_controller ==
    /\ main = "controller"
    /\ stop_request(Main)
    /\ main' = "stopping controller"
    /\ UNCHANGED <<run, earlier, publisher_vars>>

stop_publisher ==
    /\ main = "publisher"
    /\ Publisher!stop_request
    /\ main' = "stopping publisher"
    /\ UNCHANGED <<run, earlier, controller_vars>>

stop_returned ==
    /\ alive
    /\ \/ main = "stopping controller" /\ at[Main] = "idle" /\ main' = after("controller")
       \/ main = "stopping publisher" /\ owner = "idle" /\ main' = after("publisher")
    /\ UNCHANGED <<run, earlier, controller_vars, publisher_vars, alive>>

destruct == stop_controller \/ stop_publisher \/ stop_returned
-----------------------------------------------------------------------------
(* The threads of the process *)

\* register_service_routes: requests reach the controller while main listens.
request(h) ==
    /\ main = "listen"
    /\ \/ start_check(h) \/ stop_request(h) \/ calibrate_rejected(h)
       \/ \E camera \in Cameras : calibrate_accepted(h, camera)
    /\ UNCHANGED <<main_vars, publisher_vars>>

carry_on(h) == command_step(h) /\ UNCHANGED <<main_vars, publisher_vars>>

\* A worker goes on; what it publishes is enqueued in the same step.
enqueue_event(t) ==
    IF Len(published') > Len(published)
    THEN Publisher!enqueue_push(t, <<run, Len(published')>>)
    ELSE UNCHANGED publisher_vars

work(t) ==
    /\ producing[t] = "idle"
    /\ worker_loop(t)
    /\ enqueue_event(t)
    /\ UNCHANGED main_vars

enqueue_notify(t) == Publisher!enqueue_notify(t) /\ UNCHANGED <<main_vars, controller_vars>>

stop_step == Publisher!stop /\ UNCHANGED <<main_vars, controller_vars>>

\* The publisher's thread; its error_callback_ is the controller's.
post_events ==
    /\ Publisher!worker_loop
    /\ IF p_worker = "callback" THEN error_callback ELSE UNCHANGED controller_vars
    /\ UNCHANGED main_vars

spurious_wakeup == Publisher!spurious_wakeup /\ UNCHANGED <<main_vars, controller_vars>>

record_late(copy) == Publisher!record_late(copy) /\ UNCHANGED <<main_vars, controller_vars>>
-----------------------------------------------------------------------------
(* The end of the process and its next launch *)

\* The process is killed, or ends itself with std::terminate (see also
\* start_terminates and post_throws). A post under way may still arrive. Only
\* the launches that another one follows are killed.
kill ==
    /\ run < MaxRuns
    /\ alive
    /\ main # "exited"
    /\ alive' = FALSE
    /\ in_flight' \in {in_flight} \cup
           (IF p_worker = "post" THEN {in_flight \cup {<<current, attempt>>}} ELSE {})
    /\ UNCHANGED <<main_vars, controller_vars, queue, started, p_stop_requested, p_last_error, owner,
                   p_worker, current, attempt, producing, reported, received, accepted, settled, promised>>

\* Nothing the process keeps is saved. The backend is another process, and what
\* was sent to it is still under way.
launch_again ==
    /\ ~ alive \/ main = "exited"
    /\ run < MaxRuns
    /\ run' = run + 1
    /\ earlier' = Append(earlier, Len(settled))
    /\ main' = "construct"
    /\ alive' = TRUE
    /\ state' = "idle" /\ current_scenario' = NoScenario /\ last_error' = "none"
    /\ stop_requested' = FALSE /\ worker' = NoThread
    /\ calibration_loaded' = FALSE /\ overrides' = {}
    /\ shot_sequence' = 1 /\ published' = <<>> /\ send_errors' = 0
    /\ command' = [h \in Handlers |-> "none"] /\ at' = [h \in Handlers |-> "idle"]
    /\ hand' = [h \in Handlers |-> NoThread] /\ crossed' = {} /\ stranded' = FALSE
    /\ loop' = [t \in Threads |-> "unborn"] /\ index' = [t \in Threads |-> 1]
    /\ shot' = [t \in Threads |-> 0] /\ overridden' = [t \in Threads |-> FALSE]
    /\ event' = [t \in Threads |-> "none"]
    /\ queue' = <<>> /\ started' = FALSE /\ p_stop_requested' = FALSE /\ p_last_error' = "none"
    /\ owner' = "idle" /\ p_worker' = "none" /\ current' = NoEvent /\ attempt' = 0
    /\ producing' = [t \in Threads |-> "idle"] /\ reported' = 0
    /\ accepted' = <<>> /\ settled' = <<>> /\ promised' = 0
    /\ UNCHANGED <<in_flight, received>>
-----------------------------------------------------------------------------
ServiceNext ==
    \/ construct \/ construct_throws \/ bind_to_port \/ listen_returns \/ destruct
    \/ \E h \in Clients : request(h)
    \/ \E h \in Handlers : carry_on(h)
    \/ \E t \in Threads : work(t) \/ enqueue_notify(t)
    \/ stop_step \/ post_events \/ spurious_wakeup
    \/ \E copy \in in_flight : record_late(copy)
    \/ kill \/ launch_again

ServiceSpec == ServiceInit /\ [][ServiceNext]_service_vars

\* Threads that have something to do go on, posts end, and a stop() of the
\* destructor that was begun is carried out. No request has to come, the server
\* need not end, and nobody has to kill or launch anything.
FairServiceSpec ==
    /\ ServiceSpec
    /\ WF_service_vars(construct) /\ WF_service_vars(destruct) /\ WF_service_vars(stop_step)
    /\ WF_service_vars(post_events)
    /\ \A h \in Handlers : WF_service_vars(carry_on(h))
    /\ \A t \in Threads : WF_service_vars(work(t)) /\ WF_service_vars(enqueue_notify(t))
-----------------------------------------------------------------------------
(* What must hold. *)

Places == {"construct", "bind", "listen", "controller", "stopping controller",
           "publisher", "stopping publisher", "exited"}

ServiceTypeOK ==
    /\ TypeOK
    /\ Publisher!TypeOK
    /\ main \in Places
    /\ run \in 1..MaxRuns
    /\ Len(earlier) = run - 1

(***************************************************************************)
(* When main has returned of its own accord nothing is left: no worker runs *)
(* or waits to be joined, and every event published since the launch has    *)
(* its verdict, in the order of publication; unless two starts overlapped   *)
(* in this launch and one of their workers got lost. (~ServiceController,   *)
(* which stops the producer of events before their consumer.)               *)
(***************************************************************************)
ShutdownSettlesEverything ==
    (alive /\ main = "exited" /\ StartsApart) =>
        /\ worker = NoThread /\ p_worker = "none"
        /\ \A t \in Threads : ~ live(t)
        /\ Len(settled) = Len(published)
        /\ \A i \in 1..Len(settled) : settled[i].event = <<run, i>>

(***************************************************************************)
(* What the destructor waits for is finite: from the moment it asks the     *)
(* publisher to stop nobody enqueues any more, so that it waits at most for *)
(* the attempts left on the events that are queued then; unless two starts  *)
(* overlapped in this launch. (The order of the two stops, and that stop()  *)
(* of the controller joins its worker.)                                     *)
(***************************************************************************)
DrainIsFinite ==
    (owner # "idle" /\ StartsApart) =>
        /\ promised = Len(published)
        /\ \A t \in Threads : ~ live(t) /\ producing[t] = "idle"

(***************************************************************************)
(* Every event the publisher gave up reaches the controller as an error,    *)
(* once each, across the two components and their two locks. (The callback  *)
(* installed by the constructor, and the undelivered path of worker_loop.)  *)
(***************************************************************************)
LossesReachTheController ==
    Cardinality(Publisher!Lost) = send_errors + (IF p_worker = "callback" THEN 1 ELSE 0)

Verdicts(r) == IF r = run THEN Len(settled) ELSE earlier[r]

(***************************************************************************)
(* A crash loses the end of what a launch published and no part before it:  *)
(* whatever the backend has seen or may still see of a launch, everything   *)
(* that launch published earlier was delivered or reported as lost. (The    *)
(* queue is in memory only; worker_loop posts one event at a time.)         *)
(***************************************************************************)
CrashLosesOnlyTheEnd ==
    /\ \A i \in 1..Len(settled) : settled[i].event = <<run, i>>
    /\ \A e \in {received[m] : m \in 1..Len(received)} \cup {copy[1] : copy \in in_flight} :
        e[2] <= Verdicts(e[1]) + 1

(***************************************************************************)
(* From a scenario to a verdict: every event the controller publishes is    *)
(* delivered or given up, unless the process ends before.                   *)
(***************************************************************************)
PublishedEventsSettle ==
    \A n \in 1..(Cardinality(Threads) * (Len(Batch) + 1)) :
        (run = 1 /\ Len(published) >= n) ~> (Len(settled) >= n \/ ~ alive \/ run > 1)

(***************************************************************************)
(* The destructor returns, however many events are queued when it is called *)
(* and whether or not the backend answers.                                  *)
(***************************************************************************)
ShutdownEnds == (main = destruction[1]) ~> (main = "exited" \/ ~ alive)
=============================================================================
