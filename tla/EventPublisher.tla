---------------------------- MODULE EventPublisher ----------------------------
(***************************************************************************)
(* HttpEventPublisher (src/src/api/event_publisher.cpp): an unbounded queue *)
(* under a mutex, a condition variable, and one worker thread that posts    *)
(* every event to the backend with retries. enqueue_event may be called     *)
(* from any thread; start and stop are called by the owner, one at a time.  *)
(*                                                                          *)
(* A critical section of the mutex is one step. The notifications that      *)
(* follow an unlock are steps of their own, and the wait on the condition   *)
(* variable releases the mutex and falls asleep in one step, as the         *)
(* standard library guarantees. The backend is another process: a post that *)
(* the client gave up on may be recorded at any later time, or never.       *)
(***************************************************************************)
EXTENDS Naturals, Sequences, FiniteSets

CONSTANTS
    Events,           \* the events the callers enqueue, each at most once
    Producers,        \* the threads that call enqueue_event
    post_retry_count, \* BackendConfig::post_retry_count
    PostThrows,       \* the events on which post_once throws
    NoEvent           \* the worker holds no event

ASSUME PublisherAssumption ==
    /\ post_retry_count \in Nat
    /\ PostThrows \subseteq Events
    /\ NoEvent \notin Events

VARIABLES
    queue,          \* queue_
    started,        \* started_
    stop_requested, \* stop_requested_
    last_error,     \* last_error_: which message it holds
    owner,          \* where the owner is: "idle" or inside stop()
    worker,         \* where worker_loop is; "none": worker_ is not joinable
    current,        \* the worker's local event
    attempt,        \* the worker's loop counter
    producing,      \* where each producer is inside enqueue_event
    reported,       \* how many times error_callback_ was called
    in_flight,      \* posts the client gave up on that may still be recorded
    received,       \* the backend's log
    accepted,       \* history: every event ever pushed, in order
    settled,        \* history: what became of the events, in order
    promised,       \* history: how many events were accepted when stop() began
    alive           \* FALSE once std::terminate has ended the process

owner_vars == <<started, stop_requested, owner, promised>>
post_vars == <<current, attempt, settled, in_flight, received>>
report_vars == <<last_error, reported>>
enqueue_vars == <<accepted, producing>>
vars == <<queue, worker, owner_vars, post_vars, report_vars, enqueue_vars, alive>>

Init ==
    /\ queue = <<>>
    /\ started = FALSE
    /\ stop_requested = FALSE
    /\ last_error = "none"
    /\ owner = "idle"
    /\ worker = "none"
    /\ current = NoEvent
    /\ attempt = 0
    /\ producing = [p \in Producers |-> "idle"]
    /\ reported = 0
    /\ in_flight = {}
    /\ received = <<>>
    /\ accepted = <<>>
    /\ settled = <<>>
    /\ promised = 0
    /\ alive = TRUE
-----------------------------------------------------------------------------
(* The condition variable. *)

\* Where the worker is after a notification: awake if it was waiting.
woken_mutant == worker
woken == IF worker = "waiting" THEN "test" ELSE worker

spurious_wakeup ==
    /\ alive
    /\ worker = "waiting"
    /\ worker' = "test"
    /\ UNCHANGED <<queue, owner_vars, post_vars, report_vars, enqueue_vars, alive>>
-----------------------------------------------------------------------------
(* The owner: the constructor and the destructor of ServiceController. *)

start ==
    /\ alive
    /\ owner = "idle"
    /\ ~ started
    /\ stop_requested' = FALSE
    /\ started' = TRUE
    /\ worker' = "test"
    /\ UNCHANGED <<owner, promised, queue, post_vars, report_vars, enqueue_vars, alive>>

stop_request ==
    /\ alive
    /\ owner = "idle"
    /\ started
    /\ stop_requested' = TRUE
    /\ promised' = Len(accepted)
    /\ owner' = "notify"
    /\ UNCHANGED <<started, queue, worker, post_vars, report_vars, enqueue_vars, alive>>

stop_notify ==
    /\ alive
    /\ owner = "notify"
    /\ worker' = woken
    /\ owner' = "join"
    /\ UNCHANGED <<started, stop_requested, promised, queue, post_vars, report_vars, enqueue_vars, alive>>

stop_join ==
    /\ alive
    /\ owner = "join"
    /\ worker = "exited"
    /\ worker' = "none"
    /\ owner' = "close"
    /\ UNCHANGED <<started, stop_requested, promised, queue, post_vars, report_vars, enqueue_vars, alive>>

stop_close ==
    /\ alive
    /\ owner = "close"
    /\ started' = FALSE
    /\ owner' = "idle"
    /\ UNCHANGED <<stop_requested, promised, queue, worker, post_vars, report_vars, enqueue_vars, alive>>

stop == stop_notify \/ stop_join \/ stop_close
-----------------------------------------------------------------------------
(* enqueue_event: push under the lock, notify after it. *)

pushed_mutant(e) == <<e>> \o queue
pushed(e) == Append(queue, e)

enqueue_push(p, e) ==
    /\ alive
    /\ producing[p] = "idle"
    /\ \A i \in 1..Len(accepted) : accepted[i] # e
    /\ queue' = pushed(e)
    /\ accepted' = Append(accepted, e)
    /\ producing' = [producing EXCEPT ![p] = "notify"]
    /\ UNCHANGED <<worker, owner_vars, post_vars, report_vars, alive>>

enqueue_notify(p) ==
    /\ alive
    /\ producing[p] = "notify"
    /\ worker' = woken
    /\ producing' = [producing EXCEPT ![p] = "idle"]
    /\ UNCHANGED <<queue, accepted, owner_vars, post_vars, report_vars, alive>>
-----------------------------------------------------------------------------
(* worker_loop *)

\* The predicate of the wait.
wake_condition_mutant == queue # <<>>
wake_condition == stop_requested \/ queue # <<>>

worker_wait ==
    /\ alive
    /\ worker = "test"
    /\ ~ wake_condition
    /\ worker' = "waiting"
    /\ UNCHANGED <<queue, owner_vars, post_vars, report_vars, enqueue_vars, alive>>

\* Whether the loop ends here instead of taking an event.
must_exit_undrained_mutant == stop_requested
must_exit == stop_requested /\ queue = <<>>

worker_exit ==
    /\ alive
    /\ worker = "test"
    /\ must_exit
    /\ worker' = "exited"
    /\ UNCHANGED <<queue, owner_vars, post_vars, report_vars, enqueue_vars, alive>>

worker_take ==
    /\ alive
    /\ worker = "test"
    /\ wake_condition
    /\ ~ must_exit
    /\ current' = Head(queue)
    /\ queue' = Tail(queue)
    /\ attempt' = 0
    /\ worker' = "post"
    /\ UNCHANGED <<settled, in_flight, received, owner_vars, report_vars, enqueue_vars, alive>>

\* Whether the attempts loop makes one more call of post_once.
try_again_short_mutant == attempt + 1 < post_retry_count
try_again_long_mutant == attempt <= post_retry_count
try_again == attempt < post_retry_count

\* The verdict on the current event is in.
settle_mutant(delivered) == settled' = Append(settled, [event |-> current, delivered |-> TRUE])
settle(delivered) == settled' = Append(settled, [event |-> current, delivered |-> delivered])

\* Where the worker goes then: back to the queue, or on to the error path.
after_post_mutant(delivered) == "test"
after_post(delivered) == IF delivered THEN "test" ELSE "callback"

\* The backend records the event and its 2xx answer arrives in time.
post_succeeds ==
    /\ alive
    /\ worker = "post"
    /\ try_again
    /\ current \notin PostThrows
    /\ received' = Append(received, current)
    /\ settle(TRUE)
    /\ current' = NoEvent
    /\ worker' = after_post(TRUE)
    /\ UNCHANGED <<attempt, in_flight, queue, owner_vars, report_vars, enqueue_vars, alive>>

\* No connection, no answer within post_timeout_ms, or an answer that is not
\* 2xx. The client cannot tell whether the backend records the event: the copy
\* is in flight, and an undelivered one is never recorded.
post_fails ==
    /\ alive
    /\ worker = "post"
    /\ try_again
    /\ current \notin PostThrows
    /\ in_flight' = in_flight \cup {<<current, attempt>>}
    /\ attempt' = attempt + 1
    /\ UNCHANGED <<current, settled, received, worker, queue, owner_vars, report_vars, enqueue_vars, alive>>

\* parse_http_url or event.dump() throws: nothing in worker_loop catches it, and
\* an exception that leaves a thread ends the process.
post_throws ==
    /\ alive
    /\ worker = "post"
    /\ try_again
    /\ current \in PostThrows
    /\ alive' = FALSE
    /\ UNCHANGED <<queue, worker, owner_vars, post_vars, report_vars, enqueue_vars>>

\* The attempts are used up. With no attempt made the message is empty.
give_up ==
    /\ alive
    /\ worker = "post"
    /\ ~ try_again
    /\ last_error' = IF attempt = 0 THEN "empty" ELSE "failure"
    /\ settle(FALSE)
    /\ current' = NoEvent
    /\ worker' = after_post(FALSE)
    /\ UNCHANGED <<attempt, in_flight, received, reported, queue, owner_vars, enqueue_vars, alive>>

\* error_callback_ runs outside the lock.
call_back ==
    /\ alive
    /\ worker = "callback"
    /\ reported' = reported + 1
    /\ worker' = "test"
    /\ UNCHANGED <<last_error, queue, owner_vars, post_vars, enqueue_vars, alive>>

worker_loop ==
    \/ worker_wait \/ worker_exit \/ worker_take
    \/ post_succeeds \/ post_fails \/ post_throws
    \/ give_up \/ call_back
-----------------------------------------------------------------------------
(* The backend records a post after the client gave up on it. *)

record_late(copy) ==
    /\ in_flight' = in_flight \ {copy}
    /\ received' = Append(received, copy[1])
    /\ UNCHANGED <<queue, worker, current, attempt, settled, owner_vars, report_vars, enqueue_vars, alive>>
-----------------------------------------------------------------------------
Next ==
    \/ start \/ stop_request \/ stop
    \/ \E p \in Producers : enqueue_notify(p) \/ \E e \in Events : enqueue_push(p, e)
    \/ worker_loop
    \/ spurious_wakeup
    \/ \E copy \in in_flight : record_late(copy)

Spec == Init /\ [][Next]_vars

-----------------------------------------------------------------------------
(* What must hold. *)

TypeOK ==
    /\ queue \in Seq(Events)
    /\ started \in BOOLEAN
    /\ stop_requested \in BOOLEAN
    /\ last_error \in {"none", "empty", "failure"}
    /\ owner \in {"idle", "notify", "join", "close"}
    /\ worker \in {"none", "test", "waiting", "post", "callback", "exited"}
    /\ current \in Events \cup {NoEvent}
    /\ attempt \in 0..post_retry_count
    /\ producing \in [Producers -> {"idle", "notify"}]
    /\ reported \in Nat
    /\ in_flight \subseteq Events \X (0..post_retry_count)
    /\ received \in Seq(Events)
    /\ accepted \in Seq(Events)
    /\ settled \in Seq([event : Events, delivered : BOOLEAN])
    /\ promised \in Nat
    /\ alive \in BOOLEAN

\* How many events the worker holds between queue_ and their verdict.
held == IF current = NoEvent THEN 0 ELSE 1

(***************************************************************************)
(* No event is lost, duplicated or reordered on its way through the queue: *)
(* the events settled, the one the worker holds and the ones in queue_ are *)
(* together, in this order, exactly the events enqueue_event was given.    *)
(***************************************************************************)
EveryEventAccounted ==
    /\ Len(accepted) = Len(settled) + held + Len(queue)
    /\ \A i \in 1..Len(settled) : settled[i].event = accepted[i]
    /\ current # NoEvent => current = accepted[Len(settled) + 1]
    /\ \A i \in 1..Len(queue) : queue[i] = accepted[Len(settled) + held + i]

Copies(e) == Cardinality({i \in 1..Len(received) : received[i] = e})
Doubtful(e) == Cardinality({copy \in in_flight : copy[1] = e})

(***************************************************************************)
(* A verdict can be trusted as far as the protocol allows: an event settled *)
(* as delivered is in the backend's log, and one given up was attempted     *)
(* post_retry_count times. In both cases the backend sees at most           *)
(* post_retry_count copies, whatever arrives late. (The attempts loop.)     *)
(***************************************************************************)
VerdictsTrustworthy ==
    \A i \in 1..Len(settled) :
        LET e == settled[i].event IN
        /\ Copies(e) + Doubtful(e) <= post_retry_count
        /\ settled[i].delivered => Copies(e) >= 1
        /\ ~ settled[i].delivered => Copies(e) + Doubtful(e) = post_retry_count

Lost == {i \in 1..Len(settled) : ~ settled[i].delivered}

(***************************************************************************)
(* Every event given up is reported through error_callback_ exactly once,  *)
(* and last_error_ stays set from the first loss on. (The undelivered path *)
(* of worker_loop, which drops the lock between the two.)                  *)
(***************************************************************************)
EveryLossReported ==
    /\ Cardinality(Lost) = reported + (IF worker = "callback" THEN 1 ELSE 0)
    /\ Lost # {} <=> last_error # "none"

(***************************************************************************)
(* stop() drains: once it has returned, every event enqueued before it was *)
(* called is settled. (worker_loop leaves only when queue_ is empty.)      *)
(***************************************************************************)
StopDrains == ~ started => promised <= Len(settled)

(***************************************************************************)
(* started_, worker_ and the worker's own state agree although start and   *)
(* stop touch them in several critical sections: a worker exists exactly   *)
(* while the publisher is started and not yet joined, it has ended only if *)
(* stop() is about to join it, and it holds an event only while posting.   *)
(***************************************************************************)
WorkerDiscipline ==
    /\ worker = "none" <=> (~ started \/ owner = "close")
    /\ worker = "exited" => owner \in {"notify", "join"}
    /\ owner # "idle" <=> (started /\ stop_requested)
    /\ worker = "post" <=> current # NoEvent

\* The publisher implements the outbox.
Outbox == INSTANCE EventOutbox WITH
    Events <- Events, accepted <- accepted, settled <- settled, received <- received
ImplementsOutbox == Outbox!Spec
DeliveredInOrder == Outbox!DeliveredInOrder

(***************************************************************************)
(* A failure to send an event ends in a report, never in the end of the    *)
(* process.                                                                *)
(***************************************************************************)
SendFailureIsReported == alive
=============================================================================
