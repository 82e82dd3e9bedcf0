------------------------ MODULE EventPublisher_proofs ------------------------
(***************************************************************************)
(* What HttpEventPublisher guarantees for every set of events and of        *)
(* producers and every post_retry_count, with post_once throwing or not.    *)
(***************************************************************************)
EXTENDS EventPublisher, SequenceTheorems, FiniteSetTheorems, TLAPS

USE PublisherAssumption DEF PublisherAssumption

-----------------------------------------------------------------------------
(* Types. *)

\* Before start() there is no worker and nothing is queued.
LEMMA TypeInit == Init => TypeOK /\ WorkerDiscipline
  <1> SUFFICES ASSUME Init PROVE TypeOK /\ WorkerDiscipline
    OBVIOUS
  <1>1. /\ queue \in Seq(Events)
        /\ received \in Seq(Events)
        /\ accepted \in Seq(Events)
        /\ settled \in Seq([event : Events, delivered : BOOLEAN])
    BY EmptySeq DEF Init
  <1>2. producing \in [Producers -> {"idle", "notify"}]
    BY DEF Init
  <1>3. attempt \in 0..post_retry_count
    BY DEF Init
  <1>4. TypeOK
    BY <1>1, <1>2, <1>3 DEF Init, TypeOK
  <1>5. WorkerDiscipline
    BY DEF Init, WorkerDiscipline
  <1> QED
    BY <1>4, <1>5

\* start() and stop() change started_, stop_requested_ and worker_ together.
LEMMA OwnerKeepsTypes ==
    ASSUME TypeOK, WorkerDiscipline, start \/ stop_request \/ stop
    PROVE  TypeOK' /\ WorkerDiscipline'
  <1> USE DEF TypeOK, WorkerDiscipline, owner_vars, post_vars, report_vars, enqueue_vars
  <1>1. CASE start
    BY <1>1 DEF start
  <1>2. CASE stop_request
    BY <1>2 DEF stop_request
  <1>3. CASE stop_notify
    BY <1>3 DEF stop_notify, woken
  <1>4. CASE stop_join
    BY <1>4 DEF stop_join
  <1>5. CASE stop_close
    BY <1>5 DEF stop_close
  <1> QED
    BY <1>1, <1>2, <1>3, <1>4, <1>5 DEF stop

\* enqueue_event touches the worker only to wake it.
LEMMA ProducersKeepTypes ==
    ASSUME TypeOK, WorkerDiscipline, NEW p \in Producers,
           enqueue_notify(p) \/ \E e \in Events : enqueue_push(p, e)
    PROVE  TypeOK' /\ WorkerDiscipline'
  <1> USE DEF TypeOK, WorkerDiscipline, owner_vars, post_vars, report_vars, enqueue_vars
  <1>1. CASE enqueue_notify(p)
    BY <1>1 DEF enqueue_notify, woken
  <1>2. ASSUME NEW e \in Events, enqueue_push(p, e)
        PROVE  TypeOK' /\ WorkerDiscipline'
    BY <1>2 DEF enqueue_push, pushed
  <1> QED
    BY <1>1, <1>2

\* The worker ends only when it was asked to, and counts no attempt too many.
LEMMA WorkerKeepsTypes ==
    ASSUME TypeOK, WorkerDiscipline, worker_loop
    PROVE  TypeOK' /\ WorkerDiscipline'
  <1> USE DEF TypeOK, WorkerDiscipline, owner_vars, post_vars, report_vars, enqueue_vars
  <1>1. CASE worker_wait
    BY <1>1 DEF worker_wait
  <1>2. CASE worker_exit
    <2>1. owner \in {"notify", "join"}
      BY <1>2 DEF worker_exit, must_exit
    <2> QED
      BY <1>2, <2>1 DEF worker_exit, must_exit
  <1>3. CASE worker_take
    BY <1>3, HeadTailProperties DEF worker_take, wake_condition, must_exit
  <1>4. CASE post_succeeds
    BY <1>4 DEF post_succeeds, settle, after_post
  <1>5. CASE post_fails
    BY <1>5 DEF post_fails, try_again
  <1>6. CASE post_throws
    BY <1>6 DEF post_throws
  <1>7. CASE give_up
    BY <1>7 DEF give_up, settle, after_post
  <1>8. CASE call_back
    BY <1>8 DEF call_back
  <1> QED
    BY <1>1, <1>2, <1>3, <1>4, <1>5, <1>6, <1>7, <1>8 DEF worker_loop

\* Spurious wakeups, late records and stuttering.
LEMMA OthersKeepTypes ==
    ASSUME TypeOK, WorkerDiscipline,
           spurious_wakeup \/ (\E copy \in in_flight : record_late(copy)) \/ UNCHANGED vars
    PROVE  TypeOK' /\ WorkerDiscipline'
  <1> USE DEF TypeOK, WorkerDiscipline, owner_vars, post_vars, report_vars, enqueue_vars
  <1>1. CASE spurious_wakeup
    BY <1>1 DEF spurious_wakeup
  <1>2. ASSUME NEW copy \in in_flight, record_late(copy)
        PROVE  TypeOK' /\ WorkerDiscipline'
    BY <1>2 DEF record_late
  <1>3. CASE UNCHANGED vars
    BY <1>3 DEF vars
  <1> QED
    BY <1>1, <1>2, <1>3

(* Every variable of the publisher keeps its type, and started_, worker_ and  *)
(* the worker's state agree at every step of start, stop and worker_loop.     *)
THEOREM TypeCorrect == Spec => [](TypeOK /\ WorkerDiscipline)
  <1>1. TypeOK /\ WorkerDiscipline /\ [Next]_vars => TypeOK' /\ WorkerDiscipline'
    BY OwnerKeepsTypes, ProducersKeepTypes, WorkerKeepsTypes, OthersKeepTypes DEF Next
  <1> QED
    BY <1>1, TypeInit, PTL DEF Spec
-----------------------------------------------------------------------------
(* The events: none is lost, duplicated or reordered, and stop() drains.     *)
(* The invariant adds that a worker which ended left nothing promised behind. *)

Drained ==
    /\ promised <= Len(accepted)
    /\ worker \in {"none", "exited"} => promised <= Len(settled)

QueueInv == TypeOK /\ WorkerDiscipline /\ EveryEventAccounted /\ Drained

\* No event exists at first.
LEMMA QueueInvInit == Init => QueueInv
  <1> SUFFICES ASSUME Init PROVE QueueInv
    OBVIOUS
  <1>1. Len(accepted) = 0 /\ Len(settled) = 0 /\ Len(queue) = 0
    BY DEF Init
  <1> QED
    BY <1>1, TypeInit DEF Init, QueueInv, EveryEventAccounted, Drained, held

\* A step that moves no event.
LEMMA QuietStep ==
    ASSUME QueueInv, UNCHANGED <<queue, current, accepted, settled, promised>>,
           TypeOK', WorkerDiscipline',
           worker' \in {"none", "exited"} => promised <= Len(settled)
    PROVE  QueueInv'
  BY DEF QueueInv, EveryEventAccounted, Drained, held

\* The owner moves no event; stop() notes how many were accepted.
LEMMA OwnerKeepsEvents ==
    ASSUME QueueInv, start \/ stop_request \/ stop
    PROVE  QueueInv'
  <1> USE DEF owner_vars, post_vars, report_vars, enqueue_vars
  <1>1. TypeOK' /\ WorkerDiscipline'
    BY OwnerKeepsTypes DEF QueueInv
  <1>2. CASE start
    BY <1>1, <1>2, QuietStep DEF start
  <1>3. CASE stop_request
    <2>1. worker \notin {"none", "exited"}
      BY <1>3 DEF stop_request, QueueInv, WorkerDiscipline
    <2> QED
      BY <1>1, <1>3, <2>1 DEF stop_request, QueueInv, EveryEventAccounted, Drained, held, TypeOK
  <1>4. CASE stop_notify
    BY <1>1, <1>4, QuietStep DEF stop_notify, woken, QueueInv, Drained
  <1>5. CASE stop_join
    BY <1>1, <1>5, QuietStep DEF stop_join, QueueInv, Drained
  <1>6. CASE stop_close
    BY <1>1, <1>6, QuietStep DEF stop_close, QueueInv, Drained
  <1> QED
    BY <1>2, <1>3, <1>4, <1>5, <1>6 DEF stop

\* enqueue_event appends to what is queued and to what is accepted alike.
LEMMA ProducersKeepEvents ==
    ASSUME QueueInv, NEW p \in Producers,
           enqueue_notify(p) \/ \E e \in Events : enqueue_push(p, e)
    PROVE  QueueInv'
  <1> USE DEF owner_vars, post_vars, report_vars, enqueue_vars
  <1>1. TypeOK' /\ WorkerDiscipline'
    BY ProducersKeepTypes DEF QueueInv
  <1>2. CASE enqueue_notify(p)
    BY <1>1, <1>2, QuietStep DEF enqueue_notify, woken, QueueInv, Drained
  <1>3. ASSUME NEW e \in Events, enqueue_push(p, e) PROVE QueueInv'
    <2>1. /\ Len(accepted') = Len(accepted) + 1
          /\ \A i \in 1..Len(accepted) : accepted'[i] = accepted[i]
          /\ accepted'[Len(accepted) + 1] = e
          /\ Len(queue') = Len(queue) + 1
          /\ \A i \in 1..Len(queue) : queue'[i] = queue[i]
          /\ queue'[Len(queue) + 1] = e
      BY <1>3, AppendProperties DEF enqueue_push, pushed, QueueInv, TypeOK
    <2>2. EveryEventAccounted'
      <3>1. /\ settled' = settled /\ current' = current
            /\ held' = held /\ held \in {0, 1}
            /\ Len(accepted) = Len(settled) + held + Len(queue)
            /\ Len(settled) \in Nat /\ Len(queue) \in Nat /\ Len(accepted) \in Nat
        BY <1>3 DEF enqueue_push, QueueInv, TypeOK, EveryEventAccounted, held
      <3>2. Len(accepted') = Len(settled') + held' + Len(queue')
        <4>1. /\ Len(settled') = Len(settled) /\ held' = held
              /\ Len(accepted') = Len(accepted) + 1 /\ Len(queue') = Len(queue) + 1
          BY <2>1, <3>1
        <4>2. /\ Len(accepted) = Len(settled) + held + Len(queue)
              /\ Len(settled) \in Nat /\ Len(queue) \in Nat /\ held \in Nat
          BY <3>1
        <4> QED
          BY <4>1, <4>2
      <3>3. \A i \in 1..Len(settled') : settled'[i].event = accepted'[i]
        BY <2>1, <3>1 DEF QueueInv, EveryEventAccounted
      <3>4. current' # NoEvent => current' = accepted'[Len(settled') + 1]
        BY <2>1, <3>1 DEF QueueInv, EveryEventAccounted, held
      <3>5. \A i \in 1..Len(queue') : queue'[i] = accepted'[Len(settled') + held' + i]
        <4> SUFFICES ASSUME NEW i \in 1..(Len(queue) + 1)
                     PROVE  queue'[i] = accepted'[Len(settled) + held + i]
          BY <2>1, <3>1
        <4>1. CASE i \in 1..Len(queue)
          <5>1. Len(settled) + held + i \in 1..Len(accepted)
            BY <3>1, <4>1
          <5>2. queue[i] = accepted[Len(settled) + held + i]
            BY <4>1 DEF QueueInv, EveryEventAccounted
          <5> QED
            BY <2>1, <4>1, <5>1, <5>2
        <4>2. CASE i = Len(queue) + 1
          <5>1. Len(settled) + held + i = Len(accepted) + 1
            BY <3>1, <4>2
          <5> QED
            BY <2>1, <4>2, <5>1
        <4> QED
          BY <3>1, <4>1, <4>2
      <3> QED
        BY <3>2, <3>3, <3>4, <3>5 DEF EveryEventAccounted
    <2>3. Drained'
      BY <1>3, <2>1 DEF enqueue_push, QueueInv, TypeOK, Drained
    <2> QED
      BY <1>1, <2>2, <2>3 DEF QueueInv
  <1> QED
    BY <1>2, <1>3

\* The verdict on the event the worker holds.
LEMMA VerdictKeepsEvents ==
    ASSUME QueueInv, NEW d \in BOOLEAN, worker = "post", settle(d), current' = NoEvent,
           UNCHANGED <<queue, accepted, promised>>,
           worker' \notin {"none", "exited"}, TypeOK', WorkerDiscipline'
    PROVE  QueueInv'
  <1>1. current # NoEvent /\ current = accepted[Len(settled) + 1]
    BY DEF QueueInv, WorkerDiscipline, EveryEventAccounted
  <1>2. /\ Len(settled') = Len(settled) + 1
        /\ \A i \in 1..Len(settled) : settled'[i] = settled[i]
        /\ settled'[Len(settled) + 1] = [event |-> current, delivered |-> d]
    BY <1>1, AppendProperties DEF settle, QueueInv, TypeOK
  <1>3. EveryEventAccounted'
    <2>1. /\ UNCHANGED <<queue, accepted>>
          /\ held = 1 /\ held' = 0
          /\ Len(accepted) = Len(settled) + 1 + Len(queue)
          /\ Len(settled) \in Nat /\ Len(queue) \in Nat
      BY <1>1 DEF QueueInv, TypeOK, EveryEventAccounted, held
    <2>2. \A i \in 1..Len(settled') : settled'[i].event = accepted'[i]
      <3>1. \A i \in 1..Len(settled) : settled[i].event = accepted[i]
        BY DEF QueueInv, EveryEventAccounted
      <3>2. settled'[Len(settled) + 1].event = accepted[Len(settled) + 1]
        BY <1>1, <1>2
      <3> QED
        BY <1>2, <2>1, <3>1, <3>2
    <2>3. \A i \in 1..Len(queue') : queue'[i] = accepted'[Len(settled') + held' + i]
      BY <1>2, <2>1 DEF QueueInv, EveryEventAccounted
    <2> QED
      BY <1>2, <2>1, <2>2, <2>3 DEF EveryEventAccounted
  <1>4. Drained'
    BY <1>2 DEF QueueInv, TypeOK, Drained
  <1> QED
    BY <1>3, <1>4 DEF QueueInv

\* The worker moves the head of the queue to its hands, and from there to the verdicts.
LEMMA WorkerKeepsEvents ==
    ASSUME QueueInv, worker_loop
    PROVE  QueueInv'
  <1> USE DEF owner_vars, post_vars, report_vars, enqueue_vars
  <1>1. TypeOK' /\ WorkerDiscipline'
    BY WorkerKeepsTypes DEF QueueInv
  <1>2. CASE worker_wait
    BY <1>1, <1>2, QuietStep DEF worker_wait
  <1>3. CASE worker_exit
    <2>1. Len(settled) = Len(accepted)
      BY <1>3 DEF worker_exit, must_exit, QueueInv, TypeOK, EveryEventAccounted, WorkerDiscipline, held
    <2> QED
      BY <1>1, <1>3, <2>1, QuietStep DEF worker_exit, QueueInv, Drained
  <1>4. CASE worker_take
    <2>1. queue # <<>> /\ current = NoEvent
      BY <1>4 DEF worker_take, wake_condition, must_exit, QueueInv, WorkerDiscipline
    <2>2. /\ current' = queue[1]
          /\ current' \in Events
          /\ Len(queue') = Len(queue) - 1
          /\ \A i \in 1..Len(queue') : queue'[i] = queue[i + 1]
          /\ Len(queue) >= 1
      BY <1>4, <2>1, HeadTailProperties DEF worker_take, QueueInv, TypeOK
    <2>3. EveryEventAccounted'
      <3>1. /\ accepted' = accepted /\ settled' = settled
            /\ held = 0
            /\ Len(accepted) = Len(settled) + Len(queue)
            /\ Len(settled) \in Nat /\ Len(queue) \in Nat
        BY <1>4, <2>1 DEF worker_take, QueueInv, TypeOK, EveryEventAccounted, held
      <3>2. held' = 1
        BY <2>2 DEF held
      <3>3. current' = accepted'[Len(settled') + 1]
        BY <2>2, <3>1 DEF QueueInv, EveryEventAccounted
      <3>4. \A i \in 1..Len(queue') : queue'[i] = accepted'[Len(settled') + held' + i]
        BY <2>2, <3>1, <3>2 DEF QueueInv, EveryEventAccounted
      <3>5. Len(accepted') = Len(settled') + held' + Len(queue')
        BY <2>2, <3>1, <3>2
      <3>6. \A i \in 1..Len(settled') : settled'[i].event = accepted'[i]
        BY <3>1 DEF QueueInv, EveryEventAccounted
      <3> QED
        BY <3>3, <3>4, <3>5, <3>6 DEF EveryEventAccounted
    <2>4. Drained'
      BY <1>4 DEF worker_take, QueueInv, Drained
    <2> QED
      BY <1>1, <2>3, <2>4 DEF QueueInv
  <1>5. CASE post_succeeds
    BY <1>1, <1>5, VerdictKeepsEvents DEF post_succeeds, after_post
  <1>6. CASE post_fails
    BY <1>1, <1>6, QuietStep DEF post_fails, QueueInv, Drained
  <1>7. CASE post_throws
    BY <1>1, <1>7, QuietStep DEF post_throws, QueueInv, Drained
  <1>8. CASE give_up
    BY <1>1, <1>8, VerdictKeepsEvents DEF give_up, after_post
  <1>9. CASE call_back
    BY <1>1, <1>9, QuietStep DEF call_back
  <1> QED
    BY <1>2, <1>3, <1>4, <1>5, <1>6, <1>7, <1>8, <1>9 DEF worker_loop

\* Spurious wakeups, late records and stuttering move no event.
LEMMA OthersKeepEvents ==
    ASSUME QueueInv, spurious_wakeup \/ (\E copy \in in_flight : record_late(copy)) \/ UNCHANGED vars
    PROVE  QueueInv'
  <1> USE DEF owner_vars, post_vars, report_vars, enqueue_vars
  <1>1. TypeOK' /\ WorkerDiscipline'
    BY OthersKeepTypes DEF QueueInv
  <1>2. CASE spurious_wakeup
    BY <1>1, <1>2, QuietStep DEF spurious_wakeup
  <1>3. ASSUME NEW copy \in in_flight, record_late(copy) PROVE QueueInv'
    BY <1>1, <1>3 DEF record_late, QueueInv, EveryEventAccounted, Drained, held
  <1>4. CASE UNCHANGED vars
    BY <1>1, <1>4, QuietStep DEF vars, QueueInv, Drained
  <1> QED
    BY <1>2, <1>3, <1>4

\* Every step keeps the queue in order.
LEMMA QueueInvInductive ==
    ASSUME QueueInv, [Next]_vars
    PROVE  QueueInv'
  BY OwnerKeepsEvents, ProducersKeepEvents, WorkerKeepsEvents, OthersKeepEvents DEF Next

\* The event being posted is the next one due.
LEMMA PostedIsDue ==
    ASSUME QueueInv, worker = "post"
    PROVE  Len(settled) + 1 \in 1..Len(accepted) /\ current = accepted[Len(settled) + 1]
  BY DEF QueueInv, TypeOK, WorkerDiscipline, EveryEventAccounted, held

(* Copies in flight are of events whose turn has come.                       *)

CopiesDue ==
    \A copy \in in_flight :
        \E i \in 1..Len(accepted) : i <= Len(settled) + 1 /\ accepted[i] = copy[1]

IInv == QueueInv /\ CopiesDue

\* A copy is made of the event being posted; what is due stays due.
LEMMA CopiesStayDue ==
    ASSUME IInv, [Next]_vars
    PROVE  CopiesDue'
  <1> USE DEF owner_vars, post_vars, report_vars, enqueue_vars
  <1>1. /\ Len(accepted) \in Nat /\ Len(settled) \in Nat
        /\ accepted \in Seq(Events) /\ settled \in Seq([event : Events, delivered : BOOLEAN])
    BY DEF IInv, QueueInv, TypeOK
  <1>2. ASSUME in_flight' \subseteq in_flight, UNCHANGED <<accepted, settled>> PROVE CopiesDue'
    BY <1>2 DEF IInv, CopiesDue
  <1>3. CASE start \/ stop_request \/ stop
    BY <1>2, <1>3 DEF start, stop_request, stop, stop_notify, stop_join, stop_close
  <1>4. ASSUME NEW p \in Producers, enqueue_notify(p) PROVE CopiesDue'
    BY <1>2, <1>4 DEF enqueue_notify
  <1>5. ASSUME NEW p \in Producers, NEW e \in Events, enqueue_push(p, e) PROVE CopiesDue'
    <2>1. /\ Len(accepted') = Len(accepted) + 1
          /\ \A i \in 1..Len(accepted) : accepted'[i] = accepted[i]
          /\ UNCHANGED <<in_flight, settled>>
      BY <1>1, <1>5, AppendProperties DEF enqueue_push
    <2> SUFFICES ASSUME NEW copy \in in_flight
                 PROVE  \E i \in 1..Len(accepted') : i <= Len(settled) + 1 /\ accepted'[i] = copy[1]
      BY <2>1 DEF CopiesDue
    <2>2. PICK i \in 1..Len(accepted) : i <= Len(settled) + 1 /\ accepted[i] = copy[1]
      BY DEF IInv, CopiesDue
    <2> QED
      BY <1>1, <2>1, <2>2
  <1>6. CASE worker_wait \/ worker_exit \/ worker_take \/ post_throws \/ call_back
    BY <1>2, <1>6 DEF worker_wait, worker_exit, worker_take, post_throws, call_back
  <1>7. CASE post_succeeds \/ give_up
    <2>1. /\ UNCHANGED <<accepted, in_flight>>
          /\ \E d \in BOOLEAN : settled' = Append(settled, [event |-> current, delivered |-> d])
      BY <1>7 DEF post_succeeds, give_up, settle
    <2>2. Len(settled') = Len(settled) + 1
      BY <1>1, <2>1
    <2> QED
      BY <1>1, <2>1, <2>2 DEF IInv, CopiesDue
  <1>8. CASE post_fails
    <2>1. Len(settled) + 1 \in 1..Len(accepted) /\ current = accepted[Len(settled) + 1]
      BY <1>8, PostedIsDue DEF post_fails, IInv
    <2> QED
      BY <1>1, <1>8, <2>1 DEF post_fails, IInv, CopiesDue
  <1>9. CASE spurious_wakeup
    BY <1>2, <1>9 DEF spurious_wakeup
  <1>10. ASSUME NEW copy \in in_flight, record_late(copy) PROVE CopiesDue'
    BY <1>2, <1>10 DEF record_late
  <1>11. CASE UNCHANGED vars
    BY <1>2, <1>11 DEF vars
  <1> QED
    BY <1>3, <1>4, <1>5, <1>6, <1>7, <1>8, <1>9, <1>10, <1>11 DEF Next, worker_loop

\* The strengthened invariant is inductive.
THEOREM Inductive == Spec => []IInv
  <1>1. Init => IInv
    BY QueueInvInit DEF Init, IInv, CopiesDue
  <1>2. IInv /\ [Next]_vars => IInv'
    BY QueueInvInductive, CopiesStayDue DEF IInv
  <1> QED
    BY <1>1, <1>2, PTL DEF Spec

(* The events settled, the one being posted and the ones queued are always   *)
(* exactly the events given to enqueue_event, in that order.                 *)
THEOREM NoEventIsLost == Spec => []EveryEventAccounted
  <1>1. IInv => EveryEventAccounted
    BY DEF IInv, QueueInv
  <1> QED
    BY <1>1, Inductive, PTL

(* When stop() has returned, every event enqueued before it was called is    *)
(* settled.                                                                  *)
THEOREM StopDrainsTheQueue == Spec => []StopDrains
  <1>1. IInv => StopDrains
    BY DEF IInv, QueueInv, Drained, WorkerDiscipline, StopDrains
  <1> QED
    BY <1>1, Inductive, PTL
-----------------------------------------------------------------------------
(* Losses and reports. *)

\* A verdict adds its position to the losses or leaves them alone.
LEMMA VerdictsAndLosses ==
    ASSUME TypeOK, NEW d \in BOOLEAN, settle(d)
    PROVE  /\ IsFiniteSet(Lost) /\ Cardinality(Lost) \in Nat
           /\ Lost' = IF d THEN Lost ELSE Lost \cup {Len(settled) + 1}
           /\ Len(settled) + 1 \notin Lost
  <1>1. PICK n \in Nat : n = Len(settled)
    BY DEF TypeOK
  <1>2. /\ Len(settled') = n + 1
        /\ \A i \in 1..n : settled'[i] = settled[i]
        /\ settled'[n + 1].delivered = d
    BY <1>1 DEF settle, TypeOK
  <1>3. Lost \in SUBSET (1..n) /\ IsFiniteSet(1..n)
    BY <1>1, FS_Interval DEF Lost
  <1>4. IsFiniteSet(Lost) /\ Cardinality(Lost) \in Nat
    BY <1>3, FS_Subset, FS_CardinalityType
  <1>5. Lost' = IF d THEN Lost ELSE Lost \cup {n + 1}
    BY <1>1, <1>2 DEF Lost
  <1> QED
    BY <1>1, <1>3, <1>4, <1>5

\* Every step reports what it must and nothing else.
LEMMA LossesStayReported ==
    ASSUME TypeOK, WorkerDiscipline, EveryLossReported, [Next]_vars
    PROVE  EveryLossReported'
  <1> USE DEF owner_vars, post_vars, report_vars, enqueue_vars
  <1>1. ASSUME UNCHANGED <<settled, reported, last_error>>, worker' = "callback" <=> worker = "callback"
        PROVE  EveryLossReported'
    BY <1>1 DEF EveryLossReported, Lost
  <1>2. CASE start \/ stop_request \/ stop
    BY <1>1, <1>2 DEF start, stop_request, stop, stop_notify, stop_join, stop_close, woken, WorkerDiscipline
  <1>3. ASSUME NEW p \in Producers, enqueue_notify(p) \/ \E e \in Events : enqueue_push(p, e)
        PROVE  EveryLossReported'
    BY <1>1, <1>3 DEF enqueue_notify, enqueue_push, woken
  <1>4. CASE worker_wait \/ worker_exit \/ worker_take \/ post_fails \/ post_throws
    BY <1>1, <1>4 DEF worker_wait, worker_exit, worker_take, post_fails, post_throws
  <1>5. CASE post_succeeds
    <2>1. Lost' = Lost
      BY <1>5, VerdictsAndLosses DEF post_succeeds
    <2> QED
      BY <1>5, <2>1 DEF post_succeeds, after_post, EveryLossReported
  <1>6. CASE give_up
    <2>1. /\ IsFiniteSet(Lost) /\ Cardinality(Lost) \in Nat
          /\ Lost' = Lost \cup {Len(settled) + 1}
          /\ Len(settled) + 1 \notin Lost
      BY <1>6, VerdictsAndLosses DEF give_up
    <2>2. Cardinality(Lost') = Cardinality(Lost) + 1
      BY <2>1, FS_AddElement
    <2>3. Cardinality(Lost) = reported /\ reported' = reported /\ worker' = "callback"
      BY <1>6, <2>1 DEF give_up, after_post, EveryLossReported, TypeOK
    <2>4. last_error' # "none" /\ Lost' # {}
      BY <1>6, <2>1 DEF give_up
    <2> QED
      BY <2>1, <2>2, <2>3, <2>4 DEF EveryLossReported
  <1>7. CASE call_back
    <2>1. Lost' = Lost
      BY <1>7 DEF call_back, Lost
    <2> QED
      BY <1>7, <2>1 DEF call_back, EveryLossReported, TypeOK
  <1>8. CASE spurious_wakeup \/ (\E copy \in in_flight : record_late(copy)) \/ UNCHANGED vars
    BY <1>1, <1>8 DEF spurious_wakeup, record_late, vars
  <1> QED
    BY <1>2, <1>3, <1>4, <1>5, <1>6, <1>7, <1>8 DEF Next, worker_loop

(* Every event given up is reported through error_callback_ once, and never  *)
(* forgotten by last_error_, whatever is enqueued, fails or arrives late.    *)
THEOREM LossesAreReported == Spec => []EveryLossReported
  <1>1. Init => EveryLossReported
    BY FS_EmptySet DEF Init, EveryLossReported, Lost
  <1>2. TypeOK /\ WorkerDiscipline /\ EveryLossReported /\ [Next]_vars => EveryLossReported'
    BY LossesStayReported
  <1> QED
    BY <1>1, <1>2, TypeCorrect, PTL DEF Spec
-----------------------------------------------------------------------------
(* Verdicts and copies. How often the backend has recorded an event, and how *)
(* often it still may, is counted together: a late record moves a copy from  *)
(* one count to the other.                                                   *)

Count(log, e) == Cardinality({i \in 1..Len(log) : log[i] = e})
Pending(copies, e) == Cardinality({copy \in copies : copy[1] = e})
Tally(e) == Count(received, e) + Pending(in_flight, e)

\* A set that may have grown by an element.
LEMMA OneMore ==
    ASSUME NEW C, IsFiniteSet(C), NEW x, x \notin C, NEW grows \in BOOLEAN,
           NEW D, D = IF grows THEN C \cup {x} ELSE C
    PROVE  Cardinality(C) \in Nat /\ Cardinality(D) = Cardinality(C) + (IF grows THEN 1 ELSE 0)
  <1>1. Cardinality(C) \in Nat
    BY FS_CardinalityType
  <1>2. CASE grows
    <2>1. Cardinality(C \cup {x}) = Cardinality(C) + 1
      BY FS_AddElement
    <2> QED
      BY <1>1, <1>2, <2>1
  <1>3. CASE ~ grows
    BY <1>1, <1>3
  <1> QED
    BY <1>1, <1>2, <1>3

\* One more entry in a log.
LEMMA CountAppend ==
    ASSUME NEW S, NEW log \in Seq(S), NEW c \in S, NEW e
    PROVE  /\ Count(log, e) \in Nat
           /\ Count(Append(log, c), e) = Count(log, e) + (IF c = e THEN 1 ELSE 0)
  <1>1. PICK n \in Nat : n = Len(log)
    OBVIOUS
  <1>2. PICK C : C = {i \in 1..n : log[i] = e}
    OBVIOUS
  <1>3. PICK D : D = {i \in 1..(n + 1) : Append(log, c)[i] = e}
    OBVIOUS
  <1>4. /\ Len(Append(log, c)) = n + 1
        /\ \A i \in 1..n : Append(log, c)[i] = log[i]
        /\ Append(log, c)[n + 1] = c
    BY <1>1, AppendProperties
  <1>5. C \in SUBSET (1..n) /\ IsFiniteSet(1..n)
    BY <1>2, FS_Interval
  <1>6. IsFiniteSet(C) /\ n + 1 \notin C
    <2>1. IsFiniteSet(C)
      BY <1>5, FS_Subset
    <2>2. n + 1 \notin C
      BY <1>5
    <2> QED
      BY <2>1, <2>2
  <1>7. D = IF c = e THEN C \cup {n + 1} ELSE C
    BY <1>2, <1>3, <1>4
  <1>8. Cardinality(C) \in Nat /\ Cardinality(D) = Cardinality(C) + (IF c = e THEN 1 ELSE 0)
    BY <1>6, <1>7, OneMore
  <1>9. Count(log, e) = Cardinality(C) /\ Count(Append(log, c), e) = Cardinality(D)
    BY <1>1, <1>2, <1>3, <1>4 DEF Count
  <1> QED
    BY <1>8, <1>9

\* One more copy in flight.
LEMMA PendingAdd ==
    ASSUME NEW F, IsFiniteSet(F), NEW c, c \notin F, NEW e
    PROVE  /\ Pending(F, e) \in Nat
           /\ Pending(F \cup {c}, e) = Pending(F, e) + (IF c[1] = e THEN 1 ELSE 0)
  <1>1. PICK C : C = {copy \in F : copy[1] = e}
    OBVIOUS
  <1>2. PICK D : D = {copy \in F \cup {c} : copy[1] = e}
    OBVIOUS
  <1>3. C \in SUBSET F /\ c \notin C
    BY <1>1
  <1>4. IsFiniteSet(C)
    BY <1>3, FS_Subset
  <1>5. D = IF c[1] = e THEN C \cup {c} ELSE C
    BY <1>1, <1>2
  <1>6. Cardinality(C) \in Nat /\ Cardinality(D) = Cardinality(C) + (IF c[1] = e THEN 1 ELSE 0)
    BY <1>3, <1>4, <1>5, OneMore
  <1> QED
    BY <1>1, <1>2, <1>6 DEF Pending

\* One copy less.
LEMMA PendingRemove ==
    ASSUME NEW F, IsFiniteSet(F), NEW c \in F, NEW e
    PROVE  /\ IsFiniteSet(F \ {c})
           /\ Pending(F \ {c}, e) \in Nat
           /\ Pending(F, e) = Pending(F \ {c}, e) + (IF c[1] = e THEN 1 ELSE 0)
  <1>1. PICK G : G = F \ {c}
    OBVIOUS
  <1>2. IsFiniteSet(G) /\ G \cup {c} = F /\ c \notin G
    BY <1>1, FS_RemoveElement
  <1>3. Pending(G, e) \in Nat /\ Pending(G \cup {c}, e) = Pending(G, e) + (IF c[1] = e THEN 1 ELSE 0)
    BY <1>2, PendingAdd
  <1> QED
    BY <1>1, <1>2, <1>3

\* No event is accepted twice.
Distinct == \A i, j \in 1..Len(accepted) : accepted[i] = accepted[j] => i = j

\* The events whose turn has come: settled, or in the worker's hands.
Taken(e) == \E i \in 1..(Len(settled) + held) : accepted[i] = e

\* The event in hand has one copy for each attempt, one that is still queued or
\* was never accepted has none.
Tallied ==
    /\ IsFiniteSet(in_flight)
    /\ \A copy \in in_flight : copy[1] = current => copy[2] < attempt
    /\ current # NoEvent => Tally(current) = attempt
    /\ \A e \in Events : ~ Taken(e) => Tally(e) = 0

\* VerdictsTrustworthy in terms of the tally.
Trusted ==
    \A i \in 1..Len(settled) :
        /\ Tally(settled[i].event) <= post_retry_count
        /\ settled[i].delivered => Count(received, settled[i].event) >= 1
        /\ ~ settled[i].delivered => Tally(settled[i].event) = post_retry_count

TallyInv == IInv /\ Distinct /\ Tallied /\ Trusted

\* The counts are numbers.
LEMMA TallyTypes ==
    ASSUME TypeOK, IsFiniteSet(in_flight), NEW e
    PROVE  /\ Count(received, e) \in Nat /\ Pending(in_flight, e) \in Nat
           /\ Tally(e) = Count(received, e) + Pending(in_flight, e)
  <1>1. Len(received) \in Nat
    BY DEF TypeOK
  <1>2. Count(received, e) \in Nat
    <2>1. {i \in 1..Len(received) : received[i] = e} \in SUBSET (1..Len(received))
      OBVIOUS
    <2>2. IsFiniteSet(1..Len(received))
      BY <1>1, FS_Interval
    <2> QED
      BY <2>1, <2>2, FS_Subset, FS_CardinalityType DEF Count
  <1>3. Pending(in_flight, e) \in Nat
    <2>1. {copy \in in_flight : copy[1] = e} \in SUBSET in_flight
      OBVIOUS
    <2> QED
      BY <2>1, FS_Subset, FS_CardinalityType DEF Pending
  <1> QED
    BY <1>2, <1>3 DEF Tally

\* What is settled or in hand was accepted, in that order, and all of it differs.
LEMMA TakenOnce ==
    ASSUME TallyInv
    PROVE  /\ Len(settled) \in Nat /\ Len(accepted) \in Nat
           /\ \A i \in 1..Len(settled) : settled[i].event = accepted[i] /\ settled[i].event \in Events
           /\ current # NoEvent =>
                /\ current \in Events
                /\ held = 1 /\ Len(settled) + 1 \in 1..Len(accepted)
                /\ current = accepted[Len(settled) + 1]
                /\ \A i \in 1..Len(settled) : settled[i].event # current
           /\ current = NoEvent => held = 0
  <1>0. /\ Len(settled) \in Nat /\ Len(accepted) \in Nat /\ Len(queue) \in Nat
        /\ settled \in Seq([event : Events, delivered : BOOLEAN])
        /\ current \in Events \cup {NoEvent}
    BY DEF TallyInv, IInv, QueueInv, TypeOK
  <1>1. /\ Len(accepted) = Len(settled) + held + Len(queue)
        /\ \A i \in 1..Len(settled) : settled[i].event = accepted[i]
        /\ current # NoEvent => current = accepted[Len(settled) + 1]
    BY DEF TallyInv, IInv, QueueInv, EveryEventAccounted
  <1>2. current # NoEvent => held = 1 /\ Len(settled) + 1 \in 1..Len(accepted)
    BY <1>0, <1>1 DEF held
  <1>3. \A i \in 1..Len(settled) : settled[i].event \in Events
    <2> TAKE i \in 1..Len(settled)
    <2>1. settled[i] \in [event : Events, delivered : BOOLEAN]
      BY <1>0, ElementOfSeq
    <2> QED
      BY <2>1
  <1>4. current # NoEvent => \A i \in 1..Len(settled) : settled[i].event # current
    BY <1>0, <1>1, <1>2 DEF TallyInv, Distinct
  <1> QED
    BY <1>0, <1>1, <1>2, <1>3, <1>4 DEF held

\* A step that posts nothing, settles nothing and takes nothing.
LEMMA TallyQuiet ==
    ASSUME TallyInv, UNCHANGED <<received, in_flight, current, attempt, settled>>,
           Len(accepted') \in Nat, Len(accepted) <= Len(accepted'),
           \A i \in 1..Len(accepted) : accepted'[i] = accepted[i]
    PROVE  Tallied' /\ Trusted'
  <1>1. /\ held' = held /\ Len(settled) + held <= Len(accepted)
        /\ Len(settled) \in Nat /\ held \in Nat /\ Len(accepted) \in Nat
    BY TakenOnce DEF held, TallyInv, IInv, QueueInv, TypeOK, EveryEventAccounted
  <1>2. \A e \in Events : Taken(e)' <=> Taken(e)
    BY <1>1 DEF Taken
  <1>3. \A e : Tally(e)' = Tally(e)
    BY DEF Tally
  <1>4. Tallied'
    BY <1>2, <1>3 DEF TallyInv, Tallied
  <1>5. Trusted'
    BY <1>3 DEF TallyInv, Trusted
  <1> QED
    BY <1>4, <1>5

\* enqueue_event refuses nothing, but nobody enqueues an event twice.
LEMMA PushKeepsTally ==
    ASSUME TallyInv, NEW p \in Producers, NEW e \in Events, enqueue_push(p, e)
    PROVE  Distinct' /\ Tallied' /\ Trusted'
  <1>1. /\ Len(accepted) \in Nat
        /\ Len(accepted') = Len(accepted) + 1
        /\ \A i \in 1..Len(accepted) : accepted'[i] = accepted[i] /\ accepted[i] # e
        /\ accepted'[Len(accepted) + 1] = e
        /\ UNCHANGED <<received, in_flight, current, attempt, settled>>
    BY AppendProperties DEF enqueue_push, owner_vars, post_vars, TallyInv, IInv, QueueInv, TypeOK
  <1>2. Distinct'
    BY <1>1 DEF TallyInv, Distinct
  <1> QED
    BY <1>1, <1>2, TallyQuiet

\* The next event has not been posted yet.
LEMMA TakeKeepsTally ==
    ASSUME TallyInv, TallyInv => IInv', worker_take
    PROVE  Tallied' /\ Trusted'
  <1>1. /\ UNCHANGED <<received, in_flight, settled, accepted>> /\ attempt' = 0
        /\ worker' = "post" /\ worker # "post"
    BY DEF worker_take, owner_vars, post_vars, enqueue_vars
  <1>2. current = NoEvent /\ current' # NoEvent
    BY <1>1 DEF TallyInv, IInv, QueueInv, WorkerDiscipline
  <1>3. /\ held = 0 /\ held' = 1
        /\ Len(settled) \in Nat /\ Len(accepted) \in Nat
    BY <1>2, TakenOnce DEF held
  <1>4. /\ Len(settled) + 1 \in 1..Len(accepted)
        /\ current' = accepted[Len(settled) + 1]
    <2>1. EveryEventAccounted' /\ Len(queue') \in Nat
      BY DEF IInv, QueueInv, TypeOK
    <2> QED
      BY <1>1, <1>2, <1>3, <2>1 DEF EveryEventAccounted
  <1>5. current' \in Events /\ ~ Taken(current')
    <2>1. current' \in Events
      BY <1>2 DEF IInv, QueueInv, TypeOK
    <2> QED
      BY <1>3, <1>4, <2>1 DEF Taken, TallyInv, Distinct
  <1>6. Tally(current') = 0
    BY <1>5 DEF TallyInv, Tallied
  <1>7. IsFiniteSet(in_flight) /\ TypeOK
    BY DEF TallyInv, Tallied, IInv, QueueInv
  <1>8. \A copy \in in_flight : copy[1] # current'
    <2> DEFINE C == {copy \in in_flight : copy[1] = current'}
    <2>1. Pending(in_flight, current') = 0
      BY <1>6, <1>7, TallyTypes
    <2>2. IsFiniteSet(C)
      <3>1. C \in SUBSET in_flight
        OBVIOUS
      <3> QED
        BY <1>7, <3>1, FS_Subset
    <2>3. C = {}
      BY <2>1, <2>2, FS_EmptySet DEF Pending
    <2> QED
      BY <2>3
  <1>9. \A e : Tally(e)' = Tally(e)
    BY <1>1 DEF Tally
  <1>10. \A e \in Events : ~ Taken(e)' => ~ Taken(e)
    BY <1>1, <1>3 DEF Taken
  <1>11. Tally(current)' = attempt'
    BY <1>1, <1>6 DEF Tally
  <1>12. Tallied'
    BY <1>1, <1>7, <1>8, <1>9, <1>10, <1>11 DEF TallyInv, Tallied
  <1>13. Trusted'
    BY <1>1, <1>9 DEF TallyInv, Trusted
  <1> QED
    BY <1>12, <1>13

\* What a verdict changes: the event in hand is the last one settled.
LEMMA VerdictTaken ==
    ASSUME TallyInv, NEW d \in BOOLEAN, worker = "post", settle(d), current' = NoEvent, accepted' = accepted
    PROVE  /\ current \in Events /\ Tally(current) = attempt
           /\ Len(settled) \in Nat /\ Len(settled') = Len(settled) + 1
           /\ \A i \in 1..Len(settled) :
                settled'[i] = settled[i] /\ settled[i].event \in Events /\ settled[i].event # current
           /\ settled'[Len(settled) + 1] = [event |-> current, delivered |-> d]
           /\ \A e \in Events : Taken(e)' <=> Taken(e)
           /\ \A e \in Events : ~ Taken(e) => e # current
  <1>1. current # NoEvent
    BY DEF TallyInv, IInv, QueueInv, WorkerDiscipline
  <1>2. /\ current \in Events /\ held = 1 /\ held' = 0
        /\ Len(settled) \in Nat /\ Len(settled) + 1 \in 1..Len(accepted)
        /\ current = accepted[Len(settled) + 1]
        /\ \A i \in 1..Len(settled) : settled[i].event \in Events /\ settled[i].event # current
    BY <1>1, TakenOnce DEF held
  <1>3. /\ Len(settled') = Len(settled) + 1
        /\ \A i \in 1..Len(settled) : settled'[i] = settled[i]
        /\ settled'[Len(settled) + 1] = [event |-> current, delivered |-> d]
    BY <1>2, AppendProperties DEF settle, TallyInv, IInv, QueueInv, TypeOK
  <1>4. Tally(current) = attempt
    BY <1>1 DEF TallyInv, Tallied
  <1> QED
    BY <1>2, <1>3, <1>4 DEF Taken

\* An acknowledged attempt is one more copy in the log.
LEMMA SuccessKeepsTally ==
    ASSUME TallyInv, post_succeeds
    PROVE  Tallied' /\ Trusted'
  <1>1. /\ worker = "post" /\ settle(TRUE) /\ current' = NoEvent /\ attempt < post_retry_count
        /\ received' = Append(received, current)
        /\ UNCHANGED <<attempt, in_flight, accepted>>
    BY DEF post_succeeds, try_again, enqueue_vars
  <1>2. /\ current \in Events /\ Tally(current) = attempt
        /\ Len(settled) \in Nat /\ Len(settled') = Len(settled) + 1
        /\ \A i \in 1..Len(settled) :
             settled'[i] = settled[i] /\ settled[i].event \in Events /\ settled[i].event # current
        /\ settled'[Len(settled) + 1] = [event |-> current, delivered |-> TRUE]
        /\ \A e \in Events : Taken(e)' <=> Taken(e)
        /\ \A e \in Events : ~ Taken(e) => e # current
    BY <1>1, VerdictTaken
  <1>3. TypeOK /\ IsFiniteSet(in_flight) /\ received \in Seq(Events) /\ attempt \in Nat
    BY DEF TallyInv, Tallied, IInv, QueueInv, TypeOK
  <1>4. ASSUME NEW e \in Events
        PROVE  /\ Count(received, e)' = Count(received, e) + (IF current = e THEN 1 ELSE 0)
               /\ Tally(e)' = Tally(e) + (IF current = e THEN 1 ELSE 0)
               /\ Count(received, e) \in Nat /\ Tally(e) \in Nat
    <2>1. /\ Count(received, e) \in Nat
          /\ Count(Append(received, current), e) = Count(received, e) + (IF current = e THEN 1 ELSE 0)
      BY <1>2, <1>3, CountAppend
    <2>2. Pending(in_flight, e) \in Nat
      BY <1>3, TallyTypes
    <2> QED
      BY <1>1, <2>1, <2>2 DEF Tally
  <1>5. Tallied'
    <2>1. \A e \in Events : ~ Taken(e)' => Tally(e)' = 0
      BY <1>2, <1>4 DEF TallyInv, Tallied
    <2>2. \A copy \in in_flight : copy[1] # NoEvent
      BY <1>3 DEF TypeOK
    <2> QED
      BY <1>1, <1>3, <2>1, <2>2 DEF Tallied
  <1>6. Trusted'
    <2> SUFFICES ASSUME NEW i \in 1..Len(settled')
                 PROVE  /\ Tally(settled[i].event)' <= post_retry_count
                        /\ settled'[i].delivered => Count(received', settled'[i].event) >= 1
                        /\ ~ settled'[i].delivered => Tally(settled[i].event)' = post_retry_count
      BY DEF Trusted
    <2>1. CASE i \in 1..Len(settled)
      <3>1. PICK e \in Events : e = settled[i].event /\ e = settled'[i].event /\ e # current
        BY <1>2, <2>1
      <3>2. Tally(e)' = Tally(e) /\ Count(received, e)' = Count(received, e)
        BY <1>4, <3>1
      <3>3. /\ Tally(e) <= post_retry_count
            /\ settled[i].delivered => Count(received, e) >= 1
            /\ ~ settled[i].delivered => Tally(e) = post_retry_count
        BY <2>1, <3>1 DEF TallyInv, Trusted
      <3>4. Tally(settled[i].event)' = Tally(e)'
        BY <3>1 DEF Tally
      <3> QED
        BY <1>2, <2>1, <3>1, <3>2, <3>3, <3>4
    <2>2. CASE i = Len(settled) + 1
      <3>1. settled'[i].event = current /\ settled'[i].delivered
        BY <1>2, <2>2
      <3>2. PICK e \in Events : e = current
        BY <1>2
      <3>3. Tally(e)' = attempt + 1 /\ Count(received, e)' >= 1
        BY <1>2, <1>3, <1>4, <3>2
      <3>4. Tally(settled[i].event)' = Tally(e)'
        BY <3>1, <3>2 DEF Tally
      <3> QED
        BY <1>1, <1>3, <3>1, <3>2, <3>3, <3>4
    <2> QED
      BY <1>2, <2>1, <2>2
  <1> QED
    BY <1>5, <1>6

\* An attempt given up on is one more copy in flight, with a number of its own.
LEMMA FailureKeepsTally ==
    ASSUME TallyInv, post_fails
    PROVE  Tallied' /\ Trusted'
  <1>1. /\ worker = "post" /\ in_flight' = in_flight \cup {<<current, attempt>>} /\ attempt' = attempt + 1
        /\ UNCHANGED <<current, settled, received, accepted>>
    BY DEF post_fails, enqueue_vars
  <1>2. current # NoEvent
    BY <1>1 DEF TallyInv, IInv, QueueInv, WorkerDiscipline
  <1>3. /\ TypeOK /\ IsFiniteSet(in_flight) /\ attempt \in Nat
        /\ \A copy \in in_flight : copy[1] = current => copy[2] < attempt
        /\ Tally(current) = attempt
    BY <1>2 DEF TallyInv, Tallied, IInv, QueueInv, TypeOK
  <1>4. /\ current \in Events /\ held = 1 /\ held' = 1
        /\ Len(settled) \in Nat /\ current = accepted[Len(settled) + 1]
        /\ \A i \in 1..Len(settled) : settled[i].event # current
    BY <1>1, <1>2, TakenOnce DEF held
  <1>5. <<current, attempt>> \notin in_flight
    BY <1>3
  <1>6. ASSUME NEW e
        PROVE  /\ Tally(e)' = Tally(e) + (IF current = e THEN 1 ELSE 0)
               /\ Tally(e) \in Nat
    <2>1. Pending(in_flight \cup {<<current, attempt>>}, e) =
            Pending(in_flight, e) + (IF current = e THEN 1 ELSE 0)
      BY <1>3, <1>5, PendingAdd
    <2>2. Count(received, e) \in Nat /\ Pending(in_flight, e) \in Nat
      BY <1>3, TallyTypes
    <2> QED
      BY <1>1, <2>1, <2>2 DEF Tally
  <1>7. Tally(current)' = attempt'
    <2>1. PICK e : e = current
      OBVIOUS
    <2>2. Tally(e)' = attempt + 1
      BY <1>3, <1>6, <2>1
    <2> QED
      BY <1>1, <2>1, <2>2 DEF Tally
  <1>8. \A e \in Events : ~ Taken(e)' => Tally(e)' = 0
    <2>1. \A e \in Events : ~ Taken(e)' => ~ Taken(e) /\ e # current
      BY <1>1, <1>4 DEF Taken
    <2> QED
      BY <1>6, <2>1 DEF TallyInv, Tallied
  <1>9. IsFiniteSet(in_flight') /\ \A copy \in in_flight' : copy[1] = current' => copy[2] < attempt'
    <2>1. IsFiniteSet(in_flight')
      BY <1>1, <1>3, FS_AddElement
    <2>2. ASSUME NEW copy \in in_flight, copy[1] = current PROVE copy[2] < attempt + 1
      <3>1. copy[2] \in Int /\ copy[2] < attempt
        BY <1>3, <2>2 DEF TypeOK
      <3> QED
        BY <1>3, <3>1
    <2>3. <<current, attempt>>[2] < attempt + 1
      BY <1>3
    <2> QED
      BY <1>1, <2>1, <2>2, <2>3
  <1>10. Tallied'
    BY <1>7, <1>8, <1>9 DEF Tallied
  <1>11. Trusted'
    <2> SUFFICES ASSUME NEW i \in 1..Len(settled)
                 PROVE  /\ Tally(settled[i].event)' <= post_retry_count
                        /\ settled[i].delivered => Count(received, settled[i].event) >= 1
                        /\ ~ settled[i].delivered => Tally(settled[i].event)' = post_retry_count
      BY <1>1 DEF Trusted
    <2>1. PICK e : e = settled[i].event /\ e # current
      BY <1>4
    <2>2. Tally(e)' = Tally(e)
      BY <1>6, <2>1
    <2>3. Tally(settled[i].event)' = Tally(e)'
      BY <1>1, <2>1 DEF Tally
    <2> QED
      BY <2>1, <2>2, <2>3 DEF TallyInv, Trusted
  <1> QED
    BY <1>10, <1>11

\* An event is given up when its copies are as many as the attempts allowed.
LEMMA GiveUpKeepsTally ==
    ASSUME TallyInv, give_up
    PROVE  Tallied' /\ Trusted'
  <1>1. /\ worker = "post" /\ settle(FALSE) /\ current' = NoEvent /\ ~ (attempt < post_retry_count)
        /\ UNCHANGED <<attempt, in_flight, received, accepted>>
    BY DEF give_up, try_again, enqueue_vars
  <1>2. /\ current \in Events /\ Tally(current) = attempt
        /\ Len(settled) \in Nat /\ Len(settled') = Len(settled) + 1
        /\ \A i \in 1..Len(settled) : settled'[i] = settled[i]
        /\ settled'[Len(settled) + 1] = [event |-> current, delivered |-> FALSE]
        /\ \A e \in Events : Taken(e)' <=> Taken(e)
    BY <1>1, VerdictTaken
  <1>3. TypeOK /\ IsFiniteSet(in_flight) /\ attempt = post_retry_count
    BY <1>1 DEF TallyInv, Tallied, IInv, QueueInv, TypeOK
  <1>4. \A e : Tally(e)' = Tally(e)
    BY <1>1 DEF Tally
  <1>5. \A copy \in in_flight : copy[1] # NoEvent
    BY <1>3 DEF TypeOK
  <1>6. Tallied'
    BY <1>1, <1>2, <1>3, <1>4, <1>5 DEF TallyInv, Tallied
  <1>7. Trusted'
    <2> SUFFICES ASSUME NEW i \in 1..Len(settled')
                 PROVE  /\ Tally(settled[i].event)' <= post_retry_count
                        /\ settled'[i].delivered => Count(received, settled'[i].event) >= 1
                        /\ ~ settled'[i].delivered => Tally(settled[i].event)' = post_retry_count
      BY <1>1 DEF Trusted
    <2>1. Tally(settled[i].event)' = Tally(settled'[i].event)
      BY <1>1 DEF Tally
    <2>2. CASE i \in 1..Len(settled)
      BY <1>2, <2>1, <2>2 DEF TallyInv, Trusted
    <2>3. CASE i = Len(settled) + 1
      BY <1>2, <1>3, <2>1, <2>3
    <2> QED
      BY <1>2, <2>2, <2>3
  <1> QED
    BY <1>6, <1>7

\* A late record moves a copy from one count to the other.
LEMMA RecordKeepsTally ==
    ASSUME TallyInv, NEW copy \in in_flight, record_late(copy)
    PROVE  Tallied' /\ Trusted'
  <1>1. /\ in_flight' = in_flight \ {copy} /\ received' = Append(received, copy[1])
        /\ UNCHANGED <<current, attempt, settled, accepted>>
    BY DEF record_late, enqueue_vars
  <1>2. /\ TypeOK /\ IsFiniteSet(in_flight) /\ received \in Seq(Events) /\ copy[1] \in Events
    BY DEF TallyInv, Tallied, IInv, QueueInv, TypeOK
  <1>3. ASSUME NEW e
        PROVE  /\ Tally(e)' = Tally(e)
               /\ Count(received, e) \in Nat
               /\ Count(received, e)' \in Nat /\ Count(received, e)' >= Count(received, e)
    <2>1. /\ Count(received, e) \in Nat
          /\ Count(received, e)' = Count(received, e) + (IF copy[1] = e THEN 1 ELSE 0)
      BY <1>1, <1>2, CountAppend
    <2>2. /\ Pending(in_flight \ {copy}, e) \in Nat
          /\ Pending(in_flight, e) = Pending(in_flight \ {copy}, e) + (IF copy[1] = e THEN 1 ELSE 0)
      BY <1>2, PendingRemove
    <2> QED
      BY <1>1, <2>1, <2>2 DEF Tally
  <1>4. IsFiniteSet(in_flight')
    BY <1>1, <1>2, FS_RemoveElement
  <1>5. \A e : Taken(e)' <=> Taken(e)
    BY <1>1 DEF Taken, held
  <1>6. Tally(current)' = Tally(current)
    <2>1. PICK e : e = current
      OBVIOUS
    <2> QED
      BY <1>1, <1>3, <2>1 DEF Tally
  <1>7. Tallied'
    BY <1>1, <1>3, <1>4, <1>5, <1>6 DEF TallyInv, Tallied
  <1>8. Trusted'
    <2> SUFFICES ASSUME NEW i \in 1..Len(settled)
                 PROVE  /\ Tally(settled[i].event)' <= post_retry_count
                        /\ settled[i].delivered => Count(received, settled[i].event)' >= 1
                        /\ ~ settled[i].delivered => Tally(settled[i].event)' = post_retry_count
      BY <1>1 DEF Trusted
    <2>1. PICK e : e = settled[i].event
      OBVIOUS
    <2>2. /\ Tally(settled[i].event)' = Tally(e)'
          /\ Count(received, settled[i].event)' = Count(received, e)'
      BY <1>1, <2>1 DEF Tally
    <2>3. /\ Tally(e) <= post_retry_count
          /\ settled[i].delivered => Count(received, e) >= 1
          /\ ~ settled[i].delivered => Tally(e) = post_retry_count
      BY <2>1 DEF TallyInv, Trusted
    <2> QED
      BY <1>3, <2>2, <2>3
  <1> QED
    BY <1>7, <1>8

\* The counts stay right whatever is posted, repeated, given up or late.
LEMMA TallyInductive ==
    ASSUME TallyInv, [Next]_vars
    PROVE  TallyInv'
  <1> USE DEF owner_vars, post_vars, report_vars, enqueue_vars
  <1>1. IInv'
    BY QueueInvInductive, CopiesStayDue DEF TallyInv, IInv
  <1>2. Len(accepted) \in Nat /\ Distinct
    BY DEF TallyInv, IInv, QueueInv, TypeOK
  <1>3. ASSUME UNCHANGED <<received, in_flight, current, attempt, settled, accepted>> PROVE TallyInv'
    <2>1. Distinct'
      BY <1>2, <1>3 DEF Distinct
    <2> QED
      BY <1>1, <1>2, <1>3, <2>1, TallyQuiet DEF TallyInv
  <1>4. CASE start \/ stop_request \/ stop
    BY <1>3, <1>4 DEF start, stop_request, stop, stop_notify, stop_join, stop_close
  <1>5. ASSUME NEW p \in Producers, enqueue_notify(p) PROVE TallyInv'
    BY <1>3, <1>5 DEF enqueue_notify
  <1>6. ASSUME NEW p \in Producers, NEW e \in Events, enqueue_push(p, e) PROVE TallyInv'
    BY <1>1, <1>6, PushKeepsTally DEF TallyInv
  <1>7. CASE worker_wait \/ worker_exit \/ post_throws \/ call_back
    BY <1>3, <1>7 DEF worker_wait, worker_exit, post_throws, call_back
  <1>8. ASSUME accepted' = accepted PROVE Distinct'
    BY <1>2, <1>8 DEF Distinct
  <1>9. CASE worker_take
    BY <1>1, <1>8, <1>9, TakeKeepsTally DEF TallyInv, worker_take
  <1>10. CASE post_succeeds
    BY <1>1, <1>8, <1>10, SuccessKeepsTally DEF TallyInv, post_succeeds
  <1>11. CASE post_fails
    BY <1>1, <1>8, <1>11, FailureKeepsTally DEF TallyInv, post_fails
  <1>12. CASE give_up
    BY <1>1, <1>8, <1>12, GiveUpKeepsTally DEF TallyInv, give_up
  <1>13. CASE spurious_wakeup
    BY <1>3, <1>13 DEF spurious_wakeup
  <1>14. ASSUME NEW copy \in in_flight, record_late(copy) PROVE TallyInv'
    BY <1>1, <1>8, <1>14, RecordKeepsTally DEF TallyInv, record_late
  <1>15. CASE UNCHANGED vars
    BY <1>3, <1>15 DEF vars
  <1> QED
    BY <1>4, <1>5, <1>6, <1>7, <1>9, <1>10, <1>11, <1>12, <1>13, <1>14, <1>15 DEF Next, worker_loop

(* An event settled as delivered is in the backend's log, and one given up   *)
(* has used up its attempts; of neither can the log ever hold more copies    *)
(* than post_retry_count, whichever attempts time out and arrive late.       *)
THEOREM VerdictsAreTrustworthy == Spec => []VerdictsTrustworthy
  <1>1. Init => TallyInv
    <2> SUFFICES ASSUME Init PROVE TallyInv
      OBVIOUS
    <2>1. IInv
      BY QueueInvInit DEF Init, IInv, CopiesDue
    <2>2. Len(accepted) = 0 /\ Len(settled) = 0 /\ Len(received) = 0 /\ in_flight = {} /\ current = NoEvent
      BY DEF Init
    <2>3. \A e : Tally(e) = 0
      <3> TAKE e
      <3>1. {i \in 1..Len(received) : received[i] = e} = {} /\ {copy \in in_flight : copy[1] = e} = {}
        BY <2>2
      <3>2. Cardinality({}) = 0
        BY FS_EmptySet
      <3>3. Count(received, e) = 0
        BY <3>1, <3>2 DEF Count
      <3>4. Pending(in_flight, e) = 0
        BY <3>1, <3>2 DEF Pending
      <3> QED
        BY <3>3, <3>4 DEF Tally
    <2>4. Tallied
      BY <2>2, <2>3, FS_EmptySet DEF Tallied
    <2> QED
      BY <2>1, <2>2, <2>4 DEF TallyInv, Distinct, Trusted
  <1>2. TallyInv /\ [Next]_vars => TallyInv'
    BY TallyInductive
  <1>3. TallyInv => VerdictsTrustworthy
    BY DEF TallyInv, Trusted, VerdictsTrustworthy, Tally, Count, Pending, Copies, Doubtful
  <1> QED
    BY <1>1, <1>2, <1>3, PTL DEF Spec
-----------------------------------------------------------------------------
(* The publisher implements the outbox.                                      *)

\* Every step of the publisher is a step of the outbox or leaves it as it is.
LEMMA StepImplementsOutbox ==
    ASSUME IInv, [Next]_vars
    PROVE  [Outbox!Next]_(Outbox!vars)
  <1> USE DEF Outbox!vars, owner_vars, post_vars, report_vars, enqueue_vars
  <1>1. CASE start \/ stop_request \/ stop
    BY <1>1 DEF start, stop_request, stop, stop_notify, stop_join, stop_close
  <1>2. ASSUME NEW p \in Producers, enqueue_notify(p)
        PROVE  UNCHANGED <<accepted, settled, received>>
    BY <1>2 DEF enqueue_notify
  <1>3. ASSUME NEW p \in Producers, NEW e \in Events, enqueue_push(p, e)
        PROVE  Outbox!Accept(e)
    BY <1>3 DEF enqueue_push, Outbox!Accept, Outbox!Listed
  <1>4. CASE worker_wait \/ worker_exit \/ worker_take \/ post_fails \/ post_throws \/ call_back
    BY <1>4 DEF worker_wait, worker_exit, worker_take, post_fails, post_throws, call_back
  <1>5. ASSUME worker = "post"
        PROVE  current = accepted[Len(settled) + 1] /\ Len(settled) + 1 <= Len(accepted)
    BY <1>5, PostedIsDue DEF IInv, QueueInv, TypeOK
  <1>6. CASE post_succeeds
    BY <1>5, <1>6 DEF post_succeeds, settle, Outbox!Deliver, Outbox!Due, Outbox!Next
  <1>7. CASE give_up
    BY <1>5, <1>7 DEF give_up, settle, Outbox!GiveUp, Outbox!Due, Outbox!Next
  <1>8. CASE spurious_wakeup
    BY <1>8 DEF spurious_wakeup
  <1>9. ASSUME NEW copy \in in_flight, record_late(copy)
        PROVE  copy[1] \in Events /\ Outbox!Record(copy[1])
    BY <1>9 DEF record_late, IInv, QueueInv, TypeOK, CopiesDue, Outbox!Record, Outbox!Due
  <1>10. CASE UNCHANGED vars
    BY <1>10 DEF vars
  <1> QED
    BY <1>1, <1>2, <1>3, <1>4, <1>6, <1>7, <1>8, <1>9, <1>10 DEF Next, worker_loop, Outbox!Next

(* Every behaviour of the publisher, with its locks, retries, time-outs and  *)
(* late copies, is one the outbox allows.                                    *)
THEOREM PublisherImplementsOutbox == Spec => ImplementsOutbox
  <1>1. Init => Outbox!Init
    BY DEF Init, Outbox!Init
  <1>2. IInv /\ [Next]_vars => [Outbox!Next]_(Outbox!vars)
    BY StepImplementsOutbox
  <1> QED
    BY <1>1, <1>2, Inductive, PTL DEF Spec, ImplementsOutbox, Outbox!Spec
-----------------------------------------------------------------------------
(* DeliveredInOrder is not inductive: it needs to know that verdicts follow  *)
(* the order of acceptance, that no event is accepted twice, that the log    *)
(* holds only events whose turn has come, and that delivered ones are in it. *)
OutboxInv ==
    /\ Outbox!TypeOK
    /\ Len(settled) <= Len(accepted)
    /\ \A i \in 1..Len(settled) : settled[i].event = accepted[i]
    /\ \A i, j \in 1..Len(accepted) : accepted[i] = accepted[j] => i = j
    /\ \A m \in 1..Len(received) : \E i \in 1..Len(accepted) : i <= Outbox!Due /\ received[m] = accepted[i]
    /\ \A i \in 1..Len(settled) : settled[i].delivered => Outbox!Listed(settled[i].event, received)
    /\ Outbox!DeliveredInOrder

\* Nothing is accepted, settled or recorded at first.
LEMMA OutboxInvInit == Outbox!Init => OutboxInv
  BY EmptySeq DEF Outbox!Init, OutboxInv, Outbox!TypeOK, Outbox!DeliveredInOrder, Outbox!Verdict, Outbox!Due

\* A new event goes to the end of the order and disturbs no earlier verdict.
LEMMA OutboxAcceptKeepsInv ==
    ASSUME OutboxInv, NEW e \in Events, Outbox!Accept(e)
    PROVE  OutboxInv'
  <1> USE DEF Outbox!Accept, Outbox!Listed, Outbox!Due
  <1>1. /\ accepted' \in Seq(Events)
        /\ Len(accepted') = Len(accepted) + 1
        /\ \A i \in 1..Len(accepted) : accepted'[i] = accepted[i]
        /\ accepted'[Len(accepted) + 1] = e
        /\ \A i \in 1..Len(accepted) : accepted[i] # e
    BY AppendProperties DEF OutboxInv, Outbox!TypeOK
  <1>2. Outbox!TypeOK'
    BY <1>1 DEF OutboxInv, Outbox!TypeOK
  <1>3. Len(settled') <= Len(accepted') /\ \A i \in 1..Len(settled') : settled'[i].event = accepted'[i]
    BY <1>1 DEF OutboxInv, Outbox!TypeOK
  <1>4. \A i, j \in 1..Len(accepted') : accepted'[i] = accepted'[j] => i = j
    BY <1>1 DEF OutboxInv, Outbox!TypeOK
  <1>5. \A m \in 1..Len(received') : \E i \in 1..Len(accepted') : i <= Outbox!Due' /\ received'[m] = accepted'[i]
    BY <1>1 DEF OutboxInv, Outbox!TypeOK
  <1>6. \A i \in 1..Len(settled') : settled'[i].delivered => Outbox!Listed(settled[i].event, received)'
    BY DEF OutboxInv
  <1>7. Outbox!DeliveredInOrder'
    <2>0. UNCHANGED <<settled, received>>
      OBVIOUS
    <2> HIDE DEF Outbox!Accept, Outbox!Listed, Outbox!Due
    <2> SUFFICES ASSUME NEW i \in 1..Len(settled'), NEW m \in 1..Len(received'), settled'[i].delivered,
                        NEW j \in 1..Len(accepted'), i < j, received'[m] = accepted'[j]
                 PROVE  \E k \in 1..(m - 1) : received'[k] = settled'[i].event
      BY DEF Outbox!DeliveredInOrder
    <2>1. PICK k \in 1..Len(accepted) : received[m] = accepted[k]
      BY <2>0 DEF OutboxInv
    <2>2. accepted'[j] # e
      BY <1>1, <2>0, <2>1
    <2>3. Len(accepted) \in Nat
      BY LenProperties DEF OutboxInv, Outbox!TypeOK
    <2>4. j \in 1..Len(accepted) /\ received[m] = accepted[j]
      <3>1. j # Len(accepted) + 1
        BY <1>1, <2>2
      <3>2. j \in 1..Len(accepted)
        BY <1>1, <2>3, <3>1
      <3> QED
        BY <1>1, <2>0, <3>2
    <2>5. Outbox!DeliveredInOrder
      BY DEF OutboxInv
    <2> QED
      BY <2>0, <2>4, <2>5 DEF Outbox!DeliveredInOrder
  <1> QED
    BY <1>2, <1>3, <1>4, <1>5, <1>6, <1>7 DEF OutboxInv

\* A late copy is of an event whose predecessors are settled already.
LEMMA OutboxRecordKeepsInv ==
    ASSUME OutboxInv, NEW e \in Events, Outbox!Record(e)
    PROVE  OutboxInv'
  <1> USE DEF Outbox!Record, Outbox!Listed, Outbox!Due
  <1>1. /\ received' \in Seq(Events)
        /\ Len(received') = Len(received) + 1
        /\ \A m \in 1..Len(received) : received'[m] = received[m]
        /\ received'[Len(received) + 1] = e
    BY AppendProperties DEF OutboxInv, Outbox!TypeOK
  <1>2. \A m \in 1..Len(received') : \E i \in 1..Len(accepted') : i <= Outbox!Due' /\ received'[m] = accepted'[i]
    BY <1>1 DEF OutboxInv, Outbox!TypeOK
  <1>3. \A i \in 1..Len(settled') : settled'[i].delivered => Outbox!Listed(settled[i].event, received)'
    <2> SUFFICES ASSUME NEW i \in 1..Len(settled), settled[i].delivered
                 PROVE  \E k \in 1..Len(received') : received'[k] = settled[i].event
      OBVIOUS
    <2>1. PICK k \in 1..Len(received) : received[k] = settled[i].event
      BY DEF OutboxInv
    <2>2. k \in 1..Len(received') /\ received'[k] = settled[i].event
      BY <1>1, <2>1 DEF OutboxInv, Outbox!TypeOK
    <2> QED
      BY <2>2
  <1>4. Outbox!DeliveredInOrder'
    <2>00. UNCHANGED <<accepted, settled>>
      OBVIOUS
    <2>01. \A i \in 1..Len(settled) : settled[i].delivered => \E k \in 1..Len(received) : received[k] = settled[i].event
      BY DEF OutboxInv
    <2> HIDE DEF Outbox!Record, Outbox!Listed, Outbox!Due
    <2> SUFFICES ASSUME NEW i \in 1..Len(settled'), NEW m \in 1..Len(received'), settled'[i].delivered,
                        NEW j \in 1..Len(accepted'), i < j, received'[m] = accepted'[j]
                 PROVE  \E k \in 1..(m - 1) : received'[k] = settled'[i].event
      BY DEF Outbox!DeliveredInOrder
    <2>0. UNCHANGED <<accepted, settled>> /\ Len(received) \in Nat
      BY <2>00, LenProperties DEF OutboxInv, Outbox!TypeOK
    <2>1. CASE m \in 1..Len(received)
      <3>1. PICK k \in 1..(m - 1) : received[k] = settled[i].event
        <4>1. received[m] = accepted[j] /\ Outbox!DeliveredInOrder
          BY <1>1, <2>0, <2>1 DEF OutboxInv
        <4> QED
          BY <2>0, <2>1, <4>1 DEF Outbox!DeliveredInOrder
      <3>2. k \in 1..Len(received)
        BY <2>0, <2>1
      <3> QED
        BY <1>1, <2>0, <3>1, <3>2
    <2>2. CASE m = Len(received) + 1
      <3>1. PICK k \in 1..Len(received) : received[k] = settled[i].event
        BY <2>0, <2>01
      <3>2. k \in 1..(m - 1) /\ received'[k] = settled[i].event
        BY <1>1, <2>0, <2>2, <3>1
      <3> QED
        BY <2>0, <3>2
    <2>3. m \in 1..(Len(received) + 1)
      BY <1>1
    <2> QED
      BY <2>0, <2>1, <2>2, <2>3
  <1>5. Outbox!TypeOK'
    BY <1>1 DEF OutboxInv, Outbox!TypeOK
  <1> QED
    BY <1>2, <1>3, <1>4, <1>5 DEF OutboxInv

\* The order survives a verdict on the due event, after which the log is either
\* unchanged or one copy of that event longer.
LEMMA OutboxSettleKeepsOrder ==
    ASSUME OutboxInv, accepted' = accepted, Outbox!Due \in 1..Len(accepted),
           Len(settled') = Len(settled) + 1,
           \A i \in 1..Len(settled) : settled'[i] = settled[i],
           Len(received') \in {Len(received), Len(received) + 1},
           \A m \in 1..Len(received) : received'[m] = received[m],
           Len(received') = Len(received) + 1 => received'[Len(received) + 1] = accepted[Outbox!Due]
    PROVE  Outbox!DeliveredInOrder'
  <1>1. /\ Len(received) \in Nat
        /\ Len(settled) \in Nat
        /\ Len(accepted) \in Nat
    BY LenProperties DEF OutboxInv, Outbox!TypeOK
  <1>2. \A m \in 1..Len(received) : \E i \in 1..Len(accepted) : i <= Outbox!Due /\ received[m] = accepted[i]
    BY DEF OutboxInv
  <1>3. \A i \in 1..Len(settled) : settled[i].delivered =>
           \E k \in 1..Len(received) : received[k] = settled[i].event
    BY DEF OutboxInv, Outbox!Listed
  <1>4. \A i, j \in 1..Len(accepted) : accepted[i] = accepted[j] => i = j
    BY DEF OutboxInv
  <1>5. Outbox!DeliveredInOrder
    BY DEF OutboxInv
  <1>6. Outbox!Due = Len(settled) + 1
    BY DEF Outbox!Due
  <1> SUFFICES ASSUME NEW i \in 1..Len(settled'), NEW m \in 1..Len(received'), settled'[i].delivered,
                      NEW j \in 1..Len(accepted'), i < j, received'[m] = accepted'[j]
               PROVE  \E k \in 1..(m - 1) : received'[k] = settled'[i].event
    BY Zenon DEF Outbox!DeliveredInOrder
  <1>7. j \in 1..Len(accepted) /\ received'[m] = accepted[j]
    OBVIOUS
  <1>8. m \in 1..Len(received) \/ (m = Len(received) + 1 /\ Len(received') = Len(received) + 1)
    BY <1>1
  <1>9. j <= Outbox!Due
    <2>1. CASE m \in 1..Len(received)
      <3>1. PICK k \in 1..Len(accepted) : k <= Outbox!Due /\ received[m] = accepted[k]
        BY <1>2, <2>1
      <3>2. k = j
        BY <1>4, <1>7, <2>1, <3>1
      <3> QED
        BY <3>1, <3>2
    <2>2. CASE m = Len(received) + 1 /\ Len(received') = Len(received) + 1
      <3>1. j = Outbox!Due
        BY <1>4, <1>7, <2>2
      <3> QED
        BY <1>1, <1>6, <3>1
    <2> QED
      BY <1>8, <2>1, <2>2
  <1>10. i \in 1..Len(settled)
    BY <1>1, <1>6, <1>7, <1>9
  <1>11. settled'[i] = settled[i] /\ settled[i].delivered
    BY <1>10
  <1>12. CASE m \in 1..Len(received)
    <2>1. received[m] = accepted[j]
      BY <1>7, <1>12
    <2>2. PICK k \in 1..(m - 1) : received[k] = settled[i].event
      BY <1>5, <1>7, <1>10, <1>11, <1>12, <2>1 DEF Outbox!DeliveredInOrder
    <2>3. k \in 1..Len(received)
      BY <1>1, <1>12
    <2> QED
      BY <1>11, <2>2, <2>3
  <1>13. CASE m = Len(received) + 1
    <2>1. PICK k \in 1..Len(received) : received[k] = settled[i].event
      BY <1>3, <1>10, <1>11
    <2>2. k \in 1..(m - 1)
      BY <1>1, <1>13
    <2> QED
      BY <1>11, <2>1, <2>2
  <1> QED
    BY <1>8, <1>12, <1>13

\* A verdict on the due event, once the log is known to grow by copies of it.
LEMMA OutboxSettleKeepsInv ==
    ASSUME OutboxInv, NEW d \in BOOLEAN, Outbox!Due <= Len(accepted), UNCHANGED accepted,
           settled' = Append(settled, [event |-> accepted[Outbox!Due], delivered |-> d]),
           received' = (IF d THEN Append(received, accepted[Outbox!Due]) ELSE received)
    PROVE  OutboxInv'
  <1> USE DEF Outbox!Listed, Outbox!Due
  <1>1. Outbox!Due \in 1..Len(accepted) /\ accepted[Outbox!Due] \in Events
    BY DEF OutboxInv, Outbox!TypeOK
  <1>2. /\ settled' \in Seq(Outbox!Verdict)
        /\ Len(settled') = Len(settled) + 1
        /\ \A i \in 1..Len(settled) : settled'[i] = settled[i]
        /\ settled'[Outbox!Due] = [event |-> accepted[Outbox!Due], delivered |-> d]
    BY <1>1, AppendProperties DEF OutboxInv, Outbox!TypeOK, Outbox!Verdict
  <1>3. /\ received' \in Seq(Events)
        /\ Len(received') \in {Len(received), Len(received) + 1}
        /\ \A m \in 1..Len(received) : received'[m] = received[m]
        /\ Len(received') = Len(received) + 1 => received'[Len(received) + 1] = accepted[Outbox!Due]
        /\ d => Len(received') = Len(received) + 1
    BY <1>1, AppendProperties DEF OutboxInv, Outbox!TypeOK
  <1>4. Outbox!TypeOK'
    BY <1>2, <1>3 DEF OutboxInv, Outbox!TypeOK
  <1>5. Len(settled') <= Len(accepted') /\ \A i \in 1..Len(settled') : settled'[i].event = accepted'[i]
    BY <1>2 DEF OutboxInv, Outbox!TypeOK
  <1>6. \A m \in 1..Len(received') : \E i \in 1..Len(accepted') : i <= Outbox!Due' /\ received'[m] = accepted'[i]
    <2> SUFFICES ASSUME NEW m \in 1..Len(received')
                 PROVE  \E i \in 1..Len(accepted) : i <= Len(settled') + 1 /\ received'[m] = accepted[i]
      OBVIOUS
    <2>1. CASE m \in 1..Len(received)
      <3>1. PICK i \in 1..Len(accepted) : i <= Outbox!Due /\ received[m] = accepted[i]
        BY <2>1 DEF OutboxInv
      <3> QED
        BY <1>2, <1>3, <2>1, <3>1 DEF OutboxInv, Outbox!TypeOK
    <2>2. CASE m = Len(received) + 1
      BY <1>1, <1>2, <1>3, <2>2 DEF OutboxInv, Outbox!TypeOK
    <2> QED
      BY <1>3, <2>1, <2>2 DEF OutboxInv, Outbox!TypeOK
  <1>7. \A i \in 1..Len(settled') : settled'[i].delivered => Outbox!Listed(settled[i].event, received)'
    BY <1>1, <1>2, <1>3 DEF OutboxInv, Outbox!TypeOK
  <1>8. Outbox!DeliveredInOrder'
    BY <1>1, <1>2, <1>3, OutboxSettleKeepsOrder
  <1> HIDE DEF Outbox!Due
  <1> QED
    BY <1>4, <1>5, <1>6, <1>7, <1>8 DEF OutboxInv

(* In the outbox, whatever the backend records late or twice, it first sees  *)
(* the delivered events in the order in which they were enqueued.            *)
THEOREM OutboxDeliversInOrder == Outbox!Spec => []Outbox!DeliveredInOrder
  <1>1. OutboxInv /\ [Outbox!Next]_(Outbox!vars) => OutboxInv'
    <2> SUFFICES ASSUME OutboxInv, [Outbox!Next]_(Outbox!vars) PROVE OutboxInv'
      OBVIOUS
    <2>1. ASSUME NEW e \in Events, Outbox!Accept(e) PROVE OutboxInv'
      BY <2>1, OutboxAcceptKeepsInv
    <2>2. ASSUME NEW e \in Events, Outbox!Record(e) PROVE OutboxInv'
      BY <2>2, OutboxRecordKeepsInv
    <2>3. CASE Outbox!Deliver
      BY <2>3, OutboxSettleKeepsInv DEF Outbox!Deliver
    <2>4. CASE Outbox!GiveUp
      BY <2>4, OutboxSettleKeepsInv DEF Outbox!GiveUp
    <2>5. CASE UNCHANGED Outbox!vars
      <3>1. Outbox!TypeOK' /\ Outbox!DeliveredInOrder'
        BY <2>5 DEF Outbox!vars, OutboxInv, Outbox!TypeOK, Outbox!DeliveredInOrder
      <3> QED
        BY <2>5, <3>1 DEF Outbox!vars, OutboxInv, Outbox!Due, Outbox!Listed
    <2> QED
      BY <2>1, <2>2, <2>3, <2>4, <2>5 DEF Outbox!Next
  <1>2. OutboxInv => Outbox!DeliveredInOrder
    BY DEF OutboxInv
  <1> QED
    BY <1>1, <1>2, OutboxInvInit, PTL DEF Outbox!Spec

(* Hence the backend sees delivered events in the order of enqueue_event.    *)
THEOREM PublisherDeliversInOrder == Spec => []DeliveredInOrder
  <1>1. Spec => Outbox!Spec
    BY PublisherImplementsOutbox DEF ImplementsOutbox
  <1>2. Outbox!Spec => []Outbox!DeliveredInOrder
    BY OutboxDeliversInOrder
  <1> QED
    BY <1>1, <1>2, PTL DEF DeliveredInOrder
=============================================================================
