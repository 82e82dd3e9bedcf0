----------------------------- MODULE EventOutbox -----------------------------
(***************************************************************************)
(* What HttpEventPublisher promises to the code that enqueues events:      *)
(* accepted events are settled one by one in the order of acceptance, each *)
(* either delivered (the backend has recorded it) or given up, and the     *)
(* backend may record a copy of an event at any time from the moment its   *)
(* turn has come, also long after it was settled: an attempt that timed    *)
(* out may still arrive.                                                   *)
(***************************************************************************)
EXTENDS Naturals, Sequences

CONSTANTS Events \* the events the program can produce, each enqueued at most once

VARIABLES
    accepted, \* the events enqueued so far, in the order of the queue's lock
    settled,  \* what became of them: a sequence of [event, delivered]
    received  \* the backend's log: one entry per copy it recorded
vars == <<accepted, settled, received>>

Listed(e, s) == \E i \in 1..Len(s) : s[i] = e

Verdict == [event : Events, delivered : BOOLEAN]

\* The event whose turn it is: the oldest accepted event not yet settled.
Due == Len(settled) + 1

Init ==
    /\ accepted = <<>>
    /\ settled = <<>>
    /\ received = <<>>

\* enqueue_event: the event takes its place in the order.
Accept(e) ==
    /\ ~ Listed(e, accepted)
    /\ accepted' = Append(accepted, e)
    /\ UNCHANGED <<settled, received>>

\* The backend records a copy of an event whose turn has come or is past.
Record(e) ==
    /\ \E i \in 1..Len(accepted) : i <= Due /\ accepted[i] = e
    /\ received' = Append(received, e)
    /\ UNCHANGED <<accepted, settled>>

\* The due event is recorded and acknowledged.
Deliver ==
    /\ Due <= Len(accepted)
    /\ received' = Append(received, accepted[Due])
    /\ settled' = Append(settled, [event |-> accepted[Due], delivered |-> TRUE])
    /\ UNCHANGED accepted

\* The due event is abandoned; copies of it may or may not have been recorded.
GiveUp ==
    /\ Due <= Len(accepted)
    /\ settled' = Append(settled, [event |-> accepted[Due], delivered |-> FALSE])
    /\ UNCHANGED <<accepted, received>>

Next ==
    \/ \E e \in Events : Accept(e) \/ Record(e)
    \/ Deliver
    \/ GiveUp

Spec == Init /\ [][Next]_vars
-----------------------------------------------------------------------------
TypeOK ==
    /\ accepted \in Seq(Events)
    /\ settled \in Seq(Verdict)
    /\ received \in Seq(Events)

(***************************************************************************)
(* The backend sees delivered events in the order in which they were       *)
(* enqueued: when it records any copy of an event, it has already recorded *)
(* a copy of every earlier event that was (or will be) reported delivered. *)
(* Copies that arrive late may be duplicates, never a first sighting out   *)
(* of order. (worker_loop takes the next event only after the current one  *)
(* was answered or given up.)                                              *)
(***************************************************************************)
DeliveredInOrder ==
    \A i \in 1..Len(settled), m \in 1..Len(received) :
        (settled[i].delivered /\ (\E j \in 1..Len(accepted) : i < j /\ received[m] = accepted[j]))
            => \E k \in 1..(m - 1) : received[k] = settled[i].event
=============================================================================
