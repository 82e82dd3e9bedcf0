----------------------------- MODULE BatchReplay -----------------------------
(***************************************************************************)
(* What ServiceController promises to those who listen to its events:       *)
(* batches are replayed one after the other. A batch publishes one event    *)
(* for each of its scenarios, in their order; it ends after the last one,   *)
(* or with an event that says it failed, or because somebody asked for a    *)
(* stop. The number of a shot is larger than those of all earlier shots.    *)
(***************************************************************************)
EXTENDS Naturals, Sequences

CONSTANTS
    Batch,      \* the scenarios, in order
    Outcomes,   \* the events each scenario may produce
    ShotEvents, \* those of them that are shots
    Failure     \* the entry of a batch that failed

VARIABLES
    active,   \* a batch is being replayed
    position, \* how many of its scenarios have been published
    log,      \* the entries published so far: [scenario, event, shot]
    stopping  \* a stop is asked for
vars == <<active, position, log, stopping>>

Init ==
    /\ active = FALSE
    /\ position = 0
    /\ log = <<>>
    /\ stopping = FALSE

\* A stop is asked for, or a start takes it back.
Ask ==
    /\ stopping' \in BOOLEAN
    /\ UNCHANGED <<active, position, log>>

Begin ==
    /\ ~ active
    /\ active' = TRUE
    /\ UNCHANGED <<position, log, stopping>>

\* What the k-th scenario of the batch may publish.
Entries(k) == [scenario : {Batch[k]}, event : Outcomes[Batch[k]], shot : Nat]

\* The next scenario is published.
Publish ==
    /\ active
    /\ position < Len(Batch)
    /\ position' = position + 1
    /\ Len(log') = Len(log) + 1
    /\ LET entry == log'[Len(log')] IN
        /\ log' = Append(log, entry)
        /\ entry \in Entries(position') /\ entry # Failure
        /\ \A i \in 1..Len(log) : log[i].event \in ShotEvents => log[i].shot < entry.shot
    /\ UNCHANGED <<active, stopping>>

over == active' = FALSE /\ position' = 0

Fail ==
    /\ active
    /\ over
    /\ log' = Append(log, Failure)
    /\ UNCHANGED stopping

End ==
    /\ active
    /\ stopping \/ position = Len(Batch)
    /\ over
    /\ UNCHANGED <<log, stopping>>

Next == Ask \/ Begin \/ Publish \/ Fail \/ End

Spec == Init /\ [][Next]_vars
-----------------------------------------------------------------------------
(***************************************************************************)
(* In everything the service ever publishes a scenario comes first in its   *)
(* batch or right after its predecessor: no two batches mix, none begins in *)
(* the middle, and no scenario is left out or repeated.                     *)
(***************************************************************************)
ScenariosInOrder ==
    \A i \in 1..Len(log) :
        log[i] # Failure =>
            \E k \in 1..Len(Batch) :
                /\ log[i].scenario = Batch[k]
                /\ k > 1 => i > 1 /\ log[i - 1] # Failure /\ log[i - 1].scenario = Batch[k - 1]
=============================================================================
