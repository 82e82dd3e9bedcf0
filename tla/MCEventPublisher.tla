--------------------------- MODULE MCEventPublisher ---------------------------
(* The publisher on a small instance: two threads enqueue three events.    *)
EXTENDS EventPublisher, TLC

CONSTANTS e1, e2, e3, p1, p2

ThreeEvents == {e1, e2, e3}
TwoEvents == {e1, e2}
TwoProducers == {p1, p2}
SecondThrows == {e2}

Symmetry == Permutations(TwoProducers)
=============================================================================
