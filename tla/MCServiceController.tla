------------------------- MODULE MCServiceController -------------------------
(* The controller on a small instance: a batch of two scenarios of one     *)
(* camera, the first without a calibration file, the second with an impact *)
(* on the board; up to two workers and two concurrent commands.            *)
EXTENDS ServiceController, TLC

CONSTANTS s1, s2, c1, t1, t2, h1, h2

TwoScenarios == {s1, s2}
OneCamera == {c1}
TwoScenarioBatch == <<s1, s2>>
TwoFacts ==
    s1 :> [camera |-> c1, calibration |-> "missing", impact |-> [radius |-> 2000, angle |-> 0],
           has_expected_json |-> TRUE, expected_json |-> EmptyJson] @@
    s2 :> [camera |-> c1, calibration |-> "ok", impact |-> [radius |-> 2000, angle |-> 0],
           has_expected_json |-> TRUE, expected_json |-> EmptyJson]

TwoHandlers == {h1, h2}
TwoThreads == {t1, t2}

\* Bounds of the run: after two starts have overlapped nobody stops, and the
\* publisher reports one error at most, before a start overlaps a command.
NoStopAfterOverlap == StartsApart \/ ~ Stopping
OneEarlyError == send_errors = 0 \/ (send_errors = 1 /\ CommandsApart)

Symmetry == Permutations(Threads) \cup Permutations(Handlers)
=============================================================================
