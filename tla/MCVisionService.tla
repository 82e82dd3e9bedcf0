---------------------------- MODULE MCVisionService ----------------------------
(* The service on a small instance: main, one or two threads of the HTTP    *)
(* server, a batch of scenarios of one camera, the second of which scores.   *)
EXTENDS VisionService, TLC

CONSTANTS s1, s2, c1, t1, h1, h2

TwoScenarios == {s1, s2}
OneCamera == {c1}
TwoScenarioBatch == <<s1, s2>>
OneScenarioBatch == <<s2>>
TwoFacts ==
    s1 :> [camera |-> c1, calibration |-> "missing", impact |-> [radius |-> 2000, angle |-> 0],
           has_expected_json |-> TRUE, expected_json |-> EmptyJson] @@
    s2 :> [camera |-> c1, calibration |-> "ok", impact |-> [radius |-> 2000, angle |-> 0],
           has_expected_json |-> TRUE, expected_json |-> EmptyJson]

MainAndClient == {Main, h1}
MainAndTwoClients == {Main, h1, h2}
OneThread == {t1}

NoneThrows == {}
SecondThrows == {<<1, 2>>}

\* Bound of the run with crashes: no calibrate commands, which touch no event.
NoCalibration == overrides = {} /\ last_error # "calibration"

\* Bound of the liveness run: no calibration is accepted, which would change
\* what an event says and not what happens to it.
NoOverride == overrides = {}
=============================================================================
