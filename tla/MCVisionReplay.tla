--------------------------- MODULE MCVisionReplay ---------------------------
(* vision_replay on a small instance. A scenario is named by what it holds:  *)
(* every kind of calibration, impact and expected.json occurs, the impacts   *)
(* on both sides of every ring's wire and of the wires next to the top.      *)
EXTENDS VisionReplay

CONSTANTS c1

OneCamera == {c1}

Radii == {0, 127, 128, 318, 319, 1979, 1980, 2140, 2141, 3239, 3240, 3400, 3401}
Angles == {-19, -2, -1, 0, 1, 11, 20}
Impacts == [radius : Radii, angle : Angles]

Holding(calibration, impact, has_expected_json, expected_json) ==
    [ camera |-> c1, calibration |-> calibration, impact |-> impact,
      has_expected_json |-> has_expected_json, expected_json |-> expected_json ]

\* Scenarios that are replayed alone, one for each point of the board.
OnePoint == {Holding("ok", impact, TRUE, EmptyJson) : impact \in Impacts}

TripleTwenty == [radius |-> 2000, angle |-> 0]
Wanted ==
    { EmptyJson, [event |-> "shot_detected", score |-> 60],
      [event |-> "shot_invalid", score |-> 0], [event |-> "calibration_required"],
      [event |-> "calibration_required", score |-> 0] }

\* Scenarios that are replayed in lists of up to two.
Mixed ==
    { Holding(calibration, impact, TRUE, json) :
        calibration \in {"ok", "missing", "corrupt"}, impact \in {NoImpact, TripleTwenty}, json \in Wanted }
    \cup {Holding("ok", TripleTwenty, FALSE, EmptyJson)}

AllScenarios == OnePoint \cup Mixed
AllFacts == [s \in AllScenarios |-> s]

SomeUnreadable == {Holding("corrupt", NoImpact, TRUE, EmptyJson)}

SomeListings ==
    {<<>>} \cup {<<s>> : s \in AllScenarios} \cup {list \in Mixed \X Mixed : list[1] # list[2]}
=============================================================================
