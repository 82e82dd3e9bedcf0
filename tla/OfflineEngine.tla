---------------------------- MODULE OfflineEngine ----------------------------
(***************************************************************************)
(* OfflineVisionEngine::run_scenario (src/src/app/offline_engine.cpp): from *)
(* a loaded scenario and the run's options to exactly one event, and the    *)
(* comparison of the event with expected.json. What the images contain is   *)
(* abstracted to the impact the detector accepts in them.                   *)
(***************************************************************************)
EXTENDS ScoreEngine

CONSTANTS
    Scenarios, \* the scenario directories
    Cameras,   \* the camera identifiers of the scenario configurations
    NoImpact,  \* the detector accepts no contour
    Facts      \* what each scenario directory holds, see ScenarioFacts

ShotEvents == {"shot_detected", "shot_invalid"}
EngineEvents == ShotEvents \cup
    {"missing_expected_fixture", "calibration_required", "calibration_load_failure"}

\* expected.json: the fields it names with the values it wants, reduced to the
\* event (with the code of an error) and the score. An object without fields,
\* or no file at all, is the empty function.
EmptyJson == [field \in {} |-> 0]
Expectations ==
    {EmptyJson} \cup [event : EngineEvents] \cup [event : EngineEvents, score : Nat]

ScenarioFacts ==
    [ camera      : Cameras,
      calibration : {"ok", "missing", "corrupt"}, \* its calibration file
      impact      : BoardPoint \cup {NoImpact},   \* what the detector accepts
      has_expected_json : BOOLEAN,
      expected_json : Expectations ]

ASSUME FactsAssumption ==
    /\ NoImpact \notin BoardPoint
    /\ Facts \in [Scenarios -> ScenarioFacts]

Options == [compare_expected : BOOLEAN, allow_single_source : BOOLEAN, overridden : BOOLEAN]

\* The calibration in use: an override hides whatever the file is worth.
calibration_outcome(s, options) ==
    IF options.overridden THEN "ok" ELSE Facts[s].calibration

\* FusionEngine::fuse on the one impact of an offline scenario.
fused_valid(s, options) == options.allow_single_source /\ Facts[s].impact # NoImpact

\* A shot counts when the fused point lies on the board.
shot_event(s, options) ==
    IF fused_valid(s, options) /\ score_point(Facts[s].impact).valid
    THEN "shot_detected"
    ELSE "shot_invalid"

actual_event(s, options) ==
    IF options.compare_expected /\ ~ Facts[s].has_expected_json
    THEN "missing_expected_fixture"
    ELSE IF calibration_outcome(s, options) = "missing" THEN "calibration_required"
    ELSE IF calibration_outcome(s, options) = "corrupt" THEN "calibration_load_failure"
    ELSE shot_event(s, options)

shot_score(s, options) ==
    IF fused_valid(s, options) THEN score_point(Facts[s].impact).score ELSE 0

\* The event as JSON: only shots have a score.
event_json(s, options) ==
    LET name == actual_event(s, options) IN
    IF name \in ShotEvents
    THEN [event |-> name, score |-> shot_score(s, options)]
    ELSE [event |-> name]

\* Every field expected.json names is there with the value it wants.
json_contains_expected_subset(actual, expected) ==
    \A field \in DOMAIN expected : field \in DOMAIN actual /\ actual[field] = expected[field]

\* A shot is compared only when the run asks for it, a complaint about the
\* calibration always; an empty expected.json accepts everything.
matches_expected(s, options) ==
    /\ actual_event(s, options) # "missing_expected_fixture"
    /\ \/ actual_event(s, options) \in ShotEvents /\ ~ options.compare_expected
       \/ json_contains_expected_subset(event_json(s, options), Facts[s].expected_json)
=============================================================================
