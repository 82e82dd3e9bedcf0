---------------------------- MODULE VisionReplay ----------------------------
(***************************************************************************)
(* The program vision_replay (src/apps/vision_replay.cpp): it replays every *)
(* scenario below a path, compares each event with expected.json and tells  *)
(* by its exit code whether all of them were as expected. It is the         *)
(* project's regression test: an exit code 0 has to mean something.         *)
(***************************************************************************)
EXTENDS OfflineEngine

CONSTANTS
    Listings, \* what list_scenarios may return for the path of the command line
    Unreadable \* the scenarios whose files load_scenario rejects

ASSUME ReplayAssumption ==
    /\ Listings \subseteq Seq(Scenarios)
    /\ Unreadable \subseteq Scenarios

VARIABLES
    scenarios, \* the list to replay
    position,  \* the scenario at work
    step,      \* where main is
    sequence,  \* the next shot number
    success,   \* no mismatch so far
    printed,   \* the events on standard output
    exit_code  \* what main returned, or NotYet
vars == <<scenarios, position, step, sequence, success, printed, exit_code>>

NotYet == 2

options == [compare_expected |-> TRUE, allow_single_source |-> TRUE, overridden |-> FALSE]

Init ==
    /\ scenarios = <<>>
    /\ position = 1
    /\ step = "list"
    /\ sequence = 1
    /\ success = TRUE
    /\ printed = <<>>
    /\ exit_code = NotYet

list_scenarios ==
    /\ step = "list"
    /\ scenarios' \in Listings
    /\ step' = "loop"
    /\ UNCHANGED <<position, sequence, success, printed, exit_code>>

\* The path does not exist.
list_scenarios_throws ==
    /\ step = "list"
    /\ step' = "exception"
    /\ UNCHANGED <<scenarios, position, sequence, success, printed, exit_code>>

load_scenario ==
    /\ step = "loop"
    /\ position <= Len(scenarios)
    /\ step' = IF scenarios[position] \in Unreadable THEN "exception" ELSE "run"
    /\ UNCHANGED <<scenarios, position, sequence, success, printed, exit_code>>

next_sequence_mutant(s) == IF actual_event(s, options) \in ShotEvents THEN sequence + 1 ELSE sequence
next_sequence(s) == sequence + 1

\* success is only ever cleared.
next_success_mutant(s) == matches_expected(s, options)
next_success(s) == success /\ matches_expected(s, options)

run_scenario ==
    LET s == scenarios[position] IN
    /\ step = "run"
    /\ printed' = Append(printed, [shot |-> sequence, json |-> event_json(s, options)])
    /\ sequence' = next_sequence(s)
    /\ success' = next_success(s)
    /\ position' = position + 1
    /\ step' = "loop"
    /\ UNCHANGED <<scenarios, exit_code>>

\* Past the calibration the engine may throw: an image OpenCV rejects, a
\* homography that cannot be applied, a debug image that cannot be written.
run_scenario_throws ==
    /\ step = "run"
    /\ actual_event(scenarios[position], options) \in ShotEvents
    /\ sequence' = sequence + 1
    /\ step' = "exception"
    /\ UNCHANGED <<scenarios, position, success, printed, exit_code>>

return_success ==
    /\ step = "loop"
    /\ position > Len(scenarios)
    /\ exit_code' = IF success THEN 0 ELSE 1
    /\ step' = "ended"
    /\ UNCHANGED <<scenarios, position, sequence, success, printed>>

\* The handler around main's body.
catch_exception ==
    /\ step = "exception"
    /\ exit_code' = 1
    /\ step' = "ended"
    /\ UNCHANGED <<scenarios, position, sequence, success, printed>>

Next ==
    \/ list_scenarios \/ list_scenarios_throws
    \/ load_scenario \/ run_scenario \/ run_scenario_throws
    \/ return_success \/ catch_exception

Spec == Init /\ [][Next]_vars
-----------------------------------------------------------------------------
(* What must hold. *)

TypeOK ==
    /\ scenarios \in Seq(Scenarios)
    /\ position \in 1..(Len(scenarios) + 1)
    /\ step \in {"list", "loop", "run", "exception", "ended"}
    /\ sequence \in Nat
    /\ success \in BOOLEAN
    /\ printed \in Seq([shot : Nat, json : [event : EngineEvents \ ShotEvents] \cup [event : ShotEvents, score : Nat]])
    /\ exit_code \in {0, 1, NotYet}

\* What a reader of expected.json and of standard output would say of the
\* scenario at position i, field by field.
AsExpected(i) ==
    LET wanted == Facts[scenarios[i]].expected_json
        got == printed[i].json
    IN
    /\ Facts[scenarios[i]].has_expected_json
    /\ \A field \in {"event", "score"} :
        field \in DOMAIN wanted => field \in DOMAIN got /\ got[field] = wanted[field]

(***************************************************************************)
(* Exit code 0 means that every scenario of the list was loaded, replayed  *)
(* and had an expected.json its event agrees with; exit code 1 that one was *)
(* not. A mismatch in the middle is not forgotten, a scenario that cannot  *)
(* be read is not skipped. (The success flag, the catch block of main and  *)
(* the comparisons of run_scenario.)                                       *)
(***************************************************************************)
ExitCodeTellsTheTruth ==
    /\ exit_code = 0 =>
        /\ Len(printed) = Len(scenarios)
        /\ \A i \in 1..Len(scenarios) : AsExpected(i)
    /\ exit_code = 1 =>
        \/ scenarios = <<>>
        \/ Len(printed) < Len(scenarios)
        \/ \E i \in 1..Len(scenarios) : ~ AsExpected(i)

(***************************************************************************)
(* The shot number of an event is the position of its scenario in the list *)
(* also after scenarios that produced no shot, so that the shot_id in an    *)
(* expected.json does not depend on the events of the scenarios before it. *)
(***************************************************************************)
ShotNumbersArePositions ==
    \A i \in 1..Len(printed) : printed[i].shot = i

\* The board as it hangs on the wall: the sector whose middle is within half a
\* sector of the point, its anticlockwise wire included, and the rings as the
\* intervals they occupy.
InSector(point, n) ==
    LET middle == 2 * (n - 1)
        turn == (point.angle - middle + 40) % 40
    IN turn \in {39, 0}

IsWorth(value, point, n) ==
    /\ point.radius \in 0..3400
    /\ point.radius \in 0..127 => value = 50
    /\ point.radius \in 128..318 => value = 25
    /\ point.radius \in 1980..2140 => value = 3 * kSectorOrder[n]
    /\ point.radius \in 3240..3400 => value = 2 * kSectorOrder[n]
    /\ point.radius \in (319..1979) \cup (2141..3239) => value = kSectorOrder[n]

(***************************************************************************)
(* A detected shot has the score the board gives to the accepted point,    *)
(* also on a ring's wire, and on both sides of the top where the angle     *)
(* changes its sign. (score_point: sector index, order of the ring tests.) *)
(***************************************************************************)
ScoresAreTheBoards ==
    \A i \in 1..Len(printed) :
        printed[i].json.event = "shot_detected" =>
            LET point == Facts[scenarios[i]].impact IN
            \E n \in 1..20 : InSector(point, n) /\ IsWorth(printed[i].json.score, point, n)
=============================================================================
