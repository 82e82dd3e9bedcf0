------------------------- MODULE VisionReplay_proofs -------------------------
(***************************************************************************)
(* What vision_replay's exit code and shot numbers mean, for any list of    *)
(* scenarios and whatever their directories hold.                           *)
(***************************************************************************)
EXTENDS VisionReplay, SequenceTheorems, TLAPS

\* The scenario at position i was replayed and its event printed.
Printed(i) == printed[i].shot = i /\ printed[i].json = event_json(scenarios[i], options)

\* Where main is in the list.
Progress ==
    /\ Len(printed) = position - 1
    /\ step \in {"list", "loop", "run"} => sequence = position
    /\ step = "list" => scenarios = <<>>
    /\ step = "run" => position <= Len(scenarios)
    /\ step = "exception" => scenarios = <<>> \/ position <= Len(scenarios)
    /\ step = "ended" <=> exit_code # NotYet

\* What the success flag and the exit code say of the list.
Verdicts ==
    /\ success <=> \A i \in 1..Len(printed) : matches_expected(scenarios[i], options)
    /\ exit_code = 0 => success /\ position > Len(scenarios)
    /\ exit_code = 1 => scenarios = <<>> \/ position <= Len(scenarios) \/ ~ success

IInv == TypeOK /\ Progress /\ Verdicts /\ \A i \in 1..Len(printed) : Printed(i)

-----------------------------------------------------------------------------
(* The event and its comparison *)

\* The events of the engine, as JSON.
LEMMA EventJson ==
    ASSUME NEW s \in Scenarios
    PROVE  event_json(s, options) \in [event : EngineEvents \ ShotEvents] \cup [event : ShotEvents, score : Nat]
  <1>1. Facts[s] \in ScenarioFacts
    BY FactsAssumption DEF FactsAssumption
  <1>2. actual_event(s, options) \in EngineEvents
    BY <1>1 DEF actual_event, calibration_outcome, shot_event, EngineEvents, ShotEvents, options
  <1>3. shot_score(s, options) \in Nat
    <2>1. \A n \in 1..20 : kSectorOrder[n] \in Nat
      BY DEF kSectorOrder
    <2>2. ASSUME NEW p \in BoardPoint PROVE sector(p) \in Nat
      <3>1. normalized_angle(p) \in Int
        BY DEF BoardPoint, normalized_angle
      <3>2. 1 + (((normalized_angle(p) + 1) \div 2) % 20) \in 1..20
        BY <3>1
      <3> QED
        BY <2>1, <3>2 DEF sector
    <2>3. ASSUME NEW p \in BoardPoint PROVE score(p) \in Nat
      <3>1. ring(p) \in {"MISS", "INNER_BULL", "OUTER_BULL", "DOUBLE", "TRIPLE", "SINGLE"}
        BY DEF ring
      <3> QED
        BY <2>2, <3>1 DEF score
    <2>4. Facts[s].impact # NoImpact => Facts[s].impact \in BoardPoint
      BY <1>1 DEF ScenarioFacts
    <2> QED
      BY <2>3, <2>4 DEF shot_score, fused_valid, score_point
  <1> QED
    BY <1>2, <1>3 DEF event_json

\* The comparison of run_scenario is the one a reader would make.
LEMMA MatchIsAgreement ==
    ASSUME NEW s \in Scenarios
    PROVE  matches_expected(s, options) <=>
             LET wanted == Facts[s].expected_json
                 got == event_json(s, options)
             IN
             /\ Facts[s].has_expected_json
             /\ \A field \in {"event", "score"} :
                 field \in DOMAIN wanted => field \in DOMAIN got /\ got[field] = wanted[field]
  <1>1. Facts[s] \in ScenarioFacts
    BY FactsAssumption DEF FactsAssumption
  <1>2. Facts[s].has_expected_json \in BOOLEAN /\ Facts[s].expected_json \in Expectations
    BY <1>1 DEF ScenarioFacts
  <1>3. DOMAIN Facts[s].expected_json \subseteq {"event", "score"}
    BY <1>2 DEF Expectations, EmptyJson
  <1>4. options.compare_expected
    BY DEF options
  <1>5. (actual_event(s, options) = "missing_expected_fixture") <=> ~ Facts[s].has_expected_json
    BY <1>2, <1>4 DEF actual_event, shot_event
  <1>6. CASE ~ Facts[s].has_expected_json
    BY <1>5, <1>6 DEF matches_expected
  <1>7. CASE Facts[s].has_expected_json
    <2>1. matches_expected(s, options) <=>
            json_contains_expected_subset(event_json(s, options), Facts[s].expected_json)
      BY <1>4, <1>5, <1>7 DEF matches_expected
    <2> QED
      BY <1>3, <1>7, <2>1 DEF json_contains_expected_subset
  <1> QED
    BY <1>6, <1>7
-----------------------------------------------------------------------------
(* The invariant *)

\* Before the list is read.
LEMMA InitIInv == Init => IInv
  <1> SUFFICES ASSUME Init PROVE IInv
    OBVIOUS
  <1>1. /\ scenarios \in Seq(Scenarios) /\ Len(scenarios) = 0
        /\ Len(printed) = 0
        /\ printed \in Seq([shot : Nat, json : [event : EngineEvents \ ShotEvents] \cup [event : ShotEvents, score : Nat]])
    BY EmptySeq DEF Init
  <1> QED
    BY <1>1 DEF Init, IInv, TypeOK, Progress, Verdicts, NotYet

\* One scenario replayed and compared.
LEMMA RunKeepsIInv ==
    ASSUME IInv, run_scenario
    PROVE  IInv'
  <1> DEFINE s == scenarios[position]
             entry == [shot |-> sequence, json |-> event_json(s, options)]
             Entry == [shot : Nat, json : [event : EngineEvents \ ShotEvents] \cup [event : ShotEvents, score : Nat]]
  <1>1. /\ TypeOK /\ step = "run" /\ step' = "loop" /\ position' = position + 1
        /\ printed' = Append(printed, entry)
        /\ sequence' = sequence + 1
        /\ success' = (success /\ matches_expected(s, options))
        /\ UNCHANGED <<scenarios, exit_code>>
        /\ Len(printed) = position - 1 /\ sequence = position /\ position <= Len(scenarios)
        /\ exit_code = NotYet
    BY DEF run_scenario, next_sequence, next_success, IInv, Progress, TypeOK
  <1>2. position \in Nat /\ 1 <= position /\ Len(scenarios) \in Nat /\ s \in Scenarios
    <2>1. scenarios \in Seq(Scenarios) /\ Len(scenarios) \in Nat /\ position \in Nat /\ 1 <= position
      BY <1>1, LenProperties DEF TypeOK
    <2> QED
      BY <1>1, <2>1, ElementOfSeq
  <1>3. entry \in Entry
    BY <1>1, <1>2, EventJson DEF TypeOK
  <1>4. /\ printed' \in Seq(Entry) /\ Len(printed') = position
        /\ printed'[position] = entry
        /\ \A i \in 1..(position - 1) : printed'[i] = printed[i]
    BY <1>1, <1>2, <1>3, AppendProperties DEF TypeOK
  <1> HIDE DEF entry
  <1>5. TypeOK'
    BY <1>1, <1>2, <1>4 DEF TypeOK
  <1>6. Progress'
    BY <1>1, <1>2, <1>4 DEF Progress, IInv
  <1>7. Verdicts'
    <2>1. success' <=> \A i \in 1..Len(printed') : matches_expected(scenarios'[i], options)
      <3>1. success <=> \A i \in 1..(position - 1) : matches_expected(scenarios[i], options)
        BY <1>1 DEF IInv, Verdicts
      <3>2. 1..position = 1..(position - 1) \cup {position}
        BY <1>2
      <3>3. Len(printed') = position /\ scenarios' = scenarios
        BY <1>1, <1>4
      <3>4. success' <=> success /\ matches_expected(scenarios[position], options)
        BY <1>1
      <3>5. (\A i \in 1..position : matches_expected(scenarios[i], options))
            <=> /\ \A i \in 1..(position - 1) : matches_expected(scenarios[i], options)
                /\ matches_expected(scenarios[position], options)
        BY <3>2
      <3> QED
        BY <3>1, <3>3, <3>4, <3>5
    <2> QED
      BY <1>1, <2>1 DEF Verdicts, NotYet
  <1>8. \A i \in 1..Len(printed') : Printed(i)'
    <2>1. \A i \in 1..(position - 1) : Printed(i)'
      BY <1>1, <1>2, <1>4 DEF IInv, Printed
    <2>2. printed'[position].shot = position /\ printed'[position].json = event_json(s, options)
      BY <1>1, <1>4 DEF entry
    <2> QED
      BY <1>1, <1>2, <1>4, <2>1, <2>2 DEF Printed
  <1> QED
    BY <1>5, <1>6, <1>7, <1>8 DEF IInv

\* The other steps print nothing.
LEMMA OthersKeepIInv ==
    ASSUME IInv,
           \/ list_scenarios \/ list_scenarios_throws \/ load_scenario
           \/ run_scenario_throws \/ return_success \/ catch_exception \/ UNCHANGED vars
    PROVE  IInv'
  <1>1. /\ TypeOK /\ UNCHANGED <<position, success, printed>>
        /\ position \in Nat /\ 1 <= position /\ Len(scenarios) \in Nat
    BY LenProperties DEF IInv, TypeOK, list_scenarios, list_scenarios_throws, load_scenario,
           run_scenario_throws, return_success, catch_exception, vars
  <1>2. CASE list_scenarios
    <2>1. position = 1 /\ Len(printed) = 0 /\ Len(scenarios) = 0
      BY <1>1, <1>2, EmptySeq DEF list_scenarios, IInv, Progress, TypeOK
    <2>2. scenarios' \in Seq(Scenarios) /\ Len(scenarios') \in Nat
      BY <1>2, ReplayAssumption, LenProperties DEF list_scenarios, ReplayAssumption
    <2>3. TypeOK'
      BY <1>1, <1>2, <2>1, <2>2 DEF list_scenarios, TypeOK
    <2>4. Progress' /\ Verdicts' /\ \A i \in 1..Len(printed') : Printed(i)'
      BY <1>1, <1>2, <2>1, <2>2 DEF list_scenarios, IInv, Progress, Verdicts, NotYet
    <2> QED
      BY <2>3, <2>4 DEF IInv
  <1>3. CASE list_scenarios_throws \/ load_scenario \/ run_scenario_throws \/ return_success \/ catch_exception \/ UNCHANGED vars
    <2>1. UNCHANGED scenarios
      BY <1>3 DEF list_scenarios_throws, load_scenario, run_scenario_throws, return_success, catch_exception, vars
    <2>2. TypeOK'
      BY <1>1, <1>3, <2>1
         DEF TypeOK, list_scenarios_throws, load_scenario, run_scenario_throws, return_success, catch_exception, vars
    <2>3. Progress'
      BY <1>1, <1>3, <2>1
         DEF IInv, Progress, TypeOK, NotYet, list_scenarios_throws, load_scenario,
             run_scenario_throws, return_success, catch_exception, vars
    <2>4. Verdicts'
      BY <1>1, <1>3, <2>1
         DEF IInv, Progress, Verdicts, TypeOK, NotYet, list_scenarios_throws, load_scenario,
             run_scenario_throws, return_success, catch_exception, vars
    <2>5. \A i \in 1..Len(printed') : Printed(i)'
      BY <1>1, <2>1 DEF IInv, Printed
    <2> QED
      BY <2>2, <2>3, <2>4, <2>5 DEF IInv
  <1> QED
    BY <1>2, <1>3

\* The strengthened invariant is inductive.
THEOREM Inductive == Spec => []IInv
  <1>1. IInv /\ [Next]_vars => IInv'
    BY RunKeepsIInv, OthersKeepIInv DEF Next
  <1> QED
    BY InitIInv, <1>1, PTL DEF Spec

(***************************************************************************)
(* Every variable has its type: nothing is printed that is not an event of *)
(* the engine, and main never looks beyond the list.                       *)
(***************************************************************************)
THEOREM TypeCorrect == Spec => []TypeOK
  <1>1. IInv => TypeOK
    BY DEF IInv
  <1> QED
    BY Inductive, <1>1, PTL

(***************************************************************************)
(* Shot numbers are positions in the list, for every list.                 *)
(***************************************************************************)
THEOREM NumbersArePositions == Spec => []ShotNumbersArePositions
  <1>1. IInv => ShotNumbersArePositions
    BY DEF IInv, Printed, ShotNumbersArePositions
  <1> QED
    BY Inductive, <1>1, PTL

(***************************************************************************)
(* The exit code is 0 only if every scenario of the list was replayed and  *)
(* agreed with its expected.json, and 1 only if one did not.               *)
(***************************************************************************)
THEOREM ExitCodeIsTrue == Spec => []ExitCodeTellsTheTruth
  <1>1. IInv => ExitCodeTellsTheTruth
    <2> SUFFICES ASSUME IInv PROVE ExitCodeTellsTheTruth
      OBVIOUS
    <2>1. /\ Len(scenarios) \in Nat /\ position \in Nat /\ position <= Len(scenarios) + 1
          /\ Len(printed) = position - 1
          /\ \A i \in 1..Len(scenarios) : scenarios[i] \in Scenarios
      BY LenProperties, ElementOfSeq DEF IInv, TypeOK, Progress
    <2>2. \A i \in 1..Len(printed) : AsExpected(i) <=> matches_expected(scenarios[i], options)
      BY <2>1, MatchIsAgreement DEF AsExpected, IInv, Printed
    <2>3. exit_code = 0 =>
            Len(printed) = Len(scenarios) /\ \A i \in 1..Len(scenarios) : AsExpected(i)
      BY <2>1, <2>2 DEF IInv, Verdicts
    <2>4. exit_code = 1 =>
            \/ scenarios = <<>>
            \/ Len(printed) < Len(scenarios)
            \/ \E i \in 1..Len(scenarios) : ~ AsExpected(i)
      BY <2>1, <2>2 DEF IInv, Verdicts
    <2> QED
      BY <2>3, <2>4 DEF ExitCodeTellsTheTruth
  <1> QED
    BY Inductive, <1>1, PTL
-----------------------------------------------------------------------------
(* The score *)

\* The index of the sector, as in sector.
index(p) == 1 + (((normalized_angle(p) + 1) \div 2) % 20)

\* The index computed from the angle is that of the sector the point lies in:
\* rounding up to a whole sector puts the anticlockwise wire inside, and the
\* remainder closes the circle at the top.
LEMMA IndexIsSector ==
    ASSUME NEW p \in BoardPoint
    PROVE  index(p) \in 1..20 /\ InSector(p, index(p))
  <1> DEFINE a == p.angle
             b == normalized_angle(p)
             h == (b + 1) \div 2
             n == index(p)
  <1>1. a \in -19..20
    BY DEF BoardPoint
  <1>2. b = IF a < 0 THEN a + 40 ELSE a
    BY DEF normalized_angle
  <1>3. n = 1 + (h % 20)
    BY DEF index
  <1> SUFFICES n \in 1..20 /\ (a - 2 * (n - 1) + 40) % 40 \in {39, 0}
    BY DEF InSector
  <1> HIDE DEF a, b, n
  <1>4. b \in 0..39
    BY <1>1, <1>2
  <1>5. h \in 0..20 /\ (b = 2 * h \/ b = 2 * h - 1)
    BY <1>4
  <1> HIDE DEF h
  <1>6. n = IF h = 20 THEN 1 ELSE h + 1
    BY <1>3, <1>5
  <1>7. n \in 1..20
    BY <1>5, <1>6
  <1> DEFINE t == a - 2 * (n - 1) + 40
  <1>8. t \in {-1, 0, 39, 40, 79, 80}
    BY <1>1, <1>2, <1>5, <1>6
  <1> HIDE DEF t
  <1>9. t % 40 \in {39, 0}
    BY <1>8
  <1> QED
    BY <1>7, <1>9 DEF t

\* The order of the ring tests leaves to each ring its interval.
LEMMA ScoreIsWorth ==
    ASSUME NEW p \in BoardPoint, ring(p) # "MISS"
    PROVE  IsWorth(score(p), p, index(p))
  <1> DEFINE r == p.radius
             v == kSectorOrder[index(p)]
  <1>1. r \in Nat
    BY DEF BoardPoint
  <1>2. sector(p) = v
    BY DEF sector, index
  <1> USE DEF kDoubleOuterRadius, kInnerBullRadius, kOuterBullRadius, kDoubleInnerRadius,
              kTripleInnerRadius, kTripleOuterRadius, in_double
  <1>3. r \in 0..3400
    <2>1. ~ r > 3400
      BY DEF ring
    <2> HIDE DEF r
    <2> QED
      BY <1>1, <2>1
  <1>4. r \in 0..127 => ring(p) = "INNER_BULL"
    BY <1>1 DEF ring
  <1>5. r \in 128..318 => ring(p) = "OUTER_BULL"
    BY <1>1 DEF ring
  <1>6. r \in 1980..2140 => ring(p) = "TRIPLE"
    BY <1>1 DEF ring
  <1>7. r \in 3240..3400 => ring(p) = "DOUBLE"
    BY <1>1 DEF ring
  <1>8. r \in 319..1979 => ring(p) = "SINGLE"
    <2>1. r \in 319..1979 => /\ ~ r > 3400
                           /\ ~ r <= 127
                           /\ ~ r <= 318
                           /\ ~ r >= 3240
                           /\ ~ (r >= 1980 /\ r <= 2140)
      <3> HIDE DEF r
      <3> QED
        BY <1>1
    <2> QED
      BY <2>1 DEF ring
  <1>9. r \in 2141..3239 => ring(p) = "SINGLE"
    <2>1. r \in 2141..3239 => /\ ~ r > 3400
                           /\ ~ r <= 127
                           /\ ~ r <= 318
                           /\ ~ r >= 3240
                           /\ ~ (r >= 1980 /\ r <= 2140)
      <3> HIDE DEF r
      <3> QED
        BY <1>1
    <2> QED
      BY <2>1 DEF ring
  <1> HIDE DEF r, v
  <1>10. /\ ring(p) = "INNER_BULL" => score(p) = 50
         /\ ring(p) = "OUTER_BULL" => score(p) = 25
         /\ ring(p) = "DOUBLE" => score(p) = 2 * v
         /\ ring(p) = "TRIPLE" => score(p) = 3 * v
         /\ ring(p) = "SINGLE" => score(p) = v
    BY <1>2 DEF score
  <1> QED
    BY <1>3, <1>4, <1>5, <1>6, <1>7, <1>8, <1>9, <1>10 DEF IsWorth, r, v

(***************************************************************************)
(* For any list and any scenarios a detected shot has the score the board   *)
(* gives to the accepted point, on every wire and on both sides of the top. *)
(***************************************************************************)
THEOREM ScoresAreRight == Spec => []ScoresAreTheBoards
  <1>1. IInv => ScoresAreTheBoards
    <2> SUFFICES ASSUME IInv, NEW i \in 1..Len(printed), printed[i].json.event = "shot_detected"
                 PROVE  LET point == Facts[scenarios[i]].impact IN
                        \E n \in 1..20 : InSector(point, n) /\ IsWorth(printed[i].json.score, point, n)
      BY DEF ScoresAreTheBoards
    <2> DEFINE s == scenarios[i]
               point == Facts[s].impact
    <2>1. s \in Scenarios
      <3>1. scenarios \in Seq(Scenarios) /\ i \in 1..Len(scenarios)
        BY LenProperties DEF IInv, TypeOK, Progress
      <3> QED
        BY <3>1, ElementOfSeq
    <2>2. Facts[s] \in ScenarioFacts
      BY <2>1, FactsAssumption
    <2>3. printed[i].json = event_json(s, options)
      BY DEF IInv, Printed
    <2>4. actual_event(s, options) = "shot_detected"
      BY <2>3 DEF event_json
    <2>5. fused_valid(s, options) /\ ring(point) # "MISS" /\ point # NoImpact
      BY <2>4 DEF actual_event, shot_event, score_point, fused_valid
    <2>6. point \in BoardPoint
      BY <2>2, <2>5 DEF ScenarioFacts
    <2>7. printed[i].json.score = score(point)
      BY <2>3, <2>4, <2>5 DEF event_json, ShotEvents, shot_score, score_point
    <2>8. \E n \in 1..20 : InSector(point, n) /\ IsWorth(score(point), point, n)
      BY <2>5, <2>6, IndexIsSector, ScoreIsWorth
    <2> QED
      BY <2>7, <2>8
  <1> QED
    BY Inductive, <1>1, PTL
=============================================================================
