--------------------------- MODULE ImpactDetector ---------------------------
(***************************************************************************)
(* ImpactDetector::detect (src/src/vision/impact_detector.cpp): which of    *)
(* the contours of the difference image is the dart. The image processing   *)
(* is OpenCV's; here a contour is its outcome: whether its area is within   *)
(* the bounds, its score (a weighted mean of four values in 0..1, in        *)
(* hundredths) and the pixel of its tip. The loop goes over the contours in *)
(* the order findContours returns them, which is any order.                 *)
(***************************************************************************)
EXTENDS Integers, Sequences, FiniteSets

CONSTANTS
    Contours,      \* the contours an image may have
    MaxContours,   \* bound: contours in one image
    quality_floor  \* PipelineConfig::quality_floor, in hundredths

Pixel == [x : Int, y : Int]
Contour == [area_ok : BOOLEAN, score : 0..100, tip : Pixel]

ASSUME DetectorAssumption ==
    /\ Contours \subseteq Contour
    /\ MaxContours \in Nat
    /\ quality_floor \in 0..100

VARIABLES
    contours,          \* the contours read so far
    best_score,
    second_best_score,
    best_index,
    best_tip,
    second_best_tip,
    reason             \* of the verdict; Looking while the loop runs
vars == <<contours, best_score, second_best_score, best_index, best_tip, second_best_tip, reason>>

Looking == "looking"
NoTip == [x |-> 0, y |-> 0]

Init ==
    /\ contours = <<>>
    /\ best_score = -1
    /\ second_best_score = -1
    /\ best_index = 1
    /\ best_tip = NoTip
    /\ second_best_tip = NoTip
    /\ reason = Looking

\* detect gives up before it looks at any contour.
reject_images ==
    /\ reason = Looking
    /\ contours = <<>>
    /\ reason' \in {"empty_input_image", "image_size_mismatch"}
    /\ UNCHANGED <<contours, best_score, second_best_score, best_index, best_tip, second_best_tip>>

\* The next contour of the loop.
read(contour) ==
    /\ reason = Looking
    /\ Len(contours) < MaxContours
    /\ contours' = Append(contours, contour)
    /\ UNCHANGED reason

skip_contour(contour) ==
    /\ read(contour)
    /\ ~ contour.area_ok
    /\ UNCHANGED <<best_score, second_best_score, best_index, best_tip, second_best_tip>>

beats_mutant(score) == score >= best_score
beats(score) == score > best_score

\* The best so far becomes the second best.
demoted_score_mutant == second_best_score
demoted_score == best_score

take_best(contour) ==
    /\ read(contour)
    /\ contour.area_ok
    /\ beats(contour.score)
    /\ second_best_score' = demoted_score
    /\ second_best_tip' = best_tip
    /\ best_score' = contour.score
    /\ best_index' = Len(contours')
    /\ best_tip' = contour.tip

take_second(contour) ==
    /\ read(contour)
    /\ contour.area_ok
    /\ ~ beats(contour.score)
    /\ contour.score > second_best_score
    /\ second_best_score' = contour.score
    /\ second_best_tip' = contour.tip
    /\ UNCHANGED <<best_score, best_index, best_tip>>

pass_over(contour) ==
    /\ read(contour)
    /\ contour.area_ok
    /\ ~ beats(contour.score)
    /\ contour.score <= second_best_score
    /\ UNCHANGED <<best_score, second_best_score, best_index, best_tip, second_best_tip>>

\* Twenty pixels or more.
distance_squared(a, b) == (a.x - b.x) * (a.x - b.x) + (a.y - b.y) * (a.y - b.y)
far_apart(a, b) == distance_squared(a, b) >= 400

close_scores(second, best) == 100 * second >= 92 * best

below_floor == best_score < quality_floor

ambiguous_nearby_mutant == close_scores(second_best_score, best_score)
ambiguous_strict_mutant ==
    close_scores(second_best_score, best_score) /\ distance_squared(best_tip, second_best_tip) > 400
ambiguous == close_scores(second_best_score, best_score) /\ far_apart(best_tip, second_best_tip)

\* The tests after the loop, in their order.
decide ==
    /\ reason = Looking
    /\ reason' = IF below_floor THEN "no_plausible_contour"
                 ELSE IF ambiguous THEN "ambiguous_contour"
                 ELSE "ok"
    /\ UNCHANGED <<contours, best_score, second_best_score, best_index, best_tip, second_best_tip>>

Next ==
    \/ reject_images
    \/ \E contour \in Contours :
        skip_contour(contour) \/ take_best(contour) \/ take_second(contour) \/ pass_over(contour)
    \/ decide

Spec == Init /\ [][Next]_vars
-----------------------------------------------------------------------------
(* What must hold. *)

Reasons ==
    {"empty_input_image", "image_size_mismatch", "no_plausible_contour", "ambiguous_contour", "ok"}

TypeOK ==
    /\ contours \in Seq(Contour)
    /\ best_score \in -1..100
    /\ second_best_score \in -1..100
    /\ best_index \in Nat
    /\ best_tip \in Pixel
    /\ second_best_tip \in Pixel
    /\ reason \in Reasons \cup {Looking}

Plausible == {i \in 1..Len(contours) : contours[i].area_ok}

(***************************************************************************)
(* The best contour is the first of those with the highest score among the *)
(* contours of a permitted size, with its own score and its own tip: a     *)
(* contour that is too small or too large never wins, nor does a later one *)
(* of the same score. (The loop of detect.)                                *)
(***************************************************************************)
BestIsFirstHighest ==
    IF Plausible = {}
    THEN best_score = -1
    ELSE /\ best_index \in Plausible
         /\ contours[best_index].score = best_score
         /\ contours[best_index].tip = best_tip
         /\ \A i \in Plausible :
             /\ contours[i].score <= best_score
             /\ i < best_index => contours[i].score < best_score

(***************************************************************************)
(* The second best is the best of the others: no other permitted contour   *)
(* scores higher, and one of them has this score and this tip. Demoting    *)
(* the best when a better one comes is what makes it so.                   *)
(***************************************************************************)
SecondIsRunnerUp ==
    LET others == Plausible \ {best_index} IN
    IF others = {}
    THEN second_best_score = -1
    ELSE /\ \A i \in others : contours[i].score <= second_best_score
         /\ \E i \in others :
             contours[i].score = second_best_score /\ contours[i].tip = second_best_tip

\* A contour that could be the dart as well as the best one.
Rivals ==
    {i \in Plausible \ {best_index} :
        /\ close_scores(contours[i].score, best_score)
        /\ far_apart(best_tip, contours[i].tip)}

(***************************************************************************)
(* A verdict has its reason in the image: an impact is ambiguous only if a *)
(* rival exists, is accepted only if a permitted contour reaches the       *)
(* quality floor, and is rejected as implausible only if none does.        *)
(***************************************************************************)
VerdictHasItsReason ==
    /\ reason = "ambiguous_contour" => Rivals # {}
    /\ reason = "ok" => \E i \in Plausible : contours[i].score >= quality_floor
    /\ reason = "no_plausible_contour" => \A i \in Plausible : contours[i].score < quality_floor

(***************************************************************************)
(* Where an accepted impact has rivals, they are hidden behind a contour   *)
(* next to the best one that scores at least as high as they do: with two  *)
(* permitted contours, and with three of clearly different scores, the     *)
(* verdict is right. (detect compares the best with the second only.)      *)
(***************************************************************************)
OnlyNeighboursHideRivals ==
    reason = "ok" =>
        \A r \in Rivals : \E i \in Plausible \ {best_index, r} :
            /\ contours[i].score >= contours[r].score
            /\ ~ far_apart(best_tip, contours[i].tip)
=============================================================================
