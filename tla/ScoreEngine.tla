----------------------------- MODULE ScoreEngine -----------------------------
(***************************************************************************)
(* ScoreEngine::score_point (src/src/core/board_model.cpp): the score of a  *)
(* point of the board, on exact integers. A point is given in polar form:   *)
(* the radius in twentieths of a millimetre of a board of 170 mm, so that   *)
(* every ring boundary is an integer, and the angle atan2(x, y) in half     *)
(* sectors of 9 degrees, clockwise from the top, so that every sector       *)
(* boundary is an odd integer.                                              *)
(***************************************************************************)
EXTENDS Integers, Sequences

kDoubleOuterRadius == 3400
kDoubleInnerRadius == 3240
kTripleOuterRadius == 2140
kTripleInnerRadius == 1980
kOuterBullRadius == 318
kInnerBullRadius == 127

kSectorOrder == <<20, 1, 18, 4, 13, 6, 10, 15, 2, 17, 3, 19, 7, 16, 8, 11, 14, 9, 12, 5>>

BoardPoint == [radius : Nat, angle : -19..20]

normalized_angle(point) == IF point.angle < 0 THEN point.angle + 40 ELSE point.angle

\* The remainder brings the last half sector before the top back to the first.
sector_mutant(point) == kSectorOrder[1 + ((normalized_angle(point) \div 2) % 20)]
sector(point) == kSectorOrder[1 + (((normalized_angle(point) + 1) \div 2) % 20)]

in_double(point) == point.radius >= kDoubleInnerRadius

\* The tests come in this order: each ring is what the earlier ones left.
ring(point) ==
    IF point.radius > kDoubleOuterRadius THEN "MISS"
    ELSE IF point.radius <= kInnerBullRadius THEN "INNER_BULL"
    ELSE IF point.radius <= kOuterBullRadius THEN "OUTER_BULL"
    ELSE IF in_double(point) THEN "DOUBLE"
    ELSE IF point.radius >= kTripleInnerRadius /\ point.radius <= kTripleOuterRadius THEN "TRIPLE"
    ELSE "SINGLE"

score(point) ==
    CASE ring(point) = "MISS" -> 0
      [] ring(point) = "INNER_BULL" -> 50
      [] ring(point) = "OUTER_BULL" -> 25
      [] ring(point) = "DOUBLE" -> 2 * sector(point)
      [] ring(point) = "TRIPLE" -> 3 * sector(point)
      [] ring(point) = "SINGLE" -> sector(point)

\* score_point: a point outside the board is no valid shot.
score_point(point) ==
    [ valid |-> ring(point) # "MISS", ring |-> ring(point), score |-> score(point) ]
=============================================================================
