-------------------------- MODULE CalibrationGeometry --------------------------
(***************************************************************************)
(* From the image to the board and back (src/src/vision/calibration.cpp),   *)
(* in exact integers: a point is a triple of homogeneous coordinates, the   *)
(* offset angle a turn whose cosine and sine are fractions of one norm.     *)
(* Rounding of floating-point numbers is not modelled.                      *)
(***************************************************************************)
EXTENDS Integers

Point(x, y) == [x |-> x, y |-> y, w |-> 1]
Origin == Point(0, 0)

\* Two triples that denote the same point.
same_point(p, q) == p.x * q.w = q.x * p.w /\ p.y * q.w = q.y * p.w

Turns == {turn \in [cos : Int, sin : Int, norm : Int] :
             turn.norm > 0 /\ turn.cos * turn.cos + turn.sin * turn.sin = turn.norm * turn.norm}

\* A homography is a matrix of three rows.
row(r, p) == r[1] * p.x + r[2] * p.y + r[3] * p.w

\* The homogeneous coordinate is 0 on the horizon of the homography.
on_horizon(m, p) == row(m[3], p) = 0

\* cv::perspectiveTransform: what lies on the horizon becomes the origin.
perspectiveTransform(m, p) ==
    IF on_horizon(m, p) THEN Origin
    ELSE [x |-> row(m[1], p), y |-> row(m[2], p), w |-> row(m[3], p)]

minor(m, i, j, k, l) == m[i][k] * m[j][l] - m[i][l] * m[j][k]

determinant(m) ==
    m[1][1] * minor(m, 2, 3, 2, 3) - m[1][2] * minor(m, 2, 3, 1, 3) + m[1][3] * minor(m, 2, 3, 1, 2)

\* cv::invert, up to a factor: the null matrix when there is no inverse.
invert(m) ==
    IF determinant(m) = 0 THEN <<<<0, 0, 0>>, <<0, 0, 0>>, <<0, 0, 0>>>>
    ELSE << << minor(m, 2, 3, 2, 3), -minor(m, 1, 3, 2, 3),  minor(m, 1, 2, 2, 3)>>,
            <<-minor(m, 2, 3, 1, 3),  minor(m, 1, 3, 1, 3), -minor(m, 1, 2, 1, 3)>>,
            << minor(m, 2, 3, 1, 2), -minor(m, 1, 3, 1, 2),  minor(m, 1, 2, 1, 2)>> >>

rotate_board_point(p, turn) ==
    [ x |-> p.x * turn.cos - p.y * turn.sin,
      y |-> p.x * turn.sin + p.y * turn.cos,
      w |-> p.w * turn.norm ]

\* -calibration.offset_angle_deg
turned_back_mutant(turn) == turn
turned_back(turn) == [turn EXCEPT !.sin = -turn.sin]

project_image_point(calibration, p) ==
    rotate_board_point(perspectiveTransform(calibration.homography, p), calibration.offset)

project_board_point_to_image(calibration, p) ==
    perspectiveTransform(invert(calibration.homography),
                         rotate_board_point(p, turned_back(calibration.offset)))
=============================================================================
