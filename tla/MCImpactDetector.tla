-------------------------- MODULE MCImpactDetector --------------------------
(* The detector on up to four contours. The scores lie on both sides of the  *)
(* floor and of 92 % of a best score of 50 (46 and 45), the tips on both     *)
(* sides of the distance of 20 pixels from each other.                       *)
EXTENDS ImpactDetector

At(x, y) == [x |-> x, y |-> y]

FewContours ==
    [area_ok : {TRUE}, score : {19, 20, 45, 46, 50}, tip : {At(0, 0), At(0, 19), At(12, 16)}]
        \cup {[area_ok |-> FALSE, score |-> 50, tip |-> At(12, 16)]}
=============================================================================
