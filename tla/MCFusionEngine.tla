--------------------------- MODULE MCFusionEngine ---------------------------
(* Fusion of up to four cameras on a threshold of 50. Three points are a      *)
(* chain of steps of exactly the threshold, one is a little beyond it from    *)
(* the middle of the chain, one at the threshold from its start, so that      *)
(* chains, equally large groups and outliers all occur.                       *)
EXTENDS FusionEngine

Points == {<<0, 0>>, <<50, 0>>, <<100, 0>>, <<100, 10>>, <<30, 40>>}

ImpactsOf(camera, points) ==
    { [camera_id |-> camera, x |-> p[1], y |-> p[2], quality |-> q, valid |-> TRUE] :
        p \in points, q \in {0, 900} }
    \cup {[camera_id |-> camera, x |-> 0, y |-> 0, quality |-> 0, valid |-> FALSE]}

\* Three cameras, and four cameras with fewer places.
ThreeImpacts == ImpactsOf(11, Points) \X ImpactsOf(13, Points) \X ImpactsOf(12, Points)
FourImpacts ==
    ImpactsOf(14, {<<0, 0>>, <<50, 0>>}) \X ImpactsOf(11, {<<50, 0>>, <<100, 0>>})
        \X ImpactsOf(12, {<<100, 10>>}) \X ImpactsOf(13, {<<30, 40>>})

SomeInputs ==
    {<<>>} \cup {<<i>> : i \in ImpactsOf(11, Points)} \cup ThreeImpacts \cup FourImpacts
=============================================================================
