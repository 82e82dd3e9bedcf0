---------------------------- MODULE FusionEngine ----------------------------
(***************************************************************************)
(* FusionEngine::fuse (src/src/vision/fusion_engine.cpp): one impact out of *)
(* those of several cameras. Every valid impact in turn is the anchor of a  *)
(* cluster of the impacts within the threshold of it; the largest cluster   *)
(* is fused into the mean of its points, weighted by quality. Coordinates,  *)
(* threshold and quality are integers (thousandths); the confidence, which  *)
(* decides nothing, is left out.                                            *)
(***************************************************************************)
EXTENDS Integers, Sequences, FiniteSets

CONSTANTS
    Inputs,            \* the lists of impacts fuse may be called with
    outlier_threshold  \* PipelineConfig::outlier_threshold

ImpactCamera == [camera_id : Nat, x : Int, y : Int, quality : 0..1000, valid : BOOLEAN]

\* A camera contributes at most one impact to a shot.
DistinctCameras(impacts) ==
    \A i, j \in 1..Len(impacts) : impacts[i].camera_id = impacts[j].camera_id => i = j

ASSUME FusionAssumption ==
    /\ Inputs \subseteq Seq(ImpactCamera)
    /\ \A impacts \in Inputs : DistinctCameras(impacts)
    /\ outlier_threshold \in Nat

VARIABLES
    camera_impacts,      \* the argument, and the list in the result
    allow_single_source, \* the argument
    step,                \* where fuse is
    anchor,              \* the position of the next anchor
    cluster,             \* the largest cluster so far: positions in camera_impacts
    summed,              \* the positions weighted_mean has added up
    used_in_fusion,      \* the positions whose used_in_fusion is set
    point_cible,         \* the fused point as sums; the mean is their quotient
    reason               \* "ok" of a valid result, or why it is not
vars == <<camera_impacts, allow_single_source, step, anchor, cluster, summed, used_in_fusion, point_cible, reason>>

NoPoint == [sum_x |-> 0, sum_y |-> 0, sum_weights |-> 0]

valid_impacts == {i \in 1..Len(camera_impacts) : camera_impacts[i].valid}

Init ==
    /\ camera_impacts \in Inputs
    /\ allow_single_source \in BOOLEAN
    /\ step = "filter"
    /\ anchor = 1
    /\ cluster = {}
    /\ summed = {}
    /\ used_in_fusion = {}
    /\ point_cible = NoPoint
    /\ reason = "none"

\* distance_between(a, b) <= outlier_threshold
near(i, j) ==
    LET dx == camera_impacts[i].x - camera_impacts[j].x
        dy == camera_impacts[i].y - camera_impacts[j].y
    IN dx * dx + dy * dy <= outlier_threshold * outlier_threshold

reject(why) ==
    /\ reason' = why
    /\ step' = "done"
    /\ UNCHANGED <<camera_impacts, allow_single_source, anchor, cluster, summed, used_in_fusion, point_cible>>

no_valid_impacts ==
    /\ step = "filter"
    /\ valid_impacts = {}
    /\ reject("no_valid_impacts")

single_source_refused ==
    /\ step = "filter"
    /\ Cardinality(valid_impacts) = 1
    /\ ~ allow_single_source
    /\ reject("not_enough_consistent_cameras")

\* The point of the one valid impact; the mark goes to the front of the list.
single_source ==
    LET front == CHOOSE i \in valid_impacts : TRUE IN
    /\ step = "filter"
    /\ Cardinality(valid_impacts) = 1
    /\ allow_single_source
    /\ point_cible' = [sum_x |-> camera_impacts[front].x, sum_y |-> camera_impacts[front].y, sum_weights |-> 1]
    /\ used_in_fusion' = {1}
    /\ reason' = "ok"
    /\ step' = "done"
    /\ UNCHANGED <<camera_impacts, allow_single_source, anchor, cluster, summed>>

several_sources ==
    /\ step = "filter"
    /\ Cardinality(valid_impacts) >= 2
    /\ step' = "anchors"
    /\ UNCHANGED <<camera_impacts, allow_single_source, anchor, cluster, summed, used_in_fusion, point_cible, reason>>

candidate_cluster(i) == {i} \cup {j \in valid_impacts : near(i, j)}

larger_mutant(candidate) == Cardinality(candidate) >= Cardinality(cluster)
larger(candidate) == Cardinality(candidate) > Cardinality(cluster)

\* One round of the loop over the anchors; positions that are not valid are
\* not in the list the loop goes over.
try_anchor ==
    /\ step = "anchors"
    /\ anchor <= Len(camera_impacts)
    /\ cluster' = IF anchor \in valid_impacts /\ larger(candidate_cluster(anchor))
                  THEN candidate_cluster(anchor)
                  ELSE cluster
    /\ anchor' = anchor + 1
    /\ UNCHANGED <<camera_impacts, allow_single_source, step, summed, used_in_fusion, point_cible, reason>>

anchors_tried == step = "anchors" /\ anchor > Len(camera_impacts)

enough_mutant == Cardinality(cluster) >= 1
enough == Cardinality(cluster) >= 2

cluster_too_small ==
    /\ anchors_tried
    /\ ~ enough
    /\ reject("not_enough_consistent_cameras")

\* A quality of zero still weighs something.
weight_mutant(i) == camera_impacts[i].quality
weight(i) == IF camera_impacts[i].quality = 0 THEN 1 ELSE camera_impacts[i].quality

enough_sources ==
    /\ anchors_tried
    /\ enough
    /\ step' = "mean"
    /\ UNCHANGED <<camera_impacts, allow_single_source, anchor, cluster, summed, used_in_fusion, point_cible, reason>>

\* The cluster is sorted by camera.
is_next(i) ==
    /\ i \in cluster \ summed
    /\ \A j \in cluster \ summed : camera_impacts[i].camera_id <= camera_impacts[j].camera_id

\* One round of the loop of weighted_mean.
add_weighted(i) ==
    /\ step = "mean"
    /\ is_next(i)
    /\ point_cible' = [ sum_x |-> point_cible.sum_x + camera_impacts[i].x * weight(i),
                        sum_y |-> point_cible.sum_y + camera_impacts[i].y * weight(i),
                        sum_weights |-> point_cible.sum_weights + weight(i) ]
    /\ summed' = summed \cup {i}
    /\ UNCHANGED <<camera_impacts, allow_single_source, step, anchor, cluster, used_in_fusion, reason>>

\* The impacts whose camera has an impact in the cluster.
marked_mutant == valid_impacts
marked ==
    {i \in 1..Len(camera_impacts) :
        \E j \in cluster : camera_impacts[i].camera_id = camera_impacts[j].camera_id}

fuse_cluster ==
    /\ step = "mean"
    /\ summed = cluster
    /\ used_in_fusion' = marked
    /\ reason' = "ok"
    /\ step' = "done"
    /\ UNCHANGED <<camera_impacts, allow_single_source, anchor, cluster, summed, point_cible>>

Next ==
    \/ no_valid_impacts \/ single_source_refused \/ single_source \/ several_sources
    \/ try_anchor \/ cluster_too_small \/ enough_sources
    \/ \E i \in cluster : add_weighted(i)
    \/ fuse_cluster

Spec == Init /\ [][Next]_vars
-----------------------------------------------------------------------------
(* What must hold. *)

TypeOK ==
    /\ camera_impacts \in Inputs
    /\ allow_single_source \in BOOLEAN
    /\ step \in {"filter", "anchors", "mean", "done"}
    /\ anchor \in 1..(Len(camera_impacts) + 1)
    /\ cluster \subseteq 1..Len(camera_impacts)
    /\ summed \subseteq cluster
    /\ point_cible \in [sum_x : Int, sum_y : Int, sum_weights : Nat]
    /\ used_in_fusion \subseteq 1..Len(camera_impacts)
    /\ reason \in {"none", "ok", "no_valid_impacts", "not_enough_consistent_cameras"}

Neighbours(i) == {j \in valid_impacts : near(i, j)}

(***************************************************************************)
(* Of the anchors tried, the cluster belongs to the first that has the most *)
(* neighbours: equally large groups are decided by the order of the list,  *)
(* and nothing else decides. (The loop over the anchors.)                  *)
(***************************************************************************)
FirstLargestGroupWins ==
    LET tried == {i \in valid_impacts : i < anchor} IN
    step # "filter" =>
        IF tried = {} \/ Cardinality(valid_impacts) = 1
        THEN cluster = {}
        ELSE \E i \in tried :
            /\ cluster = Neighbours(i)
            /\ \A j \in tried :
                /\ Cardinality(Neighbours(j)) <= Cardinality(cluster)
                /\ j < i => Cardinality(Neighbours(j)) < Cardinality(cluster)

Fused == step = "done" /\ reason = "ok" /\ Cardinality(valid_impacts) >= 2

(***************************************************************************)
(* A point fused from several impacts rests on at least two cameras, all of *)
(* them valid and all within the threshold of one of them; no camera near  *)
(* that one is left out. (Anchor loop, marking by camera_id.)              *)
(***************************************************************************)
UsedCamerasAgree ==
    Fused =>
        /\ Cardinality(used_in_fusion) >= 2
        /\ \E i \in used_in_fusion : used_in_fusion = Neighbours(i)

(***************************************************************************)
(* A shot is rejected for want of consistent cameras only if no two valid  *)
(* impacts are near each other, or if there is only one and a single source *)
(* is not allowed; and it is not accepted on less.                         *)
(***************************************************************************)
RejectionIsJustified ==
    LET a_pair_agrees == \E i, j \in valid_impacts : i # j /\ near(i, j)
        single_allowed == Cardinality(valid_impacts) = 1 /\ allow_single_source
    IN
    step = "done" => ((reason = "ok") <=> (a_pair_agrees \/ single_allowed))

(***************************************************************************)
(* The fused point lies between the points it is the mean of, also when all *)
(* of them have quality 0: the sum of the weights is never 0.              *)
(***************************************************************************)
FusedPointAmongUsed ==
    LET W == point_cible.sum_weights IN
    Fused =>
        /\ W > 0
        /\ \E i \in used_in_fusion : camera_impacts[i].x * W <= point_cible.sum_x
        /\ \E i \in used_in_fusion : camera_impacts[i].x * W >= point_cible.sum_x
        /\ \E i \in used_in_fusion : camera_impacts[i].y * W <= point_cible.sum_y
        /\ \E i \in used_in_fusion : camera_impacts[i].y * W >= point_cible.sum_y

\* How many impacts the reported point is made of.
Contributors ==
    CASE reason # "ok" -> 0
      [] reason = "ok" /\ Cardinality(valid_impacts) = 1 -> 1
      [] OTHER -> Cardinality(cluster)

(***************************************************************************)
(* The number of marks, from which the engine counts cameras_used, is the   *)
(* number of impacts the point is made of: marks go by camera and not by    *)
(* impact, to the front of the list when there is a single valid impact,    *)
(* and a shot that was rejected after clusters were tried carries none.     *)
(***************************************************************************)
CamerasUsedIsTheCount == step = "done" => Cardinality(used_in_fusion) = Contributors
=============================================================================
