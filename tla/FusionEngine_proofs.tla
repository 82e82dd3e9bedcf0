------------------------- MODULE FusionEngine_proofs -------------------------
(***************************************************************************)
(* The decisions of FusionEngine for any list of impacts of distinct        *)
(* cameras and any threshold: which group wins, which cameras count as      *)
(* used, when a shot is rejected, and where the fused point lies.           *)
(***************************************************************************)
EXTENDS FusionEngine, FiniteSetTheorems, SequenceTheorems, TLAPS

\* The number of neighbours of an impact.
size(i) == Cardinality(Neighbours(i))

Tried == {i \in valid_impacts : i < anchor}

\* i is the first of the anchors tried that have the most neighbours.
FirstLargest(i) ==
    /\ i \in Tried
    /\ cluster = Neighbours(i)
    /\ \A j \in Tried : size(j) <= size(i) /\ (j < i => size(j) < size(i))

\* What holds in each phase of fuse.
Phases ==
    /\ step # "done" => used_in_fusion = {}
    /\ step = "filter" => cluster = {} /\ anchor = 1
    /\ step = "anchors" =>
        /\ Cardinality(valid_impacts) >= 2
        /\ IF Tried = {} THEN cluster = {} ELSE \E i \in Tried : FirstLargest(i)
    /\ step = "mean" =>
        /\ Cardinality(valid_impacts) >= 2 /\ Tried = valid_impacts /\ enough
        /\ \E i \in Tried : FirstLargest(i)

\* The sums of weighted_mean are those of a point among the points added up.
Among(positions) ==
    LET W == point_cible.sum_weights IN
    /\ W > 0
    /\ \E i \in positions : camera_impacts[i].x * W <= point_cible.sum_x
    /\ \E i \in positions : camera_impacts[i].x * W >= point_cible.sum_x
    /\ \E i \in positions : camera_impacts[i].y * W <= point_cible.sum_y
    /\ \E i \in positions : camera_impacts[i].y * W >= point_cible.sum_y

Sums ==
    /\ step \in {"filter", "anchors"} => summed = {}
    /\ summed = {} /\ step # "done" => point_cible = NoPoint
    /\ summed # {} => Among(summed)
    /\ Fused => summed = cluster

\* The results fuse may leave behind.
Results ==
    step = "done" =>
        \/ /\ valid_impacts = {}
           /\ reason = "no_valid_impacts" /\ cluster = {} /\ used_in_fusion = {}
        \/ /\ Cardinality(valid_impacts) = 1 /\ cluster = {}
           /\ reason = IF allow_single_source THEN "ok" ELSE "not_enough_consistent_cameras"
           /\ used_in_fusion = IF allow_single_source THEN {1} ELSE {}
        \/ /\ Cardinality(valid_impacts) >= 2
           /\ Tried = valid_impacts
           /\ \E i \in Tried : FirstLargest(i)
           /\ reason = IF enough THEN "ok" ELSE "not_enough_consistent_cameras"
           /\ used_in_fusion = IF reason = "ok" THEN cluster ELSE {}

IInv == TypeOK /\ Phases /\ Results /\ Sums

-----------------------------------------------------------------------------
(* Counting *)

\* Every impact is near itself.
LEMMA NearItself ==
    ASSUME TypeOK, NEW i \in valid_impacts
    PROVE  near(i, i)
  <1>1. camera_impacts \in Seq(ImpactCamera) /\ outlier_threshold \in Nat
    BY FusionAssumption DEF FusionAssumption, TypeOK
  <1>2. i \in 1..Len(camera_impacts)
    BY DEF valid_impacts
  <1>3. camera_impacts[i] \in ImpactCamera
    BY <1>1, <1>2, ElementOfSeq
  <1>4. camera_impacts[i].x - camera_impacts[i].x = 0 /\ camera_impacts[i].y - camera_impacts[i].y = 0
    BY <1>3 DEF ImpactCamera
  <1>5. \A t \in Nat : 0 * 0 + 0 * 0 <= t * t
    OBVIOUS
  <1> QED
    BY <1>1, <1>4, <1>5 DEF near

\* The sets fuse works with are finite.
LEMMA Finite ==
    ASSUME TypeOK
    PROVE  /\ Len(camera_impacts) \in Nat
           /\ IsFiniteSet(valid_impacts) /\ Cardinality(valid_impacts) \in Nat
           /\ \A i : /\ IsFiniteSet(Neighbours(i)) /\ size(i) \in Nat
                     /\ Neighbours(i) \subseteq valid_impacts
           /\ \A i \in valid_impacts : i \in Neighbours(i) /\ size(i) >= 1
           /\ \A i \in valid_impacts : i \in Nat /\ 1 <= i /\ i <= Len(camera_impacts)
  <1>1. Len(camera_impacts) \in Nat
    BY FusionAssumption, LenProperties DEF FusionAssumption, TypeOK
  <1>2. IsFiniteSet(1..Len(camera_impacts))
    BY <1>1, FS_Interval
  <1>3. valid_impacts \in SUBSET (1..Len(camera_impacts))
    BY DEF valid_impacts
  <1>4. IsFiniteSet(valid_impacts) /\ Cardinality(valid_impacts) \in Nat
    BY <1>2, <1>3, FS_Subset, FS_CardinalityType
  <1>5. \A i : IsFiniteSet(Neighbours(i)) /\ size(i) \in Nat /\ Neighbours(i) \subseteq valid_impacts
    <2> TAKE i
    <2>1. Neighbours(i) \in SUBSET valid_impacts
      BY DEF Neighbours
    <2>2. IsFiniteSet(Neighbours(i))
      BY <1>4, <2>1, FS_Subset
    <2> QED
      BY <2>1, <2>2, FS_CardinalityType DEF size
  <1>6. \A i \in valid_impacts : i \in Neighbours(i) /\ size(i) >= 1
    <2> TAKE i \in valid_impacts
    <2>1. i \in Neighbours(i)
      BY NearItself DEF Neighbours
    <2>2. size(i) # 0
      BY <1>5, <2>1, FS_EmptySet DEF size
    <2> QED
      BY <1>5, <2>1, <2>2
  <1> QED
    BY <1>1, <1>3, <1>4, <1>5, <1>6

\* The cluster of an anchor is the set of its neighbours.
LEMMA ClusterOfAnchor ==
    ASSUME TypeOK, NEW i \in valid_impacts
    PROVE  candidate_cluster(i) = Neighbours(i)
  BY NearItself DEF candidate_cluster, Neighbours

\* Two neighbours or more means that another impact is near.
LEMMA Company ==
    ASSUME TypeOK, NEW i \in valid_impacts
    PROVE  size(i) >= 2 <=> \E j \in valid_impacts : j # i /\ near(i, j)
  <1>1. IsFiniteSet(Neighbours(i)) /\ i \in Neighbours(i) /\ size(i) \in Nat /\ size(i) >= 1
    BY Finite
  <1>2. size(i) = 1 <=> \E x : Neighbours(i) = {x}
    BY <1>1, FS_Singleton DEF size
  <1>3. size(i) = 1 <=> Neighbours(i) = {i}
    BY <1>1, <1>2
  <1>4. Neighbours(i) = {i} <=> ~ \E j \in valid_impacts : j # i /\ near(i, j)
    BY <1>1 DEF Neighbours
  <1> QED
    BY <1>1, <1>3, <1>4
-----------------------------------------------------------------------------
(* The invariant *)

\* Before anything is decided.
LEMMA InitIInv == Init => IInv
  <1> SUFFICES ASSUME Init PROVE IInv
    OBVIOUS
  <1>1. Len(camera_impacts) \in Nat
    BY FusionAssumption, LenProperties DEF FusionAssumption, Init
  <1> QED
    BY <1>1 DEF Init, IInv, TypeOK, Phases, Results, Sums, Fused, NoPoint

\* A step that leaves the impacts alone leaves what is derived from them alone.
LEMMA SameImpacts ==
    ASSUME UNCHANGED camera_impacts
    PROVE  /\ valid_impacts' = valid_impacts
           /\ \A i : Neighbours(i)' = Neighbours(i) /\ size(i)' = size(i)
  BY DEF valid_impacts, Neighbours, near, size

\* The anchors loop: the new anchor wins only if it has more neighbours.
LEMMA AnchorKeepsIInv ==
    ASSUME IInv, try_anchor
    PROVE  IInv'
  <1>1. /\ step = "anchors" /\ step' = step /\ anchor' = anchor + 1
        /\ anchor <= Len(camera_impacts)
        /\ UNCHANGED <<camera_impacts, allow_single_source, used_in_fusion, reason>>
        /\ UNCHANGED <<summed, point_cible>> /\ summed = {}
        /\ TypeOK
    BY DEF try_anchor, IInv, Sums
  <1>2. /\ valid_impacts' = valid_impacts
        /\ \A i : Neighbours(i)' = Neighbours(i) /\ size(i)' = size(i)
    BY <1>1, SameImpacts
  <1>3. anchor \in Nat /\ Len(camera_impacts) \in Nat
    BY <1>1, Finite DEF TypeOK
  <1>4. Tried' = IF anchor \in valid_impacts THEN Tried \cup {anchor} ELSE Tried
    BY <1>1, <1>2, <1>3, Finite DEF Tried
  <1>5. cluster' = IF anchor \in valid_impacts /\ larger(Neighbours(anchor)) THEN Neighbours(anchor) ELSE cluster
    BY <1>1, ClusterOfAnchor DEF try_anchor
  <1>6. TypeOK'
    <2>1. anchor' \in 1..(Len(camera_impacts') + 1)
      BY <1>1, <1>3 DEF TypeOK
    <2>2. cluster' \subseteq 1..Len(camera_impacts')
      BY <1>1, <1>5, Finite DEF TypeOK, valid_impacts
    <2> QED
      BY <1>1, <2>1, <2>2 DEF TypeOK
  <1>7. Cardinality(valid_impacts') >= 2
    BY <1>1, <1>2 DEF IInv, Phases
  <1>0. PICK a \in Nat : a = anchor
    BY <1>3
  <1>8. IF Tried' = {} THEN cluster' = {} ELSE \E i \in Tried' : FirstLargest(i)'
    <2>1. CASE anchor \notin valid_impacts
      <3>1. Tried' = Tried /\ cluster' = cluster
        BY <1>4, <1>5, <2>1
      <3> QED
        BY <1>1, <1>2, <3>1 DEF IInv, Phases, FirstLargest
    <2>2. CASE anchor \in valid_impacts /\ Tried = {}
      <3>1. Tried' = {anchor} /\ cluster = {}
        BY <1>1, <1>4, <2>2 DEF IInv, Phases
      <3>2. larger(Neighbours(anchor))
        BY <1>1, <2>2, <3>1, Finite, FS_EmptySet DEF larger, size
      <3>3. cluster' = Neighbours(anchor)
        BY <1>5, <2>2, <3>2
      <3>4. FirstLargest(a)'
        BY <1>0, <1>1, <1>2, <1>3, <3>1, <3>3, Finite DEF FirstLargest
      <3> QED
        BY <1>0, <3>1, <3>4
    <2>3. CASE anchor \in valid_impacts /\ Tried # {}
      <3>1. PICK i \in Tried : FirstLargest(i)
        BY <1>1, <2>3 DEF IInv, Phases
      <3>2. /\ Tried' = Tried \cup {anchor} /\ i \in valid_impacts /\ i < anchor
            /\ \A j \in Tried : size(j) <= size(i) /\ (j < i => size(j) < size(i))
            /\ \A j \in Tried : j < anchor /\ j \in Nat
            /\ size(anchor) \in Nat /\ \A j : size(j) \in Nat
        BY <1>1, <1>4, <2>3, <3>1, Finite DEF Tried, FirstLargest
      <3>3. larger(Neighbours(anchor)) <=> size(anchor) > size(i)
        BY <3>1 DEF larger, FirstLargest, size
      <3>4. CASE size(anchor) > size(i)
        <4>1. cluster' = Neighbours(anchor)
          BY <1>5, <2>3, <3>3, <3>4
        <4>2. \A j \in Tried : size(j) < size(anchor)
          BY <3>2, <3>4
        <4>3. FirstLargest(a)'
          BY <1>0, <1>2, <1>3, <3>2, <4>1, <4>2 DEF FirstLargest
        <4> QED
          BY <1>0, <3>2, <4>3
      <3>5. CASE ~ (size(anchor) > size(i))
        <4>1. cluster' = Neighbours(i)
          BY <1>5, <3>1, <3>3, <3>5 DEF FirstLargest
        <4>2. size(anchor) <= size(i) /\ ~ (anchor < i)
          BY <1>3, <3>2, <3>5, Finite
        <4>3. FirstLargest(i)'
          BY <1>2, <3>2, <4>1, <4>2 DEF FirstLargest
        <4> QED
          BY <3>2, <4>3
      <3> QED
        BY <3>4, <3>5
    <2> QED
      BY <2>1, <2>2, <2>3
  <1>9. Sums'
    BY <1>1 DEF IInv, Sums, Fused
  <1> QED
    BY <1>1, <1>6, <1>7, <1>8, <1>9 DEF IInv, Phases, Results

\* The marks go to the cluster: cameras are distinct.
LEMMA MarkedIsCluster ==
    ASSUME TypeOK
    PROVE  marked = cluster
  <1>1. \A i, j \in 1..Len(camera_impacts) :
            camera_impacts[i].camera_id = camera_impacts[j].camera_id => i = j
    BY FusionAssumption DEF FusionAssumption, DistinctCameras, TypeOK
  <1>2. cluster \subseteq 1..Len(camera_impacts)
    BY DEF TypeOK
  <1> QED
    BY <1>1, <1>2 DEF marked

\* What a step that leaves impacts and cluster alone keeps.
LEMMA SameCluster ==
    ASSUME UNCHANGED <<camera_impacts, allow_single_source, anchor, cluster>>
    PROVE  /\ valid_impacts' = valid_impacts
           /\ \A i : Neighbours(i)' = Neighbours(i) /\ size(i)' = size(i)
           /\ Tried' = Tried /\ enough' = enough /\ \A i : FirstLargest(i)' = FirstLargest(i)
  <1>1. /\ valid_impacts' = valid_impacts
        /\ \A i : Neighbours(i)' = Neighbours(i) /\ size(i)' = size(i)
    BY SameImpacts
  <1> QED
    BY <1>1 DEF Tried, enough, FirstLargest

\* When the anchors are tried the cluster is decided.
LEMMA AnchorsDecide ==
    ASSUME IInv, anchors_tried
    PROVE  /\ Tried = valid_impacts /\ Cardinality(valid_impacts) >= 2
           /\ \E i \in Tried : FirstLargest(i)
  <1>1. TypeOK
    BY DEF IInv
  <1>2. IsFiniteSet(valid_impacts) /\ Cardinality(valid_impacts) \in Nat /\ Len(camera_impacts) \in Nat
    BY <1>1, Finite
  <1>3. Tried = valid_impacts
    BY <1>1, <1>2, Finite DEF anchors_tried, Tried, TypeOK
  <1>4. valid_impacts # {} /\ Cardinality(valid_impacts) >= 2
    BY <1>2, FS_EmptySet DEF anchors_tried, IInv, Phases
  <1> QED
    BY <1>3, <1>4 DEF anchors_tried, IInv, Phases

\* The steps before and after the anchors loop, and stuttering.
LEMMA OthersKeepIInv ==
    ASSUME IInv,
           \/ no_valid_impacts \/ single_source_refused \/ single_source \/ several_sources
           \/ cluster_too_small \/ enough_sources \/ fuse_cluster \/ UNCHANGED vars
    PROVE  IInv'
  <1>1. UNCHANGED <<camera_impacts, allow_single_source, anchor, cluster, summed>> /\ TypeOK
    BY DEF no_valid_impacts, single_source_refused, single_source, several_sources,
           cluster_too_small, enough_sources, fuse_cluster, reject, vars, IInv
  <1>2. /\ valid_impacts' = valid_impacts
        /\ Tried' = Tried /\ enough' = enough /\ \A i : FirstLargest(i)' = FirstLargest(i)
    BY <1>1, SameCluster
  <1>4. IsFiniteSet(valid_impacts) /\ Cardinality(valid_impacts) \in Nat /\ Len(camera_impacts) \in Nat
    BY <1>1, Finite
  <1>5. CASE no_valid_impacts
    <2>1. Cardinality(valid_impacts) = 0
      BY <1>5, FS_EmptySet DEF no_valid_impacts
    <2> QED
      BY <1>1, <1>2, <1>5, <2>1 DEF no_valid_impacts, reject, IInv, TypeOK, Phases, Results, Sums, Fused
  <1>6. CASE single_source_refused
    <2>1. /\ step = "filter" /\ step' = "done" /\ Cardinality(valid_impacts) = 1 /\ ~ allow_single_source
          /\ reason' = "not_enough_consistent_cameras" /\ UNCHANGED <<used_in_fusion, point_cible>>
      BY <1>6 DEF single_source_refused, reject
    <2>2. TypeOK' /\ Phases'
      BY <1>1, <1>2, <2>1 DEF IInv, TypeOK, Phases
    <2>3. Results'
      BY <1>1, <1>2, <2>1 DEF IInv, Phases, Results
    <2>4. Sums'
      BY <1>1, <2>1 DEF IInv, Sums, Fused
    <2> QED
      BY <2>2, <2>3, <2>4 DEF IInv
  <1>7. CASE single_source
    <2> DEFINE front == CHOOSE i \in valid_impacts : TRUE
    <2>1. valid_impacts # {}
      BY <1>7, FS_EmptySet DEF single_source
    <2>2. 1 \in 1..Len(camera_impacts)
      BY <1>4, <2>1 DEF valid_impacts
    <2>3. camera_impacts[front] \in ImpactCamera
      <3>1. front \in 1..Len(camera_impacts)
        BY <2>1 DEF valid_impacts
      <3>2. camera_impacts \in Seq(ImpactCamera)
        BY <1>1, FusionAssumption DEF TypeOK
      <3> QED
        BY <3>1, <3>2, ElementOfSeq
    <2>4. point_cible' \in [sum_x : Int, sum_y : Int, sum_weights : Nat]
      BY <1>7, <2>3 DEF single_source, ImpactCamera
    <2>5. TypeOK'
      BY <1>1, <1>7, <2>2, <2>4 DEF single_source, TypeOK
    <2>6. Sums'
      BY <1>1, <1>2, <1>7 DEF single_source, IInv, Sums, Fused
    <2> QED
      BY <1>1, <1>2, <1>7, <2>5, <2>6 DEF single_source, IInv, Phases, Results
  <1>8. CASE several_sources
    <2>1. Tried = {}
      BY <1>1, <1>8, Finite DEF several_sources, IInv, Phases, Tried
    <2> QED
      BY <1>1, <1>2, <1>8, <2>1 DEF several_sources, IInv, TypeOK, Phases, Results, Sums, Fused
  <1>10. CASE cluster_too_small
    <2>1. anchors_tried
      BY <1>10 DEF cluster_too_small
    <2> QED
      BY <1>1, <1>2, <1>10, <2>1, AnchorsDecide
         DEF cluster_too_small, anchors_tried, reject, IInv, TypeOK, Phases, Results, Sums, Fused
  <1>11. CASE enough_sources
    <2>1. anchors_tried
      BY <1>11 DEF enough_sources
    <2> QED
      BY <1>1, <1>2, <1>11, <2>1, AnchorsDecide
         DEF enough_sources, anchors_tried, IInv, TypeOK, Phases, Results, Sums, Fused
  <1>12. CASE fuse_cluster
    <2>1. used_in_fusion' = cluster
      BY <1>1, <1>12, MarkedIsCluster DEF fuse_cluster
    <2>2. TypeOK'
      BY <1>1, <1>12, <2>1 DEF fuse_cluster, TypeOK
    <2>3. Sums'
      BY <1>1, <1>2, <1>12 DEF fuse_cluster, IInv, Sums, Fused, Among
    <2> QED
      BY <1>1, <1>2, <1>12, <2>1, <2>2, <2>3 DEF fuse_cluster, IInv, Phases, Results
  <1>13. CASE UNCHANGED vars
    <2>1. UNCHANGED <<step, used_in_fusion, point_cible, reason>>
      BY <1>13 DEF vars
    <2>2. TypeOK' /\ Phases' /\ Results'
      BY <1>1, <1>2, <2>1 DEF IInv, TypeOK, Phases, Results
    <2>3. Sums'
      BY <1>1, <1>2, <2>1 DEF IInv, Sums, Fused, Among
    <2> QED
      BY <2>2, <2>3 DEF IInv
  <1> QED
    BY <1>5, <1>6, <1>7, <1>8, <1>10, <1>11, <1>12, <1>13

\* A mean stays among its points when a point of positive weight is added.
LEMMA MeanStaysAmong ==
    ASSUME NEW a \in Int, NEW b \in Int, NEW W \in Int, NEW w \in Int, NEW sum \in Int,
           W > 0, w > 0
    PROVE  /\ a * W <= sum => a * (W + w) <= sum + b * w \/ b * (W + w) <= sum + b * w
           /\ a * W >= sum => a * (W + w) >= sum + b * w \/ b * (W + w) >= sum + b * w
  <1>1. a * (W + w) = a * W + a * w /\ b * (W + w) = b * W + b * w
    OBVIOUS
  <1>2. a <= b => a * w <= b * w /\ a * W <= b * W
    OBVIOUS
  <1>3. b <= a => b * w <= a * w /\ b * W <= a * W
    OBVIOUS
  <1>4. a * W \in Int /\ a * w \in Int /\ b * W \in Int /\ b * w \in Int
    OBVIOUS
  <1> QED
    BY <1>1, <1>2, <1>3, <1>4

\* One round of weighted_mean.
LEMMA AddKeepsIInv ==
    ASSUME IInv, NEW k \in cluster, add_weighted(k)
    PROVE  IInv'
  <1>1. /\ step = "mean" /\ summed' = summed \cup {k} /\ TypeOK
        /\ UNCHANGED <<camera_impacts, allow_single_source, step, anchor, cluster, used_in_fusion, reason>>
    BY DEF add_weighted, IInv
  <1> DEFINE w == weight(k)
             x(i) == camera_impacts[i].x
             y(i) == camera_impacts[i].y
             W == point_cible.sum_weights
             X == point_cible.sum_x
             Y == point_cible.sum_y
  <1>2. \A i \in cluster : x(i) \in Int /\ y(i) \in Int /\ camera_impacts[i] \in ImpactCamera
    <2>1. camera_impacts \in Seq(ImpactCamera) /\ cluster \subseteq 1..Len(camera_impacts)
      BY <1>1, FusionAssumption DEF TypeOK
    <2>2. \A i \in cluster : camera_impacts[i] \in ImpactCamera
      BY <2>1, ElementOfSeq
    <2> QED
      BY <2>2 DEF ImpactCamera
  <1>3. w \in Nat /\ w > 0
    BY <1>2 DEF weight, ImpactCamera
  <1>4. X \in Int /\ Y \in Int /\ W \in Nat
    BY <1>1 DEF TypeOK
  <1>5. point_cible' = [sum_x |-> X + x(k) * w, sum_y |-> Y + y(k) * w, sum_weights |-> W + w]
    BY DEF add_weighted
  <1>6. TypeOK'
    <2>1. x(k) * w \in Int /\ y(k) * w \in Int
      BY <1>2, <1>3
    <2>2. point_cible' \in [sum_x : Int, sum_y : Int, sum_weights : Nat]
      BY <1>3, <1>4, <1>5, <2>1
    <2> QED
      BY <1>1, <2>2 DEF TypeOK
  <1>7. Among(summed)'
    <2> SUFFICES /\ W + w > 0
                 /\ \E i \in summed' : x(i) * (W + w) <= X + x(k) * w
                 /\ \E i \in summed' : x(i) * (W + w) >= X + x(k) * w
                 /\ \E i \in summed' : y(i) * (W + w) <= Y + y(k) * w
                 /\ \E i \in summed' : y(i) * (W + w) >= Y + y(k) * w
      BY <1>1, <1>5 DEF Among
    <2>1. k \in summed' /\ \A i \in summed : i \in summed' /\ i \in cluster
      BY <1>1 DEF TypeOK
    <2>2. CASE summed = {}
      <3>1. W = 0 /\ X = 0 /\ Y = 0
        BY <1>1, <2>2 DEF IInv, Sums, NoPoint
      <3> HIDE DEF w, x, y, W, X, Y
      <3>2. x(k) * (W + w) = X + x(k) * w /\ y(k) * (W + w) = Y + y(k) * w
        BY <1>2, <1>3, <3>1
      <3>3. x(k) * (W + w) \in Int /\ y(k) * (W + w) \in Int /\ W + w > 0
        BY <1>2, <1>3, <3>1
      <3> QED
        BY <2>1, <3>2, <3>3
    <2>3. CASE summed # {}
      <3>1. /\ W > 0
            /\ \E i \in summed : x(i) * W <= X
            /\ \E i \in summed : x(i) * W >= X
            /\ \E i \in summed : y(i) * W <= Y
            /\ \E i \in summed : y(i) * W >= Y
        BY <1>1, <2>3 DEF IInv, Sums, Among
      <3> HIDE DEF w, x, y, W, X, Y
      <3>2. PICK i \in summed : x(i) * W <= X
        BY <3>1
      <3>3. PICK j \in summed : x(j) * W >= X
        BY <3>1
      <3>4. PICK m \in summed : y(m) * W <= Y
        BY <3>1
      <3>5. PICK n \in summed : y(n) * W >= Y
        BY <3>1
      <3>6. x(i) * (W + w) <= X + x(k) * w \/ x(k) * (W + w) <= X + x(k) * w
        BY <1>2, <1>3, <1>4, <2>1, <3>1, <3>2, MeanStaysAmong
      <3>7. x(j) * (W + w) >= X + x(k) * w \/ x(k) * (W + w) >= X + x(k) * w
        BY <1>2, <1>3, <1>4, <2>1, <3>1, <3>3, MeanStaysAmong
      <3>8. y(m) * (W + w) <= Y + y(k) * w \/ y(k) * (W + w) <= Y + y(k) * w
        BY <1>2, <1>3, <1>4, <2>1, <3>1, <3>4, MeanStaysAmong
      <3>9. y(n) * (W + w) >= Y + y(k) * w \/ y(k) * (W + w) >= Y + y(k) * w
        BY <1>2, <1>3, <1>4, <2>1, <3>1, <3>5, MeanStaysAmong
      <3>10. W + w > 0
        BY <1>3, <1>4, <3>1
      <3> QED
        BY <2>1, <3>6, <3>7, <3>8, <3>9, <3>10
    <2> QED
      BY <2>2, <2>3
  <1>8. Sums'
    BY <1>1, <1>7 DEF Sums, Fused
  <1>9. Phases' /\ Results'
    BY <1>1, SameCluster DEF IInv, Phases, Results
  <1> QED
    BY <1>6, <1>8, <1>9 DEF IInv

\* The strengthened invariant is inductive.
THEOREM Inductive == Spec => []IInv
  <1>1. IInv /\ [Next]_vars => IInv'
    BY AnchorKeepsIInv, OthersKeepIInv, AddKeepsIInv DEF Next
  <1> QED
    BY InitIInv, <1>1, PTL DEF Spec

(***************************************************************************)
(* Types, for any impacts and any threshold.                               *)
(***************************************************************************)
THEOREM TypeCorrect == Spec => []TypeOK
  <1>1. IInv => TypeOK
    BY DEF IInv
  <1> QED
    BY Inductive, <1>1, PTL

(***************************************************************************)
(* The first of the largest groups wins, whatever the impacts.             *)
(***************************************************************************)
THEOREM LargestGroupWins == Spec => []FirstLargestGroupWins
  <1>1. IInv => FirstLargestGroupWins
    <2> SUFFICES ASSUME IInv, step # "filter"
                 PROVE  IF Tried = {} \/ Cardinality(valid_impacts) = 1
                        THEN cluster = {}
                        ELSE \E i \in Tried :
                            /\ cluster = Neighbours(i)
                            /\ \A j \in Tried :
                                /\ Cardinality(Neighbours(j)) <= Cardinality(cluster)
                                /\ j < i => Cardinality(Neighbours(j)) < Cardinality(cluster)
      BY DEF FirstLargestGroupWins, Tried
    <2>1. Cardinality(valid_impacts) \in Nat /\ step \in {"anchors", "mean", "done"} /\ Tried \subseteq valid_impacts
      BY Finite DEF IInv, TypeOK, Tried
    <2>2. (\E i \in Tried : FirstLargest(i)) =>
            \E i \in Tried :
                /\ cluster = Neighbours(i)
                /\ \A j \in Tried :
                    /\ Cardinality(Neighbours(j)) <= Cardinality(cluster)
                    /\ j < i => Cardinality(Neighbours(j)) < Cardinality(cluster)
      BY DEF FirstLargest, size
    <2>3. CASE step = "anchors"
      BY <2>1, <2>2, <2>3 DEF IInv, Phases
    <2>4. CASE step = "mean"
      BY <2>1, <2>2, <2>4 DEF IInv, Phases
    <2>5. CASE step = "done"
      BY <2>1, <2>2, <2>5 DEF IInv, Results
    <2> QED
      BY <2>1, <2>3, <2>4, <2>5
  <1> QED
    BY Inductive, <1>1, PTL

(***************************************************************************)
(* The cameras used are two or more valid ones, exactly the neighbours of  *)
(* one of them.                                                            *)
(***************************************************************************)
THEOREM UsedCamerasAreConsistent == Spec => []UsedCamerasAgree
  <1>1. IInv => UsedCamerasAgree
    <2> SUFFICES ASSUME IInv, Fused
                 PROVE  /\ Cardinality(used_in_fusion) >= 2
                        /\ \E i \in used_in_fusion : used_in_fusion = Neighbours(i)
      BY DEF UsedCamerasAgree
    <2>1. valid_impacts # {} /\ Cardinality(valid_impacts) # 1
      BY FS_EmptySet DEF Fused
    <2>2. enough /\ used_in_fusion = cluster /\ \E i \in valid_impacts : cluster = Neighbours(i)
      BY <2>1 DEF IInv, Results, Fused, FirstLargest, Tried
    <2> QED
      BY <2>2, Finite DEF IInv, enough
  <1> QED
    BY Inductive, <1>1, PTL

(***************************************************************************)
(* A shot is accepted exactly when two valid impacts are near each other   *)
(* or a single one is allowed.                                             *)
(***************************************************************************)
THEOREM RejectionsAreJustified == Spec => []RejectionIsJustified
  <1>1. IInv => RejectionIsJustified
    <2> DEFINE a_pair_agrees == \E i, j \in valid_impacts : i # j /\ near(i, j)
               single_allowed == Cardinality(valid_impacts) = 1 /\ allow_single_source
    <2> SUFFICES ASSUME IInv, step = "done"
                 PROVE  (reason = "ok") <=> (a_pair_agrees \/ single_allowed)
      BY DEF RejectionIsJustified
    <2>1. TypeOK /\ IsFiniteSet(valid_impacts) /\ Cardinality(valid_impacts) \in Nat
      BY Finite DEF IInv
    <2>2. CASE valid_impacts = {}
      <3>1. Cardinality(valid_impacts) = 0
        BY <2>2, FS_EmptySet
      <3> QED
        BY <2>2, <3>1 DEF IInv, Results
    <2>3. CASE Cardinality(valid_impacts) = 1
      <3>1. PICK x : valid_impacts = {x}
        BY <2>1, <2>3, FS_Singleton
      <3>2. ~ a_pair_agrees /\ valid_impacts # {}
        BY <3>1
      <3>3. reason = IF allow_single_source THEN "ok" ELSE "not_enough_consistent_cameras"
        BY <2>3, <3>2 DEF IInv, Results
      <3> QED
        BY <2>3, <3>2, <3>3
    <2>4. CASE valid_impacts # {} /\ Cardinality(valid_impacts) # 1
      <3>1. PICK i \in valid_impacts :
              /\ cluster = Neighbours(i) /\ \A j \in valid_impacts : size(j) <= size(i)
              /\ reason = IF enough THEN "ok" ELSE "not_enough_consistent_cameras"
        BY <2>4 DEF IInv, Results, FirstLargest
      <3>2. enough <=> size(i) >= 2
        BY <3>1 DEF enough, size
      <3>3. (size(i) >= 2) <=> a_pair_agrees
        <4>1. ASSUME a_pair_agrees PROVE size(i) >= 2
          <5>1. PICK j, k \in valid_impacts : j # k /\ near(j, k)
            BY <4>1
          <5>2. size(j) >= 2
            BY <2>1, <5>1, Company
          <5> QED
            BY <2>1, <3>1, <5>2, Finite
        <4>2. ASSUME size(i) >= 2 PROVE a_pair_agrees
          BY <2>1, <4>2, Company
        <4> QED
          BY <4>1, <4>2
      <3> QED
        BY <2>4, <3>1, <3>2, <3>3
    <2> QED
      BY <2>2, <2>3, <2>4
  <1> QED
    BY Inductive, <1>1, PTL

(***************************************************************************)
(* For any impacts and any threshold the fused point lies between the       *)
(* points of the cameras used, in each coordinate, and the weights never    *)
(* add up to 0: the sums stay among the points with every impact added.     *)
(***************************************************************************)
THEOREM FusedPointsAreAmong == Spec => []FusedPointAmongUsed
  <1>1. IInv => FusedPointAmongUsed
    <2> SUFFICES ASSUME IInv, Fused PROVE Among(used_in_fusion)
      BY DEF FusedPointAmongUsed, Among
    <2>1. valid_impacts # {} /\ Cardinality(valid_impacts) # 1
      BY FS_EmptySet DEF Fused
    <2>2. enough /\ used_in_fusion = cluster /\ summed = cluster
      BY <2>1 DEF IInv, Results, Fused, Sums
    <2>3. cluster # {}
      BY <2>2, FS_EmptySet DEF enough
    <2> QED
      BY <2>2, <2>3 DEF IInv, Sums
  <1> QED
    BY Inductive, <1>1, PTL

(***************************************************************************)
(* The count of cameras used is the number of impacts behind the point, or  *)
(* zero, for any impacts and any threshold.                                 *)
(***************************************************************************)
THEOREM CamerasAreCounted == Spec => []CamerasUsedIsTheCount
  <1>1. IInv => CamerasUsedIsTheCount
    <2> SUFFICES ASSUME IInv, step = "done"
                 PROVE  Cardinality(used_in_fusion) = Contributors
      BY DEF CamerasUsedIsTheCount
    <2>1. Cardinality({}) = 0 /\ Cardinality({1}) = 1
      BY FS_EmptySet, FS_Singleton
    <2>2. CASE valid_impacts = {} /\ reason = "no_valid_impacts" /\ used_in_fusion = {}
      BY <2>1, <2>2 DEF Contributors
    <2>3. CASE /\ Cardinality(valid_impacts) = 1
               /\ reason = IF allow_single_source THEN "ok" ELSE "not_enough_consistent_cameras"
               /\ used_in_fusion = IF allow_single_source THEN {1} ELSE {}
      BY <2>1, <2>3 DEF Contributors
    <2>4. CASE /\ Cardinality(valid_impacts) >= 2
               /\ used_in_fusion = IF reason = "ok" THEN cluster ELSE {}
      BY <2>1, <2>4 DEF Contributors
    <2> QED
      BY <2>2, <2>3, <2>4 DEF IInv, Results
  <1> QED
    BY Inductive, <1>1, PTL
=============================================================================
