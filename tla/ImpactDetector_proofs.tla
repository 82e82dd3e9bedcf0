------------------------ MODULE ImpactDetector_proofs ------------------------
(***************************************************************************)
(* The loop of ImpactDetector keeps the best and the second best of the     *)
(* contours it has read, for any contours, any number of them and any       *)
(* quality floor; what the verdict says of the image follows from that.     *)
(***************************************************************************)
EXTENDS ImpactDetector, SequenceTheorems, TLAPS

\* The verdict is the one the tests after the loop give.
Decided ==
    /\ reason = "no_plausible_contour" => below_floor
    /\ reason = "ambiguous_contour" => ~ below_floor /\ ambiguous
    /\ reason = "ok" => ~ below_floor /\ ~ ambiguous

IInv == TypeOK /\ BestIsFirstHighest /\ SecondIsRunnerUp /\ Decided

\* The types as the provers use them.
LEMMA Typed ==
    ASSUME TypeOK
    PROVE  /\ Len(contours) \in Nat
           /\ \A i \in Plausible :
                i \in 1..Len(contours) /\ contours[i] \in Contour
           /\ \A i \in Plausible :
                contours[i].score \in Int /\ 0 <= contours[i].score /\ contours[i].score <= 100
           /\ best_score \in Int /\ -1 <= best_score
           /\ second_best_score \in Int /\ -1 <= second_best_score
           /\ best_index \in Nat
           /\ quality_floor \in Int /\ 0 <= quality_floor
  <1>1. Len(contours) \in Nat
    BY LenProperties DEF TypeOK
  <1>2. \A i \in Plausible : i \in 1..Len(contours) /\ contours[i] \in Contour
    BY <1>1, ElementOfSeq DEF TypeOK, Plausible
  <1>3. \A i \in Plausible :
          contours[i].score \in Int /\ 0 <= contours[i].score /\ contours[i].score <= 100
    <2>1. \A c \in Contour : c.score \in 0..100
      BY DEF Contour
    <2>2. \A i \in Plausible : contours[i].score \in 0..100
      BY <1>2, <2>1
    <2> QED
      BY <2>2
  <1>4. /\ best_score \in Int /\ -1 <= best_score
        /\ second_best_score \in Int /\ -1 <= second_best_score
        /\ best_index \in Nat
    BY DEF TypeOK
  <1>5. quality_floor \in Int /\ 0 <= quality_floor
    BY DetectorAssumption DEF DetectorAssumption
  <1> QED
    BY <1>1, <1>2, <1>3, <1>4, <1>5

\* So do the contours an image may have.
LEMMA TypedContours ==
    \A c \in Contours :
        /\ c \in Contour /\ c.tip \in Pixel
        /\ c.score \in Int /\ 0 <= c.score /\ c.score <= 100
  <1>1. Contours \subseteq Contour
    BY DetectorAssumption DEF DetectorAssumption
  <1>2. \A c \in Contour : c.score \in 0..100 /\ c.tip \in Pixel
    BY DEF Contour
  <1> QED
    BY <1>1, <1>2

\* Before the first contour nothing is best.
LEMMA InitIInv == Init => IInv
  <1> SUFFICES ASSUME Init PROVE IInv
    OBVIOUS
  <1>1. contours \in Seq(Contour) /\ Len(contours) = 0
    BY EmptySeq DEF Init
  <1>2. Plausible = {}
    BY <1>1 DEF Plausible
  <1>3. TypeOK
    BY <1>1 DEF Init, TypeOK, NoTip, Pixel, Looking
  <1> QED
    BY <1>2, <1>3 DEF Init, IInv, BestIsFirstHighest, SecondIsRunnerUp, Decided, Looking

\* What reading a contour does to the history and to the permitted contours.
LEMMA ReadAppends ==
    ASSUME TypeOK, NEW c \in Contours, read(c)
    PROVE  /\ Len(contours) \in Nat
           /\ contours' \in Seq(Contour)
           /\ Len(contours') = Len(contours) + 1
           /\ contours'[Len(contours) + 1] = c
           /\ \A i \in 1..Len(contours) : contours'[i] = contours[i]
           /\ Plausible' = IF c.area_ok THEN Plausible \cup {Len(contours) + 1} ELSE Plausible
           /\ Plausible \subseteq 1..Len(contours)
  <1>1. /\ Len(contours) \in Nat
        /\ contours' \in Seq(Contour)
        /\ Len(contours') = Len(contours) + 1
        /\ contours'[Len(contours) + 1] = c
        /\ \A i \in 1..Len(contours) : contours'[i] = contours[i]
    BY AppendProperties, LenProperties, TypedContours DEF TypeOK, read
  <1>2. 1..Len(contours') = 1..Len(contours) \cup {Len(contours) + 1}
    BY <1>1
  <1>3. Plausible' = IF c.area_ok THEN Plausible \cup {Len(contours) + 1} ELSE Plausible
    BY <1>1, <1>2 DEF Plausible
  <1> QED
    BY <1>1, <1>3 DEF Plausible

\* One round of the loop.
LEMMA LoopKeepsIInv ==
    ASSUME IInv, NEW c \in Contours,
           skip_contour(c) \/ take_best(c) \/ take_second(c) \/ pass_over(c)
    PROVE  IInv'
  <1> DEFINE n == Len(contours) + 1
  <1>0. /\ read(c) /\ TypeOK
        /\ c.score \in Int /\ 0 <= c.score /\ c.score <= 100 /\ c.tip \in Pixel
    BY TypedContours DEF IInv, skip_contour, take_best, take_second, pass_over
  <1>00. /\ best_score \in Int /\ -1 <= best_score
         /\ second_best_score \in Int /\ -1 <= second_best_score
    BY <1>0, Typed
  <1>1. /\ n \in Nat
        /\ contours' \in Seq(Contour)
        /\ Len(contours') = n
        /\ contours'[n] = c
        /\ \A i \in Plausible : i \in Nat /\ i < n /\ contours'[i] = contours[i] /\ contours[i].score \in Int
        /\ Plausible' = IF c.area_ok THEN Plausible \cup {n} ELSE Plausible
    BY <1>0, Typed, ReadAppends
  <1>2. TypeOK'
    <2>1. /\ contours' \in Seq(Contour) /\ reason' = reason
          /\ best_index' \in {best_index, n}
          /\ best_tip' \in {best_tip, c.tip}
          /\ second_best_tip' \in {second_best_tip, best_tip, c.tip}
          /\ best_score' \in {best_score, c.score}
          /\ second_best_score' \in {second_best_score, best_score, c.score}
      BY <1>0, <1>1 DEF read, skip_contour, take_best, take_second, pass_over, demoted_score
    <2>2. n \in Nat
      BY <1>1
    <2>3. c.score \in -1..100
      BY <1>0
    <2> QED
      BY <1>0, <2>1, <2>2, <2>3 DEF TypeOK
  <1>3. Decided'
    BY <1>0 DEF read, Decided, Looking
  <1> HIDE DEF n
  <1>4. CASE skip_contour(c)
    <2>1. BestIsFirstHighest'
      BY <1>1, <1>4 DEF skip_contour, IInv, BestIsFirstHighest
    <2>2. SecondIsRunnerUp'
      BY <1>1, <1>4 DEF skip_contour, IInv, SecondIsRunnerUp
    <2> QED
      BY <1>2, <1>3, <2>1, <2>2 DEF IInv
  <1>5. CASE take_best(c)
    <2>1. /\ Plausible' = Plausible \cup {n}
          /\ best_index' = n /\ best_score' = c.score /\ best_tip' = c.tip
          /\ second_best_score' = best_score /\ second_best_tip' = best_tip
          /\ c.score > best_score
      BY <1>1, <1>5 DEF take_best, beats, demoted_score, n
    <2>2. \A i \in Plausible : contours[i].score <= best_score
      BY DEF IInv, BestIsFirstHighest
    <2>3. BestIsFirstHighest'
      BY <1>0, <1>00, <1>1, <2>1, <2>2 DEF BestIsFirstHighest
    <2>4. Plausible' \ {best_index'} = Plausible
      BY <1>1, <2>1
    <2>5. SecondIsRunnerUp'
      BY <1>1, <2>1, <2>4 DEF IInv, BestIsFirstHighest, SecondIsRunnerUp
    <2> QED
      BY <1>2, <1>3, <2>3, <2>5 DEF IInv
  <1>6. CASE take_second(c) \/ pass_over(c)
    <2>1. /\ Plausible' = Plausible \cup {n}
          /\ best_index' = best_index /\ best_score' = best_score /\ best_tip' = best_tip
          /\ c.score <= best_score
      BY <1>0, <1>00, <1>1, <1>6 DEF take_second, pass_over, beats
    <2>2. /\ Plausible # {} /\ best_index \in Plausible
      BY <1>0, <1>00, <2>1 DEF IInv, BestIsFirstHighest
    <2>3. BestIsFirstHighest'
      BY <1>1, <2>1, <2>2 DEF IInv, BestIsFirstHighest
    <2>4. Plausible' \ {best_index'} = (Plausible \ {best_index}) \cup {n}
      BY <1>1, <2>1, <2>2
    <2>5. CASE take_second(c)
      <3>1. c.score > second_best_score /\ second_best_score' = c.score /\ second_best_tip' = c.tip
        BY <2>5 DEF take_second
      <3>2. SecondIsRunnerUp'
        <4>1. \A i \in Plausible \ {best_index} : contours[i].score <= second_best_score
          BY <1>0, <1>00 DEF IInv, SecondIsRunnerUp
        <4>2. \A i \in (Plausible \ {best_index}) \cup {n} : contours'[i].score <= c.score
          BY <1>0, <1>00, <1>1, <3>1, <4>1
        <4>3. contours'[n].score = c.score /\ contours'[n].tip = c.tip
          BY <1>1
        <4> QED
          BY <2>4, <3>1, <4>2, <4>3 DEF SecondIsRunnerUp
      <3> QED
        BY <1>2, <1>3, <2>3, <3>2 DEF IInv
    <2>6. CASE pass_over(c)
      <3>1. c.score <= second_best_score /\ UNCHANGED <<second_best_score, second_best_tip>>
        BY <2>6 DEF pass_over
      <3>2. Plausible \ {best_index} # {}
        BY <1>0, <1>00, <2>1, <3>1 DEF IInv, SecondIsRunnerUp
      <3>3. SecondIsRunnerUp'
        BY <1>1, <2>1, <2>4, <3>1, <3>2 DEF IInv, SecondIsRunnerUp
      <3> QED
        BY <1>2, <1>3, <2>3, <3>3 DEF IInv
    <2> QED
      BY <1>6, <2>5, <2>6
  <1> QED
    BY <1>4, <1>5, <1>6

\* The steps that end the detection, and stuttering.
LEMMA VerdictKeepsIInv ==
    ASSUME IInv, reject_images \/ decide \/ UNCHANGED vars
    PROVE  IInv'
  <1>1. UNCHANGED <<contours, best_score, second_best_score, best_index, best_tip, second_best_tip>>
    BY DEF reject_images, decide, vars
  <1>2. TypeOK'
    BY <1>1 DEF IInv, TypeOK, reject_images, decide, vars, Reasons
  <1>3. BestIsFirstHighest' /\ SecondIsRunnerUp'
    BY <1>1 DEF IInv, BestIsFirstHighest, SecondIsRunnerUp, Plausible
  <1>4. below_floor' = below_floor /\ ambiguous' = ambiguous
    BY <1>1 DEF below_floor, ambiguous
  <1>5. Decided'
    BY <1>1, <1>4 DEF IInv, Decided, reject_images, decide, vars
  <1> QED
    BY <1>2, <1>3, <1>5 DEF IInv

\* The strengthened invariant is inductive.
THEOREM Inductive == Spec => []IInv
  <1>1. IInv /\ [Next]_vars => IInv'
    BY LoopKeepsIInv, VerdictKeepsIInv DEF Next
  <1> QED
    BY InitIInv, <1>1, PTL DEF Spec

(***************************************************************************)
(* Types, for any contours and any floor.                                  *)
(***************************************************************************)
THEOREM TypeCorrect == Spec => []TypeOK
  <1>1. IInv => TypeOK
    BY DEF IInv
  <1> QED
    BY Inductive, <1>1, PTL

(***************************************************************************)
(* detect keeps the first of the contours with the highest score, whatever *)
(* the order in which they come.                                           *)
(***************************************************************************)
THEOREM BestIsRight == Spec => []BestIsFirstHighest
  <1>1. IInv => BestIsFirstHighest
    BY DEF IInv
  <1> QED
    BY Inductive, <1>1, PTL

(***************************************************************************)
(* detect keeps a runner-up with the highest score among the others.       *)
(***************************************************************************)
THEOREM SecondIsRight == Spec => []SecondIsRunnerUp
  <1>1. IInv => SecondIsRunnerUp
    BY DEF IInv
  <1> QED
    BY Inductive, <1>1, PTL

\* A second best that is close to a best above the floor is a contour.
LEMMA CloseSecondExists ==
    ASSUME IInv, close_scores(second_best_score, best_score), ~ below_floor
    PROVE  \E i \in Plausible \ {best_index} :
             contours[i].score = second_best_score /\ contours[i].tip = second_best_tip
  <1>1. second_best_score # -1
    BY Typed DEF IInv, close_scores, below_floor
  <1> QED
    BY <1>1 DEF IInv, SecondIsRunnerUp

(***************************************************************************)
(* Every verdict has its reason in the image.                              *)
(***************************************************************************)
THEOREM VerdictsAreJustified == Spec => []VerdictHasItsReason
  <1>1. IInv => VerdictHasItsReason
    <2> SUFFICES ASSUME IInv PROVE VerdictHasItsReason
      OBVIOUS
    <2>1. reason = "ambiguous_contour" => Rivals # {}
      BY CloseSecondExists DEF IInv, Decided, ambiguous, Rivals
    <2>2. reason = "ok" => \E i \in Plausible : contours[i].score >= quality_floor
      BY Typed DEF IInv, Decided, below_floor, BestIsFirstHighest
    <2>3. reason = "no_plausible_contour" => \A i \in Plausible : contours[i].score < quality_floor
      BY Typed DEF IInv, Decided, below_floor, BestIsFirstHighest
    <2> QED
      BY <2>1, <2>2, <2>3 DEF VerdictHasItsReason
  <1> QED
    BY Inductive, <1>1, PTL

(***************************************************************************)
(* An accepted impact has rivals only behind a neighbour that scores as    *)
(* high as they do.                                                        *)
(***************************************************************************)
THEOREM RivalsAreHidden == Spec => []OnlyNeighboursHideRivals
  <1>1. IInv => OnlyNeighboursHideRivals
    <2> SUFFICES ASSUME IInv, reason = "ok", NEW r \in Rivals
                 PROVE  \E i \in Plausible \ {best_index, r} :
                          /\ contours[i].score >= contours[r].score
                          /\ ~ far_apart(best_tip, contours[i].tip)
      BY DEF OnlyNeighboursHideRivals
    <2>1. /\ r \in Plausible \ {best_index}
          /\ close_scores(contours[r].score, best_score)
          /\ far_apart(best_tip, contours[r].tip)
          /\ contours[r].score \in Int
      BY Typed DEF IInv, Rivals
    <2>2. contours[r].score <= second_best_score
      BY <2>1 DEF IInv, SecondIsRunnerUp
    <2>3. close_scores(second_best_score, best_score)
      BY <2>1, <2>2, Typed DEF close_scores, IInv
    <2>4. ~ below_floor /\ ~ far_apart(best_tip, second_best_tip)
      BY <2>3 DEF IInv, Decided, ambiguous
    <2>5. PICK i \in Plausible \ {best_index} :
            contours[i].score = second_best_score /\ contours[i].tip = second_best_tip
      BY <2>3, <2>4, CloseSecondExists
    <2>6. i # r
      BY <2>1, <2>4, <2>5
    <2> QED
      BY <2>2, <2>4, <2>5, <2>6
  <1> QED
    BY Inductive, <1>1, PTL
=============================================================================
