--------------------------- MODULE JsonSubset_proofs ---------------------------
(***************************************************************************)
(* Proofs about the comparison of documents, for any pair of them.          *)
(***************************************************************************)
EXTENDS JsonSubset, SequenceTheorems, TLAPS

LEMMA PrefixElementwise ==
    ASSUME NEW s \in Paths, NEW t \in Paths
    PROVE  IsPrefix(s, t) <=> Len(s) <= Len(t) /\ \A i \in 1..Len(s) : s[i] = t[i]
<1> USE DEF Paths
<1>1. Len(s) \in Nat /\ Len(t) \in Nat
  OBVIOUS
<1>2. SubSeq(s, 1, Len(s)) = s
  BY SubSeqFull
<1>3. ASSUME Len(s) <= Len(t) PROVE SubSeq(t, 1, Len(s)) = s <=> \A i \in 1..Len(s) : s[i] = t[i]
  <2> DEFINE u == SubSeq(t, 1, Len(s))
  <2>1. \A i \in 1..Len(s) : t[i] \in Nat
    BY <1>1, <1>3, ElementOfSeq
  <2>2. u \in Paths /\ Len(u) = Len(s) /\ \A i \in 1..Len(s) : u[i] = t[i]
    BY <1>1, <2>1, SubSeqProperties
  <2>3. (\A i \in 1..Len(s) : u[i] = s[i]) => u = s
    BY <2>2, SeqEqual
  <2> HIDE DEF u
  <2> QED
    BY <2>2, <2>3 DEF u
<1> QED
  BY <1>2, <1>3 DEF IsPrefix

\* What branches off before another path comes before all that is below that one.
LEMMA BranchBeforeBelow ==
    ASSUME NEW p \in Paths, NEW c \in Paths, NEW q \in Paths,
           branches_before(p, c), IsPrefix(c, q)
    PROVE  branches_before(p, q)
<1>1. PICK k \in 1..Len(p) : k <= Len(c) /\ (\A i \in 1..(k - 1) : p[i] = c[i]) /\ p[k] < c[k]
  BY DEF branches_before
<1>2. Len(p) \in Nat /\ Len(c) \in Nat /\ Len(q) \in Nat
  BY DEF Paths
<1>3. Len(c) <= Len(q) /\ \A i \in 1..Len(c) : c[i] = q[i]
  BY PrefixElementwise
<1>4. k <= Len(q) /\ (\A i \in 1..(k - 1) : p[i] = q[i]) /\ p[k] < q[k]
  BY <1>1, <1>2, <1>3
<1> QED
  BY <1>4 DEF branches_before

\* All that is below a path comes before what the path branches off before.
LEMMA BelowBranchesBefore ==
    ASSUME NEW p \in Paths, NEW r \in Paths, NEW c \in Paths,
           branches_before(p, c), IsPrefix(p, r)
    PROVE  branches_before(r, c)
<1>1. PICK k \in 1..Len(p) : k <= Len(c) /\ (\A i \in 1..(k - 1) : p[i] = c[i]) /\ p[k] < c[k]
  BY DEF branches_before
<1>2. Len(p) \in Nat /\ Len(c) \in Nat /\ Len(r) \in Nat
  BY DEF Paths
<1>3. Len(p) <= Len(r) /\ \A i \in 1..Len(p) : p[i] = r[i]
  BY PrefixElementwise
<1>4. k \in 1..Len(r) /\ (\A i \in 1..(k - 1) : r[i] = c[i]) /\ r[k] < c[k]
  BY <1>1, <1>2, <1>3
<1> QED
  BY <1>1, <1>4 DEF branches_before

LEMMA BranchExcludesAfter ==
    ASSUME NEW p \in Paths, NEW q \in Paths, branches_before(p, q)
    PROVE  ~ before(q, p)
<1>1. PICK k \in 1..Len(p) : k <= Len(q) /\ (\A i \in 1..(k - 1) : p[i] = q[i]) /\ p[k] < q[k]
  BY DEF branches_before
<1>2. Len(p) \in Nat /\ Len(q) \in Nat
  BY DEF Paths
<1>3. \A i \in 1..Len(p) : p[i] \in Nat
  BY ElementOfSeq DEF Paths
<1>4. \A i \in 1..Len(q) : q[i] \in Nat
  BY ElementOfSeq DEF Paths
<1>5. ~ IsPrefix(q, p)
  <2>1. q[k] # p[k]
    BY <1>1, <1>2, <1>3, <1>4
  <2> QED
    BY <1>1, <1>2, <2>1, PrefixElementwise
<1>6. ASSUME NEW j \in 1..Len(q), j <= Len(p), \A i \in 1..(j - 1) : q[i] = p[i], q[j] < p[j]
      PROVE  FALSE
  <2>1. CASE j < k
    BY <1>1, <1>2, <1>3, <1>4, <1>6, <2>1
  <2>2. CASE j = k
    BY <1>1, <1>2, <1>3, <1>4, <1>6, <2>2
  <2>3. CASE k < j
    BY <1>1, <1>2, <1>3, <1>4, <1>6, <2>3
  <2> QED
    BY <2>1, <2>2, <2>3
<1> QED
  BY <1>5, <1>6 DEF before, branches_before, IsStrictPrefix

LEMMA BelowExcludesBefore ==
    ASSUME NEW p \in Paths, NEW q \in Paths, IsPrefix(p, q)
    PROVE  ~ before(q, p)
<1>1. Len(p) \in Nat /\ Len(q) \in Nat
  BY DEF Paths
<1>2. \A i \in 1..Len(p) : p[i] \in Nat
  BY ElementOfSeq DEF Paths
<1>3. Len(p) <= Len(q) /\ \A i \in 1..Len(p) : p[i] = q[i]
  BY PrefixElementwise
<1>4. ~ IsStrictPrefix(q, p)
  <2> SUFFICES ASSUME IsPrefix(q, p) PROVE p = q
    BY DEF IsStrictPrefix
  <2>1. Len(p) = Len(q)
    BY <1>1, <1>3, PrefixElementwise
  <2> QED
    BY <1>3, <2>1, SeqEqual DEF Paths
<1>5. ~ branches_before(q, p)
  BY <1>1, <1>2, <1>3 DEF branches_before
<1> QED
  BY <1>4, <1>5 DEF before
-----------------------------------------------------------------------------
(* Nodes and their children. *)

Comparable ==
    /\ IsDocument(actual) /\ IsDocument(expected)
    /\ \A p \in DOMAIN expected : expected[p].type = "number" => expected[p].value # NaN

\* What one call decides is what a node of expected.json asks for by itself.
LEMMA MismatchIsDisagreement ==
    ASSUME Comparable, NEW p \in DOMAIN expected
    PROVE  mismatch(p) <=> ~ agrees(p)
<1>1. IsDocument(actual) /\ IsDocument(expected)
  BY DEF Comparable
<1>2. expected[p] \in Nodes /\ (expected[p].type = "number" => expected[p].value # NaN)
  BY <1>1 DEF Comparable, IsDocument
<1>3. CASE p \notin DOMAIN actual
  BY <1>3 DEF mismatch, agrees
<1>4. CASE p \in DOMAIN actual
  <2> DEFINE a == actual[p]
             e == expected[p]
  <2>1. a \in Nodes
    BY <1>1, <1>4 DEF IsDocument
  <2>2. CASE a.type = "number" /\ e.type = "number"
    <3>1. a.value \in Int \cup {NaN} /\ e.value \in Int
      BY <1>2, <2>1, <2>2 DEF Nodes
    <3>2. numbers_differ(a.value, e.value) <=> ~ close(a.value, e.value)
      BY <3>1, SubsetAssumption DEF numbers_differ, close
    <3> QED
      BY <1>4, <2>2, <3>2 DEF mismatch, agrees
  <2>3. CASE ~ (a.type = "number" /\ e.type = "number")
    <3>1. e.type \in {"number", "string", "null", "object", "array"}
      BY <1>2 DEF Nodes
    <3> QED
      BY <1>4, <2>3, <3>1 DEF mismatch, agrees, sizes_differ
  <2> QED
    BY <2>2, <2>3
<1> QED
  BY <1>3, <1>4

LEMMA ChildrenAreNodes ==
    ASSUME NEW document, IsDocument(document), NEW p \in DOMAIN document
    PROVE  /\ children(document, p) \in Seq(DOMAIN document)
           /\ Len(children(document, p)) = Len(document[p].keys)
           /\ Len(document[p].keys) \in Nat
<1> DEFINE keys == document[p].keys
           n == Len(keys)
           below == children(document, p)
<1>1. keys \in Paths /\ n \in Nat
  BY DEF IsDocument, Nodes, Paths
<1>2. below = [i \in 1..n |-> Append(p, keys[i])]
  BY DEF children
<1>3. \A i \in 1..n : Append(p, keys[i]) \in DOMAIN document
  BY DEF IsDocument
<1> HIDE DEF keys, n, below
<1>4. below \in [1..n -> DOMAIN document]
  BY <1>2, <1>3
<1>5. below \in Seq(DOMAIN document)
  BY <1>1, <1>4, SeqDef
<1>6. DOMAIN below = 1..n
  BY <1>2
<1>7. Len(below) = n
  BY <1>1, <1>5, <1>6, LenProperties
<1> QED
  BY <1>1, <1>5, <1>7 DEF keys, n, below

LEMMA ChildIsBelow ==
    ASSUME NEW document, IsDocument(document), NEW p \in DOMAIN document,
           NEW i \in 1..Len(document[p].keys),
           NEW c, c = children(document, p)[i]
    PROVE  /\ c \in Paths
           /\ Len(c) = Len(p) + 1
           /\ \A j \in 1..Len(p) : c[j] = p[j]
           /\ c[Len(p) + 1] = document[p].keys[i]
           /\ IsPrefix(p, c)
<1>1. p \in Paths /\ document[p].keys \in Paths
  BY DEF IsDocument, Nodes
<1>2. document[p].keys[i] \in Nat
  BY <1>1, ElementOfSeq DEF Paths
<1>3. c = Append(p, document[p].keys[i])
  BY DEF children
<1>4. /\ c \in Paths /\ Len(c) = Len(p) + 1
      /\ \A j \in 1..Len(p) : c[j] = p[j]
      /\ c[Len(p) + 1] = document[p].keys[i]
  BY <1>1, <1>2, <1>3, AppendProperties DEF Paths
<1>5. Len(p) \in Nat
  BY <1>1 DEF Paths
<1>6. IsPrefix(p, c)
  BY <1>1, <1>4, <1>5, PrefixElementwise
<1> QED
  BY <1>4, <1>6

\* A node strictly below another is below one of its children.
LEMMA BelowAChild ==
    ASSUME NEW document, IsDocument(document), NEW p \in DOMAIN document,
           NEW q \in DOMAIN document, IsStrictPrefix(p, q)
    PROVE  \E i \in 1..Len(children(document, p)) : IsPrefix(children(document, p)[i], q)
<1>1. PICK i \in 1..Len(document[p].keys) : q[Len(p) + 1] = document[p].keys[i]
  BY DEF IsDocument
<1> DEFINE c == children(document, p)[i]
<1>2. p \in Paths /\ q \in Paths /\ c \in Paths
  BY ChildIsBelow DEF IsDocument
<1>3. Len(p) \in Nat /\ Len(q) \in Nat
  BY <1>2 DEF Paths
<1>4. Len(p) <= Len(q) /\ \A j \in 1..Len(p) : p[j] = q[j]
  BY <1>2, PrefixElementwise DEF IsStrictPrefix
<1>5. Len(p) # Len(q)
  BY <1>2, <1>4, SeqEqual DEF Paths, IsStrictPrefix
<1>6. Len(c) = Len(p) + 1 /\ (\A j \in 1..Len(p) : c[j] = p[j]) /\ c[Len(p) + 1] = q[Len(p) + 1]
  BY <1>1, ChildIsBelow
<1> HIDE DEF c
<1>7. Len(c) <= Len(q) /\ \A j \in 1..Len(c) : c[j] = q[j]
  BY <1>3, <1>4, <1>5, <1>6
<1>8. IsPrefix(c, q)
  BY <1>2, <1>7, PrefixElementwise
<1> QED
  BY <1>8, ChildrenAreNodes DEF c

\* The children of a node branch off one before the other.
LEMMA ChildrenAreOrdered ==
    ASSUME NEW document, IsDocument(document), NEW p \in DOMAIN document,
           NEW i \in 1..Len(document[p].keys), NEW j \in 1..Len(document[p].keys), i < j
    PROVE  branches_before(children(document, p)[i], children(document, p)[j])
<1>1. document[p].keys[i] < document[p].keys[j]
  BY DEF IsDocument
<1>2. Len(p) \in Nat
  BY DEF IsDocument, Paths
<1> DEFINE c == children(document, p)[i]
           d == children(document, p)[j]
<1>3. /\ Len(c) = Len(p) + 1 /\ Len(d) = Len(p) + 1
      /\ \A k \in 1..Len(p) : c[k] = p[k] /\ d[k] = p[k]
      /\ c[Len(p) + 1] = document[p].keys[i] /\ d[Len(p) + 1] = document[p].keys[j]
  BY ChildIsBelow
<1> HIDE DEF c, d
<1>4. branches_before(c, d)
  <2>1. Len(p) + 1 \in 1..Len(c) /\ Len(p) + 1 <= Len(d) /\ c[Len(p) + 1] < d[Len(p) + 1]
    BY <1>1, <1>2, <1>3
  <2>2. \A k \in 1..((Len(p) + 1) - 1) : c[k] = d[k]
    BY <1>2, <1>3
  <2> QED
    BY <2>1, <2>2 DEF branches_before
<1> QED
  BY <1>4 DEF c, d
-----------------------------------------------------------------------------
(* The comparison. *)

\* Every node agrees, or is still to come below one of the calls that remain; and
\* these are for disjoint parts of the document, in the order of the document.
SearchInv ==
    /\ Comparable
    /\ calls \in Seq(DOMAIN expected)
    /\ verdict \in {"open", "contained", "different"}
    /\ verdict = "open" =>
        /\ \A q \in DOMAIN expected : agrees(q) \/ \E i \in 1..Len(calls) : IsPrefix(calls[i], q)
        /\ \A i, j \in 1..Len(calls) : i < j => branches_before(calls[i], calls[j])
    /\ ContainedIffEveryNodeAgrees
    /\ verdict = "different" => mismatch_path \in DOMAIN expected
    /\ MismatchPathIsFirst

LEMMA InitInv == Init => SearchInv
<1> SUFFICES ASSUME Init PROVE SearchInv
  OBVIOUS
<1>1. PICK pair \in Documents : actual = pair[1] /\ expected = pair[2]
  BY DEF Init
<1>2. Comparable
  BY <1>1, SubsetAssumption DEF Comparable
<1>3. IsDocument(expected)
  BY <1>2 DEF Comparable
<1>4. calls = <<Root>> /\ Root \in DOMAIN expected
  BY <1>3 DEF Init, IsDocument
<1>5. Len(calls) = 1 /\ calls[1] = Root /\ calls \in Seq(DOMAIN expected)
  BY <1>4
<1>6. \A q \in DOMAIN expected : IsPrefix(Root, q)
  BY <1>3, PrefixElementwise, EmptySeq DEF IsDocument, Paths, Root
<1> QED
  BY <1>2, <1>5, <1>6 DEF Init, SearchInv, ContainedIffEveryNodeAgrees, MismatchPathIsFirst

LEMMA UnchangedInv == SearchInv /\ UNCHANGED vars => SearchInv'
<1> SUFFICES ASSUME SearchInv, UNCHANGED vars PROVE SearchInv'
  OBVIOUS
<1>1. UNCHANGED actual /\ UNCHANGED expected /\ UNCHANGED calls /\ UNCHANGED verdict /\ UNCHANGED mismatch_path
  BY DEF vars
<1>2. Comparable'
  BY <1>1 DEF SearchInv, Comparable
<1>3. \A q : agrees(q)' <=> agrees(q)
  BY <1>1 DEF agrees
<1> QED
  BY <1>1, <1>2, <1>3 DEF SearchInv, ContainedIffEveryNodeAgrees, MismatchPathIsFirst

\* A call that returns false does so at the first disagreement.
LEMMA MismatchKeepsInv ==
    ASSUME SearchInv, compare_json_recursive, mismatch(Head(calls))
    PROVE  SearchInv'
<1> DEFINE p == Head(calls)
<1>1. /\ verdict = "open" /\ verdict' = "different" /\ mismatch_path' = p /\ calls # <<>>
      /\ actual' = actual /\ expected' = expected /\ calls' = calls
  BY DEF compare_json_recursive
<1>2. Comparable' /\ Comparable
  BY <1>1 DEF SearchInv, Comparable
<1>3. \A q : agrees(q)' <=> agrees(q)
  BY <1>1 DEF agrees
<1>4. Len(calls) \in Nat /\ Len(calls) >= 1 /\ p = calls[1] /\ p \in DOMAIN expected
  BY <1>1 DEF SearchInv
<1>5. ~ agrees(p)
  BY <1>2, <1>4, MismatchIsDisagreement
<1>6. ASSUME NEW q \in DOMAIN expected, before(q, p) PROVE agrees(q)
  <2> SUFFICES ASSUME NEW i \in 1..Len(calls), IsPrefix(calls[i], q) PROVE FALSE
    BY <1>1 DEF SearchInv
  <2>1. calls[i] \in DOMAIN expected
    BY ElementOfSeq DEF SearchInv
  <2>2. calls[i] \in Paths /\ p \in Paths /\ q \in Paths
    BY <1>2, <1>4, <2>1 DEF Comparable, IsDocument
  <2>3. CASE i = 1
    BY <1>4, <1>6, <2>2, <2>3, BelowExcludesBefore
  <2>4. CASE i # 1
    <3>1. branches_before(p, calls[i])
      BY <1>1, <1>4, <2>4 DEF SearchInv
    <3>2. branches_before(p, q)
      BY <2>2, <3>1, BranchBeforeBelow
    <3> QED
      BY <1>6, <2>2, <3>2, BranchExcludesAfter
  <2> QED
    BY <2>3, <2>4
<1>7. MismatchPathIsFirst'
  BY <1>1, <1>3, <1>5, <1>6 DEF MismatchPathIsFirst, before, branches_before
<1>8. ContainedIffEveryNodeAgrees'
  BY <1>1, <1>3, <1>4, <1>5 DEF ContainedIffEveryNodeAgrees
<1> QED
  BY <1>1, <1>2, <1>4, <1>7, <1>8 DEF SearchInv

\* A call that goes on leaves the calls for the children in its place.
LEMMA DescentKeepsInv ==
    ASSUME SearchInv, compare_json_recursive, ~ mismatch(Head(calls))
    PROVE  SearchInv'
<1> DEFINE p == Head(calls)
           below == children(expected, p)
           rest == Tail(calls)
           n == Len(below)
           m == Len(rest)
<1>1. /\ verdict = "open" /\ verdict' = "open" /\ mismatch_path' = mismatch_path /\ calls # <<>>
      /\ actual' = actual /\ expected' = expected /\ calls' = below \o rest
  BY DEF compare_json_recursive, then
<1>2. Comparable' /\ Comparable /\ IsDocument(expected)
  BY <1>1 DEF SearchInv, Comparable
<1>3. \A q : agrees(q)' <=> agrees(q)
  BY <1>1 DEF agrees
<1>4. calls \in Seq(DOMAIN expected)
  BY DEF SearchInv
<1>5. /\ p \in DOMAIN expected /\ p = calls[1] /\ rest \in Seq(DOMAIN expected)
      /\ m \in Nat /\ Len(calls) = m + 1 /\ \A i \in 1..m : rest[i] = calls[i + 1]
  BY <1>1, <1>4, HeadTailProperties
<1>6. below \in Seq(DOMAIN expected) /\ n = Len(expected[p].keys) /\ n \in Nat
  BY <1>2, <1>5, ChildrenAreNodes
<1>7. /\ calls' \in Seq(DOMAIN expected) /\ Len(calls') = n + m
      /\ \A i \in 1..n : calls'[i] = below[i]
      /\ \A i \in (n + 1)..(n + m) : calls'[i] = rest[i - n]
  BY <1>1, <1>5, <1>6, ConcatProperties
<1>8. \A q \in DOMAIN expected : q \in Paths
  BY <1>2 DEF IsDocument
<1>9. agrees(p)
  BY <1>2, <1>5, MismatchIsDisagreement
<1>10. ASSUME NEW q \in DOMAIN expected
       PROVE  agrees(q) \/ \E i \in 1..Len(calls') : IsPrefix(calls'[i], q)
  <2> SUFFICES ASSUME ~ agrees(q) PROVE \E i \in 1..Len(calls') : IsPrefix(calls'[i], q)
    OBVIOUS
  <2>1. PICK i \in 1..Len(calls) : IsPrefix(calls[i], q)
    BY <1>1 DEF SearchInv
  <2>2. CASE i = 1
    <3>1. IsStrictPrefix(p, q)
      BY <1>5, <1>9, <2>1, <2>2 DEF IsStrictPrefix
    <3>2. PICK j \in 1..n : IsPrefix(below[j], q)
      BY <1>2, <1>5, <3>1, BelowAChild
    <3>3. j \in 1..Len(calls') /\ calls'[j] = below[j]
      BY <1>5, <1>6, <1>7
    <3> QED
      BY <3>2, <3>3
  <2>3. CASE i # 1
    <3>1. i - 1 \in 1..m /\ calls[i] = rest[i - 1]
      BY <1>5, <2>3
    <3>2. n + (i - 1) \in (n + 1)..(n + m) /\ (n + (i - 1)) - n = i - 1
      BY <1>5, <1>6, <3>1
    <3>3. calls'[n + (i - 1)] = calls[i] /\ n + (i - 1) \in 1..Len(calls')
      BY <1>5, <1>6, <1>7, <3>1, <3>2
    <3> QED
      BY <2>1, <3>3
  <2> QED
    BY <2>2, <2>3
<1>11. ASSUME NEW i \in 1..Len(calls'), NEW j \in 1..Len(calls'), i < j
       PROVE  branches_before(calls'[i], calls'[j])
  <2>1. CASE j <= n
    <3>1. i \in 1..n /\ j \in 1..n
      BY <1>5, <1>6, <1>7, <1>11, <2>1
    <3> QED
      BY <1>2, <1>5, <1>6, <1>7, <1>11, <3>1, ChildrenAreOrdered
  <2>2. CASE n < i
    <3>1. /\ i - n \in 1..m /\ j - n \in 1..m /\ i - n < j - n
          /\ i \in (n + 1)..(n + m) /\ j \in (n + 1)..(n + m)
      BY <1>5, <1>6, <1>7, <1>11, <2>2
    <3>2. calls'[i] = calls[(i - n) + 1] /\ calls'[j] = calls[(j - n) + 1]
      BY <1>5, <1>7, <3>1
    <3>3. (i - n) + 1 \in 1..Len(calls) /\ (j - n) + 1 \in 1..Len(calls) /\ (i - n) + 1 < (j - n) + 1
      BY <1>5, <3>1
    <3>4. \A a, b \in 1..Len(calls) : a < b => branches_before(calls[a], calls[b])
      BY <1>1 DEF SearchInv
    <3> QED
      BY <3>2, <3>3, <3>4
  <2>3. CASE i <= n /\ n < j
    <3>1. i \in 1..n /\ j \in (n + 1)..(n + m) /\ j - n \in 1..m
      BY <1>5, <1>6, <1>7, <1>11, <2>3
    <3>2. calls'[i] = below[i] /\ calls'[j] = calls[(j - n) + 1]
      BY <1>5, <1>7, <3>1
    <3>3. (j - n) + 1 \in 1..Len(calls) /\ 1 \in 1..Len(calls) /\ 1 < (j - n) + 1
      BY <1>5, <3>1
    <3>4. branches_before(p, calls'[j])
      BY <1>1, <1>5, <3>2, <3>3 DEF SearchInv
    <3>5. IsPrefix(p, below[i])
      BY <1>2, <1>5, <1>6, <3>1, ChildIsBelow
    <3>6. p \in Paths /\ below[i] \in Paths /\ calls'[j] \in Paths
      BY <1>5, <1>6, <1>7, <1>8, <3>1, ElementOfSeq
    <3> QED
      BY <3>2, <3>4, <3>5, <3>6, BelowBranchesBefore
  <2> QED
    BY <1>6, <1>7, <1>11, <2>1, <2>2, <2>3
<1> HIDE DEF p, below, rest, n, m
<1> QED
  BY <1>1, <1>2, <1>3, <1>7, <1>10, <1>11
     DEF SearchInv, ContainedIffEveryNodeAgrees, MismatchPathIsFirst

LEMMA StepInv == SearchInv /\ [Next]_vars => SearchInv'
<1> SUFFICES ASSUME SearchInv, [Next]_vars PROVE SearchInv'
  OBVIOUS
<1>1. CASE compare_json_recursive
  BY <1>1, MismatchKeepsInv, DescentKeepsInv
<1>2. CASE return_true
  <2>1. /\ verdict = "open" /\ verdict' = "contained" /\ calls = <<>>
        /\ actual' = actual /\ expected' = expected /\ calls' = calls /\ mismatch_path' = mismatch_path
    BY <1>2 DEF return_true
  <2>2. Comparable'
    BY <2>1 DEF SearchInv, Comparable
  <2>3. \A q : agrees(q)' <=> agrees(q)
    BY <2>1 DEF agrees
  <2>4. \A q \in DOMAIN expected : agrees(q)
    BY <2>1 DEF SearchInv
  <2> QED
    BY <2>1, <2>2, <2>3, <2>4 DEF SearchInv, ContainedIffEveryNodeAgrees, MismatchPathIsFirst
<1>3. CASE UNCHANGED vars
  BY <1>3, UnchangedInv
<1> QED
  BY <1>1, <1>2, <1>3 DEF Next

LEMMA SearchInductive == Spec => []SearchInv
BY InitInv, StepInv, PTL DEF Spec

(***************************************************************************)
(* For any documents, nested to any depth, and any tolerance: the           *)
(* comparison succeeds exactly if every node of expected.json agrees.       *)
(***************************************************************************)
THEOREM SubsetIsNodewise == Spec => []ContainedIffEveryNodeAgrees
<1>1. SearchInv => ContainedIffEveryNodeAgrees
  BY DEF SearchInv
<1> QED
  BY <1>1, SearchInductive, PTL

(***************************************************************************)
(* For any documents and any tolerance the path of a difference is the      *)
(* first disagreement in the order of expected.json: the calls that remain  *)
(* are for disjoint parts of it, in that order, see SearchInv.              *)
(***************************************************************************)
THEOREM FirstMismatchIsShown == Spec => []MismatchPathIsFirst
<1>1. SearchInv => MismatchPathIsFirst
  BY DEF SearchInv
<1> QED
  BY <1>1, SearchInductive, PTL
=============================================================================
