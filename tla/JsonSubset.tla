------------------------------ MODULE JsonSubset ------------------------------
(***************************************************************************)
(* json_contains_expected_subset (src/src/core/json_utils.cpp): whether an  *)
(* event has everything expected.json names, and where it first has not.    *)
(* A document is a tree: a function from the paths of its nodes to what     *)
(* they are. One step is one call of compare_json_recursive; the calls that *)
(* still have to be made, in their order, stand for the recursion.          *)
(***************************************************************************)
EXTENDS Integers, Sequences, SequencesExt

CONSTANTS
    Documents,         \* the pairs <<actual, expected>> that may be compared
    NaN,               \* a number that is not a number; no JSON text holds one
    numeric_tolerance  \* in the unit of the numbers

\* Paths are sequences of natural numbers: positions in an array, or keys of an
\* object.
Paths == Seq(Nat)
Root == <<>>

\* The keys of a node are in the order in which a loop meets them; nlohmann::json
\* keeps those of an object sorted.
Nodes == [ type : {"number", "string", "null", "object", "array"},
           value : Int \cup {NaN}, keys : Paths ]

leaf(type, value) == [type |-> type, value |-> value, keys |-> <<>>]
compound(type, keys) == [type |-> type, value |-> 0, keys |-> keys]

\* The paths of the children of a node, in their order.
children(document, p) ==
    [i \in 1..Len(document[p].keys) |-> Append(p, document[p].keys[i])]

IsDocument(document) ==
    /\ DOMAIN document \subseteq Paths
    /\ Root \in DOMAIN document
    /\ \A p \in DOMAIN document :
        /\ document[p] \in Nodes
        /\ \A i, j \in 1..Len(document[p].keys) : i < j => document[p].keys[i] < document[p].keys[j]
        /\ document[p].type = "array" => \A i \in 1..Len(document[p].keys) : document[p].keys[i] = i - 1
        \* What is below a node is below one of its children, and these are there.
        /\ \A i \in 1..Len(document[p].keys) : Append(p, document[p].keys[i]) \in DOMAIN document
        /\ \A q \in DOMAIN document :
            IsStrictPrefix(p, q) => \E i \in 1..Len(document[p].keys) : q[Len(p) + 1] = document[p].keys[i]

ASSUME SubsetAssumption ==
    /\ numeric_tolerance \in Nat
    /\ NaN \notin Int
    /\ \A pair \in Documents :
        /\ IsDocument(pair[1]) /\ IsDocument(pair[2])
        /\ \A p \in DOMAIN pair[2] : pair[2][p].type = "number" => pair[2][p].value # NaN

VARIABLES
    actual, expected,
    calls,         \* the paths of the calls that remain
    verdict,       \* what was returned, or "open"
    mismatch_path
vars == <<actual, expected, calls, verdict, mismatch_path>>

Init ==
    /\ \E pair \in Documents : actual = pair[1] /\ expected = pair[2]
    /\ calls = <<Root>>
    /\ verdict = "open"
    /\ mismatch_path = Root

\* std::abs(actual - expected) > numeric_tolerance is false for a NaN.
numbers_differ(a, e) ==
    a # NaN /\ e # NaN /\ (a - e > numeric_tolerance \/ e - a > numeric_tolerance)

sizes_differ_mutant(a, e) == Len(a.keys) < Len(e.keys)
sizes_differ(a, e) == Len(a.keys) # Len(e.keys)

\* What makes the call for path p return false by itself.
mismatch(p) ==
    \/ p \notin DOMAIN actual
    \/ LET a == actual[p]
           e == expected[p]
       IN
       IF a.type = "number" /\ e.type = "number" THEN numbers_differ(a.value, e.value)
       ELSE \/ a.type # e.type
            \/ e.type = "array" /\ sizes_differ(a, e)
            \/ e.type \notin {"array", "object"} /\ a.value # e.value

\* A call for a node makes those for its children before its caller goes on.
then_mutant(below, rest) == rest \o below
then(below, rest) == below \o rest

compare_json_recursive ==
    /\ verdict = "open"
    /\ calls # <<>>
    /\ LET p == Head(calls) IN
       IF mismatch(p)
       THEN /\ verdict' = "different"
            /\ mismatch_path' = p
            /\ UNCHANGED calls
       ELSE /\ calls' = then(children(expected, p), Tail(calls))
            /\ UNCHANGED <<verdict, mismatch_path>>
    /\ UNCHANGED <<actual, expected>>

return_true ==
    /\ verdict = "open"
    /\ calls = <<>>
    /\ verdict' = "contained"
    /\ UNCHANGED <<actual, expected, calls, mismatch_path>>

Next == compare_json_recursive \/ return_true

Spec == Init /\ [][Next]_vars
-----------------------------------------------------------------------------
(* What must hold. *)

close(a, e) == a = NaN \/ a \in (e - numeric_tolerance)..(e + numeric_tolerance)

\* What "contains" means, node by node: an object may have more fields, an array
\* has as many elements, a number is close, anything else is equal.
agrees(p) ==
    /\ p \in DOMAIN actual
    /\ LET a == actual[p]
           e == expected[p]
       IN
       /\ a.type = e.type
       /\ e.type = "number" => close(a.value, e.value)
       /\ e.type = "array" => Len(a.keys) = Len(e.keys)
       /\ e.type \in {"string", "null"} => a.value = e.value

(***************************************************************************)
(* "Le moteur compare par sous-ensemble JSON": the comparison succeeds      *)
(* exactly if every node of expected.json is in the event at the same path  *)
(* and agrees with it, whatever the nesting of objects and arrays.          *)
(***************************************************************************)
ContainedIffEveryNodeAgrees ==
    /\ verdict = "contained" => \A p \in DOMAIN expected : agrees(p)
    /\ verdict = "different" => \E p \in DOMAIN expected : ~ agrees(p)

\* The order in which a reader meets the nodes of a document.
branches_before(p, q) ==
    \E k \in 1..Len(p) :
        /\ k <= Len(q)
        /\ \A i \in 1..(k - 1) : p[i] = q[i]
        /\ p[k] < q[k]

before(p, q) == IsStrictPrefix(p, q) \/ branches_before(p, q)

(***************************************************************************)
(* The path vision_replay prints for a difference is that of the first node *)
(* of expected.json that the event lacks or contradicts: everything before  *)
(* it agrees. (mismatch_path, set once on the way out of the recursion.)    *)
(***************************************************************************)
MismatchPathIsFirst ==
    verdict = "different" =>
        /\ ~ agrees(mismatch_path)
        /\ \A p \in DOMAIN expected : before(p, mismatch_path) => agrees(p)
=============================================================================
