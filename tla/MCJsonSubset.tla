------------------------------ MODULE MCJsonSubset ------------------------------
(* All pairs of documents of depth 1 over five leaves, and all pairs of      *)
(* objects whose two fields are a leaf or a document of depth 1 over fewer.  *)
EXTENDS JsonSubset, TLC

number(v) == leaf("number", v)
null == leaf("null", 0)
text(v) == leaf("string", v)

Leaf(node) == Root :> node

\* The documents of several fields or elements, as one with a node at the top.
Compound(type, parts) ==
    LET below(k) == {<<k>> \o p : p \in DOMAIN parts[k]}
        paths == UNION {below(k) : k \in DOMAIN parts}
    IN  Leaf(compound(type, SetToSortSeq(DOMAIN parts, <))) @@ [q \in paths |-> parts[q[1]][Tail(q)]]

Objects(keys, documents) ==
    {Compound("object", parts) : parts \in UNION {[some -> documents] : some \in SUBSET keys}}

Arrays(documents) ==
    UNION {{Compound("array", parts) : parts \in [0..(n - 1) -> documents]} : n \in 0..2}

Leaves(nodes) == {Leaf(node) : node \in nodes}
Flat(leaves) == leaves \cup Objects({0, 1}, leaves) \cup Arrays(leaves)

Actual == Flat(Leaves({number(0), number(2), number(NaN), null}))
Expected == Flat(Leaves({number(0), number(1), number(3), null, text(0)}))

Few == Leaves({number(0), null})
Nested == Objects({0, 1}, Few \cup Objects({0, 1}, {Leaf(number(0))}) \cup Arrays(Few))

FlatAndNested == (Actual \X Expected) \cup (Nested \X Nested)
=============================================================================
