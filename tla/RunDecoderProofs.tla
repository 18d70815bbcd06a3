--------------------------- MODULE RunDecoderProofs ---------------------------
(* Proofs about RunDecoder: for every schema and every sequence of tokens and      *)
(* calls, the stacks of the handlers agree with the levels of the driver, what the *)
(* handlers hold is in the hash, and the hash has the shape of the schema.         *)
(*                                                                                 *)
(* Where things are on the stacks is a matter of heights (HeightOf): every level   *)
(* has pushed a known number of items before the next.  The lemmas say what the    *)
(* token does to the levels, what the callbacks do to a tree of the right shape,   *)
(* and then, one lemma per action, that both agree again.                          *)
EXTENDS RunDecoder, FiniteSetTheorems, SequenceTheorems, WellFoundedInduction, TLAPS

----------------------------------------------------------------------------
(* The handlers: what Put, Drop and Move leave of a tree in which every node has   *)
(* its place, and the object each callback makes, part by part.                    *)

----------------------------------------------------------------------------
(* Paths.                                                                          *)

Steps == ({"field", "item", "value"} \X Nat) \cup ({"key"} \X Keys)
Paths == Seq(Steps)

\* The steps of a path are fields, items, keys and the value that waits for its key.
LEMMA StepsAre ==
    /\ \A n \in Nat : <<"field", n>> \in Steps /\ <<"item", n>> \in Steps /\ <<"value", n>> \in Steps
    /\ \A k \in Keys : <<"key", k>> \in Steps
  BY DEF Steps

\* Paths of the same steps are equal.
LEMMA SamePath ==
    ASSUME NEW p \in Paths, NEW q \in Paths, Len(p) = Len(q), \A i \in 1..Len(p) : p[i] = q[i]
    PROVE  p = q
  BY SeqEqual DEF Paths

\* A path with one more step.
LEMMA ChildIs ==
    ASSUME NEW p \in Paths, NEW kind, NEW n, <<kind, n>> \in Steps
    PROVE  /\ Child(p, kind, n) \in Paths /\ Child(p, kind, n) # <<>>
           /\ Len(p) \in Nat /\ Len(Child(p, kind, n)) = Len(p) + 1
           /\ Front(Child(p, kind, n)) = p /\ Last(Child(p, kind, n)) = <<kind, n>>
           /\ \A i \in 1..Len(p) : Child(p, kind, n)[i] = p[i]
<1> DEFINE c == Append(p, <<kind, n>>)
<1>1. /\ c \in Paths /\ Len(p) \in Nat /\ Len(c) = Len(p) + 1
      /\ \A i \in 1..Len(p) : c[i] = p[i]
      /\ c[Len(p) + 1] = <<kind, n>>
  BY AppendProperties DEF Paths
<1>2. SubSeq(c, 1, Len(p)) = p
  BY <1>1, SubSeqProperties, SamePath DEF Paths
<1>3. c # <<>>
  BY <1>1
<1> QED
  BY <1>1, <1>2, <1>3 DEF Child, Front, Last

\* The first steps of a path are a path.
LEMMA BeginningIs ==
    ASSUME NEW p \in Paths, NEW n \in Nat, n <= Len(p)
    PROVE  /\ SubSeq(p, 1, n) \in Paths /\ Len(SubSeq(p, 1, n)) = n
           /\ \A i \in 1..n : SubSeq(p, 1, n)[i] = p[i]
<1>1. Len(p) \in Nat /\ \A i \in 1..n : p[i] \in Steps
  BY LenProperties, ElementOfSeq DEF Paths
<1>2. /\ SubSeq(p, 1, n) \in Paths
      /\ Len(SubSeq(p, 1, n)) = IF 1 <= n THEN n - 1 + 1 ELSE 0
      /\ \A i \in 1..(n - 1 + 1) : SubSeq(p, 1, n)[i] = p[1 + i - 1]
  BY <1>1, SubSeqProperties DEF Paths
<1> QED
  BY <1>2

\* A path is its front and its last step.
LEMMA FrontIs ==
    ASSUME NEW p \in Paths, p # <<>>
    PROVE  /\ Front(p) \in Paths /\ Len(p) \in Nat \ {0} /\ Len(Front(p)) = Len(p) - 1
           /\ Last(p) \in Steps /\ p = Append(Front(p), Last(p))
           /\ \A i \in 1..(Len(p) - 1) : Front(p)[i] = p[i]
           /\ p[Len(p)] = Last(p)
<1>1. Len(p) \in Nat \ {0}
  BY EmptySeq, LenProperties DEF Paths
<1>2. /\ Front(p) \in Paths /\ Len(Front(p)) = Len(p) - 1
      /\ \A i \in 1..(Len(p) - 1) : Front(p)[i] = p[i]
  <2>1. PICK n \in Nat : n = Len(p) - 1
    BY <1>1
  <2>2. SubSeq(p, 1, n) \in Paths /\ Len(SubSeq(p, 1, n)) = n /\ \A i \in 1..n : SubSeq(p, 1, n)[i] = p[i]
    BY <1>1, <2>1, BeginningIs
  <2> QED
    BY <2>1, <2>2 DEF Front
<1>3. Last(p) \in Steps
  BY <1>1, ElementOfSeq DEF Paths, Last
<1>4. p = Append(Front(p), Last(p))
  <2> DEFINE q == Append(Front(p), Last(p))
  <2>1. /\ q \in Paths /\ Len(q) = Len(Front(p)) + 1
        /\ \A i \in 1..Len(Front(p)) : q[i] = Front(p)[i]
        /\ q[Len(Front(p)) + 1] = Last(p)
    BY <1>2, <1>3, AppendProperties DEF Paths
  <2> HIDE DEF q
  <2>2. Len(q) = Len(p) /\ q[Len(p)] = p[Len(p)]
    BY <1>1, <1>2, <2>1 DEF Last
  <2>3. \A i \in 1..Len(p) : p[i] = q[i]
    BY <1>1, <1>2, <2>1, <2>2
  <2>4. p = q
    BY <2>1, <2>2, <2>3, SamePath
  <2> QED
    BY <2>4 DEF q
<1> QED
  BY <1>1, <1>2, <1>3, <1>4 DEF Last

\* A step is a pair of its kind and its name.
LEMMA StepIs ==
    ASSUME NEW s \in Steps
    PROVE  s = <<s[1], s[2]>> /\ s[1] \in {"field", "item", "value", "key"}
  BY DEF Steps

\* A path is the child of what is in front of its last step.
LEMMA IsChild ==
    ASSUME NEW p \in Paths, p # <<>>
    PROVE  p = Child(Front(p), Last(p)[1], Last(p)[2]) /\ Last(p) = <<Last(p)[1], Last(p)[2]>>
  BY FrontIs, StepIs DEF Child

\* A path begins with another if the steps of that are its first.
LEMMA PrefixIs ==
    ASSUME NEW p \in Paths, NEW q \in Paths
    PROVE  /\ Len(p) \in Nat /\ Len(q) \in Nat
           /\ IsPrefix(p, q) <=> Len(p) <= Len(q) /\ \A i \in 1..Len(p) : p[i] = q[i]
<1>1. Len(p) \in Nat /\ Len(q) \in Nat
  BY LenProperties DEF Paths
<1>2. SubSeq(p, 1, Len(p)) = p
  BY <1>1, SubSeqProperties, SamePath DEF Paths
<1>3. ASSUME Len(p) <= Len(q)
      PROVE  p = SubSeq(q, 1, Len(p)) <=> \A i \in 1..Len(p) : p[i] = q[i]
  <2>1. /\ SubSeq(q, 1, Len(p)) \in Paths /\ Len(SubSeq(q, 1, Len(p))) = Len(p)
        /\ \A i \in 1..Len(p) : SubSeq(q, 1, Len(p))[i] = q[i]
    BY <1>1, <1>3, SubSeqProperties DEF Paths
  <2> QED
    BY <2>1, SamePath
<1> QED
  BY <1>1, <1>2, <1>3 DEF IsPrefix

\* What a path begins with is itself or what its front begins with.
LEMMA PrefixOfFront ==
    ASSUME NEW p \in Paths, NEW q \in Paths, q # <<>>
    PROVE  IsPrefix(p, q) <=> p = q \/ IsPrefix(p, Front(q))
<1>1. /\ Front(q) \in Paths /\ Len(q) \in Nat \ {0} /\ Len(Front(q)) = Len(q) - 1
      /\ \A i \in 1..(Len(q) - 1) : Front(q)[i] = q[i]
  BY FrontIs
<1>2. Len(p) \in Nat
  BY PrefixIs
<1>3. IsPrefix(p, q) <=> Len(p) <= Len(q) /\ \A i \in 1..Len(p) : p[i] = q[i]
  BY PrefixIs
<1>4. IsPrefix(p, Front(q)) <=> Len(p) <= Len(q) - 1 /\ \A i \in 1..Len(p) : p[i] = Front(q)[i]
  BY <1>1, PrefixIs
<1>5. Len(p) = Len(q) => (IsPrefix(p, q) <=> p = q)
  BY <1>3, <1>1, SamePath
<1>6. Len(p) <= Len(q) - 1 => (IsPrefix(p, q) <=> IsPrefix(p, Front(q)))
  BY <1>1, <1>2, <1>3, <1>4
<1> QED
  BY <1>1, <1>2, <1>3, <1>4, <1>5, <1>6

\* Every path begins with itself.
LEMMA PrefixSelf == \A p \in Paths : IsPrefix(p, p)
  BY PrefixIs

\* Beginning with is transitive.
LEMMA PrefixTrans ==
    ASSUME NEW p \in Paths, NEW q \in Paths, NEW r \in Paths, IsPrefix(p, q), IsPrefix(q, r)
    PROVE  IsPrefix(p, r)
<1>1. Len(p) \in Nat /\ Len(q) \in Nat /\ Len(p) <= Len(q) /\ \A i \in 1..Len(p) : p[i] = q[i]
  BY PrefixIs
<1>2. Len(r) \in Nat /\ Len(q) <= Len(r) /\ \A i \in 1..Len(q) : q[i] = r[i]
  BY PrefixIs
<1>3. Len(p) <= Len(r) /\ \A i \in 1..Len(p) : p[i] = r[i]
  BY <1>1, <1>2
<1> QED
  BY <1>3, PrefixIs

\* A path and its child.
LEMMA PrefixOfChild ==
    ASSUME NEW p \in Paths, NEW q \in Paths, NEW kind, NEW n, <<kind, n>> \in Steps
    PROVE  /\ IsPrefix(p, Child(q, kind, n)) <=> p = Child(q, kind, n) \/ IsPrefix(p, q)
           /\ IsPrefix(q, Child(q, kind, n)) /\ ~IsPrefix(Child(q, kind, n), q)
<1>1. /\ Child(q, kind, n) \in Paths /\ Child(q, kind, n) # <<>>
      /\ Front(Child(q, kind, n)) = q
  BY ChildIs
<1>2. ~IsPrefix(Child(q, kind, n), q)
  BY ChildIs, PrefixIs, <1>1
<1> QED
  BY <1>1, <1>2, PrefixOfFront, PrefixSelf

----------------------------------------------------------------------------
(* The tree.                                                                       *)

ElementOf(t, path) ==   \* of the array or map at the path
    LET f == Schema[t[Front(path)].type][Last(path)[2]].message
    IN  IF t[path].kind = "map" THEN Schema[f][ValueField].message ELSE f

FieldFits(node, m, f) ==
    IF Schema[m][f].repeated
    THEN node.kind = IF Traits[m][f].map THEN "map" ELSE "array"
    ELSE Fits(node, Schema[m][f].message)

\* The node may be the child of path at a step.
Placed(t, path, at, node) ==
    LET up == t[path]
    IN  \/ /\ up.kind = "hash" /\ at[1] = "field" /\ at[2] \in FieldsOf(up.type)
           /\ FieldFits(node, up.type, at[2])
        \/ up.kind = "array" /\ at[1] = "item" /\ Fits(node, ElementOf(t, path))
        \/ /\ up.kind = "map" /\ at[1] \in {"key", "value"}
           /\ Fits(node, ElementOf(t, path)) \/ Absent(node, ElementOf(t, path))

\* The children of an array are its elements, without holes.
Dense(t, path) ==
    /\ IsFiniteSet(Items(t, path))
    /\ Items(t, path) = {Child(path, "item", j) : j \in 1..Cardinality(Items(t, path))}

IsTree(t) == DOMAIN t \subseteq Paths /\ \A p \in DOMAIN t : t[p] \in Nodes

Shaped(t) ==
    /\ IsTree(t)
    /\ <<>> \in DOMAIN t => t[<<>>].kind = "hash"
    /\ \A p \in DOMAIN t : p # <<>> =>
          Front(p) \in DOMAIN t /\ Placed(t, Front(p), Last(p), t[p])
    /\ \A p \in DOMAIN t : t[p].kind = "array" => Dense(t, p)

\* The nodes directly in a node.
LEMMA ItemsAre ==
    ASSUME NEW t, DOMAIN t \subseteq Paths, NEW p \in Paths
    PROVE  \A x : x \in Items(t, p) <=> x \in DOMAIN t /\ x # <<>> /\ Front(x) = p
<1>1. ASSUME NEW x \in DOMAIN t
      PROVE  Len(x) = Len(p) + 1 /\ IsPrefix(p, x) <=> x # <<>> /\ Front(x) = p
  <2>1. x \in Paths /\ Len(x) \in Nat /\ Len(p) \in Nat
    BY PrefixIs
  <2>2. CASE x = <<>>
    BY <2>1, <2>2
  <2>3. CASE x # <<>>
    <3>1. Front(x) \in Paths /\ Len(Front(x)) = Len(x) - 1
      BY <2>1, <2>3, FrontIs
    <3>2. IsPrefix(p, x) <=> p = x \/ IsPrefix(p, Front(x))
      BY <2>1, <2>3, PrefixOfFront
    <3>3. Len(p) = Len(Front(x)) => (IsPrefix(p, Front(x)) <=> p = Front(x))
      <4>1. IsPrefix(p, Front(x)) <=> Len(p) <= Len(Front(x)) /\ \A i \in 1..Len(p) : p[i] = Front(x)[i]
        BY <3>1, PrefixIs
      <4>2. Len(p) = Len(Front(x)) /\ (\A i \in 1..Len(p) : p[i] = Front(x)[i]) => p = Front(x)
        BY <3>1, SamePath
      <4> QED
        BY <2>1, <4>1, <4>2
    <3> QED
      BY <2>1, <2>3, <3>1, <3>2, <3>3
  <2> QED
    BY <2>2, <2>3
<1> QED
  BY <1>1 DEF Items

\* A list with the items 1..n is dense, and has n of them.
LEMMA DenseFrom ==
    ASSUME NEW t, NEW p \in Paths, NEW n \in Nat, Items(t, p) = {Child(p, "item", j) : j \in 1..n}
    PROVE  Dense(t, p) /\ Cardinality(Items(t, p)) = n
<1> DEFINE I == {Child(p, "item", j) : j \in 1..n}
           b == [j \in 1..n |-> Child(p, "item", j)]
<1>1. \A j \in 1..n : Last(Child(p, "item", j)) = <<"item", j>>
  <2>1. ASSUME NEW j \in 1..n PROVE Last(Child(p, "item", j)) = <<"item", j>>
    <3>1. j \in Nat
      OBVIOUS
    <3>2. <<"item", j>> \in Steps
      BY <3>1, StepsAre
    <3> QED
      BY <3>2, ChildIs
  <2> QED
    BY <2>1
<1>2. \A j, k \in 1..n : Child(p, "item", j) = Child(p, "item", k) => j = k
  <2>1. ASSUME NEW j \in 1..n, NEW k \in 1..n, Child(p, "item", j) = Child(p, "item", k) PROVE j = k
    <3>1. <<"item", j>> = <<"item", k>>
      BY <1>1, <2>1
    <3> QED
      BY <3>1
  <2> QED
    BY <2>1
<1>3. b \in Bijection(1..n, I)
  BY <1>2 DEF Bijection, Injection, Surjection, IsInjective
<1>4. IsFiniteSet(I) /\ Cardinality(I) = n
  BY <1>3, FS_NatBijection, FS_CountingElements DEF ExistsBijection
<1> QED
  BY <1>4 DEF Dense

\* Whether a node may be the child of a path depends on what is at the path, and on the
\* hash that holds it.
LEMMA PlacedSame ==
    ASSUME NEW t, NEW u, NEW p, NEW at, NEW node,
           t[p].kind \in {"hash", "array", "map"},
           u[p].kind = t[p].kind, u[p].kind = "hash" => u[p].type = t[p].type,
           u[p].kind # "hash" => u[Front(p)].type = t[Front(p)].type
    PROVE  Placed(t, p, at, node) <=> Placed(u, p, at, node)
<1>1. u[p].kind # "hash" => ElementOf(t, p) = ElementOf(u, p)
  BY DEF ElementOf
<1> QED
  BY <1>1 DEF Placed

\* Arrays and maps are the fields of a hash.
LEMMA RepeatedIs ==
    ASSUME NEW t, Shaped(t), NEW p \in DOMAIN t, t[p].kind \in {"array", "map"}
    PROVE  /\ p # <<>> /\ Front(p) \in DOMAIN t /\ t[Front(p)].kind = "hash"
           /\ Last(p)[1] = "field" /\ Last(p)[2] \in FieldsOf(t[Front(p)].type)
           /\ Schema[t[Front(p)].type][Last(p)[2]].repeated
           /\ t[p].kind = IF Traits[t[Front(p)].type][Last(p)[2]].map THEN "map" ELSE "array"
<1>1. p # <<>>
  BY DEF Shaped
<1>2. Front(p) \in DOMAIN t /\ Placed(t, Front(p), Last(p), t[p])
  BY <1>1 DEF Shaped
<1>3. \A m : ~Fits(t[p], m) /\ ~Absent(t[p], m)
  BY DEF Fits, Absent, Undef, Leaf
<1> QED
  BY <1>1, <1>2, <1>3 DEF Placed, FieldFits

Inner == {"hash", "array", "map"}
SameAt(t, u, p) ==
    t[p].kind \in Inner =>
        u[p].kind = t[p].kind /\ (t[p].kind = "hash" => u[p].type = t[p].type)

\* A node stays in its place when the node above and the one below it stay.
LEMMA StillPlaced ==
    ASSUME NEW t, Shaped(t), NEW u, NEW p \in DOMAIN t, NEW at, NEW node,
           Placed(t, p, at, node), SameAt(t, u, p), p # <<>> => SameAt(t, u, Front(p))
    PROVE  Placed(u, p, at, node)
<1>1. t[p].kind \in Inner
  BY DEF Placed, Inner
<1>2. u[p].kind = t[p].kind /\ (u[p].kind = "hash" => u[p].type = t[p].type)
  BY <1>1 DEF SameAt
<1>3. u[p].kind # "hash" => u[Front(p)].type = t[Front(p)].type
  BY <1>1, <1>2, RepeatedIs DEF SameAt, Inner
<1> QED
  BY <1>1, <1>2, <1>3, PlacedSame DEF Inner

PutAll(t, P, node) == [p \in DOMAIN t \cup P |-> IF p \in P THEN node ELSE t[p]]

\* New nodes in their places, or the next element of an array, keep the shape.
LEMMA PutShaped ==
    ASSUME NEW t, Shaped(t), NEW P \in SUBSET Paths, <<>> \notin P, NEW node \in Nodes,
           \A p \in P : Front(p) \in DOMAIN t /\ Placed(t, Front(p), Last(p), node),
           \A p \in P : p \in DOMAIN t => Last(p)[1] = "field",
           \A p \in P : Last(p)[1] = "item" =>
               P = {p} /\ p = Child(Front(p), "item", Cardinality(Items(t, Front(p))) + 1)
    PROVE  Shaped(PutAll(t, P, node))
<1> DEFINE u == PutAll(t, P, node)
<1>1. /\ DOMAIN u = DOMAIN t \cup P
      /\ \A p \in P : u[p] = node
      /\ \A p \in DOMAIN t \ P : u[p] = t[p]
  BY DEF PutAll
<1> HIDE DEF u
<1>2. IsTree(t) /\ DOMAIN t \subseteq Paths /\ DOMAIN u \subseteq Paths
  BY <1>1 DEF Shaped, IsTree
<1>3. IsTree(u)
  BY <1>1, <1>2 DEF IsTree
<1>4. ASSUME NEW p \in DOMAIN t, p \in P, t[p].kind \in Inner \/ node.kind \in Inner
      PROVE  t[p].kind = node.kind /\ (node.kind = "hash" => t[p].type = node.type)
  <2>1. Placed(t, Front(p), Last(p), node) /\ Placed(t, Front(p), Last(p), t[p])
    BY <1>4 DEF Shaped
  <2>2. Last(p)[1] = "field"
    BY <1>4
  <2>3. \E m \in {t[Front(p)].type} : FieldFits(node, m, Last(p)[2]) /\ FieldFits(t[p], m, Last(p)[2])
    BY <2>1, <2>2 DEF Placed
  <2> QED
    BY <1>4, <2>3 DEF FieldFits, Fits, Inner
<1>5. \A p \in DOMAIN t : SameAt(t, u, p)
  BY <1>1, <1>4 DEF SameAt
<1>6. ASSUME NEW p \in DOMAIN u, p # <<>>
      PROVE  Front(p) \in DOMAIN t /\ Placed(t, Front(p), Last(p), u[p])
  BY <1>1, <1>6 DEF Shaped
<1>7. ASSUME NEW p \in DOMAIN u, p # <<>>
      PROVE  Front(p) \in DOMAIN u /\ Placed(u, Front(p), Last(p), u[p])
  <2>1. Front(p) \in DOMAIN t /\ Placed(t, Front(p), Last(p), u[p])
    BY <1>6, <1>7
  <2>2. Front(p) # <<>> => Front(Front(p)) \in DOMAIN t
    BY <2>1 DEF Shaped
  <2>3. Placed(u, Front(p), Last(p), u[p])
    BY <2>1, <2>2, <1>5, StillPlaced
  <2> QED
    BY <2>1, <2>3, <1>1
<1>8. <<>> \in DOMAIN u => u[<<>>].kind = "hash"
  BY <1>1 DEF Shaped
<1>9. ASSUME NEW p \in DOMAIN u, u[p].kind = "array"
      PROVE  Dense(u, p)
  <2>1. /\ p \in Paths
        /\ \A x : x \in Items(u, p) <=> x \in DOMAIN u /\ x # <<>> /\ Front(x) = p
        /\ \A x : x \in Items(t, p) <=> x \in DOMAIN t /\ x # <<>> /\ Front(x) = p
    BY <1>2, ItemsAre
  <2>2. CASE p \notin DOMAIN t
    <3>1. \A x \in DOMAIN u : x # <<>> => Front(x) # p
      BY <2>2, <1>6
    <3>2. Items(u, p) = {Child(p, "item", j) : j \in 1..0}
      BY <2>1, <3>1
    <3> QED
      BY <2>1, <3>2, DenseFrom
  <2>3. CASE p \in DOMAIN t
    <3>1. t[p].kind = "array"
      BY <1>1, <1>4, <1>9, <2>3 DEF Inner
    <3>2. Dense(t, p)
      BY <2>3, <3>1 DEF Shaped
    <3>3. PICK n \in Nat : n = Cardinality(Items(t, p)) /\ Items(t, p) = {Child(p, "item", j) : j \in 1..n}
      BY <3>2, FS_CardinalityType DEF Dense
    <3>4. CASE \E x \in P : Front(x) = p
      <4>1. PICK x \in P : Front(x) = p
        BY <3>4
      <4>2. Placed(t, p, Last(x), node)
        BY <4>1
      <4>3. Last(x)[1] = "item"
        BY <4>2, <3>1 DEF Placed
      <4>4. P = {x} /\ x = Child(p, "item", n + 1)
        BY <4>1, <4>3, <3>3
      <4>5. \A y : y \in Items(u, p) <=> y \in Items(t, p) \/ y = x
        BY <2>1, <4>1, <4>4, <1>1
      <4>6. PICK k \in Nat : k = n + 1
        OBVIOUS
      <4>7. 1..k = (1..n) \cup {k}
        BY <4>6
      <4>8. x = Child(p, "item", k) /\ \A y : y \in Items(t, p) <=> \E j \in 1..n : y = Child(p, "item", j)
        BY <4>4, <4>6, <3>3
      <4>9. \A y : y \in Items(u, p) <=> \E j \in 1..k : y = Child(p, "item", j)
        BY <4>5, <4>7, <4>8
      <4>10. Items(u, p) = {Child(p, "item", j) : j \in 1..k}
        BY <4>9
      <4>11. k \in Nat /\ p \in Paths
        BY <4>6, <2>1
      <4> QED
        BY <4>10, <4>11, DenseFrom
    <3>5. CASE ~\E x \in P : Front(x) = p
      <4>1. Items(u, p) = Items(t, p)
        BY <2>1, <3>5, <1>1
      <4> QED
        BY <4>1, <3>3, <2>1, DenseFrom
    <3> QED
      BY <3>4, <3>5
  <2> QED
    BY <2>2, <2>3
<1>10. Shaped(u)
  BY <1>3, <1>7, <1>8, <1>9 DEF Shaped
<1> QED
  BY <1>10 DEF u

\* Drop leaves what is not at or below the path it is given.
LEMMA DropIs ==
    ASSUME NEW t, NEW q
    PROVE  /\ \A p : p \in DOMAIN Drop(t, q) <=> p \in DOMAIN t /\ ~IsPrefix(q, p)
           /\ \A p \in DOMAIN t : ~IsPrefix(q, p) => Drop(t, q)[p] = t[p]
  BY DEF Drop, Under

\* So does dropping what is not the element of an array.
LEMMA DropShaped ==
    ASSUME NEW t, Shaped(t), NEW q \in Paths, q # <<>>, Last(q)[1] # "item"
    PROVE  Shaped(Drop(t, q))
<1> DEFINE u == Drop(t, q)
<1>1. /\ \A p : p \in DOMAIN u <=> p \in DOMAIN t /\ ~IsPrefix(q, p)
      /\ \A p \in DOMAIN t : ~IsPrefix(q, p) => u[p] = t[p]
  BY DropIs
<1> HIDE DEF u
<1>2. IsTree(t) /\ DOMAIN t \subseteq Paths /\ DOMAIN u \subseteq Paths
  BY <1>1 DEF Shaped, IsTree
<1>3. IsTree(u)
  BY <1>1, <1>2 DEF IsTree
<1>4. ASSUME NEW p \in DOMAIN u, p # <<>>
      PROVE  Front(p) \in DOMAIN u /\ Placed(u, Front(p), Last(p), u[p])
  <2>1. Front(p) \in DOMAIN t /\ Placed(t, Front(p), Last(p), t[p]) /\ u[p] = t[p]
    BY <1>1, <1>4 DEF Shaped
  <2>2. Front(p) \in DOMAIN u /\ u[Front(p)] = t[Front(p)]
    BY <2>1, <1>1, <1>2, <1>4, PrefixOfFront
  <2>3. ASSUME Front(p) # <<>> PROVE SameAt(t, u, Front(Front(p)))
    <3>1. Front(Front(p)) \in DOMAIN t
      BY <2>1, <2>3 DEF Shaped
    <3>2. u[Front(Front(p))] = t[Front(Front(p))]
      BY <3>1, <2>2, <2>3, <1>1, <1>2, PrefixOfFront
    <3> QED
      BY <3>2 DEF SameAt
  <2>4. SameAt(t, u, Front(p))
    BY <2>2 DEF SameAt
  <2> QED
    BY <2>1, <2>2, <2>3, <2>4, StillPlaced
<1>5. <<>> \in DOMAIN u => u[<<>>].kind = "hash"
  BY <1>1 DEF Shaped
<1>6. ASSUME NEW p \in DOMAIN u, u[p].kind = "array"
      PROVE  Dense(u, p)
  <2>1. p \in DOMAIN t /\ t[p].kind = "array" /\ p \in Paths /\ ~IsPrefix(q, p)
    BY <1>1, <1>2, <1>6
  <2>2. /\ \A x : x \in Items(u, p) <=> x \in DOMAIN u /\ x # <<>> /\ Front(x) = p
        /\ \A x : x \in Items(t, p) <=> x \in DOMAIN t /\ x # <<>> /\ Front(x) = p
    BY <1>2, <2>1, ItemsAre
  <2>3. ASSUME NEW x \in Items(t, p) PROVE x \in DOMAIN u
    <3>1. Placed(t, p, Last(x), t[x]) /\ x \in Paths
      BY <2>2, <2>3, <1>2 DEF Shaped
    <3>2. x # q
      BY <3>1, <2>1 DEF Placed
    <3> QED
      BY <3>1, <3>2, <1>1, <2>1, <2>2, <2>3, PrefixOfFront
  <2>4. Items(u, p) = Items(t, p)
    BY <2>2, <2>3, <1>1
  <2>5. Dense(t, p)
    BY <2>1 DEF Shaped
  <2> QED
    BY <2>4, <2>5 DEF Dense
<1>7. Shaped(u)
  BY <1>3, <1>4, <1>5, <1>6 DEF Shaped
<1> QED
  BY <1>7 DEF u

\* A path below a, taken to the same place below b.
Moved(a, b, p) == b \o SubSeq(p, Len(a) + 1, Len(p))

\* A path that begins with a, moved to b, begins with b and is otherwise the same.
LEMMA MovedIs ==
    ASSUME NEW a \in Paths, NEW b \in Paths, Len(a) = Len(b),
           NEW p \in Paths, IsPrefix(a, p)
    PROVE  /\ Moved(a, b, p) \in Paths /\ Len(Moved(a, b, p)) = Len(p)
           /\ \A i \in 1..Len(p) : Moved(a, b, p)[i] = IF i <= Len(b) THEN b[i] ELSE p[i]
           /\ IsPrefix(b, Moved(a, b, p))
<1>1. Len(a) \in Nat /\ Len(b) \in Nat /\ Len(p) \in Nat /\ Len(a) <= Len(p)
  BY PrefixIs
<1>2. PICK n \in Nat, m \in Nat : n = Len(a) + 1 /\ m = Len(p)
  BY <1>1
<1>3. \A i \in n..m : p[i] \in Steps
  BY <1>2, ElementOfSeq DEF Paths
<1>4. /\ SubSeq(p, n, m) \in Paths
      /\ Len(SubSeq(p, n, m)) = IF n <= m THEN m - n + 1 ELSE 0
      /\ \A i \in 1..(m - n + 1) : SubSeq(p, n, m)[i] = p[n + i - 1]
  BY <1>2, <1>3, SubSeqProperties DEF Paths
<1> DEFINE s == SubSeq(p, n, m)
           r == b \o s
<1>5. Len(s) = m - Len(b) /\ \A i \in 1..(m - Len(b)) : s[i] = p[Len(b) + i]
  BY <1>1, <1>2, <1>4
<1>6. s \in Paths
  BY <1>4
<1> HIDE DEF s
<1>7. /\ r \in Paths /\ Len(r) = Len(b) + Len(s)
      /\ \A i \in 1..(Len(b) + Len(s)) : r[i] = IF i <= Len(b) THEN b[i] ELSE s[i - Len(b)]
  BY <1>6, ConcatProperties DEF Paths
<1>8. Moved(a, b, p) = r
  BY <1>2 DEF Moved, s
<1> HIDE DEF r
<1>9. Len(r) = m
  BY <1>1, <1>2, <1>5, <1>7
<1>10. \A i \in 1..m : r[i] = IF i <= Len(b) THEN b[i] ELSE p[i]
  <2>1. ASSUME NEW i \in 1..m PROVE r[i] = IF i <= Len(b) THEN b[i] ELSE p[i]
    <3>1. CASE i <= Len(b)
      BY <3>1, <1>7, <1>9
    <3>2. CASE i > Len(b)
      <4>1. PICK j \in 1..(m - Len(b)) : j = i - Len(b)
        BY <3>2, <1>1, <1>2
      <4>2. r[i] = s[j] /\ s[j] = p[Len(b) + j] /\ Len(b) + j = i
        BY <3>2, <4>1, <1>1, <1>5, <1>7, <1>9
      <4> QED
        BY <4>2, <3>2, <1>1
    <3> QED
      BY <3>1, <3>2, <1>1
  <2> QED
    BY <2>1
<1>11. IsPrefix(b, r)
  <2>1. \A i \in 1..Len(b) : b[i] = r[i]
    BY <1>1, <1>2, <1>10
  <2> QED
    BY <2>1, <1>1, <1>2, <1>7, <1>9, PrefixIs
<1> QED
  BY <1>2, <1>7, <1>8, <1>9, <1>10, <1>11

\* Moving it back gives it again.
LEMMA MovedBack ==
    ASSUME NEW a \in Paths, NEW b \in Paths, Len(a) = Len(b),
           NEW p \in Paths, IsPrefix(a, p)
    PROVE  Moved(b, a, Moved(a, b, p)) = p
<1> DEFINE r == Moved(a, b, p)
           z == Moved(b, a, r)
<1>1. /\ r \in Paths /\ Len(r) = Len(p) /\ IsPrefix(b, r)
      /\ \A i \in 1..Len(p) : r[i] = IF i <= Len(b) THEN b[i] ELSE p[i]
  BY MovedIs
<1> HIDE DEF r
<1>2. /\ z \in Paths /\ Len(z) = Len(r)
      /\ \A i \in 1..Len(r) : z[i] = IF i <= Len(a) THEN a[i] ELSE r[i]
  BY <1>1, MovedIs
<1> HIDE DEF z
<1>3. Len(a) \in Nat /\ Len(p) \in Nat /\ Len(a) <= Len(p) /\ \A i \in 1..Len(a) : a[i] = p[i]
  BY PrefixIs
<1>4. \A i \in 1..Len(p) : z[i] = p[i]
  BY <1>1, <1>2, <1>3
<1>5. z = p
  BY <1>1, <1>2, <1>4, SamePath
<1> QED
  BY <1>5 DEF z, r

\* The root of what is moved,
LEMMA MovedTop ==
    ASSUME NEW a \in Paths, NEW b \in Paths, Len(a) = Len(b)
    PROVE  Moved(a, b, a) = b
<1>1. IsPrefix(a, a) /\ Len(a) \in Nat
  BY PrefixIs
<1>2. /\ Moved(a, b, a) \in Paths /\ Len(Moved(a, b, a)) = Len(b)
      /\ \A i \in 1..Len(b) : Moved(a, b, a)[i] = b[i]
  <2>1. /\ Moved(a, b, a) \in Paths /\ Len(Moved(a, b, a)) = Len(a)
        /\ \A i \in 1..Len(a) : Moved(a, b, a)[i] = IF i <= Len(b) THEN b[i] ELSE a[i]
    BY <1>1, MovedIs
  <2> QED
    BY <1>1, <2>1
<1> QED
  BY <1>2, SamePath

\* and what is below.
LEMMA MovedBelow ==
    ASSUME NEW a \in Paths, NEW b \in Paths, Len(a) = Len(b), a # <<>>,
           NEW p \in Paths, IsPrefix(a, p), p # a
    PROVE  /\ p # <<>> /\ Moved(a, b, p) # <<>>
           /\ IsPrefix(a, Front(p)) /\ Front(Moved(a, b, p)) = Moved(a, b, Front(p))
           /\ Last(Moved(a, b, p)) = Last(p)
<1> DEFINE r == Moved(a, b, p)
<1>1. Len(a) \in Nat \ {0} /\ Len(a) <= Len(p) /\ Len(p) \in Nat /\ p # <<>>
  BY PrefixIs, FrontIs, EmptySeq
<1>2. IsPrefix(a, Front(p)) /\ Front(p) \in Paths
  BY <1>1, PrefixOfFront, FrontIs
<1>3. Len(a) <= Len(Front(p)) /\ Len(Front(p)) = Len(p) - 1 /\ \A i \in 1..(Len(p) - 1) : Front(p)[i] = p[i]
  BY <1>1, <1>2, PrefixIs, FrontIs
<1>4. /\ r \in Paths /\ Len(r) = Len(p)
      /\ \A i \in 1..Len(p) : r[i] = IF i <= Len(b) THEN b[i] ELSE p[i]
  BY MovedIs
<1> HIDE DEF r
<1>5. r # <<>>
  BY <1>1, <1>4, EmptySeq
<1>6. /\ Front(r) \in Paths /\ Len(Front(r)) = Len(p) - 1 /\ Last(r) = r[Len(p)]
      /\ \A i \in 1..(Len(p) - 1) : Front(r)[i] = r[i]
  BY <1>4, <1>5, FrontIs
<1>7. Last(r) = Last(p)
  BY <1>1, <1>3, <1>4, <1>6 DEF Last
<1> DEFINE z == Moved(a, b, Front(p))
<1>8. /\ z \in Paths /\ Len(z) = Len(p) - 1
      /\ \A i \in 1..(Len(p) - 1) : z[i] = IF i <= Len(b) THEN b[i] ELSE Front(p)[i]
  <2>1. PICK y \in Paths : y = Front(p)
    BY <1>2
  <2>2. /\ Moved(a, b, y) \in Paths /\ Len(Moved(a, b, y)) = Len(y)
        /\ \A i \in 1..Len(y) : Moved(a, b, y)[i] = IF i <= Len(b) THEN b[i] ELSE y[i]
    BY <1>2, <2>1, MovedIs
  <2>3. Len(y) = Len(p) - 1
    BY <1>3, <2>1
  <2>4. \A i \in 1..(Len(p) - 1) : Moved(a, b, y)[i] = IF i <= Len(b) THEN b[i] ELSE y[i]
    BY <2>2, <2>3
  <2> QED
    BY <2>1, <2>2, <2>3, <2>4
<1> HIDE DEF z
<1>9. \A i \in 1..(Len(p) - 1) : z[i] = Front(r)[i]
  BY <1>1, <1>3, <1>4, <1>6, <1>8
<1>10. z = Front(r)
  BY <1>6, <1>8, <1>9, SamePath
<1> QED
  BY <1>1, <1>2, <1>5, <1>7, <1>10 DEF z, r

\* Move leaves what is below neither path, and puts what was below a below b.
LEMMA MoveIs ==
    ASSUME NEW t, IsTree(t), NEW a \in Paths, NEW b \in Paths, Len(a) = Len(b)
    PROVE  /\ \A p \in DOMAIN t : ~IsPrefix(a, p) /\ ~IsPrefix(b, p) =>
                  p \in DOMAIN Move(t, a, b) /\ Move(t, a, b)[p] = t[p]
           /\ \A p \in DOMAIN t : IsPrefix(a, p) =>
                  Moved(a, b, p) \in DOMAIN Move(t, a, b) /\ Move(t, a, b)[Moved(a, b, p)] = t[p]
           /\ \A x \in DOMAIN Move(t, a, b) :
                  \/ x \in DOMAIN t /\ ~IsPrefix(a, x) /\ ~IsPrefix(b, x)
                  \/ \E p \in DOMAIN t : IsPrefix(a, p) /\ x = Moved(a, b, p)
<1> DEFINE moved == {Moved(a, b, p) : p \in Under(a, t)}
           kept  == DOMAIN t \ (Under(a, t) \cup Under(b, t))
           u == [p \in kept \cup moved |-> IF p \in kept THEN t[p] ELSE t[Moved(b, a, p)]]
<1>1. Move(t, a, b) = u
  BY DEF Move, Moved
<1>2. \A p : p \in kept <=> p \in DOMAIN t /\ ~IsPrefix(a, p) /\ ~IsPrefix(b, p)
  BY DEF Under
<1>3. \A x : x \in moved <=> \E p \in DOMAIN t : IsPrefix(a, p) /\ x = Moved(a, b, p)
  BY DEF Under
<1>4. ASSUME NEW p \in DOMAIN t, IsPrefix(a, p)
      PROVE  Moved(a, b, p) \notin kept /\ Moved(b, a, Moved(a, b, p)) = p
  <2>1. p \in Paths
    BY DEF IsTree
  <2>2. IsPrefix(b, Moved(a, b, p))
    BY <2>1, <1>4, MovedIs
  <2>3. Moved(b, a, Moved(a, b, p)) = p
    BY <2>1, <1>4, MovedBack
  <2> QED
    BY <2>2, <2>3, <1>2
<1>5. /\ DOMAIN u = kept \cup moved
      /\ \A p \in kept : u[p] = t[p]
      /\ \A x \in moved : x \notin kept => u[x] = t[Moved(b, a, x)]
  OBVIOUS
<1> HIDE DEF u, kept, moved
<1> QED
  BY <1>1, <1>2, <1>3, <1>4, <1>5

\* Moving a map value to its key keeps the shape, and makes it an entry of the map.
LEMMA MoveShaped ==
    ASSUME NEW t, Shaped(t), NEW map \in DOMAIN t, t[map].kind = "map",
           Value(map) \in DOMAIN t, NEW k \in Keys
    PROVE  Shaped(Move(t, Value(map), Child(map, "key", k)))
<1> DEFINE a == Value(map)
           b == Child(map, "key", k)
           u == Move(t, a, b)
<1>1. IsTree(t) /\ map \in Paths
  BY DEF Shaped, IsTree
<1>2. /\ a \in Paths /\ a # <<>> /\ Front(a) = map /\ Last(a) = <<"value", 0>>
      /\ b \in Paths /\ b # <<>> /\ Front(b) = map /\ Last(b) = <<"key", k>>
      /\ Len(a) = Len(b)
      /\ ~IsPrefix(a, map) /\ ~IsPrefix(b, map)
  <2>1. <<"value", 0>> \in Steps /\ <<"key", k>> \in Steps
    BY StepsAre
  <2> QED
    BY <2>1, <1>1, ChildIs, PrefixOfChild DEF Value
<1> HIDE DEF a, b
<1> DEFINE Kept(p) == ~IsPrefix(a, p) /\ ~IsPrefix(b, p)
           To(p) == Moved(a, b, p)
<1>3. /\ \A p \in DOMAIN t : Kept(p) => p \in DOMAIN u /\ u[p] = t[p]
      /\ \A p \in DOMAIN t : IsPrefix(a, p) => To(p) \in DOMAIN u /\ u[To(p)] = t[p]
      /\ \A x \in DOMAIN u :
            \/ x \in DOMAIN t /\ Kept(x)
            \/ \E p \in DOMAIN t : IsPrefix(a, p) /\ x = To(p)
  BY <1>1, <1>2, MoveIs
<1> HIDE DEF u
<1>4. \A p \in DOMAIN t : p # <<>> /\ Kept(p) => Kept(Front(p))
  BY <1>1, <1>2, PrefixOfFront DEF IsTree
<1>5. To(a) = b /\ a \in DOMAIN t /\ IsPrefix(a, a)
  BY <1>2, MovedTop, PrefixSelf DEF a
<1>6. ASSUME NEW p \in DOMAIN t, IsPrefix(a, p)
      PROVE  /\ To(p) \in Paths /\ IsPrefix(b, To(p)) /\ Moved(b, a, To(p)) = p
             /\ p # a => /\ p # <<>> /\ To(p) # <<>> /\ IsPrefix(a, Front(p))
                         /\ Front(To(p)) = To(Front(p)) /\ Last(To(p)) = Last(p)
  BY <1>1, <1>2, <1>6, MovedIs, MovedBack, MovedBelow DEF IsTree
<1> HIDE DEF To
<1>7. \A p \in DOMAIN t : p # <<>> => Front(p) \in DOMAIN t /\ Placed(t, Front(p), Last(p), t[p])
  BY DEF Shaped
<1>8. IsTree(u)
  BY <1>1, <1>3, <1>6 DEF IsTree
<1>9. <<>> \in DOMAIN u => u[<<>>].kind = "hash"
  <2>1. \A p \in DOMAIN t : IsPrefix(a, p) => To(p) # <<>>
    BY <1>2, <1>5, <1>6
  <2> QED
    BY <2>1, <1>3 DEF Shaped
<1>10. \A p \in DOMAIN t : Kept(p) => SameAt(t, u, p) /\ (p # <<>> => SameAt(t, u, Front(p)))
  BY <1>3, <1>4, <1>7 DEF SameAt
<1> HIDE DEF Kept
<1>11. ASSUME NEW x \in DOMAIN u, x # <<>>, x \in DOMAIN t, Kept(x)
       PROVE  Front(x) \in DOMAIN u /\ Placed(u, Front(x), Last(x), u[x])
  <2>1. Front(x) \in DOMAIN t /\ Placed(t, Front(x), Last(x), u[x]) /\ Kept(Front(x))
    BY <1>3, <1>4, <1>7, <1>11
  <2> QED
    BY <2>1, <1>3, <1>10, StillPlaced
<1>12. Kept(map)
  BY <1>2 DEF Kept
<1>13. Front(b) \in DOMAIN u /\ Placed(u, Front(b), Last(b), u[b])
  <2>1. Placed(t, map, Last(a), t[a])
    BY <1>2, <1>5, <1>7
  <2>2. Placed(t, map, Last(b), t[a])
    BY <2>1, <1>2 DEF Placed
  <2>3. Placed(u, map, Last(b), t[a])
    BY <2>2, <1>10, <1>12, StillPlaced
  <2> QED
    BY <2>3, <1>2, <1>3, <1>5, <1>12
<1>14. ASSUME NEW p \in DOMAIN t, IsPrefix(a, p), p # a
       PROVE  Front(To(p)) \in DOMAIN u /\ Placed(u, Front(To(p)), Last(To(p)), u[To(p)])
  <2>1. /\ Front(p) \in DOMAIN t /\ Placed(t, Front(p), Last(p), t[p]) /\ IsPrefix(a, Front(p))
        /\ Front(To(p)) = To(Front(p)) /\ Last(To(p)) = Last(p) /\ u[To(p)] = t[p]
    BY <1>3, <1>6, <1>7, <1>14
  <2>2. To(Front(p)) \in DOMAIN u /\ u[To(Front(p))] = t[Front(p)]
    BY <2>1, <1>3
  <2>3. CASE t[Front(p)].kind = "hash"
    BY <2>1, <2>2, <2>3 DEF Placed
  <2>4. CASE t[Front(p)].kind # "hash"
    <3>1. t[Front(p)].kind \in {"array", "map"}
      BY <2>1, <2>4 DEF Placed
    <3>2. Front(p) # <<>> /\ Last(Front(p))[1] = "field" /\ Front(Front(p)) \in DOMAIN t
      BY <2>1, <3>1, RepeatedIs
    <3>3. Front(p) # a
      BY <3>2, <1>2
    <3>4. /\ Last(To(Front(p))) = Last(Front(p)) /\ Front(To(Front(p))) = To(Front(Front(p)))
          /\ IsPrefix(a, Front(Front(p)))
      BY <2>1, <3>3, <1>6
    <3>5. u[To(Front(Front(p)))] = t[Front(Front(p))]
      BY <3>2, <3>4, <1>3
    <3>6. ElementOf(u, To(Front(p))) = ElementOf(t, Front(p))
      BY <2>2, <3>4, <3>5 DEF ElementOf
    <3> QED
      BY <2>1, <2>2, <2>4, <3>6 DEF Placed
  <2> QED
    BY <2>1, <2>2, <2>3, <2>4
<1>15. ASSUME NEW x \in DOMAIN u, x # <<>>
       PROVE  Front(x) \in DOMAIN u /\ Placed(u, Front(x), Last(x), u[x])
  BY <1>3, <1>5, <1>11, <1>13, <1>14, <1>15
<1>16. \A p \in DOMAIN t : IsPrefix(a, p) => ~Kept(To(p))
  BY <1>6 DEF Kept
<1>17. \A p \in Paths : /\ \A x : x \in Items(u, p) <=> x \in DOMAIN u /\ x # <<>> /\ Front(x) = p
                        /\ \A x : x \in Items(t, p) <=> x \in DOMAIN t /\ x # <<>> /\ Front(x) = p
  BY <1>1, <1>8, ItemsAre DEF IsTree
<1>18. ASSUME NEW x \in DOMAIN t, Kept(x), t[x].kind = "array"
       PROVE  Dense(u, x)
  <2>1. x \in Paths /\ x # map
    BY <1>1, <1>18 DEF IsTree
  <2>2. ASSUME NEW y \in DOMAIN t, y # <<>>, Front(y) = x PROVE y \in DOMAIN u
    <3>1. y # a /\ y # b /\ y \in Paths
      BY <2>1, <2>2, <1>1, <1>2 DEF IsTree
    <3>2. Kept(y)
      BY <3>1, <2>2, <1>2, <1>18, PrefixOfFront DEF Kept
    <3> QED
      BY <3>2, <1>3
  <2>3. ASSUME NEW y \in DOMAIN u, y # <<>>, Front(y) = x PROVE y \in DOMAIN t
    <3>1. ASSUME NEW p \in DOMAIN t, IsPrefix(a, p), y = To(p) PROVE FALSE
      <4>1. p # a
        BY <3>1, <2>1, <2>3, <1>2, <1>5
      <4>2. x = To(Front(p)) /\ IsPrefix(a, Front(p)) /\ Front(p) \in DOMAIN t
        BY <3>1, <4>1, <2>3, <1>6, <1>7
      <4> QED
        BY <4>2, <1>16, <1>18
    <3> QED
      BY <3>1, <2>3, <1>3
  <2>4. Items(u, x) = Items(t, x)
    BY <2>1, <2>2, <2>3, <1>17
  <2>5. Dense(t, x)
    BY <1>18 DEF Shaped
  <2> QED
    BY <2>4, <2>5 DEF Dense
<1>19. ASSUME NEW p \in DOMAIN t, IsPrefix(a, p), t[p].kind = "array"
       PROVE  Dense(u, To(p))
  <2>1. p \in Paths /\ To(p) \in Paths
    BY <1>1, <1>6, <1>19 DEF IsTree
  <2>2. Dense(t, p)
    BY <1>19 DEF Shaped
  <2>3. PICK n \in Nat : Items(t, p) = {Child(p, "item", j) : j \in 1..n}
    BY <2>2, FS_CardinalityType DEF Dense
  <2>4. ASSUME NEW y \in Items(u, To(p)) PROVE \E j \in 1..n : y = Child(To(p), "item", j)
    <3>1. y \in DOMAIN u /\ y # <<>> /\ Front(y) = To(p) /\ y \in Paths
      BY <2>1, <2>4, <1>8, <1>17 DEF IsTree
    <3>2. ~Kept(Front(y))
      BY <3>1, <1>16, <1>19
    <3>3. PICK z \in DOMAIN t : IsPrefix(a, z) /\ y = To(z)
      BY <3>1, <3>2, <1>3, <1>4
    <3>4. z # a
      BY <3>1, <3>2, <3>3, <1>2, <1>5, <1>12
    <3>5. To(Front(z)) = To(p) /\ Last(y) = Last(z) /\ IsPrefix(a, Front(z)) /\ Front(z) \in DOMAIN t /\ z # <<>>
      BY <3>1, <3>3, <3>4, <1>6, <1>7
    <3>6. Front(z) = p
      BY <3>5, <1>6, <1>19
    <3>7. PICK j \in 1..n : z = Child(p, "item", j)
      BY <3>3, <3>5, <3>6, <2>1, <2>3, <1>17
    <3>8. <<"item", j>> \in Steps
      <4>1. j \in Nat
        OBVIOUS
      <4> QED
        BY <4>1, StepsAre
    <3>9. Last(z) = <<"item", j>>
      BY <3>7, <3>8, <2>1, ChildIs
    <3>10. y = Child(Front(y), "item", j)
      BY <3>1, <3>5, <3>9, FrontIs DEF Child
    <3> QED
      BY <3>1, <3>10
  <2>5. ASSUME NEW j \in 1..n PROVE Child(To(p), "item", j) \in Items(u, To(p))
    <3>1. PICK z : z = Child(p, "item", j)
      OBVIOUS
    <3>2. z \in DOMAIN t /\ z # <<>> /\ Front(z) = p
      BY <3>1, <2>1, <2>3, <1>17
    <3>3. <<"item", j>> \in Steps
      <4>1. j \in Nat
        OBVIOUS
      <4> QED
        BY <4>1, StepsAre
    <3>4. Last(z) = <<"item", j>> /\ IsPrefix(a, z) /\ z # a
      <4>1. Last(z) = <<"item", j>>
        BY <3>1, <3>3, <2>1, ChildIs
      <4>2. z # a
        BY <4>1, <1>2
      <4>3. IsPrefix(a, z)
        BY <3>1, <3>3, <2>1, <1>2, <1>19, PrefixOfChild
      <4> QED
        BY <4>1, <4>2, <4>3
    <3>5. To(z) \in DOMAIN u /\ Front(To(z)) = To(p) /\ Last(To(z)) = <<"item", j>> /\ To(z) # <<>> /\ To(z) \in Paths
      BY <3>2, <3>4, <1>3, <1>6
    <3>6. To(z) = Child(To(p), "item", j)
      BY <3>5, FrontIs DEF Child
    <3> QED
      BY <3>5, <3>6, <2>1, <1>17
  <2>6. Items(u, To(p)) = {Child(To(p), "item", j) : j \in 1..n}
    BY <2>4, <2>5
  <2> QED
    BY <2>1, <2>6, DenseFrom
<1>20. ASSUME NEW x \in DOMAIN u, u[x].kind = "array"
       PROVE  Dense(u, x)
  BY <1>3, <1>18, <1>19, <1>20
<1>21. Shaped(u)
  BY <1>8, <1>9, <1>15, <1>20 DEF Shaped
<1> QED
  BY <1>21 DEF u, a, b

----------------------------------------------------------------------------
(* The object: what each callback makes of its parts.                              *)

Object(mappers, items, mapKeys, seenFields, seenOneof, track, tree, missing, crashed) ==
    [mappers |-> mappers, items |-> items, mapKeys |-> mapKeys, seenFields |-> seenFields,
     seenOneof |-> seenOneof, track |-> track, tree |-> tree, missing |-> missing,
     crashed |-> crashed]

IsObject(c) == c = Object(c.mappers, c.items, c.mapKeys, c.seenFields, c.seenOneof,
                          c.track, c.tree, c.missing, c.crashed)

Marked(c, f) ==
    IF c.track THEN SetLast(c.seenFields, Last(c.seenFields) \cup {f}) ELSE c.seenFields

\* Every callback, as the record of what it leaves: mark_seen,
LEMMA MarkSeenIs ==
    ASSUME NEW c, IsObject(c), NEW f
    PROVE  MarkSeen(c, f) =
               Object(c.mappers, c.items, c.mapKeys, Marked(c, f), c.seenOneof, c.track,
                      c.tree, c.missing, c.crashed)
  BY DEF MarkSeen, Marked, IsObject, Object

\* What Target leaves in items, in seenOneof and in the tree.
OneofOf(c, f) == Traits[Mapper(c)][f].oneof
Seen(c, f) == Last(c.seenOneof)[OneofOf(c, f)]
Single(c, f) == ~IsValue(c, f) /\ ~Schema[Mapper(c)][f].repeated
Member(c, f) == Single(c, f) /\ OneofOf(c, f) # NoOneof
TargetItems(c, f) ==
    IF IsValue(c, f) THEN SetLast(c.items, TargetPath(c, f)) ELSE c.items
TargetOneof(c, f) ==
    IF Member(c, f)
    THEN SetLast(c.seenOneof, [Last(c.seenOneof) EXCEPT ![OneofOf(c, f)] = f])
    ELSE c.seenOneof
TargetTree(c, f) ==
    IF IsValue(c, f) THEN Drop(c.tree, TargetPath(c, f))
    ELSE IF Member(c, f) /\ Seen(c, f) \notin {NoField, f}
    THEN Drop(c.tree, Child(Last(c.items), "field", Seen(c, f)))
    ELSE c.tree

\* get_target,
LEMMA TargetIs ==
    ASSUME NEW c, IsObject(c), NEW f
    PROVE  Target(c, f) =
               Object(c.mappers, TargetItems(c, f), c.mapKeys, c.seenFields, TargetOneof(c, f),
                      c.track, TargetTree(c, f), c.missing, c.crashed)
<1>1. CASE IsValue(c, f)
  BY <1>1 DEF Target, TargetItems, TargetOneof, TargetTree, Member, Single, IsObject, Object
<1>2. CASE ~IsValue(c, f) /\ Schema[Mapper(c)][f].repeated
  BY <1>2 DEF Target, TargetItems, TargetOneof, TargetTree, Member, Single, IsObject, Object
<1>3. CASE Single(c, f)
  <2>1. Target(c, f) = ReplaceOneof(c, f)
    BY <1>3 DEF Target, Single
  <2>2. TargetItems(c, f) = c.items
    BY <1>3 DEF TargetItems, Single
  <2>3. CASE ~Member(c, f)
    BY <1>3, <2>1, <2>2, <2>3
    DEF ReplaceOneof, TargetOneof, TargetTree, Member, Single, OneofOf, IsObject, Object
  <2>4. CASE Member(c, f)
    BY <1>3, <2>1, <2>2, <2>4
    DEF ReplaceOneof, TargetOneof, TargetTree, Member, Single, OneofOf, Seen, IsObject, Object
  <2> QED
    BY <2>3, <2>4
<1> QED
  BY <1>1, <1>2, <1>3 DEF Single

\* The target does not depend on the seen fields or the map keys.
LEMMA TargetSame ==
    ASSUME NEW c, NEW d, NEW f, d.mappers = c.mappers, d.items = c.items,
           d.seenOneof = c.seenOneof, d.tree = c.tree
    PROVE  /\ TargetPath(d, f) = TargetPath(c, f)
           /\ TargetItems(d, f) = TargetItems(c, f) /\ TargetOneof(d, f) = TargetOneof(c, f)
           /\ TargetTree(d, f) = TargetTree(c, f)
<1>1. Mapper(d) = Mapper(c) /\ IsValue(d, f) = IsValue(c, f) /\ NextItem(d) = NextItem(c)
  BY DEF Mapper, IsValue, NextItem
<1>2. TargetPath(d, f) = TargetPath(c, f)
  BY <1>1 DEF TargetPath
<1>3. OneofOf(d, f) = OneofOf(c, f) /\ Seen(d, f) = Seen(c, f) /\ Member(d, f) = Member(c, f)
  BY <1>1 DEF OneofOf, Seen, Member, Single
<1> QED
  BY <1>1, <1>2, <1>3 DEF TargetItems, TargetOneof, TargetTree

\* which goes by nothing that mark_seen changes,
LEMMA TargetOfMarked ==
    ASSUME NEW c, IsObject(c), NEW f
    PROVE  LET d == MarkSeen(c, f)
           IN  /\ IsObject(d) /\ TargetPath(d, f) = TargetPath(c, f)
               /\ TargetItems(d, f) = TargetItems(c, f) /\ TargetOneof(d, f) = TargetOneof(c, f)
               /\ TargetTree(d, f) = TargetTree(c, f)
<1> DEFINE d == MarkSeen(c, f)
<1>1. /\ d.mappers = c.mappers /\ d.items = c.items /\ d.seenOneof = c.seenOneof
      /\ d.tree = c.tree /\ IsObject(d)
  BY MarkSeenIs DEF Object, IsObject
<1> HIDE DEF d
<1>2. /\ TargetPath(d, f) = TargetPath(c, f)
      /\ TargetItems(d, f) = TargetItems(c, f) /\ TargetOneof(d, f) = TargetOneof(c, f)
      /\ TargetTree(d, f) = TargetTree(c, f)
  BY <1>1, TargetSame
<1> QED
  BY <1>1, <1>2 DEF d

\* a store where get_target says,
LEMMA StoreAtIs ==
    ASSUME NEW c, IsObject(c), NEW f, NEW node
    PROVE  StoreAt(c, f, node) =
               Object(c.mappers, TargetItems(c, f), c.mapKeys, c.seenFields, TargetOneof(c, f),
                      c.track, Put(TargetTree(c, f), TargetPath(c, f), node), c.missing,
                      c.crashed)
  BY TargetIs DEF StoreAt, Object

\* on_bool, on_string and the other scalars,
LEMMA OnScalarIs ==
    ASSUME NEW c, IsObject(c), NEW f
    PROVE  OnScalar(c, f) =
               Object(c.mappers, TargetItems(c, f), c.mapKeys, Marked(c, f), TargetOneof(c, f),
                      c.track, Put(TargetTree(c, f), TargetPath(c, f), Scalar), c.missing,
                      c.crashed)
<1> DEFINE d == MarkSeen(c, f)
<1>1. d = Object(c.mappers, c.items, c.mapKeys, Marked(c, f), c.seenOneof, c.track,
                 c.tree, c.missing, c.crashed)
  BY MarkSeenIs
<1>2. /\ d.mappers = c.mappers /\ d.mapKeys = c.mapKeys /\ d.seenFields = Marked(c, f)
      /\ d.track = c.track /\ d.missing = c.missing /\ d.crashed = c.crashed
  BY <1>1 DEF Object
<1>3. /\ IsObject(d) /\ TargetPath(d, f) = TargetPath(c, f)
      /\ TargetItems(d, f) = TargetItems(c, f) /\ TargetOneof(d, f) = TargetOneof(c, f)
      /\ TargetTree(d, f) = TargetTree(c, f)
  BY TargetOfMarked
<1>4. OnScalar(c, f) = StoreAt(d, f, Scalar)
  BY DEF OnScalar
<1> HIDE DEF d
<1> QED
  BY <1>2, <1>3, <1>4, StoreAtIs

\* the key of an entry,
LEMMA OnKeyIs ==
    ASSUME NEW c, IsObject(c), NEW k
    PROVE  OnKey(c, k) =
               Object(c.mappers, c.items, SetLast(c.mapKeys, [key |-> k]),
                      IF Traits[Mapper(c)][KeyField].string THEN c.seenFields
                      ELSE Marked(c, KeyField),
                      c.seenOneof, c.track, c.tree, c.missing, c.crashed)
<1>1. CASE Traits[Mapper(c)][KeyField].string
  BY <1>1 DEF OnKey, IsObject, Object
<1>2. CASE ~Traits[Mapper(c)][KeyField].string
  BY <1>2, MarkSeenIs DEF OnKey, Object
<1> QED
  BY <1>1, <1>2

FieldPath(c, f) == Child(Last(c.items), "field", f)
ContainerTree(c, f, kind) ==
    IF FieldPath(c, f) \in DOMAIN c.tree THEN c.tree ELSE Put(c.tree, FieldPath(c, f), Leaf(kind))

\* get_avref and get_hvref,
LEMMA ContainerIs ==
    ASSUME NEW c, IsObject(c), NEW f, NEW kind
    PROVE  Container(c, f, kind) =
               Object(c.mappers, Append(c.items, FieldPath(c, f)), c.mapKeys, Marked(c, f),
                      c.seenOneof, c.track, ContainerTree(c, f, kind), c.missing, c.crashed)
<1> DEFINE d == MarkSeen(c, f)
<1>1. d = Object(c.mappers, c.items, c.mapKeys, Marked(c, f), c.seenOneof, c.track,
                 c.tree, c.missing, c.crashed)
  BY MarkSeenIs
<1> DEFINE e == [d EXCEPT !.tree = IF FieldPath(c, f) \in DOMAIN @ THEN @
                                   ELSE Put(@, FieldPath(c, f), Leaf(kind))]
<1>2. Container(c, f, kind) = [e EXCEPT !.items = Append(@, FieldPath(c, f))]
  BY DEF Container, FieldPath
<1> HIDE DEF d
<1>3. e = Object(c.mappers, c.items, c.mapKeys, Marked(c, f), c.seenOneof, c.track,
                 ContainerTree(c, f, kind), c.missing, c.crashed)
  BY <1>1 DEF ContainerTree, Object
<1> HIDE DEF e
<1> QED
  BY <1>2, <1>3 DEF Object

\* on_end_sequence,
LEMMA OnEndSequenceIs ==
    ASSUME NEW c, IsObject(c)
    PROVE  OnEndSequence(c) =
               Object(c.mappers, Front(c.items), c.mapKeys, c.seenFields, c.seenOneof, c.track,
                      c.tree, c.missing, c.crashed)
  BY DEF OnEndSequence, IsObject, Object

\* a mapper pushed,
LEMMA PushMapperIs ==
    ASSUME NEW c, IsObject(c), NEW m
    PROVE  PushMapper(c, m) =
               Object(Append(c.mappers, m), c.items, c.mapKeys, c.seenFields, c.seenOneof,
                      TracksSeen(m), c.tree, c.missing, c.crashed)
<1> DEFINE d == [c EXCEPT !.mappers = Append(@, m)]
<1>1. d = Object(Append(c.mappers, m), c.items, c.mapKeys, c.seenFields, c.seenOneof,
                 c.track, c.tree, c.missing, c.crashed)
  BY DEF IsObject, Object
<1>2. PushMapper(c, m) = [d EXCEPT !.track = TracksSeen(m)]
  BY DEF PushMapper
<1> HIDE DEF d
<1> QED
  BY <1>1, <1>2 DEF Object

\* on_start_map,
LEMMA OnStartMapIs ==
    ASSUME NEW c, IsObject(c), NEW f
    PROVE  OnStartMap(c, f) =
               Object(Append(c.mappers, Schema[Mapper(c)][f].message),
                      Append(Append(c.items, FieldPath(c, f)), NULL), Append(c.mapKeys, NoKey),
                      Marked(c, f), c.seenOneof, TracksSeen(Schema[Mapper(c)][f].message),
                      ContainerTree(c, f, "map"), c.missing, c.crashed)
<1> DEFINE d == Container(c, f, "map")
           m == Schema[Mapper(c)][f].message
           e == PushMapper(d, m)
<1>1. d = Object(c.mappers, Append(c.items, FieldPath(c, f)), c.mapKeys, Marked(c, f),
                 c.seenOneof, c.track, ContainerTree(c, f, "map"), c.missing, c.crashed)
  BY ContainerIs
<1> DEFINE g == [e EXCEPT !.items = Append(@, NULL)]
<1>2. OnStartMap(c, f) = [g EXCEPT !.mapKeys = Append(@, NoKey)]
  BY DEF OnStartMap
<1> HIDE DEF d, m
<1>3. e = Object(Append(c.mappers, m), Append(c.items, FieldPath(c, f)), c.mapKeys, Marked(c, f),
                 c.seenOneof, TracksSeen(m), ContainerTree(c, f, "map"), c.missing, c.crashed)
  <2>1. e = Object(Append(d.mappers, m), d.items, d.mapKeys, d.seenFields, d.seenOneof,
                   TracksSeen(m), d.tree, d.missing, d.crashed)
    BY <1>1, PushMapperIs DEF IsObject, Object
  <2> QED
    BY <1>1, <2>1 DEF Object
<1> HIDE DEF e
<1>4. g = Object(Append(c.mappers, m), Append(Append(c.items, FieldPath(c, f)), NULL), c.mapKeys,
                 Marked(c, f), c.seenOneof, TracksSeen(m), ContainerTree(c, f, "map"), c.missing,
                 c.crashed)
  <2>1. IsObject(e)
    BY <1>3 DEF IsObject, Object
  <2>2. g = Object(e.mappers, Append(e.items, NULL), e.mapKeys, e.seenFields, e.seenOneof, e.track,
                   e.tree, e.missing, e.crashed)
    BY <2>1 DEF IsObject, Object
  <2> QED
    BY <1>3, <2>2 DEF Object
<1> HIDE DEF g
<1> QED
  BY <1>2, <1>4 DEF Object, m

\* a mapper popped,
LEMMA PopMapperIs ==
    ASSUME NEW c, IsObject(c)
    PROVE  PopMapper(c) =
               Object(Front(c.mappers), c.items, c.mapKeys, c.seenFields, c.seenOneof,
                      TracksSeen(Last(Front(c.mappers))), c.tree, c.missing, c.crashed)
<1> DEFINE d == [c EXCEPT !.mappers = Front(@)]
<1>1. d = Object(Front(c.mappers), c.items, c.mapKeys, c.seenFields, c.seenOneof,
                 c.track, c.tree, c.missing, c.crashed)
  BY DEF IsObject, Object
<1>2. PopMapper(c) = [d EXCEPT !.track = TracksSeen(Last(Front(c.mappers)))]
  BY DEF PopMapper
<1> HIDE DEF d
<1> QED
  BY <1>1, <1>2 DEF Object

\* on_end_map,
LEMMA OnEndMapIs ==
    ASSUME NEW c, IsObject(c)
    PROVE  OnEndMap(c) =
               Object(Front(c.mappers), Front(Front(c.items)), Front(c.mapKeys), c.seenFields,
                      c.seenOneof, TracksSeen(Last(Front(c.mappers))), c.tree, c.missing, c.crashed)
<1> DEFINE d == PopMapper(c)
<1>1. d = Object(Front(c.mappers), c.items, c.mapKeys, c.seenFields, c.seenOneof,
                 TracksSeen(Last(Front(c.mappers))), c.tree, c.missing, c.crashed)
  BY PopMapperIs
<1> DEFINE e == [d EXCEPT !.items = Front(Front(@))]
<1>2. OnEndMap(c) = [e EXCEPT !.mapKeys = Front(@)]
  BY DEF OnEndMap
<1> HIDE DEF d
<1>3. e = Object(Front(c.mappers), Front(Front(c.items)), c.mapKeys, c.seenFields, c.seenOneof,
                 TracksSeen(Last(Front(c.mappers))), c.tree, c.missing, c.crashed)
  BY <1>1 DEF Object
<1> HIDE DEF e
<1> QED
  BY <1>2, <1>3 DEF Object

\* on_start_sub_message,
LEMMA OnStartSubMessageIs ==
    ASSUME NEW c, IsObject(c), NEW f, NEW junk, NEW m, m = Schema[Mapper(c)][f].message
    PROVE  OnStartSubMessage(c, f, junk) =
               Object(Append(c.mappers, m), Append(TargetItems(c, f), TargetPath(c, f)), c.mapKeys,
                      IF TracksSeen(m) THEN Append(Marked(c, f), junk) ELSE Marked(c, f),
                      IF Oneofs(m) # {}
                      THEN Append(TargetOneof(c, f), [o \in Oneofs(m) |-> NoField])
                      ELSE TargetOneof(c, f),
                      TracksSeen(m),
                      Put(TargetTree(c, f), TargetPath(c, f),
                          Hash(m, IF TargetPath(c, f) \in DOMAIN TargetTree(c, f) THEN 2 ELSE 1)),
                      c.missing, c.crashed)
<1> DEFINE b == MarkSeen(c, f)
           d == Target(b, f)
           path == TargetPath(c, f)
<1>1. b = Object(c.mappers, c.items, c.mapKeys, Marked(c, f), c.seenOneof, c.track,
                 c.tree, c.missing, c.crashed)
  BY MarkSeenIs
<1>2. /\ b.mappers = c.mappers /\ b.mapKeys = c.mapKeys /\ b.seenFields = Marked(c, f)
      /\ b.track = c.track /\ b.missing = c.missing /\ b.crashed = c.crashed
  BY <1>1 DEF Object
<1>3. /\ IsObject(b) /\ TargetPath(b, f) = TargetPath(c, f)
      /\ TargetItems(b, f) = TargetItems(c, f) /\ TargetOneof(b, f) = TargetOneof(c, f)
      /\ TargetTree(b, f) = TargetTree(c, f)
  BY TargetOfMarked
<1> HIDE DEF b
<1>4. d = Object(c.mappers, TargetItems(c, f), c.mapKeys, Marked(c, f), TargetOneof(c, f),
                 c.track, TargetTree(c, f), c.missing, c.crashed)
  BY <1>2, <1>3, TargetIs
<1>5. OnStartSubMessage(c, f, junk) =
        LET old  == path \in DOMAIN d.tree
            e    == PushMapper([d EXCEPT
                        !.tree = Put(@, path, Hash(m, IF old THEN 2 ELSE 1)),
                        !.items = Append(@, path)], m)
        IN  [e EXCEPT
                !.seenFields = IF e.track THEN Append(@, junk) ELSE @,
                !.seenOneof = IF Oneofs(m) # {}
                              THEN Append(@, [o \in Oneofs(m) |-> NoField]) ELSE @]
  BY DEF OnStartSubMessage, b
<1> HIDE DEF d, path
<1> DEFINE d1 == [d EXCEPT
                     !.tree = Put(@, path, Hash(m, IF path \in DOMAIN d.tree THEN 2 ELSE 1))]
           d2 == [d1 EXCEPT !.items = Append(@, path)]
           e == PushMapper(d2, m)
           e1 == [e EXCEPT !.seenFields = IF e.track THEN Append(@, junk) ELSE @]
<1>10. d1 = Object(d.mappers, d.items, d.mapKeys, d.seenFields, d.seenOneof,
                  d.track, Put(d.tree, path, Hash(m, IF path \in DOMAIN d.tree THEN 2 ELSE 1)),
                  d.missing, d.crashed)
  BY <1>4 DEF Object
<1>8. OnStartSubMessage(c, f, junk) =
        [e1 EXCEPT
           !.seenOneof = IF Oneofs(m) # {}
                         THEN Append(@, [o \in Oneofs(m) |-> NoField]) ELSE @]
  BY <1>5
<1> HIDE DEF d1
<1>7. d2 = Object(d.mappers, Append(d.items, path), d.mapKeys, d.seenFields, d.seenOneof,
                  d.track, Put(d.tree, path, Hash(m, IF path \in DOMAIN d.tree THEN 2 ELSE 1)),
                  d.missing, d.crashed)
  <2>1. IsObject(d1)
    BY <1>10 DEF IsObject, Object
  <2>2. d2 = Object(d1.mappers, Append(d1.items, path), d1.mapKeys, d1.seenFields, d1.seenOneof,
                    d1.track, d1.tree, d1.missing, d1.crashed)
    BY <2>1 DEF IsObject, Object
  <2> QED
    BY <1>10, <2>2 DEF Object
<1> HIDE DEF d2
<1>9. e = Object(Append(d.mappers, m), Append(d.items, path), d.mapKeys, d.seenFields,
                 d.seenOneof, TracksSeen(m),
                 Put(d.tree, path, Hash(m, IF path \in DOMAIN d.tree THEN 2 ELSE 1)),
                 d.missing, d.crashed)
  <2>1. e = Object(Append(d2.mappers, m), d2.items, d2.mapKeys, d2.seenFields, d2.seenOneof,
                   TracksSeen(m), d2.tree, d2.missing, d2.crashed)
    BY <1>7, PushMapperIs DEF IsObject, Object
  <2> QED
    BY <1>7, <2>1 DEF Object
<1> HIDE DEF e
<1>11. e1 = Object(Append(d.mappers, m), Append(d.items, path), d.mapKeys,
                  IF TracksSeen(m) THEN Append(d.seenFields, junk) ELSE d.seenFields,
                  d.seenOneof, TracksSeen(m),
                  Put(d.tree, path, Hash(m, IF path \in DOMAIN d.tree THEN 2 ELSE 1)),
                  d.missing, d.crashed)
  <2>1. IsObject(e)
    BY <1>9 DEF IsObject, Object
  <2>2. e1 = Object(e.mappers, e.items, e.mapKeys,
                    IF e.track THEN Append(e.seenFields, junk) ELSE e.seenFields, e.seenOneof,
                    e.track, e.tree, e.missing, e.crashed)
    BY <2>1 DEF IsObject, Object
  <2> QED
    BY <1>9, <2>2 DEF Object
<1> HIDE DEF e1
<1>6. OnStartSubMessage(c, f, junk) =
        Object(Append(d.mappers, m), Append(d.items, path), d.mapKeys,
               IF TracksSeen(m) THEN Append(d.seenFields, junk) ELSE d.seenFields,
               IF Oneofs(m) # {} THEN Append(d.seenOneof, [o \in Oneofs(m) |-> NoField])
               ELSE d.seenOneof,
               TracksSeen(m),
               Put(d.tree, path, Hash(m, IF path \in DOMAIN d.tree THEN 2 ELSE 1)),
               d.missing, d.crashed)
  <2>1. IsObject(e1)
    BY <1>11 DEF IsObject, Object
  <2>2. OnStartSubMessage(c, f, junk) =
          Object(e1.mappers, e1.items, e1.mapKeys, e1.seenFields,
                 IF Oneofs(m) # {} THEN Append(e1.seenOneof, [o \in Oneofs(m) |-> NoField])
                 ELSE e1.seenOneof,
                 e1.track, e1.tree, e1.missing, e1.crashed)
    BY <1>8, <2>1 DEF IsObject, Object
  <2> QED
    BY <1>11, <2>2 DEF Object
<1> QED
  BY <1>4, <1>6 DEF Object, path

\* on_end_sub_message,
LEMMA OnEndSubMessageIs ==
    ASSUME NEW c, IsObject(c)
    PROVE  OnEndSubMessage(c) =
               Object(Front(c.mappers), Front(c.items), c.mapKeys,
                      IF c.track THEN Front(c.seenFields) ELSE c.seenFields,
                      IF Oneofs(Mapper(c)) # {} THEN Front(c.seenOneof) ELSE c.seenOneof,
                      TracksSeen(Last(Front(c.mappers))), c.tree, c.missing, c.crashed)
<1> DEFINE b == [c EXCEPT !.seenOneof = IF Oneofs(Mapper(c)) # {} THEN Front(@) ELSE @]
           d == [b EXCEPT !.seenFields = IF c.track THEN Front(@) ELSE @]
           e == PopMapper(d)
<1>5. b = Object(c.mappers, c.items, c.mapKeys, c.seenFields,
                 IF Oneofs(Mapper(c)) # {} THEN Front(c.seenOneof) ELSE c.seenOneof,
                 c.track, c.tree, c.missing, c.crashed)
  BY DEF IsObject, Object
<1>2. OnEndSubMessage(c) = [e EXCEPT !.items = Front(@)]
  BY DEF OnEndSubMessage
<1> HIDE DEF b
<1>1. d = Object(c.mappers, c.items, c.mapKeys,
                 IF c.track THEN Front(c.seenFields) ELSE c.seenFields,
                 IF Oneofs(Mapper(c)) # {} THEN Front(c.seenOneof) ELSE c.seenOneof,
                 c.track, c.tree, c.missing, c.crashed)
  BY <1>5 DEF Object
<1> HIDE DEF d
<1>3. e = Object(Front(d.mappers), d.items, d.mapKeys, d.seenFields, d.seenOneof,
                 TracksSeen(Last(Front(d.mappers))), d.tree, d.missing, d.crashed)
  BY <1>1, PopMapperIs DEF IsObject, Object
<1> HIDE DEF e
<1>4. OnEndSubMessage(c) =
          Object(Front(d.mappers), Front(d.items), d.mapKeys, d.seenFields, d.seenOneof,
                 TracksSeen(Last(Front(d.mappers))), d.tree, d.missing, d.crashed)
  BY <1>2, <1>3 DEF Object
<1> QED
  BY <1>1, <1>4 DEF Object

DefaultPaths(c) == {Child(Last(c.items), "field", f) : f \in ToDefault(c)} \ DOMAIN c.tree

\* the defaults of a message,
LEMMA DefaultFieldsIs ==
    ASSUME NEW c, IsObject(c)
    PROVE  DefaultFields(c) =
               Object(c.mappers, c.items, c.mapKeys, c.seenFields, c.seenOneof, c.track,
                      PutAll(c.tree, DefaultPaths(c), Default), c.missing, c.crashed)
<1>1. DefaultFields(c) = [c EXCEPT !.tree = PutAll(@, DefaultPaths(c), Default)]
  BY DEF DefaultFields, DefaultPaths, PutAll
<1> QED
  BY <1>1 DEF IsObject, Object

DefaultKeys(c) ==
    IF KeyField \in ToDefault(c) /\ Last(c.mapKeys) = NoKey
       /\ ~Traits[Mapper(c)][KeyField].string
    THEN SetLast(c.mapKeys, [key |-> DefaultKey]) ELSE c.mapKeys

\* those of an entry,
LEMMA DefaultEntryIs ==
    ASSUME NEW c, IsObject(c)
    PROVE  LET v == ValueField \in ToDefault(c)
           IN  DefaultEntry(c) =
                   Object(c.mappers, IF v THEN TargetItems(c, ValueField) ELSE c.items,
                          DefaultKeys(c), c.seenFields,
                          IF v THEN TargetOneof(c, ValueField) ELSE c.seenOneof, c.track,
                          IF v THEN Put(TargetTree(c, ValueField), TargetPath(c, ValueField), Default)
                          ELSE c.tree,
                          c.missing, c.crashed)
<1> DEFINE d == IF KeyField \in ToDefault(c) /\ Last(c.mapKeys) = NoKey
                   /\ ~Traits[Mapper(c)][KeyField].string
                THEN [c EXCEPT !.mapKeys = SetLast(@, [key |-> DefaultKey])] ELSE c
<1>1. d = Object(c.mappers, c.items, DefaultKeys(c), c.seenFields, c.seenOneof, c.track,
                 c.tree, c.missing, c.crashed)
  BY DEF DefaultKeys, IsObject, Object
<1>2. DefaultEntry(c) = IF ValueField \in ToDefault(c) THEN StoreAt(d, ValueField, Default) ELSE d
  BY DEF DefaultEntry
<1> HIDE DEF d
<1>3. /\ d.mappers = c.mappers /\ d.items = c.items /\ d.seenOneof = c.seenOneof
      /\ d.tree = c.tree /\ IsObject(d)
  BY <1>1 DEF Object, IsObject
<1>4. /\ TargetPath(d, ValueField) = TargetPath(c, ValueField)
      /\ TargetItems(d, ValueField) = TargetItems(c, ValueField)
      /\ TargetOneof(d, ValueField) = TargetOneof(c, ValueField)
      /\ TargetTree(d, ValueField) = TargetTree(c, ValueField)
  BY <1>3, TargetSame
<1>5. StoreAt(d, ValueField, Default) =
          Object(d.mappers, TargetItems(d, ValueField), d.mapKeys, d.seenFields,
                 TargetOneof(d, ValueField), d.track,
                 Put(TargetTree(d, ValueField), TargetPath(d, ValueField), Default), d.missing,
                 d.crashed)
  BY <1>3, StoreAtIs
<1>6. StoreAt(d, ValueField, Default) =
          Object(c.mappers, TargetItems(c, ValueField), DefaultKeys(c), c.seenFields,
                 TargetOneof(c, ValueField), c.track,
                 Put(TargetTree(c, ValueField), TargetPath(c, ValueField), Default), c.missing,
                 c.crashed)
  BY <1>1, <1>4, <1>5 DEF Object
<1> QED
  BY <1>1, <1>2, <1>6

\* The tree with the value of an entry where its key says.
EntryTree(c) ==
    LET map   == c.items[Len(c.items) - 1]
        key   == Last(c.mapKeys)
        empty == IF Schema[Mapper(c)][ValueField].message = NoMessage THEN Default ELSE Undef
        tree  == IF Last(c.items) = NULL THEN Put(c.tree, Value(map), empty) ELSE c.tree
    IN  IF key = NoKey THEN Drop(c.tree, Value(map))
        ELSE Move(tree, Value(map), Child(map, "key", key.key))

Forgotten(c) ==
    IF c.track /\ ~Traits[Mapper(c)][KeyField].string
    THEN SetLast(c.seenFields, Last(c.seenFields) \ {ValueField}) ELSE c.seenFields

\* on_end_map_entry,
LEMMA OnEndMapEntryIs ==
    ASSUME NEW c, IsObject(c)
    PROVE  OnEndMapEntry(c) =
               Object(c.mappers, SetLast(c.items, NULL), SetLast(c.mapKeys, NoKey), Forgotten(c),
                      c.seenOneof, c.track, EntryTree(c), c.missing, c.crashed)
<1> DEFINE b == StoreEntry(c)
           d == [b EXCEPT !.mapKeys = SetLast(@, NoKey)]
           e == [d EXCEPT !.items = SetLast(@, NULL)]
<1>1. b = Object(c.mappers, c.items, c.mapKeys, c.seenFields, c.seenOneof, c.track,
                 EntryTree(c), c.missing, c.crashed)
  <2>1. b = [c EXCEPT !.tree = EntryTree(c)]
    BY DEF StoreEntry, EntryTree
  <2> HIDE DEF b
  <2> QED
    BY <2>1 DEF IsObject, Object
<1>2. OnEndMapEntry(c) =
        [e EXCEPT !.seenFields = IF b.track /\ ~Traits[Mapper(b)][KeyField].string
                                 THEN SetLast(@, Last(@) \ {ValueField}) ELSE @]
  BY DEF OnEndMapEntry, ForgetEntry
<1>3. IsObject(b) /\ Mapper(b) = Mapper(c) /\ b.track = c.track
  BY <1>1 DEF IsObject, Object, Mapper
<1> HIDE DEF b
<1>4. d = Object(b.mappers, b.items, SetLast(b.mapKeys, NoKey), b.seenFields, b.seenOneof, b.track,
                 b.tree, b.missing, b.crashed)
  BY <1>3 DEF IsObject, Object
<1>5. IsObject(d)
  BY <1>4 DEF IsObject, Object
<1> HIDE DEF d
<1>6. e = Object(d.mappers, SetLast(d.items, NULL), d.mapKeys, d.seenFields, d.seenOneof, d.track,
                 d.tree, d.missing, d.crashed)
  BY <1>5 DEF IsObject, Object
<1>7. IsObject(e)
  BY <1>6 DEF IsObject, Object
<1> HIDE DEF e
<1>8. OnEndMapEntry(c) =
        Object(e.mappers, e.items, e.mapKeys,
               IF c.track /\ ~Traits[Mapper(c)][KeyField].string
               THEN SetLast(e.seenFields, Last(e.seenFields) \ {ValueField}) ELSE e.seenFields,
               e.seenOneof, e.track, e.tree, e.missing, e.crashed)
  BY <1>2, <1>3, <1>7 DEF IsObject, Object
<1>9. e = Object(c.mappers, SetLast(c.items, NULL), SetLast(c.mapKeys, NoKey), c.seenFields,
                 c.seenOneof, c.track, EntryTree(c), c.missing, c.crashed)
  BY <1>1, <1>4, <1>6 DEF Object
<1> QED
  BY <1>8, <1>9 DEF Object, Forgotten

\* and clear.
LEMMA ClearedIs ==
    ASSUME NEW c, IsObject(c)
    PROVE  Cleared(c) =
               Object(c.mappers, <<>>, <<>>, c.seenFields, c.seenOneof, c.track, c.tree, c.missing,
                      c.crashed)
<1> DEFINE d == [c EXCEPT !.items = <<>>]
<1>1. Cleared(c) = [d EXCEPT !.mapKeys = <<>>]
  BY DEF Cleared
<1>2. d = Object(c.mappers, <<>>, c.mapKeys, c.seenFields, c.seenOneof, c.track, c.tree, c.missing,
                 c.crashed)
  BY DEF IsObject, Object
<1> HIDE DEF d
<1> QED
  BY <1>1, <1>2 DEF Object

----------------------------------------------------------------------------
(* Stacks.                                                                        *)

\* A stack with another top entry,
LEMMA SetLastIs ==
    ASSUME NEW S, NEW s \in Seq(S), s # <<>>, NEW e \in S
    PROVE  /\ SetLast(s, e) \in Seq(S) /\ Len(SetLast(s, e)) = Len(s) /\ Len(s) \in Nat \ {0}
           /\ DOMAIN SetLast(s, e) = 1..Len(s) /\ DOMAIN s = 1..Len(s)
           /\ \A i \in 1..(Len(s) - 1) : SetLast(s, e)[i] = s[i]
           /\ SetLast(s, e)[Len(s)] = e /\ Last(SetLast(s, e)) = e
<1>1. Len(s) \in Nat \ {0}
  BY LenProperties, EmptySeq
<1>2. Len(s) \in 1..Len(s)
  BY <1>1
<1>3. /\ [s EXCEPT ![Len(s)] = e] \in Seq(S)
      /\ Len([s EXCEPT ![Len(s)] = e]) = Len(s)
      /\ \A j \in 1..Len(s) : [s EXCEPT ![Len(s)] = e][j] = IF j = Len(s) THEN e ELSE s[j]
  BY <1>2, ExceptSeq
<1> DEFINE E == SetLast(s, e)
<1>4. /\ E \in Seq(S) /\ Len(E) = Len(s)
      /\ \A j \in 1..Len(s) : E[j] = IF j = Len(s) THEN e ELSE s[j]
  BY <1>3 DEF SetLast
<1> HIDE DEF E
<1>5. DOMAIN E = 1..Len(s) /\ DOMAIN s = 1..Len(s)
  BY <1>4, LenProperties
<1>6. \A i \in 1..(Len(s) - 1) : i \in 1..Len(s) /\ i # Len(s)
  BY <1>1
<1>7. \A i \in 1..(Len(s) - 1) : E[i] = s[i]
  BY <1>4, <1>6
<1>8. E[Len(s)] = e
  BY <1>2, <1>4
<1>9. Last(E) = e
  BY <1>4, <1>8 DEF Last
<1> QED
  BY <1>1, <1>4, <1>5, <1>7, <1>8, <1>9 DEF E

\* without it,
LEMMA FrontOf ==
    ASSUME NEW S, NEW s \in Seq(S), s # <<>>
    PROVE  /\ Front(s) \in Seq(S) /\ Len(Front(s)) = Len(s) - 1 /\ Len(s) \in Nat \ {0}
           /\ DOMAIN Front(s) = 1..(Len(s) - 1) /\ DOMAIN s = 1..Len(s)
           /\ \A i \in 1..(Len(s) - 1) : Front(s)[i] = s[i]
           /\ Last(s) = s[Len(s)] /\ Last(s) \in S
<1>1. Len(s) \in Nat \ {0}
  BY LenProperties, EmptySeq
<1>2. PICK n \in Nat : n = Len(s) - 1
  BY <1>1
<1>3. \A i \in 1..n : i \in 1..Len(s)
  BY <1>1, <1>2
<1>4. \A i \in 1..Len(s) : s[i] \in S
  BY ElementOfSeq
<1>5. \A i \in 1..n : s[i] \in S
  BY <1>3, <1>4
<1> DEFINE E == SubSeq(s, 1, n)
<1>6. /\ E \in Seq(S)
      /\ Len(E) = IF 1 <= n THEN n - 1 + 1 ELSE 0
      /\ \A i \in 1..(n - 1 + 1) : E[i] = s[1 + i - 1]
  BY <1>5, SubSeqProperties
<1> HIDE DEF E
<1>7. Len(E) = n
  BY <1>2, <1>6
<1>8. ASSUME NEW i \in 1..n PROVE E[i] = s[i]
  <2>1. i \in 1..(n - 1 + 1) /\ 1 + i - 1 = i
    BY <1>2
  <2> QED
    BY <1>6, <2>1
<1>9. Front(s) = E
  BY <1>2 DEF Front, E
<1>10. DOMAIN E = 1..n /\ DOMAIN s = 1..Len(s)
  BY <1>6, <1>7, LenProperties
<1>11. Last(s) = s[Len(s)] /\ Len(s) \in 1..Len(s)
  BY <1>1 DEF Last
<1> QED
  BY <1>1, <1>2, <1>4, <1>6, <1>7, <1>8, <1>9, <1>10, <1>11

\* and with one more.
LEMMA AppendOf ==
    ASSUME NEW S, NEW s \in Seq(S), NEW e \in S
    PROVE  /\ Append(s, e) \in Seq(S) /\ Len(Append(s, e)) = Len(s) + 1 /\ Len(s) \in Nat
           /\ DOMAIN Append(s, e) = 1..(Len(s) + 1) /\ DOMAIN s = 1..Len(s)
           /\ \A i \in 1..Len(s) : Append(s, e)[i] = s[i]
           /\ Append(s, e)[Len(s) + 1] = e /\ Last(Append(s, e)) = e
           /\ Append(s, e) # <<>>
<1>1. Len(s) \in Nat /\ DOMAIN s = 1..Len(s)
  BY LenProperties
<1>2. /\ Append(s, e) \in Seq(S) /\ Len(Append(s, e)) = Len(s) + 1
      /\ \A i \in 1..Len(s) : Append(s, e)[i] = s[i]
      /\ Append(s, e)[Len(s) + 1] = e
  BY AppendProperties
<1>3. DOMAIN Append(s, e) = 1..(Len(s) + 1)
  BY <1>2, LenProperties
<1>4. Append(s, e) # <<>>
  BY <1>1, <1>3
<1> QED
  BY <1>1, <1>2, <1>3, <1>4 DEF Last

----------------------------------------------------------------------------
(* Counting levels.                                                               *)

\* Upto counts the levels of a set, up to a level.
LEMMA UptoIs ==
    ASSUME NEW N \in Nat, NEW S \in SUBSET (1..N)
    PROVE  /\ \A n \in Nat : Upto(S, n) \in Nat
           /\ Upto(S, 0) = 0
           /\ \A n \in Nat \ {0} : Upto(S, n) = Upto(S, n - 1) + IF n \in S THEN 1 ELSE 0
           /\ \A j, k \in Nat : j <= k => Upto(S, j) <= Upto(S, k)
           /\ Cardinality(S) \in Nat /\ Upto(S, N) = Cardinality(S)
<1> DEFINE U(n) == {i \in S : i <= n}
<1>0. /\ \A i \in S : i \in Nat /\ 1 <= i /\ i <= N
      /\ \A n \in Nat : U(n) \subseteq S
      /\ \A n \in Nat : \A i \in S : i \in U(n) <=> i <= n
  OBVIOUS
<1>1. IsFiniteSet(S) /\ Cardinality(S) \in Nat
  <2>1. IsFiniteSet(1..N) /\ S \subseteq 1..N
    BY FS_Interval
  <2> QED
    BY <2>1, FS_Subset, FS_CardinalityType
<1>3. \A n \in Nat : Upto(S, n) = Cardinality(U(n))
  BY DEF Upto
<1> HIDE DEF U
<1>2. ASSUME NEW n \in Nat PROVE IsFiniteSet(U(n)) /\ Cardinality(U(n)) \in Nat
  BY <1>0, <1>1, FS_Subset, FS_CardinalityType
<1>4. U(0) = {}
  <2>1. ASSUME NEW i \in U(0) PROVE FALSE
    <3>1. i \in S
      BY <1>0
    <3>2. i \in Nat /\ 1 <= i /\ i <= 0
      BY <3>1, <1>0
    <3> QED
      BY <3>2
  <2> QED
    BY <2>1
<1>5. Cardinality(U(0)) = 0
  BY <1>4, FS_EmptySet
<1>6. U(N) = S
  BY <1>0
<1>7. ASSUME NEW n \in Nat \ {0}
      PROVE  Cardinality(U(n)) = Cardinality(U(n - 1)) + IF n \in S THEN 1 ELSE 0
  <2>1. PICK k \in Nat : k = n - 1
    BY <1>7
  <2>2. IsFiniteSet(U(k))
    BY <1>2
  <2>5. ASSUME NEW i \in U(k) PROVE i \in U(n)
    <3>1. i \in S
      BY <1>0
    <3>2. i \in Nat /\ i <= k
      BY <3>1, <1>0
    <3>3. i <= n
      BY <3>2, <2>1
    <3> QED
      BY <3>1, <3>3, <1>0
  <2>6. ASSUME NEW i \in U(n), i # n PROVE i \in U(k)
    <3>1. i \in S
      BY <1>0
    <3>2. i \in Nat /\ i <= n
      BY <3>1, <1>0
    <3>3. i <= k
      BY <3>2, <2>1, <2>6
    <3> QED
      BY <3>1, <3>3, <1>0
  <2>3. CASE n \in S
    <3>1. U(n) = U(k) \cup {n} /\ n \notin U(k)
      <4>1. n \in U(n) /\ n \notin U(k)
        BY <1>0, <2>1, <2>3
      <4> QED
        BY <4>1, <2>5, <2>6
    <3>2. Cardinality(U(k) \cup {n}) = Cardinality(U(k)) + 1
      BY <2>2, <3>1, FS_AddElement
    <3> QED
      BY <2>1, <2>3, <3>1, <3>2
  <2>4. CASE n \notin S
    <3>1. U(n) = U(k)
      <4>1. n \notin U(n)
        BY <1>0, <2>4
      <4>2. \A i \in U(n) : i \in U(k)
        BY <4>1, <2>6
      <4>3. \A i \in U(k) : i \in U(n)
        BY <2>5
      <4> QED
        BY <4>2, <4>3
    <3>2. Cardinality(U(k)) \in Nat
      BY <1>2
    <3> QED
      BY <2>1, <2>4, <3>1, <3>2
  <2> QED
    BY <2>3, <2>4
<1>8. ASSUME NEW j \in Nat, NEW k \in Nat, j <= k
      PROVE  Cardinality(U(j)) <= Cardinality(U(k))
  <2>1. ASSUME NEW i \in U(j) PROVE i \in U(k)
    <3>1. i \in S
      BY <1>0
    <3>2. i \in Nat /\ i <= j
      BY <3>1, <1>0
    <3>3. i <= k
      BY <3>2, <1>8
    <3> QED
      BY <3>1, <3>3, <1>0
  <2>2. U(j) \subseteq U(k)
    BY <2>1
  <2> QED
    BY <1>2, <2>2, FS_Subset
<1>9. \A n \in Nat \ {0} : n - 1 \in Nat
  OBVIOUS
<1> QED
  BY <1>1, <1>2, <1>3, <1>5, <1>6, <1>7, <1>8, <1>9

\* It is the same for sets that agree up to there.
LEMMA UptoSame ==
    ASSUME NEW N \in Nat, NEW S \in SUBSET (1..N), NEW M \in Nat, NEW T \in SUBSET (1..M),
           NEW n \in Nat, \A i \in 1..n : i \in S <=> i \in T
    PROVE  Upto(S, n) = Upto(T, n)
<1>1. \A i \in S \cup T : i \in Nat /\ 1 <= i
  OBVIOUS
<1>2. \A i \in S \cup T : i <= n => i \in 1..n
  BY <1>1
<1>3. {i \in S : i <= n} = {i \in T : i <= n}
  BY <1>2
<1> QED
  BY <1>3 DEF Upto

----------------------------------------------------------------------------
(* Levels: what the tokens say of the messages that are open.                     *)

Levels == [type: Messages, field: Nat, seq: {"none", "empty", "open"}]

Entered(level) ==
    /\ level.field \in FieldsOf(level.type)
    /\ Schema[level.type][level.field].repeated <=> level.seq # "none"

LevelsOK(L, tok) ==
    /\ L \in Seq(Levels) /\ L # <<>>
    /\ L[1].type \in Roots
    /\ \A i \in DOMAIN L : L[i].seq # "none" => Entered(L[i])
    /\ \A i \in DOMAIN L :
          i < Len(L) => Entered(L[i]) /\ Schema[L[i].type][L[i].field].message = L[i + 1].type
    /\ tok = "FIELD" => Entered(L[Len(L)])
    /\ tok = "END_MESSAGE" => L[Len(L)].seq = "none"

----------------------------------------------------------------------------
(* The stacks.                                                                    *)

OwnOf(L) == {i \in DOMAIN L : ~InEntry(L[i])}
MapsOf(L) == {i \in DOMAIN L : OpenMap(L[i])}
ListsOf(L) == {i \in DOMAIN L : OpenList(L[i])}
TrackingOf(L) == {i \in OwnOf(L) : TracksSeen(L[i].type)}
ChoosingOf(L) == {i \in OwnOf(L) : Oneofs(L[i].type) # {}}
HeightOf(L, n) == Upto(OwnOf(L), n) + 2 * Upto(MapsOf(L), n) + Upto(ListsOf(L), n)

OneofState(m) ==
    {s \in [Oneofs(m) -> {NoField} \cup FieldsOf(m)] :
        \A o \in Oneofs(m) : s[o] = NoField \/ Traits[m][s[o]].oneof = o}
OneofStates == UNION {OneofState(m) : m \in Messages}

IsCxt(c) ==
    /\ IsObject(c)
    /\ c.mappers \in Seq(Messages) /\ c.mappers # <<>> /\ c.mappers[1] \in Roots
    /\ c.items \in Seq(Paths \cup {NULL})
    /\ c.mapKeys \in Seq([key: Keys] \cup {NoKey})
    /\ c.seenFields \in Seq(SUBSET Nat)
    /\ c.seenOneof \in Seq(OneofStates)
    /\ c.track \in BOOLEAN /\ c.crashed \in BOOLEAN
    /\ c.missing \in Nat

MappersOK(L, c) ==
    /\ Len(c.mappers) = Len(L) + IF OpenMap(L[Len(L)]) THEN 1 ELSE 0
    /\ \A i \in DOMAIN L : c.mappers[i] = L[i].type
    /\ OpenMap(L[Len(L)]) =>
          c.mappers[Len(L) + 1] = Schema[L[Len(L)].type][L[Len(L)].field].message
    /\ c.track = TracksSeen(Mapper(c))

FieldsOK(L, seen) ==
    /\ Cardinality(TrackingOf(L)) <= Len(seen)
    /\ TracksSeen(L[1].type) => Cardinality(TrackingOf(L)) = Len(seen)

OneofsOK(L, seen) ==
    /\ Cardinality(ChoosingOf(L)) <= Len(seen)
    /\ Oneofs(L[1].type) # {} => Cardinality(ChoosingOf(L)) = Len(seen)
    /\ \A i \in ChoosingOf(L) :
          seen[Len(seen) - Cardinality(ChoosingOf(L)) + Upto(ChoosingOf(L), i)]
              \in OneofState(L[i].type)

SeenOK(L, c) ==
    /\ Len(c.mapKeys) = Cardinality(MapsOf(L))
    /\ FieldsOK(L, c.seenFields)
    /\ OneofsOK(L, c.seenOneof)

----------------------------------------------------------------------------
(* The items.                                                                     *)

Values(t) == {p \in DOMAIN t : p # <<>> /\ Last(p)[1] = "value"}

\* What the handlers hold: a chain of nodes of the tree, from its root.
Chain(it, t) ==
    /\ \A k \in DOMAIN it : it[k] = NULL => k = Len(it)
    /\ \A k \in DOMAIN it : it[k] # NULL => it[k] \in DOMAIN t
    /\ \A j, k \in DOMAIN it : j <= k /\ it[k] # NULL => IsPrefix(it[j], it[k])
    /\ Values(t) \subseteq {it[k] : k \in DOMAIN it}

HashAt(L, it, t, i) ==
    LET k == HeightOf(L, i - 1) + 1
    IN  /\ it[k] # NULL
        /\ t[it[k]].kind = "hash" /\ t[it[k]].type = L[i].type
        /\ i > 1 => /\ it[k] # <<>> /\ it[k] # Value(it[k - 1])
                    /\ Last(it[k])[1] = "value" => it[k] = it[k - 1]
MapAt(L, it, i) ==
    LET k == HeightOf(L, i)
    IN  /\ it[k - 1] = Child(it[k - 2], "field", L[i].field)
        /\ it[k] \in {NULL, Value(it[k - 1])}
ListAt(L, it, i) ==
    LET k == HeightOf(L, i) IN it[k] = Child(it[k - 1], "field", L[i].field)

ItemsOK(L, it, t) ==
    /\ Len(it) = HeightOf(L, Len(L)) /\ it[1] = <<>>
    /\ Chain(it, t)
    /\ \A i \in OwnOf(L) : HashAt(L, it, t, i)
    /\ \A i \in MapsOf(L) : MapAt(L, it, i)
    /\ \A i \in ListsOf(L) : ListAt(L, it, i)

PendingOK(L, tok, c) ==
    OpenMap(L[Len(L)]) /\ tok # "FIELD" =>
        Last(c.mapKeys) = NoKey /\ Last(c.items) = NULL

----------------------------------------------------------------------------
(* Levels.                                                                        *)

\* The parts of a level.
LEMMA LevelsAre ==
    ASSUME NEW L \in Seq(Levels)
    PROVE  /\ Len(L) \in Nat /\ DOMAIN L = 1..Len(L)
           /\ \A i \in DOMAIN L :
                 /\ L[i] = [type |-> L[i].type, field |-> L[i].field, seq |-> L[i].seq]
                 /\ L[i].type \in Messages /\ L[i].field \in Nat
                 /\ L[i].seq \in {"none", "empty", "open"}
<1>1. Len(L) \in Nat /\ DOMAIN L = 1..Len(L)
  BY LenProperties
<1>2. ASSUME NEW i \in DOMAIN L PROVE L[i] \in Levels
  <2>1. i \in 1..Len(L)
    BY <1>1
  <2> QED
    BY <2>1, ElementOfSeq
<1>3. \A l \in Levels :
         /\ l = [type |-> l.type, field |-> l.field, seq |-> l.seq]
         /\ l.type \in Messages /\ l.field \in Nat /\ l.seq \in {"none", "empty", "open"}
  BY DEF Levels
<1> QED
  BY <1>1, <1>2, <1>3

\* What is open is a repeated field of a message of its own, and an entry is entered where
\* a map is open.
LEMMA OpenIs ==
    ASSUME NEW level \in Levels, level.seq # "none", Entered(level)
    PROVE  /\ ~InEntry(level)
           /\ OpenMap(level) => Schema[level.type][level.field].message \in Entries
           /\ OpenList(level) <=> ~OpenMap(level)
<1>1. level.type \in Messages /\ level.field \in FieldsOf(level.type)
  BY DEF Levels, Entered
<1>2. Traits[level.type][level.field].label = "repeated"
  BY <1>1, TraitsAssumption DEF Entered
<1> QED
  BY <1>1, <1>2, EntriesAssumption, TraitsAssumption DEF InEntry, OpenMap, OpenList

\* A field is an open map if and only if its type is that of the entries of a map.
LEMMA EntryIs ==
    ASSUME NEW level \in Levels, Entered(level)
    PROVE  Schema[level.type][level.field].message \in Entries <=> OpenMap(level)
<1>1. level.type \in Messages /\ level.field \in FieldsOf(level.type)
  BY DEF Levels, Entered
<1> QED
  BY <1>1, TraitsAssumption, MapsAssumption DEF Entered, OpenMap

\* What is so of every level: maps and lists are open fields, and above a map are its
\* entries.
LEMMA LevelIs ==
    ASSUME NEW L, NEW tok, LevelsOK(L, tok)
    PROVE  /\ L \in Seq(Levels) /\ Len(L) \in Nat \ {0} /\ DOMAIN L = 1..Len(L)
           /\ \A i \in DOMAIN L : L[i] \in Levels
           /\ ~InEntry(L[1]) /\ L[1].type \in Roots
           /\ \A i \in DOMAIN L : OpenMap(L[i]) \/ OpenList(L[i]) => L[i].seq # "none" /\ Entered(L[i])
           /\ \A i \in DOMAIN L :
                 /\ OpenMap(L[i]) => /\ ~InEntry(L[i]) /\ ~OpenList(L[i])
                                     /\ Schema[L[i].type][L[i].field].message \in Entries
                 /\ OpenList(L[i]) => ~InEntry(L[i]) /\ ~OpenMap(L[i])
           /\ \A i \in DOMAIN L : i < Len(L) => (InEntry(L[i + 1]) <=> OpenMap(L[i]))
<1>1. L \in Seq(Levels) /\ L # <<>>
  BY DEF LevelsOK
<1>2. Len(L) \in Nat \ {0} /\ DOMAIN L = 1..Len(L) /\ \A i \in DOMAIN L : L[i] \in Levels
  BY <1>1, LenProperties, ElementOfSeq, EmptySeq
<1>3. \A i \in DOMAIN L : OpenMap(L[i]) \/ OpenList(L[i]) => L[i].seq # "none" /\ Entered(L[i])
  BY DEF OpenMap, OpenList, LevelsOK
<1>4. \A i \in DOMAIN L :
         /\ OpenMap(L[i]) => /\ ~InEntry(L[i]) /\ ~OpenList(L[i])
                             /\ Schema[L[i].type][L[i].field].message \in Entries
         /\ OpenList(L[i]) => ~InEntry(L[i]) /\ ~OpenMap(L[i])
  BY <1>2, <1>3, OpenIs
<1>5. ASSUME NEW i \in DOMAIN L, i < Len(L) PROVE InEntry(L[i + 1]) <=> OpenMap(L[i])
  <2>1. Entered(L[i]) /\ Schema[L[i].type][L[i].field].message = L[i + 1].type
    BY <1>5 DEF LevelsOK
  <2> QED
    BY <2>1, <1>2, EntryIs DEF InEntry
<1>6. ~InEntry(L[1]) /\ L[1].type \in Roots
  BY MapsAssumption DEF LevelsOK, InEntry
<1> QED
  BY <1>1, <1>2, <1>3, <1>4, <1>5, <1>6

SetTop(L, v) == SetLast(L, v)

\* The levels with another top,
LEMMA SetTopIs ==
    ASSUME NEW L \in Seq(Levels), L # <<>>, NEW v \in Levels
    PROVE  /\ SetTop(L, v) \in Seq(Levels) /\ Len(SetTop(L, v)) = Len(L) /\ Len(L) \in Nat \ {0}
           /\ DOMAIN SetTop(L, v) = 1..Len(L) /\ DOMAIN L = 1..Len(L)
           /\ \A i \in 1..(Len(L) - 1) : SetTop(L, v)[i] = L[i]
           /\ SetTop(L, v)[Len(L)] = v
  BY SetLastIs DEF SetTop

\* which is of the same message, are levels again;
LEMMA SetTopLevels ==
    ASSUME NEW L, NEW tok, LevelsOK(L, tok), NEW v \in Levels, v.type = L[Len(L)].type, NEW tok2,
           v.seq # "none" => Entered(v), tok2 = "FIELD" => Entered(v),
           tok2 = "END_MESSAGE" => v.seq = "none"
    PROVE  LevelsOK(SetTop(L, v), tok2)
<1> DEFINE M == SetTop(L, v)
<1>1. L \in Seq(Levels) /\ L # <<>>
  BY DEF LevelsOK
<1>2. /\ M \in Seq(Levels) /\ Len(M) = Len(L) /\ Len(L) \in Nat \ {0}
      /\ DOMAIN M = 1..Len(L) /\ DOMAIN L = 1..Len(L)
      /\ \A i \in 1..(Len(L) - 1) : M[i] = L[i]
      /\ M[Len(L)] = v
  BY <1>1, SetTopIs
<1> HIDE DEF M
<1>3. M # <<>>
  BY <1>2
<1>4. M[1].type = L[1].type
  BY <1>2
<1>5. \A i \in DOMAIN M : M[i].seq # "none" => Entered(M[i])
  BY <1>2 DEF LevelsOK
<1>6. ASSUME NEW i \in DOMAIN M, i < Len(M)
      PROVE  Entered(M[i]) /\ Schema[M[i].type][M[i].field].message = M[i + 1].type
  <2>1. i \in 1..(Len(L) - 1) /\ i \in DOMAIN L /\ i < Len(L)
    BY <1>2, <1>6
  <2>2. Entered(L[i]) /\ Schema[L[i].type][L[i].field].message = L[i + 1].type
    BY <2>1 DEF LevelsOK
  <2>3. M[i] = L[i]
    BY <1>2, <2>1
  <2>4. M[i + 1].type = L[i + 1].type
    BY <1>2, <2>1
  <2> QED
    BY <2>2, <2>3, <2>4
<1>7. LevelsOK(M, tok2)
  BY <1>2, <1>3, <1>4, <1>5, <1>6 DEF LevelsOK
<1> QED
  BY <1>7 DEF M

\* so are those with the message of the field that is there,
LEMMA AppendLevels ==
    ASSUME NEW L, LevelsOK(L, "FIELD"), NEW v \in Levels, v.seq = "none",
           v.type = Schema[L[Len(L)].type][L[Len(L)].field].message
    PROVE  LevelsOK(Append(L, v), "none")
<1> DEFINE M == Append(L, v)
<1>1. L \in Seq(Levels) /\ Len(L) \in Nat \ {0} /\ DOMAIN L = 1..Len(L)
  BY LevelIs
<1>2. /\ M \in Seq(Levels) /\ Len(M) = Len(L) + 1 /\ \A i \in 1..Len(L) : M[i] = L[i]
      /\ M[Len(L) + 1] = v
  BY <1>1, AppendProperties
<1> HIDE DEF M
<1>3. DOMAIN M = 1..(Len(L) + 1) /\ M # <<>>
  BY <1>1, <1>2, LenProperties
<1>4. M[1].type \in Roots
  BY <1>1, <1>2 DEF LevelsOK
<1>5. \A i \in DOMAIN M : M[i].seq # "none" => Entered(M[i])
  BY <1>1, <1>2, <1>3 DEF LevelsOK
<1>6. ASSUME NEW i \in DOMAIN M, i < Len(M)
      PROVE  Entered(M[i]) /\ Schema[M[i].type][M[i].field].message = M[i + 1].type
  <2>1. i \in DOMAIN L /\ M[i] = L[i]
    BY <1>1, <1>2, <1>3, <1>6
  <2>2. CASE i < Len(L)
    <3>1. Entered(L[i]) /\ Schema[L[i].type][L[i].field].message = L[i + 1].type
      BY <2>1, <2>2 DEF LevelsOK
    <3>2. M[i + 1] = L[i + 1]
      BY <1>1, <1>2, <2>1, <2>2
    <3> QED
      BY <3>1, <3>2, <2>1
  <2>3. CASE i = Len(L)
    BY <2>1, <2>3, <1>2 DEF LevelsOK
  <2> QED
    BY <2>1, <2>2, <2>3, <1>1
<1>7. LevelsOK(M, "none")
  BY <1>2, <1>3, <1>4, <1>5, <1>6 DEF LevelsOK
<1> QED
  BY <1>7 DEF M

Below(L) == SubSeq(L, 1, Len(L) - 1)

\* and those below the top
LEMMA BelowIs ==
    ASSUME NEW L \in Seq(Levels), Len(L) > 1
    PROVE  /\ Below(L) \in Seq(Levels) /\ Len(Below(L)) = Len(L) - 1 /\ Len(L) \in Nat
           /\ DOMAIN Below(L) = 1..(Len(L) - 1) /\ DOMAIN L = 1..Len(L)
           /\ \A i \in 1..(Len(L) - 1) : Below(L)[i] = L[i]
<1>1. L # <<>>
  BY EmptySeq
<1>2. Below(L) = Front(L)
  BY DEF Below, Front
<1> QED
  BY <1>1, <1>2, FrontOf

\* of the messages around it.
LEMMA BelowLevels ==
    ASSUME NEW L, NEW tok, LevelsOK(L, tok), Len(L) > 1
    PROVE  LevelsOK(Below(L), "none")
<1> DEFINE M == Below(L)
<1>1. L \in Seq(Levels)
  BY DEF LevelsOK
<1>2. /\ M \in Seq(Levels) /\ Len(M) = Len(L) - 1 /\ Len(L) \in Nat
      /\ DOMAIN M = 1..(Len(L) - 1) /\ DOMAIN L = 1..Len(L)
      /\ \A i \in 1..(Len(L) - 1) : M[i] = L[i]
  BY <1>1, BelowIs
<1> HIDE DEF M
<1>3. M # <<>> /\ M[1].type \in Roots
  BY <1>2 DEF LevelsOK
<1>4. \A i \in DOMAIN M : M[i] = L[i] /\ i \in DOMAIN L /\ i < Len(L)
  BY <1>2
<1>5. \A i \in DOMAIN M : i < Len(M) => M[i + 1] = L[i + 1]
  BY <1>2
<1>6. LevelsOK(M, "none")
  BY <1>2, <1>3, <1>4, <1>5 DEF LevelsOK
<1> QED
  BY <1>6 DEF M

----------------------------------------------------------------------------
(* Heights.                                                                       *)

Weight(level) ==
    (IF InEntry(level) THEN 0 ELSE 1) + 2 * (IF OpenMap(level) THEN 1 ELSE 0)
        + (IF OpenList(level) THEN 1 ELSE 0)

\* The levels that push on each of the stacks.
LEMMA SetsOf ==
    ASSUME NEW L \in Seq(Levels)
    PROVE  /\ Len(L) \in Nat /\ OwnOf(L) \in SUBSET (1..Len(L)) /\ MapsOf(L) \in SUBSET (1..Len(L))
           /\ ListsOf(L) \in SUBSET (1..Len(L)) /\ TrackingOf(L) \in SUBSET (1..Len(L))
           /\ ChoosingOf(L) \in SUBSET (1..Len(L))
  BY LevelsAre DEF OwnOf, MapsOf, ListsOf, TrackingOf, ChoosingOf

\* The height of the items, level by level.
LEMMA HeightIs ==
    ASSUME NEW L \in Seq(Levels)
    PROVE  /\ \A n \in Nat : HeightOf(L, n) \in Nat
           /\ HeightOf(L, 0) = 0
           /\ \A n \in 1..Len(L) : HeightOf(L, n) = HeightOf(L, n - 1) + Weight(L[n])
           /\ \A j, k \in Nat : j <= k => HeightOf(L, j) <= HeightOf(L, k)
<1> DEFINE A == OwnOf(L)
           B == MapsOf(L)
           C == ListsOf(L)
<1>1. /\ Len(L) \in Nat /\ A \in SUBSET (1..Len(L)) /\ B \in SUBSET (1..Len(L))
      /\ C \in SUBSET (1..Len(L)) /\ DOMAIN L = 1..Len(L)
  BY SetsOf, LevelsAre
<1>2. \A i \in 1..Len(L) : /\ i \in A <=> ~InEntry(L[i])
                           /\ i \in B <=> OpenMap(L[i])
                           /\ i \in C <=> OpenList(L[i])
  BY <1>1 DEF OwnOf, MapsOf, ListsOf
<1>3. \A n : HeightOf(L, n) = Upto(A, n) + 2 * Upto(B, n) + Upto(C, n)
  BY DEF HeightOf
<1> HIDE DEF A, B, C
<1>4. \A n \in Nat : Upto(A, n) \in Nat /\ Upto(B, n) \in Nat /\ Upto(C, n) \in Nat
  BY <1>1, UptoIs
<1>5. Upto(A, 0) = 0 /\ Upto(B, 0) = 0 /\ Upto(C, 0) = 0
  BY <1>1, UptoIs
<1>6. ASSUME NEW n \in 1..Len(L) PROVE HeightOf(L, n) = HeightOf(L, n - 1) + Weight(L[n])
  <2>1. /\ Upto(A, n) = Upto(A, n - 1) + IF n \in A THEN 1 ELSE 0
        /\ Upto(B, n) = Upto(B, n - 1) + IF n \in B THEN 1 ELSE 0
        /\ Upto(C, n) = Upto(C, n - 1) + IF n \in C THEN 1 ELSE 0
    <3>1. n \in Nat \ {0}
      BY <1>1
    <3>2. Upto(A, n) = Upto(A, n - 1) + IF n \in A THEN 1 ELSE 0
      BY <3>1, <1>1, UptoIs
    <3>3. Upto(B, n) = Upto(B, n - 1) + IF n \in B THEN 1 ELSE 0
      BY <3>1, <1>1, UptoIs
    <3>4. Upto(C, n) = Upto(C, n - 1) + IF n \in C THEN 1 ELSE 0
      BY <3>1, <1>1, UptoIs
    <3> QED
      BY <3>2, <3>3, <3>4
  <2>2. Upto(A, n - 1) \in Nat /\ Upto(B, n - 1) \in Nat /\ Upto(C, n - 1) \in Nat
    <3>1. n - 1 \in Nat
      BY <1>1
    <3> QED
      BY <3>1, <1>4
  <2>3. PICK k \in Nat : k = n - 1
    BY <1>1
  <2>4. /\ HeightOf(L, n) = Upto(A, n) + 2 * Upto(B, n) + Upto(C, n)
        /\ HeightOf(L, k) = Upto(A, k) + 2 * Upto(B, k) + Upto(C, k)
    BY <1>3
  <2>5. /\ Upto(A, n) = Upto(A, k) + IF n \in A THEN 1 ELSE 0
        /\ Upto(B, n) = Upto(B, k) + IF n \in B THEN 1 ELSE 0
        /\ Upto(C, n) = Upto(C, k) + IF n \in C THEN 1 ELSE 0
        /\ Upto(A, k) \in Nat /\ Upto(B, k) \in Nat /\ Upto(C, k) \in Nat
    BY <2>1, <2>2, <2>3
  <2>6. Weight(L[n]) = (IF n \in A THEN 1 ELSE 0) + 2 * (IF n \in B THEN 1 ELSE 0)
                           + (IF n \in C THEN 1 ELSE 0)
    BY <1>2 DEF Weight
  <2> DEFINE a == IF n \in A THEN 1 ELSE 0
             b == IF n \in B THEN 1 ELSE 0
             d == IF n \in C THEN 1 ELSE 0
  <2>8. a \in Nat /\ b \in Nat /\ d \in Nat
    OBVIOUS
  <2>9. /\ Upto(A, n) = Upto(A, k) + a /\ Upto(B, n) = Upto(B, k) + b
        /\ Upto(C, n) = Upto(C, k) + d /\ Weight(L[n]) = a + 2 * b + d
    BY <2>5, <2>6
  <2> HIDE DEF a, b, d
  <2>7. HeightOf(L, n) = HeightOf(L, k) + Weight(L[n])
    <3>1. PICK x \in Nat, y \in Nat, z \in Nat : Upto(A, k) = x /\ Upto(B, k) = y /\ Upto(C, k) = z
      BY <2>5
    <3>2. (x + a) + 2 * (y + b) + (z + d) = (x + 2 * y + z) + (a + 2 * b + d)
      BY <2>8
    <3>3. HeightOf(L, n) = (x + a) + 2 * (y + b) + (z + d)
      BY <2>4, <2>9, <3>1
    <3>4. HeightOf(L, k) = x + 2 * y + z
      BY <2>4, <3>1
    <3> QED
      BY <2>9, <3>2, <3>3, <3>4
  <2> QED
    BY <2>3, <2>7
<1>7. ASSUME NEW j \in Nat, NEW k \in Nat, j <= k PROVE HeightOf(L, j) <= HeightOf(L, k)
  <2>1. Upto(A, j) <= Upto(A, k) /\ Upto(B, j) <= Upto(B, k) /\ Upto(C, j) <= Upto(C, k)
    <3>1. Upto(A, j) <= Upto(A, k)
      BY <1>1, <1>7, UptoIs
    <3>2. Upto(B, j) <= Upto(B, k)
      BY <1>1, <1>7, UptoIs
    <3>3. Upto(C, j) <= Upto(C, k)
      BY <1>1, <1>7, UptoIs
    <3> QED
      BY <3>1, <3>2, <3>3
  <2>2. /\ HeightOf(L, j) = Upto(A, j) + 2 * Upto(B, j) + Upto(C, j)
        /\ HeightOf(L, k) = Upto(A, k) + 2 * Upto(B, k) + Upto(C, k)
        /\ Upto(A, j) \in Nat /\ Upto(B, j) \in Nat /\ Upto(C, j) \in Nat
        /\ Upto(A, k) \in Nat /\ Upto(B, k) \in Nat /\ Upto(C, k) \in Nat
    BY <1>3, <1>4
  <2> QED
    BY <2>1, <2>2
<1>8. ASSUME NEW n \in Nat PROVE HeightOf(L, n) \in Nat
  <2>1. Upto(A, n) \in Nat /\ Upto(B, n) \in Nat /\ Upto(C, n) \in Nat
    BY <1>4
  <2> QED
    BY <1>3, <2>1
<1>9. HeightOf(L, 0) = 0
  BY <1>3, <1>5
<1> QED
  BY <1>6, <1>7, <1>8, <1>9

\* Levels that push the same.
Alike(a, b) ==
    /\ a.type = b.type
    /\ OpenMap(a) <=> OpenMap(b)
    /\ OpenList(a) <=> OpenList(b)
    /\ OpenMap(a) \/ OpenList(a) => a.field = b.field

\* Levels that push the same have the same heights.
LEMMA HeightSame ==
    ASSUME NEW L \in Seq(Levels), NEW M \in Seq(Levels), NEW n \in Nat, n <= Len(L), n <= Len(M),
           \A i \in 1..n : Alike(L[i], M[i])
    PROVE  \A j \in 0..n : HeightOf(L, j) = HeightOf(M, j)
<1>1. /\ Len(L) \in Nat /\ DOMAIN L = 1..Len(L)
      /\ Len(M) \in Nat /\ DOMAIN M = 1..Len(M)
  BY LevelsAre
<1>2. \A i \in 1..n : i \in DOMAIN L /\ i \in DOMAIN M
  BY <1>1
<1>3. \A i \in 1..n : /\ i \in OwnOf(L) <=> i \in OwnOf(M)
                      /\ i \in MapsOf(L) <=> i \in MapsOf(M)
                      /\ i \in ListsOf(L) <=> i \in ListsOf(M)
  BY <1>2 DEF OwnOf, MapsOf, ListsOf, Alike, InEntry
<1>4. ASSUME NEW j \in 0..n PROVE HeightOf(L, j) = HeightOf(M, j)
  <2>1. j \in Nat /\ \A i \in 1..j : i \in 1..n
    OBVIOUS
  <2>5. \A i \in 1..j : /\ i \in OwnOf(L) <=> i \in OwnOf(M)
                        /\ i \in MapsOf(L) <=> i \in MapsOf(M)
                        /\ i \in ListsOf(L) <=> i \in ListsOf(M)
    BY <1>3, <2>1
  <2>6. /\ OwnOf(L) \in SUBSET (1..Len(L)) /\ OwnOf(M) \in SUBSET (1..Len(M))
        /\ MapsOf(L) \in SUBSET (1..Len(L)) /\ MapsOf(M) \in SUBSET (1..Len(M))
        /\ ListsOf(L) \in SUBSET (1..Len(L)) /\ ListsOf(M) \in SUBSET (1..Len(M))
    BY SetsOf
  <2>2. Upto(OwnOf(L), j) = Upto(OwnOf(M), j)
    BY <1>1, <2>1, <2>5, <2>6, UptoSame
  <2>3. Upto(MapsOf(L), j) = Upto(MapsOf(M), j)
    BY <1>1, <2>1, <2>5, <2>6, UptoSame
  <2>4. Upto(ListsOf(L), j) = Upto(ListsOf(M), j)
    BY <1>1, <2>1, <2>5, <2>6, UptoSame
  <2> QED
    BY <2>2, <2>3, <2>4 DEF HeightOf
<1> QED
  BY <1>4

----------------------------------------------------------------------------
(* Where the levels are in items.                                                 *)

\* The last item is free to change: it is the value of an entry, or waits for one.
Free(L) == OpenMap(L[Len(L)]) \/ InEntry(L[Len(L)])
\* The level of the map the last item belongs to.
MapLevel(L) == IF InEntry(L[Len(L)]) THEN Len(L) - 1 ELSE Len(L)

\* A level pushes three items for a map, two for a list, none for an entry, else one.
LEMMA WeightIs ==
    ASSUME NEW L, NEW tok, LevelsOK(L, tok), NEW i \in DOMAIN L
    PROVE  /\ Weight(L[i]) = IF OpenMap(L[i]) THEN 3 ELSE IF OpenList(L[i]) THEN 2
                             ELSE IF InEntry(L[i]) THEN 0 ELSE 1
           /\ i \in 1..Len(L) /\ i \in Nat /\ Len(L) \in Nat
           /\ \E h \in Nat : h = i - 1 /\ HeightOf(L, i) = HeightOf(L, h) + Weight(L[i])
           /\ HeightOf(L, i - 1) \in Nat /\ HeightOf(L, i) \in Nat
           /\ HeightOf(L, i) <= HeightOf(L, Len(L)) /\ HeightOf(L, Len(L)) \in Nat
<1>1. /\ L \in Seq(Levels) /\ Len(L) \in Nat \ {0} /\ DOMAIN L = 1..Len(L)
      /\ OpenMap(L[i]) => ~InEntry(L[i]) /\ ~OpenList(L[i])
      /\ OpenList(L[i]) => ~InEntry(L[i]) /\ ~OpenMap(L[i])
  BY LevelIs
<1>2. Weight(L[i]) = IF OpenMap(L[i]) THEN 3 ELSE IF OpenList(L[i]) THEN 2
                     ELSE IF InEntry(L[i]) THEN 0 ELSE 1
  BY <1>1 DEF Weight
<1>3. PICK h \in Nat : h = i - 1
  BY <1>1
<1>4. /\ HeightOf(L, h) \in Nat /\ HeightOf(L, i) \in Nat
      /\ HeightOf(L, Len(L)) \in Nat /\ HeightOf(L, i) <= HeightOf(L, Len(L))
  <2>1. i \in Nat /\ i <= Len(L)
    BY <1>1
  <2> QED
    BY <1>1, <2>1, HeightIs
<1>5. HeightOf(L, i) = HeightOf(L, i - 1) + Weight(L[i])
  BY <1>1, HeightIs
<1> QED
  BY <1>1, <1>2, <1>3, <1>4, <1>5

\* Where the hash of a message is among the items,
LEMMA OwnHeight ==
    ASSUME NEW L, NEW tok, LevelsOK(L, tok), NEW i \in OwnOf(L)
    PROVE  /\ i \in 1..Len(L) /\ i \in DOMAIN L /\ Len(L) \in Nat \ {0}
           /\ HeightOf(L, i - 1) \in Nat /\ HeightOf(L, Len(L)) \in Nat
           /\ HeightOf(L, i - 1) + 1 <= HeightOf(L, Len(L))
           /\ i = 1 => HeightOf(L, i - 1) = 0
           /\ i > 1 => HeightOf(L, i - 1) >= 1
           /\ i < Len(L) => HeightOf(L, i - 1) + 2 <= HeightOf(L, Len(L))
           /\ Free(L) => HeightOf(L, i - 1) + 3 <= HeightOf(L, Len(L))
<1>0. /\ L \in Seq(Levels) /\ Len(L) \in Nat \ {0} /\ DOMAIN L = 1..Len(L) /\ ~InEntry(L[1])
      /\ i \in DOMAIN L /\ ~InEntry(L[i])
  BY LevelIs DEF OwnOf
<1>1. \A j, k \in Nat : j <= k => HeightOf(L, j) <= HeightOf(L, k)
  BY <1>0, HeightIs
<1>2. PICK h \in Nat : h = i - 1 /\ HeightOf(L, i) = HeightOf(L, h) + Weight(L[i])
  BY <1>0, WeightIs
<1>3. /\ Weight(L[i]) \in {1, 2, 3}
      /\ OpenMap(L[i]) => Weight(L[i]) = 3
      /\ HeightOf(L, h) \in Nat /\ HeightOf(L, i) \in Nat
      /\ HeightOf(L, i) <= HeightOf(L, Len(L)) /\ HeightOf(L, Len(L)) \in Nat
  BY <1>0, <1>2, WeightIs
<1>4. i = 1 => HeightOf(L, h) = 0
  BY <1>0, <1>2, HeightIs
<1>5. i > 1 => HeightOf(L, h) >= 1
  <2> SUFFICES ASSUME i > 1 PROVE HeightOf(L, h) >= 1
    OBVIOUS
  <2>1. 1 \in DOMAIN L
    BY <1>0
  <2>2. HeightOf(L, 1) >= 1
    <3>1. PICK z \in Nat : z = 1 - 1 /\ HeightOf(L, 1) = HeightOf(L, z) + Weight(L[1])
      BY <2>1, WeightIs
    <3>2. Weight(L[1]) \in {1, 2, 3}
      BY <1>0, <2>1, WeightIs
    <3>3. HeightOf(L, z) = 0
      BY <1>0, <3>1, HeightIs
    <3> QED
      BY <3>1, <3>2, <3>3
  <2>3. 1 \in Nat /\ 1 <= h
    BY <1>0, <1>2
  <2>4. HeightOf(L, 1) <= HeightOf(L, h)
    BY <1>1, <2>3
  <2>5. HeightOf(L, 1) \in Nat
    BY <1>0, HeightIs
  <2> QED
    BY <1>3, <2>2, <2>4, <2>5
<1>6. i < Len(L) => HeightOf(L, h) + 2 <= HeightOf(L, Len(L))
  <2> SUFFICES ASSUME i < Len(L) PROVE HeightOf(L, h) + 2 <= HeightOf(L, Len(L))
    OBVIOUS
  <2>1. CASE OpenMap(L[i])
    BY <1>2, <1>3, <2>1
  <2>2. CASE ~OpenMap(L[i])
    <3>1. PICK n \in DOMAIN L : n = i + 1
      BY <1>0
    <3>2. ~InEntry(L[n])
      BY <1>0, <2>2, <3>1, LevelIs
    <3>3. PICK y \in Nat : y = n - 1 /\ HeightOf(L, n) = HeightOf(L, y) + Weight(L[n])
      BY WeightIs
    <3>4. y = i
      BY <1>0, <3>1, <3>3
    <3>5. Weight(L[n]) \in {1, 2, 3} /\ HeightOf(L, n) <= HeightOf(L, Len(L)) /\ HeightOf(L, n) \in Nat
      BY <3>2, WeightIs
    <3> QED
      BY <1>2, <1>3, <3>3, <3>4, <3>5
  <2> QED
    BY <2>1, <2>2
<1>7. Free(L) => HeightOf(L, h) + 3 <= HeightOf(L, Len(L))
  <2> SUFFICES ASSUME Free(L) PROVE HeightOf(L, h) + 3 <= HeightOf(L, Len(L))
    OBVIOUS
  <2>1. PICK n \in DOMAIN L : n = MapLevel(L) /\ OpenMap(L[n]) /\ i <= n
    <3>1. CASE InEntry(L[Len(L)])
      <4>1. i < Len(L) /\ Len(L) - 1 \in DOMAIN L
        BY <1>0, <3>1
      <4>2. OpenMap(L[Len(L) - 1])
        <5>1. PICK k \in DOMAIN L : k = Len(L) - 1
          BY <4>1
        <5>2. k < Len(L) /\ k + 1 = Len(L)
          BY <1>0, <5>1
        <5>3. OpenMap(L[k])
          BY <5>2, <3>1, LevelIs
        <5> QED
          BY <5>1, <5>3
      <4> QED
        BY <1>0, <3>1, <4>1, <4>2 DEF MapLevel
    <3>2. CASE ~InEntry(L[Len(L)])
      BY <1>0, <3>2 DEF MapLevel, Free
    <3> QED
      BY <3>1, <3>2
  <2>2. PICK y \in Nat : y = n - 1 /\ HeightOf(L, n) = HeightOf(L, y) + Weight(L[n])
    BY WeightIs
  <2>3. Weight(L[n]) = 3 /\ HeightOf(L, n) <= HeightOf(L, Len(L)) /\ HeightOf(L, n) \in Nat
    BY <2>1, WeightIs
  <2>4. h <= y
    BY <1>0, <1>2, <2>1, <2>2
  <2>5. HeightOf(L, h) <= HeightOf(L, y) /\ HeightOf(L, y) \in Nat
    BY <1>0, <1>1, <2>4, HeightIs
  <2> QED
    BY <1>3, <2>2, <2>3, <2>5
<1>8. HeightOf(L, i - 1) = HeightOf(L, h) /\ i \in 1..Len(L)
  BY <1>0, <1>2
<1>9. HeightOf(L, h) + 1 <= HeightOf(L, Len(L))
  BY <1>2, <1>3
<1> QED
  BY <1>0, <1>3, <1>4, <1>5, <1>6, <1>7, <1>8, <1>9

\* where the map is that takes the next value,
LEMMA FreeIs ==
    ASSUME NEW L, NEW tok, LevelsOK(L, tok), Free(L)
    PROVE  /\ MapLevel(L) \in DOMAIN L /\ MapLevel(L) \in Nat /\ OpenMap(L[MapLevel(L)])
           /\ MapLevel(L) \in MapsOf(L) /\ MapLevel(L) \in OwnOf(L)
           /\ HeightOf(L, MapLevel(L)) = HeightOf(L, Len(L))
           /\ InEntry(L[Len(L)]) =>
                 L[Len(L)].type = Schema[L[MapLevel(L)].type][L[MapLevel(L)].field].message
           /\ OpenMap(L[Len(L)]) => MapLevel(L) = Len(L)
<1>0. /\ L \in Seq(Levels) /\ Len(L) \in Nat \ {0} /\ DOMAIN L = 1..Len(L) /\ ~InEntry(L[1])
      /\ \A j \in DOMAIN L : OpenMap(L[j]) => ~InEntry(L[j])
  BY LevelIs
<1>1. CASE InEntry(L[Len(L)])
  <2>1. PICK k \in DOMAIN L : k = Len(L) - 1
    BY <1>0, <1>1
  <2>2. k < Len(L) /\ k + 1 = Len(L) /\ k \in Nat
    BY <1>0, <2>1
  <2>3. OpenMap(L[k])
    BY <1>1, <2>2, LevelIs
  <2>4. Schema[L[k].type][L[k].field].message = L[Len(L)].type
    BY <2>2 DEF LevelsOK
  <2>5. HeightOf(L, Len(L)) = HeightOf(L, k)
    <3>1. Len(L) \in DOMAIN L
      BY <1>0
    <3>2. PICK y \in Nat : y = Len(L) - 1 /\ HeightOf(L, Len(L)) = HeightOf(L, y) + Weight(L[Len(L)])
      BY <3>1, WeightIs
    <3>3. Weight(L[Len(L)]) = 0
      BY <1>1, <3>1, WeightIs, LevelIs
    <3>4. HeightOf(L, k) \in Nat
      BY <2>1, WeightIs
    <3> QED
      BY <2>1, <3>2, <3>3, <3>4
  <2>6. MapLevel(L) = k
    BY <1>1, <2>1 DEF MapLevel
  <2> QED
    BY <1>0, <1>1, <2>2, <2>3, <2>4, <2>5, <2>6 DEF MapsOf, OwnOf
<1>2. CASE ~InEntry(L[Len(L)])
  <2>1. MapLevel(L) = Len(L) /\ Len(L) \in DOMAIN L
    BY <1>0, <1>2 DEF MapLevel
  <2>2. OpenMap(L[Len(L)])
    BY <1>2 DEF Free
  <2> QED
    BY <1>0, <1>2, <2>1, <2>2 DEF MapsOf, OwnOf
<1> QED
  BY <1>1, <1>2

\* where the map is,
LEMMA MapHeight ==
    ASSUME NEW L, NEW tok, LevelsOK(L, tok), NEW i \in MapsOf(L)
    PROVE  /\ i \in 1..Len(L) /\ i \in DOMAIN L /\ i \in OwnOf(L) /\ Len(L) \in Nat \ {0}
           /\ HeightOf(L, i - 1) \in Nat /\ HeightOf(L, Len(L)) \in Nat
           /\ HeightOf(L, i) = HeightOf(L, i - 1) + 3 /\ HeightOf(L, i) <= HeightOf(L, Len(L))
           /\ HeightOf(L, i) = HeightOf(L, Len(L)) => Free(L)
<1>0. /\ L \in Seq(Levels) /\ Len(L) \in Nat \ {0} /\ DOMAIN L = 1..Len(L)
      /\ i \in DOMAIN L /\ OpenMap(L[i]) /\ ~InEntry(L[i])
  BY LevelIs DEF MapsOf
<1>1. PICK h \in Nat : h = i - 1 /\ HeightOf(L, i) = HeightOf(L, h) + Weight(L[i])
  BY <1>0, WeightIs
<1>2. /\ Weight(L[i]) = 3 /\ HeightOf(L, h) \in Nat /\ HeightOf(L, i) \in Nat
      /\ HeightOf(L, i) <= HeightOf(L, Len(L)) /\ HeightOf(L, Len(L)) \in Nat
  BY <1>0, <1>1, WeightIs
<1>3. ASSUME ~Free(L) PROVE HeightOf(L, i) < HeightOf(L, Len(L))
  <2>1. i # Len(L) /\ i < Len(L)
    BY <1>0, <1>3 DEF Free
  <2>2. PICK j \in DOMAIN L : j = i + 1
    BY <1>0, <2>1
  <2>3. InEntry(L[j])
    BY <1>0, <2>1, <2>2, LevelIs
  <2>4. j # Len(L) /\ j < Len(L)
    BY <1>0, <1>3, <2>2, <2>3 DEF Free
  <2>5. PICK n \in DOMAIN L : n = j + 1
    BY <1>0, <2>4
  <2>6. ~OpenMap(L[j])
    BY <2>3, LevelIs
  <2>7. ~InEntry(L[n])
    BY <2>4, <2>5, <2>6, LevelIs
  <2>8. PICK y \in Nat : y = n - 1 /\ HeightOf(L, n) = HeightOf(L, y) + Weight(L[n])
    BY WeightIs
  <2>9. Weight(L[n]) \in {1, 2, 3} /\ HeightOf(L, n) <= HeightOf(L, Len(L)) /\ HeightOf(L, n) \in Nat
    BY <2>7, WeightIs
  <2>10. i \in Nat /\ y = j /\ i <= j /\ HeightOf(L, i) <= HeightOf(L, j) /\ HeightOf(L, j) \in Nat
    <3>1. i \in Nat /\ j \in Nat /\ y = j /\ i <= j
      BY <1>0, <2>2, <2>5, <2>8
    <3> QED
      BY <1>0, <3>1, HeightIs
  <2> QED
    BY <1>2, <2>8, <2>9, <2>10
<1> QED
  BY <1>0, <1>1, <1>2, <1>3 DEF OwnOf

\* and where a list is.
LEMMA ListHeight ==
    ASSUME NEW L, NEW tok, LevelsOK(L, tok), NEW i \in ListsOf(L)
    PROVE  /\ i \in 1..Len(L) /\ i \in DOMAIN L /\ i \in OwnOf(L) /\ Len(L) \in Nat \ {0}
           /\ HeightOf(L, i - 1) \in Nat /\ HeightOf(L, Len(L)) \in Nat
           /\ HeightOf(L, i) = HeightOf(L, i - 1) + 2 /\ HeightOf(L, i) <= HeightOf(L, Len(L))
           /\ HeightOf(L, i) = HeightOf(L, Len(L)) => i = Len(L) /\ ~Free(L)
<1>0. /\ L \in Seq(Levels) /\ Len(L) \in Nat \ {0} /\ DOMAIN L = 1..Len(L)
      /\ i \in DOMAIN L /\ OpenList(L[i]) /\ ~InEntry(L[i]) /\ ~OpenMap(L[i])
  BY LevelIs DEF ListsOf
<1>1. PICK h \in Nat : h = i - 1 /\ HeightOf(L, i) = HeightOf(L, h) + Weight(L[i])
  BY <1>0, WeightIs
<1>2. /\ Weight(L[i]) = 2 /\ HeightOf(L, h) \in Nat /\ HeightOf(L, i) \in Nat
      /\ HeightOf(L, i) <= HeightOf(L, Len(L)) /\ HeightOf(L, Len(L)) \in Nat
  BY <1>0, <1>1, WeightIs
<1>3. ASSUME i # Len(L) PROVE HeightOf(L, i) < HeightOf(L, Len(L))
  <2>1. i < Len(L)
    BY <1>0, <1>3
  <2>5. PICK n \in DOMAIN L : n = i + 1
    BY <1>0, <2>1
  <2>7. ~InEntry(L[n])
    BY <1>0, <2>1, <2>5, LevelIs
  <2>8. PICK y \in Nat : y = n - 1 /\ HeightOf(L, n) = HeightOf(L, y) + Weight(L[n])
    BY WeightIs
  <2>9. Weight(L[n]) \in {1, 2, 3} /\ HeightOf(L, n) <= HeightOf(L, Len(L)) /\ HeightOf(L, n) \in Nat
    BY <2>7, WeightIs
  <2>10. y = i
    BY <1>0, <2>5, <2>8
  <2> QED
    BY <1>2, <2>8, <2>9, <2>10
<1>4. i = Len(L) => ~Free(L)
  BY <1>0 DEF Free
<1> QED
  BY <1>0, <1>1, <1>2, <1>3, <1>4 DEF OwnOf

----------------------------------------------------------------------------
(* What a change of the tree leaves of the items.                                 *)

\* The NULL that waits for a value is no path.
LEMMA NullIs == NULL \notin Paths
<1>1. ASSUME NULL \in Seq(Steps) PROVE FALSE
  <2>1. Len(NULL) = 1 /\ NULL[1] = <<"NULL", 0>>
    BY DEF NULL
  <2>2. NULL[1] \in Steps
    <3>1. 1 \in 1..Len(NULL)
      BY <2>1
    <3> QED
      BY <1>1, <3>1, ElementOfSeq
  <2>3. <<"NULL", 0>>[1] \in {"field", "item", "value", "key"}
    BY <2>1, <2>2, StepIs
  <2> QED
    BY <2>3
<1> QED
  BY <1>1 DEF Paths

\* The path of a value that waits for its key, below which there is no path of an item.
LEMMA ValueIs ==
    ASSUME NEW p \in Paths
    PROVE  /\ Value(p) \in Paths /\ Value(p) # NULL /\ Value(p) # <<>> /\ Value(p) # p
           /\ Front(Value(p)) = p /\ Last(Value(p)) = <<"value", 0>> /\ Last(Value(p))[1] = "value"
           /\ Len(p) \in Nat /\ Len(Value(p)) = Len(p) + 1
           /\ \A q \in Paths : IsPrefix(q, p) => IsPrefix(q, Value(p)) /\ ~IsPrefix(Value(p), q)
           /\ <<"value", 0>> \in Steps
<1>1. <<"value", 0>> \in Steps
  BY StepsAre
<1>2. /\ Value(p) \in Paths /\ Value(p) # <<>> /\ Front(Value(p)) = p
      /\ Last(Value(p)) = <<"value", 0>> /\ Len(p) \in Nat /\ Len(Value(p)) = Len(p) + 1
  BY <1>1, ChildIs DEF Value
<1>3. Value(p) # p
  BY <1>2
<1>4. ASSUME NEW q \in Paths, IsPrefix(q, p)
      PROVE  IsPrefix(q, Value(p)) /\ ~IsPrefix(Value(p), q)
  <2>1. IsPrefix(q, Value(p))
    BY <1>1, <1>4, PrefixOfChild DEF Value
  <2>2. Len(q) <= Len(p) /\ Len(q) \in Nat
    BY <1>4, PrefixIs
  <2>3. ~IsPrefix(Value(p), q)
    BY <1>2, <2>2, PrefixIs
  <2> QED
    BY <2>1, <2>3
<1>5. Last(Value(p))[1] = "value"
  BY <1>2
<1> QED
  BY <1>1, <1>2, <1>3, <1>4, <1>5, NullIs

ItemSeq == Seq(Paths \cup {NULL})

\* All items but the last are paths.
LEMMA ItemsIn ==
    ASSUME NEW it \in ItemSeq, NEW t, Chain(it, t)
    PROVE  /\ Len(it) \in Nat /\ DOMAIN it = 1..Len(it)
           /\ \A k \in DOMAIN it : it[k] # NULL => it[k] \in Paths
           /\ \A k \in DOMAIN it : k < Len(it) => it[k] # NULL /\ it[k] \in Paths
<1>1. Len(it) \in Nat /\ DOMAIN it = 1..Len(it)
  BY LenProperties DEF ItemSeq
<1>2. \A k \in 1..Len(it) : it[k] \in Paths \cup {NULL}
  BY ElementOfSeq DEF ItemSeq
<1>3. \A k \in DOMAIN it : it[k] # NULL => it[k] \in Paths
  BY <1>1, <1>2
<1>4. ASSUME NEW k \in DOMAIN it, k < Len(it) PROVE it[k] # NULL
  <2>1. k # Len(it)
    BY <1>1, <1>4
  <2> QED
    BY <2>1 DEF Chain
<1> QED
  BY <1>1, <1>3, <1>4

\* The items with another top.
LEMMA SetLastItem ==
    ASSUME NEW it \in ItemSeq, it # <<>>, NEW p \in Paths \cup {NULL}
    PROVE  /\ SetLast(it, p) \in ItemSeq /\ Len(SetLast(it, p)) = Len(it)
           /\ Len(it) \in Nat \ {0} /\ DOMAIN SetLast(it, p) = 1..Len(it)
           /\ \A i \in 1..(Len(it) - 1) : SetLast(it, p)[i] = it[i]
           /\ SetLast(it, p)[Len(it)] = p /\ Last(SetLast(it, p)) = p
<1> DEFINE S == Paths \cup {NULL}
<1>1. it \in Seq(S) /\ p \in S /\ ItemSeq = Seq(S)
  BY DEF ItemSeq
<1> HIDE DEF S
<1> QED
  BY <1>1, SetLastIs

Kept(t, u, p) == p \in DOMAIN u /\ SameAt(t, u, p)

\* Items that are still there, with the value of the map on top, are a chain.
LEMMA ChainKept ==
    ASSUME NEW it \in ItemSeq, NEW t, Chain(it, t), it # <<>>, NEW it2 \in ItemSeq, NEW u,
           Len(it2) = Len(it),
           \A k \in 1..(Len(it) - 1) : it2[k] = it[k] /\ it[k] \in DOMAIN u,
           \/ it2[Len(it)] = it[Len(it)] \/ it2[Len(it)] = NULL
           \/ Len(it) > 1 /\ it2[Len(it)] = Value(it[Len(it) - 1]),
           it2[Len(it)] # NULL => it2[Len(it)] \in DOMAIN u,
           Values(u) \subseteq {it2[k] : k \in DOMAIN it2}
    PROVE  Chain(it2, u)
<1> DEFINE n == Len(it)
<1>1. n \in Nat \ {0} /\ DOMAIN it = 1..n
  BY ItemsIn, EmptySeq DEF ItemSeq
<1>2. DOMAIN it2 = 1..n
  BY ItemsIn, LenProperties DEF ItemSeq
<1> HIDE DEF n
<1>3. \A k \in 1..n : k # n => k \in 1..(n - 1) /\ k < n /\ k \in DOMAIN it
  BY <1>1
<1>4. \A k \in 1..n : k # n => it2[k] = it[k] /\ it[k] \in DOMAIN u /\ it[k] # NULL /\ it[k] \in Paths
  BY <1>3, ItemsIn DEF n
<1>5. \/ it2[n] = it[n] \/ it2[n] = NULL
      \/ n > 1 /\ it2[n] = Value(it[n - 1])
  BY DEF n
<1>6. it2[n] # NULL => it2[n] \in DOMAIN u
  BY DEF n
<1>7. \A k \in DOMAIN it2 : it2[k] = NULL => k = Len(it2)
  BY <1>2, <1>4 DEF n
<1>8. \A k \in DOMAIN it2 : it2[k] # NULL => it2[k] \in DOMAIN u
  BY <1>2, <1>4, <1>6
<1>9. ASSUME NEW j \in DOMAIN it2, NEW k \in DOMAIN it2, j <= k, it2[k] # NULL
      PROVE  IsPrefix(it2[j], it2[k])
  <2>0. j \in DOMAIN it /\ k \in DOMAIN it /\ j \in 1..n /\ k \in 1..n
    BY <1>1, <1>2
  <2>1. CASE k # n
    <3>1. j # n
      BY <1>1, <1>2, <1>9, <2>1
    <3>2. it2[j] = it[j] /\ it2[k] = it[k] /\ it[k] # NULL
      BY <1>4, <2>0, <2>1, <3>1
    <3> QED
      BY <1>9, <2>0, <3>2 DEF Chain
  <2>2. CASE k = n /\ it2[n] = it[n]
    <3>1. it2[j] = it[j] /\ it2[k] = it[k]
      BY <1>4, <2>0, <2>2
    <3> QED
      BY <1>9, <2>0, <3>1 DEF Chain
  <2>3. CASE k = n /\ n > 1 /\ it2[n] = Value(it[n - 1])
    <3>1. PICK h \in 1..n : h = n - 1 /\ h # n
      BY <1>1, <2>3
    <3>2. it[h] \in Paths /\ it[h] # NULL /\ h \in DOMAIN it
      BY <1>1, <1>4, <3>1
    <3>3. Value(it[h]) \in Paths
      BY <3>2, ValueIs
    <3>4. CASE j = n
      BY <2>3, <3>1, <3>3, <3>4, PrefixSelf
    <3>5. CASE j # n
      <4>1. j <= h
        BY <1>1, <2>0, <3>1, <3>5
      <4>2. IsPrefix(it[j], it[h])
        BY <2>0, <3>2, <4>1 DEF Chain
      <4>3. it[j] \in Paths /\ it2[j] = it[j]
        BY <1>4, <2>0, <3>5
      <4>4. IsPrefix(it[j], Value(it[h]))
        BY <3>2, <4>2, <4>3, ValueIs
      <4> QED
        BY <2>3, <3>1, <4>3, <4>4
    <3> QED
      BY <3>4, <3>5
  <2> QED
    BY <1>5, <1>9, <2>1, <2>2, <2>3
<1> QED
  BY <1>7, <1>8, <1>9 DEF Chain

\* What the levels hold stays where it is: their containers keep their kinds, and only the
\* value of an entry changes.
LEMMA ItemsKept ==
    ASSUME NEW L, NEW tok, LevelsOK(L, tok), NEW it \in ItemSeq, NEW t, ItemsOK(L, it, t),
           NEW it2 \in ItemSeq, NEW u, Len(it2) = Len(it),
           \A k \in 1..(Len(it) - 1) : it2[k] = it[k] /\ Kept(t, u, it[k]),
           Free(L) => it2[Len(it)] \in {NULL, Value(it[Len(it) - 1])},
           ~Free(L) => it2[Len(it)] = it[Len(it)] /\ Kept(t, u, it[Len(it)]),
           it2[Len(it)] # NULL => it2[Len(it)] \in DOMAIN u,
           Values(u) \subseteq {it2[k] : k \in DOMAIN it2}
    PROVE  ItemsOK(L, it2, u)
<1> DEFINE n == Len(it)
<1>1. Chain(it, t) /\ it[1] = <<>> /\ n = HeightOf(L, Len(L))
  BY DEF ItemsOK
<1>2. n \in Nat \ {0} /\ (Free(L) => n > 2)
  <2>1. 1 \in OwnOf(L)
    BY LevelIs DEF OwnOf
  <2>2. /\ HeightOf(L, 1 - 1) \in Nat /\ HeightOf(L, 1 - 1) + 1 <= HeightOf(L, Len(L))
        /\ HeightOf(L, Len(L)) \in Nat /\ (Free(L) => HeightOf(L, 1 - 1) + 3 <= HeightOf(L, Len(L)))
    BY <2>1, OwnHeight
  <2> QED
    BY <1>1, <2>2
<1>3. DOMAIN it = 1..n /\ DOMAIN it2 = 1..n
  BY <1>1, ItemsIn, LenProperties DEF ItemSeq
<1>4. Chain(it2, u)
  <2>1. it # <<>>
    BY <1>2
  <2>2. \A k \in 1..(Len(it) - 1) : it2[k] = it[k] /\ it[k] \in DOMAIN u
    BY DEF Kept
  <2>3. \/ it2[Len(it)] = it[Len(it)] \/ it2[Len(it)] = NULL
        \/ Len(it) > 1 /\ it2[Len(it)] = Value(it[Len(it) - 1])
    BY <1>2
  <2> QED
    BY <1>1, <2>1, <2>2, <2>3, ChainKept
<1>5. \A k \in 1..n : k < n \/ ~Free(L) => it2[k] = it[k] /\ Kept(t, u, it[k])
  <2>1. \A k \in 1..n : k < n => k \in 1..(n - 1)
    BY <1>2
  <2>2. \A k \in 1..n : k < n \/ k = n
    BY <1>2
  <2> QED
    BY <2>1, <2>2
<1>6. Free(L) => it2[n] \in {NULL, Value(it[n - 1])}
  OBVIOUS
<1> HIDE DEF n
<1>7. it2[1] = <<>>
  <2>1. 1 \in 1..n /\ (Free(L) => 1 < n)
    BY <1>2
  <2> QED
    BY <1>1, <1>5, <2>1
<1>8. ASSUME NEW i \in OwnOf(L) PROVE HashAt(L, it2, u, i)
  <2>1. PICK h \in Nat : h = HeightOf(L, i - 1)
    BY OwnHeight
  <2>2. /\ h + 1 <= n /\ (i > 1 => h >= 1)
        /\ Free(L) => h + 3 <= n
    BY <1>1, <2>1, OwnHeight
  <2>3. PICK k \in 1..n : k = h + 1
    BY <1>2, <2>2
  <2>4. it2[k] = it[k] /\ Kept(t, u, it[k])
    BY <1>2, <1>5, <2>2, <2>3
  <2>5. i > 1 => it2[k - 1] = it[k - 1]
    <3> SUFFICES ASSUME i > 1 PROVE it2[k - 1] = it[k - 1]
      OBVIOUS
    <3>1. PICK g \in 1..n : g = k - 1 /\ g < n
      BY <1>2, <2>2, <2>3
    <3>2. it2[g] = it[g]
      BY <1>5, <3>1
    <3> QED
      BY <3>1, <3>2
  <2>6. HashAt(L, it, t, i)
    BY DEF ItemsOK
  <2>7. /\ it[k] # NULL /\ t[it[k]].kind = "hash" /\ t[it[k]].type = L[i].type
        /\ i > 1 => /\ it[k] # <<>> /\ it[k] # Value(it[k - 1])
                    /\ Last(it[k])[1] = "value" => it[k] = it[k - 1]
    BY <2>1, <2>3, <2>6 DEF HashAt
  <2>8. u[it[k]].kind = "hash" /\ u[it[k]].type = L[i].type
    BY <2>4, <2>7 DEF Kept, SameAt, Inner
  <2> QED
    BY <2>1, <2>3, <2>4, <2>5, <2>7, <2>8 DEF HashAt
<1>9. ASSUME NEW i \in MapsOf(L) PROVE MapAt(L, it2, i)
  <2>1. PICK k \in Nat : k = HeightOf(L, i) /\ k >= 3 /\ k <= n /\ (k = n => Free(L))
    <3>1. PICK h \in Nat : h = HeightOf(L, i - 1)
      BY MapHeight
    <3>2. HeightOf(L, i) = h + 3 /\ HeightOf(L, i) <= n /\ (HeightOf(L, i) = n => Free(L))
      BY <1>1, <3>1, MapHeight
    <3> QED
      BY <3>1, <3>2
  <2>2. PICK a \in 1..n, b \in 1..n : a = k - 1 /\ b = k - 2 /\ a < n /\ b < n
    BY <1>2, <2>1
  <2>3. it2[a] = it[a] /\ it2[b] = it[b]
    BY <1>5, <2>2
  <2>4. it[a] = Child(it[b], "field", L[i].field) /\ it[k] \in {NULL, Value(it[a])}
    <3>1. MapAt(L, it, i)
      BY DEF ItemsOK
    <3> QED
      BY <2>1, <2>2, <3>1 DEF MapAt
  <2>5. it2[k] \in {NULL, Value(it[a])}
    <3>1. CASE k = n
      <4>1. Free(L) /\ it2[n] \in {NULL, Value(it[n - 1])}
        BY <1>6, <2>1, <3>1
      <4> QED
        BY <2>2, <3>1, <4>1
    <3>2. CASE k # n
      <4>1. k \in 1..n /\ k < n
        BY <1>2, <2>1, <3>2
      <4> QED
        BY <1>5, <2>4, <4>1
    <3> QED
      BY <3>1, <3>2
  <2> QED
    BY <2>1, <2>2, <2>3, <2>4, <2>5 DEF MapAt
<1>10. ASSUME NEW i \in ListsOf(L) PROVE ListAt(L, it2, i)
  <2>1. PICK k \in Nat : k = HeightOf(L, i) /\ k >= 2 /\ k <= n /\ (k = n => ~Free(L))
    <3>1. PICK h \in Nat : h = HeightOf(L, i - 1)
      BY ListHeight
    <3>2. HeightOf(L, i) = h + 2 /\ HeightOf(L, i) <= n /\ (HeightOf(L, i) = n => ~Free(L))
      BY <1>1, <3>1, ListHeight
    <3> QED
      BY <3>1, <3>2
  <2>2. PICK a \in 1..n : a = k - 1 /\ a < n
    BY <1>2, <2>1
  <2>3. it2[a] = it[a]
    BY <1>5, <2>2
  <2>4. it[k] = Child(it[a], "field", L[i].field)
    <3>1. ListAt(L, it, i)
      BY DEF ItemsOK
    <3> QED
      BY <2>1, <2>2, <3>1 DEF ListAt
  <2>5. it2[k] = it[k]
    <3>1. k \in 1..n /\ (k < n \/ ~Free(L))
      BY <1>2, <2>1
    <3> QED
      BY <1>5, <3>1
  <2> QED
    BY <2>1, <2>2, <2>3, <2>4, <2>5 DEF ListAt
<1> QED
  BY <1>1, <1>4, <1>7, <1>8, <1>9, <1>10 DEF ItemsOK, n

\* The node of a field fits its type.
LEMMA FieldAt ==
    ASSUME NEW t, Shaped(t), NEW p \in Paths, NEW f \in Nat, t[p].kind = "hash",
           Child(p, "field", f) \in DOMAIN t
    PROVE  LET q == Child(p, "field", f)
               m == Schema[t[p].type][f].message
           IN  /\ p \in DOMAIN t /\ f \in FieldsOf(t[p].type) /\ q \in Paths /\ q # <<>>
               /\ Front(q) = p /\ FieldFits(t[q], t[p].type, f)
               /\ ElementOf(t, q) = IF t[q].kind = "map" THEN Schema[m][ValueField].message ELSE m
<1> DEFINE q == Child(p, "field", f)
<1>1. q \in Paths /\ q # <<>> /\ Front(q) = p /\ Last(q) = <<"field", f>>
  BY StepsAre, ChildIs
<1> HIDE DEF q
<1>2. q \in DOMAIN t
  BY DEF q
<1>3. Front(q) \in DOMAIN t /\ Placed(t, Front(q), Last(q), t[q])
  BY <1>1, <1>2 DEF Shaped
<1>4. <<"field", f>>[1] = "field" /\ <<"field", f>>[2] = f
  OBVIOUS
<1>5. f \in FieldsOf(t[p].type) /\ FieldFits(t[q], t[p].type, f)
  BY <1>1, <1>3, <1>4 DEF Placed
<1>6. ElementOf(t, q) = IF t[q].kind = "map"
                        THEN Schema[Schema[t[p].type][f].message][ValueField].message
                        ELSE Schema[t[p].type][f].message
  BY <1>1, <1>4 DEF ElementOf
<1> QED
  BY <1>1, <1>3, <1>5, <1>6 DEF q

\* The last items: the hash of the innermost message, the array of an open list, or an open
\* map and the value of its entry.
LEMMA TopHash ==
    ASSUME NEW L, NEW tok, LevelsOK(L, tok), NEW it \in ItemSeq, NEW t, ItemsOK(L, it, t),
           ~Free(L), ~OpenList(L[Len(L)])
    PROVE  /\ Len(it) \in Nat \ {0} /\ it[Len(it)] # NULL /\ it[Len(it)] \in Paths
           /\ it[Len(it)] \in DOMAIN t /\ t[it[Len(it)]].kind = "hash"
           /\ t[it[Len(it)]].type = L[Len(L)].type /\ Last(it) = it[Len(it)]
<1> DEFINE N == Len(L)
<1>1. N \in Nat \ {0} /\ N \in DOMAIN L /\ ~InEntry(L[N]) /\ ~OpenMap(L[N]) /\ ~OpenList(L[N])
  BY LevelIs DEF Free
<1>2. N \in OwnOf(L)
  BY <1>1 DEF OwnOf
<1>3. Weight(L[N]) = 1 /\ \E h \in Nat : h = N - 1 /\ HeightOf(L, N) = HeightOf(L, h) + Weight(L[N])
  BY <1>1, WeightIs
<1>4. HeightOf(L, N - 1) + 1 = HeightOf(L, N) /\ HeightOf(L, N - 1) \in Nat
  BY <1>1, <1>3, WeightIs
<1>5. Len(it) = HeightOf(L, N) /\ HashAt(L, it, t, N) /\ Chain(it, t)
  BY <1>2 DEF ItemsOK
<1>6. it[Len(it)] # NULL /\ t[it[Len(it)]].kind = "hash" /\ t[it[Len(it)]].type = L[N].type
  BY <1>4, <1>5 DEF HashAt
<1>7. Len(it) \in Nat \ {0} /\ Len(it) \in DOMAIN it
  BY <1>4, <1>5, ItemsIn
<1> QED
  BY <1>5, <1>6, <1>7, ItemsIn DEF Chain, Last

\* If a list is open, the top item is its array.
LEMMA TopArray ==
    ASSUME NEW L, NEW tok, LevelsOK(L, tok), NEW it \in ItemSeq, NEW t, ItemsOK(L, it, t),
           Shaped(t), OpenList(L[Len(L)])
    PROVE  /\ Len(it) \in Nat /\ Len(it) > 1 /\ it[Len(it)] # NULL /\ it[Len(it)] \in Paths
           /\ it[Len(it)] \in DOMAIN t /\ t[it[Len(it)]].kind = "array"
           /\ ElementOf(t, it[Len(it)]) = Schema[L[Len(L)].type][L[Len(L)].field].message
           /\ Last(it) = it[Len(it)] /\ it[Len(it)] # <<>>
           /\ Last(it[Len(it)])[1] = "field"
<1> DEFINE N == Len(L)
<1>1. N \in Nat \ {0} /\ N \in DOMAIN L /\ ~InEntry(L[N]) /\ ~OpenMap(L[N]) /\ L[N] \in Levels
      /\ Entered(L[N])
  BY LevelIs
<1>2. N \in OwnOf(L) /\ N \in ListsOf(L)
  BY <1>1 DEF OwnOf, ListsOf
<1>4. HeightOf(L, N - 1) + 2 = HeightOf(L, N) /\ HeightOf(L, N - 1) \in Nat
  BY <1>2, ListHeight
<1>5. Len(it) = HeightOf(L, N) /\ HashAt(L, it, t, N) /\ ListAt(L, it, N) /\ Chain(it, t)
  BY <1>2 DEF ItemsOK
<1>6. PICK k \in Nat \ {0} : k = HeightOf(L, N - 1) + 1 /\ k = Len(it) - 1 /\ Len(it) = k + 1
  BY <1>4, <1>5
<1>7. it[k] # NULL /\ t[it[k]].kind = "hash" /\ t[it[k]].type = L[N].type
  BY <1>5, <1>6 DEF HashAt
<1>8. it[Len(it)] = Child(it[k], "field", L[N].field)
  BY <1>5, <1>6 DEF ListAt
<1>9. k \in DOMAIN it /\ Len(it) \in DOMAIN it
  BY <1>5, <1>6, ItemsIn
<1>10. it[k] \in Paths /\ L[N].field \in Nat
  BY <1>1, <1>5, <1>7, <1>9, ItemsIn DEF Levels
<1>11. it[Len(it)] \in Paths /\ Last(it[Len(it)]) = <<"field", L[N].field>> /\ it[Len(it)] # <<>>
  <2>1. PICK x \in Paths, f \in Nat : x = it[k] /\ f = L[N].field
    BY <1>10
  <2>2. <<"field", f>> \in Steps
    BY StepsAre
  <2>3. /\ Child(x, "field", f) \in Paths /\ Last(Child(x, "field", f)) = <<"field", f>>
        /\ Child(x, "field", f) # <<>>
    BY <2>2, ChildIs
  <2> QED
    BY <1>8, <2>1, <2>3
<1>12. it[Len(it)] # NULL
  BY <1>11, NullIs
<1>13. it[Len(it)] \in DOMAIN t
  BY <1>5, <1>9, <1>12 DEF Chain
<1>14. /\ FieldFits(t[it[Len(it)]], L[N].type, L[N].field)
       /\ ElementOf(t, it[Len(it)]) =
              IF t[it[Len(it)]].kind = "map"
              THEN Schema[Schema[L[N].type][L[N].field].message][ValueField].message
              ELSE Schema[L[N].type][L[N].field].message
  <2>1. PICK x \in Paths, f \in Nat : x = it[k] /\ f = L[N].field
    BY <1>10
  <2>2. t[x].kind = "hash" /\ Child(x, "field", f) \in DOMAIN t /\ Shaped(t)
    BY <1>7, <1>8, <1>13, <2>1
  <2>3. LET q == Child(x, "field", f)
            m == Schema[t[x].type][f].message
        IN  /\ FieldFits(t[q], t[x].type, f)
            /\ ElementOf(t, q) = IF t[q].kind = "map" THEN Schema[m][ValueField].message ELSE m
    BY <2>2, FieldAt
  <2> QED
    BY <1>7, <1>8, <2>1, <2>3
<1>15. t[it[Len(it)]].kind = "array"
  <2>1. Schema[L[N].type][L[N].field].repeated /\ ~Traits[L[N].type][L[N].field].map
    BY <1>1 DEF OpenList, Entered
  <2> QED
    BY <1>14, <2>1 DEF FieldFits
<1> QED
  BY <1>6, <1>11, <1>12, <1>13, <1>14, <1>15 DEF Last

\* If a map is open, the two top items are the map and the value of its entry, if it has
\* come.
LEMMA TopMap ==
    ASSUME NEW L, NEW tok, LevelsOK(L, tok), NEW it \in ItemSeq, NEW t, ItemsOK(L, it, t),
           Shaped(t), Free(L)
    PROVE  LET map == it[Len(it) - 1]
               m == Schema[L[MapLevel(L)].type][L[MapLevel(L)].field].message
           IN  /\ Len(it) \in Nat /\ Len(it) > 2 /\ map # NULL /\ map \in Paths
               /\ map \in DOMAIN t /\ t[map].kind = "map" /\ map # <<>>
               /\ ElementOf(t, map) = Schema[m][ValueField].message
               /\ m \in Entries /\ (InEntry(L[Len(L)]) => L[Len(L)].type = m)
               /\ it[Len(it)] \in {NULL, Value(map)}
               /\ it[Len(it)] # NULL => it[Len(it)] \in DOMAIN t
               /\ Last(it) = it[Len(it)]
               /\ Last(map)[1] = "field"
<1> DEFINE N == MapLevel(L)
           m == Schema[L[N].type][L[N].field].message
<1>1. /\ N \in Nat /\ N \in DOMAIN L /\ OpenMap(L[N]) /\ N \in OwnOf(L) /\ N \in MapsOf(L)
      /\ HeightOf(L, N) = HeightOf(L, Len(L))
      /\ InEntry(L[Len(L)]) => L[Len(L)].type = m
  BY FreeIs
<1>2. L[N] \in Levels /\ Entered(L[N]) /\ m \in Entries
  BY <1>1, LevelIs
<1> HIDE DEF N
<1>4. HeightOf(L, N) = HeightOf(L, N - 1) + 3 /\ HeightOf(L, N - 1) \in Nat
  BY <1>1, MapHeight
<1>5. Len(it) = HeightOf(L, N) /\ HashAt(L, it, t, N) /\ MapAt(L, it, N) /\ Chain(it, t)
  BY <1>1 DEF ItemsOK
<1>6. PICK k \in Nat \ {0} : /\ k = HeightOf(L, N - 1) + 1 /\ k = Len(it) - 2 /\ k + 1 = Len(it) - 1
                             /\ Len(it) = k + 2
  BY <1>4, <1>5
<1>7. it[k] # NULL /\ t[it[k]].kind = "hash" /\ t[it[k]].type = L[N].type
  BY <1>5, <1>6 DEF HashAt
<1> DEFINE map == it[Len(it) - 1]
<1>8. map = Child(it[k], "field", L[N].field) /\ it[Len(it)] \in {NULL, Value(map)}
  BY <1>5, <1>6 DEF MapAt
<1>9. k \in DOMAIN it /\ Len(it) \in DOMAIN it /\ Len(it) - 1 \in DOMAIN it
  BY <1>5, <1>6, ItemsIn
<1> HIDE DEF map
<1>10. it[k] \in Paths /\ L[N].field \in Nat
  BY <1>2, <1>5, <1>7, <1>9, ItemsIn DEF Levels
<1>11. map \in Paths /\ Last(map) = <<"field", L[N].field>> /\ map # <<>>
  <2>1. PICK x \in Paths, f \in Nat : x = it[k] /\ f = L[N].field
    BY <1>10
  <2>2. <<"field", f>> \in Steps
    BY StepsAre
  <2>3. /\ Child(x, "field", f) \in Paths /\ Last(Child(x, "field", f)) = <<"field", f>>
        /\ Child(x, "field", f) # <<>>
    BY <2>2, ChildIs
  <2> QED
    BY <1>8, <2>1, <2>3
<1>12. map # NULL
  BY <1>11, NullIs
<1>13. map \in DOMAIN t
  BY <1>5, <1>9, <1>12 DEF Chain, map
<1>14. /\ FieldFits(t[map], L[N].type, L[N].field)
       /\ ElementOf(t, map) = IF t[map].kind = "map" THEN Schema[m][ValueField].message ELSE m
  <2>0. PICK y : y = L[N].type
    OBVIOUS
  <2>1. PICK x \in Paths, f \in Nat : x = it[k] /\ f = L[N].field
    BY <1>10
  <2>2. /\ t[x].kind = "hash" /\ t[x].type = y /\ m = Schema[y][f].message
        /\ Child(x, "field", f) = map
    BY <1>7, <1>8, <2>0, <2>1
  <2> HIDE DEF m
  <2>3. /\ FieldFits(t[map], y, f)
        /\ ElementOf(t, map) = IF t[map].kind = "map" THEN Schema[m][ValueField].message ELSE m
    BY <1>13, <2>2, FieldAt
  <2> QED
    BY <2>0, <2>1, <2>3
<1>15. t[map].kind = "map"
  <2>1. Schema[L[N].type][L[N].field].repeated /\ Traits[L[N].type][L[N].field].map
    BY <1>1, <1>2 DEF OpenMap, Entered
  <2> QED
    BY <1>14, <2>1 DEF FieldFits
<1>16. it[Len(it)] # NULL => it[Len(it)] \in DOMAIN t
  BY <1>5, <1>9 DEF Chain
<1>17. Last(it) = it[Len(it)] /\ Len(it) \in Nat /\ Len(it) > 2
  BY <1>6 DEF Last
<1>18. Last(map)[1] = "field"
  BY <1>11
<1> QED
  BY <1>1, <1>2, <1>8, <1>11, <1>12, <1>13, <1>14, <1>15, <1>16, <1>17, <1>18 DEF map, N

\* Levels that push the same hold the same items.
LEMMA ItemsAlike ==
    ASSUME NEW L, NEW tok, LevelsOK(L, tok), NEW M, NEW tok2, LevelsOK(M, tok2),
           Len(M) = Len(L), \A i \in DOMAIN L : Alike(L[i], M[i]), NEW it, NEW t, ItemsOK(L, it, t)
    PROVE  ItemsOK(M, it, t) /\ (Free(L) <=> Free(M)) /\ MapLevel(L) = MapLevel(M)
<1>1. /\ L \in Seq(Levels) /\ Len(L) \in Nat \ {0} /\ DOMAIN L = 1..Len(L)
      /\ M \in Seq(Levels) /\ DOMAIN M = 1..Len(L)
  BY LevelIs
<1>2. \A j \in 0..Len(L) : HeightOf(L, j) = HeightOf(M, j)
  BY <1>1, HeightSame
<1>3. /\ OwnOf(M) = OwnOf(L) /\ MapsOf(M) = MapsOf(L) /\ ListsOf(M) = ListsOf(L)
  BY <1>1 DEF OwnOf, MapsOf, ListsOf, Alike, InEntry
<1>4. ASSUME NEW i \in OwnOf(L) PROVE HashAt(M, it, t, i)
  <2>1. HashAt(L, it, t, i) /\ L[i].type = M[i].type
    BY DEF ItemsOK, OwnOf, Alike
  <2>2. i - 1 \in 0..Len(L)
    BY <1>1 DEF OwnOf
  <2>3. HeightOf(L, i - 1) = HeightOf(M, i - 1)
    BY <1>2, <2>2
  <2> QED
    BY <2>1, <2>3 DEF HashAt
<1>5. ASSUME NEW i \in MapsOf(L) PROVE MapAt(M, it, i)
  <2>1. MapAt(L, it, i) /\ L[i].field = M[i].field
    BY DEF ItemsOK, MapsOf, Alike
  <2>2. HeightOf(L, i) = HeightOf(M, i)
    BY <1>1, <1>2 DEF MapsOf
  <2> QED
    BY <2>1, <2>2 DEF MapAt
<1>6. ASSUME NEW i \in ListsOf(L) PROVE ListAt(M, it, i)
  <2>1. ListAt(L, it, i) /\ L[i].field = M[i].field
    BY DEF ItemsOK, ListsOf, Alike
  <2>2. HeightOf(L, i) = HeightOf(M, i)
    BY <1>1, <1>2 DEF ListsOf
  <2> QED
    BY <2>1, <2>2 DEF ListAt
<1>7. HeightOf(L, Len(L)) = HeightOf(M, Len(M))
  BY <1>1, <1>2
<1>8. Len(L) \in DOMAIN L
  BY <1>1
<1>9. (Free(L) <=> Free(M)) /\ MapLevel(L) = MapLevel(M)
  BY <1>8 DEF Free, MapLevel, Alike, InEntry
<1> QED
  BY <1>3, <1>4, <1>5, <1>6, <1>7, <1>9 DEF ItemsOK

----------------------------------------------------------------------------
(* Storing a node.                                                                *)

TreeOK(t) == Shaped(t) /\ \A p \in Values(t) : t[p] # Undef

\* The tree with another node,
LEMMA PutIs ==
    ASSUME NEW t, NEW p, NEW node
    PROVE  /\ DOMAIN Put(t, p, node) = DOMAIN t \cup {p} /\ Put(t, p, node)[p] = node
           /\ \A q \in DOMAIN t : q # p => Put(t, p, node)[q] = t[q]
  BY DEF Put

\* which is as well the one with the same node at one path.
LEMMA PutOne ==
    ASSUME NEW t, NEW p, NEW node
    PROVE  Put(t, p, node) = PutAll(t, {p}, node)
<1>1. \A q : q = p <=> q \in {p}
  OBVIOUS
<1> QED
  BY <1>1 DEF Put, PutAll

\* A store that leaves what is around the open container keeps the items in step with the
\* tree.
LEMMA StoreKept ==
    ASSUME NEW L, NEW tok, LevelsOK(L, tok), NEW it \in ItemSeq, NEW t, ItemsOK(L, it, t),
           TreeOK(t), NEW at \in Paths, NEW node, node # Undef, NEW d,
           DOMAIN d \subseteq DOMAIN t, \A p \in DOMAIN d : d[p] = t[p],
           Free(L) => at = Value(it[Len(it) - 1]),
           Free(L) => \A p \in DOMAIN t : ~IsPrefix(at, p) => p \in DOMAIN d,
           ~Free(L) => Last(at)[1] # "value" /\ it[Len(it)] # NULL,
           ~Free(L) => \A p \in DOMAIN t : IsPrefix(p, it[Len(it)]) => p \in DOMAIN d /\ p # at
    PROVE  LET it2 == IF Free(L) THEN SetLast(it, at) ELSE it
               u   == Put(d, at, node)
           IN  /\ it2 \in ItemSeq /\ Len(it2) = Len(it) /\ it # <<>>
               /\ Last(it2) = IF Free(L) THEN at ELSE Last(it)
               /\ ItemsOK(L, it2, u)
               /\ \A p \in Values(u) : u[p] # Undef
<1> DEFINE n == Len(it)
           it2 == IF Free(L) THEN SetLast(it, at) ELSE it
           u == Put(d, at, node)
<1>1. Chain(it, t) /\ it[1] = <<>> /\ n = HeightOf(L, Len(L)) /\ Shaped(t)
  BY DEF ItemsOK, TreeOK
<1>2. n \in Nat \ {0} /\ DOMAIN it = 1..n /\ it # <<>>
  <2>1. 1 \in OwnOf(L)
    BY LevelIs DEF OwnOf
  <2>2. HeightOf(L, 1 - 1) \in Nat /\ HeightOf(L, 1 - 1) + 1 <= HeightOf(L, Len(L))
    BY <2>1, OwnHeight
  <2>3. n \in Nat /\ DOMAIN it = 1..n
    BY <1>1, ItemsIn
  <2>4. n # 0
    BY <1>1, <2>2, <2>3
  <2> QED
    BY <2>3, <2>4
<1>3. /\ it2 \in ItemSeq /\ Len(it2) = n /\ DOMAIN it2 = 1..n
      /\ \A k \in 1..(n - 1) : it2[k] = it[k]
      /\ it2[n] = IF Free(L) THEN at ELSE it[n]
      /\ Last(it2) = IF Free(L) THEN at ELSE Last(it)
  <2>1. CASE Free(L)
    <3>1. at \in Paths \cup {NULL} /\ it # <<>>
      BY <1>2
    <3>2. /\ SetLast(it, at) \in ItemSeq /\ Len(SetLast(it, at)) = Len(it)
          /\ DOMAIN SetLast(it, at) = 1..Len(it)
          /\ \A i \in 1..(Len(it) - 1) : SetLast(it, at)[i] = it[i]
          /\ SetLast(it, at)[Len(it)] = at /\ Last(SetLast(it, at)) = at
      BY <3>1, SetLastItem
    <3> QED
      BY <2>1, <3>2
  <2>2. CASE ~Free(L)
    BY <1>2, <2>2
  <2> QED
    BY <2>1, <2>2
<1>4. /\ DOMAIN u = DOMAIN d \cup {at} /\ u[at] = node
      /\ \A q \in DOMAIN d : q # at => u[q] = t[q]
  <2>1. /\ DOMAIN Put(d, at, node) = DOMAIN d \cup {at} /\ Put(d, at, node)[at] = node
        /\ \A q \in DOMAIN d : q # at => Put(d, at, node)[q] = d[q]
    BY DEF Put
  <2> QED
    BY <2>1
<1> HIDE DEF n, it2, u
<1>5. ASSUME Free(L)
      PROVE  /\ n > 2 /\ it[n - 1] \in Paths /\ it[n - 1] # NULL /\ it[n] \in {NULL, at}
             /\ at = Value(it[n - 1])
  <2>1. it[n] \in {NULL, at} /\ at = Value(it[n - 1])
    BY <1>1, <1>5, TopMap DEF n
  <2>2. n > 2 /\ it[n - 1] \in Paths /\ it[n - 1] # NULL
    BY <1>1, <1>5, TopMap DEF n
  <2> QED
    BY <2>1, <2>2
<1>6. ASSUME NEW k \in 1..n, k < n \/ ~Free(L)
      PROVE  it[k] \in Paths /\ it[k] \in DOMAIN t /\ it[k] \in DOMAIN d /\ it[k] # at
  <2>1. it[k] # NULL
    <3>1. CASE k < n
      BY <1>1, <1>2, <3>1, ItemsIn DEF n
    <3>2. CASE k = n /\ ~Free(L)
      BY <3>2 DEF n
    <3> QED
      BY <1>2, <1>6, <3>1, <3>2
  <2>2. it[k] \in Paths /\ it[k] \in DOMAIN t
    BY <1>1, <1>2, <2>1, ItemsIn DEF Chain
  <2>3. CASE Free(L)
    <3>1. PICK h \in 1..n : h = n - 1 /\ k <= h
      BY <1>2, <1>5, <1>6, <2>3
    <3>2. IsPrefix(it[k], it[h])
      BY <1>1, <1>2, <1>5, <2>3, <3>1 DEF Chain
    <3>3. ~IsPrefix(at, it[k])
      <4>1. it[h] \in Paths /\ at = Value(it[h])
        BY <1>5, <2>3, <3>1
      <4>2. PICK x \in Paths, y \in Paths : x = it[k] /\ y = it[h]
        BY <2>2, <4>1
      <4>3. IsPrefix(x, y)
        BY <3>2, <4>2
      <4>4. ~IsPrefix(Value(y), x)
        BY <4>3, ValueIs
      <4> QED
        BY <4>1, <4>2, <4>4
    <3>4. IsPrefix(at, at)
      BY PrefixSelf
    <3> QED
      BY <2>2, <2>3, <3>3, <3>4
  <2>4. CASE ~Free(L)
    <3>1. IsPrefix(it[k], it[n])
      <4>1. k <= n /\ n \in DOMAIN it /\ k \in DOMAIN it /\ it[n] # NULL
        BY <1>2, <2>4 DEF n
      <4> QED
        BY <1>1, <4>1 DEF Chain
    <3> QED
      BY <2>2, <2>4, <3>1 DEF n
  <2> QED
    BY <2>3, <2>4
<1>7. ASSUME NEW k \in 1..n, k < n \/ ~Free(L) PROVE Kept(t, u, it[k])
  <2>1. PICK q \in DOMAIN d : q = it[k] /\ q # at
    BY <1>6, <1>7
  <2>2. u[q] = t[q] /\ q \in DOMAIN u
    BY <1>4, <2>1
  <2> QED
    BY <2>1, <2>2 DEF Kept, SameAt
<1>8. ASSUME NEW p \in Values(u), p # at PROVE p \in Values(t) /\ p \in DOMAIN d /\ u[p] = t[p]
  BY <1>4, <1>8 DEF Values
<1>9. ASSUME NEW p \in Values(u) PROVE \E k \in DOMAIN it2 : p = it2[k]
  <2>1. CASE p = at
    <3>1. Free(L)
      BY <1>9, <2>1 DEF Values
    <3> QED
      BY <1>2, <1>3, <2>1, <3>1
  <2>2. CASE p # at
    <3>1. PICK k \in DOMAIN it : p = it[k]
      BY <1>1, <1>8, <2>2 DEF Chain
    <3>2. p \in Paths
      BY <1>1, <1>8, <2>2 DEF Shaped, IsTree
    <3>3. k < n \/ ~Free(L)
      BY <1>2, <1>5, <2>2, <3>1, <3>2, NullIs
    <3>4. it2[k] = it[k]
      BY <1>2, <1>3, <3>1, <3>3
    <3> QED
      BY <1>2, <1>3, <3>1, <3>4
  <2> QED
    BY <2>1, <2>2
<1>10. ItemsOK(L, it2, u)
  <2>1. \A k \in 1..(n - 1) : it2[k] = it[k] /\ Kept(t, u, it[k])
    <3>1. \A k \in 1..(n - 1) : k \in 1..n /\ k < n
      BY <1>2
    <3> QED
      BY <1>3, <1>7, <3>1
  <2>2. Free(L) => it2[n] \in {NULL, Value(it[n - 1])}
    BY <1>3, <1>5
  <2>3. ~Free(L) => it2[n] = it[n] /\ Kept(t, u, it[n])
    BY <1>2, <1>3, <1>7
  <2>4. it2[n] # NULL => it2[n] \in DOMAIN u
    <3>1. CASE Free(L)
      BY <1>3, <1>4, <3>1
    <3>2. CASE ~Free(L)
      BY <2>3, <3>2 DEF Kept
    <3> QED
      BY <3>1, <3>2
  <2>5. Values(u) \subseteq {it2[k] : k \in DOMAIN it2}
    BY <1>9
  <2>6. Len(it2) = Len(it) /\ it2 \in ItemSeq
    BY <1>3 DEF n
  <2> QED
    BY <2>1, <2>2, <2>3, <2>4, <2>5, <2>6, ItemsKept DEF n
<1>11. \A p \in Values(u) : u[p] # Undef
  <2>1. \A p \in Values(u) : p # at => u[p] # Undef
    BY <1>8 DEF TreeOK
  <2> QED
    BY <1>4, <2>1
<1> QED
  BY <1>2, <1>3, <1>10, <1>11 DEF n, it2, u

StoresAt(L, it, t, at, d) ==
    /\ it \in ItemSeq /\ ItemsOK(L, it, t) /\ TreeOK(t) /\ at \in Paths
    /\ DOMAIN d \subseteq DOMAIN t /\ \A p \in DOMAIN d : d[p] = t[p]
    /\ Free(L) => at = Value(it[Len(it) - 1])
    /\ Free(L) => \A p \in DOMAIN t : ~IsPrefix(at, p) => p \in DOMAIN d
    /\ ~Free(L) => Last(at)[1] # "value" /\ it[Len(it)] # NULL
    /\ ~Free(L) => \A p \in DOMAIN t : IsPrefix(p, it[Len(it)]) => p \in DOMAIN d /\ p # at

\* The same, of the trees and paths get_target finds.
LEMMA StoreKeptAt ==
    ASSUME NEW L, NEW tok, LevelsOK(L, tok), NEW it, NEW t, NEW at, NEW d,
           StoresAt(L, it, t, at, d), NEW node, node # Undef
    PROVE  LET it2 == IF Free(L) THEN SetLast(it, at) ELSE it
               u   == Put(d, at, node)
           IN  /\ it2 \in ItemSeq /\ Len(it2) = Len(it) /\ it # <<>>
               /\ Last(it2) = IF Free(L) THEN at ELSE Last(it)
               /\ ItemsOK(L, it2, u)
               /\ \A p \in Values(u) : u[p] # Undef
  BY StoreKept DEF StoresAt

\* A value in a field,
LEMMA StoreField ==
    ASSUME NEW t, Shaped(t), NEW h \in DOMAIN t, t[h].kind = "hash", t[h].type \in Messages,
           NEW f \in FieldsOf(t[h].type), NEW node \in Nodes, FieldFits(node, t[h].type, f)
    PROVE  /\ Shaped(Put(t, Child(h, "field", f), node)) /\ f \in Nat
           /\ Child(h, "field", f) \in Paths /\ Child(h, "field", f) # <<>>
           /\ Last(Child(h, "field", f)) = <<"field", f>> /\ Front(Child(h, "field", f)) = h
<1>1. h \in Paths
  BY DEF Shaped, IsTree
<1>2. f \in Nat
  BY SchemaAssumption
<1>3. <<"field", f>> \in Steps
  BY <1>2, StepsAre
<1> DEFINE at == Child(h, "field", f)
<1>4. at \in Paths /\ at # <<>> /\ Front(at) = h /\ Last(at) = <<"field", f>>
  BY <1>1, <1>3, ChildIs
<1> HIDE DEF at
<1>5. <<"field", f>>[1] = "field" /\ <<"field", f>>[2] = f
  OBVIOUS
<1>6. Placed(t, Front(at), Last(at), node)
  BY <1>4, <1>5 DEF Placed
<1>7. Shaped(PutAll(t, {at}, node))
  <2>1. {at} \in SUBSET Paths /\ <<>> \notin {at}
    BY <1>4
  <2>2. \A p \in {at} : Front(p) \in DOMAIN t /\ Placed(t, Front(p), Last(p), node)
    BY <1>4, <1>6
  <2>3. \A p \in {at} : p \in DOMAIN t => Last(p)[1] = "field"
    BY <1>4, <1>5
  <2>4. \A p \in {at} : Last(p)[1] = "item" =>
            {at} = {p} /\ p = Child(Front(p), "item", Cardinality(Items(t, Front(p))) + 1)
    BY <1>4, <1>5
  <2> QED
    BY <2>1, <2>2, <2>3, <2>4, PutShaped
<1> QED
  BY <1>2, <1>4, <1>7, PutOne DEF at

\* one at the end of an array
LEMMA StoreItem ==
    ASSUME NEW t, Shaped(t), NEW a \in DOMAIN t, t[a].kind = "array",
           NEW node \in Nodes, Fits(node, ElementOf(t, a)), NEW n, n = Cardinality(Items(t, a)) + 1
    PROVE  /\ Shaped(Put(t, Child(a, "item", n), node)) /\ <<"item", n>> \in Steps
           /\ Child(a, "item", n) \in Paths /\ Child(a, "item", n) # <<>>
           /\ Last(Child(a, "item", n)) = <<"item", n>> /\ Front(Child(a, "item", n)) = a
<1>1. a \in Paths
  BY DEF Shaped, IsTree
<1>2. n \in Nat
  <2>1. IsFiniteSet(Items(t, a))
    BY DEF Shaped, Dense
  <2>2. Cardinality(Items(t, a)) \in Nat
    BY <2>1, FS_CardinalityType
  <2> QED
    BY <2>2
<1>3. <<"item", n>> \in Steps
  BY <1>2, StepsAre
<1> DEFINE at == Child(a, "item", n)
<1>4. at \in Paths /\ at # <<>> /\ Front(at) = a /\ Last(at) = <<"item", n>>
  BY <1>1, <1>3, ChildIs
<1>5. at = Child(a, "item", Cardinality(Items(t, a)) + 1)
  OBVIOUS
<1> HIDE DEF at
<1>6. <<"item", n>>[1] = "item"
  OBVIOUS
<1>7. Placed(t, Front(at), Last(at), node)
  BY <1>4, <1>6 DEF Placed
<1>8. at \notin DOMAIN t
  <2> SUFFICES ASSUME at \in DOMAIN t PROVE FALSE
    OBVIOUS
  <2>1. at \in Items(t, a)
    <3>1. DOMAIN t \subseteq Paths
      BY DEF Shaped, IsTree
    <3> QED
      BY <1>1, <1>4, <3>1, ItemsAre
  <2>2. PICK j \in 1..Cardinality(Items(t, a)) : at = Child(a, "item", j)
    BY <2>1 DEF Shaped, Dense
  <2>3. Cardinality(Items(t, a)) \in Nat
    <3>1. IsFiniteSet(Items(t, a))
      BY DEF Shaped, Dense
    <3> QED
      BY <3>1, FS_CardinalityType
  <2>4. j \in Nat /\ j # n
    BY <2>3
  <2>5. <<"item", j>> \in Steps
    BY <2>4, StepsAre
  <2>6. Last(at) = <<"item", j>>
    BY <1>1, <2>2, <2>5, ChildIs
  <2> QED
    BY <1>4, <2>4, <2>6
<1>9. Shaped(PutAll(t, {at}, node))
  <2>1. {at} \in SUBSET Paths /\ <<>> \notin {at}
    BY <1>4
  <2>2. \A p \in {at} : Front(p) \in DOMAIN t /\ Placed(t, Front(p), Last(p), node)
    BY <1>4, <1>7
  <2>3. \A p \in {at} : p \in DOMAIN t => Last(p)[1] = "field"
    BY <1>8
  <2>4. \A p \in {at} : Last(p)[1] = "item" =>
            {at} = {p} /\ p = Child(Front(p), "item", Cardinality(Items(t, Front(p))) + 1)
    BY <1>4, <1>5
  <2> QED
    BY <2>1, <2>2, <2>3, <2>4, PutShaped
<1> QED
  BY <1>3, <1>4, <1>9, PutOne DEF at

\* and one that waits for its key keep the shape of the tree.
LEMMA StoreValue ==
    ASSUME NEW t, Shaped(t), NEW map \in DOMAIN t, t[map].kind = "map", Value(map) \notin DOMAIN t,
           NEW node \in Nodes, Fits(node, ElementOf(t, map)) \/ Absent(node, ElementOf(t, map))
    PROVE  Shaped(Put(t, Value(map), node))
<1>1. map \in Paths
  BY DEF Shaped, IsTree
<1> DEFINE at == Value(map)
<1>4. at \in Paths /\ at # <<>> /\ Front(at) = map /\ Last(at)[1] = "value"
  BY <1>1, ValueIs
<1>5. at \notin DOMAIN t
  OBVIOUS
<1> HIDE DEF at
<1>7. Placed(t, Front(at), Last(at), node)
  BY <1>4 DEF Placed
<1>9. Shaped(PutAll(t, {at}, node))
  <2>1. {at} \in SUBSET Paths /\ <<>> \notin {at}
    BY <1>4
  <2>2. \A p \in {at} : Front(p) \in DOMAIN t /\ Placed(t, Front(p), Last(p), node)
    BY <1>4, <1>7
  <2>3. \A p \in {at} : p \in DOMAIN t => Last(p)[1] = "field"
    BY <1>5
  <2>4. \A p \in {at} : Last(p)[1] = "item" =>
            {at} = {p} /\ p = Child(Front(p), "item", Cardinality(Items(t, Front(p))) + 1)
    BY <1>4
  <2> QED
    BY <2>1, <2>2, <2>3, <2>4, PutShaped
<1> QED
  BY <1>9, PutOne DEF at

\* Dropping what no item is in leaves the nodes above it as they were.
LEMMA DropValue ==
    ASSUME NEW t, Shaped(t), NEW map \in DOMAIN t, t[map].kind = "map"
    PROVE  LET d == Drop(t, Value(map))
           IN  /\ Shaped(d) /\ map \in DOMAIN d /\ d[map] = t[map] /\ Value(map) \notin DOMAIN d
               /\ DOMAIN d \subseteq DOMAIN t /\ \A p \in DOMAIN d : d[p] = t[p]
               /\ \A p \in DOMAIN t : ~IsPrefix(Value(map), p) => p \in DOMAIN d
               /\ ElementOf(d, map) = ElementOf(t, map)
<1> DEFINE d == Drop(t, Value(map))
           at == Value(map)
<1>1. map \in Paths /\ map # <<>> /\ Front(map) \in DOMAIN t
  BY RepeatedIs DEF Shaped, IsTree
<1>2. at \in Paths /\ at # <<>> /\ Last(at)[1] = "value" /\ IsPrefix(at, at) /\ ~IsPrefix(at, map)
  BY <1>1, ValueIs, PrefixSelf
<1>3. /\ \A p : p \in DOMAIN d <=> p \in DOMAIN t /\ ~IsPrefix(at, p)
      /\ \A p \in DOMAIN t : ~IsPrefix(at, p) => d[p] = t[p]
  BY DropIs
<1>4. Shaped(d)
  BY <1>2, DropShaped
<1> HIDE DEF d, at
<1>5. Front(map) \in DOMAIN d
  BY <1>1, <1>2, <1>3, <1>4 DEF Shaped
<1>6. ElementOf(d, map) = ElementOf(t, map)
  BY <1>1, <1>2, <1>3, <1>5 DEF ElementOf
<1> QED
  BY <1>2, <1>3, <1>4, <1>6 DEF d, at

\* The handler of a field, at the level that has it.
Storing(L, c, f) ==
    LET top == L[Len(L)]
    IN  /\ ItemsOK(L, c.items, c.tree) /\ TreeOK(c.tree) /\ c.items \in ItemSeq
        /\ Mapper(c) = top.type /\ ~OpenMap(top) /\ f \in FieldsOf(top.type)
        /\ InEntry(top) => f = ValueField
        /\ ~InEntry(top) => (Schema[top.type][f].repeated <=> OpenList(top))
        /\ OpenList(top) => f = top.field
        /\ Oneofs(top.type) # {} => Last(c.seenOneof) \in OneofState(top.type)

\* get_target and the store after it keep the tree and the items in step: in an entry,
LEMMA StoreInEntry ==
    ASSUME NEW L, NEW tok, LevelsOK(L, tok), NEW c, NEW f, Storing(L, c, f), InEntry(L[Len(L)]),
           NEW node \in Nodes, Fits(node, Schema[L[Len(L)].type][f].message)
    PROVE  LET at  == TargetPath(c, f)
               it2 == TargetItems(c, f)
               u   == Put(TargetTree(c, f), at, node)
           IN  /\ at \in Paths /\ at # <<>> /\ it2 \in ItemSeq /\ it2 # <<>> /\ TreeOK(u)
               /\ ItemsOK(L, it2, u) /\ Last(it2) = at /\ IsValue(c, f)
<1> DEFINE it == c.items
           t == c.tree
           map == it[Len(it) - 1]
           at == Value(map)
           d == Drop(t, at)
           u == Put(d, at, node)
<1>1. Free(L) /\ IsValue(c, f) /\ f = ValueField /\ Mapper(c) = L[Len(L)].type
  BY DEF Free, IsValue, Storing, InEntry
<1>2. ItemsOK(L, it, t) /\ Shaped(t) /\ it \in ItemSeq /\ TreeOK(t)
  BY DEF Storing, TreeOK
<1>3. TargetPath(c, f) = at /\ TargetItems(c, f) = SetLast(it, at) /\ TargetTree(c, f) = d
  BY <1>1 DEF TargetPath, TargetItems, TargetTree
<1> HIDE DEF it, t, map, d, at, u
<1>4. /\ map \in Paths /\ map \in DOMAIN t /\ t[map].kind = "map"
      /\ ElementOf(t, map) = Schema[L[Len(L)].type][ValueField].message
  <2> DEFINE m == Schema[L[MapLevel(L)].type][L[MapLevel(L)].field].message
  <2>1. /\ map \in Paths /\ map \in DOMAIN t /\ t[map].kind = "map"
        /\ ElementOf(t, map) = Schema[m][ValueField].message
        /\ InEntry(L[Len(L)]) => L[Len(L)].type = m
    BY <1>1, <1>2, TopMap DEF map
  <2> HIDE DEF m
  <2> QED
    BY <2>1
<1>5. /\ Shaped(d) /\ map \in DOMAIN d /\ d[map] = t[map] /\ at \notin DOMAIN d
      /\ DOMAIN d \subseteq DOMAIN t /\ \A p \in DOMAIN d : d[p] = t[p]
      /\ \A p \in DOMAIN t : ~IsPrefix(at, p) => p \in DOMAIN d
      /\ ElementOf(d, map) = ElementOf(t, map)
  BY <1>2, <1>4, DropValue DEF d, at
<1>6. Shaped(u)
  <2>1. d[map].kind = "map" /\ Fits(node, ElementOf(d, map))
    BY <1>1, <1>4, <1>5
  <2>2. Value(map) \notin DOMAIN d
    BY <1>5 DEF at
  <2> QED
    BY <1>5, <2>1, <2>2, StoreValue DEF u, at
<1>7. at \in Paths /\ at # <<>> /\ at = Value(it[Len(it) - 1])
  BY <1>4, ValueIs DEF at, map
<1>8. node # Undef
  <2>1. node.kind # "undef"
    BY DEF Fits
  <2>2. Undef.kind = "undef"
    BY DEF Undef, Leaf
  <2> QED
    BY <2>1, <2>2
<1>9. LET it2 == IF Free(L) THEN SetLast(it, at) ELSE it
      IN  /\ it2 \in ItemSeq /\ Len(it2) = Len(it) /\ it # <<>>
          /\ Last(it2) = IF Free(L) THEN at ELSE Last(it)
          /\ ItemsOK(L, it2, Put(d, at, node))
          /\ \A p \in Values(Put(d, at, node)) : Put(d, at, node)[p] # Undef
  BY <1>1, <1>2, <1>5, <1>7, <1>8, StoreKept
<1>10. /\ SetLast(it, at) \in ItemSeq /\ Len(SetLast(it, at)) = Len(it) /\ it # <<>>
       /\ Last(SetLast(it, at)) = at /\ ItemsOK(L, SetLast(it, at), u)
       /\ \A p \in Values(u) : u[p] # Undef
  BY <1>1, <1>9 DEF u
<1>11. SetLast(it, at) # <<>>
  BY <1>7, <1>10, SetLastItem
<1> QED
  BY <1>1, <1>3, <1>6, <1>7, <1>10, <1>11 DEF TreeOK, u

\* and in a list.
LEMMA StoreInList ==
    ASSUME NEW L, NEW tok, LevelsOK(L, tok), NEW c, NEW f, Storing(L, c, f), OpenList(L[Len(L)]),
           NEW node \in Nodes, Fits(node, Schema[L[Len(L)].type][f].message)
    PROVE  LET at  == TargetPath(c, f)
               it2 == TargetItems(c, f)
               u   == Put(TargetTree(c, f), at, node)
           IN  /\ at \in Paths /\ at # <<>> /\ it2 \in ItemSeq /\ it2 # <<>> /\ TreeOK(u)
               /\ ItemsOK(L, it2, u) /\ it2 = c.items /\ Last(it2) # NULL /\ Last(it2) \in Paths
               /\ at # Value(Last(it2)) /\ Last(at)[1] # "value" /\ IsPrefix(Last(it2), at)
               /\ at # Last(it2)
<1> DEFINE it == c.items
           t == c.tree
           a == Last(it)
           n == NextItem(c)
           at == Child(a, "item", n)
           u == Put(t, at, node)
<1>1. /\ ~Free(L) /\ ~IsValue(c, f) /\ Mapper(c) = L[Len(L)].type /\ f = L[Len(L)].field
      /\ Schema[L[Len(L)].type][f].repeated
  <2>1. ~InEntry(L[Len(L)]) /\ ~OpenMap(L[Len(L)])
    BY LevelIs
  <2> QED
    BY <2>1 DEF Free, IsValue, Storing, InEntry
<1>2. ItemsOK(L, it, t) /\ Shaped(t) /\ it \in ItemSeq /\ TreeOK(t)
  BY DEF Storing, TreeOK
<1>3. TargetPath(c, f) = at /\ TargetItems(c, f) = it /\ TargetTree(c, f) = t
  BY <1>1 DEF TargetPath, TargetItems, TargetTree, Member, Single
<1>4. n = Cardinality(Items(t, a)) + 1
  BY DEF NextItem
<1> HIDE DEF it, t, a, n, at, u
<1>5. /\ Len(it) \in Nat /\ Len(it) > 1 /\ it[Len(it)] # NULL /\ a \in Paths
      /\ a \in DOMAIN t /\ t[a].kind = "array" /\ a = it[Len(it)]
      /\ ElementOf(t, a) = Schema[L[Len(L)].type][f].message
  BY <1>1, <1>2, TopArray DEF a
<1>6. /\ Shaped(u) /\ <<"item", n>> \in Steps /\ at \in Paths /\ at # <<>>
      /\ Last(at) = <<"item", n>> /\ Front(at) = a
  BY <1>2, <1>4, <1>5, StoreItem DEF at, u
<1>7. Last(at)[1] = "item"
  BY <1>6
<1>8. IsPrefix(a, at) /\ ~IsPrefix(at, a)
  BY <1>5, <1>6, PrefixOfChild DEF at
<1>9. at # Value(a) /\ at # a
  <2>1. Last(Value(a))[1] = "value"
    BY <1>5, ValueIs
  <2>2. IsPrefix(a, a)
    BY <1>5, PrefixSelf
  <2> QED
    BY <1>7, <1>8, <2>1, <2>2
<1>10. node # Undef
  <2>1. node.kind # "undef"
    BY DEF Fits
  <2>2. Undef.kind = "undef"
    BY DEF Undef, Leaf
  <2> QED
    BY <2>1, <2>2
<1>11. \A p \in DOMAIN t : IsPrefix(p, a) => p # at
  BY <1>8
<1>12. LET it2 == IF Free(L) THEN SetLast(it, at) ELSE it
       IN  /\ it2 \in ItemSeq /\ Len(it2) = Len(it) /\ it # <<>>
           /\ Last(it2) = IF Free(L) THEN at ELSE Last(it)
           /\ ItemsOK(L, it2, Put(t, at, node))
           /\ \A p \in Values(Put(t, at, node)) : Put(t, at, node)[p] # Undef
  <2>1. ~Free(L) => Last(at)[1] # "value" /\ it[Len(it)] # NULL
    BY <1>5, <1>7
  <2>2. ~Free(L) => \A p \in DOMAIN t : IsPrefix(p, it[Len(it)]) => p \in DOMAIN t /\ p # at
    BY <1>5, <1>11
  <2>3. DOMAIN t \subseteq DOMAIN t /\ \A p \in DOMAIN t : t[p] = t[p]
    OBVIOUS
  <2>4. Free(L) => at = Value(it[Len(it) - 1])
    BY <1>1
  <2>5. Free(L) => \A p \in DOMAIN t : ~IsPrefix(at, p) => p \in DOMAIN t
    BY <1>1
  <2> QED
    BY <1>2, <1>6, <1>10, <2>1, <2>2, <2>3, <2>4, <2>5, StoreKept
<1>13. ItemsOK(L, it, u) /\ it # <<>> /\ \A p \in Values(u) : u[p] # Undef
  BY <1>1, <1>12 DEF u
<1> QED
  BY <1>2, <1>3, <1>5, <1>6, <1>7, <1>8, <1>9, <1>13 DEF TreeOK, u, it, a

\* Dropping a member of a oneof keeps the shape, and what is around its message.
LEMMA DropMember ==
    ASSUME NEW t, Shaped(t), NEW h \in DOMAIN t, t[h].kind = "hash", NEW s \in Nat
    PROVE  LET q == Child(h, "field", s)
               d == Drop(t, q)
           IN  /\ Shaped(d) /\ h \in DOMAIN d /\ d[h] = t[h]
               /\ DOMAIN d \subseteq DOMAIN t /\ \A p \in DOMAIN d : d[p] = t[p]
               /\ \A p \in DOMAIN t : IsPrefix(p, h) => p \in DOMAIN d
               /\ \A g \in Nat : g # s => ~IsPrefix(q, Child(h, "field", g))
<1> DEFINE q == Child(h, "field", s)
           d == Drop(t, q)
<1>1. h \in Paths /\ DOMAIN t \subseteq Paths
  BY DEF Shaped, IsTree
<1>2. <<"field", s>> \in Steps /\ <<"field", s>>[1] = "field"
  BY StepsAre
<1>3. q \in Paths /\ q # <<>> /\ Last(q) = <<"field", s>> /\ Front(q) = h /\ Len(q) = Len(h) + 1
      /\ Len(h) \in Nat
  BY <1>1, <1>2, ChildIs
<1>4. /\ \A p : p \in DOMAIN d <=> p \in DOMAIN t /\ ~IsPrefix(q, p)
      /\ \A p \in DOMAIN t : ~IsPrefix(q, p) => d[p] = t[p]
  BY DropIs
<1>5. Last(q)[1] # "item"
  BY <1>2, <1>3
<1>6. Shaped(d)
  BY <1>3, <1>5, DropShaped
<1> HIDE DEF d, q
<1>7. ASSUME NEW p \in DOMAIN t, IsPrefix(p, h) PROVE ~IsPrefix(q, p)
  <2>1. p \in Paths
    BY <1>1
  <2>2. Len(p) <= Len(h) /\ Len(p) \in Nat
    BY <1>1, <1>7, <2>1, PrefixIs
  <2> QED
    BY <1>3, <2>1, <2>2, PrefixIs
<1>8. ASSUME NEW g \in Nat, g # s PROVE ~IsPrefix(q, Child(h, "field", g))
  <2>1. <<"field", g>> \in Steps /\ <<"field", g>> # <<"field", s>>
    BY <1>8, StepsAre
  <2>2. Last(Child(h, "field", g)) = <<"field", g>>
    BY <1>1, <2>1, ChildIs
  <2>3. q # Child(h, "field", g)
    BY <1>3, <2>1, <2>2
  <2>4. ~IsPrefix(q, h)
    <3>1. IsPrefix(h, h)
      BY <1>1, PrefixSelf
    <3> QED
      BY <1>7, <3>1
  <2> QED
    BY <1>1, <1>3, <2>1, <2>3, <2>4, PrefixOfChild
<1>9. h \in DOMAIN d /\ d[h] = t[h]
  BY <1>1, <1>4, <1>7, PrefixSelf
<1> QED
  BY <1>4, <1>6, <1>7, <1>8, <1>9 DEF d, q

\* The same in a message, where a member of a oneof may give way.
LEMMA StoreInHash ==
    ASSUME NEW L, NEW tok, LevelsOK(L, tok), NEW c, NEW f, Storing(L, c, f),
           ~InEntry(L[Len(L)]), ~OpenList(L[Len(L)]),
           NEW node \in Nodes, Fits(node, Schema[L[Len(L)].type][f].message)
    PROVE  LET at  == TargetPath(c, f)
               it2 == TargetItems(c, f)
               u   == Put(TargetTree(c, f), at, node)
           IN  /\ at \in Paths /\ at # <<>> /\ it2 \in ItemSeq /\ it2 # <<>> /\ TreeOK(u)
               /\ ItemsOK(L, it2, u) /\ it2 = c.items /\ Last(it2) # NULL /\ Last(it2) \in Paths
               /\ at # Value(Last(it2)) /\ Last(at)[1] # "value" /\ IsPrefix(Last(it2), at)
               /\ at # Last(it2)
<1> DEFINE it == c.items
           t == c.tree
           h == Last(it)
           at == Child(h, "field", f)
           d == TargetTree(c, f)
           u == Put(d, at, node)
           m == L[Len(L)].type
<1>1. /\ ~Free(L) /\ ~IsValue(c, f) /\ Mapper(c) = m /\ ~Schema[m][f].repeated
      /\ f \in FieldsOf(m)
  BY DEF Free, IsValue, Storing, InEntry
<1>2. ItemsOK(L, it, t) /\ Shaped(t) /\ it \in ItemSeq /\ TreeOK(t)
  BY DEF Storing, TreeOK
<1>3. TargetPath(c, f) = at /\ TargetItems(c, f) = it
  BY <1>1 DEF TargetPath, TargetItems
<1>4. d = t \/ \E s \in FieldsOf(m) : s # f /\ d = Drop(t, Child(h, "field", s))
  <2>1. CASE Member(c, f) /\ Seen(c, f) \notin {NoField, f}
    <3>1. OneofOf(c, f) \in Oneofs(m)
      BY <1>1, <2>1 DEF Member, OneofOf, Oneofs
    <3>2. Last(c.seenOneof) \in OneofState(m)
      BY <3>1 DEF Storing
    <3>3. Last(c.seenOneof) \in [Oneofs(m) -> {NoField} \cup FieldsOf(m)]
      BY <3>2 DEF OneofState
    <3>4. Seen(c, f) \in {NoField} \cup FieldsOf(m)
      BY <3>1, <3>3 DEF Seen
    <3>5. d = Drop(t, Child(h, "field", Seen(c, f)))
      BY <1>1, <2>1 DEF TargetTree
    <3> QED
      BY <2>1, <3>4, <3>5
  <2>2. CASE ~(Member(c, f) /\ Seen(c, f) \notin {NoField, f})
    <3>1. d = t
      BY <1>1, <2>2 DEF TargetTree
    <3> QED
      BY <3>1
  <2> QED
    BY <2>1, <2>2
<1>20. m \in Messages
  BY LevelIs, LevelsAre
<1> HIDE DEF it, t, h, d, at, u, m
<1>5. /\ Len(it) \in Nat \ {0} /\ it[Len(it)] # NULL /\ h \in Paths /\ h = it[Len(it)]
      /\ h \in DOMAIN t /\ t[h].kind = "hash" /\ t[h].type = m
  BY <1>1, <1>2, TopHash DEF h, m
<1>6. /\ Shaped(d) /\ h \in DOMAIN d /\ d[h] = t[h]
      /\ DOMAIN d \subseteq DOMAIN t /\ \A p \in DOMAIN d : d[p] = t[p]
      /\ \A p \in DOMAIN t : IsPrefix(p, h) => p \in DOMAIN d
  <2>1. CASE d = t
    BY <1>2, <1>5, <2>1
  <2>2. CASE \E s \in FieldsOf(m) : s # f /\ d = Drop(t, Child(h, "field", s))
    <3>1. PICK s \in FieldsOf(m) : d = Drop(t, Child(h, "field", s))
      BY <2>2
    <3>2. s \in Nat
      BY <1>20, SchemaAssumption
    <3> QED
      BY <1>2, <1>5, <3>1, <3>2, DropMember
  <2> QED
    BY <1>4, <2>1, <2>2
<1>7. /\ Shaped(u) /\ at \in Paths /\ at # <<>> /\ f \in Nat
      /\ Last(at) = <<"field", f>> /\ Front(at) = h
  <2>1. FieldFits(node, m, f)
    BY <1>1 DEF FieldFits, m
  <2>2. d[h].kind = "hash" /\ d[h].type = m
    BY <1>5, <1>6
  <2> QED
    BY <1>1, <1>6, <1>20, <2>1, <2>2, StoreField DEF at, u
<1>8. Last(at)[1] = "field"
  BY <1>7
<1>9. IsPrefix(h, at) /\ ~IsPrefix(at, h)
  <2>1. <<"field", f>> \in Steps
    BY <1>7, StepsAre
  <2> QED
    BY <1>5, <2>1, PrefixOfChild DEF at
<1>10. at # Value(h) /\ at # h
  <2>1. Last(Value(h))[1] = "value"
    BY <1>5, ValueIs
  <2>2. IsPrefix(h, h)
    BY <1>5, PrefixSelf
  <2> QED
    BY <1>8, <1>9, <2>1, <2>2
<1>11. node # Undef
  <2>1. node.kind # "undef"
    BY DEF Fits
  <2>2. Undef.kind = "undef"
    BY DEF Undef, Leaf
  <2> QED
    BY <2>1, <2>2
<1>12. LET it2 == IF Free(L) THEN SetLast(it, at) ELSE it
       IN  /\ it2 \in ItemSeq /\ Len(it2) = Len(it) /\ it # <<>>
           /\ Last(it2) = IF Free(L) THEN at ELSE Last(it)
           /\ ItemsOK(L, it2, Put(d, at, node))
           /\ \A p \in Values(Put(d, at, node)) : Put(d, at, node)[p] # Undef
  <2>1. ~Free(L) => Last(at)[1] # "value" /\ it[Len(it)] # NULL
    BY <1>5, <1>8
  <2>2. ~Free(L) => \A p \in DOMAIN t : IsPrefix(p, it[Len(it)]) => p \in DOMAIN d /\ p # at
    BY <1>5, <1>6, <1>9
  <2>3. DOMAIN d \subseteq DOMAIN t /\ \A p \in DOMAIN d : d[p] = t[p]
    BY <1>6
  <2>4. Free(L) => at = Value(it[Len(it) - 1])
    BY <1>1
  <2>5. Free(L) => \A p \in DOMAIN t : ~IsPrefix(at, p) => p \in DOMAIN d
    BY <1>1
  <2>6. at \in Paths
    BY <1>7
  <2> QED
    <3>1. StoresAt(L, it, t, at, d)
      BY <1>2, <2>1, <2>2, <2>3, <2>4, <2>5, <2>6 DEF StoresAt
    <3> QED
      BY <3>1, <1>11, StoreKeptAt
<1>13. ItemsOK(L, it, u) /\ it # <<>> /\ \A p \in Values(u) : u[p] # Undef
  BY <1>1, <1>12 DEF u
<1> QED
  BY <1>2, <1>3, <1>5, <1>7, <1>8, <1>9, <1>10, <1>13 DEF TreeOK, u, it, h, d

\* Storing a node keeps the items and the tree; what is stored is below the last item, or is it.
LEMMA Store ==
    ASSUME NEW L, NEW tok, LevelsOK(L, tok), NEW c, NEW f, Storing(L, c, f),
           NEW node \in Nodes, Fits(node, Schema[L[Len(L)].type][f].message)
    PROVE  LET at  == TargetPath(c, f)
               it2 == TargetItems(c, f)
               u   == Put(TargetTree(c, f), at, node)
           IN  /\ at \in Paths /\ at # <<>> /\ it2 \in ItemSeq /\ it2 # <<>> /\ TreeOK(u)
               /\ ItemsOK(L, it2, u) /\ Last(it2) \in Paths
               /\ at # Value(Last(it2)) /\ IsPrefix(Last(it2), at)
               /\ Last(at)[1] = "value" => at = Last(it2)
               /\ at \in DOMAIN u /\ u[at] = node
<1>1. TargetPath(c, f) \in DOMAIN Put(TargetTree(c, f), TargetPath(c, f), node)
      /\ Put(TargetTree(c, f), TargetPath(c, f), node)[TargetPath(c, f)] = node
  BY DEF Put
<1>2. CASE InEntry(L[Len(L)])
  <2>1. LET at  == TargetPath(c, f)
            it2 == TargetItems(c, f)
            u   == Put(TargetTree(c, f), at, node)
        IN  /\ at \in Paths /\ at # <<>> /\ it2 \in ItemSeq /\ it2 # <<>> /\ TreeOK(u)
            /\ ItemsOK(L, it2, u) /\ Last(it2) = at
    BY <1>2, StoreInEntry
  <2>2. PICK at \in Paths : at = TargetPath(c, f)
    BY <2>1
  <2>3. IsPrefix(at, at) /\ at # Value(at)
    BY PrefixSelf, ValueIs
  <2> QED
    BY <1>1, <2>1, <2>2, <2>3
<1>3. CASE OpenList(L[Len(L)])
  BY <1>1, <1>3, StoreInList
<1>4. CASE ~InEntry(L[Len(L)]) /\ ~OpenList(L[Len(L)])
  BY <1>1, <1>4, StoreInHash
<1> QED
  BY <1>2, <1>3, <1>4

----------------------------------------------------------------------------
(* Pushing and popping.                                                           *)

\* The levels B have one message more than S, or one open field more.
Deeper(S, B) ==
    /\ Len(B) = Len(S) + 1
    /\ \A i \in 1..Len(S) : B[i] = S[i]
    /\ ~OpenMap(B[Len(B)]) /\ ~OpenList(B[Len(B)])
Opened(S, B) ==
    /\ Len(B) = Len(S)
    /\ \A i \in 1..(Len(S) - 1) : B[i] = S[i]
    /\ B[Len(S)].type = S[Len(S)].type
    /\ ~OpenMap(S[Len(S)]) /\ ~OpenList(S[Len(S)]) /\ ~InEntry(S[Len(S)])
    /\ OpenMap(B[Len(B)]) \/ OpenList(B[Len(B)])
Grown(S, B) == Deeper(S, B) \/ Opened(S, B)

\* A message or an open field more adds itself to the levels that push,
LEMMA GrownSets ==
    ASSUME NEW S, NEW tok, LevelsOK(S, tok), NEW B, NEW tok2, LevelsOK(B, tok2), Grown(S, B)
    PROVE  LET n == Len(S) IN
           /\ n \in Nat \ {0} /\ S \in Seq(Levels) /\ B \in Seq(Levels)
           /\ \A i \in 1..n : B[i].type = S[i].type
           /\ \A i \in 1..n : i < n => B[i] = S[i]
           /\ OwnOf(B) = OwnOf(S) \cup IF Deeper(S, B) /\ ~InEntry(B[n + 1]) THEN {n + 1} ELSE {}
           /\ MapsOf(B) = MapsOf(S) \cup IF Opened(S, B) /\ OpenMap(B[n]) THEN {n} ELSE {}
           /\ ListsOf(B) = ListsOf(S) \cup IF Opened(S, B) /\ OpenList(B[n]) THEN {n} ELSE {}
           /\ Opened(S, B) => n \notin MapsOf(S) \cup ListsOf(S) /\ n \in OwnOf(S)
           /\ \A i \in MapsOf(S) \cup ListsOf(S) : B[i] = S[i]
           /\ ~(Deeper(S, B) /\ Opened(S, B)) /\ Len(B) = IF Deeper(S, B) THEN n + 1 ELSE n
           /\ Opened(S, B) => ~(OpenMap(B[n]) /\ OpenList(B[n])) /\ B[n].field \in FieldsOf(B[n].type)
<1> DEFINE n == Len(S)
<1>1. /\ n \in Nat \ {0} /\ S \in Seq(Levels) /\ B \in Seq(Levels)
      /\ DOMAIN S = 1..n /\ DOMAIN B = 1..Len(B)
  BY LevelIs
<1> HIDE DEF n
<1>2. CASE Deeper(S, B)
  <2>1. /\ Len(B) = n + 1 /\ \A i \in 1..n : B[i] = S[i]
        /\ ~OpenMap(B[n + 1]) /\ ~OpenList(B[n + 1])
    BY <1>2 DEF Deeper, n
  <2>2. \A i : i \in DOMAIN B <=> i \in DOMAIN S \/ i = n + 1
    BY <1>1, <2>1
  <2>3. \A i \in DOMAIN S : B[i] = S[i]
    BY <1>1, <2>1
  <2>4. ~Opened(S, B)
    BY <1>1, <2>1 DEF Opened, n
  <2>5. OwnOf(B) = OwnOf(S) \cup IF ~InEntry(B[n + 1]) THEN {n + 1} ELSE {}
    BY <2>2, <2>3 DEF OwnOf
  <2>6. MapsOf(B) = MapsOf(S)
    BY <2>1, <2>2, <2>3 DEF MapsOf
  <2>7. ListsOf(B) = ListsOf(S)
    BY <2>1, <2>2, <2>3 DEF ListsOf
  <2>8. \A i \in MapsOf(S) \cup ListsOf(S) : B[i] = S[i]
    BY <2>3 DEF MapsOf, ListsOf
  <2> QED
    BY <1>1, <1>2, <2>1, <2>4, <2>5, <2>6, <2>7, <2>8 DEF n
<1>3. CASE Opened(S, B)
  <2>1. /\ Len(B) = n /\ \A i \in 1..(n - 1) : B[i] = S[i]
        /\ B[n].type = S[n].type /\ ~OpenMap(S[n]) /\ ~OpenList(S[n]) /\ ~InEntry(S[n])
        /\ OpenMap(B[n]) \/ OpenList(B[n])
    BY <1>3 DEF Opened, n
  <2>2. DOMAIN B = DOMAIN S /\ n \in DOMAIN S
    BY <1>1, <2>1
  <2>3. \A i \in DOMAIN S : i # n => B[i] = S[i]
    BY <1>1, <2>1
  <2>4. ~Deeper(S, B)
    BY <1>1, <2>1 DEF Deeper, n
  <2>5. OwnOf(B) = OwnOf(S)
    BY <2>1, <2>2, <2>3 DEF OwnOf, InEntry
  <2>6. MapsOf(B) = MapsOf(S) \cup IF OpenMap(B[n]) THEN {n} ELSE {}
    BY <2>1, <2>2, <2>3 DEF MapsOf
  <2>7. ListsOf(B) = ListsOf(S) \cup IF OpenList(B[n]) THEN {n} ELSE {}
    BY <2>1, <2>2, <2>3 DEF ListsOf
  <2>8. n \notin MapsOf(S) \cup ListsOf(S) /\ n \in OwnOf(S)
    BY <2>1, <2>2 DEF MapsOf, ListsOf, OwnOf
  <2>9. \A i \in MapsOf(S) \cup ListsOf(S) : B[i] = S[i]
    BY <2>3, <2>8 DEF MapsOf, ListsOf
  <2>10. ~(OpenMap(B[n]) /\ OpenList(B[n])) /\ B[n].field \in FieldsOf(B[n].type)
    BY <2>1, <2>2, LevelIs DEF Entered
  <2>11. \A i \in 1..n : B[i].type = S[i].type
    BY <1>1, <2>1, <2>3
  <2>12. \A i \in 1..n : i < n => B[i] = S[i]
    BY <1>1, <2>1
  <2> QED
    BY <1>1, <1>3, <2>1, <2>4, <2>5, <2>6, <2>7, <2>8, <2>9, <2>10, <2>11, <2>12 DEF n
<1> QED
  BY <1>2, <1>3 DEF Grown

\* and adds its weight to the height.
LEMMA GrownHeights ==
    ASSUME NEW S, NEW tok, LevelsOK(S, tok), NEW B, NEW tok2, LevelsOK(B, tok2), Grown(S, B)
    PROVE  LET n == Len(S) IN
           /\ \A j \in Nat : j < n => HeightOf(B, j) = HeightOf(S, j)
           /\ \A i \in MapsOf(S) \cup ListsOf(S) : HeightOf(B, i) = HeightOf(S, i)
           /\ Deeper(S, B) => HeightOf(B, n) = HeightOf(S, n)
           /\ HeightOf(S, n) \in Nat
           /\ HeightOf(B, Len(B)) = HeightOf(S, n) +
                  IF Deeper(S, B) THEN IF InEntry(B[n + 1]) THEN 0 ELSE 1
                  ELSE IF OpenMap(B[n]) THEN 2 ELSE 1
<1> DEFINE n == Len(S)
<1>1. /\ n \in Nat \ {0} /\ S \in Seq(Levels) /\ B \in Seq(Levels)
      /\ DOMAIN S = 1..n /\ DOMAIN B = 1..Len(B) /\ Len(B) \in Nat
  BY LevelIs
<1>2. /\ \A i \in 1..n : i < n => B[i] = S[i]
      /\ \A i \in MapsOf(S) \cup ListsOf(S) : B[i] = S[i]
      /\ Len(B) = IF Deeper(S, B) THEN n + 1 ELSE n
  <2>1. \A i \in 1..Len(S) : i < Len(S) => B[i] = S[i]
    BY GrownSets
  <2>2. \A i \in MapsOf(S) \cup ListsOf(S) : B[i] = S[i]
    BY GrownSets
  <2>3. Len(B) = IF Deeper(S, B) THEN Len(S) + 1 ELSE Len(S)
    BY GrownSets
  <2> QED
    BY <2>1, <2>2, <2>3
<1> HIDE DEF n
<1>3. PICK h \in Nat : h = n - 1 /\ h <= Len(B) /\ h <= Len(S)
  <2>1. (Len(B) = n + 1 \/ Len(B) = n) /\ Len(S) = n
    BY <1>2 DEF n
  <2>2. n \in Nat \ {0}
    BY <1>1
  <2>3. PICK h \in Nat : n = h + 1
    BY <2>2
  <2>4. h = n - 1 /\ h <= n /\ h <= n + 1
    BY <2>3
  <2> QED
    BY <2>1, <2>4
<1>4. \A i \in 1..h : Alike(S[i], B[i])
  BY <1>1, <1>2, <1>3 DEF Alike
<1>5. \A j \in 0..h : HeightOf(S, j) = HeightOf(B, j)
  BY <1>1, <1>3, <1>4, HeightSame
<1>6. \A j \in Nat : j < n => HeightOf(B, j) = HeightOf(S, j)
  BY <1>1, <1>3, <1>5
<1>7. HeightOf(S, n) = HeightOf(S, h) + Weight(S[n]) /\ HeightOf(S, h) \in Nat /\ HeightOf(S, n) \in Nat
  <2>1. n \in 1..Len(S)
    BY <1>1 DEF n
  <2> QED
    BY <1>1, <1>3, <2>1, HeightIs
<1>8. n \in DOMAIN B /\ HeightOf(B, n) = HeightOf(B, h) + Weight(B[n])
  <2>1. n \in 1..Len(B)
    BY <1>1, <1>2
  <2> QED
    BY <1>1, <1>3, <2>1, HeightIs
<1>9. B[n] = S[n] => HeightOf(B, n) = HeightOf(S, n)
  BY <1>3, <1>5, <1>7, <1>8
<1>10. ASSUME NEW i \in MapsOf(S) \cup ListsOf(S) PROVE HeightOf(B, i) = HeightOf(S, i)
  <2>1. i \in 1..n /\ B[i] = S[i]
    BY <1>1, <1>2 DEF MapsOf, ListsOf
  <2>2. CASE i = n
    BY <1>9, <2>1, <2>2
  <2>3. CASE i # n
    <3>1. i \in Nat /\ i < n
      BY <1>1, <2>1, <2>3
    <3> QED
      BY <1>6, <3>1
  <2> QED
    BY <2>2, <2>3
<1>11. CASE Deeper(S, B)
  <2>1. B[n] = S[n] /\ Len(B) = n + 1 /\ ~OpenMap(B[n + 1]) /\ ~OpenList(B[n + 1])
    BY <1>1, <1>11 DEF Deeper, n
  <2>2. PICK k \in DOMAIN B : k = n + 1
    BY <1>1, <2>1
  <2>3. Weight(B[k]) = IF InEntry(B[k]) THEN 0 ELSE 1
    BY <2>1, <2>2, WeightIs
  <2>4. HeightOf(B, k) = HeightOf(B, n) + Weight(B[k])
    <3>1. PICK y \in Nat : y = k - 1 /\ HeightOf(B, k) = HeightOf(B, y) + Weight(B[k])
      BY WeightIs
    <3> QED
      BY <1>1, <2>2, <3>1
  <2>5. HeightOf(B, n) = HeightOf(S, n)
    BY <1>9, <2>1
  <2> QED
    BY <1>6, <1>7, <1>10, <1>11, <2>1, <2>2, <2>3, <2>4, <2>5 DEF n
<1>12. CASE Opened(S, B)
  <2>1. /\ Len(B) = n /\ ~OpenMap(S[n]) /\ ~OpenList(S[n]) /\ ~InEntry(S[n])
        /\ OpenMap(B[n]) \/ OpenList(B[n])
    BY <1>12 DEF Opened, n
  <2>2. Weight(S[n]) = 1
    <3>1. n \in DOMAIN S
      BY <1>1
    <3> QED
      BY <2>1, <3>1, WeightIs
  <2>3. Weight(B[n]) = IF OpenMap(B[n]) THEN 3 ELSE 2
    BY <1>8, <2>1, WeightIs
  <2>4. HeightOf(B, h) = HeightOf(S, h)
    BY <1>3, <1>5
  <2>5. HeightOf(B, n) = HeightOf(S, n) + IF OpenMap(B[n]) THEN 2 ELSE 1
    BY <1>7, <1>8, <2>2, <2>3, <2>4
  <2>6. ~Deeper(S, B)
    BY <1>12, GrownSets
  <2> QED
    BY <1>6, <1>7, <1>10, <2>1, <2>5, <2>6 DEF n
<1> QED
  BY <1>11, <1>12 DEF Grown

\* Items in the same places.
LEMMA GrownItems ==
    ASSUME NEW S, NEW tok, LevelsOK(S, tok), NEW B, NEW tok2, LevelsOK(B, tok2), Grown(S, B),
           NEW it, NEW its, NEW t, Len(its) = HeightOf(S, Len(S)),
           \A j \in 1..Len(its) : it[j] = its[j]
    PROVE  /\ \A i \in OwnOf(S) : HashAt(S, its, t, i) <=> HashAt(B, it, t, i)
           /\ \A i \in MapsOf(S) : MapAt(S, its, i) <=> MapAt(B, it, i)
           /\ \A i \in ListsOf(S) : ListAt(S, its, i) <=> ListAt(B, it, i)
<1> DEFINE n == Len(S)
           H == Len(its)
<1>1. /\ n \in Nat \ {0} /\ DOMAIN S = 1..n /\ S \in Seq(Levels)
      /\ \A i \in 1..n : B[i].type = S[i].type
      /\ \A i \in MapsOf(S) \cup ListsOf(S) : B[i] = S[i]
  BY GrownSets, LevelIs
<1>2. /\ \A j \in Nat : j < n => HeightOf(B, j) = HeightOf(S, j)
      /\ \A i \in MapsOf(S) \cup ListsOf(S) : HeightOf(B, i) = HeightOf(S, i)
      /\ H \in Nat /\ H = HeightOf(S, Len(S))
  BY GrownHeights
<1>0. \A j \in 1..H : it[j] = its[j]
  OBVIOUS
<1> HIDE DEF n, H
<1>3. ASSUME NEW i \in OwnOf(S) PROVE HashAt(S, its, t, i) <=> HashAt(B, it, t, i)
  <2>1. PICK h \in Nat : h = i - 1 /\ i \in 1..n /\ h < n
    BY <1>1 DEF OwnOf
  <2>2. PICK x \in Nat : x = HeightOf(S, h) /\ x = HeightOf(B, h)
    BY <1>2, <2>1, OwnHeight
  <2>3. x + 1 <= H /\ (i > 1 => x >= 1)
    BY <1>2, <2>1, <2>2, OwnHeight
  <2>4. PICK k \in 1..H : k = x + 1
    BY <1>2, <2>3
  <2>5. it[k] = its[k] /\ (i > 1 => it[k - 1] = its[k - 1])
    <3>1. i > 1 => k - 1 \in 1..H
      BY <1>2, <2>3, <2>4
    <3> QED
      BY <1>0, <3>1
  <2>6. B[i].type = S[i].type
    BY <1>1, <2>1
  <2>7. HeightOf(S, i - 1) + 1 = k /\ HeightOf(B, i - 1) + 1 = k
    BY <2>1, <2>2, <2>4
  <2> QED
    BY <2>5, <2>6, <2>7 DEF HashAt
<1>4. ASSUME NEW i \in MapsOf(S) PROVE MapAt(S, its, i) <=> MapAt(B, it, i)
  <2>1. PICK x \in Nat : x = HeightOf(S, i - 1) /\ HeightOf(S, i) = x + 3 /\ HeightOf(S, i) <= H
    BY <1>2, MapHeight
  <2>2. PICK k \in 1..H : k = HeightOf(S, i) /\ k - 1 \in 1..H /\ k - 2 \in 1..H
    BY <1>2, <2>1
  <2>3. it[k] = its[k] /\ it[k - 1] = its[k - 1] /\ it[k - 2] = its[k - 2]
    BY <1>0, <2>2
  <2>4. HeightOf(B, i) = k /\ B[i] = S[i]
    BY <1>1, <1>2, <2>2
  <2> QED
    BY <2>2, <2>3, <2>4 DEF MapAt
<1>5. ASSUME NEW i \in ListsOf(S) PROVE ListAt(S, its, i) <=> ListAt(B, it, i)
  <2>1. PICK x \in Nat : x = HeightOf(S, i - 1) /\ HeightOf(S, i) = x + 2 /\ HeightOf(S, i) <= H
    BY <1>2, ListHeight
  <2>2. PICK k \in 1..H : k = HeightOf(S, i) /\ k - 1 \in 1..H
    BY <1>2, <2>1
  <2>3. it[k] = its[k] /\ it[k - 1] = its[k - 1]
    BY <1>0, <2>2
  <2>4. HeightOf(B, i) = k /\ B[i] = S[i]
    BY <1>1, <1>2, <2>2
  <2> QED
    BY <2>2, <2>3, <2>4 DEF ListAt
<1> QED
  BY <1>3, <1>4, <1>5

\* The items with one more, and with one less.
LEMMA ItemStack ==
    ASSUME NEW it \in ItemSeq
    PROVE  /\ Len(it) \in Nat /\ DOMAIN it = 1..Len(it)
           /\ \A p \in Paths \cup {NULL} :
                 /\ Append(it, p) \in ItemSeq /\ Len(Append(it, p)) = Len(it) + 1
                 /\ DOMAIN Append(it, p) = 1..(Len(it) + 1) /\ Append(it, p) # <<>>
                 /\ \A i \in 1..Len(it) : Append(it, p)[i] = it[i]
                 /\ Append(it, p)[Len(it) + 1] = p /\ Last(Append(it, p)) = p
           /\ it # <<>> =>
                 /\ Front(it) \in ItemSeq /\ Len(Front(it)) = Len(it) - 1 /\ Len(it) \in Nat \ {0}
                 /\ DOMAIN Front(it) = 1..(Len(it) - 1)
                 /\ \A i \in 1..(Len(it) - 1) : Front(it)[i] = it[i]
                 /\ Last(it) = it[Len(it)]
<1> DEFINE S == Paths \cup {NULL}
<1>1. it \in Seq(S) /\ ItemSeq = Seq(S)
  BY DEF ItemSeq
<1> HIDE DEF S
<1>2. Len(it) \in Nat /\ DOMAIN it = 1..Len(it)
  BY <1>1, LenProperties
<1>3. ASSUME NEW p \in S
      PROVE  /\ Append(it, p) \in ItemSeq /\ Len(Append(it, p)) = Len(it) + 1
             /\ DOMAIN Append(it, p) = 1..(Len(it) + 1) /\ Append(it, p) # <<>>
             /\ \A i \in 1..Len(it) : Append(it, p)[i] = it[i]
             /\ Append(it, p)[Len(it) + 1] = p /\ Last(Append(it, p)) = p
  BY <1>1, AppendOf
<1>4. ASSUME it # <<>>
      PROVE  /\ Front(it) \in ItemSeq /\ Len(Front(it)) = Len(it) - 1 /\ Len(it) \in Nat \ {0}
             /\ DOMAIN Front(it) = 1..(Len(it) - 1)
             /\ \A i \in 1..(Len(it) - 1) : Front(it)[i] = it[i]
             /\ Last(it) = it[Len(it)]
  BY <1>1, <1>4, FrontOf
<1> QED
  BY <1>2, <1>3, <1>4 DEF S

\* A node below the top item can be pushed,
LEMMA ChainPush ==
    ASSUME NEW it \in ItemSeq, NEW t, Chain(it, t), it # <<>>, Last(it) \in Paths,
           NEW at \in Paths, at \in DOMAIN t, IsPrefix(Last(it), at)
    PROVE  Chain(Append(it, at), t)
<1> DEFINE n == Len(it)
           it2 == Append(it, at)
<1>1. /\ n \in Nat \ {0} /\ DOMAIN it = 1..n /\ DOMAIN it2 = 1..(n + 1) /\ Len(it2) = n + 1
      /\ \A i \in 1..n : it2[i] = it[i]
      /\ it2[n + 1] = at /\ Last(it) = it[n]
  BY ItemStack
<1> HIDE DEF n, it2
<1>2. \A k \in 1..n : it[k] # NULL /\ it[k] \in Paths /\ it[k] \in DOMAIN t
  <2>1. ASSUME NEW k \in 1..n PROVE it[k] # NULL
    <3>1. CASE k = n
      BY <1>1, <3>1, NullIs
    <3>2. CASE k # n
      <4>1. k \in DOMAIN it /\ k < n
        BY <1>1, <3>2
      <4>2. k < Len(it)
        BY <4>1 DEF n
      <4> QED
        BY <4>1, <4>2, ItemsIn
    <3> QED
      BY <3>1, <3>2
  <2> QED
    BY <1>1, <2>1, ItemsIn DEF Chain
<1>3. \A k \in DOMAIN it2 : it2[k] # NULL /\ it2[k] \in DOMAIN t
  <2>1. \A k \in DOMAIN it2 : k \in 1..n \/ k = n + 1
    BY <1>1
  <2> QED
    BY <1>1, <1>2, <2>1, NullIs
<1>4. ASSUME NEW j \in DOMAIN it2, NEW k \in DOMAIN it2, j <= k PROVE IsPrefix(it2[j], it2[k])
  <2>1. CASE k = n + 1 /\ j = n + 1
    BY <1>1, <2>1, PrefixSelf
  <2>2. CASE k = n + 1 /\ j # n + 1
    <3>1. j \in 1..n /\ n \in 1..n /\ j <= n
      BY <1>1, <2>2
    <3>2. IsPrefix(it[j], it[n])
      BY <1>1, <1>2, <3>1 DEF Chain
    <3>3. it[j] \in Paths /\ it[n] \in Paths /\ IsPrefix(it[n], at)
      BY <1>1, <1>2, <3>1
    <3>4. IsPrefix(it[j], at)
      BY <3>2, <3>3, PrefixTrans
    <3> QED
      BY <1>1, <2>2, <3>1, <3>4
  <2>3. CASE k # n + 1
    <3>1. j \in 1..n /\ k \in 1..n
      BY <1>1, <1>4, <2>3
    <3>2. IsPrefix(it[j], it[k])
      BY <1>1, <1>2, <1>4, <3>1 DEF Chain
    <3> QED
      BY <1>1, <3>1, <3>2
  <2> QED
    BY <2>1, <2>2, <2>3
<1>5. ASSUME NEW p \in Values(t) PROVE \E k \in DOMAIN it2 : p = it2[k]
  <2>1. PICK k \in DOMAIN it : p = it[k]
    BY DEF Chain
  <2> QED
    BY <1>1, <2>1
<1>6. Chain(it2, t)
  BY <1>3, <1>4, <1>5 DEF Chain
<1> QED
  BY <1>6 DEF it2

\* a value that has not come can,
LEMMA ChainWait ==
    ASSUME NEW it \in ItemSeq, NEW t, Chain(it, t), it # <<>>, Last(it) \in Paths
    PROVE  Chain(Append(it, NULL), t)
<1> DEFINE n == Len(it)
           it2 == Append(it, NULL)
<1>1. /\ n \in Nat \ {0} /\ DOMAIN it = 1..n /\ DOMAIN it2 = 1..(n + 1) /\ Len(it2) = n + 1
      /\ \A i \in 1..n : it2[i] = it[i]
      /\ it2[n + 1] = NULL /\ Last(it) = it[n]
  <2>1. NULL \in Paths \cup {NULL}
    OBVIOUS
  <2> QED
    BY <2>1, ItemStack
<1> HIDE DEF n, it2
<1>2. \A k \in 1..n : it[k] # NULL /\ it[k] \in DOMAIN t
  <2>1. ASSUME NEW k \in 1..n PROVE it[k] # NULL
    <3>1. CASE k = n
      BY <1>1, <3>1, NullIs
    <3>2. CASE k # n
      <4>1. k \in DOMAIN it /\ k < n
        BY <1>1, <3>2
      <4>2. k < Len(it)
        BY <4>1 DEF n
      <4> QED
        BY <4>1, <4>2, ItemsIn
    <3> QED
      BY <3>1, <3>2
  <2> QED
    BY <1>1, <2>1 DEF Chain
<1>3. \A k \in DOMAIN it2 : k \in 1..n \/ k = n + 1
  BY <1>1
<1>4. ASSUME NEW j \in DOMAIN it2, NEW k \in DOMAIN it2, j <= k, it2[k] # NULL
      PROVE  IsPrefix(it2[j], it2[k])
  <2>1. k \in 1..n
    BY <1>1, <1>3, <1>4
  <2>2. j \in 1..n
    BY <1>1, <1>4, <2>1
  <2>3. IsPrefix(it[j], it[k])
    BY <1>1, <1>2, <1>4, <2>1, <2>2 DEF Chain
  <2> QED
    BY <1>1, <2>1, <2>2, <2>3
<1>5. ASSUME NEW p \in Values(t) PROVE \E k \in DOMAIN it2 : p = it2[k]
  <2>1. PICK k \in DOMAIN it : p = it[k]
    BY DEF Chain
  <2> QED
    BY <1>1, <2>1
<1>6. \A k \in DOMAIN it2 : it2[k] = NULL => k = Len(it2)
  BY <1>1, <1>2, <1>3
<1>7. \A k \in DOMAIN it2 : it2[k] # NULL => it2[k] \in DOMAIN t
  BY <1>1, <1>2, <1>3
<1>8. Chain(it2, t)
  BY <1>4, <1>5, <1>6, <1>7 DEF Chain
<1> QED
  BY <1>8 DEF it2

\* and the top item can be popped, if it is no value.
LEMMA ChainPop ==
    ASSUME NEW it \in ItemSeq, NEW t, DOMAIN t \subseteq Paths, Chain(it, t), it # <<>>,
           \/ Last(it) = NULL
           \/ Last(Last(it))[1] # "value"
           \/ Len(it) > 1 /\ Last(it) = it[Len(it) - 1]
    PROVE  Chain(Front(it), t)
<1> DEFINE n == Len(it)
           it2 == Front(it)
<1>1. /\ n \in Nat \ {0} /\ DOMAIN it = 1..n /\ DOMAIN it2 = 1..(n - 1) /\ Len(it2) = n - 1
      /\ \A i \in 1..(n - 1) : it2[i] = it[i]
      /\ Last(it) = it[n]
  BY ItemStack
<1>2. \/ it[n] = NULL
      \/ Last(it[n])[1] # "value"
      \/ n > 1 /\ it[n] = it[n - 1]
  BY <1>1
<1> HIDE DEF n, it2
<1>3. \A k \in DOMAIN it2 : k \in DOMAIN it /\ k # n /\ it2[k] = it[k]
  BY <1>1
<1>4. ASSUME NEW j \in DOMAIN it2, NEW k \in DOMAIN it2, j <= k, it2[k] # NULL
      PROVE  IsPrefix(it2[j], it2[k])
  <2>1. j \in DOMAIN it /\ k \in DOMAIN it /\ it2[j] = it[j] /\ it2[k] = it[k]
    BY <1>3
  <2> QED
    BY <1>4, <2>1 DEF Chain
<1>5. ASSUME NEW p \in Values(t) PROVE \E k \in DOMAIN it2 : p = it2[k]
  <2>1. PICK k \in DOMAIN it : p = it[k]
    BY DEF Chain
  <2>2. p \in Paths /\ Last(p)[1] = "value"
    BY DEF Values
  <2>3. CASE k # n
    <3>1. k \in DOMAIN it2
      BY <1>1, <2>1, <2>3
    <3> QED
      BY <1>3, <2>1, <3>1
  <2>4. CASE k = n
    <3>1. n > 1 /\ it[n] = it[n - 1]
      BY <1>2, <2>1, <2>2, <2>4, NullIs
    <3>2. PICK h \in DOMAIN it2 : h = n - 1
      BY <1>1, <3>1
    <3> QED
      BY <1>3, <2>1, <2>4, <3>1, <3>2
  <2> QED
    BY <2>3, <2>4
<1>6. \A k \in DOMAIN it2 : it2[k] # NULL
  BY <1>3 DEF Chain, n
<1>7. \A k \in DOMAIN it2 : it2[k] \in DOMAIN t
  BY <1>3, <1>6 DEF Chain
<1>8. Chain(it2, t)
  BY <1>4, <1>5, <1>6, <1>7 DEF Chain
<1> QED
  BY <1>8 DEF it2

\* The items of the levels below, and of the level above.
LEMMA Shrunk ==
    ASSUME NEW S, NEW tok, LevelsOK(S, tok), NEW B, NEW tok2, LevelsOK(B, tok2), Grown(S, B),
           NEW it, NEW t, ItemsOK(B, it, t), NEW its, Len(its) = HeightOf(S, Len(S)),
           \A j \in 1..Len(its) : it[j] = its[j], Chain(its, t)
    PROVE  ItemsOK(S, its, t)
<1>1. its[1] = <<>>
  <2>1. 1 \in OwnOf(S)
    BY LevelIs DEF OwnOf
  <2>2. HeightOf(S, Len(S)) \in Nat /\ HeightOf(S, 1 - 1) + 1 <= HeightOf(S, Len(S))
        /\ HeightOf(S, 1 - 1) \in Nat
    BY <2>1, OwnHeight
  <2>3. 1 \in 1..Len(its)
    BY <2>2
  <2> QED
    BY <2>3 DEF ItemsOK
<1>2. OwnOf(S) \subseteq OwnOf(B) /\ MapsOf(S) \subseteq MapsOf(B) /\ ListsOf(S) \subseteq ListsOf(B)
  BY GrownSets
<1>3. /\ \A i \in OwnOf(S) : HashAt(S, its, t, i) <=> HashAt(B, it, t, i)
      /\ \A i \in MapsOf(S) : MapAt(S, its, i) <=> MapAt(B, it, i)
      /\ \A i \in ListsOf(S) : ListAt(S, its, i) <=> ListAt(B, it, i)
  BY GrownItems
<1>4. \A i \in OwnOf(S) : HashAt(S, its, t, i)
  BY <1>2, <1>3 DEF ItemsOK
<1>5. \A i \in MapsOf(S) : MapAt(S, its, i)
  BY <1>2, <1>3 DEF ItemsOK
<1>6. \A i \in ListsOf(S) : ListAt(S, its, i)
  BY <1>2, <1>3 DEF ItemsOK
<1> QED
  BY <1>1, <1>4, <1>5, <1>6 DEF ItemsOK

\* With the items it pushes, the levels with one more are in step if those without were.
LEMMA Extended ==
    ASSUME NEW S, NEW tok, LevelsOK(S, tok), NEW B, NEW tok2, LevelsOK(B, tok2), Grown(S, B),
           NEW its, NEW t, ItemsOK(S, its, t), NEW it, Len(it) = HeightOf(B, Len(B)),
           \A j \in 1..Len(its) : it[j] = its[j], Chain(it, t),
           Deeper(S, B) /\ ~InEntry(B[Len(S) + 1]) => HashAt(B, it, t, Len(S) + 1),
           Opened(S, B) /\ OpenMap(B[Len(S)]) => MapAt(B, it, Len(S)),
           Opened(S, B) /\ OpenList(B[Len(S)]) => ListAt(B, it, Len(S))
    PROVE  ItemsOK(B, it, t)
<1>0. Len(its) = HeightOf(S, Len(S)) /\ its[1] = <<>>
  BY DEF ItemsOK
<1>1. it[1] = <<>>
  <2>1. 1 \in OwnOf(S)
    BY LevelIs DEF OwnOf
  <2>2. HeightOf(S, Len(S)) \in Nat /\ HeightOf(S, 1 - 1) + 1 <= HeightOf(S, Len(S))
        /\ HeightOf(S, 1 - 1) \in Nat
    BY <2>1, OwnHeight
  <2>3. 1 \in 1..Len(its)
    BY <1>0, <2>2
  <2> QED
    BY <1>0, <2>3
<1>2. ASSUME NEW i \in OwnOf(B), i \notin OwnOf(S)
      PROVE  Deeper(S, B) /\ ~InEntry(B[Len(S) + 1]) /\ i = Len(S) + 1
  BY <1>2, GrownSets
<1>7. ASSUME NEW i \in MapsOf(B), i \notin MapsOf(S)
      PROVE  Opened(S, B) /\ OpenMap(B[Len(S)]) /\ i = Len(S)
  BY <1>7, GrownSets
<1>8. ASSUME NEW i \in ListsOf(B), i \notin ListsOf(S)
      PROVE  Opened(S, B) /\ OpenList(B[Len(S)]) /\ i = Len(S)
  BY <1>8, GrownSets
<1>3. /\ \A i \in OwnOf(S) : HashAt(S, its, t, i) <=> HashAt(B, it, t, i)
      /\ \A i \in MapsOf(S) : MapAt(S, its, i) <=> MapAt(B, it, i)
      /\ \A i \in ListsOf(S) : ListAt(S, its, i) <=> ListAt(B, it, i)
  BY <1>0, GrownItems
<1>4. \A i \in OwnOf(B) : HashAt(B, it, t, i)
  BY <1>2, <1>3 DEF ItemsOK
<1>5. \A i \in MapsOf(B) : MapAt(B, it, i)
  BY <1>3, <1>7 DEF ItemsOK
<1>6. \A i \in ListsOf(B) : ListAt(B, it, i)
  BY <1>3, <1>8 DEF ItemsOK
<1> QED
  BY <1>1, <1>4, <1>5, <1>6 DEF ItemsOK

\* A message of its own is entered: its hash is pushed.
LEMMA EnterOwn ==
    ASSUME NEW S, NEW tok, LevelsOK(S, tok), NEW B, NEW tok2, LevelsOK(B, tok2), Deeper(S, B),
           ~InEntry(B[Len(S) + 1]), NEW it \in ItemSeq, NEW t, ItemsOK(S, it, t), it # <<>>,
           Last(it) \in Paths, NEW at \in Paths, at \in DOMAIN t, IsPrefix(Last(it), at),
           at # <<>>, at # Value(Last(it)), Last(at)[1] = "value" => at = Last(it),
           t[at].kind = "hash", t[at].type = B[Len(S) + 1].type
    PROVE  ItemsOK(B, Append(it, at), t)
<1> DEFINE n == Len(S)
           it2 == Append(it, at)
           m == Len(it)
<1>1. /\ m \in Nat \ {0} /\ Len(it2) = m + 1 /\ \A i \in 1..m : it2[i] = it[i]
      /\ it2[m + 1] = at /\ Last(it) = it[m]
  BY ItemStack
<1>2. Grown(S, B) /\ ~Opened(S, B) /\ n \in Nat \ {0} /\ Len(B) = n + 1
  <2>1. Grown(S, B)
    BY DEF Grown
  <2> QED
    BY <2>1, GrownSets
<1>3. HeightOf(B, n) = HeightOf(S, n) /\ HeightOf(B, Len(B)) = HeightOf(S, n) + 1
  BY <1>2, GrownHeights
<1>4. m = HeightOf(S, n)
  BY DEF ItemsOK
<1>5. Chain(it2, t)
  BY ChainPush DEF ItemsOK
<1>6. HashAt(B, it2, t, n + 1)
  <2>1. PICK k \in Nat : k = n + 1 /\ k - 1 = n /\ k > 1
    BY <1>2
  <2>2. PICK x \in Nat : x = m + 1 /\ x - 1 = m /\ HeightOf(B, k - 1) + 1 = x /\ m \in 1..m
    BY <1>1, <1>3, <1>4, <2>1
  <2>3. it2[x] = at /\ it2[x - 1] = Last(it)
    BY <1>1, <2>2
  <2>4. at # NULL
    BY NullIs
  <2> HIDE DEF n, m, it2
  <2>5. HashAt(B, it2, t, k)
    <3>1. B[k].type = t[at].type
      BY <2>1 DEF n
    <3> QED
      BY <2>2, <2>3, <2>4, <3>1 DEF HashAt
  <2> QED
    BY <2>1, <2>5
<1>7. Len(it2) = HeightOf(B, Len(B))
  BY <1>1, <1>3, <1>4
<1> HIDE DEF it2
<1>8. \A j \in 1..Len(it) : it2[j] = it[j]
  BY <1>1
<1>9. ItemsOK(B, it2, t)
  BY <1>2, <1>5, <1>6, <1>7, <1>8, Extended
<1> QED
  BY <1>9 DEF it2

\* A message of its own is left.
LEMMA LeaveOwn ==
    ASSUME NEW S, NEW tok, LevelsOK(S, tok), NEW B, NEW tok2, LevelsOK(B, tok2), Deeper(S, B),
           ~InEntry(B[Len(S) + 1]), NEW it \in ItemSeq, NEW t, DOMAIN t \subseteq Paths,
           ItemsOK(B, it, t), it # <<>>
    PROVE  ItemsOK(S, Front(it), t)
<1> DEFINE n == Len(S)
           its == Front(it)
           m == Len(it)
<1>1. /\ m \in Nat \ {0} /\ Len(its) = m - 1 /\ \A i \in 1..(m - 1) : its[i] = it[i]
      /\ Last(it) = it[m]
  BY ItemStack
<1>2. Grown(S, B) /\ n \in Nat \ {0} /\ Len(B) = n + 1
      /\ OwnOf(B) = OwnOf(S) \cup {n + 1}
  <2>1. Grown(S, B)
    BY DEF Grown
  <2> QED
    BY <2>1, GrownSets
<1>3. HeightOf(B, n) = HeightOf(S, n) /\ HeightOf(B, Len(B)) = HeightOf(S, n) + 1 /\ HeightOf(S, n) \in Nat
  BY <1>2, GrownHeights
<1>4. m = HeightOf(S, n) + 1
  BY <1>3 DEF ItemsOK
<1>5. HashAt(B, it, t, n + 1)
  BY <1>2 DEF ItemsOK
<1>6. Last(Last(it))[1] # "value" \/ (Len(it) > 1 /\ Last(it) = it[Len(it) - 1])
  <2>1. PICK k \in Nat : k = n + 1 /\ k - 1 = n /\ k > 1
    BY <1>2
  <2>2. HeightOf(B, k - 1) + 1 = m
    BY <1>3, <1>4, <2>1
  <2>3. m > 1
    <3>1. 1 \in OwnOf(S)
      BY LevelIs DEF OwnOf
    <3>2. HeightOf(S, Len(S)) \in Nat /\ HeightOf(S, 1 - 1) + 1 <= HeightOf(S, Len(S))
          /\ HeightOf(S, 1 - 1) \in Nat
      BY <3>1, OwnHeight
    <3> QED
      BY <1>4, <3>2
  <2>4. HashAt(B, it, t, k)
    BY <1>5, <2>1
  <2> HIDE DEF n, m
  <2>5. Last(it[m])[1] = "value" => it[m] = it[m - 1]
    BY <2>1, <2>2, <2>4 DEF HashAt
  <2>6. Last(Last(it))[1] # "value" \/ (m > 1 /\ Last(it) = it[m - 1])
    BY <1>1, <2>3, <2>5
  <2> QED
    BY <2>6 DEF m
<1>7. Chain(its, t)
  BY <1>6, ChainPop DEF ItemsOK
<1>8. Len(its) = HeightOf(S, Len(S))
  BY <1>1, <1>3, <1>4
<1>9. \A j \in 1..Len(its) : it[j] = its[j]
  BY <1>1
<1> HIDE DEF its
<1>10. ItemsOK(S, its, t)
  BY <1>2, <1>7, <1>8, <1>9, Shrunk
<1> QED
  BY <1>10 DEF its

\* A map entry is entered and left: the items stay.
LEMMA EnterEntry ==
    ASSUME NEW S, NEW tok, LevelsOK(S, tok), NEW B, NEW tok2, LevelsOK(B, tok2), Deeper(S, B),
           InEntry(B[Len(S) + 1]), NEW it, NEW t
    PROVE  ItemsOK(S, it, t) <=> ItemsOK(B, it, t)
<1>1. Grown(S, B) /\ ~Opened(S, B) /\ Len(B) = Len(S) + 1
  <2>1. Grown(S, B)
    BY DEF Grown
  <2> QED
    BY <2>1, GrownSets
<1>2. HeightOf(B, Len(B)) = HeightOf(S, Len(S))
  <2>1. /\ HeightOf(B, Len(B)) = HeightOf(S, Len(S)) + 0
        /\ HeightOf(S, Len(S)) \in Nat
    BY <1>1, GrownHeights
  <2> QED
    BY <2>1
<1>3. ASSUME ItemsOK(S, it, t) PROVE ItemsOK(B, it, t)
  <2>1. Len(it) = HeightOf(B, Len(B)) /\ Chain(it, t)
    BY <1>2, <1>3 DEF ItemsOK
  <2> QED
    BY <1>1, <1>3, <2>1, Extended
<1>4. ASSUME ItemsOK(B, it, t) PROVE ItemsOK(S, it, t)
  <2>1. Len(it) = HeightOf(S, Len(S)) /\ Chain(it, t)
    BY <1>2, <1>4 DEF ItemsOK
  <2> QED
    BY <1>1, <1>4, <2>1, Shrunk
<1> QED
  BY <1>3, <1>4

\* The container of a field is opened.
LEMMA OpenedList ==
    ASSUME NEW S, NEW tok, LevelsOK(S, tok), NEW B, NEW tok2, LevelsOK(B, tok2), Opened(S, B),
           OpenList(B[Len(S)]), NEW it \in ItemSeq, NEW t, ItemsOK(S, it, t), it # <<>>,
           Last(it) \in Paths, NEW at \in Paths, at = Child(Last(it), "field", B[Len(S)].field),
           at \in DOMAIN t, IsPrefix(Last(it), at)
    PROVE  ItemsOK(B, Append(it, at), t)
<1> DEFINE n == Len(S)
           it2 == Append(it, at)
           m == Len(it)
<1>1. /\ m \in Nat \ {0} /\ Len(it2) = m + 1 /\ \A i \in 1..m : it2[i] = it[i]
      /\ it2[m + 1] = at /\ Last(it) = it[m]
  BY ItemStack
<1>2. Grown(S, B) /\ ~Deeper(S, B) /\ n \in Nat \ {0} /\ Len(B) = n /\ ~OpenMap(B[n])
  <2>1. Grown(S, B)
    BY DEF Grown
  <2> QED
    BY <2>1, GrownSets
<1>3. HeightOf(B, n) = HeightOf(S, n) + 1
  BY <1>2, GrownHeights
<1>4. m = HeightOf(S, n)
  BY DEF ItemsOK
<1>5. Chain(it2, t)
  BY ChainPush DEF ItemsOK
<1>6. ListAt(B, it2, n)
  <2>1. PICK x \in Nat : x = m + 1 /\ x - 1 = m /\ HeightOf(B, n) = x /\ m \in 1..m
    BY <1>1, <1>3, <1>4
  <2>2. it2[x] = at /\ it2[x - 1] = Last(it)
    BY <1>1, <2>1
  <2>3. at = Child(Last(it), "field", B[n].field)
    OBVIOUS
  <2> HIDE DEF n, m, it2
  <2> QED
    BY <2>1, <2>2, <2>3 DEF ListAt
<1>7. Len(it2) = HeightOf(B, Len(B))
  BY <1>1, <1>2, <1>3, <1>4
<1> HIDE DEF it2
<1>8. \A j \in 1..Len(it) : it2[j] = it[j]
  BY <1>1
<1>9. ItemsOK(B, it2, t)
  BY <1>2, <1>5, <1>6, <1>7, <1>8, Extended
<1> QED
  BY <1>9 DEF it2

\* A map that is opened,
LEMMA OpenedMap ==
    ASSUME NEW S, NEW tok, LevelsOK(S, tok), NEW B, NEW tok2, LevelsOK(B, tok2), Opened(S, B),
           OpenMap(B[Len(S)]), NEW it \in ItemSeq, NEW t, ItemsOK(S, it, t), it # <<>>,
           Last(it) \in Paths, NEW at \in Paths, at = Child(Last(it), "field", B[Len(S)].field),
           at \in DOMAIN t, IsPrefix(Last(it), at)
    PROVE  ItemsOK(B, Append(Append(it, at), NULL), t)
<1> DEFINE n == Len(S)
           it1 == Append(it, at)
           it2 == Append(it1, NULL)
           m == Len(it)
<1>1. /\ m \in Nat \ {0} /\ Len(it1) = m + 1 /\ \A i \in 1..m : it1[i] = it[i]
      /\ it1[m + 1] = at /\ Last(it) = it[m] /\ it1 \in ItemSeq /\ it1 # <<>> /\ Last(it1) = at
  <2>1. m \in Nat \ {0} /\ Last(it) = it[m]
    BY ItemStack
  <2>2. at \in Paths \cup {NULL}
    OBVIOUS
  <2>3. /\ it1 \in ItemSeq /\ Len(it1) = m + 1 /\ it1 # <<>>
        /\ \A i \in 1..m : it1[i] = it[i]
        /\ it1[m + 1] = at /\ Last(it1) = at
    BY <2>2, ItemStack
  <2> QED
    BY <2>1, <2>3
<1>12. NULL \in Paths \cup {NULL}
  OBVIOUS
<1> HIDE DEF it1
<1>10. /\ Len(it2) = Len(it1) + 1 /\ \A i \in 1..Len(it1) : it2[i] = it1[i]
       /\ it2[Len(it1) + 1] = NULL
  BY <1>1, <1>12, ItemStack
<1> HIDE DEF it2
<1>11. /\ Len(it2) = m + 2 /\ \A i \in 1..m : it2[i] = it[i]
       /\ it2[m + 1] = at /\ it2[m + 2] = NULL
  <2>1. \A i \in 1..m : i \in 1..(m + 1)
    BY <1>1
  <2>2. m + 1 \in 1..(m + 1) /\ m + 1 + 1 = m + 2
    BY <1>1
  <2> QED
    BY <1>1, <1>10, <2>1, <2>2
<1>2. Grown(S, B) /\ ~Deeper(S, B) /\ n \in Nat \ {0} /\ Len(B) = n /\ ~OpenList(B[n])
  <2>1. Grown(S, B)
    BY DEF Grown
  <2> QED
    BY <2>1, GrownSets
<1>3. HeightOf(B, n) = HeightOf(S, n) + 2
  BY <1>2, GrownHeights
<1>4. m = HeightOf(S, n)
  BY DEF ItemsOK
<1>5. Chain(it2, t)
  <2>1. Chain(it1, t)
    BY ChainPush DEF ItemsOK, it1
  <2> QED
    BY <1>1, <2>1, ChainWait DEF it2
<1>6. MapAt(B, it2, n)
  <2>1. PICK x \in Nat : /\ x = m + 2 /\ x - 1 = m + 1 /\ x - 2 = m /\ HeightOf(B, n) = x
                         /\ m \in 1..m
    BY <1>1, <1>3, <1>4
  <2>2. it2[x] = NULL /\ it2[x - 1] = at /\ it2[x - 2] = Last(it)
    BY <1>1, <1>11, <2>1
  <2>3. at = Child(Last(it), "field", B[n].field)
    OBVIOUS
  <2> HIDE DEF n, m
  <2> QED
    BY <2>1, <2>2, <2>3 DEF MapAt
<1>7. Len(it2) = HeightOf(B, Len(B))
  BY <1>11, <1>1, <1>2, <1>3, <1>4
<1>8. \A j \in 1..Len(it) : it2[j] = it[j]
  BY <1>11
<1>9. ItemsOK(B, it2, t)
  BY <1>2, <1>5, <1>6, <1>7, <1>8, Extended
<1> QED
  BY <1>9 DEF it2, it1

\* The container of a field is left.
LEMMA ClosedList ==
    ASSUME NEW S, NEW tok, LevelsOK(S, tok), NEW B, NEW tok2, LevelsOK(B, tok2), Opened(S, B),
           OpenList(B[Len(S)]), NEW it \in ItemSeq, NEW t, Shaped(t),
           ItemsOK(B, it, t), it # <<>>
    PROVE  ItemsOK(S, Front(it), t)
<1> DEFINE n == Len(S)
           its == Front(it)
           m == Len(it)
<1>1. /\ m \in Nat \ {0} /\ Len(its) = m - 1 /\ \A i \in 1..(m - 1) : its[i] = it[i]
      /\ Last(it) = it[m]
  BY ItemStack
<1>2. Grown(S, B) /\ ~Deeper(S, B) /\ n \in Nat \ {0} /\ Len(B) = n /\ ~OpenMap(B[n])
  <2>1. Grown(S, B)
    BY DEF Grown
  <2> QED
    BY <2>1, GrownSets
<1>3. HeightOf(B, n) = HeightOf(S, n) + 1 /\ HeightOf(S, n) \in Nat
  BY <1>2, GrownHeights
<1>4. m = HeightOf(S, n) + 1
  BY <1>2, <1>3 DEF ItemsOK
<1>6. Last(Last(it))[1] # "value"
  <2>1. OpenList(B[Len(B)])
    BY <1>2
  <2>2. Last(it) = it[Len(it)] /\ Last(it[Len(it)])[1] = "field"
    BY <2>1, TopArray
  <2> QED
    BY <2>2
<1>7. Chain(its, t)
  BY <1>6, ChainPop DEF ItemsOK, Shaped, IsTree
<1>8. Len(its) = HeightOf(S, Len(S))
  BY <1>1, <1>3, <1>4
<1>9. \A j \in 1..Len(its) : it[j] = its[j]
  BY <1>1
<1> HIDE DEF its
<1>10. ItemsOK(S, its, t)
  BY <1>2, <1>7, <1>8, <1>9, Shrunk
<1> QED
  BY <1>10 DEF its

\* and one that is closed.
LEMMA ClosedMap ==
    ASSUME NEW S, NEW tok, LevelsOK(S, tok), NEW B, NEW tok2, LevelsOK(B, tok2), Opened(S, B),
           OpenMap(B[Len(S)]), NEW it \in ItemSeq, NEW t, Shaped(t),
           ItemsOK(B, it, t), it # <<>>, Last(it) = NULL
    PROVE  Front(it) # <<>> /\ ItemsOK(S, Front(Front(it)), t)
<1> DEFINE n == Len(S)
           it1 == Front(it)
           its == Front(it1)
           m == Len(it)
<1>1. /\ m \in Nat \ {0} /\ Len(it1) = m - 1 /\ \A i \in 1..(m - 1) : it1[i] = it[i]
      /\ Last(it) = it[m] /\ it1 \in ItemSeq
  BY ItemStack
<1>2. Grown(S, B) /\ ~Deeper(S, B) /\ n \in Nat \ {0} /\ Len(B) = n
  <2>1. Grown(S, B)
    BY DEF Grown
  <2> QED
    BY <2>1, GrownSets
<1>3. HeightOf(B, n) = HeightOf(S, n) + 2 /\ HeightOf(S, n) \in Nat
  BY <1>2, GrownHeights
<1>4. m = HeightOf(S, n) + 2
  BY <1>2, <1>3 DEF ItemsOK
<1>5. it1 # <<>>
  <2>1. Len(it1) # 0
    BY <1>1, <1>3, <1>4
  <2> QED
    BY <2>1
<1> HIDE DEF it1
<1>6. /\ Len(its) = Len(it1) - 1 /\ \A i \in 1..(Len(it1) - 1) : its[i] = it1[i]
      /\ Last(it1) = it1[Len(it1)]
  BY <1>1, <1>5, ItemStack
<1> HIDE DEF its
<1>7. Chain(it1, t)
  BY ChainPop DEF ItemsOK, Shaped, IsTree, it1
<1>8. Last(Last(it1))[1] # "value"
  <2>1. Free(B) /\ OpenMap(B[Len(B)])
    BY <1>2 DEF Free
  <2>2. Last(it[Len(it) - 1])[1] = "field"
    BY <2>1, TopMap
  <2>3. m - 1 \in 1..(m - 1)
    BY <1>1, <1>3, <1>4
  <2>4. Last(it1) = it[m - 1]
    BY <1>1, <1>6, <2>3
  <2> QED
    BY <2>2, <2>4
<1>9. Chain(its, t)
  BY <1>1, <1>5, <1>7, <1>8, ChainPop DEF ItemsOK, Shaped, IsTree, its
<1>10. Len(its) = HeightOf(S, Len(S))
  BY <1>1, <1>3, <1>4, <1>6
<1>11. \A j \in 1..Len(its) : it[j] = its[j]
  <2>1. \A j \in 1..(m - 2) : j \in 1..(m - 1) /\ j \in 1..(m - 1 - 1)
    BY <1>1
  <2>2. Len(its) = m - 2 /\ Len(it1) - 1 = m - 1 - 1
    BY <1>1, <1>6
  <2> HIDE DEF m
  <2> QED
    BY <1>1, <1>6, <2>1, <2>2
<1>12. ItemsOK(S, its, t)
  BY <1>2, <1>9, <1>10, <1>11, Shrunk
<1> QED
  BY <1>5, <1>12 DEF its, it1

----------------------------------------------------------------------------
(* What the callbacks that do not store a value make of the tree.                 *)

\* The container of a repeated field.
LEMMA ContainerKept ==
    ASSUME NEW L, NEW tok, LevelsOK(L, tok), ~Free(L), ~OpenList(L[Len(L)]), NEW c,
           c.items \in ItemSeq, ItemsOK(L, c.items, c.tree), TreeOK(c.tree),
           NEW f \in FieldsOf(L[Len(L)].type), Schema[L[Len(L)].type][f].repeated,
           NEW kind, kind = IF Traits[L[Len(L)].type][f].map THEN "map" ELSE "array"
    PROVE  LET at == FieldPath(c, f)
               u  == ContainerTree(c, f, kind)
           IN  /\ at \in Paths /\ at \in DOMAIN u /\ c.items # <<>> /\ Last(c.items) \in Paths
               /\ IsPrefix(Last(c.items), at) /\ TreeOK(u) /\ ItemsOK(L, c.items, u)
<1> DEFINE it == c.items
           t == c.tree
           h == Last(it)
           at == Child(h, "field", f)
           u == ContainerTree(c, f, kind)
           m == L[Len(L)].type
           node == Leaf(kind)
<1>1. ItemsOK(L, it, t) /\ Shaped(t) /\ it \in ItemSeq /\ TreeOK(t)
  BY DEF TreeOK
<1>2. m \in Messages /\ f \in FieldsOf(m)
  BY LevelIs, LevelsAre
<1>3. FieldPath(c, f) = at /\ u = IF at \in DOMAIN t THEN t ELSE Put(t, at, node)
  BY DEF FieldPath, ContainerTree
<1>4. node \in Nodes /\ node # Undef /\ FieldFits(node, m, f)
  BY DEF Leaf, Nodes, Undef, FieldFits
<1> HIDE DEF it, t, h, at, u, m, node
<1>5. /\ Len(it) \in Nat \ {0} /\ it[Len(it)] # NULL /\ h \in Paths /\ h = it[Len(it)]
      /\ h \in DOMAIN t /\ t[h].kind = "hash" /\ t[h].type = m
  BY <1>1, TopHash DEF h, m
<1>6. /\ Shaped(Put(t, at, node)) /\ at \in Paths /\ at # <<>> /\ f \in Nat
      /\ Last(at) = <<"field", f>>
  BY <1>1, <1>2, <1>4, <1>5, StoreField DEF at
<1>7. IsPrefix(h, at) /\ ~IsPrefix(at, h)
  <2>1. <<"field", f>> \in Steps
    BY <1>6, StepsAre
  <2> QED
    BY <1>5, <2>1, PrefixOfChild DEF at
<1>8. StoresAt(L, it, t, at, t)
  <2>1. Last(at)[1] # "value"
    BY <1>6
  <2>2. \A p \in DOMAIN t : IsPrefix(p, it[Len(it)]) => p # at
    BY <1>5, <1>7
  <2> QED
    BY <1>1, <1>5, <1>6, <2>1, <2>2 DEF StoresAt
<1>9. LET it2 == IF Free(L) THEN SetLast(it, at) ELSE it
      IN  /\ it2 \in ItemSeq /\ Len(it2) = Len(it) /\ it # <<>>
          /\ Last(it2) = IF Free(L) THEN at ELSE Last(it)
          /\ ItemsOK(L, it2, Put(t, at, node))
          /\ \A p \in Values(Put(t, at, node)) : Put(t, at, node)[p] # Undef
  BY <1>4, <1>8, StoreKeptAt
<1>10. at \in DOMAIN Put(t, at, node)
  BY DEF Put
<1>11. TreeOK(u) /\ ItemsOK(L, it, u) /\ at \in DOMAIN u
  BY <1>1, <1>3, <1>6, <1>9, <1>10 DEF TreeOK
<1> QED
  BY <1>3, <1>5, <1>6, <1>7, <1>9, <1>11 DEF it, h, u

\* The end of a map entry moves or drops its value.
LEMMA EntryKept ==
    ASSUME NEW L, NEW tok, LevelsOK(L, tok), InEntry(L[Len(L)]), NEW c,
           c.items \in ItemSeq, ItemsOK(L, c.items, c.tree), TreeOK(c.tree),
           Mapper(c) = L[Len(L)].type, Last(c.mapKeys) \in [key: Keys] \cup {NoKey}
    PROVE  LET it2 == SetLast(c.items, NULL)
               u   == EntryTree(c)
           IN  /\ it2 \in ItemSeq /\ it2 # <<>> /\ Last(it2) = NULL
               /\ TreeOK(u) /\ ItemsOK(L, it2, u)
<1> DEFINE it == c.items
           t == c.tree
           n == Len(it)
           map == it[n - 1]
           a == Value(map)
           it2 == SetLast(it, NULL)
           u == EntryTree(c)
           m == L[Len(L)].type
           empty == IF Schema[m][ValueField].message = NoMessage THEN Default ELSE Undef
           tree == IF Last(it) = NULL THEN Put(t, a, empty) ELSE t
           key == Last(c.mapKeys)
<1>1. ItemsOK(L, it, t) /\ Shaped(t) /\ it \in ItemSeq /\ TreeOK(t) /\ Chain(it, t)
  BY DEF TreeOK, ItemsOK
<1>2. u = IF key = NoKey THEN Drop(t, a) ELSE Move(tree, a, Child(map, "key", key.key))
  BY DEF EntryTree
<1>3. Free(L)
  BY DEF Free
<1>4. empty \in Nodes
      /\ (Fits(empty, Schema[m][ValueField].message) \/ Absent(empty, Schema[m][ValueField].message))
  <2>1. /\ Default \in Nodes /\ Default.kind \in {"wire", "default"}
        /\ Undef \in Nodes
    BY DEF Default, Undef, Leaf, Nodes
  <2>2. CASE Schema[m][ValueField].message = NoMessage
    <3>1. empty = Default
      BY <2>2
    <3> HIDE DEF empty
    <3> QED
      BY <2>1, <2>2, <3>1 DEF Fits
  <2>3. CASE Schema[m][ValueField].message # NoMessage
    <3>1. empty = Undef
      BY <2>3
    <3> HIDE DEF empty
    <3> QED
      BY <2>1, <2>3, <3>1 DEF Absent
  <2> QED
    BY <2>2, <2>3
<1>20. key \in [key: Keys] \cup {NoKey}
  OBVIOUS
<1> HIDE DEF it, t, it2, u, m, empty, key
<1>5. /\ n \in Nat /\ n > 2 /\ map # NULL /\ map \in Paths /\ map \in DOMAIN t
      /\ t[map].kind = "map" /\ map # <<>> /\ Last(map)[1] = "field"
      /\ ElementOf(t, map) = Schema[m][ValueField].message
      /\ it[n] \in {NULL, a} /\ (it[n] # NULL => it[n] \in DOMAIN t) /\ Last(it) = it[n]
  <2>1. /\ Len(it) \in Nat /\ Len(it) > 2 /\ map # NULL /\ map \in Paths
        /\ map \in DOMAIN t /\ t[map].kind = "map" /\ map # <<>> /\ Last(map)[1] = "field"
    BY <1>1, <1>3, TopMap
  <2>2. ElementOf(t, map) = Schema[m][ValueField].message
    BY <1>1, <1>3, TopMap DEF m
  <2>3. /\ it[n] \in {NULL, a} /\ Last(it) = it[n]
        /\ it[n] # NULL => it[n] \in DOMAIN t
    BY <1>1, <1>3, TopMap
  <2> QED
    BY <2>1, <2>2, <2>3
<1>6. /\ DOMAIN it = 1..n /\ \A k \in DOMAIN it : it[k] # NULL => it[k] \in Paths
      /\ \A k \in DOMAIN it : k < n => it[k] # NULL /\ it[k] \in Paths
  BY <1>1, ItemsIn
<1>7. it # <<>>
  BY <1>5
<1>8. /\ it2 \in ItemSeq /\ Len(it2) = n /\ DOMAIN it2 = 1..n
      /\ \A i \in 1..(n - 1) : it2[i] = it[i]
      /\ it2[n] = NULL /\ Last(it2) = NULL /\ it2 # <<>>
  <2>1. NULL \in Paths \cup {NULL}
    OBVIOUS
  <2>2. /\ it2 \in ItemSeq /\ Len(it2) = n /\ DOMAIN it2 = 1..n
        /\ \A i \in 1..(n - 1) : it2[i] = it[i]
        /\ it2[n] = NULL /\ Last(it2) = NULL
    BY <1>1, <1>7, <2>1, SetLastItem DEF it2
  <2>3. Len(it2) # 0
    BY <1>5, <2>2
  <2> QED
    BY <2>2, <2>3
<1>9. /\ a \in Paths /\ a # NULL /\ a # <<>> /\ Last(a)[1] = "value" /\ Front(a) = map
      /\ Len(map) \in Nat /\ Len(a) = Len(map) + 1
      /\ \A q \in Paths : IsPrefix(q, map) => ~IsPrefix(a, q)
      /\ IsPrefix(a, a)
  BY <1>5, ValueIs, PrefixSelf
<1> HIDE DEF n, map, a, tree
<1>10. \A k \in 1..(n - 1) : /\ it[k] # NULL /\ it[k] \in Paths /\ it[k] \in DOMAIN t
                             /\ IsPrefix(it[k], map) /\ ~IsPrefix(a, it[k])
  <2>1. ASSUME NEW k \in 1..(n - 1)
        PROVE  it[k] # NULL /\ it[k] \in Paths /\ it[k] \in DOMAIN t /\ IsPrefix(it[k], map)
    <3>1. k \in DOMAIN it /\ k < n /\ n - 1 \in DOMAIN it /\ k <= n - 1
      BY <1>5, <1>6
    <3>2. it[k] # NULL /\ it[k] \in Paths
      BY <1>6, <3>1
    <3>3. it[k] \in DOMAIN t
      BY <1>1, <3>1, <3>2 DEF Chain
    <3>4. IsPrefix(it[k], it[n - 1])
      BY <1>1, <1>5, <3>1 DEF Chain, map
    <3> QED
      BY <3>2, <3>3, <3>4 DEF map
  <2> QED
    BY <1>9, <2>1
\* The only value that may go is that of the entry.
<1>11. ASSUME NEW p \in Values(t), p # a PROVE \E k \in 1..(n - 1) : p = it[k]
  <2>1. PICK k \in DOMAIN it : p = it[k]
    BY <1>1 DEF Chain
  <2>2. p # NULL
    BY <1>1, NullIs DEF Values, Shaped, IsTree
  <2>3. k # n
    BY <1>5, <1>11, <2>1, <2>2
  <2>4. k \in 1..(n - 1)
    BY <1>5, <1>6, <2>1, <2>3
  <2> QED
    BY <2>1, <2>4
<1>12. ASSUME \A k \in 1..(n - 1) : Kept(t, u, it[k]), Values(u) \subseteq Values(t) \ {a},
              \A p \in Values(u) : u[p] = t[p], Shaped(u)
       PROVE  TreeOK(u) /\ ItemsOK(L, it2, u)
  <2>1. Values(u) \subseteq {it2[k] : k \in DOMAIN it2}
    <3>1. ASSUME NEW p \in Values(u) PROVE \E k \in DOMAIN it2 : p = it2[k]
      <4>1. PICK k \in 1..(n - 1) : p = it[k]
        BY <1>11, <1>12
      <4>2. k \in DOMAIN it2
        BY <1>5, <1>8
      <4> QED
        BY <1>8, <4>1, <4>2
    <3> QED
      BY <3>1
  <2>2. \A k \in 1..(Len(it) - 1) : it2[k] = it[k] /\ Kept(t, u, it[k])
    BY <1>8, <1>12 DEF n
  <2>3. it2[Len(it)] = NULL /\ Len(it2) = Len(it)
    BY <1>8 DEF n
  <2>4. ItemsOK(L, it2, u)
    BY <1>1, <1>3, <1>8, <2>1, <2>2, <2>3, ItemsKept
  <2>5. TreeOK(u)
    BY <1>1, <1>12 DEF TreeOK
  <2> QED
    BY <2>4, <2>5
<1>13. CASE key = NoKey
  <2>1. /\ Shaped(u)
        /\ \A p \in DOMAIN u : p \in DOMAIN t /\ u[p] = t[p] /\ ~IsPrefix(a, p)
        /\ \A p \in DOMAIN t : ~IsPrefix(a, p) => p \in DOMAIN u
    <3>1. u = Drop(t, a)
      BY <1>2, <1>13
    <3>2. /\ \A p : p \in DOMAIN u <=> p \in DOMAIN t /\ ~IsPrefix(a, p)
          /\ \A p \in DOMAIN t : ~IsPrefix(a, p) => u[p] = t[p]
      BY <3>1, DropIs
    <3>3. Last(a)[1] # "item"
      BY <1>9
    <3> QED
      BY <1>1, <1>9, <3>1, <3>2, <3>3, DropShaped
  <2>2. \A k \in 1..(n - 1) : Kept(t, u, it[k])
    BY <1>10, <2>1 DEF Kept, SameAt
  <2>3. Values(u) \subseteq Values(t) \ {a} /\ \A p \in Values(u) : u[p] = t[p]
    BY <1>9, <2>1 DEF Values
  <2>4. TreeOK(u) /\ ItemsOK(L, it2, u)
    BY <1>12, <2>1, <2>2, <2>3
  <2> QED
    BY <1>8, <2>4 DEF u, it2, it
<1>14. CASE key # NoKey
  <2>1. PICK k \in Keys : k = key.key
    BY <1>14, <1>20
  <2>2. PICK b : b = Child(map, "key", k)
    OBVIOUS
  <2>3. u = Move(tree, a, b)
    BY <1>2, <1>14, <2>1, <2>2
  <2>4. <<"key", k>> \in Steps
    BY StepsAre
  <2>5. /\ b \in Paths /\ Len(b) = Len(a) /\ Last(b) = <<"key", k>> /\ b # <<>>
        /\ \A q \in Paths : IsPrefix(q, map) => ~IsPrefix(b, q)
    <3>1. b \in Paths /\ Len(b) = Len(map) + 1 /\ Last(b) = <<"key", k>> /\ b # <<>>
      BY <1>5, <2>2, <2>4, ChildIs
    <3>2. ~IsPrefix(b, map)
      BY <1>5, <2>2, <2>4, PrefixOfChild
    <3>3. ASSUME NEW q \in Paths, IsPrefix(q, map), IsPrefix(b, q) PROVE FALSE
      BY <1>5, <3>1, <3>2, <3>3, PrefixTrans
    <3> QED
      BY <1>9, <3>1, <3>3
  <2>6. /\ Shaped(tree) /\ a \in DOMAIN tree /\ map \in DOMAIN tree /\ tree[map].kind = "map"
        /\ DOMAIN tree \subseteq DOMAIN t \cup {a}
        /\ \A p \in DOMAIN t : p # a => p \in DOMAIN tree /\ tree[p] = t[p]
    <3>1. CASE Last(it) = NULL
      <4>1. a \notin DOMAIN t
        <5>1. SUFFICES ASSUME a \in DOMAIN t PROVE FALSE
          OBVIOUS
        <5>2. a \in Values(t)
          BY <1>9, <5>1 DEF Values
        <5>3. PICK j \in DOMAIN it : a = it[j]
          BY <1>1, <5>2 DEF Chain
        <5>4. j # n
          BY <1>5, <1>9, <3>1, <5>3
        <5>5. j \in 1..(n - 1)
          BY <1>5, <1>6, <5>4
        <5> QED
          BY <1>9, <1>10, <5>3, <5>5
      <4>2. tree = Put(t, a, empty)
        BY <3>1 DEF tree
      <4>3. Shaped(tree)
        <5>1. Fits(empty, ElementOf(t, map)) \/ Absent(empty, ElementOf(t, map))
          BY <1>4, <1>5
        <5> QED
          BY <1>1, <1>4, <1>5, <4>1, <4>2, <5>1, StoreValue DEF a
      <4>4. /\ DOMAIN tree = DOMAIN t \cup {a} /\ \A p \in DOMAIN t : p # a => tree[p] = t[p]
        BY <4>2 DEF Put
      <4>5. map # a
        BY <1>5, <1>9
      <4> QED
        BY <1>5, <4>3, <4>4, <4>5
    <3>2. CASE Last(it) # NULL
      <4>1. tree = t /\ a \in DOMAIN t
        BY <1>5, <3>2 DEF tree
      <4> QED
        BY <1>1, <1>5, <4>1
    <3> QED
      BY <3>1, <3>2
  <2>7. Shaped(u)
    BY <2>2, <2>3, <2>6, MoveShaped DEF a
  <2>8. /\ \A p \in DOMAIN tree : ~IsPrefix(a, p) /\ ~IsPrefix(b, p) => p \in DOMAIN u /\ u[p] = tree[p]
        /\ \A x \in DOMAIN u : \/ x \in DOMAIN tree /\ ~IsPrefix(a, x) /\ ~IsPrefix(b, x)
                               \/ \E p \in DOMAIN tree : IsPrefix(a, p) /\ x = Moved(a, b, p)
    <3>1. IsTree(tree)
      BY <2>6 DEF Shaped
    <3> QED
      BY <1>9, <2>3, <2>5, <3>1, MoveIs
  <2>9. \A j \in 1..(n - 1) : Kept(t, u, it[j])
    <3>1. ASSUME NEW j \in 1..(n - 1) PROVE Kept(t, u, it[j])
      <4>1. it[j] \in DOMAIN t /\ ~IsPrefix(a, it[j]) /\ ~IsPrefix(b, it[j]) /\ it[j] # a
        BY <1>9, <1>10, <2>5
      <4> QED
        BY <2>6, <2>8, <4>1 DEF Kept, SameAt
    <3> QED
      BY <3>1
  <2>10. ASSUME NEW x \in Values(u) PROVE x \in Values(t) /\ x # a /\ u[x] = t[x]
    <3>0. x \in DOMAIN u /\ x # <<>> /\ Last(x)[1] = "value"
      BY DEF Values
    <3>1. CASE x \in DOMAIN tree /\ ~IsPrefix(a, x) /\ ~IsPrefix(b, x)
      <4>1. x # a
        BY <1>9, <3>1
      <4>2. x \in DOMAIN t /\ tree[x] = t[x] /\ u[x] = tree[x]
        BY <2>6, <2>8, <3>1, <4>1
      <4> QED
        BY <3>0, <4>1, <4>2 DEF Values
    <3>2. ASSUME NEW p \in DOMAIN tree, IsPrefix(a, p), x = Moved(a, b, p) PROVE FALSE
      <4>0. p \in Paths
        BY <2>6 DEF Shaped, IsTree
      <4>1. CASE p = a
        <5>1. x = b
          BY <1>9, <2>5, <3>2, <4>1, MovedTop
        <5> QED
          BY <2>5, <3>0, <5>1
      <4>2. CASE p # a
        <5>1. p # <<>> /\ Last(x) = Last(p)
          BY <1>9, <2>5, <3>2, <4>0, <4>2, MovedBelow
        <5>2. p \in Values(t)
          BY <2>6, <3>0, <4>2, <5>1 DEF Values
        <5>3. PICK j \in 1..(n - 1) : p = it[j]
          BY <1>11, <4>2, <5>2
        <5> QED
          BY <1>10, <3>2, <5>3
      <4> QED
        BY <4>1, <4>2
    <3> QED
      BY <2>8, <3>0, <3>1, <3>2
  <2>11. Values(u) \subseteq Values(t) \ {a} /\ \A p \in Values(u) : u[p] = t[p]
    BY <2>10
  <2>12. TreeOK(u) /\ ItemsOK(L, it2, u)
    BY <1>12, <2>7, <2>9, <2>11
  <2> QED
    BY <1>8, <2>12 DEF u, it2, it
<1> QED
  BY <1>13, <1>14

\* The defaults of a message.
LEMMA DefaultsKept ==
    ASSUME NEW L, NEW tok, LevelsOK(L, tok), ~Free(L), ~OpenList(L[Len(L)]), NEW c,
           c.items \in ItemSeq, ItemsOK(L, c.items, c.tree), TreeOK(c.tree),
           Mapper(c) = L[Len(L)].type
    PROVE  LET u == PutAll(c.tree, DefaultPaths(c), Default)
           IN  TreeOK(u) /\ ItemsOK(L, c.items, u) /\ c.items # <<>>
<1> DEFINE it == c.items
           t == c.tree
           h == Last(it)
           P == DefaultPaths(c)
           u == PutAll(t, P, Default)
           m == L[Len(L)].type
<1>1. ItemsOK(L, it, t) /\ Shaped(t) /\ it \in ItemSeq /\ TreeOK(t) /\ Chain(it, t)
  BY DEF TreeOK, ItemsOK
<1>2. m \in Messages
  BY LevelIs, LevelsAre
<1>3. \A p \in P : /\ p \notin DOMAIN t
                   /\ \E f \in FieldsOf(m) : p = Child(h, "field", f) /\ HasDefault(m, f)
  BY DEF DefaultPaths, ToDefault, Unseen
<1> HIDE DEF it, t, h, P, u, m
<1>4. /\ Len(it) \in Nat \ {0} /\ it[Len(it)] # NULL /\ h \in Paths /\ h = it[Len(it)]
      /\ h \in DOMAIN t /\ t[h].kind = "hash" /\ t[h].type = m
  BY <1>1, TopHash DEF h, m
<1>5. ASSUME NEW p \in P
      PROVE  /\ p \in Paths /\ p # <<>> /\ Front(p) = h /\ Last(p)[1] = "field"
             /\ Placed(t, h, Last(p), Default)
  <2>1. PICK f \in FieldsOf(m) : p = Child(h, "field", f) /\ HasDefault(m, f)
    BY <1>3
  <2>2. f \in Nat
    BY <1>2, SchemaAssumption
  <2>3. <<"field", f>> \in Steps
    BY <2>2, StepsAre
  <2>4. p \in Paths /\ p # <<>> /\ Front(p) = h /\ Last(p) = <<"field", f>>
    BY <1>4, <2>1, <2>3, ChildIs
  <2>5. ~Schema[m][f].repeated /\ Schema[m][f].message = NoMessage
    BY <1>2, <2>1, TraitsAssumption DEF HasDefault
  <2>6. Fits(Default, NoMessage)
    BY DEF Fits, Default, Leaf
  <2>7. FieldFits(Default, m, f)
    BY <2>5, <2>6 DEF FieldFits
  <2>8. Placed(t, h, Last(p), Default)
    BY <1>4, <2>4, <2>7 DEF Placed
  <2> QED
    BY <2>4, <2>8
<1>6. Shaped(u)
  <2>1. P \in SUBSET Paths /\ <<>> \notin P
    BY <1>5
  <2>2. Default \in Nodes
    BY DEF Default, Leaf, Nodes
  <2>3. \A p \in P : Front(p) \in DOMAIN t /\ Placed(t, Front(p), Last(p), Default)
    BY <1>4, <1>5
  <2>4. \A p \in P : Last(p)[1] = "field"
    BY <1>5
  <2>5. \A p \in P : Last(p)[1] # "item"
    BY <2>4
  <2> QED
    BY <1>1, <2>1, <2>2, <2>3, <2>4, <2>5, PutShaped DEF u
<1>7. /\ DOMAIN u = DOMAIN t \cup P /\ \A p \in DOMAIN t : u[p] = t[p]
  BY <1>3 DEF u, PutAll
<1>8. \A p \in DOMAIN t : Kept(t, u, p)
  BY <1>7 DEF Kept, SameAt
<1>9. Values(u) \subseteq Values(t)
  BY <1>5, <1>7 DEF Values
<1>10. /\ DOMAIN it = 1..Len(it) /\ \A k \in DOMAIN it : it[k] # NULL => it[k] \in DOMAIN t
       /\ \A k \in DOMAIN it : k < Len(it) => it[k] # NULL
  BY <1>1, ItemsIn DEF Chain
<1>11. \A k \in 1..(Len(it) - 1) : it[k] = it[k] /\ Kept(t, u, it[k])
  <2>1. \A k \in 1..(Len(it) - 1) : k \in 1..Len(it) /\ k < Len(it)
    BY <1>4
  <2>2. \A k \in 1..(Len(it) - 1) : it[k] \in DOMAIN t
    BY <1>10, <2>1
  <2> QED
    BY <1>8, <2>2
<1>12. Values(u) \subseteq {it[k] : k \in DOMAIN it}
  BY <1>1, <1>9 DEF Chain
<1>13. it[Len(it)] = it[Len(it)] /\ Kept(t, u, it[Len(it)]) /\ it[Len(it)] \in DOMAIN u
  BY <1>4, <1>7, <1>8
<1>14. ItemsOK(L, it, u)
  BY <1>1, <1>11, <1>12, <1>13, ItemsKept
<1>15. TreeOK(u)
  BY <1>1, <1>6, <1>7, <1>9 DEF TreeOK, Values
<1>16. it # <<>>
  BY <1>4
<1> QED
  BY <1>14, <1>15, <1>16 DEF u, t, it, P

----------------------------------------------------------------------------
(* The stacks of what has been seen.                                              *)

\* Levels that push the same have as many entries on each stack,
LEMMA AlikeCounts ==
    ASSUME NEW L \in Seq(Levels), NEW M \in Seq(Levels), Len(M) = Len(L),
           \A i \in DOMAIN L : Alike(L[i], M[i])
    PROVE  /\ OwnOf(M) = OwnOf(L) /\ MapsOf(M) = MapsOf(L) /\ TrackingOf(M) = TrackingOf(L)
           /\ ChoosingOf(M) = ChoosingOf(L)
<1>1. DOMAIN M = DOMAIN L
  BY LevelsAre
<1>2. \A i \in DOMAIN L : M[i].type = L[i].type /\ (OpenMap(M[i]) <=> OpenMap(L[i]))
  BY DEF Alike
<1>3. OwnOf(M) = OwnOf(L)
  BY <1>1, <1>2 DEF OwnOf, InEntry
<1>4. MapsOf(M) = MapsOf(L)
  BY <1>1, <1>2 DEF MapsOf
<1>5. \A i \in OwnOf(L) : M[i].type = L[i].type
  BY <1>2 DEF OwnOf
<1>6. TrackingOf(M) = TrackingOf(L)
  BY <1>3, <1>5 DEF TrackingOf
<1>7. ChoosingOf(M) = ChoosingOf(L)
  BY <1>3, <1>5 DEF ChoosingOf
<1> QED
  BY <1>3, <1>4, <1>6, <1>7

\* and agree with the same stacks.
LEMMA SeenAlike ==
    ASSUME NEW L, NEW tok, LevelsOK(L, tok), NEW M, NEW tok2, LevelsOK(M, tok2),
           Len(M) = Len(L), \A i \in DOMAIN L : Alike(L[i], M[i]), NEW c, SeenOK(L, c)
    PROVE  SeenOK(M, c)
<1>1. L \in Seq(Levels) /\ M \in Seq(Levels) /\ 1 \in DOMAIN L
  BY LevelIs
<1>2. /\ MapsOf(M) = MapsOf(L) /\ TrackingOf(M) = TrackingOf(L) /\ ChoosingOf(M) = ChoosingOf(L)
  BY <1>1, AlikeCounts
<1>3. \A i \in DOMAIN L : M[i].type = L[i].type
  BY DEF Alike
<1>4. FieldsOK(M, c.seenFields)
  BY <1>1, <1>2, <1>3 DEF SeenOK, FieldsOK
<1>5. OneofsOK(M, c.seenOneof)
  <2>1. \A i \in ChoosingOf(L) : M[i].type = L[i].type
    BY <1>3 DEF ChoosingOf, OwnOf
  <2> QED
    BY <1>1, <1>2, <1>3, <2>1 DEF SeenOK, OneofsOK
<1> QED
  BY <1>2, <1>4, <1>5 DEF SeenOK

\* What a message or an open field more adds to the counts.
LEMMA GrownCounts ==
    ASSUME NEW S, NEW tok, LevelsOK(S, tok), NEW B, NEW tok2, LevelsOK(B, tok2), Grown(S, B)
    PROVE  LET n == Len(S)
               own == Deeper(S, B) /\ ~InEntry(B[n + 1])
           IN
           /\ B[1].type = S[1].type /\ n \in Nat \ {0}
           /\ Cardinality(MapsOf(S)) \in Nat /\ Cardinality(TrackingOf(S)) \in Nat
           /\ Cardinality(ChoosingOf(S)) \in Nat
           /\ Cardinality(MapsOf(B)) = Cardinality(MapsOf(S)) +
                  IF Opened(S, B) /\ OpenMap(B[n]) THEN 1 ELSE 0
           /\ Cardinality(TrackingOf(B)) = Cardinality(TrackingOf(S)) +
                  IF own /\ TracksSeen(B[n + 1].type) THEN 1 ELSE 0
           /\ ChoosingOf(B) = ChoosingOf(S) \cup
                  IF own /\ Oneofs(B[n + 1].type) # {} THEN {n + 1} ELSE {}
           /\ Cardinality(ChoosingOf(B)) = Cardinality(ChoosingOf(S)) +
                  IF own /\ Oneofs(B[n + 1].type) # {} THEN 1 ELSE 0
           /\ \A i \in ChoosingOf(S) : /\ i \in 1..n /\ B[i].type = S[i].type
                                       /\ Upto(ChoosingOf(B), i) = Upto(ChoosingOf(S), i)
                                       /\ Upto(ChoosingOf(S), i) \in Nat \ {0}
                                       /\ Upto(ChoosingOf(S), i) <= Cardinality(ChoosingOf(S))
<1> DEFINE n == Len(S)
           own == Deeper(S, B) /\ ~InEntry(B[n + 1])
<1>1. /\ n \in Nat \ {0} /\ S \in Seq(Levels) /\ B \in Seq(Levels)
      /\ \A i \in 1..n : B[i].type = S[i].type
      /\ OwnOf(B) = OwnOf(S) \cup IF own THEN {n + 1} ELSE {}
      /\ MapsOf(B) = MapsOf(S) \cup IF Opened(S, B) /\ OpenMap(B[n]) THEN {n} ELSE {}
      /\ Opened(S, B) => n \notin MapsOf(S)
      /\ Len(B) = n \/ Len(B) = n + 1
  BY GrownSets
<1>2. /\ OwnOf(S) \in SUBSET (1..n) /\ MapsOf(S) \in SUBSET (1..n)
      /\ TrackingOf(S) \in SUBSET (1..n) /\ ChoosingOf(S) \in SUBSET (1..n)
      /\ ChoosingOf(B) \in SUBSET (1..Len(B)) /\ Len(B) \in Nat
  BY <1>1, SetsOf
<1> HIDE DEF n, own
<1>3. /\ IsFiniteSet(MapsOf(S)) /\ IsFiniteSet(TrackingOf(S)) /\ IsFiniteSet(ChoosingOf(S))
      /\ Cardinality(MapsOf(S)) \in Nat /\ Cardinality(TrackingOf(S)) \in Nat
      /\ Cardinality(ChoosingOf(S)) \in Nat
  <2>1. IsFiniteSet(1..n)
    BY <1>1, FS_Interval
  <2>2. IsFiniteSet(MapsOf(S)) /\ IsFiniteSet(TrackingOf(S)) /\ IsFiniteSet(ChoosingOf(S))
    BY <1>2, <2>1, FS_Subset
  <2> QED
    BY <2>2, FS_CardinalityType
<1>4. n + 1 \notin OwnOf(S) /\ n + 1 \notin TrackingOf(S) /\ n + 1 \notin ChoosingOf(S)
  BY <1>1, <1>2
<1>5. Cardinality(MapsOf(B)) = Cardinality(MapsOf(S)) +
          IF Opened(S, B) /\ OpenMap(B[n]) THEN 1 ELSE 0
  <2>1. CASE Opened(S, B) /\ OpenMap(B[n])
    BY <1>1, <1>3, <2>1, FS_AddElement
  <2>2. CASE ~(Opened(S, B) /\ OpenMap(B[n]))
    <3>1. MapsOf(B) = MapsOf(S)
      BY <1>1, <2>2
    <3> QED
      BY <1>3, <2>2, <3>1
  <2> QED
    BY <2>1, <2>2
<1>6. \A i \in OwnOf(S) : B[i].type = S[i].type
  BY <1>1, <1>2
<1>7. TrackingOf(B) = TrackingOf(S) \cup IF own /\ TracksSeen(B[n + 1].type) THEN {n + 1} ELSE {}
  BY <1>1, <1>6 DEF TrackingOf
<1>8. ChoosingOf(B) = ChoosingOf(S) \cup IF own /\ Oneofs(B[n + 1].type) # {} THEN {n + 1} ELSE {}
  BY <1>1, <1>6 DEF ChoosingOf
<1>9. Cardinality(TrackingOf(B)) = Cardinality(TrackingOf(S)) +
          IF own /\ TracksSeen(B[n + 1].type) THEN 1 ELSE 0
  <2>1. CASE own /\ TracksSeen(B[n + 1].type)
    BY <1>7, <1>3, <1>4, <2>1, FS_AddElement
  <2>2. CASE ~(own /\ TracksSeen(B[n + 1].type))
    <3>1. TrackingOf(B) = TrackingOf(S)
      BY <1>7, <2>2
    <3> QED
      BY <1>3, <2>2, <3>1
  <2> QED
    BY <2>1, <2>2
<1>10. Cardinality(ChoosingOf(B)) = Cardinality(ChoosingOf(S)) +
          IF own /\ Oneofs(B[n + 1].type) # {} THEN 1 ELSE 0
  <2>1. CASE own /\ Oneofs(B[n + 1].type) # {}
    BY <1>8, <1>3, <1>4, <2>1, FS_AddElement
  <2>2. CASE ~(own /\ Oneofs(B[n + 1].type) # {})
    <3>1. ChoosingOf(B) = ChoosingOf(S)
      BY <1>8, <2>2
    <3> QED
      BY <1>3, <2>2, <3>1
  <2> QED
    BY <2>1, <2>2
<1>11. ASSUME NEW i \in ChoosingOf(S)
       PROVE  /\ i \in 1..n /\ B[i].type = S[i].type
              /\ Upto(ChoosingOf(B), i) = Upto(ChoosingOf(S), i)
              /\ Upto(ChoosingOf(S), i) \in Nat \ {0}
              /\ Upto(ChoosingOf(S), i) <= Cardinality(ChoosingOf(S))
  <2>1. i \in 1..n /\ i \in Nat \ {0} /\ i <= n
    BY <1>1, <1>2
  <2>2. \A k \in 1..i : k \in ChoosingOf(B) <=> k \in ChoosingOf(S)
    <3>1. \A k \in 1..i : k # n + 1
      BY <1>1, <2>1
    <3> QED
      BY <1>8, <3>1
  <2>3. Upto(ChoosingOf(B), i) = Upto(ChoosingOf(S), i)
    BY <1>1, <1>2, <2>1, <2>2, UptoSame
  <2>4. PICK h \in Nat : h = i - 1
    BY <2>1
  <2>5. /\ Upto(ChoosingOf(S), h) \in Nat /\ Upto(ChoosingOf(S), i) = Upto(ChoosingOf(S), h) + 1
        /\ Upto(ChoosingOf(S), i) <= Upto(ChoosingOf(S), n)
        /\ Upto(ChoosingOf(S), n) = Cardinality(ChoosingOf(S))
    <3>1. n \in Nat
      BY <1>1
    <3>2. /\ Upto(ChoosingOf(S), h) \in Nat
          /\ Upto(ChoosingOf(S), i) = Upto(ChoosingOf(S), i - 1) + 1
      BY <1>2, <2>1, <3>1, UptoIs
    <3>3. /\ Upto(ChoosingOf(S), i) <= Upto(ChoosingOf(S), n)
          /\ Upto(ChoosingOf(S), n) = Cardinality(ChoosingOf(S))
      BY <1>2, <2>1, <3>1, UptoIs
    <3> QED
      BY <2>4, <3>2, <3>3
  <2>6. B[i].type = S[i].type
    BY <1>1, <2>1
  <2> QED
    BY <2>1, <2>3, <2>5, <2>6
<1>12. B[1].type = S[1].type
  BY <1>1
<1> QED
  BY <1>1, <1>3, <1>5, <1>8, <1>9, <1>10, <1>11, <1>12 DEF n, own

\* The seen fields and oneofs of a message that is entered and left.
LEMMA FieldsGrown ==
    ASSUME NEW S, NEW tok, LevelsOK(S, tok), NEW B, NEW tok2, LevelsOK(B, tok2), Grown(S, B),
           NEW low, NEW high, Len(low) \in Nat,
           Len(high) = Len(low) +
               IF Deeper(S, B) /\ ~InEntry(B[Len(S) + 1]) /\ TracksSeen(B[Len(S) + 1].type)
               THEN 1 ELSE 0
    PROVE  FieldsOK(S, low) <=> FieldsOK(B, high)
<1>1. /\ B[1].type = S[1].type /\ Cardinality(TrackingOf(S)) \in Nat
      /\ Cardinality(TrackingOf(B)) = Cardinality(TrackingOf(S)) +
             IF (Deeper(S, B) /\ ~InEntry(B[Len(S) + 1])) /\ TracksSeen(B[Len(S) + 1].type)
             THEN 1 ELSE 0
  BY GrownCounts
<1>2. PICK d \in Nat : /\ Cardinality(TrackingOf(B)) = Cardinality(TrackingOf(S)) + d
                       /\ Len(high) = Len(low) + d
  <2>1. CASE Deeper(S, B) /\ ~InEntry(B[Len(S) + 1]) /\ TracksSeen(B[Len(S) + 1].type)
    <3>1. Cardinality(TrackingOf(B)) = Cardinality(TrackingOf(S)) + 1 /\ Len(high) = Len(low) + 1
      BY <1>1, <2>1
    <3> QED
      BY <3>1
  <2>2. CASE ~(Deeper(S, B) /\ ~InEntry(B[Len(S) + 1]) /\ TracksSeen(B[Len(S) + 1].type))
    <3>1. Cardinality(TrackingOf(B)) = Cardinality(TrackingOf(S)) + 0 /\ Len(high) = Len(low) + 0
      BY <1>1, <2>2
    <3> QED
      BY <3>1
  <2> QED
    BY <2>1, <2>2
<1> QED
  BY <1>1, <1>2 DEF FieldsOK

\* Levels without oneofs leave their stack alone;
LEMMA OneofsGrown ==
    ASSUME NEW S, NEW tok, LevelsOK(S, tok), NEW B, NEW tok2, LevelsOK(B, tok2), Grown(S, B),
           ~(Deeper(S, B) /\ ~InEntry(B[Len(S) + 1]) /\ Oneofs(B[Len(S) + 1].type) # {}),
           NEW seen
    PROVE  OneofsOK(S, seen) <=> OneofsOK(B, seen)
<1>1. /\ B[1].type = S[1].type
      /\ ChoosingOf(B) = ChoosingOf(S)
      /\ \A i \in ChoosingOf(S) : B[i].type = S[i].type
  <2>1. B[1].type = S[1].type /\ \A i \in ChoosingOf(S) : B[i].type = S[i].type
    BY GrownCounts
  <2>2. ChoosingOf(B) = ChoosingOf(S) \cup
            IF (Deeper(S, B) /\ ~InEntry(B[Len(S) + 1])) /\ Oneofs(B[Len(S) + 1].type) # {}
            THEN {Len(S) + 1} ELSE {}
    BY GrownCounts
  <2> QED
    BY <2>1, <2>2
<1> QED
  BY <1>1 DEF OneofsOK

\* those with some push an entry on it,
LEMMA OneofsPushed ==
    ASSUME NEW S, NEW tok, LevelsOK(S, tok), NEW B, NEW tok2, LevelsOK(B, tok2), Deeper(S, B),
           ~InEntry(B[Len(S) + 1]), Oneofs(B[Len(S) + 1].type) # {},
           NEW low \in Seq(OneofStates), NEW high \in Seq(OneofStates), Len(high) = Len(low) + 1,
           \A i \in 1..Len(low) : high[i] = low[i]
    PROVE  /\ OneofsOK(B, high) => OneofsOK(S, low)
           /\ OneofsOK(S, low) /\ high[Len(high)] \in OneofState(B[Len(S) + 1].type)
                 => OneofsOK(B, high)
<1> DEFINE n == Len(S)
           CS == Cardinality(ChoosingOf(S))
           m == Len(low)
<1>0. Grown(S, B)
  BY DEF Grown
<1>1. /\ B[1].type = S[1].type /\ CS \in Nat /\ n \in Nat \ {0}
      /\ ChoosingOf(B) = ChoosingOf(S) \cup {n + 1}
      /\ Cardinality(ChoosingOf(B)) = CS + 1
      /\ \A i \in ChoosingOf(S) : /\ i \in 1..n /\ B[i].type = S[i].type
                                  /\ Upto(ChoosingOf(B), i) = Upto(ChoosingOf(S), i)
                                  /\ Upto(ChoosingOf(S), i) \in Nat \ {0}
                                  /\ Upto(ChoosingOf(S), i) <= CS
  <2>1. /\ B[1].type = S[1].type /\ CS \in Nat /\ n \in Nat \ {0}
        /\ \A i \in ChoosingOf(S) : /\ i \in 1..n /\ B[i].type = S[i].type
                                    /\ Upto(ChoosingOf(B), i) = Upto(ChoosingOf(S), i)
                                    /\ Upto(ChoosingOf(S), i) \in Nat \ {0}
                                    /\ Upto(ChoosingOf(S), i) <= CS
    BY <1>0, GrownCounts
  <2>2. ChoosingOf(B) = ChoosingOf(S) \cup {n + 1}
    BY <1>0, GrownCounts
  <2>3. Cardinality(ChoosingOf(B)) = CS + 1
    BY <1>0, GrownCounts
  <2> QED
    BY <2>1, <2>2, <2>3
<1>2. m \in Nat
  BY LenProperties
<1>3. Upto(ChoosingOf(B), n + 1) = CS + 1
  <2>1. Len(B) = n + 1 /\ B \in Seq(Levels)
    <3>1. B \in Seq(Levels)
      BY LevelIs
    <3> QED
      BY <3>1 DEF Deeper
  <2>2. ChoosingOf(B) \in SUBSET (1..(n + 1)) /\ n + 1 \in Nat
    BY <1>1, <2>1, SetsOf
  <2>3. Upto(ChoosingOf(B), n + 1) = Cardinality(ChoosingOf(B))
    BY <2>2, UptoIs
  <2> QED
    BY <1>1, <2>3
<1> HIDE DEF n, CS, m
<1>4. Len(low) = m /\ Len(high) = m + 1 /\ \A i \in 1..m : high[i] = low[i]
  BY DEF m
<1>5. ASSUME CS <= m, NEW i \in ChoosingOf(S)
      PROVE  high[Len(high) - Cardinality(ChoosingOf(B)) + Upto(ChoosingOf(B), i)]
               = low[Len(low) - CS + Upto(ChoosingOf(S), i)]
  <2>1. PICK x \in Nat \ {0} : x = Upto(ChoosingOf(S), i) /\ x = Upto(ChoosingOf(B), i) /\ x <= CS
    BY <1>1
  <2>2. m - CS + x \in 1..m /\ (m + 1) - (CS + 1) + x = m - CS + x
    BY <1>1, <1>2, <1>5, <2>1
  <2> QED
    BY <1>1, <1>4, <2>1, <2>2
<1>6. CS <= m <=> Cardinality(ChoosingOf(B)) <= Len(high)
  BY <1>1, <1>2, <1>4
<1>7. CS = m <=> Cardinality(ChoosingOf(B)) = Len(high)
  BY <1>1, <1>2, <1>4
<1>8. ASSUME OneofsOK(B, high) PROVE OneofsOK(S, low)
  <2>1. CS <= m
    BY <1>6, <1>8 DEF OneofsOK
  <2>2. ASSUME NEW i \in ChoosingOf(S)
        PROVE  low[Len(low) - CS + Upto(ChoosingOf(S), i)] \in OneofState(S[i].type)
    <3>1. i \in ChoosingOf(B) /\ B[i].type = S[i].type
      BY <1>1
    <3>2. high[Len(high) - Cardinality(ChoosingOf(B)) + Upto(ChoosingOf(B), i)] \in OneofState(B[i].type)
      BY <1>8, <3>1 DEF OneofsOK
    <3> QED
      BY <1>5, <2>1, <3>1, <3>2
  <2> QED
    BY <1>1, <1>4, <1>7, <1>8, <2>1, <2>2 DEF OneofsOK, CS
<1>9. ASSUME OneofsOK(S, low), high[Len(high)] \in OneofState(B[n + 1].type)
      PROVE  OneofsOK(B, high)
  <2>1. CS <= m
    BY <1>4, <1>9 DEF OneofsOK, CS
  <2>2. ASSUME NEW i \in ChoosingOf(B)
        PROVE  high[Len(high) - Cardinality(ChoosingOf(B)) + Upto(ChoosingOf(B), i)]
                  \in OneofState(B[i].type)
    <3>1. CASE i \in ChoosingOf(S)
      <4>1. B[i].type = S[i].type
        BY <1>1, <3>1
      <4>2. low[Len(low) - CS + Upto(ChoosingOf(S), i)] \in OneofState(S[i].type)
        BY <1>9, <3>1 DEF OneofsOK, CS
      <4> QED
        BY <1>5, <2>1, <3>1, <4>1, <4>2
    <3>2. CASE i = n + 1
      <4>1. Len(high) - Cardinality(ChoosingOf(B)) + Upto(ChoosingOf(B), i) = Len(high)
        BY <1>1, <1>2, <1>3, <1>4, <3>2
      <4> QED
        BY <1>9, <3>2, <4>1
    <3> QED
      BY <1>1, <3>1, <3>2
  <2>3. Cardinality(ChoosingOf(B)) <= Len(high)
    BY <1>6, <2>1
  <2>4. Oneofs(B[1].type) # {} => Cardinality(ChoosingOf(B)) = Len(high)
    BY <1>1, <1>4, <1>7, <1>9 DEF OneofsOK, CS
  <2> QED
    BY <2>2, <2>3, <2>4 DEF OneofsOK
<1> QED
  BY <1>8, <1>9 DEF n

\* which the members of the top message are written to.
LEMMA OneofsTop ==
    ASSUME NEW L, NEW tok, LevelsOK(L, tok), ~InEntry(L[Len(L)]), Oneofs(L[Len(L)].type) # {},
           NEW seen \in Seq(OneofStates), OneofsOK(L, seen)
    PROVE  /\ seen # <<>> /\ Last(seen) \in OneofState(L[Len(L)].type)
           /\ \A e \in OneofState(L[Len(L)].type) :
                 SetLast(seen, e) \in Seq(OneofStates) /\ OneofsOK(L, SetLast(seen, e))
<1> DEFINE n == Len(L)
           C == ChoosingOf(L)
           m == Len(seen)
           k == Cardinality(C)
<1>1. /\ n \in Nat \ {0} /\ L \in Seq(Levels) /\ DOMAIN L = 1..n /\ n \in DOMAIN L
      /\ L[n].type \in Messages
  BY LevelIs, LevelsAre
<1>2. C \in SUBSET (1..n) /\ n \in C
  <2>1. n \in C
    BY <1>1 DEF ChoosingOf, OwnOf
  <2> QED
    BY <1>1, <2>1, SetsOf
<1>3. m \in Nat
  BY LenProperties
<1> HIDE DEF n, C, m
<1>4. /\ k \in Nat /\ Upto(C, n) = k /\ \A i \in Nat : Upto(C, i) \in Nat
      /\ \A i \in Nat \ {0} : Upto(C, i) = Upto(C, i - 1) + IF i \in C THEN 1 ELSE 0
      /\ \A i, j \in Nat : i <= j => Upto(C, i) <= Upto(C, j)
  BY <1>1, <1>2, UptoIs
<1> HIDE DEF k
<1>5. PICK h \in Nat : h = n - 1
  BY <1>1
<1>6. Upto(C, h) + 1 = k /\ k >= 1
  <2>1. Upto(C, n) = Upto(C, n - 1) + 1
    BY <1>1, <1>2, <1>4
  <2>2. Upto(C, h) \in Nat
    BY <1>4
  <2> QED
    BY <1>4, <1>5, <2>1, <2>2
<1>7. k <= m /\ (Oneofs(L[1].type) # {} => k = m)
      /\ \A i \in C : seen[m - k + Upto(C, i)] \in OneofState(L[i].type)
  BY DEF OneofsOK, m, C, k
<1>8. m - k + k = m /\ m \in Nat \ {0}
  BY <1>3, <1>4, <1>6, <1>7
<1>9. seen # <<>> /\ Last(seen) \in OneofState(L[n].type)
  <2>1. seen # <<>>
    BY <1>8 DEF m
  <2>2. Last(seen) = seen[m]
    BY DEF Last, m
  <2>3. seen[m] \in OneofState(L[n].type)
    BY <1>2, <1>4, <1>7, <1>8
  <2> QED
    BY <2>1, <2>2, <2>3
<1>10. ASSUME NEW e \in OneofState(L[n].type)
       PROVE  SetLast(seen, e) \in Seq(OneofStates) /\ OneofsOK(L, SetLast(seen, e))
  <2>1. e \in OneofStates
    BY <1>1 DEF OneofStates
  <2> DEFINE new == SetLast(seen, e)
  <2>2. /\ new \in Seq(OneofStates) /\ Len(new) = m /\ \A i \in 1..(m - 1) : new[i] = seen[i]
        /\ new[m] = e
    BY <1>9, <2>1, SetLastIs DEF m
  <2> HIDE DEF new
  <2>3. ASSUME NEW i \in C PROVE new[m - k + Upto(C, i)] \in OneofState(L[i].type)
    <3>1. CASE i = n
      BY <1>4, <1>8, <2>2, <3>1
    <3>2. CASE i # n
      <4>1. i \in Nat \ {0} /\ i <= h
        BY <1>1, <1>2, <1>5, <3>2
      <4>2. Upto(C, i) <= Upto(C, h)
        BY <1>4, <4>1
      <4>3. PICK y \in Nat : i = y + 1
        BY <4>1
      <4>4. Upto(C, i) = Upto(C, y) + 1 /\ Upto(C, y) \in Nat
        <5>1. Upto(C, i) = Upto(C, i - 1) + 1
          BY <1>4, <4>1
        <5>2. i - 1 = y
          BY <4>3
        <5> QED
          BY <1>4, <5>1, <5>2
      <4>5. m - k + Upto(C, i) \in 1..(m - 1)
        <5>1. PICK x \in Nat, y0 \in Nat, z \in Nat : x = Upto(C, i) /\ y0 = Upto(C, y) /\ z = Upto(C, h)
          <6>1. Upto(C, i) \in Nat /\ Upto(C, y) \in Nat /\ Upto(C, h) \in Nat
            BY <1>4, <4>1
          <6> QED
            BY <6>1
        <5>2. x <= z /\ x = y0 + 1 /\ z + 1 = k /\ k <= m
          BY <1>6, <1>7, <4>2, <4>4, <5>1
        <5>3. m - k + x \in 1..(m - 1)
          BY <1>3, <5>2
        <5> QED
          BY <5>1, <5>3
      <4> QED
        BY <1>7, <2>2, <4>5
    <3> QED
      BY <3>1, <3>2
  <2>4. OneofsOK(L, new)
    BY <1>7, <2>2, <2>3 DEF OneofsOK, C, k
  <2> QED
    BY <2>2, <2>4 DEF new
<1> QED
  BY <1>9, <1>10 DEF n

\* The mapper on top is that of the top message, or of the entries of the open map.
LEMMA MapperIs ==
    ASSUME NEW L, NEW tok, LevelsOK(L, tok), NEW c, c.mappers \in Seq(Messages), c.mappers # <<>>,
           MappersOK(L, c)
    PROVE  /\ OpenMap(L[Len(L)]) =>
                 /\ Mapper(c) = Schema[L[Len(L)].type][L[Len(L)].field].message
                 /\ Mapper(c) \in Entries
           /\ ~OpenMap(L[Len(L)]) => Mapper(c) = L[Len(L)].type
           /\ Mapper(c) \in Messages /\ L[Len(L)].type \in Messages
           /\ L[Len(L)].field \in Nat
           /\ RootOf(c) = L[1].type
<1>1. /\ Len(L) \in Nat \ {0} /\ Len(L) \in DOMAIN L /\ 1 \in DOMAIN L /\ L \in Seq(Levels)
      /\ L[Len(L)].type \in Messages /\ L[Len(L)].field \in Nat
  BY LevelIs, LevelsAre
<1>2. CASE OpenMap(L[Len(L)])
  <2>1. Len(c.mappers) = Len(L) + 1
    BY <1>2 DEF MappersOK
  <2>2. Mapper(c) = c.mappers[Len(L) + 1]
    BY <2>1 DEF Mapper, Last
  <2>3. Mapper(c) = Schema[L[Len(L)].type][L[Len(L)].field].message
    BY <1>2, <2>2 DEF MappersOK
  <2>4. Mapper(c) \in Entries
    BY <1>1, <1>2, <2>3, LevelIs
  <2> QED
    BY <1>1, <1>2, <2>3, <2>4, MapsAssumption DEF MappersOK, RootOf, Head
<1>3. CASE ~OpenMap(L[Len(L)])
  <2>1. Len(c.mappers) = Len(L)
    BY <1>1, <1>3 DEF MappersOK
  <2>2. Mapper(c) = L[Len(L)].type
    BY <1>1, <2>1 DEF Mapper, Last, MappersOK
  <2> QED
    BY <1>1, <1>3, <2>2 DEF MappersOK, RootOf, Head
<1> QED
  BY <1>2, <1>3

\* What marks fields as seen has an entry of its own, or borrows that of the holder of the map.
LEMMA TrackIs ==
    ASSUME NEW L, NEW tok, LevelsOK(L, tok), NEW c, c.mappers \in Seq(Messages), c.mappers # <<>>,
           MappersOK(L, c), c.seenFields \in Seq(SUBSET Nat), FieldsOK(L, c.seenFields), c.track
    PROVE  /\ c.seenFields # <<>> /\ Last(c.seenFields) \in SUBSET Nat
           /\ \A s \in SUBSET Nat : /\ SetLast(c.seenFields, s) \in Seq(SUBSET Nat)
                                    /\ Len(SetLast(c.seenFields, s)) = Len(c.seenFields)
<1>1. TracksSeen(Mapper(c))
  BY DEF MappersOK
<1>2. /\ Len(L) \in Nat \ {0} /\ L \in Seq(Levels) /\ DOMAIN L = 1..Len(L) /\ Len(L) \in DOMAIN L
      /\ \A i \in DOMAIN L : L[i].type \in Messages
  BY LevelIs, LevelsAre
<1>3. \E i \in DOMAIN L : i \in TrackingOf(L)
  <2>1. CASE Free(L)
    <3>1. PICK i \in DOMAIN L : i = MapLevel(L) /\ i \in MapsOf(L) /\ i \in OwnOf(L)
      BY <2>1, FreeIs
    <3>2. PICK m \in Messages : m = L[i].type
      BY <1>2
    <3>3. OpenMap(L[i]) /\ L[i].field \in FieldsOf(m) /\ Traits[m][L[i].field].map
      <4>1. OpenMap(L[i])
        BY <3>1 DEF MapsOf
      <4> QED
        BY <4>1, <3>2, LevelIs DEF Entered, OpenMap
    <3>4. Mapper(c) = Schema[m][L[i].field].message
      <4>1. CASE OpenMap(L[Len(L)])
        BY <2>1, <3>1, <3>2, <4>1, FreeIs, MapperIs
      <4>2. CASE ~OpenMap(L[Len(L)])
        BY <2>1, <3>1, <3>2, <4>2, FreeIs, MapperIs DEF Free
      <4> QED
        BY <4>1, <4>2
    <3>5. Mapper(c) \in Entries
      BY <3>2, <3>3, <3>4, TraitsAssumption
    <3>6. Required(Mapper(c)) = {}
      BY <3>5, EntriesAssumption, MapsAssumption DEF Required
    <3>7. Explicit[Mapper(c)]
      BY <1>1, <3>6 DEF TracksSeen, CheckRequired
    <3>8. Explicit[m]
      BY <3>2, <3>3, <3>4, <3>7, OptionsAssumption
    <3> QED
      BY <3>1, <3>2, <3>8 DEF TrackingOf, TracksSeen
  <2>2. CASE ~Free(L)
    <3>1. Mapper(c) = L[Len(L)].type /\ ~InEntry(L[Len(L)])
      BY <2>2, MapperIs DEF Free
    <3> QED
      BY <1>1, <1>2, <3>1 DEF TrackingOf, OwnOf
  <2> QED
    BY <2>1, <2>2
<1>4. Len(c.seenFields) \in Nat \ {0}
  <2>1. TrackingOf(L) \in SUBSET (1..Len(L))
    BY <1>2, SetsOf
  <2>2. IsFiniteSet(TrackingOf(L))
    <3>1. IsFiniteSet(1..Len(L))
      BY <1>2, FS_Interval
    <3> QED
      BY <2>1, <3>1, FS_Subset
  <2>3. TrackingOf(L) # {}
    BY <1>3
  <2>4. Cardinality(TrackingOf(L)) \in Nat /\ Cardinality(TrackingOf(L)) # 0
    BY <2>2, <2>3, FS_CardinalityType, FS_EmptySet
  <2>5. Len(c.seenFields) \in Nat
    BY LenProperties
  <2> QED
    BY <2>4, <2>5 DEF FieldsOK
<1>5. c.seenFields # <<>>
  BY <1>4
<1>6. Last(c.seenFields) \in SUBSET Nat
  BY <1>5, FrontOf
<1>7. ASSUME NEW s \in SUBSET Nat
      PROVE  /\ SetLast(c.seenFields, s) \in Seq(SUBSET Nat)
             /\ Len(SetLast(c.seenFields, s)) = Len(c.seenFields)
  <2> DEFINE N == SUBSET Nat
  <2>1. c.seenFields \in Seq(N) /\ s \in N
    OBVIOUS
  <2> HIDE DEF N
  <2>2. /\ SetLast(c.seenFields, s) \in Seq(N)
        /\ Len(SetLast(c.seenFields, s)) = Len(c.seenFields)
    BY <1>5, <2>1, SetLastIs
  <2> QED
    BY <2>2 DEF N
<1> QED
  BY <1>5, <1>6, <1>7

----------------------------------------------------------------------------
(* The invariant: the stacks agree with the levels.                               *)

Stacks(L, c) == MappersOK(L, c) /\ SeenOK(L, c) /\ ItemsOK(L, c.items, c.tree)
Sane(c) == IsCxt(c) /\ TreeOK(c.tree)
Run(L, tok, c) == LevelsOK(L, tok) /\ Stacks(L, c) /\ PendingOK(L, tok, c)

\* Levels that push the same agree with the same stacks.
LEMMA StacksAlike ==
    ASSUME NEW L, NEW tok, LevelsOK(L, tok), NEW M, NEW tok2, LevelsOK(M, tok2),
           Len(M) = Len(L), \A i \in DOMAIN L : Alike(L[i], M[i]), NEW c, Stacks(L, c)
    PROVE  Stacks(M, c)
<1>1. ItemsOK(M, c.items, c.tree)
  BY ItemsAlike DEF Stacks
<1>2. SeenOK(M, c)
  BY SeenAlike DEF Stacks
<1>3. DOMAIN M = DOMAIN L /\ Len(L) \in DOMAIN L
  BY LevelIs
<1>4. MappersOK(M, c)
  <2>1. \A i \in DOMAIN L : /\ M[i].type = L[i].type /\ (OpenMap(M[i]) <=> OpenMap(L[i]))
                            /\ OpenMap(L[i]) => M[i].field = L[i].field
    BY DEF Alike
  <2>2. MappersOK(L, c)
    BY DEF Stacks
  <2>3. Len(c.mappers) = Len(M) + IF OpenMap(M[Len(M)]) THEN 1 ELSE 0
    BY <1>3, <2>1, <2>2 DEF MappersOK
  <2>4. \A i \in DOMAIN M : c.mappers[i] = M[i].type
    BY <1>3, <2>1, <2>2 DEF MappersOK
  <2>5. OpenMap(M[Len(M)]) =>
            c.mappers[Len(M) + 1] = Schema[M[Len(M)].type][M[Len(M)].field].message
    BY <1>3, <2>1, <2>2 DEF MappersOK
  <2> QED
    BY <2>2, <2>3, <2>4, <2>5 DEF MappersOK
<1> QED
  BY <1>1, <1>2, <1>4 DEF Stacks

\* The oneofs of the message the handlers are at.
LEMMA OneofsHere ==
    ASSUME NEW L, NEW tok, LevelsOK(L, tok), NEW c, IsCxt(c), Stacks(L, c), ~OpenMap(L[Len(L)]),
           Oneofs(L[Len(L)].type) # {}
    PROVE  ~InEntry(L[Len(L)]) /\ Last(c.seenOneof) \in OneofState(L[Len(L)].type)
<1>1. ~InEntry(L[Len(L)])
  <2>1. SUFFICES ASSUME InEntry(L[Len(L)]) PROVE Oneofs(L[Len(L)].type) = {}
    OBVIOUS
  <2>2. \A f \in FieldsOf(L[Len(L)].type) : Traits[L[Len(L)].type][f].oneof = NoOneof
    BY <2>1, EntriesAssumption DEF InEntry
  <2> QED
    BY <2>2 DEF Oneofs
<1>2. c.seenOneof \in Seq(OneofStates) /\ OneofsOK(L, c.seenOneof)
  BY DEF IsCxt, Stacks, SeenOK
<1> QED
  BY <1>1, <1>2, OneofsTop

\* The field of a token is one get_target can be asked for;
LEMMA StoringField ==
    ASSUME NEW L, LevelsOK(L, "FIELD"), NEW c, Sane(c), Stacks(L, c), ~OpenMap(L[Len(L)]),
           InEntry(L[Len(L)]) => L[Len(L)].field = ValueField
    PROVE  Storing(L, c, L[Len(L)].field)
<1>1. Entered(L[Len(L)])
  BY DEF LevelsOK
<1>2. Mapper(c) = L[Len(L)].type
  BY MapperIs DEF Sane, IsCxt, Stacks
<1>3. Oneofs(L[Len(L)].type) # {} => Last(c.seenOneof) \in OneofState(L[Len(L)].type)
  BY OneofsHere DEF Sane
<1>4. Schema[L[Len(L)].type][L[Len(L)].field].repeated <=> OpenList(L[Len(L)])
  BY <1>1 DEF Entered, OpenList, OpenMap
<1> QED
  BY <1>1, <1>2, <1>3, <1>4 DEF Storing, Stacks, Sane, IsCxt, ItemSeq, Entered

\* so is the value of an entry.
LEMMA StoringValue ==
    ASSUME NEW L, NEW tok, LevelsOK(L, tok), NEW c, Sane(c), Stacks(L, c), InEntry(L[Len(L)])
    PROVE  Storing(L, c, ValueField)
<1>1. ~OpenMap(L[Len(L)]) /\ ~OpenList(L[Len(L)])
  BY LevelIs
<1>2. Mapper(c) = L[Len(L)].type
  BY <1>1, MapperIs DEF Sane, IsCxt, Stacks
<1>3. Oneofs(L[Len(L)].type) # {} => Last(c.seenOneof) \in OneofState(L[Len(L)].type)
  BY <1>1, OneofsHere DEF Sane
<1>4. ValueField \in FieldsOf(L[Len(L)].type)
  BY EntriesAssumption DEF InEntry
<1> QED
  BY <1>1, <1>2, <1>3, <1>4 DEF Storing, Stacks, Sane, IsCxt, ItemSeq

\* get_target keeps the stack of the oneofs,
LEMMA TargetOneofIs ==
    ASSUME NEW L, NEW tok, LevelsOK(L, tok), NEW c, IsCxt(c), Stacks(L, c), NEW f, Storing(L, c, f)
    PROVE  TargetOneof(c, f) \in Seq(OneofStates) /\ OneofsOK(L, TargetOneof(c, f))
<1> DEFINE m == L[Len(L)].type
           s == Last(c.seenOneof)
<1>0. c.seenOneof \in Seq(OneofStates) /\ OneofsOK(L, c.seenOneof)
  BY DEF IsCxt, Stacks, SeenOK
<1>1. CASE ~Member(c, f)
  BY <1>0, <1>1 DEF TargetOneof
<1>2. CASE Member(c, f)
  <2>1. Mapper(c) = m /\ f \in FieldsOf(m) /\ ~OpenMap(L[Len(L)])
    BY DEF Storing
  <2>2. PICK o : o = OneofOf(c, f) /\ o = Traits[m][f].oneof /\ o # NoOneof
    BY <1>2, <2>1 DEF OneofOf, Member
  <2>3. o \in Oneofs(m)
    BY <2>1, <2>2 DEF Oneofs
  <2>4. ~InEntry(L[Len(L)]) /\ s \in OneofState(m)
    BY <2>1, <2>3, OneofsHere
  <2> HIDE DEF m, s
  <2>5. s \in [Oneofs(m) -> {NoField} \cup FieldsOf(m)]
        /\ \A x \in Oneofs(m) : s[x] = NoField \/ Traits[m][s[x]].oneof = x
    BY <2>4 DEF OneofState
  <2>6. [s EXCEPT ![o] = f] \in [Oneofs(m) -> {NoField} \cup FieldsOf(m)]
    BY <2>1, <2>5
  <2>7. \A x \in Oneofs(m) : \/ [s EXCEPT ![o] = f][x] = NoField
                             \/ Traits[m][[s EXCEPT ![o] = f][x]].oneof = x
    BY <2>2, <2>5
  <2>8. [s EXCEPT ![o] = f] \in OneofState(m)
    BY <2>6, <2>7 DEF OneofState
  <2>9. TargetOneof(c, f) = SetLast(c.seenOneof, [s EXCEPT ![o] = f])
    BY <1>2, <2>2 DEF TargetOneof, s
  <2>10. Oneofs(L[Len(L)].type) # {}
    BY <2>3 DEF m
  <2> QED
    BY <1>0, <2>4, <2>8, <2>9, <2>10, OneofsTop DEF m
<1> QED
  BY <1>1, <1>2

\* and mark_seen keeps the one of the fields.
LEMMA MarkedIs ==
    ASSUME NEW L, NEW tok, LevelsOK(L, tok), NEW c, IsCxt(c), Stacks(L, c), NEW f \in Nat
    PROVE  Marked(c, f) \in Seq(SUBSET Nat) /\ Len(Marked(c, f)) = Len(c.seenFields)
<1>1. CASE ~c.track
  BY <1>1 DEF Marked, IsCxt
<1>2. CASE c.track
  <2>1. /\ Last(c.seenFields) \in SUBSET Nat
        /\ \A s \in SUBSET Nat : /\ SetLast(c.seenFields, s) \in Seq(SUBSET Nat)
                                 /\ Len(SetLast(c.seenFields, s)) = Len(c.seenFields)
    BY <1>2, TrackIs DEF IsCxt, Stacks, SeenOK
  <2>2. Last(c.seenFields) \cup {f} \in SUBSET Nat
    BY <2>1
  <2> QED
    BY <1>2, <2>1, <2>2 DEF Marked
<1> QED
  BY <1>1, <1>2

\* A context with the same mappers, and stacks of the same height.
LEMMA StoreStacks ==
    ASSUME NEW L, NEW tok, LevelsOK(L, tok), NEW c, Sane(c), Stacks(L, c), NEW f, Storing(L, c, f),
           NEW node \in Nodes, Fits(node, Schema[L[Len(L)].type][f].message),
           NEW seen \in Seq(SUBSET Nat), Len(seen) = Len(c.seenFields),
           NEW keys \in Seq([key: Keys] \cup {NoKey}), Len(keys) = Len(c.mapKeys),
           NEW d, d = Object(c.mappers, TargetItems(c, f), keys, seen, TargetOneof(c, f), c.track,
                             Put(TargetTree(c, f), TargetPath(c, f), node), c.missing, c.crashed)
    PROVE  Sane(d) /\ Stacks(L, d)
<1>1. /\ IsObject(d) /\ d.mappers = c.mappers /\ d.items = TargetItems(c, f) /\ d.mapKeys = keys
      /\ d.seenFields = seen /\ d.seenOneof = TargetOneof(c, f) /\ d.track = c.track
      /\ d.tree = Put(TargetTree(c, f), TargetPath(c, f), node) /\ d.missing = c.missing
      /\ d.crashed = c.crashed
  BY DEF IsObject, Object
<1>2. d.items \in ItemSeq /\ TreeOK(d.tree) /\ ItemsOK(L, d.items, d.tree)
  BY <1>1, Store
<1>3. d.seenOneof \in Seq(OneofStates) /\ OneofsOK(L, d.seenOneof)
  BY <1>1, TargetOneofIs DEF Sane
<1>4. Sane(d)
  BY <1>1, <1>2, <1>3 DEF Sane, IsCxt, ItemSeq
<1>5. MappersOK(L, d)
  BY <1>1 DEF Stacks, MappersOK, Mapper
<1>6. SeenOK(L, d)
  BY <1>1, <1>3 DEF Stacks, SeenOK, FieldsOK
<1> QED
  BY <1>2, <1>4, <1>5, <1>6 DEF Stacks

----------------------------------------------------------------------------
(* The tokens: what they make of the levels.                                      *)

\* A top that pushes the same makes levels that push the same.
LEMMA AlikeTop ==
    ASSUME NEW L, NEW tok, LevelsOK(L, tok), NEW v \in Levels, Alike(L[Len(L)], v)
    PROVE  /\ Len(SetTop(L, v)) = Len(L)
           /\ \A i \in DOMAIN L : Alike(L[i], SetTop(L, v)[i])
           /\ SetTop(L, v)[Len(L)] = v
<1>1. /\ Len(SetTop(L, v)) = Len(L) /\ DOMAIN L = 1..Len(L) /\ Len(L) \in Nat
      /\ \A i \in 1..(Len(L) - 1) : SetTop(L, v)[i] = L[i]
      /\ SetTop(L, v)[Len(L)] = v
  BY SetTopIs DEF LevelsOK
<1>2. \A i \in DOMAIN L : Alike(L[i], L[i])
  BY DEF Alike
<1>3. ASSUME NEW i \in DOMAIN L PROVE Alike(L[i], SetTop(L, v)[i])
  <2>1. CASE i = Len(L)
    BY <1>1, <2>1
  <2>2. CASE i # Len(L)
    <3>1. i \in 1..(Len(L) - 1)
      BY <1>1, <2>2
    <3> QED
      BY <1>1, <1>2, <3>1
  <2> QED
    BY <2>1, <2>2
<1> QED
  BY <1>1, <1>3

\* What every token does to the levels: a field,
LEMMA FieldLevels ==
    ASSUME LevelsOK(levels, token), Tok!Field
    PROVE  /\ LevelsOK(levels', "FIELD") /\ token' = "FIELD"
           /\ Len(levels') = Len(levels) /\ \A i \in DOMAIN levels : Alike(levels[i], levels'[i])
<1> DEFINE n == Len(levels)
           top == levels[n]
<1>1. /\ n \in Nat \ {0} /\ levels \in Seq(Levels) /\ n \in DOMAIN levels
      /\ top.type \in Messages /\ top.field \in Nat /\ top.seq \in {"none", "empty", "open"}
      /\ top.seq # "none" => Entered(top)
  BY LevelIs, LevelsAre DEF LevelsOK
<1>2. token' = "FIELD"
  BY DEF Tok!Field
<1>3. PICK v \in Levels : levels' = SetTop(levels, v) /\ Entered(v) /\ Alike(top, v)
  <2>1. ASSUME top.seq = "none", NEW f \in FieldsOf(top.type), ~Schema[top.type][f].repeated,
               levels' = [levels EXCEPT ![n] = Tok!Level(top.type, f, "none")]
        PROVE  \E v \in Levels : levels' = SetTop(levels, v) /\ Entered(v) /\ Alike(top, v)
    <3>1. f \in Nat
      BY <1>1, SchemaAssumption
    <3>2. Tok!Level(top.type, f, "none") \in Levels
      BY <1>1, <3>1 DEF Tok!Level, Levels
    <3>3. levels' = SetTop(levels, Tok!Level(top.type, f, "none"))
      BY <2>1 DEF SetTop, SetLast
    <3>4. Entered(Tok!Level(top.type, f, "none"))
      BY <2>1 DEF Entered, Tok!Level
    <3>5. Alike(top, Tok!Level(top.type, f, "none"))
      BY <2>1 DEF Alike, OpenMap, OpenList, Tok!Level
    <3> QED
      BY <3>2, <3>3, <3>4, <3>5
  <2>2. ASSUME top.seq # "none",
               levels' = [levels EXCEPT ![n] = Tok!Level(top.type, top.field, "open")]
        PROVE  \E v \in Levels : levels' = SetTop(levels, v) /\ Entered(v) /\ Alike(top, v)
    <3>2. Tok!Level(top.type, top.field, "open") \in Levels
      BY <1>1 DEF Tok!Level, Levels
    <3>3. levels' = SetTop(levels, Tok!Level(top.type, top.field, "open"))
      BY <2>2 DEF SetTop, SetLast
    <3>4. Entered(Tok!Level(top.type, top.field, "open"))
      BY <1>1, <2>2 DEF Entered, Tok!Level
    <3>5. Alike(top, Tok!Level(top.type, top.field, "open"))
      BY <2>2 DEF Alike, OpenMap, OpenList, Tok!Level
    <3> QED
      BY <3>2, <3>3, <3>4, <3>5
  <2> QED
    BY <2>1, <2>2 DEF Tok!Field, Tok!Top, Tok!InTop, Tok!FieldsOf, FieldsOf
<1>4. v.type = top.type
  BY <1>3 DEF Alike
<1>5. LevelsOK(levels', "FIELD")
  BY <1>3, <1>4, SetTopLevels
<1>6. Len(levels') = Len(levels) /\ \A i \in DOMAIN levels : Alike(levels[i], levels'[i])
  BY <1>3, AlikeTop
<1> QED
  BY <1>2, <1>5, <1>6

\* one that is not known,
LEMMA UnknownLevels ==
    ASSUME LevelsOK(levels, token), Tok!UnknownField
    PROVE  /\ LevelsOK(levels', "UNKNOWN_FIELD") /\ token' = "UNKNOWN_FIELD"
           /\ Len(levels') = Len(levels) /\ \A i \in DOMAIN levels : Alike(levels[i], levels'[i])
           /\ levels'[Len(levels')].seq = "none"
<1> DEFINE n == Len(levels)
           top == levels[n]
<1>1. /\ n \in Nat \ {0} /\ levels \in Seq(Levels) /\ n \in DOMAIN levels
      /\ top.type \in Messages
  BY LevelIs, LevelsAre DEF LevelsOK
<1>2. PICK f \in FieldsOf(top.type) \cup {NoField} :
          /\ token' = "UNKNOWN_FIELD" /\ top.seq = "none"
          /\ levels' = [levels EXCEPT ![n] = Tok!Level(top.type, f, "none")]
  BY DEF Tok!UnknownField, Tok!Top, Tok!InTop, Tok!FieldsOf, FieldsOf, Tok!NoField, NoField
<1>3. f \in Nat
  BY <1>1, SchemaAssumption DEF NoField
<1>4. PICK v \in Levels : v = Tok!Level(top.type, f, "none")
  BY <1>1, <1>3 DEF Tok!Level, Levels
<1>5. v.type = top.type /\ v.seq = "none"
  BY <1>4 DEF Tok!Level
<1>6. Alike(top, v)
  BY <1>2, <1>5 DEF Alike, OpenMap, OpenList
<1>7. levels' = SetTop(levels, v)
  BY <1>2, <1>4 DEF SetTop, SetLast
<1>8. LevelsOK(levels', "UNKNOWN_FIELD")
  BY <1>5, <1>7, SetTopLevels
<1>9. /\ Len(levels') = Len(levels) /\ \A i \in DOMAIN levels : Alike(levels[i], levels'[i])
      /\ levels'[Len(levels)] = v
  BY <1>6, <1>7, AlikeTop
<1> QED
  BY <1>2, <1>5, <1>8, <1>9

\* the start of a repeated field
LEMMA StartLevels ==
    ASSUME LevelsOK(levels, token), Tok!StartSequence
    PROVE  /\ LevelsOK(levels', "START_SEQUENCE") /\ token' = "START_SEQUENCE"
           /\ Opened(levels, levels') /\ Len(levels') = Len(levels)
           /\ Entered(levels'[Len(levels')])
<1> DEFINE n == Len(levels)
           top == levels[n]
<1>1. /\ n \in Nat \ {0} /\ levels \in Seq(Levels) /\ n \in DOMAIN levels
      /\ top.type \in Messages /\ top \in Levels
  BY LevelIs, LevelsAre DEF LevelsOK
<1>2. PICK f \in FieldsOf(top.type) :
          /\ token' = "START_SEQUENCE" /\ top.seq = "none" /\ Schema[top.type][f].repeated
          /\ levels' = [levels EXCEPT ![n] = Tok!Level(top.type, f, "empty")]
  BY DEF Tok!StartSequence, Tok!Top, Tok!InTop, Tok!FieldsOf, FieldsOf
<1>3. f \in Nat
  BY <1>1, SchemaAssumption DEF NoField
<1>4. PICK v \in Levels : v = Tok!Level(top.type, f, "empty")
  BY <1>1, <1>3 DEF Tok!Level, Levels
<1>5. v.type = top.type /\ v.seq = "empty" /\ v.field = f
  BY <1>4 DEF Tok!Level
<1>6. Entered(v)
  BY <1>2, <1>5 DEF Entered
<1>7. levels' = SetTop(levels, v)
  BY <1>2, <1>4 DEF SetTop, SetLast
<1>8. LevelsOK(levels', "START_SEQUENCE")
  BY <1>5, <1>6, <1>7, SetTopLevels
<1>9. /\ Len(levels') = n /\ \A i \in 1..(n - 1) : levels'[i] = levels[i]
      /\ levels'[n] = v
  BY <1>1, <1>7, SetTopIs DEF LevelsOK
<1>10. ~InEntry(v) /\ (OpenMap(v) \/ OpenList(v))
  BY <1>5, <1>6, OpenIs
<1>11. ~OpenMap(top) /\ ~OpenList(top)
  BY <1>2 DEF OpenMap, OpenList
<1>12. ~InEntry(top)
  BY <1>5, <1>10 DEF InEntry
<1>13. Opened(levels, levels')
  <2>1. levels'[n].type = top.type
    BY <1>5, <1>9
  <2> HIDE DEF n
  <2> QED
    BY <1>9, <1>10, <1>11, <1>12, <2>1 DEF Opened, n
<1> QED
  BY <1>2, <1>6, <1>8, <1>9, <1>13

\* and its end,
LEMMA EndLevels ==
    ASSUME LevelsOK(levels, token), Tok!EndSequence
    PROVE  /\ LevelsOK(levels', "END_SEQUENCE") /\ token' = "END_SEQUENCE"
           /\ Opened(levels', levels) /\ Len(levels') = Len(levels)
           /\ ~(token = "FIELD" /\ OpenMap(levels[Len(levels)]))
<1> DEFINE n == Len(levels)
           top == levels[n]
<1>1. /\ n \in Nat \ {0} /\ levels \in Seq(Levels) /\ n \in DOMAIN levels
      /\ top.type \in Messages /\ top.field \in Nat /\ top \in Levels
      /\ top.seq # "none" => Entered(top)
  BY LevelIs, LevelsAre DEF LevelsOK
<1>2. /\ token' = "END_SEQUENCE" /\ top.seq = "open" /\ Tok!Asked
      /\ levels' = [levels EXCEPT ![n] = Tok!Level(top.type, top.field, "none")]
  BY DEF Tok!EndSequence, Tok!Top, Tok!InTop
<1>3. PICK v \in Levels : v = Tok!Level(top.type, top.field, "none")
  BY <1>1 DEF Tok!Level, Levels
<1>4. v.type = top.type /\ v.seq = "none"
  BY <1>3 DEF Tok!Level
<1>5. levels' = SetTop(levels, v)
  BY <1>2, <1>3 DEF SetTop, SetLast
<1>6. LevelsOK(levels', "END_SEQUENCE")
  BY <1>4, <1>5, SetTopLevels
<1>7. /\ Len(levels') = n /\ \A i \in 1..(n - 1) : levels'[i] = levels[i]
      /\ levels'[n] = v
  BY <1>1, <1>5, SetTopIs DEF LevelsOK
<1>8. ~InEntry(top) /\ (OpenMap(top) \/ OpenList(top))
  BY <1>1, <1>2, OpenIs
<1>9. ~OpenMap(v) /\ ~OpenList(v) /\ ~InEntry(v)
  BY <1>4, <1>8 DEF OpenMap, OpenList, InEntry
<1>10. Opened(levels', levels)
  <2>1. levels'[n].type = top.type
    BY <1>4, <1>7
  <2> HIDE DEF n
  <2> QED
    BY <1>7, <1>8, <1>9, <2>1 DEF Opened, n
<1>11. ASSUME token = "FIELD", OpenMap(top) PROVE FALSE
  <2>1. Schema[top.type][top.field].message = NoMessage
    BY <1>2, <1>11 DEF Tok!Asked, Tok!EntersMessage, Tok!Top
  <2>2. Schema[top.type][top.field].message \in Entries
    BY <1>1, <1>2, <1>11, OpenIs
  <2> QED
    BY <2>1, <2>2, MapsAssumption, RootAssumption
<1> QED
  BY <1>2, <1>6, <1>7, <1>10, <1>11

\* the end of a message,
LEMMA EndOfMessageLevels ==
    ASSUME LevelsOK(levels, token), Tok!EndOfMessage
    PROVE  /\ LevelsOK(levels, "END_MESSAGE") /\ token' = "END_MESSAGE" /\ levels' = levels
           /\ ~OpenMap(levels[Len(levels)]) /\ ~OpenList(levels[Len(levels)])
<1>1. levels[Len(levels)].seq = "none" /\ token' = "END_MESSAGE" /\ levels' = levels
  BY DEF Tok!EndOfMessage, Tok!Top
<1>2. LevelsOK(levels, "END_MESSAGE")
  BY <1>1 DEF LevelsOK
<1> QED
  BY <1>1, <1>2 DEF OpenMap, OpenList

\* start_message
LEMMA EnterLevels ==
    ASSUME LevelsOK(levels, token), Tok!StartMessage
    PROVE  /\ LevelsOK(levels', "none") /\ token' = "none" /\ Deeper(levels, levels')
           /\ LevelsOK(levels, "FIELD")
           /\ LET m == Schema[levels[Len(levels)].type][levels[Len(levels)].field].message
              IN  levels'[Len(levels')].type = m /\ m \in Messages
           /\ InEntry(levels'[Len(levels')]) => OpenMap(levels[Len(levels)])
           /\ ~InEntry(levels'[Len(levels')]) => ~OpenMap(levels[Len(levels)])
<1> DEFINE n == Len(levels)
           top == levels[n]
           m == Schema[top.type][top.field].message
<1>1. /\ n \in Nat \ {0} /\ levels \in Seq(Levels) /\ n \in DOMAIN levels
      /\ top.type \in Messages /\ top \in Levels
  BY LevelIs, LevelsAre DEF LevelsOK
<1>2. /\ token = "FIELD" /\ m # NoMessage /\ token' = "none"
      /\ levels' = Append(levels, Tok!Level(m, NoField, "none"))
  BY DEF Tok!StartMessage, Tok!EntersMessage, Tok!Top, Tok!NoField, NoField
<1>3. LevelsOK(levels, "FIELD") /\ Entered(top)
  BY <1>2 DEF LevelsOK
<1>4. m \in Messages
  BY <1>1, <1>2, <1>3, SchemaAssumption DEF Entered
<1>5. PICK v \in Levels : v = Tok!Level(m, NoField, "none")
  BY <1>4 DEF Tok!Level, Levels, NoField
<1>6. v.type = m /\ v.seq = "none"
  BY <1>5 DEF Tok!Level
<1>7. levels' = Append(levels, v)
  BY <1>2, <1>5
<1>8. LevelsOK(levels', "none")
  <2>1. LevelsOK(Append(levels, v), "none")
    BY <1>3, <1>6, AppendLevels
  <2> QED
    BY <1>7, <2>1
<1>9. /\ Len(levels') = n + 1 /\ levels'[n + 1] = v
      /\ \A i \in 1..n : levels'[i] = levels[i]
  BY <1>1, <1>7, AppendOf
<1>10. ~OpenMap(v) /\ ~OpenList(v)
  BY <1>6 DEF OpenMap, OpenList
<1>11. Deeper(levels, levels')
  <2>1. ~OpenMap(levels'[Len(levels')]) /\ ~OpenList(levels'[Len(levels')])
    BY <1>9, <1>10
  <2> QED
    BY <1>9, <2>1 DEF Deeper
<1>12. InEntry(v) <=> OpenMap(top)
  BY <1>1, <1>3, <1>6, EntryIs DEF InEntry
<1>13. levels'[Len(levels')] = v
  BY <1>9
<1> QED
  BY <1>2, <1>3, <1>4, <1>6, <1>8, <1>11, <1>12, <1>13

\* and end_message.
LEMMA LeaveLevels ==
    ASSUME LevelsOK(levels, token), Tok!EndMessage
    PROVE  /\ LevelsOK(levels', "none") /\ token' = "none" /\ Deeper(levels', levels)
           /\ Len(levels) = Len(levels') + 1
           /\ ~OpenMap(levels[Len(levels)]) /\ ~OpenList(levels[Len(levels)])
           /\ InEntry(levels[Len(levels)]) <=> OpenMap(levels'[Len(levels')])
<1> DEFINE n == Len(levels)
           top == levels[n]
<1>1. n \in Nat \ {0} /\ levels \in Seq(Levels) /\ n \in DOMAIN levels
  BY LevelIs
<1>2. /\ token = "END_MESSAGE" /\ n > 1 /\ token' = "none" /\ levels' = Below(levels)
  BY DEF Tok!EndMessage, Below
<1>3. top.seq = "none"
  BY <1>2 DEF LevelsOK
<1>4. ~OpenMap(top) /\ ~OpenList(top)
  BY <1>3 DEF OpenMap, OpenList
<1>5. LevelsOK(levels', "none")
  BY <1>2, BelowLevels
<1>6. Len(levels') = n - 1 /\ \A i \in 1..(n - 1) : levels'[i] = levels[i]
  BY <1>1, <1>2, BelowIs
<1>7. PICK k \in Nat : k = n - 1 /\ k >= 1
  BY <1>1, <1>2
<1>8. Len(levels') = k /\ \A i \in 1..k : levels'[i] = levels[i]
  BY <1>6, <1>7
<1>9. n = k + 1
  BY <1>1, <1>7
<1>10. Deeper(levels', levels)
  BY <1>4, <1>8, <1>9 DEF Deeper
<1>11. InEntry(top) <=> OpenMap(levels[k])
  <2>1. k \in DOMAIN levels /\ k < n
    BY <1>1, <1>7, LevelIs
  <2> QED
    BY <1>9, <2>1, LevelIs
<1>12. levels'[k] = levels[k]
  BY <1>7, <1>8
<1> QED
  BY <1>2, <1>4, <1>5, <1>8, <1>9, <1>10, <1>11, <1>12

----------------------------------------------------------------------------
(* The callbacks for scalars.                                                     *)

\* If a map is open its key is on top, if it has come.
LEMMA KeysIs ==
    ASSUME NEW L, NEW tok, LevelsOK(L, tok), NEW c, IsCxt(c), Stacks(L, c), Free(L)
    PROVE  /\ c.mapKeys # <<>> /\ Last(c.mapKeys) \in [key: Keys] \cup {NoKey}
           /\ \A k \in [key: Keys] \cup {NoKey} :
                 /\ SetLast(c.mapKeys, k) \in Seq([key: Keys] \cup {NoKey})
                 /\ Len(SetLast(c.mapKeys, k)) = Len(c.mapKeys)
                 /\ Last(SetLast(c.mapKeys, k)) = k
<1> DEFINE S == [key: Keys] \cup {NoKey}
<1>1. c.mapKeys \in Seq(S)
  BY DEF IsCxt
<1>2. c.mapKeys # <<>>
  <2>1. MapLevel(L) \in MapsOf(L)
    BY FreeIs
  <2>2. Len(L) \in Nat /\ MapsOf(L) \in SUBSET (1..Len(L))
    BY SetsOf DEF LevelsOK
  <2>3. IsFiniteSet(MapsOf(L))
    <3>1. IsFiniteSet(1..Len(L))
      BY <2>2, FS_Interval
    <3> QED
      BY <2>2, <3>1, FS_Subset
  <2>4. Cardinality(MapsOf(L)) # 0
    BY <2>1, <2>3, FS_EmptySet
  <2>5. Len(c.mapKeys) = Cardinality(MapsOf(L))
    BY DEF Stacks, SeenOK
  <2> QED
    BY <2>4, <2>5
<1> HIDE DEF S
<1>3. ASSUME NEW k \in S
      PROVE  /\ SetLast(c.mapKeys, k) \in Seq(S) /\ Len(SetLast(c.mapKeys, k)) = Len(c.mapKeys)
             /\ Last(SetLast(c.mapKeys, k)) = k
  <2> DEFINE s == c.mapKeys
  <2>1. s \in Seq(S) /\ s # <<>> /\ k \in S
    BY <1>1, <1>2
  <2> HIDE DEF s
  <2>2. SetLast(s, k) \in Seq(S) /\ Len(SetLast(s, k)) = Len(s) /\ Last(SetLast(s, k)) = k
    BY <2>1, SetLastIs
  <2> QED
    BY <2>2 DEF s
<1>4. Last(c.mapKeys) \in S
  BY <1>1, <1>2, FrontOf
<1> QED
  BY <1>2, <1>3, <1>4 DEF S

\* What every callback does to the stacks: a scalar,
LEMMA ScalarStacks ==
    ASSUME NEW L, LevelsOK(L, "FIELD"), NEW c, Sane(c), Stacks(L, c), ~OpenMap(L[Len(L)]),
           NEW f, f = L[Len(L)].field, InEntry(L[Len(L)]) => f = ValueField,
           Schema[L[Len(L)].type][f].message = NoMessage
    PROVE  Sane(OnScalar(c, f)) /\ Stacks(L, OnScalar(c, f))
<1>1. Storing(L, c, f)
  BY StoringField
<1>2. f \in Nat
  BY LevelIs, LevelsAre
<1>3. Scalar \in Nodes /\ Fits(Scalar, NoMessage)
  BY DEF Scalar, Leaf, Nodes, Fits
<1>4. Marked(c, f) \in Seq(SUBSET Nat) /\ Len(Marked(c, f)) = Len(c.seenFields)
  BY <1>2, MarkedIs DEF Sane
<1>5. c.mapKeys \in Seq([key: Keys] \cup {NoKey}) /\ IsObject(c)
  BY DEF Sane, IsCxt
<1> DEFINE d == OnScalar(c, f)
<1>6. d = Object(c.mappers, TargetItems(c, f), c.mapKeys, Marked(c, f), TargetOneof(c, f), c.track,
                 Put(TargetTree(c, f), TargetPath(c, f), Scalar), c.missing, c.crashed)
  BY <1>5, OnScalarIs
<1> HIDE DEF d
<1>7. Sane(d) /\ Stacks(L, d)
  BY <1>1, <1>3, <1>4, <1>5, <1>6, StoreStacks
<1> QED
  BY <1>7 DEF d

\* A context that differs in the keys, the seen fields and the crash only.
LEMMA SameItems ==
    ASSUME NEW L, NEW c, Sane(c), Stacks(L, c),
           NEW seen \in Seq(SUBSET Nat), Len(seen) = Len(c.seenFields),
           NEW keys \in Seq([key: Keys] \cup {NoKey}), Len(keys) = Len(c.mapKeys),
           NEW missing \in Nat, NEW crashed \in BOOLEAN,
           NEW d, d = Object(c.mappers, c.items, keys, seen, c.seenOneof, c.track, c.tree,
                             missing, crashed)
    PROVE  Sane(d) /\ Stacks(L, d)
<1>1. /\ IsObject(d) /\ d.mappers = c.mappers /\ d.items = c.items /\ d.mapKeys = keys
      /\ d.seenFields = seen /\ d.seenOneof = c.seenOneof /\ d.track = c.track
      /\ d.tree = c.tree /\ d.missing = missing /\ d.crashed = crashed
  BY DEF IsObject, Object
<1>2. Sane(d)
  BY <1>1 DEF Sane, IsCxt
<1>3. MappersOK(L, d)
  BY <1>1 DEF Stacks, MappersOK, Mapper
<1>4. SeenOK(L, d)
  BY <1>1 DEF Stacks, SeenOK, FieldsOK
<1> QED
  BY <1>1, <1>2, <1>3, <1>4 DEF Stacks

\* the key of an entry,
LEMMA KeyStacks ==
    ASSUME NEW L, NEW tok, LevelsOK(L, tok), NEW c, Sane(c), Stacks(L, c), InEntry(L[Len(L)]),
           NEW k \in Keys
    PROVE  Sane(OnKey(c, k)) /\ Stacks(L, OnKey(c, k))
<1> DEFINE keys == SetLast(c.mapKeys, [key |-> k])
           seen == IF Traits[Mapper(c)][KeyField].string THEN c.seenFields ELSE Marked(c, KeyField)
           d == OnKey(c, k)
<1>1. IsCxt(c) /\ IsObject(c) /\ c.missing \in Nat /\ c.crashed \in BOOLEAN
  BY DEF Sane, IsCxt
<1>2. Free(L)
  BY DEF Free
<1>3. [key |-> k] \in [key: Keys] \cup {NoKey}
  OBVIOUS
<1>4. keys \in Seq([key: Keys] \cup {NoKey}) /\ Len(keys) = Len(c.mapKeys)
  BY <1>1, <1>2, <1>3, KeysIs
<1>5. KeyField \in Nat
  BY DEF KeyField
<1>6. Marked(c, KeyField) \in Seq(SUBSET Nat) /\ Len(Marked(c, KeyField)) = Len(c.seenFields)
  BY <1>1, <1>5, MarkedIs
<1>7. seen \in Seq(SUBSET Nat) /\ Len(seen) = Len(c.seenFields)
  BY <1>1, <1>6 DEF IsCxt
<1>8. d = Object(c.mappers, c.items, keys, seen, c.seenOneof, c.track, c.tree, c.missing, c.crashed)
  BY <1>1, OnKeyIs
<1> HIDE DEF d, seen, keys
<1>9. Sane(d) /\ Stacks(L, d)
  BY <1>1, <1>4, <1>7, <1>8, SameItems
<1> QED
  BY <1>9 DEF d

\* an enumeration number that is not known.
LEMMA EnumStacks ==
    ASSUME NEW L, LevelsOK(L, "FIELD"), NEW c, Sane(c), Stacks(L, c), ~OpenMap(L[Len(L)]),
           NEW f, f = L[Len(L)].field, InEntry(L[Len(L)]) => f = ValueField,
           Schema[L[Len(L)].type][f].message = NoMessage
    PROVE  Sane(OnUnknownEnum(c, f)) /\ Stacks(L, OnUnknownEnum(c, f))
<1>1. CASE Last(c.items) = NULL
  <2> DEFINE d == OnUnknownEnum(c, f)
  <2>1. IsObject(c)
    BY DEF Sane, IsCxt
  <2>2. d = [c EXCEPT !.crashed = TRUE]
    BY <1>1 DEF OnUnknownEnum
  <2>3. d = Object(c.mappers, c.items, c.mapKeys, c.seenFields, c.seenOneof, c.track, c.tree,
                   c.missing, TRUE)
    BY <2>1, <2>2 DEF IsObject, Object
  <2>4. /\ c.mapKeys \in Seq([key: Keys] \cup {NoKey}) /\ c.seenFields \in Seq(SUBSET Nat)
        /\ c.missing \in Nat /\ TRUE \in BOOLEAN
    BY DEF Sane, IsCxt
  <2> HIDE DEF d
  <2>5. Sane(d) /\ Stacks(L, d)
    BY <2>3, <2>4, SameItems
  <2> QED
    BY <2>5 DEF d
<1>2. CASE Last(c.items) # NULL /\ c.tree[Last(c.items)].kind = "array"
  <2> DEFINE d == StoreAt(c, f, Default)
  <2>1. Storing(L, c, f)
    BY StoringField
  <2>2. Default \in Nodes /\ Fits(Default, NoMessage)
    BY DEF Default, Leaf, Nodes, Fits
  <2>3. /\ c.mapKeys \in Seq([key: Keys] \cup {NoKey}) /\ c.seenFields \in Seq(SUBSET Nat)
        /\ IsObject(c)
    BY DEF Sane, IsCxt
  <2>4. d = Object(c.mappers, TargetItems(c, f), c.mapKeys, c.seenFields, TargetOneof(c, f), c.track,
                   Put(TargetTree(c, f), TargetPath(c, f), Default), c.missing, c.crashed)
    BY <2>3, StoreAtIs
  <2>5. OnUnknownEnum(c, f) = d
    BY <1>2 DEF OnUnknownEnum
  <2> HIDE DEF d
  <2>6. Sane(d) /\ Stacks(L, d)
    BY <2>1, <2>2, <2>3, <2>4, StoreStacks
  <2> QED
    BY <2>5, <2>6
<1>3. CASE Last(c.items) # NULL /\ c.tree[Last(c.items)].kind # "array"
  <2>1. OnUnknownEnum(c, f) = c
    BY <1>3 DEF OnUnknownEnum
  <2> QED
    BY <2>1
<1> QED
  BY <1>1, <1>2, <1>3

\* So the step with a scalar,
LEMMA ScalarStep ==
    ASSUME LevelsOK(levels, token), Sane(cxt), Stacks(levels, cxt), ScalarField
    PROVE  /\ LevelsOK(levels', token') /\ Sane(cxt') /\ Stacks(levels', cxt')
           /\ PendingOK(levels', token', cxt')
<1> DEFINE L == levels'
           top == L[Len(L)]
<1>1. /\ LevelsOK(L, "FIELD") /\ token' = "FIELD"
      /\ Len(L) = Len(levels) /\ \A i \in DOMAIN levels : Alike(levels[i], L[i])
  BY FieldLevels DEF ScalarField
<1>2. Stacks(L, cxt)
  BY <1>1, StacksAlike
<1>3. Schema[top.type][top.field].message = NoMessage /\ cxt' \in Scalars(top)
  BY DEF ScalarField, Last
<1>4. Entered(top) /\ top \in Levels
  BY <1>1, LevelIs DEF LevelsOK
<1>5. ~OpenMap(top)
  <2>1. NoMessage \notin Entries
    BY RootAssumption, MapsAssumption
  <2> QED
    BY <1>3, <1>4, <2>1, EntryIs
<1> HIDE DEF L
<1>6. Sane(cxt') /\ Stacks(L, cxt')
  <2>1. CASE InEntry(top) /\ top.field = KeyField
    <3>1. PICK k \in Keys : cxt' = OnKey(cxt, k)
      BY <1>3, <2>1 DEF Scalars
    <3> QED
      BY <1>1, <1>2, <2>1, <3>1, KeyStacks
  <2>2. CASE ~(InEntry(top) /\ top.field = KeyField)
    <3>1. InEntry(top) => top.field = ValueField
      BY <1>4, <2>2, EntriesAssumption DEF Entered, InEntry
    <3>2. cxt' = OnScalar(cxt, top.field) \/ cxt' = OnUnknownEnum(cxt, top.field)
      BY <1>3, <2>2 DEF Scalars
    <3>3. CASE cxt' = OnScalar(cxt, top.field)
      BY <1>1, <1>2, <1>3, <1>5, <3>1, <3>3, ScalarStacks
    <3>4. CASE cxt' = OnUnknownEnum(cxt, top.field)
      BY <1>1, <1>2, <1>3, <1>5, <3>1, <3>4, EnumStacks
    <3> QED
      BY <3>2, <3>3, <3>4
  <2> QED
    BY <2>1, <2>2
<1>7. PendingOK(L, "FIELD", cxt')
  BY DEF PendingOK
<1> QED
  BY <1>1, <1>6, <1>7 DEF L

\* with a message, of which nothing is stored yet,
LEMMA MessageFieldStep ==
    ASSUME LevelsOK(levels, token), Sane(cxt), Stacks(levels, cxt), MessageField
    PROVE  /\ LevelsOK(levels', token') /\ Sane(cxt') /\ Stacks(levels', cxt')
           /\ PendingOK(levels', token', cxt')
<1>1. /\ LevelsOK(levels', "FIELD") /\ token' = "FIELD"
      /\ Len(levels') = Len(levels) /\ \A i \in DOMAIN levels : Alike(levels[i], levels'[i])
  BY FieldLevels DEF MessageField
<1>2. cxt' = cxt
  BY DEF MessageField
<1>3. Stacks(levels', cxt)
  BY <1>1, StacksAlike
<1> QED
  BY <1>1, <1>2, <1>3 DEF PendingOK

\* and with an unknown field keep them.
LEMMA UnknownFieldStep ==
    ASSUME LevelsOK(levels, token), Sane(cxt), Stacks(levels, cxt), UnknownField
    PROVE  /\ LevelsOK(levels', token') /\ Sane(cxt') /\ Stacks(levels', cxt')
           /\ PendingOK(levels', token', cxt')
<1>1. /\ LevelsOK(levels', "UNKNOWN_FIELD") /\ token' = "UNKNOWN_FIELD"
      /\ Len(levels') = Len(levels) /\ \A i \in DOMAIN levels : Alike(levels[i], levels'[i])
      /\ levels'[Len(levels')].seq = "none"
  BY UnknownLevels DEF UnknownField
<1>2. cxt' = cxt
  BY DEF UnknownField
<1>3. Stacks(levels', cxt)
  BY <1>1, StacksAlike
<1>4. PendingOK(levels', token', cxt')
  BY <1>1 DEF PendingOK, OpenMap
<1> QED
  BY <1>1, <1>2, <1>3, <1>4

----------------------------------------------------------------------------
(* The callbacks for sequences.                                                   *)

\* What opening a list and opening a map have in common.
LEMMA OpenStacks ==
    ASSUME NEW S, NEW tok, LevelsOK(S, tok), NEW B, NEW tok2, LevelsOK(B, tok2), Opened(S, B),
           NEW c, Sane(c), Stacks(S, c)
    PROVE  LET n == Len(S)
               f == B[n].field
               kind == IF Traits[S[n].type][f].map THEN "map" ELSE "array"
               at == FieldPath(c, f)
               u  == ContainerTree(c, f, kind)
           IN  /\ Mapper(c) = S[n].type /\ f \in FieldsOf(S[n].type) /\ S[n].type \in Messages
               /\ OpenMap(B[n]) <=> kind = "map"
               /\ at \in Paths /\ at \in DOMAIN u /\ c.items # <<>> /\ Last(c.items) \in Paths
               /\ IsPrefix(Last(c.items), at) /\ TreeOK(u) /\ ItemsOK(S, c.items, u)
               /\ Marked(c, f) \in Seq(SUBSET Nat) /\ FieldsOK(B, Marked(c, f))
               /\ OneofsOK(B, c.seenOneof)
<1> DEFINE n == Len(S)
           f == B[n].field
           kind == IF Traits[S[n].type][f].map THEN "map" ELSE "array"
<1>1. /\ n \in Nat \ {0} /\ n \in DOMAIN S /\ n \in DOMAIN B /\ Len(B) = n /\ B[n].type = S[n].type
      /\ ~OpenMap(S[n]) /\ ~OpenList(S[n]) /\ ~InEntry(S[n])
      /\ B[n].seq # "none" /\ Entered(B[n])
  BY LevelIs DEF Opened
<1>2. f \in FieldsOf(S[n].type) /\ Schema[S[n].type][f].repeated
  BY <1>1 DEF Entered
<1>3. /\ IsCxt(c) /\ TreeOK(c.tree) /\ c.items \in ItemSeq /\ c.mappers \in Seq(Messages)
      /\ c.mappers # <<>> /\ ItemsOK(S, c.items, c.tree) /\ MappersOK(S, c)
      /\ c.seenFields \in Seq(SUBSET Nat) /\ FieldsOK(S, c.seenFields) /\ OneofsOK(S, c.seenOneof)
  BY DEF Sane, IsCxt, Stacks, SeenOK, ItemSeq
<1>4. Mapper(c) = S[n].type /\ S[n].type \in Messages
  BY <1>1, <1>3, MapperIs
<1>5. OpenMap(B[n]) <=> kind = "map"
  BY <1>1 DEF OpenMap
<1>6. ~Free(S)
  BY <1>1 DEF Free
<1>7. LET at == FieldPath(c, f)
          u  == ContainerTree(c, f, kind)
      IN  /\ at \in Paths /\ at \in DOMAIN u /\ c.items # <<>> /\ Last(c.items) \in Paths
          /\ IsPrefix(Last(c.items), at) /\ TreeOK(u) /\ ItemsOK(S, c.items, u)
  BY <1>1, <1>2, <1>3, <1>6, ContainerKept
<1>8. f \in Nat
  BY <1>2, <1>4, SchemaAssumption
<1>9. Marked(c, f) \in Seq(SUBSET Nat) /\ Len(Marked(c, f)) = Len(c.seenFields)
  BY <1>3, <1>8, MarkedIs
<1>10. Grown(S, B) /\ ~Deeper(S, B)
  <2>1. Len(B) # Len(S) + 1
    BY <1>1
  <2> QED
    BY <2>1 DEF Grown, Deeper
<1>11. FieldsOK(B, Marked(c, f))
  <2>1. Len(c.seenFields) \in Nat /\ Len(Marked(c, f)) = Len(c.seenFields) + 0
    BY <1>3, <1>9, LenProperties
  <2> QED
    BY <1>3, <1>10, <2>1, FieldsGrown
<1>12. OneofsOK(B, c.seenOneof)
  BY <1>3, <1>10, OneofsGrown
<1> QED
  BY <1>2, <1>4, <1>5, <1>7, <1>9, <1>11, <1>12

\* What the callbacks do to the stacks: on_start_sequence of a list.
LEMMA StartListStacks ==
    ASSUME NEW S, NEW tok, LevelsOK(S, tok), NEW B, NEW tok2, LevelsOK(B, tok2), Opened(S, B),
           OpenList(B[Len(S)]), NEW c, Sane(c), Stacks(S, c)
    PROVE  LET d == OnStartSequence(c, B[Len(S)].field) IN Sane(d) /\ Stacks(B, d)
<1> DEFINE n == Len(S)
           f == B[n].field
           at == FieldPath(c, f)
           u == ContainerTree(c, f, "array")
           d == OnStartSequence(c, f)
<1>1. ~OpenMap(B[n]) /\ Len(B) = n
  BY DEF OpenMap, OpenList, Opened
<1>2. /\ at \in Paths /\ at \in DOMAIN u /\ c.items # <<>> /\ Last(c.items) \in Paths
      /\ IsPrefix(Last(c.items), at) /\ TreeOK(u) /\ ItemsOK(S, c.items, u)
      /\ Marked(c, f) \in Seq(SUBSET Nat) /\ FieldsOK(B, Marked(c, f))
      /\ OneofsOK(B, c.seenOneof)
  BY <1>1, OpenStacks
<1>3. IsObject(c) /\ IsCxt(c) /\ c.items \in ItemSeq
  BY DEF Sane, IsCxt, ItemSeq
<1>4. d = Object(c.mappers, Append(c.items, at), c.mapKeys, Marked(c, f), c.seenOneof, c.track, u,
                 c.missing, c.crashed)
  BY <1>3, ContainerIs DEF OnStartSequence
<1>5. ItemsOK(B, Append(c.items, at), u)
  BY <1>2, <1>3, OpenedList DEF FieldPath
<1>6. Append(c.items, at) \in ItemSeq
  BY <1>2, <1>3, ItemStack
<1> HIDE DEF d, u, at
<1>7. /\ IsObject(d) /\ d.mappers = c.mappers /\ d.items = Append(c.items, at)
      /\ d.mapKeys = c.mapKeys /\ d.seenFields = Marked(c, f) /\ d.seenOneof = c.seenOneof
      /\ d.track = c.track /\ d.tree = u /\ d.missing = c.missing /\ d.crashed = c.crashed
  BY <1>4 DEF IsObject, Object
<1>8. Sane(d)
  BY <1>2, <1>3, <1>6, <1>7 DEF Sane, IsCxt, ItemSeq
<1>9. MappersOK(B, d)
  <2>1. /\ Len(c.mappers) = n + 0 /\ \A i \in DOMAIN S : c.mappers[i] = S[i].type
        /\ c.track = TracksSeen(Mapper(c))
    BY DEF Stacks, MappersOK, Opened
  <2>2. DOMAIN S = 1..n /\ DOMAIN B = 1..n
    BY <1>1, LevelIs
  <2>7. n \in Nat \ {0}
    BY LevelIs
  <2>3. \A i \in 1..n : B[i].type = S[i].type
    <3>1. \A i \in 1..n : i = n \/ i \in 1..(n - 1)
      BY <2>7
    <3>2. B[n].type = S[n].type
      BY DEF Opened
    <3>3. \A i \in 1..(n - 1) : B[i] = S[i]
      BY DEF Opened
    <3>4. \A i \in 1..n : B[i] = S[i] \/ i = n
      BY <3>1, <3>3
    <3> QED
      BY <3>2, <3>4
  <2>4. ASSUME NEW i \in DOMAIN B PROVE d.mappers[i] = B[i].type
    <3>1. i \in DOMAIN S /\ B[i].type = S[i].type
      BY <2>2, <2>3
    <3> QED
      BY <1>7, <2>1, <3>1
  <2>5. d.track = TracksSeen(Mapper(d))
    BY <1>7, <2>1 DEF Mapper
  <2>6. Len(d.mappers) = Len(B) + 0
    BY <1>1, <1>7, <2>1
  <2> QED
    BY <1>1, <2>4, <2>5, <2>6 DEF MappersOK
<1>10. SeenOK(B, d)
  <2>1. Cardinality(MapsOf(B)) = Cardinality(MapsOf(S)) + 0 /\ Cardinality(MapsOf(S)) \in Nat
    BY <1>1, GrownCounts DEF Grown
  <2>2. Len(c.mapKeys) = Cardinality(MapsOf(S))
    BY DEF Stacks, SeenOK
  <2> QED
    BY <1>2, <1>7, <2>1, <2>2 DEF SeenOK
<1>11. Stacks(B, d)
  BY <1>5, <1>7, <1>9, <1>10 DEF Stacks
<1> QED
  BY <1>8, <1>11 DEF d

\* One mapper more.
LEMMA MapperPushed ==
    ASSUME NEW s \in Seq(Messages), NEW m \in Messages
    PROVE  /\ Append(s, m) \in Seq(Messages) /\ Len(Append(s, m)) = Len(s) + 1
           /\ \A i \in 1..Len(s) : Append(s, m)[i] = s[i]
           /\ Append(s, m)[Len(s) + 1] = m /\ Last(Append(s, m)) = m
           /\ Append(s, m) # <<>> /\ Len(s) \in Nat
  BY AppendOf

\* A message tracks what it has seen of its fields, or does not.
LEMMA TracksBoolean == \A m \in Messages : TracksSeen(m) \in BOOLEAN
  BY OptionsAssumption DEF TracksSeen, CheckRequired

\* on_start_map.
LEMMA StartMapStacks ==
    ASSUME NEW S, NEW tok, LevelsOK(S, tok), NEW B, NEW tok2, LevelsOK(B, tok2), Opened(S, B),
           OpenMap(B[Len(S)]), NEW c, Sane(c), Stacks(S, c)
    PROVE  LET d == OnStartMap(c, B[Len(S)].field)
           IN  Sane(d) /\ Stacks(B, d) /\ Last(d.mapKeys) = NoKey /\ Last(d.items) = NULL
<1> DEFINE n == Len(S)
           f == B[n].field
           at == FieldPath(c, f)
           u == ContainerTree(c, f, "map")
           m == Schema[S[n].type][f].message
           it2 == Append(Append(c.items, at), NULL)
           keys == Append(c.mapKeys, NoKey)
           d == OnStartMap(c, f)
<1>1. Len(B) = n /\ B[n].type = S[n].type /\ ~OpenMap(S[n])
  BY DEF Opened
<1>2. /\ at \in Paths /\ at \in DOMAIN u /\ c.items # <<>> /\ Last(c.items) \in Paths
      /\ IsPrefix(Last(c.items), at) /\ TreeOK(u) /\ ItemsOK(S, c.items, u)
      /\ Marked(c, f) \in Seq(SUBSET Nat) /\ FieldsOK(B, Marked(c, f))
      /\ OneofsOK(B, c.seenOneof)
      /\ Mapper(c) = S[n].type /\ f \in FieldsOf(S[n].type) /\ S[n].type \in Messages
  BY OpenStacks
<1>3. IsObject(c) /\ IsCxt(c) /\ c.items \in ItemSeq
  BY DEF Sane, IsCxt, ItemSeq
<1>4. d = Object(Append(c.mappers, m), it2, keys, Marked(c, f), c.seenOneof, TracksSeen(m), u,
                 c.missing, c.crashed)
  BY <1>2, <1>3, OnStartMapIs
<1>5. ItemsOK(B, it2, u)
  BY <1>2, <1>3, OpenedMap DEF FieldPath
<1>6. it2 \in ItemSeq /\ Last(it2) = NULL
  <2>1. at \in Paths \cup {NULL} /\ NULL \in Paths \cup {NULL}
    BY <1>2
  <2>2. Append(c.items, at) \in ItemSeq
    BY <1>3, <2>1, ItemStack
  <2> QED
    BY <2>1, <2>2, ItemStack
<1>7. m \in Messages
  <2>1. B[n].seq # "none" /\ Entered(B[n]) /\ B[n] \in Levels
    <3>1. n \in DOMAIN B
      BY <1>1, LevelIs
    <3> QED
      BY <3>1, LevelIs
  <2>2. m \in Entries
    BY <1>1, <2>1, OpenIs
  <2> QED
    BY <2>2, MapsAssumption
<1>8. /\ keys \in Seq([key: Keys] \cup {NoKey}) /\ Len(keys) = Len(c.mapKeys) + 1
      /\ Last(keys) = NoKey
  <2> DEFINE K == [key: Keys] \cup {NoKey}
  <2>1. c.mapKeys \in Seq(K) /\ NoKey \in K
    BY <1>3 DEF IsCxt
  <2> DEFINE s == c.mapKeys
  <2>2. s \in Seq(K)
    BY <2>1
  <2> HIDE DEF K, s
  <2>3. /\ Append(s, NoKey) \in Seq(K) /\ Len(Append(s, NoKey)) = Len(s) + 1
        /\ Last(Append(s, NoKey)) = NoKey
    BY <2>1, <2>2, AppendOf
  <2>4. keys = Append(s, NoKey)
    BY DEF s
  <2> HIDE DEF keys
  <2>5. keys \in Seq(K)
    BY <2>3, <2>4
  <2>6. Len(keys) = Len(s) + 1 /\ Last(keys) = NoKey
    BY <2>3, <2>4
  <2>7. keys \in Seq([key: Keys] \cup {NoKey})
    BY <2>5, Zenon DEF K
  <2>8. Len(keys) = Len(c.mapKeys) + 1
    BY <2>6 DEF s
  <2> QED
    BY <2>6, <2>7, <2>8
<1>9. /\ Append(c.mappers, m) \in Seq(Messages) /\ Len(Append(c.mappers, m)) = Len(c.mappers) + 1
      /\ \A i \in 1..Len(c.mappers) : Append(c.mappers, m)[i] = c.mappers[i]
      /\ Append(c.mappers, m)[Len(c.mappers) + 1] = m /\ Last(Append(c.mappers, m)) = m
      /\ Append(c.mappers, m) # <<>> /\ Len(c.mappers) \in Nat
  <2> HIDE DEF m
  <2>1. c.mappers \in Seq(Messages)
    BY <1>3 DEF IsCxt
  <2> QED
    BY <1>7, <2>1, MapperPushed
<1> HIDE DEF d, u, at, m, it2, keys
<1>10. /\ IsObject(d) /\ d.mappers = Append(c.mappers, m) /\ d.items = it2
       /\ d.mapKeys = keys /\ d.seenFields = Marked(c, f) /\ d.seenOneof = c.seenOneof
       /\ d.track = TracksSeen(m) /\ d.tree = u /\ d.missing = c.missing /\ d.crashed = c.crashed
  BY <1>4 DEF IsObject, Object
<1>11. /\ Len(c.mappers) = n /\ n \in Nat \ {0} /\ DOMAIN S = 1..n /\ DOMAIN B = 1..n
       /\ \A i \in DOMAIN S : c.mappers[i] = S[i].type
  <2>1. Len(c.mappers) = n + 0 /\ \A i \in DOMAIN S : c.mappers[i] = S[i].type
    BY <1>1 DEF Stacks, MappersOK
  <2>2. n \in Nat \ {0} /\ DOMAIN S = 1..n /\ DOMAIN B = 1..n
    BY <1>1, LevelIs
  <2> QED
    BY <2>1, <2>2
<1>12. Sane(d)
  <2>1. d.mappers[1] \in Roots
    BY <1>3, <1>9, <1>10, <1>11 DEF IsCxt
  <2> QED
    BY <1>2, <1>3, <1>6, <1>8, <1>9, <1>10, <2>1, TracksBoolean DEF Sane, IsCxt, ItemSeq
<1>13. MappersOK(B, d)
  <2>3. \A i \in 1..n : B[i].type = S[i].type
    <3>1. \A i \in 1..n : i = n \/ i \in 1..(n - 1)
      BY <1>11
    <3>2. B[n].type = S[n].type
      BY DEF Opened
    <3>3. \A i \in 1..(n - 1) : B[i] = S[i]
      BY DEF Opened
    <3>4. \A i \in 1..n : B[i] = S[i] \/ i = n
      BY <3>1, <3>3
    <3> QED
      BY <3>2, <3>4
  <2>4. ASSUME NEW i \in DOMAIN B PROVE d.mappers[i] = B[i].type
    <3>1. i \in DOMAIN S /\ B[i].type = S[i].type /\ i \in 1..n
      BY <1>11, <2>3
    <3>2. c.mappers[i] = S[i].type
      BY <1>11, <3>1
    <3>3. i \in 1..Len(c.mappers)
      BY <1>11, <3>1
    <3> QED
      BY <1>9, <1>10, <3>1, <3>2, <3>3
  <2>5. d.track = TracksSeen(Mapper(d))
    BY <1>9, <1>10 DEF Mapper
  <2>6. Len(d.mappers) = Len(B) + 1 /\ d.mappers[Len(B) + 1] = m
    <3>1. Len(c.mappers) = Len(B)
      BY <1>1, <1>11
    <3> QED
      BY <1>9, <1>10, <3>1
  <2>7. m = Schema[B[n].type][f].message
    BY <1>1 DEF m
  <2> QED
    BY <1>1, <2>4, <2>5, <2>6, <2>7 DEF MappersOK
<1>14. SeenOK(B, d)
  <2>1. Cardinality(MapsOf(B)) = Cardinality(MapsOf(S)) + 1 /\ Cardinality(MapsOf(S)) \in Nat
    BY GrownCounts DEF Grown
  <2>2. Len(c.mapKeys) = Cardinality(MapsOf(S))
    BY DEF Stacks, SeenOK
  <2> QED
    BY <1>2, <1>8, <1>10, <2>1, <2>2 DEF SeenOK
<1>15. Stacks(B, d)
  BY <1>5, <1>10, <1>13, <1>14 DEF Stacks
<1>16. Last(d.mapKeys) = NoKey /\ Last(d.items) = NULL
  BY <1>6, <1>8, <1>10
<1> QED
  BY <1>12, <1>15, <1>16 DEF d

\* So the step with the start of a repeated field keeps them.
LEMMA StartSequenceStep ==
    ASSUME LevelsOK(levels, token), Sane(cxt), Stacks(levels, cxt), StartSequence
    PROVE  /\ LevelsOK(levels', token') /\ Sane(cxt') /\ Stacks(levels', cxt')
           /\ PendingOK(levels', token', cxt')
<1>1. /\ LevelsOK(levels', "START_SEQUENCE") /\ token' = "START_SEQUENCE"
      /\ Opened(levels, levels') /\ Len(levels') = Len(levels)
      /\ Entered(levels'[Len(levels')])
  BY StartLevels DEF StartSequence
<1> DEFINE top == levels'[Len(levels)]
<1>2. cxt' = IF Traits[top.type][top.field].map THEN OnStartMap(cxt, top.field)
             ELSE OnStartSequence(cxt, top.field)
  BY <1>1 DEF StartSequence, Last
<1>3. OpenMap(top) \/ OpenList(top)
  BY <1>1 DEF Opened
<1>4. CASE OpenMap(top)
  <2>1. cxt' = OnStartMap(cxt, top.field)
    BY <1>2, <1>4 DEF OpenMap
  <2>2. /\ Sane(cxt') /\ Stacks(levels', cxt') /\ Last(cxt'.mapKeys) = NoKey
        /\ Last(cxt'.items) = NULL
    BY <1>1, <1>4, <2>1, StartMapStacks
  <2> QED
    BY <1>1, <2>2 DEF PendingOK
<1>5. CASE OpenList(top)
  <2>1. cxt' = OnStartSequence(cxt, top.field)
    BY <1>2, <1>5 DEF OpenList
  <2>2. Sane(cxt') /\ Stacks(levels', cxt')
    BY <1>1, <1>5, <2>1, StartListStacks
  <2>3. ~OpenMap(levels'[Len(levels')])
    BY <1>1, <1>5 DEF OpenMap, OpenList
  <2> QED
    BY <1>1, <2>2, <2>3 DEF PendingOK
<1> QED
  BY <1>3, <1>4, <1>5

\* on_end_sequence of a list.
LEMMA EndListStacks ==
    ASSUME NEW S, NEW tok, LevelsOK(S, tok), NEW B, NEW tok2, LevelsOK(B, tok2), Opened(S, B),
           OpenList(B[Len(S)]), NEW c, Sane(c), Stacks(B, c)
    PROVE  Sane(OnEndSequence(c)) /\ Stacks(S, OnEndSequence(c))
<1> DEFINE n == Len(S)
           d == OnEndSequence(c)
<1>1. ~OpenMap(B[n]) /\ ~OpenMap(S[n]) /\ Len(B) = n
  BY DEF OpenMap, OpenList, Opened
<1>2. /\ IsObject(c) /\ IsCxt(c) /\ c.items \in ItemSeq /\ Shaped(c.tree)
      /\ ItemsOK(B, c.items, c.tree)
  BY DEF Sane, IsCxt, ItemSeq, TreeOK, Stacks
<1>3. c.items # <<>>
  <2>1. HeightOf(B, Len(B)) # 0 /\ Len(c.items) = HeightOf(B, Len(B))
    <3>1. ~Free(B) /\ OpenList(B[Len(B)])
      BY <1>1, LevelIs DEF Free, Opened
    <3>2. Len(c.items) > 1 /\ Len(c.items) \in Nat
      BY <1>2, <3>1, TopArray
    <3> QED
      BY <1>2, <3>2 DEF ItemsOK
  <2> QED
    BY <2>1
<1>4. ItemsOK(S, Front(c.items), c.tree)
  BY <1>2, <1>3, ClosedList
<1>5. Front(c.items) \in ItemSeq
  BY <1>2, <1>3, ItemStack
<1>6. d = Object(c.mappers, Front(c.items), c.mapKeys, c.seenFields, c.seenOneof, c.track,
                 c.tree, c.missing, c.crashed)
  BY <1>2, OnEndSequenceIs
<1> HIDE DEF d
<1>7. /\ IsObject(d) /\ d.mappers = c.mappers /\ d.items = Front(c.items)
      /\ d.mapKeys = c.mapKeys /\ d.seenFields = c.seenFields /\ d.seenOneof = c.seenOneof
      /\ d.track = c.track /\ d.tree = c.tree /\ d.missing = c.missing /\ d.crashed = c.crashed
  BY <1>6 DEF IsObject, Object
<1>8. Sane(d)
  BY <1>2, <1>5, <1>7 DEF Sane, IsCxt, ItemSeq
<1>9. MappersOK(S, d)
  <2>1. /\ Len(c.mappers) = Len(B) + 0 /\ \A i \in DOMAIN B : c.mappers[i] = B[i].type
        /\ c.track = TracksSeen(Mapper(c))
    BY <1>1 DEF Stacks, MappersOK
  <2>2. DOMAIN S = 1..n /\ DOMAIN B = 1..n
    BY <1>1, LevelIs
  <2>3. \A i \in 1..n : B[i].type = S[i].type
    BY GrownSets DEF Grown
  <2>4. ASSUME NEW i \in DOMAIN S PROVE d.mappers[i] = S[i].type
    <3>1. i \in DOMAIN B /\ B[i].type = S[i].type
      BY <2>2, <2>3
    <3> QED
      BY <1>7, <2>1, <3>1
  <2>5. d.track = TracksSeen(Mapper(d))
    BY <1>7, <2>1 DEF Mapper
  <2>6. Len(d.mappers) = Len(S) + 0
    BY <1>1, <1>7, <2>1
  <2> QED
    BY <1>1, <2>4, <2>5, <2>6 DEF MappersOK
<1>10. SeenOK(S, d)
  <2>1. Cardinality(MapsOf(B)) = Cardinality(MapsOf(S)) + 0 /\ Cardinality(MapsOf(S)) \in Nat
    BY <1>1, GrownCounts DEF Grown
  <2>2. Grown(S, B) /\ ~Deeper(S, B)
    BY GrownSets DEF Grown
  <2>3. FieldsOK(B, c.seenFields) /\ OneofsOK(B, c.seenOneof) /\ Len(c.mapKeys) = Cardinality(MapsOf(B))
    BY DEF Stacks, SeenOK
  <2>4. Len(c.seenFields) \in Nat /\ Len(c.seenFields) = Len(c.seenFields) + 0
    BY <1>2, LenProperties DEF IsCxt
  <2>5. FieldsOK(S, c.seenFields)
    BY <2>2, <2>3, <2>4, FieldsGrown
  <2>6. OneofsOK(S, c.seenOneof)
    BY <2>2, <2>3, OneofsGrown
  <2> QED
    BY <1>7, <2>1, <2>3, <2>5, <2>6 DEF SeenOK
<1>11. Stacks(S, d)
  BY <1>4, <1>7, <1>9, <1>10 DEF Stacks
<1> QED
  BY <1>8, <1>11 DEF d

\* One mapper less.
LEMMA MapperPopped ==
    ASSUME NEW s \in Seq(Messages), Len(s) > 1, s[1] \in Roots
    PROVE  /\ Front(s) \in Seq(Messages) /\ Len(Front(s)) = Len(s) - 1 /\ Front(s) # <<>>
           /\ \A i \in 1..(Len(s) - 1) : Front(s)[i] = s[i]
           /\ Front(s)[1] \in Roots /\ Len(s) \in Nat
           /\ Last(Front(s)) \in Messages
<1>1. s # <<>> /\ Len(s) \in Nat
  BY LenProperties
<1>2. PICK k \in Nat : k = Len(s) - 1 /\ k >= 1
  BY <1>1
<1>3. /\ Front(s) \in Seq(Messages) /\ Len(Front(s)) = Len(s) - 1
      /\ \A i \in 1..(Len(s) - 1) : Front(s)[i] = s[i]
  BY <1>1, FrontOf
<1>4. Len(Front(s)) = k /\ \A i \in 1..k : Front(s)[i] = s[i]
  BY <1>2, <1>3
<1>5. Front(s)[1] \in Roots
  BY <1>2, <1>4
<1>6. Front(s) # <<>>
  BY <1>2, <1>4
<1>7. Last(Front(s)) \in Messages
  BY <1>3, <1>6, FrontOf
<1> QED
  BY <1>1, <1>3, <1>5, <1>6, <1>7

\* on_end_map.
LEMMA EndMapStacks ==
    ASSUME NEW S, NEW tok, LevelsOK(S, tok), NEW B, NEW tok2, LevelsOK(B, tok2), Opened(S, B),
           OpenMap(B[Len(S)]), NEW c, Sane(c), Stacks(B, c), Last(c.items) = NULL
    PROVE  Sane(OnEndMap(c)) /\ Stacks(S, OnEndMap(c))
<1> DEFINE n == Len(S)
           d == OnEndMap(c)
<1>1. ~OpenMap(S[n]) /\ Len(B) = n
  BY DEF Opened
<1>2. /\ IsObject(c) /\ IsCxt(c) /\ c.items \in ItemSeq /\ Shaped(c.tree)
      /\ ItemsOK(B, c.items, c.tree)
  BY DEF Sane, IsCxt, ItemSeq, TreeOK, Stacks
<1>3. c.items # <<>> /\ Free(B)
  <2>1. Free(B)
    BY <1>1 DEF Free
  <2>2. Len(c.items) \in Nat /\ Len(c.items) > 2
    BY <1>2, <2>1, TopMap
  <2> QED
    BY <2>1, <2>2
<1>4. Front(c.items) # <<>> /\ ItemsOK(S, Front(Front(c.items)), c.tree)
  BY <1>2, <1>3, ClosedMap
<1>5. Front(Front(c.items)) \in ItemSeq
  <2>1. Front(c.items) \in ItemSeq
    BY <1>2, <1>3, ItemStack
  <2> QED
    BY <1>4, <2>1, ItemStack
<1>6. d = Object(Front(c.mappers), Front(Front(c.items)), Front(c.mapKeys), c.seenFields,
                 c.seenOneof, TracksSeen(Last(Front(c.mappers))), c.tree, c.missing, c.crashed)
  BY <1>2, OnEndMapIs
<1> HIDE DEF d
<1>7. /\ IsObject(d) /\ d.mappers = Front(c.mappers) /\ d.items = Front(Front(c.items))
      /\ d.mapKeys = Front(c.mapKeys) /\ d.seenFields = c.seenFields /\ d.seenOneof = c.seenOneof
      /\ d.track = TracksSeen(Last(Front(c.mappers))) /\ d.tree = c.tree /\ d.missing = c.missing
      /\ d.crashed = c.crashed
  BY <1>6 DEF IsObject, Object
<1>8. Len(c.mappers) = n + 1 /\ \A i \in DOMAIN B : c.mappers[i] = B[i].type
  BY <1>1 DEF Stacks, MappersOK
<1>9. n \in Nat \ {0}
  BY LevelIs
<1>10. /\ Front(c.mappers) \in Seq(Messages) /\ Len(Front(c.mappers)) = Len(c.mappers) - 1
       /\ Front(c.mappers) # <<>> /\ \A i \in 1..(Len(c.mappers) - 1) : Front(c.mappers)[i] = c.mappers[i]
       /\ Front(c.mappers)[1] \in Roots /\ Last(Front(c.mappers)) \in Messages
  <2>1. Len(c.mappers) > 1 /\ c.mappers \in Seq(Messages) /\ c.mappers[1] \in Roots
    BY <1>2, <1>8, <1>9 DEF IsCxt
  <2> QED
    BY <2>1, MapperPopped
<1>11. /\ Front(c.mapKeys) \in Seq([key: Keys] \cup {NoKey})
       /\ Len(Front(c.mapKeys)) = Len(c.mapKeys) - 1 /\ Len(c.mapKeys) \in Nat
  <2> DEFINE K == [key: Keys] \cup {NoKey}
             s == c.mapKeys
  <2>1. s \in Seq(K) /\ s # <<>>
    BY <1>2, <1>3, KeysIs DEF IsCxt
  <2> HIDE DEF K, s
  <2>2. Front(s) \in Seq(K) /\ Len(Front(s)) = Len(s) - 1 /\ Len(s) \in Nat
    BY <2>1, FrontOf
  <2> QED
    BY <2>2 DEF K, s
<1>12. Sane(d)
  BY <1>2, <1>5, <1>7, <1>10, <1>11, TracksBoolean DEF Sane, IsCxt, ItemSeq
<1>13. MappersOK(S, d)
  <2>2. DOMAIN S = 1..n /\ DOMAIN B = 1..n
    BY <1>1, LevelIs
  <2>3. \A i \in 1..n : B[i].type = S[i].type
    BY GrownSets DEF Grown
  <2>4. Len(c.mappers) - 1 = n
    BY <1>8, <1>9
  <2>5. ASSUME NEW i \in DOMAIN S PROVE d.mappers[i] = S[i].type
    <3>1. i \in DOMAIN B /\ B[i].type = S[i].type /\ i \in 1..n
      BY <2>2, <2>3
    <3> QED
      BY <1>7, <1>8, <1>10, <2>4, <3>1
  <2>6. d.track = TracksSeen(Mapper(d))
    BY <1>7 DEF Mapper
  <2>7. Len(d.mappers) = Len(S) + 0
    BY <1>7, <1>9, <1>10, <2>4
  <2> QED
    BY <1>1, <2>5, <2>6, <2>7 DEF MappersOK
<1>14. SeenOK(S, d)
  <2>1. Cardinality(MapsOf(B)) = Cardinality(MapsOf(S)) + 1 /\ Cardinality(MapsOf(S)) \in Nat
    BY GrownCounts DEF Grown
  <2>2. Grown(S, B) /\ ~Deeper(S, B)
    BY GrownSets DEF Grown
  <2>3. FieldsOK(B, c.seenFields) /\ OneofsOK(B, c.seenOneof) /\ Len(c.mapKeys) = Cardinality(MapsOf(B))
    BY DEF Stacks, SeenOK
  <2>4. Len(c.seenFields) \in Nat /\ Len(c.seenFields) = Len(c.seenFields) + 0
    BY <1>2, LenProperties DEF IsCxt
  <2>5. FieldsOK(S, c.seenFields)
    BY <2>2, <2>3, <2>4, FieldsGrown
  <2>6. OneofsOK(S, c.seenOneof)
    BY <2>2, <2>3, OneofsGrown
  <2>7. Len(d.mapKeys) = Cardinality(MapsOf(S))
    BY <1>7, <1>11, <2>1, <2>3
  <2> QED
    BY <1>7, <2>5, <2>6, <2>7 DEF SeenOK
<1>15. Stacks(S, d)
  BY <1>4, <1>7, <1>13, <1>14 DEF Stacks
<1> QED
  BY <1>12, <1>15 DEF d

\* So the step with the end of a repeated field keeps them.
LEMMA EndSequenceStep ==
    ASSUME Run(levels, token, cxt), Sane(cxt), EndSequence
    PROVE  /\ LevelsOK(levels', token') /\ Sane(cxt') /\ Stacks(levels', cxt')
           /\ PendingOK(levels', token', cxt')
<1> DEFINE top == levels[Len(levels)]
<1>1. LevelsOK(levels, token) /\ Stacks(levels, cxt) /\ PendingOK(levels, token, cxt)
  BY DEF Run
<1>2. /\ LevelsOK(levels', "END_SEQUENCE") /\ token' = "END_SEQUENCE"
      /\ Opened(levels', levels) /\ Len(levels') = Len(levels)
      /\ ~(token = "FIELD" /\ OpenMap(top))
  BY <1>1, EndLevels DEF EndSequence
<1>3. cxt' = IF Traits[top.type][top.field].map THEN OnEndMap(cxt) ELSE OnEndSequence(cxt)
  BY DEF EndSequence, Current, Last
<1>4. (OpenMap(top) \/ OpenList(top)) /\ ~OpenMap(levels'[Len(levels')])
  BY <1>2 DEF Opened
<1>5. Sane(cxt') /\ Stacks(levels', cxt')
  <2>1. CASE OpenMap(top)
    <3>1. cxt' = OnEndMap(cxt)
      BY <1>3, <2>1 DEF OpenMap
    <3>2. Last(cxt.items) = NULL
      BY <1>1, <1>2, <2>1 DEF PendingOK
    <3> QED
      BY <1>1, <1>2, <2>1, <3>1, <3>2, EndMapStacks
  <2>2. CASE OpenList(top)
    <3>1. cxt' = OnEndSequence(cxt)
      BY <1>3, <2>2 DEF OpenList
    <3> QED
      BY <1>1, <1>2, <2>2, <3>1, EndListStacks
  <2> QED
    BY <1>4, <2>1, <2>2
<1> QED
  BY <1>2, <1>4, <1>5 DEF PendingOK

----------------------------------------------------------------------------
(* The callbacks for messages.                                                    *)

\* An entry pushes nothing;
LEMMA EnterEntryStacks ==
    ASSUME NEW S, NEW tok, LevelsOK(S, tok), NEW B, NEW tok2, LevelsOK(B, tok2), Deeper(S, B),
           InEntry(B[Len(S) + 1]), OpenMap(S[Len(S)]),
           B[Len(S) + 1].type = Schema[S[Len(S)].type][S[Len(S)].field].message, NEW c, Sane(c)
    PROVE  Stacks(S, c) <=> Stacks(B, c)
<1> DEFINE n == Len(S)
<1>1. /\ ~OpenMap(B[Len(B)]) /\ Len(B) = n + 1 /\ n \in Nat \ {0}
      /\ \A i \in 1..n : B[i] = S[i]
  BY LevelIs DEF Deeper
<1>2. DOMAIN S = 1..n /\ DOMAIN B = 1..(n + 1)
  BY <1>1, LevelIs
<1>3. ItemsOK(S, c.items, c.tree) <=> ItemsOK(B, c.items, c.tree)
  BY EnterEntry
<1>4. Cardinality(MapsOf(B)) = Cardinality(MapsOf(S)) + 0 /\ Cardinality(MapsOf(S)) \in Nat
  BY GrownCounts DEF Grown, Opened, Deeper
<1>5. FieldsOK(S, c.seenFields) <=> FieldsOK(B, c.seenFields)
  <2>1. Len(c.seenFields) \in Nat /\ Len(c.seenFields) = Len(c.seenFields) + 0
    BY LenProperties DEF Sane, IsCxt
  <2> QED
    BY <2>1, FieldsGrown DEF Grown
<1>6. OneofsOK(S, c.seenOneof) <=> OneofsOK(B, c.seenOneof)
  BY OneofsGrown DEF Grown
<1>7. SeenOK(S, c) <=> SeenOK(B, c)
  BY <1>4, <1>5, <1>6 DEF SeenOK
<1>8. \A i \in 1..(n + 1) : i \in 1..n \/ i = n + 1
  BY <1>1
<1>9. (\A i \in DOMAIN B : c.mappers[i] = B[i].type) <=>
          /\ \A i \in DOMAIN S : c.mappers[i] = S[i].type
          /\ c.mappers[n + 1] = B[n + 1].type
  <2>1. n + 1 \in DOMAIN B /\ \A i \in 1..n : i \in DOMAIN B
    BY <1>1, <1>2
  <2>2. ASSUME \A i \in DOMAIN B : c.mappers[i] = B[i].type
        PROVE  /\ \A i \in DOMAIN S : c.mappers[i] = S[i].type
               /\ c.mappers[n + 1] = B[n + 1].type
    <3>1. \A i \in 1..n : c.mappers[i] = S[i].type
      BY <1>1, <2>1, <2>2
    <3> QED
      BY <1>2, <2>1, <2>2, <3>1
  <2>3. ASSUME \A i \in DOMAIN S : c.mappers[i] = S[i].type, c.mappers[n + 1] = B[n + 1].type,
               NEW i \in DOMAIN B
        PROVE  c.mappers[i] = B[i].type
    <3>1. CASE i \in 1..n
      BY <1>1, <1>2, <2>3, <3>1
    <3>2. CASE i = n + 1
      BY <2>3, <3>2
    <3> QED
      BY <1>2, <1>8, <3>1, <3>2
  <2> QED
    BY <2>2, <2>3
<1>10. MappersOK(S, c) <=> /\ Len(c.mappers) = n + 1
                           /\ \A i \in DOMAIN S : c.mappers[i] = S[i].type
                           /\ c.mappers[n + 1] = B[n + 1].type
                           /\ c.track = TracksSeen(Mapper(c))
  BY DEF MappersOK
<1>11. MappersOK(B, c) <=> /\ Len(c.mappers) = n + 1 + 0
                           /\ \A i \in DOMAIN B : c.mappers[i] = B[i].type
                           /\ c.track = TracksSeen(Mapper(c))
  BY <1>1 DEF MappersOK
<1>12. n + 1 + 0 = n + 1
  BY <1>1
<1>13. MappersOK(S, c) <=> MappersOK(B, c)
  BY <1>9, <1>10, <1>11, <1>12
<1> QED
  BY <1>3, <1>7, <1>13 DEF Stacks

Pushes(S, m, seen, junk, oneof, seen2, oneof2) ==
    /\ seen \in Seq(SUBSET Nat) /\ FieldsOK(S, seen) /\ junk \in SUBSET Nat
    /\ oneof \in Seq(OneofStates) /\ OneofsOK(S, oneof)
    /\ seen2 = IF TracksSeen(m) THEN Append(seen, junk) ELSE seen
    /\ oneof2 = IF Oneofs(m) # {} THEN Append(oneof, [o \in Oneofs(m) |-> NoField]) ELSE oneof

\* The stacks of what has been seen, once a message has been entered.
LEMMA PushedSeen ==
    ASSUME NEW S, NEW tok, LevelsOK(S, tok), NEW B, NEW tok2, LevelsOK(B, tok2), Deeper(S, B),
           ~InEntry(B[Len(S) + 1]), NEW m, m = B[Len(S) + 1].type,
           NEW seen, NEW junk, NEW oneof, NEW seen2, NEW oneof2,
           Pushes(S, m, seen, junk, oneof, seen2, oneof2)
    PROVE  /\ seen2 \in Seq(SUBSET Nat) /\ FieldsOK(B, seen2)
           /\ oneof2 \in Seq(OneofStates) /\ OneofsOK(B, oneof2)
<1>1. Grown(S, B) /\ Len(B) = Len(S) + 1 /\ m \in Messages
  <2>1. Len(S) + 1 \in DOMAIN B
    BY LevelIs DEF Deeper
  <2> QED
    BY <2>1, LevelIs, LevelsAre DEF Grown, Deeper
<1> DEFINE D == SUBSET Nat
<1>2. seen \in Seq(D) /\ junk \in D
  BY DEF Pushes
<1>12. /\ FieldsOK(S, seen) /\ oneof \in Seq(OneofStates) /\ OneofsOK(S, oneof)
       /\ seen2 = IF TracksSeen(m) THEN Append(seen, junk) ELSE seen
  BY DEF Pushes
<1> HIDE DEF D
<1>3. Append(seen, junk) \in Seq(D) /\ Len(Append(seen, junk)) = Len(seen) + 1 /\ Len(seen) \in Nat
  BY <1>2, AppendOf
<1>4. /\ seen2 \in Seq(D) /\ Len(seen) \in Nat
      /\ Len(seen2) = Len(seen) + IF TracksSeen(m) THEN 1 ELSE 0
  BY <1>2, <1>3, <1>12
<1>5. Len(seen2) = Len(seen) + IF Deeper(S, B) /\ ~InEntry(B[Len(S) + 1])
                                  /\ TracksSeen(B[Len(S) + 1].type) THEN 1 ELSE 0
  BY <1>4
<1>6. FieldsOK(B, seen2)
  BY <1>1, <1>4, <1>5, <1>12, FieldsGrown
<1> DEFINE e == [o \in Oneofs(m) |-> NoField]
<1>11. oneof2 = IF Oneofs(m) # {} THEN Append(oneof, e) ELSE oneof
  BY DEF Pushes
<1>7. e \in OneofState(m)
  BY DEF OneofState
<1>8. e \in OneofStates
  BY <1>1, <1>7 DEF OneofStates
<1> HIDE DEF e
<1>9. /\ Append(oneof, e) \in Seq(OneofStates) /\ Len(Append(oneof, e)) = Len(oneof) + 1
      /\ Len(oneof) \in Nat
      /\ \A i \in 1..Len(oneof) : Append(oneof, e)[i] = oneof[i]
      /\ Append(oneof, e)[Len(oneof) + 1] = e
  BY <1>8, <1>12, AppendOf
<1>10. oneof2 \in Seq(OneofStates) /\ OneofsOK(B, oneof2)
  <2>1. CASE Oneofs(m) # {}
    <3>1. oneof2 = Append(oneof, e)
      BY <1>11, <2>1
    <3>2. /\ oneof2 \in Seq(OneofStates) /\ Len(oneof2) = Len(oneof) + 1
          /\ \A i \in 1..Len(oneof) : oneof2[i] = oneof[i]
          /\ oneof2[Len(oneof) + 1] = e
      BY <1>9, <3>1, Zenon
    <3>3. oneof2[Len(oneof2)] \in OneofState(m)
      BY <1>7, <3>2
    <3> QED
      BY <1>12, <2>1, <3>2, <3>3, OneofsPushed
  <2>2. CASE Oneofs(m) = {}
    <3>1. oneof2 = oneof
      BY <1>11, <2>2
    <3> QED
      BY <1>1, <1>12, <2>2, <3>1, OneofsGrown
  <2> QED
    BY <2>1, <2>2
<1> QED
  BY <1>4, <1>6, <1>10 DEF D

\* on_start_sub_message pushes what the message needs,
LEMMA StartOwnStacks ==
    ASSUME NEW S, LevelsOK(S, "FIELD"), NEW B, NEW tok2, LevelsOK(B, tok2), Deeper(S, B),
           ~InEntry(B[Len(S) + 1]), ~OpenMap(S[Len(S)]),
           B[Len(S) + 1].type = Schema[S[Len(S)].type][S[Len(S)].field].message,
           NEW c, Sane(c), Stacks(S, c), NEW junk \in SUBSET Nat
    PROVE  LET d == OnStartSubMessage(c, S[Len(S)].field, junk) IN Sane(d) /\ Stacks(B, d)
<1> DEFINE n == Len(S)
           f == S[n].field
           m == B[n + 1].type
           at == TargetPath(c, f)
           node == Hash(m, IF at \in DOMAIN TargetTree(c, f) THEN 2 ELSE 1)
           u == Put(TargetTree(c, f), at, node)
           it2 == TargetItems(c, f)
           seen == IF TracksSeen(m) THEN Append(Marked(c, f), junk) ELSE Marked(c, f)
           oneof == IF Oneofs(m) # {} THEN Append(TargetOneof(c, f), [o \in Oneofs(m) |-> NoField])
                    ELSE TargetOneof(c, f)
           d == OnStartSubMessage(c, f, junk)
<1>1. /\ n \in Nat \ {0} /\ Len(B) = n + 1 /\ ~OpenMap(B[n + 1])
      /\ \A i \in 1..n : B[i] = S[i]
  BY LevelIs DEF Deeper
<1>2. m \in Messages /\ S[n] \in Levels /\ Entered(S[n]) /\ f \in Nat /\ S[n].type \in Messages
  <2>1. n + 1 \in DOMAIN B /\ n \in DOMAIN S
    BY <1>1, LevelIs
  <2> QED
    BY <2>1, LevelIs, LevelsAre DEF LevelsOK
<1>3. InEntry(S[n]) => f = ValueField
  BY <1>2, EntriesAssumption, RootAssumption DEF InEntry, Entered
<1>4. Storing(S, c, f)
  BY <1>3, StoringField
<1>5. /\ IsObject(c) /\ IsCxt(c) /\ Mapper(c) = S[n].type
  BY <1>4 DEF Sane, IsCxt, Storing
<1>6. node \in Nodes /\ Fits(node, m)
  BY <1>2, RootAssumption DEF Hash, Nodes, Fits
<1>7. node.kind = "hash" /\ node.type = m
  BY DEF Hash
<1>8. m = Schema[S[n].type][f].message
  OBVIOUS
<1> HIDE DEF m, node
<1>9. /\ at \in Paths /\ at # <<>> /\ it2 \in ItemSeq /\ it2 # <<>> /\ TreeOK(u)
      /\ ItemsOK(S, it2, u) /\ Last(it2) \in Paths
      /\ at # Value(Last(it2)) /\ IsPrefix(Last(it2), at)
      /\ Last(at)[1] = "value" => at = Last(it2)
      /\ at \in DOMAIN u /\ u[at] = node
  BY <1>4, <1>6, <1>8, Store
<1>10. d = Object(Append(c.mappers, m), Append(it2, at), c.mapKeys, seen, oneof, TracksSeen(m), u,
                  c.missing, c.crashed)
  <2>1. IsObject(c) /\ m = Schema[Mapper(c)][f].message
    BY <1>5, <1>8
  <2> HIDE DEF n, f, at, u, it2, seen, oneof, d
  <2>2. OnStartSubMessage(c, f, junk) =
               Object(Append(c.mappers, m), Append(TargetItems(c, f), TargetPath(c, f)), c.mapKeys,
                      IF TracksSeen(m) THEN Append(Marked(c, f), junk) ELSE Marked(c, f),
                      IF Oneofs(m) # {}
                      THEN Append(TargetOneof(c, f), [o \in Oneofs(m) |-> NoField])
                      ELSE TargetOneof(c, f),
                      TracksSeen(m),
                      Put(TargetTree(c, f), TargetPath(c, f),
                          Hash(m, IF TargetPath(c, f) \in DOMAIN TargetTree(c, f) THEN 2 ELSE 1)),
                      c.missing, c.crashed)
    BY <2>1, OnStartSubMessageIs
  <2> QED
    BY <2>2 DEF n, f, at, u, it2, seen, oneof, d, node
<1> HIDE DEF at, u, it2, d
<1>11. ItemsOK(B, Append(it2, at), u)
  BY <1>7, <1>9, EnterOwn DEF m
<1>12. Append(it2, at) \in ItemSeq
  <2>1. at \in Paths \cup {NULL}
    BY <1>9
  <2> QED
    BY <1>9, <2>1, ItemStack
<1>13. /\ Marked(c, f) \in Seq(SUBSET Nat) /\ FieldsOK(S, Marked(c, f))
       /\ TargetOneof(c, f) \in Seq(OneofStates) /\ OneofsOK(S, TargetOneof(c, f))
  <2>1. Marked(c, f) \in Seq(SUBSET Nat) /\ Len(Marked(c, f)) = Len(c.seenFields)
    BY <1>2, <1>5, MarkedIs
  <2>2. FieldsOK(S, Marked(c, f))
    BY <2>1 DEF FieldsOK, Stacks, SeenOK
  <2> QED
    BY <1>4, <1>5, <2>1, <2>2, TargetOneofIs
<1>14. /\ seen \in Seq(SUBSET Nat) /\ FieldsOK(B, seen)
       /\ oneof \in Seq(OneofStates) /\ OneofsOK(B, oneof)
  <2> DEFINE low == Marked(c, f)
             lower == TargetOneof(c, f)
             D == SUBSET Nat
  <2>1. m = B[Len(S) + 1].type
    BY DEF m
  <2>2. low \in Seq(SUBSET Nat) /\ FieldsOK(S, low) /\ lower \in Seq(OneofStates) /\ OneofsOK(S, lower)
    BY <1>13
  <2>3. /\ seen = IF TracksSeen(m) THEN Append(low, junk) ELSE low
        /\ oneof = IF Oneofs(m) # {} THEN Append(lower, [o \in Oneofs(m) |-> NoField]) ELSE lower
    OBVIOUS
  <2> HIDE DEF low, lower, seen, oneof
  <2>4. Pushes(S, m, low, junk, lower, seen, oneof)
    BY <2>2, <2>3 DEF Pushes
  <2> QED
    BY <2>1, <2>4, PushedSeen
<1>15. /\ Append(c.mappers, m) \in Seq(Messages) /\ Len(Append(c.mappers, m)) = Len(c.mappers) + 1
       /\ \A i \in 1..Len(c.mappers) : Append(c.mappers, m)[i] = c.mappers[i]
       /\ Append(c.mappers, m)[Len(c.mappers) + 1] = m /\ Last(Append(c.mappers, m)) = m
       /\ Append(c.mappers, m) # <<>> /\ Len(c.mappers) \in Nat
  BY <1>2, <1>5, MapperPushed DEF IsCxt
<1> HIDE DEF seen, oneof
<1>16. /\ IsObject(d) /\ d.mappers = Append(c.mappers, m) /\ d.items = Append(it2, at)
       /\ d.mapKeys = c.mapKeys /\ d.seenFields = seen /\ d.seenOneof = oneof
       /\ d.track = TracksSeen(m) /\ d.tree = u /\ d.missing = c.missing /\ d.crashed = c.crashed
  BY <1>10 DEF IsObject, Object
<1>17. /\ Len(c.mappers) = n /\ \A i \in DOMAIN S : c.mappers[i] = S[i].type
  <2>1. Len(c.mappers) = n + 0 /\ \A i \in DOMAIN S : c.mappers[i] = S[i].type
    BY DEF Stacks, MappersOK
  <2> QED
    BY <1>1, <2>1
<1>18. Sane(d)
  <2>1. d.mappers[1] \in Roots
    BY <1>1, <1>5, <1>15, <1>16, <1>17 DEF IsCxt
  <2> QED
    BY <1>2, <1>5, <1>9, <1>12, <1>14, <1>15, <1>16, <2>1, TracksBoolean DEF Sane, IsCxt, ItemSeq
<1>19. MappersOK(B, d)
  <2>1. DOMAIN S = 1..n /\ DOMAIN B = 1..(n + 1)
    BY <1>1, LevelIs
  <2>2. \A i \in 1..(n + 1) : i \in 1..n \/ i = n + 1
    BY <1>1
  <2>3. ASSUME NEW i \in DOMAIN B PROVE d.mappers[i] = B[i].type
    <3>1. CASE i \in 1..n
      BY <1>1, <1>15, <1>16, <1>17, <2>1, <3>1
    <3>2. CASE i = n + 1
      BY <1>15, <1>16, <1>17, <3>2 DEF m
    <3> QED
      BY <2>1, <2>2, <3>1, <3>2
  <2>4. d.track = TracksSeen(Mapper(d))
    BY <1>15, <1>16 DEF Mapper
  <2>5. Len(d.mappers) = Len(B) + 0
    BY <1>1, <1>15, <1>16, <1>17
  <2> QED
    BY <1>1, <2>3, <2>4, <2>5 DEF MappersOK
<1>20. SeenOK(B, d)
  <2>1. Cardinality(MapsOf(B)) = Cardinality(MapsOf(S)) + 0 /\ Cardinality(MapsOf(S)) \in Nat
    BY GrownCounts DEF Grown, Opened, Deeper
  <2>2. Len(c.mapKeys) = Cardinality(MapsOf(S))
    BY DEF Stacks, SeenOK
  <2> QED
    BY <1>14, <1>16, <2>1, <2>2 DEF SeenOK
<1>21. Stacks(B, d)
  BY <1>11, <1>16, <1>19, <1>20 DEF Stacks
<1> QED
  BY <1>18, <1>21 DEF d

\* and so the step keeps them.
LEMMA StartMessageStep ==
    ASSUME LevelsOK(levels, token), Sane(cxt), Stacks(levels, cxt), StartMessage
    PROVE  /\ LevelsOK(levels', token') /\ Sane(cxt') /\ Stacks(levels', cxt')
           /\ PendingOK(levels', token', cxt')
<1> DEFINE n == Len(levels)
           top == levels[n]
           B == levels'
<1>1. /\ LevelsOK(B, "none") /\ token' = "none" /\ Deeper(levels, B)
      /\ LevelsOK(levels, "FIELD")
      /\ B[Len(B)].type = Schema[top.type][top.field].message /\ B[Len(B)].type \in Messages
      /\ InEntry(B[Len(B)]) => OpenMap(top)
      /\ ~InEntry(B[Len(B)]) => ~OpenMap(top)
  BY EnterLevels DEF StartMessage
<1>2. Len(B) = n + 1 /\ ~OpenMap(B[Len(B)])
  BY <1>1 DEF Deeper
<1>3. PendingOK(B, "none", cxt')
  BY <1>2 DEF PendingOK
<1>4. CASE InEntry(B[Len(B)])
  <2>1. cxt' = cxt
    BY <1>4 DEF StartMessage, Last
  <2>2. Stacks(B, cxt)
    BY <1>1, <1>2, <1>4, EnterEntryStacks
  <2> QED
    BY <1>1, <1>3, <2>1, <2>2
<1>5. CASE ~InEntry(B[Len(B)])
  <2>1. PICK junk \in Junk(B[Len(B)].type) : cxt' = OnStartSubMessage(cxt, top.field, junk)
    BY <1>5 DEF StartMessage, Current, Last
  <2>2. junk \in SUBSET Nat
    BY <2>1 DEF Junk, KeyField, ValueField
  <2>3. Sane(cxt') /\ Stacks(B, cxt')
    BY <1>1, <1>2, <1>5, <2>1, <2>2, StartOwnStacks
  <2> QED
    BY <1>1, <1>3, <2>3
<1> QED
  BY <1>4, <1>5

\* The stacks of what has been seen, once a message has been left.
LEMMA PoppedSeen ==
    ASSUME NEW S, NEW tok, LevelsOK(S, tok), NEW B, NEW tok2, LevelsOK(B, tok2), Deeper(S, B),
           ~InEntry(B[Len(S) + 1]), NEW c, IsCxt(c), Stacks(B, c), NEW seen2, NEW oneof2,
           seen2 = IF c.track THEN Front(c.seenFields) ELSE c.seenFields,
           oneof2 = IF Oneofs(Mapper(c)) # {} THEN Front(c.seenOneof) ELSE c.seenOneof
    PROVE  /\ seen2 \in Seq(SUBSET Nat) /\ FieldsOK(S, seen2)
           /\ oneof2 \in Seq(OneofStates) /\ OneofsOK(S, oneof2)
<1> DEFINE m == B[Len(S) + 1].type
           seen == c.seenFields
           oneof == c.seenOneof
<1>1. Grown(S, B) /\ Len(B) = Len(S) + 1 /\ ~OpenMap(B[Len(B)])
  BY DEF Grown, Deeper
<1>2. /\ seen \in Seq(SUBSET Nat) /\ oneof \in Seq(OneofStates)
      /\ FieldsOK(B, seen) /\ OneofsOK(B, oneof) /\ MappersOK(B, c)
      /\ c.mappers \in Seq(Messages) /\ c.mappers # <<>>
  BY DEF IsCxt, Stacks, SeenOK
<1>3. Mapper(c) = m /\ c.track = TracksSeen(m)
  <2>1. Mapper(c) = m
    BY <1>1, <1>2, MapperIs
  <2> QED
    BY <1>2, <2>1 DEF MappersOK
<1>4. c.track => seen # <<>>
  BY <1>2, TrackIs
<1>5. /\ seen2 \in Seq(SUBSET Nat) /\ Len(seen2) \in Nat
      /\ Len(seen) = Len(seen2) + IF TracksSeen(m) THEN 1 ELSE 0
  <2> DEFINE D == SUBSET Nat
  <2>0. seen \in Seq(D) /\ seen2 = IF c.track THEN Front(seen) ELSE seen
    BY <1>2
  <2> HIDE DEF D, seen
  <2>1. CASE c.track
    <3>1. seen # <<>> /\ TracksSeen(m)
      BY <1>3, <1>4, <2>1
    <3>2. /\ Front(seen) \in Seq(D) /\ Len(Front(seen)) = Len(seen) - 1 /\ Len(seen) \in Nat \ {0}
      BY <2>0, <3>1, FrontOf
    <3>3. seen2 = Front(seen)
      BY <2>0, <2>1
    <3>4. Len(seen2) \in Nat /\ Len(seen) = Len(seen2) + 1
      BY <3>2, <3>3
    <3> QED
      BY <3>1, <3>2, <3>3, <3>4 DEF D
  <2>2. CASE ~c.track
    <3>1. seen2 = seen /\ ~TracksSeen(m)
      BY <1>3, <2>0, <2>2
    <3>2. Len(seen) \in Nat
      BY <2>0, LenProperties
    <3> QED
      BY <2>0, <3>1, <3>2 DEF D
  <2> QED
    BY <2>1, <2>2
<1>6. FieldsOK(S, seen2)
  BY <1>1, <1>2, <1>5, FieldsGrown DEF Deeper
<1>7. oneof2 \in Seq(OneofStates) /\ OneofsOK(S, oneof2)
  <2>1. CASE Oneofs(m) # {}
    <3>1. oneof2 = Front(oneof)
      BY <1>3, <2>1
    <3>2. oneof # <<>>
      BY <1>1, <1>2, <2>1, OneofsTop
    <3> HIDE DEF oneof
    <3>3. /\ Front(oneof) \in Seq(OneofStates) /\ Len(Front(oneof)) = Len(oneof) - 1
          /\ Len(oneof) \in Nat \ {0}
          /\ \A i \in 1..(Len(oneof) - 1) : Front(oneof)[i] = oneof[i]
      BY <1>2, <3>2, FrontOf
    <3>4. Len(oneof) = Len(oneof2) + 1 /\ Len(oneof2) = Len(oneof) - 1
      BY <3>1, <3>3
    <3>5. \A i \in 1..Len(oneof2) : oneof[i] = oneof2[i]
      BY <3>1, <3>3, <3>4
    <3>6. oneof2 \in Seq(OneofStates)
      BY <3>1, <3>3
    <3> QED
      BY <1>2, <2>1, <3>4, <3>5, <3>6, OneofsPushed
  <2>2. CASE Oneofs(m) = {}
    <3>1. oneof2 = oneof
      BY <1>3, <2>2
    <3> QED
      BY <1>1, <1>2, <2>2, <3>1, OneofsGrown
  <2> QED
    BY <2>1, <2>2
<1> QED
  BY <1>5, <1>6, <1>7

\* on_end_sub_message pops it,
LEMMA EndOwnStacks ==
    ASSUME NEW S, NEW tok, LevelsOK(S, tok), NEW B, NEW tok2, LevelsOK(B, tok2), Deeper(S, B),
           ~InEntry(B[Len(S) + 1]), ~OpenMap(S[Len(S)]), NEW c, Sane(c), Stacks(B, c)
    PROVE  Sane(OnEndSubMessage(c)) /\ Stacks(S, OnEndSubMessage(c))
<1> DEFINE n == Len(S)
           seen == IF c.track THEN Front(c.seenFields) ELSE c.seenFields
           oneof == IF Oneofs(Mapper(c)) # {} THEN Front(c.seenOneof) ELSE c.seenOneof
           d == OnEndSubMessage(c)
<1>1. /\ n \in Nat \ {0} /\ Len(B) = n + 1 /\ ~OpenMap(B[n + 1]) /\ ~OpenList(B[n + 1])
      /\ \A i \in 1..n : B[i] = S[i]
  BY LevelIs DEF Deeper
<1>2. /\ IsObject(c) /\ IsCxt(c) /\ c.items \in ItemSeq /\ DOMAIN c.tree \subseteq Paths
      /\ ItemsOK(B, c.items, c.tree)
  BY DEF Sane, IsCxt, ItemSeq, TreeOK, Shaped, IsTree, Stacks
<1>3. c.items # <<>>
  <2>1. ~Free(B) /\ ~OpenList(B[Len(B)])
    BY <1>1 DEF Free
  <2>2. Len(c.items) \in Nat \ {0}
    BY <1>2, <2>1, TopHash
  <2> QED
    BY <2>2
<1>4. ItemsOK(S, Front(c.items), c.tree)
  BY <1>2, <1>3, LeaveOwn
<1>5. Front(c.items) \in ItemSeq
  BY <1>2, <1>3, ItemStack
<1>6. d = Object(Front(c.mappers), Front(c.items), c.mapKeys, seen, oneof,
                 TracksSeen(Last(Front(c.mappers))), c.tree, c.missing, c.crashed)
  BY <1>2, OnEndSubMessageIs
<1>7. /\ seen \in Seq(SUBSET Nat) /\ FieldsOK(S, seen)
      /\ oneof \in Seq(OneofStates) /\ OneofsOK(S, oneof)
  BY <1>2, PoppedSeen
<1> HIDE DEF d, seen, oneof
<1>8. /\ IsObject(d) /\ d.mappers = Front(c.mappers) /\ d.items = Front(c.items)
      /\ d.mapKeys = c.mapKeys /\ d.seenFields = seen /\ d.seenOneof = oneof
      /\ d.track = TracksSeen(Last(Front(c.mappers))) /\ d.tree = c.tree /\ d.missing = c.missing
      /\ d.crashed = c.crashed
  BY <1>6 DEF IsObject, Object
<1>9. Len(c.mappers) = n + 1 /\ \A i \in DOMAIN B : c.mappers[i] = B[i].type
  <2>1. Len(c.mappers) = Len(B) + 0 /\ \A i \in DOMAIN B : c.mappers[i] = B[i].type
    BY <1>1 DEF Stacks, MappersOK
  <2> QED
    BY <1>1, <2>1
<1>10. /\ Front(c.mappers) \in Seq(Messages) /\ Len(Front(c.mappers)) = Len(c.mappers) - 1
       /\ Front(c.mappers) # <<>> /\ \A i \in 1..(Len(c.mappers) - 1) : Front(c.mappers)[i] = c.mappers[i]
       /\ Front(c.mappers)[1] \in Roots /\ Last(Front(c.mappers)) \in Messages
  <2>1. Len(c.mappers) > 1 /\ c.mappers \in Seq(Messages) /\ c.mappers[1] \in Roots
    BY <1>1, <1>2, <1>9 DEF IsCxt
  <2> QED
    BY <2>1, MapperPopped
<1>11. Sane(d)
  BY <1>2, <1>5, <1>7, <1>8, <1>10, TracksBoolean DEF Sane, IsCxt, ItemSeq
<1>12. MappersOK(S, d)
  <2>1. DOMAIN S = 1..n /\ DOMAIN B = 1..(n + 1)
    BY <1>1, LevelIs
  <2>2. Len(c.mappers) - 1 = n /\ \A i \in 1..n : i \in 1..(n + 1)
    BY <1>1, <1>9
  <2>3. ASSUME NEW i \in DOMAIN S PROVE d.mappers[i] = S[i].type
    <3>1. i \in 1..n /\ i \in DOMAIN B
      BY <2>1, <2>2
    <3> QED
      BY <1>1, <1>8, <1>9, <1>10, <2>2, <3>1
  <2>4. d.track = TracksSeen(Mapper(d))
    BY <1>8 DEF Mapper
  <2>5. Len(d.mappers) = Len(S) + 0
    BY <1>1, <1>8, <1>10, <2>2
  <2> QED
    BY <2>3, <2>4, <2>5 DEF MappersOK
<1>13. SeenOK(S, d)
  <2>1. Cardinality(MapsOf(B)) = Cardinality(MapsOf(S)) + 0 /\ Cardinality(MapsOf(S)) \in Nat
    BY GrownCounts DEF Grown, Opened, Deeper
  <2>2. Len(c.mapKeys) = Cardinality(MapsOf(B))
    BY DEF Stacks, SeenOK
  <2> QED
    BY <1>7, <1>8, <2>1, <2>2 DEF SeenOK
<1>14. Stacks(S, d)
  BY <1>4, <1>8, <1>12, <1>13 DEF Stacks
<1> QED
  BY <1>11, <1>14 DEF d

\* The end of an entry leaves the level of the entry and the value of the map.
LEMMA EndEntryStacks ==
    ASSUME NEW L, NEW tok, LevelsOK(L, tok), InEntry(L[Len(L)]), NEW c, Sane(c), Stacks(L, c)
    PROVE  LET d == OnEndMapEntry(c)
           IN  Sane(d) /\ Stacks(L, d) /\ Last(d.mapKeys) = NoKey /\ Last(d.items) = NULL
<1> DEFINE keys == SetLast(c.mapKeys, NoKey)
           it2 == SetLast(c.items, NULL)
           u == EntryTree(c)
           seen == Forgotten(c)
           d == OnEndMapEntry(c)
<1>1. Free(L) /\ ~OpenMap(L[Len(L)])
  <2>1. Len(L) \in DOMAIN L
    BY LevelIs
  <2> QED
    BY <2>1, LevelIs DEF Free
<1>2. /\ IsObject(c) /\ IsCxt(c) /\ c.items \in ItemSeq /\ TreeOK(c.tree)
      /\ ItemsOK(L, c.items, c.tree) /\ MappersOK(L, c) /\ SeenOK(L, c)
      /\ c.mappers \in Seq(Messages) /\ c.mappers # <<>>
  BY DEF Sane, IsCxt, ItemSeq, Stacks
<1>3. /\ Last(c.mapKeys) \in [key: Keys] \cup {NoKey}
      /\ keys \in Seq([key: Keys] \cup {NoKey}) /\ Len(keys) = Len(c.mapKeys) /\ Last(keys) = NoKey
  BY <1>1, <1>2, KeysIs
<1>4. Mapper(c) = L[Len(L)].type
  BY <1>1, <1>2, MapperIs
<1>5. /\ it2 \in ItemSeq /\ it2 # <<>> /\ Last(it2) = NULL /\ TreeOK(u) /\ ItemsOK(L, it2, u)
  BY <1>2, <1>3, <1>4, EntryKept
<1>6. seen \in Seq(SUBSET Nat) /\ Len(seen) = Len(c.seenFields)
  <2>1. CASE c.track
    <3>1. /\ Last(c.seenFields) \in SUBSET Nat
          /\ \A s \in SUBSET Nat : /\ SetLast(c.seenFields, s) \in Seq(SUBSET Nat)
                                   /\ Len(SetLast(c.seenFields, s)) = Len(c.seenFields)
      BY <1>2, <2>1, TrackIs DEF IsCxt, SeenOK
    <3>2. Last(c.seenFields) \ {ValueField} \in SUBSET Nat
      BY <3>1
    <3> QED
      BY <1>2, <3>1, <3>2 DEF Forgotten, IsCxt
  <2>2. CASE ~c.track
    BY <1>2, <2>2 DEF Forgotten, IsCxt
  <2> QED
    BY <2>1, <2>2
<1>7. d = Object(c.mappers, it2, keys, seen, c.seenOneof, c.track, u, c.missing, c.crashed)
  BY <1>2, OnEndMapEntryIs
<1> HIDE DEF d, it2, keys, seen, u
<1>8. /\ IsObject(d) /\ d.mappers = c.mappers /\ d.items = it2 /\ d.mapKeys = keys
      /\ d.seenFields = seen /\ d.seenOneof = c.seenOneof /\ d.track = c.track
      /\ d.tree = u /\ d.missing = c.missing /\ d.crashed = c.crashed
  BY <1>7 DEF IsObject, Object
<1>9. Sane(d)
  BY <1>2, <1>3, <1>5, <1>6, <1>8 DEF Sane, IsCxt, ItemSeq
<1>10. MappersOK(L, d)
  BY <1>2, <1>8 DEF MappersOK, Mapper
<1>11. SeenOK(L, d)
  BY <1>2, <1>3, <1>6, <1>8 DEF SeenOK, FieldsOK
<1>12. Stacks(L, d)
  BY <1>5, <1>8, <1>10, <1>11 DEF Stacks
<1>13. Last(d.mapKeys) = NoKey /\ Last(d.items) = NULL
  BY <1>3, <1>5, <1>8
<1> QED
  BY <1>9, <1>12, <1>13 DEF d

\* and so the step keeps them.
LEMMA EndMessageStep ==
    ASSUME LevelsOK(levels, token), Sane(cxt), Stacks(levels, cxt), EndMessage
    PROVE  /\ LevelsOK(levels', token') /\ Sane(cxt') /\ Stacks(levels', cxt')
           /\ PendingOK(levels', token', cxt')
<1> DEFINE n == Len(levels)
           top == levels[n]
           S == levels'
<1>1. /\ LevelsOK(S, "none") /\ token' = "none" /\ Deeper(S, levels) /\ n = Len(S) + 1
      /\ InEntry(top) <=> OpenMap(S[Len(S)])
  BY LeaveLevels DEF EndMessage
<1>2. cxt' = IF InEntry(top) THEN OnEndMapEntry(cxt) ELSE OnEndSubMessage(cxt)
  BY DEF EndMessage, Current, Last
<1>3. CASE InEntry(top)
  <2>1. cxt' = OnEndMapEntry(cxt)
    BY <1>2, <1>3
  <2>2. /\ Sane(cxt') /\ Stacks(levels, cxt') /\ Last(cxt'.mapKeys) = NoKey
        /\ Last(cxt'.items) = NULL
    BY <1>3, <2>1, EndEntryStacks
  <2>3. top.type = Schema[S[Len(S)].type][S[Len(S)].field].message
    <3>1. Len(S) \in DOMAIN levels /\ Len(S) < n /\ levels[Len(S)] = S[Len(S)]
      BY <1>1, LevelIs DEF Deeper
    <3> QED
      BY <1>1, <3>1 DEF LevelsOK
  <2>4. Stacks(S, cxt')
    BY <1>1, <1>3, <2>2, <2>3, EnterEntryStacks
  <2> QED
    BY <1>1, <2>2, <2>4 DEF PendingOK
<1>4. CASE ~InEntry(top)
  <2>1. cxt' = OnEndSubMessage(cxt)
    BY <1>2, <1>4
  <2>2. Sane(cxt') /\ Stacks(S, cxt')
    BY <1>1, <1>4, <2>1, EndOwnStacks
  <2>3. ~OpenMap(S[Len(S)])
    BY <1>1, <1>4
  <2> QED
    BY <1>1, <2>2, <2>3 DEF PendingOK
<1> QED
  BY <1>3, <1>4

----------------------------------------------------------------------------
(* The end of a message, and of a call.                                           *)

\* Among numbers there is a least,
LEMMA LeastOf ==
    ASSUME NEW S \in SUBSET Nat, S # {}
    PROVE  \E n \in S : \A m \in S : n <= m
<1> DEFINE R == {ss \in Nat \X Nat : ss[1] < ss[2]}
<1>1. OpToRel(<, Nat) = R
  BY DEF OpToRel
<1>2. IsWellFoundedOn(R, Nat)
  BY <1>1, NatLessThanWellFounded
<1>3. PICK n \in S : \A m \in S : ~(<<m, n>> \in R)
  <2> HIDE DEF R
  <2> QED
    BY <1>2, WFMin
<1>4. \A m \in S : <<m, n>> \in Nat \X Nat /\ ~(m < n)
  BY <1>3
<1>5. ASSUME NEW m \in S PROVE n <= m
  <2>1. m \in Nat /\ n \in Nat
    OBVIOUS
  <2>2. ~(m < n)
    BY <1>4
  <2> QED
    BY <2>1, <2>2
<1> QED
  BY <1>5

\* so there is a first field that is missing.
LEMMA MissingIs ==
    ASSUME NEW c, Mapper(c) \in Messages, MissingRequired(c) # {}
    PROVE  LET f == CHOOSE f \in MissingRequired(c) : \A g \in MissingRequired(c) : f <= g
           IN  f \in MissingRequired(c) /\ f \in FieldsOf(Mapper(c)) /\ f \in Nat \ {NoField}
<1>1. MissingRequired(c) \subseteq FieldsOf(Mapper(c))
  BY DEF MissingRequired, Required
<1>2. FieldsOf(Mapper(c)) \subseteq Nat \ {NoField}
  BY SchemaAssumption
<1>3. \E f \in MissingRequired(c) : \A g \in MissingRequired(c) : f <= g
  <2>1. MissingRequired(c) \in SUBSET Nat
    BY <1>1, <1>2
  <2> QED
    BY <2>1, LeastOf
<1> DEFINE f == CHOOSE f \in MissingRequired(c) : \A g \in MissingRequired(c) : f <= g
<1>4. f \in MissingRequired(c)
  BY <1>3
<1> QED
  BY <1>1, <1>2, <1>4

\* The default of an entry,
LEMMA DefaultEntryStacks ==
    ASSUME NEW L, NEW tok, LevelsOK(L, tok), InEntry(L[Len(L)]), NEW c, Sane(c), Stacks(L, c)
    PROVE  Sane(DefaultEntry(c)) /\ Stacks(L, DefaultEntry(c))
<1> DEFINE d == DefaultEntry(c)
           keys == DefaultKeys(c)
           v == ValueField \in ToDefault(c)
<1>1. Free(L) /\ ~OpenMap(L[Len(L)])
  <2>1. Len(L) \in DOMAIN L
    BY LevelIs
  <2> QED
    BY <2>1, LevelIs DEF Free
<1>2. /\ IsObject(c) /\ IsCxt(c) /\ c.mappers \in Seq(Messages) /\ c.mappers # <<>> /\ MappersOK(L, c)
      /\ c.seenFields \in Seq(SUBSET Nat) /\ c.missing \in Nat /\ c.crashed \in BOOLEAN
      /\ c.mapKeys \in Seq([key: Keys] \cup {NoKey})
  BY DEF Sane, IsCxt, Stacks
<1>3. Mapper(c) = L[Len(L)].type
  BY <1>1, <1>2, MapperIs
<1>4. keys \in Seq([key: Keys] \cup {NoKey}) /\ Len(keys) = Len(c.mapKeys)
  <2>1. [key |-> DefaultKey] \in [key: Keys] \cup {NoKey}
    BY KeysAssumption
  <2>2. /\ SetLast(c.mapKeys, [key |-> DefaultKey]) \in Seq([key: Keys] \cup {NoKey})
        /\ Len(SetLast(c.mapKeys, [key |-> DefaultKey])) = Len(c.mapKeys)
    BY <1>1, <1>2, <2>1, KeysIs
  <2> QED
    BY <1>2, <2>2 DEF DefaultKeys
<1>5. d = Object(c.mappers, IF v THEN TargetItems(c, ValueField) ELSE c.items, keys, c.seenFields,
                 IF v THEN TargetOneof(c, ValueField) ELSE c.seenOneof, c.track,
                 IF v THEN Put(TargetTree(c, ValueField), TargetPath(c, ValueField), Default)
                 ELSE c.tree,
                 c.missing, c.crashed)
  BY <1>2, DefaultEntryIs
<1>6. CASE v
  <2>1. Storing(L, c, ValueField)
    BY StoringValue
  <2>2. Schema[L[Len(L)].type][ValueField].message = NoMessage
    BY <1>3, <1>6 DEF ToDefault, HasDefault
  <2>3. Default \in Nodes /\ Fits(Default, Schema[L[Len(L)].type][ValueField].message)
    BY <2>2 DEF Default, Leaf, Nodes, Fits
  <2>4. d = Object(c.mappers, TargetItems(c, ValueField), keys, c.seenFields,
                   TargetOneof(c, ValueField), c.track,
                   Put(TargetTree(c, ValueField), TargetPath(c, ValueField), Default),
                   c.missing, c.crashed)
    BY <1>5, <1>6
  <2> HIDE DEF d, keys
  <2>5. Sane(d) /\ Stacks(L, d)
    BY <1>2, <1>4, <2>1, <2>3, <2>4, StoreStacks
  <2> QED
    BY <2>5 DEF d
<1>7. CASE ~v
  <2>1. d = Object(c.mappers, c.items, keys, c.seenFields, c.seenOneof, c.track, c.tree, c.missing,
                   c.crashed)
    BY <1>5, <1>7
  <2> HIDE DEF d, keys
  <2>2. Sane(d) /\ Stacks(L, d)
    BY <1>2, <1>4, <2>1, SameItems
  <2> QED
    BY <2>2 DEF d
<1> QED
  BY <1>6, <1>7

\* those of a message,
LEMMA DefaultFieldsStacks ==
    ASSUME NEW L, NEW tok, LevelsOK(L, tok), ~Free(L), ~OpenList(L[Len(L)]), NEW c, Sane(c),
           Stacks(L, c)
    PROVE  Sane(DefaultFields(c)) /\ Stacks(L, DefaultFields(c))
<1> DEFINE d == DefaultFields(c)
           u == PutAll(c.tree, DefaultPaths(c), Default)
<1>1. /\ IsObject(c) /\ IsCxt(c) /\ c.mappers \in Seq(Messages) /\ c.mappers # <<>> /\ MappersOK(L, c)
      /\ c.items \in ItemSeq /\ ItemsOK(L, c.items, c.tree) /\ TreeOK(c.tree) /\ SeenOK(L, c)
  BY DEF Sane, IsCxt, Stacks, ItemSeq
<1>2. Mapper(c) = L[Len(L)].type
  BY <1>1, MapperIs DEF Free
<1>3. TreeOK(u) /\ ItemsOK(L, c.items, u)
  BY <1>1, <1>2, DefaultsKept
<1>4. d = Object(c.mappers, c.items, c.mapKeys, c.seenFields, c.seenOneof, c.track, u, c.missing,
                 c.crashed)
  BY <1>1, DefaultFieldsIs
<1> HIDE DEF d, u
<1>5. /\ IsObject(d) /\ d.mappers = c.mappers /\ d.items = c.items /\ d.mapKeys = c.mapKeys
      /\ d.seenFields = c.seenFields /\ d.seenOneof = c.seenOneof /\ d.track = c.track
      /\ d.tree = u /\ d.missing = c.missing /\ d.crashed = c.crashed
  BY <1>4 DEF IsObject, Object
<1>6. Sane(d)
  BY <1>1, <1>3, <1>5 DEF Sane, IsCxt
<1>7. MappersOK(L, d)
  BY <1>1, <1>5 DEF MappersOK, Mapper
<1>8. SeenOK(L, d)
  BY <1>1, <1>5 DEF SeenOK
<1> QED
  BY <1>3, <1>5, <1>6, <1>7, <1>8 DEF Stacks, d

\* and both, on_end_message.
LEMMA EndOfMessageStacks ==
    ASSUME NEW L, NEW tok, LevelsOK(L, tok), ~OpenMap(L[Len(L)]), ~OpenList(L[Len(L)]), NEW c,
           Sane(c), Stacks(L, c)
    PROVE  Sane(OnEndMessage(c)) /\ Stacks(L, OnEndMessage(c))
<1>1. /\ IsObject(c) /\ IsCxt(c) /\ c.mappers \in Seq(Messages) /\ c.mappers # <<>> /\ MappersOK(L, c)
      /\ c.seenFields \in Seq(SUBSET Nat) /\ c.missing \in Nat /\ c.crashed \in BOOLEAN
      /\ c.mapKeys \in Seq([key: Keys] \cup {NoKey})
  BY DEF Sane, IsCxt, Stacks
<1>2. Mapper(c) = L[Len(L)].type /\ Mapper(c) \in Messages
  BY <1>1, MapperIs
<1>3. CASE ~c.track
  BY <1>3 DEF OnEndMessage
<1>4. CASE c.track /\ MissingRequired(c) # {}
  <2> DEFINE f == CHOOSE f \in MissingRequired(c) : \A g \in MissingRequired(c) : f <= g
             d == OnEndMessage(c)
  <2>1. f \in Nat
    BY <1>2, <1>4, MissingIs
  <2>2. d = [c EXCEPT !.missing = f]
    BY <1>4 DEF OnEndMessage
  <2> HIDE DEF f, d
  <2>3. d = Object(c.mappers, c.items, c.mapKeys, c.seenFields, c.seenOneof, c.track, c.tree, f,
                   c.crashed)
    BY <1>1, <2>2 DEF IsObject, Object
  <2>4. Sane(d) /\ Stacks(L, d)
    BY <1>1, <2>1, <2>3, SameItems
  <2> QED
    BY <2>4 DEF d
<1>5. CASE c.track /\ MissingRequired(c) = {} /\ Mapper(c) \in Entries
  <2>1. OnEndMessage(c) = DefaultEntry(c)
    BY <1>5 DEF OnEndMessage
  <2>2. InEntry(L[Len(L)])
    BY <1>2, <1>5 DEF InEntry
  <2> QED
    BY <2>1, <2>2, DefaultEntryStacks
<1>6. CASE c.track /\ MissingRequired(c) = {} /\ Mapper(c) \notin Entries
  <2>1. OnEndMessage(c) = DefaultFields(c)
    BY <1>6 DEF OnEndMessage
  <2>2. ~Free(L)
    BY <1>2, <1>6 DEF InEntry, Free
  <2> QED
    BY <2>1, <2>2, DefaultFieldsStacks
<1> QED
  BY <1>3, <1>4, <1>5, <1>6

\* clear leaves the tree.
LEMMA ClearedSane ==
    ASSUME NEW c, Sane(c)
    PROVE  /\ Sane(Cleared(c)) /\ Cleared(c).items = <<>> /\ Cleared(c).tree = c.tree
           /\ Cleared(c).missing = c.missing
<1> DEFINE d == Cleared(c)
<1>1. IsObject(c) /\ IsCxt(c) /\ TreeOK(c.tree)
  BY DEF Sane, IsCxt
<1>2. d = Object(c.mappers, <<>>, <<>>, c.seenFields, c.seenOneof, c.track, c.tree, c.missing,
                 c.crashed)
  BY <1>1, ClearedIs
<1> HIDE DEF d
<1>3. /\ IsObject(d) /\ d.mappers = c.mappers /\ d.items = <<>> /\ d.mapKeys = <<>>
      /\ d.seenFields = c.seenFields /\ d.seenOneof = c.seenOneof /\ d.track = c.track
      /\ d.tree = c.tree /\ d.missing = c.missing /\ d.crashed = c.crashed
  BY <1>2 DEF IsObject, Object
<1>4. \A T : <<>> \in Seq(T)
  BY EmptySeq
<1>5. Sane(d)
  BY <1>1, <1>3, <1>4 DEF Sane, IsCxt
<1> QED
  BY <1>3, <1>5 DEF d

\* A message that ends on its own level has no pending value around it.
LEMMA NoValueLeft ==
    ASSUME NEW L, NEW tok, LevelsOK(L, tok), Len(L) = 1, ~OpenMap(L[Len(L)]), ~OpenList(L[Len(L)]),
           NEW it, NEW t, ItemsOK(L, it, t), it \in ItemSeq
    PROVE  Values(t) = {}
<1>1. HeightOf(L, 1) = HeightOf(L, 0) + Weight(L[1]) /\ HeightOf(L, 0) = 0
  <2>1. 1 \in 1..Len(L)
    BY LevelIs
  <2>2. HeightOf(L, 1) = HeightOf(L, 1 - 1) + Weight(L[1])
    BY <2>1, HeightIs DEF LevelsOK
  <2>3. 1 - 1 = 0
    OBVIOUS
  <2> QED
    BY <2>2, <2>3, HeightIs DEF LevelsOK
<1>2. Weight(L[1]) = 1
  BY LevelIs DEF Weight
<1>3. Len(it) = 1 /\ it[1] = <<>> /\ Chain(it, t)
  BY <1>1, <1>2 DEF ItemsOK
<1>4. DOMAIN it = {1}
  BY <1>3, ItemsIn
<1> QED
  BY <1>3, <1>4 DEF Chain, Values

----------------------------------------------------------------------------
(* The start of a call.                                                           *)

\* The levels of a call that begins,
LEMMA LoneLevel ==
    ASSUME NEW v \in Levels, v.seq = "none", v.type \in Roots
    PROVE  /\ LevelsOK(<<v>>, "none") /\ Len(<<v>>) = 1 /\ <<v>>[1] = v /\ DOMAIN <<v>> = 1..1
           /\ ~InEntry(v) /\ ~OpenMap(v) /\ ~OpenList(v)
           /\ OwnOf(<<v>>) = {1} /\ MapsOf(<<v>>) = {} /\ ListsOf(<<v>>) = {}
           /\ TrackingOf(<<v>>) = (IF TracksSeen(v.type) THEN {1} ELSE {})
           /\ ChoosingOf(<<v>>) = (IF Oneofs(v.type) # {} THEN {1} ELSE {})
           /\ HeightOf(<<v>>, 0) = 0 /\ HeightOf(<<v>>, 1) = 1
<1> DEFINE L == <<v>>
<1>1. L \in Seq(Levels) /\ L # <<>> /\ Len(L) = 1 /\ L[1] = v /\ DOMAIN L = 1..1 /\ L[Len(L)] = v
  OBVIOUS
<1> HIDE DEF L
<1>2. \A i \in DOMAIN L : i = 1 /\ L[i] = v
  BY <1>1
<1>3. ~InEntry(v) /\ ~OpenMap(v) /\ ~OpenList(v)
  BY MapsAssumption DEF InEntry, OpenMap, OpenList
<1>4. LevelsOK(L, "none")
  BY <1>1, <1>2 DEF LevelsOK
<1>5. 1 \in DOMAIN L
  BY <1>1
<1>6. OwnOf(L) = {1} /\ MapsOf(L) = {} /\ ListsOf(L) = {}
  BY <1>2, <1>3, <1>5 DEF OwnOf, MapsOf, ListsOf
<1>7. TrackingOf(L) = (IF TracksSeen(v.type) THEN {1} ELSE {})
  BY <1>2, <1>5, <1>6 DEF TrackingOf
<1>8. ChoosingOf(L) = (IF Oneofs(v.type) # {} THEN {1} ELSE {})
  BY <1>2, <1>5, <1>6 DEF ChoosingOf
<1>9. HeightOf(L, 0) = 0 /\ HeightOf(L, 1) = 1
  <2>1. 1 \in 1..Len(L) /\ 1 - 1 = 0
    BY <1>1
  <2>2. HeightOf(L, 1) = HeightOf(L, 1 - 1) + Weight(L[1]) /\ HeightOf(L, 0) = 0
    BY <1>1, <2>1, HeightIs
  <2>3. Weight(L[1]) = 1
    BY <1>1, <1>3 DEF Weight
  <2> QED
    BY <2>1, <2>2, <2>3
<1> QED
  BY <1>1, <1>3, <1>4, <1>6, <1>7, <1>8, <1>9 DEF L

\* what prepare leaves for it,
LEMMA PreparedSane ==
    ASSUME NEW c, Sane(c), NEW junk \in SUBSET Nat
    PROVE  LET d == Prepared(c, junk)
               root == RootOf(c)
           IN  /\ Sane(d) /\ d.mappers = <<root>> /\ d.items = <<<<>>>> /\ d.mapKeys = <<>>
               /\ d.tree = [p \in {<<>>} |-> Hash(root, 1)] /\ d.track = TracksSeen(root)
               /\ TracksSeen(root) => Len(d.seenFields) = 1
               /\ Oneofs(root) # {} => /\ Len(d.seenOneof) = 1
                                       /\ d.seenOneof[1] \in OneofState(root)
               /\ root \in Roots /\ root \in Messages
<1> DEFINE root == RootOf(c)
           d == Prepared(c, junk)
           e == [o \in Oneofs(root) |-> NoField]
           t == [p \in {<<>>} |-> Hash(root, 1)]
           seen == ResetSeen(c, junk)
           oneof == IF Oneofs(root) # {} THEN <<e>> ELSE c.seenOneof
<1>1. IsCxt(c) /\ c.seenFields \in Seq(SUBSET Nat) /\ c.seenOneof \in Seq(OneofStates)
  BY DEF Sane, IsCxt
<1>2. root \in Roots /\ root \in Messages
  BY <1>1, RootAssumption, HeadTailProperties DEF IsCxt, RootOf
<1>3. e \in OneofState(root) /\ e \in OneofStates
  BY <1>2 DEF OneofState, OneofStates
<1>4. oneof \in Seq(OneofStates) /\ (Oneofs(root) # {} => Len(oneof) = 1 /\ oneof[1] = e)
  <2> HIDE DEF e
  <2>1. <<e>> \in Seq(OneofStates) /\ Len(<<e>>) = 1 /\ <<e>>[1] = e
    BY <1>3
  <2> QED
    BY <1>1, <2>1
<1>5. seen \in Seq(SUBSET Nat) /\ (TracksSeen(root) => Len(seen) = 1)
  <2>1. <<junk>> \in Seq(SUBSET Nat) /\ Len(<<junk>>) = 1
    OBVIOUS
  <2> QED
    BY <1>1, <2>1 DEF ResetSeen
<1>6. <<>> \in Paths
  BY EmptySeq DEF Paths
<1>7. DOMAIN t = {<<>>} /\ t[<<>>] = Hash(root, 1)
  OBVIOUS
<1>8. Hash(root, 1) \in Nodes /\ Hash(root, 1).kind = "hash" /\ Hash(root, 1) # Undef
  BY <1>2 DEF Hash, Nodes, Undef, Leaf
<1> HIDE DEF t, e, seen, oneof
<1>9. TreeOK(t)
  <2>1. Shaped(t)
    BY <1>6, <1>7, <1>8 DEF Shaped, IsTree
  <2> QED
    BY <1>7, <2>1 DEF TreeOK, Values
<1>10. d = Object(<<root>>, <<<<>>>>, <<>>, seen, oneof, TracksSeen(root), t, NoField, FALSE)
  BY DEF Prepared, Object, t, e, seen, oneof
<1> HIDE DEF d
<1>11. /\ IsObject(d) /\ d.mappers = <<root>> /\ d.items = <<<<>>>> /\ d.mapKeys = <<>>
       /\ d.seenFields = seen /\ d.seenOneof = oneof /\ d.track = TracksSeen(root)
       /\ d.tree = t /\ d.missing = NoField /\ d.crashed = FALSE
  BY <1>10 DEF IsObject, Object
<1>12. <<root>> \in Seq(Messages) /\ <<root>> # <<>> /\ <<root>>[1] = root
  <2> HIDE DEF root
  <2> QED
    BY <1>2
<1>13. <<<<>>>> \in Seq(Paths \cup {NULL})
  BY <1>6
<1>14. \A T : <<>> \in Seq(T)
  BY EmptySeq
<1>15. Sane(d)
  <2>1. d.mappers \in Seq(Messages) /\ d.mappers # <<>> /\ d.mappers[1] \in Roots
    BY <1>2, <1>11, <1>12
  <2>2. d.items \in Seq(Paths \cup {NULL}) /\ d.mapKeys \in Seq([key: Keys] \cup {NoKey})
    BY <1>11, <1>13, <1>14
  <2>3. d.seenFields \in Seq(SUBSET Nat) /\ d.seenOneof \in Seq(OneofStates)
    BY <1>4, <1>5, <1>11
  <2>4. d.track \in BOOLEAN /\ d.crashed \in BOOLEAN /\ d.missing \in Nat
    <3>1. TracksSeen(root) \in BOOLEAN
      BY <1>2, TracksBoolean
    <3>2. d.track \in BOOLEAN
      BY <1>11, <3>1, Zenon
    <3>3. NoField \in Nat
      BY DEF NoField
    <3> QED
      BY <1>11, <3>2, <3>3
  <2> QED
    BY <1>9, <1>11, <2>1, <2>2, <2>3, <2>4 DEF Sane, IsCxt
<1> QED
  BY <1>2, <1>3, <1>4, <1>5, <1>11, <1>15 DEF d, t

\* and that they agree.
LEMMA PreparedStacks ==
    ASSUME NEW v \in Levels, v.seq = "none", NEW c, Sane(c), NEW junk \in SUBSET Nat,
           v.type = RootOf(c)
    PROVE  LevelsOK(<<v>>, "none") /\ Stacks(<<v>>, Prepared(c, junk))
<1> DEFINE L == <<v>>
           d == Prepared(c, junk)
           root == RootOf(c)
<1>1. /\ Sane(d) /\ d.mappers = <<root>> /\ d.items = <<<<>>>> /\ d.mapKeys = <<>>
      /\ d.tree = [p \in {<<>>} |-> Hash(root, 1)] /\ d.track = TracksSeen(root)
      /\ TracksSeen(root) => Len(d.seenFields) = 1
      /\ Oneofs(root) # {} => /\ Len(d.seenOneof) = 1
                              /\ d.seenOneof[1] \in OneofState(root)
      /\ root \in Roots /\ root \in Messages
  BY PreparedSane
<1>2. /\ LevelsOK(L, "none") /\ Len(L) = 1 /\ L[1] = v /\ DOMAIN L = 1..1
      /\ ~InEntry(v) /\ ~OpenMap(v) /\ ~OpenList(v)
      /\ OwnOf(L) = {1} /\ MapsOf(L) = {} /\ ListsOf(L) = {}
      /\ TrackingOf(L) = (IF TracksSeen(root) THEN {1} ELSE {})
      /\ ChoosingOf(L) = (IF Oneofs(root) # {} THEN {1} ELSE {})
      /\ HeightOf(L, 0) = 0 /\ HeightOf(L, 1) = 1
  BY <1>1, LoneLevel
<1> HIDE DEF L, d, root
<1>3. Cardinality({}) = 0 /\ Cardinality({1}) = 1
  BY FS_EmptySet, FS_Singleton
<1>4. Len(d.seenFields) \in Nat /\ Len(d.seenOneof) \in Nat
  BY <1>1, LenProperties DEF Sane, IsCxt
<1>5. L[Len(L)] = v /\ v.type = root
  BY <1>2 DEF root
<1>6. MappersOK(L, d)
  <2>1. Len(<<root>>) = 1 + 0 /\ <<root>>[1] = root /\ Last(<<root>>) = root
    BY DEF Last
  <2>2. \A i \in DOMAIN L : d.mappers[i] = L[i].type
    BY <1>1, <1>2, <1>5, <2>1
  <2>3. d.track = TracksSeen(Mapper(d))
    BY <1>1, <2>1 DEF Mapper
  <2>4. ~OpenMap(L[Len(L)]) /\ Len(d.mappers) = Len(L) + 0
    BY <1>1, <1>2, <1>5, <2>1
  <2> QED
    BY <2>2, <2>3, <2>4 DEF MappersOK
<1>7. SeenOK(L, d)
  <2>1. Len(<<>>) = 0
    OBVIOUS
  <2>2. FieldsOK(L, d.seenFields)
    <3> DEFINE n == Len(d.seenFields)
               k == Cardinality(TrackingOf(L))
    <3>1. n \in Nat
      BY <1>4
    <3>2. L[1].type = root
      BY <1>2, <1>5
    <3>3. CASE TracksSeen(root)
      <4>1. k = 1 /\ n = 1
        BY <1>1, <1>2, <1>3, <3>3
      <4> HIDE DEF n, k
      <4>2. k <= n /\ k = n
        BY <4>1
      <4> QED
        BY <4>2 DEF FieldsOK, n, k
    <3>4. CASE ~TracksSeen(root)
      <4>1. k = 0
        BY <1>2, <1>3, <3>4
      <4> HIDE DEF n, k
      <4>2. k <= n
        BY <3>1, <4>1
      <4> QED
        BY <3>2, <3>4, <4>2 DEF FieldsOK, n, k
    <3> QED
      BY <3>3, <3>4
  <2>3. OneofsOK(L, d.seenOneof)
    <3>1. CASE Oneofs(root) = {}
      BY <1>2, <1>3, <1>4, <1>5, <3>1 DEF OneofsOK
    <3>2. CASE Oneofs(root) # {}
      <4>1. ChoosingOf(L) = {1} /\ Len(d.seenOneof) = 1
        BY <1>1, <1>2, <3>2
      <4>2. Upto({1}, 1) = 1
        <5>1. {i \in {1} : i <= 1} = {1}
          OBVIOUS
        <5> QED
          BY <1>3, <5>1 DEF Upto
      <4>3. 1 - 1 + 1 = 1 /\ 1 <= 1
        OBVIOUS
      <4>4. \A i \in ChoosingOf(L) :
               d.seenOneof[Len(d.seenOneof) - Cardinality(ChoosingOf(L)) + Upto(ChoosingOf(L), i)]
                   \in OneofState(L[i].type)
        BY <1>1, <1>2, <1>3, <1>5, <3>2, <4>1, <4>2, <4>3
      <4> QED
        BY <1>3, <4>1, <4>3, <4>4 DEF OneofsOK
    <3> QED
      BY <3>1, <3>2
  <2> QED
    BY <1>1, <1>2, <1>3, <2>1, <2>2, <2>3 DEF SeenOK
<1>8. ItemsOK(L, d.items, d.tree)
  <2> DEFINE it == d.items
  <2>1. Len(it) = 1 /\ it[1] = <<>> /\ DOMAIN it = {1}
    BY <1>1
  <2>2. DOMAIN d.tree = {<<>>} /\ d.tree[<<>>] = Hash(root, 1)
    BY <1>1
  <2>3. <<>> # NULL /\ <<>> \in Paths
    BY EmptySeq DEF NULL, Paths
  <2>4. Values(d.tree) = {}
    BY <2>2 DEF Values
  <2>5. Chain(it, d.tree)
    <3>1. IsPrefix(<<>>, <<>>)
      BY <2>3, PrefixSelf
    <3> QED
      BY <2>1, <2>2, <2>3, <2>4, <3>1 DEF Chain
  <2>6. \A i \in OwnOf(L) : HashAt(L, it, d.tree, i)
    <3>1. 1 - 1 = 0 /\ 0 + 1 = 1 /\ ~(1 > 1)
      OBVIOUS
    <3>2. HashAt(L, it, d.tree, 1)
      BY <1>2, <1>5, <2>1, <2>2, <2>3, <3>1 DEF HashAt, Hash
    <3> QED
      BY <1>2, <3>2
  <2> QED
    BY <1>2, <2>1, <2>5, <2>6 DEF ItemsOK
<1> QED
  BY <1>2, <1>6, <1>7, <1>8 DEF Stacks, L, d

----------------------------------------------------------------------------
(* The inductive invariant.                                                       *)

Outcomes == {"none", "running", "decoded", "failed", "crashed"}

\* While a call runs the stacks agree with the levels; what is left after it is a hash
\* that has the shape of the schema, and nothing the handlers hold.
IInv ==
    /\ levels \in Seq(Levels) /\ token \in Tok!Tokens
    /\ outcome \in Outcomes /\ calls \in 0..MaxCalls /\ tokens \in 0..MaxTokens
    /\ Sane(cxt)
    /\ outcome = "running" => Run(levels, token, cxt)
    /\ outcome = "crashed" => Chain(cxt.items, cxt.tree)
    /\ outcome \in {"none", "decoded", "failed"} => cxt.items = <<>>
    /\ outcome = "decoded" => Values(cxt.tree) = {}

\* What the invariant says while a call runs.
LEMMA RunningIs ==
    ASSUME IInv, outcome = "running"
    PROVE  /\ LevelsOK(levels, token) /\ Sane(cxt) /\ Stacks(levels, cxt)
           /\ Run(levels, token, cxt)
  BY DEF IInv, Run

\* It is enough that levels and stacks agree, for a call that goes on.
LEMMA Continued ==
    ASSUME LevelsOK(levels', token'), Sane(cxt'), Stacks(levels', cxt'),
           PendingOK(levels', token', cxt'), token' \in Tok!Tokens,
           outcome' \in {"running", "crashed"}, calls' \in 0..MaxCalls, tokens' \in 0..MaxTokens
    PROVE  IInv'
<1>1. levels' \in Seq(Levels)
  BY DEF LevelsOK
<1>2. Run(levels', token', cxt')
  BY DEF Run
<1>3. Chain(cxt'.items, cxt'.tree)
  BY DEF Stacks, ItemsOK
<1>4. outcome' \in Outcomes /\ outcome' \notin {"none", "decoded", "failed"} /\ outcome' # "decoded"
  BY DEF Outcomes
<1> QED
  BY <1>1, <1>2, <1>3, <1>4 DEF IInv

\* The bounds of the model are kept.
LEMMA Counted ==
    ASSUME IInv, Token
    PROVE  outcome = "running" /\ calls' \in 0..MaxCalls /\ tokens' \in 0..MaxTokens
  BY BoundsAssumption DEF IInv, Token

\* So all tokens keep it but the end of the message of the call,
LEMMA TokensInv ==
    ASSUME IInv,
           \/ ScalarField \/ MessageField \/ UnknownField \/ StartSequence \/ EndSequence
           \/ StartMessage \/ EndMessage
    PROVE  IInv'
<1>1. CASE ScalarField
  <2>1. Token /\ Tok!Field /\ outcome' = IF cxt'.crashed THEN "crashed" ELSE "running"
    BY <1>1 DEF ScalarField
  <2>2. token' \in Tok!Tokens
    BY <2>1 DEF Tok!Field, Tok!Tokens
  <2>3. outcome' \in {"running", "crashed"}
    BY <2>1
  <2> QED
    BY <1>1, <2>1, <2>2, <2>3, Counted, RunningIs, ScalarStep, Continued
<1>2. CASE MessageField
  <2>1. Token /\ Tok!Field /\ outcome' = "running"
    BY <1>2 DEF MessageField, Running
  <2>2. token' \in Tok!Tokens
    BY <2>1 DEF Tok!Field, Tok!Tokens
  <2> QED
    BY <1>2, <2>1, <2>2, Counted, RunningIs, MessageFieldStep, Continued
<1>3. CASE UnknownField
  <2>1. Token /\ Tok!UnknownField /\ outcome' = "running"
    BY <1>3 DEF UnknownField, Running
  <2>2. token' \in Tok!Tokens
    BY <2>1 DEF Tok!UnknownField, Tok!Tokens
  <2> QED
    BY <1>3, <2>1, <2>2, Counted, RunningIs, UnknownFieldStep, Continued
<1>4. CASE StartSequence
  <2>1. Token /\ Tok!StartSequence /\ outcome' = "running"
    BY <1>4 DEF StartSequence, Running
  <2>2. token' \in Tok!Tokens
    BY <2>1 DEF Tok!StartSequence, Tok!Tokens
  <2> QED
    BY <1>4, <2>1, <2>2, Counted, RunningIs, StartSequenceStep, Continued
<1>5. CASE EndSequence
  <2>1. Token /\ Tok!EndSequence /\ outcome' = "running"
    BY <1>5 DEF EndSequence, Running
  <2>2. token' \in Tok!Tokens
    BY <2>1 DEF Tok!EndSequence, Tok!Tokens
  <2> QED
    BY <1>5, <2>1, <2>2, Counted, RunningIs, EndSequenceStep, Continued
<1>6. CASE StartMessage
  <2>1. outcome = "running" /\ Tok!StartMessage /\ UNCHANGED <<outcome, calls, tokens>>
    BY <1>6 DEF StartMessage
  <2>2. token' \in Tok!Tokens
    BY <2>1 DEF Tok!StartMessage, Tok!Tokens
  <2>3. outcome' = "running" /\ calls' \in 0..MaxCalls /\ tokens' \in 0..MaxTokens
    BY <2>1 DEF IInv
  <2> QED
    BY <1>6, <2>1, <2>2, <2>3, RunningIs, StartMessageStep, Continued
<1>7. CASE EndMessage
  <2>1. outcome = "running" /\ Tok!EndMessage /\ UNCHANGED <<outcome, calls, tokens>>
    BY <1>7 DEF EndMessage
  <2>2. token' \in Tok!Tokens
    BY <2>1 DEF Tok!EndMessage, Tok!Tokens
  <2>3. outcome' = "running" /\ calls' \in 0..MaxCalls /\ tokens' \in 0..MaxTokens
    BY <2>1 DEF IInv
  <2> QED
    BY <1>7, <2>1, <2>2, <2>3, RunningIs, EndMessageStep, Continued
<1> QED
  BY <1>1, <1>2, <1>3, <1>4, <1>5, <1>6, <1>7

\* The call ends: nothing is held, and what has been decoded stays.
LEMMA Ended ==
    ASSUME levels' \in Seq(Levels), token' \in Tok!Tokens, NEW c, Sane(c), cxt' = Cleared(c),
           outcome' \in {"decoded", "failed"}, outcome' = "decoded" => Values(c.tree) = {},
           calls' \in 0..MaxCalls, tokens' \in 0..MaxTokens
    PROVE  IInv'
<1>1. Sane(cxt') /\ cxt'.items = <<>> /\ cxt'.tree = c.tree
  BY ClearedSane
<1>2. outcome' \in Outcomes /\ outcome' \notin {"running", "crashed"}
  BY DEF Outcomes
<1> QED
  BY <1>1, <1>2 DEF IInv

\* this one,
LEMMA EndOfMessageInv ==
    ASSUME IInv, EndOfMessage
    PROVE  IInv'
<1> DEFINE done == OnEndMessage(cxt)
<1>1. Token /\ Tok!EndOfMessage
  BY DEF EndOfMessage
<1>2. outcome = "running" /\ calls' \in 0..MaxCalls /\ tokens' \in 0..MaxTokens
  BY <1>1, Counted
<1>3. LevelsOK(levels, token) /\ Sane(cxt) /\ Stacks(levels, cxt)
  BY <1>2, RunningIs
<1>4. /\ LevelsOK(levels, "END_MESSAGE") /\ token' = "END_MESSAGE" /\ levels' = levels
      /\ ~OpenMap(levels[Len(levels)]) /\ ~OpenList(levels[Len(levels)])
  BY <1>1, <1>3, EndOfMessageLevels
<1>5. Sane(done) /\ Stacks(levels, done)
  BY <1>3, <1>4, EndOfMessageStacks
<1>6. levels' \in Seq(Levels) /\ token' \in Tok!Tokens
  BY <1>4 DEF LevelsOK, Tok!Tokens
<1>7. \/ cxt' = Cleared(done) /\ outcome' = "failed"
      \/ cxt' = Cleared(done) /\ outcome' = "decoded" /\ Len(levels) = 1
      \/ cxt' = done /\ outcome' = "running"
  BY DEF EndOfMessage
<1> HIDE DEF done
<1>8. CASE cxt' = Cleared(done) /\ outcome' = "failed"
  BY <1>2, <1>5, <1>6, <1>8, Ended
<1>9. CASE cxt' = Cleared(done) /\ outcome' = "decoded" /\ Len(levels) = 1
  <2>1. ItemsOK(levels, done.items, done.tree) /\ done.items \in ItemSeq
    BY <1>5 DEF Stacks, Sane, IsCxt, ItemSeq
  <2>2. Values(done.tree) = {}
    BY <1>4, <1>9, <2>1, NoValueLeft
  <2> QED
    BY <1>2, <1>5, <1>6, <1>9, <2>2, Ended
<1>10. CASE cxt' = done /\ outcome' = "running"
  <2>1. PendingOK(levels', token', cxt')
    BY <1>4 DEF PendingOK
  <2>2. LevelsOK(levels', token') /\ Sane(cxt') /\ Stacks(levels', cxt')
    BY <1>4, <1>5, <1>10
  <2> QED
    BY <1>2, <1>6, <1>10, <2>1, <2>2, Continued
<1> QED
  BY <1>7, <1>8, <1>9, <1>10

\* an error of the tokenizer,
LEMMA ErrorInv ==
    ASSUME IInv, Error
    PROVE  IInv'
<1>1. Token /\ Tok!Error /\ cxt' = Cleared(cxt) /\ outcome' = "failed"
  BY DEF Error
<1>2. levels' \in Seq(Levels) /\ token' \in Tok!Tokens
  BY <1>1, EmptySeq DEF Tok!Error, Tok!Tokens
<1>3. Sane(cxt)
  BY DEF IInv
<1> QED
  BY <1>1, <1>2, <1>3, Counted, Ended

\* and the next call.
LEMMA PrepareInv ==
    ASSUME IInv, Prepare
    PROVE  IInv'
<1> DEFINE v == Tok!Level(RootOf(cxt), NoField, "none")
<1>1. PICK junk \in Junk(RootOf(cxt)) : cxt' = Prepared(cxt, junk)
  BY DEF Prepare
<1>2. Sane(cxt)
  BY DEF IInv
<1>3. junk \in SUBSET Nat
  <2>1. Junk(RootOf(cxt)) \subseteq SUBSET Nat
    BY DEF Junk, KeyField, ValueField
  <2> QED
    BY <1>1, <2>1
<1>4. RootOf(cxt) \in Roots /\ RootOf(cxt) \in Messages
  BY <1>2, <1>3, PreparedSane
<1>5. v \in Levels /\ v.seq = "none" /\ v.type = RootOf(cxt)
  BY <1>4 DEF Tok!Level, Levels, NoField
<1>6. levels' = <<v>> /\ token' = "none" /\ outcome' = "running"
  BY DEF Prepare
<1>7. calls' \in 0..MaxCalls /\ tokens' \in 0..MaxTokens
  BY BoundsAssumption DEF Prepare, IInv
<1> HIDE DEF v
<1>8. LevelsOK(levels', token') /\ Stacks(levels', cxt')
  BY <1>1, <1>2, <1>3, <1>5, <1>6, PreparedStacks
<1>9. Sane(cxt')
  BY <1>1, <1>2, <1>3, PreparedSane
<1>10. PendingOK(levels', token', cxt')
  <2>1. ~OpenMap(v)
    BY <1>4, <1>5, LoneLevel
  <2>2. Len(<<v>>) = 1 /\ <<v>>[1] = v
    OBVIOUS
  <2> QED
    BY <1>6, <2>1, <2>2 DEF PendingOK
<1>11. token' \in Tok!Tokens /\ outcome' \in {"running", "crashed"}
  BY <1>6 DEF Tok!Tokens
<1> QED
  BY <1>7, <1>8, <1>9, <1>10, <1>11, Continued

\* It holds before the first call.
LEMMA InitInv ==
    ASSUME Init
    PROVE  IInv
<1>1. PICK root \in Roots : levels = <<Tok!Level(root, NoField, "none")>>
  BY DEF Init, Tok!Init, Tok!NoField, NoField
<1> DEFINE v == Tok!Level(root, NoField, "none")
           e == [p \in {} |-> Undef]
<1>2. root \in Messages
  BY RootAssumption
<1>3. v \in Levels /\ v.type = root
  BY <1>2 DEF Tok!Level, Levels, NoField
<1>4. token \in Tok!Tokens /\ outcome = "none" /\ calls = 0 /\ tokens = 0 /\ levels = <<v>>
      /\ cxt = NoCall(Current.type)
  BY <1>1 DEF Init, Tok!Init, Tok!Tokens
<1> HIDE DEF v
<1>5. levels \in Seq(Levels) /\ Current = v
  <2>1. <<v>> \in Seq(Levels) /\ Len(<<v>>) = 1 /\ <<v>>[1] = v
    BY <1>3
  <2> QED
    BY <1>4, <2>1 DEF Current, Last
<1>6. cxt = Object(<<root>>, <<>>, <<>>, <<>>, <<>>, FALSE, e, NoField, FALSE)
  BY <1>3, <1>4, <1>5 DEF NoCall, Object
<1>7. TreeOK(e)
  <2>1. DOMAIN e = {}
    OBVIOUS
  <2> HIDE DEF e
  <2>2. Values(e) = {} /\ Shaped(e)
    BY <2>1 DEF Values, Shaped, IsTree
  <2> QED
    BY <2>2 DEF TreeOK
<1> HIDE DEF e
<1>8. /\ IsObject(cxt) /\ cxt.mappers = <<root>> /\ cxt.items = <<>> /\ cxt.mapKeys = <<>>
      /\ cxt.seenFields = <<>> /\ cxt.seenOneof = <<>> /\ cxt.track = FALSE
      /\ cxt.tree = e /\ cxt.missing = NoField /\ cxt.crashed = FALSE
  BY <1>6 DEF IsObject, Object
<1>9. <<root>> \in Seq(Messages) /\ <<root>> # <<>> /\ <<root>>[1] = root
  BY <1>2
<1>10. \A T : <<>> \in Seq(T)
  BY EmptySeq
<1>11. Sane(cxt)
  <2>1. cxt.mappers \in Seq(Messages) /\ cxt.mappers # <<>> /\ cxt.mappers[1] \in Roots
    BY <1>8, <1>9
  <2>2. /\ cxt.items \in Seq(Paths \cup {NULL}) /\ cxt.mapKeys \in Seq([key: Keys] \cup {NoKey})
        /\ cxt.seenFields \in Seq(SUBSET Nat) /\ cxt.seenOneof \in Seq(OneofStates)
    BY <1>8, <1>10
  <2>3. cxt.track \in BOOLEAN /\ cxt.crashed \in BOOLEAN
    BY <1>8
  <2>4. cxt.missing \in Nat
    BY <1>8 DEF NoField
  <2> QED
    BY <1>7, <1>8, <2>1, <2>2, <2>3, <2>4 DEF Sane, IsCxt
<1> QED
  BY <1>4, <1>5, <1>8, <1>11, BoundsAssumption DEF IInv, Outcomes

\* It is inductive.
LEMMA NextInv ==
    ASSUME IInv, [Next]_vars
    PROVE  IInv'
<1>1. CASE Next
  BY <1>1, TokensInv, EndOfMessageInv, ErrorInv, PrepareInv DEF Next
<1>2. CASE UNCHANGED vars
  BY <1>2 DEF vars, IInv, Run, LevelsOK, Stacks, PendingOK
<1> QED
  BY <1>1, <1>2

\* The stacks agree with the levels in every state of every sequence of calls.
THEOREM StacksInvariant == Spec => []IInv
<1>1. Init => IInv
  BY InitInv
<1>2. IInv /\ [Next]_vars => IInv'
  BY NextInv
<1> QED
  BY <1>1, <1>2, PTL DEF Spec

----------------------------------------------------------------------------
(* What the handlers hold, and what it is.                                        *)

\* No handler holds a reference to something that has been deleted: each of the items is
\* in the hash, inside the one below it.
THEOREM HeldStayLive == Spec => []HeldContainersLive
<1>1. IInv => HeldContainersLive
  <2> SUFFICES ASSUME IInv
               PROVE  HeldContainersLive
    OBVIOUS
  <2> DEFINE it == cxt.items
             t == cxt.tree
  <2>1. it \in ItemSeq
    BY DEF IInv, Sane, IsCxt, ItemSeq
  <2>2. outcome \in Outcomes
    BY DEF IInv
  <2>3. CASE outcome \in {"running", "crashed"}
    <3>1. Chain(it, t)
      BY <2>3 DEF IInv, Run, Stacks, ItemsOK
    <3>2. DOMAIN it = 1..Len(it) /\ Len(it) \in Nat
      BY <2>1, <3>1, ItemsIn
    <3> SUFFICES ASSUME NEW i \in DOMAIN it, it[i] # NULL
                 PROVE  /\ it[i] \in DOMAIN t
                        /\ i > 1 /\ it[i - 1] # NULL => IsPrefix(it[i - 1], it[i])
      BY DEF HeldContainersLive
    <3>3. it[i] \in DOMAIN t
      BY <3>1 DEF Chain
    <3>4. ASSUME i > 1
          PROVE  IsPrefix(it[i - 1], it[i])
      <4>1. i - 1 \in DOMAIN it /\ i - 1 <= i
        BY <3>2, <3>4
      <4> QED
        BY <3>1, <4>1 DEF Chain
    <3> QED
      BY <3>3, <3>4
  <2>4. CASE outcome \in {"none", "decoded", "failed"}
    BY <2>4 DEF IInv, HeldContainersLive
  <2> QED
    BY <2>2, <2>3, <2>4 DEF Outcomes
<1> QED
  BY <1>1, StacksInvariant, PTL

KindOf(it, t, k) ==
    IF it[k] = NULL \/ (k > 1 /\ it[k] = Value(it[k - 1])) THEN "value" ELSE t[it[k]].kind

\* What the items of the levels are: a hash,
LEMMA OwnKind ==
    ASSUME NEW L, NEW tok, LevelsOK(L, tok), NEW it, NEW t, ItemsOK(L, it, t), NEW i \in OwnOf(L)
    PROVE  KindOf(it, t, HeightOf(L, i - 1) + 1) = "hash"
<1>1. /\ i \in Nat \ {0} /\ HeightOf(L, i - 1) \in Nat
      /\ i = 1 => HeightOf(L, i - 1) = 0
  BY OwnHeight
<1>2. PICK k \in Nat \ {0} : k = HeightOf(L, i - 1) + 1
  BY <1>1
<1>3. HashAt(L, it, t, i)
  BY DEF ItemsOK
<1>4. it[k] # NULL /\ t[it[k]].kind = "hash"
  BY <1>2, <1>3 DEF HashAt
<1>5. k > 1 => it[k] # Value(it[k - 1])
  <2>1. k > 1 => i > 1
    BY <1>1, <1>2
  <2> QED
    BY <1>2, <1>3, <2>1 DEF HashAt
<1>6. KindOf(it, t, k) = "hash"
  BY <1>4, <1>5 DEF KindOf
<1> QED
  BY <1>2, <1>6

\* The container of an open field, above the hash of the message.
LEMMA FieldKind ==
    ASSUME NEW L, NEW tok, LevelsOK(L, tok), NEW it \in ItemSeq, NEW t, ItemsOK(L, it, t),
           Shaped(t), NEW i \in OwnOf(L), OpenMap(L[i]) \/ OpenList(L[i]),
           NEW k \in Nat, k = HeightOf(L, i - 1) + 1, NEW n \in DOMAIN it, n = k + 1,
           it[n] = Child(it[k], "field", L[i].field)
    PROVE  /\ it[n] # NULL /\ KindOf(it, t, n) = IF OpenMap(L[i]) THEN "map" ELSE "array"
<1>1. /\ i \in DOMAIN L /\ i \in Nat \ {0} /\ HeightOf(L, i - 1) \in Nat
  BY OwnHeight
<1>2. L[i] \in Levels /\ Entered(L[i])
  BY <1>1, LevelIs
<1>3. HashAt(L, it, t, i) /\ Chain(it, t)
  BY DEF ItemsOK
<1>4. it[k] # NULL /\ t[it[k]].kind = "hash" /\ t[it[k]].type = L[i].type
  BY <1>3 DEF HashAt
<1>5. k \in DOMAIN it /\ Len(it) \in Nat /\ DOMAIN it = 1..Len(it)
  <2>1. DOMAIN it = 1..Len(it) /\ Len(it) \in Nat
    BY <1>3, ItemsIn
  <2>2. k >= 1
    BY <1>1
  <2> QED
    BY <2>1, <2>2
<1>6. PICK x \in Paths, f \in Nat : x = it[k] /\ f = L[i].field
  BY <1>2, <1>3, <1>4, <1>5, ItemsIn DEF Levels
<1> DEFINE q == Child(x, "field", f)
<1>7. q \in Paths /\ Front(q) = x /\ Last(q) = <<"field", f>>
  <2>1. <<"field", f>> \in Steps
    BY StepsAre
  <2> QED
    BY <2>1, ChildIs
<1>8. it[n] = q
  BY <1>6
<1> HIDE DEF q
<1>9. it[n] # NULL
  BY <1>7, <1>8, NullIs
<1>10. it[n] # Value(it[k])
  BY <1>6, <1>7, <1>8, ValueIs
<1>11. q \in DOMAIN t
  BY <1>3, <1>8, <1>9 DEF Chain
<1>12. FieldFits(t[q], L[i].type, L[i].field)
  BY <1>4, <1>6, <1>11, FieldAt DEF q
<1>13. t[q].kind = IF OpenMap(L[i]) THEN "map" ELSE "array"
  BY <1>2, <1>12, LevelIs, <1>1 DEF FieldFits, Entered, OpenMap, OpenList
<1>14. n > 1 /\ n - 1 = k
  BY <1>1
<1>15. KindOf(it, t, n) = t[q].kind
  BY <1>8, <1>9, <1>10, <1>14 DEF KindOf
<1> QED
  BY <1>9, <1>13, <1>15

\* a map and the value of an entry,
LEMMA MapKind ==
    ASSUME NEW L, NEW tok, LevelsOK(L, tok), NEW it \in ItemSeq, NEW t, ItemsOK(L, it, t),
           Shaped(t), NEW i \in MapsOf(L)
    PROVE  /\ KindOf(it, t, HeightOf(L, i) - 1) = "map"
           /\ KindOf(it, t, HeightOf(L, i)) = "value"
<1>1. /\ i \in OwnOf(L) /\ HeightOf(L, i - 1) \in Nat /\ HeightOf(L, i) = HeightOf(L, i - 1) + 3
      /\ HeightOf(L, i) <= HeightOf(L, Len(L)) /\ HeightOf(L, Len(L)) \in Nat
  BY MapHeight
<1>2. MapAt(L, it, i) /\ Len(it) = HeightOf(L, Len(L)) /\ Chain(it, t)
  BY DEF ItemsOK
<1>3. PICK k \in Nat \ {0} : /\ k = HeightOf(L, i - 1) + 1 /\ k + 1 = HeightOf(L, i) - 1
                             /\ k = HeightOf(L, i) - 2 /\ k + 2 = HeightOf(L, i)
                             /\ k + 2 <= Len(it)
  BY <1>1, <1>2
<1>4. it[k + 1] = Child(it[k], "field", L[i].field) /\ it[k + 2] \in {NULL, Value(it[k + 1])}
  BY <1>2, <1>3 DEF MapAt
<1>5. DOMAIN it = 1..Len(it) /\ Len(it) \in Nat
  BY <1>2, ItemsIn
<1>6. PICK n \in DOMAIN it : n = k + 1
  BY <1>3, <1>5
<1>7. OpenMap(L[i])
  BY DEF MapsOf
<1>8. KindOf(it, t, n) = "map"
  BY <1>1, <1>3, <1>4, <1>6, <1>7, FieldKind
<1>9. KindOf(it, t, k + 2) = "value"
  <2>1. k + 2 > 1 /\ (k + 2) - 1 = k + 1
    BY <1>3
  <2> QED
    BY <1>4, <2>1 DEF KindOf
<1> QED
  BY <1>3, <1>6, <1>8, <1>9

\* an array.
LEMMA ListKind ==
    ASSUME NEW L, NEW tok, LevelsOK(L, tok), NEW it \in ItemSeq, NEW t, ItemsOK(L, it, t),
           Shaped(t), NEW i \in ListsOf(L)
    PROVE  KindOf(it, t, HeightOf(L, i)) = "array"
<1>1. /\ i \in OwnOf(L) /\ HeightOf(L, i - 1) \in Nat /\ HeightOf(L, i) = HeightOf(L, i - 1) + 2
      /\ HeightOf(L, i) <= HeightOf(L, Len(L)) /\ HeightOf(L, Len(L)) \in Nat
  BY ListHeight
<1>2. ListAt(L, it, i) /\ Len(it) = HeightOf(L, Len(L)) /\ Chain(it, t)
  BY DEF ItemsOK
<1>3. PICK k \in Nat \ {0} : /\ k = HeightOf(L, i - 1) + 1 /\ k + 1 = HeightOf(L, i)
                             /\ k = HeightOf(L, i) - 1 /\ k + 1 <= Len(it)
  BY <1>1, <1>2
<1>4. it[k + 1] = Child(it[k], "field", L[i].field)
  BY <1>2, <1>3 DEF ListAt
<1>5. DOMAIN it = 1..Len(it) /\ Len(it) \in Nat
  BY <1>2, ItemsIn
<1>6. PICK n \in DOMAIN it : n = k + 1
  BY <1>3, <1>5
<1>7. OpenList(L[i]) /\ ~OpenMap(L[i])
  BY DEF ListsOf, OpenList, OpenMap
<1>8. KindOf(it, t, n) = "array"
  BY <1>1, <1>3, <1>4, <1>6, <1>7, FieldKind
<1> QED
  BY <1>3, <1>6, <1>8

----------------------------------------------------------------------------
(* The stacks of the handlers agree with the messages of the driver.              *)

\* The properties count the same levels as the invariant.
LEMMA SetsAre ==
    /\ Own = OwnOf(levels) /\ Maps = MapsOf(levels) /\ Lists = ListsOf(levels)
    /\ Tracking = TrackingOf(levels) /\ Choosing = ChoosingOf(levels)
    /\ \A n : ItemHeight(n) = HeightOf(levels, n)
    /\ \A i : ItemAt(i) = HeightOf(levels, i - 1) + 1
    /\ \A k : ItemKind(k) = KindOf(cxt.items, cxt.tree, k)
  BY DEF Own, Maps, Lists, Tracking, Choosing, OwnOf, MapsOf, ListsOf, TrackingOf, ChoosingOf,
         ItemHeight, HeightOf, ItemAt, ItemKind, KindOf

\* The stacks of what was seen are as high as the levels say,
LEMMA SeenAligned ==
    ASSUME LevelsOK(levels, token), Sane(cxt), Stacks(levels, cxt)
    PROVE  /\ Len(cxt.mapKeys) = Cardinality(Maps)
           /\ OldFields >= 0 /\ (TracksSeen(RootOf(cxt)) => OldFields = 0)
           /\ OldOneofs >= 0 /\ (Oneofs(RootOf(cxt)) # {} => OldOneofs = 0)
           /\ \A i \in Choosing :
                 DOMAIN cxt.seenOneof[OldOneofs + Upto(Choosing, i)] = Oneofs(levels[i].type)
<1>1. SeenOK(levels, cxt) /\ MappersOK(levels, cxt) /\ IsCxt(cxt)
  BY DEF Stacks, Sane
<1>2. RootOf(cxt) = levels[1].type
  BY <1>1, MapperIs DEF IsCxt
<1>3. Len(cxt.seenFields) \in Nat /\ Len(cxt.seenOneof) \in Nat
  BY <1>1, LenProperties DEF IsCxt
<1>4. Cardinality(TrackingOf(levels)) \in Nat /\ Cardinality(ChoosingOf(levels)) \in Nat
  <2>1. levels \in Seq(Levels)
    BY LevelIs
  <2> QED
    BY <2>1, SetsOf, UptoIs
<1>5. OldFields >= 0 /\ (TracksSeen(RootOf(cxt)) => OldFields = 0)
  <2>1. OldFields = Len(cxt.seenFields) - Cardinality(TrackingOf(levels))
    BY SetsAre DEF OldFields
  <2> QED
    BY <1>1, <1>2, <1>3, <1>4, <2>1 DEF SeenOK, FieldsOK
<1>6. OldOneofs = Len(cxt.seenOneof) - Cardinality(ChoosingOf(levels))
  BY SetsAre DEF OldOneofs
<1>7. OldOneofs >= 0 /\ (Oneofs(RootOf(cxt)) # {} => OldOneofs = 0)
  BY <1>1, <1>2, <1>3, <1>4, <1>6 DEF SeenOK, OneofsOK
<1>8. ASSUME NEW i \in Choosing
      PROVE  DOMAIN cxt.seenOneof[OldOneofs + Upto(Choosing, i)] = Oneofs(levels[i].type)
  <2>1. i \in ChoosingOf(levels) /\ Choosing = ChoosingOf(levels)
    BY SetsAre
  <2>2. cxt.seenOneof[OldOneofs + Upto(Choosing, i)] \in OneofState(levels[i].type)
    BY <1>1, <1>6, <2>1 DEF SeenOK, OneofsOK
  <2> QED
    BY <2>2 DEF OneofState
<1>9. Len(cxt.mapKeys) = Cardinality(Maps)
  BY <1>1, SetsAre DEF SeenOK
<1> QED
  BY <1>5, <1>7, <1>8, <1>9

\* and so are all of them.
LEMMA RunAligned ==
    ASSUME IInv, outcome = "running"
    PROVE  StacksAligned
<1>1. LevelsOK(levels, token) /\ Sane(cxt) /\ Stacks(levels, cxt) /\ PendingOK(levels, token, cxt)
  BY DEF IInv, Run
<1>2. Current = levels[Len(levels)]
  BY DEF Current, Last
<1>3. MappersOK(levels, cxt) /\ ItemsOK(levels, cxt.items, cxt.tree) /\ Shaped(cxt.tree)
      /\ cxt.items \in ItemSeq
  BY <1>1 DEF Stacks, Sane, TreeOK, IsCxt, ItemSeq
<1>4. /\ Len(cxt.mappers) = Len(levels) + IF OpenMap(Current) THEN 1 ELSE 0
      /\ \A i \in DOMAIN levels : cxt.mappers[i] = levels[i].type
      /\ cxt.track = TracksSeen(Mapper(cxt))
  BY <1>2, <1>3 DEF MappersOK
<1>5. OpenMap(Current) => Mapper(cxt) = Schema[Current.type][Current.field].message
  BY <1>1, <1>2, <1>3, MapperIs DEF Sane, IsCxt
<1>6. Len(cxt.items) = ItemHeight(Len(levels))
  BY <1>3, SetsAre DEF ItemsOK
<1>7. \A i \in Own : ItemKind(ItemAt(i)) = "hash"
  BY <1>1, <1>3, SetsAre, OwnKind
<1>8. \A i \in Maps : ItemKind(ItemHeight(i) - 1) = "map" /\ ItemKind(ItemHeight(i)) = "value"
  BY <1>1, <1>3, SetsAre, MapKind
<1>9. \A i \in Lists : ItemKind(ItemHeight(i)) = "array"
  BY <1>1, <1>3, SetsAre, ListKind
<1>10. NothingPends
  BY <1>1, <1>2 DEF NothingPends, PendingOK
<1> QED
  BY <1>1, <1>4, <1>5, <1>6, <1>7, <1>8, <1>9, <1>10, SeenAligned DEF StacksAligned

\* The driver's stack of messages and the five stacks of the handlers agree at every token,
\* for every schema and every sequence of tokens.
THEOREM StacksStayAligned == Spec => []StacksAligned
<1>1. IInv => StacksAligned
  BY RunAligned DEF StacksAligned
<1> QED
  BY <1>1, StacksInvariant, PTL

----------------------------------------------------------------------------
(* The types of the state, and the shape of the hash.                             *)

\* The types of the context,
LEMMA CxtTyped ==
    ASSUME NEW c, Sane(c)
    PROVE  /\ c.mappers \in Seq(Messages) /\ Len(c.mappers) > 0
           /\ \A i \in DOMAIN c.items : \A j \in DOMAIN c.items[i] :
                 c.items[i][j][1] \in {"NULL", "field", "item", "key", "value"}
           /\ \A i \in DOMAIN c.mapKeys : c.mapKeys[i] \in [key: Keys] \cup {NoKey}
           /\ \A i \in DOMAIN c.seenFields : c.seenFields[i] \subseteq Nat
           /\ \A i \in DOMAIN c.seenOneof : \E m \in Messages :
                 /\ DOMAIN c.seenOneof[i] = Oneofs(m)
                 /\ \A o \in Oneofs(m) : c.seenOneof[i][o] \in
                       {NoField} \cup {f \in FieldsOf(m) : Traits[m][f].oneof = o}
           /\ \A p \in DOMAIN c.tree : c.tree[p] \in Nodes
           /\ c.missing \in Nat
           /\ {c.crashed, c.track} \subseteq BOOLEAN
<1>1. IsCxt(c) /\ TreeOK(c.tree)
  BY DEF Sane
<1>2. c.mappers \in Seq(Messages) /\ Len(c.mappers) > 0
  <2>1. c.mappers \in Seq(Messages) /\ c.mappers # <<>>
    BY <1>1 DEF IsCxt
  <2>2. Len(c.mappers) \in Nat /\ Len(c.mappers) # 0
    BY <2>1, EmptySeq, LenProperties
  <2> QED
    BY <2>1, <2>2
<1>3. ASSUME NEW i \in DOMAIN c.items, NEW j \in DOMAIN c.items[i]
      PROVE  c.items[i][j][1] \in {"NULL", "field", "item", "key", "value"}
  <2>1. c.items[i] \in Paths \cup {NULL}
    BY <1>1, ElementOfSeq DEF IsCxt
  <2>2. CASE c.items[i] = NULL
    <3>1. DOMAIN NULL = {1} /\ NULL[1][1] = "NULL"
      BY DEF NULL
    <3> QED
      BY <2>2, <3>1
  <2>3. CASE c.items[i] \in Paths
    <3>1. c.items[i][j] \in Steps
      BY <2>3, ElementOfSeq DEF Paths
    <3> QED
      BY <3>1, StepIs
  <2> QED
    BY <2>1, <2>2, <2>3
<1>4. \A i \in DOMAIN c.mapKeys : c.mapKeys[i] \in [key: Keys] \cup {NoKey}
  BY <1>1, ElementOfSeq DEF IsCxt
<1>5. \A i \in DOMAIN c.seenFields : c.seenFields[i] \subseteq Nat
  <2>1. \A i \in DOMAIN c.seenFields : c.seenFields[i] \in SUBSET Nat
    BY <1>1, ElementOfSeq DEF IsCxt
  <2> QED
    BY <2>1
<1>6. ASSUME NEW i \in DOMAIN c.seenOneof
      PROVE  \E m \in Messages :
                 /\ DOMAIN c.seenOneof[i] = Oneofs(m)
                 /\ \A o \in Oneofs(m) : c.seenOneof[i][o] \in
                       {NoField} \cup {f \in FieldsOf(m) : Traits[m][f].oneof = o}
  <2>1. c.seenOneof[i] \in OneofStates
    BY <1>1, ElementOfSeq DEF IsCxt
  <2>2. PICK m \in Messages : c.seenOneof[i] \in OneofState(m)
    BY <2>1 DEF OneofStates
  <2>3. DOMAIN c.seenOneof[i] = Oneofs(m)
    BY <2>2 DEF OneofState
  <2>4. \A o \in Oneofs(m) : c.seenOneof[i][o] \in
           {NoField} \cup {f \in FieldsOf(m) : Traits[m][f].oneof = o}
    BY <2>2 DEF OneofState
  <2> QED
    BY <2>3, <2>4
<1>7. \A p \in DOMAIN c.tree : c.tree[p] \in Nodes
  BY <1>1 DEF TreeOK, Shaped, IsTree
<1>8. c.missing \in Nat /\ {c.crashed, c.track} \subseteq BOOLEAN
  BY <1>1 DEF IsCxt
<1> QED
  BY <1>2, <1>3, <1>4, <1>5, <1>6, <1>7, <1>8

\* and of all variables.
LEMMA RunTyped ==
    ASSUME IInv
    PROVE  TypeOK
<1>1. Tok!TypeOK
  BY DEF IInv, Tok!TypeOK, Levels
<1>2. /\ outcome \in {"none", "running", "decoded", "failed", "crashed"}
      /\ calls \in 0..MaxCalls /\ tokens \in 0..MaxTokens /\ Sane(cxt)
  BY DEF IInv, Outcomes
<1> QED
  BY <1>1, <1>2, CxtTyped DEF TypeOK

\* Arrays have no holes.
LEMMA ItemBefore ==
    ASSUME NEW t, Shaped(t), NEW p \in DOMAIN t, p # <<>>, t[Front(p)].kind = "array"
    PROVE  Last(p)[2] = 1 \/ Child(Front(p), "item", Last(p)[2] - 1) \in DOMAIN t
<1> DEFINE up == Front(p)
           n == Cardinality(Items(t, up))
<1>1. DOMAIN t \subseteq Paths /\ up \in DOMAIN t /\ up \in Paths
  BY DEF Shaped, IsTree
<1>2. Dense(t, up)
  BY <1>1 DEF Shaped
<1>3. n \in Nat
  BY <1>2, FS_CardinalityType DEF Dense
<1>4. p \in Items(t, up)
  BY <1>1, ItemsAre
<1> HIDE DEF n, up
<1>5. Items(t, up) = {Child(up, "item", j) : j \in 1..n}
  BY <1>2 DEF Dense, n
<1>6. PICK j \in 1..n : p = Child(up, "item", j)
  BY <1>4, <1>5
<1>7. j \in Nat /\ <<"item", j>> \in Steps
  <2>1. j \in Nat
    BY <1>3, <1>6
  <2> QED
    BY <2>1, StepsAre
<1>8. Last(p) = <<"item", j>>
  BY <1>1, <1>6, <1>7, ChildIs
<1>9. ASSUME j # 1
      PROVE  Child(up, "item", j - 1) \in DOMAIN t
  <2>1. PICK k \in 1..n : k = j - 1
    BY <1>3, <1>6, <1>9
  <2>2. Child(up, "item", k) \in Items(t, up)
    BY <1>5
  <2> QED
    BY <1>1, <2>1, <2>2, ItemsAre
<1> QED
  BY <1>8, <1>9 DEF up

\* Every node fits the type of its field.
LEMMA TreeFits ==
    ASSUME IInv, NEW p \in DOMAIN cxt.tree, p # <<>>
    PROVE  LET up   == cxt.tree[Front(p)]
               at   == Last(p)
               node == cxt.tree[p]
           IN  /\ Front(p) \in DOMAIN cxt.tree
               /\ \/ /\ up.kind = "hash" /\ at[1] = "field" /\ at[2] \in FieldsOf(up.type)
                     /\ IF Schema[up.type][at[2]].repeated
                        THEN node.kind = IF Traits[up.type][at[2]].map THEN "map" ELSE "array"
                        ELSE Fits(node, Schema[up.type][at[2]].message)
                  \/ /\ up.kind = "array" /\ at[1] = "item"
                     /\ at[2] = 1 \/ Child(Front(p), "item", at[2] - 1) \in DOMAIN cxt.tree
                     /\ Fits(node, ElementType(Front(p)))
                  \/ /\ up.kind = "map" /\ at[1] = "key"
                     /\ Fits(node, ElementType(Front(p))) \/ Absent(node, ElementType(Front(p)))
                  \/ /\ up.kind = "map" /\ at[1] = "value"
                     /\ Fits(node, ElementType(Front(p)))
                     /\ outcome = "running" => p \in ToSet(cxt.items)
                     /\ outcome # "decoded"
<1> DEFINE t == cxt.tree
           up == t[Front(p)]
           at == Last(p)
           node == t[p]
<1>1. Shaped(t) /\ \A q \in Values(t) : t[q] # Undef
  BY DEF IInv, Sane, TreeOK
<1>2. Front(p) \in DOMAIN t /\ Placed(t, Front(p), at, node)
  BY <1>1 DEF Shaped
<1>3. ElementType(Front(p)) = ElementOf(t, Front(p))
  BY DEF ElementType, ElementOf
<1>4. CASE up.kind = "hash" /\ at[1] = "field" /\ at[2] \in FieldsOf(up.type)
           /\ FieldFits(node, up.type, at[2])
  BY <1>2, <1>4 DEF FieldFits
<1>5. CASE up.kind = "array" /\ at[1] = "item" /\ Fits(node, ElementOf(t, Front(p)))
  <2>1. at[2] = 1 \/ Child(Front(p), "item", at[2] - 1) \in DOMAIN t
    BY <1>1, <1>5, ItemBefore
  <2> QED
    BY <1>2, <1>3, <1>5, <2>1
<1>6. CASE /\ up.kind = "map" /\ at[1] = "key"
           /\ Fits(node, ElementOf(t, Front(p))) \/ Absent(node, ElementOf(t, Front(p)))
  BY <1>2, <1>3, <1>6
<1>7. CASE /\ up.kind = "map" /\ at[1] = "value"
           /\ Fits(node, ElementOf(t, Front(p))) \/ Absent(node, ElementOf(t, Front(p)))
  <2>1. p \in Values(t)
    BY <1>7 DEF Values
  <2>2. Fits(node, ElementOf(t, Front(p)))
    BY <1>1, <1>7, <2>1 DEF Absent
  <2>3. outcome = "running" => p \in ToSet(cxt.items)
    <3>1. outcome = "running" => Chain(cxt.items, t)
      BY DEF IInv, Run, Stacks, ItemsOK
    <3> QED
      BY <2>1, <3>1 DEF Chain, ToSet
  <2>4. outcome # "decoded"
    BY <2>1 DEF IInv
  <2> QED
    BY <1>2, <1>3, <1>7, <2>2, <2>3, <2>4
<1>8. \/ up.kind = "hash" /\ at[1] = "field" /\ at[2] \in FieldsOf(up.type)
         /\ FieldFits(node, up.type, at[2])
      \/ up.kind = "array" /\ at[1] = "item" /\ Fits(node, ElementOf(t, Front(p)))
      \/ /\ up.kind = "map" /\ at[1] = "key"
         /\ Fits(node, ElementOf(t, Front(p))) \/ Absent(node, ElementOf(t, Front(p)))
      \/ /\ up.kind = "map" /\ at[1] = "value"
         /\ Fits(node, ElementOf(t, Front(p))) \/ Absent(node, ElementOf(t, Front(p)))
  BY <1>2 DEF Placed
<1> QED
  BY <1>4, <1>5, <1>6, <1>7, <1>8

\* The hash has the shape of the schema, and the state its types, whatever the schema and
\* the tokens; no value of a map entry is left behind by a call that succeeds.
THEOREM TreeStaysFit == Spec => []TreeFitsSchema
<1>1. IInv => TreeFitsSchema
  BY RunTyped, TreeFits DEF TreeFitsSchema
<1> QED
  BY <1>1, StacksInvariant, PTL
==============================================================================
