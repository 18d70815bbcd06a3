------------------------- MODULE TransformQueueProofs -------------------------
(* Proofs about TransformQueue, for any types, fields, keys and number of callbacks. *)
(*                                                                                   *)
(* First: a value has at least as many references as there are holders of it.  The   *)
(* values of a call are a tree (Tree): each is in one slot at most, or is owned      *)
(* outside by one of the vectors (Apart).  Slack is what a count has over the holders *)
(* there are.  The lemmas say what each helper does to the tree and to the slack:    *)
(* Moves for those that make no value, Made for those that may; then what a callback *)
(* does (Targets, Decodes) and what a transform does (Applies), one lemma per action. *)
(*                                                                                   *)
(* Then: which transforms run, with which fields and in which order.  Three more     *)
(* invariants rest on the first: what ran and what is left (OrderInv); where the     *)
(* fields of each table lie in fieldtable_entries while tables are open, and in      *)
(* fieldtable afterwards (TablesInv); what is older than what (AgeInv).              *)
EXTENDS TransformQueue, FiniteSetTheorems, SequenceTheorems, WellFoundedInduction, TLAPS

------------------------------------------------------------------------------
(* Types.                                                                         *)

\* What a value can hold things under: fields, keys, indices of an array.
Idx == AllFields \cup Keys \cup Nat
SlotMaps == {f \in UNION {[D -> Nat] : D \in SUBSET Idx} : IsFiniteSet(DOMAIN f)}
SvRec == [refs : Int, slots : SlotMaps, freed : BOOLEAN]
EntryRec == [field : AllFields \cup Nat, value : Nat]
QueueRec == [target : Nat, by : {"plain", "table"}, offset : Int, size : Nat]
FrameRec ==
    {r \in [kind : {"message", "table", "array", "map", "value"}, sv : Nat, type : Types,
            field : AllFields \cup {NoField}, seen : AllFields \cup {NoField},
            own : Seq(AllFields), base : Nat] :
        r.kind \in {"array", "value"} => r.field \in DOMAIN Fields[r.type]}

\* The slots of a value are a function with a finite domain.
LEMMA SlotsAre ==
    ASSUME NEW f \in SlotMaps
    PROVE  /\ DOMAIN f \subseteq Idx /\ IsFiniteSet(DOMAIN f)
           /\ \A i \in DOMAIN f : f[i] \in Nat
           /\ f \in [DOMAIN f -> Nat]
<1>1. PICK D \in SUBSET Idx : f \in [D -> Nat]
  BY DEF SlotMaps
<1> QED
  BY <1>1 DEF SlotMaps

\* Which functions are slots.
LEMMA AreSlots ==
    ASSUME NEW D \in SUBSET Idx, IsFiniteSet(D), NEW f \in [D -> Nat]
    PROVE  f \in SlotMaps
BY DEF SlotMaps

\* No slots.
LEMMA NoSlots == <<>> \in SlotMaps /\ DOMAIN <<>> = {}
<1>1. <<>> \in [{} -> Nat] /\ IsFiniteSet({})
  BY FS_EmptySet
<1> QED
  BY <1>1, AreSlots

\* One slot more, or another value in a slot.
LEMMA SlotPut ==
    ASSUME NEW f \in SlotMaps, NEW i \in Idx, NEW n \in Nat
    PROVE  /\ With(f, i, n) \in SlotMaps
           /\ DOMAIN With(f, i, n) = {i} \cup DOMAIN f
           /\ \A j \in {i} \cup DOMAIN f : With(f, i, n)[j] = IF j = i THEN n ELSE f[j]
<1> DEFINE D == {i} \cup DOMAIN f
           g == With(f, i, n)
<1>0. DOMAIN f \subseteq Idx /\ IsFiniteSet(DOMAIN f)
  BY SlotsAre
<1>1. g = [j \in D |-> IF j = i THEN n ELSE f[j]]
  BY DEF With
<1> HIDE DEF g
<1>2. D \subseteq Idx /\ IsFiniteSet(D)
  BY <1>0, FS_AddElement
<1>3. g \in [D -> Nat]
  BY <1>1, SlotsAre
<1> QED
  BY <1>1, <1>2, <1>3, AreSlots DEF g

\* Fewer slots.
LEMMA SlotsLess ==
    ASSUME NEW f \in SlotMaps, NEW D \in SUBSET DOMAIN f
    PROVE  /\ Restrict(f, D) \in SlotMaps /\ DOMAIN Restrict(f, D) = D
           /\ \A i \in D : Restrict(f, D)[i] = f[i]
<1>1. D \subseteq Idx /\ IsFiniteSet(D)
  BY SlotsAre, FS_Subset
<1>2. Restrict(f, D) \in [D -> Nat]
  BY SlotsAre DEF Restrict
<1> QED
  BY <1>1, <1>2, AreSlots DEF Restrict

\* An array has a next index.
LEMMA IndexIsNew ==
    ASSUME NEW f \in SlotMaps
    PROVE  NextIndex(f) \in Nat /\ NextIndex(f) \notin DOMAIN f
<1> DEFINE c == Cardinality(DOMAIN f)
<1>1. IsFiniteSet(DOMAIN f) /\ c \in Nat
  BY SlotsAre, FS_CardinalityType
<1>2. \E i \in 1..c + 1 : i \notin DOMAIN f
  <2>1. SUFFICES ASSUME 1..c + 1 \subseteq DOMAIN f PROVE FALSE
    OBVIOUS
  <2>2. Cardinality(1..c + 1) <= c
    BY <1>1, <2>1, FS_Subset
  <2>3. Cardinality(1..c + 1) = c + 1
    BY <1>1, FS_Interval
  <2> QED
    BY <1>1, <2>2, <2>3
<1>3. NextIndex(f) \in 1..c + 1 /\ NextIndex(f) \notin DOMAIN f
  BY <1>2 DEF NextIndex
<1> QED
  BY <1>1, <1>3

------------------------------------------------------------------------------
(* Sequences.                                                                     *)

\* A sequence is a function on 1..Len.
LEMMA SeqIs ==
    ASSUME NEW S, NEW s \in Seq(S)
    PROVE  /\ Len(s) \in Nat /\ DOMAIN s = 1..Len(s)
           /\ \A i \in 1..Len(s) : s[i] \in S
BY LenProperties, ElementOfSeq

\* Which functions are sequences.
LEMMA IsSeq ==
    ASSUME NEW S, NEW n \in Nat, NEW f, f \in [1..n -> S]
    PROVE  f \in Seq(S) /\ Len(f) = n /\ DOMAIN f = 1..n
OBVIOUS

\* An element more,
LEMMA AppendOf ==
    ASSUME NEW S, NEW s \in Seq(S), NEW e \in S
    PROVE  /\ Append(s, e) \in Seq(S) /\ Len(Append(s, e)) = Len(s) + 1 /\ Len(s) \in Nat
           /\ DOMAIN Append(s, e) = 1..(Len(s) + 1) /\ DOMAIN s = 1..Len(s)
           /\ \A i \in 1..Len(s) : Append(s, e)[i] = s[i]
           /\ Append(s, e)[Len(s) + 1] = e
<1>1. Len(s) \in Nat /\ DOMAIN s = 1..Len(s)
  BY LenProperties
<1>2. /\ Append(s, e) \in Seq(S) /\ Len(Append(s, e)) = Len(s) + 1
      /\ \A i \in 1..Len(s) : Append(s, e)[i] = s[i]
      /\ Append(s, e)[Len(s) + 1] = e
  BY AppendProperties
<1>3. DOMAIN Append(s, e) = 1..(Len(s) + 1)
  BY <1>2, LenProperties
<1> QED
  BY <1>1, <1>2, <1>3

\* and one less.
LEMMA FrontOf ==
    ASSUME NEW S, NEW s \in Seq(S), Len(s) > 0
    PROVE  /\ Front(s) \in Seq(S) /\ Len(Front(s)) = Len(s) - 1 /\ Len(s) \in Nat \ {0}
           /\ DOMAIN Front(s) = 1..(Len(s) - 1) /\ DOMAIN s = 1..Len(s)
           /\ \A i \in 1..(Len(s) - 1) : Front(s)[i] = s[i]
           /\ Last(s) = s[Len(s)] /\ Last(s) \in S
<1>1. PICK n \in Nat : n = Len(s) - 1
  BY LenProperties
<1>2. \A i \in 1..Len(s) : s[i] \in S
  BY ElementOfSeq
<1>3. \A i \in 1..n : s[i] \in S
  BY <1>1, <1>2
<1> DEFINE E == SubSeq(s, 1, n)
<1>4. /\ E \in Seq(S)
      /\ Len(E) = IF 1 <= n THEN n - 1 + 1 ELSE 0
      /\ \A i \in 1..(n - 1 + 1) : E[i] = s[1 + i - 1]
  BY <1>3, SubSeqProperties
<1> HIDE DEF E
<1>5. Len(E) = n
  BY <1>1, <1>4
<1>6. ASSUME NEW i \in 1..n PROVE E[i] = s[i]
  <2>1. i \in 1..(n - 1 + 1) /\ 1 + i - 1 = i
    BY <1>1
  <2> QED
    BY <1>4, <2>1
<1>7. Front(s) = E
  BY <1>1 DEF Front, E
<1>8. DOMAIN E = 1..n /\ DOMAIN s = 1..Len(s)
  BY <1>4, <1>5, LenProperties
<1>9. Last(s) = s[Len(s)] /\ Len(s) \in 1..Len(s)
  BY <1>1 DEF Last
<1> QED
  BY <1>1, <1>2, <1>4, <1>5, <1>6, <1>7, <1>8, <1>9

\* The last element.
LEMMA LastOf ==
    ASSUME NEW S, NEW s \in Seq(S), Len(s) > 0
    PROVE  /\ Len(s) \in Nat /\ Len(s) \in 1..Len(s) /\ DOMAIN s = 1..Len(s)
           /\ Last(s) = s[Len(s)] /\ Last(s) \in S /\ s[Len(s)] \in S
<1>1. Len(s) \in Nat /\ DOMAIN s = 1..Len(s)
  BY LenProperties
<1>2. Len(s) \in 1..Len(s)
  BY <1>1
<1>3. s[Len(s)] \in S
  BY <1>2, ElementOfSeq
<1> QED
  BY <1>1, <1>2, <1>3 DEF Last

------------------------------------------------------------------------------
(* Reference counts.  Owned outside are the values that the caller, an open map    *)
(* entry, fieldtable_entries or fieldtable own; Slack is what a count has over the *)
(* references there are.                                                          *)

Svq == Seq(SvRec)
InSlots(s, n) == \E k \in DOMAIN s : n \in Held(s[k])
Waiting(p, n) == Cardinality({i \in DOMAIN p : p[i].target = n})
OwnedBy(s, O, n) == IF n \in O \/ InSlots(s, n) THEN 1 ELSE 0
Slack(s, O, p, n) == s[n].refs - Waiting(p, n) - OwnedBy(s, O, n)

\* Every value has one owner at most.
OneHolder(s) ==
    \A k, l \in DOMAIN s : \A i \in DOMAIN s[k].slots, j \in DOMAIN s[l].slots :
        s[k].slots[i] = s[l].slots[j] /\ s[k].slots[i] # NoSv => k = l /\ i = j
InRange(s) == \A k \in DOMAIN s : \A i \in DOMAIN s[k].slots : s[k].slots[i] \in 0..Len(s)
Tree(s, O) == /\ InRange(s) /\ OneHolder(s)
              /\ O \subseteq 1..Len(s) /\ \A n \in O : ~InSlots(s, n)

\* What is freed has no count left.
FreedGone(s) == \A n \in DOMAIN s : s[n].freed => s[n].refs <= 0

\* The values of s2 are those of s, with other counts and fewer slots.
SameLen(s, s2) == s2 \in Svq /\ Len(s2) = Len(s)
Narrower(s, s2) ==
    \A k \in DOMAIN s : /\ DOMAIN s2[k].slots \subseteq DOMAIN s[k].slots
                        /\ \A i \in DOMAIN s2[k].slots : s2[k].slots[i] = s[k].slots[i]

\* From s, where O is owned outside, to r, where P is: no count changes but with the
\* references there are.
Moves(s, O, r, P) ==
    /\ SameLen(s, r) /\ Tree(r, P)
    /\ \A p : \A n \in 1..Len(s) :
            Waiting(p, n) \in Nat => Slack(r, P, p, n) = Slack(s, O, p, n)
    /\ FreedGone(s) => FreedGone(r)

\* ids gives the elements of D once, and no others.
Lists(ids, D, N) ==
    \A n \in 1..N : Cardinality({i \in DOMAIN ids : ids[i] = n}) = IF n \in D THEN 1 ELSE 0

\* A value of the call,
LEMMA SvIs ==
    ASSUME NEW s \in Svq, NEW n \in 1..Len(s)
    PROVE  /\ s[n] \in SvRec /\ s[n].refs \in Int /\ s[n].freed \in BOOLEAN
           /\ s[n].slots \in SlotMaps /\ n \in DOMAIN s
           /\ \A i \in DOMAIN s[n].slots : s[n].slots[i] \in Nat
<1>1. s[n] \in SvRec /\ n \in DOMAIN s
  BY SeqIs DEF Svq
<1>2. s[n].slots \in SlotMaps /\ s[n].refs \in Int /\ s[n].freed \in BOOLEAN
  BY <1>1 DEF SvRec
<1> QED
  BY <1>1, <1>2, SlotsAre

\* and a sequence of such values.
LEMMA AreSvs ==
    ASSUME NEW N \in Nat, NEW s, s \in [1..N -> SvRec]
    PROVE  s \in Svq /\ Len(s) = N /\ DOMAIN s = 1..N
BY IsSeq DEF Svq

\* Who holds n.
LEMMA HeldIs ==
    ASSUME NEW s \in Svq
    PROVE  /\ Len(s) \in Nat /\ DOMAIN s = 1..Len(s)
           /\ \A n : InSlots(s, n) <=>
                \E k \in 1..Len(s) : \E i \in DOMAIN s[k].slots : s[k].slots[i] = n
           /\ \A n, k : n \in Held(s[k]) <=> \E i \in DOMAIN s[k].slots : s[k].slots[i] = n
<1>1. Len(s) \in Nat /\ DOMAIN s = 1..Len(s)
  BY SeqIs DEF Svq
<1>2. \A n, k : n \in Held(s[k]) <=> \E i \in DOMAIN s[k].slots : s[k].slots[i] = n
  BY DEF Held
<1>3. \A n : InSlots(s, n) <=>
                \E k \in 1..Len(s) : \E i \in DOMAIN s[k].slots : s[k].slots[i] = n
  BY <1>1, <1>2 DEF InSlots
<1> QED
  BY <1>1, <1>2, <1>3

\* A set with one element at most.
LEMMA AtMostOne ==
    ASSUME NEW S, NEW x, S \subseteq {x}
    PROVE  Cardinality(S) = IF x \in S THEN 1 ELSE 0
<1>1. CASE x \in S
  <2>1. S = {x}
    BY <1>1
  <2> QED
    BY <1>1, <2>1, FS_Singleton
<1>2. CASE x \notin S
  <2>1. S = {}
    BY <1>2
  <2> QED
    BY <1>2, <2>1, FS_EmptySet
<1> QED
  BY <1>1, <1>2

\* A value is held once or not at all.
LEMMA HeldOnce ==
    ASSUME NEW s \in Svq, OneHolder(s), NEW S \in SUBSET (1..Len(s)), NEW n \in 1..Len(s)
    PROVE  HeldBy(s, S, n) = IF \E k \in S : n \in Held(s[k]) THEN 1 ELSE 0
<1> DEFINE H == {k \in S : n \in Held(s[k])}
<1>1. CASE \E k \in S : n \in Held(s[k])
  <2>1. PICK k \in S : n \in Held(s[k])
    BY <1>1
  <2>2. ASSUME NEW l \in H PROVE l = k
    <3>1. n # NoSv /\ DOMAIN s = 1..Len(s)
      BY HeldIs DEF NoSv
    <3>2. \E i \in DOMAIN s[k].slots : s[k].slots[i] = n
      BY <2>1 DEF Held
    <3>3. \E i \in DOMAIN s[l].slots : s[l].slots[i] = n
      BY <2>2 DEF Held
    <3> QED
      BY <3>1, <3>2, <3>3 DEF OneHolder
  <2>3. H \subseteq {k} /\ k \in H
    BY <2>1, <2>2
  <2> HIDE DEF H
  <2>4. Cardinality(H) = 1
    BY <2>3, AtMostOne
  <2> QED
    BY <1>1, <2>4 DEF HeldBy, H
<1>2. CASE ~\E k \in S : n \in Held(s[k])
  <2>1. H = {}
    BY <1>2
  <2> HIDE DEF H
  <2>2. Cardinality(H) = 0
    BY <2>1, FS_EmptySet
  <2> QED
    BY <1>2, <2>2 DEF HeldBy, H
<1> QED
  BY <1>1, <1>2

\* The same values with other counts.
SameSlots(s, s2) ==
    /\ SameLen(s, s2)
    /\ \A n \in DOMAIN s : s2[n].slots = s[n].slots /\ s2[n].freed = s[n].freed

\* SvREFCNT_dec changes counts,
LEMMA DecIs ==
    ASSUME NEW s \in Svq, NEW ids,
           \A n \in 1..Len(s) : Cardinality({i \in DOMAIN ids : ids[i] = n}) \in Nat
    PROVE  /\ SameSlots(s, Dec(s, ids))
           /\ \A n \in 1..Len(s) :
                Dec(s, ids)[n].refs = s[n].refs - Cardinality({i \in DOMAIN ids : ids[i] = n})
<1> DEFINE c(n) == Cardinality({i \in DOMAIN ids : ids[i] = n})
           d == Dec(s, ids)
<1>1. Len(s) \in Nat /\ DOMAIN s = 1..Len(s)
  BY HeldIs
<1>2. d = [n \in 1..Len(s) |-> [s[n] EXCEPT !.refs = @ - c(n)]]
  BY <1>1 DEF Dec
<1>3. \A n \in 1..Len(s) : c(n) \in Nat
  OBVIOUS
<1> HIDE DEF c, d
<1>4. ASSUME NEW n \in 1..Len(s)
      PROVE  /\ d[n] \in SvRec /\ d[n].refs = s[n].refs - c(n)
             /\ d[n].slots = s[n].slots /\ d[n].freed = s[n].freed
  <2>1. d[n] = [s[n] EXCEPT !.refs = @ - c(n)]
    BY <1>2
  <2>2. s[n] \in SvRec /\ s[n].refs \in Int
    BY SvIs
  <2>3. s[n].refs - c(n) \in Int
    BY <1>3, <2>2
  <2> QED
    BY <2>1, <2>2, <2>3 DEF SvRec
<1>5. d \in Svq /\ Len(d) = Len(s)
  <2>1. d \in [1..Len(s) -> SvRec]
    BY <1>2, <1>4
  <2> QED
    BY <1>1, <2>1, AreSvs
<1>6. SameSlots(s, d)
  BY <1>1, <1>4, <1>5 DEF SameSlots, SameLen
<1> QED
  BY <1>4, <1>6 DEF c, d

\* not holders.
LEMMA SameHolders ==
    ASSUME NEW s \in Svq, NEW s2, SameSlots(s, s2)
    PROVE  /\ s2 \in Svq /\ Len(s2) = Len(s) /\ DOMAIN s2 = 1..Len(s)
           /\ \A n : InSlots(s2, n) <=> InSlots(s, n)
           /\ OneHolder(s) => OneHolder(s2)
           /\ InRange(s) => InRange(s2)
           /\ Narrower(s, s2)
<1>1. s2 \in Svq /\ Len(s2) = Len(s)
  BY DEF SameSlots, SameLen
<1>2. DOMAIN s2 = 1..Len(s) /\ DOMAIN s = 1..Len(s)
  BY <1>1, HeldIs
<1>3. \A n \in 1..Len(s) : s2[n].slots = s[n].slots
  BY <1>2 DEF SameSlots
<1>4. \A n : InSlots(s2, n) <=> InSlots(s, n)
  BY <1>2, <1>3 DEF InSlots, Held
<1>5. OneHolder(s) => OneHolder(s2)
  BY <1>2, <1>3 DEF OneHolder
<1>6. InRange(s) => InRange(s2)
  BY <1>1, <1>2, <1>3 DEF InRange
<1>7. Narrower(s, s2)
  BY <1>2, <1>3 DEF Narrower
<1> QED
  BY <1>1, <1>2, <1>4, <1>5, <1>6, <1>7

\* Values that lose their owner and one reference each.
LEMMA Drop ==
    ASSUME NEW s \in Svq, NEW O, Tree(s, O), NEW D \in SUBSET O, NEW s2, SameSlots(s, s2),
           \A n \in 1..Len(s) : s2[n].refs = s[n].refs - IF n \in D THEN 1 ELSE 0
    PROVE  Moves(s, O, s2, O \ D)
<1>1. /\ s2 \in Svq /\ Len(s2) = Len(s) /\ DOMAIN s2 = 1..Len(s) /\ DOMAIN s = 1..Len(s)
      /\ \A n : InSlots(s2, n) <=> InSlots(s, n)
      /\ OneHolder(s2) /\ InRange(s2)
  BY SameHolders, HeldIs DEF Tree
<1>2. Tree(s2, O \ D)
  BY <1>1 DEF Tree
<1>3. ASSUME NEW p, NEW n \in 1..Len(s), Waiting(p, n) \in Nat
      PROVE  Slack(s2, O \ D, p, n) = Slack(s, O, p, n)
  <2>1. s[n].refs \in Int
    BY SvIs
  <2>2. n \in D => n \in O /\ ~InSlots(s, n)
    BY DEF Tree
  <2>3. CASE n \in D
    <3>1. OwnedBy(s, O, n) = 1 /\ OwnedBy(s2, O \ D, n) = 0
      BY <1>1, <2>2, <2>3 DEF OwnedBy
    <3> QED
      BY <1>3, <2>1, <2>3, <3>1 DEF Slack
  <2>4. CASE n \notin D
    <3>1. OwnedBy(s, O, n) = OwnedBy(s2, O \ D, n)
      BY <1>1, <2>4 DEF OwnedBy
    <3> QED
      BY <1>3, <2>1, <2>4, <3>1 DEF Slack
  <2> QED
    BY <2>3, <2>4
<1>4. ASSUME FreedGone(s) PROVE FreedGone(s2)
  <2>1. \A n \in 1..Len(s) : s[n].refs \in Int /\ s2[n].freed = s[n].freed
    BY <1>1, SvIs DEF SameSlots
  <2> QED
    BY <1>1, <1>4, <2>1 DEF FreedGone
<1> QED
  BY <1>1, <1>2, <1>3, <1>4 DEF Moves, SameLen

\* More holders hold more.
LEMMA HeldByGrows ==
    ASSUME NEW s \in Svq, NEW B \in SUBSET (1..Len(s)), NEW A \in SUBSET B, NEW n
    PROVE  /\ HeldBy(s, A, n) \in Nat /\ HeldBy(s, B, n) \in Nat
           /\ HeldBy(s, A, n) <= HeldBy(s, B, n)
<1> DEFINE HA == {k \in A : n \in Held(s[k])}
           HB == {k \in B : n \in Held(s[k])}
<1>1. IsFiniteSet(1..Len(s))
  BY HeldIs, FS_Interval
<1>2. HB \subseteq 1..Len(s) /\ HA \subseteq HB
  OBVIOUS
<1> HIDE DEF HA, HB
<1>3. IsFiniteSet(HB) /\ IsFiniteSet(HA) /\ Cardinality(HA) <= Cardinality(HB)
  BY <1>1, <1>2, FS_Subset
<1>4. Cardinality(HB) \in Nat /\ Cardinality(HA) \in Nat
  BY <1>3, FS_CardinalityType
<1> QED
  BY <1>3, <1>4 DEF HeldBy, HA, HB

\* What goes is held by nothing but what goes: there is such a set, the least one.
LEMMA GoneIs ==
    ASSUME NEW s \in Svq
    PROVE  /\ Gone(s) \subseteq 1..Len(s)
           /\ \A n \in Gone(s) : s[n].refs <= HeldBy(s, Gone(s), n)
<1> DEFINE D == DOMAIN s
           In(S, n) == {k \in D : k < n /\ n \in Held(s[k]) /\ k \in S}
           F(S) == {n \in D : s[n].refs <= HeldBy(s, In(S, n), n)}
           L == {n \in D : \A S \in SUBSET D : F(S) \subseteq S => n \in S}
           R(g) == g = [n \in D |-> s[n].refs <=
                           HeldBy(s, {k \in D : k < n /\ n \in Held(s[k]) /\ g[k]}, n)]
<1>1. D = 1..Len(s) /\ Len(s) \in Nat /\ \A n \in D : s[n].refs \in Int
  BY HeldIs, SvIs
<1>2. ASSUME NEW S \in SUBSET D, NEW T \in SUBSET D, S \subseteq T PROVE F(S) \subseteq F(T)
  <2>1. ASSUME NEW n \in F(S) PROVE n \in F(T)
    <3>1. In(S, n) \subseteq In(T, n) /\ In(T, n) \subseteq D
      BY <1>2
    <3> HIDE DEF In
    <3>2. /\ HeldBy(s, In(S, n), n) \in Nat /\ HeldBy(s, In(T, n), n) \in Nat
          /\ HeldBy(s, In(S, n), n) <= HeldBy(s, In(T, n), n)
      BY <1>1, <3>1, HeldByGrows
    <3>3. s[n].refs <= HeldBy(s, In(S, n), n) /\ n \in D /\ s[n].refs \in Int
      BY <1>1, <2>1
    <3> QED
      BY <3>2, <3>3
  <2> QED
    BY <2>1
<1>3. /\ \A S : F(S) \subseteq D
      /\ L \subseteq D /\ \A S \in SUBSET D : F(S) \subseteq S => L \subseteq S
      /\ \A n \in D : (\A S \in SUBSET D : F(S) \subseteq S => n \in S) => n \in L
  BY Zenon
<1>4. \A n \in D : n \in F(L) <=> s[n].refs <= HeldBy(s, In(L, n), n)
  OBVIOUS
<1>5. F(L) = L
  <2> HIDE DEF F, L, D
  <2>1. F(L) \subseteq L
    <3>1. ASSUME NEW S \in SUBSET D, F(S) \subseteq S PROVE F(L) \subseteq S
      <4>1. L \subseteq S
        BY <1>3, <3>1
      <4>2. F(L) \subseteq F(S)
        BY <1>2, <1>3, <4>1
      <4> QED
        BY <3>1, <4>2
    <3>2. ASSUME NEW n \in F(L) PROVE n \in L
      <4>1. n \in D
        BY <1>3
      <4> QED
        BY <1>3, <3>1, <4>1
    <3> QED
      BY <3>2
  <2>2. F(F(L)) \subseteq F(L)
    BY <1>2, <1>3, <2>1
  <2> QED
    BY <1>3, <2>1, <2>2
<1>6. \E g : R(g)
  <2> DEFINE g == [n \in D |-> n \in L]
  <2>1. \A n \in D : In(L, n) = {k \in D : k < n /\ n \in Held(s[k]) /\ g[k]}
    <3> HIDE DEF L
    <3> QED
      BY Zenon
  <2>2. \A n \in D : (n \in L) = (s[n].refs <= HeldBy(s, In(L, n), n))
    <3> HIDE DEF In, L, F
    <3> QED
      BY <1>4, <1>5
  <2>3. \A n \in D : g[n] =
            (s[n].refs <= HeldBy(s, {k \in D : k < n /\ n \in Held(s[k]) /\ g[k]}, n))
    <3> HIDE DEF L, In
    <3>1. \A n \in D : g[n] = (n \in L)
      BY Zenon
    <3> HIDE DEF g
    <3> QED
      BY <2>1, <2>2, <3>1, Zenon
  <2>4. g = [n \in D |-> g[n]]
    BY Zenon
  <2> HIDE DEF g
  <2>5. R(g)
    BY <2>3, <2>4, Zenon
  <2> QED
    BY <2>5
<1> DEFINE goes == CHOOSE g : R(g)
<1>7. R(goes)
  <2> HIDE DEF R
  <2> QED
    BY <1>6
<1>8. Gone(s) = {n \in D : goes[n]}
  BY Zenon DEF Gone
<1>9. ASSUME NEW n \in Gone(s) PROVE s[n].refs <= HeldBy(s, Gone(s), n)
  <2> DEFINE A == {k \in D : k < n /\ n \in Held(s[k]) /\ goes[k]}
  <2> HIDE DEF goes
  <2>1. n \in D /\ goes[n]
    BY <1>8, <1>9
  <2>2. goes[n] = (s[n].refs <= HeldBy(s, A, n))
    BY <1>7, <2>1, Zenon
  <2>3. A \subseteq Gone(s) /\ Gone(s) \subseteq 1..Len(s)
    BY <1>1, <1>8
  <2> HIDE DEF A
  <2>4. HeldBy(s, A, n) \in Nat /\ HeldBy(s, Gone(s), n) \in Nat
        /\ HeldBy(s, A, n) <= HeldBy(s, Gone(s), n)
    BY <2>3, HeldByGrows
  <2>5. s[n].refs \in Int
    BY <1>1, <2>1
  <2>6. s[n].refs <= HeldBy(s, A, n)
    BY <2>1, <2>2, Zenon
  <2> QED
    BY <2>4, <2>5, <2>6
<1>10. Gone(s) \subseteq 1..Len(s)
  <2> HIDE DEF goes
  <2> QED
    BY <1>1, <1>8
<1> QED
  BY <1>9, <1>10

\* Freeing takes the references that what goes held, and no others.
LEMMA ReapIs ==
    ASSUME NEW s \in Svq, NEW O, Tree(s, O)
    PROVE  Moves(s, O, Reap(s), O) /\ Narrower(s, Reap(s))
<1> DEFINE G == Gone(s)
           r == Reap(s)
           h(n) == HeldBy(s, G, n)
<1>1. Len(s) \in Nat /\ DOMAIN s = 1..Len(s)
  BY HeldIs
<1>2. G \subseteq 1..Len(s) /\ \A n \in G : s[n].refs <= h(n)
  BY GoneIs
<1>3. \A n \in 1..Len(s) : h(n) = IF \E k \in G : n \in Held(s[k]) THEN 1 ELSE 0
  BY <1>2, HeldOnce DEF Tree
<1>4. r = [n \in 1..Len(s) |-> [refs  |-> s[n].refs - h(n),
                                slots |-> IF n \in G THEN <<>> ELSE s[n].slots,
                                freed |-> s[n].freed \/ n \in G]]
  BY <1>1, Zenon DEF Reap
<1>5. \A n \in 1..Len(s) : h(n) \in 0..1
  BY <1>3
<1> HIDE DEF G, r, h
<1>6. ASSUME NEW n \in 1..Len(s)
      PROVE  /\ r[n] \in SvRec /\ r[n].refs = s[n].refs - h(n)
             /\ r[n].slots = IF n \in G THEN <<>> ELSE s[n].slots
             /\ r[n].freed = (s[n].freed \/ n \in G)
  <2>1. r[n] = [refs  |-> s[n].refs - h(n),
                slots |-> IF n \in G THEN <<>> ELSE s[n].slots,
                freed |-> s[n].freed \/ n \in G]
    BY <1>4, Zenon
  <2>2. s[n].refs - h(n) \in Int
    BY <1>5, SvIs
  <2>3. (IF n \in G THEN <<>> ELSE s[n].slots) \in SlotMaps
    BY SvIs, NoSlots
  <2>4. PICK a, b, c : /\ a = s[n].refs - h(n) /\ b = IF n \in G THEN <<>> ELSE s[n].slots
                      /\ c = (s[n].freed \/ n \in G) /\ c \in BOOLEAN
    BY Zenon
  <2>5. r[n] = [refs |-> a, slots |-> b, freed |-> c]
    BY <2>1, <2>4, Zenon
  <2>6. r[n] \in SvRec /\ r[n].refs = a /\ r[n].slots = b /\ r[n].freed = c
    BY <2>2, <2>3, <2>4, <2>5 DEF SvRec
  <2> QED
    BY <2>4, <2>6, Zenon
<1>7. r \in Svq /\ Len(r) = Len(s) /\ DOMAIN r = 1..Len(s)
  <2>1. r \in [1..Len(s) -> SvRec]
    BY <1>4, <1>6, Zenon
  <2> QED
    BY <1>1, <2>1, AreSvs
<1>8. Narrower(s, r)
  <2>1. \A n \in 1..Len(s) : DOMAIN r[n].slots = IF n \in G THEN {} ELSE DOMAIN s[n].slots
    BY <1>6, NoSlots
  <2> QED
    BY <1>1, <1>6, <2>1 DEF Narrower
<1>9. \A n : InSlots(r, n) <=> \E k \in 1..Len(s) : k \notin G /\ n \in Held(s[k])
  <2>1. \A k \in 1..Len(s) : Held(r[k]) = IF k \in G THEN {} ELSE Held(s[k])
    BY <1>6, NoSlots DEF Held
  <2> QED
    BY <1>7, <2>1 DEF InSlots
<1>10. \A n : InSlots(r, n) => InSlots(s, n)
  BY <1>1, <1>9 DEF InSlots
<1>11. Tree(r, O)
  <2>1. OneHolder(r)
    BY <1>1, <1>7, <1>8 DEF OneHolder, Narrower, Tree
  <2>2. InRange(r)
    BY <1>1, <1>7, <1>8 DEF InRange, Narrower, Tree
  <2> QED
    BY <1>7, <1>10, <2>1, <2>2 DEF Tree
<1>12. ASSUME NEW p, NEW n \in 1..Len(s), Waiting(p, n) \in Nat
       PROVE  Slack(r, O, p, n) = Slack(s, O, p, n)
  <2>1. s[n].refs \in Int /\ r[n].refs = s[n].refs - h(n)
    BY <1>6, SvIs
  <2>2. InSlots(s, n) <=> \E k \in 1..Len(s) : n \in Held(s[k])
    BY <1>1 DEF InSlots
  <2>3. CASE \E k \in G : n \in Held(s[k])
    <3>1. InSlots(s, n) /\ n \notin O /\ h(n) = 1
      BY <1>2, <1>3, <2>2, <2>3 DEF Tree
    <3>2. ~InSlots(r, n)
      <4>1. PICK k \in G : n \in Held(s[k])
        BY <2>3
      <4>2. ASSUME NEW l \in 1..Len(s), n \in Held(s[l]) PROVE l = k
        <5>1. n # NoSv /\ k \in 1..Len(s)
          BY <1>2 DEF NoSv
        <5>2. /\ \E i \in DOMAIN s[k].slots : s[k].slots[i] = n
              /\ \E i \in DOMAIN s[l].slots : s[l].slots[i] = n
          BY <4>1, <4>2 DEF Held
        <5> QED
          BY <1>1, <5>1, <5>2 DEF Tree, OneHolder
      <4> QED
        BY <1>9, <4>1, <4>2
    <3>3. OwnedBy(s, O, n) = 1 /\ OwnedBy(r, O, n) = 0
      BY <3>1, <3>2 DEF OwnedBy
    <3> QED
      BY <1>12, <2>1, <3>1, <3>3 DEF Slack
  <2>4. CASE ~\E k \in G : n \in Held(s[k])
    <3>1. h(n) = 0 /\ (InSlots(r, n) <=> InSlots(s, n))
      BY <1>3, <1>9, <2>2, <2>4
    <3>2. OwnedBy(s, O, n) = OwnedBy(r, O, n)
      BY <3>1 DEF OwnedBy
    <3> QED
      BY <1>12, <2>1, <3>1, <3>2 DEF Slack
  <2> QED
    BY <2>3, <2>4
<1>13. ASSUME FreedGone(s) PROVE FreedGone(r)
  <2>1. ASSUME NEW n \in 1..Len(s), r[n].freed PROVE r[n].refs <= 0
    <3>1. s[n].refs \in Int /\ h(n) \in 0..1 /\ r[n].refs = s[n].refs - h(n)
      BY <1>5, <1>6, SvIs
    <3>2. n \in G => s[n].refs <= h(n)
      BY <1>2 DEF h
    <3>3. n \in G \/ s[n].freed
      BY <1>6, <2>1
    <3>4. s[n].freed => s[n].refs <= 0
      BY <1>1, <1>13 DEF FreedGone
    <3> QED
      BY <3>1, <3>2, <3>3, <3>4
  <2> QED
    BY <1>7, <2>1 DEF FreedGone
<1>14. SameLen(s, r)
  BY <1>7 DEF SameLen
<1> QED
  BY <1>8, <1>11, <1>12, <1>13, <1>14 DEF r, Moves

------------------------------------------------------------------------------
(* What an edit of the values does to their counts.                               *)

\* A new value, owned by nothing that is a value.
LEMMA MadeOutside ==
    ASSUME NEW s \in Svq, NEW O, Tree(s, O), NEW N, N = Len(s) + 1
    PROVE  LET r == Append(s, NewSv) IN
           /\ r \in Svq /\ Len(r) = N /\ N \in Nat
           /\ \A k \in 1..Len(s) : r[k] = s[k]
           /\ r[N] = NewSv /\ DOMAIN r[N].slots = {} /\ r[N].refs = 1 /\ ~r[N].freed
           /\ \A n : InSlots(r, n) <=> InSlots(s, n)
           /\ ~InSlots(s, N) /\ N \notin O
           /\ Tree(r, O) /\ Tree(r, O \cup {N})
           /\ FreedGone(s) => FreedGone(r)
<1> DEFINE r == Append(s, NewSv)
<1>1. Len(s) \in Nat /\ DOMAIN s = 1..Len(s) /\ N \in Nat
  BY HeldIs
<1>2. NewSv \in SvRec /\ NewSv.slots = <<>> /\ NewSv.refs = 1 /\ NewSv.freed = FALSE
  BY NoSlots DEF NewSv, SvRec
<1>3. /\ r \in Svq /\ Len(r) = N /\ DOMAIN r = 1..N
      /\ \A k \in 1..Len(s) : r[k] = s[k]
      /\ r[N] = NewSv
  BY <1>2, AppendOf DEF Svq
<1> HIDE DEF r
<1>4. DOMAIN r[N].slots = {} /\ r[N].refs = 1 /\ ~r[N].freed
  BY <1>2, <1>3, NoSlots
<1>5. \A k \in 1..N : k \in 1..Len(s) \/ k = N
  BY <1>1
<1>6. \A n : InSlots(r, n) <=> InSlots(s, n)
  <2>1. \A k \in 1..Len(s) : k \in 1..N
    BY <1>1
  <2>2. Held(r[N]) = {}
    BY <1>4 DEF Held
  <2> QED
    BY <1>1, <1>3, <1>5, <2>1, <2>2 DEF InSlots
<1>7. ~InSlots(s, N) /\ N \notin O
  <2>1. \A n : InSlots(s, n) => n \in 0..Len(s)
    BY <1>1 DEF Tree, InRange, InSlots, Held
  <2>2. O \subseteq 1..Len(s)
    BY DEF Tree
  <2> QED
    BY <1>1, <2>1, <2>2
<1>8. InRange(r) /\ OneHolder(r)
  <2>1. InRange(r)
    <3>1. \A k \in 1..Len(s) : \A i \in DOMAIN s[k].slots : s[k].slots[i] \in 0..Len(s)
      BY <1>1 DEF Tree, InRange
    <3>2. \A i \in 0..Len(s) : i \in 0..N
      BY <1>1
    <3> QED
      BY <1>3, <1>4, <1>5, <3>1, <3>2 DEF InRange
  <2>2. OneHolder(r)
    BY <1>1, <1>3, <1>4, <1>5 DEF OneHolder, Tree
  <2> QED
    BY <2>1, <2>2
<1>9. Tree(r, O) /\ Tree(r, O \cup {N})
  <2>1. \A n \in 1..Len(s) : n \in 1..N
    BY <1>1
  <2>2. N \in 1..N
    BY <1>1
  <2> QED
    BY <1>3, <1>6, <1>7, <1>8, <2>1, <2>2 DEF Tree
<1>10. FreedGone(s) => FreedGone(r)
  BY <1>1, <1>3, <1>4, <1>5 DEF FreedGone
<1> QED
  BY <1>1, <1>3, <1>4, <1>6, <1>7, <1>9, <1>10 DEF r

\* Its count.
LEMMA MadeCounts ==
    ASSUME NEW s \in Svq, NEW O, Tree(s, O), NEW N, N = Len(s) + 1, NEW p
    PROVE  LET r == Append(s, NewSv) IN
           /\ \A n \in 1..Len(s) : /\ Slack(r, O, p, n) = Slack(s, O, p, n)
                                   /\ Slack(r, O \cup {N}, p, n) = Slack(s, O, p, n)
           /\ Waiting(p, N) = 0 => Slack(r, O \cup {N}, p, N) = 0
<1> DEFINE r == Append(s, NewSv)
<1>1. /\ r \in Svq /\ Len(r) = N /\ N \in Nat
      /\ \A k \in 1..Len(s) : r[k] = s[k]
      /\ r[N].refs = 1
      /\ \A n : InSlots(r, n) <=> InSlots(s, n)
      /\ ~InSlots(s, N) /\ N \notin O
  BY MadeOutside
<1> HIDE DEF r
<1>2. \A n \in 1..Len(s) : n # N
  BY <1>1, HeldIs
<1>3. \A n \in 1..Len(s) : /\ OwnedBy(r, O, n) = OwnedBy(s, O, n)
                           /\ OwnedBy(r, O \cup {N}, n) = OwnedBy(s, O, n)
  BY <1>1, <1>2 DEF OwnedBy
<1>4. OwnedBy(r, O \cup {N}, N) = 1
  BY DEF OwnedBy
<1>5. Waiting(p, N) = 0 => Slack(r, O \cup {N}, p, N) = 0
  BY <1>1, <1>4 DEF Slack
<1>6. \A n \in 1..Len(s) : /\ Slack(r, O, p, n) = Slack(s, O, p, n)
                           /\ Slack(r, O \cup {N}, p, n) = Slack(s, O, p, n)
  BY <1>1, <1>3 DEF Slack
<1> QED
  BY <1>5, <1>6 DEF r

\* The values that slots have.
Filled(f) == {f[j] : j \in DOMAIN f} \ {NoSv}

\* Other slots for a value.
Refill(s, h, f) == [s EXCEPT ![h].slots = f]

\* The other values stay as they are.
LEMMA RefilledIs ==
    ASSUME NEW s \in Svq, NEW h \in 1..Len(s), NEW f \in SlotMaps
    PROVE  LET r == Refill(s, h, f) IN
           /\ SameLen(s, r) /\ DOMAIN r = 1..Len(s)
           /\ \A k \in 1..Len(s) :
                /\ r[k].refs = s[k].refs /\ r[k].freed = s[k].freed
                /\ r[k].slots = IF k = h THEN f ELSE s[k].slots
<1> DEFINE r == Refill(s, h, f)
           v == [s[h] EXCEPT !.slots = f]
<1>1. Len(s) \in Nat /\ DOMAIN s = 1..Len(s)
  BY HeldIs
<1>2. /\ v \in SvRec /\ v.slots = f /\ v.refs = s[h].refs /\ v.freed = s[h].freed
  <2>1. s[h] \in SvRec
    BY SvIs
  <2> QED
    BY <2>1 DEF SvRec
<1>3. r = [s EXCEPT ![h] = v]
  BY DEF Refill
<1> HIDE DEF r, v
<1>4. /\ r \in Svq /\ Len(r) = Len(s)
      /\ \A k \in 1..Len(s) : r[k] = IF k = h THEN v ELSE s[k]
  BY <1>2, <1>3, ExceptSeq DEF Svq
<1>5. DOMAIN r = 1..Len(s)
  BY <1>4, HeldIs
<1> QED
  BY <1>2, <1>4, <1>5 DEF SameLen, r

\* What is in them comes from outside or was there, and what is no longer in them is
\* outside.
LEMMA Refilled ==
    ASSUME NEW s \in Svq, NEW O, Tree(s, O), NEW h \in 1..Len(s), NEW f \in SlotMaps,
           \A j \in DOMAIN f : f[j] \in {NoSv} \cup O
                               \/ (j \in DOMAIN s[h].slots /\ f[j] = s[h].slots[j]),
           \A i, j \in DOMAIN f : f[i] = f[j] /\ f[i] # NoSv => i = j
    PROVE  LET r == Refill(s, h, f)
               P == (O \cup Filled(s[h].slots)) \ Filled(f)
           IN Moves(s, O, r, P)
<1> DEFINE r == Refill(s, h, f)
           was == Filled(s[h].slots)
           now == Filled(f)
           P == (O \cup was) \ now
<1>1. Len(s) \in Nat /\ DOMAIN s = 1..Len(s)
  BY HeldIs
<1>2. /\ r \in Svq /\ Len(r) = Len(s) /\ DOMAIN r = 1..Len(s)
      /\ \A k \in 1..Len(s) :
            /\ r[k].refs = s[k].refs /\ r[k].freed = s[k].freed
            /\ r[k].slots = IF k = h THEN f ELSE s[k].slots
  BY RefilledIs DEF SameLen
<1> HIDE DEF r
<1>3. /\ \A n : n \in now <=> n # NoSv /\ \E j \in DOMAIN f : f[j] = n
      /\ \A n : n \in was <=> n # NoSv /\ \E j \in DOMAIN s[h].slots : s[h].slots[j] = n
  BY DEF Filled
<1> HIDE DEF was, now
<1>4. \A n : InSlots(s, n) <=> \E k \in 1..Len(s) : \E i \in DOMAIN s[k].slots : s[k].slots[i] = n
  BY HeldIs
<1>5. \A n : InSlots(r, n) <=> \E k \in 1..Len(s) : \E i \in DOMAIN r[k].slots : r[k].slots[i] = n
  BY <1>2, HeldIs
<1>6. /\ \A k, l \in 1..Len(s) : \A i \in DOMAIN s[k].slots, j \in DOMAIN s[l].slots :
            s[k].slots[i] = s[l].slots[j] /\ s[k].slots[i] # NoSv => k = l /\ i = j
      /\ \A k \in 1..Len(s) : \A i \in DOMAIN s[k].slots : s[k].slots[i] \in 0..Len(s)
      /\ O \subseteq 1..Len(s) /\ \A n \in O : ~InSlots(s, n)
  BY <1>1 DEF Tree, OneHolder, InRange
<1>7. now \subseteq O \cup was /\ \A n \in was : InSlots(s, n) /\ n \in 1..Len(s) /\ n \notin O
  <2>1. \A n \in was : InSlots(s, n) /\ n \in 0..Len(s) /\ n # 0
    BY <1>3, <1>4, <1>6 DEF NoSv
  <2>2. now \subseteq O \cup was
    BY <1>3
  <2> QED
    BY <1>1, <1>6, <2>1, <2>2
<1>8. ASSUME NEW n, n # NoSv
      PROVE  InSlots(r, n) <=> n \in now \/ (InSlots(s, n) /\ n \notin was)
  <2>1. ASSUME InSlots(r, n) PROVE n \in now \/ (InSlots(s, n) /\ n \notin was)
    <3>1. PICK k \in 1..Len(s) : \E i \in DOMAIN r[k].slots : r[k].slots[i] = n
      BY <1>5, <2>1
    <3>2. CASE k = h
      BY <1>2, <1>3, <1>8, <3>1, <3>2
    <3>3. CASE k # h
      <4>1. \E i \in DOMAIN s[k].slots : s[k].slots[i] = n
        BY <1>2, <3>1, <3>3
      <4>2. n \notin was
        BY <1>3, <1>6, <1>8, <3>3, <4>1
      <4> QED
        BY <1>4, <4>1, <4>2
    <3> QED
      BY <3>2, <3>3
  <2>2. ASSUME n \in now PROVE InSlots(r, n)
    BY <1>2, <1>3, <1>5, <2>2
  <2>3. ASSUME InSlots(s, n), n \notin was PROVE InSlots(r, n)
    <3>1. PICK k \in 1..Len(s) : \E i \in DOMAIN s[k].slots : s[k].slots[i] = n
      BY <1>4, <2>3
    <3>2. k # h
      BY <1>3, <1>8, <2>3, <3>1
    <3> QED
      BY <1>2, <1>5, <3>1, <3>2
  <2> QED
    BY <2>1, <2>2, <2>3
<1>9. Tree(r, P)
  <2>1. InRange(r)
    <3>1. ASSUME NEW j \in DOMAIN f PROVE f[j] \in 0..Len(s)
      <4>1. \A i \in DOMAIN s[h].slots : s[h].slots[i] \in 0..Len(s)
        BY <1>6
      <4>2. \A n \in {NoSv} \cup O : n \in 0..Len(s)
        BY <1>1, <1>6 DEF NoSv
      <4> QED
        BY <4>1, <4>2
    <3> QED
      BY <1>2, <1>6, <3>1 DEF InRange
  <2>2. OneHolder(r)
    <3>1. ASSUME NEW k \in 1..Len(s), k # h, NEW i \in DOMAIN s[k].slots, s[k].slots[i] # NoSv,
                 NEW j \in DOMAIN f
          PROVE  s[k].slots[i] # f[j]
      <4>1. InSlots(s, s[k].slots[i])
        BY <1>4
      <4> QED
        BY <1>6, <3>1, <4>1
    <3>2. ASSUME NEW k \in 1..Len(s), NEW l \in 1..Len(s), NEW i \in DOMAIN r[k].slots,
                 NEW j \in DOMAIN r[l].slots, r[k].slots[i] = r[l].slots[j], r[k].slots[i] # NoSv
          PROVE  k = l /\ i = j
      <4>1. CASE k = h /\ l = h
        BY <1>2, <3>2, <4>1
      <4>2. CASE k # h /\ l # h
        BY <1>2, <1>6, <3>2, <4>2
      <4>3. CASE k = h /\ l # h
        BY <1>2, <3>1, <3>2, <4>3
      <4>4. CASE k # h /\ l = h
        BY <1>2, <3>1, <3>2, <4>4
      <4> QED
        BY <4>1, <4>2, <4>3, <4>4
    <3> QED
      BY <1>2, <3>2 DEF OneHolder
  <2>3. P \subseteq 1..Len(s)
    BY <1>6, <1>7
  <2>4. ASSUME NEW n \in P PROVE ~InSlots(r, n)
    <3>1. n # NoSv
      BY <2>3, <2>4 DEF NoSv
    <3> QED
      BY <1>6, <1>8, <2>4, <3>1
  <2> QED
    BY <1>2, <2>1, <2>2, <2>3, <2>4 DEF Tree
<1>10. ASSUME NEW p, NEW n \in 1..Len(s), Waiting(p, n) \in Nat
       PROVE  Slack(r, P, p, n) = Slack(s, O, p, n)
  <2>1. n # NoSv
    BY DEF NoSv
  <2>2. n \in P \/ InSlots(r, n) <=> n \in O \/ InSlots(s, n)
    BY <1>7, <1>8, <2>1
  <2>3. OwnedBy(r, P, n) = OwnedBy(s, O, n)
    BY <2>2 DEF OwnedBy
  <2> QED
    BY <1>2, <2>3 DEF Slack
<1>11. FreedGone(s) => FreedGone(r)
  BY <1>1, <1>2 DEF FreedGone
<1> QED
  BY <1>2, <1>9, <1>10, <1>11 DEF r, was, now, Moves, SameLen

\* Who owns less counts on less.
LEMMA LessOutside ==
    ASSUME NEW s \in Svq, NEW O, Tree(s, O), NEW P \in SUBSET O
    PROVE  /\ Tree(s, P)
           /\ \A p : \A n \in 1..Len(s) :
                Waiting(p, n) \in Nat => Slack(s, P, p, n) >= Slack(s, O, p, n)
<1>1. Tree(s, P)
  BY DEF Tree
<1>2. ASSUME NEW p, NEW n \in 1..Len(s), Waiting(p, n) \in Nat
      PROVE  Slack(s, P, p, n) >= Slack(s, O, p, n)
  <2>1. s[n].refs \in Int
    BY SvIs
  <2>2. OwnedBy(s, P, n) \in 0..1 /\ OwnedBy(s, O, n) \in 0..1
        /\ OwnedBy(s, P, n) <= OwnedBy(s, O, n)
    BY DEF OwnedBy
  <2> QED
    BY <1>2, <2>1, <2>2 DEF Slack
<1> QED
  BY <1>1, <1>2

\* A new value in a slot.
NewIn(s, r, h, i, N) ==
    /\ r \in Svq /\ Len(r) = N /\ N \in Nat /\ DOMAIN r = 1..N
    /\ \A k \in 1..Len(s) :
         /\ r[k].refs = s[k].refs /\ r[k].freed = s[k].freed
         /\ r[k].slots = IF k = h THEN With(s[h].slots, i, N) ELSE s[k].slots
    /\ DOMAIN r[N].slots = {} /\ r[N].refs = 1 /\ ~r[N].freed
    /\ DOMAIN r[h].slots = {i} \cup DOMAIN s[h].slots
    /\ \A j \in {i} \cup DOMAIN s[h].slots :
         r[h].slots[j] = IF j = i THEN N ELSE s[h].slots[j]
    /\ InSlots(r, N)

\* A value is made in a slot: the others keep their slack, or win some.
LEMMA MadeInside ==
    ASSUME NEW s \in Svq, NEW O, Tree(s, O), NEW N, N = Len(s) + 1,
           NEW h \in 1..Len(s), NEW i \in Idx
    PROVE  LET r == Put(Append(s, NewSv), h, i, N) IN
           /\ NewIn(s, r, h, i, N) /\ Tree(r, O)
           /\ \A p : \A n \in 1..Len(s) : Waiting(p, n) \in Nat =>
                /\ Slack(r, O, p, n) >= Slack(s, O, p, n)
                /\ i \notin DOMAIN s[h].slots => Slack(r, O, p, n) = Slack(s, O, p, n)
           /\ \A p : Waiting(p, N) = 0 => Slack(r, O, p, N) = 0
           /\ FreedGone(s) => FreedGone(r)
<1> DEFINE a == Append(s, NewSv)
           f == With(a[h].slots, i, N)
           r == Put(a, h, i, N)
           Q == O \cup {N}
           P == (Q \cup Filled(a[h].slots)) \ Filled(f)
<1>1. /\ a \in Svq /\ Len(a) = N /\ N \in Nat /\ \A k \in 1..Len(s) : a[k] = s[k]
      /\ DOMAIN a[N].slots = {} /\ a[N].refs = 1 /\ ~a[N].freed /\ N \notin O
      /\ ~InSlots(s, N) /\ \A n : InSlots(a, n) <=> InSlots(s, n)
      /\ Tree(a, Q) /\ (FreedGone(s) => FreedGone(a))
  BY MadeOutside
<1>2. /\ \A p : \A n \in 1..Len(s) : Slack(a, Q, p, n) = Slack(s, O, p, n)
      /\ \A p : Waiting(p, N) = 0 => Slack(a, Q, p, N) = 0
  BY MadeCounts
<1>3. r = Refill(a, h, f)
  BY DEF Put, Refill
<1> HIDE DEF a
<1>4. /\ Len(s) \in Nat /\ \A k \in 1..Len(s) : k \in 1..N /\ k # N
      /\ \A k \in 1..N : k \in 1..Len(s) \/ k = N
      /\ N \in 1..N /\ h \in 1..Len(a)
  BY <1>1, HeldIs
<1>5. PICK g \in SlotMaps : g = a[h].slots /\ g = s[h].slots
  BY <1>1, <1>4, SvIs
<1>6. /\ f \in SlotMaps /\ DOMAIN f = {i} \cup DOMAIN g
      /\ \A j \in {i} \cup DOMAIN g : f[j] = IF j = i THEN N ELSE g[j]
  <2>1. f = With(g, i, N)
    BY <1>5
  <2>2. /\ With(g, i, N) \in SlotMaps /\ DOMAIN With(g, i, N) = {i} \cup DOMAIN g
        /\ \A j \in {i} \cup DOMAIN g : With(g, i, N)[j] = IF j = i THEN N ELSE g[j]
    <3>1. N \in Nat
      BY <1>1
    <3>2. With(g, i, N) \in SlotMaps
      BY <3>1, SlotPut
    <3>3. DOMAIN With(g, i, N) = {i} \cup DOMAIN g
      BY <3>1, SlotPut
    <3>4. \A j \in {i} \cup DOMAIN g : With(g, i, N)[j] = IF j = i THEN N ELSE g[j]
      BY DEF With
    <3> QED
      BY <3>2, <3>3, <3>4, Zenon
  <2> HIDE DEF f
  <2> QED
    BY <2>1, <2>2, Zenon
<1>7. f = With(s[h].slots, i, N)
  BY <1>5
<1> HIDE DEF f, r
<1>8. \A j \in DOMAIN g : g[j] \in 0..Len(s) /\ g[j] # N
  <2>1. DOMAIN s = 1..Len(s)
    BY HeldIs
  <2>2. \A j \in DOMAIN g : g[j] \in 0..Len(s)
    BY <1>5, <2>1 DEF Tree, InRange
  <2> QED
    BY <1>1, <1>4, <2>2
<1>9. \A j, l \in DOMAIN g : g[j] = g[l] /\ g[j] # NoSv => j = l
  BY <1>5, HeldIs DEF Tree, OneHolder
<1>10. /\ SameLen(a, r) /\ DOMAIN r = 1..N
       /\ \A k \in 1..N :
            /\ r[k].refs = a[k].refs /\ r[k].freed = a[k].freed
            /\ r[k].slots = IF k = h THEN f ELSE a[k].slots
  BY <1>1, <1>3, <1>4, <1>6, RefilledIs
<1>24. Moves(a, Q, r, P)
  <2>1. \A j \in DOMAIN f : f[j] \in {NoSv} \cup Q
                            \/ (j \in DOMAIN a[h].slots /\ f[j] = a[h].slots[j])
    BY <1>5, <1>6
  <2>2. \A j, l \in DOMAIN f : f[j] = f[l] /\ f[j] # NoSv => j = l
    BY <1>6, <1>8, <1>9
  <2>3. Moves(a, Q, Refill(a, h, f), P)
    <3> HIDE DEF Q
    <3>1. a \in Svq /\ Tree(a, Q) /\ h \in 1..Len(a) /\ f \in SlotMaps
      BY <1>1, <1>4, <1>6 DEF Q
    <3> QED
      BY <2>1, <2>2, <3>1, Refilled, Zenon
  <2> HIDE DEF P, Q
  <2> QED
    BY <1>3, <2>3
<1>11. /\ Tree(r, P)
       /\ \A p : \A n \in 1..N :
             Waiting(p, n) \in Nat => Slack(r, P, p, n) = Slack(a, Q, p, n)
       /\ FreedGone(a) => FreedGone(r)
  <2> HIDE DEF P, Q
  <2> QED
    BY <1>1, <1>24 DEF Moves
<1>12. N \in Filled(f) /\ NoSv \notin O
  <2>1. O \subseteq 1..Len(s) /\ N # NoSv
    BY <1>1, <1>4 DEF NoSv, Tree
  <2>2. NoSv \notin 1..Len(s)
    BY DEF NoSv
  <2>3. i \in DOMAIN f /\ f[i] = N
    BY <1>6
  <2> QED
    BY <2>1, <2>2, <2>3 DEF Filled
<1>13. \A n \in O : n \notin Filled(g) /\ n \notin Filled(f)
  <2>1. ASSUME NEW n \in O PROVE n \notin Filled(g)
    <3>1. ~InSlots(s, n)
      BY DEF Tree
    <3> QED
      BY <1>5, <3>1, HeldIs DEF Filled
  <2> QED
    BY <1>1, <1>6, <2>1 DEF Filled
<1>14. O \subseteq P
  BY <1>13
<1>15. i \notin DOMAIN g => P = O
  <2>1. i \notin DOMAIN g => Filled(g) \subseteq Filled(f)
    BY <1>6 DEF Filled
  <2> QED
    BY <1>5, <1>12, <1>14, <2>1
<1>16. N \notin P
  BY <1>12
<1> HIDE DEF P, Q
<1>17. InSlots(r, N)
  <2>1. i \in DOMAIN r[h].slots /\ r[h].slots[i] = N
    BY <1>4, <1>6, <1>10
  <2> QED
    BY <1>4, <1>10, <2>1 DEF InSlots, Held
<1>18. r \in Svq /\ Len(r) = N
  BY <1>1, <1>10 DEF SameLen
<1>19. ASSUME NEW p, NEW n \in 1..Len(s), Waiting(p, n) \in Nat
       PROVE  /\ Slack(r, O, p, n) >= Slack(s, O, p, n)
              /\ i \notin DOMAIN s[h].slots => Slack(r, O, p, n) = Slack(s, O, p, n)
  <2>1. Slack(r, P, p, n) = Slack(s, O, p, n)
    BY <1>2, <1>4, <1>11, <1>19
  <2>2. Slack(r, O, p, n) >= Slack(r, P, p, n)
    BY <1>4, <1>11, <1>14, <1>18, <1>19, LessOutside
  <2> QED
    BY <1>5, <1>15, <2>1, <2>2
<1>20. ASSUME NEW p, Waiting(p, N) = 0 PROVE Slack(r, O, p, N) = 0
  <2>1. Slack(r, P, p, N) = 0
    BY <1>2, <1>4, <1>11, <1>20
  <2>2. OwnedBy(r, P, N) = 1 /\ OwnedBy(r, O, N) = 1
    BY <1>17 DEF OwnedBy
  <2> QED
    BY <2>1, <2>2 DEF Slack
<1>21. Tree(r, O)
  BY <1>11, <1>14, <1>18, LessOutside
<1>22. /\ \A k \in 1..Len(s) :
            /\ r[k].refs = s[k].refs /\ r[k].freed = s[k].freed
            /\ r[k].slots = IF k = h THEN With(s[h].slots, i, N) ELSE s[k].slots
       /\ DOMAIN r[N].slots = {} /\ r[N].refs = 1 /\ ~r[N].freed
  BY <1>1, <1>4, <1>7, <1>10
<1>23. /\ DOMAIN r[h].slots = {i} \cup DOMAIN s[h].slots
       /\ \A j \in {i} \cup DOMAIN s[h].slots :
                r[h].slots[j] = IF j = i THEN N ELSE s[h].slots[j]
  BY <1>4, <1>5, <1>6, <1>10
<1>26. NewIn(s, r, h, i, N)
  BY <1>1, <1>10, <1>17, <1>18, <1>22, <1>23 DEF NewIn
<1> QED
  BY <1>1, <1>11, <1>19, <1>20, <1>21, <1>26 DEF r, a

\* How often an injective function gives n.
LEMMA CountOne ==
    ASSUME NEW ids, NEW n, \A i, j \in DOMAIN ids : ids[i] = n /\ ids[j] = n => i = j
    PROVE  Cardinality({i \in DOMAIN ids : ids[i] = n})
                = IF \E i \in DOMAIN ids : ids[i] = n THEN 1 ELSE 0
<1> DEFINE S == {i \in DOMAIN ids : ids[i] = n}
<1>1. CASE \E i \in DOMAIN ids : ids[i] = n
  <2>1. PICK i \in DOMAIN ids : ids[i] = n
    BY <1>1
  <2>2. S \subseteq {i} /\ i \in S
    BY <2>1
  <2> HIDE DEF S
  <2>3. Cardinality(S) = 1
    BY <2>2, AtMostOne
  <2> QED
    BY <1>1, <2>3 DEF S
<1>2. CASE ~\E i \in DOMAIN ids : ids[i] = n
  <2>1. S = {}
    BY <1>2
  <2> HIDE DEF S
  <2>2. Cardinality(S) = 0
    BY <2>1, FS_EmptySet
  <2> QED
    BY <1>2, <2>2 DEF S
<1> QED
  BY <1>1, <1>2

\* No value twice.
OnceOrNot(ids) == \A i, j \in DOMAIN ids : ids[i] = ids[j] /\ ids[i] # NoSv => i = j

\* Which references are in a list without repetitions.
LEMMA OnceLists ==
    ASSUME NEW ids, OnceOrNot(ids), NEW N \in Nat
    PROVE  Lists(ids, Filled(ids), N)
<1>1. ASSUME NEW n \in 1..N
      PROVE  Cardinality({i \in DOMAIN ids : ids[i] = n}) = IF n \in Filled(ids) THEN 1 ELSE 0
  <2>1. \A i, j \in DOMAIN ids : ids[i] = n /\ ids[j] = n => i = j
    BY DEF OnceOrNot, NoSv
  <2>2. n \in Filled(ids) <=> \E i \in DOMAIN ids : ids[i] = n
    BY DEF Filled, NoSv
  <2> QED
    BY <2>1, <2>2, CountOne
<1> QED
  BY <1>1 DEF Lists

\* One move after another.
LEMMA MovesOn ==
    ASSUME NEW s \in Svq, NEW O, NEW a, NEW P, NEW r, NEW Q, Moves(s, O, a, P), Moves(a, P, r, Q)
    PROVE  Moves(s, O, r, Q)
BY DEF Moves, SameLen

\* Values that lose their owner lose a reference each,
LEMMA Dropped ==
    ASSUME NEW s \in Svq, NEW O, Tree(s, O), NEW D \in SUBSET O, NEW ids, Lists(ids, D, Len(s))
    PROVE  Moves(s, O, Dec(s, ids), O \ D) /\ SameSlots(s, Dec(s, ids))
<1> DEFINE d == Dec(s, ids)
<1>1. \A n \in 1..Len(s) : Cardinality({i \in DOMAIN ids : ids[i] = n}) \in Nat
  BY DEF Lists
<1>2. /\ SameSlots(s, d)
      /\ \A n \in 1..Len(s) : d[n].refs = s[n].refs - Cardinality({i \in DOMAIN ids : ids[i] = n})
  BY <1>1, DecIs
<1> HIDE DEF d
<1>3. \A n \in 1..Len(s) : d[n].refs = s[n].refs - IF n \in D THEN 1 ELSE 0
  BY <1>2 DEF Lists
<1>4. Moves(s, O, d, O \ D)
  BY <1>2, <1>3, Drop
<1> QED
  BY <1>2, <1>4 DEF d

\* and are released.
LEMMA Released ==
    ASSUME NEW s \in Svq, NEW O, Tree(s, O), NEW D \in SUBSET O, NEW ids, Lists(ids, D, Len(s))
    PROVE  Moves(s, O, Release(s, ids), O \ D) /\ Narrower(s, Release(s, ids))
<1> DEFINE d == Dec(s, ids)
           r == Reap(d)
           P == O \ D
<1>1. Moves(s, O, d, P) /\ SameSlots(s, d)
  BY Dropped
<1> HIDE DEF d, P
<1>2. d \in Svq /\ Tree(d, P) /\ Len(d) = Len(s) /\ DOMAIN d = 1..Len(s) /\ DOMAIN s = 1..Len(s)
  BY <1>1, SameHolders, HeldIs DEF Moves
<1>3. Moves(d, P, r, P) /\ Narrower(d, r)
  BY <1>2, ReapIs
<1> HIDE DEF r
<1>4. Moves(s, O, r, P)
  BY <1>1, <1>3, MovesOn
<1>5. Narrower(s, r)
  BY <1>1, <1>2, <1>3, SameHolders DEF Narrower
<1> QED
  BY <1>4, <1>5 DEF Release, r, d, P

\* Slots are emptied, and what was in them is released.
LEMMA TakenOut ==
    ASSUME NEW s \in Svq, NEW O, Tree(s, O), NEW h \in 1..Len(s), NEW f \in SlotMaps,
           DOMAIN f \subseteq DOMAIN s[h].slots, \A j \in DOMAIN f : f[j] = s[h].slots[j],
           NEW ids, DOMAIN ids = DOMAIN s[h].slots \ DOMAIN f,
           \A j \in DOMAIN ids : ids[j] = s[h].slots[j]
    PROVE  LET r == Release(Refill(s, h, f), ids) IN
           Moves(s, O, r, O) /\ Narrower(s, r)
<1> DEFINE a == Refill(s, h, f)
           r == Release(a, ids)
           P == (O \cup Filled(s[h].slots)) \ Filled(f)
           D == Filled(ids)
<1>1. Len(s) \in Nat /\ DOMAIN s = 1..Len(s)
  BY HeldIs
<1>2. /\ SameLen(s, a) /\ DOMAIN a = 1..Len(s)
      /\ \A k \in 1..Len(s) :
            /\ a[k].refs = s[k].refs /\ a[k].freed = s[k].freed
            /\ a[k].slots = IF k = h THEN f ELSE s[k].slots
  BY RefilledIs
<1>3. \A i, j \in DOMAIN s[h].slots :
        s[h].slots[i] = s[h].slots[j] /\ s[h].slots[i] # NoSv => i = j
  BY <1>1 DEF Tree, OneHolder
<1>4. Moves(s, O, a, P)
  <2>1. \A j \in DOMAIN f : f[j] \in {NoSv} \cup O
                            \/ (j \in DOMAIN s[h].slots /\ f[j] = s[h].slots[j])
    OBVIOUS
  <2>2. \A i, j \in DOMAIN f : f[i] = f[j] /\ f[i] # NoSv => i = j
    BY <1>3
  <2> QED
    BY <2>1, <2>2, Refilled, Zenon
<1>5. \A n \in Filled(s[h].slots) : n \notin O
  <2>1. \A n \in Filled(s[h].slots) : InSlots(s, n)
    BY HeldIs DEF Filled
  <2> QED
    BY <2>1 DEF Tree
<1>6. D \subseteq P /\ P \ D = O
  <2>1. D = Filled(s[h].slots) \ Filled(f)
    BY <1>3 DEF Filled
  <2>2. Filled(f) \subseteq Filled(s[h].slots)
    BY DEF Filled
  <2> QED
    BY <1>5, <2>1, <2>2
<1>7. Lists(ids, D, Len(s))
  <2>1. OnceOrNot(ids)
    BY <1>3 DEF OnceOrNot
  <2> QED
    BY <1>1, <2>1, OnceLists
<1> HIDE DEF a, P, D
<1>8. a \in Svq /\ Len(a) = Len(s) /\ Tree(a, P)
  BY <1>4 DEF Moves, SameLen
<1>9. Moves(a, P, r, P \ D) /\ Narrower(a, r)
  BY <1>6, <1>7, <1>8, Released
<1> HIDE DEF r
<1>10. Moves(s, O, r, O)
  BY <1>4, <1>6, <1>9, MovesOn
<1>11. Narrower(s, r)
  BY <1>1, <1>2, <1>9 DEF Narrower
<1> QED
  BY <1>10, <1>11 DEF r, a

\* The slots of r are those of s, or slot i of h has v.
Adds(s, r, h, i, v) ==
    \A k \in DOMAIN s : \A j \in DOMAIN r[k].slots :
        \/ k = h /\ j = i /\ r[k].slots[j] = v
        \/ j \in DOMAIN s[k].slots /\ r[k].slots[j] = s[k].slots[j]

\* A value that something outside owns moves into a slot, and what was in the slot is
\* released.
LEMMA MovedIn ==
    ASSUME NEW s \in Svq, NEW O, Tree(s, O), NEW v \in O, NEW h \in 1..Len(s), NEW i \in Idx,
           NEW old, old = IF i \in DOMAIN s[h].slots THEN <<s[h].slots[i]>> ELSE <<>>
    PROVE  LET r == Release(Put(s, h, i, v), old) IN
           Moves(s, O, r, O \ {v}) /\ Adds(s, r, h, i, v)
<1> DEFINE f == With(s[h].slots, i, v)
           a == Refill(s, h, f)
           r == Release(a, old)
           P == (O \cup Filled(s[h].slots)) \ Filled(f)
           D == Filled(old)
<1>1. /\ Len(s) \in Nat /\ DOMAIN s = 1..Len(s) /\ v \in 1..Len(s) /\ v # NoSv /\ v \in Nat
      /\ ~InSlots(s, v)
  BY HeldIs DEF Tree, NoSv
<1>2. PICK g \in SlotMaps : g = s[h].slots
  BY SvIs
<1>3. /\ f \in SlotMaps /\ DOMAIN f = {i} \cup DOMAIN g
      /\ \A j \in {i} \cup DOMAIN g : f[j] = IF j = i THEN v ELSE g[j]
  <2>1. f = With(g, i, v)
    BY <1>2
  <2>2. With(g, i, v) \in SlotMaps
    BY <1>1, SlotPut
  <2>3. DOMAIN With(g, i, v) = {i} \cup DOMAIN g
    BY <1>1, SlotPut
  <2>4. \A j \in {i} \cup DOMAIN g : With(g, i, v)[j] = IF j = i THEN v ELSE g[j]
    BY DEF With
  <2> HIDE DEF f
  <2> QED
    BY <2>1, <2>2, <2>3, <2>4
<1>4. Put(s, h, i, v) = a
  BY DEF Put, Refill
<1> HIDE DEF f
<1>5. /\ SameLen(s, a) /\ DOMAIN a = 1..Len(s)
      /\ \A k \in 1..Len(s) :
            /\ a[k].refs = s[k].refs /\ a[k].freed = s[k].freed
            /\ a[k].slots = IF k = h THEN f ELSE s[k].slots
  BY <1>3, RefilledIs
<1>6. \A j, l \in DOMAIN g : g[j] = g[l] /\ g[j] # NoSv => j = l
  BY <1>1, <1>2 DEF Tree, OneHolder
<1>7. \A j \in DOMAIN g : InSlots(s, g[j]) /\ g[j] # v
  <2>1. \A j \in DOMAIN g : InSlots(s, g[j])
    BY <1>2, HeldIs
  <2> QED
    BY <1>1, <2>1
<1>8. Moves(s, O, a, P)
  <2>1. \A j \in DOMAIN f : f[j] \in {NoSv} \cup O
                            \/ (j \in DOMAIN s[h].slots /\ f[j] = s[h].slots[j])
    BY <1>2, <1>3
  <2>2. \A j, l \in DOMAIN f : f[j] = f[l] /\ f[j] # NoSv => j = l
    BY <1>3, <1>6, <1>7
  <2> QED
    BY <1>3, <2>1, <2>2, Refilled, Zenon
<1>9. \A n \in O : n \notin Filled(g)
  <2>1. \A n \in Filled(g) : InSlots(s, n)
    BY <1>7 DEF Filled
  <2> QED
    BY <2>1 DEF Tree
<1>10. D = IF i \in DOMAIN g /\ g[i] # NoSv THEN {g[i]} ELSE {}
  <2>1. i \in DOMAIN g => old = <<g[i]>> /\ DOMAIN old = {1} /\ old[1] = g[i]
    BY <1>2
  <2>2. i \notin DOMAIN g => DOMAIN old = {}
    BY <1>2, NoSlots
  <2> QED
    BY <2>1, <2>2 DEF Filled
<1>11. Filled(f) = {v} \cup (Filled(g) \ D)
  <2> HIDE DEF D
  <2> QED
    BY <1>1, <1>3, <1>6, <1>10 DEF Filled
<1>12. D \subseteq Filled(g)
  BY <1>10 DEF Filled
<1>13. D \subseteq P /\ P \ D = O \ {v}
  <2>1. P = (O \cup Filled(g)) \ Filled(f)
    BY <1>2
  <2> HIDE DEF P, D
  <2> QED
    BY <1>9, <1>11, <1>12, <2>1
<1>14. Lists(old, D, Len(s))
  <2>1. \A j, l \in DOMAIN old : j = l
    <3>1. DOMAIN old \subseteq {1}
      BY NoSlots
    <3> QED
      BY <3>1
  <2>2. OnceOrNot(old)
    BY <2>1 DEF OnceOrNot
  <2> QED
    BY <1>1, <2>2, OnceLists
<1> HIDE DEF a, P, D
<1>15. a \in Svq /\ Len(a) = Len(s) /\ Tree(a, P)
  BY <1>8 DEF Moves, SameLen
<1>16. Moves(a, P, r, P \ D) /\ Narrower(a, r)
  BY <1>13, <1>14, <1>15, Released
<1> HIDE DEF r
<1>17. Moves(s, O, r, O \ {v})
  BY <1>8, <1>13, <1>16, MovesOn
<1>18. Adds(s, r, h, i, v)
  <2>1. ASSUME NEW k \in 1..Len(s), NEW j \in DOMAIN r[k].slots
        PROVE  \/ k = h /\ j = i /\ r[k].slots[j] = v
               \/ j \in DOMAIN s[k].slots /\ r[k].slots[j] = s[k].slots[j]
    <3>1. j \in DOMAIN a[k].slots /\ r[k].slots[j] = a[k].slots[j]
      BY <1>5, <1>16, <2>1 DEF Narrower
    <3> QED
      BY <1>2, <1>3, <1>5, <3>1
  <2> QED
    BY <1>1, <2>1 DEF Adds
<1> QED
  BY <1>4, <1>17, <1>18 DEF r
------------------------------------------------------------------------------
(* The invariant, first part: what is where, and the counts.                      *)

\* The values of open map entries; who owns values outside of containers: the caller
\* (the root), open map entries, fieldtable_entries, fieldtable.
Opens(fs) == [i \in {j \in DOMAIN fs : fs[j].kind = "value"} |-> fs[i].sv]
Deaths == {"died", "internal error"}
RootIs == {n \in 1..Len(svs) : n = 1 /\ ~(phase = "idle" /\ outcome \in Deaths)}
Outside(root, fs, es, tb) ==
    root \cup Filled(Opens(fs)) \cup Filled(Values(es)) \cup Filled(Values(tb))
Owned == Outside(RootIs, frames, entries, table)

\* Nothing is owned twice outside.
Apart(root, fs, es, tb) ==
    /\ OnceOrNot(Opens(fs)) /\ OnceOrNot(Values(es)) /\ OnceOrNot(Values(tb))
    /\ root \cap (Filled(Opens(fs)) \cup Filled(Values(es)) \cup Filled(Values(tb))) = {}
    /\ Filled(Opens(fs)) \cap (Filled(Values(es)) \cup Filled(Values(tb))) = {}
    /\ Filled(Values(es)) \cap Filled(Values(tb)) = {}

\* items and mappers: the root is first, a map has the value of its entry above it.
FramesOK(fs, N) ==
    /\ Len(fs) > 0 /\ fs[1].kind \in {"message", "table"} /\ fs[1].sv = 1
    /\ \A i \in DOMAIN fs : fs[i].sv \in 0..N /\ (fs[i].kind # "value" => fs[i].sv # NoSv)
    /\ \A i \in DOMAIN fs : fs[i].kind = "map" => i < Len(fs) /\ fs[i + 1].kind = "value"
    /\ \A i \in DOMAIN fs : fs[i].kind = "value" => i > 1 /\ fs[i - 1].kind = "map"

\* Queued transforms have a target, and a part of fieldtable or none.
QueueOK(p, N, tb) ==
    \A i \in DOMAIN p :
        /\ p[i].target \in 1..N
        /\ \/ p[i].offset = -1 /\ p[i].size = 0
           \/ p[i].offset >= 0 /\ p[i].offset + p[i].size <= Len(tb)

Typed ==
    /\ svs \in Svq /\ frames \in Seq(FrameRec) /\ entries \in Seq(EntryRec)
    /\ pending \in Seq(QueueRec) /\ table \in Seq(EntryRec)
    /\ phase \in {"idle", "decoding", "applying"}
    /\ outcome \in {"ok", "failed"} \cup Deaths
    /\ at \in 0..Len(pending) /\ mapped \subseteq 1..Len(svs)
    /\ ghost \in [merged : BOOLEAN, cut : BOOLEAN, lost : BOOLEAN,
                  written : {ghost.written}, log : {ghost.log}]
Full(s) == \A k \in DOMAIN s : \A i \in DOMAIN s[k].slots : s[k].slots[i] # NoSv
Shape ==
    /\ phase # "decoding" => frames = <<>> /\ entries = <<>>
    /\ phase = "decoding" => /\ FramesOK(frames, Len(svs)) /\ Full(svs)
                             /\ outcome = "ok" /\ ~ghost.cut /\ at = 0
    /\ phase = "idle" => pending = <<>> /\ table = <<>> /\ at = 0 /\ mapped = {}
    /\ phase = "applying" => outcome \in {"ok", "failed"}
    /\ QueueOK(pending, Len(svs), table)
Counted(s, O, p) == \A n \in 1..Len(s) : Slack(s, O, p, n) >= 0
Inv ==
    /\ Typed /\ Shape
    /\ Apart(RootIs, frames, entries, table) /\ Tree(svs, Owned)
    /\ ~ghost.cut => Counted(svs, Owned, pending)

\* A list with something else at i, where it had what is in was.
ChangedAt(f, i, g, was) ==
    /\ DOMAIN g = DOMAIN f \cup {i}
    /\ \A j \in DOMAIN f \ {i} : g[j] = f[j]
    /\ i \in DOMAIN f => was = {f[i]}
    /\ i \notin DOMAIN f => was = {}
    /\ g[i] \notin Filled(f) \ was

\* It has what is new instead of what was there.
LEMMA FillAt ==
    ASSUME NEW f, OnceOrNot(f), NEW i, NEW g, NEW was, ChangedAt(f, i, g, was)
    PROVE  OnceOrNot(g) /\ Filled(g) = (Filled(f) \ was) \cup ({g[i]} \ {NoSv})
<1>0. /\ DOMAIN g = DOMAIN f \cup {i}
      /\ \A j \in DOMAIN f \ {i} : g[j] = f[j]
      /\ i \in DOMAIN f => was = {f[i]}
      /\ i \notin DOMAIN f => was = {}
      /\ g[i] \notin Filled(f) \ was
  BY DEF ChangedAt
<1>1. \A j \in DOMAIN f \ {i} : f[j] # NoSv => f[j] \in Filled(f) \ was
  BY <1>0 DEF Filled, OnceOrNot
<1>2. \A n \in Filled(f) \ was : \E j \in DOMAIN f \ {i} : n = f[j] /\ n # NoSv
  BY <1>0 DEF Filled
<1>3. OnceOrNot(g)
  <2>1. ASSUME NEW j \in DOMAIN f \ {i}, f[j] # NoSv PROVE g[i] # g[j]
    BY <1>0, <1>1, <2>1
  <2> QED
    BY <1>0, <2>1 DEF OnceOrNot
<1>4. Filled(g) = (Filled(f) \ was) \cup ({g[i]} \ {NoSv})
  <2>1. ASSUME NEW n \in Filled(g) PROVE n \in (Filled(f) \ was) \cup ({g[i]} \ {NoSv})
    <3>1. PICK j \in DOMAIN g : n = g[j] /\ n # NoSv
      BY <2>1 DEF Filled
    <3>2. CASE j = i
      BY <3>1, <3>2
    <3>3. CASE j # i
      BY <1>0, <1>1, <3>1, <3>3
    <3> QED
      BY <3>2, <3>3
  <2>2. ASSUME NEW n \in Filled(f) \ was PROVE n \in Filled(g)
    <3>1. PICK j \in DOMAIN f \ {i} : n = f[j] /\ n # NoSv
      BY <1>2
    <3> QED
      BY <1>0, <3>1 DEF Filled
  <2>3. \A n \in {g[i]} \ {NoSv} : n \in Filled(g)
    BY <1>0 DEF Filled
  <2> QED
    BY <2>1, <2>2, <2>3
<1> QED
  BY <1>3, <1>4

\* A shorter list that has the same values.
LEMMA FillLess ==
    ASSUME NEW f, OnceOrNot(f), NEW g, DOMAIN g \subseteq DOMAIN f,
           \A j \in DOMAIN g : g[j] = f[j],
           \A j \in DOMAIN f \ DOMAIN g : f[j] = NoSv
    PROVE  OnceOrNot(g) /\ Filled(g) = Filled(f)
<1>1. OnceOrNot(g)
  BY DEF OnceOrNot
<1>2. Filled(g) = Filled(f)
  <2>1. \A n \in Filled(f) : \E j \in DOMAIN f : n = f[j] /\ n # NoSv /\ j \in DOMAIN g
    BY DEF Filled
  <2> QED
    BY <2>1 DEF Filled
<1> QED
  BY <1>1, <1>2

\* A list of nothing.
LEMMA FillNone ==
    /\ OnceOrNot(Values(<<>>)) /\ Filled(Values(<<>>)) = {}
    /\ OnceOrNot(Opens(<<>>)) /\ Filled(Opens(<<>>)) = {}
<1>1. DOMAIN Values(<<>>) = {} /\ DOMAIN Opens(<<>>) = {}
  BY NoSlots DEF Values, Opens
<1> QED
  BY <1>1 DEF OnceOrNot, Filled

\* The values of entries.
LEMMA ValuesIs ==
    ASSUME NEW es \in Seq(EntryRec)
    PROVE  /\ DOMAIN Values(es) = 1..Len(es) /\ Len(es) \in Nat /\ DOMAIN es = 1..Len(es)
           /\ \A i \in 1..Len(es) : /\ Values(es)[i] = es[i].value /\ es[i].value \in Nat
                                    /\ es[i] \in EntryRec
           /\ Values(es) \in [1..Len(es) -> Nat]
<1>1. Len(es) \in Nat /\ DOMAIN es = 1..Len(es) /\ \A i \in 1..Len(es) : es[i] \in EntryRec
  BY SeqIs
<1>2. \A i \in 1..Len(es) : es[i].value \in Nat
  BY <1>1 DEF EntryRec
<1> QED
  BY <1>1, <1>2 DEF Values

\* One entry more.
LEMMA ValuesMore ==
    ASSUME NEW es \in Seq(EntryRec), OnceOrNot(Values(es)),
           NEW e \in EntryRec, e.value \notin Filled(Values(es))
    PROVE  LET fs == Append(es, e) IN
           /\ fs \in Seq(EntryRec) /\ Len(fs) = Len(es) + 1
           /\ OnceOrNot(Values(fs))
           /\ Filled(Values(fs)) = Filled(Values(es)) \cup ({e.value} \ {NoSv})
<1> DEFINE fs == Append(es, e)
           L == Len(es)
           f == Values(es)
           g == Values(fs)
<1>1. /\ fs \in Seq(EntryRec) /\ Len(fs) = L + 1 /\ L \in Nat
      /\ \A i \in 1..L : fs[i] = es[i] /\ fs[L + 1] = e
  BY AppendOf
<1>2. fs[L + 1] = e
  BY AppendOf
<1> HIDE DEF fs
<1>3. DOMAIN f = 1..L /\ DOMAIN g = 1..(L + 1)
  BY <1>1, ValuesIs
<1>4. \A j \in 1..L : g[j] = f[j]
  <2>1. \A j \in 1..L : j \in 1..(L + 1)
    BY <1>1
  <2> QED
    BY <1>1, <2>1, ValuesIs
<1>5. g[L + 1] = e.value
  BY <1>1, <1>2, ValuesIs
<1>6. DOMAIN g = DOMAIN f \cup {L + 1} /\ L + 1 \notin DOMAIN f /\ DOMAIN f \ {L + 1} = 1..L
  BY <1>1, <1>3
<1> HIDE DEF f, g, L
<1>7. OnceOrNot(g) /\ Filled(g) = (Filled(f) \ {}) \cup ({g[L + 1]} \ {NoSv})
  <2>1. OnceOrNot(f) /\ g[L + 1] \notin Filled(f) \ {}
    BY <1>5 DEF f
  <2>2. \A j \in DOMAIN f \ {L + 1} : g[j] = f[j]
    BY <1>4, <1>6
  <2>3. ChangedAt(f, L + 1, g, {})
    BY <1>6, <2>1, <2>2 DEF ChangedAt
  <2> QED
    BY <2>1, <2>3, FillAt
<1> QED
  BY <1>1, <1>5, <1>7 DEF fs, f, g, L
\* items and mappers.
LEMMA FramesAre ==
    ASSUME NEW fs \in Seq(FrameRec)
    PROVE  /\ Len(fs) \in Nat /\ DOMAIN fs = 1..Len(fs)
           /\ \A i \in 1..Len(fs) : fs[i] \in FrameRec /\ fs[i].sv \in Nat
           /\ DOMAIN Opens(fs) = {i \in 1..Len(fs) : fs[i].kind = "value"}
           /\ \A i \in DOMAIN Opens(fs) : Opens(fs)[i] = fs[i].sv
<1>1. Len(fs) \in Nat /\ DOMAIN fs = 1..Len(fs) /\ \A i \in 1..Len(fs) : fs[i] \in FrameRec
  BY SeqIs
<1>2. \A i \in 1..Len(fs) : fs[i].sv \in Nat
  BY <1>1 DEF FrameRec
<1> QED
  BY <1>1, <1>2 DEF Opens

\* The same open map entries.
LEMMA OpensSame ==
    ASSUME NEW fs \in Seq(FrameRec), NEW gs \in Seq(FrameRec),
           \A i \in 1..Len(fs) : fs[i].kind = "value" =>
                i \in 1..Len(gs) /\ gs[i].kind = "value" /\ gs[i].sv = fs[i].sv,
           \A i \in 1..Len(gs) : gs[i].kind = "value" => i \in 1..Len(fs) /\ fs[i].kind = "value"
    PROVE  Opens(gs) = Opens(fs)
<1>1. DOMAIN Opens(gs) = DOMAIN Opens(fs)
  BY FramesAre
<1>2. \A i \in DOMAIN Opens(gs) : Opens(gs)[i] = Opens(fs)[i]
  BY <1>1, FramesAre
<1>3. /\ Opens(fs) = [i \in DOMAIN Opens(fs) |-> Opens(fs)[i]]
      /\ Opens(gs) = [i \in DOMAIN Opens(gs) |-> Opens(gs)[i]]
  BY DEF Opens
<1> QED
  BY <1>1, <1>2, <1>3

\* A container is opened.
LEMMA PushFrame ==
    ASSUME NEW fs \in Seq(FrameRec), NEW N \in Nat, FramesOK(fs, N), NEW M \in Nat, N <= M,
           NEW f \in FrameRec, f.kind \in {"message", "table", "array"}, f.sv \in 1..M
    PROVE  LET gs == Append(fs, f) IN
           /\ gs \in Seq(FrameRec) /\ Len(gs) = Len(fs) + 1
           /\ \A i \in 1..Len(fs) : gs[i] = fs[i]
           /\ gs[Len(fs) + 1] = f
           /\ FramesOK(gs, M) /\ Opens(gs) = Opens(fs)
<1> DEFINE gs == Append(fs, f)
           L == Len(fs)
<1>1. /\ gs \in Seq(FrameRec) /\ Len(gs) = L + 1 /\ L \in Nat /\ L > 0
      /\ \A i \in 1..L : gs[i] = fs[i]
  BY AppendOf DEF FramesOK
<1>2. gs[L + 1] = f
  BY AppendOf
<1> HIDE DEF gs, L
<1>3. DOMAIN gs = 1..(L + 1) /\ DOMAIN fs = 1..L
  BY <1>1, FramesAre DEF L
<1>4. /\ fs[1].kind \in {"message", "table"} /\ fs[1].sv = 1
      /\ \A i \in 1..L : fs[i].sv \in 0..N /\ (fs[i].kind # "value" => fs[i].sv # NoSv)
      /\ \A i \in 1..L : fs[i].kind = "map" => i < L /\ fs[i + 1].kind = "value"
      /\ \A i \in 1..L : fs[i].kind = "value" => i > 1 /\ fs[i - 1].kind = "map"
  BY <1>3 DEF FramesOK, L
<1>5. \A i \in 1..(L + 1) : i \in 1..L \/ i = L + 1
  BY <1>1
<1>6. FramesOK(gs, M)
  <2>1. Len(gs) > 0 /\ gs[1].kind \in {"message", "table"} /\ gs[1].sv = 1
    BY <1>1, <1>4
  <2>2. \A i \in 1..(L + 1) : gs[i].sv \in 0..M /\ (gs[i].kind # "value" => gs[i].sv # NoSv)
    <3>1. \A i \in 1..L : gs[i].sv \in 0..M /\ (gs[i].kind # "value" => gs[i].sv # NoSv)
      BY <1>1, <1>4
    <3>2. gs[L + 1].sv \in 0..M /\ gs[L + 1].sv # NoSv
      BY <1>2 DEF NoSv
    <3> QED
      BY <1>5, <3>1, <3>2
  <2>3. \A i \in 1..(L + 1) : gs[i].kind = "map" => i < L + 1 /\ gs[i + 1].kind = "value"
    <3>1. ASSUME NEW i \in 1..L, gs[i].kind = "map" PROVE i < L + 1 /\ gs[i + 1].kind = "value"
      <4>1. i < L /\ fs[i + 1].kind = "value"
        BY <1>1, <1>4, <3>1
      <4>2. i + 1 \in 1..L
        BY <1>1, <4>1
      <4>3. gs[i + 1].kind = "value"
        BY <1>1, <4>1, <4>2
      <4> QED
        BY <1>1, <4>1, <4>3
    <3> QED
      BY <1>2, <1>5, <3>1
  <2>4. \A i \in 1..(L + 1) : gs[i].kind = "value" => i > 1 /\ gs[i - 1].kind = "map"
    <3>1. ASSUME NEW i \in 1..L, gs[i].kind = "value" PROVE i > 1 /\ gs[i - 1].kind = "map"
      <4>1. i > 1 /\ fs[i - 1].kind = "map"
        BY <1>1, <1>4, <3>1
      <4>2. i - 1 \in 1..L
        BY <1>1, <4>1
      <4>3. gs[i - 1].kind = "map"
        BY <1>1, <4>1, <4>2
      <4> QED
        BY <4>1, <4>3
    <3>2. gs[L + 1].kind # "value"
      BY <1>2
    <3> QED
      BY <1>5, <3>1, <3>2
  <2> QED
    BY <1>1, <1>3, <2>1, <2>2, <2>3, <2>4 DEF FramesOK
<1>7. Opens(gs) = Opens(fs)
  <2>1. \A i \in 1..L : fs[i].kind = "value" =>
            i \in 1..(L + 1) /\ gs[i].kind = "value" /\ gs[i].sv = fs[i].sv
    BY <1>1
  <2>2. \A i \in 1..(L + 1) : gs[i].kind = "value" => i \in 1..L /\ fs[i].kind = "value"
    BY <1>1, <1>2, <1>5
  <2> QED
    BY <1>1, <2>1, <2>2, OpensSame DEF L
<1> QED
  BY <1>1, <1>2, <1>6, <1>7 DEF gs, L

\* A map is opened, without an entry.
LEMMA PushMap ==
    ASSUME NEW fs \in Seq(FrameRec), NEW N \in Nat, FramesOK(fs, N), NEW M \in Nat, N <= M,
           NEW f \in FrameRec, f.kind = "map", f.sv \in 1..M,
           NEW v \in FrameRec, v.kind = "value", v.sv = NoSv, OnceOrNot(Opens(fs))
    PROVE  LET gs == Append(Append(fs, f), v) IN
           /\ gs \in Seq(FrameRec) /\ Len(gs) = Len(fs) + 2
           /\ \A i \in 1..Len(fs) : gs[i] = fs[i]
           /\ gs[Len(fs) + 1] = f /\ gs[Len(fs) + 2] = v
           /\ FramesOK(gs, M) /\ OnceOrNot(Opens(gs)) /\ Filled(Opens(gs)) = Filled(Opens(fs))
<1> DEFINE hs == Append(fs, f)
           gs == Append(hs, v)
           L == Len(fs)
<1>1. /\ hs \in Seq(FrameRec) /\ Len(hs) = L + 1 /\ L \in Nat /\ L > 0
      /\ \A i \in 1..L : hs[i] = fs[i]
  BY AppendOf DEF FramesOK
<1>2. hs[L + 1] = f
  BY AppendOf
<1> HIDE DEF hs, L
<1>3. /\ gs \in Seq(FrameRec) /\ Len(gs) = L + 1 + 1
      /\ \A i \in 1..(L + 1) : gs[i] = hs[i]
  BY <1>1, AppendOf
<1>4. gs[L + 1 + 1] = v
  BY <1>1, AppendOf
<1> HIDE DEF gs
<1>5. /\ L + 1 + 1 = L + 2 /\ \A i \in 1..L : i \in 1..(L + 1)
      /\ \A i \in 1..(L + 2) : i \in 1..L \/ i = L + 1 \/ i = L + 2
      /\ L + 1 \in 1..(L + 1) /\ L + 1 \in 1..(L + 2) /\ L + 2 \in 1..(L + 2)
  BY <1>1
<1>6. /\ Len(gs) = L + 2 /\ \A i \in 1..L : gs[i] = fs[i]
      /\ gs[L + 1] = f /\ gs[L + 2] = v
  BY <1>1, <1>2, <1>3, <1>4, <1>5
<1>7. DOMAIN gs = 1..(L + 2) /\ DOMAIN fs = 1..L
  BY <1>3, <1>6, FramesAre DEF L
<1>8. /\ fs[1].kind \in {"message", "table"} /\ fs[1].sv = 1
      /\ \A i \in 1..L : fs[i].sv \in 0..N /\ (fs[i].kind # "value" => fs[i].sv # NoSv)
      /\ \A i \in 1..L : fs[i].kind = "map" => i < L /\ fs[i + 1].kind = "value"
      /\ \A i \in 1..L : fs[i].kind = "value" => i > 1 /\ fs[i - 1].kind = "map"
  BY <1>7 DEF FramesOK, L
<1>9. FramesOK(gs, M)
  <2>1. Len(gs) > 0 /\ gs[1].kind \in {"message", "table"} /\ gs[1].sv = 1
    BY <1>1, <1>6, <1>8
  <2>2. \A i \in 1..(L + 2) : gs[i].sv \in 0..M /\ (gs[i].kind # "value" => gs[i].sv # NoSv)
    <3>1. \A i \in 1..L : gs[i].sv \in 0..M /\ (gs[i].kind # "value" => gs[i].sv # NoSv)
      BY <1>6, <1>8
    <3>2. gs[L + 1].sv \in 0..M /\ gs[L + 1].sv # NoSv /\ gs[L + 2].sv \in 0..M
          /\ gs[L + 2].kind = "value"
      BY <1>6 DEF NoSv
    <3> QED
      BY <1>5, <3>1, <3>2
  <2>3. \A i \in 1..(L + 2) : gs[i].kind = "map" => i < L + 2 /\ gs[i + 1].kind = "value"
    <3>1. \A i \in 1..L : gs[i].kind = "map" => i < L + 2 /\ gs[i + 1].kind = "value"
      BY <1>1, <1>6, <1>8
    <3>2. L + 1 < L + 2 /\ gs[L + 1 + 1].kind = "value" /\ gs[L + 2].kind # "map"
      BY <1>1, <1>5, <1>6
    <3> QED
      BY <1>5, <3>1, <3>2
  <2>4. \A i \in 1..(L + 2) : gs[i].kind = "value" => i > 1 /\ gs[i - 1].kind = "map"
    <3>1. \A i \in 1..L : gs[i].kind = "value" => i > 1 /\ gs[i - 1].kind = "map"
      BY <1>1, <1>6, <1>8
    <3>2. gs[L + 1].kind # "value" /\ L + 2 > 1 /\ L + 2 - 1 = L + 1
      BY <1>1, <1>6
    <3> QED
      BY <1>5, <1>6, <3>1, <3>2
  <2> QED
    BY <1>6, <1>7, <2>1, <2>2, <2>3, <2>4 DEF FramesOK
<1>10. OnceOrNot(Opens(gs)) /\ Filled(Opens(gs)) = Filled(Opens(fs))
  <2>1. /\ DOMAIN Opens(fs) = {i \in 1..L : fs[i].kind = "value"}
        /\ \A i \in DOMAIN Opens(fs) : Opens(fs)[i] = fs[i].sv
    BY FramesAre DEF L
  <2>2. /\ DOMAIN Opens(gs) = {i \in 1..(L + 2) : gs[i].kind = "value"}
        /\ \A i \in DOMAIN Opens(gs) : Opens(gs)[i] = gs[i].sv
    BY <1>3, <1>6, FramesAre
  <2>3. DOMAIN Opens(gs) = DOMAIN Opens(fs) \cup {L + 2} /\ L + 2 \notin DOMAIN Opens(fs)
    BY <1>1, <1>5, <1>6, <2>1, <2>2
  <2>4. ASSUME NEW i \in DOMAIN Opens(fs) PROVE Opens(gs)[i] = Opens(fs)[i]
    <3>1. i \in 1..L /\ i \in DOMAIN Opens(gs)
      BY <2>1, <2>3, <2>4
    <3>2. gs[i].sv = fs[i].sv
      BY <1>6, <3>1
    <3> QED
      BY <2>1, <2>2, <2>4, <3>1, <3>2
  <2>5. Opens(gs)[L + 2] = NoSv
    BY <1>6, <2>2, <2>3
  <2>6. NoSv \notin Filled(Opens(fs))
    BY DEF Filled
  <2>7. ChangedAt(Opens(fs), L + 2, Opens(gs), {})
    BY <2>3, <2>4, <2>5, <2>6 DEF ChangedAt
  <2>8. OnceOrNot(Opens(gs)) /\ Filled(Opens(gs)) =
            (Filled(Opens(fs)) \ {}) \cup ({Opens(gs)[L + 2]} \ {NoSv})
    BY <2>7, FillAt
  <2> QED
    BY <2>5, <2>8
<1> QED
  BY <1>3, <1>6, <1>9, <1>10 DEF gs, hs, L
\* A container is closed.
LEMMA PopFrame ==
    ASSUME NEW fs \in Seq(FrameRec), NEW N \in Nat, FramesOK(fs, N),
           Last(fs).kind \in {"message", "table", "array"}, Len(fs) > 1
    PROVE  LET gs == Front(fs) IN
           /\ gs \in Seq(FrameRec) /\ Len(gs) = Len(fs) - 1
           /\ \A i \in 1..Len(gs) : gs[i] = fs[i]
           /\ FramesOK(gs, N) /\ Opens(gs) = Opens(fs)
<1> DEFINE gs == Front(fs)
           L == Len(fs)
<1>1. /\ gs \in Seq(FrameRec) /\ Len(gs) = L - 1 /\ L \in Nat /\ L > 1
      /\ \A i \in 1..(L - 1) : gs[i] = fs[i]
      /\ DOMAIN gs = 1..(L - 1) /\ DOMAIN fs = 1..L
  BY FrontOf
<1>2. fs[L].kind \in {"message", "table", "array"}
  BY DEF Last
<1> HIDE DEF gs, L
<1>3. /\ fs[1].kind \in {"message", "table"} /\ fs[1].sv = 1
      /\ \A i \in 1..L : fs[i].sv \in 0..N /\ (fs[i].kind # "value" => fs[i].sv # NoSv)
      /\ \A i \in 1..L : fs[i].kind = "map" => i < L /\ fs[i + 1].kind = "value"
      /\ \A i \in 1..L : fs[i].kind = "value" => i > 1 /\ fs[i - 1].kind = "map"
  BY <1>1 DEF FramesOK, L
<1>4. \A i \in 1..(L - 1) : i \in 1..L
  BY <1>1
<1>5. FramesOK(gs, N)
  <2>1. Len(gs) > 0 /\ gs[1].kind \in {"message", "table"} /\ gs[1].sv = 1
    BY <1>1, <1>3
  <2>2. \A i \in 1..(L - 1) : gs[i].sv \in 0..N /\ (gs[i].kind # "value" => gs[i].sv # NoSv)
    BY <1>1, <1>3, <1>4
  <2>3. ASSUME NEW i \in 1..(L - 1), gs[i].kind = "map"
        PROVE  i < L - 1 /\ gs[i + 1].kind = "value"
    <3>1. i < L /\ fs[i + 1].kind = "value"
      BY <1>1, <1>3, <1>4, <2>3
    <3>2. i + 1 # L
      BY <1>2, <3>1
    <3>3. i + 1 \in 1..(L - 1)
      BY <1>1, <3>1, <3>2
    <3> QED
      BY <1>1, <3>1, <3>3
  <2>4. ASSUME NEW i \in 1..(L - 1), gs[i].kind = "value"
        PROVE  i > 1 /\ gs[i - 1].kind = "map"
    <3>1. i > 1 /\ fs[i - 1].kind = "map"
      BY <1>1, <1>3, <1>4, <2>4
    <3>2. i - 1 \in 1..(L - 1)
      BY <1>1, <3>1
    <3> QED
      BY <1>1, <3>1, <3>2
  <2> QED
    BY <1>1, <2>1, <2>2, <2>3, <2>4 DEF FramesOK
<1>6. Opens(gs) = Opens(fs)
  <2>1. \A i \in 1..L : fs[i].kind = "value" =>
            i \in 1..(L - 1) /\ gs[i].kind = "value" /\ gs[i].sv = fs[i].sv
    <3>1. \A i \in 1..L : i \in 1..(L - 1) \/ i = L
      BY <1>1
    <3> QED
      BY <1>1, <1>2, <3>1
  <2>2. \A i \in 1..(L - 1) : gs[i].kind = "value" => i \in 1..L /\ fs[i].kind = "value"
    BY <1>1, <1>4
  <2> QED
    BY <1>1, <2>1, <2>2, OpensSame DEF L
<1> QED
  BY <1>1, <1>5, <1>6 DEF gs, L

\* A map is closed, after its last entry.
LEMMA PopMap ==
    ASSUME NEW fs \in Seq(FrameRec), NEW N \in Nat, FramesOK(fs, N),
           Last(fs).kind = "value", Last(fs).sv = NoSv, OnceOrNot(Opens(fs))
    PROVE  LET gs == Front(Front(fs)) IN
           /\ gs \in Seq(FrameRec) /\ Len(gs) = Len(fs) - 2 /\ Len(fs) > 2
           /\ \A i \in 1..Len(gs) : gs[i] = fs[i]
           /\ FramesOK(gs, N) /\ OnceOrNot(Opens(gs)) /\ Filled(Opens(gs)) = Filled(Opens(fs))
<1> DEFINE hs == Front(fs)
           gs == Front(hs)
           L == Len(fs)
<1>1. Len(fs) > 0
  BY DEF FramesOK
<1>2. /\ hs \in Seq(FrameRec) /\ Len(hs) = L - 1 /\ L \in Nat
      /\ \A i \in 1..(L - 1) : hs[i] = fs[i]
      /\ DOMAIN fs = 1..L
  BY <1>1, FrontOf
<1>3. fs[L].kind = "value" /\ fs[L].sv = NoSv
  BY <1>1, FrontOf
<1> HIDE DEF hs, L
<1>4. /\ fs[1].kind \in {"message", "table"} /\ fs[1].sv = 1
      /\ \A i \in 1..L : fs[i].sv \in 0..N /\ (fs[i].kind # "value" => fs[i].sv # NoSv)
      /\ \A i \in 1..L : fs[i].kind = "map" => i < L /\ fs[i + 1].kind = "value"
      /\ \A i \in 1..L : fs[i].kind = "value" => i > 1 /\ fs[i - 1].kind = "map"
      /\ L > 0
  BY <1>2 DEF FramesOK, L
<1>5. L \in 1..L /\ L > 1 /\ fs[L - 1].kind = "map"
  BY <1>2, <1>3, <1>4
<1>6. L > 2
  <2>1. L # 2
    BY <1>4, <1>5
  <2> QED
    BY <1>2, <1>5, <2>1
<1>7. /\ gs \in Seq(FrameRec) /\ Len(gs) = L - 1 - 1
      /\ \A i \in 1..(L - 1 - 1) : gs[i] = hs[i]
      /\ DOMAIN gs = 1..(L - 1 - 1)
  BY <1>2, <1>6, FrontOf
<1> HIDE DEF gs
<1>8. /\ L - 1 - 1 = L - 2 /\ \A i \in 1..(L - 2) : i \in 1..(L - 1) /\ i \in 1..L
      /\ \A i \in 1..L : i \in 1..(L - 2) \/ i = L - 1 \/ i = L
  BY <1>2
<1>9. Len(gs) = L - 2 /\ DOMAIN gs = 1..(L - 2) /\ \A i \in 1..(L - 2) : gs[i] = fs[i]
  BY <1>2, <1>7, <1>8
<1>10. FramesOK(gs, N)
  <2>1. Len(gs) > 0 /\ gs[1].kind \in {"message", "table"} /\ gs[1].sv = 1
    BY <1>2, <1>4, <1>6, <1>9
  <2>2. \A i \in 1..(L - 2) : gs[i].sv \in 0..N /\ (gs[i].kind # "value" => gs[i].sv # NoSv)
    BY <1>4, <1>8, <1>9
  <2>3. ASSUME NEW i \in 1..(L - 2), gs[i].kind = "map"
        PROVE  i < L - 2 /\ gs[i + 1].kind = "value"
    <3>1. fs[i + 1].kind = "value"
      BY <1>4, <1>8, <1>9, <2>3
    <3>2. i + 1 # L - 1
      BY <1>5, <3>1
    <3>3. i + 1 \in 1..(L - 2) /\ i < L - 2
      BY <1>2, <3>2
    <3> QED
      BY <1>9, <3>1, <3>3
  <2>4. ASSUME NEW i \in 1..(L - 2), gs[i].kind = "value"
        PROVE  i > 1 /\ gs[i - 1].kind = "map"
    <3>1. i > 1 /\ fs[i - 1].kind = "map"
      BY <1>4, <1>8, <1>9, <2>4
    <3>2. i - 1 \in 1..(L - 2)
      BY <1>2, <3>1
    <3> QED
      BY <1>9, <3>1, <3>2
  <2> QED
    BY <1>9, <2>1, <2>2, <2>3, <2>4 DEF FramesOK
<1>11. OnceOrNot(Opens(gs)) /\ Filled(Opens(gs)) = Filled(Opens(fs))
  <2>1. /\ DOMAIN Opens(fs) = {i \in 1..L : fs[i].kind = "value"}
        /\ \A i \in DOMAIN Opens(fs) : Opens(fs)[i] = fs[i].sv
    BY FramesAre DEF L
  <2>2. /\ DOMAIN Opens(gs) = {i \in 1..(L - 2) : gs[i].kind = "value"}
        /\ \A i \in DOMAIN Opens(gs) : Opens(gs)[i] = gs[i].sv
    BY <1>7, <1>9, FramesAre
  <2>3. \A i \in DOMAIN Opens(gs) : i \in DOMAIN Opens(fs) /\ i \in 1..(L - 2)
    BY <1>8, <1>9, <2>1, <2>2
  <2>4. DOMAIN Opens(gs) \subseteq DOMAIN Opens(fs)
    BY <2>3
  <2>5. \A i \in DOMAIN Opens(gs) : Opens(gs)[i] = Opens(fs)[i]
    BY <1>9, <2>1, <2>2, <2>3
  <2>6. \A i \in DOMAIN Opens(fs) \ DOMAIN Opens(gs) : Opens(fs)[i] = NoSv
    <3>1. \A i \in DOMAIN Opens(fs) \ DOMAIN Opens(gs) : i = L
      BY <1>5, <1>8, <1>9, <2>1, <2>2
    <3> QED
      BY <1>3, <2>1, <3>1
  <2> QED
    BY <2>4, <2>5, <2>6, FillLess
<1> QED
  BY <1>6, <1>7, <1>9, <1>10, <1>11 DEF gs, hs, L

\* The value of the open map entry is replaced.
LEMMA SetValue ==
    ASSUME NEW fs \in Seq(FrameRec), NEW N \in Nat, FramesOK(fs, N), NEW M \in Nat, N <= M,
           Last(fs).kind = "value", OnceOrNot(Opens(fs)),
           NEW n \in 0..M, n \notin Filled(Opens(fs))
    PROVE  LET gs == [fs EXCEPT ![Len(fs)].sv = n] IN
           /\ gs \in Seq(FrameRec) /\ Len(gs) = Len(fs) /\ Len(fs) > 1
           /\ \A i \in 1..(Len(fs) - 1) : gs[i] = fs[i]
           /\ gs[Len(fs)] = [Last(fs) EXCEPT !.sv = n]
           /\ FramesOK(gs, M) /\ OnceOrNot(Opens(gs))
           /\ Filled(Opens(gs)) = (Filled(Opens(fs)) \ {Last(fs).sv}) \cup ({n} \ {NoSv})
<1> DEFINE L == Len(fs)
           v == [fs[L] EXCEPT !.sv = n]
           gs == [fs EXCEPT ![Len(fs)].sv = n]
<1>1. Len(fs) > 0
  BY DEF FramesOK
<1>2. L \in Nat /\ L > 0 /\ Last(fs) = fs[L] /\ fs[L] \in FrameRec /\ DOMAIN fs = 1..L /\ L \in 1..L
  BY <1>1, LastOf
<1>3. gs = [fs EXCEPT ![L] = v]
  OBVIOUS
<1>4. /\ v \in FrameRec /\ v.sv = n /\ v.kind = "value" /\ fs[L].kind = "value"
      /\ v = [Last(fs) EXCEPT !.sv = n]
  <2>1. n \in Nat
    OBVIOUS
  <2> QED
    BY <1>2, <2>1 DEF FrameRec
<1> HIDE DEF L, v, gs
<1>5. gs \in Seq(FrameRec) /\ Len(gs) = L /\ \A i \in 1..L : gs[i] = IF i = L THEN v ELSE fs[i]
  <2>1. L \in 1..Len(fs)
    BY <1>2 DEF L
  <2> QED
    BY <1>3, <1>4, <2>1, ExceptSeq DEF L
<1>6. DOMAIN gs = 1..L
  BY <1>5, FramesAre
<1>7. /\ fs[1].kind \in {"message", "table"} /\ fs[1].sv = 1
      /\ \A i \in 1..L : fs[i].sv \in 0..N /\ (fs[i].kind # "value" => fs[i].sv # NoSv)
      /\ \A i \in 1..L : fs[i].kind = "map" => i < L /\ fs[i + 1].kind = "value"
      /\ \A i \in 1..L : fs[i].kind = "value" => i > 1 /\ fs[i - 1].kind = "map"
  BY <1>2 DEF FramesOK, L
<1>8. L > 1
  BY <1>2, <1>4, <1>7
<1>9. \A i \in 1..L : gs[i].kind = fs[i].kind /\ (i # L => gs[i] = fs[i])
  BY <1>4, <1>5
<1>10. FramesOK(gs, M)
  <2>1. Len(gs) > 0 /\ gs[1].kind \in {"message", "table"} /\ gs[1].sv = 1
    BY <1>2, <1>5, <1>7, <1>8
  <2>2. ASSUME NEW i \in 1..L
        PROVE  gs[i].sv \in 0..M /\ (gs[i].kind # "value" => gs[i].sv # NoSv)
    <3>1. CASE i = L
      BY <1>4, <1>5, <3>1
    <3>2. CASE i # L
      BY <1>7, <1>9, <3>2
    <3> QED
      BY <3>1, <3>2
  <2>3. ASSUME NEW i \in 1..L, gs[i].kind = "map"
        PROVE  i < L /\ gs[i + 1].kind = "value"
    <3>1. i < L /\ fs[i + 1].kind = "value"
      BY <1>7, <1>9, <2>3
    <3>2. i + 1 \in 1..L
      BY <1>2, <3>1
    <3> QED
      BY <1>9, <3>1, <3>2
  <2>4. ASSUME NEW i \in 1..L, gs[i].kind = "value"
        PROVE  i > 1 /\ gs[i - 1].kind = "map"
    <3>1. i > 1 /\ fs[i - 1].kind = "map"
      BY <1>7, <1>9, <2>4
    <3>2. i - 1 \in 1..L
      BY <1>2, <3>1
    <3> QED
      BY <1>9, <3>1, <3>2
  <2> QED
    BY <1>5, <1>6, <2>1, <2>2, <2>3, <2>4 DEF FramesOK
<1>11. OnceOrNot(Opens(gs))
       /\ Filled(Opens(gs)) = (Filled(Opens(fs)) \ {fs[L].sv}) \cup ({n} \ {NoSv})
  <2>1. /\ DOMAIN Opens(fs) = {i \in 1..L : fs[i].kind = "value"}
        /\ \A i \in DOMAIN Opens(fs) : Opens(fs)[i] = fs[i].sv
    BY FramesAre DEF L
  <2>2. /\ DOMAIN Opens(gs) = {i \in 1..L : gs[i].kind = "value"}
        /\ \A i \in DOMAIN Opens(gs) : Opens(gs)[i] = gs[i].sv
    BY <1>5, FramesAre
  <2>3. DOMAIN Opens(gs) = DOMAIN Opens(fs) /\ L \in DOMAIN Opens(fs)
    BY <1>2, <1>4, <1>9, <2>1, <2>2
  <2>4. \A i \in DOMAIN Opens(fs) \ {L} : Opens(gs)[i] = Opens(fs)[i]
    BY <1>9, <2>1, <2>2, <2>3
  <2>5. Opens(gs)[L] = n /\ Opens(fs)[L] = fs[L].sv
    BY <1>4, <1>5, <2>1, <2>2, <2>3
  <2>6. ChangedAt(Opens(fs), L, Opens(gs), {fs[L].sv})
    BY <2>3, <2>4, <2>5 DEF ChangedAt
  <2>7. OnceOrNot(Opens(gs)) /\ Filled(Opens(gs)) =
            (Filled(Opens(fs)) \ {fs[L].sv}) \cup ({Opens(gs)[L]} \ {NoSv})
    BY <2>6, FillAt
  <2> QED
    BY <2>5, <2>7
<1>12. gs[L] = v /\ \A i \in 1..(L - 1) : gs[i] = fs[i]
  BY <1>2, <1>5
<1> QED
  BY <1>2, <1>4, <1>5, <1>8, <1>10, <1>11, <1>12 DEF gs, L
\* One value's count.
LEMMA CountIs ==
    ASSUME NEW s \in Svq, NEW n \in 1..Len(s), NEW c \in Int
    PROVE  LET r == [s EXCEPT ![n].refs = c] IN
           /\ SameSlots(s, r)
           /\ \A m \in 1..Len(s) : r[m].refs = IF m = n THEN c ELSE s[m].refs
<1> DEFINE v == [s[n] EXCEPT !.refs = c]
           r == [s EXCEPT ![n].refs = c]
<1>1. Len(s) \in Nat /\ DOMAIN s = 1..Len(s) /\ s[n] \in SvRec
  BY HeldIs, SvIs
<1>2. /\ v \in SvRec /\ v.refs = c /\ v.slots = s[n].slots /\ v.freed = s[n].freed
  BY <1>1 DEF SvRec
<1>3. r = [s EXCEPT ![n] = v]
  OBVIOUS
<1> HIDE DEF r, v
<1>4. r \in Svq /\ Len(r) = Len(s) /\ \A m \in 1..Len(s) : r[m] = IF m = n THEN v ELSE s[m]
  BY <1>2, <1>3, ExceptSeq DEF Svq
<1> QED
  BY <1>1, <1>2, <1>4 DEF SameSlots, SameLen, r

\* How often a value is queued.
LEMMA WaitingIs ==
    ASSUME NEW p \in Seq(QueueRec), NEW n
    PROVE  /\ Waiting(p, n) \in Nat /\ DOMAIN p = 1..Len(p) /\ Len(p) \in Nat
           /\ (\A i \in 1..Len(p) : p[i].target # n) => Waiting(p, n) = 0
           /\ (\E i \in 1..Len(p) : p[i].target = n) => Waiting(p, n) >= 1
           /\ (\E i, j \in 1..Len(p) : i # j /\ p[i].target = n /\ p[j].target = n)
                    => Waiting(p, n) >= 2
<1> DEFINE S == {i \in DOMAIN p : p[i].target = n}
<1>1. DOMAIN p = 1..Len(p) /\ Len(p) \in Nat
  BY SeqIs
<1>2. IsFiniteSet(1..Len(p)) /\ S \subseteq 1..Len(p)
  BY <1>1, FS_Interval
<1>3. \A i \in 1..Len(p) : i \in S <=> p[i].target = n
  BY <1>1
<1> HIDE DEF S
<1>4. IsFiniteSet(S) /\ Cardinality(S) \in Nat
  BY <1>2, FS_Subset, FS_CardinalityType
<1>5. Waiting(p, n) = Cardinality(S)
  BY DEF Waiting, S
<1>6. (\A i \in 1..Len(p) : p[i].target # n) => Cardinality(S) = 0
  <2>1. (\A i \in 1..Len(p) : p[i].target # n) => S = {}
    BY <1>2, <1>3
  <2> QED
    BY <2>1, FS_EmptySet
<1>7. ASSUME NEW i \in 1..Len(p), p[i].target = n PROVE Cardinality(S) >= 1
  <2>1. Cardinality(S) # 0
    BY <1>3, <1>4, <1>7, FS_EmptySet
  <2> QED
    BY <1>4, <2>1
<1>8. ASSUME NEW i \in 1..Len(p), NEW j \in 1..Len(p), i # j, p[i].target = n, p[j].target = n
      PROVE  Cardinality(S) >= 2
  <2>1. i \in S /\ j \in S
    BY <1>3, <1>8
  <2>2. Cardinality(S) # 0
    BY <1>4, <2>1, FS_EmptySet
  <2>3. Cardinality(S) # 1
    <3>1. ~\E x : S = {x}
      BY <1>8, <2>1
    <3> QED
      BY <1>4, <3>1, FS_Singleton
  <2> QED
    BY <1>4, <2>2, <2>3
<1> QED
  BY <1>1, <1>4, <1>5, <1>6, <1>7, <1>8

\* One transform or none is queued, with no part of fieldtable yet.
NewOf(q, n) ==
    \/ q = <<>>
    \/ \E x \in QueueRec : q = <<x>> /\ x.target = n /\ x.offset = -1 /\ x.size = 0

\* add_transform queues it.
LEMMA QueuedIs ==
    ASSUME NEW n \in Nat, NEW message \in {"none", "plain", "table", "bare"},
           NEW field \in {"none", "plain", "table"}
    PROVE  LET q == Queued(n, message, field) IN
           /\ NewOf(q, n)
           /\ q # <<>> => q[1].by = IF field # "none" THEN field ELSE message
           /\ field # "none" \/ message \in {"plain", "table"} => q # <<>>
<1> DEFINE q == Queued(n, message, field)
           by == IF field # "none" THEN field ELSE message
           x == [target |-> n, by |-> by, offset |-> -1, size |-> 0]
<1>1. CASE field # "none" \/ message \in {"plain", "table"}
  <2>1. q = <<x>> /\ by \in {"plain", "table"}
    BY <1>1 DEF Queued
  <2>2. x \in QueueRec
    BY <2>1 DEF QueueRec
  <2>3. x.target = n /\ x.offset = -1 /\ x.size = 0 /\ x.by = by
    OBVIOUS
  <2> HIDE DEF q, x, by
  <2>4. q # <<>> /\ q[1] = x
    BY <2>1
  <2> QED
    BY <2>1, <2>2, <2>3, <2>4 DEF NewOf, q, by
<1>2. CASE ~(field # "none" \/ message \in {"plain", "table"})
  <2>1. q = <<>>
    BY <1>2 DEF Queued
  <2> QED
    BY <1>2, <2>1 DEF NewOf
<1> QED
  BY <1>1, <1>2

\* The queue with it.
LEMMA QueueMore ==
    ASSUME NEW p \in Seq(QueueRec), NEW n, NEW q, NewOf(q, n)
    PROVE  /\ p \o q \in Seq(QueueRec) /\ Len(p) \in Nat
           /\ q = <<>> => p \o q = p
           /\ q # <<>> => /\ Len(p \o q) = Len(p) + 1 /\ (p \o q)[Len(p) + 1] = q[1]
                          /\ q[1] \in QueueRec /\ q[1].target = n
                          /\ q[1].offset = -1 /\ q[1].size = 0
           /\ \A i \in 1..Len(p) : (p \o q)[i] = p[i]
           /\ \A m : Waiting(p \o q, m) = Waiting(p, m) + IF q # <<>> /\ m = n THEN 1 ELSE 0
<1> DEFINE L == Len(p)
<1>1. L \in Nat /\ DOMAIN p = 1..L
  BY SeqIs
<1>2. CASE q = <<>>
  <2>1. p \o q = p
    BY <1>2, ConcatEmptySeq
  <2>2. \A m : Waiting(p, m) \in Nat
    BY WaitingIs
  <2>3. \A m : Waiting(p \o q, m) = Waiting(p, m) + IF q # <<>> /\ m = n THEN 1 ELSE 0
    BY <1>2, <2>1, <2>2
  <2> QED
    BY <1>1, <1>2, <2>1, <2>3
<1>3. CASE q # <<>>
  <2>1. PICK x \in QueueRec : q = <<x>> /\ x.target = n /\ x.offset = -1 /\ x.size = 0
    BY <1>3 DEF NewOf
  <2> DEFINE r == Append(p, x)
  <2>2. p \o q = r
    BY <2>1, AppendIsConcat
  <2>3. /\ r \in Seq(QueueRec) /\ Len(r) = L + 1 /\ DOMAIN r = 1..(L + 1)
        /\ \A i \in 1..L : r[i] = p[i]
    BY AppendOf
  <2>4. r[L + 1] = x /\ q[1] = x
    BY <2>1, AppendOf
  <2> HIDE DEF r, L
  <2>5. ASSUME NEW m
        PROVE  Waiting(r, m) = Waiting(p, m) + IF m = n THEN 1 ELSE 0
    <3> DEFINE S == {i \in DOMAIN p : p[i].target = m}
               T == {i \in DOMAIN r : r[i].target = m}
    <3>1. IsFiniteSet(S) /\ L + 1 \notin S /\ Cardinality(S) \in Nat
      <4>1. IsFiniteSet(1..L) /\ S \subseteq 1..L
        BY <1>1, FS_Interval
      <4>2. L + 1 \notin 1..L
        BY <1>1
      <4> HIDE DEF S
      <4> QED
        BY <4>1, <4>2, FS_Subset, FS_CardinalityType
    <3>2. T = IF m = n THEN S \cup {L + 1} ELSE S
      <4>1. \A i \in 1..(L + 1) : i \in 1..L \/ i = L + 1
        BY <1>1
      <4>2. \A i \in 1..L : i \in 1..(L + 1)
        BY <1>1
      <4>3. L + 1 \in 1..(L + 1) /\ L + 1 \notin 1..L
        BY <1>1
      <4> QED
        BY <1>1, <2>1, <2>3, <2>4, <4>1, <4>2, <4>3
    <3> HIDE DEF S, T
    <3>3. Cardinality(T) = Cardinality(S) + IF m = n THEN 1 ELSE 0
      <4>1. Cardinality(S \cup {L + 1}) = Cardinality(S) + 1
        BY <3>1, FS_AddElement
      <4> QED
        BY <3>1, <3>2, <4>1
    <3> QED
      BY <3>3 DEF Waiting, S, T
  <2> QED
    BY <1>1, <1>3, <2>1, <2>2, <2>3, <2>4, <2>5 DEF L
<1> QED
  BY <1>2, <1>3

\* The queue takes a reference.
LEMMA Queuing ==
    ASSUME NEW s \in Svq, NEW O, Tree(s, O), NEW n \in 1..Len(s), NEW q, NewOf(q, n),
           NEW p \in Seq(QueueRec)
    PROVE  LET r == IncQueued(s, q) IN
           /\ SameSlots(s, r) /\ Tree(r, O)
           /\ \A m \in 1..Len(s) : Slack(r, O, p \o q, m) = Slack(s, O, p, m)
           /\ FreedGone(s) /\ ~s[n].freed => FreedGone(r)
<1> DEFINE r == IncQueued(s, q)
<1>1. s[n].refs \in Int /\ \A m \in 1..Len(s) : s[m].refs \in Int
  BY SvIs
<1>2. /\ SameSlots(s, r)
      /\ \A m \in 1..Len(s) : r[m].refs = s[m].refs + IF q # <<>> /\ m = n THEN 1 ELSE 0
  <2>1. CASE q = <<>>
    <3>1. r = s
      BY <2>1 DEF IncQueued
    <3> QED
      BY <1>1, <2>1, <3>1 DEF SameSlots, SameLen
  <2>2. CASE q # <<>>
    <3>1. q[1].target = n
      BY <2>2, QueueMore
    <3>2. r = [s EXCEPT ![n].refs = s[n].refs + 1]
      BY <2>2, <3>1 DEF IncQueued
    <3>3. s[n].refs + 1 \in Int
      BY <1>1
    <3> DEFINE a == [s EXCEPT ![n].refs = s[n].refs + 1]
    <3>4. /\ SameSlots(s, a)
          /\ \A m \in 1..Len(s) : a[m].refs = IF m = n THEN s[n].refs + 1 ELSE s[m].refs
      BY <3>3, CountIs
    <3> HIDE DEF r, a
    <3> QED
      BY <1>1, <2>2, <3>2, <3>4 DEF a
  <2> QED
    BY <2>1, <2>2
<1> HIDE DEF r
<1>3. /\ Tree(r, O) /\ DOMAIN r = 1..Len(s) /\ \A m : InSlots(r, m) <=> InSlots(s, m)
  BY <1>2, SameHolders DEF Tree
<1>4. \A m \in 1..Len(s) : Slack(r, O, p \o q, m) = Slack(s, O, p, m)
  <2>1. \A m : Waiting(p, m) \in Nat /\ Waiting(p \o q, m) = Waiting(p, m)
                                            + IF q # <<>> /\ m = n THEN 1 ELSE 0
    BY WaitingIs, QueueMore
  <2>2. \A m : OwnedBy(r, O, m) = OwnedBy(s, O, m) /\ OwnedBy(s, O, m) \in Int
    BY <1>3 DEF OwnedBy
  <2>3. ASSUME NEW m \in 1..Len(s) PROVE Slack(r, O, p \o q, m) = Slack(s, O, p, m)
    <3> DEFINE c == IF q # <<>> /\ m = n THEN 1 ELSE 0
               w == Waiting(p, m)
               v == Waiting(p \o q, m)
               a == OwnedBy(r, O, m)
               b == OwnedBy(s, O, m)
    <3>1. r[m].refs = s[m].refs + c /\ s[m].refs \in Int
      BY <1>1, <1>2
    <3>2. w \in Int /\ v = w + c /\ c \in Int /\ a = b /\ b \in Int
      BY <2>1, <2>2
    <3> HIDE DEF c, w, v, a, b
    <3>3. r[m].refs - v - a = s[m].refs - w - b
      BY <3>1, <3>2
    <3> QED
      BY <3>3 DEF Slack, w, v, a, b
  <2> QED
    BY <2>3
<1>5. FreedGone(s) /\ ~s[n].freed => FreedGone(r)
  <2>1. DOMAIN s = 1..Len(s)
    BY HeldIs
  <2> QED
    BY <1>1, <1>2, <1>3, <2>1 DEF FreedGone, SameSlots
<1> QED
  BY <1>2, <1>3, <1>4, <1>5 DEF r
------------------------------------------------------------------------------
(* Targets.                                                                       *)

\* Nothing waits in an empty queue.
LEMMA NoneWaits == \A n : Waiting(<<>>, n) = 0
<1> DEFINE none == <<>>
<1>1. none \in Seq(QueueRec) /\ Len(none) = 0
  OBVIOUS
<1> HIDE DEF none
<1>2. ASSUME NEW n PROVE Waiting(none, n) = 0
  <2>1. \A i \in 1..Len(none) : none[i].target # n
    BY <1>1
  <2> QED
    BY <1>1, <2>1, WaitingIs
<1> QED
  BY <1>2 DEF none

\* From s, where O is owned outside, to r, where P is, with a new value or without:
\* no count changes but with the references there are, the queue being p.
Made(s, O, r, P, p) ==
    /\ r \in Svq /\ Len(r) \in Len(s)..Len(s) + 1 /\ Tree(r, P)
    /\ \A n \in 1..Len(s) : Slack(r, P, p, n) = Slack(s, O, p, n)
    /\ Len(r) = Len(s) + 1 => /\ DOMAIN r[Len(r)].slots = {}
                              /\ Waiting(p, Len(r)) = 0 => Slack(r, P, p, Len(r)) = 0

\* The other members of a oneof leave the hash.
LEMMA EmptiedIs ==
    ASSUME svs \in Svq, NEW O, Tree(svs, O), Top.sv \in 1..Len(svs), NEW f
    PROVE  Moves(svs, O, Emptied(f), O) /\ Narrower(svs, Emptied(f))
<1> DEFINE h == Top.sv
           old == svs[h].slots
           D == DOMAIN old \ Others(f)
           g == Restrict(old, D)
           ids == [i \in Others(f) |-> old[i]]
<1>1. h \in 1..Len(svs)
  OBVIOUS
<1>2. old \in SlotMaps
  BY SvIs
<1>3. g \in SlotMaps /\ DOMAIN g = D /\ \A i \in D : g[i] = old[i]
  BY <1>2, SlotsLess
<1>4. Others(f) \subseteq DOMAIN old
  BY DEF Others
<1>5. Emptied(f) = Release(Refill(svs, h, g), ids)
  BY DEF Emptied, Refill
<1> HIDE DEF g
<1>6. DOMAIN ids = DOMAIN svs[h].slots \ DOMAIN g
  BY <1>3, <1>4
<1>7. \A i \in DOMAIN ids : ids[i] = svs[h].slots[i]
  OBVIOUS
<1>8. DOMAIN g \subseteq DOMAIN svs[h].slots /\ \A i \in DOMAIN g : g[i] = svs[h].slots[i]
  BY <1>3
<1> HIDE DEF ids, h
<1>9. Moves(svs, O, Release(Refill(svs, h, g), ids), O)
      /\ Narrower(svs, Release(Refill(svs, h, g), ids))
  BY <1>1, <1>3, <1>6, <1>7, <1>8, TakenOut
<1> QED
  BY <1>5, <1>9

\* What becomes of the values when a target t is looked up or made, in slot i of the
\* innermost container, or outside.
Targets(t, O, P, p, i) ==
    /\ Made(svs, O, t.svs, P, p) /\ t.sv \in 1..Len(t.svs)
    /\ Adds(svs, t.svs, Top.sv, i, NextSv)
    /\ \/ t.sv = NextSv /\ Len(t.svs) = NextSv
       \/ /\ Len(t.svs) = Len(svs) /\ Top.kind # "value" /\ Top.kind # "array"
          /\ i \in DOMAIN svs[Top.sv].slots /\ t.sv = svs[Top.sv].slots[i]

\* A new value that the innermost container does not hold.
LEMMA TargetOutside ==
    ASSUME svs \in Svq, NEW O, Tree(svs, O), NEW p \in Seq(QueueRec), NEW t, NEW i,
           t.sv = NextSv, t.svs = Append(svs, NewSv)
    PROVE  Targets(t, O, O \cup {NextSv}, p, i)
<1> DEFINE N == NextSv
           r == Append(svs, NewSv)
           P == O \cup {N}
<1>1. N = Len(svs) + 1
  BY DEF NextSv
<1>2. Len(svs) \in Nat /\ DOMAIN svs = 1..Len(svs)
  BY HeldIs
<1> HIDE DEF N
<1>3. /\ r \in Svq /\ Len(r) = N /\ N \in Nat /\ \A k \in 1..Len(svs) : r[k] = svs[k]
      /\ DOMAIN r[N].slots = {} /\ Tree(r, P)
  BY <1>1, MadeOutside
<1>4. /\ \A n \in 1..Len(svs) : Slack(r, P, p, n) = Slack(svs, O, p, n)
      /\ Waiting(p, N) = 0 => Slack(r, P, p, N) = 0
  BY <1>1, MadeCounts
<1> HIDE DEF r, P
<1>5. Len(r) \in Len(svs)..Len(svs) + 1
  BY <1>1, <1>2, <1>3
<1>6. Made(svs, O, r, P, p)
  BY <1>3, <1>4, <1>5 DEF Made
<1>7. Adds(svs, r, Top.sv, i, N)
  BY <1>2, <1>3 DEF Adds
<1>8. N \in 1..Len(r)
  BY <1>1, <1>2, <1>3
<1> QED
  BY <1>3, <1>6, <1>7, <1>8 DEF Targets, N, r, P

\* A new value in a slot that was free.
LEMMA TargetInside ==
    ASSUME svs \in Svq, NEW O, Tree(svs, O), NEW p \in Seq(QueueRec), NEW t, NEW i \in Idx,
           Top.sv \in 1..Len(svs), i \notin DOMAIN svs[Top.sv].slots,
           NEW s \in Svq, Moves(svs, O, s, O), Narrower(svs, s),
           t.sv = NextSv, t.svs = Put(Append(s, NewSv), Top.sv, i, NextSv)
    PROVE  Targets(t, O, O, p, i)
<1> DEFINE N == NextSv
           h == Top.sv
           r == Put(Append(s, NewSv), h, i, N)
<1>1. Len(svs) \in Nat /\ DOMAIN svs = 1..Len(svs) /\ h \in 1..Len(svs)
  BY HeldIs
<1>2. /\ Len(s) = Len(svs) /\ Tree(s, O)
      /\ \A n \in 1..Len(svs) : Slack(s, O, p, n) = Slack(svs, O, p, n)
  BY WaitingIs DEF Moves, SameLen
<1>3. N = Len(s) + 1 /\ h \in 1..Len(s)
  BY <1>2 DEF NextSv
<1>4. /\ \A k \in 1..Len(svs) : /\ DOMAIN s[k].slots \subseteq DOMAIN svs[k].slots
                                /\ \A j \in DOMAIN s[k].slots : s[k].slots[j] = svs[k].slots[j]
  BY <1>1 DEF Narrower
<1> HIDE DEF N, h
<1>5. /\ r \in Svq /\ Len(r) = N /\ N \in Nat /\ Tree(r, O)
      /\ \A k \in 1..Len(s) :
            r[k].slots = IF k = h THEN With(s[h].slots, i, N) ELSE s[k].slots
      /\ DOMAIN r[N].slots = {}
      /\ DOMAIN r[h].slots = {i} \cup DOMAIN s[h].slots
      /\ \A j \in {i} \cup DOMAIN s[h].slots :
            r[h].slots[j] = IF j = i THEN N ELSE s[h].slots[j]
  <2>1. NewIn(s, r, h, i, N) /\ Tree(r, O)
    BY <1>2, <1>3, MadeInside
  <2> HIDE DEF r
  <2> QED
    BY <2>1 DEF NewIn
<1>6. /\ \A n \in 1..Len(s) : Waiting(p, n) \in Nat =>
            (i \notin DOMAIN s[h].slots => Slack(r, O, p, n) = Slack(s, O, p, n))
      /\ Waiting(p, N) = 0 => Slack(r, O, p, N) = 0
  BY <1>2, <1>3, MadeInside
<1> HIDE DEF r
<1>7. i \notin DOMAIN s[h].slots
  BY <1>1, <1>4 DEF h
<1>8. \A n \in 1..Len(svs) : Slack(r, O, p, n) = Slack(svs, O, p, n)
  BY <1>2, <1>6, <1>7, WaitingIs
<1>9. Len(r) \in Len(svs)..Len(svs) + 1 /\ Len(r) = Len(svs) + 1
  BY <1>1, <1>2, <1>3, <1>5
<1>10. Made(svs, O, r, O, p)
  BY <1>5, <1>6, <1>8, <1>9 DEF Made
<1>11. Adds(svs, r, h, i, N)
  <2>1. ASSUME NEW k \in 1..Len(svs), NEW j \in DOMAIN r[k].slots
        PROVE  \/ k = h /\ j = i /\ r[k].slots[j] = N
               \/ j \in DOMAIN svs[k].slots /\ r[k].slots[j] = svs[k].slots[j]
    <3>1. CASE k = h
      BY <1>4, <1>5, <2>1, <3>1
    <3>2. CASE k # h
      BY <1>2, <1>4, <1>5, <2>1, <3>2
    <3> QED
      BY <3>1, <3>2
  <2> QED
    BY <1>1, <2>1 DEF Adds
<1>12. N \in 1..Len(r)
  BY <1>1, <1>2, <1>3, <1>5
<1> QED
  BY <1>5, <1>10, <1>11, <1>12 DEF Targets, N, h, r

\* get_hash_item_target, and an entry of a field table.
LEMMA ItemTargetIs ==
    ASSUME svs \in Svq, NEW O, Tree(svs, O), Full(svs), NEW p \in Seq(QueueRec),
           Top.sv \in 1..Len(svs), Top.kind \in {"message", "table"}, NEW f \in AllFields
    PROVE  LET t == ItemTarget(f) IN
           /\ Targets(t, O, IF Top.kind = "table" THEN O \cup {NextSv} ELSE O, p, f)
           /\ Top.kind = "table" => /\ t.entries = Append(entries, [field |-> f, value |-> NextSv])
                                    /\ t.sv = NextSv
           /\ Top.kind # "table" => t.entries = entries
<1> DEFINE t == ItemTarget(f)
           h == Top.sv
<1>1. CASE Top.kind = "table"
  <2>1. /\ t.sv = NextSv /\ t.svs = Append(svs, NewSv)
        /\ t.entries = Append(entries, [field |-> f, value |-> NextSv])
    BY <1>1 DEF ItemTarget
  <2> HIDE DEF t
  <2>2. Targets(t, O, O \cup {NextSv}, p, f)
    BY <2>1, TargetOutside
  <2> QED
    BY <1>1, <2>1, <2>2 DEF t
<1>2. CASE Top.kind # "table" /\ f \in DOMAIN svs[Top.sv].slots
  <2>1. t.sv = svs[h].slots[f] /\ t.svs = Emptied(f) /\ t.entries = entries
    BY <1>2 DEF ItemTarget
  <2> HIDE DEF t
  <2>2. Moves(svs, O, Emptied(f), O) /\ Narrower(svs, Emptied(f))
    BY EmptiedIs
  <2> DEFINE r == Emptied(f)
  <2> HIDE DEF r
  <2>3. Len(svs) \in Nat /\ DOMAIN svs = 1..Len(svs)
    BY HeldIs
  <2>4. /\ r \in Svq /\ Len(r) = Len(svs) /\ Tree(r, O)
        /\ \A n \in 1..Len(svs) : Slack(r, O, p, n) = Slack(svs, O, p, n)
    BY <2>2, WaitingIs DEF Moves, SameLen, r
  <2>5. Made(svs, O, r, O, p)
    <3>1. PICK n \in Nat : n = Len(svs) /\ Len(r) = n
      BY <2>3, <2>4
    <3>2. n \in n..n + 1 /\ n # n + 1
      OBVIOUS
    <3>3. Len(r) \in Len(svs)..Len(svs) + 1 /\ Len(r) # Len(svs) + 1
      BY <3>1, <3>2
    <3> QED
      BY <2>4, <3>3 DEF Made
  <2>6. Adds(svs, r, h, f, NextSv)
    BY <2>2 DEF Adds, Narrower, r
  <2>7. t.sv \in 1..Len(svs)
    <3>1. svs[h].slots[f] # NoSv /\ svs[h].slots[f] \in 0..Len(svs)
      BY <1>2, <2>3 DEF Full, Tree, InRange
    <3> QED
      BY <2>1, <2>3, <3>1 DEF NoSv
  <2>8. Targets(t, O, O, p, f)
    BY <1>2, <2>1, <2>4, <2>5, <2>6, <2>7 DEF Targets, r
  <2> QED
    BY <1>2, <2>1, <2>8 DEF t
<1>3. CASE Top.kind # "table" /\ f \notin DOMAIN svs[Top.sv].slots
  <2>1. /\ t.sv = NextSv /\ t.entries = entries
        /\ t.svs = Put(Append(Emptied(f), NewSv), h, f, NextSv)
    BY <1>3 DEF ItemTarget
  <2> HIDE DEF t
  <2>2. Moves(svs, O, Emptied(f), O) /\ Narrower(svs, Emptied(f))
    BY EmptiedIs
  <2>3. Emptied(f) \in Svq /\ f \in Idx
    BY <2>2 DEF Moves, SameLen, Idx
  <2>4. Targets(t, O, O, p, f)
    BY <1>3, <2>1, <2>2, <2>3, TargetInside
  <2> QED
    BY <1>3, <2>1, <2>4 DEF t
<1> QED
  BY <1>1, <1>2, <1>3

\* get_target for a sub-message.
LEMMA SubTargetIs ==
    ASSUME svs \in Svq, NEW O, Tree(svs, O), Full(svs), NEW p \in Seq(QueueRec),
           Top.kind # "value" => Top.sv \in 1..Len(svs),
           Top.kind \in {"message", "table", "array", "value"}, NEW f \in AllFields
    PROVE  LET t == SubTarget(f) IN
           \E i \in Idx :
           /\ Targets(t, O, IF Top.kind \in {"table", "value"} THEN O \cup {NextSv} ELSE O, p, i)
           /\ i = f \/ Top.kind \in {"array", "value"}
           /\ Top.kind = "table" => t.entries = Append(entries, [field |-> f, value |-> NextSv])
           /\ Top.kind \in {"table", "value", "array"} => t.sv = NextSv
           /\ Top.kind # "table" => t.entries = entries
<1> DEFINE t == SubTarget(f)
<1>0. f \in Idx
  BY DEF Idx
<1>1. CASE Top.kind = "array"
  <2> DEFINE i == NextIndex(svs[Top.sv].slots)
  <2>1. /\ t.sv = NextSv /\ t.entries = entries
        /\ t.svs = Put(Append(svs, NewSv), Top.sv, i, NextSv)
    BY <1>1 DEF SubTarget
  <2>2. i \in Idx /\ i \notin DOMAIN svs[Top.sv].slots
    <3>1. svs[Top.sv].slots \in SlotMaps
      BY <1>1, SvIs
    <3> QED
      BY <3>1, IndexIsNew DEF Idx
  <2> HIDE DEF t, i
  <2>3. Moves(svs, O, svs, O) /\ Narrower(svs, svs)
    BY DEF Moves, SameLen, Narrower
  <2>4. Targets(t, O, O, p, i)
    BY <1>1, <2>1, <2>2, <2>3, TargetInside
  <2> QED
    BY <1>1, <2>1, <2>2, <2>4 DEF t
<1>2. CASE Top.kind = "value"
  <2>1. t.sv = NextSv /\ t.entries = entries /\ t.svs = Append(svs, NewSv)
    BY <1>2 DEF SubTarget
  <2> HIDE DEF t
  <2>2. Targets(t, O, O \cup {NextSv}, p, f)
    BY <2>1, TargetOutside
  <2> QED
    BY <1>0, <1>2, <2>1, <2>2 DEF t
<1>3. CASE Top.kind \in {"message", "table"}
  <2>1. t = ItemTarget(f)
    BY <1>3 DEF SubTarget
  <2> HIDE DEF t
  <2>2. LET u == ItemTarget(f) IN
        /\ Targets(u, O, IF Top.kind = "table" THEN O \cup {NextSv} ELSE O, p, f)
        /\ Top.kind = "table" => /\ u.entries = Append(entries, [field |-> f, value |-> NextSv])
                                 /\ u.sv = NextSv
        /\ Top.kind # "table" => u.entries = entries
    BY <1>3, ItemTargetIs
  <2> QED
    BY <1>0, <1>3, <2>1, <2>2 DEF t
<1> QED
  BY <1>1, <1>2, <1>3
------------------------------------------------------------------------------
(* Decoding, first part of the invariant.                                         *)

\* What holds while a call decodes.
Roots1 == {1}
Decodes(s, fs, es, p, tb) ==
    /\ s \in Svq /\ Full(s) /\ fs \in Seq(FrameRec) /\ FramesOK(fs, Len(s))
    /\ es \in Seq(EntryRec) /\ p \in Seq(QueueRec) /\ tb \in Seq(EntryRec)
    /\ QueueOK(p, Len(s), tb) /\ Apart(Roots1, fs, es, tb)
    /\ Tree(s, Outside(Roots1, fs, es, tb)) /\ Counted(s, Outside(Roots1, fs, es, tb), p)

\* It is what the invariant says of it,
LEMMA InvDecodes ==
    ASSUME Inv, phase = "decoding"
    PROVE  /\ Decodes(svs, frames, entries, pending, table) /\ RootIs = Roots1
           /\ Owned = Outside(Roots1, frames, entries, table)
<1>1. RootIs = Roots1
  <2>1. Len(svs) \in Nat /\ frames[1].sv = 1 /\ 1 \in DOMAIN frames
        /\ \A i \in DOMAIN frames : frames[i].sv \in 0..Len(svs)
    <3>1. svs \in Svq /\ frames \in Seq(FrameRec) /\ FramesOK(frames, Len(svs))
      BY DEF Inv, Typed, Shape
    <3>2. 1 \in DOMAIN frames
      BY <3>1, FramesAre DEF FramesOK
    <3> QED
      BY <3>1, <3>2, HeldIs DEF FramesOK
  <2>2. 1 \in 1..Len(svs)
    BY <2>1
  <2> QED
    BY <2>2 DEF RootIs, Roots1
<1>2. Owned = Outside(Roots1, frames, entries, table)
  BY <1>1 DEF Owned
<1>3. /\ svs \in Svq /\ frames \in Seq(FrameRec) /\ entries \in Seq(EntryRec)
      /\ pending \in Seq(QueueRec) /\ table \in Seq(EntryRec)
  BY DEF Inv, Typed
<1>4. FramesOK(frames, Len(svs)) /\ Full(svs) /\ ~ghost.cut /\ QueueOK(pending, Len(svs), table)
  BY DEF Inv, Shape
<1>5. Apart(Roots1, frames, entries, table) /\ Tree(svs, Owned) /\ Counted(svs, Owned, pending)
  BY <1>1, <1>4 DEF Inv
<1> QED
  BY <1>1, <1>2, <1>3, <1>4, <1>5 DEF Decodes

\* what has to be set,
LEMMA DecodesSet ==
    ASSUME phase' = "decoding", outcome' = "ok", at' = 0, mapped' \subseteq 1..Len(svs'),
           Decodes(svs, frames, entries, pending, table)',
           (ghost \in [merged : BOOLEAN, cut : BOOLEAN, lost : BOOLEAN,
                       written : {ghost.written}, log : {ghost.log}])', ~ghost'.cut
    PROVE  Inv'
<1>1. phase' = "decoding" /\ outcome' = "ok" /\ at' = 0
  OBVIOUS
<1>2. /\ svs' \in Svq /\ frames' \in Seq(FrameRec) /\ entries' \in Seq(EntryRec)
      /\ pending' \in Seq(QueueRec) /\ table' \in Seq(EntryRec)
      /\ FramesOK(frames', Len(svs')) /\ Full(svs') /\ QueueOK(pending', Len(svs'), table')
      /\ Apart(Roots1, frames', entries', table')
  BY DEF Decodes
<1>3. RootIs' = Roots1
  <2>1. 1 \in DOMAIN frames' /\ frames'[1].sv = 1
    BY <1>2, FramesAre DEF FramesOK
  <2>2. 1 \in 0..Len(svs')
    BY <1>2, <2>1 DEF FramesOK
  <2>3. 1 \in 1..Len(svs')
    BY <1>2, <2>2, HeldIs
  <2> QED
    BY <1>1, <2>3 DEF RootIs, Roots1
<1>4. Owned' = Outside(Roots1, frames', entries', table')
  BY <1>3 DEF Owned
<1>5. Tree(svs', Owned') /\ Counted(svs', Owned', pending')
  BY <1>4 DEF Decodes
<1>6. Typed'
  <2>1. at' \in 0..Len(pending')
    BY <1>1, <1>2, WaitingIs
  <2> QED
    BY <1>1, <1>2, <2>1 DEF Typed
<1>7. Shape'
  BY <1>1, <1>2 DEF Shape
<1>8. Apart(RootIs, frames, entries, table)'
  BY <1>2, <1>3
<1> QED
  BY <1>5, <1>6, <1>7, <1>8 DEF Inv

\* and what has to be kept.
LEMMA DecodesInv ==
    ASSUME Inv, phase = "decoding", UNCHANGED <<phase, outcome, at, mapped>>,
           Decodes(svs, frames, entries, pending, table)', Len(svs) <= Len(svs'),
           (ghost \in [merged : BOOLEAN, cut : BOOLEAN, lost : BOOLEAN,
                       written : {ghost.written}, log : {ghost.log}])', ~ghost'.cut
    PROVE  Inv'
<1>1. phase' = "decoding" /\ outcome' = "ok" /\ at' = 0
  BY DEF Inv, Shape
<1>2. mapped' \subseteq 1..Len(svs')
  <2>1. mapped \subseteq 1..Len(svs) /\ svs \in Svq /\ svs' \in Svq
    BY DEF Inv, Typed, Decodes
  <2>2. Len(svs) \in Nat /\ Len(svs') \in Nat
    BY <2>1, HeldIs
  <2> QED
    BY <2>1, <2>2
<1> QED
  BY <1>1, <1>2, DecodesSet

\* Who owns what is a value.
LEMMA OutsideIs ==
    ASSUME NEW s \in Svq, NEW R, NEW fs, NEW es, NEW tb, Tree(s, Outside(R, fs, es, tb))
    PROVE  /\ Len(s) \in Nat
           /\ \A n \in R \cup Filled(Opens(fs)) \cup Filled(Values(es)) \cup Filled(Values(tb)) :
                n \in 1..Len(s) /\ n # NoSv /\ n # Len(s) + 1
<1>1. Len(s) \in Nat
  BY HeldIs
<1>2. \A n \in 1..Len(s) : n # NoSv /\ n # Len(s) + 1
  BY <1>1 DEF NoSv
<1> QED
  BY <1>1, <1>2 DEF Tree, Outside

\* No new value is queued.
LEMMA NewWaits ==
    ASSUME NEW p \in Seq(QueueRec), NEW N \in Nat, NEW tb, QueueOK(p, N, tb)
    PROVE  Waiting(p, N + 1) = 0
<1>1. DOMAIN p = 1..Len(p)
  BY WaitingIs
<1>2. \A i \in 1..Len(p) : p[i].target # N + 1
  BY <1>1 DEF QueueOK
<1> QED
  BY <1>2, WaitingIs

\* More values make no difference to the queue.
LEMMA QueueStays ==
    ASSUME NEW p \in Seq(QueueRec), NEW N \in Nat, NEW tb, QueueOK(p, N, tb), NEW M \in Nat, N <= M
    PROVE  QueueOK(p, M, tb)
BY DEF QueueOK

\* Values move, one may be new.
LEMMA DecodesOn ==
    ASSUME NEW s, NEW fs, NEW es, NEW p, NEW tb, Decodes(s, fs, es, p, tb),
           NEW r, NEW P, Made(s, Outside(Roots1, fs, es, tb), r, P, p), Full(r),
           NEW fs2 \in Seq(FrameRec), FramesOK(fs2, Len(r)), OnceOrNot(Opens(fs2)),
           NEW es2 \in Seq(EntryRec), OnceOrNot(Values(es2)),
           Filled(Opens(fs2)) \subseteq Filled(Opens(fs)) \cup {Len(s) + 1},
           Filled(Values(es2)) \subseteq Filled(Values(es)) \cup {Len(s) + 1},
           Filled(Opens(fs2)) \cap Filled(Values(es2)) = {},
           Outside(Roots1, fs2, es2, tb) \subseteq P
    PROVE  Decodes(r, fs2, es2, p, tb)
<1> DEFINE O == Outside(Roots1, fs, es, tb)
           Q == Outside(Roots1, fs2, es2, tb)
           N == Len(s) + 1
           A == Filled(Opens(fs))
           B == Filled(Values(es))
           C == Filled(Values(tb))
           A2 == Filled(Opens(fs2))
           B2 == Filled(Values(es2))
<1>1. /\ s \in Svq /\ p \in Seq(QueueRec) /\ tb \in Seq(EntryRec)
      /\ QueueOK(p, Len(s), tb) /\ Apart(Roots1, fs, es, tb) /\ Tree(s, O) /\ Counted(s, O, p)
  BY DEF Decodes
<1>2. /\ Len(s) \in Nat
      /\ \A n \in Roots1 \cup A \cup B \cup C : n # N
  BY <1>1, OutsideIs
<1>3. /\ r \in Svq /\ Len(r) \in Len(s)..Len(s) + 1 /\ Tree(r, P)
      /\ \A n \in 1..Len(s) : Slack(r, P, p, n) = Slack(s, O, p, n)
      /\ Len(r) = N => (Waiting(p, Len(r)) = 0 => Slack(r, P, p, Len(r)) = 0)
  BY DEF Made
<1>4. Tree(r, Q) /\ \A n \in 1..Len(r) : Slack(r, Q, p, n) >= Slack(r, P, p, n)
  <2>1. \A n \in 1..Len(r) : Waiting(p, n) \in Nat
    BY <1>1, WaitingIs
  <2>2. Q \in SUBSET P
    OBVIOUS
  <2> HIDE DEF Q
  <2> QED
    BY <1>3, <2>1, <2>2, LessOutside
<1>5. Counted(r, Q, p)
  <2>1. ASSUME NEW n \in 1..Len(r) PROVE Slack(r, Q, p, n) >= 0
    <3>1. \A m \in 1..Len(r) : r[m].refs \in Int /\ Waiting(p, m) \in Nat
                                /\ OwnedBy(r, P, m) \in Int /\ OwnedBy(r, Q, m) \in Int
      BY <1>1, <1>3, SvIs, WaitingIs DEF OwnedBy
    <3>2. Slack(r, P, p, n) \in Int /\ Slack(r, Q, p, n) \in Int
      BY <3>1 DEF Slack
    <3>3. CASE n \in 1..Len(s)
      <4>1. Slack(s, O, p, n) >= 0
        BY <1>1, <3>3 DEF Counted
      <4> QED
        BY <1>3, <1>4, <3>2, <3>3, <4>1
    <3>4. CASE n \notin 1..Len(s)
      <4>1. n = N /\ Len(r) = N
        BY <1>2, <1>3, <3>4
      <4>2. Waiting(p, N) = 0
        BY <1>1, <1>2, NewWaits
      <4>3. Slack(r, P, p, n) = 0
        BY <1>3, <4>1, <4>2
      <4> QED
        BY <1>4, <3>2, <4>3
    <3> QED
      BY <3>3, <3>4
  <2> HIDE DEF Q
  <2> QED
    BY <2>1 DEF Counted
<1>6. Apart(Roots1, fs2, es2, tb)
  <2>1. /\ OnceOrNot(Values(tb))
        /\ Roots1 \cap (A \cup B \cup C) = {} /\ A \cap (B \cup C) = {} /\ B \cap C = {}
    BY <1>1 DEF Apart
  <2>2. A2 \subseteq A \cup {N} /\ B2 \subseteq B \cup {N} /\ A2 \cap B2 = {}
    OBVIOUS
  <2>3. N \notin Roots1 /\ N \notin C
    BY <1>2
  <2> HIDE DEF A, B, C, A2, B2, N
  <2>4. Roots1 \cap (A2 \cup B2 \cup C) = {} /\ A2 \cap (B2 \cup C) = {} /\ B2 \cap C = {}
    BY <2>1, <2>2, <2>3
  <2> QED
    BY <2>1, <2>4 DEF Apart, A2, B2, C
<1>7. QueueOK(p, Len(r), tb)
  BY <1>1, <1>2, <1>3, QueueStays
<1> QED
  BY <1>1, <1>3, <1>4, <1>5, <1>6, <1>7 DEF Decodes

\* Nothing moves.
LEMMA MadeNone ==
    ASSUME NEW s \in Svq, NEW O, Tree(s, O), NEW p
    PROVE  Made(s, O, s, O, p)
<1>1. Len(s) \in Nat
  BY HeldIs
<1>2. Len(s) \in Len(s)..Len(s) + 1 /\ Len(s) # Len(s) + 1
  BY <1>1
<1> QED
  BY <1>2 DEF Made

\* Values move, none is new.
LEMMA MadeMoved ==
    ASSUME NEW s \in Svq, NEW O, NEW r, NEW P, Moves(s, O, r, P), NEW p \in Seq(QueueRec)
    PROVE  Made(s, O, r, P, p)
<1>1. Len(s) \in Nat
  BY HeldIs
<1>2. /\ r \in Svq /\ Len(r) = Len(s) /\ Tree(r, P)
      /\ \A n \in 1..Len(s) : Slack(r, P, p, n) = Slack(s, O, p, n)
  BY WaitingIs DEF Moves, SameLen
<1>3. Len(r) \in Len(s)..Len(s) + 1 /\ Len(r) # Len(s) + 1
  BY <1>1, <1>2
<1> QED
  BY <1>2, <1>3 DEF Made

\* A transform is queued.
LEMMA DecodesQueued ==
    ASSUME NEW s, NEW fs, NEW es, NEW p, NEW tb, Decodes(s, fs, es, p, tb),
           NEW n \in 1..Len(s), NEW q, NewOf(q, n)
    PROVE  Decodes(IncQueued(s, q), fs, es, p \o q, tb) /\ Len(IncQueued(s, q)) = Len(s)
<1> DEFINE O == Outside(Roots1, fs, es, tb)
           r == IncQueued(s, q)
<1>1. /\ s \in Svq /\ p \in Seq(QueueRec) /\ tb \in Seq(EntryRec) /\ Full(s)
      /\ QueueOK(p, Len(s), tb) /\ Tree(s, O) /\ Counted(s, O, p)
  BY DEF Decodes
<1>2. /\ SameSlots(s, r) /\ Tree(r, O)
      /\ \A m \in 1..Len(s) : Slack(r, O, p \o q, m) = Slack(s, O, p, m)
  BY <1>1, Queuing
<1> HIDE DEF r
<1>3. r \in Svq /\ Len(r) = Len(s) /\ DOMAIN r = 1..Len(s) /\ DOMAIN s = 1..Len(s) /\ Len(s) \in Nat
  BY <1>1, <1>2, SameHolders, HeldIs
<1>4. Full(r)
  BY <1>1, <1>2, <1>3 DEF Full, SameSlots
<1>5. Counted(r, O, p \o q)
  <2> HIDE DEF O
  <2> QED
    BY <1>1, <1>2, <1>3 DEF Counted
<1>6. p \o q \in Seq(QueueRec)
  BY <1>1, QueueMore
<1>7. QueueOK(p \o q, Len(s), tb)
  <2>1. CASE q = <<>>
    BY <1>1, <2>1, QueueMore
  <2>2. CASE q # <<>>
    <3> DEFINE u == p \o q
               L == Len(p)
    <3>1. /\ Len(u) = L + 1 /\ u[L + 1] = q[1] /\ q[1].target = n
          /\ q[1].offset = -1 /\ q[1].size = 0 /\ L \in Nat
          /\ \A i \in 1..L : u[i] = p[i]
      BY <1>1, <2>2, QueueMore
    <3>2. DOMAIN u = 1..(L + 1) /\ DOMAIN p = 1..L
      BY <1>1, <1>6, <3>1, WaitingIs
    <3> HIDE DEF u, L
    <3>3. \A i \in 1..(L + 1) : i \in 1..L \/ i = L + 1
      BY <3>1
    <3> QED
      BY <1>1, <3>1, <3>2, <3>3 DEF QueueOK, u
  <2> QED
    BY <2>1, <2>2
<1> QED
  BY <1>1, <1>2, <1>3, <1>4, <1>5, <1>6, <1>7 DEF Decodes, r
\* Frames that differ in nothing that counts.
LEMMA SameFrames ==
    ASSUME NEW fs \in Seq(FrameRec), NEW N \in Nat, FramesOK(fs, N), NEW M \in Nat, N <= M,
           NEW gs \in Seq(FrameRec), Len(gs) = Len(fs),
           \A i \in 1..Len(fs) : gs[i].kind = fs[i].kind /\ gs[i].sv = fs[i].sv
    PROVE  FramesOK(gs, M) /\ Opens(gs) = Opens(fs)
<1> DEFINE L == Len(fs)
<1>1. DOMAIN fs = 1..L /\ DOMAIN gs = 1..L /\ L \in Nat
  BY FramesAre
<1>2. /\ L > 0 /\ fs[1].kind \in {"message", "table"} /\ fs[1].sv = 1
      /\ \A i \in 1..L : fs[i].sv \in 0..N /\ (fs[i].kind # "value" => fs[i].sv # NoSv)
      /\ \A i \in 1..L : fs[i].kind = "map" => i < L /\ fs[i + 1].kind = "value"
      /\ \A i \in 1..L : fs[i].kind = "value" => i > 1 /\ fs[i - 1].kind = "map"
  BY <1>1 DEF FramesOK
<1> HIDE DEF L
<1>3. \A i \in 1..L : gs[i].kind = fs[i].kind /\ gs[i].sv = fs[i].sv
  BY DEF L
<1>4. FramesOK(gs, M)
  <2>1. 1 \in 1..L
    BY <1>1, <1>2
  <2>2. gs[1].kind \in {"message", "table"} /\ gs[1].sv = 1
    BY <1>2, <1>3, <2>1
  <2>3. \A i \in 1..L : gs[i].sv \in 0..M /\ (gs[i].kind # "value" => gs[i].sv # NoSv)
    BY <1>2, <1>3
  <2>4. ASSUME NEW i \in 1..L, gs[i].kind = "map" PROVE i < L /\ gs[i + 1].kind = "value"
    <3>1. i < L /\ fs[i + 1].kind = "value"
      BY <1>2, <1>3, <2>4
    <3>2. i + 1 \in 1..L
      BY <1>1, <3>1
    <3> QED
      BY <1>3, <3>1, <3>2
  <2>5. ASSUME NEW i \in 1..L, gs[i].kind = "value" PROVE i > 1 /\ gs[i - 1].kind = "map"
    <3>1. i > 1 /\ fs[i - 1].kind = "map"
      BY <1>2, <1>3, <2>5
    <3>2. i - 1 \in 1..L
      BY <1>1, <3>1
    <3> QED
      BY <1>3, <3>1, <3>2
  <2> QED
    BY <1>1, <1>2, <2>2, <2>3, <2>4, <2>5 DEF FramesOK, L
<1>5. Opens(gs) = Opens(fs)
  BY <1>1, <1>3, OpensSame DEF L
<1> QED
  BY <1>4, <1>5

\* A field table notes its field, a message the member of its oneof.
LEMMA NotedIs ==
    ASSUME frames \in Seq(FrameRec), NEW N \in Nat, FramesOK(frames, N), NEW f \in AllFields
    PROVE  LET gs == Noted(f) IN
           /\ gs \in Seq(FrameRec) /\ Len(gs) = Len(frames)
           /\ \A i \in 1..Len(frames) :
                /\ gs[i].kind = frames[i].kind /\ gs[i].sv = frames[i].sv
                /\ gs[i].type = frames[i].type /\ gs[i].base = frames[i].base
                /\ gs[i].own = IF i = Len(frames) /\ frames[i].kind = "table"
                               THEN Append(frames[i].own, f) ELSE frames[i].own
                /\ i # Len(frames) => gs[i] = frames[i]
           /\ \A M \in Nat : N <= M => FramesOK(gs, M)
           /\ Opens(gs) = Opens(frames)
<1> DEFINE gs == Noted(f)
           L == Len(frames)
           v == [Top EXCEPT !.own = Append(@, f)]
           w == [Top EXCEPT !.seen = f]
           chosen == Top.kind = "message" /\ Fields[Top.type][f].label = "choice"
<1>1. L \in Nat /\ L > 0 /\ L \in 1..L /\ Top = frames[L] /\ Top \in FrameRec
  <2>1. Len(frames) > 0
    BY DEF FramesOK
  <2> QED
    BY <2>1, LastOf DEF Top
<1>2. /\ v \in FrameRec /\ v.kind = Top.kind /\ v.sv = Top.sv /\ v.type = Top.type
      /\ v.base = Top.base /\ v.own = Append(Top.own, f)
  <2>1. Append(Top.own, f) \in Seq(AllFields)
    <3>1. Top.own \in Seq(AllFields)
      BY <1>1 DEF FrameRec
    <3> QED
      BY <3>1, AppendProperties
  <2> QED
    BY <1>1, <2>1 DEF FrameRec
<1>3. /\ w \in FrameRec /\ w.kind = Top.kind /\ w.sv = Top.sv /\ w.type = Top.type
      /\ w.base = Top.base /\ w.own = Top.own
  BY <1>1 DEF FrameRec
<1>4. /\ gs \in Seq(FrameRec) /\ Len(gs) = L
      /\ \A i \in 1..L : gs[i] = IF i # L THEN frames[i]
                                 ELSE IF Top.kind = "table" THEN v
                                 ELSE IF chosen THEN w ELSE frames[i]
  <2>1. CASE Top.kind = "table"
    <3>1. gs = [frames EXCEPT ![L] = v]
      BY <1>1, <2>1 DEF Noted
    <3> HIDE DEF gs, v
    <3>2. L \in 1..Len(frames)
      BY <1>1
    <3>3. /\ gs \in Seq(FrameRec) /\ Len(gs) = L
          /\ \A i \in 1..L : gs[i] = IF i = L THEN v ELSE frames[i]
      BY <1>2, <3>1, <3>2, ExceptSeq
    <3> QED
      BY <2>1, <3>3
  <2>2. CASE Top.kind # "table" /\ chosen
    <3>1. gs = [frames EXCEPT ![L] = w]
      BY <1>1, <2>2 DEF Noted
    <3> HIDE DEF gs, v, w, chosen
    <3>2. L \in 1..Len(frames)
      BY <1>1
    <3>3. /\ gs \in Seq(FrameRec) /\ Len(gs) = L
          /\ \A i \in 1..L : gs[i] = IF i = L THEN w ELSE frames[i]
      BY <1>3, <3>1, <3>2, ExceptSeq
    <3> QED
      BY <2>2, <3>3
  <2>3. CASE Top.kind # "table" /\ ~chosen
    <3>1. gs = frames
      BY <2>3 DEF Noted
    <3> HIDE DEF gs, v, w, chosen
    <3> QED
      BY <2>3, <3>1
  <2> QED
    BY <2>1, <2>2, <2>3
<1> HIDE DEF gs, v, w, chosen
<1>5. \A i \in 1..L : /\ gs[i].kind = frames[i].kind /\ gs[i].sv = frames[i].sv
                      /\ gs[i].type = frames[i].type /\ gs[i].base = frames[i].base
                      /\ gs[i].own = IF i = L /\ frames[i].kind = "table"
                                     THEN Append(frames[i].own, f) ELSE frames[i].own
                      /\ i # L => gs[i] = frames[i]
  <2> SUFFICES ASSUME NEW i \in 1..L
               PROVE  /\ gs[i].kind = frames[i].kind /\ gs[i].sv = frames[i].sv
                      /\ gs[i].type = frames[i].type /\ gs[i].base = frames[i].base
                      /\ gs[i].own = IF i = L /\ frames[i].kind = "table"
                                     THEN Append(frames[i].own, f) ELSE frames[i].own
                      /\ i # L => gs[i] = frames[i]
    OBVIOUS
  <2>1. CASE i = L /\ Top.kind = "table"
    BY <1>1, <1>2, <1>4, <2>1
  <2>2. CASE i = L /\ Top.kind # "table" /\ gs[i] = w
    BY <1>1, <1>3, <2>2
  <2>3. CASE ~(i = L /\ Top.kind = "table") /\ gs[i] = frames[i]
    BY <1>1, <2>3
  <2> QED
    BY <1>4, <2>1, <2>2, <2>3
<1>6. /\ \A M \in Nat : N <= M => FramesOK(gs, M)
      /\ Opens(gs) = Opens(frames)
  BY <1>4, <1>5, SameFrames
<1> QED
  BY <1>4, <1>5, <1>6 DEF gs, L

\* A value that is looked up or made leaves no slot empty.
LEMMA FullStays ==
    ASSUME svs \in Svq, Full(svs), NEW t, NEW O, NEW P, NEW p, NEW i, Targets(t, O, P, p, i)
    PROVE  Full(t.svs) /\ Len(svs) <= Len(t.svs) /\ t.svs \in Svq /\ NextSv = Len(svs) + 1
<1>1. Len(svs) \in Nat /\ DOMAIN svs = 1..Len(svs)
  BY HeldIs
<1>2. /\ t.svs \in Svq /\ Len(t.svs) \in Len(svs)..Len(svs) + 1
      /\ Len(t.svs) = Len(svs) + 1 => DOMAIN t.svs[Len(t.svs)].slots = {}
  BY DEF Targets, Made
<1>3. DOMAIN t.svs = 1..Len(t.svs)
  BY <1>2, HeldIs
<1>4. ASSUME NEW k \in 1..Len(t.svs), NEW j \in DOMAIN t.svs[k].slots
      PROVE  t.svs[k].slots[j] # NoSv
  <2>1. CASE k \in 1..Len(svs)
    <3>1. NextSv # NoSv
      BY <1>1 DEF NextSv, NoSv
    <3>2. \/ t.svs[k].slots[j] = NextSv
          \/ j \in DOMAIN svs[k].slots /\ t.svs[k].slots[j] = svs[k].slots[j]
      BY <1>1, <1>4, <2>1 DEF Targets, Adds
    <3> QED
      BY <1>1, <2>1, <3>1, <3>2 DEF Full
  <2>2. CASE k \notin 1..Len(svs)
    <3>1. k = Len(t.svs) /\ Len(t.svs) = Len(svs) + 1
      BY <1>1, <1>2, <2>2
    <3> QED
      BY <1>2, <1>4, <3>1
  <2> QED
    BY <2>1, <2>2
<1> QED
  BY <1>1, <1>2, <1>3, <1>4 DEF Full, NextSv
\* The innermost container.
LEMMA TopIs ==
    ASSUME Decodes(svs, frames, entries, pending, table)
    PROVE  /\ Len(frames) \in Nat /\ Len(frames) \in 1..Len(frames) /\ DOMAIN frames = 1..Len(frames)
           /\ Top = frames[Len(frames)] /\ Top \in FrameRec /\ Top.sv \in 0..Len(svs)
           /\ Top.kind # "value" => Top.sv \in 1..Len(svs)
           /\ Top.kind # "map" /\ Top.kind \in {"message", "table", "array", "value"}
           /\ svs \in Svq /\ Len(svs) \in Nat /\ NextSv = Len(svs) + 1 /\ NextSv \in Nat
<1>1. frames \in Seq(FrameRec) /\ FramesOK(frames, Len(svs)) /\ svs \in Svq
  BY DEF Decodes
<1>2. /\ Len(frames) \in Nat /\ Len(frames) \in 1..Len(frames) /\ DOMAIN frames = 1..Len(frames)
      /\ Top = frames[Len(frames)] /\ Top \in FrameRec
  <2>1. Len(frames) > 0
    BY <1>1 DEF FramesOK
  <2> QED
    BY <1>1, <2>1, LastOf DEF Top
<1>3. Len(svs) \in Nat
  BY <1>1, HeldIs
<1>4. Top.sv \in 0..Len(svs) /\ (Top.kind # "value" => Top.sv # NoSv) /\ Top.kind # "map"
  <2> DEFINE L == Len(frames)
  <2>1. L \in DOMAIN frames /\ Top = frames[L]
    BY <1>2
  <2> HIDE DEF L
  <2>2. frames[L].sv \in 0..Len(svs) /\ (frames[L].kind # "value" => frames[L].sv # NoSv)
    BY <1>1, <2>1 DEF FramesOK
  <2>3. frames[L].kind # "map"
    <3>1. frames[L].kind = "map" => L < Len(frames)
      BY <1>1, <2>1 DEF FramesOK
    <3> QED
      BY <1>2, <3>1 DEF L
  <2> QED
    BY <2>1, <2>2, <2>3
<1>5. Top.kind # "value" => Top.sv \in 1..Len(svs)
  BY <1>3, <1>4 DEF NoSv
<1>6. Top.kind \in {"message", "table", "array", "map", "value"}
  BY <1>2 DEF FrameRec
<1> QED
  BY <1>1, <1>2, <1>3, <1>4, <1>5, <1>6 DEF NextSv

\* An entry for a new value.
LEMMA EntryMore ==
    ASSUME Decodes(svs, frames, entries, pending, table), NEW f \in AllFields,
           NEW es, es = Append(entries, [field |-> f, value |-> NextSv])
    PROVE  /\ es \in Seq(EntryRec) /\ OnceOrNot(Values(es)) /\ Len(es) = Len(entries) + 1
           /\ Filled(Values(es)) = Filled(Values(entries)) \cup {NextSv}
<1> DEFINE e == [field |-> f, value |-> NextSv]
<1>1. e \in EntryRec /\ e.value = NextSv
  BY TopIs DEF EntryRec
<1>2. entries \in Seq(EntryRec) /\ OnceOrNot(Values(entries))
  BY DEF Decodes, Apart
<1>3. NextSv \notin Filled(Values(entries)) /\ NextSv # NoSv
  <2>1. svs \in Svq /\ Tree(svs, Outside(Roots1, frames, entries, table))
    BY DEF Decodes
  <2> QED
    BY <2>1, TopIs, OutsideIs DEF NoSv
<1> HIDE DEF e
<1>4. es = Append(entries, e)
  BY DEF e
<1>5. /\ es \in Seq(EntryRec) /\ Len(es) = Len(entries) + 1
      /\ OnceOrNot(Values(es))
      /\ Filled(Values(es)) = Filled(Values(entries)) \cup ({e.value} \ {NoSv})
  BY <1>1, <1>2, <1>3, <1>4, ValuesMore
<1> QED
  BY <1>1, <1>3, <1>5

\* A field of the innermost message is looked up or made.
LEMMA ItemDecodes ==
    ASSUME Decodes(svs, frames, entries, pending, table),
           Top.kind \in {"message", "table"}, NEW f \in AllFields
    PROVE  LET t == ItemTarget(f) IN
           /\ Decodes(t.svs, Noted(f), t.entries, pending, table)
           /\ \E P : Targets(t, Outside(Roots1, frames, entries, table), P, pending, f)
           /\ Len(svs) <= Len(t.svs)
<1> DEFINE t == ItemTarget(f)
           O == Outside(Roots1, frames, entries, table)
           P == IF Top.kind = "table" THEN O \cup {NextSv} ELSE O
           fs == Noted(f)
           es == t.entries
<1>1. /\ svs \in Svq /\ Full(svs) /\ Tree(svs, O) /\ pending \in Seq(QueueRec)
      /\ entries \in Seq(EntryRec) /\ frames \in Seq(FrameRec) /\ FramesOK(frames, Len(svs))
      /\ OnceOrNot(Opens(frames)) /\ OnceOrNot(Values(entries))
      /\ Filled(Opens(frames)) \cap Filled(Values(entries)) = {}
  BY DEF Decodes, Apart
<1>2. Top.sv \in 1..Len(svs) /\ NextSv = Len(svs) + 1 /\ Len(svs) \in Nat
  BY TopIs
<1> HIDE DEF O, P, t
<1>3. /\ Targets(t, O, P, pending, f)
      /\ Top.kind = "table" => es = Append(entries, [field |-> f, value |-> NextSv])
      /\ Top.kind # "table" => es = entries
  BY <1>1, <1>2, ItemTargetIs DEF t, P
<1>4. Full(t.svs) /\ Len(svs) <= Len(t.svs) /\ t.svs \in Svq
  BY <1>1, <1>3, FullStays
<1>5. Made(svs, O, t.svs, P, pending)
  BY <1>3 DEF Targets
<1>6. /\ es \in Seq(EntryRec) /\ OnceOrNot(Values(es))
      /\ Filled(Values(es)) = Filled(Values(entries)) \cup IF Top.kind = "table" THEN {NextSv} ELSE {}
  <2>1. CASE Top.kind = "table"
    BY <1>3, <2>1, EntryMore
  <2>2. CASE Top.kind # "table"
    BY <1>1, <1>3, <2>2
  <2> QED
    BY <2>1, <2>2
<1>7. fs \in Seq(FrameRec) /\ FramesOK(fs, Len(t.svs)) /\ Opens(fs) = Opens(frames)
  <2>1. Len(t.svs) \in Nat
    BY <1>4, HeldIs
  <2> QED
    BY <1>1, <1>2, <1>4, <2>1, NotedIs
<1> HIDE DEF fs, es
<1>8. /\ Filled(Opens(fs)) \subseteq Filled(Opens(frames)) \cup {Len(svs) + 1}
      /\ Filled(Values(es)) \subseteq Filled(Values(entries)) \cup {Len(svs) + 1}
      /\ Filled(Opens(fs)) \cap Filled(Values(es)) = {}
      /\ Outside(Roots1, fs, es, table) \subseteq P
  <2>1. NextSv \notin Filled(Opens(frames))
    BY <1>1, <1>2, OutsideIs DEF O
  <2> QED
    BY <1>1, <1>2, <1>6, <1>7, <2>1 DEF Outside, O, P
<1>9. Decodes(t.svs, fs, es, pending, table)
  BY <1>1, <1>4, <1>5, <1>6, <1>7, <1>8, DecodesOn DEF O
<1> QED
  BY <1>3, <1>4, <1>9 DEF O, t, fs, es

\* A sub-message is looked up or made.
LEMMA SubDecodes ==
    ASSUME Decodes(svs, frames, entries, pending, table), NEW f \in AllFields
    PROVE  LET t == SubTarget(f)
               fs == IF Top.kind = "value"
                     THEN [frames EXCEPT ![Len(frames)].sv = t.sv] ELSE Noted(f)
           IN
           /\ Decodes(t.svs, fs, t.entries, pending, table)
           /\ \E i \in Idx : \E P : Targets(t, Outside(Roots1, frames, entries, table), P, pending, i)
           /\ Len(svs) <= Len(t.svs)
           /\ Len(fs) = Len(frames)
<1> DEFINE t == SubTarget(f)
           O == Outside(Roots1, frames, entries, table)
           P == IF Top.kind \in {"table", "value"} THEN O \cup {NextSv} ELSE O
           fs == IF Top.kind = "value"
                 THEN [frames EXCEPT ![Len(frames)].sv = t.sv] ELSE Noted(f)
           es == t.entries
<1>1. /\ svs \in Svq /\ Full(svs) /\ Tree(svs, O) /\ pending \in Seq(QueueRec)
      /\ entries \in Seq(EntryRec) /\ frames \in Seq(FrameRec) /\ FramesOK(frames, Len(svs))
      /\ OnceOrNot(Opens(frames)) /\ OnceOrNot(Values(entries))
      /\ Filled(Opens(frames)) \cap Filled(Values(entries)) = {}
  BY DEF Decodes, Apart
<1>2. /\ Top.kind # "value" => Top.sv \in 1..Len(svs)
      /\ Top.kind \in {"message", "table", "array", "value"}
      /\ NextSv = Len(svs) + 1 /\ Len(svs) \in Nat /\ NextSv \in Nat
  BY TopIs
<1> HIDE DEF O, P, t
<1>3. /\ \E i \in Idx : Targets(t, O, P, pending, i)
      /\ Top.kind = "table" => es = Append(entries, [field |-> f, value |-> NextSv])
      /\ Top.kind # "table" => es = entries
      /\ Top.kind \in {"table", "value", "array"} => t.sv = NextSv
  BY <1>1, <1>2, SubTargetIs DEF t, P
<1>4. Full(t.svs) /\ Len(svs) <= Len(t.svs) /\ t.svs \in Svq
  BY <1>1, <1>3, FullStays
<1>5. Made(svs, O, t.svs, P, pending) /\ t.sv \in 1..Len(t.svs)
  BY <1>3 DEF Targets
<1>6. /\ es \in Seq(EntryRec) /\ OnceOrNot(Values(es))
      /\ Filled(Values(es)) = Filled(Values(entries)) \cup IF Top.kind = "table" THEN {NextSv} ELSE {}
  <2>1. CASE Top.kind = "table"
    BY <1>3, <2>1, EntryMore
  <2>2. CASE Top.kind # "table"
    BY <1>1, <1>3, <2>2
  <2> QED
    BY <2>1, <2>2
<1>7. NextSv \notin Filled(Opens(frames)) /\ NextSv \notin Filled(Values(entries)) /\ NextSv # NoSv
  BY <1>1, <1>2, OutsideIs DEF O, NoSv
<1>8. Len(t.svs) \in Nat
  BY <1>4, HeldIs
<1>9. /\ fs \in Seq(FrameRec) /\ FramesOK(fs, Len(t.svs)) /\ OnceOrNot(Opens(fs))
      /\ Len(fs) = Len(frames)
      /\ Filled(Opens(fs)) \subseteq
            Filled(Opens(frames)) \cup IF Top.kind = "value" THEN {NextSv} ELSE {}
  <2>1. CASE Top.kind = "value"
    <3>1. fs = [frames EXCEPT ![Len(frames)].sv = NextSv]
      BY <1>3, <2>1
    <3>2. NextSv \in 0..Len(t.svs) /\ Last(frames).kind = "value"
      BY <1>3, <1>5, <1>8, <2>1 DEF Top
    <3> HIDE DEF fs
    <3>3. /\ fs \in Seq(FrameRec) /\ FramesOK(fs, Len(t.svs)) /\ OnceOrNot(Opens(fs))
          /\ Len(fs) = Len(frames)
          /\ Filled(Opens(fs)) =
                (Filled(Opens(frames)) \ {Last(frames).sv}) \cup ({NextSv} \ {NoSv})
      BY <1>1, <1>2, <1>4, <1>7, <1>8, <3>1, <3>2, SetValue
    <3> QED
      BY <2>1, <3>3
  <2>2. CASE Top.kind # "value"
    <3>1. fs = Noted(f)
      BY <2>2
    <3> HIDE DEF fs
    <3>2. fs \in Seq(FrameRec) /\ FramesOK(fs, Len(t.svs)) /\ Opens(fs) = Opens(frames)
          /\ Len(fs) = Len(frames)
      BY <1>1, <1>2, <1>4, <1>8, <3>1, NotedIs
    <3> QED
      BY <1>1, <2>2, <3>2
  <2> QED
    BY <2>1, <2>2
<1> HIDE DEF fs, es
<1>10. /\ Filled(Opens(fs)) \subseteq Filled(Opens(frames)) \cup {Len(svs) + 1}
       /\ Filled(Values(es)) \subseteq Filled(Values(entries)) \cup {Len(svs) + 1}
       /\ Filled(Opens(fs)) \cap Filled(Values(es)) = {}
       /\ Outside(Roots1, fs, es, table) \subseteq P
  BY <1>1, <1>2, <1>6, <1>7, <1>9 DEF Outside, O, P
<1>11. Decodes(t.svs, fs, es, pending, table)
  BY <1>1, <1>4, <1>5, <1>6, <1>9, <1>10, DecodesOn DEF O
<1> QED
  BY <1>3, <1>4, <1>9, <1>11 DEF O, t, fs, es
\* The ghost.
GhostOK(g) == g \in [merged : BOOLEAN, cut : BOOLEAN, lost : BOOLEAN,
                     written : {g.written}, log : {g.log}]

\* A callback keeps the invariant if it keeps what holds while decoding.
LEMMA EventInv ==
    ASSUME Inv, Decoding, Event, Decodes(svs', frames', entries', pending', table'),
           Len(svs) <= Len(svs'), GhostOK(ghost'), ~ghost'.cut
    PROVE  Inv'
<1>1. phase = "decoding" /\ UNCHANGED <<phase, outcome, at, mapped>>
  BY DEF Decoding, Event
<1>2. Decodes(svs, frames, entries, pending, table)'
  OBVIOUS
<1>3. (ghost \in [merged : BOOLEAN, cut : BOOLEAN, lost : BOOLEAN,
                  written : {ghost.written}, log : {ghost.log}])'
  BY DEF GhostOK
<1> QED
  BY <1>1, <1>2, <1>3, DecodesInv

\* The ghost of a call that decodes.
LEMMA GhostDecodes ==
    ASSUME Inv, phase = "decoding"
    PROVE  GhostOK(ghost) /\ ~ghost.cut
BY DEF Inv, Typed, Shape, GhostOK

\* A scalar is stored.
LEMMA ScalarInv ==
    ASSUME Inv, NEW f \in AllFields, OnScalar(f)
    PROVE  Inv'
<1>1. Decodes(svs, frames, entries, pending, table) /\ GhostOK(ghost) /\ ~ghost.cut
  BY InvDecodes, GhostDecodes DEF OnScalar, Decoding
<1>2. Top.kind \in {"message", "table"}
  BY DEF OnScalar, InMessage
<1>3. /\ Decodes(ItemTarget(f).svs, Noted(f), ItemTarget(f).entries, pending, table)
      /\ Len(svs) <= Len(ItemTarget(f).svs)
  BY <1>1, <1>2, ItemDecodes
<1>4. /\ svs' = ItemTarget(f).svs /\ frames' = Noted(f) /\ entries' = ItemTarget(f).entries
      /\ pending' = pending /\ table' = table /\ ghost' = ghost
      /\ Decoding /\ Event
  BY DEF OnScalar
<1>5. Decodes(svs', frames', entries', pending', table') /\ Len(svs) <= Len(svs')
  BY <1>3, <1>4
<1>6. GhostOK(ghost') /\ ~ghost'.cut
  BY <1>1, <1>4
<1> QED
  BY <1>4, <1>5, <1>6, EventInv

\* Only items and mappers change.
LEMMA DecodesFrames ==
    ASSUME NEW s, NEW fs, NEW es, NEW p, NEW tb, Decodes(s, fs, es, p, tb),
           NEW gs \in Seq(FrameRec), FramesOK(gs, Len(s)),
           OnceOrNot(Opens(gs)), Filled(Opens(gs)) = Filled(Opens(fs))
    PROVE  Decodes(s, gs, es, p, tb)
<1> DEFINE O == Outside(Roots1, fs, es, tb)
<1>1. /\ s \in Svq /\ Full(s) /\ p \in Seq(QueueRec) /\ tb \in Seq(EntryRec)
      /\ es \in Seq(EntryRec) /\ QueueOK(p, Len(s), tb)
      /\ Tree(s, O) /\ Counted(s, O, p) /\ Apart(Roots1, fs, es, tb)
  BY DEF Decodes
<1>2. Outside(Roots1, gs, es, tb) = O
  BY DEF Outside
<1>3. Apart(Roots1, gs, es, tb)
  BY <1>1 DEF Apart
<1> QED
  BY <1>1, <1>2, <1>3 DEF Decodes

\* Two elements more.
LEMMA AppendTwo ==
    ASSUME NEW S, NEW s \in Seq(S), NEW x \in S, NEW y \in S
    PROVE  s \o <<x, y>> = Append(Append(s, x), y)
<1>1. Append(s, x) = s \o <<x>> /\ Append(s, x) \in Seq(S)
  BY AppendProperties, AppendIsConcat
<1>2. Append(Append(s, x), y) = Append(s, x) \o <<y>>
  BY <1>1, AppendIsConcat
<1>3. <<x>> \in Seq(S) /\ <<y>> \in Seq(S)
  OBVIOUS
<1>4. <<x>> \o <<y>> = <<x, y>>
  <2> DEFINE a == <<x>>
             b == <<y>>
             c == <<x, y>>
             d == a \o b
  <2>1. a \in Seq(S) /\ b \in Seq(S) /\ Len(a) = 1 /\ Len(b) = 1 /\ a[1] = x /\ b[1] = y
    OBVIOUS
  <2>2. c \in Seq(S) /\ Len(c) = 2 /\ c[1] = x /\ c[2] = y
    OBVIOUS
  <2> HIDE DEF a, b, c
  <2>3. d \in Seq(S) /\ Len(d) = 2 /\ d[1] = x /\ d[2] = y
    BY <2>1, ConcatProperties
  <2> HIDE DEF d
  <2>4. d = c
    <3>1. \A i \in 1..2 : d[i] = c[i]
      BY <2>2, <2>3
    <3> QED
      BY <2>2, <2>3, <3>1, SeqEqual
  <2> QED
    BY <2>4 DEF a, b, c, d
<1>5. (s \o <<x>>) \o <<y>> = s \o (<<x>> \o <<y>>)
  BY <1>3, ConcatAssociative
<1> QED
  BY <1>1, <1>2, <1>4, <1>5

\* An array or a map is opened.
LEMMA StartManyInv ==
    ASSUME Inv, NEW f \in AllFields, OnStartMany(f)
    PROVE  Inv'
<1> DEFINE t == ItemTarget(f)
           fs == Noted(f)
           array == Frame("array", t.sv, Top.type, f)
           map == Frame("map", t.sv, Top.type, f)
           value == Frame("value", NoSv, Top.type, f)
<1>1. Decodes(svs, frames, entries, pending, table) /\ GhostOK(ghost) /\ ~ghost.cut
  BY InvDecodes, GhostDecodes DEF OnStartMany, Decoding
<1>2. Top.kind \in {"message", "table"}
  BY DEF OnStartMany, InMessage
<1>3. /\ Decodes(t.svs, fs, t.entries, pending, table) /\ Len(svs) <= Len(t.svs)
      /\ \E P : Targets(t, Outside(Roots1, frames, entries, table), P, pending, f)
  BY <1>1, <1>2, ItemDecodes
<1>4. /\ svs' = t.svs /\ entries' = t.entries
      /\ frames' = fs \o IF Fields[Top.type][f].label = "list" THEN <<array>> ELSE <<map, value>>
      /\ pending' = pending /\ table' = table /\ ghost' = ghost
      /\ Decoding /\ Event
  BY DEF OnStartMany
<1>5. Top.type \in Types
  BY <1>1, TopIs DEF FrameRec
<1> HIDE DEF t, fs
<1>6. t.sv \in 1..Len(t.svs)
  BY <1>3 DEF Targets
<1>7. /\ t.svs \in Svq /\ fs \in Seq(FrameRec) /\ FramesOK(fs, Len(t.svs)) /\ OnceOrNot(Opens(fs))
  BY <1>3 DEF Decodes, Apart
<1>8. Len(t.svs) \in Nat
  BY <1>7, HeldIs
<1>9. t.sv \in Nat /\ NoSv \in Nat /\ 0 \in Nat /\ <<>> \in Seq(AllFields)
  BY <1>6, <1>8 DEF NoSv
<1>10. /\ array \in FrameRec /\ array.kind = "array" /\ array.sv = t.sv
       /\ map \in FrameRec /\ map.kind = "map" /\ map.sv = t.sv
       /\ value \in FrameRec /\ value.kind = "value" /\ value.sv = NoSv
  <2>1. f \in DOMAIN Fields[Top.type]
    BY DEF OnStartMany, InMessage
  <2> DEFINE T == Top.type
  <2>2. \A kind \in {"array", "map", "value"}, n \in Nat : 
            LET r == Frame(kind, n, T, f) IN r \in FrameRec /\ r.kind = kind /\ r.sv = n
    <3> HIDE DEF T
    <3> SUFFICES ASSUME NEW kind \in {"array", "map", "value"}, NEW n \in Nat
                 PROVE  LET r == Frame(kind, n, T, f) IN r \in FrameRec /\ r.kind = kind /\ r.sv = n
      OBVIOUS
    <3>1. T \in Types /\ f \in DOMAIN Fields[T]
      BY <1>5, <2>1 DEF T
    <3> QED
      BY <1>9, <3>1 DEF Frame, FrameRec
  <2> QED
    BY <1>9, <2>2
<1> HIDE DEF array, map, value
<1>11. CASE frames' = fs \o <<array>>
  <2> DEFINE gs == Append(fs, array)
  <2>1. frames' = gs
    BY <1>7, <1>10, <1>11, AppendIsConcat
  <2>2. gs \in Seq(FrameRec) /\ FramesOK(gs, Len(t.svs)) /\ Opens(gs) = Opens(fs)
    BY <1>6, <1>7, <1>8, <1>10, PushFrame
  <2> HIDE DEF gs
  <2>3. Decodes(t.svs, gs, t.entries, pending, table)
    BY <1>3, <1>7, <2>2, DecodesFrames
  <2>4. Decodes(svs', frames', entries', pending', table') /\ Len(svs) <= Len(svs')
    BY <1>3, <1>4, <2>1, <2>3
  <2>5. GhostOK(ghost') /\ ~ghost'.cut
    BY <1>1, <1>4
  <2> QED
    BY <1>4, <2>4, <2>5, EventInv
<1>12. CASE frames' = fs \o <<map, value>>
  <2> DEFINE gs == Append(Append(fs, map), value)
  <2>1. frames' = gs
    BY <1>7, <1>10, <1>12, AppendTwo
  <2>2. /\ gs \in Seq(FrameRec) /\ FramesOK(gs, Len(t.svs))
        /\ OnceOrNot(Opens(gs)) /\ Filled(Opens(gs)) = Filled(Opens(fs))
    BY <1>6, <1>7, <1>8, <1>10, PushMap
  <2> HIDE DEF gs
  <2>3. Decodes(t.svs, gs, t.entries, pending, table)
    BY <1>3, <2>2, DecodesFrames
  <2>4. Decodes(svs', frames', entries', pending', table') /\ Len(svs) <= Len(svs')
    BY <1>3, <1>4, <2>1, <2>3
  <2>5. GhostOK(ghost') /\ ~ghost'.cut
    BY <1>1, <1>4
  <2> QED
    BY <1>4, <2>4, <2>5, EventInv
<1> QED
  BY <1>4, <1>11, <1>12

\* An array or a map is closed.
LEMMA EndManyInv ==
    ASSUME Inv, OnEndMany
    PROVE  Inv'
<1>1. Decodes(svs, frames, entries, pending, table) /\ GhostOK(ghost) /\ ~ghost.cut
  BY InvDecodes, GhostDecodes DEF OnEndMany, Decoding
<1>2. /\ UNCHANGED <<svs, entries, pending, table, ghost>> /\ Decoding /\ Event
      /\ \/ Top.kind = "array" /\ frames' = Front(frames)
         \/ Top.kind = "value" /\ Top.sv = NoSv /\ frames' = Front(Front(frames))
  BY DEF OnEndMany
<1>3. /\ svs \in Svq /\ frames \in Seq(FrameRec) /\ FramesOK(frames, Len(svs))
      /\ OnceOrNot(Opens(frames)) /\ Len(svs) \in Nat
  BY <1>1, HeldIs DEF Decodes, Apart
<1>4. /\ frames' \in Seq(FrameRec) /\ FramesOK(frames', Len(svs))
      /\ OnceOrNot(Opens(frames')) /\ Filled(Opens(frames')) = Filled(Opens(frames))
  <2>1. CASE Top.kind = "array" /\ frames' = Front(frames)
    <3>1. Len(frames) > 1
      <4>1. frames[1].kind # "array" /\ Top = frames[Len(frames)] /\ Len(frames) \in Nat
            /\ Len(frames) > 0
        BY <1>1, <1>3, TopIs DEF FramesOK
      <4> QED
        BY <2>1, <4>1
    <3>2. /\ Front(frames) \in Seq(FrameRec) /\ FramesOK(Front(frames), Len(svs))
          /\ Opens(Front(frames)) = Opens(frames)
      BY <1>3, <2>1, <3>1, PopFrame DEF Top
    <3> QED
      BY <1>3, <2>1, <3>2
  <2>2. CASE Top.kind = "value" /\ Top.sv = NoSv /\ frames' = Front(Front(frames))
    BY <1>3, <2>2, PopMap DEF Top
  <2> QED
    BY <1>2, <2>1, <2>2
<1>5. Decodes(svs, frames', entries, pending, table)
  BY <1>1, <1>4, DecodesFrames
<1>6. Decodes(svs', frames', entries', pending', table') /\ Len(svs) <= Len(svs')
  BY <1>2, <1>3, <1>5
<1>7. GhostOK(ghost') /\ ~ghost'.cut
  BY <1>1, <1>2
<1> QED
  BY <1>2, <1>6, <1>7, EventInv

\* The value of a map entry moves into the map.
LEMMA EndMapEntryInv ==
    ASSUME Inv, NEW key \in Keys \cup {NoKey}, OnEndMapEntry(key)
    PROVE  Inv'
<1> DEFINE L == Len(frames)
           v == Top.sv
           fs == [frames EXCEPT ![L].sv = NoSv]
           O == Outside(Roots1, frames, entries, table)
           N == Len(svs)
<1>1. Decodes(svs, frames, entries, pending, table) /\ GhostOK(ghost) /\ ~ghost.cut
  BY InvDecodes, GhostDecodes DEF OnEndMapEntry, Decoding
<1>2. /\ Decoding /\ Event /\ frames' = fs
      /\ entries' = entries /\ pending' = pending /\ table' = table
      /\ ghost' = [ghost EXCEPT !.lost = @ \/ key = NoKey]
      /\ Top.kind = "value" /\ v # NoSv
  BY DEF OnEndMapEntry
<1>3. /\ svs \in Svq /\ Full(svs) /\ frames \in Seq(FrameRec) /\ FramesOK(frames, N)
      /\ entries \in Seq(EntryRec) /\ pending \in Seq(QueueRec)
      /\ Apart(Roots1, frames, entries, table) /\ Tree(svs, O) /\ N \in Nat
  BY <1>1, HeldIs DEF Decodes
<1>4. /\ L \in Nat /\ L \in 1..L /\ DOMAIN frames = 1..L /\ Top = frames[L]
      /\ v \in 0..N
  BY <1>1, TopIs
<1>5. L > 1 /\ L - 1 \in 1..L /\ frames[L - 1].kind = "map"
  <2> HIDE DEF L
  <2>1. L \in DOMAIN frames /\ frames[L].kind = "value"
    BY <1>2, <1>4
  <2>2. L > 1 /\ frames[L - 1].kind = "map"
    BY <1>3, <2>1 DEF FramesOK
  <2> QED
    BY <1>4, <2>2
<1>6. frames[L - 1].sv \in 1..N
  <2>1. frames[L - 1].sv \in 0..N /\ frames[L - 1].sv # NoSv
    BY <1>3, <1>4, <1>5 DEF FramesOK
  <2> QED
    BY <1>3, <2>1 DEF NoSv
<1>7. v \in Filled(Opens(frames)) /\ v \in O
  <2>1. L \in DOMAIN Opens(frames) /\ Opens(frames)[L] = v
    BY <1>2, <1>4 DEF Opens
  <2> QED
    BY <1>2, <2>1 DEF Filled, Outside
<1>8. /\ fs \in Seq(FrameRec) /\ FramesOK(fs, N) /\ OnceOrNot(Opens(fs))
      /\ Filled(Opens(fs)) = Filled(Opens(frames)) \ {v}
  <2>1. Last(frames) = Top /\ OnceOrNot(Opens(frames))
    BY <1>3 DEF Top, Apart
  <2>2. NoSv \in 0..N /\ NoSv \notin Filled(Opens(frames)) /\ N <= N
    BY <1>3 DEF NoSv, Filled
  <2>3. /\ fs \in Seq(FrameRec) /\ FramesOK(fs, N) /\ OnceOrNot(Opens(fs))
        /\ Filled(Opens(fs)) = (Filled(Opens(frames)) \ {Last(frames).sv}) \cup ({NoSv} \ {NoSv})
    <3>1. Last(frames).kind = "value"
      BY <1>2, <2>1
    <3> HIDE DEF N, O, v
    <3> QED
      BY <1>3, <2>1, <2>2, <3>1, SetValue
  <2> QED
    BY <2>1, <2>3
<1> HIDE DEF L, v, fs, O, N
<1>9. /\ Made(svs, O, svs', O \ {v}, pending) \/ Made(svs, O, svs', O, pending)
      /\ Full(svs') /\ Len(svs') = N
  <2>1. CASE key = NoKey
    <3>1. svs' = svs
      BY <2>1 DEF OnEndMapEntry
    <3> QED
      BY <1>3, <3>1, MadeNone DEF N
  <2>2. CASE key # NoKey
    <3> DEFINE h == frames[L - 1].sv
               old == IF key \in DOMAIN svs[h].slots THEN <<svs[h].slots[key]>> ELSE <<>>
               r == Release(Put(svs, h, key, v), old)
    <3>1. svs' = r
      BY <2>2 DEF OnEndMapEntry, L, v
    <3>2. key \in Idx
      BY DEF Idx, NoKey
    <3>3. Moves(svs, O, r, O \ {v}) /\ Adds(svs, r, h, key, v)
      BY <1>3, <1>6, <1>7, <3>2, MovedIn DEF N
    <3> HIDE DEF r, h
    <3>4. Made(svs, O, r, O \ {v}, pending)
      BY <1>3, <3>3, MadeMoved
    <3>5. r \in Svq /\ Len(r) = N /\ DOMAIN r = 1..N /\ DOMAIN svs = 1..N
      BY <1>3, <3>3, HeldIs DEF Moves, SameLen, N
    <3>6. Full(r)
      BY <1>2, <1>3, <3>3, <3>5 DEF Full, Adds
    <3> QED
      BY <3>1, <3>4, <3>5, <3>6
  <2> QED
    BY <2>1, <2>2
<1>10. PICK P : Made(svs, O, svs', P, pending) /\ O \ {v} \subseteq P
  BY <1>9
<1>11. Decodes(svs', fs, entries, pending, table)
  <2>1. FramesOK(fs, Len(svs')) /\ OnceOrNot(Values(entries))
    BY <1>3, <1>8, <1>9 DEF Apart
  <2>2. /\ Filled(Opens(fs)) \subseteq Filled(Opens(frames)) \cup {Len(svs) + 1}
        /\ Filled(Values(entries)) \subseteq Filled(Values(entries)) \cup {Len(svs) + 1}
        /\ Filled(Opens(fs)) \cap Filled(Values(entries)) = {}
    BY <1>3, <1>8 DEF Apart
  <2>3. Outside(Roots1, fs, entries, table) \subseteq P
    <3>1. v \notin Roots1 \cup Filled(Values(entries)) \cup Filled(Values(table))
      BY <1>3, <1>7 DEF Apart
    <3>2. Outside(Roots1, fs, entries, table) \subseteq O \ {v}
      BY <1>8, <3>1 DEF Outside, O
    <3> QED
      BY <1>10, <3>2
  <2>4. Made(svs, Outside(Roots1, frames, entries, table), svs', P, pending) /\ Full(svs')
    BY <1>9, <1>10 DEF O
  <2> QED
    BY <1>1, <1>3, <1>8, <2>1, <2>2, <2>3, <2>4, DecodesOn
<1>12. Decodes(svs', frames', entries', pending', table') /\ Len(svs) <= Len(svs')
  BY <1>2, <1>3, <1>9, <1>11 DEF N
<1>13. GhostOK(ghost') /\ ~ghost'.cut
  BY <1>1, <1>2 DEF GhostOK
<1> QED
  BY <1>2, <1>12, <1>13, EventInv

\* Only fieldtable_entries changes.
LEMMA DecodesEntries ==
    ASSUME NEW s, NEW fs, NEW es, NEW p, NEW tb, Decodes(s, fs, es, p, tb),
           NEW es2 \in Seq(EntryRec), OnceOrNot(Values(es2)),
           Filled(Values(es2)) = Filled(Values(es))
    PROVE  Decodes(s, fs, es2, p, tb)
<1> DEFINE O == Outside(Roots1, fs, es, tb)
<1>1. /\ s \in Svq /\ Full(s) /\ fs \in Seq(FrameRec) /\ FramesOK(fs, Len(s))
      /\ p \in Seq(QueueRec) /\ tb \in Seq(EntryRec) /\ QueueOK(p, Len(s), tb)
      /\ Tree(s, O) /\ Counted(s, O, p) /\ Apart(Roots1, fs, es, tb)
  BY DEF Decodes
<1>2. Outside(Roots1, fs, es2, tb) = O
  BY DEF Outside
<1>3. Apart(Roots1, fs, es2, tb)
  BY <1>1 DEF Apart
<1> QED
  BY <1>1, <1>2, <1>3 DEF Decodes

\* A message is one of the types, whatever opens it.
LEMMA SubFieldIs ==
    ASSUME Decodes(svs, frames, entries, pending, table), NEW f \in SubFields,
           Fields[Top.type][f].type # Scalar
    PROVE  LET field == Fields[Top.type][f] IN
           /\ f \in DOMAIN Fields[Top.type] /\ Top.type \in Types
           /\ field.type \in Types /\ field.own \in {"none", "plain", "table"}
           /\ Kind[field.type] \in {"none", "plain", "table", "bare"}
<1>1. Top \in FrameRec /\ Top.kind \in {"message", "table", "array", "value"}
  BY TopIs
<1>2. Top.type \in Types
  BY <1>1 DEF FrameRec
<1>3. f \in DOMAIN Fields[Top.type]
  <2>1. CASE Top.kind \in {"message", "table"}
    BY <2>1 DEF SubFields, InMessage
  <2>2. CASE Top.kind \in {"array", "value"}
    <3>1. f = Top.field
      BY <2>2 DEF SubFields
    <3>2. Top.field \in DOMAIN Fields[Top.type]
      BY <1>1, <2>2 DEF FrameRec
    <3> QED
      BY <3>1, <3>2
  <2> QED
    BY <1>1, <2>1, <2>2
<1>4. /\ Fields[Top.type][f].type \in Types
      /\ Fields[Top.type][f].own \in {"none", "plain", "table"}
  BY <1>2, <1>3, FieldsAssumption
<1> QED
  BY <1>2, <1>3, <1>4, KindAssumption

\* The container of a message.
OpenedAs(t, n, f, es, r) ==
    /\ r \in FrameRec /\ r.kind = (IF IsTable(t) THEN "table" ELSE "message")
    /\ r.sv = n /\ r.type = t /\ r.field = f /\ r.own = <<>>
    /\ r.base = IF IsTable(t) THEN Len(es) + 1 ELSE 0

\* It has the type of the message, and is above its marker if it is a table.
LEMMA OpenedIs ==
    ASSUME NEW t \in Types, NEW n \in Nat, NEW f \in AllFields \cup {NoField},
           NEW es \in Seq(EntryRec)
    PROVE  OpenedAs(t, n, f, es, Opened(t, n, f, es))
<1>1. Len(es) + 1 \in Nat /\ 0 \in Nat /\ <<>> \in Seq(AllFields)
  BY SeqIs
<1> QED
  BY <1>1 DEF Opened, OpenedAs, Frame, FrameRec

\* Its marker.
Marked(t, index, es, fs) ==
    /\ fs \in Seq(EntryRec) /\ OnceOrNot(Values(fs)) /\ Filled(Values(fs)) = Filled(Values(es))
    /\ IsTable(t) => fs = Append(es, [field |-> index, value |-> NoSv])
    /\ ~IsTable(t) => fs = es

\* It holds no value.
LEMMA MarkerIs ==
    ASSUME NEW t, NEW q, Len(q) \in Nat, NEW es \in Seq(EntryRec), OnceOrNot(Values(es))
    PROVE  Marked(t, Len(q), es, es \o Marker(t, q))
<1> DEFINE m == [field |-> Len(q), value |-> NoSv]
           fs == es \o Marker(t, q)
<1>1. m \in EntryRec /\ m.value = NoSv
  BY DEF EntryRec, NoSv
<1> HIDE DEF m
<1>2. CASE IsTable(t)
  <2>1. fs = Append(es, m)
    BY <1>1, <1>2, AppendIsConcat DEF Marker, m
  <2>2. NoSv \notin Filled(Values(es))
    BY DEF Filled
  <2>3. /\ Append(es, m) \in Seq(EntryRec) /\ OnceOrNot(Values(Append(es, m)))
        /\ Filled(Values(Append(es, m))) = Filled(Values(es)) \cup ({m.value} \ {NoSv})
    BY <1>1, <2>2, ValuesMore
  <2>4. {m.value} \ {NoSv} = {}
    BY <1>1
  <2> QED
    BY <1>2, <2>1, <2>3, <2>4 DEF m, Marked
<1>3. CASE ~IsTable(t)
  <2>1. fs = es
    BY <1>3, ConcatEmptySeq DEF Marker
  <2> QED
    BY <1>3, <2>1 DEF Marked
<1> QED
  BY <1>2, <1>3

\* A sub-message is opened.
LEMMA StartSubInv ==
    ASSUME Inv, NEW f \in AllFields, OnStartSub(f)
    PROVE  Inv'
<1> DEFINE field == Fields[Top.type][f]
           type == field.type
           t == SubTarget(f)
           q == Queued(t.sv, Kind[type], field.own)
           fs == IF Top.kind = "value"
                 THEN [frames EXCEPT ![Len(frames)].sv = t.sv] ELSE Noted(f)
           o == Opened(type, t.sv, f, t.entries)
           p == pending \o q
           es == t.entries \o Marker(type, p)
<1>1. Decodes(svs, frames, entries, pending, table) /\ GhostOK(ghost) /\ ~ghost.cut
  BY InvDecodes, GhostDecodes DEF OnStartSub, Decoding
<1>2. /\ Decoding /\ Event /\ f \in SubFields /\ type # Scalar
      /\ svs' = IncQueued(t.svs, q) /\ pending' = p /\ table' = table
      /\ IsTable(type) => Len(pending') > 0
      /\ entries' = t.entries \o Marker(type, pending')
      /\ frames' = Append(fs, o)
      /\ ghost' = [ghost EXCEPT !.merged = @ \/ t.sv # NextSv,
                                !.lost = @ \/ (Top.kind = "value" /\ Top.sv # NoSv)]
  BY DEF OnStartSub
<1>3. /\ type \in Types /\ field.own \in {"none", "plain", "table"}
      /\ Kind[type] \in {"none", "plain", "table", "bare"}
  BY <1>1, <1>2, SubFieldIs
<1>4. /\ Decodes(t.svs, fs, t.entries, pending, table) /\ Len(svs) <= Len(t.svs)
      /\ \E i \in Idx : \E P : Targets(t, Outside(Roots1, frames, entries, table), P, pending, i)
  BY <1>1, SubDecodes
<1> HIDE DEF t, fs
<1>5. t.sv \in 1..Len(t.svs) /\ t.svs \in Svq
  BY <1>4 DEF Targets, Decodes
<1>6. Len(t.svs) \in Nat /\ t.sv \in Nat
  BY <1>5, HeldIs
<1>7. NewOf(q, t.sv)
  BY <1>3, <1>6, QueuedIs
<1> HIDE DEF q
<1>8. Decodes(IncQueued(t.svs, q), fs, t.entries, p, table) /\ Len(IncQueued(t.svs, q)) = Len(t.svs)
  BY <1>4, <1>5, <1>7, DecodesQueued
<1>9. /\ p \in Seq(QueueRec) /\ t.entries \in Seq(EntryRec) /\ OnceOrNot(Values(t.entries))
      /\ fs \in Seq(FrameRec) /\ FramesOK(fs, Len(t.svs)) /\ OnceOrNot(Opens(fs))
  BY <1>8 DEF Decodes, Apart
<1>10. /\ es \in Seq(EntryRec) /\ OnceOrNot(Values(es))
       /\ Filled(Values(es)) = Filled(Values(t.entries))
  <2>1. Len(p) \in Nat
    BY <1>9, SeqIs
  <2> DEFINE below == t.entries
  <2>2. below \in Seq(EntryRec) /\ OnceOrNot(Values(below)) /\ es = below \o Marker(type, p)
    BY <1>9
  <2> HIDE DEF p, type, below, es
  <2>3. Marked(type, Len(p), below, below \o Marker(type, p))
    BY <2>1, <2>2, MarkerIs
  <2> QED
    BY <2>2, <2>3 DEF below, Marked
<1>11. /\ o \in FrameRec /\ o.kind \in {"message", "table", "array"} /\ o.sv = t.sv
  BY <1>3, <1>6, <1>9, OpenedIs DEF OpenedAs
<1> HIDE DEF p, o
<1>12. Append(fs, o) \in Seq(FrameRec) /\ FramesOK(Append(fs, o), Len(t.svs))
       /\ Opens(Append(fs, o)) = Opens(fs)
  BY <1>5, <1>6, <1>9, <1>11, PushFrame
<1> HIDE DEF es
<1>13. Decodes(IncQueued(t.svs, q), fs, es, p, table)
  BY <1>8, <1>10, DecodesEntries
<1>14. Decodes(IncQueued(t.svs, q), Append(fs, o), es, p, table)
  BY <1>8, <1>9, <1>12, <1>13, DecodesFrames
<1>15. Decodes(svs', frames', entries', pending', table') /\ Len(svs) <= Len(svs')
  BY <1>2, <1>4, <1>8, <1>14 DEF es
<1>16. GhostOK(ghost') /\ ~ghost'.cut
  BY <1>1, <1>2 DEF GhostOK
<1> QED
  BY <1>2, <1>15, <1>16, EventInv

------------------------------------------------------------------------------
(* finish_add_transform_fieldtable.                                               *)

\* Among numbers there is a least,
LEMMA LeastOf ==
    ASSUME NEW S \in SUBSET Nat, S # {}
    PROVE  \E n \in S : \A m \in S : n <= m
<1> DEFINE R == {ss \in Nat \X Nat : ss[1] < ss[2]}
<1>1. OpToRel(<, Nat) = R
  BY DEF OpToRel
<1>2. IsWellFoundedOn(R, Nat)
  BY <1>1, NatLessThanWellFounded
<1>3. PICK n \in S : \A m \in S : ~(<<m, n>> \in R)
  <2> HIDE DEF R
  <2> QED
    BY <1>2, WFMin
<1>4. \A m \in S : <<m, n>> \in Nat \X Nat /\ ~(m < n)
  BY <1>3
<1>5. ASSUME NEW m \in S PROVE n <= m
  <2>1. m \in Nat /\ n \in Nat
    OBVIOUS
  <2>2. ~(m < n)
    BY <1>4
  <2> QED
    BY <2>1, <2>2
<1> QED
  BY <1>5

\* and among those up to L a greatest.
LEMMA GreatestOf ==
    ASSUME NEW L \in Nat, NEW S \in SUBSET (1..L), S # {}
    PROVE  \E n \in S : \A m \in S : m <= n
<1> DEFINE B == {n \in Nat : \A m \in S : m <= n}
<1>1. L \in B
  OBVIOUS
<1>2. PICK n \in B : \A b \in B : n <= b
  BY <1>1, LeastOf
<1>3. n \in S
  <2>1. SUFFICES ASSUME n \notin S PROVE FALSE
    OBVIOUS
  <2>2. PICK m \in S : TRUE
    OBVIOUS
  <2>3. m \in 1..L /\ m <= n /\ n \in Nat
    BY <1>2
  <2>4. n - 1 \in Nat
    BY <2>3
  <2>5. \A k \in S : k <= n - 1
    BY <1>2, <2>1, <2>3
  <2> QED
    BY <1>2, <2>3, <2>4, <2>5
<1> QED
  BY <1>2, <1>3

\* The innermost marker is the last one.
LEMMA InnermostIs ==
    ASSUME entries \in Seq(EntryRec), Markers # {}
    PROVE  /\ Innermost \in 1..Len(entries) /\ Innermost \in Markers
           /\ entries[Innermost].value = NoSv
           /\ \A i \in 1..Len(entries) : i > Innermost => entries[i].value # NoSv
           /\ Len(entries) \in Nat /\ Innermost \in Nat
<1>1. Len(entries) \in Nat /\ DOMAIN entries = 1..Len(entries)
  BY ValuesIs
<1>2. Markers \subseteq 1..Len(entries)
  BY <1>1 DEF Markers
<1>3. \E n \in Markers : \A m \in Markers : m <= n
  BY <1>1, <1>2, GreatestOf
<1>4. Innermost \in Markers /\ \A m \in Markers : m <= Innermost
  BY <1>3 DEF Innermost
<1>5. ASSUME NEW i \in 1..Len(entries), i > Innermost PROVE entries[i].value # NoSv
  BY <1>1, <1>2, <1>4, <1>5 DEF Markers
<1> QED
  BY <1>1, <1>2, <1>4, <1>5 DEF Markers

\* f is cut at an empty place i, into g and h.
CutAt(f, L, i, g, h) ==
    /\ L \in Nat /\ i \in 1..L /\ DOMAIN f = 1..L /\ f[i] = NoSv
    /\ DOMAIN g = 1..(i - 1) /\ \A j \in 1..(i - 1) : g[j] = f[j]
    /\ DOMAIN h = 1..(L - i) /\ \A j \in 1..(L - i) : h[j] = f[i + j]
\* Both parts hold what it held, and nothing twice.
LEMMA FilledSplit ==
    ASSUME NEW f, NEW L, NEW i, NEW g, NEW h, OnceOrNot(f), CutAt(f, L, i, g, h)
    PROVE  /\ OnceOrNot(g) /\ OnceOrNot(h) /\ Filled(g) \cap Filled(h) = {}
           /\ Filled(g) \cup Filled(h) = Filled(f)
<1> USE DEF CutAt
<1>1. /\ \A j \in 1..(i - 1) : j \in 1..L /\ j < i
      /\ \A j \in 1..(L - i) : i + j \in 1..L /\ i + j > i
      /\ \A j \in 1..L : j > i => j - i \in 1..(L - i) /\ i + (j - i) = j
      /\ \A j \in 1..L : j < i => j \in 1..(i - 1)
  OBVIOUS
<1>2. \A j, k \in 1..L : f[j] = f[k] /\ f[j] # NoSv => j = k
  BY DEF OnceOrNot
<1>3. OnceOrNot(g)
  <2>1. ASSUME NEW j \in 1..(i - 1), NEW k \in 1..(i - 1), g[j] = g[k], g[j] # NoSv PROVE j = k
    BY <1>1, <1>2, <2>1
  <2> QED
    BY <2>1 DEF OnceOrNot
<1>4. OnceOrNot(h)
  <2>1. ASSUME NEW j \in 1..(L - i), NEW k \in 1..(L - i), h[j] = h[k], h[j] # NoSv PROVE j = k
    <3>1. i + j = i + k
      BY <1>1, <1>2, <2>1
    <3> QED
      BY <3>1
  <2> QED
    BY <2>1 DEF OnceOrNot
<1>5. \A n : n \in Filled(f) <=> n # NoSv /\ \E j \in 1..L : f[j] = n
  BY DEF Filled
<1>6. \A n : n \in Filled(g) <=> n # NoSv /\ \E j \in 1..(i - 1) : g[j] = n
  BY DEF Filled
<1>7. \A n : n \in Filled(h) <=> n # NoSv /\ \E j \in 1..(L - i) : h[j] = n
  BY DEF Filled
<1>8. ASSUME NEW n \in Filled(g), n \in Filled(h) PROVE FALSE
  <2>1. PICK j \in 1..(i - 1) : f[j] = n /\ n # NoSv
    BY <1>6
  <2>2. PICK k \in 1..(L - i) : f[i + k] = n
    BY <1>7, <1>8
  <2>3. j \in 1..L /\ j < i /\ i + k \in 1..L /\ i + k > i
    BY <1>1
  <2> QED
    BY <1>2, <2>1, <2>2, <2>3
<1>9. ASSUME NEW n \in Filled(f) PROVE n \in Filled(g) \cup Filled(h)
  <2>1. PICK j \in 1..L : f[j] = n /\ n # NoSv
    BY <1>5
  <2>2. CASE j < i
    BY <1>1, <1>6, <2>1, <2>2
  <2>3. CASE j > i
    <3>1. j - i \in 1..(L - i) /\ h[j - i] = n
      BY <1>1, <2>1, <2>3
    <3> QED
      BY <1>7, <2>1, <3>1
  <2> QED
    BY <2>1, <2>2, <2>3
<1>10. ASSUME NEW n \in Filled(g) \cup Filled(h) PROVE n \in Filled(f)
  <2>1. CASE n \in Filled(g)
    BY <1>1, <1>5, <1>6, <2>1
  <2>2. CASE n \in Filled(h)
    <3>1. PICK k \in 1..(L - i) : h[k] = n /\ n # NoSv
      BY <1>7, <2>2
    <3>2. i + k \in 1..L /\ f[i + k] = n
      BY <1>1, <3>1
    <3> QED
      BY <1>5, <3>1, <3>2
  <2> QED
    BY <1>10, <2>1, <2>2
<1> QED
  BY <1>3, <1>4, <1>8, <1>9, <1>10

\* f is g and h, one after the other.
Chained(g, K, h, M, f) ==
    /\ K \in Nat /\ DOMAIN g = 1..K /\ M \in Nat /\ DOMAIN h = 1..M
    /\ DOMAIN f = 1..(K + M)
    /\ \A j \in 1..K : f[j] = g[j]
    /\ \A j \in 1..M : f[K + j] = h[j]
\* It holds what they hold.
LEMMA FilledConcat ==
    ASSUME NEW g, NEW K, NEW h, NEW M, NEW f, OnceOrNot(g), OnceOrNot(h),
           Filled(g) \cap Filled(h) = {}, Chained(g, K, h, M, f)
    PROVE  OnceOrNot(f) /\ Filled(f) = Filled(g) \cup Filled(h)
<1> USE DEF Chained
<1>1. \A j \in 1..(K + M) : \/ j \in 1..K /\ f[j] = g[j]
                            \/ j - K \in 1..M /\ f[j] = h[j - K]
  <2>1. ASSUME NEW j \in 1..(K + M), ~(j <= K) PROVE j - K \in 1..M /\ K + (j - K) = j
    BY <2>1
  <2>2. ASSUME NEW j \in 1..(K + M), j <= K PROVE j \in 1..K
    BY <2>2
  <2> QED
    BY <2>1, <2>2
<1>2. \A n : n \in Filled(f) <=> n # NoSv /\ \E j \in 1..(K + M) : f[j] = n
  BY DEF Filled
<1>3. \A n : n \in Filled(g) <=> n # NoSv /\ \E j \in 1..K : g[j] = n
  BY DEF Filled
<1>4. \A n : n \in Filled(h) <=> n # NoSv /\ \E j \in 1..M : h[j] = n
  BY DEF Filled
<1>5. ASSUME NEW j \in 1..K, NEW k \in 1..M, g[j] = h[k] PROVE g[j] = NoSv
  BY <1>3, <1>4, <1>5
<1>6. OnceOrNot(f)
  <2>1. ASSUME NEW j \in 1..(K + M), NEW k \in 1..(K + M), f[j] = f[k], f[j] # NoSv
        PROVE  j = k
    <3>1. CASE j \in 1..K /\ f[j] = g[j] /\ k \in 1..K /\ f[k] = g[k]
      BY <2>1, <3>1 DEF OnceOrNot
    <3>2. CASE j - K \in 1..M /\ f[j] = h[j - K] /\ k - K \in 1..M /\ f[k] = h[k - K]
      <4>1. j - K = k - K
        BY <2>1, <3>2 DEF OnceOrNot
      <4> QED
        BY <4>1
    <3>3. CASE j \in 1..K /\ f[j] = g[j] /\ k - K \in 1..M /\ f[k] = h[k - K]
      BY <1>5, <2>1, <3>3
    <3>4. CASE k \in 1..K /\ f[k] = g[k] /\ j - K \in 1..M /\ f[j] = h[j - K]
      BY <1>5, <2>1, <3>4
    <3> QED
      BY <1>1, <3>1, <3>2, <3>3, <3>4
  <2> QED
    BY <2>1 DEF OnceOrNot
<1>7. ASSUME NEW n \in Filled(f) PROVE n \in Filled(g) \cup Filled(h)
  <2>1. PICK j \in 1..(K + M) : f[j] = n /\ n # NoSv
    BY <1>2
  <2>2. CASE j \in 1..K /\ f[j] = g[j]
    BY <1>3, <2>1, <2>2
  <2>3. CASE j - K \in 1..M /\ f[j] = h[j - K]
    BY <1>4, <2>1, <2>3
  <2> QED
    BY <1>1, <2>2, <2>3
<1>8. ASSUME NEW n \in Filled(g) PROVE n \in Filled(f)
  <2>1. PICK j \in 1..K : g[j] = n /\ n # NoSv
    BY <1>3, <1>8
  <2>2. j \in 1..(K + M) /\ f[j] = n
    BY <2>1
  <2> QED
    BY <1>2, <2>1, <2>2
<1>9. ASSUME NEW n \in Filled(h) PROVE n \in Filled(f)
  <2>1. PICK j \in 1..M : h[j] = n /\ n # NoSv
    BY <1>4, <1>9
  <2>2. K + j \in 1..(K + M) /\ f[K + j] = n
    BY <2>1
  <2> QED
    BY <1>2, <2>1, <2>2
<1> QED
  BY <1>6, <1>7, <1>8, <1>9

\* Entries without the one at i, which has no value.
LEMMA ValuesSplit ==
    ASSUME NEW es \in Seq(EntryRec), OnceOrNot(Values(es)),
           NEW i \in 1..Len(es), es[i].value = NoSv
    PROVE  LET a == SubSeq(es, 1, i - 1)
               b == SubSeq(es, i + 1, Len(es)) IN
           /\ a \in Seq(EntryRec) /\ Len(a) = i - 1 /\ \A j \in 1..Len(a) : a[j] = es[j]
           /\ b \in Seq(EntryRec) /\ Len(b) = Len(es) - i /\ \A j \in 1..Len(b) : b[j] = es[i + j]
           /\ OnceOrNot(Values(a)) /\ OnceOrNot(Values(b))
           /\ Filled(Values(a)) \cap Filled(Values(b)) = {}
           /\ Filled(Values(a)) \cup Filled(Values(b)) = Filled(Values(es))
<1> DEFINE a == SubSeq(es, 1, i - 1)
           b == SubSeq(es, i + 1, Len(es))
           L == Len(es)
<1>1. L \in Nat /\ DOMAIN es = 1..L /\ \A j \in 1..L : es[j] \in EntryRec
  BY ValuesIs
<1>2. a \in Seq(EntryRec) /\ Len(a) = i - 1 /\ \A j \in 1..Len(a) : a[j] = es[j]
  <2>1. \A j \in 1..(i - 1) : es[j] \in EntryRec
    BY <1>1
  <2>2. /\ a \in Seq(EntryRec)
        /\ Len(a) = IF 1 <= i - 1 THEN (i - 1) - 1 + 1 ELSE 0
        /\ \A j \in 1..((i - 1) - 1 + 1) : a[j] = es[1 + j - 1]
    BY <1>1, <2>1, SubSeqProperties
  <2> HIDE DEF a
  <2> QED
    BY <1>1, <2>2
<1>3. b \in Seq(EntryRec) /\ Len(b) = L - i /\ \A j \in 1..Len(b) : b[j] = es[i + j]
  <2>1. \A j \in i + 1..L : es[j] \in EntryRec
    BY <1>1
  <2>2. /\ b \in Seq(EntryRec)
        /\ Len(b) = IF i + 1 <= L THEN L - (i + 1) + 1 ELSE 0
        /\ \A j \in 1..(L - (i + 1) + 1) : b[j] = es[(i + 1) + j - 1]
    BY <1>1, <2>1, SubSeqProperties
  <2> HIDE DEF b
  <2>3. L - (i + 1) + 1 = L - i /\ (~(i + 1 <= L) => L - i = 0)
    <3>1. L \in Nat /\ i \in Nat /\ i <= L
      BY <1>1
    <3> HIDE DEF L
    <3>2. L - (i + 1) + 1 = L - i
      BY <3>1
    <3>3. ~(i + 1 <= L) => L - i = 0
      BY <3>1
    <3> QED
      BY <3>2, <3>3
  <2>4. \A j \in 1..(L - i) : (i + 1) + j - 1 = i + j
    BY <1>1
  <2>6. Len(b) = L - i
    <3>1. CASE i + 1 <= L
      BY <2>2, <2>3, <3>1
    <3>2. CASE ~(i + 1 <= L)
      BY <2>2, <2>3, <3>2
    <3> QED
      BY <3>1, <3>2
  <2>7. ASSUME NEW j \in 1..(L - i) PROVE b[j] = es[i + j]
    <3>1. j \in 1..(L - (i + 1) + 1)
      BY <2>3
    <3>2. b[j] = es[(i + 1) + j - 1]
      BY <2>2, <3>1
    <3> QED
      BY <2>4, <3>2
  <2> HIDE DEF L
  <2> QED
    BY <2>2, <2>6, <2>7
<1> HIDE DEF a, b
<1>4. /\ DOMAIN Values(es) = 1..L /\ \A j \in 1..L : Values(es)[j] = es[j].value
      /\ DOMAIN Values(a) = 1..(i - 1) /\ \A j \in 1..(i - 1) : Values(a)[j] = es[j].value
      /\ DOMAIN Values(b) = 1..(L - i) /\ \A j \in 1..(L - i) : Values(b)[j] = es[i + j].value
  <2>1. DOMAIN Values(es) = 1..L /\ \A j \in 1..L : Values(es)[j] = es[j].value
    BY ValuesIs
  <2>2. DOMAIN Values(a) = 1..(i - 1) /\ \A j \in 1..(i - 1) : Values(a)[j] = es[j].value
    BY <1>2, ValuesIs
  <2>3. DOMAIN Values(b) = 1..(L - i) /\ \A j \in 1..(L - i) : Values(b)[j] = es[i + j].value
    BY <1>3, ValuesIs
  <2> QED
    BY <2>1, <2>2, <2>3
<1>5. /\ OnceOrNot(Values(a)) /\ OnceOrNot(Values(b))
      /\ Filled(Values(a)) \cap Filled(Values(b)) = {}
      /\ Filled(Values(a)) \cup Filled(Values(b)) = Filled(Values(es))
  <2> DEFINE f == Values(es)
             g == Values(a)
             h == Values(b)
  <2>1. /\ DOMAIN f = 1..L /\ OnceOrNot(f) /\ f[i] = NoSv
        /\ DOMAIN g = 1..(i - 1) /\ \A j \in 1..(i - 1) : g[j] = f[j]
        /\ DOMAIN h = 1..(L - i) /\ \A j \in 1..(L - i) : h[j] = f[i + j]
    <3>1. \A j \in 1..(i - 1) : j \in 1..L
      BY <1>1
    <3>2. \A j \in 1..(L - i) : i + j \in 1..L
      BY <1>1
    <3>3. i \in 1..L
      OBVIOUS
    <3>4. /\ DOMAIN f = 1..L /\ OnceOrNot(f) /\ \A j \in 1..L : f[j] = es[j].value
          /\ DOMAIN g = 1..(i - 1) /\ \A j \in 1..(i - 1) : g[j] = es[j].value
          /\ DOMAIN h = 1..(L - i) /\ \A j \in 1..(L - i) : h[j] = es[i + j].value
      BY <1>4
    <3> HIDE DEF L, f, g, h
    <3>5. f[i] = NoSv
      BY <3>3, <3>4
    <3>6. \A j \in 1..(i - 1) : g[j] = f[j]
      BY <3>1, <3>4
    <3>7. \A j \in 1..(L - i) : h[j] = f[i + j]
      BY <3>2, <3>4
    <3> QED
      BY <3>4, <3>5, <3>6, <3>7
  <2> HIDE DEF f, g, h, L
  <2>2. /\ OnceOrNot(g) /\ OnceOrNot(h) /\ Filled(g) \cap Filled(h) = {}
        /\ Filled(g) \cup Filled(h) = Filled(f)
    <3>1. i \in 1..L /\ L \in Nat
      BY <1>1 DEF L
    <3>2. CutAt(f, L, i, g, h)
      BY <2>1, <3>1 DEF CutAt
    <3> QED
      BY <2>1, <3>2, FilledSplit
  <2> QED
    BY <2>2 DEF f, g, h
<1> QED
  BY <1>2, <1>3, <1>5 DEF a, b

\* Entries after others.
LEMMA ValuesConcat ==
    ASSUME NEW a \in Seq(EntryRec), OnceOrNot(Values(a)),
           NEW b \in Seq(EntryRec), OnceOrNot(Values(b)),
           Filled(Values(a)) \cap Filled(Values(b)) = {}
    PROVE  LET c == a \o b IN
           /\ c \in Seq(EntryRec) /\ Len(c) = Len(a) + Len(b)
           /\ \A i \in 1..Len(a) : c[i] = a[i]
           /\ \A i \in 1..Len(b) : c[Len(a) + i] = b[i]
           /\ OnceOrNot(Values(c))
           /\ Filled(Values(c)) = Filled(Values(a)) \cup Filled(Values(b))
<1> DEFINE c == a \o b
           K == Len(a)
           M == Len(b)
<1>1. K \in Nat /\ M \in Nat
  BY SeqIs
<1>2. /\ c \in Seq(EntryRec) /\ Len(c) = K + M
      /\ \A i \in 1..(K + M) : c[i] = IF i <= K THEN a[i] ELSE b[i - K]
  BY ConcatProperties
<1> HIDE DEF c
<1>3. /\ \A i \in 1..K : c[i] = a[i]
      /\ \A i \in 1..M : c[K + i] = b[i]
  BY <1>1, <1>2
<1>4. /\ DOMAIN Values(a) = 1..K /\ \A j \in 1..K : Values(a)[j] = a[j].value
      /\ DOMAIN Values(b) = 1..M /\ \A j \in 1..M : Values(b)[j] = b[j].value
      /\ DOMAIN Values(c) = 1..(K + M) /\ \A j \in 1..(K + M) : Values(c)[j] = c[j].value
  BY <1>2, ValuesIs
<1>5. OnceOrNot(Values(c)) /\ Filled(Values(c)) = Filled(Values(a)) \cup Filled(Values(b))
  <2> DEFINE f == Values(c)
             g == Values(a)
             h == Values(b)
  <2>1. /\ DOMAIN g = 1..K /\ OnceOrNot(g) /\ DOMAIN h = 1..M /\ OnceOrNot(h)
        /\ Filled(g) \cap Filled(h) = {}
        /\ DOMAIN f = 1..(K + M) /\ \A j \in 1..K : f[j] = g[j]
        /\ \A j \in 1..M : f[K + j] = h[j]
    <3>1. /\ \A j \in 1..K : j \in 1..(K + M)
          /\ \A j \in 1..M : K + j \in 1..(K + M)
      BY <1>1
    <3>2. /\ DOMAIN g = 1..K /\ OnceOrNot(g) /\ \A j \in 1..K : g[j] = a[j].value
          /\ DOMAIN h = 1..M /\ OnceOrNot(h) /\ \A j \in 1..M : h[j] = b[j].value
          /\ DOMAIN f = 1..(K + M) /\ \A j \in 1..(K + M) : f[j] = c[j].value
          /\ Filled(g) \cap Filled(h) = {}
      BY <1>4
    <3> HIDE DEF K, M, f, g, h
    <3>3. \A j \in 1..K : f[j] = g[j]
      BY <1>3, <3>1, <3>2
    <3>4. \A j \in 1..M : f[K + j] = h[j]
      BY <1>3, <3>1, <3>2
    <3> QED
      BY <3>2, <3>3, <3>4
  <2> HIDE DEF f, g, h, K, M
  <2>2. OnceOrNot(f) /\ Filled(f) = Filled(g) \cup Filled(h)
    <3>1. Chained(g, K, h, M, f)
      BY <1>1, <2>1 DEF Chained, K, M
    <3> QED
      BY <2>1, <3>1, FilledConcat
  <2> QED
    BY <2>2 DEF f, g, h
<1> QED
  BY <1>2, <1>3, <1>5 DEF c

\* The same targets wait.
LEMMA SameTargets ==
    ASSUME NEW p \in Seq(QueueRec), NEW q \in Seq(QueueRec), Len(q) = Len(p),
           \A i \in 1..Len(p) : q[i].target = p[i].target
    PROVE  \A n : Waiting(q, n) = Waiting(p, n)
<1>1. DOMAIN p = 1..Len(p) /\ DOMAIN q = 1..Len(p)
  BY SeqIs
<1>2. ASSUME NEW n PROVE {i \in DOMAIN q : q[i].target = n} = {i \in DOMAIN p : p[i].target = n}
  BY <1>1
<1> QED
  BY <1>2 DEF Waiting

\* q is p where the transform at x has z entries of fieldtable, from o on.
PartOf(p, x, o, z) == [p EXCEPT ![x].offset = o, ![x].size = z]
Given(p, x, o, z, q) ==
    /\ q \in Seq(QueueRec) /\ Len(q) = Len(p) /\ DOMAIN q = 1..Len(p)
    /\ \A i \in 1..Len(p) :
         /\ q[i].target = p[i].target /\ q[i].by = p[i].by
         /\ i = x => q[i].offset = o /\ q[i].size = z
         /\ i # x => q[i] = p[i]

\* The transform at x gets its part of fieldtable.
LEMMA PartGiven ==
    ASSUME NEW p \in Seq(QueueRec), NEW x, NEW o \in Nat, NEW z \in Nat
    PROVE  Given(p, x, o, z, PartOf(p, x, o, z))
<1> DEFINE a == [p EXCEPT ![x].offset = o]
           q == [a EXCEPT ![x].size = z]
           L == Len(p)
<1>1. L \in Nat /\ DOMAIN p = 1..L /\ \A i \in 1..L : p[i] \in QueueRec
  BY SeqIs
<1>2. PartOf(p, x, o, z) = q
  BY DEF PartOf
<1>3. /\ DOMAIN a = 1..L
      /\ \A i \in 1..L : i # x => a[i] = p[i]
      /\ x \in 1..L => a[x] = [p[x] EXCEPT !.offset = o]
  BY <1>1
<1>4. a = [i \in 1..L |-> a[i]]
  BY <1>1
<1> HIDE DEF a
<1>5. /\ DOMAIN q = 1..L
      /\ \A i \in 1..L : i # x => q[i] = a[i]
      /\ x \in 1..L => q[x] = [a[x] EXCEPT !.size = z]
  BY <1>3
<1>6. q = [i \in 1..L |-> q[i]]
  BY <1>3
<1> HIDE DEF q
<1>7. ASSUME NEW r \in QueueRec
      PROVE  LET r1 == [r EXCEPT !.offset = o] IN
             /\ r1 \in QueueRec /\ r1.target = r.target /\ r1.by = r.by /\ r1.offset = o
  BY DEF QueueRec
<1>8. ASSUME NEW r \in QueueRec
      PROVE  LET r1 == [r EXCEPT !.size = z] IN
             /\ r1 \in QueueRec /\ r1.target = r.target /\ r1.by = r.by
             /\ r1.offset = r.offset /\ r1.size = z
  BY DEF QueueRec
<1>9. ASSUME NEW i \in 1..L
      PROVE  /\ q[i] \in QueueRec /\ q[i].target = p[i].target /\ q[i].by = p[i].by
             /\ i = x => q[i].offset = o /\ q[i].size = z
             /\ i # x => q[i] = p[i]
  <2>1. CASE i = x
    <3>1. /\ a[i] \in QueueRec /\ a[i].target = p[i].target /\ a[i].by = p[i].by
          /\ a[i].offset = o
      <4> DEFINE r == p[i]
                 r1 == [r EXCEPT !.offset = o]
      <4>1. a[i] = r1
        BY <1>3, <2>1
      <4>2. r \in QueueRec
        BY <1>1
      <4> HIDE DEF r
      <4>3. r1 \in QueueRec /\ r1.target = r.target /\ r1.by = r.by /\ r1.offset = o
        BY <1>7, <4>2, Zenon
      <4> HIDE DEF r1
      <4> QED
        BY <4>1, <4>3 DEF r
    <3>2. /\ q[i] \in QueueRec /\ q[i].target = a[i].target /\ q[i].by = a[i].by
          /\ q[i].offset = a[i].offset /\ q[i].size = z
      <4> DEFINE r == a[i]
                 r1 == [r EXCEPT !.size = z]
      <4>1. q[i] = r1
        BY <1>5, <2>1
      <4>2. r \in QueueRec
        BY <3>1
      <4> HIDE DEF r
      <4>3. /\ r1 \in QueueRec /\ r1.target = r.target /\ r1.by = r.by
            /\ r1.offset = r.offset /\ r1.size = z
        BY <1>8, <4>2, Zenon
      <4> HIDE DEF r1
      <4> QED
        BY <4>1, <4>3 DEF r
    <3> QED
      BY <2>1, <3>1, <3>2
  <2>2. CASE i # x
    BY <1>1, <1>3, <1>5, <2>2
  <2> QED
    BY <2>1, <2>2
<1>10. q \in [1..L -> QueueRec]
  BY <1>6, <1>9
<1>11. q \in Seq(QueueRec) /\ Len(q) = L
  BY <1>1, <1>10, IsSeq
<1>12. Given(p, x, o, z, q)
  BY <1>5, <1>9, <1>11 DEF Given
<1> QED
  BY <1>2, <1>12

\* What TableDone leaves.
LEMMA TableDoneIs ==
    ASSUME entries \in Seq(EntryRec), table \in Seq(EntryRec), pending \in Seq(QueueRec),
           OnceOrNot(Values(entries)), OnceOrNot(Values(table)),
           Filled(Values(entries)) \cap Filled(Values(table)) = {}
    PROVE  LET es == TableDone.entries
               tb == TableDone.table
               p == TableDone.pending IN
           /\ es \in Seq(EntryRec) /\ tb \in Seq(EntryRec) /\ p \in Seq(QueueRec)
           /\ OnceOrNot(Values(es)) /\ OnceOrNot(Values(tb))
           /\ Filled(Values(es)) \cap Filled(Values(tb)) = {}
           /\ Filled(Values(es)) \cup Filled(Values(tb))
                = Filled(Values(entries)) \cup Filled(Values(table))
           /\ Len(p) = Len(pending) /\ \A n : Waiting(p, n) = Waiting(pending, n)
           /\ \A N : QueueOK(pending, N, table) => QueueOK(p, N, tb)
<1>1. CASE Markers = {}
  BY <1>1 DEF TableDone, TableLeft
<1>2. CASE Markers # {}
  <2> DEFINE L == Len(entries)
             i == Innermost
             own == Own
             outer == Outer
             x == entries[i].field
             p == PartOf(pending, x, Len(table), Len(own))
             tb == table \o own
  <2>1. TableDone = [entries |-> outer, table |-> tb, pending |-> p]
    BY <1>2 DEF TableDone, TableMoved, PartOf
  <2>2. /\ i \in 1..L /\ entries[i].value = NoSv
    BY <1>2, InnermostIs
  <2>3. outer = SubSeq(entries, 1, i - 1) /\ own = SubSeq(entries, i + 1, L)
    BY DEF Own, Outer
  <2> HIDE DEF i, own, outer, L
  <2>4. /\ outer \in Seq(EntryRec) /\ own \in Seq(EntryRec)
        /\ OnceOrNot(Values(outer)) /\ OnceOrNot(Values(own))
        /\ Filled(Values(outer)) \cap Filled(Values(own)) = {}
        /\ Filled(Values(outer)) \cup Filled(Values(own)) = Filled(Values(entries))
    BY <2>2, <2>3, ValuesSplit DEF L
  <2>5. Filled(Values(table)) \cap Filled(Values(own)) = {}
    BY <2>4
  <2>6. /\ tb \in Seq(EntryRec) /\ Len(tb) = Len(table) + Len(own) /\ OnceOrNot(Values(tb))
        /\ Filled(Values(tb)) = Filled(Values(table)) \cup Filled(Values(own))
    BY <2>4, <2>5, ValuesConcat
  <2>7. Len(table) \in Nat /\ Len(own) \in Nat /\ Len(pending) \in Nat /\ DOMAIN pending = 1..Len(pending)
    BY <2>4, SeqIs
  <2> HIDE DEF x
  <2>8. Given(pending, x, Len(table), Len(own), p) /\ \A n : Waiting(p, n) = Waiting(pending, n)
    <3>1. Given(pending, x, Len(table), Len(own), p)
      BY <2>7, PartGiven
    <3> HIDE DEF p
    <3>2. \A n : Waiting(p, n) = Waiting(pending, n)
      BY <3>1, SameTargets DEF Given
    <3> QED
      BY <3>1, <3>2
  <2> HIDE DEF p, tb
  <2>9. ASSUME NEW N, QueueOK(pending, N, table) PROVE QueueOK(p, N, tb)
    <3>1. DOMAIN p = DOMAIN pending
      BY <2>7, <2>8 DEF Given
    <3>2. ASSUME NEW k \in DOMAIN pending
          PROVE  /\ p[k].target \in 1..N
                 /\ \/ p[k].offset = -1 /\ p[k].size = 0
                    \/ p[k].offset >= 0 /\ p[k].offset + p[k].size <= Len(tb)
      <4>1. /\ pending[k].target \in 1..N
            /\ \/ pending[k].offset = -1 /\ pending[k].size = 0
               \/ pending[k].offset >= 0 /\ pending[k].offset + pending[k].size <= Len(table)
        BY <2>9 DEF QueueOK
      <4>2. pending[k] \in QueueRec
        BY SeqIs
      <4>3. pending[k].offset \in Int /\ pending[k].size \in Nat
        BY <4>2 DEF QueueRec
      <4>4. /\ p[k].target = pending[k].target
            /\ k = x => p[k].offset = Len(table) /\ p[k].size = Len(own)
            /\ k # x => p[k] = pending[k]
        BY <2>7, <2>8 DEF Given
      <4>5. PICK l \in Nat, o \in Nat : l = Len(table) /\ o = Len(own) /\ Len(tb) = l + o
        BY <2>6, <2>7
      <4>6. CASE k = x
        <5>1. p[k].target \in 1..N
          BY <4>1, <4>4
        <5>2. p[k].offset = l /\ p[k].size = o
          BY <4>4, <4>5, <4>6
        <5>3. l >= 0 /\ l + o <= l + o
          BY <4>5
        <5> QED
          BY <4>5, <5>1, <5>2, <5>3
      <4>7. CASE k # x
        <5>1. p[k] = pending[k]
          BY <4>4, <4>7
        <5>2. CASE pending[k].offset = -1 /\ pending[k].size = 0
          BY <4>1, <5>1, <5>2
        <5>3. CASE pending[k].offset >= 0 /\ pending[k].offset + pending[k].size <= Len(table)
          <6>1. PICK a \in Int, b \in Nat : a = pending[k].offset /\ b = pending[k].size
            BY <4>3
          <6>2. a >= 0 /\ a + b <= l + o
            BY <4>5, <5>3, <6>1
          <6> QED
            BY <4>1, <4>5, <5>1, <6>1, <6>2
        <5> QED
          BY <4>1, <5>2, <5>3
      <4> QED
        BY <4>6, <4>7
    <3> QED
      BY <3>1, <3>2 DEF QueueOK
  <2>10. /\ Filled(Values(outer)) \cap Filled(Values(tb)) = {}
         /\ Filled(Values(outer)) \cup Filled(Values(tb))
                = Filled(Values(entries)) \cup Filled(Values(table))
    BY <2>4, <2>6
  <2> QED
    BY <2>1, <2>4, <2>6, <2>8, <2>9, <2>10 DEF Given
<1> QED
  BY <1>1, <1>2

\* Entries that move to fieldtable have the same owner.
LEMMA TableDoneDecodes ==
    ASSUME Decodes(svs, frames, entries, pending, table)
    PROVE  /\ Decodes(svs, frames, TableDone.entries, TableDone.pending, TableDone.table)
           /\ Len(TableDone.pending) = Len(pending)
<1> DEFINE O == Outside(Roots1, frames, entries, table)
           es == TableDone.entries
           tb == TableDone.table
           p == TableDone.pending
<1>1. /\ svs \in Svq /\ Full(svs) /\ frames \in Seq(FrameRec) /\ FramesOK(frames, Len(svs))
      /\ entries \in Seq(EntryRec) /\ pending \in Seq(QueueRec) /\ table \in Seq(EntryRec)
      /\ QueueOK(pending, Len(svs), table) /\ Apart(Roots1, frames, entries, table)
      /\ Tree(svs, O) /\ Counted(svs, O, pending)
  BY DEF Decodes
<1>2. /\ es \in Seq(EntryRec) /\ tb \in Seq(EntryRec) /\ p \in Seq(QueueRec)
      /\ OnceOrNot(Values(es)) /\ OnceOrNot(Values(tb))
      /\ Filled(Values(es)) \cap Filled(Values(tb)) = {}
      /\ Filled(Values(es)) \cup Filled(Values(tb))
           = Filled(Values(entries)) \cup Filled(Values(table))
      /\ Len(p) = Len(pending) /\ \A n : Waiting(p, n) = Waiting(pending, n)
      /\ QueueOK(p, Len(svs), tb)
  BY <1>1, TableDoneIs DEF Apart
<1> HIDE DEF es, tb, p
<1>3. Outside(Roots1, frames, es, tb) = O
  BY <1>2 DEF Outside
<1>4. Apart(Roots1, frames, es, tb)
  BY <1>1, <1>2 DEF Apart
<1>5. Counted(svs, O, p)
  BY <1>1, <1>2 DEF Counted, Slack
<1>6. Decodes(svs, frames, es, p, tb)
  BY <1>1, <1>2, <1>3, <1>4, <1>5 DEF Decodes
<1> QED
  BY <1>2, <1>6 DEF es, tb, p

\* A sub-message is closed.
LEMMA EndSubInv ==
    ASSUME Inv, OnEndSub
    PROVE  Inv'
<1>1. Decodes(svs, frames, entries, pending, table) /\ GhostOK(ghost) /\ ~ghost.cut
  BY InvDecodes, GhostDecodes DEF OnEndSub, Decoding
<1>2. /\ Decoding /\ Event /\ svs' = svs /\ frames' = Front(frames)
      /\ Top.kind \in {"message", "table"} /\ Len(frames) > 1
  BY DEF OnEndSub
<1>3. Decodes(svs, frames, entries', pending', table') /\ GhostOK(ghost') /\ ~ghost'.cut
  <2>1. CASE Top.kind = "table"
    <3>1. /\ entries' = TableDone.entries /\ table' = TableDone.table /\ pending' = TableDone.pending
          /\ ghost' = [ghost EXCEPT !.written = With(@, entries[Innermost].field, Top.own)]
      BY <2>1 DEF OnEndSub
    <3>2. GhostOK(ghost') /\ ~ghost'.cut
      BY <1>1, <3>1 DEF GhostOK
    <3> QED
      BY <1>1, <3>1, <3>2, TableDoneDecodes
  <2>2. CASE Top.kind # "table"
    <3>1. entries' = entries /\ table' = table /\ pending' = pending /\ ghost' = ghost
      BY <2>2 DEF OnEndSub
    <3> QED
      BY <1>1, <3>1
  <2> QED
    BY <2>1, <2>2
<1>4. svs \in Svq /\ frames \in Seq(FrameRec) /\ FramesOK(frames, Len(svs)) /\ OnceOrNot(Opens(frames))
  BY <1>1 DEF Decodes, Apart
<1>5. Len(svs) \in Nat
  BY <1>4, HeldIs
<1>6. /\ Front(frames) \in Seq(FrameRec) /\ FramesOK(Front(frames), Len(svs))
      /\ Opens(Front(frames)) = Opens(frames)
  BY <1>2, <1>4, <1>5, PopFrame DEF Top
<1>7. Decodes(svs, Front(frames), entries', pending', table')
  BY <1>3, <1>4, <1>6, DecodesFrames
<1>8. Decodes(svs', frames', entries', pending', table') /\ Len(svs) <= Len(svs')
  BY <1>2, <1>5, <1>7
<1> QED
  BY <1>2, <1>3, <1>8, EventInv

------------------------------------------------------------------------------
(* prepare, finish, apply_transforms.                                             *)

\* What holds while transforms run, c if a field table was cut off.
RootOf(s) == {n \in 1..Len(s) : n = 1}
Kept(s, tb) == RootOf(s) \cup Filled(Values(tb))
Applies(s, p, tb, c) ==
    /\ s \in Svq /\ p \in Seq(QueueRec) /\ tb \in Seq(EntryRec) /\ QueueOK(p, Len(s), tb)
    /\ OnceOrNot(Values(tb)) /\ RootOf(s) \cap Filled(Values(tb)) = {}
    /\ Tree(s, Kept(s, tb))
    /\ ~c => Counted(s, Kept(s, tb), p)

\* It is what the invariant says of it,
LEMMA InvApplies ==
    ASSUME Inv, phase = "applying"
    PROVE  /\ Applies(svs, pending, table, ghost.cut)
           /\ frames = <<>> /\ entries = <<>> /\ outcome \in {"ok", "failed"}
           /\ at \in 0..Len(pending) /\ mapped \subseteq 1..Len(svs) /\ GhostOK(ghost)
<1>1. frames = <<>> /\ entries = <<>> /\ outcome \in {"ok", "failed"}
  BY DEF Inv, Shape
<1>2. RootIs = RootOf(svs)
  BY DEF RootIs, RootOf
<1>3. Owned = Kept(svs, table)
  BY <1>1, <1>2, FillNone DEF Owned, Outside, Kept
<1>4. OnceOrNot(Values(table)) /\ RootOf(svs) \cap Filled(Values(table)) = {}
  BY <1>2 DEF Inv, Apart
<1>5. /\ svs \in Svq /\ pending \in Seq(QueueRec) /\ table \in Seq(EntryRec)
      /\ QueueOK(pending, Len(svs), table) /\ Tree(svs, Owned)
      /\ ~ghost.cut => Counted(svs, Owned, pending)
  BY DEF Inv, Typed, Shape
<1>6. at \in 0..Len(pending) /\ mapped \subseteq 1..Len(svs) /\ GhostOK(ghost)
  BY DEF Inv, Typed, GhostOK
<1> QED
  BY <1>1, <1>3, <1>4, <1>5, <1>6 DEF Applies

\* and what has to be kept.
LEMMA AppliesInv ==
    ASSUME phase' = "applying", frames' = <<>>, entries' = <<>>, outcome' \in {"ok", "failed"},
           at' \in 0..Len(pending'), mapped' \subseteq 1..Len(svs'), GhostOK(ghost'),
           Applies(svs', pending', table', ghost'.cut)
    PROVE  Inv'
<1>1. RootIs' = RootOf(svs')
  BY DEF RootIs, RootOf
<1>2. Owned' = Kept(svs', table')
  BY <1>1, FillNone DEF Owned, Outside, Kept
<1>3. Apart(RootIs, frames, entries, table)'
  <2>1. OnceOrNot(Values(table')) /\ RootOf(svs') \cap Filled(Values(table')) = {}
    BY DEF Applies
  <2> QED
    BY <1>1, <2>1, FillNone DEF Apart
<1>4. Typed'
  <2>1. frames' \in Seq(FrameRec) /\ entries' \in Seq(EntryRec)
    OBVIOUS
  <2>2. svs' \in Svq /\ pending' \in Seq(QueueRec) /\ table' \in Seq(EntryRec)
    BY DEF Applies
  <2> QED
    BY <2>1, <2>2 DEF Typed, GhostOK
<1>5. Shape'
  BY DEF Shape, Applies
<1> QED
  BY <1>2, <1>3, <1>4, <1>5 DEF Inv, Applies

\* The queue of a call that decodes is left to apply_transforms.
LEMMA FinishInv ==
    ASSUME Inv, NEW result \in {"ok", "failed"}, Finish(result)
    PROVE  Inv'
<1> DEFINE done == IF frames[1].kind = "table" THEN TableDone ELSE TableLeft
           es == done.entries
           p == done.pending
           tb == done.table
           N == Len(svs)
           F == Filled(Opens(frames))
           G == Filled(Values(es))
           O == Outside(Roots1, frames, es, tb)
           ids == [i \in Unowned |-> frames[i].sv]
           a == Dec(svs, ids)
           r == Release(a, Values(es))
           cut == \E i \in 2..Len(frames) : frames[i].kind = "table"
<1>1. /\ Decodes(svs, frames, entries, pending, table) /\ GhostOK(ghost) /\ phase = "decoding"
  BY InvDecodes, GhostDecodes DEF Finish
<1>2. /\ svs' = r /\ table' = tb /\ pending' = p /\ entries' = <<>> /\ frames' = <<>>
      /\ phase' = "applying" /\ outcome' = result /\ at' = Len(pending) /\ mapped' = {}
      /\ ghost' = [ghost EXCEPT
                !.written = IF frames[1].kind = "table" THEN With(@, 1, frames[1].own) ELSE @,
                !.cut = cut]
  BY DEF Finish, Cleared
<1>3. Decodes(svs, frames, es, p, tb) /\ Len(p) = Len(pending)
  <2>1. CASE frames[1].kind = "table"
    BY <1>1, <2>1, TableDoneDecodes
  <2>2. CASE frames[1].kind # "table"
    BY <1>1, <2>2 DEF TableLeft
  <2> QED
    BY <2>1, <2>2
<1> HIDE DEF done, es, p, tb, O
<1>4. /\ svs \in Svq /\ frames \in Seq(FrameRec) /\ FramesOK(frames, N)
      /\ es \in Seq(EntryRec) /\ p \in Seq(QueueRec) /\ tb \in Seq(EntryRec)
      /\ QueueOK(p, N, tb) /\ Apart(Roots1, frames, es, tb)
      /\ Tree(svs, O) /\ Counted(svs, O, p)
  BY <1>3 DEF Decodes, O
<1>5. /\ Len(frames) \in Nat /\ DOMAIN frames = 1..Len(frames)
      /\ DOMAIN Opens(frames) = {i \in 1..Len(frames) : frames[i].kind = "value"}
      /\ \A i \in DOMAIN Opens(frames) : Opens(frames)[i] = frames[i].sv
      /\ frames[1].kind \in {"message", "table"} /\ N \in Nat
  BY <1>4, FramesAre, HeldIs DEF FramesOK
<1>6. F \subseteq O /\ G \subseteq O \ F /\ Kept(svs, tb) \subseteq (O \ F) \ G
  <2>1. RootOf(svs) \subseteq Roots1
    BY DEF RootOf, Roots1
  <2> QED
    BY <1>4, <2>1 DEF Apart, Outside, O, Kept
<1>7. OnceOrNot(Values(es)) /\ Lists(Values(es), G, N)
  BY <1>4, <1>5, OnceLists DEF Apart
<1>8. ASSUME ~cut
      PROVE  r \in Svq /\ Len(r) = N /\ Tree(r, Kept(svs, tb)) /\ Counted(r, Kept(svs, tb), p)
  <2>1. Unowned = DOMAIN Opens(frames)
    BY <1>5, <1>8 DEF Unowned
  <2>2. ids = Opens(frames)
    BY <2>1 DEF Opens, Unowned
  <2>3. Lists(ids, F, N)
    BY <1>4, <1>5, <2>2, OnceLists DEF Apart
  <2> HIDE DEF ids, F, G, N
  <2>4. Moves(svs, O, a, O \ F)
    BY <1>4, <1>6, <2>3, Dropped DEF N
  <2> HIDE DEF a
  <2>5. a \in Svq /\ Len(a) = N /\ Tree(a, O \ F)
    BY <2>4 DEF Moves, SameLen, N
  <2>6. Moves(a, O \ F, r, (O \ F) \ G)
    BY <1>6, <1>7, <2>5, Released
  <2> HIDE DEF r
  <2>7. Moves(svs, O, r, (O \ F) \ G)
    BY <1>4, <2>4, <2>6, MovesOn
  <2>8. r \in Svq /\ Len(r) = N /\ Tree(r, (O \ F) \ G)
    BY <2>7 DEF Moves, SameLen, N
  <2>9. Counted(r, (O \ F) \ G, p)
    <3>1. ASSUME NEW n \in 1..N PROVE Slack(r, (O \ F) \ G, p, n) = Slack(svs, O, p, n)
      BY <1>4, <2>7, WaitingIs DEF Moves, N
    <3> QED
      BY <1>4, <2>8, <3>1 DEF Counted, N
  <2>10. Tree(r, Kept(svs, tb)) /\ Counted(r, Kept(svs, tb), p)
    <3>1. Tree(r, Kept(svs, tb))
      BY <1>6, <2>8, LessOutside
    <3>2. ASSUME NEW n \in 1..Len(r)
          PROVE  Slack(r, Kept(svs, tb), p, n) >= 0
      <4>1. Slack(r, Kept(svs, tb), p, n) >= Slack(r, (O \ F) \ G, p, n)
        BY <1>4, <1>6, <2>8, WaitingIs, LessOutside
      <4>2. Slack(r, (O \ F) \ G, p, n) >= 0
        BY <2>9 DEF Counted
      <4>3. Slack(r, Kept(svs, tb), p, n) \in Int /\ Slack(r, (O \ F) \ G, p, n) \in Int
        BY <1>4, <2>8, WaitingIs, SvIs DEF Slack, OwnedBy
      <4> QED
        BY <4>1, <4>2, <4>3
    <3> QED
      BY <3>1, <3>2 DEF Counted
  <2> QED
    BY <2>8, <2>10
<1>9. r \in Svq /\ Len(r) = N /\ Tree(r, Kept(svs, tb))
  <2>1. \A n \in 1..N : Cardinality({i \in DOMAIN ids : ids[i] = n}) \in Nat
    <3>1. IsFiniteSet(1..Len(frames))
      BY <1>5, FS_Interval
    <3>2. \A n : {i \in DOMAIN ids : ids[i] = n} \subseteq 1..Len(frames)
      BY <1>5 DEF Unowned
    <3> QED
      BY <3>1, <3>2, FS_Subset, FS_CardinalityType
  <2> HIDE DEF ids
  <2>2. SameSlots(svs, a)
    BY <1>4, <2>1, DecIs
  <2> HIDE DEF a
  <2>3. a \in Svq /\ Len(a) = N /\ Tree(a, O)
    BY <1>4, <2>2, SameHolders DEF Tree
  <2> HIDE DEF F, G, N
  <2>4. Moves(a, O, r, O \ G)
    BY <1>6, <1>7, <2>3, Released
  <2> HIDE DEF r
  <2>5. r \in Svq /\ Len(r) = N /\ Tree(r, O \ G)
    BY <2>3, <2>4 DEF Moves, SameLen
  <2>6. Tree(r, Kept(svs, tb))
    BY <1>6, <2>5, LessOutside
  <2> QED
    BY <2>5, <2>6
<1>10. /\ r \in Svq /\ Len(r) = N /\ Tree(r, Kept(svs, tb))
       /\ ~cut => Counted(r, Kept(svs, tb), p)
  BY <1>8, <1>9
<1> HIDE DEF r, cut
<1>11. RootOf(r) = RootOf(svs) /\ Kept(r, tb) = Kept(svs, tb)
  BY <1>10 DEF RootOf, Kept
<1>12. OnceOrNot(Values(tb)) /\ RootOf(svs) \cap Filled(Values(tb)) = {}
  BY <1>4 DEF Apart, RootOf, Roots1
<1>13. GhostOK(ghost') /\ ghost'.cut = cut
  <2>1. cut \in BOOLEAN
    BY DEF cut
  <2> QED
    BY <1>1, <1>2, <2>1 DEF GhostOK
<1>14. Applies(svs', pending', table', ghost'.cut)
  BY <1>2, <1>4, <1>10, <1>11, <1>12, <1>13 DEF Applies
<1>15. at' \in 0..Len(pending') /\ mapped' \subseteq 1..Len(svs')
  BY <1>2, <1>3, <1>4, SeqIs
<1> QED
  BY <1>2, <1>13, <1>14, <1>15, AppliesInv

\* A transform that is skipped changes nothing.
LEMMA SkipInv ==
    ASSUME Inv, Skip
    PROVE  Inv'
<1>1. /\ phase = "applying" /\ at > 0 /\ at' = at - 1
      /\ UNCHANGED <<svs, frames, entries, pending, table, phase, outcome, mapped, left, ghost>>
  BY DEF Skip, Applying
<1>2. /\ Applies(svs, pending, table, ghost.cut)
      /\ frames = <<>> /\ entries = <<>> /\ outcome \in {"ok", "failed"}
      /\ at \in 0..Len(pending) /\ mapped \subseteq 1..Len(svs) /\ GhostOK(ghost)
  BY <1>1, InvApplies
<1>3. Len(pending) \in Nat
  BY <1>2, SeqIs DEF Applies
<1>4. at' \in 0..Len(pending')
  BY <1>1, <1>2, <1>3
<1>5. Applies(svs', pending', table', ghost'.cut)
  BY <1>1, <1>2
<1> QED
  BY <1>1, <1>2, <1>4, <1>5, AppliesInv

\* Values move, and fieldtable may lose some.
LEMMA AppliesOn ==
    ASSUME NEW s, NEW p, NEW tb, NEW c, Applies(s, p, tb, c),
           NEW r, NEW P, Moves(s, Kept(s, tb), r, P),
           NEW tb2 \in Seq(EntryRec), Len(tb2) = Len(tb), OnceOrNot(Values(tb2)),
           Filled(Values(tb2)) \subseteq Filled(Values(tb)), Kept(s, tb2) \subseteq P
    PROVE  Applies(r, p, tb2, c)
<1>1. /\ s \in Svq /\ p \in Seq(QueueRec) /\ QueueOK(p, Len(s), tb)
      /\ RootOf(s) \cap Filled(Values(tb)) = {}
      /\ ~c => Counted(s, Kept(s, tb), p)
  BY DEF Applies
<1>2. r \in Svq /\ Len(r) = Len(s) /\ Tree(r, P)
  BY DEF Moves, SameLen
<1>3. RootOf(r) = RootOf(s) /\ Kept(r, tb2) = Kept(s, tb2)
  BY <1>2 DEF RootOf, Kept
<1>4. Tree(r, Kept(s, tb2))
  BY <1>2, LessOutside
<1>5. ASSUME ~c PROVE Counted(r, Kept(s, tb2), p)
  <2>1. ASSUME NEW n \in 1..Len(r)
        PROVE  Slack(r, Kept(s, tb2), p, n) >= 0
    <3>1. Waiting(p, n) \in Nat
      BY <1>1, WaitingIs
    <3>2. Slack(r, Kept(s, tb2), p, n) >= Slack(r, P, p, n)
      BY <1>2, <3>1, LessOutside
    <3>3. Slack(r, P, p, n) = Slack(s, Kept(s, tb), p, n)
      BY <1>2, <3>1 DEF Moves
    <3>4. Slack(s, Kept(s, tb), p, n) >= 0
      BY <1>1, <1>2, <1>5 DEF Counted
    <3>5. Slack(r, Kept(s, tb2), p, n) \in Int /\ Slack(r, P, p, n) \in Int
      BY <1>2, <3>1, SvIs DEF Slack, OwnedBy
    <3> QED
      BY <3>2, <3>3, <3>4, <3>5
  <2> QED
    BY <2>1 DEF Counted
<1>6. QueueOK(p, Len(r), tb2)
  BY <1>1, <1>2 DEF QueueOK
<1>7. RootOf(r) \cap Filled(Values(tb2)) = {}
  BY <1>1, <1>3
<1> QED
  BY <1>1, <1>2, <1>3, <1>4, <1>5, <1>6, <1>7 DEF Applies

\* The entries of fieldtable that a transform takes.
Takes(tb, o, z, f, tb2) ==
    /\ f \in SlotMaps /\ DOMAIN f = 1..z /\ \A i \in 1..z : f[i] = tb[o + i].value
    /\ \A i \in DOMAIN f : f[i] \in {NoSv} \cup Filled(Values(tb))
    /\ \A i, j \in DOMAIN f : f[i] = f[j] /\ f[i] # NoSv => i = j
    /\ tb2 \in Seq(EntryRec) /\ Len(tb2) = Len(tb) /\ OnceOrNot(Values(tb2))
    /\ \A i \in 1..Len(tb) : tb2[i].field = tb[i].field
    /\ Filled(Values(tb2)) = Filled(Values(tb)) \ Filled(f)
ItemsOf(tb, o, z) == Values(SubSeq(tb, o + 1, o + z))
RestOf(tb, o, z) ==
    [i \in DOMAIN tb |-> IF i \in o + 1 .. o + z THEN [tb[i] EXCEPT !.value = NoSv] ELSE tb[i]]

\* They are a part of it.
LEMMA ItemsTaken ==
    ASSUME NEW tb \in Seq(EntryRec), OnceOrNot(Values(tb)), NEW o \in Nat, NEW z \in Nat,
           o + z <= Len(tb)
    PROVE  Takes(tb, o, z, ItemsOf(tb, o, z), RestOf(tb, o, z))
<1> DEFINE es == SubSeq(tb, o + 1, o + z)
           f == Values(es)
           L == Len(tb)
           In == o + 1 .. o + z
           tb2 == [i \in DOMAIN tb |->
                     IF i \in In THEN [tb[i] EXCEPT !.value = NoSv] ELSE tb[i]]
<1>1. /\ L \in Nat /\ DOMAIN tb = 1..L /\ \A i \in 1..L : tb[i] \in EntryRec /\ tb[i].value \in Nat
      /\ DOMAIN Values(tb) = 1..L /\ \A i \in 1..L : Values(tb)[i] = tb[i].value
  BY ValuesIs
<1>2. /\ \A i \in 1..z : o + i \in 1..L /\ o + i \in In
      /\ \A i \in In : i \in 1..L /\ i - o \in 1..z /\ o + (i - o) = i
  BY <1>1
<1>3. es \in Seq(EntryRec) /\ Len(es) = z /\ \A i \in 1..z : es[i] = tb[o + i]
  <2>1. \A i \in o + 1 .. o + z : tb[i] \in EntryRec
    BY <1>1, <1>2
  <2>2. /\ es \in Seq(EntryRec)
        /\ Len(es) = IF o + 1 <= o + z THEN (o + z) - (o + 1) + 1 ELSE 0
        /\ \A i \in 1..((o + z) - (o + 1) + 1) : es[i] = tb[(o + 1) + i - 1]
    BY <2>1, SubSeqProperties
  <2> HIDE DEF es
  <2>3. (o + z) - (o + 1) + 1 = z /\ (o + 1 <= o + z <=> 1 <= z)
    OBVIOUS
  <2>4. Len(es) = z
    <3>1. CASE 1 <= z
      BY <2>2, <2>3, <3>1
    <3>2. CASE ~(1 <= z)
      BY <2>2, <2>3, <3>2
    <3> QED
      BY <3>1, <3>2
  <2>5. ASSUME NEW i \in 1..z PROVE es[i] = tb[o + i]
    <3>1. i \in 1..((o + z) - (o + 1) + 1) /\ (o + 1) + i - 1 = o + i
      BY <2>3
    <3> QED
      BY <2>2, <3>1
  <2> QED
    BY <2>2, <2>4, <2>5
<1> HIDE DEF es, L, In
<1>4. DOMAIN f = 1..z /\ \A i \in 1..z : f[i] = tb[o + i].value /\ f[i] \in Nat
  <2>1. DOMAIN f = 1..z /\ \A i \in 1..z : f[i] = es[i].value
    BY <1>3, ValuesIs
  <2> QED
    BY <1>1, <1>2, <1>3, <2>1
<1>5. f \in SlotMaps
  <2>1. 1..z \in SUBSET Idx /\ IsFiniteSet(1..z)
    BY FS_Interval DEF Idx
  <2>2. f = [i \in DOMAIN f |-> f[i]]
    BY DEF Values
  <2>3. f \in [1..z -> Nat]
    BY <1>4, <2>2
  <2> HIDE DEF f
  <2> QED
    BY <2>1, <2>3, AreSlots
<1> HIDE DEF f
<1>6. \A i \in DOMAIN f : f[i] \in {NoSv} \cup Filled(Values(tb))
  <2>1. \A i \in 1..z : f[i] = Values(tb)[o + i] /\ o + i \in DOMAIN Values(tb)
    BY <1>1, <1>2, <1>4
  <2> QED
    BY <1>4, <2>1 DEF Filled
<1>7. \A i, j \in DOMAIN f : f[i] = f[j] /\ f[i] # NoSv => i = j
  <2>1. ASSUME NEW i \in 1..z, NEW j \in 1..z, f[i] = f[j], f[i] # NoSv PROVE i = j
    <3>1. /\ o + i \in DOMAIN Values(tb) /\ o + j \in DOMAIN Values(tb)
          /\ Values(tb)[o + i] = f[i] /\ Values(tb)[o + j] = f[j]
      BY <1>1, <1>2, <1>4
    <3>2. o + i = o + j
      BY <2>1, <3>1 DEF OnceOrNot
    <3> QED
      BY <3>2
  <2> QED
    BY <1>4, <2>1
<1>8. /\ DOMAIN tb2 = 1..L
      /\ \A i \in 1..L : /\ tb2[i] \in EntryRec /\ tb2[i].field = tb[i].field
                         /\ tb2[i].value = IF i \in In THEN NoSv ELSE tb[i].value
  <2>1. DOMAIN tb2 = 1..L
    BY <1>1
  <2>2. ASSUME NEW e \in EntryRec
        PROVE  LET e2 == [e EXCEPT !.value = NoSv] IN
               e2 \in EntryRec /\ e2.field = e.field /\ e2.value = NoSv
    BY DEF EntryRec, NoSv
  <2>3. ASSUME NEW i \in 1..L
        PROVE  /\ tb2[i] \in EntryRec /\ tb2[i].field = tb[i].field
               /\ tb2[i].value = IF i \in In THEN NoSv ELSE tb[i].value
    <3>1. CASE i \in In
      <4> DEFINE e == tb[i]
                 e2 == [e EXCEPT !.value = NoSv]
      <4>1. tb2[i] = e2 /\ e \in EntryRec
        BY <1>1, <3>1
      <4> HIDE DEF e
      <4>2. e2 \in EntryRec /\ e2.field = e.field /\ e2.value = NoSv
        BY <2>2, <4>1
      <4> HIDE DEF e2
      <4> QED
        BY <3>1, <4>1, <4>2 DEF e
    <3>2. CASE i \notin In
      BY <1>1, <3>2
    <3> QED
      BY <3>1, <3>2
  <2> QED
    BY <2>1, <2>3
<1>9. tb2 \in Seq(EntryRec) /\ Len(tb2) = L
  <2>1. tb2 = [i \in DOMAIN tb2 |-> tb2[i]]
    BY <1>1
  <2> HIDE DEF tb2
  <2>2. tb2 \in [1..L -> EntryRec]
    BY <1>8, <2>1
  <2>3. L \in Nat
    BY <1>1
  <2> QED
    BY <2>2, <2>3, IsSeq
<1> HIDE DEF tb2
<1>10. /\ DOMAIN Values(tb2) = 1..L
       /\ \A i \in 1..L : Values(tb2)[i] = IF i \in In THEN NoSv ELSE Values(tb)[i]
  <2>1. DOMAIN Values(tb2) = 1..L /\ \A i \in 1..L : Values(tb2)[i] = tb2[i].value
    BY <1>9, ValuesIs
  <2> QED
    BY <1>1, <1>8, <2>1
<1>11. OnceOrNot(Values(tb2))
  BY <1>1, <1>10 DEF OnceOrNot
<1>12. Filled(Values(tb2)) = Filled(Values(tb)) \ Filled(f)
  <2>1. ASSUME NEW n \in Filled(Values(tb2)) PROVE n \in Filled(Values(tb)) \ Filled(f)
    <3>1. PICK i \in 1..L : n = Values(tb)[i] /\ n # NoSv /\ i \notin In
      BY <1>10 DEF Filled
    <3>2. ASSUME NEW j \in 1..z PROVE f[j] # n
      <4>1. o + j \in In /\ o + j \in 1..L /\ f[j] = Values(tb)[o + j]
        BY <1>1, <1>2, <1>4
      <4> QED
        BY <1>1, <3>1, <4>1 DEF OnceOrNot
    <3> QED
      BY <1>1, <1>4, <3>1, <3>2 DEF Filled
  <2>2. ASSUME NEW n \in Filled(Values(tb)), n \notin Filled(f) PROVE n \in Filled(Values(tb2))
    <3>1. PICK i \in 1..L : n = Values(tb)[i] /\ n # NoSv
      BY <1>1 DEF Filled
    <3>2. i \notin In
      <4>1. ASSUME i \in In PROVE n \in Filled(f)
        <5>1. i - o \in DOMAIN f /\ f[i - o] = Values(tb)[i]
          BY <1>1, <1>2, <1>4, <4>1
        <5> QED
          BY <3>1, <5>1 DEF Filled
      <4> QED
        BY <2>2, <4>1
    <3> QED
      BY <1>10, <3>1, <3>2 DEF Filled
  <2> QED
    BY <2>1, <2>2
<1>13. \A i \in 1..L : tb2[i].field = tb[i].field
  BY <1>8
<1>14. Takes(tb, o, z, f, tb2)
  BY <1>4, <1>5, <1>6, <1>7, <1>9, <1>11, <1>12, <1>13 DEF L, Takes
<1>15. f = ItemsOf(tb, o, z) /\ tb2 = RestOf(tb, o, z)
  BY DEF f, es, tb2, In, ItemsOf, RestOf
<1> QED
  BY <1>14, <1>15

\* A transform changes the value it is called with.
LEMMA ApplyInv ==
    ASSUME Inv, NEW keep \in BOOLEAN, Apply(keep)
    PROVE  Inv'
<1> DEFINE h == This.target
           N == Len(svs)
           K == Kept(svs, table)
<1>1. /\ phase = "applying" /\ at > 0 /\ at' = at - 1 /\ Matches
      /\ mapped' = IF Shared THEN mapped \cup {h} ELSE mapped
      /\ ghost' = Logged
      /\ UNCHANGED <<frames, entries, pending, phase, outcome, left>>
  BY DEF Apply, Applying
<1>2. /\ Applies(svs, pending, table, ghost.cut)
      /\ frames = <<>> /\ entries = <<>> /\ outcome \in {"ok", "failed"}
      /\ at \in 0..Len(pending) /\ mapped \subseteq 1..N /\ GhostOK(ghost)
  BY <1>1, InvApplies
<1>3. /\ svs \in Svq /\ pending \in Seq(QueueRec) /\ table \in Seq(EntryRec)
      /\ QueueOK(pending, N, table) /\ OnceOrNot(Values(table)) /\ Tree(svs, K)
      /\ RootOf(svs) \cap Filled(Values(table)) = {}
  BY <1>2 DEF Applies
<1>4. Len(pending) \in Nat /\ DOMAIN pending = 1..Len(pending) /\ at \in 1..Len(pending)
  BY <1>1, <1>2, <1>3, SeqIs
<1>5. /\ This \in QueueRec /\ h \in 1..N
      /\ \/ This.offset = -1 /\ This.size = 0
         \/ This.offset >= 0 /\ This.offset + This.size <= Len(table)
  BY <1>3, <1>4, SeqIs DEF QueueOK, This
<1>6. This.by \in {"plain", "table"} /\ This.offset \in Int /\ This.size \in Nat
  BY <1>5 DEF QueueRec
<1>7. GhostOK(ghost') /\ ghost'.cut = ghost.cut
  BY <1>1, <1>2 DEF GhostOK, Logged
<1>8. at' \in 0..Len(pending') /\ mapped' \subseteq 1..N
  <2>1. at' \in 0..Len(pending')
    BY <1>1, <1>4
  <2> HIDE DEF h, N
  <2>2. mapped' \subseteq 1..N
    BY <1>1, <1>2, <1>5
  <2> QED
    BY <2>1, <2>2
<1> HIDE DEF K, h, N
<1>9. Applies(svs', pending, table', ghost.cut)
  <2>1. CASE This.by = "plain" /\ keep
    <3>1. svs' = svs /\ table' = table
      BY <2>1 DEF Apply
    <3> QED
      BY <1>2, <3>1
  <2>2. CASE This.by = "plain" /\ ~keep
    <3> DEFINE ids == svs[h].slots
               r == Release(Refill(svs, h, <<>>), ids)
    <3>1. svs' = r /\ table' = table
      BY <2>2 DEF Apply, h, Refill
    <3>2. DOMAIN ids = DOMAIN svs[h].slots \ DOMAIN <<>> /\ DOMAIN <<>> \subseteq DOMAIN svs[h].slots
          /\ <<>> \in SlotMaps /\ \A j \in DOMAIN <<>> : FALSE
      BY NoSlots
    <3> HIDE DEF ids
    <3>3. Moves(svs, K, r, K)
      <4>1. \A j \in DOMAIN ids : ids[j] = svs[h].slots[j]
        BY DEF ids
      <4>2. h \in 1..Len(svs)
        BY <1>5 DEF N
      <4> QED
        BY <1>3, <3>2, <4>1, <4>2, TakenOut
    <3> HIDE DEF r
    <3>4. Applies(r, pending, table, ghost.cut)
      BY <1>2, <1>3, <3>3, AppliesOn DEF K
    <3> QED
      BY <3>1, <3>4
  <2>3. CASE This.by = "table"
    <3> DEFINE o == This.offset
               z == This.size
               f == ItemsOf(table, o, z)
               tb2 == RestOf(table, o, z)
               r == Refill(svs, h, f)
               P == (K \cup Filled(svs[h].slots)) \ Filled(f)
    <3>1. svs' = r /\ table' = tb2
      BY <2>3 DEF Apply, Items, Refill, h, ItemsOf, RestOf
    <3>2. o \in Nat /\ z \in Nat /\ o + z <= Len(table)
      BY <1>1, <1>5, <1>6, <2>3 DEF Matches
    <3> HIDE DEF o, z
    <3>3. /\ f \in SlotMaps
          /\ \A i \in DOMAIN f : f[i] \in {NoSv} \cup Filled(Values(table))
          /\ \A i, j \in DOMAIN f : f[i] = f[j] /\ f[i] # NoSv => i = j
          /\ tb2 \in Seq(EntryRec) /\ Len(tb2) = Len(table) /\ OnceOrNot(Values(tb2))
          /\ Filled(Values(tb2)) = Filled(Values(table)) \ Filled(f)
      <4>1. Takes(table, o, z, f, tb2)
        BY <1>3, <3>2, ItemsTaken
      <4> HIDE DEF f, tb2
      <4> QED
        BY <4>1 DEF Takes
    <3> HIDE DEF f, tb2
    <3>4. \A i \in DOMAIN f : f[i] \in {NoSv} \cup K
                              \/ (i \in DOMAIN svs[h].slots /\ f[i] = svs[h].slots[i])
      BY <3>3 DEF K, Kept
    <3>5. h \in 1..Len(svs)
      BY <1>5 DEF N
    <3>6. Moves(svs, K, r, P)
      BY <1>3, <3>3, <3>4, <3>5, Refilled
    <3> HIDE DEF r
    <3>7. Filled(f) \subseteq Filled(Values(table))
      BY <3>3 DEF Filled
    <3>8. Kept(svs, tb2) \subseteq P
      BY <1>3, <3>3, <3>7 DEF Kept, K
    <3>9. Filled(Values(tb2)) \subseteq Filled(Values(table))
      BY <3>3
    <3> HIDE DEF P
    <3>10. Applies(r, pending, tb2, ghost.cut)
      BY <1>2, <3>3, <3>6, <3>8, <3>9, AppliesOn DEF K
    <3> QED
      BY <3>1, <3>10
  <2> QED
    BY <1>6, <2>1, <2>2, <2>3
<1>10. Len(svs') = N
  <2>1. CASE This.by = "plain" /\ keep
    BY <2>1 DEF Apply, N
  <2>2. CASE This.by = "plain" /\ ~keep
    <3> DEFINE a == Refill(svs, h, <<>>)
    <3>1. svs' = Release(a, svs[h].slots)
      BY <2>2 DEF Apply, h, Refill
    <3>2. DOMAIN a = DOMAIN svs
      BY DEF Refill
    <3>3. DOMAIN svs' = DOMAIN svs
      BY <3>1, <3>2 DEF Release, Reap, Dec
    <3> QED
      BY <1>3, <1>9, <3>3, HeldIs DEF N, Applies
  <2>3. CASE This.by = "table"
    <3>1. DOMAIN svs' = DOMAIN svs
      BY <2>3 DEF Apply
    <3> QED
      BY <1>3, <1>9, <3>1, HeldIs DEF N, Applies
  <2> QED
    BY <1>6, <2>1, <2>2, <2>3
<1> QED
  BY <1>1, <1>2, <1>7, <1>8, <1>9, <1>10, AppliesInv

\* The queue and its fieldtable go, and the result of a call that died.
LEMMA LeaveInv ==
    ASSUME Inv, phase = "applying", GhostOK(ghost'), ghost'.cut = ghost.cut,
           NEW result, result = outcome \/ result \in Deaths, Leave(result)
    PROVE  Inv'
<1> DEFINE N == Len(svs)
           K == Kept(svs, table)
           R == RootOf(svs)
           D == Filled(Values(table))
           ids == [i \in DOMAIN pending |-> pending[i].target]
           last == IF outcome = "ok" /\ result # "ok" THEN <<1>> ELSE <<>>
           a == Dec(svs, ids)
           b == Dec(a, Values(table))
           r == Release(b, last)
           none == <<>>
           Q == {n \in R : result \notin Deaths}
           E == IF outcome = "ok" /\ result # "ok" THEN R ELSE {}
<1>1. /\ svs' = r /\ pending' = <<>> /\ table' = <<>> /\ at' = 0 /\ mapped' = {}
      /\ phase' = "idle" /\ outcome' = result
      /\ UNCHANGED <<frames, entries, left>>
  BY DEF Leave
<1>2. /\ Applies(svs, pending, table, ghost.cut) /\ frames = <<>> /\ entries = <<>>
  BY InvApplies
<1>3. /\ svs \in Svq /\ pending \in Seq(QueueRec) /\ table \in Seq(EntryRec)
      /\ OnceOrNot(Values(table)) /\ Tree(svs, K) /\ R \cap D = {}
      /\ ~ghost.cut => Counted(svs, K, pending)
  BY <1>2 DEF Applies
<1>4. N \in Nat /\ DOMAIN svs = 1..N
  BY <1>3, HeldIs
<1>5. D \subseteq K /\ K \ D = R /\ Q \subseteq R
  BY <1>3 DEF Kept
<1>0. none \in Seq(QueueRec) /\ \A n : Waiting(none, n) = 0
  <2>1. none \in Seq(QueueRec) /\ Len(none) = 0
    OBVIOUS
  <2> QED
    BY <2>1, NoneWaits
<1> HIDE DEF none
<1>6. /\ a \in Svq /\ Len(a) = N /\ Tree(a, K)
      /\ \A n \in 1..N : Slack(a, K, none, n) = Slack(svs, K, pending, n)
  <2>1. \A n : Cardinality({i \in DOMAIN ids : ids[i] = n}) = Waiting(pending, n)
    <3>1. ASSUME NEW n PROVE {i \in DOMAIN ids : ids[i] = n} = {i \in DOMAIN pending : pending[i].target = n}
      OBVIOUS
    <3> QED
      BY <3>1 DEF Waiting
  <2>2. \A n : Waiting(pending, n) \in Nat
    BY <1>3, WaitingIs
  <2> HIDE DEF ids, N, K
  <2>5. SameSlots(svs, a) /\ \A n \in 1..Len(svs) : a[n].refs = svs[n].refs - Waiting(pending, n)
    <3>1. \A n \in 1..Len(svs) : Cardinality({i \in DOMAIN ids : ids[i] = n}) \in Nat
      BY <2>1, <2>2
    <3>2. /\ SameSlots(svs, a)
          /\ \A n \in 1..Len(svs) : a[n].refs = svs[n].refs - Cardinality({i \in DOMAIN ids : ids[i] = n})
      BY <1>3, <3>1, DecIs
    <3> QED
      BY <2>1, <3>2
  <2> HIDE DEF a
  <2>6. /\ a \in Svq /\ Len(a) = N /\ \A n : InSlots(a, n) <=> InSlots(svs, n)
        /\ (OneHolder(svs) => OneHolder(a)) /\ (InRange(svs) => InRange(a))
    BY <1>3, <2>5, SameHolders DEF N
  <2>7. Tree(a, K)
    BY <1>3, <2>5, SameHolders DEF Tree
  <2>8. ASSUME NEW n \in 1..N PROVE Slack(a, K, none, n) = Slack(svs, K, pending, n)
    <3>1. OwnedBy(a, K, n) = OwnedBy(svs, K, n) /\ OwnedBy(svs, K, n) \in Int
      BY <2>6 DEF OwnedBy
    <3>2. a[n].refs = svs[n].refs - Waiting(pending, n) /\ svs[n].refs \in Int
      BY <1>3, <2>5, SvIs DEF N
    <3> HIDE DEF N
    <3>3. Waiting(pending, n) \in Int /\ Waiting(none, n) = 0
      BY <2>2, <1>0
    <3> QED
      BY <3>1, <3>2, <3>3 DEF Slack
  <2> QED
    BY <2>6, <2>7, <2>8
<1> HIDE DEF a, D, K, N, R
<1>7. Moves(a, K, b, R)
  <2>1. Lists(Values(table), D, Len(a))
    BY <1>3, <1>4, <1>6, OnceLists DEF D
  <2>2. Moves(a, K, b, K \ D)
    BY <1>5, <1>6, <2>1, Dropped
  <2> QED
    BY <1>5, <2>2
<1> HIDE DEF b
<1>8. b \in Svq /\ Len(b) = N /\ Tree(b, R)
  BY <1>6, <1>7 DEF Moves, SameLen
<1>9. E \subseteq R /\ Q \subseteq R \ E
  <2>1. (outcome = "ok" /\ result # "ok") => result \in Deaths
    OBVIOUS
  <2> QED
    BY <1>5, <2>1
<1>10. Lists(last, E, N)
  <2>1. CASE outcome = "ok" /\ result # "ok"
    <3>1. last = <<1>> /\ E = R
      BY <2>1
    <3>2. \A n \in 1..N : n \in R <=> n = 1
      BY DEF R, RootOf, N
    <3>3. Lists(<<1>>, R, N)
      <4>1. OnceOrNot(<<1>>) /\ Filled(<<1>>) = {1}
        BY DEF OnceOrNot, Filled, NoSv
      <4>2. Lists(<<1>>, {1}, N)
        BY <1>4, <4>1, OnceLists
      <4> QED
        BY <3>2, <4>2 DEF Lists
    <3> QED
      BY <3>1, <3>3
  <2>2. CASE ~(outcome = "ok" /\ result # "ok")
    <3>1. last = <<>> /\ E = {}
      BY <2>2
    <3>2. OnceOrNot(<<>>) /\ Filled(<<>>) = {}
      BY NoSlots DEF OnceOrNot, Filled
    <3>3. Lists(<<>>, {}, N)
      BY <1>4, <3>2, OnceLists
    <3> QED
      BY <3>1, <3>3
  <2> QED
    BY <2>1, <2>2
<1> HIDE DEF last, E
<1>11. Moves(b, R, r, R \ E)
  BY <1>8, <1>9, <1>10, Released
<1> HIDE DEF r
<1>12. Moves(a, K, r, R \ E)
  BY <1>6, <1>7, <1>11, MovesOn
<1>13. r \in Svq /\ Len(r) = N /\ Tree(r, R \ E) /\ Tree(r, Q)
  BY <1>6, <1>9, <1>12, LessOutside DEF Moves, SameLen
<1>14. ASSUME ~ghost.cut PROVE Counted(r, Q, none)
  <2>1. ASSUME NEW n \in 1..Len(r) PROVE Slack(r, Q, none, n) >= 0
    <3>1. Waiting(none, n) \in Nat
      BY <1>0
    <3>2. Slack(r, Q, none, n) >= Slack(r, R \ E, none, n)
      BY <1>9, <1>13, <3>1, LessOutside
    <3>3. Slack(r, R \ E, none, n) = Slack(a, K, none, n)
      BY <1>6, <1>12, <1>13, <3>1 DEF Moves
    <3>4. Slack(a, K, none, n) >= 0
      BY <1>3, <1>6, <1>13, <1>14 DEF Counted, N
    <3>5. Slack(r, Q, none, n) \in Int /\ Slack(r, R \ E, none, n) \in Int
      BY <1>13, <3>1, SvIs DEF Slack, OwnedBy
    <3> QED
      BY <3>2, <3>3, <3>4, <3>5
  <2> QED
    BY <2>1 DEF Counted
<1>15. RootIs' = Q /\ Owned' = Q
  <2>1. RootIs' = Q
    BY <1>1, <1>13 DEF RootIs, R, RootOf, N
  <2> HIDE DEF Q
  <2>2. Owned' = Q
    BY <1>1, <1>2, <2>1, FillNone DEF Owned, Outside
  <2> QED
    BY <2>1, <2>2
<1> HIDE DEF Q
<1>16. Apart(RootIs, frames, entries, table)'
  BY <1>1, <1>2, FillNone DEF Apart
<1>17. Typed'
  <2>1. frames' \in Seq(FrameRec) /\ entries' \in Seq(EntryRec) /\ pending' \in Seq(QueueRec)
        /\ table' \in Seq(EntryRec) /\ Len(pending') = 0
    BY <1>1, <1>2
  <2>2. result \in {"ok", "failed"} \cup Deaths
    BY InvApplies
  <2> QED
    BY <1>1, <1>13, <2>1, <2>2 DEF Typed, GhostOK
<1>18. Shape'
  <2>1. DOMAIN pending' = {}
    BY <1>1, NoSlots
  <2> QED
    BY <1>1, <1>2, <2>1 DEF Shape, QueueOK
<1>19. Tree(svs', Owned') /\ (~ghost'.cut => Counted(svs', Owned', pending'))
  BY <1>1, <1>13, <1>14, <1>15 DEF none
<1> QED
  BY <1>16, <1>17, <1>18, <1>19 DEF Inv

\* The transform dies, or the call returns.
LEMMA DieInv ==
    ASSUME Inv, Die
    PROVE  Inv'
<1> DEFINE result == IF Matches THEN "died" ELSE "internal error"
<1>1. phase = "applying" /\ ghost' = Logged /\ Leave(result)
  BY DEF Die, Applying
<1>2. result \in Deaths
  BY Zenon DEF Deaths
<1> HIDE DEF result
<1>3. GhostOK(ghost') /\ ghost'.cut = ghost.cut
  BY <1>1, InvApplies DEF Logged, GhostOK
<1> QED
  BY <1>1, <1>2, <1>3, LeaveInv

\* The call returns.
LEMMA ReturnInv ==
    ASSUME Inv, Return
    PROVE  Inv'
<1>1. phase = "applying" /\ Leave(outcome) /\ ghost' = ghost
  BY DEF Return
<1>2. GhostOK(ghost') /\ ghost'.cut = ghost.cut
  BY <1>1, InvApplies
<1> QED
  BY <1>1, <1>2, LeaveInv

\* What a call begins with.
LEMMA BeginDecodes ==
    ASSUME NEW o \in FrameRec, o.kind \in {"message", "table"}, o.sv = 1
    PROVE  Decodes(<<NewSv>>, <<o>>, <<>>, <<>>, <<>>)
<1> DEFINE none == <<>>
           s == Append(none, NewSv)
           fs == <<o>>
           O == Outside(Roots1, fs, none, none)
<1>1. /\ none \in Seq(QueueRec) /\ none \in Seq(EntryRec) /\ none \in Svq /\ Len(none) = 0
      /\ DOMAIN none = {} /\ 1..Len(none) = {}
  BY NoSlots DEF Svq
<1>2. s = <<NewSv>>
  OBVIOUS
<1>3. OnceOrNot(Values(none)) /\ Filled(Values(none)) = {}
  BY FillNone
<1> HIDE DEF none
<1>4. Tree(none, {})
  BY <1>1 DEF Tree, InRange, OneHolder
<1>5. Waiting(none, 1) = 0 /\ 1 = Len(none) + 1
  <2>1. \A n : Waiting(none, n) = 0
    BY NoneWaits DEF none
  <2> QED
    BY <1>1, <2>1
<1>6. /\ s \in Svq /\ Len(s) = 1 /\ DOMAIN s[1].slots = {} /\ s[1].refs = 1
      /\ Tree(s, {} \cup {1})
  <2>1. /\ s \in Svq /\ Len(s) = 1 /\ DOMAIN s[1].slots = {} /\ Tree(s, {} \cup {1})
    <3>1. PICK N : N = 1 /\ N = Len(none) + 1
      BY <1>5
    <3>2. /\ s \in Svq /\ Len(s) = N /\ DOMAIN s[N].slots = {} /\ Tree(s, {} \cup {N})
      BY <1>1, <1>4, <3>1, MadeOutside
    <3> QED
      BY <3>1, <3>2
  <2>2. s[1] = NewSv
    BY <1>1, <1>5, AppendOf DEF s, Svq, SvRec, NewSv
  <2> QED
    BY <2>1, <2>2 DEF NewSv
<1>7. Slack(s, {} \cup {1}, none, 1) = 0
  <2> HIDE DEF s
  <2>1. OwnedBy(s, {} \cup {1}, 1) = 1
    BY DEF OwnedBy
  <2> QED
    BY <1>5, <1>6, <2>1 DEF Slack
<1> HIDE DEF s
<1>8. fs \in Seq(FrameRec) /\ Len(fs) = 1 /\ fs[1] = o /\ DOMAIN fs = {1}
  OBVIOUS
<1> HIDE DEF fs
<1>9. OnceOrNot(Opens(fs)) /\ Filled(Opens(fs)) = {}
  <2>1. DOMAIN Opens(fs) = {}
    BY <1>8 DEF Opens
  <2> QED
    BY <2>1 DEF OnceOrNot, Filled
<1>10. FramesOK(fs, 1)
  BY <1>8 DEF FramesOK, NoSv
<1>11. O = {1} /\ Apart(Roots1, fs, none, none)
  BY <1>3, <1>9 DEF Outside, Roots1, Apart
<1>12. Full(s)
  BY <1>6, HeldIs DEF Full
<1>13. QueueOK(none, 1, none)
  BY <1>1 DEF QueueOK
<1>14. Tree(s, O) /\ Counted(s, O, none)
  BY <1>6, <1>7, <1>11 DEF Counted
<1>15. Decodes(s, fs, none, none, none)
  BY <1>1, <1>6, <1>8, <1>10, <1>11, <1>12, <1>13, <1>14 DEF Decodes
<1> QED
  BY <1>2, <1>15 DEF none, fs

\* prepare resets everything.
LEMMA PrepareInv ==
    ASSUME Inv, NEW root \in Roots, Prepare(root)
    PROVE  Inv'
<1> DEFINE none == <<>>
           q == Queued(1, Kind[root], "none")
           o == Opened(root, 1, NoField, none)
           s == <<NewSv>>
           fs == <<o>>
           es == Marker(root, q)
<1>1. /\ phase = "idle" /\ phase' = "decoding" /\ outcome' = "ok"
      /\ pending' = q /\ svs' = IncQueued(s, q) /\ frames' = fs /\ entries' = es
      /\ ghost' = [merged |-> FALSE, cut |-> FALSE, lost |-> FALSE,
                   written |-> <<>>, log |-> <<>>]
      /\ UNCHANGED <<table, at, mapped>>
  BY DEF Prepare
<1>2. table = none /\ at = 0 /\ mapped = {}
  BY <1>1 DEF Inv, Shape
<1>3. /\ none \in Seq(QueueRec) /\ none \in Seq(EntryRec)
      /\ OnceOrNot(Values(none)) /\ Filled(Values(none)) = {}
  BY FillNone
<1> HIDE DEF none
<1>4. root \in Types /\ Kind[root] \in {"none", "plain", "table", "bare"}
  BY KindAssumption
<1>5. NewOf(q, 1)
  BY <1>4, QueuedIs
<1>6. o \in FrameRec /\ o.kind \in {"message", "table"} /\ o.sv = 1
  <2> DEFINE N == 1
             f == NoField
             r == Opened(root, N, f, none)
  <2>1. N \in Nat /\ f \in AllFields \cup {NoField} /\ o = r
    OBVIOUS
  <2> HIDE DEF N, f
  <2>2. OpenedAs(root, N, f, none, r)
    BY <1>3, <1>4, <2>1, OpenedIs
  <2> HIDE DEF r, o
  <2> QED
    BY <2>1, <2>2 DEF N, OpenedAs
<1> HIDE DEF o, q
<1>7. Decodes(s, fs, none, none, none)
  BY <1>6, BeginDecodes DEF none
<1>8. Len(s) = 1
  OBVIOUS
<1> HIDE DEF s, fs
<1>9. Decodes(IncQueued(s, q), fs, none, none \o q, none)
  BY <1>5, <1>7, <1>8, DecodesQueued
<1>10. none \o q = q /\ q \in Seq(QueueRec)
  <2>1. q \in Seq(QueueRec)
    <3>1. CASE q = <<>>
      BY <3>1
    <3>2. ASSUME NEW x \in QueueRec, q = <<x>> PROVE q \in Seq(QueueRec)
      <4>1. <<x>> \in Seq(QueueRec)
        OBVIOUS
      <4> QED
        BY <3>2, <4>1
    <3> QED
      BY <1>5, <3>1, <3>2 DEF NewOf
  <2> QED
    BY <2>1, ConcatEmptySeq DEF none
<1>11. es \in Seq(EntryRec) /\ OnceOrNot(Values(es)) /\ Filled(Values(es)) = Filled(Values(none))
  <2>1. Len(q) \in Nat
    BY <1>10, SeqIs
  <2>2. Marker(root, q) \in Seq(EntryRec)
    <3> DEFINE m == [field |-> Len(q), value |-> NoSv]
    <3>1. m \in EntryRec
      BY <2>1 DEF EntryRec, NoSv
    <3>2. Marker(root, q) = <<m>> \/ Marker(root, q) = <<>>
      BY DEF Marker
    <3> HIDE DEF m
    <3>3. <<m>> \in Seq(EntryRec) /\ <<>> \in Seq(EntryRec)
      BY <3>1
    <3> QED
      BY <3>2, <3>3
  <2>3. none \o Marker(root, q) = es
    BY <2>2, ConcatEmptySeq DEF none
  <2> HIDE DEF es
  <2>4. Marked(root, Len(q), none, none \o Marker(root, q))
    BY <1>3, <2>1, MarkerIs
  <2> QED
    BY <2>3, <2>4 DEF Marked
<1> HIDE DEF es
<1>12. Decodes(IncQueued(s, q), fs, es, q, none)
  BY <1>9, <1>10, <1>11, DecodesEntries
<1>13. Decodes(svs', frames', entries', pending', table')
  BY <1>1, <1>2, <1>12
<1>14. GhostOK(ghost') /\ ~ghost'.cut
  BY <1>1 DEF GhostOK
<1> QED
  BY <1>1, <1>2, <1>13, <1>14, DecodesSet DEF GhostOK

\* Before the first call nothing is owned.
LEMMA InitInv ==
    ASSUME Init
    PROVE  Inv
<1> DEFINE none == <<>>
<1>1. /\ svs = none /\ frames = none /\ entries = none /\ pending = none /\ table = none
      /\ phase = "idle" /\ outcome = "ok" /\ at = 0 /\ mapped = {} /\ left = 0
      /\ GhostOK(ghost)
  BY DEF Init, GhostOK
<1>2. /\ none \in Seq(QueueRec) /\ none \in Seq(EntryRec) /\ none \in Svq /\ none \in Seq(FrameRec)
      /\ Len(none) = 0 /\ DOMAIN none = {} /\ 1..Len(none) = {}
  BY NoSlots DEF Svq
<1>3. /\ OnceOrNot(Values(none)) /\ Filled(Values(none)) = {}
      /\ OnceOrNot(Opens(none)) /\ Filled(Opens(none)) = {}
  BY FillNone
<1> HIDE DEF none
<1>4. RootIs = {} /\ Owned = {}
  <2>1. RootIs = {}
    BY <1>1, <1>2 DEF RootIs
  <2> QED
    BY <1>1, <1>3, <2>1 DEF Owned, Outside
<1>5. Typed
  BY <1>1, <1>2 DEF Typed, GhostOK
<1>6. Shape
  BY <1>1, <1>2 DEF Shape, QueueOK, none
<1>7. Apart(RootIs, frames, entries, table)
  BY <1>1, <1>3, <1>4 DEF Apart
<1>8. Tree(svs, Owned) /\ Counted(svs, Owned, pending)
  BY <1>1, <1>2, <1>4 DEF Tree, InRange, OneHolder, Counted
<1> QED
  BY <1>5, <1>6, <1>7, <1>8 DEF Inv

\* Every step keeps the invariant.
LEMMA StepInv ==
    ASSUME Inv, [Next]_vars
    PROVE  Inv'
<1>1. CASE UNCHANGED vars
  BY <1>1 DEF vars, Inv, Typed, Shape, RootIs, Owned
<1>2. CASE \E root \in Roots : Prepare(root)
  BY <1>2, PrepareInv
<1>3. CASE Callback
  BY <1>3, ScalarInv, StartManyInv, StartSubInv, EndManyInv, EndSubInv, EndMapEntryInv DEF Callback
<1>4. CASE \E result \in {"ok", "failed"} : Finish(result)
  BY <1>4, FinishInv
<1>5. CASE Skip
  BY <1>5, SkipInv
<1>6. CASE \E keep \in BOOLEAN : Apply(keep)
  BY <1>6, ApplyInv
<1>7. CASE Die
  BY <1>7, DieInv
<1>8. CASE Return
  BY <1>8, ReturnInv
<1> QED
  BY <1>1, <1>2, <1>3, <1>4, <1>5, <1>6, <1>7, <1>8 DEF Next

\* The invariant holds.
THEOREM Invariant == Spec => []Inv
<1>1. Init => Inv
  BY InitInv
<1>2. Inv /\ [Next]_vars => Inv'
  BY StepInv
<1> QED
  BY <1>1, <1>2, PTL DEF Spec

\* How often a list of values gives n.
LEMMA GivesOnce ==
    ASSUME NEW ids, OnceOrNot(ids), NEW n, n # NoSv, NEW S,
           \A i : i \in S <=> (i \in DOMAIN ids /\ ids[i] = n)
    PROVE  Cardinality(S) = IF n \in Filled(ids) THEN 1 ELSE 0
<1>1. S = {i \in DOMAIN ids : ids[i] = n}
  OBVIOUS
<1>2. \A i, j \in DOMAIN ids : ids[i] = n /\ ids[j] = n => i = j
  BY DEF OnceOrNot
<1>3. Cardinality(S) = IF \E i \in DOMAIN ids : ids[i] = n THEN 1 ELSE 0
  BY <1>1, <1>2, CountOne
<1>4. (\E i \in DOMAIN ids : ids[i] = n) <=> n \in Filled(ids)
  BY DEF Filled
<1> QED
  BY <1>3, <1>4

\* The references there are: one from the owner, one from each transform that waits.
LEMMA HoldersAre ==
    ASSUME Inv, NEW n \in Svs
    PROVE  Holders(n) = Waiting(pending, n) + OwnedBy(svs, Owned, n)
<1> DEFINE C1 == Cardinality({k \in Svs : n \in Held(svs[k])})
           C2 == Cardinality({i \in DOMAIN pending : pending[i].target = n})
           C3 == Cardinality({i \in DOMAIN entries : entries[i].value = n})
           C4 == Cardinality({i \in DOMAIN table : table[i].value = n})
           C5 == Cardinality({i \in DOMAIN frames : frames[i].kind = "value" /\ frames[i].sv = n})
           C6 == IF n = 1 /\ ~(phase = "idle" /\ outcome \in {"died", "internal error"}) THEN 1 ELSE 0
<1>1. /\ svs \in Svq /\ frames \in Seq(FrameRec) /\ entries \in Seq(EntryRec)
      /\ pending \in Seq(QueueRec) /\ table \in Seq(EntryRec)
      /\ Apart(RootIs, frames, entries, table) /\ Tree(svs, Owned)
  BY DEF Inv, Typed
<1>2. n \in 1..Len(svs) /\ Len(svs) \in Nat /\ DOMAIN svs = 1..Len(svs)
  BY <1>1, HeldIs DEF Svs
<1>3. n # NoSv
  BY <1>2 DEF NoSv
<1>4. C1 = IF InSlots(svs, n) THEN 1 ELSE 0
  <2>1. HeldBy(svs, Svs, n) = IF \E k \in Svs : n \in Held(svs[k]) THEN 1 ELSE 0
    BY <1>1, <1>2, HeldOnce DEF Tree, Svs
  <2> QED
    BY <1>2, <2>1 DEF HeldBy, InSlots, Svs
<1>5. C2 = Waiting(pending, n) /\ Waiting(pending, n) \in Nat
  BY <1>1, WaitingIs DEF Waiting
<1>6. C3 = IF n \in Filled(Values(entries)) THEN 1 ELSE 0
  <2> DEFINE S == {i \in DOMAIN entries : entries[i].value = n}
  <2>1. \A i : i \in S <=> (i \in DOMAIN Values(entries) /\ Values(entries)[i] = n)
    BY DEF Values
  <2> HIDE DEF S
  <2>2. OnceOrNot(Values(entries))
    BY <1>1 DEF Apart
  <2>3. Cardinality(S) = IF n \in Filled(Values(entries)) THEN 1 ELSE 0
    BY <1>3, <2>1, <2>2, GivesOnce
  <2> QED
    BY <2>3 DEF S
<1>7. C4 = IF n \in Filled(Values(table)) THEN 1 ELSE 0
  <2> DEFINE S == {i \in DOMAIN table : table[i].value = n}
  <2>1. \A i : i \in S <=> (i \in DOMAIN Values(table) /\ Values(table)[i] = n)
    BY DEF Values
  <2> HIDE DEF S
  <2>2. OnceOrNot(Values(table))
    BY <1>1 DEF Apart
  <2>3. Cardinality(S) = IF n \in Filled(Values(table)) THEN 1 ELSE 0
    BY <1>3, <2>1, <2>2, GivesOnce
  <2> QED
    BY <2>3 DEF S
<1>8. C5 = IF n \in Filled(Opens(frames)) THEN 1 ELSE 0
  <2> DEFINE S == {i \in DOMAIN frames : frames[i].kind = "value" /\ frames[i].sv = n}
  <2>1. \A i : i \in S <=> (i \in DOMAIN Opens(frames) /\ Opens(frames)[i] = n)
    BY DEF Opens
  <2> HIDE DEF S
  <2>2. OnceOrNot(Opens(frames))
    BY <1>1 DEF Apart
  <2>3. Cardinality(S) = IF n \in Filled(Opens(frames)) THEN 1 ELSE 0
    BY <1>3, <2>1, <2>2, GivesOnce
  <2> QED
    BY <2>3 DEF S
<1>9. C6 = IF n \in RootIs THEN 1 ELSE 0
  BY <1>2, Zenon DEF RootIs, Deaths
<1>10. Holders(n) = C1 + C2 + C3 + C4 + C5 + C6
  BY Zenon DEF Holders
<1> HIDE DEF C1, C2, C3, C4, C5, C6
<1> DEFINE A == InSlots(svs, n)
           B == n \in Filled(Values(entries))
           C == n \in Filled(Values(table))
           D == n \in Filled(Opens(frames))
           E == n \in RootIs
<1>11. /\ ~(A /\ (B \/ C \/ D \/ E)) /\ ~(E /\ (B \/ C \/ D)) /\ ~(D /\ (B \/ C)) /\ ~(B /\ C)
       /\ OwnedBy(svs, Owned, n) = IF A \/ B \/ C \/ D \/ E THEN 1 ELSE 0
  <2>1. n \in Owned <=> B \/ C \/ D \/ E
    BY DEF Owned, Outside
  <2>2. n \in Owned => ~A
    BY <1>1 DEF Tree
  <2>3. ~(E /\ (B \/ C \/ D)) /\ ~(D /\ (B \/ C)) /\ ~(B /\ C)
    BY <1>1 DEF Apart
  <2> HIDE DEF A, B, C, D, E
  <2> QED
    BY <2>1, <2>2, <2>3 DEF OwnedBy, A
<1>12. /\ C1 = IF A THEN 1 ELSE 0
       /\ C3 = IF B THEN 1 ELSE 0
       /\ C4 = IF C THEN 1 ELSE 0
       /\ C5 = IF D THEN 1 ELSE 0
       /\ C6 = IF E THEN 1 ELSE 0
  BY <1>4, <1>6, <1>7, <1>8, <1>9
<1> HIDE DEF A, B, C, D, E
<1>13. C1 + C3 + C4 + C5 + C6 = OwnedBy(svs, Owned, n)
  BY <1>11, <1>12
<1>14. C1 \in Int /\ C3 \in Int /\ C4 \in Int /\ C5 \in Int /\ C6 \in Int
  BY <1>12
<1> QED
  BY <1>5, <1>10, <1>13, <1>14

\* No value is freed while a container, the queue or a field table refers to it,
\* however the call ends, unless decoding failed inside a field table: every count
\* covers the references there are (add_transform, static_clear, clear).
THEOREM CountsCover == Spec => []CountsCoverHoldersOutsideTables
<1>1. ASSUME Inv PROVE CountsCoverHoldersOutsideTables
  <2>1. ASSUME ~ghost.cut, NEW n \in Svs PROVE svs[n].refs >= Holders(n)
    <3>1. Slack(svs, Owned, pending, n) >= 0
      BY <1>1, <2>1 DEF Inv, Counted, Svs
    <3>2. Holders(n) = Waiting(pending, n) + OwnedBy(svs, Owned, n)
      BY <1>1, HoldersAre
    <3>3. svs[n].refs \in Int /\ Waiting(pending, n) \in Int /\ OwnedBy(svs, Owned, n) \in Int
      BY <1>1, WaitingIs, SvIs DEF Inv, Typed, Svs, OwnedBy
    <3> QED
      BY <3>1, <3>2, <3>3 DEF Slack
  <2> QED
    BY <2>1 DEF CountsCoverHoldersOutsideTables, CountsCoverHolders
<1> QED
  BY <1>1, Invariant, PTL

------------------------------------------------------------------------------
(* Which transforms ran.                                                        *)

\* A value is alive when a container or somebody outside owns it.
Alive(s, O, n) == n \in O \/ InSlots(s, n)

\* What ran twice is not alive any more.
LogRec == [target : Nat, index : Nat, fields : Seq(AllFields \cup Nat)]
RanOnce(l, s, O) ==
    \A j, k \in DOMAIN l : l[j].target = l[k].target /\ j # k => ~Alive(s, O, l[k].target)

\* While transforms a..1 are left: everything behind ran, nothing else did, and what
\* ran and is still to come is known to already_mapped, if it is alive.
NoneMissed(l, p, a) == \A i \in a + 1 .. Len(p) : \E k \in DOMAIN l : l[k].target = p[i].target
NoneEarly(l, p, a) ==
    \A k \in DOMAIN l : l[k].index \in a + 1 .. Len(p) /\ p[l[k].index].target = l[k].target
MappedRan(l, m) == \A n \in m : \E k \in DOMAIN l : l[k].target = n
RanMapped(l, p, a, s, O, m) ==
    \A k \in DOMAIN l : \A i \in 1..a :
        p[i].target = l[k].target /\ Alive(s, O, l[k].target) => l[k].target \in m
Order(l, p, a, s, O, m, c) ==
    /\ NoneMissed(l, p, a) /\ NoneEarly(l, p, a) /\ MappedRan(l, m)
    /\ ~c => RanMapped(l, p, a, s, O, m)
OrderInv ==
    /\ ghost.log \in Seq(LogRec)
    /\ phase = "decoding" => ghost.log = <<>>
    /\ ~ghost.cut => RanOnce(ghost.log, svs, Owned)
    /\ phase = "applying" => Order(ghost.log, pending, at, svs, Owned, mapped, ghost.cut)

\* A count less changes no slots.
Slotted(s) == \A k \in DOMAIN s : "slots" \in DOMAIN s[k]

\* The slots are what they were.
LEMMA DecOwns ==
    ASSUME NEW s, NEW ids, Slotted(s)
    PROVE  /\ DOMAIN Dec(s, ids) = DOMAIN s /\ Slotted(Dec(s, ids))
           /\ \A k \in DOMAIN s : Dec(s, ids)[k].slots = s[k].slots
           /\ \A n : InSlots(Dec(s, ids), n) <=> InSlots(s, n)
<1> DEFINE c(n) == Cardinality({i \in DOMAIN ids : ids[i] = n})
           d == Dec(s, ids)
<1>1. d = [n \in DOMAIN s |-> [s[n] EXCEPT !.refs = @ - c(n)]]
  BY DEF Dec
<1> HIDE DEF c, d
<1>2. DOMAIN d = DOMAIN s
  BY <1>1
<1>3. ASSUME NEW k \in DOMAIN s
      PROVE  "slots" \in DOMAIN d[k] /\ d[k].slots = s[k].slots
  <2>1. d[k] = [s[k] EXCEPT !["refs"] = s[k].refs - c(k)]
    BY <1>1
  <2>2. "slots" \in DOMAIN s[k]
    BY DEF Slotted
  <2> QED
    BY <2>1, <2>2
<1>4. \A n : InSlots(d, n) <=> InSlots(s, n)
  BY <1>2, <1>3 DEF InSlots, Held
<1> QED
  BY <1>2, <1>3, <1>4 DEF Slotted, d

\* A release makes nothing alive.
LEMMA ReleaseOwns ==
    ASSUME NEW s, NEW ids, Slotted(s)
    PROVE  /\ DOMAIN Release(s, ids) = DOMAIN s
           /\ \A n : InSlots(Release(s, ids), n) => InSlots(s, n)
<1> DEFINE d == Dec(s, ids)
           r == Reap(d)
<1>1. DOMAIN d = DOMAIN s /\ \A k \in DOMAIN s : d[k].slots = s[k].slots
  BY DecOwns
<1> HIDE DEF d
<1>2. DOMAIN r = DOMAIN d /\ \A k \in DOMAIN d : r[k].slots = <<>> \/ r[k].slots = d[k].slots
  BY DEF Reap
<1> HIDE DEF r
<1>3. Held([slots |-> <<>>]) = {}
  BY DEF Held
<1>4. \A k \in DOMAIN s : Held(r[k]) \subseteq Held(s[k])
  <2>1. ASSUME NEW k \in DOMAIN s PROVE Held(r[k]) \subseteq Held(s[k])
    <3>1. CASE r[k].slots = <<>>
      BY <3>1 DEF Held
    <3>2. CASE r[k].slots = d[k].slots
      BY <1>1, <3>2 DEF Held
    <3> QED
      BY <1>1, <1>2, <3>1, <3>2
  <2> QED
    BY <2>1
<1>5. \A n : InSlots(r, n) => InSlots(s, n)
  BY <1>1, <1>2, <1>4 DEF InSlots
<1>6. r = Release(s, ids)
  BY DEF Release, r, d
<1> QED
  BY <1>1, <1>2, <1>5, <1>6

\* Transforms own nothing new.
LEMMA ApplyOwns ==
    ASSUME Inv, NEW keep \in BOOLEAN, Apply(keep), NEW n, n # NoSv
    PROVE  Alive(svs', Owned', n) => Alive(svs, Owned, n)
<1>1. /\ phase = "applying" /\ at > 0 /\ Matches
      /\ UNCHANGED <<frames, entries, pending, phase, outcome>>
  BY DEF Apply, Applying
<1>2. /\ Applies(svs, pending, table, ghost.cut) /\ at \in 0..Len(pending)
  BY <1>1, InvApplies
<1>3. svs \in Svq /\ DOMAIN svs = 1..Len(svs)
  BY <1>2, HeldIs DEF Applies
<1>4. Inv'
  BY ApplyInv
<1>5. svs' \in Svq /\ DOMAIN svs' = 1..Len(svs') /\ Len(svs) \in Nat /\ Len(svs') \in Nat
  BY <1>3, <1>4, HeldIs DEF Inv, Typed
<1>6. Owned = Kept(svs, table) /\ Owned' = Kept(svs', table')
  <2>1. RootIs = RootOf(svs) /\ RootIs' = RootOf(svs')
    BY <1>1 DEF RootIs, RootOf
  <2>2. frames = <<>> /\ entries = <<>> /\ frames' = <<>> /\ entries' = <<>>
    BY <1>1, InvApplies
  <2> QED
    BY <2>1, <2>2, FillNone DEF Owned, Outside, Kept
<1>7. /\ DOMAIN svs' = DOMAIN svs
      /\ InSlots(svs', n) => InSlots(svs, n) \/ n \in Filled(Values(table))
      /\ Filled(Values(table')) \subseteq Filled(Values(table))
  <2>0. This.by \in {"plain", "table"} /\ This.offset \in Int /\ This.size \in Nat
        /\ (This.offset = -1 \/ (This.offset >= 0 /\ This.offset + This.size <= Len(table)))
        /\ This.target \in 1..Len(svs)
    <3>1. at \in DOMAIN pending /\ This \in QueueRec
      BY <1>1, <1>2, SeqIs DEF Applies, This
    <3> QED
      BY <1>2, <3>1 DEF QueueRec, Applies, QueueOK, This
  <2>1. CASE This.by = "plain" /\ keep
    BY <2>1 DEF Apply
  <2>2. CASE This.by = "plain" /\ ~keep
    <3> DEFINE a == [svs EXCEPT ![This.target].slots = <<>>]
    <3>1. svs' = Release(a, svs[This.target].slots) /\ table' = table
      BY <2>2 DEF Apply
    <3>2. DOMAIN a = DOMAIN svs /\ \A m : InSlots(a, m) => InSlots(svs, m)
      <4>1. DOMAIN a = DOMAIN svs /\ \A k \in DOMAIN svs : a[k].slots = svs[k].slots \/ a[k].slots = <<>>
        <5>1. \A k \in DOMAIN svs : svs[k] \in SvRec
          BY <1>3, SeqIs DEF Applies, Svq
        <5> QED
          BY <5>1 DEF SvRec
      <4> HIDE DEF a
      <4>2. ASSUME NEW m, NEW k \in DOMAIN svs, m \in Held(a[k]) PROVE m \in Held(svs[k])
        BY <4>1, <4>2 DEF Held
      <4> QED
        BY <4>1, <4>2 DEF InSlots
    <3>3. Slotted(a)
      <4>1. \A k \in DOMAIN svs : svs[k] \in SvRec
        BY <1>3, SeqIs DEF Applies, Svq
      <4> QED
        BY <4>1 DEF SvRec, Slotted
    <3> HIDE DEF a
    <3>4. DOMAIN svs' = DOMAIN a /\ (InSlots(svs', n) => InSlots(a, n))
      BY <3>1, <3>3, ReleaseOwns
    <3> QED
      BY <3>1, <3>2, <3>4
  <2>3. CASE This.by = "table"
    <3> DEFINE o == This.offset
               z == This.size
               f == ItemsOf(table, o, z)
               tb2 == RestOf(table, o, z)
    <3>1. svs' = [svs EXCEPT ![This.target].slots = f] /\ table' = tb2
      BY <2>3 DEF Apply, Items, ItemsOf, RestOf
    <3>2. o \in Nat /\ z \in Nat /\ o + z <= Len(table)
      BY <1>1, <2>0, <2>3 DEF Matches
    <3>3. Takes(table, o, z, f, tb2)
      <4> HIDE DEF o, z
      <4> QED
        BY <1>2, <3>2, ItemsTaken DEF Applies
    <3> HIDE DEF f, tb2
    <3>4. /\ \A i \in DOMAIN f : f[i] \in {NoSv} \cup Filled(Values(table))
          /\ Filled(Values(tb2)) \subseteq Filled(Values(table))
      BY <3>3 DEF Takes
    <3>5. DOMAIN svs' = DOMAIN svs
          /\ \A k \in DOMAIN svs : svs'[k].slots = svs[k].slots \/ svs'[k].slots = f
      BY <3>1
    <3>6. ASSUME InSlots(svs', n) PROVE InSlots(svs, n) \/ n \in Filled(Values(table))
      <4>1. PICK k \in DOMAIN svs : n \in Held(svs'[k])
        BY <3>5, <3>6 DEF InSlots
      <4>2. CASE svs'[k].slots = svs[k].slots
        BY <4>1, <4>2 DEF Held, InSlots
      <4>3. CASE svs'[k].slots = f
        <5>1. PICK i \in DOMAIN f : n = f[i]
          BY <4>1, <4>3 DEF Held
        <5> QED
          BY <3>4, <3>6, <5>1
      <4> QED
        BY <3>5, <4>2, <4>3
    <3> QED
      BY <3>1, <3>4, <3>5, <3>6
  <2> QED
    BY <2>0, <2>1, <2>2, <2>3
<1>8. RootOf(svs') = RootOf(svs)
  BY <1>3, <1>5, <1>7 DEF RootOf
<1> QED
  BY <1>6, <1>7, <1>8 DEF Alive, Kept

\* A value that is alive and waits for two transforms is shared.
LEMMA WaitsTwice ==
    ASSUME Inv, phase = "applying", ~ghost.cut, at > 0, Alive(svs, Owned, This.target),
           NEW i \in 1..Len(pending), i # at, pending[i].target = This.target
    PROVE  Shared
<1> DEFINE n == This.target
<1>1. /\ Applies(svs, pending, table, ghost.cut) /\ at \in 0..Len(pending)
  BY InvApplies
<1>2. /\ pending \in Seq(QueueRec) /\ DOMAIN pending = 1..Len(pending) /\ Len(pending) \in Nat
      /\ svs \in Svq /\ QueueOK(pending, Len(svs), table)
  BY <1>1, WaitingIs DEF Applies
<1>3. at \in 1..Len(pending) /\ pending[at].target = n
  BY <1>1, <1>2 DEF This
<1>4. n \in 1..Len(svs)
  BY <1>2, <1>3 DEF QueueOK
<1>5. Waiting(pending, n) \in Nat /\ Waiting(pending, n) >= 2
  BY <1>2, <1>3, WaitingIs
<1>6. OwnedBy(svs, Owned, n) = 1
  BY DEF OwnedBy, Alive
<1>7. Slack(svs, Owned, pending, n) >= 0
  BY <1>4 DEF Inv, Counted
<1>8. svs[n].refs \in Int
  BY <1>2, <1>4, SvIs
<1> QED
  BY <1>5, <1>6, <1>7, <1>8 DEF Slack, Shared

\* What runs again is not alive,
LEMMA RunsAgain ==
    ASSUME Inv, OrderInv, Applying, ~Skipped, ~ghost.cut,
           NEW k \in DOMAIN ghost.log, ghost.log[k].target = This.target
    PROVE  ~Alive(svs, Owned, This.target)
<1>1. SUFFICES ASSUME Alive(svs, Owned, This.target) PROVE FALSE
  OBVIOUS
<1>2. /\ phase = "applying" /\ at > 0 /\ at \in 0..Len(pending) /\ Len(pending) \in Nat
  BY InvApplies, WaitingIs DEF Applying, Applies
<1>3. Order(ghost.log, pending, at, svs, Owned, mapped, ghost.cut)
  BY <1>2 DEF OrderInv
<1>4. at \in 1..at /\ pending[at].target = This.target
  BY <1>2 DEF This
<1>5. This.target \in mapped
  BY <1>1, <1>3, <1>4 DEF Order, RanMapped
<1>6. ghost.log[k].index \in at + 1 .. Len(pending)
      /\ pending[ghost.log[k].index].target = This.target
  BY <1>3 DEF Order, NoneEarly
<1>7. ghost.log[k].index \in 1..Len(pending) /\ ghost.log[k].index # at
  BY <1>2, <1>6
<1>8. Shared
  BY <1>1, <1>2, <1>6, <1>7, WaitsTwice
<1> QED
  BY <1>5, <1>8 DEF Skipped

\* What ran, and what ran after the transform at the end of the queue ran.
LEMMA LoggedIs ==
    ASSUME Inv, OrderInv, phase = "applying", at > 0
    PROVE  LET l == ghost.log
               g == Logged.log IN
           /\ g \in Seq(LogRec) /\ Len(g) = Len(l) + 1 /\ Len(l) \in Nat
           /\ DOMAIN g = 1..Len(l) + 1 /\ DOMAIN l = 1..Len(l)
           /\ \A k \in 1..Len(l) : g[k] = l[k]
           /\ g[Len(l) + 1].target = This.target /\ g[Len(l) + 1].index = at
           /\ g[Len(l) + 1].fields = IF This.offset = -1 THEN <<>>
                          ELSE [i \in 1..This.size |-> table[This.offset + i].field]
<1> DEFINE l == ghost.log
           fields == IF This.offset = -1 THEN <<>>
                          ELSE [i \in 1..This.size |-> table[This.offset + i].field]
           x == [target |-> This.target, index |-> at, fields |-> fields]
           g == Append(l, x)
<1>1. /\ Applies(svs, pending, table, ghost.cut) /\ at \in 0..Len(pending) /\ GhostOK(ghost)
  BY InvApplies
<1>2. /\ pending \in Seq(QueueRec) /\ Len(pending) \in Nat
      /\ table \in Seq(EntryRec) /\ QueueOK(pending, Len(svs), table)
  BY <1>1, WaitingIs DEF Applies
<1>3. at \in DOMAIN pending /\ at \in Nat /\ This \in QueueRec
  BY <1>1, <1>2, SeqIs DEF This
<1>4. /\ This.target \in Nat /\ This.size \in Nat /\ This.offset \in Int
      /\ (This.offset = -1 \/ (This.offset >= 0 /\ This.offset + This.size <= Len(table)))
  BY <1>2, <1>3 DEF QueueRec, QueueOK, This
<1>5. fields \in Seq(AllFields \cup Nat)
  <2>1. CASE This.offset = -1
    <3>1. <<>> \in Seq(AllFields \cup Nat)
      OBVIOUS
    <3> QED
      BY <2>1, <3>1
  <2>2. CASE This.offset # -1
    <3> DEFINE o == This.offset
               z == This.size
               f == [i \in 1..z |-> table[o + i].field]
    <3>1. o \in Nat /\ z \in Nat /\ o + z <= Len(table)
      BY <1>4, <2>2
    <3> HIDE DEF o, z
    <3>2. ASSUME NEW i \in 1..z PROVE table[o + i].field \in AllFields \cup Nat
      <4>1. o + i \in 1..Len(table)
        BY <1>2, <3>1, SeqIs
      <4>2. table[o + i] \in EntryRec
        BY <1>2, <4>1, SeqIs
      <4> QED
        BY <4>2 DEF EntryRec
    <3>3. f \in [1..z -> AllFields \cup Nat]
      BY <3>2
    <3> HIDE DEF f
    <3>4. f \in Seq(AllFields \cup Nat)
      BY <3>1, <3>3, IsSeq
    <3>5. fields = f
      BY <2>2 DEF f, o, z
    <3> QED
      BY <3>4, <3>5
  <2> QED
    BY <2>1, <2>2
<1> HIDE DEF fields
<1>6. x \in LogRec /\ x.target = This.target /\ x.index = at /\ x.fields = fields
  BY <1>3, <1>4, <1>5 DEF LogRec
<1>7. l \in Seq(LogRec)
  BY DEF OrderInv
<1>8. Logged.log = g
  <2>1. Logged = [ghost EXCEPT !.log = g]
    BY Zenon DEF Logged, fields
  <2> HIDE DEF g
  <2> QED
    BY <1>1, <2>1 DEF GhostOK
<1> HIDE DEF x, l
<1>9. /\ g \in Seq(LogRec) /\ Len(g) = Len(l) + 1 /\ Len(l) \in Nat
      /\ DOMAIN g = 1..Len(l) + 1 /\ DOMAIN l = 1..Len(l)
      /\ \A k \in 1..Len(l) : g[k] = l[k]
      /\ g[Len(l) + 1] = x
  BY <1>6, <1>7, AppendOf
<1> QED
  BY <1>6, <1>8, <1>9 DEF l, fields

\* One more transform ran.
LEMMA RunLogged ==
    ASSUME Inv, OrderInv, Applying, ~Skipped, NEW s, NEW O,
           \A n : n # NoSv /\ Alive(s, O, n) => Alive(svs, Owned, n)
    PROVE  /\ ~ghost.cut => RanOnce(Logged.log, s, O)
           /\ Order(Logged.log, pending, at - 1, s, O,
                    IF Shared THEN mapped \cup {This.target} ELSE mapped, ghost.cut)
<1> DEFINE l == ghost.log
           g == Logged.log
           n == This.target
           L == Len(l)
           m == IF Shared THEN mapped \cup {n} ELSE mapped
<1>1. phase = "applying" /\ at > 0
  BY DEF Applying
<1>2. /\ Applies(svs, pending, table, ghost.cut) /\ at \in 0..Len(pending)
  BY <1>1, InvApplies
<1>3. /\ Len(pending) \in Nat /\ DOMAIN pending = 1..Len(pending) /\ QueueOK(pending, Len(svs), table)
  BY <1>2, WaitingIs DEF Applies
<1>4. at \in 1..Len(pending) /\ pending[at].target = n
  BY <1>1, <1>2, <1>3 DEF This
<1>5. /\ L \in Nat /\ DOMAIN g = 1..L + 1 /\ DOMAIN l = 1..L
      /\ \A k \in 1..L : g[k] = l[k]
      /\ g[L + 1].target = n /\ g[L + 1].index = at
  BY <1>1, LoggedIs
<1> HIDE DEF g, L, n, m
<1>6. \A k \in 1..L + 1 : k \in 1..L \/ k = L + 1
  BY <1>5
<1>7. /\ NoneMissed(l, pending, at) /\ NoneEarly(l, pending, at) /\ MappedRan(l, mapped)
      /\ (~ghost.cut => RanMapped(l, pending, at, svs, Owned, mapped))
      /\ (~ghost.cut => RanOnce(l, svs, Owned))
  BY <1>1 DEF OrderInv, Order, l
<1>8. ASSUME NEW k \in DOMAIN g PROVE g[k].target # NoSv /\ (k # L + 1 => k \in DOMAIN l /\ g[k] = l[k])
  <2>1. CASE k = L + 1
    BY <1>3, <1>4, <1>5, <2>1 DEF QueueOK, NoSv
  <2>2. CASE k \in 1..L
    <3>1. l[k].index \in at + 1 .. Len(pending) /\ pending[l[k].index].target = l[k].target
      BY <1>5, <1>7, <2>2 DEF NoneEarly
    <3>2. l[k].index \in 1..Len(pending)
      BY <1>4, <3>1
    <3> QED
      BY <1>3, <1>5, <2>2, <3>1, <3>2 DEF QueueOK, NoSv
  <2> QED
    BY <1>5, <1>6, <2>1, <2>2
<1>9. NoneMissed(g, pending, at - 1)
  <2>1. ASSUME NEW i \in at - 1 + 1 .. Len(pending) PROVE \E k \in DOMAIN g : g[k].target = pending[i].target
    <3>1. CASE i = at
      <4>1. L + 1 \in DOMAIN g
        BY <1>5
      <4> QED
        BY <1>4, <1>5, <3>1, <4>1
    <3>2. CASE i # at
      <4>1. i \in at + 1 .. Len(pending)
        BY <1>4, <3>2
      <4>2. PICK k \in DOMAIN l : l[k].target = pending[i].target
        BY <1>7, <4>1 DEF NoneMissed
      <4>3. k \in DOMAIN g /\ g[k] = l[k]
        BY <1>5, <4>2
      <4> QED
        BY <4>2, <4>3
    <3> QED
      BY <3>1, <3>2
  <2> QED
    BY <2>1 DEF NoneMissed
<1>10. NoneEarly(g, pending, at - 1)
  <2>1. ASSUME NEW k \in DOMAIN g
        PROVE  g[k].index \in at - 1 + 1 .. Len(pending) /\ pending[g[k].index].target = g[k].target
    <3>1. CASE k = L + 1
      BY <1>4, <1>5, <3>1
    <3>2. CASE k # L + 1
      <4>1. k \in DOMAIN l /\ g[k] = l[k]
        BY <1>8, <3>2
      <4>2. l[k].index \in at + 1 .. Len(pending) /\ pending[l[k].index].target = l[k].target
        BY <1>7, <4>1 DEF NoneEarly
      <4> QED
        BY <1>4, <4>1, <4>2
    <3> QED
      BY <3>1, <3>2
  <2> QED
    BY <2>1 DEF NoneEarly
<1>11. MappedRan(g, m)
  <2>1. ASSUME NEW x \in m PROVE \E k \in DOMAIN g : g[k].target = x
    <3>1. CASE x = n
      <4>1. L + 1 \in DOMAIN g
        BY <1>5
      <4> QED
        BY <1>5, <3>1, <4>1
    <3>2. CASE x \in mapped
      <4>1. PICK k \in DOMAIN l : l[k].target = x
        BY <1>7, <3>2 DEF MappedRan
      <4>2. k \in DOMAIN g /\ g[k] = l[k]
        BY <1>5, <4>1
      <4> QED
        BY <4>1, <4>2
    <3> QED
      BY <3>1, <3>2 DEF m
  <2> QED
    BY <2>1 DEF MappedRan
<1>12. ASSUME ~ghost.cut PROVE RanMapped(g, pending, at - 1, s, O, m)
  <2>1. ASSUME NEW k \in DOMAIN g, NEW i \in 1..at - 1,
               pending[i].target = g[k].target, Alive(s, O, g[k].target)
        PROVE  g[k].target \in m
    <3>1. Alive(svs, Owned, g[k].target)
      BY <1>8, <2>1
    <3>2. i \in 1..Len(pending) /\ i # at /\ i \in 1..at
      BY <1>4
    <3>3. CASE k = L + 1
      <4>1. pending[i].target = This.target /\ Alive(svs, Owned, This.target)
        BY <1>5, <2>1, <3>1, <3>3 DEF n
      <4>2. Shared
        BY <1>1, <1>12, <3>2, <4>1, WaitsTwice
      <4> QED
        BY <1>5, <3>3, <4>2 DEF m
    <3>4. CASE k # L + 1
      <4>1. k \in DOMAIN l /\ g[k] = l[k]
        BY <1>8, <3>4
      <4>2. l[k].target \in mapped
        BY <1>7, <1>12, <2>1, <3>1, <3>2, <4>1 DEF RanMapped
      <4> QED
        BY <4>1, <4>2 DEF m
    <3> QED
      BY <3>3, <3>4
  <2> QED
    BY <2>1 DEF RanMapped
<1>13. ASSUME ~ghost.cut PROVE RanOnce(g, s, O)
  <2>1. ASSUME NEW k \in DOMAIN l, l[k].target = n PROVE ~Alive(svs, Owned, n)
    BY <1>13, <2>1, RunsAgain DEF l, n
  <2>2. ASSUME NEW j \in DOMAIN g, NEW k \in DOMAIN g, g[j].target = g[k].target, j # k
        PROVE  ~Alive(svs, Owned, g[k].target)
    <3>1. CASE j = L + 1
      <4>1. k \in DOMAIN l /\ g[k] = l[k]
        BY <1>8, <2>2, <3>1
      <4> QED
        BY <1>5, <2>1, <2>2, <3>1, <4>1
    <3>2. CASE k = L + 1
      <4>1. j \in DOMAIN l /\ g[j] = l[j]
        BY <1>8, <2>2, <3>2
      <4> QED
        BY <1>5, <2>1, <2>2, <3>2, <4>1
    <3>3. CASE j # L + 1 /\ k # L + 1
      <4>1. j \in DOMAIN l /\ g[j] = l[j] /\ k \in DOMAIN l /\ g[k] = l[k]
        BY <1>8, <3>3
      <4> QED
        BY <1>7, <1>13, <2>2, <4>1 DEF RanOnce
    <3> QED
      BY <3>1, <3>2, <3>3
  <2>3. ASSUME NEW j \in DOMAIN g, NEW k \in DOMAIN g, g[j].target = g[k].target, j # k
        PROVE  ~Alive(s, O, g[k].target)
    BY <1>8, <2>2, <2>3
  <2> QED
    BY <2>3 DEF RanOnce
<1> QED
  BY <1>9, <1>10, <1>11, <1>12, <1>13 DEF Order, g, m, n

\* What waits when the queue is left runs no more, and nothing becomes alive.
LEMMA LeaveOwns ==
    ASSUME Inv, phase = "applying", NEW result, Leave(result), Inv', NEW n, n # NoSv
    PROVE  Alive(svs', Owned', n) => Alive(svs, Owned, n)
<1> DEFINE ids == [i \in DOMAIN pending |-> pending[i].target]
           last == IF outcome = "ok" /\ result # "ok" THEN <<1>> ELSE <<>>
           a == Dec(svs, ids)
           b == Dec(a, Values(table))
           r == Release(b, last)
<1>1. svs' = r /\ table' = <<>> /\ phase' = "idle"
  BY DEF Leave
<1>2. svs \in Svq /\ svs' \in Svq
  BY DEF Inv, Typed
<1>3. Slotted(svs)
  <2>1. \A k \in DOMAIN svs : svs[k] \in SvRec
    BY <1>2, SeqIs DEF Svq
  <2> QED
    BY <2>1 DEF SvRec, Slotted
<1>4. Slotted(a) /\ DOMAIN a = DOMAIN svs /\ (InSlots(a, n) <=> InSlots(svs, n))
  <2> HIDE DEF ids
  <2> QED
    BY <1>3, DecOwns
<1> HIDE DEF a
<1>5. Slotted(b) /\ DOMAIN b = DOMAIN a /\ (InSlots(b, n) <=> InSlots(a, n))
  BY <1>4, DecOwns
<1> HIDE DEF b, last
<1>6. DOMAIN r = DOMAIN b /\ (InSlots(r, n) => InSlots(b, n))
  BY <1>5, ReleaseOwns
<1>7. InSlots(svs', n) => InSlots(svs, n)
  BY <1>1, <1>4, <1>5, <1>6
<1>8. Owned' \subseteq {1} /\ Owned' \subseteq 1..Len(svs')
  <2>1. frames' = <<>> /\ entries' = <<>>
    BY <1>1 DEF Inv, Shape
  <2>2. Owned' = RootIs'
    BY <1>1, <2>1, FillNone DEF Owned, Outside
  <2> QED
    BY <2>2 DEF RootIs
<1>9. DOMAIN svs' = DOMAIN svs
  BY <1>1, <1>4, <1>5, <1>6
<1>10. 1..Len(svs') = 1..Len(svs)
  BY <1>2, <1>9, SeqIs DEF Svq
<1>11. Owned' \subseteq Owned
  <2>1. \A x \in Owned' : x = 1 /\ x \in 1..Len(svs)
    BY <1>8, <1>10
  <2>2. \A x : x = 1 /\ x \in 1..Len(svs) => x \in RootIs
    BY DEF RootIs
  <2> QED
    BY <2>1, <2>2 DEF Owned, Outside
<1> QED
  BY <1>7, <1>11 DEF Alive

\* Nothing ran yet.
LEMMA NothingRan ==
    ASSUME ghost'.log = <<>>, phase' = "decoding" \/ (phase' = "applying" /\ at' = Len(pending')
                                                      /\ mapped' = {} /\ Len(pending') \in Nat)
    PROVE  OrderInv'
<1> DEFINE none == <<>>
<1>1. none \in Seq(LogRec) /\ DOMAIN none = {}
  BY NoSlots
<1>2. ghost'.log = none
  OBVIOUS
<1> HIDE DEF none
<1>3. RanOnce(ghost'.log, svs', Owned')
  BY <1>1, <1>2 DEF RanOnce
<1>4. ASSUME phase' = "applying"
      PROVE  Order(ghost'.log, pending', at', svs', Owned', mapped', ghost'.cut)
  <2>1. at' + 1 .. Len(pending') = {}
    BY <1>4
  <2> QED
    BY <1>1, <1>2, <1>4, <2>1 DEF Order, NoneMissed, NoneEarly, MappedRan, RanMapped
<1> QED
  BY <1>1, <1>2, <1>3, <1>4 DEF OrderInv, none

\* The callbacks run no transform.
LEMMA CallbackOrder ==
    ASSUME Inv, OrderInv, Callback
    PROVE  OrderInv'
<1>1. phase = "decoding" /\ phase' = "decoding" /\ ghost'.log = ghost.log
  <2>1. ASSUME NEW f \in AllFields, OnScalar(f) \/ OnStartMany(f)
        PROVE  phase = "decoding" /\ phase' = "decoding" /\ ghost'.log = ghost.log
    BY <2>1 DEF OnScalar, OnStartMany, Decoding, Event
  <2>2. ASSUME NEW f \in AllFields, OnStartSub(f)
        PROVE  phase = "decoding" /\ phase' = "decoding" /\ ghost'.log = ghost.log
    <3>1. phase = "decoding" /\ phase' = "decoding"
      BY <2>2 DEF OnStartSub, Decoding, Event
    <3>2. GhostOK(ghost)
      BY <3>1, GhostDecodes
    <3>3. PICK x, y : ghost' = [ghost EXCEPT !.merged = x, !.lost = y]
      BY <2>2, Zenon DEF OnStartSub
    <3> QED
      BY <3>1, <3>2, <3>3 DEF GhostOK
  <2>3. ASSUME OnEndMany
        PROVE  phase = "decoding" /\ phase' = "decoding" /\ ghost'.log = ghost.log
    BY <2>3 DEF OnEndMany, Decoding, Event
  <2>4. ASSUME OnEndSub
        PROVE  phase = "decoding" /\ phase' = "decoding" /\ ghost'.log = ghost.log
    <3>1. phase = "decoding" /\ phase' = "decoding"
      BY <2>4 DEF OnEndSub, Decoding, Event
    <3>2. GhostOK(ghost)
      BY <3>1, GhostDecodes
    <3>3. (\E x : ghost' = [ghost EXCEPT !.written = x]) \/ ghost' = ghost
      BY <2>4, Zenon DEF OnEndSub
    <3> QED
      BY <3>1, <3>2, <3>3 DEF GhostOK
  <2>5. ASSUME NEW key, OnEndMapEntry(key)
        PROVE  phase = "decoding" /\ phase' = "decoding" /\ ghost'.log = ghost.log
    <3>1. phase = "decoding" /\ phase' = "decoding"
      BY <2>5 DEF OnEndMapEntry, Decoding, Event
    <3>2. GhostOK(ghost)
      BY <3>1, GhostDecodes
    <3>3. PICK x : ghost' = [ghost EXCEPT !.lost = x]
      BY <2>5, Zenon DEF OnEndMapEntry
    <3> QED
      BY <3>1, <3>2, <3>3 DEF GhostOK
  <2> QED
    BY <2>1, <2>2, <2>3, <2>4, <2>5 DEF Callback
<1>2. ghost'.log = <<>>
  BY <1>1 DEF OrderInv
<1> QED
  BY <1>1, <1>2, NothingRan

\* Every step keeps the order.
LEMMA StepOrder ==
    ASSUME Inv, OrderInv, Inv', [Next]_vars
    PROVE  OrderInv'
<1>1. CASE UNCHANGED vars
  <2>1. /\ Owned' = Owned /\ ghost' = ghost /\ phase' = phase /\ svs' = svs /\ pending' = pending
        /\ at' = at /\ mapped' = mapped
    BY <1>1 DEF vars, RootIs, Owned
  <2> QED
    BY <2>1 DEF OrderInv
<1>2. ASSUME NEW root \in Roots, Prepare(root) PROVE OrderInv'
  <2>1. ghost'.log = <<>> /\ phase' = "decoding"
    BY <1>2 DEF Prepare
  <2> QED
    BY <2>1, NothingRan
<1>3. CASE Callback
  BY <1>3, CallbackOrder
<1>4. ASSUME NEW result, Finish(result) PROVE OrderInv'
  <2>1. phase = "decoding" /\ phase' = "applying" /\ at' = Len(pending) /\ mapped' = {}
    BY <1>4 DEF Finish
  <2>2. ghost.log = <<>> /\ GhostOK(ghost)
    BY <2>1, GhostDecodes DEF OrderInv
  <2>3. PICK x, y : ghost' = [ghost EXCEPT !.written = x, !.cut = y]
    BY <1>4, Zenon DEF Finish
  <2>4. ghost'.log = <<>>
    BY <2>2, <2>3 DEF GhostOK
  <2>5. Len(pending') = Len(pending) /\ Len(pending) \in Nat
    <3>1. Decodes(svs, frames, entries, pending, table)
      BY <2>1, InvDecodes
    <3>2. pending \in Seq(QueueRec)
      BY <3>1 DEF Decodes
    <3>3. CASE frames[1].kind = "table"
      <4>1. pending' = TableDone.pending
        BY <1>4, <3>3 DEF Finish
      <4> QED
        BY <3>1, <3>2, <4>1, TableDoneDecodes, SeqIs
    <3>4. CASE frames[1].kind # "table"
      <4>1. pending' = pending
        BY <1>4, <3>4 DEF Finish, TableLeft
      <4> QED
        BY <3>2, <4>1, SeqIs
    <3> QED
      BY <3>3, <3>4
  <2> QED
    BY <2>1, <2>4, <2>5, NothingRan
<1>5. CASE Skip
  <2>1. /\ phase = "applying" /\ at > 0 /\ at' = at - 1 /\ Skipped
        /\ UNCHANGED <<svs, frames, entries, pending, table, phase, outcome, mapped, left, ghost>>
    BY <1>5 DEF Skip, Applying
  <2>2. Owned' = Owned
    BY <2>1 DEF RootIs, Owned
  <2>3. at \in 0..Len(pending) /\ Len(pending) \in Nat
    BY <2>1, InvApplies, WaitingIs DEF Applies
  <2>4. Order(ghost.log, pending, at, svs, Owned, mapped, ghost.cut)
    BY <2>1 DEF OrderInv
  <2>5. Order(ghost.log, pending, at - 1, svs, Owned, mapped, ghost.cut)
    <3>1. NoneMissed(ghost.log, pending, at - 1)
      <4>1. \E k \in DOMAIN ghost.log : ghost.log[k].target = pending[at].target
        BY <2>1, <2>4 DEF Order, MappedRan, Skipped, This
      <4>2. \A i \in at - 1 + 1 .. Len(pending) : i = at \/ i \in at + 1 .. Len(pending)
        BY <2>1, <2>3
      <4> QED
        BY <2>4, <4>1, <4>2 DEF Order, NoneMissed
    <3>2. NoneEarly(ghost.log, pending, at - 1)
      <4>1. \A i \in at + 1 .. Len(pending) : i \in at - 1 + 1 .. Len(pending)
        BY <2>1, <2>3
      <4> QED
        BY <2>4, <4>1 DEF Order, NoneEarly
    <3>3. ~ghost.cut => RanMapped(ghost.log, pending, at - 1, svs, Owned, mapped)
      <4>1. \A i \in 1..at - 1 : i \in 1..at
        BY <2>1, <2>3
      <4> QED
        BY <2>4, <4>1 DEF Order, RanMapped
    <3> QED
      BY <2>4, <3>1, <3>2, <3>3 DEF Order
  <2> QED
    BY <2>1, <2>2, <2>5 DEF OrderInv
<1>6. ASSUME NEW keep \in BOOLEAN, Apply(keep) PROVE OrderInv'
  <2>1. /\ Applying /\ ~Skipped /\ at' = at - 1 /\ ghost' = Logged
        /\ mapped' = IF Shared THEN mapped \cup {This.target} ELSE mapped
        /\ pending' = pending /\ phase' = phase /\ phase = "applying" /\ at > 0
    BY <1>6 DEF Apply, Applying
  <2>2. \A n : n # NoSv /\ Alive(svs', Owned', n) => Alive(svs, Owned, n)
    BY <1>6, ApplyOwns
  <2>3. ghost'.cut = ghost.cut
    BY <2>1, InvApplies DEF Logged, GhostOK
  <2>4. ghost'.log \in Seq(LogRec)
    BY <2>1, LoggedIs
  <2> DEFINE s == svs'
             O == Owned'
  <2>5. /\ ~ghost.cut => RanOnce(Logged.log, s, O)
        /\ Order(Logged.log, pending, at - 1, s, O,
                 IF Shared THEN mapped \cup {This.target} ELSE mapped, ghost.cut)
    <3>1. \A n : n # NoSv /\ Alive(s, O, n) => Alive(svs, Owned, n)
      BY <2>2
    <3> HIDE DEF s, O
    <3> QED
      BY <2>1, <3>1, RunLogged
  <2>6. RanOnce(ghost'.log, svs', Owned') \/ ghost'.cut
    BY <2>1, <2>3, <2>5
  <2>7. Order(ghost'.log, pending', at', svs', Owned', mapped', ghost'.cut)
    BY <2>1, <2>3, <2>5
  <2> QED
    BY <2>1, <2>4, <2>6, <2>7 DEF OrderInv
<1>7. CASE Die
  <2>1. /\ Applying /\ ~Skipped /\ ghost' = Logged /\ phase = "applying" /\ at > 0 /\ phase' = "idle"
    BY <1>7 DEF Die, Applying, Leave
  <2>2. \A n : n # NoSv /\ Alive(svs', Owned', n) => Alive(svs, Owned, n)
    BY <1>7, <2>1, LeaveOwns DEF Die
  <2>3. ghost'.cut = ghost.cut
    BY <2>1, InvApplies DEF Logged, GhostOK
  <2>4. ghost'.log \in Seq(LogRec)
    BY <2>1, LoggedIs
  <2> DEFINE s == svs'
             O == Owned'
  <2>5. ~ghost.cut => RanOnce(Logged.log, s, O)
    <3>1. \A n : n # NoSv /\ Alive(s, O, n) => Alive(svs, Owned, n)
      BY <2>2
    <3> HIDE DEF s, O
    <3> QED
      BY <2>1, <3>1, RunLogged
  <2> QED
    BY <2>1, <2>3, <2>4, <2>5 DEF OrderInv
<1>8. CASE Return
  <2>1. ghost' = ghost /\ phase = "applying" /\ phase' = "idle" /\ Leave(outcome)
    BY <1>8 DEF Return, Leave
  <2>2. \A n : n # NoSv /\ Alive(svs', Owned', n) => Alive(svs, Owned, n)
    BY <2>1, LeaveOwns
  <2>3. \A k \in DOMAIN ghost.log : ghost.log[k].target # NoSv
    <3>1. Order(ghost.log, pending, at, svs, Owned, mapped, ghost.cut)
      BY <2>1 DEF OrderInv
    <3>2. at \in 0..Len(pending) /\ Len(pending) \in Nat /\ QueueOK(pending, Len(svs), table)
          /\ DOMAIN pending = 1..Len(pending)
      BY <2>1, InvApplies, WaitingIs DEF Applies
    <3>3. \A i \in at + 1 .. Len(pending) : i \in DOMAIN pending
      BY <3>2
    <3>4. \A i \in DOMAIN pending : pending[i].target # NoSv
      BY <3>2 DEF QueueOK, NoSv
    <3> QED
      BY <3>1, <3>3, <3>4 DEF Order, NoneEarly
  <2>4. ~ghost.cut => RanOnce(ghost'.log, svs', Owned')
    BY <2>1, <2>2, <2>3 DEF OrderInv, RanOnce
  <2> QED
    BY <2>1, <2>4 DEF OrderInv
<1> QED
  BY <1>1, <1>2, <1>3, <1>4, <1>5, <1>6, <1>7, <1>8 DEF Next

\* The transforms of a call run in order.
THEOREM Ordered == Spec => []OrderInv
<1>1. Init => OrderInv
  <2>1. ASSUME Init PROVE OrderInv
    <3> DEFINE none == <<>>
    <3>1. none \in Seq(LogRec) /\ DOMAIN none = {}
      BY NoSlots
    <3>2. ghost.log = none /\ phase = "idle"
      BY <2>1 DEF Init
    <3> HIDE DEF none
    <3>3. RanOnce(ghost.log, svs, Owned)
      BY <3>1, <3>2 DEF RanOnce
    <3> QED
      BY <3>1, <3>2, <3>3 DEF OrderInv
  <2> QED
    BY <2>1
<1>2. Inv /\ OrderInv /\ Inv' /\ [Next]_vars => OrderInv'
  BY StepOrder
<1> QED
  BY <1>1, <1>2, Invariant, PTL DEF Spec

\* apply_transforms misses no queued message: it skips one only when it was transformed
\* before, however often and wherever a message is queued.
THEOREM NoneIsMissed == Spec => []AllTransformed
<1>1. ASSUME OrderInv PROVE AllTransformed
  BY <1>1 DEF OrderInv, Order, NoneMissed, AllTransformed
<1> QED
  BY <1>1, Ordered, PTL

\* A message that was queued several times is transformed once, if it is still in the
\* result, whatever is transformed or taken out between its turns (already_mapped).
THEOREM TransformedOnce == Spec => []KeptTransformedOnce
<1>1. ASSUME Inv, OrderInv PROVE KeptTransformedOnce
  <2>1. ASSUME ~ghost.cut, NEW i \in DOMAIN ghost.log, NEW j \in DOMAIN ghost.log,
               ghost.log[j].target = ghost.log[i].target, i # j, NEW k \in Svs
        PROVE  ghost.log[i].target \notin Held(svs[k])
    <3>1. ~InSlots(svs, ghost.log[i].target)
      BY <1>1, <2>1 DEF OrderInv, RanOnce, Alive
    <3>2. k \in DOMAIN svs
      BY <1>1, HeldIs DEF Inv, Typed, Svs
    <3> QED
      BY <3>1, <3>2 DEF InSlots
  <2> QED
    BY <2>1 DEF KeptTransformedOnce
<1> QED
  BY <1>1, Invariant, Ordered, PTL

------------------------------------------------------------------------------
(* Field tables: what the transform of a table gets.  An open table has a block of     *)
(* fieldtable_entries, its marker and then its fields so far; the blocks of the open   *)
(* tables follow each other, and there is nothing else.                                *)

Tables(fs) == {i \in DOMAIN fs : fs[i].kind = "table"}
End(f) == f.base + Len(f.own)
BlockOf(f, es, N) ==
    /\ f.base \in 1..Len(es) /\ End(f) <= Len(es)
    /\ es[f.base].value = NoSv /\ es[f.base].field \in 1..N
    /\ \A j \in 1..Len(f.own) : /\ es[f.base + j].field = f.own[j]
                                /\ es[f.base + j].value # NoSv
Blocks(fs, es, N) ==
    /\ \A i \in Tables(fs) : BlockOf(fs[i], es, N)
    /\ \A i, j \in Tables(fs) : i < j => End(fs[i]) < fs[j].base
    /\ \A q \in 1..Len(es) : \E i \in Tables(fs) : q \in fs[i].base .. End(fs[i])
    /\ 1 \in Tables(fs) => es[fs[1].base].field = 1

\* A transform whose table was closed has the fields that were written to it.
Written(w, p, tb) ==
    \A x \in DOMAIN w :
        /\ w[x] \in Seq(AllFields) /\ x \in DOMAIN p
        /\ p[x].offset >= 0 /\ p[x].size = Len(w[x]) /\ p[x].offset + p[x].size <= Len(tb)
        /\ \A j \in 1..Len(w[x]) : tb[p[x].offset + j].field = w[x][j]
TablesInv ==
    /\ phase = "decoding" => Blocks(frames, entries, Len(pending))
    /\ phase # "idle" /\ ~ghost.cut => Written(ghost.written, pending, table)
    /\ TableIsOwnFields

\* The open tables,
LEMMA TablesAre ==
    ASSUME NEW fs \in Seq(FrameRec)
    PROVE  /\ Len(fs) \in Nat /\ DOMAIN fs = 1..Len(fs) /\ Tables(fs) \subseteq 1..Len(fs)
           /\ \A i \in 1..Len(fs) : /\ fs[i] \in FrameRec /\ fs[i].base \in Nat
                                    /\ fs[i].own \in Seq(AllFields) /\ Len(fs[i].own) \in Nat
                                    /\ End(fs[i]) \in Nat
<1>1. Len(fs) \in Nat /\ DOMAIN fs = 1..Len(fs) /\ \A i \in 1..Len(fs) : fs[i] \in FrameRec
  BY SeqIs
<1>2. ASSUME NEW i \in 1..Len(fs)
      PROVE  fs[i].base \in Nat /\ fs[i].own \in Seq(AllFields)
  <2>1. fs[i] \in FrameRec
    BY <1>1
  <2> QED
    BY <2>1 DEF FrameRec
<1>3. \A i \in 1..Len(fs) : Len(fs[i].own) \in Nat
  BY <1>2, SeqIs
<1> QED
  BY <1>1, <1>2, <1>3 DEF Tables, End

\* the innermost of which has the last block.
LEMMA TopEnds ==
    ASSUME NEW fs \in Seq(FrameRec), NEW es \in Seq(EntryRec), NEW N, Blocks(fs, es, N),
           NEW T \in Tables(fs), \A i \in Tables(fs) : i <= T
    PROVE  End(fs[T]) = Len(es)
<1>1. Len(es) \in Nat
  BY SeqIs
<1>2. fs[T].base \in 1..Len(es) /\ End(fs[T]) <= Len(es)
  BY DEF Blocks, BlockOf
<1>3. PICK i \in Tables(fs) : Len(es) \in fs[i].base .. End(fs[i])
  <2>1. Len(es) \in 1..Len(es)
    BY <1>1, <1>2
  <2> QED
    BY <2>1 DEF Blocks
<1>4. /\ fs[i].base \in Nat /\ End(fs[i]) \in Nat /\ End(fs[T]) \in Nat /\ i \in Nat /\ T \in Nat
      /\ i <= T
  BY TablesAre
<1>5. i = T
  <2>1. i < T => End(fs[i]) < fs[T].base
    BY DEF Blocks
  <2> QED
    BY <1>1, <1>2, <1>3, <1>4, <2>1
<1> QED
  BY <1>1, <1>2, <1>3, <1>4, <1>5

\* The same tables are open.
SameTables(fs, gs) ==
    /\ gs \in Seq(FrameRec) /\ Tables(gs) = Tables(fs)
    /\ \A i \in Tables(fs) : gs[i].base = fs[i].base /\ gs[i].own = fs[i].own

\* So are their blocks, the queue being as long or longer.
LEMMA BlocksSame ==
    ASSUME NEW fs, NEW gs, SameTables(fs, gs), NEW es, NEW N \in Nat, NEW M \in Nat, N <= M,
           Blocks(fs, es, N)
    PROVE  Blocks(gs, es, M)
<1>1. \A i \in Tables(fs) : End(gs[i]) = End(fs[i]) /\ gs[i].base = fs[i].base
                            /\ gs[i].own = fs[i].own
  BY DEF SameTables, End
<1>2. Tables(gs) = Tables(fs)
  BY DEF SameTables
<1>3. \A x \in 1..N : x \in 1..M
  OBVIOUS
<1>4. ASSUME NEW i \in Tables(fs) PROVE BlockOf(gs[i], es, M)
  <2>1. BlockOf(fs[i], es, N)
    BY DEF Blocks
  <2> QED
    BY <1>1, <1>3, <2>1 DEF BlockOf
<1>5. \A i, j \in Tables(fs) : i < j => End(gs[i]) < gs[j].base
  BY <1>1 DEF Blocks
<1>6. \A q \in 1..Len(es) : \E i \in Tables(fs) : q \in gs[i].base .. End(gs[i])
  BY <1>1 DEF Blocks
<1>7. 1 \in Tables(fs) => es[gs[1].base].field = 1
  BY <1>1 DEF Blocks
<1> QED
  BY <1>2, <1>4, <1>5, <1>6, <1>7 DEF Blocks

\* No table is opened or closed with an array, a map or a hash.
LEMMA TablesPushed ==
    ASSUME NEW fs \in Seq(FrameRec), NEW r \in FrameRec, r.kind # "table"
    PROVE  SameTables(fs, Append(fs, r))
<1> DEFINE gs == Append(fs, r)
           L == Len(fs)
<1>1. /\ gs \in Seq(FrameRec) /\ L \in Nat /\ DOMAIN gs = 1..(L + 1) /\ DOMAIN fs = 1..L
      /\ \A i \in 1..L : gs[i] = fs[i]
      /\ gs[L + 1] = r
  BY AppendOf
<1> HIDE DEF gs, L
<1>2. \A i \in 1..(L + 1) : i \in 1..L \/ i = L + 1
  BY <1>1
<1>3. \A i \in 1..L : i \in 1..(L + 1)
  BY <1>1
<1>4. Tables(gs) = Tables(fs)
  BY <1>1, <1>2, <1>3 DEF Tables
<1>5. \A i \in Tables(fs) : gs[i] = fs[i]
  BY <1>1 DEF Tables
<1> QED
  BY <1>1, <1>4, <1>5 DEF SameTables, gs

\* A container that is no table is closed.
LEMMA TablesPopped ==
    ASSUME NEW fs \in Seq(FrameRec), Len(fs) > 0, Last(fs).kind # "table"
    PROVE  SameTables(fs, Front(fs))
<1> DEFINE gs == Front(fs)
           L == Len(fs)
<1>1. /\ gs \in Seq(FrameRec) /\ L \in Nat /\ DOMAIN gs = 1..(L - 1) /\ DOMAIN fs = 1..L
      /\ \A i \in 1..(L - 1) : gs[i] = fs[i]
      /\ fs[L].kind # "table"
  BY FrontOf
<1> HIDE DEF gs, L
<1>2. \A i \in 1..L : i \in 1..(L - 1) \/ i = L
  BY <1>1
<1>3. \A i \in 1..(L - 1) : i \in 1..L
  BY <1>1
<1>4. Tables(gs) = Tables(fs)
  BY <1>1, <1>2, <1>3 DEF Tables
<1>5. \A i \in Tables(fs) : gs[i] = fs[i]
  BY <1>1, <1>2 DEF Tables
<1> QED
  BY <1>1, <1>4, <1>5 DEF SameTables, gs

\* The innermost table is the last container: it gets one more field.
OneMore(fs, gs, f) ==
    /\ gs \in Seq(FrameRec) /\ Len(gs) = Len(fs)
    /\ \A i \in 1..Len(fs) :
         /\ gs[i].kind = fs[i].kind /\ gs[i].base = fs[i].base
         /\ i = Len(fs) => gs[i].own = Append(fs[i].own, f)
         /\ i # Len(fs) => gs[i].own = fs[i].own

\* Its block grows with it.
LEMMA BlocksMore ==
    ASSUME NEW fs \in Seq(FrameRec), NEW es \in Seq(EntryRec), NEW N, Blocks(fs, es, N),
           Len(fs) \in Tables(fs), NEW f \in AllFields, NEW n \in Nat, n # NoSv,
           NEW gs, OneMore(fs, gs, f)
    PROVE  Blocks(gs, Append(es, [field |-> f, value |-> n]), N)
<1> DEFINE T == Len(fs)
           e == [field |-> f, value |-> n]
           ds == Append(es, e)
           K == Len(es)
           own == fs[T].own
           O == Len(own)
<1>1. /\ T \in Nat /\ T \in 1..T /\ DOMAIN fs = 1..T /\ DOMAIN gs = 1..T
      /\ \A i \in 1..T : /\ fs[i].base \in Nat /\ fs[i].own \in Seq(AllFields)
                         /\ Len(fs[i].own) \in Nat /\ End(fs[i]) \in Nat
      /\ Tables(fs) \subseteq 1..T
  <2>1. T \in Nat /\ DOMAIN fs = 1..T /\ DOMAIN gs = 1..T /\ T \in 1..T
    BY TablesAre DEF OneMore
  <2> QED
    BY <2>1, TablesAre
<1>2. End(fs[T]) = K
  <2>1. \A i \in Tables(fs) : i <= T
    <3> HIDE DEF T
    <3> QED
      BY <1>1
  <2> QED
    BY <2>1, TopEnds
<1>3. e \in EntryRec /\ e.field = f /\ e.value = n
  BY DEF EntryRec
<1> HIDE DEF e
<1>4. /\ ds \in Seq(EntryRec) /\ Len(ds) = K + 1 /\ K \in Nat
      /\ \A i \in 1..K : ds[i] = es[i]
      /\ ds[K + 1] = e
  BY <1>3, AppendOf
<1>5. /\ Len(gs[T].own) = O + 1 /\ O \in Nat
      /\ \A j \in 1..O : gs[T].own[j] = own[j]
      /\ gs[T].own[O + 1] = f
  <2>1. own \in Seq(AllFields) /\ gs[T].own = Append(own, f)
    BY <1>1 DEF OneMore
  <2> HIDE DEF own
  <2> QED
    BY <2>1, AppendOf
<1>6. \A i \in 1..T : gs[i].base = fs[i].base /\ (i # T => gs[i].own = fs[i].own)
  BY DEF OneMore
<1>7. Tables(gs) = Tables(fs)
  BY <1>1 DEF Tables, OneMore
<1> HIDE DEF ds, K, own, O, T
<1>8. /\ \A i \in 1..T : i # T => End(gs[i]) = End(fs[i])
      /\ End(gs[T]) = K + 1 /\ K = fs[T].base + O
  <2>1. \A i \in 1..T : i # T => End(gs[i]) = End(fs[i])
    BY <1>6 DEF End
  <2>2. End(gs[T]) = fs[T].base + (O + 1)
    BY <1>1, <1>5, <1>6 DEF End
  <2>3. End(fs[T]) = fs[T].base + O
    BY DEF End, O, own
  <2>4. PICK b \in Nat : b = fs[T].base
    BY <1>1
  <2>5. K = b + O /\ End(gs[T]) = b + (O + 1)
    BY <1>2, <2>2, <2>3, <2>4
  <2>6. End(gs[T]) = K + 1
    BY <1>5, <2>5
  <2> QED
    BY <2>1, <2>4, <2>5, <2>6
<1>9. \A i \in Tables(fs) : BlockOf(fs[i], es, N)
  BY DEF Blocks
<1>10. ASSUME NEW i \in Tables(fs) PROVE BlockOf(gs[i], ds, N)
  <2>1. i \in 1..T /\ fs[i].base \in 1..K /\ End(fs[i]) <= K /\ gs[i].base = fs[i].base
    BY <1>1, <1>6, <1>9 DEF BlockOf, K
  <2>2. ds[fs[i].base] = es[fs[i].base] /\ fs[i].base \in 1..Len(ds)
    BY <1>4, <2>1
  <2>3. End(gs[i]) <= Len(ds)
    <3>1. CASE i = T
      BY <1>4, <1>8, <3>1
    <3>2. CASE i # T
      <4>1. PICK k \in Nat : k = End(fs[i])
        BY <1>1, <2>1
      <4>2. k <= K /\ End(gs[i]) = k
        BY <1>8, <2>1, <3>2, <4>1
      <4> QED
        BY <1>4, <4>2
    <3> QED
      BY <3>1, <3>2
  <2>4. ASSUME NEW j \in 1..Len(gs[i].own)
        PROVE  ds[fs[i].base + j].field = gs[i].own[j] /\ ds[fs[i].base + j].value # NoSv
    <3>1. CASE i # T
      <4>1. gs[i].own = fs[i].own /\ j \in 1..Len(fs[i].own)
        BY <1>6, <2>1, <3>1
      <4>2. es[fs[i].base + j].field = fs[i].own[j] /\ es[fs[i].base + j].value # NoSv
        BY <1>9, <4>1 DEF BlockOf
      <4>3. fs[i].base + j \in 1..K
        <5>1. End(fs[i]) = fs[i].base + Len(fs[i].own)
          BY DEF End
        <5>2. PICK b \in Nat : b = fs[i].base
          BY <1>1, <2>1
        <5>3. PICK o \in Nat : o = Len(fs[i].own)
          BY <1>1, <2>1
        <5>4. b \in 1..K /\ b + o <= K /\ j \in 1..o
          BY <2>1, <4>1, <5>1, <5>2, <5>3
        <5>5. b + j \in 1..K
          BY <1>4, <5>4
        <5> QED
          BY <5>2, <5>5
      <4> QED
        BY <1>4, <4>1, <4>2, <4>3
    <3>2. CASE i = T /\ j \in 1..O
      <4>1. es[fs[i].base + j].field = own[j] /\ es[fs[i].base + j].value # NoSv
        BY <1>9, <3>2 DEF BlockOf, own, O
      <4>2. fs[i].base + j \in 1..K
        <5>1. PICK b \in Nat : b = fs[i].base
          BY <1>1, <2>1
        <5>2. K = b + O /\ b \in 1..K
          BY <1>8, <2>1, <3>2, <5>1
        <5>3. b + j \in 1..K
          BY <1>4, <1>5, <3>2, <5>2
        <5> QED
          BY <5>1, <5>3
      <4> QED
        BY <1>4, <1>5, <3>2, <4>1, <4>2
    <3>3. CASE i = T /\ j = O + 1
      <4>1. fs[T].base + j = K + 1
        <5>1. PICK b \in Nat : b = fs[T].base
          BY <1>1
        <5>2. K = b + O /\ j = O + 1
          BY <1>8, <3>3, <5>1
        <5>3. b + j = K + 1
          BY <1>5, <5>2
        <5> QED
          BY <5>1, <5>3
      <4>2. ds[K + 1].field = f /\ ds[K + 1].value # NoSv
        BY <1>3, <1>4
      <4>3. gs[T].own[j] = f
        BY <1>5, <3>3
      <4> QED
        BY <3>3, <4>1, <4>2, <4>3
    <3> QED
      BY <1>5, <2>1, <3>1, <3>2, <3>3
  <2>5. es[fs[i].base].value = NoSv /\ es[fs[i].base].field \in 1..N
    BY <1>9 DEF BlockOf
  <2> QED
    BY <2>1, <2>2, <2>3, <2>4, <2>5 DEF BlockOf
<1>11. \A i, j \in Tables(fs) : i < j => End(gs[i]) < gs[j].base
  <2>1. ASSUME NEW i \in Tables(fs), NEW j \in Tables(fs), i < j PROVE End(gs[i]) < gs[j].base
    <3>1. i \in 1..T /\ j \in 1..T /\ i # T
      BY <1>1, <2>1
    <3>2. End(fs[i]) < fs[j].base
      BY <2>1 DEF Blocks
    <3> QED
      BY <1>6, <1>8, <3>1, <3>2
  <2> QED
    BY <2>1
<1>12. \A q \in 1..Len(ds) : \E i \in Tables(fs) : q \in gs[i].base .. End(gs[i])
  <2>1. ASSUME NEW q \in 1..Len(ds) PROVE \E i \in Tables(fs) : q \in gs[i].base .. End(gs[i])
    <3>1. CASE q \in 1..K
      <4>1. PICK i \in Tables(fs) : q \in fs[i].base .. End(fs[i])
        BY <3>1 DEF Blocks, K
      <4>2. i \in 1..T
        BY <1>1
      <4>3. q \in gs[i].base .. End(gs[i])
        <5>1. CASE i # T
          BY <1>6, <1>8, <4>1, <4>2, <5>1
        <5>2. CASE i = T
          <6>1. q \in fs[T].base .. K /\ gs[T].base = fs[T].base /\ End(gs[T]) = K + 1
            BY <1>2, <1>6, <1>8, <4>1, <4>2, <5>2
          <6>2. PICK b \in Nat : b = fs[T].base
            BY <1>1
          <6>3. q \in b .. K + 1
            BY <1>4, <6>1, <6>2
          <6> QED
            BY <5>2, <6>1, <6>2, <6>3
        <5> QED
          BY <5>1, <5>2
      <4> QED
        BY <4>3
    <3>2. CASE q = K + 1
      <4>1. T \in Tables(fs)
        BY DEF T
      <4>2. PICK b \in Nat : b = fs[T].base
        BY <1>1
      <4>3. gs[T].base = b /\ End(gs[T]) = K + 1 /\ K = b + O
        BY <1>1, <1>6, <1>8, <4>2
      <4>4. q \in b .. K + 1
        BY <1>4, <1>5, <3>2, <4>3
      <4>5. q \in gs[T].base .. End(gs[T])
        BY <4>3, <4>4
      <4> QED
        BY <4>1, <4>5
    <3> QED
      BY <1>4, <3>1, <3>2
  <2> QED
    BY <2>1
<1>13. 1 \in Tables(fs) => ds[gs[1].base].field = 1
  <2>1. ASSUME 1 \in Tables(fs) PROVE ds[gs[1].base].field = 1
    <3>1. es[fs[1].base].field = 1 /\ fs[1].base \in 1..K
      BY <1>9, <2>1 DEF Blocks, BlockOf, K
    <3>2. gs[1].base = fs[1].base
      BY <1>1, <1>6, <2>1
    <3> QED
      BY <1>4, <3>1, <3>2
  <2> QED
    BY <2>1
<1> QED
  BY <1>7, <1>10, <1>11, <1>12, <1>13 DEF Blocks, ds, e

\* A block stays where it is.
LEMMA BlockKept ==
    ASSUME NEW f, f.base \in Nat, Len(f.own) \in Nat, NEW es, NEW N, BlockOf(f, es, N),
           NEW K \in Nat, End(f) <= K, NEW ds, Len(ds) \in Nat, K <= Len(ds),
           \A j \in 1..K : ds[j] = es[j]
    PROVE  BlockOf(f, ds, N)
<1>1. PICK b \in Nat : b = f.base
  OBVIOUS
<1>2. PICK o \in Nat : o = Len(f.own)
  OBVIOUS
<1>3. b \in 1..Len(es) /\ End(f) = b + o /\ b + o <= K
  BY <1>1, <1>2 DEF BlockOf, End
<1>4. b \in 1..K /\ b \in 1..Len(ds) /\ End(f) <= Len(ds)
  BY <1>3
<1>5. ds[b].value = NoSv /\ ds[b].field \in 1..N
  BY <1>1, <1>4 DEF BlockOf
<1>6. ASSUME NEW j \in 1..o PROVE ds[b + j].field = f.own[j] /\ ds[b + j].value # NoSv
  <2>1. b + j \in 1..K
    BY <1>3, <1>4
  <2>2. es[b + j].field = f.own[j] /\ es[b + j].value # NoSv
    BY <1>1, <1>2 DEF BlockOf
  <2> QED
    BY <2>1, <2>2
<1> QED
  BY <1>1, <1>2, <1>4, <1>5, <1>6 DEF BlockOf

\* A table is opened, with nothing but its marker.
Opens1(fs, gs, b) ==
    /\ gs \in Seq(FrameRec) /\ Len(gs) = Len(fs) + 1
    /\ \A i \in 1..Len(fs) : gs[i] = fs[i]
    /\ gs[Len(fs) + 1].kind = "table" /\ gs[Len(fs) + 1].base = b
    /\ gs[Len(fs) + 1].own = <<>>

\* Its block begins at the marker, above the others.
LEMMA BlocksOpen ==
    ASSUME NEW fs \in Seq(FrameRec), NEW es \in Seq(EntryRec), NEW N \in Nat, Blocks(fs, es, N),
           NEW x \in 1..N, Len(fs) = 0 => x = 1,
           NEW gs, Opens1(fs, gs, Len(es) + 1)
    PROVE  Blocks(gs, es \o <<[field |-> x, value |-> NoSv]>>, N)
<1> DEFINE T == Len(fs)
           K == Len(es)
           e == [field |-> x, value |-> NoSv]
           ds == es \o <<e>>
<1>1. /\ T \in Nat /\ DOMAIN fs = 1..T /\ Tables(fs) \subseteq 1..T
      /\ \A i \in 1..T : fs[i].base \in Nat /\ End(fs[i]) \in Nat
  BY TablesAre
<1>2. /\ gs \in Seq(FrameRec) /\ DOMAIN gs = 1..(T + 1) /\ \A i \in 1..T : gs[i] = fs[i]
      /\ gs[T + 1].kind = "table" /\ gs[T + 1].base = K + 1 /\ Len(gs[T + 1].own) = 0
  BY TablesAre DEF Opens1
<1>3. e \in EntryRec /\ e.field = x /\ e.value = NoSv
  BY DEF EntryRec, NoSv
<1> HIDE DEF e
<1>4. /\ ds \in Seq(EntryRec) /\ Len(ds) = K + 1 /\ K \in Nat
      /\ \A i \in 1..K : ds[i] = es[i]
      /\ ds[K + 1] = e
  <2>1. ds = Append(es, e)
    BY <1>3, AppendIsConcat
  <2> HIDE DEF ds
  <2> QED
    BY <1>3, <2>1, AppendOf
<1> HIDE DEF ds, T, K
<1>5. Tables(gs) = Tables(fs) \cup {T + 1}
  <2>1. \A i : i \in 1..(T + 1) <=> i \in 1..T \/ i = T + 1
    BY <1>1
  <2> QED
    BY <1>1, <1>2, <2>1 DEF Tables
<1>6. End(gs[T + 1]) = K + 1
  BY <1>2, <1>4 DEF End
<1>7. \A i \in Tables(fs) : BlockOf(fs[i], es, N) /\ gs[i] = fs[i]
  BY <1>1, <1>2 DEF Blocks
<1>8. ASSUME NEW i \in Tables(fs) PROVE BlockOf(fs[i], ds, N) /\ End(fs[i]) < K + 1
  <2>1. fs[i].base \in Nat /\ Len(fs[i].own) \in Nat /\ End(fs[i]) \in Nat
    BY <1>1, TablesAre
  <2>2. BlockOf(fs[i], es, N) /\ End(fs[i]) <= K
    BY <1>7 DEF BlockOf, K
  <2>3. K <= Len(ds) /\ Len(ds) \in Nat
    BY <1>4
  <2>4. BlockOf(fs[i], ds, N)
    BY <1>4, <2>1, <2>2, <2>3, BlockKept
  <2> QED
    BY <1>4, <2>1, <2>2, <2>4
<1>9. BlockOf(gs[T + 1], ds, N)
  <2>1. K + 1 \in 1..Len(ds)
    BY <1>4
  <2>2. 1..Len(gs[T + 1].own) = {}
    BY <1>2
  <2> QED
    BY <1>2, <1>3, <1>4, <1>6, <2>1, <2>2 DEF BlockOf
<1>10. \A i \in Tables(gs) : BlockOf(gs[i], ds, N)
  BY <1>5, <1>7, <1>8, <1>9
<1>11. \A i, j \in Tables(gs) : i < j => End(gs[i]) < gs[j].base
  <2>1. ASSUME NEW i \in Tables(gs), NEW j \in Tables(gs), i < j PROVE End(gs[i]) < gs[j].base
    <3>1. i # T + 1
      <4>1. j \in 1..T + 1
        BY <1>1, <1>5
      <4> QED
        BY <1>1, <2>1, <4>1
    <3>2. i \in Tables(fs)
      BY <1>5, <3>1
    <3>3. CASE j = T + 1
      BY <1>2, <1>7, <1>8, <3>2, <3>3
    <3>4. CASE j # T + 1
      BY <1>5, <1>7, <2>1, <3>2, <3>4 DEF Blocks
    <3> QED
      BY <3>3, <3>4
  <2> QED
    BY <2>1
<1>12. \A q \in 1..Len(ds) : \E i \in Tables(gs) : q \in gs[i].base .. End(gs[i])
  <2>1. ASSUME NEW q \in 1..Len(ds) PROVE \E i \in Tables(gs) : q \in gs[i].base .. End(gs[i])
    <3>1. CASE q \in 1..K
      <4>1. PICK i \in Tables(fs) : q \in fs[i].base .. End(fs[i])
        BY <3>1 DEF Blocks, K
      <4> QED
        BY <1>5, <1>7, <4>1
    <3>2. CASE q = K + 1
      <4>1. q \in gs[T + 1].base .. End(gs[T + 1])
        BY <1>2, <1>4, <1>6, <3>2
      <4> QED
        BY <1>5, <4>1
    <3> QED
      BY <1>4, <3>1, <3>2
  <2> QED
    BY <2>1
<1>13. 1 \in Tables(gs) => ds[gs[1].base].field = 1
  <2>1. CASE T = 0
    <3>1. K = 0
      <4>1. Tables(fs) = {}
        BY <1>1, <2>1
      <4>2. 1..K = {}
        BY <4>1 DEF Blocks, K
      <4> QED
        BY <1>4, <4>2
    <3> QED
      BY <1>2, <1>3, <1>4, <2>1, <3>1 DEF T
  <2>2. CASE T # 0
    <3>1. 1 # T + 1
      BY <1>1, <2>2
    <3>2. ASSUME 1 \in Tables(gs) PROVE ds[gs[1].base].field = 1
      <4>1. 1 \in Tables(fs)
        BY <1>5, <3>1, <3>2
      <4>2. fs[1].base \in 1..K /\ es[fs[1].base].field = 1 /\ gs[1] = fs[1]
        BY <1>7, <4>1 DEF Blocks, BlockOf, K
      <4> QED
        BY <1>4, <4>2
    <3> QED
      BY <3>2
  <2> QED
    BY <2>1, <2>2
<1> QED
  BY <1>10, <1>11, <1>12, <1>13 DEF Blocks, ds, e

\* The innermost table is closed.
Closes1(fs, T, gs) ==
    /\ gs \in Seq(FrameRec) /\ Tables(gs) = Tables(fs) \ {T}
    /\ \A i \in Tables(gs) : gs[i] = fs[i]

\* The blocks of the others are below its marker.
LEMMA BlocksClose ==
    ASSUME NEW fs \in Seq(FrameRec), NEW es \in Seq(EntryRec), NEW N, Blocks(fs, es, N),
           NEW T \in Tables(fs), \A i \in Tables(fs) : i <= T,
           NEW gs, Closes1(fs, T, gs),
           NEW ds \in Seq(EntryRec), Len(ds) = fs[T].base - 1, \A j \in 1..Len(ds) : ds[j] = es[j]
    PROVE  Blocks(gs, ds, N)
<1>1. /\ \A i \in Tables(fs) : /\ i \in Nat /\ fs[i].base \in Nat /\ End(fs[i]) \in Nat
                               /\ Len(fs[i].own) \in Nat
      /\ Len(ds) \in Nat /\ Len(es) \in Nat
  BY TablesAre, SeqIs
<1>2. PICK K \in Nat : K = Len(ds) /\ fs[T].base = K + 1
  BY <1>1
<1>3. Tables(gs) = Tables(fs) \ {T} /\ \A i \in Tables(gs) : gs[i] = fs[i]
  BY DEF Closes1
<1>4. ASSUME NEW i \in Tables(gs) PROVE i \in Tables(fs) /\ i < T /\ End(fs[i]) <= K
  <2>1. i \in Tables(fs) /\ i # T /\ i <= T
    BY <1>3
  <2>2. i < T
    BY <1>1, <2>1
  <2>3. End(fs[i]) < K + 1
    BY <1>2, <2>1, <2>2 DEF Blocks
  <2> QED
    BY <1>1, <2>1, <2>2, <2>3
<1>5. ASSUME NEW i \in Tables(gs) PROVE BlockOf(gs[i], ds, N)
  <2>0. i \in Tables(fs) /\ BlockOf(fs[i], es, N) /\ gs[i] = fs[i]
    BY <1>3, <1>4 DEF Blocks
  <2>1. fs[i].base \in Nat /\ Len(fs[i].own) \in Nat
    BY <1>1, <2>0
  <2>2. End(fs[i]) <= K /\ K <= Len(ds) /\ \A j \in 1..K : ds[j] = es[j]
    BY <1>2, <1>4
  <2>3. BlockOf(fs[i], ds, N)
    BY <1>1, <2>0, <2>1, <2>2, BlockKept
  <2> QED
    BY <2>0, <2>3
<1>6. \A i, j \in Tables(gs) : i < j => End(gs[i]) < gs[j].base
  BY <1>3, <1>4 DEF Blocks
<1>7. \A q \in 1..Len(ds) : \E i \in Tables(gs) : q \in gs[i].base .. End(gs[i])
  <2>1. ASSUME NEW q \in 1..Len(ds) PROVE \E i \in Tables(gs) : q \in gs[i].base .. End(gs[i])
    <3>1. fs[T].base \in 1..Len(es)
      BY DEF Blocks, BlockOf
    <3>2. q \in 1..Len(es) /\ q < K + 1
      <4>1. PICK n \in Nat : n = Len(es)
        BY <1>1
      <4>2. K + 1 \in 1..n /\ q \in 1..K
        BY <1>2, <3>1, <4>1
      <4>3. q \in 1..n /\ q < K + 1
        BY <4>2
      <4> QED
        BY <4>1, <4>3
    <3>3. PICK i \in Tables(fs) : q \in fs[i].base .. End(fs[i])
      BY <3>2 DEF Blocks
    <3>4. i # T
      BY <1>1, <1>2, <3>2, <3>3
    <3> QED
      BY <1>3, <3>3, <3>4
  <2> QED
    BY <2>1
<1>8. 1 \in Tables(gs) => ds[gs[1].base].field = 1
  <2>1. ASSUME 1 \in Tables(gs) PROVE ds[gs[1].base].field = 1
    <3>1. BlockOf(gs[1], ds, N)
      BY <1>5, <2>1
    <3>2. gs[1].base \in 1..Len(ds)
      BY <3>1 DEF BlockOf
    <3>3. es[fs[1].base].field = 1 /\ gs[1] = fs[1]
      BY <1>3, <1>4, <2>1 DEF Blocks
    <3> QED
      BY <3>2, <3>3
  <2> QED
    BY <2>1
<1> QED
  BY <1>5, <1>6, <1>7, <1>8 DEF Blocks

\* finish_add_transform_fieldtable finds the fields of the innermost table.
LEMMA OwnIs ==
    ASSUME frames \in Seq(FrameRec), entries \in Seq(EntryRec), OnceOrNot(Values(entries)),
           NEW N \in Nat, Blocks(frames, entries, N),
           NEW T \in Tables(frames), \A i \in Tables(frames) : i <= T
    PROVE  /\ Markers # {} /\ Innermost = frames[T].base /\ Innermost \in 1..Len(entries)
           /\ entries[Innermost].value = NoSv /\ entries[Innermost].field \in 1..N
           /\ Outer \in Seq(EntryRec) /\ Len(Outer) = frames[T].base - 1
           /\ \A j \in 1..Len(Outer) : Outer[j] = entries[j]
           /\ Own \in Seq(EntryRec) /\ Len(Own) = Len(frames[T].own)
           /\ \A j \in 1..Len(Own) : Own[j].field = frames[T].own[j]
<1>1. /\ \A i \in Tables(frames) : /\ i \in Nat /\ frames[i].base \in Nat
                                   /\ End(frames[i]) \in Nat /\ Len(frames[i].own) \in Nat
      /\ Len(entries) \in Nat /\ DOMAIN entries = 1..Len(entries)
  BY TablesAre, SeqIs
<1>2. PICK b \in Nat : b = frames[T].base
  BY <1>1
<1>3. PICK o \in Nat : o = Len(frames[T].own)
  BY <1>1
<1>4. /\ b \in 1..Len(entries) /\ entries[b].value = NoSv /\ entries[b].field \in 1..N
      /\ \A j \in 1..o : entries[b + j].field = frames[T].own[j]
  BY <1>2, <1>3 DEF Blocks, BlockOf
<1>5. Len(entries) = b + o
  <2>1. End(frames[T]) = Len(entries)
    BY TopEnds
  <2> QED
    BY <1>2, <1>3, <2>1 DEF End
<1>6. b \in Markers /\ Markers # {}
  BY <1>1, <1>4 DEF Markers
<1>7. Innermost \in 1..Len(entries) /\ Innermost \in Nat /\ Innermost \in Markers
      /\ \A i \in 1..Len(entries) : i > Innermost => entries[i].value # NoSv
  BY <1>6, InnermostIs
<1>8. Innermost = b
  <2>1. ~(b > Innermost)
    BY <1>4, <1>7
  <2>2. ~(Innermost > b)
    <3>1. SUFFICES ASSUME Innermost > b PROVE FALSE
      OBVIOUS
    <3>2. PICK j \in 1..o : Innermost = b + j
      <4>1. Innermost - b \in 1..o /\ Innermost = b + (Innermost - b)
        BY <1>5, <1>7, <3>1
      <4> QED
        BY <4>1
    <3>3. entries[b + j].value # NoSv
      BY <1>2, <1>3 DEF Blocks, BlockOf
    <3> QED
      BY <1>7, <3>2, <3>3 DEF Markers
  <2> QED
    BY <1>7, <2>1, <2>2
<1>9. /\ Outer \in Seq(EntryRec) /\ Len(Outer) = b - 1 /\ \A j \in 1..Len(Outer) : Outer[j] = entries[j]
      /\ Own \in Seq(EntryRec) /\ Len(Own) = Len(entries) - b
      /\ \A j \in 1..Len(Own) : Own[j] = entries[b + j]
  <2> DEFINE x == SubSeq(entries, 1, b - 1)
             y == SubSeq(entries, b + 1, Len(entries))
  <2>1. x \in Seq(EntryRec) /\ Len(x) = b - 1 /\ \A j \in 1..Len(x) : x[j] = entries[j]
    BY <1>4, ValuesSplit
  <2>2. /\ y \in Seq(EntryRec) /\ Len(y) = Len(entries) - b
        /\ \A j \in 1..Len(y) : y[j] = entries[b + j]
    BY <1>4, ValuesSplit
  <2>3. Outer = x /\ Own = y
    BY <1>8 DEF Outer, Own
  <2> HIDE DEF x, y
  <2> QED
    BY <2>1, <2>2, <2>3
<1>10. Len(Own) = o
  BY <1>5, <1>9
<1>11. \A j \in 1..Len(Own) : Own[j].field = frames[T].own[j]
  BY <1>4, <1>9, <1>10
<1> QED
  BY <1>2, <1>3, <1>4, <1>6, <1>8, <1>9, <1>10, <1>11

\* A field that is stored in a table is noted for it; others are no concern of it.
LEMMA ItemBlocks ==
    ASSUME Decodes(svs, frames, entries, pending, table), NEW N \in Nat,
           Blocks(frames, entries, N), Top.kind \in {"message", "table"}, NEW f \in AllFields
    PROVE  Blocks(Noted(f), ItemTarget(f).entries, N) /\ Noted(f) \in Seq(FrameRec)
<1> DEFINE L == Len(frames)
           gs == Noted(f)
           es == ItemTarget(f).entries
<1>1. /\ frames \in Seq(FrameRec) /\ entries \in Seq(EntryRec) /\ FramesOK(frames, Len(svs))
      /\ Len(svs) \in Nat /\ L \in Nat /\ L \in 1..L /\ DOMAIN frames = 1..L /\ Top = frames[L]
      /\ NextSv \in Nat /\ NextSv # NoSv
  <2>1. NextSv = Len(svs) + 1 /\ Len(svs) \in Nat
    BY TopIs
  <2> QED
    BY <2>1, TopIs DEF Decodes, NoSv
<1>2. /\ gs \in Seq(FrameRec) /\ Len(gs) = L
      /\ \A i \in 1..L :
           /\ gs[i].kind = frames[i].kind /\ gs[i].base = frames[i].base
           /\ gs[i].own = IF i = L /\ frames[i].kind = "table"
                          THEN Append(frames[i].own, f) ELSE frames[i].own
           /\ i # L => gs[i] = frames[i]
  BY <1>1, NotedIs
<1> HIDE DEF gs
<1>3. CASE Top.kind = "table"
  <2>1. es = Append(entries, [field |-> f, value |-> NextSv])
    BY <1>3 DEF ItemTarget
  <2>2. OneMore(frames, gs, f)
    BY <1>1, <1>2, <1>3 DEF OneMore
  <2>3. L \in Tables(frames)
    BY <1>1, <1>3 DEF Tables
  <2> HIDE DEF es
  <2>4. Blocks(gs, es, N)
    BY <1>1, <2>1, <2>2, <2>3, BlocksMore
  <2> QED
    BY <1>2, <2>4 DEF es, gs
<1>4. CASE Top.kind # "table"
  <2>1. es = entries
    BY <1>4 DEF ItemTarget
  <2>2. Tables(gs) = Tables(frames)
    BY <1>1, <1>2 DEF Tables
  <2>3. SameTables(frames, gs)
    BY <1>1, <1>2, <1>4, <2>2 DEF SameTables, Tables
  <2> HIDE DEF es
  <2>4. Blocks(gs, entries, N)
    BY <2>3, BlocksSame
  <2> QED
    BY <1>2, <2>1, <2>4 DEF es, gs
<1> QED
  BY <1>3, <1>4

\* The value of a map entry is no concern of a table.
LEMMA TablesSet ==
    ASSUME NEW fs \in Seq(FrameRec), Len(fs) > 0, Last(fs).kind = "value", NEW n \in Nat
    PROVE  LET gs == [fs EXCEPT ![Len(fs)].sv = n] IN SameTables(fs, gs)
<1> DEFINE L == Len(fs)
           r == fs[L]
           v == [r EXCEPT !.sv = n]
           gs == [fs EXCEPT ![L] = v]
<1>1. /\ L \in Nat /\ L \in 1..L /\ DOMAIN fs = 1..L /\ r \in FrameRec /\ r.kind = "value"
      /\ \A i \in 1..L : fs[i] \in FrameRec
  BY LastOf, SeqIs
<1> HIDE DEF L, r
<1>2. v \in FrameRec /\ v.kind = "value"
  BY <1>1 DEF FrameRec
<1> HIDE DEF v
<1>3. DOMAIN gs = 1..L /\ gs[L] = v /\ \A i \in 1..L : i # L => gs[i] = fs[i]
  BY <1>1
<1>4. gs \in [1..L -> FrameRec]
  BY <1>1, <1>2
<1>5. gs \in Seq(FrameRec)
  BY <1>1, <1>4, IsSeq
<1> HIDE DEF gs
<1>6. Tables(gs) = Tables(fs)
  BY <1>1, <1>2, <1>3 DEF Tables, r
<1>7. \A i \in Tables(fs) : gs[i] = fs[i]
  BY <1>1, <1>3 DEF Tables, r
<1> QED
  BY <1>5, <1>6, <1>7 DEF SameTables, gs, v, r, L

\* The same for what a sub-message is stored in.
LEMMA SubBlocks ==
    ASSUME Decodes(svs, frames, entries, pending, table), NEW N \in Nat,
           Blocks(frames, entries, N), NEW f \in AllFields
    PROVE  LET t == SubTarget(f)
               fs == IF Top.kind = "value"
                     THEN [frames EXCEPT ![Len(frames)].sv = t.sv] ELSE Noted(f)
           IN Blocks(fs, t.entries, N) /\ fs \in Seq(FrameRec)
<1> DEFINE t == SubTarget(f)
           L == Len(frames)
           fs == IF Top.kind = "value"
                 THEN [frames EXCEPT ![L].sv = t.sv] ELSE Noted(f)
<1>1. /\ frames \in Seq(FrameRec) /\ L \in Nat /\ L \in 1..L /\ DOMAIN frames = 1..L
      /\ Top = frames[L] /\ Top.kind \in {"message", "table", "array", "value"}
  BY TopIs DEF Decodes
<1>2. fs \in Seq(FrameRec)
  BY SubDecodes DEF Decodes
<1>3. CASE Top.kind \in {"message", "table"}
  <2>1. t = ItemTarget(f) /\ fs = Noted(f)
    BY <1>3 DEF SubTarget
  <2> QED
    BY <1>3, <2>1, ItemBlocks
<1>4. CASE Top.kind = "array"
  <2>1. t.entries = entries
    BY <1>4 DEF SubTarget
  <2>2. fs = frames
    BY <1>4 DEF Noted
  <2> QED
    BY <1>1, <2>1, <2>2
<1>5. CASE Top.kind = "value"
  <2>1. t.entries = entries
    BY <1>5 DEF SubTarget
  <2> HIDE DEF t
  <2>2. fs = [frames EXCEPT ![L].sv = t.sv]
    BY <1>5
  <2>3. Len(frames) > 0 /\ Last(frames).kind = "value" /\ t.sv \in Nat
    <3>1. t.sv = NextSv
      BY <1>5 DEF SubTarget, t
    <3> QED
      BY <1>1, <1>5, <3>1, TopIs DEF L, Top
  <2>6. SameTables(frames, fs)
    BY <1>1, <2>2, <2>3, TablesSet DEF L
  <2> HIDE DEF fs
  <2>7. Blocks(fs, entries, N)
    BY <2>6, BlocksSame
  <2> QED
    BY <1>2, <2>1, <2>7 DEF fs, t, L
<1> QED
  BY <1>1, <1>3, <1>4, <1>5

\* Blocks that stay the same, one after the other.
LEMMA SameTwice ==
    ASSUME NEW fs, NEW gs, NEW hs, SameTables(fs, gs), SameTables(gs, hs)
    PROVE  SameTables(fs, hs)
BY DEF SameTables

\* What is to be shown of a callback.
LEMMA EventTables ==
    ASSUME phase' = "decoding", OrderInv', Blocks(frames', entries', Len(pending')),
           Written(ghost'.written, pending', table')
    PROVE  TablesInv'
<1>1. ghost'.log = <<>>
  BY DEF OrderInv
<1>2. DOMAIN ghost'.log = {}
  BY <1>1
<1>3. TableIsOwnFields'
  BY <1>2 DEF TableIsOwnFields
<1> QED
  BY <1>3 DEF TablesInv

\* What holds before it.
LEMMA TablesDecode ==
    ASSUME Inv, TablesInv, phase = "decoding"
    PROVE  /\ Decodes(svs, frames, entries, pending, table) /\ GhostOK(ghost) /\ ~ghost.cut
           /\ Blocks(frames, entries, Len(pending)) /\ Written(ghost.written, pending, table)
           /\ Len(pending) \in Nat /\ frames \in Seq(FrameRec) /\ entries \in Seq(EntryRec)
           /\ pending \in Seq(QueueRec) /\ table \in Seq(EntryRec) /\ Len(frames) > 0
<1>1. Decodes(svs, frames, entries, pending, table) /\ GhostOK(ghost) /\ ~ghost.cut
  BY InvDecodes, GhostDecodes
<1>2. /\ frames \in Seq(FrameRec) /\ entries \in Seq(EntryRec) /\ pending \in Seq(QueueRec)
      /\ table \in Seq(EntryRec) /\ FramesOK(frames, Len(svs))
  BY <1>1 DEF Decodes
<1>3. Len(pending) \in Nat /\ Len(frames) > 0
  BY <1>2, SeqIs DEF FramesOK
<1> QED
  BY <1>1, <1>2, <1>3 DEF TablesInv

\* A scalar is stored.
LEMMA ScalarTables ==
    ASSUME Inv, TablesInv, OrderInv', NEW f \in AllFields, OnScalar(f)
    PROVE  TablesInv'
<1>1. /\ phase = "decoding" /\ phase' = "decoding" /\ Top.kind \in {"message", "table"}
      /\ frames' = Noted(f) /\ entries' = ItemTarget(f).entries
      /\ pending' = pending /\ table' = table /\ ghost' = ghost
  BY DEF OnScalar, Decoding, Event, InMessage
<1>2. /\ Decodes(svs, frames, entries, pending, table) /\ Len(pending) \in Nat
      /\ Blocks(frames, entries, Len(pending)) /\ Written(ghost.written, pending, table)
  BY <1>1, TablesDecode
<1>3. Blocks(frames', entries', Len(pending'))
  BY <1>1, <1>2, ItemBlocks
<1> QED
  BY <1>1, <1>2, <1>3, EventTables

\* An array or a map is opened.
LEMMA StartManyTables ==
    ASSUME Inv, Inv', TablesInv, OrderInv', NEW f \in AllFields, OnStartMany(f)
    PROVE  TablesInv'
<1> DEFINE fs == Noted(f)
           sv == ItemTarget(f).sv
           array == Frame("array", sv, Top.type, f)
           map == Frame("map", sv, Top.type, f)
           value == Frame("value", NoSv, Top.type, f)
<1>1. /\ phase = "decoding" /\ phase' = "decoding" /\ Top.kind \in {"message", "table"}
      /\ f \in DOMAIN Fields[Top.type]
      /\ frames' = fs \o IF Fields[Top.type][f].label = "list" THEN <<array>> ELSE <<map, value>>
      /\ entries' = ItemTarget(f).entries
      /\ pending' = pending /\ table' = table /\ ghost' = ghost
  BY DEF OnStartMany, Decoding, Event, InMessage
<1>2. /\ Decodes(svs, frames, entries, pending, table) /\ Len(pending) \in Nat
      /\ Blocks(frames, entries, Len(pending)) /\ Written(ghost.written, pending, table)
  BY <1>1, TablesDecode
<1>3. Blocks(fs, entries', Len(pending)) /\ fs \in Seq(FrameRec)
  BY <1>1, <1>2, ItemBlocks
<1>4. sv \in Nat /\ NoSv \in Nat /\ Top.type \in Types
  <2>1. \E P : Targets(ItemTarget(f), Outside(Roots1, frames, entries, table), P, pending, f)
    BY <1>1, <1>2, ItemDecodes
  <2>2. Decodes(ItemTarget(f).svs, fs, ItemTarget(f).entries, pending, table)
    BY <1>1, <1>2, ItemDecodes
  <2>3. sv \in 1..Len(ItemTarget(f).svs) /\ Len(ItemTarget(f).svs) \in Nat
    BY <2>1, <2>2, HeldIs DEF Targets, Decodes
  <2>4. Top.type \in Types
    BY <1>2, TopIs DEF FrameRec
  <2> QED
    BY <2>3, <2>4 DEF NoSv
<1>5. /\ array \in FrameRec /\ array.kind = "array"
      /\ map \in FrameRec /\ map.kind = "map"
      /\ value \in FrameRec /\ value.kind = "value"
  <2>1. ASSUME NEW kind \in {"array", "map", "value"}, NEW n \in Nat
        PROVE  Frame(kind, n, Top.type, f) \in FrameRec /\ Frame(kind, n, Top.type, f).kind = kind
    <3> DEFINE T == Top.type
    <3>1. T \in Types /\ f \in DOMAIN Fields[T] /\ <<>> \in Seq(AllFields) /\ 0 \in Nat
      BY <1>1, <1>4
    <3> HIDE DEF T
    <3>2. Frame(kind, n, T, f) \in FrameRec /\ Frame(kind, n, T, f).kind = kind
      BY <3>1 DEF Frame, FrameRec
    <3> QED
      BY <3>2 DEF T
  <2> QED
    BY <1>4, <2>1
<1> HIDE DEF fs, array, map, value
<1>6. SameTables(fs, frames')
  <2>1. CASE frames' = fs \o <<array>>
    <3>1. frames' = Append(fs, array)
      BY <1>3, <1>5, <2>1, AppendIsConcat
    <3> QED
      BY <1>3, <1>5, <3>1, TablesPushed
  <2>2. CASE frames' = fs \o <<map, value>>
    <3> DEFINE gs == Append(fs, map)
    <3>1. frames' = Append(gs, value)
      BY <1>3, <1>5, <2>2, AppendTwo
    <3>2. SameTables(fs, gs)
      BY <1>3, <1>5, TablesPushed
    <3>3. gs \in Seq(FrameRec)
      BY <3>2 DEF SameTables
    <3> HIDE DEF gs
    <3>4. SameTables(gs, frames')
      BY <1>5, <3>1, <3>3, TablesPushed
    <3> QED
      BY <3>2, <3>4, SameTwice
  <2> QED
    BY <1>1, <2>1, <2>2
<1>7. Blocks(frames', entries', Len(pending'))
  <2>1. Len(pending') \in Nat /\ Len(pending) <= Len(pending')
    BY <1>1, <1>2
  <2> QED
    BY <1>2, <1>3, <1>6, <2>1, BlocksSame
<1> QED
  BY <1>1, <1>2, <1>7, EventTables

\* An array or a map is closed.
LEMMA EndManyTables ==
    ASSUME Inv, TablesInv, OrderInv', OnEndMany
    PROVE  TablesInv'
<1>1. /\ phase = "decoding" /\ phase' = "decoding"
      /\ \/ Top.kind = "array" /\ frames' = Front(frames)
         \/ Top.kind = "value" /\ Top.sv = NoSv /\ frames' = Front(Front(frames))
      /\ entries' = entries /\ pending' = pending /\ table' = table /\ ghost' = ghost
  BY DEF OnEndMany, Decoding, Event
<1>2. /\ Decodes(svs, frames, entries, pending, table) /\ Len(pending) \in Nat
      /\ Blocks(frames, entries, Len(pending)) /\ Written(ghost.written, pending, table)
      /\ frames \in Seq(FrameRec) /\ Len(frames) > 0
  BY <1>1, TablesDecode
<1>3. SameTables(frames, Front(frames))
  BY <1>1, <1>2, TablesPopped DEF Top
<1>4. SameTables(frames, frames')
  <2>1. CASE Top.kind = "array"
    BY <1>1, <1>3, <2>1
  <2>2. CASE Top.kind = "value"
    <3> DEFINE L == Len(frames)
               gs == Front(frames)
    <3>1. /\ gs \in Seq(FrameRec) /\ Len(gs) = L - 1 /\ L \in Nat
          /\ \A i \in 1..(L - 1) : gs[i] = frames[i]
      BY <1>2, FrontOf
    <3>2. L - 1 \in 1..L - 1 /\ L > 1 /\ frames[L - 1].kind = "map"
      <4>1. FramesOK(frames, Len(svs)) /\ L \in DOMAIN frames /\ frames[L].kind = "value"
        BY <1>2, <2>2, TopIs DEF Decodes
      <4>2. L > 1 /\ frames[L - 1].kind = "map"
        BY <4>1 DEF FramesOK
      <4> QED
        BY <3>1, <4>2
    <3> HIDE DEF L, gs
    <3>3. Len(gs) > 0 /\ Last(gs).kind = "map"
      BY <3>1, <3>2 DEF Last
    <3>4. SameTables(gs, Front(gs))
      BY <3>1, <3>3, TablesPopped
    <3>5. SameTables(frames, Front(gs))
      BY <1>3, <3>4, SameTwice DEF gs
    <3> QED
      BY <1>1, <2>2, <3>5 DEF gs
  <2> QED
    BY <1>1, <2>1, <2>2
<1>5. Blocks(frames', entries', Len(pending'))
  <2>1. Len(pending') \in Nat /\ Len(pending) <= Len(pending')
    BY <1>1, <1>2
  <2> QED
    BY <1>1, <1>2, <1>4, <2>1, BlocksSame
<1> QED
  BY <1>1, <1>2, <1>5, EventTables

\* The value of a map entry moves into the map.
LEMMA EndMapEntryTables ==
    ASSUME Inv, TablesInv, OrderInv', NEW key, OnEndMapEntry(key)
    PROVE  TablesInv'
<1>1. /\ phase = "decoding" /\ phase' = "decoding" /\ Top.kind = "value"
      /\ frames' = [frames EXCEPT ![Len(frames)].sv = NoSv]
      /\ entries' = entries /\ pending' = pending /\ table' = table
      /\ ghost' = [ghost EXCEPT !.lost = @ \/ key = NoKey]
  BY DEF OnEndMapEntry, Decoding, Event
<1>2. /\ Len(pending) \in Nat /\ GhostOK(ghost)
      /\ Blocks(frames, entries, Len(pending)) /\ Written(ghost.written, pending, table)
      /\ frames \in Seq(FrameRec) /\ Len(frames) > 0
  BY <1>1, TablesDecode
<1>3. ghost'.written = ghost.written
  BY <1>1, <1>2 DEF GhostOK
<1>4. SameTables(frames, frames')
  <2>1. NoSv \in Nat /\ Last(frames).kind = "value"
    BY <1>1 DEF NoSv, Top
  <2> QED
    BY <1>1, <1>2, <2>1, TablesSet
<1>5. Blocks(frames', entries', Len(pending'))
  <2>1. Len(pending') \in Nat /\ Len(pending) <= Len(pending')
    BY <1>1, <1>2
  <2> QED
    BY <1>1, <1>2, <1>4, <2>1, BlocksSame
<1> QED
  BY <1>1, <1>2, <1>3, <1>5, EventTables

\* What was written stays so when another transform is queued.
LEMMA WrittenMore ==
    ASSUME NEW p \in Seq(QueueRec), NEW n, NEW q, NewOf(q, n), NEW w, NEW tb, Written(w, p, tb)
    PROVE  /\ Written(w, p \o q, tb) /\ Len(p \o q) \in Nat /\ Len(p) <= Len(p \o q)
           /\ Len(p) \in Nat
<1> DEFINE r == p \o q
<1>1. /\ r \in Seq(QueueRec) /\ Len(p) \in Nat
      /\ q = <<>> => r = p
      /\ q # <<>> => Len(r) = Len(p) + 1
      /\ \A i \in 1..Len(p) : r[i] = p[i]
  BY QueueMore
<1> HIDE DEF r
<1>2. DOMAIN p = 1..Len(p) /\ DOMAIN r = 1..Len(r) /\ Len(r) \in Nat
  BY <1>1, SeqIs
<1>3. Len(p) <= Len(r)
  BY <1>1
<1>4. ASSUME NEW x \in DOMAIN w PROVE x \in DOMAIN r /\ r[x] = p[x]
  <2>1. x \in DOMAIN p
    BY DEF Written
  <2>2. x \in 1..Len(p)
    BY <1>2, <2>1
  <2>3. x \in 1..Len(r)
    <3>1. PICK k \in Nat : k = Len(p)
      BY <1>1
    <3>2. PICK l \in Nat : l = Len(r)
      BY <1>2
    <3>3. k <= l /\ x \in 1..k
      BY <1>3, <2>2, <3>1, <3>2
    <3>4. x \in 1..l
      BY <3>3
    <3> QED
      BY <3>2, <3>4
  <2> QED
    BY <1>1, <1>2, <2>2, <2>3
<1>5. Written(w, r, tb)
  BY <1>4 DEF Written
<1> QED
  BY <1>1, <1>2, <1>3, <1>5 DEF r

\* A sub-message is opened.
LEMMA StartSubTables ==
    ASSUME Inv, TablesInv, OrderInv', NEW f \in AllFields, OnStartSub(f)
    PROVE  TablesInv'
<1> DEFINE field == Fields[Top.type][f]
           type == field.type
           t == SubTarget(f)
           es == t.entries
           q == Queued(t.sv, Kind[type], field.own)
           fs == IF Top.kind = "value"
                 THEN [frames EXCEPT ![Len(frames)].sv = t.sv] ELSE Noted(f)
           o == Opened(type, t.sv, f, es)
           p == pending \o q
<1>1. /\ phase = "decoding" /\ phase' = "decoding" /\ f \in SubFields /\ type # Scalar
      /\ pending' = p /\ table' = table
      /\ IsTable(type) => Len(p) > 0
      /\ entries' = es \o Marker(type, p)
      /\ frames' = Append(fs, o)
  BY DEF OnStartSub, Decoding, Event
<1>2. /\ Decodes(svs, frames, entries, pending, table) /\ GhostOK(ghost)
      /\ Blocks(frames, entries, Len(pending)) /\ Written(ghost.written, pending, table)
      /\ pending \in Seq(QueueRec) /\ Len(pending) \in Nat
  BY <1>1, TablesDecode
<1>3. ghost'.written = ghost.written
  <2>1. PICK x, y : ghost' = [ghost EXCEPT !.merged = x, !.lost = y]
    BY Zenon DEF OnStartSub
  <2> QED
    BY <1>2, <2>1 DEF GhostOK
<1>4. Blocks(fs, es, Len(pending)) /\ fs \in Seq(FrameRec)
  BY <1>2, SubBlocks
<1>5. /\ Decodes(t.svs, fs, es, pending, table)
      /\ \E i \in Idx : \E P : Targets(t, Outside(Roots1, frames, entries, table), P, pending, i)
      /\ Len(fs) = Len(frames)
  BY <1>2, SubDecodes
<1>6. /\ type \in Types /\ field.own \in {"none", "plain", "table"}
      /\ Kind[type] \in {"none", "plain", "table", "bare"}
  BY <1>1, <1>2, SubFieldIs
<1> HIDE DEF t, fs
<1>7. /\ t.sv \in Nat /\ es \in Seq(EntryRec) /\ OnceOrNot(Values(es)) /\ Len(fs) > 0
  <2>1. t.sv \in 1..Len(t.svs) /\ Len(t.svs) \in Nat
    BY <1>5, HeldIs DEF Targets, Decodes
  <2> QED
    BY <1>5, <2>1 DEF Decodes, Apart, FramesOK
<1>8. NewOf(q, t.sv)
  BY <1>6, <1>7, QueuedIs
<1> HIDE DEF q
<1>9. Written(ghost.written, p, table) /\ Len(p) \in Nat /\ Len(pending) <= Len(p)
  BY <1>2, <1>8, WrittenMore
<1> HIDE DEF p
<1>10. Blocks(fs, es, Len(p))
  <2>1. SameTables(fs, fs)
    BY <1>4 DEF SameTables
  <2> QED
    BY <1>2, <1>4, <1>9, <2>1, BlocksSame
<1>11. OpenedAs(type, t.sv, f, es, o)
  BY <1>6, <1>7, OpenedIs
<1>12. Marked(type, Len(p), es, entries')
  BY <1>1, <1>7, <1>9, MarkerIs
<1> HIDE DEF es, o, type
<1>13. CASE IsTable(type)
  <2> DEFINE m == [field |-> Len(p), value |-> NoSv]
  <2>1. entries' = es \o <<m>>
    <3>1. m \in EntryRec
      BY <1>9 DEF EntryRec, NoSv
    <3>2. entries' = Append(es, m)
      BY <1>12, <1>13 DEF Marked
    <3> QED
      BY <1>7, <3>1, <3>2, AppendIsConcat
  <2>2. Len(p) \in 1..Len(p)
    BY <1>1, <1>9, <1>13
  <2>3. Opens1(fs, frames', Len(es) + 1)
    <3>1. o \in FrameRec /\ o.kind = "table" /\ o.base = Len(es) + 1 /\ o.own = <<>>
      BY <1>11, <1>13 DEF OpenedAs
    <3> QED
      BY <1>1, <1>4, <3>1, AppendOf DEF Opens1
  <2>4. Blocks(frames', entries', Len(p))
    BY <1>4, <1>7, <1>9, <1>10, <2>1, <2>2, <2>3, BlocksOpen
  <2> QED
    BY <1>1, <1>3, <1>9, <2>4, EventTables
<1>14. CASE ~IsTable(type)
  <2>1. entries' = es
    BY <1>12, <1>14 DEF Marked
  <2>2. o \in FrameRec /\ o.kind # "table"
    BY <1>11, <1>14 DEF OpenedAs
  <2>3. SameTables(fs, frames')
    BY <1>1, <1>4, <2>2, TablesPushed
  <2>4. Blocks(frames', entries', Len(p))
    BY <1>9, <1>10, <2>1, <2>3, BlocksSame
  <2> QED
    BY <1>1, <1>3, <1>9, <2>4, EventTables
<1> QED
  BY <1>13, <1>14

\* The entries of a concatenation.
LEMMA EntriesConcat ==
    ASSUME NEW a \in Seq(EntryRec), NEW b \in Seq(EntryRec)
    PROVE  /\ Len(a \o b) = Len(a) + Len(b)
           /\ \A i \in 1 .. Len(a) + Len(b) :
                 (a \o b)[i] = IF i <= Len(a) THEN a[i] ELSE b[i - Len(a)]
BY ConcatProperties

\* fieldtable grows by the fields of a table, for the transform at x.
LEMMA WrittenWith ==
    ASSUME NEW w, NEW p \in Seq(QueueRec), NEW tb \in Seq(EntryRec), Written(w, p, tb),
           NEW own \in Seq(EntryRec), NEW g \in Seq(AllFields), Len(own) = Len(g),
           \A j \in 1..Len(own) : own[j].field = g[j],
           NEW x \in 1..Len(p), NEW q, Given(p, x, Len(tb), Len(own), q)
    PROVE  Written(With(w, x, g), q, tb \o own)
<1> DEFINE W == With(w, x, g)
           t2 == tb \o own
           L == Len(tb)
           K == Len(own)
<1>0. W = [y \in {x} \cup DOMAIN w |-> IF y = x THEN g ELSE w[y]]
  BY DEF With
<1> HIDE DEF W, t2
<1>1. L \in Nat /\ K \in Nat /\ Len(p) \in Nat /\ DOMAIN p = 1..Len(p)
  BY SeqIs
<1>2. /\ Len(t2) = L + K
      /\ \A i \in 1 .. L + K : t2[i] = IF i <= L THEN tb[i] ELSE own[i - L]
  <2>1. /\ Len(tb \o own) = Len(tb) + Len(own)
        /\ \A i \in 1 .. Len(tb) + Len(own) :
              (tb \o own)[i] = IF i <= Len(tb) THEN tb[i] ELSE own[i - Len(tb)]
    BY EntriesConcat
  <2> QED
    BY <2>1 DEF t2
<1>3. DOMAIN W = {x} \cup DOMAIN w /\ W[x] = g /\ \A y \in DOMAIN w : y # x => W[y] = w[y]
  BY <1>0
<1>4. /\ DOMAIN q = DOMAIN p /\ q[x].offset = L /\ q[x].size = K
      /\ \A y \in DOMAIN p : y # x => q[y] = p[y]
  BY <1>1 DEF Given
<1> HIDE DEF L, K
<1>5. /\ W[x] \in Seq(AllFields) /\ x \in DOMAIN q /\ q[x].offset >= 0 /\ q[x].size = Len(W[x])
      /\ q[x].offset + q[x].size <= Len(t2)
      /\ \A j \in 1..Len(W[x]) : t2[q[x].offset + j].field = W[x][j]
  <2>1. x \in DOMAIN q /\ Len(g) = K
    BY <1>1, <1>4 DEF K
  <2>2. ASSUME NEW j \in 1..K PROVE t2[L + j].field = g[j]
    <3>1. L + j \in 1 .. L + K /\ ~(L + j <= L) /\ (L + j) - L = j
      BY <1>1
    <3>2. t2[L + j] = own[j]
      BY <1>2, <3>1
    <3> QED
      BY <3>2 DEF K
  <2>3. L >= 0 /\ L + K <= L + K
    BY <1>1
  <2> QED
    BY <1>2, <1>3, <1>4, <2>1, <2>2, <2>3
<1>6. ASSUME NEW y \in DOMAIN w, y # x
      PROVE  /\ W[y] \in Seq(AllFields) /\ y \in DOMAIN q /\ q[y].offset >= 0
             /\ q[y].size = Len(W[y]) /\ q[y].offset + q[y].size <= Len(t2)
             /\ \A j \in 1..Len(W[y]) : t2[q[y].offset + j].field = W[y][j]
  <2>1. /\ w[y] \in Seq(AllFields) /\ y \in DOMAIN p /\ p[y].offset >= 0
        /\ p[y].size = Len(w[y]) /\ p[y].offset + p[y].size <= L
        /\ \A j \in 1..Len(w[y]) : tb[p[y].offset + j].field = w[y][j]
    BY DEF Written, L
  <2>2. q[y] = p[y] /\ W[y] = w[y] /\ y \in DOMAIN q
    BY <1>3, <1>4, <1>6, <2>1
  <2>3. p[y] \in QueueRec
    BY <1>1, <2>1, SeqIs
  <2>4. p[y].offset \in Int /\ p[y].size \in Nat
    BY <2>3 DEF QueueRec
  <2>5. PICK o \in Nat : o = p[y].offset
    BY <2>1, <2>4
  <2>6. PICK z \in Nat : z = Len(w[y]) /\ z = p[y].size
    BY <2>1, <2>4
  <2>7. o + z <= L /\ o + z <= Len(t2)
    BY <1>1, <1>2, <2>1, <2>5, <2>6
  <2>8. ASSUME NEW j \in 1..z PROVE t2[o + j].field = w[y][j]
    <3>1. o + j \in 1 .. L + K /\ o + j <= L
      BY <1>1, <2>7
    <3>2. t2[o + j] = tb[o + j]
      BY <1>2, <3>1
    <3> QED
      BY <2>1, <2>5, <2>6, <3>2
  <2> QED
    BY <2>1, <2>2, <2>5, <2>6, <2>7, <2>8
<1>7. Written(W, q, t2)
  BY <1>3, <1>5, <1>6 DEF Written
<1> QED
  BY <1>7 DEF W, t2

\* finish_add_transform_fieldtable, for the innermost table.
LEMMA TableClosed ==
    ASSUME frames \in Seq(FrameRec), entries \in Seq(EntryRec), OnceOrNot(Values(entries)),
           pending \in Seq(QueueRec), table \in Seq(EntryRec),
           Blocks(frames, entries, Len(pending)), NEW w, Written(w, pending, table),
           NEW T \in Tables(frames), \A i \in Tables(frames) : i <= T
    PROVE  LET x == entries[Innermost].field IN
           /\ x \in Nat /\ (T = 1 => x = 1)
           /\ Written(With(w, x, frames[T].own), TableDone.pending, TableDone.table)
           /\ Len(TableDone.pending) = Len(pending)
           /\ \A gs : Closes1(frames, T, gs) => Blocks(gs, TableDone.entries, Len(pending))
<1> DEFINE N == Len(pending)
           x == entries[Innermost].field
           own == frames[T].own
           p == PartOf(pending, x, Len(table), Len(Own))
           tb == table \o Own
<1>1. N \in Nat /\ Len(table) \in Nat /\ own \in Seq(AllFields)
  BY TablesAre, SeqIs
<1>2. /\ Markers # {} /\ Innermost = frames[T].base
      /\ x \in 1..N
      /\ Outer \in Seq(EntryRec) /\ Len(Outer) = frames[T].base - 1
      /\ \A j \in 1..Len(Outer) : Outer[j] = entries[j]
      /\ Own \in Seq(EntryRec) /\ Len(Own) = Len(own)
      /\ \A j \in 1..Len(Own) : Own[j].field = own[j]
  BY <1>1, OwnIs
<1>3. TableDone = [entries |-> Outer, table |-> tb, pending |-> p]
  BY <1>2 DEF TableDone, TableMoved, PartOf
<1>4. Len(Own) \in Nat
  BY <1>2, SeqIs
<1>5. T = 1 => x = 1
  BY <1>2 DEF Blocks
<1> HIDE DEF x
<1>6. Given(pending, x, Len(table), Len(Own), p)
  BY <1>1, <1>4, PartGiven
<1> HIDE DEF p, own
<1>7. Written(With(w, x, own), p, tb)
  BY <1>1, <1>2, <1>6, WrittenWith
<1>8. Len(p) = N
  BY <1>6 DEF Given
<1>9. ASSUME NEW gs, Closes1(frames, T, gs) PROVE Blocks(gs, Outer, N)
  <2> HIDE DEF N
  <2> QED
    BY <1>2, <1>9, BlocksClose DEF N
<1> HIDE DEF tb
<1>10. TableDone.entries = Outer /\ TableDone.table = tb /\ TableDone.pending = p
  BY <1>3
<1> QED
  BY <1>2, <1>5, <1>7, <1>8, <1>9, <1>10 DEF x, own

\* A sub-message is closed.
LEMMA EndSubTables ==
    ASSUME Inv, TablesInv, OrderInv', OnEndSub
    PROVE  TablesInv'
<1> DEFINE L == Len(frames)
<1>1. /\ phase = "decoding" /\ phase' = "decoding" /\ frames' = Front(frames) /\ L > 1
  BY DEF OnEndSub, Decoding, Event
<1>2. /\ Decodes(svs, frames, entries, pending, table) /\ GhostOK(ghost)
      /\ Blocks(frames, entries, Len(pending)) /\ Written(ghost.written, pending, table)
      /\ Len(pending) \in Nat /\ frames \in Seq(FrameRec) /\ entries \in Seq(EntryRec)
      /\ pending \in Seq(QueueRec) /\ table \in Seq(EntryRec) /\ OnceOrNot(Values(entries))
  <2>1. Decodes(svs, frames, entries, pending, table)
    BY <1>1, TablesDecode
  <2>2. OnceOrNot(Values(entries))
    BY <2>1 DEF Decodes, Apart
  <2> QED
    BY <1>1, <2>2, TablesDecode
<1>3. /\ Front(frames) \in Seq(FrameRec) /\ L \in Nat /\ L \in 1..L
      /\ DOMAIN Front(frames) = 1..(L - 1) /\ DOMAIN frames = 1..L
      /\ \A i \in 1..(L - 1) : Front(frames)[i] = frames[i]
      /\ Top = frames[L]
  <2>1. L \in Nat /\ L \in 1..L /\ Top = frames[L]
    BY <1>2, TopIs
  <2>2. L > 0
    BY <1>1, <2>1
  <2> QED
    BY <1>2, <2>1, <2>2, FrontOf
<1>4. CASE Top.kind = "table"
  <2> DEFINE x == entries[Innermost].field
  <2>1. /\ entries' = TableDone.entries /\ table' = TableDone.table /\ pending' = TableDone.pending
        /\ ghost' = [ghost EXCEPT !.written = With(@, x, Top.own)]
    BY <1>4 DEF OnEndSub
  <2>2. L \in Tables(frames) /\ \A i \in Tables(frames) : i <= L
    BY <1>3, <1>4 DEF Tables
  <2>3. /\ Written(With(ghost.written, x, frames[L].own), TableDone.pending, TableDone.table)
        /\ Len(TableDone.pending) = Len(pending)
        /\ \A gs : Closes1(frames, L, gs) => Blocks(gs, TableDone.entries, Len(pending))
    BY <1>2, <2>2, TableClosed
  <2> HIDE DEF x
  <2>4. ghost'.written = With(ghost.written, x, Top.own)
    BY <1>2, <2>1 DEF GhostOK
  <2>5. Closes1(frames, L, Front(frames))
    <3> DEFINE gs == Front(frames)
    <3>0. PICK l \in Nat : l = L
      BY <1>3
    <3>1. \A i \in 1..L : i \in 1..(L - 1) <=> i # L
      <4>1. \A i \in 1..l : i \in 1..(l - 1) <=> i # l
        OBVIOUS
      <4> QED
        BY <3>0, <4>1
    <3>2. \A i \in 1..(L - 1) : i \in 1..L
      <4>1. \A i \in 1..(l - 1) : i \in 1..l
        OBVIOUS
      <4> QED
        BY <3>0, <4>1
    <3> HIDE DEF gs, L
    <3>3. Tables(gs) = Tables(frames) \ {L}
      BY <1>3, <3>1, <3>2 DEF Tables, gs
    <3>4. \A i \in Tables(gs) : gs[i] = frames[i]
      BY <1>3 DEF Tables, gs
    <3> QED
      BY <1>3, <3>3, <3>4 DEF Closes1, gs
  <2>6. Blocks(frames', entries', Len(pending'))
    BY <1>1, <2>1, <2>3, <2>5
  <2>7. Written(ghost'.written, pending', table')
    BY <1>3, <2>1, <2>3, <2>4
  <2> QED
    BY <1>1, <2>6, <2>7, EventTables
<1>5. CASE Top.kind # "table"
  <2>1. entries' = entries /\ table' = table /\ pending' = pending /\ ghost' = ghost
    BY <1>5 DEF OnEndSub
  <2>2. SameTables(frames, Front(frames))
    BY <1>1, <1>2, <1>3, <1>5, TablesPopped DEF Top
  <2>3. Blocks(frames', entries', Len(pending'))
    <3>1. Len(pending') \in Nat /\ Len(pending) <= Len(pending')
      BY <1>2, <2>1
    <3> QED
      BY <1>1, <1>2, <2>1, <2>2, <3>1, BlocksSame
  <2> QED
    BY <1>1, <1>2, <2>1, <2>3, EventTables
<1> QED
  BY <1>4, <1>5

\* A call begins: the root is the only table, or there is none.
LEMMA PrepareTables ==
    ASSUME Inv', OrderInv', NEW root \in Roots, Prepare(root)
    PROVE  TablesInv'
<1> DEFINE none == <<>>
           q == Queued(1, Kind[root], "none")
           o == Opened(root, 1, NoField, none)
           es == Marker(root, q)
<1>1. /\ phase' = "decoding" /\ pending' = q /\ frames' = <<o>> /\ entries' = es
      /\ IsTable(root) => Len(q) > 0
      /\ ghost' = [merged |-> FALSE, cut |-> FALSE, lost |-> FALSE,
                   written |-> <<>>, log |-> <<>>]
  BY DEF Prepare
<1>2. Written(ghost'.written, pending', table')
  <2>1. DOMAIN ghost'.written = {}
    BY <1>1
  <2> QED
    BY <2>1 DEF Written
<1>3. root \in Types /\ Kind[root] \in {"none", "plain", "table", "bare"}
  BY KindAssumption
<1>4. NewOf(q, 1)
  BY <1>3, QueuedIs
<1>5. Len(q) \in Nat /\ (Len(q) > 0 => Len(q) = 1)
  <2>1. CASE q = <<>>
    BY <2>1
  <2>2. ASSUME NEW x, q = <<x>> PROVE Len(q) = 1
    BY <2>2
  <2> HIDE DEF q
  <2> QED
    BY <1>4, <2>1, <2>2 DEF NewOf
<1>6. /\ none \in Seq(FrameRec) /\ none \in Seq(EntryRec) /\ Len(none) = 0 /\ DOMAIN none = {}
      /\ 1..Len(none) = {} /\ OnceOrNot(Values(none))
  BY FillNone
<1> HIDE DEF none, q
<1>7. OpenedAs(root, 1, NoField, none, o)
  <2> DEFINE N == 1
             f == NoField
  <2>1. N \in Nat /\ f \in AllFields \cup {NoField}
    OBVIOUS
  <2> HIDE DEF N, f
  <2>2. OpenedAs(root, N, f, none, Opened(root, N, f, none))
    BY <1>3, <1>6, <2>1, OpenedIs
  <2> QED
    BY <2>2 DEF N, f
<1>8. o \in FrameRec
  BY <1>7 DEF OpenedAs
<1> HIDE DEF o
<1>9. frames' = Append(none, o)
  BY <1>1, <1>6 DEF none
<1>10. Blocks(none, none, Len(q))
  <2>1. Tables(none) = {}
    BY <1>6 DEF Tables
  <2> QED
    BY <1>6, <2>1 DEF Blocks
<1>11. CASE IsTable(root)
  <2> DEFINE m == [field |-> Len(q), value |-> NoSv]
  <2>1. m \in EntryRec
    BY <1>5 DEF EntryRec, NoSv
  <2>2. es = <<m>>
    BY <1>11 DEF Marker
  <2> HIDE DEF m, es
  <2>3. entries' = none \o <<m>>
    <3>1. <<m>> \in Seq(EntryRec)
      BY <2>1
    <3> QED
      BY <1>1, <2>2, <3>1, ConcatEmptySeq DEF none
  <2>4. Opens1(none, frames', Len(none) + 1)
    <3>1. o.kind = "table" /\ o.base = Len(none) + 1 /\ o.own = <<>>
      BY <1>7, <1>11 DEF OpenedAs
    <3> QED
      BY <1>6, <1>8, <1>9, <3>1, AppendOf DEF Opens1
  <2>5. Len(q) \in 1..Len(q) /\ Len(q) = 1
    BY <1>1, <1>5, <1>11
  <2>6. Blocks(frames', entries', Len(q))
    BY <1>5, <1>6, <1>10, <2>3, <2>4, <2>5, BlocksOpen DEF m
  <2> QED
    BY <1>1, <1>2, <2>6, EventTables
<1>12. CASE ~IsTable(root)
  <2>1. entries' = none
    BY <1>1, <1>12 DEF Marker, none
  <2>2. o.kind # "table"
    BY <1>7, <1>12 DEF OpenedAs
  <2>3. SameTables(none, frames')
    BY <1>6, <1>8, <1>9, <2>2, TablesPushed
  <2>4. Blocks(frames', entries', Len(q))
    <3>1. Len(q) <= Len(q)
      BY <1>5
    <3> QED
      BY <1>5, <1>10, <2>1, <2>3, <3>1, BlocksSame
  <2> QED
    BY <1>1, <1>2, <2>4, EventTables
<1> QED
  BY <1>11, <1>12

\* The call ends, and with it the table of the root.
LEMMA FinishTables ==
    ASSUME Inv, TablesInv, OrderInv, NEW result, Finish(result)
    PROVE  TablesInv'
<1> DEFINE cut == \E i \in 2..Len(frames) : frames[i].kind = "table"
<1>1. /\ phase = "decoding" /\ phase' = "applying"
      /\ ghost' = [ghost EXCEPT
                !.written = IF frames[1].kind = "table" THEN With(@, 1, frames[1].own) ELSE @,
                !.cut = cut]
      /\ frames[1].kind = "table" => pending' = TableDone.pending /\ table' = TableDone.table
      /\ frames[1].kind # "table" => pending' = pending /\ table' = table
  BY DEF Finish, TableLeft
<1>2. /\ Decodes(svs, frames, entries, pending, table) /\ GhostOK(ghost)
      /\ Blocks(frames, entries, Len(pending)) /\ Written(ghost.written, pending, table)
      /\ Len(pending) \in Nat /\ frames \in Seq(FrameRec) /\ entries \in Seq(EntryRec)
      /\ pending \in Seq(QueueRec) /\ table \in Seq(EntryRec)
  BY <1>1, TablesDecode
<1>3. OnceOrNot(Values(entries)) /\ DOMAIN frames = 1..Len(frames) /\ Len(frames) \in Nat
      /\ Len(frames) > 0
  BY <1>2, SeqIs DEF Decodes, Apart, FramesOK
<1>4. /\ ghost'.log = ghost.log /\ ghost'.cut = cut
      /\ frames[1].kind = "table" => ghost'.written = With(ghost.written, 1, frames[1].own)
      /\ frames[1].kind # "table" => ghost'.written = ghost.written
  BY <1>1, <1>2 DEF GhostOK
<1>5. TableIsOwnFields'
  <2>1. DOMAIN ghost'.log = {}
    BY <1>1, <1>4 DEF OrderInv
  <2> QED
    BY <2>1 DEF TableIsOwnFields
<1>6. ASSUME ~cut PROVE Written(ghost'.written, pending', table')
  <2>1. CASE frames[1].kind = "table"
    <3>1. 1 \in Tables(frames) /\ \A i \in Tables(frames) : i <= 1
      <4>1. 1 \in 1..Len(frames)
        BY <1>3
      <4>2. ASSUME NEW i \in Tables(frames), ~(i <= 1) PROVE FALSE
        <5>1. i \in 1..Len(frames) /\ frames[i].kind = "table"
          BY <1>3, <4>2 DEF Tables
        <5>2. i \in 2..Len(frames)
          BY <1>3, <4>2, <5>1
        <5> QED
          BY <1>6, <5>1, <5>2
      <4> QED
        BY <1>3, <2>1, <4>1, <4>2 DEF Tables
    <3> DEFINE x == entries[Innermost].field
    <3>2. /\ x = 1
          /\ Written(With(ghost.written, x, frames[1].own), TableDone.pending, TableDone.table)
      BY <1>2, <1>3, <3>1, TableClosed
    <3> HIDE DEF x
    <3>3. Written(With(ghost.written, 1, frames[1].own), TableDone.pending, TableDone.table)
      BY <3>2
    <3> QED
      BY <1>1, <1>4, <2>1, <3>3
  <2>2. CASE frames[1].kind # "table"
    BY <1>1, <1>2, <1>4, <2>2
  <2> QED
    BY <2>1, <2>2
<1> HIDE DEF cut
<1> QED
  BY <1>1, <1>4, <1>5, <1>6 DEF TablesInv

\* What the transform that runs gets was written to it.
LEMMA LoggedTables ==
    ASSUME Inv, TablesInv, OrderInv, phase = "applying", at > 0, ghost' = Logged
    PROVE  /\ TableIsOwnFields'
           /\ ghost'.written = ghost.written /\ ghost'.cut = ghost.cut
<1> DEFINE l == ghost.log
           g == Logged.log
           L == Len(l)
           w == ghost.written
<1>1. GhostOK(ghost) /\ pending \in Seq(QueueRec) /\ table \in Seq(EntryRec)
  BY InvApplies DEF Applies
<1>2. ghost'.written = w /\ ghost'.cut = ghost.cut /\ ghost'.log = g
  BY <1>1 DEF Logged, GhostOK
<1>3. /\ L \in Nat /\ DOMAIN g = 1..L + 1 /\ DOMAIN l = 1..L
      /\ \A k \in 1..L : g[k] = l[k]
      /\ g[L + 1].index = at
      /\ g[L + 1].fields = IF This.offset = -1 THEN <<>>
                           ELSE [i \in 1..This.size |-> table[This.offset + i].field]
  BY LoggedIs
<1> HIDE DEF g, L, w
<1>4. ASSUME ~ghost.cut, NEW k \in DOMAIN g, g[k].index \in DOMAIN w
      PROVE  g[k].fields = w[g[k].index]
  <2>1. CASE k \in 1..L
    <3>1. g[k] = l[k] /\ k \in DOMAIN l
      BY <1>3, <2>1
    <3> QED
      BY <1>4, <3>1 DEF TablesInv, TableIsOwnFields, w
  <2>2. CASE k = L + 1
    <3> DEFINE o == This.offset
               z == This.size
               e == w[at]
    <3>1. at \in DOMAIN w
      BY <1>3, <1>4, <2>2
    <3>2. Written(w, pending, table)
      BY <1>4 DEF TablesInv, w
    <3>3. /\ e \in Seq(AllFields) /\ o >= 0 /\ z = Len(e) /\ at \in DOMAIN pending
          /\ \A j \in 1..Len(e) : table[o + j].field = e[j]
      BY <3>1, <3>2 DEF Written, This
    <3>4. o # -1
      BY <3>3
    <3>5. g[k].fields = [i \in 1..z |-> table[o + i].field]
      BY <1>3, <2>2, <3>4
    <3>6. e = [i \in 1..z |-> e[i]]
      BY <3>3
    <3> HIDE DEF o, z, e
    <3>7. [i \in 1..z |-> table[o + i].field] = [i \in 1..z |-> e[i]]
      BY <3>3
    <3>8. g[k].fields = e
      BY <3>5, <3>6, <3>7
    <3> QED
      BY <1>3, <2>2, <3>8 DEF e
  <2>3. k \in 1..L \/ k = L + 1
    BY <1>3
  <2> QED
    BY <2>1, <2>2, <2>3
<1>5. TableIsOwnFields'
  BY <1>2, <1>4 DEF TableIsOwnFields
<1> QED
  BY <1>2, <1>5 DEF w

\* A transform runs: the items that it takes leave fieldtable, their fields stay.
LEMMA ApplyTables ==
    ASSUME Inv, TablesInv, OrderInv, NEW keep, Apply(keep)
    PROVE  TablesInv'
<1>1. /\ phase = "applying" /\ at > 0 /\ phase' = "applying" /\ ghost' = Logged
      /\ pending' = pending /\ Matches
  BY DEF Apply, Applying
<1>2. TableIsOwnFields' /\ ghost'.written = ghost.written /\ ghost'.cut = ghost.cut
  BY <1>1, LoggedTables
<1>3. /\ pending \in Seq(QueueRec) /\ table \in Seq(EntryRec) /\ QueueOK(pending, Len(svs), table)
      /\ OnceOrNot(Values(table)) /\ at \in 1..Len(pending)
  <2>1. Applies(svs, pending, table, ghost.cut) /\ at \in 0..Len(pending)
    BY <1>1, InvApplies
  <2>2. pending \in Seq(QueueRec) /\ Len(pending) \in Nat
    BY <2>1, SeqIs DEF Applies
  <2>3. at \in 1..Len(pending)
    BY <1>1, <2>1, <2>2
  <2> QED
    BY <2>1, <2>3 DEF Applies
<1>4. /\ Len(table') = Len(table)
      /\ \A i \in 1..Len(table) : table'[i].field = table[i].field
  <2>1. CASE This.by = "plain"
    BY <2>1 DEF Apply
  <2>2. CASE This.by # "plain"
    <3> DEFINE o == This.offset
               z == This.size
    <3>1. table' = RestOf(table, o, z)
      BY <2>2 DEF Apply, RestOf
    <3>2. This \in QueueRec /\ This.by = "table"
      <4>1. This \in QueueRec
        BY <1>3, SeqIs DEF This
      <4> QED
        BY <2>2, <4>1 DEF QueueRec
    <3>3. o \in Nat /\ z \in Nat /\ o + z <= Len(table)
      <4>1. o # -1 /\ o \in Int /\ z \in Nat
        BY <1>1, <3>2 DEF Matches, QueueRec
      <4>2. at \in DOMAIN pending
        BY <1>3, SeqIs
      <4> QED
        BY <1>3, <4>1, <4>2 DEF QueueOK, This
    <3> HIDE DEF o, z
    <3>4. Takes(table, o, z, ItemsOf(table, o, z), RestOf(table, o, z))
      BY <1>3, <3>3, ItemsTaken
    <3> QED
      BY <3>1, <3>4 DEF Takes
  <2> QED
    BY <2>1, <2>2
<1>5. ASSUME ~ghost.cut PROVE Written(ghost.written, pending, table')
  <2> DEFINE w == ghost.written
  <2>1. Written(w, pending, table)
    BY <1>1, <1>5 DEF TablesInv
  <2> HIDE DEF w
  <2>2. ASSUME NEW x \in DOMAIN w
        PROVE  /\ w[x] \in Seq(AllFields) /\ x \in DOMAIN pending
               /\ pending[x].offset >= 0 /\ pending[x].size = Len(w[x])
               /\ pending[x].offset + pending[x].size <= Len(table')
               /\ \A j \in 1..Len(w[x]) : table'[pending[x].offset + j].field = w[x][j]
    <3>1. /\ w[x] \in Seq(AllFields) /\ x \in DOMAIN pending /\ pending[x].offset >= 0
          /\ pending[x].size = Len(w[x]) /\ pending[x].offset + pending[x].size <= Len(table)
          /\ \A j \in 1..Len(w[x]) : table[pending[x].offset + j].field = w[x][j]
      BY <2>1 DEF Written
    <3>2. pending[x] \in QueueRec
      BY <1>3, <3>1, SeqIs
    <3>3. pending[x].offset \in Int /\ pending[x].size \in Nat /\ Len(table) \in Nat
      BY <1>3, <3>2, SeqIs DEF QueueRec
    <3>4. PICK o \in Nat : o = pending[x].offset
      BY <3>1, <3>3
    <3>5. PICK z \in Nat : z = Len(w[x]) /\ z = pending[x].size
      BY <3>1, <3>3
    <3>6. o + z <= Len(table)
      BY <3>1, <3>4, <3>5
    <3>7. ASSUME NEW j \in 1..z PROVE table'[o + j].field = w[x][j]
      <4>1. o + j \in 1..Len(table)
        BY <3>3, <3>6
      <4> QED
        BY <1>4, <3>1, <3>4, <3>5, <4>1
    <3> QED
      BY <1>4, <3>1, <3>4, <3>5, <3>7
  <2> QED
    BY <2>2 DEF Written, w
<1> QED
  BY <1>1, <1>2, <1>5 DEF TablesInv

\* Every step keeps what is known of field tables.
LEMMA StepTables ==
    ASSUME Inv, Inv', OrderInv, OrderInv', TablesInv, [Next]_vars
    PROVE  TablesInv'
<1>1. CASE UNCHANGED vars
  BY <1>1 DEF vars, TablesInv, TableIsOwnFields
<1>2. ASSUME NEW root \in Roots, Prepare(root) PROVE TablesInv'
  BY <1>2, PrepareTables
<1>3. CASE Callback
  BY <1>3, ScalarTables, StartManyTables, StartSubTables, EndManyTables, EndSubTables,
     EndMapEntryTables DEF Callback
<1>4. ASSUME NEW result, Finish(result) PROVE TablesInv'
  BY <1>4, FinishTables
<1>5. CASE Skip
  <2>1. phase = "applying"
        /\ UNCHANGED <<svs, frames, entries, pending, table, phase, outcome, mapped, left, ghost>>
    BY <1>5 DEF Skip, Applying
  <2> QED
    BY <2>1 DEF TablesInv, TableIsOwnFields
<1>6. ASSUME NEW keep, Apply(keep) PROVE TablesInv'
  BY <1>6, ApplyTables
<1>7. CASE Die
  <2>1. phase = "applying" /\ at > 0 /\ phase' = "idle" /\ ghost' = Logged
    BY <1>7 DEF Die, Applying, Leave
  <2> QED
    BY <2>1, LoggedTables DEF TablesInv
<1>8. CASE Return
  <2>1. phase' = "idle" /\ ghost' = ghost
    BY <1>8 DEF Return, Leave
  <2> QED
    BY <2>1 DEF TablesInv, TableIsOwnFields
<1> QED
  BY <1>1, <1>2, <1>3, <1>4, <1>5, <1>6, <1>7, <1>8 DEF Next

\* The blocks of open tables, and fieldtable, are as they are described.
THEOREM Tabled == Spec => []TablesInv
<1>1. Init => TablesInv
  <2>1. SUFFICES ASSUME Init PROVE TablesInv
    OBVIOUS
  <2>2. phase = "idle" /\ DOMAIN ghost.log = {}
    BY <2>1 DEF Init
  <2> QED
    BY <2>2 DEF TablesInv, TableIsOwnFields
<1>2. Inv /\ Inv' /\ OrderInv /\ OrderInv' /\ TablesInv /\ [Next]_vars => TablesInv'
  BY StepTables
<1> QED
  BY <1>1, <1>2, Invariant, Ordered, PTL DEF Spec

\* A transform of a field table gets the fields of its own message, all of them and in
\* the order they were decoded.
THEOREM TableHasOwnFields == Spec => []TableIsOwnFields
<1>1. TablesInv => TableIsOwnFields
  BY DEF TablesInv
<1> QED
  BY <1>1, Tabled, PTL

------------------------------------------------------------------------------
(* Transforms run from the inside out, because what is inside a message is made after  *)
(* it, and queued after it.                                                            *)

\* A container is older than what it holds, also when the value of a map entry is not in
\* the map yet, the transform of a table was queued before the items of the table were
\* made, and transforms are queued in the order of the messages.
Older(s) == \A k \in DOMAIN s : \A i \in DOMAIN s[k].slots :
                s[k].slots[i] = NoSv \/ s[k].slots[i] > k
OpenOlder(fs) ==
    \A i \in DOMAIN fs : fs[i].kind = "value" /\ fs[i].sv # NoSv => fs[i - 1].sv < fs[i].sv
ItemsOlder(p, tb) ==
    \A i \in DOMAIN p : \A j \in p[i].offset + 1 .. p[i].offset + p[i].size :
        tb[j].value = NoSv \/ tb[j].value > p[i].target
Newer(es, p) ==
    \A b \in DOMAIN es : es[b].value = NoSv =>
        /\ es[b].field \in DOMAIN p
        /\ \A q \in DOMAIN es : b < q /\ es[q].value # NoSv => p[es[b].field].target < es[q].value
Sorted(p) == \A i, j \in DOMAIN p : i < j => p[i].target < p[j].target
AgeInv ==
    /\ Older(svs) /\ ItemsOlder(pending, table)
    /\ phase = "decoding" => OpenOlder(frames) /\ Newer(entries, pending)
    /\ ~ghost.merged => Sorted(pending)

\* Slots that are emptied, or get something newer.
LEMMA OlderAdds ==
    ASSUME NEW s \in Svq, NEW r \in Svq, Older(s), NEW h, NEW i, NEW v, Adds(s, r, h, i, v),
           h \in DOMAIN s => v > h, Len(r) \in Len(s) .. Len(s) + 1,
           Len(r) = Len(s) + 1 => DOMAIN r[Len(r)].slots = {}
    PROVE  Older(r)
<1>1. Len(s) \in Nat /\ DOMAIN s = 1..Len(s) /\ DOMAIN r = 1..Len(r) /\ Len(r) \in Nat
  BY HeldIs
<1>2. ASSUME NEW k \in DOMAIN r, NEW j \in DOMAIN r[k].slots
      PROVE  r[k].slots[j] = NoSv \/ r[k].slots[j] > k
  <2>1. CASE k \in DOMAIN s
    <3>1. \/ k = h /\ j = i /\ r[k].slots[j] = v
          \/ j \in DOMAIN s[k].slots /\ r[k].slots[j] = s[k].slots[j]
      BY <2>1 DEF Adds
    <3>2. CASE k = h /\ r[k].slots[j] = v
      BY <2>1, <3>2
    <3>3. CASE j \in DOMAIN s[k].slots /\ r[k].slots[j] = s[k].slots[j]
      BY <2>1, <3>3 DEF Older
    <3> QED
      BY <3>1, <3>2, <3>3
  <2>2. CASE k \notin DOMAIN s
    <3>1. PICK m \in Nat : m = Len(s)
      BY <1>1
    <3>2. PICK n \in Nat : n = Len(r)
      BY <1>1
    <3>3. n \in m .. m + 1 /\ k \in 1..n /\ k \notin 1..m
      BY <1>1, <1>2, <2>2, <3>1, <3>2
    <3>4. k = n /\ n = m + 1
      BY <3>3
    <3>5. k = Len(r) /\ Len(r) = Len(s) + 1
      BY <3>1, <3>2, <3>4
    <3> QED
      BY <1>2, <3>5
  <2> QED
    BY <2>1, <2>2
<1> QED
  BY <1>2 DEF Older

\* The same slots, or none.
LEMMA OlderLess ==
    ASSUME NEW s, NEW r, Older(s), DOMAIN r = DOMAIN s,
           \A k \in DOMAIN s : r[k].slots = <<>> \/ r[k].slots = s[k].slots
    PROVE  Older(r)
<1>1. ASSUME NEW k \in DOMAIN r, NEW j \in DOMAIN r[k].slots
      PROVE  r[k].slots[j] = NoSv \/ r[k].slots[j] > k
  <2>1. r[k].slots # <<>>
    BY <1>1
  <2>2. r[k].slots = s[k].slots
    BY <2>1
  <2> QED
    BY <1>1, <2>2 DEF Older
<1> QED
  BY <1>1 DEF Older

\* Values that are released.
LEMMA OlderReleased ==
    ASSUME NEW s, NEW ids, Slotted(s), Older(s)
    PROVE  Older(Release(s, ids))
<1> DEFINE d == Dec(s, ids)
           r == Reap(d)
<1>1. DOMAIN d = DOMAIN s /\ \A k \in DOMAIN s : d[k].slots = s[k].slots
  BY DecOwns
<1>2. r = Release(s, ids)
  BY DEF Release
<1> HIDE DEF d
<1>3. DOMAIN r = DOMAIN d /\ \A k \in DOMAIN d : r[k].slots = <<>> \/ r[k].slots = d[k].slots
  BY DEF Reap
<1> HIDE DEF r
<1>4. \A k \in DOMAIN s : r[k].slots = <<>> \/ r[k].slots = s[k].slots
  BY <1>1, <1>3
<1>5. Older(r)
  BY <1>1, <1>3, <1>4, OlderLess
<1> QED
  BY <1>2, <1>5

\* A value that is looked up or made for a field.
LEMMA OlderTargets ==
    ASSUME svs \in Svq, Older(svs), NEW t, NEW O, NEW P, NEW p, NEW i, Targets(t, O, P, p, i)
    PROVE  Older(t.svs)
<1>1. Len(svs) \in Nat /\ DOMAIN svs = 1..Len(svs) /\ NextSv = Len(svs) + 1
  BY HeldIs DEF NextSv
<1>2. /\ t.svs \in Svq /\ Len(t.svs) \in Len(svs) .. Len(svs) + 1
      /\ Len(t.svs) = Len(svs) + 1 => DOMAIN t.svs[Len(t.svs)].slots = {}
      /\ Adds(svs, t.svs, Top.sv, i, NextSv)
  BY DEF Targets, Made
<1>3. Top.sv \in DOMAIN svs => NextSv > Top.sv
  BY <1>1
<1> QED
  BY <1>2, <1>3, OlderAdds

\* An entry more, newer than all messages that are queued, or a marker.
LEMMA NewerMore ==
    ASSUME NEW es \in Seq(EntryRec), NEW p, Newer(es, p), NEW e \in EntryRec,
           \/ e.value = NoSv /\ e.field \in DOMAIN p
           \/ e.value # NoSv /\ \A i \in DOMAIN p : p[i].target < e.value
    PROVE  Newer(Append(es, e), p)
<1> DEFINE ds == Append(es, e)
           K == Len(es)
<1>1. /\ K \in Nat /\ DOMAIN ds = 1..(K + 1) /\ DOMAIN es = 1..K
      /\ \A i \in 1..K : ds[i] = es[i]
      /\ ds[K + 1] = e
  BY AppendOf
<1> HIDE DEF ds, K
<1>2. \A i \in 1..(K + 1) : i \in 1..K \/ i = K + 1
  BY <1>1
<1>3. ASSUME NEW b \in DOMAIN ds, ds[b].value = NoSv PROVE ds[b].field \in DOMAIN p
  BY <1>1, <1>2, <1>3 DEF Newer
<1>4. ASSUME NEW b \in DOMAIN ds, ds[b].value = NoSv,
             NEW q \in DOMAIN ds, b < q, ds[q].value # NoSv
      PROVE  p[ds[b].field].target < ds[q].value
  <2>1. b \in 1..K
    BY <1>1, <1>4
  <2>2. CASE q = K + 1
    BY <1>1, <1>3, <1>4, <2>2
  <2>3. CASE q \in 1..K
    BY <1>1, <1>4, <2>1, <2>3 DEF Newer
  <2> QED
    BY <1>1, <1>2, <2>2, <2>3
<1> QED
  BY <1>3, <1>4 DEF Newer, ds

\* Other transforms, with the same targets.
LEMMA NewerTargets ==
    ASSUME NEW es, NEW p, Newer(es, p), NEW q,
           \A i \in DOMAIN p : i \in DOMAIN q /\ q[i].target = p[i].target
    PROVE  Newer(es, q)
BY DEF Newer

\* Fewer entries.
LEMMA NewerFewer ==
    ASSUME NEW es \in Seq(EntryRec), NEW p, Newer(es, p), NEW ds \in Seq(EntryRec),
           Len(ds) <= Len(es), \A j \in 1..Len(ds) : ds[j] = es[j]
    PROVE  Newer(ds, p)
<1>1. DOMAIN ds = 1..Len(ds) /\ DOMAIN es = 1..Len(es) /\ Len(ds) \in Nat /\ Len(es) \in Nat
  BY SeqIs
<1>2. \A j \in DOMAIN ds : j \in DOMAIN es /\ ds[j] = es[j]
  BY <1>1
<1> QED
  BY <1>2 DEF Newer

\* The same containers.
LEMMA OpenSame ==
    ASSUME NEW fs \in Seq(FrameRec), OpenOlder(fs), NEW gs \in Seq(FrameRec), Len(gs) <= Len(fs),
           \A i \in 1..Len(gs) : gs[i].kind = fs[i].kind /\ gs[i].sv = fs[i].sv,
           NEW N, FramesOK(gs, N)
    PROVE  OpenOlder(gs)
<1>1. DOMAIN fs = 1..Len(fs) /\ DOMAIN gs = 1..Len(gs) /\ Len(fs) \in Nat /\ Len(gs) \in Nat
  BY SeqIs
<1>2. ASSUME NEW i \in DOMAIN gs, gs[i].kind = "value", gs[i].sv # NoSv
      PROVE  gs[i - 1].sv < gs[i].sv
  <2>1. i > 1 /\ i \in 1..Len(gs)
    BY <1>1, <1>2 DEF FramesOK
  <2>2. i - 1 \in 1..Len(gs) /\ i \in DOMAIN fs
    BY <1>1, <2>1
  <2>3. fs[i - 1].sv < fs[i].sv
    BY <1>2, <2>1, <2>2 DEF OpenOlder
  <2> QED
    BY <2>1, <2>2, <2>3
<1> QED
  BY <1>2 DEF OpenOlder

\* One container more.
LEMMA OpenMore ==
    ASSUME NEW fs \in Seq(FrameRec), OpenOlder(fs), NEW r \in FrameRec,
           r.kind # "value" \/ r.sv = NoSv, NEW N, FramesOK(fs, N)
    PROVE  OpenOlder(Append(fs, r))
<1> DEFINE gs == Append(fs, r)
           L == Len(fs)
<1>1. /\ L \in Nat /\ DOMAIN gs = 1..(L + 1) /\ DOMAIN fs = 1..L
      /\ \A i \in 1..L : gs[i] = fs[i]
      /\ gs[L + 1] = r
  BY AppendOf
<1> HIDE DEF gs, L
<1>2. ASSUME NEW i \in DOMAIN gs, gs[i].kind = "value", gs[i].sv # NoSv
      PROVE  gs[i - 1].sv < gs[i].sv
  <2>1. i \in 1..L
    BY <1>1, <1>2
  <2>2. i > 1 /\ gs[i] = fs[i]
    BY <1>1, <1>2, <2>1 DEF FramesOK
  <2>3. i - 1 \in 1..L
    BY <1>1, <2>1, <2>2
  <2>4. fs[i - 1].sv < fs[i].sv
    BY <1>1, <1>2, <2>1, <2>2 DEF OpenOlder
  <2> QED
    BY <1>1, <2>2, <2>3, <2>4
<1> QED
  BY <1>2 DEF OpenOlder, gs

\* What is to be shown of a callback,
LEMMA EventAges ==
    ASSUME phase' = "decoding", Older(svs'), ItemsOlder(pending', table'), OpenOlder(frames'),
           Newer(entries', pending'), ~ghost'.merged => Sorted(pending')
    PROVE  AgeInv'
BY DEF AgeInv

\* and what holds before it.
LEMMA AgesDecode ==
    ASSUME Inv, AgeInv, phase = "decoding"
    PROVE  /\ Decodes(svs, frames, entries, pending, table) /\ GhostOK(ghost)
           /\ Older(svs) /\ ItemsOlder(pending, table) /\ OpenOlder(frames)
           /\ Newer(entries, pending) /\ (~ghost.merged => Sorted(pending))
           /\ frames \in Seq(FrameRec) /\ FramesOK(frames, Len(svs)) /\ svs \in Svq
           /\ entries \in Seq(EntryRec) /\ pending \in Seq(QueueRec) /\ table \in Seq(EntryRec)
           /\ OnceOrNot(Values(entries)) /\ OnceOrNot(Values(table))
           /\ Len(svs) \in Nat /\ NextSv = Len(svs) + 1 /\ NextSv \in Nat /\ NextSv # NoSv
           /\ \A i \in DOMAIN pending : pending[i].target \in Nat /\ pending[i].target < NextSv
<1>1. Decodes(svs, frames, entries, pending, table) /\ GhostOK(ghost)
  BY InvDecodes, GhostDecodes
<1>2. /\ frames \in Seq(FrameRec) /\ FramesOK(frames, Len(svs)) /\ svs \in Svq
      /\ entries \in Seq(EntryRec) /\ pending \in Seq(QueueRec) /\ table \in Seq(EntryRec)
      /\ OnceOrNot(Values(entries)) /\ OnceOrNot(Values(table))
      /\ QueueOK(pending, Len(svs), table)
  BY <1>1 DEF Decodes, Apart
<1>3. Len(svs) \in Nat /\ NextSv = Len(svs) + 1
  BY <1>1, TopIs
<1>4. NextSv \in Nat /\ NextSv # NoSv
  BY <1>3 DEF NoSv
<1>5. ASSUME NEW i \in DOMAIN pending
      PROVE  pending[i].target \in Nat /\ pending[i].target < NextSv
  <2>1. pending[i].target \in 1..Len(svs)
    BY <1>2 DEF QueueOK
  <2> QED
    BY <1>3, <2>1
<1> QED
  BY <1>1, <1>2, <1>3, <1>4, <1>5 DEF AgeInv

\* A field of a hash or of a table.
LEMMA ItemAges ==
    ASSUME Inv, AgeInv, phase = "decoding", Top.kind \in {"message", "table"}, NEW f \in AllFields
    PROVE  /\ Older(ItemTarget(f).svs) /\ Newer(ItemTarget(f).entries, pending)
           /\ OpenOlder(Noted(f))
<1> DEFINE t == ItemTarget(f)
           gs == Noted(f)
<1>1. /\ Decodes(svs, frames, entries, pending, table) /\ Older(svs) /\ OpenOlder(frames)
      /\ Newer(entries, pending) /\ svs \in Svq /\ entries \in Seq(EntryRec)
      /\ frames \in Seq(FrameRec) /\ FramesOK(frames, Len(svs)) /\ Len(svs) \in Nat
      /\ NextSv \in Nat /\ NextSv # NoSv
      /\ \A i \in DOMAIN pending : pending[i].target < NextSv
  BY AgesDecode
<1>2. \E P : Targets(t, Outside(Roots1, frames, entries, table), P, pending, f)
  BY <1>1, ItemDecodes
<1>3. Older(t.svs)
  <2> HIDE DEF t
  <2> QED
    BY <1>1, <1>2, OlderTargets
<1>4. Newer(t.entries, pending)
  <2>1. CASE Top.kind = "table"
    <3> DEFINE e == [field |-> f, value |-> NextSv]
    <3>1. t.entries = Append(entries, e)
      BY <2>1 DEF ItemTarget
    <3>2. e \in EntryRec /\ e.value = NextSv
      BY <1>1 DEF EntryRec
    <3> HIDE DEF e, t
    <3> QED
      BY <1>1, <3>1, <3>2, NewerMore
  <2>2. CASE Top.kind # "table"
    <3>1. t.entries = entries
      BY <2>2 DEF ItemTarget
    <3> QED
      BY <1>1, <3>1
  <2> QED
    BY <2>1, <2>2
<1>5. OpenOlder(gs)
  <2>1. /\ gs \in Seq(FrameRec) /\ Len(gs) = Len(frames)
        /\ \A i \in 1..Len(frames) : gs[i].kind = frames[i].kind /\ gs[i].sv = frames[i].sv
        /\ \A M \in Nat : Len(svs) <= M => FramesOK(gs, M)
    BY <1>1, NotedIs
  <2>2. FramesOK(gs, Len(svs))
    <3>1. Len(svs) <= Len(svs)
      BY <1>1
    <3> HIDE DEF gs
    <3> QED
      BY <1>1, <2>1, <3>1
  <2>3. Len(gs) <= Len(frames)
    BY <1>1, <2>1, TopIs
  <2> HIDE DEF gs
  <2> QED
    BY <1>1, <2>1, <2>2, <2>3, OpenSame
<1> QED
  BY <1>3, <1>4, <1>5

\* The value of the open map entry.
LEMMA OpenSet ==
    ASSUME NEW fs \in Seq(FrameRec), OpenOlder(fs), NEW N \in Nat, FramesOK(fs, N),
           Last(fs).kind = "value", NEW n \in Nat, n = NoSv \/ n > N
    PROVE  OpenOlder([fs EXCEPT ![Len(fs)].sv = n])
<1> DEFINE L == Len(fs)
           r == fs[L]
           v == [r EXCEPT !.sv = n]
           gs == [fs EXCEPT ![L] = v]
<1>1. Len(fs) > 0
  BY DEF FramesOK
<1>2. /\ L \in Nat /\ L \in 1..L /\ DOMAIN fs = 1..L /\ r \in FrameRec /\ r.kind = "value"
  BY <1>1, LastOf
<1>3. L > 1
  BY <1>2 DEF FramesOK, L, r
<1>4. fs[L - 1].sv \in 0..N
  <2>1. L - 1 \in DOMAIN fs
    BY <1>2, <1>3
  <2> QED
    BY <2>1 DEF FramesOK
<1> HIDE DEF L, r
<1>5. v.sv = n
  BY <1>2 DEF FrameRec
<1> HIDE DEF v
<1>6. DOMAIN gs = 1..L /\ gs[L] = v /\ \A i \in 1..L : i # L => gs[i] = fs[i]
  BY <1>2
<1> HIDE DEF gs
<1>7. ASSUME NEW i \in 1..L, gs[i].kind = "value", gs[i].sv # NoSv
      PROVE  gs[i - 1].sv < gs[i].sv
  <2>1. CASE i = L
    <3>1. gs[L - 1] = fs[L - 1]
      BY <1>2, <1>3, <1>6
    <3>2. gs[L].sv = n /\ n > N
      BY <1>5, <1>6, <1>7, <2>1
    <3> QED
      BY <1>4, <2>1, <3>1, <3>2
  <2>2. CASE i # L
    <3>1. gs[i] = fs[i] /\ i \in DOMAIN fs
      BY <1>2, <1>6, <2>2
    <3>2. i > 1
      BY <1>7, <3>1 DEF FramesOK
    <3>3. i - 1 \in 1..L /\ i - 1 # L
      BY <1>2, <3>2
    <3>4. fs[i - 1].sv < fs[i].sv
      BY <1>7, <3>1 DEF OpenOlder
    <3> QED
      BY <1>6, <3>1, <3>3, <3>4
  <2> QED
    BY <2>1, <2>2
<1> QED
  BY <1>6, <1>7 DEF OpenOlder, gs, v, r, L

\* What a sub-message is stored in.
LEMMA SubAges ==
    ASSUME Inv, AgeInv, phase = "decoding", NEW f \in AllFields
    PROVE  LET t == SubTarget(f)
               fs == IF Top.kind = "value"
                     THEN [frames EXCEPT ![Len(frames)].sv = t.sv] ELSE Noted(f)
           IN Older(t.svs) /\ Newer(t.entries, pending) /\ OpenOlder(fs)
<1> DEFINE t == SubTarget(f)
           fs == IF Top.kind = "value"
                 THEN [frames EXCEPT ![Len(frames)].sv = t.sv] ELSE Noted(f)
<1>1. /\ Decodes(svs, frames, entries, pending, table) /\ Older(svs) /\ OpenOlder(frames)
      /\ Newer(entries, pending) /\ svs \in Svq
      /\ frames \in Seq(FrameRec) /\ FramesOK(frames, Len(svs)) /\ Len(svs) \in Nat
      /\ NextSv \in Nat /\ NextSv = Len(svs) + 1
  BY AgesDecode
<1>2. Top.kind \in {"message", "table", "array", "value"} /\ Top = Last(frames)
  BY <1>1, TopIs DEF Top
<1>3. \E i \in Idx : \E P : Targets(t, Outside(Roots1, frames, entries, table), P, pending, i)
  BY <1>1, SubDecodes
<1>4. Older(t.svs)
  <2> HIDE DEF t
  <2> QED
    BY <1>1, <1>3, OlderTargets
<1>5. CASE Top.kind \in {"message", "table"}
  <2>1. t = ItemTarget(f) /\ fs = Noted(f)
    BY <1>5 DEF SubTarget
  <2> HIDE DEF t, fs
  <2>2. Newer(t.entries, pending) /\ OpenOlder(fs)
    BY <1>5, <2>1, ItemAges
  <2> QED
    BY <1>4, <2>2 DEF t, fs
<1>6. CASE Top.kind = "array"
  <2>1. t.entries = entries /\ fs = frames
    BY <1>6 DEF SubTarget, Noted
  <2> HIDE DEF t, fs
  <2>2. Newer(t.entries, pending) /\ OpenOlder(fs)
    BY <1>1, <2>1
  <2> QED
    BY <1>4, <2>2 DEF t, fs
<1>7. CASE Top.kind = "value"
  <2>1. t.entries = entries /\ t.sv = NextSv
    BY <1>7 DEF SubTarget
  <2> HIDE DEF t
  <2>2. fs = [frames EXCEPT ![Len(frames)].sv = NextSv]
    BY <1>7, <2>1
  <2> HIDE DEF fs
  <2>3. NextSv > Len(svs)
    BY <1>1
  <2>4. OpenOlder(fs)
    BY <1>1, <1>2, <1>7, <2>2, <2>3, OpenSet
  <2> QED
    BY <1>1, <1>4, <2>1, <2>4 DEF t, fs
<1> QED
  BY <1>2, <1>5, <1>6, <1>7

\* A scalar is stored.
LEMMA ScalarAges ==
    ASSUME Inv, AgeInv, NEW f \in AllFields, OnScalar(f)
    PROVE  AgeInv'
<1>1. /\ phase = "decoding" /\ phase' = "decoding" /\ Top.kind \in {"message", "table"}
      /\ frames' = Noted(f) /\ svs' = ItemTarget(f).svs /\ entries' = ItemTarget(f).entries
      /\ pending' = pending /\ table' = table /\ ghost' = ghost
  BY DEF OnScalar, Decoding, Event, InMessage
<1>2. Older(svs') /\ Newer(entries', pending') /\ OpenOlder(frames')
  BY <1>1, ItemAges
<1> QED
  BY <1>1, <1>2 DEF AgeInv

\* An array or a map is opened.
LEMMA StartManyAges ==
    ASSUME Inv, AgeInv, Inv', NEW f \in AllFields, OnStartMany(f)
    PROVE  AgeInv'
<1> DEFINE fs == Noted(f)
           sv == ItemTarget(f).sv
           array == Frame("array", sv, Top.type, f)
           map == Frame("map", sv, Top.type, f)
           value == Frame("value", NoSv, Top.type, f)
<1>1. /\ phase = "decoding" /\ phase' = "decoding" /\ Top.kind \in {"message", "table"}
      /\ frames' = fs \o IF Fields[Top.type][f].label = "list" THEN <<array>> ELSE <<map, value>>
      /\ svs' = ItemTarget(f).svs /\ entries' = ItemTarget(f).entries
      /\ pending' = pending /\ table' = table /\ ghost' = ghost
  BY DEF OnStartMany, Decoding, Event, InMessage
<1>2. Older(svs') /\ Newer(entries', pending') /\ OpenOlder(fs)
  BY <1>1, ItemAges
<1>3. fs \in Seq(FrameRec) /\ DOMAIN fs = 1..Len(fs) /\ Len(fs) \in Nat
  <2>1. Decodes(svs, frames, entries, pending, table)
    BY <1>1, AgesDecode
  <2>2. Decodes(ItemTarget(f).svs, fs, ItemTarget(f).entries, pending, table)
    BY <1>1, <2>1, ItemDecodes
  <2>3. fs \in Seq(FrameRec)
    BY <2>2 DEF Decodes
  <2> HIDE DEF fs
  <2> QED
    BY <2>3, SeqIs
<1>4. frames' \in Seq(FrameRec) /\ FramesOK(frames', Len(svs')) /\ DOMAIN frames' = 1..Len(frames')
  BY <1>1, SeqIs DEF Inv, Typed, Shape
<1>5. /\ array.kind = "array" /\ map.kind = "map" /\ value.kind = "value" /\ value.sv = NoSv
  BY DEF Frame
<1> HIDE DEF fs, array, map, value
<1>6. ASSUME NEW i \in DOMAIN frames', frames'[i].kind = "value", frames'[i].sv # NoSv
      PROVE  i \in 1..Len(fs)
  <2>1. CASE frames' = fs \o <<array>>
    <3>1. Len(frames') = Len(fs) + 1 /\ frames'[Len(fs) + 1] = array
      BY <1>3, <2>1
    <3> QED
      BY <1>3, <1>4, <1>5, <1>6, <3>1
  <2>2. CASE frames' = fs \o <<map, value>>
    <3>1. /\ Len(frames') = Len(fs) + 2 /\ frames'[Len(fs) + 1] = map
          /\ frames'[Len(fs) + 2] = value
      BY <1>3, <2>2
    <3>2. i \in 1..Len(fs) \/ i = Len(fs) + 1 \/ i = Len(fs) + 2
      BY <1>3, <1>4, <3>1
    <3> QED
      BY <1>5, <1>6, <3>1, <3>2
  <2> QED
    BY <1>1, <2>1, <2>2
<1>7. \A i \in 1..Len(fs) : frames'[i] = fs[i]
  <2>1. CASE frames' = fs \o <<array>>
    BY <1>3, <2>1
  <2>2. CASE frames' = fs \o <<map, value>>
    BY <1>3, <2>2
  <2> QED
    BY <1>1, <2>1, <2>2
<1>8. OpenOlder(frames')
  <2>1. ASSUME NEW i \in DOMAIN frames', frames'[i].kind = "value", frames'[i].sv # NoSv
        PROVE  frames'[i - 1].sv < frames'[i].sv
    <3>1. i \in 1..Len(fs)
      BY <1>6, <2>1
    <3>2. i > 1
      BY <1>4, <2>1 DEF FramesOK
    <3>3. i - 1 \in 1..Len(fs)
      BY <1>3, <3>1, <3>2
    <3>4. fs[i - 1].sv < fs[i].sv
      BY <1>2, <1>3, <1>7, <2>1, <3>1 DEF OpenOlder
    <3> QED
      BY <1>7, <3>1, <3>3, <3>4
  <2> QED
    BY <2>1 DEF OpenOlder
<1> QED
  BY <1>1, <1>2, <1>8 DEF AgeInv

\* An array or a map is closed.
LEMMA EndManyAges ==
    ASSUME Inv, AgeInv, Inv', OnEndMany
    PROVE  AgeInv'
<1>1. /\ phase = "decoding" /\ phase' = "decoding"
      /\ \/ Top.kind = "array" /\ frames' = Front(frames)
         \/ Top.kind = "value" /\ Top.sv = NoSv /\ frames' = Front(Front(frames))
      /\ UNCHANGED <<svs, entries, pending, table, ghost>>
  BY DEF OnEndMany, Decoding, Event
<1>2. /\ frames \in Seq(FrameRec) /\ FramesOK(frames, Len(svs)) /\ OpenOlder(frames)
      /\ Older(svs) /\ ItemsOlder(pending, table) /\ Newer(entries, pending)
      /\ ~ghost.merged => Sorted(pending)
  BY <1>1, AgesDecode
<1>3. frames' \in Seq(FrameRec) /\ FramesOK(frames', Len(svs')) /\ Len(frames') > 0
  BY <1>1 DEF Inv, Typed, Shape, FramesOK
<1>4. Len(frames') <= Len(frames) /\ \A i \in 1..Len(frames') : frames'[i] = frames[i]
  <2> DEFINE L == Len(frames)
             gs == Front(frames)
  <2>1. /\ gs \in Seq(FrameRec) /\ Len(gs) = L - 1 /\ L \in Nat
        /\ \A i \in 1..(L - 1) : gs[i] = frames[i]
    BY <1>2, FrontOf DEF FramesOK
  <2> HIDE DEF gs
  <2>2. CASE frames' = gs
    BY <2>1, <2>2
  <2>3. CASE frames' = Front(gs)
    <3> DEFINE hs == Front(gs)
    <3>1. Len(gs) > 0
      <4>1. CASE Len(gs) = 0
        <5>1. gs = <<>>
          BY <2>1, <4>1
        <5>2. Front(gs) = <<>>
          BY <5>1 DEF Front
        <5>3. frames' = <<>>
          BY <2>3, <5>2
        <5> QED
          BY <1>3, <5>3
      <4> QED
        BY <2>1, <4>1, SeqIs
    <3>2. /\ Len(hs) = L - 1 - 1 /\ \A i \in 1..(L - 1 - 1) : hs[i] = gs[i]
      BY <2>1, <3>1, FrontOf
    <3> HIDE DEF hs, L
    <3>3. frames' = hs
      BY <2>3 DEF hs
    <3>4. \A i \in 1..(L - 1 - 1) : i \in 1..(L - 1)
      BY <2>1
    <3>5. Len(frames') <= L
      BY <2>1, <3>2, <3>3
    <3>6. \A i \in 1..Len(frames') : frames'[i] = frames[i]
      BY <2>1, <3>2, <3>3, <3>4
    <3> QED
      BY <3>5, <3>6 DEF L
  <2> QED
    BY <1>1, <2>2, <2>3 DEF gs
<1>5. OpenOlder(frames')
  BY <1>2, <1>3, <1>4, OpenSame
<1> QED
  BY <1>1, <1>2, <1>5 DEF AgeInv

\* Something newer is put in.
LEMMA OlderPut ==
    ASSUME NEW s \in Svq, Older(s), NEW h \in DOMAIN s, NEW i, NEW v, v > h
    PROVE  Older(Put(s, h, i, v)) /\ Slotted(Put(s, h, i, v))
<1> DEFINE f == With(s[h].slots, i, v)
           r == [s EXCEPT ![h].slots = f]
<1>1. r = Put(s, h, i, v)
  BY DEF Put
<1>2. DOMAIN f = {i} \cup DOMAIN s[h].slots /\ f[i] = v
      /\ \A j \in DOMAIN s[h].slots : j # i => f[j] = s[h].slots[j]
  BY DEF With
<1>3. \A k \in DOMAIN s : s[k] \in SvRec
  BY SeqIs DEF Svq
<1> HIDE DEF f
<1>4. DOMAIN r = DOMAIN s /\ r[h].slots = f /\ "slots" \in DOMAIN r[h]
      /\ \A k \in DOMAIN s : k # h => r[k] = s[k]
  BY <1>3 DEF SvRec
<1>5. \A k \in DOMAIN s : "slots" \in DOMAIN s[k]
  BY <1>3 DEF SvRec
<1> HIDE DEF r
<1>6. ASSUME NEW k \in DOMAIN r, NEW j \in DOMAIN r[k].slots
      PROVE  r[k].slots[j] = NoSv \/ r[k].slots[j] > k
  <2>1. CASE k # h
    BY <1>4, <1>6, <2>1 DEF Older
  <2>2. CASE k = h /\ j = i
    BY <1>2, <1>4, <2>2
  <2>3. CASE k = h /\ j # i
    <3>1. j \in DOMAIN s[h].slots /\ r[h].slots[j] = s[h].slots[j]
      BY <1>2, <1>4, <1>6, <2>3
    <3>2. s[h].slots[j] = NoSv \/ s[h].slots[j] > h
      BY <3>1 DEF Older
    <3> QED
      BY <2>3, <3>1, <3>2
  <2> QED
    BY <2>1, <2>2, <2>3
<1>7. Slotted(r)
  BY <1>4, <1>5 DEF Slotted
<1> QED
  BY <1>1, <1>6, <1>7 DEF Older

\* The value of a map entry moves into the map.
LEMMA EndMapEntryAges ==
    ASSUME Inv, AgeInv, NEW key, OnEndMapEntry(key)
    PROVE  AgeInv'
<1> DEFINE L == Len(frames)
           h == frames[L - 1].sv
           v == Top.sv
           old == IF key \in DOMAIN svs[h].slots THEN <<svs[h].slots[key]>> ELSE <<>>
<1>1. /\ phase = "decoding" /\ phase' = "decoding" /\ Top.kind = "value" /\ v # NoSv
      /\ svs' = IF key = NoKey THEN svs ELSE Release(Put(svs, h, key, v), old)
      /\ frames' = [frames EXCEPT ![L].sv = NoSv]
      /\ entries' = entries /\ pending' = pending /\ table' = table
      /\ ghost' = [ghost EXCEPT !.lost = @ \/ key = NoKey]
  BY DEF OnEndMapEntry, Decoding, Event
<1>2. /\ Decodes(svs, frames, entries, pending, table) /\ GhostOK(ghost)
      /\ frames \in Seq(FrameRec) /\ FramesOK(frames, Len(svs)) /\ OpenOlder(frames)
      /\ Older(svs) /\ ItemsOlder(pending, table) /\ Newer(entries, pending)
      /\ ~ghost.merged => Sorted(pending)
      /\ svs \in Svq /\ Len(svs) \in Nat
  BY <1>1, AgesDecode
<1>3. ghost'.merged = ghost.merged
  BY <1>1, <1>2 DEF GhostOK
<1>4. L \in Nat /\ L \in DOMAIN frames /\ Top = frames[L] /\ DOMAIN frames = 1..L
  BY <1>2, TopIs
<1>5. h \in DOMAIN svs /\ v > h
  <2>1. L > 1 /\ frames[L - 1].kind = "map"
    BY <1>1, <1>2, <1>4 DEF FramesOK
  <2>2. L - 1 \in DOMAIN frames
    BY <1>4, <2>1
  <2>3. h \in 0..Len(svs) /\ h # NoSv /\ v \in 0..Len(svs)
    BY <1>2, <1>4, <2>1, <2>2 DEF FramesOK
  <2>4. h < v
    BY <1>1, <1>2, <1>4 DEF OpenOlder
  <2> HIDE DEF h, v
  <2>5. DOMAIN svs = 1..Len(svs)
    BY <1>2, HeldIs
  <2> QED
    BY <1>2, <2>3, <2>4, <2>5 DEF NoSv
<1> HIDE DEF h, v, old
<1>6. Older(svs')
  <2>1. Older(Put(svs, h, key, v)) /\ Slotted(Put(svs, h, key, v))
    BY <1>2, <1>5, OlderPut
  <2>2. Older(Release(Put(svs, h, key, v), old))
    BY <2>1, OlderReleased
  <2> QED
    BY <1>1, <1>2, <2>2
<1>7. OpenOlder(frames')
  <2>1. Last(frames).kind = "value" /\ NoSv \in Nat
    BY <1>1 DEF Top, NoSv
  <2> QED
    BY <1>1, <1>2, <2>1, OpenSet
<1> QED
  BY <1>1, <1>2, <1>3, <1>6, <1>7 DEF AgeInv

\* One transform more, with no part of fieldtable yet.
LEMMA QueueAges ==
    ASSUME NEW p \in Seq(QueueRec), NEW n, NEW q, NewOf(q, n), NEW tb, ItemsOlder(p, tb)
    PROVE  /\ ItemsOlder(p \o q, tb)
           /\ \A i \in DOMAIN p : i \in DOMAIN (p \o q) /\ (p \o q)[i] = p[i]
           /\ Sorted(p) /\ (\A i \in DOMAIN p : p[i].target < n) => Sorted(p \o q)
           /\ DOMAIN (p \o q) = 1..Len(p \o q) /\ Len(p \o q) \in Nat
<1> DEFINE r == p \o q
           K == Len(p)
<1>1. /\ r \in Seq(QueueRec) /\ K \in Nat
      /\ q = <<>> => r = p
      /\ q # <<>> => /\ Len(r) = K + 1 /\ r[K + 1] = q[1] /\ q[1].target = n
                     /\ q[1].offset = -1 /\ q[1].size = 0
      /\ \A i \in 1..K : r[i] = p[i]
  BY QueueMore
<1> HIDE DEF r
<1>2. DOMAIN p = 1..K /\ DOMAIN r = 1..Len(r) /\ Len(r) \in Nat
  BY <1>1, SeqIs
<1> HIDE DEF K
<1>3. CASE q = <<>>
  <2>1. r = p
    BY <1>1, <1>3
  <2> QED
    BY <1>2, <2>1 DEF r
<1>4. CASE q # <<>>
  <2>1. DOMAIN r = 1..(K + 1) /\ \A i \in 1..(K + 1) : i \in 1..K \/ i = K + 1
    BY <1>1, <1>2, <1>4
  <2>2. \A i \in DOMAIN p : i \in DOMAIN r /\ r[i] = p[i]
    <3>1. ASSUME NEW i \in 1..K PROVE i \in 1..(K + 1) /\ r[i] = p[i]
      BY <1>1, <3>1
    <3> QED
      BY <1>2, <2>1, <3>1
  <2>3. ItemsOlder(r, tb)
    <3>1. ASSUME NEW i \in DOMAIN r, NEW j \in r[i].offset + 1 .. r[i].offset + r[i].size
          PROVE  tb[j].value = NoSv \/ tb[j].value > r[i].target
      <4>1. CASE i \in 1..K
        BY <1>1, <1>2, <3>1, <4>1 DEF ItemsOlder
      <4>2. CASE i = K + 1
        <5>1. r[i].offset = -1 /\ r[i].size = 0
          BY <1>1, <1>4, <4>2
        <5>2. j \in -1 + 1 .. -1 + 0
          BY <3>1, <5>1
        <5> QED
          BY <5>2
      <4> QED
        BY <2>1, <3>1, <4>1, <4>2
    <3> QED
      BY <3>1 DEF ItemsOlder
  <2>4. ASSUME Sorted(p), \A i \in DOMAIN p : p[i].target < n PROVE Sorted(r)
    <3>1. ASSUME NEW i \in DOMAIN r, NEW j \in DOMAIN r, i < j
          PROVE  r[i].target < r[j].target
      <4>1. i \in 1..K
        BY <1>1, <2>1, <3>1
      <4>2. CASE j \in 1..K
        BY <1>1, <1>2, <2>4, <3>1, <4>1, <4>2 DEF Sorted
      <4>3. CASE j = K + 1
        BY <1>1, <1>2, <1>4, <2>4, <4>1, <4>3
      <4> QED
        BY <2>1, <4>2, <4>3
    <3> QED
      BY <3>1 DEF Sorted
  <2> QED
    BY <1>2, <2>2, <2>3, <2>4 DEF r
<1> QED
  BY <1>3, <1>4

\* A sub-message is opened.
LEMMA StartSubAges ==
    ASSUME Inv, AgeInv, NEW f \in AllFields, OnStartSub(f)
    PROVE  AgeInv'
<1> DEFINE field == Fields[Top.type][f]
           type == field.type
           t == SubTarget(f)
           es == t.entries
           q == Queued(t.sv, Kind[type], field.own)
           fs == IF Top.kind = "value"
                 THEN [frames EXCEPT ![Len(frames)].sv = t.sv] ELSE Noted(f)
           o == Opened(type, t.sv, f, es)
           p == pending \o q
<1>1. /\ phase = "decoding" /\ phase' = "decoding" /\ f \in SubFields /\ type # Scalar
      /\ pending' = p /\ table' = table /\ svs' = IncQueued(t.svs, q)
      /\ IsTable(type) => Len(p) > 0
      /\ entries' = es \o Marker(type, p)
      /\ frames' = Append(fs, o)
  BY DEF OnStartSub, Decoding, Event
<1>2. /\ Decodes(svs, frames, entries, pending, table) /\ GhostOK(ghost)
      /\ ItemsOlder(pending, table) /\ (~ghost.merged => Sorted(pending))
      /\ pending \in Seq(QueueRec)
      /\ \A i \in DOMAIN pending : pending[i].target < NextSv
  BY <1>1, AgesDecode
<1>3. ghost'.merged = (ghost.merged \/ t.sv # NextSv)
  <2>1. PICK y : ghost' = [ghost EXCEPT !.merged = @ \/ t.sv # NextSv, !.lost = y]
    BY Zenon DEF OnStartSub
  <2> HIDE DEF t
  <2> QED
    BY <1>2, <2>1 DEF GhostOK
<1>4. Older(t.svs) /\ Newer(es, pending) /\ OpenOlder(fs)
  BY <1>1, SubAges
<1>5. /\ Decodes(t.svs, fs, es, pending, table)
      /\ \E i \in Idx : \E P : Targets(t, Outside(Roots1, frames, entries, table), P, pending, i)
  BY <1>2, SubDecodes
<1>6. /\ type \in Types /\ field.own \in {"none", "plain", "table"}
      /\ Kind[type] \in {"none", "plain", "table", "bare"}
  BY <1>1, <1>2, SubFieldIs
<1> HIDE DEF t, fs
<1>7. /\ t.sv \in Nat /\ t.sv \in 1..Len(t.svs) /\ es \in Seq(EntryRec) /\ OnceOrNot(Values(es))
      /\ fs \in Seq(FrameRec) /\ FramesOK(fs, Len(t.svs)) /\ t.svs \in Svq
  <2>1. t.sv \in 1..Len(t.svs) /\ Len(t.svs) \in Nat
    BY <1>5, HeldIs DEF Targets, Decodes
  <2> QED
    BY <1>5, <2>1 DEF Decodes, Apart
<1>8. NewOf(q, t.sv)
  BY <1>6, <1>7, QueuedIs
<1> HIDE DEF q
<1>9. /\ ItemsOlder(p, table) /\ DOMAIN p = 1..Len(p) /\ Len(p) \in Nat
      /\ \A i \in DOMAIN pending : i \in DOMAIN p /\ p[i] = pending[i]
      /\ Sorted(pending) /\ (\A i \in DOMAIN pending : pending[i].target < t.sv) => Sorted(p)
  BY <1>2, <1>8, QueueAges
<1> HIDE DEF p
<1>10. Older(svs')
  <2>1. SameSlots(t.svs, IncQueued(t.svs, q))
    BY <1>2, <1>5, <1>7, <1>8, Queuing DEF Decodes
  <2>2. DOMAIN svs' = DOMAIN t.svs /\ \A k \in DOMAIN t.svs : svs'[k].slots = t.svs[k].slots
    BY <1>1, <1>7, <2>1, SameHolders, HeldIs DEF SameSlots
  <2> QED
    BY <1>4, <2>2, OlderLess
<1>11. OpenOlder(frames')
  <2>1. OpenedAs(type, t.sv, f, es, o)
    BY <1>6, <1>7, OpenedIs
  <2> HIDE DEF o, es
  <2>2. o \in FrameRec /\ o.kind # "value"
    BY <2>1 DEF OpenedAs
  <2> QED
    BY <1>1, <1>4, <1>7, <2>2, OpenMore
<1>12. Newer(entries', p)
  <2>1. Marked(type, Len(p), es, entries')
    BY <1>1, <1>7, <1>9, MarkerIs
  <2>2. Newer(es, p)
    BY <1>4, <1>9, NewerTargets
  <2> DEFINE m == [field |-> Len(p), value |-> NoSv]
  <2>3. m \in EntryRec /\ m.value = NoSv /\ m.field = Len(p)
    BY <1>9 DEF EntryRec, NoSv
  <2>4. CASE IsTable(type)
    <3>1. entries' = Append(es, m)
      BY <2>1, <2>4 DEF Marked
    <3>2. m.field \in DOMAIN p
      BY <1>1, <1>9, <2>3, <2>4
    <3> HIDE DEF m, es
    <3> QED
      BY <1>7, <2>2, <2>3, <3>1, <3>2, NewerMore
  <2>5. CASE ~IsTable(type)
    BY <2>1, <2>2, <2>5 DEF Marked
  <2> QED
    BY <2>4, <2>5
<1>13. ~ghost'.merged => Sorted(p)
  BY <1>2, <1>3, <1>9
<1> QED
  BY <1>1, <1>9, <1>10, <1>11, <1>12, <1>13, EventAges

\* The items of a table move to fieldtable: all are newer than the message of the marker.
LEMMA TableDoneAges ==
    ASSUME entries \in Seq(EntryRec), table \in Seq(EntryRec), pending \in Seq(QueueRec),
           OnceOrNot(Values(entries)), OnceOrNot(Values(table)),
           Filled(Values(entries)) \cap Filled(Values(table)) = {},
           NEW N, QueueOK(pending, N, table),
           ItemsOlder(pending, table), Newer(entries, pending)
    PROVE  /\ ItemsOlder(TableDone.pending, TableDone.table)
           /\ Newer(TableDone.entries, TableDone.pending)
           /\ Sorted(pending) => Sorted(TableDone.pending)
<1>1. CASE Markers = {}
  BY <1>1 DEF TableDone, TableLeft
<1>2. CASE Markers # {}
  <2> DEFINE L == Len(entries)
             K == Len(table)
             i == Innermost
             own == Own
             outer == Outer
             x == entries[i].field
             p == PartOf(pending, x, K, Len(own))
             tb == table \o own
  <2>1. TableDone = [entries |-> outer, table |-> tb, pending |-> p]
    BY <1>2 DEF TableDone, TableMoved, PartOf
  <2>2. /\ i \in 1..L /\ entries[i].value = NoSv /\ i \in Nat
        /\ \A k \in 1..L : k > i => entries[k].value # NoSv
    BY <1>2, InnermostIs
  <2>3. outer = SubSeq(entries, 1, i - 1) /\ own = SubSeq(entries, i + 1, L)
    BY DEF Own, Outer
  <2> HIDE DEF i, own, outer
  <2>4. /\ outer \in Seq(EntryRec) /\ Len(outer) = i - 1 /\ \A j \in 1..Len(outer) : outer[j] = entries[j]
        /\ own \in Seq(EntryRec) /\ Len(own) = L - i /\ \A j \in 1..Len(own) : own[j] = entries[i + j]
        /\ OnceOrNot(Values(own)) /\ Filled(Values(own)) \subseteq Filled(Values(entries))
    BY <2>2, <2>3, ValuesSplit
  <2>5. /\ tb \in Seq(EntryRec) /\ Len(tb) = K + Len(own)
        /\ \A j \in 1..K : tb[j] = table[j]
        /\ \A j \in 1..Len(own) : tb[K + j] = own[j]
    <3>1. Filled(Values(own)) \cap Filled(Values(table)) = {}
      BY <2>4
    <3>2. /\ table \o own \in Seq(EntryRec) /\ Len(table \o own) = Len(table) + Len(own)
          /\ \A j \in 1..Len(table) : (table \o own)[j] = table[j]
          /\ \A j \in 1..Len(own) : (table \o own)[Len(table) + j] = own[j]
      <4>1. Filled(Values(table)) \cap Filled(Values(own)) = {}
        BY <3>1
      <4> QED
        BY <2>4, <4>1, ValuesConcat
    <3> QED
      BY <3>2
  <2>6. /\ K \in Nat /\ Len(own) \in Nat /\ L \in Nat /\ DOMAIN entries = 1..L
        /\ DOMAIN pending = 1..Len(pending) /\ Len(pending) \in Nat
    BY <2>4, SeqIs
  <2> HIDE DEF x
  <2>7. Given(pending, x, K, Len(own), p)
    BY <2>6, PartGiven
  <2> HIDE DEF p, tb, K, L
  <2>8. DOMAIN p = DOMAIN pending /\ \A k \in DOMAIN pending : p[k].target = pending[k].target
    BY <2>6, <2>7 DEF Given
  <2>9. ASSUME NEW k \in DOMAIN p, NEW j \in p[k].offset + 1 .. p[k].offset + p[k].size
        PROVE  tb[j].value = NoSv \/ tb[j].value > p[k].target
    <3>1. /\ k = x => p[k].offset = K /\ p[k].size = Len(own)
          /\ k # x => p[k] = pending[k]
      BY <2>6, <2>7, <2>8 DEF Given
    <3>2. CASE k = x
      <4>1. PICK m \in Nat : m = j - K
        BY <2>6, <2>9, <3>1, <3>2
      <4>2. j = K + m /\ m \in 1..Len(own)
        BY <2>6, <2>9, <3>1, <3>2, <4>1
      <4>3. tb[j] = entries[i + m]
        BY <2>4, <2>5, <4>2
      <4>4. i + m \in 1..L /\ i + m > i
        BY <2>2, <2>4, <2>6, <4>2
      <4>5. entries[i + m].value # NoSv
        BY <2>2, <4>4
      <4>6. pending[x].target < entries[i + m].value
        BY <2>2, <2>6, <4>4, <4>5 DEF Newer, x
      <4>7. entries[i + m].value \in Nat /\ pending[x].target \in Nat
        <5>1. entries[i + m] \in EntryRec
          BY <4>4, SeqIs DEF L
        <5>2. pending[x] \in QueueRec
          BY <2>8, <2>9, <3>2, SeqIs
        <5> QED
          BY <5>1, <5>2 DEF EntryRec, QueueRec
      <4> QED
        BY <2>8, <2>9, <3>2, <4>3, <4>6, <4>7
    <3>3. CASE k # x
      <4>1. p[k] = pending[k] /\ k \in DOMAIN pending
        BY <2>8, <3>1, <3>3
      <4>2. \/ pending[k].offset = -1 /\ pending[k].size = 0
            \/ pending[k].offset >= 0 /\ pending[k].offset + pending[k].size <= K
        BY <4>1 DEF QueueOK, K
      <4>3. pending[k].offset \in Int /\ pending[k].size \in Nat
        <5>1. pending[k] \in QueueRec
          BY <4>1, SeqIs
        <5> QED
          BY <5>1 DEF QueueRec
      <4>4. j \in 1..K
        BY <2>6, <2>9, <4>1, <4>2, <4>3
      <4>5. tb[j] = table[j]
        BY <2>5, <4>4
      <4>6. table[j].value = NoSv \/ table[j].value > pending[k].target
        BY <2>9, <4>1 DEF ItemsOlder
      <4> QED
        BY <4>1, <4>5, <4>6
    <3> QED
      BY <3>2, <3>3
  <2>10. ItemsOlder(p, tb)
    BY <2>9 DEF ItemsOlder
  <2>11. Newer(outer, p)
    <3>1. Len(outer) <= L
      BY <2>2, <2>4, <2>6
    <3>2. Newer(outer, pending)
      BY <2>4, <3>1, NewerFewer DEF L
    <3> QED
      BY <2>8, <3>2, NewerTargets
  <2>12. Sorted(pending) => Sorted(p)
    BY <2>8 DEF Sorted
  <2> QED
    BY <2>1, <2>10, <2>11, <2>12
<1> QED
  BY <1>1, <1>2

\* The end of a message.
LEMMA EndSubAges ==
    ASSUME Inv, AgeInv, Inv', OnEndSub
    PROVE  AgeInv'
<1>1. /\ phase = "decoding" /\ phase' = "decoding" /\ Len(frames) > 1 /\ svs' = svs
      /\ frames' = Front(frames)
      /\ \/ entries' = entries /\ table' = table /\ pending' = pending
         \/ /\ entries' = TableDone.entries /\ table' = TableDone.table
            /\ pending' = TableDone.pending
  BY DEF OnEndSub, Decoding, Event
<1>2. /\ Decodes(svs, frames, entries, pending, table) /\ GhostOK(ghost)
      /\ Older(svs) /\ ItemsOlder(pending, table) /\ OpenOlder(frames)
      /\ Newer(entries, pending) /\ (~ghost.merged => Sorted(pending))
      /\ frames \in Seq(FrameRec) /\ FramesOK(frames, Len(svs)) /\ svs \in Svq
  BY <1>1, AgesDecode
<1>3. ghost'.merged = ghost.merged
  <2>1. CASE Top.kind = "table"
    <3>1. PICK w : ghost' = [ghost EXCEPT !.written = w]
      BY <2>1, Zenon DEF OnEndSub
    <3> QED
      BY <1>2, <3>1 DEF GhostOK
  <2>2. CASE Top.kind # "table"
    BY <2>2 DEF OnEndSub
  <2> QED
    BY <2>1, <2>2
<1>4. ItemsOlder(pending', table') /\ Newer(entries', pending') /\ (Sorted(pending) => Sorted(pending'))
  <2>1. /\ ItemsOlder(TableDone.pending, TableDone.table)
        /\ Newer(TableDone.entries, TableDone.pending)
        /\ Sorted(pending) => Sorted(TableDone.pending)
    BY <1>2, TableDoneAges DEF Decodes, Apart
  <2> QED
    BY <1>1, <1>2, <2>1
<1>5. OpenOlder(frames')
  <2>1. frames' \in Seq(FrameRec) /\ FramesOK(frames', Len(svs'))
    BY <1>1 DEF Inv, Typed, Shape
  <2>2. Len(frames') <= Len(frames) /\ \A i \in 1..Len(frames') : frames'[i] = frames[i]
    BY <1>1, <1>2, FrontOf
  <2> QED
    BY <1>2, <2>1, <2>2, OpenSame
<1> QED
  BY <1>1, <1>2, <1>3, <1>4, <1>5, EventAges

\* Decoding ends.
LEMMA FinishAges ==
    ASSUME Inv, AgeInv, NEW result, Finish(result)
    PROVE  AgeInv'
<1> DEFINE done == IF frames[1].kind = "table" THEN TableDone ELSE TableLeft
           ids == [i \in Unowned |-> frames[i].sv]
<1>1. /\ phase = "decoding" /\ phase' = "applying"
      /\ svs' = Release(Dec(svs, ids), Values(done.entries))
      /\ table' = done.table /\ pending' = done.pending
  BY DEF Finish, Cleared
<1>2. /\ Decodes(svs, frames, entries, pending, table) /\ GhostOK(ghost)
      /\ Older(svs) /\ ItemsOlder(pending, table)
      /\ Newer(entries, pending) /\ (~ghost.merged => Sorted(pending)) /\ svs \in Svq
  BY <1>1, AgesDecode
<1>3. ghost'.merged = ghost.merged
  <2>1. PICK w, c : ghost' = [ghost EXCEPT !.written = w, !.cut = c]
    BY Zenon DEF Finish
  <2> QED
    BY <1>2, <2>1 DEF GhostOK
<1>4. ItemsOlder(pending', table') /\ (Sorted(pending) => Sorted(pending'))
  <2>1. /\ ItemsOlder(TableDone.pending, TableDone.table)
        /\ Sorted(pending) => Sorted(TableDone.pending)
    BY <1>2, TableDoneAges DEF Decodes, Apart
  <2>2. ItemsOlder(TableLeft.pending, TableLeft.table) /\ TableLeft.pending = pending
    BY <1>2 DEF TableLeft
  <2> QED
    BY <1>1, <2>1, <2>2
<1>5. Older(svs')
  <2> HIDE DEF ids, done
  <2>1. Slotted(svs)
    BY <1>2, HeldIs, SvIs DEF Slotted, SvRec
  <2>2. /\ DOMAIN Dec(svs, ids) = DOMAIN svs /\ Slotted(Dec(svs, ids))
        /\ \A k \in DOMAIN svs : Dec(svs, ids)[k].slots = svs[k].slots
    BY <2>1, DecOwns
  <2>3. Older(Dec(svs, ids))
    BY <1>2, <2>2, OlderLess
  <2> QED
    BY <1>1, <2>2, <2>3, OlderReleased
<1> QED
  BY <1>1, <1>2, <1>3, <1>4, <1>5 DEF AgeInv

\* A call begins with the root alone.
LEMMA PrepareAges ==
    ASSUME Inv', NEW root \in Roots, Prepare(root)
    PROVE  AgeInv'
<1> DEFINE q == Queued(1, Kind[root], "none")
           o == Opened(root, 1, NoField, <<>>)
           s == <<NewSv>>
           es == Marker(root, q)
<1>1. /\ phase' = "decoding" /\ pending' = q /\ frames' = <<o>> /\ entries' = es
      /\ svs' = IncQueued(s, q)
      /\ IsTable(root) => Len(q) > 0
  BY DEF Prepare
<1>2. root \in Types /\ Kind[root] \in {"none", "plain", "table", "bare"}
  BY KindAssumption
<1>3. NewOf(q, 1)
  BY <1>2, QueuedIs
<1>4. /\ Len(frames') = 1 /\ frames' \in Seq(FrameRec) /\ FramesOK(frames', Len(svs'))
      /\ pending' \in Seq(QueueRec) /\ frames'[1] = o
  BY <1>1 DEF Inv, Typed, Shape
<1> HIDE DEF o, q
<1>5. /\ q \in Seq(QueueRec) /\ DOMAIN q = 1..Len(q) /\ Len(q) \in Nat /\ (Len(q) > 0 => Len(q) = 1)
      /\ \A i \in DOMAIN q : q[i].offset = -1 /\ q[i].size = 0
  <2>1. CASE q = <<>>
    BY <2>1
  <2>2. ASSUME NEW x \in QueueRec, q = <<x>>, x.offset = -1, x.size = 0
        PROVE  /\ Len(q) = 1 /\ DOMAIN q = {1} /\ q[1] = x
    BY <2>2
  <2>3. DOMAIN q = 1..Len(q) /\ Len(q) \in Nat /\ q \in Seq(QueueRec)
    BY <1>1, <1>4, SeqIs
  <2>4. CASE q # <<>>
    <3>1. PICK x \in QueueRec : q = <<x>> /\ x.offset = -1 /\ x.size = 0
      BY <1>3, <2>4 DEF NewOf
    <3> QED
      BY <2>2, <2>3, <3>1
  <2> QED
    BY <2>1, <2>3, <2>4
<1>6. Older(svs')
  <2>1. s \in Svq /\ Len(s) = 1 /\ DOMAIN s = {1} /\ s[1] = NewSv
    BY NoSlots DEF Svq, SvRec, NewSv
  <2>2. DOMAIN svs' = DOMAIN s /\ \A k \in DOMAIN s : svs'[k].slots = s[k].slots
    <3> HIDE DEF s
    <3>1. CASE q = <<>>
      BY <1>1, <3>1 DEF IncQueued
    <3>2. CASE q # <<>>
      <4> DEFINE n == q[1].target
                 r == [s EXCEPT ![n].refs = s[n].refs + 1]
      <4>1. n = 1
        <5>1. PICK x \in QueueRec : q = <<x>> /\ x.target = 1
          BY <1>3, <3>2 DEF NewOf
        <5> QED
          BY <5>1
      <4>2. svs' = r
        BY <1>1, <3>2 DEF IncQueued
      <4>3. s[n].refs + 1 \in Int /\ n \in 1..Len(s)
        BY <2>1, <4>1 DEF NewSv
      <4> HIDE DEF n
      <4>4. SameSlots(s, r)
        BY <2>1, <4>3, CountIs
      <4> HIDE DEF r
      <4> QED
        BY <2>1, <4>2, <4>4, HeldIs DEF SameSlots, SameLen
    <3> QED
      BY <3>1, <3>2
  <2>3. \A k \in DOMAIN svs' : DOMAIN svs'[k].slots = {}
    BY <2>1, <2>2, NoSlots DEF NewSv
  <2> QED
    BY <2>3 DEF Older
<1>7. OpenOlder(frames')
  <2>1. DOMAIN frames' = 1..1
    BY <1>4, SeqIs
  <2>2. \A i \in DOMAIN frames' : frames'[i].kind # "value"
    BY <1>4, <2>1 DEF FramesOK
  <2> QED
    BY <2>2 DEF OpenOlder
<1>8. Newer(entries', pending')
  <2>1. CASE IsTable(root)
    <3> DEFINE m == [field |-> Len(q), value |-> NoSv]
    <3>1. entries' = <<m>>
      BY <1>1, <2>1 DEF Marker
    <3>2. m.field = Len(q) /\ m.value = NoSv
      OBVIOUS
    <3> HIDE DEF m
    <3>3. DOMAIN entries' = {1} /\ entries'[1] = m
      BY <3>1
    <3>4. Len(q) \in DOMAIN q
      BY <1>1, <1>5, <2>1
    <3> QED
      BY <1>1, <3>2, <3>3, <3>4 DEF Newer
  <2>2. CASE ~IsTable(root)
    <3>1. DOMAIN entries' = {}
      BY <1>1, <2>2 DEF Marker
    <3> QED
      BY <3>1 DEF Newer
  <2> QED
    BY <2>1, <2>2
<1>9. ItemsOlder(pending', table')
  <2>1. \A i \in DOMAIN q : q[i].offset + 1 .. q[i].offset + q[i].size = {}
    <3>1. -1 + 1 .. -1 + 0 = {}
      OBVIOUS
    <3> QED
      BY <1>5, <3>1
  <2> QED
    BY <1>1, <2>1 DEF ItemsOlder
<1>10. Sorted(pending')
  <2>1. \A i, j \in DOMAIN q : ~(i < j)
    BY <1>5
  <2> QED
    BY <1>1, <2>1 DEF Sorted
<1> QED
  BY <1>1, <1>6, <1>7, <1>8, <1>9, <1>10, EventAges

\* A transform leaves its message as it is, empties it, or gives it items that are newer.
LEMMA ApplyAges ==
    ASSUME Inv, AgeInv, NEW keep \in BOOLEAN, Apply(keep)
    PROVE  AgeInv'
<1>1. /\ phase = "applying" /\ at > 0 /\ Matches /\ phase' = "applying" /\ ghost' = Logged
      /\ pending' = pending
  BY DEF Apply, Applying
<1>2. /\ Applies(svs, pending, table, ghost.cut) /\ at \in 0..Len(pending) /\ GhostOK(ghost)
      /\ Older(svs) /\ ItemsOlder(pending, table) /\ (~ghost.merged => Sorted(pending))
  BY <1>1, InvApplies DEF AgeInv
<1>3. svs \in Svq /\ DOMAIN svs = 1..Len(svs) /\ \A k \in DOMAIN svs : svs[k] \in SvRec
  BY <1>2, HeldIs, SvIs DEF Applies
<1>4. /\ This.by \in {"plain", "table"} /\ This.offset \in Int /\ This.size \in Nat
      /\ (This.offset = -1 \/ (This.offset >= 0 /\ This.offset + This.size <= Len(table)))
      /\ This.target \in DOMAIN svs /\ at \in DOMAIN pending
  <2>1. at \in DOMAIN pending /\ This \in QueueRec
    BY <1>1, <1>2, SeqIs DEF Applies, This
  <2> QED
    BY <1>2, <1>3, <2>1 DEF QueueRec, Applies, QueueOK, This
<1>5. ghost'.merged = ghost.merged
  BY <1>1, <1>2 DEF GhostOK, Logged
<1>6. Older(svs') /\ ItemsOlder(pending', table')
  <2>1. CASE This.by = "plain" /\ keep
    BY <1>1, <1>2, <2>1 DEF Apply
  <2>2. CASE This.by = "plain" /\ ~keep
    <3> DEFINE a == [svs EXCEPT ![This.target].slots = <<>>]
    <3>1. svs' = Release(a, svs[This.target].slots) /\ table' = table
      BY <2>2 DEF Apply
    <3>2. DOMAIN a = DOMAIN svs /\ \A k \in DOMAIN svs : a[k].slots = <<>> \/ a[k].slots = svs[k].slots
      BY <1>3 DEF SvRec
    <3>3. Slotted(a)
      BY <1>3 DEF SvRec, Slotted
    <3> HIDE DEF a
    <3>4. Older(a)
      BY <1>2, <3>2, OlderLess
    <3>5. Older(svs')
      BY <3>1, <3>3, <3>4, OlderReleased
    <3> QED
      BY <1>1, <1>2, <3>1, <3>5
  <2>3. CASE This.by = "table"
    <3> DEFINE o == This.offset
               z == This.size
               h == This.target
               f == ItemsOf(table, o, z)
               tb2 == RestOf(table, o, z)
    <3>1. svs' = [svs EXCEPT ![h].slots = f] /\ table' = tb2
      BY <2>3 DEF Apply, Items, ItemsOf, RestOf
    <3>2. o \in Nat /\ z \in Nat /\ o + z <= Len(table)
      BY <1>1, <1>4, <2>3 DEF Matches
    <3>3. \A j \in o + 1 .. o + z : table[j].value = NoSv \/ table[j].value > h
      BY <1>2, <1>4 DEF ItemsOlder, This
    <3> HIDE DEF o, z, h
    <3>4. Takes(table, o, z, f, tb2)
      BY <1>2, <3>2, ItemsTaken DEF Applies
    <3>5. \A j \in DOMAIN tb2 : tb2[j].value = NoSv \/ (j \in DOMAIN table /\ tb2[j] = table[j])
      BY DEF RestOf
    <3>6. ASSUME NEW j \in DOMAIN table \ DOMAIN tb2 PROVE FALSE
      BY <3>6 DEF RestOf
    <3> HIDE DEF f, tb2
    <3>7. Older(svs')
      <4>1. ASSUME NEW i \in DOMAIN f PROVE f[i] = NoSv \/ f[i] > h
        <5>1. i \in 1..z /\ f[i] = table[o + i].value
          BY <3>4, <4>1 DEF Takes
        <5>2. o + i \in o + 1 .. o + z
          BY <3>2, <5>1
        <5> QED
          BY <3>3, <5>1, <5>2
      <4>2. /\ DOMAIN svs' = DOMAIN svs
            /\ \A k \in DOMAIN svs : svs'[k].slots = IF k = h THEN f ELSE svs[k].slots
        BY <1>3, <3>1 DEF SvRec
      <4> QED
        BY <1>2, <4>1, <4>2 DEF Older
    <3>8. ItemsOlder(pending, tb2)
      <4>1. ASSUME NEW i \in DOMAIN pending,
                   NEW j \in pending[i].offset + 1 .. pending[i].offset + pending[i].size
            PROVE  tb2[j].value = NoSv \/ tb2[j].value > pending[i].target
        <5>1. \/ pending[i].offset = -1 /\ pending[i].size = 0
              \/ pending[i].offset >= 0 /\ pending[i].offset + pending[i].size <= Len(table)
          BY <1>2 DEF Applies, QueueOK
        <5>2. pending[i].offset \in Int /\ pending[i].size \in Nat
          <6>1. pending[i] \in QueueRec
            BY <1>2, SeqIs DEF Applies
          <6> QED
            BY <6>1 DEF QueueRec
        <5>3. Len(table) \in Nat /\ DOMAIN table = 1..Len(table)
          BY <1>2, SeqIs DEF Applies
        <5>4. j \in DOMAIN table
          BY <4>1, <5>1, <5>2, <5>3
        <5>5. j \in DOMAIN tb2
          BY <3>6, <5>4
        <5> QED
          BY <1>2, <3>5, <4>1, <5>5 DEF ItemsOlder
      <4> QED
        BY <4>1 DEF ItemsOlder
    <3> QED
      BY <1>1, <3>1, <3>7, <3>8
  <2> QED
    BY <1>4, <2>1, <2>2, <2>3
<1> QED
  BY <1>1, <1>2, <1>5, <1>6 DEF AgeInv

\* The call ends.
LEMMA LeaveAges ==
    ASSUME Inv, AgeInv, NEW result, Leave(result), phase = "applying"
    PROVE  AgeInv'
<1> DEFINE ids == [i \in DOMAIN pending |-> pending[i].target]
           a == Dec(svs, ids)
           b == Dec(a, Values(table))
           last == IF outcome = "ok" /\ result # "ok" THEN <<1>> ELSE <<>>
<1>1. svs' = Release(b, last) /\ DOMAIN pending' = {} /\ phase' = "idle"
  BY DEF Leave
<1>2. Older(svs) /\ Slotted(svs)
  BY HeldIs, SvIs DEF AgeInv, Inv, Typed, Slotted, SvRec
<1> HIDE DEF ids, last
<1>3. Older(a) /\ Slotted(a)
  <2>1. DOMAIN a = DOMAIN svs /\ Slotted(a) /\ \A k \in DOMAIN svs : a[k].slots = svs[k].slots
    BY <1>2, DecOwns
  <2> HIDE DEF a
  <2> QED
    BY <1>2, <2>1, OlderLess
<1> HIDE DEF a
<1>4. Older(b) /\ Slotted(b)
  <2>1. DOMAIN b = DOMAIN a /\ Slotted(b) /\ \A k \in DOMAIN a : b[k].slots = a[k].slots
    BY <1>3, DecOwns
  <2> HIDE DEF b
  <2> QED
    BY <1>3, <2>1, OlderLess
<1> HIDE DEF b
<1>5. Older(svs')
  BY <1>1, <1>4, OlderReleased
<1> QED
  BY <1>1, <1>5 DEF AgeInv, ItemsOlder, Sorted

\* Every step keeps the order.
LEMMA StepAges ==
    ASSUME Inv, Inv', AgeInv, [Next]_vars
    PROVE  AgeInv'
<1>1. CASE UNCHANGED vars
  BY <1>1 DEF vars, AgeInv
<1>2. ASSUME NEW root \in Roots, Prepare(root) PROVE AgeInv'
  BY <1>2, PrepareAges
<1>3. CASE Callback
  BY <1>3, ScalarAges, StartManyAges, StartSubAges, EndManyAges, EndSubAges,
     EndMapEntryAges DEF Callback
<1>4. ASSUME NEW result, Finish(result) PROVE AgeInv'
  BY <1>4, FinishAges
<1>5. CASE Skip
  <2>1. phase = "applying"
        /\ UNCHANGED <<svs, frames, entries, pending, table, phase, outcome, mapped, left, ghost>>
    BY <1>5 DEF Skip, Applying
  <2> QED
    BY <2>1 DEF AgeInv
<1>6. ASSUME NEW keep \in BOOLEAN, Apply(keep) PROVE AgeInv'
  BY <1>6, ApplyAges
<1>7. CASE Die
  <2>1. phase = "applying" /\ \E result : Leave(result)
    BY <1>7 DEF Die, Applying
  <2> QED
    BY <2>1, LeaveAges
<1>8. CASE Return
  <2>1. phase = "applying" /\ Leave(outcome)
    BY <1>8 DEF Return
  <2> QED
    BY <2>1, LeaveAges
<1> QED
  BY <1>1, <1>2, <1>3, <1>4, <1>5, <1>6, <1>7, <1>8 DEF Next

\* Containers are older than what they hold, and transforms wait in the order of the
\* messages.
THEOREM Aged == Spec => []AgeInv
<1>1. Init => AgeInv
  <2>1. SUFFICES ASSUME Init PROVE AgeInv
    OBVIOUS
  <2>2. phase = "idle" /\ DOMAIN svs = {} /\ DOMAIN pending = {}
    BY <2>1 DEF Init
  <2> QED
    BY <2>2 DEF AgeInv, Older, ItemsOlder, Sorted
<1>2. Inv /\ Inv' /\ AgeInv /\ [Next]_vars => AgeInv'
  BY StepAges
<1> QED
  BY <1>1, <1>2, Invariant, PTL DEF Spec

\* What is inside a message is newer than the message.
LEMMA InsideIsNewer ==
    ASSUME Applies(svs, pending, table, ghost.cut), Older(svs), ItemsOlder(pending, table),
           NEW n \in 1..Len(svs)
    PROVE  Inside(n) \subseteq n + 1 .. Len(svs)
<1> DEFINE parts(i) == pending[i].offset + 1 .. pending[i].offset + pending[i].size
           tabled(k) == UNION {{table[j].value : j \in parts(i)} :
                              i \in {i \in DOMAIN pending : pending[i].target = k}}
           kids == [k \in Svs |-> (Held(svs[k]) \cup tabled(k)) \ {NoSv}]
           closed == {S \in SUBSET (n + 1 .. Len(svs)) : \A k \in S \cup {n} : kids[k] \subseteq S}
           R == n + 1 .. Len(svs)
<1>1. /\ svs \in Svq /\ Len(svs) \in Nat /\ DOMAIN svs = 1..Len(svs) /\ InRange(svs)
      /\ table \in Seq(EntryRec) /\ pending \in Seq(QueueRec) /\ QueueOK(pending, Len(svs), table)
      /\ Filled(Values(table)) \subseteq 1..Len(svs)
  BY HeldIs DEF Applies, Tree, Kept
<1>2. Inside(n) = {k \in Svs : \A S \in closed : k \in S}
  BY Zenon DEF Inside
<1>3. ASSUME NEW k \in 1..Len(svs), k >= n, NEW v \in Held(svs[k]), v # NoSv
      PROVE  v \in R
  <2>1. PICK i \in DOMAIN svs[k].slots : v = svs[k].slots[i]
    BY <1>3 DEF Held
  <2>2. v > k /\ v \in 0..Len(svs)
    BY <1>1, <1>3, <2>1 DEF Older, InRange
  <2> QED
    BY <1>1, <1>3, <2>2
<1>4. ASSUME NEW k \in 1..Len(svs), k >= n, NEW v \in tabled(k), v # NoSv
      PROVE  v \in R
  <2>1. PICK i \in DOMAIN pending : pending[i].target = k /\ v \in {table[j].value : j \in parts(i)}
    BY <1>4
  <2>2. PICK j \in parts(i) : v = table[j].value
    BY <2>1
  <2>3. v > k
    BY <1>4, <2>1, <2>2 DEF ItemsOlder
  <2>4. j \in 1..Len(table)
    <3>1. \/ pending[i].offset = -1 /\ pending[i].size = 0
          \/ pending[i].offset >= 0 /\ pending[i].offset + pending[i].size <= Len(table)
      BY <1>1 DEF QueueOK
    <3>2. pending[i].offset \in Int /\ pending[i].size \in Nat
      <4>1. pending[i] \in QueueRec
        BY <1>1, SeqIs
      <4> QED
        BY <4>1 DEF QueueRec
    <3>3. Len(table) \in Nat
      BY <1>1, SeqIs
    <3> QED
      BY <3>1, <3>2, <3>3
  <2>5. v \in Filled(Values(table))
    BY <1>1, <1>4, <2>2, <2>4, ValuesIs DEF Filled
  <2> QED
    BY <1>1, <1>4, <2>3, <2>5
<1>5. R \in closed
  <2> HIDE DEF tabled
  <2>1. ASSUME NEW k \in R \cup {n} PROVE kids[k] \subseteq R
    <3>1. k \in 1..Len(svs) /\ k >= n
      BY <1>1, <2>1
    <3>2. kids[k] = (Held(svs[k]) \cup tabled(k)) \ {NoSv}
      BY <3>1 DEF Svs
    <3> QED
      BY <1>3, <1>4, <3>1, <3>2
  <2> HIDE DEF kids
  <2> QED
    BY <2>1
<1> HIDE DEF closed, R
<1>6. Inside(n) \subseteq R
  BY <1>2, <1>5
<1> QED
  BY <1>6 DEF R

\* A message is transformed before those that were queued before it, and what is inside it
\* was queued after it.
LEMMA NoneInsideWaits ==
    ASSUME Inv, AgeInv, phase = "applying", at > 0, ~ghost.merged, NEW j \in 1..at - 1
    PROVE  pending[j].target \notin Inside(This.target)
<1>1. /\ Applies(svs, pending, table, ghost.cut) /\ at \in 0..Len(pending)
      /\ Older(svs) /\ ItemsOlder(pending, table) /\ Sorted(pending)
  BY InvApplies DEF AgeInv
<1>2. DOMAIN pending = 1..Len(pending) /\ Len(pending) \in Nat
  BY <1>1, SeqIs DEF Applies
<1>3. at \in DOMAIN pending /\ j \in DOMAIN pending /\ j < at
  BY <1>1, <1>2
<1>4. This.target \in 1..Len(svs) /\ pending[j].target \in 1..Len(svs) /\ Len(svs) \in Nat
  BY <1>1, <1>3, HeldIs DEF Applies, QueueOK, This
<1>5. pending[j].target < This.target
  BY <1>1, <1>3 DEF Sorted, This
<1>6. Inside(This.target) \subseteq This.target + 1 .. Len(svs)
  BY <1>1, <1>4, InsideIsNewer
<1> QED
  BY <1>4, <1>5, <1>6

\* Only transforms that run are logged.
LEMMA OnlyRunsLog ==
    ASSUME Inv, OrderInv, OrderInv', [Next]_vars, Len(ghost'.log) > Len(ghost.log)
    PROVE  phase = "applying" /\ at > 0
<1> DEFINE l == ghost.log
           m == ghost'.log
<1>1. Len(l) \in Nat /\ l # m
  <2>1. l \in Seq(LogRec)
    BY DEF OrderInv
  <2> HIDE DEF l
  <2>2. Len(l) \in Nat
    BY <2>1, SeqIs
  <2>3. l # m
    BY <2>2 DEF l
  <2> QED
    BY <2>2, <2>3
<1>2. phase' # "decoding"
  <2>1. ASSUME phase' = "decoding" PROVE FALSE
    <3>1. m = <<>>
      BY <2>1 DEF OrderInv
    <3>2. Len(m) = 0
      BY <3>1
    <3> QED
      BY <1>1, <3>2
  <2> QED
    BY <2>1
<1>3. CASE UNCHANGED vars
  BY <1>1, <1>3 DEF vars
<1>4. ASSUME NEW result, Finish(result) PROVE FALSE
  <2>1. GhostOK(ghost)
    BY <1>4, GhostDecodes DEF Finish
  <2>2. PICK w, c : ghost' = [ghost EXCEPT !.written = w, !.cut = c]
    BY <1>4, Zenon DEF Finish
  <2>3. m = l
    BY <2>1, <2>2 DEF GhostOK
  <2> QED
    BY <1>1, <2>3
<1>5. ASSUME NEW root, Prepare(root) PROVE FALSE
  BY <1>2, <1>5 DEF Prepare
<1>6. CASE Callback
  <2>1. ASSUME Decoding, Event PROVE FALSE
    BY <1>2, <2>1 DEF Decoding, Event
  <2> QED
    BY <1>6, <2>1 DEF Callback, OnScalar, OnStartMany, OnStartSub, OnEndMany, OnEndSub,
                      OnEndMapEntry
<1>7. CASE Skip \/ Return
  <2>1. m = l
    BY <1>7 DEF Skip, Return
  <2> QED
    BY <1>1, <2>1
<1>8. ASSUME NEW keep, Apply(keep) PROVE phase = "applying" /\ at > 0
  BY <1>8 DEF Apply, Applying
<1>9. CASE Die
  BY <1>9 DEF Die, Applying
<1> QED
  BY <1>3, <1>4, <1>5, <1>6, <1>7, <1>8, <1>9 DEF Next

\* Transforms run from the inside out: when a message is transformed, no message inside
\* it still waits, unless the input had a message in several pieces.
THEOREM InsideFirst == Spec => ChildrenFirst
<1>1. Inv /\ AgeInv /\ OrderInv /\ OrderInv' /\ [Next]_vars
        => [Len(ghost'.log) > Len(ghost.log) /\ ~ghost.merged =>
               \A j \in 1..at - 1 : pending[j].target \notin Inside(This.target)]_vars
  BY OnlyRunsLog, NoneInsideWaits
<1> QED
  BY <1>1, Invariant, Aged, Ordered, PTL DEF Spec, ChildrenFirst
=============================================================================
