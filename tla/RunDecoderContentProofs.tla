---------------------- MODULE RunDecoderContentProofs ----------------------
(* Proofs about RunDecoder: what the decoded messages contain.  A decoded message  *)
(* has its required fields and its defaults, and one that came in one piece has no *)
(* two members of a oneof, and misses what its end says it misses.  No callback    *)
(* takes away what was decoded before it.                                          *)
(*                                                                                 *)
(* The handlers know an open message by its hash, by the fields they have seen of  *)
(* it and by the members of its oneofs they have stored: three stacks, which View  *)
(* puts together again.  The lemmas say what a callback changes of the view        *)
(* (Touched) and of the hashes (Stored), and what follows of what the one says of  *)
(* the other (Told, Knows); then there is one lemma for each action.               *)
EXTENDS RunDecoderProofs

----------------------------------------------------------------------------
(* The entries of the stacks.                                                      *)

\* The entry of level i on a stack that the levels in T push.
EntryAt(s, T, i) == s[Len(s) - Cardinality(T) + Upto(T, i)]

\* It is there if the stack has the entries of all these levels.
LEMMA EntryIn ==
    ASSUME NEW n \in Nat, NEW T \in SUBSET (1..n), NEW s, Len(s) \in Nat,
           Cardinality(T) <= Len(s), NEW i \in T
    PROVE  /\ Cardinality(T) \in Nat /\ Upto(T, i) \in Nat \ {0} /\ Upto(T, i) <= Cardinality(T)
           /\ Len(s) - Cardinality(T) + Upto(T, i) \in 1..Len(s)
<1>1. PICK h \in Nat : h = i - 1
  OBVIOUS
<1>2. i \in Nat \ {0} /\ i <= n
  OBVIOUS
<1>3. /\ Upto(T, h) \in Nat /\ Upto(T, i) \in Nat /\ Upto(T, i) <= Upto(T, n)
      /\ Upto(T, n) = Cardinality(T) /\ Cardinality(T) \in Nat
  BY <1>2, UptoIs
<1>4. Upto(T, i) = Upto(T, h) + 1
  BY <1>1, <1>2, UptoIs
<1> HIDE DEF Upto
<1> QED
  BY <1>3, <1>4

\* Pushing an entry leaves those below where they are.
Pushed(n, T, T2, low, high) ==
    /\ n \in Nat /\ T \in SUBSET (1..n) /\ (T2 = T \/ T2 = T \cup {n + 1})
    /\ Len(low) \in Nat /\ Cardinality(T) <= Len(low)
    /\ T2 = T => Len(high) = Len(low)
    /\ T2 # T => Len(high) = Len(low) + 1
    /\ \A j \in 1..Len(low) : high[j] = low[j]

\* The entries of the levels below are the same on both stacks, and the new one is on top.
LEMMA EntryBelow ==
    ASSUME NEW n, NEW T, NEW T2, NEW low, NEW high, Pushed(n, T, T2, low, high)
    PROVE  /\ \A i \in T : EntryAt(high, T2, i) = EntryAt(low, T, i)
           /\ T2 # T => EntryAt(high, T2, n + 1) = high[Len(high)]
<1> USE DEF Pushed
<1>1. /\ T2 \in SUBSET (1..(n + 1)) /\ n + 1 \in Nat /\ n + 1 \notin T
  <2>1. n + 1 \in Nat /\ n + 1 \notin T /\ \A i \in T : i \in 1..(n + 1)
    OBVIOUS
  <2>2. n + 1 \in 1..(n + 1)
    OBVIOUS
  <2> QED
    BY <2>1, <2>2
<1>2. Cardinality(T2) = Cardinality(T) + (IF T2 = T THEN 0 ELSE 1) /\ Cardinality(T) \in Nat
  <2>1. IsFiniteSet(T) /\ Cardinality(T) \in Nat
    <3>1. IsFiniteSet(1..n)
      BY FS_Interval
    <3>2. IsFiniteSet(T)
      BY <3>1, FS_Subset
    <3> QED
      BY <3>2, FS_CardinalityType
  <2>2. Cardinality(T \cup {n + 1}) = Cardinality(T) + 1
    BY <1>1, <2>1, FS_AddElement
  <2>3. CASE T2 = T
    BY <2>1, <2>3
  <2>4. CASE T2 = T \cup {n + 1} /\ T2 # T
    BY <2>1, <2>2, <2>4
  <2> QED
    BY <2>3, <2>4
<1>3. ASSUME NEW i \in T
      PROVE  EntryAt(high, T2, i) = EntryAt(low, T, i)
  <2>1. Len(low) - Cardinality(T) + Upto(T, i) \in 1..Len(low) /\ Upto(T, i) \in Nat
    BY EntryIn
  <2>2. Upto(T2, i) = Upto(T, i)
    <3>1. i \in Nat /\ i <= n
      OBVIOUS
    <3>2. ~(n + 1 <= i)
      BY <3>1
    <3>3. {j \in T2 : j <= i} = {j \in T : j <= i}
      BY <3>2
    <3> QED
      BY <3>3 DEF Upto
  <2>3. Len(high) - Cardinality(T2) = Len(low) - Cardinality(T)
    BY <1>2
  <2> QED
    BY <2>1, <2>2, <2>3 DEF EntryAt
<1>4. ASSUME T2 # T
      PROVE  EntryAt(high, T2, n + 1) = high[Len(high)]
  <2>1. Upto(T2, n + 1) = Cardinality(T2)
    BY <1>1, UptoIs
  <2>2. Cardinality(T2) \in Nat /\ Len(high) \in Nat
    BY <1>2
  <2>3. Len(high) - Cardinality(T2) + Cardinality(T2) = Len(high)
    BY <2>2
  <2> QED
    BY <2>1, <2>3 DEF EntryAt
<1> QED
  BY <1>3, <1>4

\* The last entry is that of the innermost level.
LEMMA EntryTop ==
    ASSUME NEW n \in Nat, NEW T \in SUBSET (1..n), NEW s, Len(s) \in Nat,
           Cardinality(T) <= Len(s), NEW m \in T, \A i \in T : i <= m
    PROVE  /\ EntryAt(s, T, m) = s[Len(s)]
           /\ \A s2 : Len(s2) = Len(s) /\ (\A j \in 1..(Len(s) - 1) : s2[j] = s[j]) =>
                 \A i \in T : i # m => EntryAt(s2, T, i) = EntryAt(s, T, i)
<1>1. Upto(T, m) = Cardinality(T) /\ Cardinality(T) \in Nat /\ m \in Nat \ {0}
  <2>1. n \in Nat /\ m \in Nat \ {0} /\ m <= n
    OBVIOUS
  <2>2. \A i \in T : i <= n
    OBVIOUS
  <2>3. {i \in T : i <= m} = {i \in T : i <= n}
    BY <2>2
  <2>4. Upto(T, m) = Upto(T, n)
    BY <2>3 DEF Upto
  <2>5. Upto(T, n) = Cardinality(T) /\ Cardinality(T) \in Nat
    BY UptoIs
  <2> QED
    BY <2>1, <2>4, <2>5
<1>2. Len(s) - Cardinality(T) + Cardinality(T) = Len(s)
  BY <1>1
<1>3. ASSUME NEW i \in T, i # m
      PROVE  Len(s) - Cardinality(T) + Upto(T, i) \in 1..(Len(s) - 1)
  <2>1. Len(s) - Cardinality(T) + Upto(T, i) \in 1..Len(s) /\ Upto(T, i) \in Nat
    BY EntryIn
  <2>2. PICK h \in Nat : h = m - 1
    BY <1>1
  <2>3. Upto(T, m) = Upto(T, h) + 1
    BY <1>1, <2>2, UptoIs
  <2>4. i \in Nat /\ i <= h
    BY <1>1, <1>3, <2>2
  <2>5. Upto(T, i) <= Upto(T, h) /\ Upto(T, h) \in Nat
    BY <2>4, UptoIs
  <2>6. Upto(T, i) < Cardinality(T)
    BY <1>1, <2>1, <2>3, <2>5
  <2> QED
    BY <1>1, <2>1, <2>6
<1> QED
  BY <1>1, <1>2, <1>3 DEF EntryAt

----------------------------------------------------------------------------
(* The messages that are open.                                                     *)

NoOneofs == [o \in {} |-> NoField]
SeenOf(L, seen, i) == IF TracksSeen(L[i].type) THEN EntryAt(seen, TrackingOf(L), i) ELSE {}
OneOf(L, one, i) == IF Oneofs(L[i].type) # {} THEN EntryAt(one, ChoosingOf(L), i) ELSE NoOneofs

\* What the handlers know of each, with the stacks it, seen and one.
View(L, it, seen, one) ==
    [i \in OwnOf(L) |-> [type |-> L[i].type, hash |-> it[HeightOf(L, i - 1) + 1],
                         seen |-> SeenOf(L, seen, i), one |-> OneOf(L, one, i)]]
ViewOf(L, c) == View(L, c.items, c.seenFields, c.seenOneof)

\* A field that is read leaves the view as it is.
LEMMA ViewAlike ==
    ASSUME NEW L, NEW tok, LevelsOK(L, tok), NEW M, NEW tok2, LevelsOK(M, tok2),
           Len(M) = Len(L), \A i \in DOMAIN L : Alike(L[i], M[i]),
           NEW it, NEW seen, NEW one
    PROVE  View(M, it, seen, one) = View(L, it, seen, one)
<1>1. /\ L \in Seq(Levels) /\ M \in Seq(Levels) /\ Len(L) \in Nat \ {0}
      /\ DOMAIN L = 1..Len(L)
  BY LevelIs
<1>2. /\ OwnOf(M) = OwnOf(L) /\ TrackingOf(M) = TrackingOf(L) /\ ChoosingOf(M) = ChoosingOf(L)
  BY <1>1, AlikeCounts
<1>3. OwnOf(L) \subseteq 1..Len(L)
  BY <1>1, SetsOf
<1>4. \A j \in 0..Len(L) : HeightOf(L, j) = HeightOf(M, j)
  BY <1>1, HeightSame
<1>5. ASSUME NEW i \in OwnOf(L)
      PROVE  /\ M[i].type = L[i].type /\ HeightOf(M, i - 1) = HeightOf(L, i - 1)
             /\ SeenOf(M, seen, i) = SeenOf(L, seen, i) /\ OneOf(M, one, i) = OneOf(L, one, i)
  <2>1. i \in DOMAIN L /\ i - 1 \in 0..Len(L)
    BY <1>1, <1>3
  <2>2. M[i].type = L[i].type
    BY <2>1 DEF Alike
  <2>3. HeightOf(M, i - 1) = HeightOf(L, i - 1)
    BY <1>4, <2>1
  <2> QED
    BY <1>2, <2>2, <2>3 DEF SeenOf, OneOf
<1> QED
  BY <1>2, <1>5, Zenon DEF View

\* The innermost one: the message itself, or the one with the map of the entry.
LEMMA HostIs ==
    ASSUME NEW L, NEW tok, LevelsOK(L, tok)
    PROVE  LET n == MapLevel(L) IN
           /\ n \in OwnOf(L) /\ n \in Nat /\ n \in DOMAIN L /\ \A i \in OwnOf(L) : i <= n
           /\ TracksSeen(L[n].type) => n \in TrackingOf(L)
           /\ Oneofs(L[n].type) # {} => n \in ChoosingOf(L)
           /\ L[n].type \in Messages
<1>1. /\ L \in Seq(Levels) /\ Len(L) \in Nat \ {0} /\ DOMAIN L = 1..Len(L)
      /\ \A i \in DOMAIN L : L[i].type \in Messages
  BY LevelIs, LevelsAre
<1>2. OwnOf(L) \subseteq 1..Len(L)
  BY <1>1, SetsOf
<1>3. MapLevel(L) \in OwnOf(L) /\ \A i \in OwnOf(L) : i <= MapLevel(L)
  <2>1. CASE InEntry(L[Len(L)])
    <3>1. Free(L) /\ MapLevel(L) = Len(L) - 1
      BY <2>1 DEF Free, MapLevel
    <3>2. Len(L) \notin OwnOf(L)
      BY <2>1 DEF OwnOf
    <3> QED
      BY <1>1, <1>2, <3>1, <3>2, FreeIs
  <2>2. CASE ~InEntry(L[Len(L)])
    <3>1. MapLevel(L) = Len(L) /\ Len(L) \in OwnOf(L)
      BY <1>1, <2>2 DEF MapLevel, OwnOf
    <3> QED
      BY <1>1, <1>2, <3>1
  <2> QED
    BY <2>1, <2>2
<1>4. MapLevel(L) \in DOMAIN L /\ MapLevel(L) \in Nat
  BY <1>1, <1>2, <1>3
<1>5. /\ TracksSeen(L[MapLevel(L)].type) => MapLevel(L) \in TrackingOf(L)
      /\ Oneofs(L[MapLevel(L)].type) # {} => MapLevel(L) \in ChoosingOf(L)
  BY <1>3 DEF TrackingOf, ChoosingOf
<1> QED
  BY <1>1, <1>3, <1>4, <1>5

\* Stacks that differ in their last entries at most.
TopOnly(L, it, it2, seen, seen2, one, one2) ==
    /\ Len(it) = HeightOf(L, Len(L))
    /\ \A k \in 1..(Len(it) - 1) : it2[k] = it[k]
    /\ ~Free(L) => it2[Len(it)] = it[Len(it)]
    /\ seen \in Seq(SUBSET Nat) /\ FieldsOK(L, seen) /\ Len(seen2) = Len(seen)
    /\ \A j \in 1..(Len(seen) - 1) : seen2[j] = seen[j]
    /\ ~TracksSeen(L[MapLevel(L)].type) => seen2 = seen
    /\ one \in Seq(OneofStates) /\ OneofsOK(L, one) /\ Len(one2) = Len(one)
    /\ \A j \in 1..(Len(one) - 1) : one2[j] = one[j]
    /\ Oneofs(L[MapLevel(L)].type) = {} => one2 = one

\* Only its entries change without a push or a pop.
LEMMA ViewTop ==
    ASSUME NEW L, NEW tok, LevelsOK(L, tok), NEW it, NEW it2, NEW seen, NEW seen2, NEW one, NEW one2,
           TopOnly(L, it, it2, seen, seen2, one, one2)
    PROVE  LET n == MapLevel(L)
               V == View(L, it, seen, one)
               W == View(L, it2, seen2, one2)
           IN  /\ DOMAIN V = OwnOf(L) /\ DOMAIN W = OwnOf(L)
               /\ \A i \in OwnOf(L) : W[i].hash = V[i].hash /\ W[i].type = V[i].type
               /\ \A i \in OwnOf(L) : i # n => W[i] = V[i]
               /\ V[n].type = L[n].type
               /\ V[n].seen = (IF TracksSeen(L[n].type) THEN Last(seen) ELSE {})
               /\ W[n].seen = (IF TracksSeen(L[n].type) THEN Last(seen2) ELSE {})
               /\ V[n].one = (IF Oneofs(L[n].type) # {} THEN Last(one) ELSE NoOneofs)
               /\ W[n].one = (IF Oneofs(L[n].type) # {} THEN Last(one2) ELSE NoOneofs)
<1> DEFINE n == MapLevel(L)
<1> USE DEF TopOnly
<1>1. /\ L \in Seq(Levels) /\ Len(L) \in Nat \ {0} /\ DOMAIN L = 1..Len(L)
  BY LevelIs
<1>2. /\ n \in OwnOf(L) /\ n \in Nat /\ \A i \in OwnOf(L) : i <= n
      /\ TracksSeen(L[n].type) => n \in TrackingOf(L)
      /\ Oneofs(L[n].type) # {} => n \in ChoosingOf(L)
  BY HostIs
<1>3. /\ TrackingOf(L) \in SUBSET (1..Len(L)) /\ ChoosingOf(L) \in SUBSET (1..Len(L))
      /\ TrackingOf(L) \subseteq OwnOf(L) /\ ChoosingOf(L) \subseteq OwnOf(L)
  <2>1. TrackingOf(L) \subseteq OwnOf(L) /\ ChoosingOf(L) \subseteq OwnOf(L)
    BY DEF TrackingOf, ChoosingOf
  <2> QED
    BY <1>1, <2>1, SetsOf
<1>4. /\ Cardinality(TrackingOf(L)) <= Len(seen) /\ Len(seen) \in Nat
      /\ Cardinality(ChoosingOf(L)) <= Len(one) /\ Len(one) \in Nat
  BY LenProperties DEF FieldsOK, OneofsOK
<1>5. ASSUME NEW i \in OwnOf(L)
      PROVE  it2[HeightOf(L, i - 1) + 1] = it[HeightOf(L, i - 1) + 1]
  <2>1. PICK k \in Nat : k = HeightOf(L, i - 1)
    BY OwnHeight
  <2>2. k + 1 <= Len(it) /\ (Free(L) => k + 3 <= Len(it)) /\ Len(it) \in Nat
    BY <2>1, OwnHeight
  <2> HIDE DEF n
  <2>3. k + 1 \in 1..(Len(it) - 1) \/ (~Free(L) /\ k + 1 = Len(it))
    BY <2>2
  <2> QED
    BY <2>1, <2>3
<1>6. ASSUME NEW i \in OwnOf(L), i # n
      PROVE  SeenOf(L, seen2, i) = SeenOf(L, seen, i)
  <2>1. CASE TracksSeen(L[i].type) /\ TracksSeen(L[n].type)
    <3>1. i \in TrackingOf(L)
      BY <2>1 DEF TrackingOf
    <3>2. n \in TrackingOf(L) /\ \A j \in TrackingOf(L) : j <= n
      BY <1>2, <1>3, <2>1
    <3>3. \A s2 : Len(s2) = Len(seen) /\ (\A j \in 1..(Len(seen) - 1) : s2[j] = seen[j]) =>
             \A j \in TrackingOf(L) : j # n => EntryAt(s2, TrackingOf(L), j) = EntryAt(seen, TrackingOf(L), j)
      <4> HIDE DEF n
      <4> QED
        BY <1>1, <1>3, <1>4, <3>2, EntryTop, ZenonT(30)
    <3>4. EntryAt(seen2, TrackingOf(L), i) = EntryAt(seen, TrackingOf(L), i)
      BY <1>6, <3>1, <3>3
    <3> QED
      BY <3>4 DEF SeenOf
  <2>2. CASE ~(TracksSeen(L[i].type) /\ TracksSeen(L[n].type))
    BY <2>2 DEF SeenOf
  <2> QED
    BY <2>1, <2>2
<1>7. ASSUME NEW i \in OwnOf(L), i # n
      PROVE  OneOf(L, one2, i) = OneOf(L, one, i)
  <2>1. CASE Oneofs(L[i].type) # {} /\ Oneofs(L[n].type) # {}
    <3>1. i \in ChoosingOf(L)
      BY <2>1 DEF ChoosingOf
    <3>2. n \in ChoosingOf(L) /\ \A j \in ChoosingOf(L) : j <= n
      BY <1>2, <1>3, <2>1
    <3>3. \A s2 : Len(s2) = Len(one) /\ (\A j \in 1..(Len(one) - 1) : s2[j] = one[j]) =>
             \A j \in ChoosingOf(L) : j # n => EntryAt(s2, ChoosingOf(L), j) = EntryAt(one, ChoosingOf(L), j)
      <4> HIDE DEF n
      <4> QED
        BY <1>1, <1>3, <1>4, <3>2, EntryTop, ZenonT(30)
    <3>4. EntryAt(one2, ChoosingOf(L), i) = EntryAt(one, ChoosingOf(L), i)
      BY <1>7, <3>1, <3>3
    <3> QED
      BY <3>4 DEF OneOf
  <2>2. CASE ~(Oneofs(L[i].type) # {} /\ Oneofs(L[n].type) # {})
    BY <2>2 DEF OneOf
  <2> QED
    BY <2>1, <2>2
<1>8. ASSUME NEW s, Len(s) = Len(seen)
      PROVE  SeenOf(L, s, n) = IF TracksSeen(L[n].type) THEN Last(s) ELSE {}
  <2>1. CASE TracksSeen(L[n].type)
    <3>1. n \in TrackingOf(L) /\ \A j \in TrackingOf(L) : j <= n
      BY <1>2, <1>3, <2>1
    <3>2. EntryAt(s, TrackingOf(L), n) = s[Len(s)]
      BY <1>1, <1>3, <1>4, <1>8, <3>1, EntryTop
    <3> QED
      BY <2>1, <3>2 DEF SeenOf, Last
  <2> QED
    BY <2>1 DEF SeenOf
<1>9. ASSUME NEW s, Len(s) = Len(one)
      PROVE  OneOf(L, s, n) = IF Oneofs(L[n].type) # {} THEN Last(s) ELSE NoOneofs
  <2>1. CASE Oneofs(L[n].type) # {}
    <3>1. n \in ChoosingOf(L) /\ \A j \in ChoosingOf(L) : j <= n
      BY <1>2, <1>3, <2>1
    <3>2. EntryAt(s, ChoosingOf(L), n) = s[Len(s)]
      BY <1>1, <1>3, <1>4, <1>9, <3>1, EntryTop
    <3> QED
      BY <2>1, <3>2 DEF OneOf, Last
  <2> QED
    BY <2>1 DEF OneOf
<1> HIDE DEF n
<1>10. /\ SeenOf(L, seen, n) = (IF TracksSeen(L[n].type) THEN Last(seen) ELSE {})
       /\ SeenOf(L, seen2, n) = (IF TracksSeen(L[n].type) THEN Last(seen2) ELSE {})
       /\ OneOf(L, one, n) = (IF Oneofs(L[n].type) # {} THEN Last(one) ELSE NoOneofs)
       /\ OneOf(L, one2, n) = (IF Oneofs(L[n].type) # {} THEN Last(one2) ELSE NoOneofs)
  BY <1>8, <1>9
<1> QED
  BY <1>2, <1>5, <1>6, <1>7, <1>10, Zenon DEF View, n

\* A message that is entered adds to it, a field that is opened does not; and both leave
\* what they find there: also when they end.
Adds(S, B) == Deeper(S, B) /\ ~InEntry(B[Len(S) + 1])
Grows(S, tok, B, tok2, its, it, low, high, low1, high1) ==
    /\ LevelsOK(S, tok) /\ LevelsOK(B, tok2)
    /\ Grown(S, B) /\ Len(its) = HeightOf(S, Len(S)) /\ \A j \in 1..Len(its) : it[j] = its[j]
    /\ Len(low) \in Nat /\ FieldsOK(S, low)
    /\ Len(high) = Len(low) + (IF Adds(S, B) /\ TracksSeen(B[Len(S) + 1].type) THEN 1 ELSE 0)
    /\ \A j \in 1..Len(low) : high[j] = low[j]
    /\ Len(low1) \in Nat /\ OneofsOK(S, low1)
    /\ Len(high1) = Len(low1) + (IF Adds(S, B) /\ Oneofs(B[Len(S) + 1].type) # {} THEN 1 ELSE 0)
    /\ \A j \in 1..Len(low1) : high1[j] = low1[j]

\* A message that is entered adds itself to the view and changes nothing else of it.
LEMMA ViewGrown ==
    ASSUME NEW S, NEW tok, NEW B, NEW tok2, NEW its, NEW it,
           NEW low, NEW high, NEW low1, NEW high1, Grows(S, tok, B, tok2, its, it, low, high, low1, high1)
    PROVE  LET n == Len(S)
               V == View(S, its, low, low1)
               W == View(B, it, high, high1)
               m == B[n + 1].type
               own == Adds(S, B)
           IN  /\ DOMAIN V = OwnOf(S) /\ DOMAIN W = OwnOf(B) /\ n + 1 \notin OwnOf(S)
               /\ own => OwnOf(B) = OwnOf(S) \cup {n + 1}
               /\ ~own => OwnOf(B) = OwnOf(S)
               /\ \A i \in OwnOf(S) : W[i] = V[i]
               /\ own => /\ W[n + 1].type = m /\ W[n + 1].hash = it[Len(its) + 1]
                         /\ W[n + 1].seen = IF TracksSeen(m) THEN Last(high) ELSE {}
                         /\ W[n + 1].one = IF Oneofs(m) # {} THEN Last(high1) ELSE NoOneofs
<1> DEFINE n == Len(S)
           m == B[n + 1].type
           TS == TrackingOf(S)
           TB == TrackingOf(B)
           CS == ChoosingOf(S)
           CB == ChoosingOf(B)
           own == Adds(S, B)
<1> USE DEF Grows, Adds
<1>1. /\ n \in Nat \ {0} /\ S \in Seq(Levels) /\ B \in Seq(Levels)
      /\ \A i \in 1..n : B[i].type = S[i].type
      /\ OwnOf(B) = OwnOf(S) \cup IF own THEN {n + 1} ELSE {}
  BY GrownSets
<1>2. OwnOf(S) \in SUBSET (1..n) /\ TS \in SUBSET (1..n) /\ CS \in SUBSET (1..n)
  BY <1>1, SetsOf
<1>3. n + 1 \notin OwnOf(S) /\ n + 1 \notin TS /\ n + 1 \notin CS
  BY <1>1, <1>2
<1>4. \A i \in OwnOf(S) : B[i].type = S[i].type /\ i \in 1..n
  BY <1>1, <1>2
<1>5. /\ TB = TS \cup IF own /\ TracksSeen(m) THEN {n + 1} ELSE {}
      /\ CB = CS \cup IF own /\ Oneofs(m) # {} THEN {n + 1} ELSE {}
  <2>1. \A i \in OwnOf(S) : i \in TB <=> i \in TS
    BY <1>1, <1>4 DEF TrackingOf
  <2>2. \A i \in OwnOf(S) : i \in CB <=> i \in CS
    BY <1>1, <1>4 DEF ChoosingOf
  <2>3. own => (n + 1 \in TB <=> TracksSeen(m)) /\ (n + 1 \in CB <=> Oneofs(m) # {})
    BY <1>1, <1>3 DEF TrackingOf, ChoosingOf
  <2>4. TB \subseteq OwnOf(B) /\ CB \subseteq OwnOf(B) /\ TS \subseteq OwnOf(S) /\ CS \subseteq OwnOf(S)
    BY DEF TrackingOf, ChoosingOf
  <2> HIDE DEF TB, TS, CB, CS, n, m
  <2>5. TB = TS \cup IF own /\ TracksSeen(m) THEN {n + 1} ELSE {}
    BY <1>1, <1>3, <2>1, <2>3, <2>4
  <2>6. CB = CS \cup IF own /\ Oneofs(m) # {} THEN {n + 1} ELSE {}
    BY <1>1, <1>3, <2>2, <2>3, <2>4
  <2> QED
    BY <2>5, <2>6
<1>6. Cardinality(TS) <= Len(low) /\ Cardinality(CS) <= Len(low1)
  BY DEF FieldsOK, OneofsOK
<1>7. /\ \A j \in Nat : j < n => HeightOf(B, j) = HeightOf(S, j)
      /\ own => HeightOf(B, n) = HeightOf(S, n)
      /\ HeightOf(S, n) \in Nat
  BY GrownHeights
<1>8. ASSUME NEW i \in OwnOf(S)
      PROVE  /\ HeightOf(B, i - 1) = HeightOf(S, i - 1)
             /\ it[HeightOf(S, i - 1) + 1] = its[HeightOf(S, i - 1) + 1]
  <2>1. i - 1 \in Nat /\ i - 1 < n
    BY <1>1, <1>4
  <2>2. PICK k \in Nat : k = HeightOf(S, i - 1) /\ k + 1 <= Len(its)
    BY OwnHeight
  <2> HIDE DEF n
  <2> QED
    BY <1>7, <2>1, <2>2
<1> HIDE DEF TB, TS, CB, CS, n, m
<1>9. ASSUME TB # TS
      PROVE  own /\ TracksSeen(m) /\ TB = TS \cup {n + 1}
  BY <1>5, <1>9
<1>10. ASSUME CB # CS
       PROVE  own /\ Oneofs(m) # {} /\ CB = CS \cup {n + 1}
  BY <1>5, <1>10
<1>11. /\ (TB = TS => Len(high) = Len(low)) /\ (TB # TS => Len(high) = Len(low) + 1)
       /\ (CB = CS => Len(high1) = Len(low1)) /\ (CB # CS => Len(high1) = Len(low1) + 1)
  BY <1>3, <1>5 DEF m, n
<1>12. /\ \A i \in TS : EntryAt(high, TB, i) = EntryAt(low, TS, i)
       /\ TB # TS => EntryAt(high, TB, n + 1) = high[Len(high)]
  <2>1. TB = TS \/ TB = TS \cup {n + 1}
    BY <1>9
  <2>2. n \in Nat /\ TS \in SUBSET (1..n)
    BY <1>1, <1>2
  <2>3. Pushed(n, TS, TB, low, high)
    BY <1>6, <1>11, <2>1, <2>2 DEF Pushed
  <2> QED
    BY <2>3, EntryBelow
<1>13. /\ \A i \in CS : EntryAt(high1, CB, i) = EntryAt(low1, CS, i)
       /\ CB # CS => EntryAt(high1, CB, n + 1) = high1[Len(high1)]
  <2>1. CB = CS \/ CB = CS \cup {n + 1}
    BY <1>10
  <2>2. n \in Nat /\ CS \in SUBSET (1..n)
    BY <1>1, <1>2
  <2>3. Pushed(n, CS, CB, low1, high1)
    BY <1>6, <1>11, <2>1, <2>2 DEF Pushed
  <2> QED
    BY <2>3, EntryBelow
<1>14. ASSUME NEW i \in OwnOf(S)
       PROVE  SeenOf(B, high, i) = SeenOf(S, low, i) /\ OneOf(B, high1, i) = OneOf(S, low1, i)
  <2>1. B[i].type = S[i].type
    BY <1>4
  <2>2. TracksSeen(S[i].type) => i \in TS
    BY DEF TS, TrackingOf
  <2>3. Oneofs(S[i].type) # {} => i \in CS
    BY DEF CS, ChoosingOf
  <2>4. SeenOf(B, high, i) = SeenOf(S, low, i)
    BY <1>12, <2>1, <2>2 DEF SeenOf, TS, TB
  <2>5. OneOf(B, high1, i) = OneOf(S, low1, i)
    BY <1>13, <2>1, <2>3 DEF OneOf, CS, CB
  <2> QED
    BY <2>4, <2>5
<1>15. ASSUME own
       PROVE  /\ SeenOf(B, high, n + 1) = (IF TracksSeen(m) THEN Last(high) ELSE {})
              /\ OneOf(B, high1, n + 1) = (IF Oneofs(m) # {} THEN Last(high1) ELSE NoOneofs)
  <2>1. SeenOf(B, high, n + 1) = IF TracksSeen(m) THEN EntryAt(high, TB, n + 1) ELSE {}
    BY DEF SeenOf, m, TB
  <2>2. OneOf(B, high1, n + 1) = IF Oneofs(m) # {} THEN EntryAt(high1, CB, n + 1) ELSE NoOneofs
    BY DEF OneOf, m, CB
  <2>3. TracksSeen(m) => TB # TS
    BY <1>3, <1>5, <1>15
  <2>4. Oneofs(m) # {} => CB # CS
    BY <1>3, <1>5, <1>15
  <2> QED
    BY <1>12, <1>13, <2>1, <2>2, <2>3, <2>4 DEF Last
<1>16. own => n + 1 - 1 = n
  BY <1>1
<1> DEFINE V == View(S, its, low, low1)
           W == View(B, it, high, high1)
<1>17. /\ DOMAIN V = OwnOf(S) /\ DOMAIN W = OwnOf(B)
       /\ \A i \in OwnOf(S) :
             V[i] = [type |-> S[i].type, hash |-> its[HeightOf(S, i - 1) + 1],
                     seen |-> SeenOf(S, low, i), one |-> OneOf(S, low1, i)]
       /\ \A i \in OwnOf(B) :
             W[i] = [type |-> B[i].type, hash |-> it[HeightOf(B, i - 1) + 1],
                     seen |-> SeenOf(B, high, i), one |-> OneOf(B, high1, i)]
  BY DEF View
<1> HIDE DEF V, W
<1>18. \A i \in OwnOf(S) : W[i] = V[i]
  <2> SUFFICES ASSUME NEW i \in OwnOf(S) PROVE W[i] = V[i]
    OBVIOUS
  <2>1. i \in OwnOf(B)
    BY <1>1
  <2>2. V[i] = [type |-> S[i].type, hash |-> its[HeightOf(S, i - 1) + 1],
                seen |-> SeenOf(S, low, i), one |-> OneOf(S, low1, i)]
    BY <1>17, Zenon
  <2>3. W[i] = [type |-> B[i].type, hash |-> it[HeightOf(B, i - 1) + 1],
                seen |-> SeenOf(B, high, i), one |-> OneOf(B, high1, i)]
    BY <1>17, <2>1, Zenon
  <2> QED
    BY <1>4, <1>8, <1>14, <2>2, <2>3, Zenon
<1>19. ASSUME own, NEW k \in Nat, k = n + 1
       PROVE  /\ W[k].type = m /\ W[k].hash = it[Len(its) + 1]
              /\ W[k].seen = SeenOf(B, high, k) /\ W[k].one = OneOf(B, high1, k)
  <2>1. n + 1 \in OwnOf(B) /\ HeightOf(B, n) = Len(its)
    BY <1>1, <1>7, <1>19 DEF n
  <2>3. k \in OwnOf(B) /\ k - 1 = n /\ B[k].type = m
    <3>1. k \in OwnOf(B) /\ B[k].type = m
      BY <1>19, <2>1 DEF m
    <3>2. k - 1 = n
      BY <1>1, <1>19
    <3> QED
      BY <3>1, <3>2
  <2>4. W[k] = [type |-> B[k].type, hash |-> it[HeightOf(B, k - 1) + 1],
                seen |-> SeenOf(B, high, k), one |-> OneOf(B, high1, k)]
    BY <1>17, <2>3, Zenon
  <2>5. HeightOf(B, k - 1) = Len(its)
    BY <2>1, <2>3
  <2>6. W[k].type = m
    BY <2>3, <2>4, SMT
  <2>7. W[k].hash = it[Len(its) + 1]
    BY <2>4, <2>5, SMT
  <2>8. W[k].seen = SeenOf(B, high, k) /\ W[k].one = OneOf(B, high1, k)
    BY <2>4, SMT
  <2> QED
    BY <2>6, <2>7, <2>8
<1>20. own => /\ W[n + 1].type = m /\ W[n + 1].hash = it[Len(its) + 1]
              /\ W[n + 1].seen = SeenOf(B, high, n + 1) /\ W[n + 1].one = OneOf(B, high1, n + 1)
  <2>1. n + 1 \in Nat
    BY <1>1
  <2> QED
    BY <1>19, <2>1, Zenon
<1> QED
  BY <1>1, <1>3, <1>15, <1>17, <1>18, <1>20 DEF V, W, n, m

\* The container a value is stored in: the last hash, array or map.
Base(L, it) == IF Free(L) THEN it[Len(it) - 1] ELSE it[Len(it)]
HashesIn(t) == {p \in DOMAIN t : t[p].kind = "hash"}

\* The open messages have their hashes, all of them around it.
LEMMA OpenAre ==
    ASSUME NEW L, NEW tok, LevelsOK(L, tok), NEW it \in ItemSeq, NEW t, DOMAIN t \subseteq Paths,
           ItemsOK(L, it, t)
    PROVE  LET n == MapLevel(L)
               b == Base(L, it)
               h == it[HeightOf(L, n - 1) + 1]
           IN  /\ b \in Paths /\ b \in DOMAIN t
               /\ \A i \in OwnOf(L) :
                     LET p == it[HeightOf(L, i - 1) + 1]
                     IN  p \in Paths /\ p \in HashesIn(t) /\ t[p].type = L[i].type /\ IsPrefix(p, b)
               /\ Free(L) \/ OpenList(L[n]) => b = Child(h, "field", L[n].field)
               /\ ~Free(L) /\ ~OpenList(L[n]) => b = h
<1> DEFINE n == MapLevel(L)
           b == Base(L, it)
           h == it[HeightOf(L, n - 1) + 1]
<1>1. /\ n \in OwnOf(L) /\ n \in Nat /\ n \in DOMAIN L
  BY HostIs
<1>2. /\ Len(it) \in Nat /\ DOMAIN it = 1..Len(it)
      /\ \A k \in DOMAIN it : it[k] # NULL => it[k] \in Paths
      /\ \A k \in DOMAIN it : k < Len(it) => it[k] # NULL /\ it[k] \in Paths
  BY ItemsIn DEF ItemsOK
<1>3. /\ Len(it) = HeightOf(L, Len(L)) /\ Chain(it, t)
      /\ \A i \in OwnOf(L) : HashAt(L, it, t, i)
  BY DEF ItemsOK
<1>4. PICK k \in Nat : k = HeightOf(L, n - 1) /\ k + 1 <= Len(it)
  BY <1>1, <1>3, OwnHeight
<1> DEFINE j == IF Free(L) THEN Len(it) - 1 ELSE Len(it)
<1>5. ~Free(L) => n = Len(L)
  BY DEF Free, MapLevel
<1>6. ASSUME Free(L)
      PROVE  /\ k + 3 = Len(it) /\ it[k + 2] = Child(it[k + 1], "field", L[n].field)
  <2>1. n \in MapsOf(L) /\ HeightOf(L, n) = Len(it)
    BY <1>3, <1>6, FreeIs
  <2>2. HeightOf(L, n) = k + 3
    BY <1>4, <2>1, MapHeight
  <2>3. k + 3 - 1 = k + 2 /\ k + 3 - 2 = k + 1
    BY <1>4
  <2>4. MapAt(L, it, n)
    BY <2>1 DEF ItemsOK
  <2> HIDE DEF n
  <2> QED
    BY <2>1, <2>2, <2>3, <2>4 DEF MapAt
<1>7. ASSUME ~Free(L), OpenList(L[n])
      PROVE  k + 2 = Len(it) /\ it[k + 2] = Child(it[k + 1], "field", L[n].field)
  <2>1. n \in ListsOf(L) /\ HeightOf(L, n) = Len(it)
    BY <1>1, <1>3, <1>5, <1>7 DEF ListsOf
  <2>2. HeightOf(L, n) = k + 2
    BY <1>4, <2>1, ListHeight
  <2>3. k + 2 - 1 = k + 1
    BY <1>4
  <2>4. ListAt(L, it, n)
    BY <2>1 DEF ItemsOK
  <2> HIDE DEF n
  <2> QED
    BY <2>1, <2>2, <2>3, <2>4 DEF ListAt
<1>8. ASSUME ~Free(L), ~OpenList(L[n])
      PROVE  k + 1 = Len(it)
  <2>1. /\ Weight(L[n]) = IF OpenMap(L[n]) THEN 3 ELSE IF OpenList(L[n]) THEN 2
                          ELSE IF InEntry(L[n]) THEN 0 ELSE 1
    BY <1>1, WeightIs
  <2>2. ~OpenMap(L[n]) /\ ~InEntry(L[n])
    BY <1>5, <1>8 DEF Free
  <2>3. PICK g \in Nat : g = n - 1 /\ HeightOf(L, n) = HeightOf(L, g) + Weight(L[n])
    BY <1>1, WeightIs
  <2> HIDE DEF n
  <2>4. HeightOf(L, n) = k + 1
    BY <1>4, <1>8, <2>1, <2>2, <2>3
  <2> QED
    BY <1>3, <1>5, <1>8, <2>4
<1> HIDE DEF n
<1>9. j \in DOMAIN it /\ it[j] = b /\ j >= k + 1 /\ it[j] # NULL
  <2>1. j \in DOMAIN it /\ it[j] = b /\ j >= k + 1
    BY <1>2, <1>4, <1>6, <1>7, <1>8 DEF Base
  <2>2. CASE Free(L)
    BY <1>2, <2>1, <2>2
  <2>3. CASE ~Free(L) /\ OpenList(L[n])
    <3>1. Child(it[k + 1], "field", L[n].field) # NULL
      <4>1. it[k + 1] \in Paths
        BY <1>2, <1>4, <1>7, <2>3
      <4>2. L[n].field \in Nat
        BY <1>1, LevelIs, LevelsAre
      <4>3. <<"field", L[n].field>> \in Steps
        BY <4>2, StepsAre
      <4>4. Child(it[k + 1], "field", L[n].field) \in Paths
        BY <4>1, <4>3, ChildIs
      <4> QED
        BY <4>4, NullIs
    <3>2. it[j] # NULL
      BY <1>7, <2>3, <3>1
    <3> QED
      BY <2>1, <3>2
  <2>4. CASE ~Free(L) /\ ~OpenList(L[n])
    <3>1. it[k + 1] # NULL
      BY <1>1, <1>3, <1>4 DEF HashAt
    <3>2. it[j] # NULL
      BY <1>8, <2>4, <3>1
    <3> QED
      BY <2>1, <3>2
  <2> QED
    BY <2>1, <2>2, <2>3, <2>4
<1>10. b \in Paths /\ b \in DOMAIN t
  BY <1>2, <1>3, <1>9 DEF Chain
<1>11. ASSUME NEW i \in OwnOf(L)
       PROVE  LET p == it[HeightOf(L, i - 1) + 1]
              IN  p \in Paths /\ p \in HashesIn(t) /\ t[p].type = L[i].type /\ IsPrefix(p, b)
  <2>1. PICK g \in Nat : g = HeightOf(L, i - 1) /\ g + 1 <= Len(it)
                         /\ (Free(L) => g + 3 <= Len(it))
    BY <1>3, OwnHeight
  <2>2. it[g + 1] # NULL /\ t[it[g + 1]].kind = "hash" /\ t[it[g + 1]].type = L[i].type
    BY <1>3, <2>1 DEF HashAt
  <2>3. g + 1 \in DOMAIN it /\ g + 1 <= j
    BY <1>2, <2>1
  <2>4. it[g + 1] \in DOMAIN t /\ it[g + 1] \in Paths
    BY <1>2, <1>3, <2>2, <2>3 DEF Chain
  <2> HIDE DEF j
  <2>5. IsPrefix(it[g + 1], b)
    BY <1>3, <1>9, <2>3 DEF Chain
  <2> QED
    BY <2>1, <2>2, <2>4, <2>5 DEF HashesIn
<1>12. Free(L) \/ OpenList(L[n]) => b = Child(h, "field", L[n].field)
  <2>1. CASE Free(L)
    <3>1. Len(it) - 1 = k + 2
      BY <1>4, <1>6, <2>1
    <3> QED
      BY <1>4, <1>6, <2>1, <3>1 DEF Base
  <2>2. CASE ~Free(L) /\ OpenList(L[n])
    BY <1>4, <1>7, <2>2 DEF Base
  <2> QED
    BY <2>1, <2>2
<1>13. ~Free(L) /\ ~OpenList(L[n]) => b = h
  BY <1>4, <1>8 DEF Base
<1> QED
  BY <1>10, <1>11, <1>12, <1>13 DEF n
----------------------------------------------------------------------------
(* What storing a node changes of the hashes.                                      *)

HasIn(t, p, f) == Child(p, "field", f) \in DOMAIN t

\* The hash p of u is the hash q of t.
Copied(t, u, q, p) ==
    /\ q \in HashesIn(t) /\ u[p] = t[q]
    /\ \A f \in Nat : HasIn(u, p, f) <=> HasIn(t, q, f)

\* The path of a field.
LEMMA FieldChild ==
    ASSUME NEW p \in Paths, NEW f \in Nat
    PROVE  /\ Child(p, "field", f) \in Paths /\ Child(p, "field", f) # <<>>
           /\ Front(Child(p, "field", f)) = p /\ Last(Child(p, "field", f)) = <<"field", f>>
           /\ <<"field", f>> \in Steps
<1>1. <<"field", f>> \in Steps
  BY StepsAre
<1> QED
  BY <1>1, ChildIs

\* Different fields have different paths.
LEMMA FieldSame ==
    ASSUME NEW p \in Paths, NEW f \in Nat, NEW q \in Paths, NEW g \in Nat,
           Child(p, "field", f) = Child(q, "field", g)
    PROVE  p = q /\ f = g
<1>1. Front(Child(p, "field", f)) = p /\ Last(Child(p, "field", f)) = <<"field", f>>
  BY FieldChild
<1>2. Front(Child(q, "field", g)) = q /\ Last(Child(q, "field", g)) = <<"field", g>>
  BY FieldChild
<1>3. p = q /\ <<"field", f>> = <<"field", g>>
  BY <1>1, <1>2, Zenon
<1> QED
  BY <1>3

\* What Put changes of the hashes,
LEMMA PutHashes ==
    ASSUME NEW d, DOMAIN d \subseteq Paths, NEW at \in Paths, NEW node
    PROVE  LET u == Put(d, at, node) IN
           /\ \A p \in HashesIn(u) : p # at => p \in HashesIn(d) /\ u[p] = d[p]
           /\ \A p \in HashesIn(d) : p # at => p \in HashesIn(u) /\ u[p] = d[p]
           /\ at \in DOMAIN u /\ u[at] = node
           /\ \A p \in Paths, f \in Nat :
                 HasIn(u, p, f) <=> HasIn(d, p, f) \/ at = Child(p, "field", f)
<1> DEFINE u == Put(d, at, node)
<1>1. /\ DOMAIN u = DOMAIN d \cup {at} /\ u[at] = node
      /\ \A q \in DOMAIN d : q # at => u[q] = d[q]
  BY DEF Put
<1> HIDE DEF u
<1>2. \A p \in Paths, f \in Nat :
         HasIn(u, p, f) <=> HasIn(d, p, f) \/ at = Child(p, "field", f)
  <2>1. \A x : x \in DOMAIN u <=> x \in DOMAIN d \/ at = x
    BY <1>1
  <2> QED
    BY <2>1, Zenon DEF HasIn
<1>3. \A p : p # at => (p \in HashesIn(u) <=> p \in HashesIn(d)) /\ (p \in DOMAIN d => u[p] = d[p])
  BY <1>1 DEF HashesIn
<1>4. /\ \A p \in HashesIn(u) : p # at => p \in HashesIn(d) /\ u[p] = d[p]
      /\ \A p \in HashesIn(d) : p # at => p \in HashesIn(u) /\ u[p] = d[p]
  BY <1>3 DEF HashesIn
<1> QED
  BY <1>1, <1>2, <1>4 DEF u

\* and what Drop changes of them.
LEMMA DropHashes ==
    ASSUME NEW t, DOMAIN t \subseteq Paths, NEW q \in Paths
    PROVE  LET d == Drop(t, q) IN
           /\ \A p \in HashesIn(d) : p \in HashesIn(t) /\ d[p] = t[p]
           /\ \A p \in HashesIn(t) : ~IsPrefix(q, p) => p \in HashesIn(d) /\ d[p] = t[p]
           /\ \A p \in Paths, f \in Nat : ~IsPrefix(q, p) =>
                 (HasIn(d, p, f) <=> HasIn(t, p, f) /\ q # Child(p, "field", f))
<1> DEFINE d == Drop(t, q)
<1>1. /\ \A p : p \in DOMAIN d <=> p \in DOMAIN t /\ ~IsPrefix(q, p)
      /\ \A p \in DOMAIN t : ~IsPrefix(q, p) => d[p] = t[p]
  BY DropIs
<1> HIDE DEF d
<1>2. ASSUME NEW p \in Paths, NEW f \in Nat, ~IsPrefix(q, p)
      PROVE  HasIn(d, p, f) <=> HasIn(t, p, f) /\ q # Child(p, "field", f)
  <2>1. <<"field", f>> \in Steps
    BY FieldChild
  <2>2. IsPrefix(q, Child(p, "field", f)) <=> q = Child(p, "field", f) \/ IsPrefix(q, p)
    BY <2>1, PrefixOfChild
  <2> QED
    BY <1>1, <1>2, <2>2 DEF HasIn
<1> QED
  BY <1>1, <1>2 DEF HashesIn, d

\* The hashes of the view V are around b, each inside the one before.
Around(V, t, b) ==
    /\ DOMAIN V \subseteq Nat /\ b \in Paths
    /\ \A i \in DOMAIN V :
          /\ V[i].hash \in Paths /\ V[i].hash \in HashesIn(t)
          /\ t[V[i].hash].type = V[i].type /\ V[i].type \in Messages
          /\ IsPrefix(V[i].hash, b)
Nested(V) == \A i, j \in DOMAIN V : i < j => Len(V[i].hash) < Len(V[j].hash)

\* Open messages have different hashes.
LEMMA NestedDiffer ==
    ASSUME NEW V, NEW t, NEW b, Around(V, t, b), Nested(V)
    PROVE  \A i, j \in DOMAIN V : i # j => V[i].hash # V[j].hash
<1> SUFFICES ASSUME NEW i \in DOMAIN V, NEW j \in DOMAIN V, i # j, V[i].hash = V[j].hash
             PROVE  FALSE
  OBVIOUS
<1>1. i \in Nat /\ j \in Nat /\ V[i].hash \in Paths
  BY DEF Around
<1>2. Len(V[i].hash) \in Nat
  BY <1>1, PrefixIs
<1>3. i < j \/ j < i
  BY <1>1
<1> QED
  BY <1>2, <1>3 DEF Nested

\* The node at goes into b, after q, in b too, has been dropped.
Replaces(t, b, q, d, at) ==
    /\ q \in Paths /\ q # <<>> /\ Front(q) = b /\ (d = t \/ d = Drop(t, q))
    /\ at \in Paths /\ at # <<>> /\ Front(at) = b

\* A store in the open container leaves all other hashes as they were.
LEMMA PutAround ==
    ASSUME NEW V, NEW t, DOMAIN t \subseteq Paths, NEW b, Around(V, t, b),
           NEW q, NEW d, NEW at, Replaces(t, b, q, d, at), NEW node
    PROVE  LET u == Put(d, at, node) IN
           /\ \A i \in DOMAIN V :
                 /\ V[i].hash \in HashesIn(u) /\ u[V[i].hash] = t[V[i].hash] /\ V[i].hash # at
                 /\ V[i].hash # b => Copied(t, u, V[i].hash, V[i].hash)
           /\ \A p \in HashesIn(u) : p # at /\ p # b => Copied(t, u, p, p)
           /\ \A g \in Nat : HasIn(u, b, g) <=>
                 \/ at = Child(b, "field", g)
                 \/ HasIn(t, b, g) /\ (d = t \/ q # Child(b, "field", g))
<1> USE DEF Replaces
<1> DEFINE u == Put(d, at, node)
<1>1. b \in Paths /\ DOMAIN d \subseteq Paths
  <2>1. \A p \in DOMAIN Drop(t, q) : p \in DOMAIN t
    BY DropIs
  <2> QED
    BY <2>1 DEF Around
<1>2. ~IsPrefix(q, b) /\ ~IsPrefix(at, b)
  <2>1. ASSUME NEW r \in Paths, r # <<>>, Front(r) = b
        PROVE  ~IsPrefix(r, b)
    <3>1. Len(r) \in Nat \ {0} /\ Len(b) = Len(r) - 1
      BY <2>1, FrontIs
    <3> QED
      BY <1>1, <3>1, PrefixIs
  <2> QED
    BY <2>1
<1>3. ASSUME NEW p \in Paths, IsPrefix(p, b)
      PROVE  ~IsPrefix(q, p) /\ p # at
  <2>1. IsPrefix(q, p) => IsPrefix(q, b)
    BY <1>1, <1>3, PrefixTrans
  <2> QED
    BY <1>2, <1>3, <2>1
<1>4. /\ \A p \in HashesIn(u) : p # at => p \in HashesIn(d) /\ u[p] = d[p]
      /\ \A p \in HashesIn(d) : p # at => p \in HashesIn(u) /\ u[p] = d[p]
      /\ \A p \in Paths, f \in Nat :
            HasIn(u, p, f) <=> HasIn(d, p, f) \/ at = Child(p, "field", f)
  BY <1>1, PutHashes
<1>5. /\ \A p \in HashesIn(d) : p \in HashesIn(t) /\ d[p] = t[p]
      /\ \A p \in HashesIn(t) : ~IsPrefix(q, p) => p \in HashesIn(d) /\ d[p] = t[p]
      /\ \A p \in Paths, f \in Nat : ~IsPrefix(q, p) =>
            (HasIn(d, p, f) <=> HasIn(t, p, f) /\ (d = t \/ q # Child(p, "field", f)))
  <2>1. CASE d = t
    BY <2>1
  <2>2. CASE d = Drop(t, q)
    BY <2>2, DropHashes
  <2> QED
    BY <2>1, <2>2
<1>6. \A p \in HashesIn(d) : ~IsPrefix(q, p) \/ d = t
  <2>1. d = Drop(t, q) => \A p \in DOMAIN d : ~IsPrefix(q, p)
    BY DropIs
  <2> QED
    BY <2>1 DEF HashesIn
<1> HIDE DEF u
<1>7. \A p \in Paths, f \in Nat : Child(p, "field", f) \in {q, at} => p = b
  <2> SUFFICES ASSUME NEW p \in Paths, NEW f \in Nat, Child(p, "field", f) \in {q, at}
               PROVE  p = b
    OBVIOUS
  <2>1. Front(Child(p, "field", f)) = p
    BY FieldChild
  <2> QED
    BY <2>1
<1>8. ASSUME NEW p \in HashesIn(u), p # at, p # b
      PROVE  Copied(t, u, p, p)
  <2>1. p \in HashesIn(d) /\ u[p] = d[p] /\ p \in HashesIn(t) /\ d[p] = t[p]
    BY <1>4, <1>5, <1>8
  <2>2. p \in Paths
    BY <1>1, <2>1 DEF HashesIn
  <2>3. ASSUME NEW f \in Nat
        PROVE  HasIn(u, p, f) <=> HasIn(t, p, f)
    <3>1. at # Child(p, "field", f) /\ q # Child(p, "field", f)
      BY <1>7, <1>8, <2>2
    <3>2. HasIn(u, p, f) <=> HasIn(d, p, f)
      BY <1>4, <2>2, <3>1
    <3>3. HasIn(d, p, f) <=> HasIn(t, p, f)
      BY <1>5, <1>6, <2>1, <2>2, <3>1
    <3> QED
      BY <3>2, <3>3
  <2> QED
    BY <2>1, <2>3 DEF Copied
<1>9. ASSUME NEW i \in DOMAIN V
      PROVE  /\ V[i].hash \in HashesIn(u) /\ u[V[i].hash] = t[V[i].hash] /\ V[i].hash # at
             /\ V[i].hash # b => Copied(t, u, V[i].hash, V[i].hash)
  <2>1. V[i].hash \in Paths /\ V[i].hash \in HashesIn(t) /\ IsPrefix(V[i].hash, b)
    BY DEF Around
  <2>2. ~IsPrefix(q, V[i].hash) /\ V[i].hash # at
    BY <1>3, <2>1
  <2>3. V[i].hash \in HashesIn(d) /\ d[V[i].hash] = t[V[i].hash]
    BY <1>5, <2>1, <2>2
  <2>4. V[i].hash \in HashesIn(u) /\ u[V[i].hash] = t[V[i].hash]
    BY <1>4, <2>2, <2>3
  <2> QED
    BY <1>8, <2>2, <2>4
<1>10. ASSUME NEW g \in Nat
       PROVE  HasIn(u, b, g) <=>
                 \/ at = Child(b, "field", g)
                 \/ HasIn(t, b, g) /\ (d = t \/ q # Child(b, "field", g))
  BY <1>1, <1>2, <1>4, <1>5
<1> QED
  BY <1>8, <1>9, <1>10 DEF u

\* A node that is new has nothing in it.
LEMMA FreshIsEmpty ==
    ASSUME NEW d, Shaped(d), NEW at \in Paths, at \notin DOMAIN d, NEW node
    PROVE  \A g \in Nat : ~HasIn(Put(d, at, node), at, g)
<1> SUFFICES ASSUME NEW g \in Nat, HasIn(Put(d, at, node), at, g) PROVE FALSE
  OBVIOUS
<1>1. /\ Child(at, "field", g) # <<>> /\ Front(Child(at, "field", g)) = at
      /\ <<"field", g>> \in Steps
  BY FieldChild
<1>2. Child(at, "field", g) \notin DOMAIN d
  BY <1>1 DEF Shaped
<1>3. Child(at, "field", g) # at
  <2>1. IsPrefix(at, Child(at, "field", g)) /\ ~IsPrefix(Child(at, "field", g), at)
    BY <1>1, PrefixOfChild
  <2> QED
    BY <2>1, PrefixSelf
<1>4. DOMAIN Put(d, at, node) = DOMAIN d \cup {at}
  BY DEF Put
<1> QED
  BY <1>2, <1>3, <1>4 DEF HasIn
----------------------------------------------------------------------------
(* Storing a value: what the callbacks change of the hashes.                       *)

\* Of the open messages only the last one, n, has fields more (G) or less (M).  The node
\* at may be a hash of its own; every other hash is as it was, where it was or, if it is
\* not open, where it has been moved to.
Same(V, t, u, p) ==
    \E q \in HashesIn(t) : Copied(t, u, q, p) /\ (q = p \/ \A i \in DOMAIN V : q # V[i].hash)
Stored(V, t, u, n, at, G, M) ==
    /\ n \in DOMAIN V
    /\ \A i \in DOMAIN V :
          /\ V[i].hash \in HashesIn(t) /\ V[i].hash \in HashesIn(u)
          /\ u[V[i].hash] = t[V[i].hash] /\ t[V[i].hash].type = V[i].type
          /\ V[i].type \in Messages /\ V[i].hash # at
          /\ i # n => V[i].hash # V[n].hash /\ Copied(t, u, V[i].hash, V[i].hash)
    /\ \A g \in Nat : HasIn(u, V[n].hash, g) <=> g \in G \/ (HasIn(t, V[n].hash, g) /\ g \notin M)
    /\ \A p \in HashesIn(u) : p # at /\ p # V[n].hash => Same(V, t, u, p)

\* The hashes of the open messages are around the container that is open.
LEMMA AroundOf ==
    ASSUME NEW L, NEW tok, LevelsOK(L, tok), NEW c, Sane(c), ItemsOK(L, c.items, c.tree)
    PROVE  LET V == ViewOf(L, c)
               b == Base(L, c.items)
               n == MapLevel(L)
           IN  /\ Around(V, c.tree, b) /\ b \in DOMAIN c.tree
               /\ n \in DOMAIN V /\ DOMAIN V = OwnOf(L) /\ V[n].type = L[n].type
               /\ Free(L) \/ OpenList(L[n]) => b = Child(V[n].hash, "field", L[n].field)
               /\ ~Free(L) /\ ~OpenList(L[n]) => b = V[n].hash
<1> DEFINE V == ViewOf(L, c)
           b == Base(L, c.items)
           n == MapLevel(L)
<1>1. c.items \in ItemSeq /\ DOMAIN c.tree \subseteq Paths
  BY DEF Sane, IsCxt, ItemSeq, TreeOK, Shaped, IsTree
<1>2. /\ b \in Paths /\ b \in DOMAIN c.tree
      /\ \A i \in OwnOf(L) :
            LET p == c.items[HeightOf(L, i - 1) + 1]
            IN  /\ p \in Paths /\ p \in HashesIn(c.tree) /\ c.tree[p].type = L[i].type
                /\ IsPrefix(p, b)
      /\ Free(L) \/ OpenList(L[n]) =>
            b = Child(c.items[HeightOf(L, n - 1) + 1], "field", L[n].field)
      /\ ~Free(L) /\ ~OpenList(L[n]) => b = c.items[HeightOf(L, n - 1) + 1]
  BY <1>1, OpenAre
<1>3. /\ n \in OwnOf(L) /\ OwnOf(L) \subseteq Nat
      /\ \A i \in OwnOf(L) : L[i].type \in Messages
  <2>1. L \in Seq(Levels) /\ DOMAIN L = 1..Len(L) /\ \A i \in DOMAIN L : L[i].type \in Messages
    BY LevelIs, LevelsAre
  <2>2. OwnOf(L) \subseteq DOMAIN L
    BY DEF OwnOf
  <2> QED
    BY <2>1, <2>2, HostIs
<1>4. /\ DOMAIN V = OwnOf(L)
      /\ \A i \in OwnOf(L) : V[i].hash = c.items[HeightOf(L, i - 1) + 1] /\ V[i].type = L[i].type
  BY DEF ViewOf, View
<1> HIDE DEF V, b, n
<1>5. Around(V, c.tree, b)
  BY <1>2, <1>3, <1>4 DEF Around
<1>6. V[n].hash = c.items[HeightOf(L, n - 1) + 1] /\ V[n].type = L[n].type
  BY <1>3, <1>4
<1> QED
  BY <1>2, <1>3, <1>4, <1>5, <1>6 DEF V, b, n

\* Storing in b what is no field of a hash.
LEMMA StoredElsewhere ==
    ASSUME NEW V, NEW t, DOMAIN t \subseteq Paths, NEW b, Around(V, t, b), Nested(V),
           b \notin HashesIn(t), NEW n \in DOMAIN V,
           NEW q, NEW d, NEW at, Replaces(t, b, q, d, at), NEW node
    PROVE  Stored(V, t, Put(d, at, node), n, at, {}, {})
<1> DEFINE u == Put(d, at, node)
<1>1. /\ \A i \in DOMAIN V :
            /\ V[i].hash \in HashesIn(u) /\ u[V[i].hash] = t[V[i].hash] /\ V[i].hash # at
            /\ V[i].hash # b => Copied(t, u, V[i].hash, V[i].hash)
      /\ \A p \in HashesIn(u) : p # at /\ p # b => Copied(t, u, p, p)
  BY PutAround
<1> USE DEF Replaces
<1>2. /\ \A i \in DOMAIN V :
            /\ V[i].hash \in HashesIn(t) /\ t[V[i].hash].type = V[i].type /\ V[i].type \in Messages
            /\ V[i].hash # b /\ V[i].hash \in Paths
      /\ b \in Paths
  BY DEF Around
<1>3. \A i, j \in DOMAIN V : i # j => V[i].hash # V[j].hash
  BY NestedDiffer
<1>4. b \notin HashesIn(u)
  <2>1. b # at
    <3>1. Len(b) = Len(at) - 1 /\ Len(at) \in Nat
      BY FrontIs
    <3> QED
      BY <3>1
  <2>2. DOMAIN d \subseteq Paths /\ (b \in HashesIn(d) => b \in HashesIn(t))
    <3>1. CASE d = t
      BY <3>1
    <3>2. CASE d = Drop(t, q)
      <4>1. \A p \in DOMAIN d : p \in DOMAIN t
        BY <3>2, DropIs
      <4> QED
        BY <3>2, <4>1, DropHashes
    <3> QED
      BY <3>1, <3>2
  <2>3. b \in HashesIn(u) => b \in HashesIn(d)
    BY <2>1, <2>2, PutHashes
  <2> QED
    BY <2>2, <2>3
<1> HIDE DEF u
<1>5. \A g \in Nat : HasIn(u, V[n].hash, g) <=> HasIn(t, V[n].hash, g)
  BY <1>1, <1>2 DEF Copied
<1>6. \A p \in HashesIn(u) : p # at /\ p # V[n].hash => Copied(t, u, p, p)
  BY <1>1, <1>4
<1>7. \A g \in Nat :
         HasIn(u, V[n].hash, g) <=> g \in {} \/ (HasIn(t, V[n].hash, g) /\ g \notin {})
  BY <1>5
<1>8. \A i \in DOMAIN V :
         /\ V[i].hash \in HashesIn(t) /\ V[i].hash \in HashesIn(u)
         /\ u[V[i].hash] = t[V[i].hash] /\ t[V[i].hash].type = V[i].type
         /\ V[i].type \in Messages /\ V[i].hash # at
         /\ i # n => V[i].hash # V[n].hash /\ Copied(t, u, V[i].hash, V[i].hash)
  BY <1>1, <1>2, <1>3
<1>9. \A p \in HashesIn(u) : p # at /\ p # V[n].hash => Same(V, t, u, p)
  BY <1>6 DEF Same, Copied
<1> QED
  BY <1>7, <1>8, <1>9, Zenon DEF Stored, u

\* Storing the field f of the last message; s is its field that has been dropped.
LEMMA StoredHere ==
    ASSUME NEW V, NEW t, DOMAIN t \subseteq Paths, NEW n \in DOMAIN V,
           Around(V, t, V[n].hash), Nested(V),
           NEW f \in Nat, NEW s \in Nat, NEW M, NEW d,
           \/ M \subseteq {f} /\ d = t
           \/ M = {s} /\ s # f /\ d = Drop(t, Child(V[n].hash, "field", s)),
           NEW at, at = Child(V[n].hash, "field", f), NEW node
    PROVE  Stored(V, t, Put(d, at, node), n, at, {f}, M)
<1> DEFINE u == Put(d, at, node)
           b == V[n].hash
           q == Child(b, "field", s)
<1>1. /\ \A i \in DOMAIN V :
            /\ V[i].hash \in HashesIn(t) /\ t[V[i].hash].type = V[i].type /\ V[i].type \in Messages
            /\ V[i].hash \in Paths
      /\ b \in Paths
  BY DEF Around
<1>2. /\ at \in Paths /\ at # <<>> /\ Front(at) = b
      /\ q \in Paths /\ q # <<>> /\ Front(q) = b
  BY <1>1, FieldChild
<1>7. ASSUME NEW g \in Nat
      PROVE  (Child(b, "field", g) = at => g = f) /\ (Child(b, "field", g) = q => g = s)
  <2> HIDE DEF b
  <2>1. Child(b, "field", g) = Child(b, "field", f) => g = f
    BY <1>1, FieldSame
  <2>2. Child(b, "field", g) = Child(b, "field", s) => g = s
    BY <1>1, FieldSame
  <2> QED
    BY <2>1, <2>2 DEF b
<1>3. d = t \/ d = Drop(t, q)
  OBVIOUS
<1>4. /\ \A i \in DOMAIN V :
            /\ V[i].hash \in HashesIn(u) /\ u[V[i].hash] = t[V[i].hash] /\ V[i].hash # at
            /\ V[i].hash # b => Copied(t, u, V[i].hash, V[i].hash)
      /\ \A p \in HashesIn(u) : p # at /\ p # b => Copied(t, u, p, p)
      /\ \A g \in Nat : HasIn(u, b, g) <=>
            \/ at = Child(b, "field", g)
            \/ HasIn(t, b, g) /\ (d = t \/ q # Child(b, "field", g))
  <2> HIDE DEF b, q
  <2>1. Around(V, t, b)
    BY DEF b
  <2>2. q \in Paths /\ q # <<>> /\ Front(q) = b /\ at \in Paths /\ at # <<>> /\ Front(at) = b
    BY <1>2
  <2>3. Replaces(t, b, q, d, at)
    BY <1>3, <2>2 DEF Replaces
  <2> QED
    BY <2>1, <2>3, PutAround
<1>5. \A i, j \in DOMAIN V : i # j => V[i].hash # V[j].hash
  BY NestedDiffer
<1> HIDE DEF u
<1>6. ASSUME NEW g \in Nat
      PROVE  HasIn(u, b, g) <=> g \in {f} \/ (HasIn(t, b, g) /\ g \notin M)
  <2>1. at = Child(b, "field", g) <=> g = f
    BY <1>7
  <2>2. q = Child(b, "field", g) <=> g = s
    BY <1>7
  <2>3. HasIn(u, b, g) <=> g = f \/ (HasIn(t, b, g) /\ (d = t \/ g # s))
    BY <1>4, <2>1, <2>2
  <2>4. CASE M \subseteq {f} /\ d = t
    BY <2>3, <2>4
  <2>5. CASE M = {s} /\ s # f /\ d = Drop(t, q)
    <3>1. CASE d = t
      <4>1. d = t => ~HasIn(t, b, s)
        <5>1. \A p : p \in DOMAIN Drop(t, q) => ~IsPrefix(q, p)
          BY DropIs
        <5>2. IsPrefix(q, q)
          BY <1>2, PrefixSelf
        <5> QED
          BY <2>5, <5>1, <5>2 DEF HasIn
      <4> QED
        BY <2>3, <2>5, <3>1, <4>1
    <3>2. CASE d # t
      BY <2>3, <2>5, <3>2
    <3> QED
      BY <3>1, <3>2
  <2> QED
    BY <2>4, <2>5
<1>8. \A i \in DOMAIN V :
         /\ V[i].hash \in HashesIn(t) /\ V[i].hash \in HashesIn(u)
         /\ u[V[i].hash] = t[V[i].hash] /\ t[V[i].hash].type = V[i].type
         /\ V[i].type \in Messages /\ V[i].hash # at
         /\ i # n => V[i].hash # b /\ Copied(t, u, V[i].hash, V[i].hash)
  BY <1>1, <1>4, <1>5
<1>9. \A p \in HashesIn(u) : p # at /\ p # b => Same(V, t, u, p)
  BY <1>4 DEF Same, Copied
<1> QED
  BY <1>6, <1>8, <1>9, Zenon DEF Stored, u

\* The member of the oneof that gives way to f.
Replaced(c, f) == IF Member(c, f) THEN {Seen(c, f)} \ {NoField, f} ELSE {}
Here(L) == ~InEntry(L[Len(L)]) /\ ~OpenList(L[Len(L)])

\* The member of a oneof that was stored last is a field of that oneof.
LEMMA SeenIs ==
    ASSUME NEW m \in Messages, NEW c, NEW f \in FieldsOf(m), Mapper(c) = m,
           Oneofs(m) # {} => Last(c.seenOneof) \in OneofState(m), Member(c, f)
    PROVE  /\ OneofOf(c, f) \in Oneofs(m) /\ OneofOf(c, f) # NoOneof
           /\ Last(c.seenOneof) \in [Oneofs(m) -> {NoField} \cup FieldsOf(m)]
           /\ Seen(c, f) \in {NoField} \cup FieldsOf(m) /\ Seen(c, f) \in Nat
           /\ Seen(c, f) # NoField => Traits[m][Seen(c, f)].oneof = OneofOf(c, f)
<1>1. OneofOf(c, f) \in Oneofs(m) /\ OneofOf(c, f) # NoOneof
  BY DEF Member, OneofOf, Oneofs
<1>2. Last(c.seenOneof) \in OneofState(m)
  BY <1>1
<1>3. /\ Last(c.seenOneof) \in [Oneofs(m) -> {NoField} \cup FieldsOf(m)]
      /\ \A o \in Oneofs(m) : Last(c.seenOneof)[o] = NoField \/ Traits[m][Last(c.seenOneof)[o]].oneof = o
  BY <1>2 DEF OneofState
<1>4. \A g \in FieldsOf(m) : g \in Nat
  BY SchemaAssumption
<1>5. Seen(c, f) \in {NoField} \cup FieldsOf(m)
  BY <1>1, <1>3 DEF Seen
<1>6. Seen(c, f) \in Nat
  BY <1>4, <1>5 DEF NoField
<1> QED
  BY <1>1, <1>3, <1>5, <1>6 DEF Seen

\* get_target() and the value stored there.
LEMMA StoreStored ==
    ASSUME NEW L, NEW tok, LevelsOK(L, tok), NEW c, Sane(c), NEW f, Storing(L, c, f),
           NEW node, NEW V, V = ViewOf(L, c), Nested(V)
    PROVE  LET n == MapLevel(L)
               d == TargetTree(c, f)
               at == TargetPath(c, f)
           IN  /\ Stored(V, c.tree, Put(d, at, node), n, at, IF Here(L) THEN {f} ELSE {},
                         IF Here(L) THEN Replaced(c, f) ELSE {})
               /\ at \in Paths /\ Shaped(d) /\ (at \in DOMAIN d => Here(L))
               /\ \A i \in DOMAIN V : Len(V[i].hash) < Len(at)
               /\ Here(L) => /\ at = Child(V[n].hash, "field", f) /\ Single(c, f)
                             /\ DOMAIN d \subseteq DOMAIN c.tree
                             /\ \A p \in DOMAIN d : d[p] = c.tree[p]
<1> DEFINE it == c.items
           t == c.tree
           top == L[Len(L)]
           m == top.type
           n == MapLevel(L)
           d == TargetTree(c, f)
           at == TargetPath(c, f)
           b == Base(L, it)
<1>1. /\ ItemsOK(L, it, t) /\ it \in ItemSeq /\ Shaped(t) /\ TreeOK(t)
      /\ Mapper(c) = m /\ ~OpenMap(top) /\ f \in FieldsOf(m)
      /\ InEntry(top) => f = ValueField
      /\ ~InEntry(top) => (Schema[m][f].repeated <=> OpenList(top))
      /\ Oneofs(m) # {} => Last(c.seenOneof) \in OneofState(m)
  BY DEF Storing, TreeOK
<1>2. DOMAIN t \subseteq Paths /\ m \in Messages /\ f \in Nat
  <2>1. m \in Messages
    BY LevelIs, LevelsAre
  <2> QED
    BY <1>1, <2>1, SchemaAssumption DEF Shaped, IsTree
<1>3. /\ Around(V, t, b) /\ b \in DOMAIN t /\ b \in Paths /\ n \in DOMAIN V
      /\ Free(L) \/ OpenList(L[n]) => b = Child(V[n].hash, "field", L[n].field)
      /\ ~Free(L) /\ ~OpenList(L[n]) => b = V[n].hash
  BY <1>1, AroundOf DEF Around
<1>4. Free(L) <=> InEntry(top)
  BY <1>1 DEF Free
<1>5. ~InEntry(top) => L[n] = top
  BY DEF MapLevel
<1>6. ASSUME NEW i \in DOMAIN V, Front(at) = b, at \in Paths, at # <<>>
      PROVE  Len(V[i].hash) < Len(at)
  <2>1. V[i].hash \in Paths /\ IsPrefix(V[i].hash, b)
    BY <1>3 DEF Around
  <2>2. Len(V[i].hash) <= Len(b) /\ Len(V[i].hash) \in Nat
    BY <1>3, <2>1, PrefixIs
  <2>3. Len(at) \in Nat /\ Len(b) = Len(at) - 1
    BY <1>6, FrontIs
  <2> QED
    BY <2>2, <2>3
<1>7. CASE InEntry(top)
  <2>1. /\ Len(it) \in Nat /\ b = it[Len(it) - 1] /\ t[b].kind = "map" /\ ~OpenList(top)
    <3>1. Free(L)
      BY <1>4, <1>7
    <3>2. Len(it) \in Nat /\ t[it[Len(it) - 1]].kind = "map"
      BY <1>1, <3>1, TopMap
    <3>3. ~OpenList(top)
      <4>1. Len(L) \in DOMAIN L
        BY LevelIs
      <4> QED
        BY <1>7, <4>1, LevelIs
    <3> QED
      BY <3>1, <3>2, <3>3 DEF Base
  <2>2. IsValue(c, f) /\ at = Value(b) /\ d = Drop(t, at)
    BY <1>1, <1>7, <2>1 DEF IsValue, InEntry, TargetPath, TargetTree
  <2>3. at \in Paths /\ at # <<>> /\ Front(at) = b
    BY <1>3, <2>2, ValueIs
  <2>4. b \notin HashesIn(t)
    BY <2>1 DEF HashesIn
  <2>5. Shaped(d) /\ at \notin DOMAIN d
    BY <1>1, <1>3, <2>1, <2>2, DropValue
  <2> HIDE DEF t, d, at, b, n
  <2>6. Replaces(t, b, at, d, at)
    BY <2>2, <2>3 DEF Replaces
  <2>7. Stored(V, t, Put(d, at, node), n, at, {}, {})
    BY <1>2, <1>3, <2>4, <2>6, StoredElsewhere
  <2>8. ~Here(L)
    BY <1>7 DEF Here
  <2> QED
    BY <1>6, <2>3, <2>5, <2>7, <2>8 DEF t, d, at, n
<1>8. CASE ~InEntry(top) /\ OpenList(top)
  <2>1. /\ b = Last(it) /\ b = it[Len(it)] /\ t[b].kind = "array" /\ it # <<>>
    <3>1. ~Free(L)
      BY <1>4, <1>8
    <3> QED
      BY <1>1, <1>8, <3>1, TopArray DEF Base
  <2> DEFINE k == NextItem(c)
  <2>2. at = Child(b, "item", k) /\ d = t
    <3>1. ~IsValue(c, f) /\ Schema[Mapper(c)][f].repeated
      BY <1>1, <1>8 DEF IsValue, InEntry
    <3> QED
      BY <2>1, <3>1 DEF TargetPath, TargetTree, Member, Single
  <2>3. Dense(t, b)
    BY <1>1, <1>3, <2>1 DEF Shaped
  <2>4. k = Cardinality(Items(t, b)) + 1 /\ Cardinality(Items(t, b)) \in Nat
    BY <2>1, <2>3, FS_CardinalityType DEF NextItem, Dense
  <2> HIDE DEF t, d, at, b, n, k
  <2>5. <<"item", k>> \in Steps
    <3>1. k \in Nat
      BY <2>4
    <3> QED
      BY <3>1, StepsAre
  <2>6. at \in Paths /\ at # <<>> /\ Front(at) = b /\ Last(at) = <<"item", k>>
    BY <1>3, <2>2, <2>5, ChildIs
  <2>7. at \notin DOMAIN t
    <3> SUFFICES ASSUME at \in DOMAIN t PROVE FALSE
      OBVIOUS
    <3>1. at \in Items(t, b)
      BY <1>2, <1>3, <2>6, ItemsAre
    <3>2. PICK j \in 1..Cardinality(Items(t, b)) : at = Child(b, "item", j)
      BY <2>3, <3>1 DEF Dense
    <3>3. <<"item", j>> \in Steps
      <4>1. j \in Nat
        BY <2>4
      <4> QED
        BY <4>1, StepsAre
    <3>4. Last(at) = <<"item", j>>
      BY <1>3, <3>2, <3>3, ChildIs
    <3>5. j = k
      BY <2>6, <3>4
    <3> QED
      BY <2>4, <3>5
  <2>8. b \notin HashesIn(t)
    BY <2>1 DEF HashesIn
  <2>9. Replaces(t, b, at, d, at)
    BY <2>2, <2>6 DEF Replaces
  <2>10. Stored(V, t, Put(d, at, node), n, at, {}, {})
    BY <1>2, <1>3, <2>8, <2>9, StoredElsewhere
  <2>11. ~Here(L)
    BY <1>8 DEF Here
  <2> QED
    BY <1>1, <1>6, <2>2, <2>6, <2>7, <2>10, <2>11 DEF t, d, at, n
<1>9. CASE ~InEntry(top) /\ ~OpenList(top)
  <2>1. b = V[n].hash
    BY <1>3, <1>4, <1>5, <1>9
  <2>2. b = Last(it)
    <3>1. ~Free(L)
      BY <1>4, <1>9
    <3> QED
      BY <1>1, <1>9, <3>1, TopHash DEF Base
  <2>3. Single(c, f) /\ at = Child(b, "field", f)
    BY <1>1, <1>9, <2>2 DEF Single, IsValue, InEntry, TargetPath
  <2>4. \/ d = t /\ Replaced(c, f) = {}
        \/ /\ Seen(c, f) \in Nat /\ Seen(c, f) # f /\ Replaced(c, f) = {Seen(c, f)}
           /\ d = Drop(t, Child(b, "field", Seen(c, f)))
    <3>1. CASE Member(c, f) /\ Seen(c, f) \notin {NoField, f}
      <4>1. Seen(c, f) \in Nat
        BY <1>1, <1>2, <3>1, SeenIs
      <4> QED
        BY <2>2, <2>3, <3>1, <4>1 DEF TargetTree, Replaced, Single
    <3>2. CASE ~(Member(c, f) /\ Seen(c, f) \notin {NoField, f})
      BY <2>3, <3>2 DEF TargetTree, Replaced, Single
    <3> QED
      BY <3>1, <3>2
  <2> HIDE DEF t, d, at, b, n
  <2>5. /\ Shaped(d) /\ DOMAIN d \subseteq DOMAIN t /\ \A p \in DOMAIN d : d[p] = t[p]
    <3>1. CASE d = t
      BY <1>1, <3>1
    <3>2. CASE d # t
      <4>1. t[b].kind = "hash"
        BY <1>3, <2>1 DEF Around, HashesIn
      <4> QED
        BY <1>1, <1>3, <2>4, <3>2, <4>1, DropMember
    <3> QED
      BY <3>1, <3>2
  <2>6. Stored(V, t, Put(d, at, node), n, at, {f}, Replaced(c, f))
    <3>1. Around(V, t, V[n].hash) /\ at = Child(V[n].hash, "field", f)
      BY <1>3, <2>1, <2>3
    <3>2. CASE d = t /\ Replaced(c, f) = {}
      <4>1. {} \subseteq {f}
        OBVIOUS
      <4> QED
        BY <1>2, <1>3, <3>1, <3>2, <4>1, StoredHere
    <3>3. CASE /\ Seen(c, f) \in Nat /\ Seen(c, f) # f /\ Replaced(c, f) = {Seen(c, f)}
               /\ d = Drop(t, Child(b, "field", Seen(c, f)))
      BY <1>2, <1>3, <2>1, <3>1, <3>3, StoredHere
    <3> QED
      BY <2>4, <3>2, <3>3
  <2>7. at \in Paths /\ at # <<>> /\ Front(at) = b
    BY <1>2, <1>3, <2>3, FieldChild
  <2>8. Here(L)
    BY <1>9 DEF Here
  <2> QED
    BY <1>6, <2>1, <2>3, <2>5, <2>6, <2>7, <2>8 DEF t, d, at, n
<1> QED
  BY <1>7, <1>8, <1>9

----------------------------------------------------------------------------
(* What the hashes contain.                                                        *)

\* A field of a message that its end leaves there, unless the entries of a map borrow
\* what says whether it has been seen.
Due(m, f) == (CheckRequired(m) /\ f \in Required(m)) \/ (Explicit[m] /\ HasDefault(m, f))
Firm(m) == FieldsOf(m) \ Borrowed(m)
Full(t, p) == \A f \in Firm(t[p].type) : Due(t[p].type, f) => HasIn(t, p, f)

Alone(t, p) ==
    \A f, g \in FieldsOf(t[p].type) :
        f # g /\ Traits[t[p].type][f].oneof = Traits[t[p].type][g].oneof
              /\ Traits[t[p].type][f].oneof # NoOneof
            => ~(HasIn(t, p, f) /\ HasIn(t, p, g))
AloneInOnePiece(t, p) == t[p].chunks = 1 => Alone(t, p)

\* What has been seen is there, unless it is in a oneof; in a message in one piece
\* what is there has been seen, and the members of its oneofs are those stored last.
SeenThere(t, v) ==
    TracksSeen(v.type) =>
        \A f \in Firm(v.type) :
            f \in v.seen /\ Traits[v.type][f].oneof = NoOneof => HasIn(t, v.hash, f)
ThereSeen(t, v) ==
    TracksSeen(v.type) /\ t[v.hash].chunks = 1 =>
        \A f \in Firm(v.type) : HasIn(t, v.hash, f) => f \in v.seen
Chosen(t, v) ==
    t[v.hash].chunks = 1 =>
        \A f \in FieldsOf(v.type) :
            Traits[v.type][f].oneof # NoOneof /\ HasIn(t, v.hash, f)
                => v.one[Traits[v.type][f].oneof] = f

\* All hashes but the one at the path at, which has just been stored.  D: the messages
\* that have not ended.
Told(V, D, t, at) ==
    /\ \A i \in DOMAIN V : SeenThere(t, V[i]) /\ Chosen(t, V[i])
    /\ \A i \in D : ThereSeen(t, V[i])
    /\ \A p \in HashesIn(t) :
          p # at => AloneInOnePiece(t, p) /\ ((\E i \in D : V[i].hash = p) \/ Full(t, p))

\* What a callback that stores makes of the view: the last message has seen what it has
\* stored, and stored it last of its oneof.
Touched(V, W, n, t, G, M) ==
    /\ DOMAIN W = DOMAIN V
    /\ \A i \in DOMAIN V : W[i].hash = V[i].hash /\ W[i].type = V[i].type
    /\ \A i \in DOMAIN V : i # n => W[i] = V[i]
    /\ LET m == V[n].type IN
       /\ TracksSeen(m) => \A f \in Firm(m) :
             /\ f \in V[n].seen => f \in W[n].seen
             /\ f \in W[n].seen => f \in V[n].seen \/ f \in G \/ HasIn(t, V[n].hash, f)
       /\ \A f \in FieldsOf(m) : Traits[m][f].oneof # NoOneof =>
             (f \in G \/ (f \notin M /\ V[n].one[Traits[m][f].oneof] = f)
                 => W[n].one[Traits[m][f].oneof] = f)
       /\ \A f \in FieldsOf(m) : f \in M => Traits[m][f].oneof # NoOneof
\* It has marked what it has stored.
Marks(V, W, n, G) ==
    TracksSeen(V[n].type) => \A f \in Firm(V[n].type) : f \in G => f \in W[n].seen

\* The fields of a message, and those that are looked at when it ends.
LEMMA FieldsAre ==
    ASSUME NEW m \in Messages
    PROVE  /\ FieldsOf(m) \subseteq Nat /\ Firm(m) \subseteq FieldsOf(m) /\ NoField \notin FieldsOf(m)
           /\ \A f \in FieldsOf(m) : Due(m, f) => Traits[m][f].oneof = NoOneof
<1>1. FieldsOf(m) \subseteq Nat /\ NoField \notin FieldsOf(m)
  BY SchemaAssumption DEF NoField
<1>2. \A f \in FieldsOf(m) : Due(m, f) => Traits[m][f].oneof = NoOneof
  BY TraitsAssumption DEF Due, Required, HasDefault
<1> QED
  BY <1>1, <1>2 DEF Firm

\* The hashes of a tree, and their types.
LEMMA HashTypes ==
    ASSUME NEW t, Shaped(t)
    PROVE  /\ DOMAIN t \subseteq Paths /\ HashesIn(t) \subseteq DOMAIN t /\ NULL \notin HashesIn(t)
           /\ \A p \in HashesIn(t) : t[p].type \in Messages
<1>1. IsTree(t)
  BY DEF Shaped
<1>2. \A p \in HashesIn(t) : t[p].type \in Messages
  BY <1>1 DEF IsTree, HashesIn, Nodes
<1> QED
  BY <1>1, <1>2, NullIs DEF IsTree, HashesIn

\* A hash that is copied is as full as it was, and as exclusive.
LEMMA CopiedSame ==
    ASSUME NEW t, Shaped(t), NEW u, NEW q, NEW p, Copied(t, u, q, p)
    PROVE  /\ Full(t, q) => Full(u, p)
           /\ AloneInOnePiece(t, q) => AloneInOnePiece(u, p)
           /\ u[p].type = t[q].type /\ u[p].chunks = t[q].chunks
<1>1. u[p] = t[q] /\ t[q].type \in Messages /\ \A f \in Nat : HasIn(u, p, f) <=> HasIn(t, q, f)
  BY HashTypes DEF Copied
<1>2. FieldsOf(t[q].type) \subseteq Nat /\ Firm(t[q].type) \subseteq Nat
  BY <1>1, FieldsAre
<1>3. Full(t, q) => Full(u, p)
  BY <1>1, <1>2 DEF Full
<1>4. Alone(t, q) => Alone(u, p)
  BY <1>1, <1>2 DEF Alone
<1> QED
  BY <1>1, <1>3, <1>4 DEF AloneInOnePiece

\* What is told of a hash is told of its copy.
LEMMA CopiedTold ==
    ASSUME NEW t, NEW u, NEW v, v.type \in Messages, Copied(t, u, v.hash, v.hash)
    PROVE  /\ SeenThere(t, v) => SeenThere(u, v)
           /\ ThereSeen(t, v) => ThereSeen(u, v)
           /\ Chosen(t, v) => Chosen(u, v)
<1>1. u[v.hash] = t[v.hash] /\ \A f \in Nat : HasIn(u, v.hash, f) <=> HasIn(t, v.hash, f)
  BY DEF Copied
<1>2. FieldsOf(v.type) \subseteq Nat /\ Firm(v.type) \subseteq Nat
  BY FieldsAre
<1>3. SeenThere(t, v) => SeenThere(u, v)
  BY <1>1, <1>2 DEF SeenThere
<1>4. ThereSeen(t, v) => ThereSeen(u, v)
  BY <1>1, <1>2 DEF ThereSeen
<1>5. Chosen(t, v) => Chosen(u, v)
  BY <1>1, <1>2 DEF Chosen
<1> QED
  BY <1>3, <1>4, <1>5

\* If the members there are those stored last, there is one of each oneof.
LEMMA ChosenAlone ==
    ASSUME NEW t, NEW v, t[v.hash].type = v.type, Chosen(t, v)
    PROVE  AloneInOnePiece(t, v.hash)
<1> SUFFICES ASSUME t[v.hash].chunks = 1, NEW f \in FieldsOf(v.type), NEW g \in FieldsOf(v.type),
                    Traits[v.type][f].oneof = Traits[v.type][g].oneof,
                    Traits[v.type][f].oneof # NoOneof,
                    HasIn(t, v.hash, f), HasIn(t, v.hash, g)
             PROVE  f = g
  BY DEF AloneInOnePiece, Alone
<1>1. v.one[Traits[v.type][f].oneof] = f /\ v.one[Traits[v.type][g].oneof] = g
  BY DEF Chosen
<1> QED
  BY <1>1

\* Storing keeps what is told, in the last message too.
LEMMA LastTold ==
    ASSUME NEW V, NEW D, NEW t, Shaped(t), Told(V, D, t, NULL), NEW u, NEW n, NEW at, NEW G, NEW M,
           Stored(V, t, u, n, at, G, M), NEW W, Touched(V, W, n, t, G, M)
    PROVE  /\ SeenThere(u, W[n]) /\ Chosen(u, W[n])
           /\ n \in D /\ Marks(V, W, n, G) => ThereSeen(u, W[n])
<1> DEFINE h == V[n].hash
           m == V[n].type
<1>1. /\ n \in DOMAIN V /\ m \in Messages /\ u[h] = t[h]
      /\ \A g \in Nat : HasIn(u, h, g) <=> g \in G \/ (HasIn(t, h, g) /\ g \notin M)
  BY DEF Stored
<1>2. W[n].hash = h /\ W[n].type = m
  BY <1>1 DEF Touched
<1>3. SeenThere(t, V[n]) /\ Chosen(t, V[n]) /\ (n \in D => ThereSeen(t, V[n]))
  BY <1>1 DEF Told
<1>4. /\ TracksSeen(m) => \A f \in Firm(m) :
            /\ f \in V[n].seen => f \in W[n].seen
            /\ f \in W[n].seen => f \in V[n].seen \/ f \in G \/ HasIn(t, h, f)
      /\ \A f \in FieldsOf(m) : Traits[m][f].oneof # NoOneof =>
            (f \in G \/ (f \notin M /\ V[n].one[Traits[m][f].oneof] = f)
                => W[n].one[Traits[m][f].oneof] = f)
      /\ \A f \in FieldsOf(m) : f \in M => Traits[m][f].oneof # NoOneof
  BY DEF Touched
<1>5. FieldsOf(m) \subseteq Nat /\ Firm(m) \subseteq FieldsOf(m)
  BY <1>1, FieldsAre
<1> HIDE DEF h, m
<1>6. SeenThere(u, W[n])
  <2> SUFFICES ASSUME TracksSeen(m), NEW f \in Firm(m), f \in W[n].seen,
                      Traits[m][f].oneof = NoOneof
               PROVE  HasIn(u, h, f)
    BY <1>2 DEF SeenThere
  <2>1. f \in Nat /\ f \in FieldsOf(m) /\ f \notin M
    BY <1>4, <1>5
  <2>2. f \in V[n].seen => HasIn(t, h, f)
    BY <1>3 DEF SeenThere, h, m
  <2> QED
    BY <1>1, <1>4, <2>1, <2>2
<1>7. Chosen(u, W[n])
  <2> SUFFICES ASSUME u[h].chunks = 1, NEW f \in FieldsOf(m), Traits[m][f].oneof # NoOneof,
                      HasIn(u, h, f)
               PROVE  W[n].one[Traits[m][f].oneof] = f
    BY <1>2 DEF Chosen
  <2>1. f \in G \/ (HasIn(t, h, f) /\ f \notin M)
    BY <1>1, <1>5
  <2>2. HasIn(t, h, f) => V[n].one[Traits[m][f].oneof] = f
    BY <1>1, <1>3 DEF Chosen, h, m
  <2> QED
    BY <1>4, <2>1, <2>2
<1>8. ASSUME n \in D, Marks(V, W, n, G)
      PROVE  ThereSeen(u, W[n])
  <2> SUFFICES ASSUME TracksSeen(m), u[h].chunks = 1, NEW f \in Firm(m), HasIn(u, h, f)
               PROVE  f \in W[n].seen
    BY <1>2 DEF ThereSeen
  <2>1. f \in G \/ HasIn(t, h, f)
    BY <1>1, <1>5
  <2>2. HasIn(t, h, f) => f \in V[n].seen
    BY <1>1, <1>3, <1>8 DEF ThereSeen, h, m
  <2> QED
    BY <1>4, <1>8, <2>1, <2>2 DEF Marks, m
<1> QED
  BY <1>6, <1>7, <1>8

\* E: the messages that have not ended then.
LEMMA StoredTold ==
    ASSUME NEW V, NEW D, D \subseteq DOMAIN V, NEW t, Shaped(t), Told(V, D, t, NULL), NEW u,
           NEW n \in D, NEW at, NEW G, NEW M, Stored(V, t, u, n, at, G, M),
           NEW W, Touched(V, W, n, t, G, M), NEW E,
           \/ E = D /\ Marks(V, W, n, G)
           \/ E = D \ {n} /\ Full(u, V[n].hash)
    PROVE  Told(W, E, u, at)
<1>1. /\ DOMAIN W = DOMAIN V
      /\ \A i \in DOMAIN V : W[i].hash = V[i].hash /\ W[i].type = V[i].type /\ (i # n => W[i] = V[i])
  BY DEF Touched
<1>2. \A i \in DOMAIN V :
         /\ u[V[i].hash] = t[V[i].hash] /\ t[V[i].hash].type = V[i].type /\ V[i].type \in Messages
         /\ i # n => V[i].hash # V[n].hash /\ Copied(t, u, V[i].hash, V[i].hash)
  BY DEF Stored
<1>3. /\ \A i \in DOMAIN V : SeenThere(t, V[i]) /\ Chosen(t, V[i])
      /\ \A i \in D : ThereSeen(t, V[i])
      /\ \A p \in HashesIn(t) :
            AloneInOnePiece(t, p) /\ ((\E i \in D : V[i].hash = p) \/ Full(t, p))
  BY HashTypes DEF Told
<1>4. SeenThere(u, W[n]) /\ Chosen(u, W[n]) /\ (n \in E => ThereSeen(u, W[n]))
  BY LastTold
<1>5. ASSUME NEW i \in DOMAIN V
      PROVE  SeenThere(u, W[i]) /\ Chosen(u, W[i]) /\ (i \in E => ThereSeen(u, W[i]))
  <2>1. CASE i = n
    BY <1>4, <2>1
  <2>2. CASE i # n
    <3>1. W[i] = V[i] /\ V[i].type \in Messages /\ Copied(t, u, V[i].hash, V[i].hash)
      BY <1>1, <1>2, <2>2
    <3>2. SeenThere(t, V[i]) /\ Chosen(t, V[i]) /\ (i \in E => ThereSeen(t, V[i]))
      BY <1>3
    <3> QED
      BY <3>1, <3>2, CopiedTold
  <2> QED
    BY <2>1, <2>2
<1>6. ASSUME NEW p \in HashesIn(u), p # at
      PROVE  AloneInOnePiece(u, p) /\ ((\E i \in E : W[i].hash = p) \/ Full(u, p))
  <2>1. CASE p = V[n].hash
    <3>1. W[n].hash = p /\ u[p].type = W[n].type
      BY <1>1, <1>2, <2>1
    <3>2. AloneInOnePiece(u, p)
      BY <1>4, <3>1, ChosenAlone
    <3> QED
      BY <2>1, <3>1, <3>2
  <2>2. CASE p # V[n].hash
    <3>1. PICK q \in HashesIn(t) : Copied(t, u, q, p) /\ (q = p \/ \A i \in DOMAIN V : q # V[i].hash)
      BY <1>6, <2>2 DEF Stored, Same
    <3>2. AloneInOnePiece(u, p) /\ (Full(t, q) => Full(u, p))
      BY <1>3, <3>1, CopiedSame
    <3>3. CASE Full(t, q)
      BY <3>2, <3>3
    <3>4. CASE ~Full(t, q)
      <4>1. PICK i \in D : V[i].hash = q
        BY <1>3, <3>4
      <4>2. q = p /\ i # n
        BY <2>2, <3>1, <4>1
      <4>3. i \in E /\ W[i].hash = p
        BY <1>1, <4>1, <4>2
      <4> QED
        BY <3>2, <4>3
    <3> QED
      BY <3>3, <3>4
  <2> QED
    BY <2>1, <2>2
<1>7. \A i \in E : i \in DOMAIN V
  OBVIOUS
<1> QED
  BY <1>1, <1>5, <1>6, <1>7 DEF Told

----------------------------------------------------------------------------
(* What the callbacks change of the view.                                          *)

\* The stacks differ from those of c in their last entries at most.
Retop(L, c, it2, seen2, one2) ==
    /\ \A k \in 1..(Len(c.items) - 1) : it2[k] = c.items[k]
    /\ ~Free(L) => it2[Len(c.items)] = c.items[Len(c.items)]
    /\ Len(seen2) = Len(c.seenFields)
    /\ \A j \in 1..(Len(c.seenFields) - 1) : seen2[j] = c.seenFields[j]
    /\ ~TracksSeen(L[MapLevel(L)].type) => seen2 = c.seenFields
    /\ Len(one2) = Len(c.seenOneof)
    /\ \A j \in 1..(Len(c.seenOneof) - 1) : one2[j] = c.seenOneof[j]
    /\ Oneofs(L[MapLevel(L)].type) = {} => one2 = c.seenOneof

\* What the last message has seen and stored is in their last entries.
LEMMA Retopped ==
    ASSUME NEW L, NEW tok, LevelsOK(L, tok), NEW c, Sane(c), Stacks(L, c),
           NEW it2, NEW seen2, NEW one2, Retop(L, c, it2, seen2, one2)
    PROVE  LET n == MapLevel(L)
               m == L[n].type
               V == ViewOf(L, c)
               W == View(L, it2, seen2, one2)
           IN  /\ DOMAIN W = DOMAIN V /\ DOMAIN V = OwnOf(L) /\ n \in DOMAIN V
               /\ \A i \in DOMAIN V : W[i].hash = V[i].hash /\ W[i].type = V[i].type
               /\ \A i \in DOMAIN V : i # n => W[i] = V[i]
               /\ V[n].type = m /\ m \in Messages
               /\ TracksSeen(m) => V[n].seen = Last(c.seenFields) /\ W[n].seen = Last(seen2)
               /\ Oneofs(m) # {} => V[n].one = Last(c.seenOneof) /\ W[n].one = Last(one2)
<1>1. /\ Len(c.items) = HeightOf(L, Len(L)) /\ c.seenFields \in Seq(SUBSET Nat)
      /\ FieldsOK(L, c.seenFields) /\ c.seenOneof \in Seq(OneofStates) /\ OneofsOK(L, c.seenOneof)
  BY DEF Sane, IsCxt, Stacks, SeenOK, ItemsOK
<1>2. /\ \A k \in 1..(Len(c.items) - 1) : it2[k] = c.items[k]
      /\ ~Free(L) => it2[Len(c.items)] = c.items[Len(c.items)]
      /\ Len(seen2) = Len(c.seenFields)
      /\ \A j \in 1..(Len(c.seenFields) - 1) : seen2[j] = c.seenFields[j]
      /\ ~TracksSeen(L[MapLevel(L)].type) => seen2 = c.seenFields
      /\ Len(one2) = Len(c.seenOneof)
      /\ \A j \in 1..(Len(c.seenOneof) - 1) : one2[j] = c.seenOneof[j]
      /\ Oneofs(L[MapLevel(L)].type) = {} => one2 = c.seenOneof
  BY DEF Retop
<1> DEFINE n == MapLevel(L)
           V == View(L, c.items, c.seenFields, c.seenOneof)
           W == View(L, it2, seen2, one2)
<1>5. TopOnly(L, c.items, it2, c.seenFields, seen2, c.seenOneof, one2)
  BY <1>1, <1>2 DEF TopOnly
<1>3. /\ DOMAIN V = OwnOf(L) /\ DOMAIN W = OwnOf(L)
      /\ \A i \in OwnOf(L) : W[i].hash = V[i].hash /\ W[i].type = V[i].type
      /\ \A i \in OwnOf(L) : i # n => W[i] = V[i]
      /\ V[n].type = L[n].type
      /\ V[n].seen = (IF TracksSeen(L[n].type) THEN Last(c.seenFields) ELSE {})
      /\ W[n].seen = (IF TracksSeen(L[n].type) THEN Last(seen2) ELSE {})
      /\ V[n].one = (IF Oneofs(L[n].type) # {} THEN Last(c.seenOneof) ELSE NoOneofs)
      /\ W[n].one = (IF Oneofs(L[n].type) # {} THEN Last(one2) ELSE NoOneofs)
  BY <1>5, ViewTop
<1>4. n \in OwnOf(L) /\ L[n].type \in Messages
  BY HostIs
<1> HIDE DEF V, W, n
<1> QED
  BY <1>3, <1>4 DEF V, W, n, ViewOf

\* The handlers of an entry track what they have seen if the message with the map does,
\* and it is what they borrow.
LEMMA EntryTracks ==
    ASSUME NEW m \in Messages, NEW f \in FieldsOf(m), Traits[m][f].map,
           TracksSeen(Schema[m][f].message)
    PROVE  TracksSeen(m) /\ KeyField \in Borrowed(m) /\ ValueField \in Borrowed(m)
<1> DEFINE e == Schema[m][f].message
<1>1. e \in Entries /\ Explicit[e] = Explicit[m]
  BY TraitsAssumption, OptionsAssumption
<1>2. Required(e) = {}
  BY <1>1, EntriesAssumption DEF Required
<1>3. Explicit[m] /\ HasMap(m)
  BY <1>1, <1>2 DEF TracksSeen, CheckRequired, HasMap
<1> QED
  BY <1>3 DEF TracksSeen, Borrowed

\* Who marks: a message for itself, the handlers of an entry what they borrow.
LEMMA Tracker ==
    ASSUME NEW L, NEW tok, LevelsOK(L, tok), NEW c, Sane(c), Stacks(L, c)
    PROVE  LET m == L[MapLevel(L)].type
           IN  /\ ~Free(L) => (c.track <=> TracksSeen(m)) /\ L[Len(L)].type = m /\ Mapper(c) = m
               /\ Free(L) /\ c.track => /\ TracksSeen(m)
                                        /\ KeyField \in Borrowed(m) /\ ValueField \in Borrowed(m)
<1>1. /\ c.mappers \in Seq(Messages) /\ c.mappers # <<>> /\ MappersOK(L, c)
      /\ c.track = TracksSeen(Mapper(c))
  BY DEF Sane, IsCxt, Stacks, MappersOK
<1>2. /\ OpenMap(L[Len(L)]) => Mapper(c) = Schema[L[Len(L)].type][L[Len(L)].field].message
      /\ ~OpenMap(L[Len(L)]) => Mapper(c) = L[Len(L)].type
  BY <1>1, MapperIs
<1>3. CASE ~Free(L)
  BY <1>1, <1>2, <1>3 DEF Free, MapLevel
<1>4. CASE Free(L)
  <2> DEFINE h == L[MapLevel(L)]
  <2>1. /\ MapLevel(L) \in DOMAIN L /\ OpenMap(h)
        /\ InEntry(L[Len(L)]) => L[Len(L)].type = Schema[h.type][h.field].message
        /\ OpenMap(L[Len(L)]) => MapLevel(L) = Len(L)
    BY <1>4, FreeIs
  <2>2. Mapper(c) = Schema[h.type][h.field].message
    BY <1>2, <1>4, <2>1 DEF Free
  <2>3. h.type \in Messages /\ h.field \in FieldsOf(h.type) /\ Traits[h.type][h.field].map
    <3>1. Entered(h) /\ h.seq # "none"
      BY <2>1, LevelIs
    <3>2. h.type \in Messages
      BY <2>1, LevelIs, LevelsAre
    <3> QED
      BY <2>1, <3>1, <3>2 DEF Entered, OpenMap
  <2> HIDE DEF h
  <2>4. c.track => TracksSeen(h.type) /\ KeyField \in Borrowed(h.type) /\ ValueField \in Borrowed(h.type)
    BY <1>1, <2>2, <2>3, EntryTracks
  <2> QED
    BY <1>4, <2>4 DEF h
<1> QED
  BY <1>3, <1>4

\* mark_seen().
LEMMA MarkedTop ==
    ASSUME NEW L, NEW tok, LevelsOK(L, tok), NEW c, Sane(c), Stacks(L, c), NEW f \in Nat
    PROVE  LET m == L[MapLevel(L)].type
               seen == c.seenFields
               seen2 == Marked(c, f)
           IN  /\ Len(seen2) = Len(seen) /\ \A j \in 1..(Len(seen) - 1) : seen2[j] = seen[j]
               /\ ~TracksSeen(m) => seen2 = seen
               /\ c.track => Last(seen2) = Last(seen) \cup {f}
               /\ ~c.track => seen2 = seen
<1>1. /\ c.mappers \in Seq(Messages) /\ c.mappers # <<>> /\ MappersOK(L, c)
      /\ c.seenFields \in Seq(SUBSET Nat) /\ FieldsOK(L, c.seenFields)
  BY DEF Sane, IsCxt, Stacks, SeenOK
<1>2. c.track => TracksSeen(L[MapLevel(L)].type)
  BY Tracker
<1>3. CASE c.track
  <2>1. c.seenFields # <<>> /\ Last(c.seenFields) \in SUBSET Nat
    BY <1>1, <1>3, TrackIs
  <2>2. Last(c.seenFields) \cup {f} \in SUBSET Nat
    BY <2>1
  <2>3. Marked(c, f) = SetLast(c.seenFields, Last(c.seenFields) \cup {f})
    BY <1>3 DEF Marked
  <2> DEFINE N == SUBSET Nat
             s == c.seenFields
             e == Last(s) \cup {f}
  <2>4. s \in Seq(N) /\ s # <<>> /\ e \in N
    BY <1>1, <2>1, <2>2
  <2> HIDE DEF N, s, e
  <2>5. /\ Len(SetLast(s, e)) = Len(s) /\ \A i \in 1..(Len(s) - 1) : SetLast(s, e)[i] = s[i]
        /\ Last(SetLast(s, e)) = e
    BY <2>4, SetLastIs
  <2> QED
    BY <1>2, <1>3, <2>3, <2>5 DEF s, e
<1>4. CASE ~c.track
  BY <1>4 DEF Marked
<1> QED
  BY <1>3, <1>4

\* get_target() and mark_seen(), which the callbacks for elements and values need not call.
LEMMA TargetTop ==
    ASSUME NEW L, NEW tok, LevelsOK(L, tok), NEW c, Sane(c), Stacks(L, c), NEW f, Storing(L, c, f),
           NEW seen2, seen2 = Marked(c, f) \/ seen2 = c.seenFields
    PROVE  /\ Retop(L, c, TargetItems(c, f), seen2, TargetOneof(c, f))
           /\ f \in FieldsOf(L[Len(L)].type) /\ f \in Nat /\ L[Len(L)].type \in Messages
           /\ InEntry(L[Len(L)]) => f = ValueField
           /\ OpenList(L[Len(L)]) => f = L[Len(L)].field
           /\ Free(L) <=> InEntry(L[Len(L)])
           /\ Here(L) => Single(c, f)
           /\ Member(c, f) => Here(L)
           /\ Member(c, f) => /\ Mapper(c) = L[Len(L)].type
                              /\ Last(c.seenOneof) \in OneofState(L[Len(L)].type)
                              /\ Last(TargetOneof(c, f)) =
                                     [Last(c.seenOneof) EXCEPT ![OneofOf(c, f)] = f]
           /\ ~Member(c, f) => TargetOneof(c, f) = c.seenOneof
<1> DEFINE top == L[Len(L)]
           it2 == TargetItems(c, f)
           one2 == TargetOneof(c, f)
<1>1. /\ Mapper(c) = top.type /\ ~OpenMap(top) /\ f \in FieldsOf(top.type)
      /\ InEntry(top) => f = ValueField
      /\ ~InEntry(top) => (Schema[top.type][f].repeated <=> OpenList(top))
      /\ OpenList(top) => f = top.field
      /\ Oneofs(top.type) # {} => Last(c.seenOneof) \in OneofState(top.type)
  BY DEF Storing
<1>2. top.type \in Messages /\ (OpenList(top) => ~InEntry(top))
  BY LevelIs, LevelsAre
<1>3. f \in Nat
  BY <1>1, <1>2, FieldsAre
<1>4. Free(L) <=> InEntry(top)
  BY <1>1 DEF Free
<1>5. IsValue(c, f) <=> InEntry(top)
  BY <1>1 DEF IsValue, InEntry
<1>6. Single(c, f) <=> Here(L)
  BY <1>1, <1>2, <1>5 DEF Single, Here
<1>7. /\ \A k \in 1..(Len(c.items) - 1) : it2[k] = c.items[k]
      /\ ~Free(L) => it2 = c.items
  <2>1. CASE InEntry(top)
    <3>1. it2 = [c.items EXCEPT ![Len(c.items)] = TargetPath(c, f)]
      BY <1>5, <2>1 DEF TargetItems, SetLast
    <3>2. Len(c.items) \in Nat /\ DOMAIN c.items = 1..Len(c.items)
      <4>1. c.items \in ItemSeq
        BY DEF Sane, IsCxt, ItemSeq
      <4> QED
        BY <4>1, ItemStack
    <3> QED
      BY <1>4, <2>1, <3>1, <3>2
  <2>2. CASE ~InEntry(top)
    BY <1>5, <2>2 DEF TargetItems
  <2> QED
    BY <2>1, <2>2
<1>8. /\ Len(seen2) = Len(c.seenFields)
      /\ \A j \in 1..(Len(c.seenFields) - 1) : seen2[j] = c.seenFields[j]
      /\ ~TracksSeen(L[MapLevel(L)].type) => seen2 = c.seenFields
  BY <1>3, MarkedTop
<1>9. Member(c, f) => MapLevel(L) = Len(L) /\ Oneofs(top.type) # {} /\ Here(L)
  <2> SUFFICES ASSUME Member(c, f)
               PROVE  MapLevel(L) = Len(L) /\ Oneofs(top.type) # {} /\ Here(L)
    OBVIOUS
  <2>1. Here(L)
    BY <1>6 DEF Member
  <2>2. OneofOf(c, f) \in Oneofs(top.type)
    BY <1>1 DEF Member, OneofOf, Oneofs
  <2> QED
    BY <2>1, <2>2 DEF Here, MapLevel
<1>10. /\ Len(one2) = Len(c.seenOneof)
       /\ \A j \in 1..(Len(c.seenOneof) - 1) : one2[j] = c.seenOneof[j]
       /\ ~Member(c, f) => one2 = c.seenOneof
       /\ Member(c, f) => Last(one2) = [Last(c.seenOneof) EXCEPT ![OneofOf(c, f)] = f]
  <2>1. CASE Member(c, f)
    <3> DEFINE s == c.seenOneof
               e == [Last(s) EXCEPT ![OneofOf(c, f)] = f]
    <3>1. one2 = SetLast(s, e)
      BY <2>1 DEF TargetOneof
    <3>2. s \in Seq(OneofStates) /\ s # <<>>
      <4>1. s \in Seq(OneofStates) /\ OneofsOK(L, s)
        BY DEF Sane, IsCxt, Stacks, SeenOK
      <4> QED
        BY <1>9, <2>1, <4>1, OneofsTop DEF Here
    <3>3. e \in OneofStates
      <4>1. f \in FieldsOf(Mapper(c)) /\ Mapper(c) \in Messages
        BY <1>1, <1>2
      <4>2. Last(s) \in OneofState(top.type)
        BY <1>1, <1>9, <2>1
      <4>3. e \in OneofState(top.type)
        BY <1>1, <2>1, <4>2, Zenon DEF OneofState, Member, OneofOf, Oneofs
      <4> QED
        BY <1>2, <4>3 DEF OneofStates
    <3> HIDE DEF s, e
    <3>4. /\ Len(SetLast(s, e)) = Len(s) /\ Last(SetLast(s, e)) = e
          /\ \A j \in 1..(Len(s) - 1) : SetLast(s, e)[j] = s[j]
      BY <3>2, <3>3, SetLastIs
    <3> QED
      BY <2>1, <3>1, <3>4 DEF s, e
  <2>2. CASE ~Member(c, f)
    BY <2>2 DEF TargetOneof
  <2> QED
    BY <2>1, <2>2
<1>11. Oneofs(L[MapLevel(L)].type) = {} => one2 = c.seenOneof
  BY <1>9, <1>10
<1>12. Retop(L, c, it2, seen2, one2)
  BY <1>7, <1>8, <1>10, <1>11, Zenon DEF Retop
<1>13. Member(c, f) => Last(c.seenOneof) \in OneofState(top.type)
  BY <1>1, <1>9
<1> HIDE DEF it2, one2
<1> QED
  BY <1>1, <1>2, <1>3, <1>4, <1>6, <1>9, <1>10, <1>12, <1>13 DEF it2, one2

\* What is stored has been marked, but the elements of an array, which is there, and the
\* values of an entry, which borrow the mark.
LEMMA StoreTouched ==
    ASSUME NEW L, NEW tok, LevelsOK(L, tok), NEW c, Sane(c), Stacks(L, c), NEW f, Storing(L, c, f),
           NEW seen2, seen2 = Marked(c, f) \/ (seen2 = c.seenFields /\ ~Here(L))
    PROVE  LET n == MapLevel(L)
               V == ViewOf(L, c)
               W == View(L, TargetItems(c, f), seen2, TargetOneof(c, f))
               G == IF Here(L) THEN {f} ELSE {}
               M == IF Here(L) THEN Replaced(c, f) ELSE {}
           IN  Touched(V, W, n, c.tree, G, M) /\ Marks(V, W, n, G)
<1> DEFINE n == MapLevel(L)
           top == L[Len(L)]
           m == L[n].type
           V == ViewOf(L, c)
           W == View(L, TargetItems(c, f), seen2, TargetOneof(c, f))
           G == IF Here(L) THEN {f} ELSE {}
           M == IF Here(L) THEN Replaced(c, f) ELSE {}
           one2 == TargetOneof(c, f)
<1>1. /\ Retop(L, c, TargetItems(c, f), seen2, one2)
      /\ f \in FieldsOf(top.type) /\ f \in Nat /\ top.type \in Messages
      /\ InEntry(top) => f = ValueField
      /\ OpenList(top) => f = top.field
      /\ Free(L) <=> InEntry(top)
      /\ Here(L) => Single(c, f)
      /\ Member(c, f) => Here(L)
      /\ Member(c, f) => /\ Mapper(c) = top.type
                         /\ Last(c.seenOneof) \in OneofState(top.type)
                         /\ Last(one2) = [Last(c.seenOneof) EXCEPT ![OneofOf(c, f)] = f]
      /\ ~Member(c, f) => one2 = c.seenOneof
  BY TargetTop
<1>2. /\ DOMAIN W = DOMAIN V /\ n \in DOMAIN V
      /\ \A i \in DOMAIN V : W[i].hash = V[i].hash /\ W[i].type = V[i].type
      /\ \A i \in DOMAIN V : i # n => W[i] = V[i]
      /\ V[n].type = m /\ m \in Messages
      /\ TracksSeen(m) => V[n].seen = Last(c.seenFields) /\ W[n].seen = Last(seen2)
      /\ Oneofs(m) # {} => V[n].one = Last(c.seenOneof) /\ W[n].one = Last(one2)
  BY <1>1, Retopped, SMTT(20)
<1>3. /\ ~Free(L) => (c.track <=> TracksSeen(m)) /\ top.type = m /\ Mapper(c) = m
      /\ Free(L) /\ c.track => TracksSeen(m) /\ ValueField \in Borrowed(m)
  BY Tracker
<1>4. /\ c.track => Last(Marked(c, f)) = Last(c.seenFields) \cup {f}
      /\ ~c.track => Marked(c, f) = c.seenFields
  BY <1>1, MarkedTop
<1>5. ~Here(L) /\ ~Free(L) => HasIn(c.tree, V[n].hash, f)
  <2> SUFFICES ASSUME ~Here(L), ~Free(L) PROVE HasIn(c.tree, V[n].hash, f)
    OBVIOUS
  <2>1. ~InEntry(top) /\ OpenList(top)
    BY <1>1 DEF Here
  <2>2. L[n] = top /\ f = L[n].field
    BY <1>1, <2>1 DEF MapLevel
  <2>3. ItemsOK(L, c.items, c.tree)
    BY DEF Stacks
  <2>4. /\ Base(L, c.items) \in DOMAIN c.tree
        /\ OpenList(L[n]) => Base(L, c.items) = Child(V[n].hash, "field", L[n].field)
    BY <2>3, AroundOf
  <2> QED
    BY <2>1, <2>2, <2>4 DEF HasIn
<1> HIDE DEF V, W, n, m, one2
<1>6. /\ TracksSeen(m) => \A g \in Firm(m) :
            /\ g \in V[n].seen => g \in W[n].seen
            /\ g \in W[n].seen => g \in V[n].seen \/ g \in G \/ HasIn(c.tree, V[n].hash, g)
      /\ Marks(V, W, n, G)
  <2>1. CASE ~TracksSeen(m)
    BY <1>2, <2>1 DEF Marks
  <2>2. CASE TracksSeen(m)
    <3>1. V[n].seen = Last(c.seenFields) /\ W[n].seen = Last(seen2)
      BY <1>2, <2>2
    <3>2. seen2 = c.seenFields \/ Last(seen2) = Last(c.seenFields) \cup {f}
      BY <1>4
    <3>3. f \in Firm(m) /\ Last(seen2) # Last(c.seenFields) => f \in G \/ HasIn(c.tree, V[n].hash, f)
      <4>1. CASE Free(L)
        <5>1. f = ValueField /\ (c.track => f \in Borrowed(m))
          BY <1>1, <1>3, <4>1
        <5>2. ~c.track => seen2 = c.seenFields
          BY <1>4
        <5> QED
          BY <5>1, <5>2 DEF Firm
      <4>2. CASE ~Free(L)
        BY <1>5, <4>2
      <4> QED
        BY <4>1, <4>2
    <3>4. Here(L) => f \in Last(seen2)
      <4> SUFFICES ASSUME Here(L) PROVE f \in Last(seen2)
        OBVIOUS
      <4>1. c.track
        BY <1>1, <1>3, <2>2 DEF Here
      <4> QED
        BY <1>4, <4>1
    <3> QED
      BY <3>1, <3>2, <3>3, <3>4 DEF Marks
  <2> QED
    BY <2>1, <2>2
<1>7. Member(c, f) => /\ m = top.type /\ OneofOf(c, f) \in Oneofs(m) /\ OneofOf(c, f) # NoOneof
                      /\ Last(c.seenOneof) \in [Oneofs(m) -> {NoField} \cup FieldsOf(m)]
                      /\ Seen(c, f) # NoField => Traits[m][Seen(c, f)].oneof = OneofOf(c, f)
  <2> SUFFICES ASSUME Member(c, f)
               PROVE  /\ m = top.type /\ OneofOf(c, f) \in Oneofs(m) /\ OneofOf(c, f) # NoOneof
                      /\ Last(c.seenOneof) \in [Oneofs(m) -> {NoField} \cup FieldsOf(m)]
                      /\ Seen(c, f) # NoField => Traits[m][Seen(c, f)].oneof = OneofOf(c, f)
    OBVIOUS
  <2>1. m = top.type /\ Mapper(c) = m /\ f \in FieldsOf(m) /\ Last(c.seenOneof) \in OneofState(m)
    BY <1>1, <1>3 DEF Here
  <2> QED
    BY <1>2, <2>1, SeenIs
<1>8. ASSUME NEW g \in FieldsOf(m), Traits[m][g].oneof # NoOneof,
             g \in G \/ (g \notin M /\ V[n].one[Traits[m][g].oneof] = g)
      PROVE  W[n].one[Traits[m][g].oneof] = g
  <2>1. Traits[m][g].oneof \in Oneofs(m)
    BY <1>8 DEF Oneofs
  <2>2. V[n].one = Last(c.seenOneof) /\ W[n].one = Last(one2)
    BY <1>2, <2>1
  <2>3. CASE Member(c, f)
    <3>1. Here(L) /\ G = {f} /\ M = {Seen(c, f)} \ {NoField, f}
      BY <1>1, <2>3 DEF Replaced
    <3>2. W[n].one = [V[n].one EXCEPT ![OneofOf(c, f)] = f] /\ V[n].one \in [Oneofs(m) -> {NoField} \cup FieldsOf(m)]
      BY <1>1, <1>7, <2>2, <2>3 DEF one2
    <3>3. CASE Traits[m][g].oneof = OneofOf(c, f)
      <4>1. g # NoField
        BY <1>2, FieldsAre
      <4>2. g = f
        BY <1>8, <2>2, <3>1, <3>3, <4>1 DEF Seen
      <4> QED
        BY <2>1, <3>2, <3>3, <4>2
    <3>4. CASE Traits[m][g].oneof # OneofOf(c, f)
      <4>1. g # f
        <5>1. m = Mapper(c)
          BY <1>1, <1>7, <2>3
        <5> QED
          BY <3>4, <5>1 DEF OneofOf
      <4>2. V[n].one[Traits[m][g].oneof] = g
        BY <1>8, <3>1, <4>1
      <4> QED
        BY <2>1, <3>2, <3>4, <4>2
    <3> QED
      BY <3>3, <3>4
  <2>4. CASE ~Member(c, f)
    <3>1. W[n].one = V[n].one
      BY <1>1, <2>2, <2>4 DEF one2
    <3>2. g \notin G
      <4> SUFFICES ASSUME Here(L), g = f PROVE FALSE
        OBVIOUS
      <4>1. Mapper(c) = m /\ Single(c, f)
        BY <1>1, <1>3 DEF Here
      <4> QED
        BY <1>8, <2>4, <4>1 DEF Member, OneofOf
    <3> QED
      BY <1>8, <3>1, <3>2
  <2> QED
    BY <2>3, <2>4
<1>9. \A g \in FieldsOf(m) : g \in M => Traits[m][g].oneof # NoOneof
  <2> SUFFICES ASSUME NEW g \in FieldsOf(m), g \in M PROVE Traits[m][g].oneof # NoOneof
    OBVIOUS
  <2>1. Member(c, f) /\ g = Seen(c, f) /\ g # NoField
    BY DEF Replaced
  <2> QED
    BY <1>7, <2>1
<1> HIDE DEF G, M
<1>10. Touched(V, W, n, c.tree, G, M)
  BY <1>2, <1>6, <1>8, <1>9, Zenon DEF Touched
<1> QED
  BY <1>6, <1>10 DEF V, W, n, G, M, one2

\* A callback that stores no member of a oneof: G, what it marks and leaves there.
LEMMA SeenTouched ==
    ASSUME NEW L, NEW tok, LevelsOK(L, tok), NEW c, Sane(c), Stacks(L, c), NEW it2, NEW seen2,
           Retop(L, c, it2, seen2, c.seenOneof), NEW m, m = L[MapLevel(L)].type,
           NEW G, \A g \in FieldsOf(m) : g \in G => Traits[m][g].oneof = NoOneof,
           TracksSeen(m) => \A g \in Firm(m) :
               /\ g \in Last(c.seenFields) => g \in Last(seen2)
               /\ g \in Last(seen2) => g \in Last(c.seenFields) \/ g \in G
    PROVE  Touched(ViewOf(L, c), View(L, it2, seen2, c.seenOneof), MapLevel(L), c.tree, G, {})
<1> DEFINE n == MapLevel(L)
           V == ViewOf(L, c)
           W == View(L, it2, seen2, c.seenOneof)
<1>1. /\ DOMAIN W = DOMAIN V /\ n \in DOMAIN V
      /\ \A i \in DOMAIN V : W[i].hash = V[i].hash /\ W[i].type = V[i].type
      /\ \A i \in DOMAIN V : i # n => W[i] = V[i]
      /\ V[n].type = m /\ m \in Messages
      /\ TracksSeen(m) => V[n].seen = Last(c.seenFields) /\ W[n].seen = Last(seen2)
      /\ Oneofs(m) # {} => V[n].one = Last(c.seenOneof) /\ W[n].one = Last(c.seenOneof)
  BY Retopped
<1> HIDE DEF V, W, n
<1>2. TracksSeen(m) => \A g \in Firm(m) :
         /\ g \in V[n].seen => g \in W[n].seen
         /\ g \in W[n].seen => g \in V[n].seen \/ g \in G \/ HasIn(c.tree, V[n].hash, g)
  BY <1>1
<1>3. ASSUME NEW g \in FieldsOf(m), Traits[m][g].oneof # NoOneof,
             g \in G \/ (g \notin {} /\ V[n].one[Traits[m][g].oneof] = g)
      PROVE  W[n].one[Traits[m][g].oneof] = g
  <2>1. Oneofs(m) # {} /\ g \notin G
    BY <1>3 DEF Oneofs
  <2> QED
    BY <1>1, <1>3, <2>1
<1> QED
  BY <1>1, <1>2, <1>3, Zenon DEF Touched, V, W, n

\* A tree that stays as it is; G, what is there anyway.
LEMMA StoredSame ==
    ASSUME NEW V, NEW t, DOMAIN t \subseteq Paths, NEW b, Around(V, t, b), Nested(V),
           NEW n \in DOMAIN V, NEW G, \A g \in Nat : g \in G => HasIn(t, V[n].hash, g)
    PROVE  Stored(V, t, t, n, NULL, G, {})
<1>1. \A i \in DOMAIN V :
         /\ V[i].hash \in Paths /\ V[i].hash \in HashesIn(t)
         /\ t[V[i].hash].type = V[i].type /\ V[i].type \in Messages
  BY DEF Around
<1>2. \A i, j \in DOMAIN V : i # j => V[i].hash # V[j].hash
  BY NestedDiffer
<1>3. \A p \in HashesIn(t) : Copied(t, t, p, p)
  BY DEF Copied
<1>4. \A p \in HashesIn(t) : Same(V, t, t, p)
  BY <1>3 DEF Same
<1>5. \A i \in DOMAIN V :
         /\ V[i].hash \in HashesIn(t) /\ V[i].hash # NULL
         /\ i # n => V[i].hash # V[n].hash /\ Copied(t, t, V[i].hash, V[i].hash)
  BY <1>1, <1>2, <1>3, NullIs
<1> QED
  BY <1>1, <1>4, <1>5 DEF Stored

----------------------------------------------------------------------------
(* The invariant, and the callbacks for scalars.                                   *)

\* What is told of the open messages, of which those of the levels D have not ended.
Knows(L, D, c) == Nested(ViewOf(L, c)) /\ Told(ViewOf(L, c), D, c.tree, NULL)

\* Being nested only depends on the hashes.
LEMMA NestedSame ==
    ASSUME NEW V, NEW W, DOMAIN W = DOMAIN V, \A i \in DOMAIN V : W[i].hash = V[i].hash, Nested(V)
    PROVE  Nested(W)
  BY DEF Nested

\* What is stored is told but of the hash it may be.
LEMMA StoreTold ==
    ASSUME NEW L, NEW tok, LevelsOK(L, tok), NEW c, Sane(c), Stacks(L, c), Knows(L, OwnOf(L), c),
           NEW f, Storing(L, c, f), NEW node,
           NEW seen2, seen2 = Marked(c, f) \/ (seen2 = c.seenFields /\ ~Here(L))
    PROVE  LET V == ViewOf(L, c)
               W == View(L, TargetItems(c, f), seen2, TargetOneof(c, f))
               at == TargetPath(c, f)
               d == TargetTree(c, f)
           IN  /\ Told(W, OwnOf(L), Put(d, at, node), at) /\ Nested(W)
               /\ DOMAIN W = OwnOf(L) /\ \A i \in OwnOf(L) : Len(W[i].hash) < Len(at)
               /\ at \in Paths /\ Shaped(d) /\ (at \in DOMAIN d => Here(L))
<1> DEFINE V == ViewOf(L, c)
           W == View(L, TargetItems(c, f), seen2, TargetOneof(c, f))
           n == MapLevel(L)
           at == TargetPath(c, f)
           d == TargetTree(c, f)
           u == Put(d, at, node)
           G == IF Here(L) THEN {f} ELSE {}
           M == IF Here(L) THEN Replaced(c, f) ELSE {}
<1>1. /\ Shaped(c.tree) /\ ItemsOK(L, c.items, c.tree)
      /\ Nested(V) /\ Told(V, OwnOf(L), c.tree, NULL)
  BY DEF Sane, TreeOK, Stacks, Knows
<1>2. n \in OwnOf(L) /\ DOMAIN V = OwnOf(L)
  BY <1>1, AroundOf
<1>3. /\ Stored(V, c.tree, u, n, at, G, M)
      /\ at \in Paths /\ Shaped(d) /\ (at \in DOMAIN d => Here(L))
      /\ \A i \in DOMAIN V : Len(V[i].hash) < Len(at)
  BY <1>1, StoreStored
<1>4. Touched(V, W, n, c.tree, G, M) /\ Marks(V, W, n, G)
  BY StoreTouched
<1> HIDE DEF V, W, n, at, d, u, G, M
<1>5. Told(W, OwnOf(L), u, at)
  BY <1>1, <1>2, <1>3, <1>4, StoredTold
<1>6. DOMAIN W = DOMAIN V /\ \A i \in DOMAIN V : W[i].hash = V[i].hash
  BY <1>4 DEF Touched
<1>7. Nested(W)
  BY <1>1, <1>6, NestedSame
<1> QED
  BY <1>2, <1>3, <1>5, <1>6, <1>7 DEF V, W, at, d, u

\* Storing a value that is no message keeps what is known.
LEMMA StoreKnown ==
    ASSUME NEW L, NEW tok, LevelsOK(L, tok), NEW c, Sane(c), Stacks(L, c), Knows(L, OwnOf(L), c),
           NEW f, Storing(L, c, f), NEW node, node.kind # "hash",
           NEW seen2, seen2 = Marked(c, f) \/ (seen2 = c.seenFields /\ ~Here(L)),
           NEW e, e.items = TargetItems(c, f), e.seenFields = seen2,
           e.seenOneof = TargetOneof(c, f),
           e.tree = Put(TargetTree(c, f), TargetPath(c, f), node)
    PROVE  Knows(L, OwnOf(L), e)
<1> DEFINE W == View(L, TargetItems(c, f), seen2, TargetOneof(c, f))
           at == TargetPath(c, f)
           d == TargetTree(c, f)
<1>1. Told(W, OwnOf(L), Put(d, at, node), at) /\ Nested(W)
  BY StoreTold
<1>2. W = ViewOf(L, e)
  BY DEF ViewOf
<1> HIDE DEF W, at, d
<1>3. at \notin HashesIn(Put(d, at, node))
  BY DEF HashesIn, Put
<1>4. Told(W, OwnOf(L), Put(d, at, node), NULL)
  BY <1>1, <1>3 DEF Told
<1> QED
  BY <1>1, <1>2, <1>4 DEF Knows, at, d

\* The last message has seen G besides, no members of oneofs.
Reseen(L, c, seen2, G) ==
    LET m == L[MapLevel(L)].type
    IN  /\ \A g \in FieldsOf(m) : g \in G => Traits[m][g].oneof = NoOneof
        /\ TracksSeen(m) => \A g \in Firm(m) :
               g \in Last(seen2) <=> g \in Last(c.seenFields) \/ g \in G

\* So does a change below which the hashes stay, with the fields seen that are there.
LEMMA SeenTold ==
    ASSUME NEW L, NEW tok, LevelsOK(L, tok), NEW c, Sane(c), Stacks(L, c), Knows(L, OwnOf(L), c),
           NEW it2, NEW seen2, Retop(L, c, it2, seen2, c.seenOneof), NEW G, Reseen(L, c, seen2, G),
           NEW u, Stored(ViewOf(L, c), c.tree, u, MapLevel(L), NULL, G, {}),
           HashesIn(u) \subseteq Paths,
           NEW e, e.items = it2, e.seenFields = seen2, e.seenOneof = c.seenOneof, e.tree = u
    PROVE  Knows(L, OwnOf(L), e)
<1> DEFINE V == ViewOf(L, c)
           W == View(L, it2, seen2, c.seenOneof)
           n == MapLevel(L)
           m == L[n].type
<1>1. Shaped(c.tree) /\ Nested(V) /\ Told(V, OwnOf(L), c.tree, NULL)
  BY DEF Sane, TreeOK, Knows
<1>2. /\ DOMAIN W = DOMAIN V /\ DOMAIN V = OwnOf(L) /\ n \in OwnOf(L)
      /\ \A i \in DOMAIN V : W[i].hash = V[i].hash
      /\ V[n].type = m
      /\ TracksSeen(m) => W[n].seen = Last(seen2)
  BY Retopped
<1>3. Touched(V, W, n, c.tree, G, {})
  BY SeenTouched DEF Reseen
<1>4. Marks(V, W, n, G)
  BY <1>2 DEF Reseen, Marks
<1>5. W = ViewOf(L, e)
  BY DEF ViewOf
<1> HIDE DEF V, W, n, m
<1>6. Stored(V, c.tree, u, n, NULL, G, {})
  BY DEF V, n
<1>7. Told(W, OwnOf(L), u, NULL)
  BY <1>1, <1>2, <1>3, <1>4, <1>6, StoredTold
<1>8. Nested(W)
  BY <1>1, <1>2, NestedSame
<1> QED
  BY <1>5, <1>7, <1>8 DEF Knows

\* No change of the tree is such a change.
LEMMA SameStored ==
    ASSUME NEW L, NEW tok, LevelsOK(L, tok), NEW c, Sane(c), Stacks(L, c), Nested(ViewOf(L, c)),
           NEW G, \A g \in Nat : g \in G => HasIn(c.tree, ViewOf(L, c)[MapLevel(L)].hash, g)
    PROVE  Stored(ViewOf(L, c), c.tree, c.tree, MapLevel(L), NULL, G, {})
<1> DEFINE V == ViewOf(L, c)
           n == MapLevel(L)
           b == Base(L, c.items)
<1>1. DOMAIN c.tree \subseteq Paths /\ ItemsOK(L, c.items, c.tree)
  BY HashTypes DEF Sane, TreeOK, Stacks
<1>2. Around(V, c.tree, b) /\ n \in DOMAIN V
  BY <1>1, AroundOf
<1> HIDE DEF V, n, b
<1>3. Nested(V) /\ \A g \in Nat : g \in G => HasIn(c.tree, V[n].hash, g)
  BY DEF V, n
<1>4. Stored(V, c.tree, c.tree, n, NULL, G, {})
  BY <1>1, <1>2, <1>3, StoredSame
<1> QED
  BY <1>4 DEF V, n

\* A callback that stores nothing: what it marks is there.
LEMMA SameKnown ==
    ASSUME NEW L, NEW tok, LevelsOK(L, tok), NEW c, Sane(c), Stacks(L, c), Knows(L, OwnOf(L), c),
           NEW it2, NEW seen2, Retop(L, c, it2, seen2, c.seenOneof), Reseen(L, c, seen2, {}),
           NEW e, e.items = it2, e.seenFields = seen2, e.seenOneof = c.seenOneof, e.tree = c.tree
    PROVE  Knows(L, OwnOf(L), e)
<1>1. Nested(ViewOf(L, c))
  BY DEF Knows
<1>2. Stored(ViewOf(L, c), c.tree, c.tree, MapLevel(L), NULL, {}, {})
  <2>1. \A g \in Nat : g \in {} => HasIn(c.tree, ViewOf(L, c)[MapLevel(L)].hash, g)
    OBVIOUS
  <2> QED
    BY <1>1, <2>1, SameStored
<1>3. HashesIn(c.tree) \subseteq Paths
  BY HashTypes DEF Sane, TreeOK
<1> QED
  BY <1>2, <1>3, SeenTold

\* One lemma per callback: the key of an entry,
LEMMA KeyKnown ==
    ASSUME NEW L, NEW tok, LevelsOK(L, tok), NEW c, Sane(c), Stacks(L, c), Knows(L, OwnOf(L), c),
           InEntry(L[Len(L)]), NEW k
    PROVE  Knows(L, OwnOf(L), OnKey(c, k))
<1> DEFINE e == OnKey(c, k)
           n == MapLevel(L)
           m == L[n].type
<1>1. IsObject(c)
  BY DEF Sane, IsCxt
<1>2. /\ e.items = c.items /\ e.seenOneof = c.seenOneof /\ e.tree = c.tree
      /\ e.seenFields = c.seenFields \/ e.seenFields = Marked(c, KeyField)
  <2> DEFINE seen2 == IF Traits[Mapper(c)][KeyField].string THEN c.seenFields
                      ELSE Marked(c, KeyField)
  <2>1. e = Object(c.mappers, c.items, SetLast(c.mapKeys, [key |-> k]), seen2, c.seenOneof,
                   c.track, c.tree, c.missing, c.crashed)
    BY <1>1, OnKeyIs, Zenon
  <2>2. seen2 = c.seenFields \/ seen2 = Marked(c, KeyField)
    OBVIOUS
  <2> HIDE DEF e, seen2
  <2> QED
    BY <2>1, <2>2 DEF Object
<1>3. KeyField \in Nat
  BY DEF KeyField
<1>4. /\ Len(Marked(c, KeyField)) = Len(c.seenFields)
      /\ \A j \in 1..(Len(c.seenFields) - 1) : Marked(c, KeyField)[j] = c.seenFields[j]
      /\ ~TracksSeen(m) => Marked(c, KeyField) = c.seenFields
      /\ c.track => Last(Marked(c, KeyField)) = Last(c.seenFields) \cup {KeyField}
      /\ ~c.track => Marked(c, KeyField) = c.seenFields
  BY <1>3, MarkedTop
<1>5. c.track => KeyField \in Borrowed(m)
  BY Tracker DEF Free
<1> HIDE DEF e, n, m
<1>6. Retop(L, c, e.items, e.seenFields, c.seenOneof)
  BY <1>2, <1>4 DEF Retop, m, n
<1>7. \A g \in Firm(m) : g \in Last(e.seenFields) <=> g \in Last(c.seenFields)
  BY <1>2, <1>4, <1>5 DEF Firm
<1>8. Reseen(L, c, e.seenFields, {})
  BY <1>7 DEF Reseen, m, n
<1> QED
  BY <1>2, <1>6, <1>8, SameKnown DEF e

\* a scalar,
LEMMA ScalarKnown ==
    ASSUME NEW L, LevelsOK(L, "FIELD"), NEW c, Sane(c), Stacks(L, c), Knows(L, OwnOf(L), c),
           ~OpenMap(L[Len(L)]), NEW f, f = L[Len(L)].field, InEntry(L[Len(L)]) => f = ValueField
    PROVE  Knows(L, OwnOf(L), OnScalar(c, f))
<1>1. IsObject(c)
  BY DEF Sane, IsCxt
<1>2. Storing(L, c, f)
  BY StoringField
<1>3. /\ OnScalar(c, f).items = TargetItems(c, f)
      /\ OnScalar(c, f).seenFields = Marked(c, f)
      /\ OnScalar(c, f).seenOneof = TargetOneof(c, f)
      /\ OnScalar(c, f).tree = Put(TargetTree(c, f), TargetPath(c, f), Scalar)
  BY <1>1, OnScalarIs DEF Object
<1>4. Scalar.kind # "hash"
  BY DEF Scalar, Leaf
<1> QED
  BY <1>2, <1>3, <1>4, StoreKnown

\* an enumeration number that is not known,
LEMMA EnumKnown ==
    ASSUME NEW L, LevelsOK(L, "FIELD"), NEW c, Sane(c), Stacks(L, c), Knows(L, OwnOf(L), c),
           ~OpenMap(L[Len(L)]), NEW f, f = L[Len(L)].field, InEntry(L[Len(L)]) => f = ValueField
    PROVE  Knows(L, OwnOf(L), OnUnknownEnum(c, f))
<1>1. IsObject(c)
  BY DEF Sane, IsCxt
<1>2. CASE Last(c.items) = NULL
  <2> DEFINE e == OnUnknownEnum(c, f)
  <2>1. e = [c EXCEPT !.crashed = TRUE]
    BY <1>2 DEF OnUnknownEnum
  <2>2. /\ e.items = c.items /\ e.seenFields = c.seenFields /\ e.seenOneof = c.seenOneof
        /\ e.tree = c.tree
    BY <1>1, <2>1 DEF IsObject, Object
  <2> HIDE DEF e
  <2>3. ViewOf(L, e) = ViewOf(L, c)
    BY <2>2 DEF ViewOf
  <2> QED
    BY <2>2, <2>3 DEF Knows, e
<1>3. CASE Last(c.items) # NULL /\ c.tree[Last(c.items)].kind = "array"
  <2>1. OnUnknownEnum(c, f) = StoreAt(c, f, Default)
    BY <1>3 DEF OnUnknownEnum
  <2>2. Storing(L, c, f)
    BY StoringField
  <2>3. ~Here(L)
    <3> SUFFICES ASSUME Here(L) PROVE FALSE
      OBVIOUS
    <3>1. ~Free(L) /\ ~OpenList(L[Len(L)])
      BY DEF Free, Here
    <3>2. c.items \in ItemSeq /\ ItemsOK(L, c.items, c.tree)
      BY DEF Sane, IsCxt, ItemSeq, Stacks
    <3>3. c.tree[c.items[Len(c.items)]].kind = "hash" /\ Last(c.items) = c.items[Len(c.items)]
      BY <3>1, <3>2, TopHash
    <3> QED
      BY <1>3, <3>3
  <2>4. /\ StoreAt(c, f, Default).items = TargetItems(c, f)
        /\ StoreAt(c, f, Default).seenFields = c.seenFields
        /\ StoreAt(c, f, Default).seenOneof = TargetOneof(c, f)
        /\ StoreAt(c, f, Default).tree = Put(TargetTree(c, f), TargetPath(c, f), Default)
    BY <1>1, StoreAtIs DEF Object
  <2>5. Default.kind # "hash"
    BY DEF Default, Leaf
  <2> QED
    BY <2>1, <2>2, <2>3, <2>4, <2>5, StoreKnown
<1>4. CASE Last(c.items) # NULL /\ c.tree[Last(c.items)].kind # "array"
  BY <1>4 DEF OnUnknownEnum
<1> QED
  BY <1>2, <1>3, <1>4
----------------------------------------------------------------------------
(* The callbacks for sequences.                                                    *)

\* The container of a repeated field, made by the first occurrence.
LEMMA ContainerStored ==
    ASSUME NEW L, NEW tok, LevelsOK(L, tok), NEW c, Sane(c), Stacks(L, c), Knows(L, OwnOf(L), c),
           Here(L), ~Free(L), NEW f \in Nat, NEW kind, kind # "hash"
    PROVE  /\ Stored(ViewOf(L, c), c.tree, ContainerTree(c, f, kind), MapLevel(L), NULL, {f}, {})
           /\ HashesIn(ContainerTree(c, f, kind)) \subseteq Paths
<1> DEFINE V == ViewOf(L, c)
           n == MapLevel(L)
           t == c.tree
           at == FieldPath(c, f)
           u == ContainerTree(c, f, kind)
<1>1. /\ Shaped(t) /\ DOMAIN t \subseteq Paths /\ Nested(V) /\ ItemsOK(L, c.items, t)
      /\ c.items \in ItemSeq
  BY HashTypes DEF Sane, TreeOK, Knows, Stacks, IsCxt, ItemSeq
<1>2. Around(V, t, Base(L, c.items)) /\ n \in DOMAIN V /\ Base(L, c.items) = V[n].hash
  <2>1. ~OpenList(L[n])
    BY DEF Here, Free, MapLevel
  <2> QED
    BY <1>1, <2>1, AroundOf
<1>3. Last(c.items) = V[n].hash
  BY <1>2 DEF Base, Last
<1>4. at = Child(V[n].hash, "field", f) /\ at \in Paths
  <2>1. at = Child(V[n].hash, "field", f)
    BY <1>3 DEF FieldPath
  <2>2. V[n].hash \in Paths
    BY <1>2 DEF Around
  <2> QED
    BY <2>1, <2>2, FieldChild
<1> HIDE DEF V, n, t, at
<1>5. CASE at \in DOMAIN t
  <2>1. u = t
    BY <1>5 DEF ContainerTree, at, t
  <2>2. \A g \in Nat : g \in {f} => HasIn(t, V[n].hash, g)
    BY <1>4, <1>5 DEF HasIn
  <2>3. Stored(V, t, t, n, NULL, {f}, {})
    BY <1>1, <2>2, SameStored DEF V, t, n
  <2>4. HashesIn(t) \subseteq Paths
    BY <1>1 DEF HashesIn
  <2> HIDE DEF u
  <2>5. Stored(V, t, u, n, NULL, {f}, {}) /\ HashesIn(u) \subseteq Paths
    BY <2>1, <2>3, <2>4
  <2> QED
    BY <2>5 DEF V, t, u, n
<1>6. CASE at \notin DOMAIN t
  <2> DEFINE node == Leaf(kind)
  <2>1. u = Put(t, at, node)
    BY <1>6 DEF ContainerTree, at, t
  <2>2. node.kind # "hash"
    BY DEF Leaf
  <2> HIDE DEF u, node
  <2>3. Stored(V, t, Put(t, at, node), n, at, {f}, {})
    <3>1. {} \subseteq {f}
      OBVIOUS
    <3>2. Around(V, t, V[n].hash)
      BY <1>2
    <3> QED
      BY <1>1, <1>2, <1>4, <3>1, <3>2, StoredHere
  <2>4. at \notin HashesIn(u) /\ HashesIn(u) \subseteq Paths
    BY <1>1, <1>4, <2>1, <2>2 DEF HashesIn, Put
  <2>5. \A i \in DOMAIN V : V[i].hash # NULL
    BY <1>2, NullIs DEF Around
  <2>6. Stored(V, t, u, n, at, {f}, {})
    BY <2>1, <2>3
  <2>7. Stored(V, t, u, n, NULL, {f}, {})
    <3>1. \A p \in HashesIn(u) : p # NULL /\ p # V[n].hash => Same(V, t, u, p)
      BY <2>4, <2>6 DEF Stored
    <3> QED
      BY <2>5, <2>6, <3>1 DEF Stored
  <2> QED
    BY <2>4, <2>7 DEF V, t, u, n
<1> QED
  BY <1>5, <1>6

\* and a list or a map that is opened.
LEMMA ContainerKnown ==
    ASSUME NEW L, NEW tok, LevelsOK(L, tok), NEW c, Sane(c), Stacks(L, c), Knows(L, OwnOf(L), c),
           Here(L), ~Free(L), NEW f \in FieldsOf(L[Len(L)].type), Schema[L[Len(L)].type][f].repeated,
           NEW kind, kind # "hash",
           NEW e, e.items = c.items, e.seenFields = Marked(c, f), e.seenOneof = c.seenOneof,
           e.tree = ContainerTree(c, f, kind)
    PROVE  Knows(L, OwnOf(L), e)
<1> DEFINE n == MapLevel(L)
           m == L[n].type
<1>1. m \in Messages /\ m = L[Len(L)].type
  BY HostIs, Tracker
<1>2. f \in Nat /\ Traits[m][f].oneof = NoOneof
  <2>1. f \in Nat
    BY <1>1, FieldsAre
  <2>2. Traits[m][f].label = "repeated"
    BY <1>1, TraitsAssumption
  <2> QED
    BY <1>1, <2>1, <2>2, TraitsAssumption
<1>3. /\ Len(Marked(c, f)) = Len(c.seenFields)
      /\ \A j \in 1..(Len(c.seenFields) - 1) : Marked(c, f)[j] = c.seenFields[j]
      /\ ~TracksSeen(m) => Marked(c, f) = c.seenFields
      /\ c.track => Last(Marked(c, f)) = Last(c.seenFields) \cup {f}
  BY <1>2, MarkedTop
<1>4. c.track <=> TracksSeen(m)
  BY Tracker
<1>5. Stored(ViewOf(L, c), c.tree, e.tree, n, NULL, {f}, {}) /\ HashesIn(e.tree) \subseteq Paths
  BY <1>2, ContainerStored
<1> HIDE DEF n, m
<1>6. Retop(L, c, e.items, e.seenFields, c.seenOneof)
  BY <1>3 DEF Retop, m, n
<1>7. Reseen(L, c, e.seenFields, {f})
  BY <1>2, <1>3, <1>4 DEF Reseen, m, n
<1>8. Stored(ViewOf(L, c), c.tree, e.tree, MapLevel(L), NULL, {f}, {})
  BY <1>5 DEF n
<1> QED
  BY <1>5, <1>6, <1>7, <1>8, SeenTold

\* A field or an entry that is opened or closed leaves what is known as it is.
LEMMA ViewSame ==
    ASSUME NEW S, NEW tok, NEW B, NEW tok2, NEW its, NEW it, NEW seen, NEW one,
           Grows(S, tok, B, tok2, its, it, seen, seen, one, one), ~Adds(S, B)
    PROVE  OwnOf(B) = OwnOf(S) /\ View(B, it, seen, one) = View(S, its, seen, one)
<1> DEFINE V == View(S, its, seen, one)
           W == View(B, it, seen, one)
<1>1. DOMAIN V = OwnOf(S) /\ DOMAIN W = OwnOf(S) /\ \A i \in OwnOf(S) : W[i] = V[i]
  BY ViewGrown
<1>2. V = [i \in OwnOf(S) |-> V[i]] /\ W = [i \in OwnOf(B) |-> W[i]] /\ DOMAIN W = OwnOf(B)
  BY DEF View
<1> HIDE DEF V, W
<1>3. OwnOf(B) = OwnOf(S) /\ V = W
  BY <1>1, <1>2
<1> QED
  BY <1>3 DEF V, W

\* What is known does not depend on the lists, maps and entries that are open.
LEMMA KnownGrown ==
    ASSUME NEW S, NEW tok, LevelsOK(S, tok), NEW B, NEW tok2, LevelsOK(B, tok2), Grown(S, B), ~Adds(S, B),
           NEW c, Len(c.items) = HeightOf(S, Len(S)),
           Len(c.seenFields) \in Nat, FieldsOK(S, c.seenFields),
           Len(c.seenOneof) \in Nat, OneofsOK(S, c.seenOneof),
           NEW d, \A j \in 1..Len(c.items) : d.items[j] = c.items[j], d.seenFields = c.seenFields,
           d.seenOneof = c.seenOneof, d.tree = c.tree
    PROVE  OwnOf(B) = OwnOf(S) /\ \A D : Knows(S, D, c) <=> Knows(B, D, d)
<1>1. Grows(S, tok, B, tok2, c.items, d.items, c.seenFields, c.seenFields, c.seenOneof, c.seenOneof)
  BY DEF Grows
<1>2. OwnOf(B) = OwnOf(S) /\ View(B, d.items, c.seenFields, c.seenOneof) = ViewOf(S, c)
  BY <1>1, ViewSame DEF ViewOf
<1>3. ViewOf(B, d) = ViewOf(S, c)
  BY <1>2 DEF ViewOf
<1>4. \A D : Knows(S, D, c) <=> Knows(B, D, d)
  BY <1>3, Zenon DEF Knows
<1> QED
  BY <1>2, <1>4

\* Opening a repeated field keeps what is known,
LEMMA OpenKnown ==
    ASSUME NEW S, NEW tok, LevelsOK(S, tok), NEW B, NEW tok2, LevelsOK(B, tok2), Opened(S, B),
           NEW c, Sane(c), Stacks(S, c), Knows(S, OwnOf(S), c), NEW f, f = B[Len(S)].field,
           NEW kind, kind # "hash",
           NEW d, \A j \in 1..Len(c.items) : d.items[j] = c.items[j],
           d.seenFields = Marked(c, f), d.seenOneof = c.seenOneof, d.tree = ContainerTree(c, f, kind)
    PROVE  Knows(B, OwnOf(B), d)
<1> DEFINE n == Len(S)
           e == Object(c.mappers, c.items, c.mapKeys, Marked(c, f), c.seenOneof, c.track,
                       ContainerTree(c, f, kind), c.missing, c.crashed)
<1>1. Here(S) /\ ~Free(S)
  BY DEF Opened, Here, Free
<1>2. f \in FieldsOf(S[n].type) /\ Schema[S[n].type][f].repeated /\ f \in Nat
  <2>1. n \in DOMAIN B /\ n \in DOMAIN S /\ S[n].type \in Messages
    <3>1. Len(B) = Len(S) /\ Len(B) \in Nat \ {0} /\ DOMAIN B = 1..Len(B) /\ DOMAIN S = 1..Len(S)
      BY LevelIs DEF Opened
    <3> QED
      BY <3>1, LevelIs, LevelsAre
  <2>2. Entered(B[n]) /\ B[n].seq # "none" /\ B[n].type = S[n].type
    BY <2>1, LevelIs DEF Opened
  <2>3. f \in FieldsOf(S[n].type) /\ Schema[S[n].type][f].repeated
    BY <2>2 DEF Entered
  <2> QED
    BY <2>1, <2>3, FieldsAre
<1>3. /\ e.items = c.items /\ e.seenFields = Marked(c, f) /\ e.seenOneof = c.seenOneof
      /\ e.tree = ContainerTree(c, f, kind)
  BY DEF Object
<1> HIDE DEF e
<1>4. Knows(S, OwnOf(S), e)
  BY <1>1, <1>2, <1>3, ContainerKnown
<1>5. Grown(S, B) /\ ~Adds(S, B)
  <2>1. Len(S) \in Nat /\ Len(B) = Len(S)
    BY LevelIs DEF Opened
  <2> QED
    BY <2>1 DEF Grown, Adds, Deeper
<1>6. /\ Len(e.items) = HeightOf(S, Len(S))
      /\ Len(e.seenOneof) \in Nat /\ OneofsOK(S, e.seenOneof)
  BY <1>3, LenProperties DEF Stacks, ItemsOK, SeenOK, Sane, IsCxt
<1>7. Len(e.seenFields) \in Nat /\ FieldsOK(S, e.seenFields)
  <2>1. Len(Marked(c, f)) = Len(c.seenFields)
    BY <1>2, MarkedTop
  <2> QED
    BY <1>3, <2>1, LenProperties DEF Stacks, SeenOK, FieldsOK, Sane, IsCxt
<1>8. OwnOf(B) = OwnOf(S) /\ \A D : Knows(S, D, e) <=> Knows(B, D, d)
  BY <1>3, <1>5, <1>6, <1>7, KnownGrown
<1> QED
  BY <1>4, <1>8

\* if it is a list
LEMMA StartListKnown ==
    ASSUME NEW S, NEW tok, LevelsOK(S, tok), NEW B, NEW tok2, LevelsOK(B, tok2), Opened(S, B),
           NEW c, Sane(c), Stacks(S, c), Knows(S, OwnOf(S), c)
    PROVE  Knows(B, OwnOf(B), OnStartSequence(c, B[Len(S)].field))
<1> DEFINE f == B[Len(S)].field
           d == OnStartSequence(c, f)
<1>1. IsObject(c) /\ c.items \in ItemSeq
  BY DEF Sane, IsCxt, ItemSeq
<1>2. d = Object(c.mappers, Append(c.items, FieldPath(c, f)), c.mapKeys, Marked(c, f),
                 c.seenOneof, c.track, ContainerTree(c, f, "array"), c.missing, c.crashed)
  BY <1>1, ContainerIs DEF OnStartSequence
<1> HIDE DEF d, f
<1>3. /\ d.items = Append(c.items, FieldPath(c, f)) /\ d.seenFields = Marked(c, f)
      /\ d.seenOneof = c.seenOneof /\ d.tree = ContainerTree(c, f, "array")
  BY <1>2 DEF Object
<1>4. FieldPath(c, f) \in Paths
  BY OpenStacks DEF f
<1>5. \A j \in 1..Len(c.items) : d.items[j] = c.items[j]
  BY <1>1, <1>3, <1>4, ItemStack
<1>6. Knows(B, OwnOf(B), d)
  BY <1>3, <1>5, OpenKnown DEF f
<1> QED
  BY <1>6 DEF d, f

\* or a map,
LEMMA StartMapKnown ==
    ASSUME NEW S, NEW tok, LevelsOK(S, tok), NEW B, NEW tok2, LevelsOK(B, tok2), Opened(S, B),
           NEW c, Sane(c), Stacks(S, c), Knows(S, OwnOf(S), c)
    PROVE  Knows(B, OwnOf(B), OnStartMap(c, B[Len(S)].field))
<1> DEFINE f == B[Len(S)].field
           d == OnStartMap(c, f)
           at == FieldPath(c, f)
<1>1. IsObject(c) /\ c.items \in ItemSeq
  BY DEF Sane, IsCxt, ItemSeq
<1>2. d = Object(Append(c.mappers, Schema[Mapper(c)][f].message), Append(Append(c.items, at), NULL),
                 Append(c.mapKeys, NoKey), Marked(c, f), c.seenOneof,
                 TracksSeen(Schema[Mapper(c)][f].message), ContainerTree(c, f, "map"),
                 c.missing, c.crashed)
  BY <1>1, OnStartMapIs, Zenon
<1>3. at \in Paths
  BY OpenStacks
<1> HIDE DEF d, f, at
<1>4. /\ d.items = Append(Append(c.items, at), NULL) /\ d.seenFields = Marked(c, f)
      /\ d.seenOneof = c.seenOneof /\ d.tree = ContainerTree(c, f, "map")
  BY <1>2 DEF Object
<1>5. \A j \in 1..Len(c.items) : d.items[j] = c.items[j]
  <2>1. /\ Append(c.items, at) \in ItemSeq /\ Len(Append(c.items, at)) = Len(c.items) + 1
        /\ Len(c.items) \in Nat /\ \A j \in 1..Len(c.items) : Append(c.items, at)[j] = c.items[j]
    BY <1>1, <1>3, ItemStack
  <2>2. \A j \in 1..Len(Append(c.items, at)) :
           Append(Append(c.items, at), NULL)[j] = Append(c.items, at)[j]
    BY <2>1, ItemStack
  <2> QED
    BY <1>4, <2>1, <2>2
<1>6. Knows(B, OwnOf(B), d)
  BY <1>4, <1>5, OpenKnown DEF f
<1> QED
  BY <1>6 DEF d, f

\* What ends leaves what is known to the level below.
LEMMA CloseKnown ==
    ASSUME NEW S, NEW tok, LevelsOK(S, tok), NEW B, NEW tok2, LevelsOK(B, tok2), Opened(S, B),
           NEW c, Knows(B, OwnOf(B), c), NEW d, Sane(d), Stacks(S, d),
           \A j \in 1..Len(d.items) : d.items[j] = c.items[j], d.seenFields = c.seenFields,
           d.seenOneof = c.seenOneof, d.tree = c.tree
    PROVE  Knows(S, OwnOf(S), d)
<1>1. Grown(S, B) /\ ~Adds(S, B)
  <2>1. Len(S) \in Nat /\ Len(B) = Len(S)
    BY LevelIs DEF Opened
  <2> QED
    BY <2>1 DEF Grown, Adds, Deeper
<1>2. /\ Len(d.items) = HeightOf(S, Len(S))
      /\ Len(d.seenFields) \in Nat /\ FieldsOK(S, d.seenFields)
      /\ Len(d.seenOneof) \in Nat /\ OneofsOK(S, d.seenOneof)
  BY LenProperties DEF Stacks, ItemsOK, SeenOK, Sane, IsCxt
<1>3. c.seenFields = d.seenFields /\ c.seenOneof = d.seenOneof /\ c.tree = d.tree
      /\ \A j \in 1..Len(d.items) : c.items[j] = d.items[j]
  OBVIOUS
<1>4. OwnOf(B) = OwnOf(S) /\ \A D : Knows(S, D, d) <=> Knows(B, D, c)
  BY <1>1, <1>2, <1>3, KnownGrown
<1> QED
  BY <1>4

\* and so does closing the list
LEMMA EndListKnown ==
    ASSUME NEW S, NEW tok, LevelsOK(S, tok), NEW B, NEW tok2, LevelsOK(B, tok2), Opened(S, B),
           OpenList(B[Len(S)]), NEW c, Sane(c), Stacks(B, c), Knows(B, OwnOf(B), c)
    PROVE  Knows(S, OwnOf(S), OnEndSequence(c))
<1> DEFINE d == OnEndSequence(c)
<1>1. IsObject(c) /\ c.items \in ItemSeq
  BY DEF Sane, IsCxt, ItemSeq
<1>2. Sane(d) /\ Stacks(S, d)
  BY EndListStacks
<1>3. d = Object(c.mappers, Front(c.items), c.mapKeys, c.seenFields, c.seenOneof, c.track,
                 c.tree, c.missing, c.crashed)
  BY <1>1, OnEndSequenceIs
<1> HIDE DEF d
<1>4. /\ d.items = Front(c.items) /\ d.seenFields = c.seenFields
      /\ d.seenOneof = c.seenOneof /\ d.tree = c.tree
  BY <1>3 DEF Object
<1>5. c.items # <<>>
  BY <1>1, TopArray, LevelIs DEF Sane, TreeOK, Stacks, Opened
<1>6. \A j \in 1..Len(d.items) : d.items[j] = c.items[j]
  BY <1>1, <1>4, <1>5, ItemStack, ZenonT(30)
<1>7. Knows(S, OwnOf(S), d)
  BY <1>2, <1>4, <1>6, CloseKnown
<1> QED
  BY <1>7 DEF d

\* or the map.
LEMMA EndMapKnown ==
    ASSUME NEW S, NEW tok, LevelsOK(S, tok), NEW B, NEW tok2, LevelsOK(B, tok2), Opened(S, B),
           OpenMap(B[Len(S)]), NEW c, Sane(c), Stacks(B, c), Knows(B, OwnOf(B), c),
           Last(c.items) = NULL
    PROVE  Knows(S, OwnOf(S), OnEndMap(c))
<1> DEFINE d == OnEndMap(c)
<1>1. IsObject(c) /\ c.items \in ItemSeq
  BY DEF Sane, IsCxt, ItemSeq
<1>2. Sane(d) /\ Stacks(S, d)
  BY EndMapStacks
<1>3. d = Object(Front(c.mappers), Front(Front(c.items)), Front(c.mapKeys), c.seenFields,
                 c.seenOneof, TracksSeen(Last(Front(c.mappers))), c.tree, c.missing, c.crashed)
  BY <1>1, OnEndMapIs
<1> HIDE DEF d
<1>4. /\ d.items = Front(Front(c.items)) /\ d.seenFields = c.seenFields
      /\ d.seenOneof = c.seenOneof /\ d.tree = c.tree
  BY <1>3 DEF Object
<1>5. c.items # <<>> /\ Front(c.items) # <<>>
  <2>1. Len(B) = Len(S) /\ Free(B) /\ ItemsOK(B, c.items, c.tree) /\ Shaped(c.tree)
    BY DEF Sane, TreeOK, Stacks, Opened, Free
  <2>2. Len(c.items) \in Nat /\ Len(c.items) > 2
    BY <1>1, <2>1, TopMap
  <2>3. c.items # <<>>
    BY <2>2
  <2>4. Len(Front(c.items)) = Len(c.items) - 1 /\ Front(c.items) \in ItemSeq
    BY <1>1, <2>3, ItemStack
  <2> QED
    BY <2>2, <2>3, <2>4
<1>6. \A j \in 1..Len(d.items) : d.items[j] = c.items[j]
  <2>1. /\ Front(c.items) \in ItemSeq /\ Len(Front(c.items)) = Len(c.items) - 1
        /\ Len(c.items) \in Nat
        /\ \A j \in 1..(Len(c.items) - 1) : Front(c.items)[j] = c.items[j]
    BY <1>1, <1>5, ItemStack
  <2>2. /\ Len(Front(Front(c.items))) = Len(Front(c.items)) - 1
        /\ \A j \in 1..(Len(Front(c.items)) - 1) : Front(Front(c.items))[j] = Front(c.items)[j]
    BY <1>5, <2>1, ItemStack
  <2> QED
    BY <1>4, <2>1, <2>2
<1>7. Knows(S, OwnOf(S), d)
  BY <1>2, <1>4, <1>6, CloseKnown
<1> QED
  BY <1>7 DEF d

----------------------------------------------------------------------------
(* The entries of maps.                                                            *)

\* A value becomes that of a key with all the hashes in it.
LEMMA MoveHashes ==
    ASSUME NEW t, IsTree(t), NEW m \in Paths, NEW k \in Keys
    PROVE  LET a == Value(m)
               b == Child(m, "key", k)
               u == Move(t, a, b)
           IN  /\ \A p \in HashesIn(t) : ~IsPrefix(a, p) /\ ~IsPrefix(b, p) =>
                     p \in HashesIn(u) /\ Copied(t, u, p, p)
               /\ HashesIn(u) \subseteq Paths
               /\ \A p \in HashesIn(u) : \E q \in HashesIn(t) :
                     Copied(t, u, q, p) /\ (q = p \/ IsPrefix(a, q))
<1> DEFINE a == Value(m)
           b == Child(m, "key", k)
           u == Move(t, a, b)
<1>1. /\ a \in Paths /\ b \in Paths /\ a # <<>> /\ b # <<>> /\ Len(a) = Len(b)
      /\ Last(a) = <<"value", 0>> /\ Last(b) = <<"key", k>>
  <2>1. <<"key", k>> \in Steps
    BY StepsAre
  <2> QED
    BY <2>1, ChildIs, ValueIs
<1>2. \A p \in DOMAIN t : p \in Paths
  BY DEF IsTree
<1> HIDE DEF a, b
<1>3. /\ \A p \in DOMAIN t : ~IsPrefix(a, p) /\ ~IsPrefix(b, p) => p \in DOMAIN u /\ u[p] = t[p]
      /\ \A p \in DOMAIN t : IsPrefix(a, p) =>
            Moved(a, b, p) \in DOMAIN u /\ u[Moved(a, b, p)] = t[p]
      /\ \A x \in DOMAIN u :
            \/ x \in DOMAIN t /\ ~IsPrefix(a, x) /\ ~IsPrefix(b, x)
            \/ \E p \in DOMAIN t : IsPrefix(a, p) /\ x = Moved(a, b, p)
  BY <1>1, MoveIs
<1> HIDE DEF u
<1>4. \A p \in DOMAIN u : p \in Paths
  BY <1>1, <1>2, <1>3, MovedIs
<1>5. ASSUME NEW p \in Paths, NEW f \in Nat
      PROVE  LET x == Child(p, "field", f)
             IN  /\ x \in Paths
                 /\ IsPrefix(a, x) <=> IsPrefix(a, p)
                 /\ IsPrefix(b, x) <=> IsPrefix(b, p)
  <2>1. /\ Child(p, "field", f) \in Paths /\ <<"field", f>> \in Steps
        /\ Last(Child(p, "field", f)) = <<"field", f>>
    BY FieldChild
  <2>2. Child(p, "field", f) # a /\ Child(p, "field", f) # b
    BY <1>1, <2>1
  <2> QED
    BY <1>1, <2>1, <2>2, PrefixOfChild
<1>6. ASSUME NEW p \in DOMAIN t, ~IsPrefix(a, p), ~IsPrefix(b, p), NEW f \in Nat
      PROVE  HasIn(u, p, f) <=> HasIn(t, p, f)
  <2> DEFINE x == Child(p, "field", f)
  <2>1. x \in Paths /\ ~IsPrefix(a, x) /\ ~IsPrefix(b, x)
    BY <1>2, <1>5, <1>6
  <2> HIDE DEF x
  <2>2. x \in DOMAIN t => x \in DOMAIN u
    BY <1>3, <2>1
  <2>3. ASSUME x \in DOMAIN u
        PROVE  x \in DOMAIN t
    <3>1. CASE \E r \in DOMAIN t : IsPrefix(a, r) /\ x = Moved(a, b, r)
      <4>1. PICK r \in DOMAIN t : IsPrefix(a, r) /\ x = Moved(a, b, r)
        BY <3>1
      <4>2. IsPrefix(b, x)
        BY <1>1, <1>2, <4>1, MovedIs
      <4> QED
        BY <2>1, <4>2
    <3> QED
      BY <1>3, <2>3, <3>1
  <2> QED
    BY <2>2, <2>3 DEF HasIn, x
<1>7. ASSUME NEW p \in HashesIn(t), ~IsPrefix(a, p), ~IsPrefix(b, p)
      PROVE  p \in HashesIn(u) /\ Copied(t, u, p, p)
  <2>1. p \in DOMAIN t /\ p \in HashesIn(t)
    BY DEF HashesIn
  <2>2. u[p] = t[p] /\ p \in HashesIn(u)
    BY <1>3, <1>7, <2>1 DEF HashesIn
  <2>3. \A f \in Nat : HasIn(u, p, f) <=> HasIn(t, p, f)
    BY <1>6, <1>7, <2>1
  <2> QED
    BY <2>1, <2>2, <2>3 DEF Copied
<1>8. ASSUME NEW q \in DOMAIN t, IsPrefix(a, q), NEW f \in Nat
      PROVE  HasIn(u, Moved(a, b, q), f) <=> HasIn(t, q, f)
  <2> DEFINE p == Moved(a, b, q)
             x == Child(p, "field", f)
             y == Child(q, "field", f)
  <2>1. q \in Paths /\ p \in Paths /\ IsPrefix(b, p)
    BY <1>1, <1>2, <1>8, MovedIs
  <2>2. y \in Paths /\ IsPrefix(a, y) /\ y # a /\ Front(y) = q /\ Last(y) = <<"field", f>>
    <3>1. y \in Paths /\ IsPrefix(a, y)
      BY <1>5, <1>8, <2>1
    <3>2. Front(y) = q /\ Last(y) = <<"field", f>>
      BY <2>1, FieldChild
    <3> QED
      BY <1>1, <3>1, <3>2
  <2>3. x \in Paths /\ IsPrefix(b, x)
    BY <1>5, <2>1
  <2>4. Moved(a, b, y) = x
    <3>1. Moved(a, b, y) # <<>> /\ Front(Moved(a, b, y)) = p /\ Last(Moved(a, b, y)) = Last(y)
      BY <1>1, <2>2, MovedBelow
    <3>2. Moved(a, b, y) \in Paths
      BY <1>1, <2>2, MovedIs
    <3>3. Moved(a, b, y) = Child(Front(Moved(a, b, y)), Last(Moved(a, b, y))[1], Last(Moved(a, b, y))[2])
      BY <3>1, <3>2, IsChild
    <3> HIDE DEF p, y
    <3> QED
      BY <2>2, <3>1, <3>3 DEF x
  <2> HIDE DEF p, x, y
  <2>5. y \in DOMAIN t => x \in DOMAIN u
    BY <1>3, <2>2, <2>4
  <2>6. ASSUME x \in DOMAIN u
        PROVE  y \in DOMAIN t
    <3>1. PICK r \in DOMAIN t : IsPrefix(a, r) /\ x = Moved(a, b, r)
      BY <1>3, <2>3, <2>6
    <3>2. Moved(b, a, x) = r
      BY <1>1, <1>2, <3>1, MovedBack
    <3>3. Moved(b, a, x) = y
      BY <1>1, <2>2, <2>4, MovedBack
    <3> QED
      BY <3>1, <3>2, <3>3
  <2> QED
    BY <2>5, <2>6 DEF HasIn, p, x, y
<1>9. ASSUME NEW p \in HashesIn(u)
      PROVE  \E q \in HashesIn(t) : Copied(t, u, q, p) /\ (q = p \/ IsPrefix(a, q))
  <2>1. p \in DOMAIN u /\ u[p].kind = "hash"
    BY DEF HashesIn
  <2>2. CASE p \in DOMAIN t /\ ~IsPrefix(a, p) /\ ~IsPrefix(b, p)
    <3>1. p \in HashesIn(t)
      BY <1>3, <2>1, <2>2 DEF HashesIn
    <3> QED
      BY <1>7, <2>2, <3>1
  <2>3. CASE \E q \in DOMAIN t : IsPrefix(a, q) /\ p = Moved(a, b, q)
    <3>1. PICK q \in DOMAIN t : IsPrefix(a, q) /\ p = Moved(a, b, q)
      BY <2>3
    <3>2. u[p] = t[q] /\ q \in HashesIn(t)
      BY <1>3, <2>1, <3>1 DEF HashesIn
    <3>3. \A f \in Nat : HasIn(u, p, f) <=> HasIn(t, q, f)
      BY <1>8, <3>1
    <3> QED
      BY <3>1, <3>2, <3>3 DEF Copied
  <2> QED
    BY <1>3, <2>1, <2>2, <2>3
<1>10. HashesIn(u) \subseteq Paths
  BY <1>4 DEF HashesIn
<1> QED
  BY <1>7, <1>9, <1>10 DEF a, b, u

\* A change that copies every hash is one that leaves the open messages as they are.
LEMMA StoredAll ==
    ASSUME NEW V, NEW t, NEW b, Around(V, t, b), Nested(V), NEW n \in DOMAIN V, NEW u,
           \A i \in DOMAIN V : V[i].hash \in HashesIn(u) /\ Copied(t, u, V[i].hash, V[i].hash),
           \A p \in HashesIn(u) : Same(V, t, u, p)
    PROVE  Stored(V, t, u, n, NULL, {}, {})
<1>1. \A i \in DOMAIN V : /\ V[i].hash \in HashesIn(t) /\ V[i].hash # NULL
                          /\ t[V[i].hash].type = V[i].type /\ V[i].type \in Messages
  BY NullIs DEF Around
<1>2. \A i \in DOMAIN V : i # n => V[i].hash # V[n].hash
  BY NestedDiffer
<1>3. \A i \in DOMAIN V : u[V[i].hash] = t[V[i].hash]
  BY DEF Copied
<1>4. \A g \in Nat : HasIn(u, V[n].hash, g) <=> HasIn(t, V[n].hash, g)
  BY DEF Copied
<1>5. \A i \in DOMAIN V : V[i].hash \in HashesIn(u)
  OBVIOUS
<1>6. \A g \in Nat : HasIn(u, V[n].hash, g) <=> g \in {} \/ (HasIn(t, V[n].hash, g) /\ g \notin {})
  BY <1>4
<1> QED
  BY <1>1, <1>2, <1>3, <1>5, <1>6, Zenon DEF Stored

\* The end of an entry: its value becomes that of its key, or is dropped without one.
LEMMA DropStored ==
    ASSUME NEW V, NEW t, DOMAIN t \subseteq Paths, NEW b, Around(V, t, b), Nested(V),
           NEW n \in DOMAIN V
    PROVE  LET u == Drop(t, Value(b))
           IN  Stored(V, t, u, n, NULL, {}, {}) /\ HashesIn(u) \subseteq Paths
<1> DEFINE a == Value(b)
           u == Drop(t, a)
<1>1. b \in Paths
  BY DEF Around
<1>2. /\ a \in Paths /\ Last(a) = <<"value", 0>>
      /\ \A q \in Paths : IsPrefix(q, b) => ~IsPrefix(a, q)
  BY <1>1, ValueIs
<1> HIDE DEF a
<1>3. /\ \A p \in HashesIn(u) : p \in HashesIn(t) /\ u[p] = t[p]
      /\ \A p \in HashesIn(t) : ~IsPrefix(a, p) => p \in HashesIn(u) /\ u[p] = t[p]
      /\ \A p \in Paths, f \in Nat : ~IsPrefix(a, p) =>
            (HasIn(u, p, f) <=> HasIn(t, p, f) /\ a # Child(p, "field", f))
  BY <1>2, DropHashes
<1>4. \A p \in HashesIn(u) : p \in Paths /\ ~IsPrefix(a, p)
  <2>1. \A p \in HashesIn(u) : p \in DOMAIN u
    BY DEF HashesIn
  <2>2. \A p \in HashesIn(u) : p \in DOMAIN t
    BY <1>3 DEF HashesIn
  <2> QED
    BY <2>1, <2>2, DropIs
<1> HIDE DEF u
<1>5. ASSUME NEW p \in HashesIn(u)
      PROVE  Copied(t, u, p, p)
  <2>1. ASSUME NEW f \in Nat
        PROVE  a # Child(p, "field", f)
    <3>1. p \in Paths
      BY <1>4
    <3>2. Last(Child(p, "field", f)) = <<"field", f>>
      BY <3>1, FieldChild
    <3> QED
      BY <1>2, <3>2
  <2>2. \A f \in Nat : HasIn(u, p, f) <=> HasIn(t, p, f)
    BY <1>3, <1>4, <2>1
  <2> QED
    BY <1>3, <2>2 DEF Copied
<1>6. \A i \in DOMAIN V : V[i].hash \in HashesIn(u) /\ Copied(t, u, V[i].hash, V[i].hash)
  <2>1. \A i \in DOMAIN V : V[i].hash \in HashesIn(t) /\ ~IsPrefix(a, V[i].hash)
    BY <1>2 DEF Around
  <2> QED
    BY <1>3, <1>5, <2>1
<1>7. \A p \in HashesIn(u) : Same(V, t, u, p)
  BY <1>3, <1>5 DEF Same
<1>8. Stored(V, t, u, n, NULL, {}, {})
  BY <1>6, <1>7, StoredAll
<1> QED
  BY <1>4, <1>8 DEF a, u

\* Moving the value of an entry under its key is one,
LEMMA MoveStored ==
    ASSUME NEW V, NEW t, IsTree(t), NEW b, Around(V, t, b), Nested(V), NEW n \in DOMAIN V,
           NEW v, v = t \/ \E node \in Nodes : node.kind # "hash" /\ v = Put(t, Value(b), node),
           NEW k \in Keys
    PROVE  LET u == Move(v, Value(b), Child(b, "key", k))
           IN  Stored(V, t, u, n, NULL, {}, {}) /\ HashesIn(u) \subseteq Paths
<1> DEFINE a == Value(b)
           to == Child(b, "key", k)
           u == Move(v, a, to)
<1>1. b \in Paths /\ DOMAIN t \subseteq Paths
  BY DEF Around, IsTree
<1>2. /\ a \in Paths /\ Last(a) = <<"value", 0>>
      /\ \A q \in Paths : IsPrefix(q, b) => ~IsPrefix(a, q) /\ ~IsPrefix(to, q)
  <2>1. <<"key", k>> \in Steps
    BY StepsAre
  <2>2. to \in Paths /\ Len(to) = Len(b) + 1 /\ Len(b) \in Nat
    BY <1>1, <2>1, ChildIs
  <2>3. \A q \in Paths : IsPrefix(q, b) => ~IsPrefix(to, q)
    BY <1>1, <2>2, PrefixIs
  <2> QED
    BY <1>1, <2>3, ValueIs
<1>3. ASSUME NEW p \in Paths, NEW f \in Nat
      PROVE  a # Child(p, "field", f)
  <2>1. Last(Child(p, "field", f)) = <<"field", f>>
    BY FieldChild
  <2> HIDE DEF a
  <2> QED
    BY <1>2, <2>1
<1> HIDE DEF a
<1>4. /\ IsTree(v)
      /\ \A p \in HashesIn(v) : p \in HashesIn(t) /\ Copied(t, v, p, p)
      /\ \A p \in HashesIn(t) : ~IsPrefix(a, p) => p \in HashesIn(v)
  <2>1. CASE v = t
    <3>1. \A p \in HashesIn(t) : Copied(t, t, p, p)
      BY DEF Copied
    <3> QED
      BY <2>1, <3>1
  <2>2. ASSUME NEW node \in Nodes, node.kind # "hash", v = Put(t, a, node)
        PROVE  /\ IsTree(v)
               /\ \A p \in HashesIn(v) : p \in HashesIn(t) /\ Copied(t, v, p, p)
               /\ \A p \in HashesIn(t) : ~IsPrefix(a, p) => p \in HashesIn(v)
    <3>1. /\ \A p \in HashesIn(v) : p # a => p \in HashesIn(t) /\ v[p] = t[p]
          /\ \A p \in HashesIn(t) : p # a => p \in HashesIn(v) /\ v[p] = t[p]
          /\ a \in DOMAIN v /\ v[a] = node
          /\ \A p \in Paths, f \in Nat :
                HasIn(v, p, f) <=> HasIn(t, p, f) \/ a = Child(p, "field", f)
      BY <1>1, <1>2, <2>2, PutHashes
    <3>2. IsTree(v)
      BY <1>2, <2>2 DEF IsTree, Put
    <3>3. a \notin HashesIn(v) /\ IsPrefix(a, a)
      BY <1>2, <2>2, <3>1, PrefixSelf DEF HashesIn
    <3>4. ASSUME NEW p \in HashesIn(v)
          PROVE  p \in HashesIn(t) /\ Copied(t, v, p, p)
      <4>1. p \in HashesIn(t) /\ v[p] = t[p] /\ p \in Paths
        BY <1>1, <3>1, <3>3 DEF HashesIn
      <4>2. \A f \in Nat : HasIn(v, p, f) <=> HasIn(t, p, f)
        BY <1>3, <3>1, <4>1
      <4> QED
        BY <4>1, <4>2 DEF Copied
    <3>5. \A p \in HashesIn(t) : ~IsPrefix(a, p) => p \in HashesIn(v)
      BY <3>1, <3>3
    <3> QED
      BY <3>2, <3>4, <3>5
  <2> QED
    BY <2>1, <2>2 DEF a
<1>5. /\ \A p \in HashesIn(v) : ~IsPrefix(a, p) /\ ~IsPrefix(to, p) =>
             p \in HashesIn(u) /\ Copied(v, u, p, p)
      /\ HashesIn(u) \subseteq Paths
      /\ \A p \in HashesIn(u) : \E q \in HashesIn(v) :
            Copied(v, u, q, p) /\ (q = p \/ IsPrefix(a, q))
  BY <1>1, <1>4, MoveHashes DEF a
<1> HIDE DEF u, to
<1>6. ASSUME NEW q \in HashesIn(v), NEW p, Copied(v, u, q, p)
      PROVE  q \in HashesIn(t) /\ Copied(t, u, q, p)
  BY <1>4, <1>6 DEF Copied
<1>7. \A i \in DOMAIN V : /\ V[i].hash \in HashesIn(t)
                          /\ ~IsPrefix(a, V[i].hash) /\ ~IsPrefix(to, V[i].hash)
  BY <1>2 DEF Around
<1>8. \A i \in DOMAIN V : V[i].hash \in HashesIn(u) /\ Copied(t, u, V[i].hash, V[i].hash)
  BY <1>4, <1>5, <1>6, <1>7
<1>9. ASSUME NEW p \in HashesIn(u)
      PROVE  Same(V, t, u, p)
  <2>1. PICK q \in HashesIn(v) : Copied(v, u, q, p) /\ (q = p \/ IsPrefix(a, q))
    BY <1>5
  <2>2. q \in HashesIn(t) /\ Copied(t, u, q, p)
    BY <1>6, <2>1
  <2>3. q = p \/ \A i \in DOMAIN V : q # V[i].hash
    BY <1>7, <2>1
  <2> QED
    BY <2>2, <2>3 DEF Same
<1>10. Stored(V, t, u, n, NULL, {}, {})
  BY <1>8, <1>9, StoredAll
<1> QED
  BY <1>5, <1>10 DEF a, to, u

\* and so is the end of the entry,
LEMMA EntryStored ==
    ASSUME NEW L, NEW tok, LevelsOK(L, tok), InEntry(L[Len(L)]), NEW c, Sane(c), Stacks(L, c),
           Nested(ViewOf(L, c))
    PROVE  /\ Stored(ViewOf(L, c), c.tree, EntryTree(c), MapLevel(L), NULL, {}, {})
           /\ HashesIn(EntryTree(c)) \subseteq Paths
<1> DEFINE V == ViewOf(L, c)
           n == MapLevel(L)
           t == c.tree
           b == c.items[Len(c.items) - 1]
           key == Last(c.mapKeys)
           empty == IF Schema[Mapper(c)][ValueField].message = NoMessage THEN Default ELSE Undef
           v == IF Last(c.items) = NULL THEN Put(t, Value(b), empty) ELSE t
           u == EntryTree(c)
<1>1. /\ Shaped(t) /\ IsTree(t) /\ DOMAIN t \subseteq Paths /\ ItemsOK(L, c.items, t) /\ IsCxt(c)
  BY HashTypes DEF Sane, TreeOK, Stacks, Shaped
<1>2. Free(L)
  BY DEF Free
<1>3. Around(V, t, b) /\ n \in DOMAIN V
  <2>1. Base(L, c.items) = b
    BY <1>2 DEF Base
  <2>2. Around(V, t, Base(L, c.items)) /\ n \in DOMAIN V
    BY <1>1, AroundOf
  <2> QED
    BY <2>1, <2>2
<1>4. key \in [key: Keys] \cup {NoKey}
  BY <1>1, <1>2, KeysIs
<1>5. u = IF key = NoKey THEN Drop(t, Value(b)) ELSE Move(v, Value(b), Child(b, "key", key.key))
  BY DEF EntryTree
<1>6. empty \in Nodes /\ empty.kind # "hash"
  BY DEF Default, Undef, Leaf, Nodes
<1> HIDE DEF V, n, t, b, empty, u
<1>7. v = t \/ \E node \in Nodes : node.kind # "hash" /\ v = Put(t, Value(b), node)
  BY <1>6
<1> HIDE DEF v, key
<1>8. Nested(V)
  BY DEF V
<1>9. CASE key = NoKey
  BY <1>1, <1>3, <1>5, <1>8, <1>9, DropStored DEF V, n, t, u
<1>10. CASE key # NoKey
  <2>1. key.key \in Keys
    BY <1>4, <1>10
  <2>2. u = Move(v, Value(b), Child(b, "key", key.key))
    BY <1>5, <1>10
  <2> QED
    BY <1>1, <1>3, <1>7, <1>8, <2>1, <2>2, MoveStored DEF V, n, t, u
<1> QED
  BY <1>9, <1>10

\* which therefore keeps what is known.
LEMMA EndEntryKnown ==
    ASSUME NEW L, NEW tok, LevelsOK(L, tok), InEntry(L[Len(L)]), NEW c, Sane(c), Stacks(L, c),
           Knows(L, OwnOf(L), c)
    PROVE  Knows(L, OwnOf(L), OnEndMapEntry(c))
<1> DEFINE e == OnEndMapEntry(c)
           n == MapLevel(L)
           m == L[n].type
           seen == c.seenFields
           seen2 == Forgotten(c)
           it2 == SetLast(c.items, NULL)
<1>1. IsCxt(c) /\ IsObject(c) /\ c.items \in ItemSeq
  BY DEF Sane, IsCxt, ItemSeq
<1>2. Free(L)
  BY DEF Free
<1>3. e = Object(c.mappers, it2, SetLast(c.mapKeys, NoKey), seen2, c.seenOneof, c.track,
                 EntryTree(c), c.missing, c.crashed)
  BY <1>1, OnEndMapEntryIs, Zenon
<1>4. \A k \in 1..(Len(c.items) - 1) : it2[k] = c.items[k]
  <2>1. c.items # <<>>
    <3>1. Len(c.items) \in Nat /\ Len(c.items) > 2
      BY <1>1, <1>2, TopMap DEF Sane, TreeOK, Stacks
    <3> QED
      BY <3>1
  <2> QED
    BY <1>1, <2>1, SetLastItem
<1>5. /\ Len(seen2) = Len(seen) /\ \A j \in 1..(Len(seen) - 1) : seen2[j] = seen[j]
      /\ c.track => Last(seen2) \in {Last(seen), Last(seen) \ {ValueField}}
      /\ ~c.track => seen2 = seen
  <2>1. CASE c.track /\ ~Traits[Mapper(c)][KeyField].string
    <3> DEFINE N == SUBSET Nat
               s == c.seenFields
               e1 == Last(c.seenFields) \ {ValueField}
    <3>1. seen2 = SetLast(s, e1)
      BY <2>1 DEF Forgotten
    <3>2. s \in Seq(N) /\ s # <<>> /\ e1 \in N
      <4>1. c.seenFields # <<>> /\ Last(c.seenFields) \in SUBSET Nat
        BY <1>1, <2>1, TrackIs DEF Stacks, SeenOK, IsCxt
      <4> QED
        BY <1>1, <4>1 DEF IsCxt
    <3> HIDE DEF N, s, e1, seen2
    <3>3. /\ Len(SetLast(s, e1)) = Len(s) /\ \A i \in 1..(Len(s) - 1) : SetLast(s, e1)[i] = s[i]
          /\ Last(SetLast(s, e1)) = e1
      BY <3>2, SetLastIs
    <3> QED
      BY <2>1, <3>1, <3>3 DEF s, e1
  <2>2. CASE ~(c.track /\ ~Traits[Mapper(c)][KeyField].string)
    BY <2>2 DEF Forgotten
  <2> QED
    BY <2>1, <2>2
<1>6. c.track => TracksSeen(m) /\ ValueField \in Borrowed(m)
  BY <1>2, Tracker
<1>7. /\ Stored(ViewOf(L, c), c.tree, EntryTree(c), MapLevel(L), NULL, {}, {})
      /\ HashesIn(EntryTree(c)) \subseteq Paths
  BY EntryStored DEF Knows
<1> HIDE DEF e, n, m, seen2, it2
<1>8. e.items = it2 /\ e.seenFields = seen2 /\ e.seenOneof = c.seenOneof /\ e.tree = EntryTree(c)
  BY <1>3 DEF Object
<1>9. Retop(L, c, it2, seen2, c.seenOneof)
  BY <1>2, <1>4, <1>5, <1>6 DEF Retop, m, n
<1>10. Reseen(L, c, seen2, {})
  <2>1. \A g \in Firm(m) : g \in Last(seen2) <=> g \in Last(c.seenFields)
    BY <1>5, <1>6 DEF Firm
  <2> QED
    BY <2>1 DEF Reseen, m, n
<1>11. Knows(L, OwnOf(L), e)
  BY <1>7, <1>8, <1>9, <1>10, SeenTold
<1> QED
  BY <1>11 DEF e

\* The default of the value of an entry.
LEMMA DefaultEntryKnown ==
    ASSUME NEW L, NEW tok, LevelsOK(L, tok), InEntry(L[Len(L)]), NEW c, Sane(c), Stacks(L, c),
           Knows(L, OwnOf(L), c)
    PROVE  Knows(L, OwnOf(L), DefaultEntry(c))
<1> DEFINE e == DefaultEntry(c)
           f == ValueField
           v == f \in ToDefault(c)
<1>1. IsObject(c)
  BY DEF Sane, IsCxt
<1>2. e = Object(c.mappers, IF v THEN TargetItems(c, f) ELSE c.items,
                 DefaultKeys(c), c.seenFields,
                 IF v THEN TargetOneof(c, f) ELSE c.seenOneof, c.track,
                 IF v THEN Put(TargetTree(c, f), TargetPath(c, f), Default) ELSE c.tree,
                 c.missing, c.crashed)
  BY <1>1, DefaultEntryIs, Zenon
<1>3. Storing(L, c, f) /\ ~Here(L) /\ Default.kind # "hash"
  BY StoringValue DEF Here, Default, Leaf
<1> HIDE DEF e, v, f
<1>4. CASE v
  <2>1. /\ e.items = TargetItems(c, f) /\ e.seenFields = c.seenFields
        /\ e.seenOneof = TargetOneof(c, f)
        /\ e.tree = Put(TargetTree(c, f), TargetPath(c, f), Default)
    BY <1>2, <1>4 DEF Object
  <2>2. Knows(L, OwnOf(L), e)
    BY <1>3, <2>1, StoreKnown
  <2> QED
    BY <2>2 DEF e
<1>5. CASE ~v
  <2>1. /\ e.items = c.items /\ e.seenFields = c.seenFields
        /\ e.seenOneof = c.seenOneof /\ e.tree = c.tree
    BY <1>2, <1>5 DEF Object
  <2>2. ViewOf(L, e) = ViewOf(L, c)
    BY <2>1 DEF ViewOf
  <2>3. Knows(L, OwnOf(L), e)
    BY <2>1, <2>2 DEF Knows
  <2> QED
    BY <2>3 DEF e
<1> QED
  BY <1>4, <1>5

----------------------------------------------------------------------------
(* The end of a message.                                                           *)

\* The defaults of the fields that have not been seen.
LEMMA DefaultsStored ==
    ASSUME NEW V, NEW t, DOMAIN t \subseteq Paths, NEW n \in DOMAIN V,
           Around(V, t, V[n].hash), Nested(V), NEW G \in SUBSET Nat,
           NEW P, P = {Child(V[n].hash, "field", f) : f \in G} \ DOMAIN t
    PROVE  LET u == PutAll(t, P, Default)
           IN  Stored(V, t, u, n, NULL, G, {}) /\ HashesIn(u) \subseteq Paths
<1> DEFINE b == V[n].hash
           u == PutAll(t, P, Default)
<1>1. b \in Paths
  BY DEF Around
<1>2. \A i \in DOMAIN V : /\ V[i].hash \in HashesIn(t) /\ V[i].hash \in Paths /\ V[i].hash # NULL
                          /\ t[V[i].hash].type = V[i].type /\ V[i].type \in Messages
  BY NullIs DEF Around
<1>3. \A i \in DOMAIN V : i # n => V[i].hash # b
  BY NestedDiffer
<1> HIDE DEF b
<1>4. P = {Child(b, "field", f) : f \in G} \ DOMAIN t
  BY DEF b
<1>5. DOMAIN u = DOMAIN t \cup P /\ \A p \in DOMAIN u : u[p] = IF p \in P THEN Default ELSE t[p]
  BY DEF PutAll
<1> HIDE DEF u
<1>6. Default.kind # "hash"
  BY DEF Default, Leaf
<1>7. /\ \A p \in HashesIn(u) : p \in HashesIn(t) /\ u[p] = t[p] /\ p \in Paths
      /\ \A p \in HashesIn(t) : p \in HashesIn(u) /\ u[p] = t[p]
  BY <1>4, <1>5, <1>6 DEF HashesIn
<1>8. ASSUME NEW p \in Paths, NEW g \in Nat
      PROVE  HasIn(u, p, g) <=> HasIn(t, p, g) \/ (p = b /\ g \in G)
  <2> DEFINE x == Child(p, "field", g)
  <2>1. x \in DOMAIN u <=> x \in DOMAIN t \/ \E f \in G : x = Child(b, "field", f)
    BY <1>4, <1>5
  <2>2. (\E f \in G : x = Child(b, "field", f)) <=> p = b /\ g \in G
    <3>1. ASSUME NEW f \in G, x = Child(b, "field", f)
          PROVE  p = b /\ g = f
      <4>1. f \in Nat
        OBVIOUS
      <4> QED
        BY <1>1, <3>1, <4>1, FieldSame
    <3> QED
      BY <3>1
  <2> QED
    BY <2>1, <2>2 DEF HasIn
<1>9. ASSUME NEW p \in HashesIn(u), p # b
      PROVE  Copied(t, u, p, p)
  BY <1>7, <1>8, <1>9 DEF Copied
<1>10. \A i \in DOMAIN V : i # n => Copied(t, u, V[i].hash, V[i].hash)
  BY <1>2, <1>3, <1>7, <1>9
<1>11. \A p \in HashesIn(u) : p # NULL /\ p # b => Same(V, t, u, p)
  BY <1>7, <1>9 DEF Same
<1>12. \A g \in Nat : HasIn(u, b, g) <=> g \in G \/ (HasIn(t, b, g) /\ g \notin {})
  BY <1>1, <1>8
<1>13. \A i \in DOMAIN V : V[i].hash \in HashesIn(u) /\ u[V[i].hash] = t[V[i].hash]
  BY <1>2, <1>7
<1>14. Stored(V, t, u, n, NULL, G, {})
  BY <1>2, <1>3, <1>10, <1>11, <1>12, <1>13, Zenon DEF Stored, b
<1> QED
  BY <1>7, <1>14 DEF u

\* A message that has ended needs no one to remember what it has seen.
LEMMA EndTold ==
    ASSUME NEW V, NEW D, NEW t, Told(V, D, t, NULL), NEW n \in DOMAIN V, Full(t, V[n].hash)
    PROVE  Told(V, D \ {n}, t, NULL)
<1>1. ASSUME NEW p \in HashesIn(t), p # NULL
      PROVE  AloneInOnePiece(t, p) /\ ((\E i \in D \ {n} : V[i].hash = p) \/ Full(t, p))
  <2>1. AloneInOnePiece(t, p) /\ ((\E i \in D : V[i].hash = p) \/ Full(t, p))
    BY <1>1 DEF Told
  <2> QED
    BY <2>1
<1>2. /\ \A i \in DOMAIN V : SeenThere(t, V[i]) /\ Chosen(t, V[i])
      /\ \A i \in D \ {n} : ThereSeen(t, V[i])
  BY DEF Told
<1> QED
  BY <1>1, <1>2, Zenon DEF Told

\* With its defaults a message that lacks no required field is full,
LEMMA DefaultFieldsKnown ==
    ASSUME NEW L, NEW tok, LevelsOK(L, tok), Here(L), ~Free(L), NEW c, Sane(c), Stacks(L, c),
           Knows(L, OwnOf(L), c), MissingRequired(c) = {}
    PROVE  Knows(L, OwnOf(L) \ {Len(L)}, DefaultFields(c))
<1> DEFINE V == ViewOf(L, c)
           n == MapLevel(L)
           m == L[n].type
           t == c.tree
           G == ToDefault(c)
           e == DefaultFields(c)
           u == PutAll(t, DefaultPaths(c), Default)
           b == V[n].hash
<1>1. /\ Shaped(t) /\ DOMAIN t \subseteq Paths /\ Nested(V) /\ ItemsOK(L, c.items, t)
      /\ c.items \in ItemSeq /\ IsObject(c) /\ Told(V, OwnOf(L), t, NULL)
  BY HashTypes DEF Sane, TreeOK, Knows, Stacks, IsCxt, ItemSeq
<1>2. /\ Around(V, t, b) /\ n \in DOMAIN V /\ DOMAIN V = OwnOf(L) /\ V[n].type = m
      /\ Last(c.items) = b /\ n = Len(L)
  <2>1. ~OpenList(L[n]) /\ n = Len(L)
    BY DEF Here, Free, MapLevel
  <2>2. Around(V, t, Base(L, c.items)) /\ Base(L, c.items) = b
    BY <1>1, <2>1, AroundOf
  <2>3. Last(c.items) = Base(L, c.items)
    BY DEF Base, Last
  <2> QED
    BY <1>1, <2>1, <2>2, <2>3, AroundOf
<1>3. Mapper(c) = m /\ m \in Messages /\ (TracksSeen(m) => V[n].seen = Last(c.seenFields))
  <2>1. Retop(L, c, c.items, c.seenFields, c.seenOneof)
    BY DEF Retop
  <2>2. TracksSeen(m) => V[n].seen = Last(c.seenFields)
    BY <2>1, Retopped
  <2> QED
    BY <2>2, HostIs, Tracker
<1>4. /\ G = IF Explicit[m] THEN {f \in FieldsOf(m) \ Last(c.seenFields) : HasDefault(m, f)} ELSE {}
      /\ CheckRequired(m) => Required(m) \cap (FieldsOf(m) \ Last(c.seenFields)) = {}
  BY <1>3 DEF ToDefault, Unseen, MissingRequired
<1>5. G \in SUBSET Nat /\ \A g \in FieldsOf(m) : g \in G => Traits[m][g].oneof = NoOneof
  BY <1>3, <1>4, FieldsAre DEF HasDefault
<1>6. DefaultPaths(c) = {Child(b, "field", f) : f \in G} \ DOMAIN t
  BY <1>2 DEF DefaultPaths
<1>7. Touched(V, V, n, t, G, {})
  <2>1. Retop(L, c, c.items, c.seenFields, c.seenOneof)
    BY DEF Retop
  <2>2. /\ \A g \in FieldsOf(m) : g \in G => Traits[m][g].oneof = NoOneof
        /\ TracksSeen(m) => \A g \in Firm(m) :
               /\ g \in Last(c.seenFields) => g \in Last(c.seenFields)
               /\ g \in Last(c.seenFields) => g \in Last(c.seenFields) \/ g \in G
    BY <1>5
  <2> QED
    BY <2>1, <2>2, SeenTouched DEF ViewOf
<1>8. e = Object(c.mappers, c.items, c.mapKeys, c.seenFields, c.seenOneof, c.track, u,
                 c.missing, c.crashed)
  BY <1>1, DefaultFieldsIs
<1> HIDE DEF e, u
<1>9. e.items = c.items /\ e.seenFields = c.seenFields /\ e.seenOneof = c.seenOneof /\ e.tree = u
  BY <1>8 DEF Object
<1>10. ViewOf(L, e) = V
  BY <1>9 DEF ViewOf
<1> HIDE DEF V, n, m, t, G
<1>11. Stored(V, t, u, n, NULL, G, {})
  BY <1>1, <1>2, <1>5, <1>6, DefaultsStored DEF u
<1>12. Full(u, b)
  <2>1. u[b].type = m /\ \A g \in Nat : HasIn(u, b, g) <=> g \in G \/ HasIn(t, b, g)
    BY <1>2, <1>11 DEF Stored
  <2>2. ASSUME NEW f \in Firm(m), Due(m, f)
        PROVE  HasIn(u, b, f)
    <3>1. f \in FieldsOf(m) /\ f \in Nat /\ Traits[m][f].oneof = NoOneof
      BY <1>3, <2>2, FieldsAre
    <3>2. TracksSeen(m)
      BY <2>2 DEF Due, TracksSeen
    <3>3. CASE f \in Last(c.seenFields)
      <4>1. SeenThere(t, V[n])
        BY <1>1, <1>2 DEF Told
      <4>2. HasIn(t, b, f)
        BY <1>2, <1>3, <2>2, <3>1, <3>2, <3>3, <4>1 DEF SeenThere
      <4> QED
        BY <2>1, <3>1, <4>2
    <3>4. CASE f \notin Last(c.seenFields)
      <4>1. f \in G
        BY <1>4, <2>2, <3>1, <3>4 DEF Due
      <4> QED
        BY <2>1, <3>1, <4>1
    <3> QED
      BY <3>3, <3>4
  <2> QED
    BY <2>1, <2>2 DEF Full
<1>13. Told(V, OwnOf(L) \ {n}, u, NULL)
  <2>1. OwnOf(L) \subseteq DOMAIN V /\ n \in OwnOf(L)
    BY <1>2
  <2> HIDE DEF b
  <2>2. Full(u, V[n].hash)
    BY <1>12 DEF b
  <2>3. PICK E : E = OwnOf(L) \ {n}
    OBVIOUS
  <2>4. Told(V, E, u, NULL)
    BY <1>1, <1>7, <1>11, <2>1, <2>2, <2>3, StoredTold
  <2> QED
    BY <2>3, <2>4
<1> QED
  BY <1>1, <1>2, <1>9, <1>10, <1>13 DEF Knows, e

\* The open messages that have not ended.
NotEnded(L, tok) ==
    IF tok = "END_MESSAGE" /\ ~InEntry(L[Len(L)]) THEN OwnOf(L) \ {Len(L)} ELSE OwnOf(L)

\* Nothing is due to a message whose fields no one looks at.
LEMMA UntrackedFull ==
    ASSUME NEW t, NEW p, ~TracksSeen(t[p].type)
    PROVE  Full(t, p)
BY DEF Full, Due, TracksSeen

\* so what is known of it at its end is that it has ended.
LEMMA EndOfMessageKnown ==
    ASSUME NEW L, NEW tok, LevelsOK(L, tok), ~OpenMap(L[Len(L)]), ~OpenList(L[Len(L)]), NEW c,
           Sane(c), Stacks(L, c), Knows(L, OwnOf(L), c), c.track => MissingRequired(c) = {}
    PROVE  Knows(L, NotEnded(L, "END_MESSAGE"), OnEndMessage(c))
<1>1. /\ IsObject(c) /\ c.mappers \in Seq(Messages) /\ c.mappers # <<>> /\ MappersOK(L, c)
  BY DEF Sane, IsCxt, Stacks
<1>2. Mapper(c) = L[Len(L)].type /\ Mapper(c) \in Messages /\ c.track = TracksSeen(Mapper(c))
  BY <1>1, MapperIs DEF MappersOK
<1>3. Mapper(c) \in Entries <=> InEntry(L[Len(L)])
  BY <1>2 DEF InEntry
<1>4. CASE InEntry(L[Len(L)])
  <2>1. OnEndMessage(c) = c \/ OnEndMessage(c) = DefaultEntry(c)
    BY <1>3, <1>4 DEF OnEndMessage
  <2>2. NotEnded(L, "END_MESSAGE") = OwnOf(L)
    BY <1>4 DEF NotEnded
  <2>3. Knows(L, OwnOf(L), DefaultEntry(c))
    BY <1>4, DefaultEntryKnown
  <2> QED
    BY <2>1, <2>2, <2>3
<1>5. CASE ~InEntry(L[Len(L)]) /\ c.track
  <2>1. OnEndMessage(c) = DefaultFields(c)
    BY <1>3, <1>5 DEF OnEndMessage
  <2>2. NotEnded(L, "END_MESSAGE") = OwnOf(L) \ {Len(L)}
    BY <1>5 DEF NotEnded
  <2>3. Here(L) /\ ~Free(L)
    BY <1>5 DEF Here, Free
  <2>4. Knows(L, OwnOf(L) \ {Len(L)}, DefaultFields(c))
    BY <1>5, <2>3, DefaultFieldsKnown
  <2> QED
    BY <2>1, <2>2, <2>4
<1>6. CASE ~InEntry(L[Len(L)]) /\ ~c.track
  <2> DEFINE V == ViewOf(L, c)
             n == Len(L)
  <2>1. OnEndMessage(c) = c
    BY <1>6 DEF OnEndMessage
  <2>2. NotEnded(L, "END_MESSAGE") = OwnOf(L) \ {n}
    BY <1>6 DEF NotEnded
  <2>3. Told(V, OwnOf(L), c.tree, NULL) /\ Nested(V)
    BY DEF Knows
  <2>4. /\ Around(V, c.tree, Base(L, c.items)) /\ n \in DOMAIN V /\ V[n].type = L[n].type
    <3>1. MapLevel(L) = n
      BY <1>6 DEF MapLevel
    <3>2. ItemsOK(L, c.items, c.tree)
      BY DEF Stacks
    <3> QED
      BY <3>1, <3>2, AroundOf
  <2> HIDE DEF V
  <2>5. ~TracksSeen(c.tree[V[n].hash].type)
    BY <1>2, <1>6, <2>4 DEF Around
  <2>6. Full(c.tree, V[n].hash)
    BY <2>5, UntrackedFull
  <2>7. PICK D : D = OwnOf(L)
    OBVIOUS
  <2>8. Told(V, D \ {n}, c.tree, NULL)
    BY <2>3, <2>4, <2>6, <2>7, EndTold
  <2> QED
    BY <2>1, <2>2, <2>3, <2>7, <2>8 DEF Knows, V
<1> QED
  BY <1>4, <1>5, <1>6

----------------------------------------------------------------------------
(* The callbacks for messages.                                                     *)

\* A message that is entered: nothing of it has been seen, and nothing is in it unless
\* it is another piece of one that has ended.
EntersAt(W, X, k, u, at) ==
    /\ k \in Nat /\ k \notin DOMAIN W /\ DOMAIN X = DOMAIN W \cup {k}
    /\ \A i \in DOMAIN W : X[i] = W[i]
    /\ X[k].hash = at /\ X[k].type \in Messages /\ u[at].type = X[k].type
    /\ X[k].seen \cap FieldsOf(X[k].type) = {}
    /\ u[at].chunks = 1 => \A g \in Nat : ~HasIn(u, at, g)

\* A message that is entered with nothing seen is told of truly.
LEMMA EnteredTold ==
    ASSUME NEW W, NEW X, NEW k, NEW u, NEW at, EntersAt(W, X, k, u, at), Told(W, DOMAIN W, u, at)
    PROVE  Told(X, DOMAIN X, u, NULL)
<1> DEFINE v == X[k]
           m == v.type
<1>1. FieldsOf(m) \subseteq Nat /\ Firm(m) \subseteq FieldsOf(m)
  BY FieldsAre DEF EntersAt
<1>2. SeenThere(u, v) /\ Chosen(u, v) /\ ThereSeen(u, v)
  <2>1. \A f \in Firm(m) : f \notin v.seen
    BY <1>1 DEF EntersAt
  <2>2. v.hash = at /\ (u[at].chunks = 1 => \A g \in FieldsOf(m) : ~HasIn(u, at, g))
    BY <1>1 DEF EntersAt
  <2> QED
    BY <1>1, <2>1, <2>2 DEF SeenThere, Chosen, ThereSeen
<1>3. AloneInOnePiece(u, at)
  <2>1. u[at].type = m /\ (u[at].chunks = 1 => \A g \in FieldsOf(m) : ~HasIn(u, at, g))
    BY <1>1 DEF EntersAt
  <2> QED
    BY <2>1 DEF AloneInOnePiece, Alone
<1>4. ASSUME NEW i \in DOMAIN X
      PROVE  SeenThere(u, X[i]) /\ Chosen(u, X[i]) /\ ThereSeen(u, X[i])
  <2>1. CASE i = k
    BY <1>2, <2>1
  <2>2. CASE i # k
    <3>1. i \in DOMAIN W /\ X[i] = W[i]
      BY <2>2 DEF EntersAt
    <3> QED
      BY <3>1 DEF Told
  <2> QED
    BY <2>1, <2>2
<1>5. ASSUME NEW p \in HashesIn(u), p # NULL
      PROVE  AloneInOnePiece(u, p) /\ ((\E i \in DOMAIN X : X[i].hash = p) \/ Full(u, p))
  <2>1. CASE p = at
    <3>1. k \in DOMAIN X /\ X[k].hash = p
      BY <2>1 DEF EntersAt
    <3> QED
      BY <1>3, <2>1, <3>1
  <2>2. CASE p # at
    <3>1. AloneInOnePiece(u, p) /\ ((\E i \in DOMAIN W : W[i].hash = p) \/ Full(u, p))
      BY <2>2 DEF Told
    <3> QED
      BY <3>1 DEF EntersAt
  <2> QED
    BY <2>1, <2>2
<1> QED
  BY <1>4, <1>5, Zenon DEF Told

\* The bits left over from earlier calls are not those of fields.
LEMMA JunkIs ==
    ASSUME NEW m, NEW junk \in Junk(m)
    PROVE  junk \in SUBSET Nat /\ junk \cap FieldsOf(m) = {}
<1> DEFINE F == FieldsOf(m)
<1>1. junk \in SUBSET ({1, 2} \ F)
  BY DEF Junk, KeyField, ValueField
<1> HIDE DEF F
<1>2. ASSUME NEW x \in junk
      PROVE  x \in Nat /\ x \notin F
  BY <1>1, <1>2
<1>3. junk \cap F = {}
  BY <1>2
<1>4. junk \in SUBSET Nat
  BY <1>2
<1> QED
  BY <1>3, <1>4 DEF F

\* Entering a message keeps what is known,
LEMMA StartOwnKnown ==
    ASSUME NEW S, LevelsOK(S, "FIELD"), NEW B, NEW tok2, LevelsOK(B, tok2), Deeper(S, B),
           ~InEntry(B[Len(S) + 1]), ~OpenMap(S[Len(S)]),
           B[Len(S) + 1].type = Schema[S[Len(S)].type][S[Len(S)].field].message,
           NEW c, Sane(c), Stacks(S, c), Knows(S, OwnOf(S), c), NEW junk \in Junk(B[Len(S) + 1].type)
    PROVE  Knows(B, OwnOf(B), OnStartSubMessage(c, S[Len(S)].field, junk))
<1> DEFINE n == Len(S)
           f == S[n].field
           m == B[n + 1].type
           at == TargetPath(c, f)
           d0 == TargetTree(c, f)
           node == Hash(m, IF at \in DOMAIN d0 THEN 2 ELSE 1)
           u == Put(d0, at, node)
           it2 == TargetItems(c, f)
           low == Marked(c, f)
           low1 == TargetOneof(c, f)
           seen == IF TracksSeen(m) THEN Append(low, junk) ELSE low
           oneof == IF Oneofs(m) # {} THEN Append(low1, [o \in Oneofs(m) |-> NoField]) ELSE low1
           W == View(S, it2, low, low1)
           X == View(B, Append(it2, at), seen, oneof)
           d == OnStartSubMessage(c, f, junk)
<1>1. /\ n \in Nat \ {0} /\ Len(B) = n + 1 /\ n + 1 \in Nat
      /\ OwnOf(S) \subseteq 1..n
  BY LevelIs DEF Deeper, OwnOf
<1>2. m \in Messages /\ S[n] \in Levels /\ Entered(S[n]) /\ f \in Nat /\ S[n].type \in Messages
  <2>1. n + 1 \in DOMAIN B /\ n \in DOMAIN S
    BY <1>1, LevelIs
  <2> QED
    BY <2>1, LevelIs, LevelsAre DEF LevelsOK
<1>3. InEntry(S[n]) => f = ValueField
  BY <1>2, EntriesAssumption, RootAssumption DEF InEntry, Entered
<1>4. Storing(S, c, f)
  BY <1>3, StoringField
<1>5. IsObject(c) /\ IsCxt(c) /\ Mapper(c) = S[n].type
  BY <1>4 DEF Sane, IsCxt, Storing
<1>6. /\ node \in Nodes /\ Fits(node, m) /\ node.type = m
      /\ (node.chunks = 1 => at \notin DOMAIN d0)
  BY <1>2, RootAssumption DEF Hash, Nodes, Fits
<1>7. junk \in SUBSET Nat /\ junk \cap FieldsOf(m) = {}
  BY JunkIs, Zenon
<1>8. m = Schema[S[n].type][f].message
  OBVIOUS
<1> HIDE DEF node
<1>9. /\ it2 \in ItemSeq /\ Len(it2) = HeightOf(S, n) /\ at \in DOMAIN u /\ u[at] = node
  <2> HIDE DEF m
  <2>1. it2 \in ItemSeq /\ ItemsOK(S, it2, u) /\ at \in DOMAIN u /\ u[at] = node
    BY <1>4, <1>6, <1>8, Store
  <2> QED
    BY <2>1 DEF ItemsOK
<1>10. /\ Told(W, OwnOf(S), u, at) /\ Nested(W)
       /\ DOMAIN W = OwnOf(S) /\ \A i \in OwnOf(S) : Len(W[i].hash) < Len(at)
       /\ at \in Paths /\ Shaped(d0)
  <2>1. low = Marked(c, f) \/ (low = c.seenFields /\ ~Here(S))
    OBVIOUS
  <2> HIDE DEF f, low
  <2> QED
    BY <1>4, <2>1, StoreTold
<1>11. /\ low \in Seq(SUBSET Nat) /\ FieldsOK(S, low)
       /\ low1 \in Seq(OneofStates) /\ OneofsOK(S, low1)
  <2>1. low \in Seq(SUBSET Nat) /\ Len(low) = Len(c.seenFields)
    BY <1>2, <1>5, MarkedIs
  <2>2. FieldsOK(S, low)
    BY <2>1 DEF FieldsOK, Stacks, SeenOK
  <2> QED
    BY <1>4, <1>5, <2>1, <2>2, TargetOneofIs
<1>12. /\ \A j \in 1..Len(it2) : Append(it2, at)[j] = it2[j]
       /\ Append(it2, at)[Len(it2) + 1] = at
  <2>1. at \in Paths \cup {NULL}
    BY <1>10
  <2> QED
    BY <1>9, <2>1, ItemStack
<1>13. /\ Len(low) \in Nat /\ \A j \in 1..Len(low) : seen[j] = low[j]
       /\ Len(seen) = Len(low) + (IF TracksSeen(m) THEN 1 ELSE 0)
       /\ TracksSeen(m) => Last(seen) = junk
  <2> DEFINE N == SUBSET Nat
  <2>1. low \in Seq(N) /\ junk \in N
    BY <1>7, <1>11
  <2> HIDE DEF low, N, m
  <2> QED
    BY <2>1, AppendOf
<1>14. /\ Len(low1) \in Nat /\ \A j \in 1..Len(low1) : oneof[j] = low1[j]
       /\ Len(oneof) = Len(low1) + (IF Oneofs(m) # {} THEN 1 ELSE 0)
  <2> DEFINE e == [o \in Oneofs(m) |-> NoField]
  <2>1. low1 \in Seq(OneofStates) /\ (Oneofs(m) # {} => e \in OneofStates)
    <3>1. e \in OneofState(m)
      BY Zenon DEF OneofState
    <3> QED
      BY <1>2, <1>11, <3>1 DEF OneofStates
  <2> HIDE DEF low1, e, m
  <2> QED
    BY <2>1, AppendOf DEF e
<1>15. Adds(S, B)
  BY DEF Adds
<1> HIDE DEF it2, seen, oneof, low, low1
<1>16. Grows(S, "FIELD", B, tok2, it2, Append(it2, at), low, seen, low1, oneof)
  BY <1>9, <1>11, <1>12, <1>13, <1>14, <1>15 DEF Grows, Grown
<1>17. /\ DOMAIN X = OwnOf(B) /\ n + 1 \notin OwnOf(S) /\ OwnOf(B) = OwnOf(S) \cup {n + 1}
       /\ \A i \in OwnOf(S) : X[i] = W[i]
       /\ X[n + 1].type = m /\ X[n + 1].hash = at
       /\ X[n + 1].seen = IF TracksSeen(m) THEN Last(seen) ELSE {}
  <2> DEFINE it == Append(it2, at)
  <2> HIDE DEF it
  <2>1. Grows(S, "FIELD", B, tok2, it2, it, low, seen, low1, oneof)
    BY <1>16 DEF it
  <2>2. LET v == View(S, it2, low, low1)
            w == View(B, it, seen, oneof)
        IN  /\ DOMAIN w = OwnOf(B) /\ n + 1 \notin OwnOf(S) /\ OwnOf(B) = OwnOf(S) \cup {n + 1}
            /\ \A i \in OwnOf(S) : w[i] = v[i]
            /\ w[n + 1].type = m /\ w[n + 1].hash = it[Len(it2) + 1]
            /\ w[n + 1].seen = IF TracksSeen(m) THEN Last(seen) ELSE {}
    BY <1>15, <2>1, ViewGrown
  <2> HIDE DEF at, m, n
  <2> QED
    BY <1>12, <2>2, Zenon DEF it
<1>18. d = Object(Append(c.mappers, m), Append(it2, at), c.mapKeys, seen, oneof, TracksSeen(m), u,
                  c.missing, c.crashed)
  <2>1. IsObject(c) /\ m = Schema[Mapper(c)][f].message
    BY <1>5, <1>8
  <2> HIDE DEF n, f, at, u, m, d, d0
  <2>2. OnStartSubMessage(c, f, junk) =
               Object(Append(c.mappers, m), Append(TargetItems(c, f), TargetPath(c, f)), c.mapKeys,
                      IF TracksSeen(m) THEN Append(Marked(c, f), junk) ELSE Marked(c, f),
                      IF Oneofs(m) # {}
                      THEN Append(TargetOneof(c, f), [o \in Oneofs(m) |-> NoField])
                      ELSE TargetOneof(c, f),
                      TracksSeen(m),
                      Put(TargetTree(c, f), TargetPath(c, f),
                          Hash(m, IF TargetPath(c, f) \in DOMAIN TargetTree(c, f) THEN 2 ELSE 1)),
                      c.missing, c.crashed)
    BY <2>1, OnStartSubMessageIs
  <2> QED
    BY <2>2 DEF at, u, it2, seen, oneof, d, node, low, low1, d0
<1> HIDE DEF d, u, W, X
<1>19. d.items = Append(it2, at) /\ d.seenFields = seen /\ d.seenOneof = oneof /\ d.tree = u
  BY <1>18 DEF Object
<1>20. ViewOf(B, d) = X
  BY <1>19 DEF ViewOf, X
<1>21. Told(X, OwnOf(B), u, NULL)
  <2>1. u[at].chunks = 1 => \A g \in Nat : ~HasIn(u, at, g)
    BY <1>6, <1>9, <1>10, FreshIsEmpty DEF u
  <2>2. X[n + 1].seen \cap FieldsOf(m) = {}
    BY <1>7, <1>13, <1>17, Zenon
  <2> HIDE DEF m, at, n
  <2>3. EntersAt(W, X, n + 1, u, at)
    BY <1>1, <1>2, <1>6, <1>9, <1>10, <1>17, <2>1, <2>2 DEF EntersAt
  <2> QED
    BY <1>10, <1>17, <2>3, EnteredTold
<1>22. Nested(X)
  <2>1. SUFFICES ASSUME NEW i \in DOMAIN X, NEW j \in DOMAIN X, i < j
                 PROVE  Len(X[i].hash) < Len(X[j].hash)
    BY DEF Nested
  <2>2. i \in OwnOf(S) /\ (j \in OwnOf(S) \/ j = n + 1)
    <3>1. i \in 1..(n + 1) /\ j \in 1..(n + 1) /\ i # n + 1
      BY <1>1, <1>17, <2>1
    <3> QED
      BY <1>17, <3>1
  <2>3. CASE j \in OwnOf(S)
    BY <1>10, <1>17, <2>1, <2>2, <2>3 DEF Nested
  <2>4. CASE j = n + 1
    BY <1>10, <1>17, <2>2, <2>4
  <2> QED
    BY <2>2, <2>3, <2>4
<1> QED
  BY <1>19, <1>20, <1>21, <1>22 DEF Knows, d

\* What is told of a message stays true when the messages in it are left.
LEMMA LeftTold ==
    ASSUME NEW V, NEW W, DOMAIN V \subseteq DOMAIN W, \A i \in DOMAIN V : V[i] = W[i],
           Nested(W), NEW t, Told(W, DOMAIN V, t, NULL)
    PROVE  Nested(V) /\ Told(V, DOMAIN V, t, NULL)
<1>1. Nested(V)
  BY DEF Nested
<1>2. \A i \in DOMAIN V : SeenThere(t, V[i]) /\ Chosen(t, V[i]) /\ ThereSeen(t, V[i])
  <2>1. \A i \in DOMAIN V : SeenThere(t, W[i]) /\ Chosen(t, W[i]) /\ ThereSeen(t, W[i])
    BY DEF Told
  <2> QED
    BY <2>1
<1>3. ASSUME NEW p \in HashesIn(t), p # NULL
      PROVE  AloneInOnePiece(t, p) /\ ((\E i \in DOMAIN V : V[i].hash = p) \/ Full(t, p))
  BY <1>3 DEF Told
<1> QED
  BY <1>1, <1>2, <1>3, Zenon DEF Told

\* and so does leaving one that has ended.
LEMMA EndOwnKnown ==
    ASSUME NEW S, NEW tok, LevelsOK(S, tok), NEW B, NEW tok2, LevelsOK(B, tok2), Deeper(S, B),
           ~InEntry(B[Len(S) + 1]), ~OpenMap(S[Len(S)]), NEW c, Sane(c), Stacks(B, c),
           Knows(B, OwnOf(B) \ {Len(B)}, c)
    PROVE  Knows(S, OwnOf(S), OnEndSubMessage(c))
<1> DEFINE n == Len(S)
           m == B[n + 1].type
           low == IF c.track THEN Front(c.seenFields) ELSE c.seenFields
           low1 == IF Oneofs(Mapper(c)) # {} THEN Front(c.seenOneof) ELSE c.seenOneof
           its == Front(c.items)
           V == View(S, its, low, low1)
           W == ViewOf(B, c)
           d == OnEndSubMessage(c)
<1>1. /\ n \in Nat \ {0} /\ Len(B) = n + 1 /\ ~OpenMap(B[n + 1]) /\ ~OpenList(B[n + 1])
  BY LevelIs DEF Deeper
<1>2. /\ IsObject(c) /\ IsCxt(c) /\ c.items \in ItemSeq /\ ItemsOK(B, c.items, c.tree)
      /\ MappersOK(B, c) /\ SeenOK(B, c)
  BY DEF Sane, IsCxt, ItemSeq, Stacks
<1>3. Mapper(c) = m /\ c.track = TracksSeen(m)
  BY <1>1, <1>2, MapperIs DEF IsCxt, MappersOK
<1>4. c.items # <<>>
  <2>1. ~Free(B) /\ ~OpenList(B[Len(B)])
    BY <1>1 DEF Free
  <2>2. Len(c.items) \in Nat \ {0}
    BY <1>2, <2>1, TopHash
  <2> QED
    BY <2>2
<1>5. Sane(d) /\ Stacks(S, d)
  BY EndOwnStacks
<1>6. d = Object(Front(c.mappers), its, c.mapKeys, low, low1,
                 TracksSeen(Last(Front(c.mappers))), c.tree, c.missing, c.crashed)
  BY <1>2, OnEndSubMessageIs
<1> HIDE DEF d
<1>7. d.items = its /\ d.seenFields = low /\ d.seenOneof = low1 /\ d.tree = c.tree
  BY <1>6 DEF Object
<1>8. \A j \in 1..Len(its) : c.items[j] = its[j]
  BY <1>2, <1>4, ItemStack
<1>9. /\ \A j \in 1..Len(low) : c.seenFields[j] = low[j]
      /\ Len(c.seenFields) = Len(low) + (IF TracksSeen(m) THEN 1 ELSE 0)
  <2> DEFINE N == SUBSET Nat
  <2>1. c.seenFields \in Seq(N) /\ (c.track => c.seenFields # <<>>)
    BY <1>2, TrackIs DEF IsCxt, SeenOK
  <2> HIDE DEF N, m
  <2> QED
    BY <1>3, <2>1, FrontOf, SMTT(20)
<1>10. /\ \A j \in 1..Len(low1) : c.seenOneof[j] = low1[j]
       /\ Len(c.seenOneof) = Len(low1) + (IF Oneofs(m) # {} THEN 1 ELSE 0)
  <2> DEFINE some == Oneofs(m) # {}
             N == OneofStates
  <2>1. c.seenOneof \in Seq(N) /\ (some => c.seenOneof # <<>>)
    BY <1>1, <1>2, OneofsTop DEF IsCxt, SeenOK
  <2>2. low1 = IF some THEN Front(c.seenOneof) ELSE c.seenOneof
    BY <1>3
  <2> HIDE DEF m, low1, some, N
  <2>3. CASE some
    <3>1. low1 = Front(c.seenOneof) /\ c.seenOneof # <<>>
      BY <2>1, <2>2, <2>3
    <3>2. /\ \A j \in 1..Len(low1) : c.seenOneof[j] = low1[j]
          /\ Len(c.seenOneof) = Len(low1) + 1
      BY <2>1, <3>1, FrontOf
    <3> QED
      BY <2>3, <3>2 DEF some
  <2>4. CASE ~some
    <3>1. low1 = c.seenOneof
      BY <2>2, <2>4
    <3>2. Len(c.seenOneof) \in Nat
      BY <2>1
    <3> QED
      BY <2>4, <3>1, <3>2 DEF some
  <2> QED
    BY <2>3, <2>4
<1>11. Adds(S, B)
  BY DEF Adds
<1> HIDE DEF its, low, low1
<1>12. /\ Len(its) = HeightOf(S, n) /\ Len(low) \in Nat /\ FieldsOK(S, low)
       /\ Len(low1) \in Nat /\ OneofsOK(S, low1)
  <2>1. d.seenFields \in Seq(SUBSET Nat) /\ d.seenOneof \in Seq(OneofStates)
    BY <1>5 DEF Sane, IsCxt
  <2>2. ItemsOK(S, d.items, d.tree) /\ SeenOK(S, d)
    BY <1>5 DEF Stacks
  <2>3. FieldsOK(S, d.seenFields) /\ OneofsOK(S, d.seenOneof)
    BY <2>2 DEF SeenOK
  <2>4. Len(d.items) = HeightOf(S, n)
    BY <2>2 DEF ItemsOK
  <2>5. Len(low) \in Nat /\ Len(low1) \in Nat
    BY <1>7, <2>1
  <2> QED
    BY <1>7, <2>3, <2>4, <2>5
<1>13. Grows(S, tok, B, tok2, its, c.items, low, c.seenFields, low1, c.seenOneof)
  BY <1>8, <1>9, <1>10, <1>11, <1>12 DEF Grows, Grown
<1>14. /\ DOMAIN V = OwnOf(S) /\ DOMAIN W = OwnOf(B) /\ n + 1 \notin OwnOf(S)
       /\ OwnOf(B) = OwnOf(S) \cup {n + 1} /\ \A i \in OwnOf(S) : W[i] = V[i]
  <2> HIDE DEF m
  <2> QED
    BY <1>11, <1>13, ViewGrown DEF ViewOf
<1> HIDE DEF V, W
<1>15. Told(W, OwnOf(S), c.tree, NULL) /\ Nested(W)
  <2>1. OwnOf(B) \ {Len(B)} = OwnOf(S)
    BY <1>1, <1>14
  <2> QED
    BY <2>1 DEF Knows, W
<1>16. Nested(V) /\ Told(V, OwnOf(S), c.tree, NULL)
  <2>1. DOMAIN V \subseteq DOMAIN W /\ \A i \in DOMAIN V : V[i] = W[i]
    BY <1>14
  <2>2. Told(W, DOMAIN V, c.tree, NULL)
    BY <1>14, <1>15
  <2>3. Nested(V) /\ Told(V, DOMAIN V, c.tree, NULL)
    BY <1>15, <2>1, <2>2, LeftTold
  <2> QED
    BY <1>14, <2>3
<1>17. ViewOf(S, d) = V
  BY <1>7 DEF ViewOf, V
<1> QED
  BY <1>7, <1>16, <1>17 DEF Knows, d

----------------------------------------------------------------------------
(* The actions that continue a call.                                               *)

Complete(L, tok, c) == Knows(L, NotEnded(L, tok), c)

\* Until END_MESSAGE every open message is known as one that has not ended.
LEMMA StillOpen ==
    ASSUME NEW L, NEW tok, tok # "END_MESSAGE", NEW c
    PROVE  Complete(L, tok, c) <=> Knows(L, OwnOf(L), c)
BY DEF Complete, NotEnded

\* What is known only depends on what the levels push.
LEMMA KnownAlike ==
    ASSUME NEW L, NEW tok, LevelsOK(L, tok), NEW M, NEW tok2, LevelsOK(M, tok2),
           Len(M) = Len(L), \A i \in DOMAIN L : Alike(L[i], M[i]), NEW c, Knows(L, OwnOf(L), c)
    PROVE  Knows(M, OwnOf(M), c)
<1>1. ViewOf(M, c) = ViewOf(L, c)
  BY ViewAlike DEF ViewOf
<1>2. OwnOf(M) = OwnOf(L)
  BY AlikeCounts DEF LevelsOK
<1> QED
  BY <1>1, <1>2 DEF Knows

\* One lemma per action: a scalar,
LEMMA ScalarComplete ==
    ASSUME LevelsOK(levels, token), Sane(cxt), Stacks(levels, cxt), Complete(levels, token, cxt),
           ScalarField
    PROVE  Complete(levels', token', cxt')
<1> DEFINE L == levels'
           top == L[Len(L)]
<1>1. /\ LevelsOK(L, "FIELD") /\ token' = "FIELD"
      /\ Len(L) = Len(levels) /\ \A i \in DOMAIN levels : Alike(levels[i], L[i])
  BY FieldLevels DEF ScalarField
<1>2. token # "END_MESSAGE"
  BY DEF ScalarField, Tok!Field, Tok!Asked
<1>3. Stacks(L, cxt) /\ Knows(L, OwnOf(L), cxt)
  BY <1>1, <1>2, StacksAlike, KnownAlike, StillOpen
<1>4. Schema[top.type][top.field].message = NoMessage /\ cxt' \in Scalars(top)
  BY DEF ScalarField, Last
<1>5. Entered(top) /\ top \in Levels
  BY <1>1, LevelIs DEF LevelsOK
<1>6. ~OpenMap(top)
  <2>1. NoMessage \notin Entries
    BY RootAssumption, MapsAssumption
  <2> QED
    BY <1>4, <1>5, <2>1, EntryIs
<1> HIDE DEF L
<1>7. Knows(L, OwnOf(L), cxt')
  <2>1. CASE InEntry(top) /\ top.field = KeyField
    <3>1. PICK k \in Keys : cxt' = OnKey(cxt, k)
      BY <1>4, <2>1 DEF Scalars
    <3> QED
      BY <1>1, <1>3, <2>1, <3>1, KeyKnown
  <2>2. CASE ~(InEntry(top) /\ top.field = KeyField)
    <3>1. InEntry(top) => top.field = ValueField
      BY <1>5, <2>2, EntriesAssumption DEF Entered, InEntry
    <3>2. cxt' = OnScalar(cxt, top.field) \/ cxt' = OnUnknownEnum(cxt, top.field)
      BY <1>4, <2>2 DEF Scalars
    <3>3. CASE cxt' = OnScalar(cxt, top.field)
      BY <1>1, <1>3, <1>6, <3>1, <3>3, ScalarKnown
    <3>4. CASE cxt' = OnUnknownEnum(cxt, top.field)
      BY <1>1, <1>3, <1>6, <3>1, <3>4, EnumKnown
    <3> QED
      BY <3>2, <3>3, <3>4
  <2> QED
    BY <2>1, <2>2
<1> QED
  BY <1>1, <1>7, StillOpen DEF L

\* a field of which nothing is stored yet,
LEMMA FieldComplete ==
    ASSUME LevelsOK(levels, token), Sane(cxt), Stacks(levels, cxt), Complete(levels, token, cxt),
           MessageField \/ UnknownField
    PROVE  Complete(levels', token', cxt')
<1>1. /\ LevelsOK(levels', token') /\ token' # "END_MESSAGE"
      /\ Len(levels') = Len(levels) /\ \A i \in DOMAIN levels : Alike(levels[i], levels'[i])
  BY FieldLevels, UnknownLevels DEF MessageField, UnknownField
<1>2. token # "END_MESSAGE" /\ cxt' = cxt
  BY DEF MessageField, UnknownField, Tok!Field, Tok!UnknownField, Tok!Asked
<1>3. Knows(levels', OwnOf(levels'), cxt)
  BY <1>1, <1>2, KnownAlike, StillOpen
<1> QED
  BY <1>1, <1>2, <1>3, StillOpen

\* the start of a repeated field
LEMMA StartSequenceComplete ==
    ASSUME LevelsOK(levels, token), Sane(cxt), Stacks(levels, cxt), Complete(levels, token, cxt),
           StartSequence
    PROVE  Complete(levels', token', cxt')
<1>1. /\ LevelsOK(levels', "START_SEQUENCE") /\ token' = "START_SEQUENCE"
      /\ Opened(levels, levels') /\ Len(levels') = Len(levels)
  BY StartLevels DEF StartSequence
<1>2. token # "END_MESSAGE"
  BY DEF StartSequence, Tok!StartSequence, Tok!Asked
<1> DEFINE top == levels'[Len(levels)]
<1>3. cxt' = OnStartMap(cxt, top.field) \/ cxt' = OnStartSequence(cxt, top.field)
  BY <1>1 DEF StartSequence, Last
<1>4. Knows(levels, OwnOf(levels), cxt)
  BY <1>2, StillOpen
<1>5. Knows(levels', OwnOf(levels'), cxt')
  BY <1>1, <1>3, <1>4, StartMapKnown, StartListKnown
<1> QED
  BY <1>1, <1>5, StillOpen

\* and its end,
LEMMA EndSequenceComplete ==
    ASSUME Run(levels, token, cxt), Sane(cxt), Complete(levels, token, cxt), EndSequence
    PROVE  Complete(levels', token', cxt')
<1> DEFINE top == levels[Len(levels)]
<1>1. LevelsOK(levels, token) /\ Stacks(levels, cxt) /\ PendingOK(levels, token, cxt)
  BY DEF Run
<1>2. /\ LevelsOK(levels', "END_SEQUENCE") /\ token' = "END_SEQUENCE"
      /\ Opened(levels', levels) /\ Len(levels') = Len(levels)
      /\ ~(token = "FIELD" /\ OpenMap(top))
  BY <1>1, EndLevels DEF EndSequence
<1>3. token # "END_MESSAGE"
  BY DEF EndSequence, Tok!EndSequence, Tok!Asked
<1>4. cxt' = IF Traits[top.type][top.field].map THEN OnEndMap(cxt) ELSE OnEndSequence(cxt)
  BY DEF EndSequence, Current, Last
<1>5. OpenMap(top) \/ OpenList(top)
  BY <1>2 DEF Opened
<1>6. Knows(levels, OwnOf(levels), cxt)
  BY <1>3, StillOpen
<1>7. Knows(levels', OwnOf(levels'), cxt')
  <2>1. CASE OpenMap(top)
    <3>1. cxt' = OnEndMap(cxt)
      BY <1>4, <2>1 DEF OpenMap
    <3>2. Last(cxt.items) = NULL
      BY <1>1, <1>2, <2>1 DEF PendingOK
    <3> QED
      BY <1>1, <1>2, <1>6, <2>1, <3>1, <3>2, EndMapKnown
  <2>2. CASE OpenList(top)
    <3>1. cxt' = OnEndSequence(cxt)
      BY <1>4, <2>2 DEF OpenList
    <3> QED
      BY <1>1, <1>2, <1>6, <2>2, <3>1, EndListKnown
  <2> QED
    BY <1>5, <2>1, <2>2
<1> QED
  BY <1>2, <1>7, StillOpen

\* An entry has no view of its own.
LEMMA EntryKnown ==
    ASSUME NEW S, NEW tok, LevelsOK(S, tok), NEW B, NEW tok2, LevelsOK(B, tok2), Deeper(S, B),
           InEntry(B[Len(S) + 1]), NEW c, Sane(c), Stacks(S, c)
    PROVE  Knows(S, OwnOf(S), c) <=> Knows(B, OwnOf(B), c)
<1>1. /\ Len(c.items) = HeightOf(S, Len(S)) /\ FieldsOK(S, c.seenFields) /\ OneofsOK(S, c.seenOneof)
      /\ Len(c.seenFields) \in Nat /\ Len(c.seenOneof) \in Nat
  BY DEF Stacks, ItemsOK, SeenOK, Sane, IsCxt
<1>2. Grown(S, B) /\ ~Adds(S, B)
  BY DEF Grown, Adds
<1>3. OwnOf(B) = OwnOf(S) /\ \A D : Knows(S, D, c) <=> Knows(B, D, c)
  BY <1>1, <1>2, KnownGrown
<1> QED
  BY <1>3

\* the start of a message
LEMMA StartMessageComplete ==
    ASSUME LevelsOK(levels, token), Sane(cxt), Stacks(levels, cxt), Complete(levels, token, cxt),
           StartMessage
    PROVE  Complete(levels', token', cxt')
<1> DEFINE n == Len(levels)
           top == levels[n]
           B == levels'
<1>1. /\ LevelsOK(B, "none") /\ token' = "none" /\ Deeper(levels, B)
      /\ LevelsOK(levels, "FIELD")
      /\ B[Len(B)].type = Schema[top.type][top.field].message /\ B[Len(B)].type \in Messages
      /\ InEntry(B[Len(B)]) => OpenMap(top)
      /\ ~InEntry(B[Len(B)]) => ~OpenMap(top)
  BY EnterLevels DEF StartMessage
<1>2. Len(B) = n + 1
  BY <1>1 DEF Deeper
<1>3. Knows(levels, OwnOf(levels), cxt)
  <2>1. token # "END_MESSAGE"
    BY DEF StartMessage, Tok!StartMessage, Tok!EntersMessage
  <2> QED
    BY <2>1, StillOpen
<1>4. Knows(B, OwnOf(B), cxt')
  <2>1. CASE InEntry(B[Len(B)])
    <3>1. cxt' = cxt
      BY <2>1 DEF StartMessage, Last
    <3> QED
      BY <1>1, <1>2, <1>3, <2>1, <3>1, EntryKnown
  <2>2. CASE ~InEntry(B[Len(B)])
    <3>1. PICK junk \in Junk(B[Len(B)].type) : cxt' = OnStartSubMessage(cxt, top.field, junk)
      BY <2>2 DEF StartMessage, Current, Last
    <3> QED
      BY <1>1, <1>2, <1>3, <2>2, <3>1, StartOwnKnown
  <2> QED
    BY <2>1, <2>2
<1> QED
  BY <1>1, <1>4, StillOpen

\* and its end.
LEMMA EndMessageComplete ==
    ASSUME LevelsOK(levels, token), Sane(cxt), Stacks(levels, cxt), Complete(levels, token, cxt),
           EndMessage
    PROVE  Complete(levels', token', cxt')
<1> DEFINE n == Len(levels)
           top == levels[n]
           S == levels'
<1>1. /\ LevelsOK(S, "none") /\ token' = "none" /\ Deeper(S, levels) /\ n = Len(S) + 1
      /\ InEntry(top) <=> OpenMap(S[Len(S)])
  BY LeaveLevels DEF EndMessage
<1>2. /\ token = "END_MESSAGE"
      /\ cxt' = IF InEntry(top) THEN OnEndMapEntry(cxt) ELSE OnEndSubMessage(cxt)
  BY DEF EndMessage, Current, Last, Tok!EndMessage
<1>3. Knows(S, OwnOf(S), cxt')
  <2>1. CASE InEntry(top)
    <3>1. cxt' = OnEndMapEntry(cxt) /\ Knows(levels, OwnOf(levels), cxt)
      BY <1>2, <2>1 DEF Complete, NotEnded
    <3>2. Knows(levels, OwnOf(levels), cxt')
      BY <2>1, <3>1, EndEntryKnown
    <3>3. Sane(cxt') /\ Stacks(S, cxt')
      BY EndMessageStep
    <3> QED
      BY <1>1, <2>1, <3>2, <3>3, EntryKnown
  <2>2. CASE ~InEntry(top)
    <3>1. cxt' = OnEndSubMessage(cxt) /\ Knows(levels, OwnOf(levels) \ {n}, cxt)
      BY <1>2, <2>2 DEF Complete, NotEnded
    <3> QED
      BY <1>1, <2>2, <3>1, EndOwnKnown
  <2> QED
    BY <2>1, <2>2
<1> QED
  BY <1>1, <1>3, StillOpen

----------------------------------------------------------------------------
(* The start and the end of a call.                                                *)

\* What is told of the hashes does not need the stacks.
Lone(c) == \A p \in HashesIn(c.tree) : AloneInOnePiece(c.tree, p)
Filled(c) == \A p \in HashesIn(c.tree) : Full(c.tree, p)

\* What is known when no message is open any more is the properties.
LEMMA KnownLone ==
    ASSUME NEW c, Sane(c), NEW L, NEW D, Knows(L, D, c)
    PROVE  Lone(c) /\ (D = {} => Filled(c))
<1> DEFINE V == ViewOf(L, c)
<1>1. Told(V, D, c.tree, NULL)
  BY DEF Knows
<1>2. Shaped(c.tree)
  BY DEF Sane, TreeOK
<1> HIDE DEF V
<1>3. ASSUME NEW p \in HashesIn(c.tree)
      PROVE  AloneInOnePiece(c.tree, p) /\ (D = {} => Full(c.tree, p))
  <2>1. p # NULL
    BY <1>2, HashTypes
  <2> QED
    BY <1>1, <2>1 DEF Told
<1> QED
  BY <1>3 DEF Lone, Filled

\* A call that has just begun knows an empty hash.
LEMMA PreparedKnown ==
    ASSUME NEW v \in Levels, v.seq = "none", NEW c, Sane(c), NEW junk \in Junk(RootOf(c)),
           v.type = RootOf(c)
    PROVE  Knows(<<v>>, OwnOf(<<v>>), Prepared(c, junk))
<1> DEFINE d == Prepared(c, junk)
           m == RootOf(c)
           L == <<v>>
           V == ViewOf(L, d)
           t == d.tree
<1>1. junk \in SUBSET Nat /\ junk \cap FieldsOf(m) = {}
  BY JunkIs
<1>2. /\ Sane(d) /\ d.items = <<<<>>>> /\ t = [p \in {<<>>} |-> Hash(m, 1)]
      /\ TracksSeen(m) => d.seenFields = <<junk>>
      /\ m \in Roots /\ m \in Messages
  <2>1. TracksSeen(m) => d.seenFields = <<junk>>
    BY DEF Prepared, ResetSeen
  <2> HIDE DEF d
  <2> QED
    BY <1>1, <2>1, PreparedSane DEF d
<1>3. /\ LevelsOK(L, "none") /\ L[1] = v /\ OwnOf(L) = {1} /\ HeightOf(L, 0) = 0
      /\ TrackingOf(L) = (IF TracksSeen(m) THEN {1} ELSE {})
  BY <1>2, LoneLevel
<1> HIDE DEF d, t, L
<1>4. /\ DOMAIN V = {1} /\ V[1].hash = <<>> /\ V[1].type = m
      /\ V[1].seen \cap FieldsOf(m) = {}
  <2>1. 1 - 1 = 0 /\ 0 + 1 = 1 /\ d.items[1] = <<>>
    BY <1>2
  <2>2. ASSUME TracksSeen(m)
        PROVE  SeenOf(L, d.seenFields, 1) = junk
    <3>1. TrackingOf(L) = {1} /\ d.seenFields = <<junk>>
      BY <1>2, <1>3, <2>2
    <3>2. Cardinality({1}) = 1 /\ Upto({1}, 1) = 1
      <4>1. {i \in {1} : i <= 1} = {1}
        OBVIOUS
      <4> QED
        BY <4>1, FS_Singleton DEF Upto
    <3>3. EntryAt(d.seenFields, TrackingOf(L), 1) = junk
      BY <3>1, <3>2 DEF EntryAt
    <3> QED
      BY <1>3, <2>2, <3>3 DEF SeenOf
  <2>3. ~TracksSeen(m) => SeenOf(L, d.seenFields, 1) = {}
    BY <1>3 DEF SeenOf
  <2>4. SeenOf(L, d.seenFields, 1) \cap FieldsOf(m) = {}
    BY <1>1, <2>2, <2>3
  <2> QED
    BY <1>3, <2>1, <2>4 DEF ViewOf, View
<1> DEFINE at == <<>>
           W == [i \in {} |-> V]
<1>5. /\ DOMAIN t = {at} /\ t[at].type = m /\ t[at].chunks = 1
      /\ DOMAIN W = {} /\ HashesIn(t) \subseteq {at}
  BY <1>2 DEF Hash, HashesIn
<1>6. \A g \in Nat : ~HasIn(t, at, g)
  BY <1>5, FieldChild, EmptySeq DEF HasIn, Paths
<1> HIDE DEF V, W, at
<1>7. EntersAt(W, V, 1, t, at)
  BY <1>2, <1>4, <1>5, <1>6 DEF EntersAt, at
<1>8. Told(W, DOMAIN W, t, at)
  BY <1>5 DEF Told
<1>9. Told(V, DOMAIN V, t, NULL)
  BY <1>7, <1>8, EnteredTold
<1>10. Nested(V)
  BY <1>4 DEF Nested
<1> QED
  BY <1>3, <1>4, <1>9, <1>10 DEF Knows, V, L, d, t

\* The end of a message: either what its end has told of it, or its hash as it was.
LEMMA EndOfMessageComplete ==
    ASSUME LevelsOK(levels, token), Sane(cxt), Stacks(levels, cxt), Complete(levels, token, cxt),
           Tok!EndOfMessage
    PROVE  LET done == OnEndMessage(cxt)
               D == NotEnded(levels, "END_MESSAGE")
           IN  /\ Sane(done)
               /\ \/ Knows(levels, D, done)
                  \/ done.missing # NoField /\ done.tree = cxt.tree
               /\ Len(levels) = 1 => D = {}
<1> DEFINE done == OnEndMessage(cxt)
           D == NotEnded(levels, "END_MESSAGE")
           top == levels[Len(levels)]
<1>1. /\ token' = "END_MESSAGE" /\ levels' = levels /\ ~OpenMap(top) /\ ~OpenList(top)
  BY EndOfMessageLevels
<1>2. Knows(levels, OwnOf(levels), cxt)
  <2>1. token # "END_MESSAGE"
    BY DEF Tok!EndOfMessage, Tok!Asked
  <2> QED
    BY <2>1, StillOpen
<1>3. Sane(done)
  BY <1>1, EndOfMessageStacks
<1>4. Len(levels) = 1 => D = {}
  <2>1. DOMAIN levels = 1..Len(levels) /\ ~InEntry(levels[1])
    BY LevelIs
  <2> QED
    BY <2>1 DEF NotEnded, OwnOf
<1>5. CASE cxt.track => MissingRequired(cxt) = {}
  BY <1>1, <1>2, <1>3, <1>4, <1>5, EndOfMessageKnown
<1>6. CASE cxt.track /\ MissingRequired(cxt) # {}
  <2> DEFINE f == CHOOSE f \in MissingRequired(cxt) : \A g \in MissingRequired(cxt) : f <= g
  <2>1. Mapper(cxt) \in Messages /\ IsObject(cxt)
    BY MapperIs DEF Sane, IsCxt, Stacks
  <2>2. f # NoField
    BY <1>6, <2>1, MissingIs
  <2>3. done = [cxt EXCEPT !.missing = f]
    BY <1>6 DEF OnEndMessage
  <2> HIDE DEF f, done
  <2>4. done.missing = f /\ done.tree = cxt.tree
    BY <2>1, <2>3 DEF IsObject, Object
  <2> QED
    BY <1>3, <1>4, <2>2, <2>4 DEF done
<1> QED
  BY <1>5, <1>6

----------------------------------------------------------------------------
(* The inductive invariant.                                                        *)

\* What the handlers have seen of the open messages agrees with their hashes, and the
\* others have what is due to them; whatever becomes of the call, no hash of a message
\* that came in one piece has two members of a oneof.
CInv ==
    /\ IInv
    /\ Lone(cxt)
    /\ outcome = "running" => Complete(levels, token, cxt)
    /\ outcome = "decoded" => Filled(cxt)

\* A call that goes on keeps the invariant if what is known of it is kept.
LEMMA ContentContinued ==
    ASSUME IInv', Complete(levels', token', cxt'), outcome' # "decoded"
    PROVE  CInv'
<1>1. Sane(cxt')
  BY DEF IInv
<1>2. Lone(cxt')
  BY <1>1, KnownLone DEF Complete
<1> QED
  BY <1>2 DEF CInv

\* So do all tokens but the end of the message of the call,
LEMMA TokensContent ==
    ASSUME CInv,
           \/ ScalarField \/ MessageField \/ UnknownField \/ StartSequence \/ EndSequence
           \/ StartMessage \/ EndMessage
    PROVE  CInv'
<1>1. IInv'
  BY TokensInv DEF CInv
<1>2. outcome = "running" /\ outcome' # "decoded"
  BY DEF ScalarField, MessageField, UnknownField, StartSequence, EndSequence, StartMessage,
         EndMessage, Running, Token
<1>3. /\ LevelsOK(levels, token) /\ Sane(cxt) /\ Stacks(levels, cxt) /\ Run(levels, token, cxt)
      /\ Complete(levels, token, cxt)
  BY <1>2, RunningIs DEF CInv
<1>4. Complete(levels', token', cxt')
  BY <1>3, ScalarComplete, FieldComplete, StartSequenceComplete, EndSequenceComplete,
     StartMessageComplete, EndMessageComplete
<1> QED
  BY <1>1, <1>2, <1>4, ContentContinued

\* The call ends, and its hash stays as it is.
LEMMA ContentEnded ==
    ASSUME IInv', NEW c, Sane(c), cxt' = Cleared(c), Lone(c), outcome' # "running",
           outcome' = "decoded" => Filled(c)
    PROVE  CInv'
<1>1. cxt'.tree = c.tree
  BY ClearedSane
<1> QED
  BY <1>1 DEF CInv, Lone, Filled

\* this one,
LEMMA EndOfMessageContent ==
    ASSUME CInv, EndOfMessage
    PROVE  CInv'
<1> DEFINE done == OnEndMessage(cxt)
           D == NotEnded(levels, "END_MESSAGE")
<1>1. IInv'
  BY EndOfMessageInv DEF CInv
<1>2. outcome = "running" /\ Tok!EndOfMessage
  BY DEF EndOfMessage, Token
<1>3. LevelsOK(levels, token) /\ Sane(cxt) /\ Stacks(levels, cxt) /\ Complete(levels, token, cxt)
  BY <1>2, RunningIs DEF CInv
<1>4. /\ Sane(done) /\ (Knows(levels, D, done) \/ (done.missing # NoField /\ done.tree = cxt.tree))
      /\ Len(levels) = 1 => D = {}
  BY <1>2, <1>3, EndOfMessageComplete
<1>5. \/ done.missing # NoField /\ cxt' = Cleared(done) /\ outcome' = "failed"
      \/ done.missing = NoField /\ cxt' = Cleared(done) /\ outcome' = "decoded" /\ Len(levels) = 1
      \/ done.missing = NoField /\ cxt' = done /\ outcome' = "running"
  BY DEF EndOfMessage
<1>6. token' = "END_MESSAGE" /\ levels' = levels
  BY <1>2 DEF Tok!EndOfMessage
<1>7. Lone(done) /\ (D = {} /\ done.missing = NoField => Filled(done))
  <2>1. CASE Knows(levels, D, done)
    <3> HIDE DEF D, done
    <3> QED
      BY <1>4, <2>1, KnownLone
  <2>2. CASE done.missing # NoField /\ done.tree = cxt.tree
    BY <2>2 DEF CInv, Lone
  <2> QED
    BY <1>4, <2>1, <2>2
<1> HIDE DEF done, D
<1>8. CASE outcome' # "running"
  BY <1>1, <1>4, <1>5, <1>7, <1>8, ContentEnded
<1>9. CASE done.missing = NoField /\ cxt' = done /\ outcome' = "running"
  <2>1. Complete(levels', token', cxt')
    BY <1>4, <1>6, <1>9 DEF Complete, D
  <2> QED
    BY <1>1, <1>9, <2>1, ContentContinued
<1> QED
  BY <1>5, <1>8, <1>9

\* an error of the tokenizer,
LEMMA ErrorContent ==
    ASSUME CInv, Error
    PROVE  CInv'
<1>1. IInv' /\ Sane(cxt)
  BY ErrorInv DEF CInv, IInv
<1>2. cxt' = Cleared(cxt) /\ outcome' = "failed"
  BY DEF Error
<1> QED
  BY <1>1, <1>2, ContentEnded DEF CInv

\* and the next call.
LEMMA PrepareContent ==
    ASSUME CInv, Prepare
    PROVE  CInv'
<1> DEFINE v == Tok!Level(RootOf(cxt), NoField, "none")
<1>1. PICK junk \in Junk(RootOf(cxt)) : cxt' = Prepared(cxt, junk)
  BY DEF Prepare
<1>2. IInv' /\ Sane(cxt)
  BY PrepareInv DEF CInv, IInv
<1>3. v \in Levels /\ v.seq = "none" /\ v.type = RootOf(cxt)
  <2>1. RootOf(cxt) \in Messages
    BY <1>2, JunkIs, PreparedSane
  <2> QED
    BY <2>1 DEF Tok!Level, Levels, NoField
<1>4. levels' = <<v>> /\ token' = "none" /\ outcome' = "running"
  BY DEF Prepare
<1> HIDE DEF v
<1>5. Knows(<<v>>, OwnOf(<<v>>), Prepared(cxt, junk))
  BY <1>2, <1>3, PreparedKnown
<1>6. Complete(levels', token', cxt')
  BY <1>1, <1>4, <1>5, StillOpen
<1> QED
  BY <1>2, <1>4, <1>6, ContentContinued

\* It holds before the first call.
LEMMA InitContent ==
    ASSUME Init
    PROVE  CInv
<1>1. outcome = "none"
  BY DEF Init
<1>2. cxt.tree = [p \in {} |-> Undef]
  BY DEF Init, NoCall
<1>3. HashesIn(cxt.tree) = {}
  BY <1>2 DEF HashesIn
<1> QED
  BY <1>1, <1>3, InitInv DEF CInv, Lone

\* It is inductive.
LEMMA NextContent ==
    ASSUME CInv, [Next]_vars
    PROVE  CInv'
<1>1. CASE Next
  BY <1>1, TokensContent, EndOfMessageContent, ErrorContent, PrepareContent DEF Next
<1>2. CASE UNCHANGED vars
  <2>1. IInv'
    BY <1>2, NextInv DEF CInv
  <2>2. /\ levels' = levels /\ token' = token /\ cxt' = cxt /\ outcome' = outcome
    BY <1>2 DEF vars
  <2> QED
    BY <2>1, <2>2 DEF CInv
<1> QED
  BY <1>1, <1>2

\* What the handlers know of the messages is true of the hash in every state of every
\* sequence of calls.
THEOREM ContentInvariant == Spec => []CInv
<1>1. Init => CInv
  BY InitContent
<1>2. CInv /\ [Next]_vars => CInv'
  BY NextContent
<1> QED
  BY <1>1, <1>2, PTL DEF Spec

----------------------------------------------------------------------------
(* What a decoded message contains.                                                *)

\* At its end a message has what is due to it, and so have the messages in it.
LEMMA DecodedFull ==
    ASSUME CInv, outcome = "decoded", NEW p \in Hashes,
           NEW f \in FieldsOf(cxt.tree[p].type) \ Borrowed(cxt.tree[p].type),
           Due(cxt.tree[p].type, f)
    PROVE  Has(p, f)
<1>1. p \in HashesIn(cxt.tree)
  BY DEF Hashes, HashesIn
<1>2. Full(cxt.tree, p)
  BY <1>1 DEF CInv, Filled
<1> QED
  BY <1>2 DEF Full, Firm, Has, HasIn

\* A decoded message has all its required fields, and so have the messages in it, but for
\* the fields that the entries of its maps borrow: run_bbpb_decoder never returns a hash
\* that apply_defaults_and_check should have refused.
THEOREM RequiredArePresent == Spec => []RequiredPresent
<1>1. CInv => RequiredPresent
  <2> SUFFICES ASSUME CInv, outcome = "decoded", NEW p \in Hashes, CheckRequired(cxt.tree[p].type),
                      NEW f \in Required(cxt.tree[p].type) \ Borrowed(cxt.tree[p].type)
               PROVE  Has(p, f)
    BY DEF RequiredPresent
  <2>1. Due(cxt.tree[p].type, f) /\ f \in FieldsOf(cxt.tree[p].type)
    BY DEF Due, Required
  <2> QED
    BY <2>1, DecodedFull
<1> QED
  BY <1>1, ContentInvariant, PTL

\* With explicit_defaults a decoded message has all the fields with a default, but for those
\* that are borrowed, whatever the messages in it or around it have set or left out.
THEOREM DefaultsArePresent == Spec => []DefaultsPresent
<1>1. CInv => DefaultsPresent
  <2> SUFFICES ASSUME CInv, outcome = "decoded", NEW p \in Hashes, Explicit[cxt.tree[p].type],
                      NEW f \in FieldsOf(cxt.tree[p].type) \ Borrowed(cxt.tree[p].type),
                      HasDefault(cxt.tree[p].type, f)
               PROVE  Has(p, f)
    BY DEF DefaultsPresent
  <2>1. Due(cxt.tree[p].type, f)
    BY DEF Due
  <2> QED
    BY <2>1, DecodedFull
<1> QED
  BY <1>1, ContentInvariant, PTL

\* A message that came in one piece has at most one member of each oneof, at any time of a
\* call and after it, whether or not it succeeds: mark_seen and the stack of oneofs do not
\* mix the oneofs of nested messages, or those of two calls.
THEOREM OneofsAreExclusive == Spec => []OneofExclusiveInOnePiece
<1>1. CInv => OneofExclusiveInOnePiece
  <2> SUFFICES ASSUME CInv, NEW p \in Hashes, cxt.tree[p].chunks = 1
               PROVE  Exclusive(p)
    BY DEF OneofExclusiveInOnePiece
  <2>1. p \in HashesIn(cxt.tree)
    BY DEF Hashes, HashesIn
  <2>2. Alone(cxt.tree, p)
    BY <2>1 DEF CInv, Lone, AloneInOnePiece
  <2> QED
    BY <2>2 DEF Alone, Exclusive, Has, HasIn
<1> QED
  BY <1>1, ContentInvariant, PTL

\* Only apply_defaults_and_check names a missing field.
LEMMA MissingKept ==
    ASSUME NEW c, IsObject(c), ~(c.track /\ MissingRequired(c) # {})
    PROVE  OnEndMessage(c).missing = c.missing
<1>1. DefaultFields(c).missing = c.missing
  <2>1. DefaultFields(c) = Object(c.mappers, c.items, c.mapKeys, c.seenFields, c.seenOneof, c.track,
                                  PutAll(c.tree, DefaultPaths(c), Default), c.missing, c.crashed)
    BY DefaultFieldsIs
  <2> QED
    BY <2>1 DEF Object
<1>2. DefaultEntry(c).missing = c.missing
  <2> DEFINE v == ValueField \in ToDefault(c)
             items == IF v THEN TargetItems(c, ValueField) ELSE c.items
             one == IF v THEN TargetOneof(c, ValueField) ELSE c.seenOneof
             tree == IF v THEN Put(TargetTree(c, ValueField), TargetPath(c, ValueField), Default)
                     ELSE c.tree
  <2>1. DefaultEntry(c) = Object(c.mappers, items, DefaultKeys(c), c.seenFields, one, c.track, tree,
                                 c.missing, c.crashed)
    BY DefaultEntryIs
  <2> HIDE DEF items, one, tree
  <2> QED
    BY <2>1 DEF Object
<1> QED
  BY <1>1, <1>2 DEF OnEndMessage

\* The field that the end of a message in one piece misses is not in its hash.
LEMMA MissingIsNotThere ==
    ASSUME CInv, outcome = "running", EndOfMessage, ~InEntry(Current),
           cxt.tree[cxt.items[Len(cxt.items)]].chunks = 1
    PROVE  MissingStep(Last(cxt.items))
<1> DEFINE L == levels
           n == Len(levels)
           m == L[n].type
           V == ViewOf(L, cxt)
           t == cxt.tree
           done == OnEndMessage(cxt)
<1>1. Tok!EndOfMessage /\ Current = L[n]
  BY DEF EndOfMessage, Current, Last
<1>2. LevelsOK(L, token) /\ Sane(cxt) /\ Stacks(L, cxt) /\ Complete(L, token, cxt)
  BY RunningIs DEF CInv
<1>3. ~OpenMap(L[n]) /\ ~OpenList(L[n])
  BY <1>1, <1>2, EndOfMessageLevels
<1>4. Told(V, OwnOf(L), t, NULL)
  <2>1. token # "END_MESSAGE"
    BY <1>1 DEF Tok!EndOfMessage, Tok!Asked
  <2> QED
    BY <1>2, <2>1, StillOpen DEF Knows
<1>5. MapLevel(L) = n /\ ~Free(L)
  BY <1>1, <1>3 DEF MapLevel, Free
<1>6. /\ Around(V, t, V[n].hash) /\ n \in DOMAIN V /\ DOMAIN V = OwnOf(L) /\ V[n].type = m
      /\ Last(cxt.items) = V[n].hash /\ cxt.items[Len(cxt.items)] = V[n].hash
  <2>1. ItemsOK(L, cxt.items, t)
    BY <1>2 DEF Stacks
  <2>2. Around(V, t, Base(L, cxt.items)) /\ Base(L, cxt.items) = V[n].hash
    BY <1>2, <1>3, <1>5, <2>1, AroundOf
  <2>3. Last(cxt.items) = Base(L, cxt.items)
    BY <1>5 DEF Base, Last
  <2> QED
    BY <1>2, <1>5, <2>1, <2>2, <2>3, AroundOf DEF Last
<1>7. /\ Mapper(cxt) = m /\ m \in Messages /\ cxt.track = TracksSeen(m) /\ IsObject(cxt)
      /\ TracksSeen(m) => V[n].seen = Last(cxt.seenFields)
  <2>1. Retop(L, cxt, cxt.items, cxt.seenFields, cxt.seenOneof)
    BY DEF Retop
  <2>2. TracksSeen(m) => V[n].seen = Last(cxt.seenFields)
    BY <1>2, <1>5, <2>1, Retopped
  <2>3. /\ cxt.mappers \in Seq(Messages) /\ cxt.mappers # <<>> /\ MappersOK(L, cxt) /\ IsObject(cxt)
    BY <1>2 DEF Sane, IsCxt, Stacks
  <2> QED
    BY <1>2, <1>3, <2>2, <2>3, MapperIs DEF MappersOK
<1>8. cxt'.missing = done.missing
  <2>1. Sane(done)
    BY <1>1, <1>2, EndOfMessageComplete
  <2>2. cxt' = done \/ cxt' = Cleared(done)
    BY DEF EndOfMessage
  <2> HIDE DEF done
  <2> QED
    BY <2>1, <2>2, ClearedSane
<1>9. t[V[n].hash].type = m
  BY <1>6 DEF Around
<1>10. CASE ~(cxt.track /\ MissingRequired(cxt) # {})
  <2>1. cxt'.missing = cxt.missing
    BY <1>7, <1>8, <1>10, MissingKept
  <2> QED
    BY <2>1 DEF MissingStep
<1>11. CASE cxt.track /\ MissingRequired(cxt) # {}
  <2> DEFINE f == CHOOSE f \in MissingRequired(cxt) : \A g \in MissingRequired(cxt) : f <= g
  <2>1. f \in MissingRequired(cxt) /\ f \in FieldsOf(m)
    BY <1>7, <1>11, MissingIs
  <2>2. done = [cxt EXCEPT !.missing = f]
    BY <1>11 DEF OnEndMessage
  <2> HIDE DEF f, done
  <2>3. cxt'.missing = f
    BY <1>7, <1>8, <2>2 DEF IsObject, Object
  <2>4. f \notin Last(cxt.seenFields)
    BY <2>1 DEF MissingRequired, Unseen
  <2>5. CASE f \in Borrowed(m)
    BY <1>6, <1>9, <2>3, <2>5 DEF MissingStep
  <2>6. CASE f \notin Borrowed(m)
    <3>1. f \in Firm(m) /\ TracksSeen(m)
      BY <1>7, <1>11, <2>1, <2>6 DEF Firm
    <3>2. ThereSeen(t, V[n])
      BY <1>4, <1>6 DEF Told
    <3>3. ~HasIn(t, V[n].hash, f)
      BY <1>6, <1>7, <2>4, <3>1, <3>2 DEF ThereSeen
    <3> QED
      BY <1>6, <2>3, <3>3 DEF MissingStep, Has, HasIn
  <2> QED
    BY <2>5, <2>6
<1> QED
  BY <1>10, <1>11

\* "Missing required field" is said only of a field that is not in the hash, unless the
\* message came in more than one piece or the field is one that entries borrow.
THEOREM MissingFieldsAreMissing == Spec => MissingIsMissingInOnePiece
<1>1. CInv /\ [Next]_vars =>
        [outcome = "running" /\ token' = "END_MESSAGE" /\ ~InEntry(Current)
           /\ cxt.tree[cxt.items[Len(cxt.items)]].chunks = 1 => MissingStep(Last(cxt.items))]_vars
  <2> SUFFICES ASSUME CInv, Next, outcome = "running", token' = "END_MESSAGE", ~InEntry(Current),
                      cxt.tree[cxt.items[Len(cxt.items)]].chunks = 1
               PROVE  MissingStep(Last(cxt.items))
    OBVIOUS
  <2>1. EndOfMessage
    BY DEF Next, Prepare, ScalarField, MessageField, UnknownField, StartSequence, EndSequence,
           StartMessage, EndMessage, Error, Tok!Field, Tok!UnknownField, Tok!StartSequence,
           Tok!EndSequence, Tok!StartMessage, Tok!EndMessage, Tok!Error
  <2> QED
    BY <2>1, MissingIsNotThere
<1> QED
  BY <1>1, ContentInvariant, PTL DEF Spec, MissingIsMissingInOnePiece

----------------------------------------------------------------------------
(* What a step leaves alone.                                              *)

\* The container the next value goes into is the one the handlers have open.
LEMMA OpenIsBase ==
    ASSUME NEW L, NEW tok, LevelsOK(L, tok), Sane(cxt), Stacks(L, cxt)
    PROVE  Open = Base(L, cxt.items)
<1> DEFINE it == cxt.items
           t == cxt.tree
           N == Len(L)
<1>1. it \in ItemSeq /\ ItemsOK(L, it, t) /\ Shaped(t)
  BY DEF Sane, IsCxt, ItemSeq, Stacks, TreeOK
<1>2. ItemKind(Len(it)) = KindOf(it, t, Len(it))
  BY SetsAre
<1>3. N \in DOMAIN L /\ N \in Nat \ {0} /\ Len(it) = HeightOf(L, N)
  BY <1>1, LevelIs DEF ItemsOK
<1> HIDE DEF it, t, N
<1>4. Open = IF Last(it) = NULL \/ KindOf(it, t, Len(it)) = "value"
             THEN it[Len(it) - 1] ELSE Last(it)
  BY <1>2 DEF Open, it
<1>5. CASE Free(L)
  <2>1. /\ Len(it) \in Nat /\ Len(it) > 2 /\ Last(it) = it[Len(it)]
        /\ it[Len(it)] \in {NULL, Value(it[Len(it) - 1])}
    BY <1>1, <1>5, TopMap
  <2>2. Last(it) = NULL \/ KindOf(it, t, Len(it)) = "value"
    BY <2>1 DEF KindOf
  <2> QED
    BY <1>4, <1>5, <2>2 DEF Base, it
<1>6. CASE ~Free(L) /\ OpenList(L[N])
  <2>1. N \in ListsOf(L)
    BY <1>3, <1>6 DEF ListsOf
  <2>2. KindOf(it, t, Len(it)) = "array"
    BY <1>1, <1>3, <2>1, ListKind
  <2>3. Last(it) # NULL /\ Last(it) = it[Len(it)]
    BY <1>1, <1>6, TopArray DEF N
  <2> QED
    BY <1>4, <1>6, <2>2, <2>3 DEF Base, it
<1>7. CASE ~Free(L) /\ ~OpenList(L[N])
  <2>1. N \in OwnOf(L) /\ ~OpenMap(L[N]) /\ ~InEntry(L[N])
    BY <1>3, <1>7 DEF OwnOf, Free, N
  <2>2. HeightOf(L, N) = HeightOf(L, N - 1) + 1
    <3>1. Weight(L[N]) = 1 /\ \E h \in Nat : h = N - 1 /\ HeightOf(L, N) = HeightOf(L, h) + Weight(L[N])
      BY <1>3, <1>7, <2>1, WeightIs
    <3> QED
      BY <1>3, <3>1
  <2>3. KindOf(it, t, Len(it)) = "hash"
    BY <1>1, <1>3, <2>1, <2>2, OwnKind
  <2>4. Last(it) # NULL /\ Last(it) = it[Len(it)]
    BY <1>1, <1>7, TopHash DEF N
  <2> QED
    BY <1>4, <1>7, <2>3, <2>4 DEF Base, it
<1> QED
  BY <1>5, <1>6, <1>7

\* Replaceable, of any tree and open container.
Yields(t, b, p) ==
    /\ IsPrefix(b, p) /\ p # b
    /\ LET f == p[Len(b) + 1][2]
       IN  CASE t[b].kind = "map" -> TRUE
             [] t[b].kind = "array" -> FALSE
             [] OTHER -> \/ Traits[t[b].type][f].oneof # NoOneof
                         \/ /\ p = Child(b, "field", f)
                            /\ t[p].kind \notin {"hash", "array", "map"}
Lasts(t, u, p) == p \in DOMAIN u /\ u[p].kind = t[p].kind
Stays(t, u, b) == \A p \in DOMAIN t : Yields(t, b, p) \/ Lasts(t, u, p)

\* A node that is not there yet displaces none.
LEMMA NewStays ==
    ASSUME NEW t, NEW b, NEW P, P \cap DOMAIN t = {}, NEW node
    PROVE  Stays(t, PutAll(t, P, node), b)
  BY DEF Stays, Lasts, PutAll

\* A tree that does not change keeps all its nodes.
LEMMA SameStays ==
    ASSUME NEW t, NEW b
    PROVE  Stays(t, t, b)
  BY DEF Stays, Lasts

\* What is in the map that is open is replaceable.
LEMMA InMap ==
    ASSUME NEW t, NEW b \in Paths, t[b].kind = "map", NEW kind, NEW n, <<kind, n>> \in Steps,
           NEW p \in Paths, IsPrefix(Child(b, kind, n), p)
    PROVE  Yields(t, b, p)
<1> DEFINE q == Child(b, kind, n)
<1>1. q \in Paths /\ IsPrefix(b, q) /\ ~IsPrefix(q, b)
  BY ChildIs, PrefixOfChild
<1> HIDE DEF q
<1>2. IsPrefix(b, p) /\ p # b
  BY <1>1, PrefixTrans DEF q
<1> QED
  BY <1>2 DEF Yields

\* So is what is in a member of a oneof of the message that is open.
LEMMA InMember ==
    ASSUME NEW t, NEW b \in Paths, t[b].kind = "hash", NEW s \in Nat,
           Traits[t[b].type][s].oneof # NoOneof, NEW p \in Paths, IsPrefix(Child(b, "field", s), p)
    PROVE  Yields(t, b, p)
<1> DEFINE q == Child(b, "field", s)
<1>1. <<"field", s>> \in Steps /\ q \in Paths
  BY FieldChild
<1>2. /\ IsPrefix(b, q) /\ ~IsPrefix(q, b) /\ Len(b) \in Nat /\ Len(q) = Len(b) + 1
      /\ Last(q) = <<"field", s>> /\ q # <<>>
  BY <1>1, ChildIs, PrefixOfChild
<1>3. q[Len(b) + 1] = <<"field", s>>
  BY <1>1, <1>2, FrontIs
<1> HIDE DEF q
<1>4. IsPrefix(b, p) /\ p # b
  BY <1>1, <1>2, PrefixTrans DEF q
<1>5. p[Len(b) + 1] = q[Len(b) + 1]
  <2>1. \A i \in 1..Len(q) : q[i] = p[i]
    BY <1>1, PrefixIs DEF q
  <2> QED
    BY <1>2, <2>1
<1>6. p[Len(b) + 1][2] = s
  BY <1>3, <1>5
<1> QED
  BY <1>4, <1>6 DEF Yields

\* And the scalar of one of its fields.
LEMMA AtField ==
    ASSUME NEW t, NEW b \in Paths, t[b].kind = "hash", NEW f \in Nat, NEW p, p = Child(b, "field", f),
           t[p].kind \notin {"hash", "array", "map"}
    PROVE  Yields(t, b, p)
<1>1. <<"field", f>> \in Steps /\ p \in Paths
  BY FieldChild
<1>2. /\ IsPrefix(b, p) /\ ~IsPrefix(p, b) /\ Len(b) \in Nat /\ Len(p) = Len(b) + 1
      /\ Last(p) = <<"field", f>> /\ p # <<>>
  BY <1>1, ChildIs, PrefixOfChild
<1>3. p[Len(b) + 1] = <<"field", f>>
  BY <1>1, <1>2, FrontIs
<1>4. p # b
  BY <1>2, PrefixSelf
<1>5. p[Len(b) + 1][2] = f
  BY <1>3
<1> QED
  BY <1>2, <1>4, <1>5 DEF Yields

\* Storing a value of the kind of the field.
LEMMA StoreStays ==
    ASSUME NEW L, NEW tok, LevelsOK(L, tok), NEW c, Sane(c), Stacks(L, c), Nested(ViewOf(L, c)),
           NEW f, Storing(L, c, f), NEW node, Fits(node, Schema[Mapper(c)][f].message)
    PROVE  Stays(c.tree, Put(TargetTree(c, f), TargetPath(c, f), node), Base(L, c.items))
<1> DEFINE it == c.items
           t == c.tree
           top == L[Len(L)]
           m == top.type
           d == TargetTree(c, f)
           at == TargetPath(c, f)
           b == Base(L, it)
           u == Put(d, at, node)
<1>1. /\ ItemsOK(L, it, t) /\ it \in ItemSeq /\ Shaped(t) /\ TreeOK(t)
      /\ Mapper(c) = m /\ ~OpenMap(top) /\ f \in FieldsOf(m)
      /\ InEntry(top) => f = ValueField
      /\ ~InEntry(top) => (Schema[m][f].repeated <=> OpenList(top))
      /\ Oneofs(m) # {} => Last(c.seenOneof) \in OneofState(m)
  BY DEF Storing, TreeOK
<1>2. DOMAIN t \subseteq Paths /\ m \in Messages /\ f \in Nat
  <2>1. m \in Messages
    BY LevelIs, LevelsAre
  <2> QED
    BY <1>1, <2>1, SchemaAssumption DEF Shaped, IsTree
<1>3. at \in Paths /\ (at \in DOMAIN d => Here(L))
  BY StoreStored
<1>4. Free(L) <=> InEntry(top)
  BY <1>1 DEF Free
<1>5. /\ DOMAIN u = DOMAIN d \cup {at} /\ u[at] = node
      /\ \A p \in DOMAIN d : p # at => u[p] = d[p]
  BY DEF Put
<1>6. CASE InEntry(top)
  <2>1. b \in Paths /\ t[b].kind = "map" /\ b = it[Len(it) - 1]
    <3>1. Free(L)
      BY <1>4, <1>6
    <3> QED
      BY <1>1, <3>1, TopMap DEF Base
  <2>2. at = Value(b) /\ d = Drop(t, at)
    BY <1>1, <1>6, <2>1 DEF IsValue, InEntry, TargetPath, TargetTree
  <2> HIDE DEF t, d, at, b, u
  <2>3. ASSUME NEW p \in DOMAIN t
        PROVE  Yields(t, b, p) \/ Lasts(t, u, p)
    <3>1. p \in Paths /\ IsPrefix(at, at)
      BY <1>2, <1>3, PrefixSelf
    <3>2. CASE IsPrefix(at, p)
      <4>1. <<"value", 0>> \in Steps
        BY <2>1, ValueIs
      <4> QED
        BY <2>1, <2>2, <3>1, <3>2, <4>1, InMap DEF Value
    <3>3. CASE ~IsPrefix(at, p)
      <4>1. p \in DOMAIN d /\ d[p] = t[p] /\ p # at
        BY <2>2, <3>1, <3>3, DropIs
      <4> QED
        BY <1>5, <4>1 DEF Lasts
    <3> QED
      BY <3>2, <3>3
  <2> QED
    BY <2>3 DEF Stays, t, u, b, d, at
<1>7. CASE ~InEntry(top) /\ OpenList(top)
  <2>1. d = t
    BY <1>1, <1>7 DEF IsValue, InEntry, TargetTree, Member, Single
  <2>2. ~Here(L)
    BY <1>7 DEF Here
  <2> HIDE DEF t, d, at, b, u
  <2>3. ASSUME NEW p \in DOMAIN t
        PROVE  Lasts(t, u, p)
    BY <1>3, <1>5, <2>1, <2>2 DEF Lasts
  <2> QED
    BY <2>3 DEF Stays, t, u, b, d, at
<1>8. CASE ~InEntry(top) /\ ~OpenList(top)
  <2>1. b = Last(it) /\ b \in Paths /\ b \in DOMAIN t /\ t[b].kind = "hash" /\ t[b].type = m
    <3>1. ~Free(L)
      BY <1>4, <1>8
    <3> QED
      BY <1>1, <1>8, <3>1, TopHash DEF Base
  <2>2. Single(c, f) /\ at = Child(b, "field", f) /\ ~Schema[m][f].repeated
    BY <1>1, <1>8, <2>1 DEF Single, IsValue, InEntry, TargetPath
  <2>3. \/ d = t
        \/ \E s \in Nat : Traits[m][s].oneof # NoOneof /\ d = Drop(t, Child(b, "field", s))
    <3>1. CASE Member(c, f) /\ Seen(c, f) \notin {NoField, f}
      <4>1. /\ Seen(c, f) \in Nat /\ OneofOf(c, f) # NoOneof
            /\ Traits[m][Seen(c, f)].oneof = OneofOf(c, f)
        BY <1>1, <1>2, <3>1, SeenIs
      <4>2. d = Drop(t, Child(b, "field", Seen(c, f)))
        BY <2>1, <2>2, <3>1 DEF TargetTree, Single
      <4> QED
        BY <4>1, <4>2
    <3>2. CASE ~(Member(c, f) /\ Seen(c, f) \notin {NoField, f})
      BY <2>2, <3>2 DEF TargetTree, Single
    <3> QED
      BY <3>1, <3>2
  <2>4. Fits(node, Schema[m][f].message)
    BY <1>1
  <2> HIDE DEF t, d, at, b, u, m
  <2>5. ASSUME at \in DOMAIN t
        PROVE  Yields(t, b, at) \/ node.kind = t[at].kind
    <3>1. at # <<>> /\ Front(at) = b /\ Last(at) = <<"field", f>>
      BY <1>2, <2>1, <2>2, FieldChild
    <3>2. Placed(t, b, Last(at), t[at])
      BY <1>1, <2>5, <3>1 DEF Shaped
    <3>3. FieldFits(t[at], m, f)
      BY <2>1, <3>1, <3>2 DEF Placed
    <3>4. Fits(t[at], Schema[m][f].message)
      BY <2>2, <3>3 DEF FieldFits
    <3>5. CASE Schema[m][f].message = NoMessage
      <4>1. t[at].kind \notin {"hash", "array", "map"}
        BY <3>4, <3>5 DEF Fits
      <4> QED
        BY <1>2, <2>1, <2>2, <4>1, AtField
    <3>6. CASE Schema[m][f].message # NoMessage
      BY <2>4, <3>4, <3>6 DEF Fits
    <3> QED
      BY <3>5, <3>6
  <2>6. ASSUME NEW p \in DOMAIN t
        PROVE  Yields(t, b, p) \/ Lasts(t, u, p)
    <3>1. p \in Paths
      BY <1>2
    <3>2. CASE p = at
      BY <1>5, <2>5, <3>2 DEF Lasts
    <3>3. CASE p # at /\ p \in DOMAIN d
      <4>1. d[p] = t[p]
        BY <2>3, <3>3, DropIs
      <4> QED
        BY <1>5, <3>3, <4>1 DEF Lasts
    <3>4. CASE p \notin DOMAIN d
      <4>1. PICK s \in Nat : Traits[m][s].oneof # NoOneof /\ d = Drop(t, Child(b, "field", s))
        BY <2>3, <3>4
      <4>2. IsPrefix(Child(b, "field", s), p)
        BY <3>4, <4>1, DropIs
      <4> QED
        BY <2>1, <3>1, <4>1, <4>2, InMember
    <3> QED
      BY <3>2, <3>3, <3>4
  <2> QED
    BY <2>6 DEF Stays, t, u, b, d, at
<1> QED
  BY <1>6, <1>7, <1>8

\* The end of an entry: its value moves under its key, or is dropped.
LEMMA EntryStays ==
    ASSUME NEW L, NEW tok, LevelsOK(L, tok), InEntry(L[Len(L)]), NEW c, Sane(c), Stacks(L, c)
    PROVE  Stays(c.tree, EntryTree(c), Base(L, c.items))
<1> DEFINE t == c.tree
           it == c.items
           b == it[Len(it) - 1]
           key == Last(c.mapKeys)
           empty == IF Schema[Mapper(c)][ValueField].message = NoMessage THEN Default ELSE Undef
           v == IF Last(it) = NULL THEN Put(t, Value(b), empty) ELSE t
           u == EntryTree(c)
<1>1. /\ Shaped(t) /\ IsTree(t) /\ ItemsOK(L, it, t) /\ IsCxt(c) /\ it \in ItemSeq
  BY DEF Sane, TreeOK, Stacks, Shaped, IsCxt, ItemSeq
<1>2. Free(L) /\ Base(L, it) = b
  BY DEF Free, Base
<1>3. b \in Paths /\ t[b].kind = "map"
  BY <1>1, <1>2, TopMap
<1>4. key \in [key: Keys] \cup {NoKey}
  BY <1>1, <1>2, KeysIs
<1>5. u = IF key = NoKey THEN Drop(t, Value(b)) ELSE Move(v, Value(b), Child(b, "key", key.key))
  BY DEF EntryTree
<1>6. empty \in Nodes
  BY DEF Default, Undef, Leaf, Nodes
<1> HIDE DEF b, empty, u, v, key, t, it
<1>7. Value(b) \in Paths /\ <<"value", 0>> \in Steps /\ Len(Value(b)) = Len(b) + 1 /\ Len(b) \in Nat
  BY <1>3, ValueIs
<1>8. \A p \in DOMAIN t : p \in Paths /\ t[p] \in Nodes
  BY <1>1 DEF IsTree
<1>9. ASSUME NEW p \in DOMAIN t, IsPrefix(Value(b), p)
      PROVE  Yields(t, b, p)
  BY <1>3, <1>7, <1>8, <1>9, InMap DEF Value
<1>10. CASE key = NoKey
  <2>1. ASSUME NEW p \in DOMAIN t, ~IsPrefix(Value(b), p)
        PROVE  Lasts(t, u, p)
    BY <1>5, <1>10, <2>1, DropIs DEF Lasts
  <2> QED
    BY <1>2, <1>9, <2>1 DEF Stays, t, u, it
<1>11. CASE key # NoKey
  <2> DEFINE k == key.key
             a == Value(b)
             e == Child(b, "key", k)
  <2>1. k \in Keys
    BY <1>4, <1>11
  <2>2. <<"key", k>> \in Steps
    BY <2>1, StepsAre
  <2>3. e \in Paths /\ Len(e) = Len(b) + 1
    BY <1>3, <2>2, ChildIs
  <2>4. u = Move(v, a, e)
    BY <1>5, <1>11
  <2>5. v = t \/ v = Put(t, a, empty)
    BY DEF v
  <2> HIDE DEF k, e, a
  <2>6. a \in Paths /\ Len(a) = Len(e) /\ IsPrefix(a, a)
    BY <1>7, <2>3, PrefixSelf DEF a
  <2>7. IsTree(v)
    <3>1. CASE v = Put(t, a, empty)
      BY <1>6, <1>8, <2>6, <3>1 DEF IsTree, Put
    <3> QED
      BY <1>1, <2>5, <3>1
  <2>8. ASSUME NEW p \in DOMAIN t, ~IsPrefix(a, p), ~IsPrefix(e, p)
        PROVE  Lasts(t, u, p)
    <3>1. p \in DOMAIN v /\ v[p] = t[p]
      <4>1. p # a
        BY <2>6, <2>8
      <4> QED
        BY <2>5, <4>1 DEF Put
    <3>2. p \in DOMAIN Move(v, a, e) /\ Move(v, a, e)[p] = v[p]
      BY <2>3, <2>6, <2>7, <2>8, <3>1, MoveIs
    <3> QED
      BY <2>4, <3>1, <3>2 DEF Lasts
  <2>9. ASSUME NEW p \in DOMAIN t, IsPrefix(e, p)
        PROVE  Yields(t, b, p)
    BY <1>3, <1>8, <2>2, <2>9, InMap DEF e
  <2> QED
    BY <1>2, <1>9, <2>8, <2>9 DEF Stays, t, u, it, a
<1> QED
  BY <1>10, <1>11

\* The default of the value of an entry, where the fields are tracked.
LEMMA DefaultEntryStays ==
    ASSUME NEW L, NEW tok, LevelsOK(L, tok), InEntry(L[Len(L)]), NEW c, Sane(c), Stacks(L, c),
           Nested(ViewOf(L, c))
    PROVE  Stays(c.tree, DefaultEntry(c).tree, Base(L, c.items))
<1> DEFINE e == DefaultEntry(c)
           f == ValueField
           v == f \in ToDefault(c)
<1>1. IsObject(c)
  BY DEF Sane, IsCxt
<1>2. e = Object(c.mappers, IF v THEN TargetItems(c, f) ELSE c.items,
                 DefaultKeys(c), c.seenFields,
                 IF v THEN TargetOneof(c, f) ELSE c.seenOneof, c.track,
                 IF v THEN Put(TargetTree(c, f), TargetPath(c, f), Default) ELSE c.tree,
                 c.missing, c.crashed)
  BY <1>1, DefaultEntryIs, Zenon
<1>3. Storing(L, c, f)
  BY StoringValue
<1>4. v => Schema[Mapper(c)][f].message = NoMessage
  BY DEF ToDefault, HasDefault
<1>5. v => Fits(Default, Schema[Mapper(c)][f].message)
  BY <1>4 DEF Fits, Default, Leaf
<1> HIDE DEF e, v, f
<1>6. e.tree = IF v THEN Put(TargetTree(c, f), TargetPath(c, f), Default) ELSE c.tree
  BY <1>2 DEF Object
<1>7. Stays(c.tree, e.tree, Base(L, c.items))
  BY <1>3, <1>5, <1>6, StoreStays, SameStays
<1> QED
  BY <1>7 DEF e

\* The end of a message only adds defaults, where nothing is.
LEMMA EndOfMessageStays ==
    ASSUME NEW L, NEW tok, LevelsOK(L, tok), NEW c, Sane(c), Stacks(L, c),
           ~OpenMap(L[Len(L)]), Nested(ViewOf(L, c))
    PROVE  Stays(c.tree, OnEndMessage(c).tree, Base(L, c.items))
<1>1. IsObject(c) /\ Mapper(c) = L[Len(L)].type
  BY MapperIs DEF Sane, IsCxt, Stacks
<1>2. CASE ~c.track
  BY <1>2, SameStays DEF OnEndMessage
<1>3. CASE c.track /\ MissingRequired(c) # {}
  <2> DEFINE f == CHOOSE f \in MissingRequired(c) : \A g \in MissingRequired(c) : f <= g
             d == OnEndMessage(c)
  <2>1. d = [c EXCEPT !.missing = f]
    BY <1>3 DEF OnEndMessage
  <2> HIDE DEF f, d
  <2>2. d.tree = c.tree
    BY <1>1, <2>1 DEF IsObject, Object
  <2> QED
    BY <2>2, SameStays DEF d
<1>4. CASE c.track /\ MissingRequired(c) = {} /\ Mapper(c) \in Entries
  <2>1. OnEndMessage(c) = DefaultEntry(c) /\ InEntry(L[Len(L)])
    BY <1>1, <1>4 DEF OnEndMessage, InEntry
  <2> QED
    BY <2>1, DefaultEntryStays
<1>5. CASE c.track /\ MissingRequired(c) = {} /\ Mapper(c) \notin Entries
  <2>1. OnEndMessage(c) = DefaultFields(c)
    BY <1>5 DEF OnEndMessage
  <2>2. DefaultFields(c).tree = PutAll(c.tree, DefaultPaths(c), Default)
    BY <1>1, DefaultFieldsIs DEF Object
  <2>3. DefaultPaths(c) \cap DOMAIN c.tree = {}
    BY DEF DefaultPaths
  <2> QED
    BY <2>1, <2>2, <2>3, NewStays
<1> QED
  BY <1>2, <1>3, <1>4, <1>5

\* A scalar, and an enumeration number that is not known.
LEMMA ScalarStays ==
    ASSUME NEW L, LevelsOK(L, "FIELD"), NEW c, Sane(c), Stacks(L, c), Nested(ViewOf(L, c)),
           ~OpenMap(L[Len(L)]), NEW f, f = L[Len(L)].field, InEntry(L[Len(L)]) => f = ValueField,
           Schema[L[Len(L)].type][f].message = NoMessage
    PROVE  /\ Stays(c.tree, OnScalar(c, f).tree, Base(L, c.items))
           /\ Stays(c.tree, OnUnknownEnum(c, f).tree, Base(L, c.items))
<1>1. IsObject(c)
  BY DEF Sane, IsCxt
<1>2. Storing(L, c, f)
  BY StoringField
<1>3. /\ Fits(Scalar, Schema[Mapper(c)][f].message)
      /\ Fits(Default, Schema[Mapper(c)][f].message)
  BY <1>2 DEF Storing, Fits, Scalar, Default, Leaf
<1>4. OnScalar(c, f).tree = Put(TargetTree(c, f), TargetPath(c, f), Scalar)
  BY <1>1, OnScalarIs DEF Object
<1>5. StoreAt(c, f, Default).tree = Put(TargetTree(c, f), TargetPath(c, f), Default)
  BY <1>1, StoreAtIs DEF Object
<1>6. \/ OnUnknownEnum(c, f).tree = c.tree
      \/ OnUnknownEnum(c, f).tree = StoreAt(c, f, Default).tree
  <2>1. CASE Last(c.items) = NULL
    <3> DEFINE e == OnUnknownEnum(c, f)
    <3>1. e = [c EXCEPT !.crashed = TRUE]
      BY <2>1 DEF OnUnknownEnum
    <3> HIDE DEF e
    <3>2. e.tree = c.tree
      BY <1>1, <3>1 DEF IsObject, Object
    <3> QED
      BY <3>2 DEF e
  <2>2. CASE Last(c.items) # NULL
    BY <2>2 DEF OnUnknownEnum
  <2> QED
    BY <2>1, <2>2
<1>7. Stays(c.tree, Put(TargetTree(c, f), TargetPath(c, f), Scalar), Base(L, c.items))
  BY <1>2, <1>3, StoreStays
<1>8. Stays(c.tree, Put(TargetTree(c, f), TargetPath(c, f), Default), Base(L, c.items))
  BY <1>2, <1>3, StoreStays
<1> QED
  BY <1>4, <1>5, <1>6, <1>7, <1>8, SameStays

\* get_avref and get_hvref make a container only where there is none.
LEMMA ContainerStays ==
    ASSUME NEW c, NEW f, NEW kind, NEW b
    PROVE  Stays(c.tree, ContainerTree(c, f, kind), b)
<1> DEFINE at == FieldPath(c, f)
<1>1. CASE at \in DOMAIN c.tree
  BY <1>1, SameStays DEF ContainerTree
<1>2. CASE at \notin DOMAIN c.tree
  <2>1. ContainerTree(c, f, kind) = PutAll(c.tree, {at}, Leaf(kind))
    BY <1>2 DEF ContainerTree, Put, PutAll
  <2>2. {at} \cap DOMAIN c.tree = {}
    BY <1>2
  <2> QED
    BY <2>1, <2>2, NewStays
<1> QED
  BY <1>1, <1>2

\* A submessage goes where the field, the element or the entry is.
LEMMA StartOwnStays ==
    ASSUME NEW S, LevelsOK(S, "FIELD"), ~OpenMap(S[Len(S)]), NEW c, Sane(c), Stacks(S, c),
           Nested(ViewOf(S, c)), NEW m, m \in Messages, m = Schema[S[Len(S)].type][S[Len(S)].field].message,
           NEW junk
    PROVE  Stays(c.tree, OnStartSubMessage(c, S[Len(S)].field, junk).tree, Base(S, c.items))
<1> DEFINE n == Len(S)
           f == S[n].field
           at == TargetPath(c, f)
           d0 == TargetTree(c, f)
           node == Hash(m, IF at \in DOMAIN d0 THEN 2 ELSE 1)
<1>1. S[n] \in Levels /\ Entered(S[n]) /\ S[n].type \in Messages
  <2>1. n \in DOMAIN S
    BY LevelIs
  <2> QED
    BY <2>1, LevelIs, LevelsAre DEF LevelsOK
<1>2. InEntry(S[n]) => f = ValueField
  BY <1>1, EntriesAssumption, RootAssumption DEF InEntry, Entered
<1>3. Storing(S, c, f)
  BY <1>2, StoringField
<1>4. IsObject(c) /\ Mapper(c) = S[n].type
  BY <1>3 DEF Sane, IsCxt, Storing
<1>5. m = Schema[Mapper(c)][f].message
  BY <1>4
<1>6. Fits(node, Schema[Mapper(c)][f].message)
  <2>1. node.kind = "hash" /\ node.type = m
    BY DEF Hash
  <2>2. m # NoMessage
    BY RootAssumption
  <2> HIDE DEF node, f
  <2> QED
    BY <1>5, <2>1, <2>2 DEF Fits
<1> HIDE DEF n, f
<1>7. OnStartSubMessage(c, f, junk).tree = Put(d0, at, node)
  <2>1. OnStartSubMessage(c, f, junk) =
            Object(Append(c.mappers, m), Append(TargetItems(c, f), at), c.mapKeys,
                   IF TracksSeen(m) THEN Append(Marked(c, f), junk) ELSE Marked(c, f),
                   IF Oneofs(m) # {}
                   THEN Append(TargetOneof(c, f), [o \in Oneofs(m) |-> NoField])
                   ELSE TargetOneof(c, f),
                   TracksSeen(m), Put(d0, at, node), c.missing, c.crashed)
    BY <1>4, <1>5, OnStartSubMessageIs, Zenon
  <2> HIDE DEF d0, at, node
  <2> QED
    BY <2>1 DEF Object
<1> HIDE DEF node
<1>8. Stays(c.tree, Put(d0, at, node), Base(S, c.items))
  BY <1>3, <1>6, StoreStays
<1> QED
  BY <1>7, <1>8 DEF f, n

\* What is known of the trees while no message is ending.
LEMMA NestedAlike ==
    ASSUME NEW L, NEW tok, tok # "END_MESSAGE", NEW c, Complete(L, tok, c)
    PROVE  Knows(L, OwnOf(L), c) /\ Nested(ViewOf(L, c))
  BY StillOpen DEF Knows

\* The steps of the loop, one by one: a scalar field.
LEMMA ScalarStepStays ==
    ASSUME LevelsOK(levels, token), Sane(cxt), Stacks(levels, cxt), Complete(levels, token, cxt),
           ScalarField
    PROVE  Stays(cxt.tree, cxt'.tree, Open)
<1> DEFINE L == levels'
           top == L[Len(L)]
<1>1. /\ LevelsOK(L, "FIELD") /\ token' = "FIELD"
      /\ Len(L) = Len(levels) /\ \A i \in DOMAIN levels : Alike(levels[i], L[i])
  BY FieldLevels DEF ScalarField
<1>2. token # "END_MESSAGE"
  BY DEF ScalarField, Tok!Field, Tok!Asked
<1>3. Stacks(L, cxt) /\ Nested(ViewOf(L, cxt))
  <2>1. Knows(levels, OwnOf(levels), cxt)
    BY <1>2, NestedAlike
  <2>2. Knows(L, OwnOf(L), cxt)
    BY <1>1, <2>1, KnownAlike
  <2> QED
    BY <1>1, <2>2, StacksAlike DEF Knows
<1>4. Schema[top.type][top.field].message = NoMessage /\ cxt' \in Scalars(top)
  BY DEF ScalarField, Last
<1>5. Entered(top) /\ top \in Levels
  BY <1>1, LevelIs DEF LevelsOK
<1>6. ~OpenMap(top)
  <2>1. NoMessage \notin Entries
    BY RootAssumption, MapsAssumption
  <2> QED
    BY <1>4, <1>5, <2>1, EntryIs
<1>7. IsObject(cxt)
  BY DEF Sane, IsCxt
<1> HIDE DEF L
<1>8. Open = Base(L, cxt.items)
  BY <1>1, <1>3, OpenIsBase
<1>9. CASE InEntry(top) /\ top.field = KeyField
  <2>1. PICK k \in Keys : cxt' = OnKey(cxt, k)
    BY <1>4, <1>9 DEF Scalars
  <2>2. OnKey(cxt, k) =
            Object(cxt.mappers, cxt.items, SetLast(cxt.mapKeys, [key |-> k]),
                   IF Traits[Mapper(cxt)][KeyField].string THEN cxt.seenFields
                   ELSE Marked(cxt, KeyField),
                   cxt.seenOneof, cxt.track, cxt.tree, cxt.missing, cxt.crashed)
    BY <1>7, OnKeyIs, Zenon
  <2>3. cxt'.tree = cxt.tree
    BY <2>1, <2>2 DEF Object
  <2> QED
    BY <2>3, SameStays
<1>10. CASE ~(InEntry(top) /\ top.field = KeyField)
  <2>1. InEntry(top) => top.field = ValueField
    BY <1>5, <1>10, EntriesAssumption DEF Entered, InEntry
  <2>2. cxt' = OnScalar(cxt, top.field) \/ cxt' = OnUnknownEnum(cxt, top.field)
    BY <1>4, <1>10 DEF Scalars
  <2> QED
    BY <1>1, <1>3, <1>4, <1>6, <1>8, <2>1, <2>2, ScalarStays
<1> QED
  BY <1>9, <1>10

\* The start and the end of a repeated field or of a map.
LEMMA SequenceStepStays ==
    ASSUME Sane(cxt), StartSequence \/ EndSequence
    PROVE  Stays(cxt.tree, cxt'.tree, Open)
<1>1. IsObject(cxt)
  BY DEF Sane, IsCxt
<1>2. CASE StartSequence
  <2>1. PICK f : cxt' = OnStartMap(cxt, f) \/ cxt' = OnStartSequence(cxt, f)
    BY <1>2 DEF StartSequence
  <2>2. /\ OnStartMap(cxt, f).tree = ContainerTree(cxt, f, "map")
        /\ OnStartSequence(cxt, f).tree = ContainerTree(cxt, f, "array")
    BY <1>1, OnStartMapIs, ContainerIs DEF Object, OnStartSequence
  <2> QED
    BY <2>1, <2>2, ContainerStays
<1>3. CASE EndSequence
  <2>1. cxt' = OnEndMap(cxt) \/ cxt' = OnEndSequence(cxt)
    BY <1>3 DEF EndSequence
  <2>2. OnEndMap(cxt).tree = cxt.tree /\ OnEndSequence(cxt).tree = cxt.tree
    BY <1>1, OnEndMapIs, OnEndSequenceIs DEF Object
  <2> QED
    BY <2>1, <2>2, SameStays
<1> QED
  BY <1>2, <1>3

\* The start of a submessage, or of an entry of a map.
LEMMA StartMessageStays ==
    ASSUME LevelsOK(levels, token), Sane(cxt), Stacks(levels, cxt), Complete(levels, token, cxt),
           StartMessage
    PROVE  Stays(cxt.tree, cxt'.tree, Open)
<1> DEFINE top == levels[Len(levels)]
           B == levels'
<1>1. /\ LevelsOK(levels, "FIELD")
      /\ B[Len(B)].type = Schema[top.type][top.field].message /\ B[Len(B)].type \in Messages
      /\ ~InEntry(B[Len(B)]) => ~OpenMap(top)
  BY EnterLevels DEF StartMessage
<1>2. Nested(ViewOf(levels, cxt))
  <2>1. token # "END_MESSAGE"
    BY DEF StartMessage, Tok!StartMessage, Tok!EntersMessage
  <2> QED
    BY <2>1, NestedAlike
<1>3. Open = Base(levels, cxt.items)
  BY OpenIsBase
<1>4. CASE InEntry(B[Len(B)])
  <2>1. cxt' = cxt
    BY <1>4 DEF StartMessage, Last
  <2> QED
    BY <2>1, SameStays
<1>5. CASE ~InEntry(B[Len(B)])
  <2>1. PICK junk \in Junk(B[Len(B)].type) : cxt' = OnStartSubMessage(cxt, top.field, junk)
    BY <1>5 DEF StartMessage, Current, Last
  <2> QED
    BY <1>1, <1>2, <1>3, <1>5, <2>1, StartOwnStays
<1> QED
  BY <1>4, <1>5

\* Its end.
LEMMA EndMessageStays ==
    ASSUME LevelsOK(levels, token), Sane(cxt), Stacks(levels, cxt), EndMessage
    PROVE  Stays(cxt.tree, cxt'.tree, Open)
<1> DEFINE top == levels[Len(levels)]
<1>1. cxt' = IF InEntry(top) THEN OnEndMapEntry(cxt) ELSE OnEndSubMessage(cxt)
  BY DEF EndMessage, Current, Last
<1>2. IsObject(cxt)
  BY DEF Sane, IsCxt
<1>3. OnEndMapEntry(cxt).tree = EntryTree(cxt) /\ OnEndSubMessage(cxt).tree = cxt.tree
  BY <1>2, OnEndMapEntryIs, OnEndSubMessageIs DEF Object
<1>4. Open = Base(levels, cxt.items)
  BY OpenIsBase
<1>5. CASE InEntry(top)
  BY <1>1, <1>3, <1>4, <1>5, EntryStays
<1>6. CASE ~InEntry(top)
  BY <1>1, <1>3, <1>6, SameStays
<1> QED
  BY <1>5, <1>6

\* The end of the message of the call.
LEMMA EndOfMessageStepStays ==
    ASSUME LevelsOK(levels, token), Sane(cxt), Stacks(levels, cxt), Complete(levels, token, cxt),
           EndOfMessage
    PROVE  Stays(cxt.tree, cxt'.tree, Open)
<1> DEFINE done == OnEndMessage(cxt)
           top == levels[Len(levels)]
<1>1. ~OpenMap(top) /\ ~OpenList(top)
  BY EndOfMessageLevels DEF EndOfMessage
<1>2. Nested(ViewOf(levels, cxt))
  <2>1. token # "END_MESSAGE"
    BY DEF EndOfMessage, Tok!EndOfMessage, Tok!Asked
  <2> QED
    BY <2>1, NestedAlike
<1>3. Sane(done)
  BY <1>1, EndOfMessageStacks
<1>4. Stays(cxt.tree, done.tree, Open)
  BY <1>1, <1>2, OpenIsBase, EndOfMessageStays
<1>5. cxt' = done \/ cxt' = Cleared(done)
  BY DEF EndOfMessage
<1> HIDE DEF done
<1> QED
  BY <1>3, <1>4, <1>5, ClearedSane

\* No step of a call moves or deletes what was decoded, outside the entries of an open map
\* and the oneofs of the message that is open, or changes its kind, but for the scalar
\* whose field comes again.
THEOREM WhatIsDecodedStays == Spec => DecodedStays
<1>1. ASSUME CInv, Next, outcome = "running"
      PROVE  Stays(cxt.tree, cxt'.tree, Open)
  <2>1. LevelsOK(levels, token) /\ Sane(cxt) /\ Stacks(levels, cxt) /\ Complete(levels, token, cxt)
    BY <1>1, RunningIs DEF CInv
  <2>2. CASE Prepare
    BY <1>1, <2>2 DEF Prepare
  <2>3. CASE ScalarField
    BY <2>1, <2>3, ScalarStepStays
  <2>4. CASE MessageField \/ UnknownField
    <3>1. cxt' = cxt
      BY <2>4 DEF MessageField, UnknownField
    <3> QED
      BY <3>1, SameStays
  <2>5. CASE StartSequence \/ EndSequence
    BY <2>1, <2>5, SequenceStepStays
  <2>6. CASE StartMessage
    BY <2>1, <2>6, StartMessageStays
  <2>7. CASE EndOfMessage
    BY <2>1, <2>7, EndOfMessageStepStays
  <2>8. CASE EndMessage
    BY <2>1, <2>8, EndMessageStays
  <2>9. CASE Error
    <3>1. cxt' = Cleared(cxt)
      BY <2>9 DEF Error
    <3>2. cxt'.tree = cxt.tree
      BY <2>1, <3>1, ClearedSane
    <3> QED
      BY <3>2, SameStays
  <2> QED
    BY <1>1, <2>2, <2>3, <2>4, <2>5, <2>6, <2>7, <2>8, <2>9 DEF Next
<1>2. ASSUME Stays(cxt.tree, cxt'.tree, Open), NEW p \in DOMAIN cxt.tree
      PROVE  Replaceable(p) \/ (p \in DOMAIN cxt'.tree /\ cxt'.tree[p].kind = cxt.tree[p].kind)
  BY <1>2 DEF Stays, Yields, Lasts, Replaceable
<1>3. CInv /\ [Next]_vars =>
        [outcome = "running" =>
           \A p \in DOMAIN cxt.tree : Replaceable(p) \/
               (p \in DOMAIN cxt'.tree /\ cxt'.tree[p].kind = cxt.tree[p].kind)]_vars
  BY <1>1, <1>2
<1> QED
  BY <1>3, ContentInvariant, PTL DEF Spec, DecodedStays

==============================================================================
