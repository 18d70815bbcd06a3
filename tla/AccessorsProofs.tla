--------------------------- MODULE AccessorsProofs ---------------------------
(* For any message, and any number of lists and maps: oneofs stay exclusive, a call *)
(* concerns one field and its oneof, a field holds what its type allows, and a list *)
(* or map is counted as often as it is held.                                        *)
EXTENDS Accessors, FiniteSetTheorems, SequenceTheorems, TLAPS

\* Only slots of scalar fields without an extension are in a oneof, and those are set
\* by SetTo alone, which clears the others.
IsHash == hash = [f \in Fields |-> hash[f]]
IInv == IsHash /\ OneofExclusive

SameOneof(f, g) == Oneof[f] = Oneof[g] /\ Oneof[f] # NoOneof

\* A step that changes the hash at one field, outside any oneof.
SetsAlone(f, slot) ==
    /\ f \in Fields /\ (slot # Absent => Oneof[f] = NoOneof)
    /\ hash' = [hash EXCEPT ![f] = slot]

\* What a step of the program or of an accessor does to the hash.
HashStep ==
    \/ hash' = hash
    \/ hash' = [f \in Fields |-> Absent] /\ state' = "crashed"
    \/ \E f \in Fields : \E slot : SetsAlone(f, slot)
    \/ \E f \in Fields : \E v : SetTo(f, v)

\* The fields that item methods, map methods and set_list reach are in no oneof.
LEMMA ContainerFields ==
    ASSUME NEW f \in Fields, ItemMethods(f) \/ Kind[f] \in {"list", "map"}
    PROVE  Oneof[f] = NoOneof
  BY AccessorsAssumption DEF ItemMethods

\* Every step changes the hash as HashStep says.
LEMMA StepOfHash == Next => HashStep
<1> SUFFICES ASSUME Next PROVE HashStep
  OBVIOUS
<1>1. ASSUME NEW f \in Fields, ClearField(f) PROVE HashStep
  BY <1>1 DEF ClearField, HashStep, SetsAlone
<1>2. ASSUME NEW f \in Fields, NEW v, SetScalar(f, v) PROVE HashStep
  BY <1>2 DEF SetScalar, HashStep
<1>3. ASSUME NEW f \in Fields, NEW g \in Fields, SetToValueOf(f, g) PROVE HashStep
  BY <1>3 DEF SetToValueOf, HashStep
<1>4. ASSUME NEW f \in Fields, NEW v, AddItem(f, v) PROVE HashStep
  BY <1>4, ContainerFields DEF AddItem, WriteTo, HashStep, SetsAlone
<1>5. ASSUME NEW f \in Fields, NEW i, NEW v, SetItem(f, i, v) PROVE HashStep
  BY <1>5, ContainerFields DEF SetItem, WriteTo, HashStep, SetsAlone
<1>6. ASSUME NEW f \in Fields, NEW i, SetItemBefore(f, i) PROVE HashStep
  BY <1>6 DEF SetItemBefore, HashStep
<1>7. ASSUME NEW f \in Fields, NEW k, NEW v, SetMapItem(f, k, v) PROVE HashStep
  BY <1>7, ContainerFields DEF SetMapItem, WriteTo, HashStep, SetsAlone
<1>8. ASSUME NEW f \in Fields, NEW c \in Containers, SetContainer(f, c) PROVE HashStep
  BY <1>8, ContainerFields DEF SetContainer, TakesContainer, HashStep, SetsAlone
<1>9. ASSUME NEW f \in Fields, NEW c \in Containers, SetToItself(f, c) PROVE HashStep
  BY <1>9 DEF SetToItself, HashStep
<1>10. ASSUME Perl PROVE HashStep
  BY <1>10 DEF Perl, Build, Keep, LetGo, HashStep
<1> QED
  BY <1>1, <1>2, <1>3, <1>4, <1>5, <1>6, <1>7, <1>8, <1>9, <1>10 DEF Next, Call

\* A new object has exclusive oneofs.
LEMMA InitInv == Init => IInv
  BY DEF Init, IInv, IsHash, OneofExclusive

\* After SetTo, no other member of the oneof of f is there.
LEMMA SetToExclusive ==
    ASSUME IInv, NEW f \in Fields, NEW v, SetTo(f, v)
    PROVE  IInv'
<1>1. \A g \in Fields : hash'[g] # hash[g] => g = f \/ g \in Siblings(f)
  BY DEF SetTo, IInv, IsHash
<1>2. \A g \in Siblings(f) : hash'[g] = Absent
  BY DEF SetTo, Siblings
<1>3. IsHash'
  BY DEF SetTo, IsHash
<1>4. ASSUME NEW g \in Fields, NEW h \in Fields, g # h, SameOneof(g, h)
      PROVE  hash'[g] = Absent \/ hash'[h] = Absent
  <2>1. CASE g = f
    BY <1>2, <1>4, <2>1 DEF Siblings, SameOneof
  <2>2. CASE h = f
    BY <1>2, <1>4, <2>2 DEF Siblings, SameOneof
  <2>3. CASE g # f /\ h # f
    BY <1>1, <1>2, <1>4, <2>3 DEF IInv, OneofExclusive, SameOneof
  <2> QED
    BY <2>1, <2>2, <2>3
<1> QED
  BY <1>3, <1>4 DEF IInv, OneofExclusive, SameOneof

\* Every call of an accessor keeps them so.
LEMMA NextInv == IInv /\ [Next]_vars => IInv'
<1> SUFFICES ASSUME IInv, [Next]_vars PROVE IInv'
  OBVIOUS
<1>1. CASE UNCHANGED vars
  BY <1>1 DEF vars, IInv, IsHash, OneofExclusive
<1>2. CASE Next
  <2>1. HashStep
    BY <1>2, StepOfHash
  <2>2. CASE hash' = hash
    BY <2>2 DEF IInv, IsHash, OneofExclusive
  <2>3. CASE hash' = [f \in Fields |-> Absent]
    BY <2>3 DEF IInv, IsHash, OneofExclusive
  <2>4. ASSUME NEW f \in Fields, NEW slot, SetsAlone(f, slot) PROVE IInv'
    <3>1. hash' = [g \in Fields |-> IF g = f THEN slot ELSE hash[g]]
      BY <2>4 DEF SetsAlone, IInv, IsHash
    <3> QED
      BY <2>4, <3>1 DEF SetsAlone, IInv, IsHash, OneofExclusive
  <2>5. ASSUME NEW f \in Fields, NEW v, SetTo(f, v) PROVE IInv'
    BY <2>5, SetToExclusive
  <2> QED
    BY <2>1, <2>2, <2>3, <2>4, <2>5 DEF HashStep
<1> QED
  BY <1>1, <1>2

\* The inductive invariant of the hash holds for every class and sequence of calls.
LEMMA Invariant == Spec => []IInv
<1> QED
  BY InitInv, NextInv, PTL DEF Spec

\* However setters die, and whatever the program passes, shares or keeps, an object made
\* by the accessors has one member of each oneof at most.
THEOREM OneofStaysExclusive == Spec => []OneofExclusive
<1>1. IInv => OneofExclusive
  BY DEF IInv
<1> QED
  BY <1>1, Invariant, PTL

\* No call, also none that dies, changes two fields that do not share a oneof.
THEOREM OneFieldAtATime == Spec => OneFieldPerCall
<1> DEFINE Alone == state' # "crashed" =>
                     \A f \in {f \in Fields : hash'[f] # hash[f]} : \A g \in Fields \ {f} :
                        hash'[g] # hash[g] => Oneof[f] = Oneof[g] /\ Oneof[f] # NoOneof
<1>1. IInv /\ [Next]_vars => [Alone]_vars
  <2> SUFFICES ASSUME IInv, Next, state' # "crashed",
                      NEW f \in Fields, NEW g \in Fields, f # g,
                      hash'[f] # hash[f], hash'[g] # hash[g]
               PROVE  SameOneof(f, g)
    BY DEF SameOneof
  <2>1. HashStep
    BY StepOfHash
  <2>2. ASSUME NEW h \in Fields, NEW slot, SetsAlone(h, slot) PROVE FALSE
    BY <2>2 DEF SetsAlone, IInv, IsHash
  <2>3. ASSUME NEW h \in Fields, NEW v, SetTo(h, v) PROVE SameOneof(f, g)
    <3>1. \A k \in Fields : hash'[k] # hash[k] => k = h \/ k \in Siblings(h)
      BY <2>3 DEF SetTo, IInv, IsHash
    <3> QED
      BY <3>1 DEF Siblings, SameOneof
  <2> QED
    BY <2>1, <2>2, <2>3 DEF HashStep
<1> QED
  BY <1>1, Invariant, PTL DEF Spec, OneFieldPerCall

----------------------------------------------------------------------------
(* Lists and maps: what they hold, and who holds them.                             *)

Values == {"absent", "hole", "undef", "zero", "good", "bad"}
Slots == {Plain(is) : is \in {"absent", "undef", "zero", "good"}} \cup {RefTo(c) : c \in Containers}

Typed ==
    /\ hash \in [Fields -> Slots] /\ program \subseteq Containers
    /\ died \in BOOLEAN /\ state \in {"ok", "crashed", "dangling"}

\* What a field may have: see TypeOK.
Fitting(f) ==
    \/ hash[f] = Absent
    \/ /\ hash[f] \in {RefTo(c) : c \in IF Kind[f] = "map" THEN Hashes ELSE Arrays}
       /\ Kind[f] = "scalar" => f \in Extensions /\ style = "single_accessor"
    \/ Kind[f] = "scalar" /\ hash[f] \in {Plain(is) : is \in Valid(Type[f]) \cup Residue}

\* What a container of the accessors may have.
Checked ==
    (UNION {Valid(Type[g]) : g \in {g \in Fields : ItemMethods(g) \/ Kind[g] = "map"}})
        \cup Residue \cup {"hole"}

\* A container that nobody holds is empty, and new; of the others only those the program
\* has built have anything but checked values.
Inside(c) ==
    /\ content[c] \in IF c \in Arrays THEN Seq(Values) ELSE [Keys -> Values]
    /\ count[c] = 0 => content[c] = Empty(c) /\ c \notin foreign
    /\ c \notin foreign => Elements(c) \subseteq Checked
ContainersOK ==
    /\ count \in [Containers -> Nat]
    /\ content = [c \in Containers |-> content[c]] /\ foreign \subseteq Containers
    /\ \A c \in Containers : Inside(c)

CInv == Typed /\ (\A f \in Fields : Fitting(f)) /\ ContainersOK /\ CountsAreHolders

\* copy_value gives a value of the type, or, where it dies, undef or what was there.
LEMMA CopiedIs ==
    ASSUME NEW f \in Fields, NEW old \in Values \cup {"ref"}, NEW v \in {"good", "bad", "undef"}
    PROVE  /\ Accepts(Type[f], v) => Copied(Type[f], old, v) \in Valid(Type[f])
           /\ ~Accepts(Type[f], v) =>
                 Copied(Type[f], old, v) = IF old \in {"absent", "hole"} THEN "undef" ELSE old
           /\ Accepts(Type[f], v) \in BOOLEAN
<1>1. Type[f] \in {"int", "enum", "message"}
  BY AccessorsAssumption
<1>2. Accepts(Type[f], v) => Copied(Type[f], old, v) = Converted(Type[f], v)
  BY DEF Copied
<1>3. ~Accepts(Type[f], v) =>
         Copied(Type[f], old, v) = IF old \in {"absent", "hole"} THEN "undef" ELSE old
  BY DEF Copied
<1>4. CASE Type[f] = "int"
  BY <1>2, <1>3, <1>4 DEF Accepts, Converted, Valid
<1>5. CASE Type[f] = "enum"
  BY <1>2, <1>3, <1>5 DEF Accepts, Converted, Valid
<1>6. CASE Type[f] = "message"
  BY <1>2, <1>3, <1>6 DEF Accepts, Converted, Valid
<1> QED
  BY <1>1, <1>4, <1>5, <1>6

\* What is given to a setter of f, also by a getter.
LEMMA GivenIs ==
    ASSUME NEW f \in Fields
    PROVE  Given(f) \subseteq {"good", "bad", "undef"}
  BY DEF Given

\* What a getter of another field sees of a scalar is a value the model names.
LEMMA SeenIs ==
    ASSUME NEW f \in Fields, NEW g \in Fields, hash[g].is \in {"good", "zero", "undef"}
    PROVE  Seen(f, g) \in {"good", "bad", "undef"}
  BY DEF Seen

\* Adding or removing one member of a finite set.
LEMMA OneMore ==
    ASSUME NEW S, NEW T, NEW x, IsFiniteSet(S), IsFiniteSet(T), S \ {x} = T \ {x}
    PROVE  /\ Cardinality(S) \in Nat /\ Cardinality(T) \in Nat
           /\ (x \in S <=> x \in T) => Cardinality(T) = Cardinality(S)
           /\ x \in S /\ x \notin T => Cardinality(T) = Cardinality(S) - 1 /\ Cardinality(S) >= 1
           /\ x \notin S /\ x \in T => Cardinality(T) = Cardinality(S) + 1
<1>1. Cardinality(S) \in Nat /\ Cardinality(T) \in Nat
  BY FS_CardinalityType
<1>2. /\ Cardinality(S \ {x}) = IF x \in S THEN Cardinality(S) - 1 ELSE Cardinality(S)
      /\ Cardinality(T \ {x}) = IF x \in T THEN Cardinality(T) - 1 ELSE Cardinality(T)
  BY FS_RemoveElement
<1>3. IsFiniteSet(S \ {x})
  BY FS_RemoveElement
<1>4. Cardinality(S \ {x}) \in Nat
  BY <1>3, FS_CardinalityType
<1> QED
  BY <1>1, <1>2, <1>4

\* The fields that refer to a container.
Holding(c) == {f \in Fields : hash[f] = RefTo(c)}

\* A container has finitely many holders, so their number is a number,
LEMMA HoldingFinite ==
    ASSUME NEW c
    PROVE  IsFiniteSet(Holding(c)) /\ Cardinality(Holding(c)) \in Nat
<1>1. IsFiniteSet(Holding(c))
  BY FieldsAssumption, FS_Subset DEF Holding
<1> QED
  BY <1>1, FS_CardinalityType

\* also after the step.
LEMMA HoldingFiniteNext == \A c : IsFiniteSet(Holding(c)') /\ Cardinality(Holding(c)') \in Nat
<1>1. \A c : Holding(c)' \subseteq Fields
  BY DEF Holding
<1>2. \A c : IsFiniteSet(Holding(c)')
  BY <1>1, FieldsAssumption, FS_Subset
<1> QED
  BY <1>2, FS_CardinalityType

\* A step that changes who holds c at one field.
LEMMA HolderChange ==
    ASSUME NEW c, NEW f \in Fields,
           \A g \in Fields \ {f} : hash'[g] = RefTo(c) <=> hash[g] = RefTo(c)
    PROVE  /\ Cardinality(Holding(c)) \in Nat /\ Cardinality(Holding(c)') \in Nat
           /\ (hash[f] = RefTo(c) <=> hash'[f] = RefTo(c)) =>
                 Cardinality(Holding(c)') = Cardinality(Holding(c))
           /\ hash[f] = RefTo(c) /\ hash'[f] # RefTo(c) =>
                 Cardinality(Holding(c)') = Cardinality(Holding(c)) - 1
           /\ hash[f] # RefTo(c) /\ hash'[f] = RefTo(c) =>
                 Cardinality(Holding(c)') = Cardinality(Holding(c)) + 1
<1> DEFINE S == Holding(c)
           T == Holding(c)'
<1>1. IsFiniteSet(S) /\ IsFiniteSet(T)
  BY HoldingFinite, HoldingFiniteNext
<1>2. S \ {f} = T \ {f} /\ (f \in S <=> hash[f] = RefTo(c)) /\ (f \in T <=> hash'[f] = RefTo(c))
  BY DEF Holding
<1> HIDE DEF S, T
<1>3. /\ Cardinality(S) \in Nat /\ Cardinality(T) \in Nat
      /\ (f \in S <=> f \in T) => Cardinality(T) = Cardinality(S)
      /\ f \in S /\ f \notin T => Cardinality(T) = Cardinality(S) - 1
      /\ f \notin S /\ f \in T => Cardinality(T) = Cardinality(S) + 1
  BY <1>1, <1>2, OneMore
<1> QED
  BY <1>2, <1>3 DEF S, T

\* Who holds a container is counted at least once.
LEMMA HolderCounted ==
    ASSUME CInv, state # "dangling", NEW c \in Containers,
           c \in program \/ \E f \in Fields : hash[f] = RefTo(c)
    PROVE  count[c] >= 1 /\ count[c] \in Nat
<1>1. count[c] = Cardinality(Holding(c)) + (IF c \in program THEN 1 ELSE 0)
  BY DEF CInv, CountsAreHolders, Holders, Holding
<1>2. IsFiniteSet(Holding(c)) /\ Cardinality(Holding(c)) \in Nat
  BY HoldingFinite
<1>3. ASSUME NEW f \in Fields, hash[f] = RefTo(c) PROVE Cardinality(Holding(c)) # 0
  <2>1. Holding(c) # {}
    BY <1>3 DEF Holding
  <2> QED
    BY <1>2, <2>1, FS_EmptySet
<1> QED
  BY <1>1, <1>2, <1>3

\* An unused container is held by no field and not by the program.
LEMMA NobodyHolds ==
    ASSUME CInv, state # "dangling", NEW c \in Containers, Unused(c)
    PROVE  c \notin program /\ \A f \in Fields : hash[f] # RefTo(c)
  BY HolderCounted DEF Unused

\* What is checked stays so.
LEMMA MoreResidue ==
    ASSUME UNCHANGED style, died => died'
    PROVE  Residue \subseteq Residue' /\ Checked \subseteq Checked'
<1>1. Residue \subseteq Residue'
  BY DEF Residue
<1>2. \A g : ItemMethods(g)' <=> ItemMethods(g)
  BY DEF ItemMethods
<1> QED
  BY <1>1, <1>2 DEF Checked

\* An empty container.
LEMMA EmptyIs ==
    ASSUME NEW c \in Containers
    PROVE  /\ Empty(c) \in IF c \in Arrays THEN Seq(Values) ELSE [Keys -> Values]
           /\ content[c] = Empty(c) => Elements(c) = {}
           /\ content'[c] = Empty(c) => Elements(c)' = {}
<1>1. CASE c \in Arrays
  <2>1. Empty(c) = <<>> /\ DOMAIN <<>> = {}
    BY <1>1 DEF Empty
  <2> QED
    BY <1>1, <2>1 DEF Elements
<1>2. CASE c \notin Arrays
  <2>1. Empty(c) = [k \in Keys |-> "absent"]
    BY <1>2 DEF Empty
  <2>2. \A k \in Keys : Empty(c)[k] = "absent"
    BY <2>1
  <2>3. Empty(c) \in [Keys -> Values]
    BY <2>1 DEF Values
  <2> QED
    BY <1>2, <2>2, <2>3 DEF Elements
<1> QED
  BY <1>1, <1>2

\* A container that is not touched stays in order.
LEMMA Untouched ==
    ASSUME UNCHANGED style, died => died', NEW c \in Containers, Inside(c),
           count'[c] = count[c], content'[c] = content[c], c \in foreign' <=> c \in foreign
    PROVE  Inside(c)'
<1>1. Elements(c)' = Elements(c)
  BY DEF Elements
<1> QED
  BY <1>1, MoreResidue DEF Inside

\* One that is freed, too.
LEMMA FreedInside ==
    ASSUME NEW c \in Containers, content'[c] = Empty(c), c \notin foreign'
    PROVE  Inside(c)'
  BY EmptyIs DEF Inside

\* SvREFCNT_dec for one of the holders.
LEMMA ReleaseContainers ==
    ASSUME ContainersOK, UNCHANGED style, died => died', NEW c \in Containers, count[c] >= 1,
           Release(c)
    PROVE  ContainersOK' /\ count' = [count EXCEPT ![c] = @ - 1]
<1>1. count \in [Containers -> Nat] /\ foreign \subseteq Containers
      /\ content = [d \in Containers |-> content[d]] /\ \A d \in Containers : Inside(d)
  BY DEF ContainersOK
<1>2. count' = [count EXCEPT ![c] = @ - 1] /\ count' \in [Containers -> Nat]
  BY <1>1 DEF Release, Dec
<1>3. foreign' \subseteq Containers /\ content' = [d \in Containers |-> content'[d]]
  BY <1>1 DEF Release
<1>4. ASSUME NEW d \in Containers PROVE Inside(d)'
  <2>1. CASE d # c \/ count[c] # 1
    <3>1. CASE d # c
      <4>1. count'[d] = count[d] /\ content'[d] = content[d] /\ (d \in foreign' <=> d \in foreign)
        BY <1>1, <3>1 DEF Release, Dec
      <4> QED
        BY <1>1, <4>1, Untouched
    <3>2. CASE d = c /\ count[c] # 1
      <4>1. content'[c] = content[c] /\ foreign' = foreign
        BY <3>2 DEF Release
      <4>2. count'[c] # 0
        BY <1>1, <1>2, <3>2
      <4>3. Elements(c)' = Elements(c)
        BY <4>1 DEF Elements
      <4> QED
        BY <1>1, <3>2, <4>1, <4>2, <4>3, MoreResidue DEF Inside
    <3> QED
      BY <2>1, <3>1, <3>2
  <2>2. CASE d = c /\ count[c] = 1
    <3>1. content'[c] = Empty(c) /\ c \notin foreign'
      BY <1>1, <2>2 DEF Release
    <3> QED
      BY <2>2, <3>1, FreedInside
  <2> QED
    BY <2>1, <2>2
<1> QED
  BY <1>2, <1>3, <1>4 DEF ContainersOK

\* The same for a slot, which may refer to nothing.
LEMMA ReleaseSlotContainers ==
    ASSUME CInv, state # "dangling", UNCHANGED style, died => died', NEW f \in Fields,
           ReleaseSlot(hash[f])
    PROVE  /\ ContainersOK'
           /\ \A c \in Containers :
                 count'[c] = IF hash[f] = RefTo(c) THEN count[c] - 1 ELSE count[c]
<1>1. hash[f] \in Slots /\ ContainersOK
  BY DEF CInv, Typed
<1>2. CASE hash[f].is = "ref"
  <2>1. PICK c \in Containers : hash[f] = RefTo(c) /\ hash[f].ref = c
    BY <1>1, <1>2 DEF Slots, Plain, RefTo, Slot
  <2>2. Release(c) /\ count[c] >= 1
    BY <1>2, <2>1, HolderCounted DEF ReleaseSlot
  <2>3. ContainersOK' /\ count' = [count EXCEPT ![c] = @ - 1]
    BY <1>1, <2>2, ReleaseContainers
  <2>4. \A d \in Containers : hash[f] = RefTo(d) <=> d = c
    BY <2>1 DEF RefTo, Slot
  <2> QED
    BY <1>1, <2>3, <2>4 DEF ContainersOK
<1>3. CASE hash[f].is # "ref"
  <2>1. UNCHANGED <<count, content, foreign>>
    BY <1>3 DEF ReleaseSlot
  <2>2. \A c : hash[f] # RefTo(c)
    BY <1>3 DEF RefTo, Slot
  <2>3. \A c \in Containers : Inside(c)'
    BY <1>1, <2>1, Untouched DEF ContainersOK
  <2> QED
    BY <1>1, <2>1, <2>2, <2>3 DEF ContainersOK
<1> QED
  BY <1>2, <1>3

\* The counts follow what one field refers to.
LEMMA CountedAfter ==
    ASSUME CInv, state # "dangling", NEW f \in Fields, UNCHANGED program,
           \A c \in Containers : \A g \in Fields \ {f} : hash'[g] = RefTo(c) <=> hash[g] = RefTo(c),
           \A c \in Containers : count'[c] =
              count[c] - (IF hash[f] = RefTo(c) THEN 1 ELSE 0)
                       + (IF hash'[f] = RefTo(c) THEN 1 ELSE 0)
    PROVE  CountsAreHolders'
<1>1. SUFFICES ASSUME NEW c \in Containers
               PROVE  count'[c] = Cardinality(Holding(c)') + (IF c \in program' THEN 1 ELSE 0)
  BY DEF CountsAreHolders, Holders, Holding
<1>2. count[c] = Cardinality(Holding(c)) + (IF c \in program THEN 1 ELSE 0)
  BY DEF CInv, CountsAreHolders, Holders, Holding
<1>3. /\ Cardinality(Holding(c)) \in Nat /\ Cardinality(Holding(c)') \in Nat
      /\ (hash[f] = RefTo(c) <=> hash'[f] = RefTo(c)) =>
            Cardinality(Holding(c)') = Cardinality(Holding(c))
      /\ hash[f] = RefTo(c) /\ hash'[f] # RefTo(c) =>
            Cardinality(Holding(c)') = Cardinality(Holding(c)) - 1
      /\ hash[f] # RefTo(c) /\ hash'[f] = RefTo(c) =>
            Cardinality(Holding(c)') = Cardinality(Holding(c)) + 1
  BY HolderChange
<1> QED
  BY <1>2, <1>3

\* Fields that do not change fit as before.
LEMMA FittingStays ==
    ASSUME UNCHANGED style, died => died', NEW g \in Fields, Fitting(g),
           hash'[g] = hash[g] \/ hash'[g] = Absent
    PROVE  Fitting(g)'
  BY MoreResidue DEF Fitting

\* A slot without a reference is no reference to any container.
LEMMA PlainIsNoRef == \A is, c : is # "ref" => Plain(is) # RefTo(c)
  BY DEF Plain, RefTo, Slot

\* The slots are told apart by what is in them.
LEMMA AbsentIs ==
    /\ Absent \in Slots /\ \A c : Absent # RefTo(c)
    /\ \A slot \in Slots : slot.is \in {"absent", "undef", "zero", "good", "ref"}
    /\ \A slot \in Slots : slot.is = "ref" <=> \E c \in Containers : slot = RefTo(c)
    /\ \A slot \in Slots : slot.is = "absent" <=> slot = Absent
  BY DEF Absent, Slots, Plain, RefTo, Slot

\* One lemma per operation: clear_field,
LEMMA ClearFieldCInv ==
    ASSUME CInv, state = "ok", NEW f \in Fields, ClearField(f)
    PROVE  CInv'
<1>1. /\ hash' = [hash EXCEPT ![f] = Absent] /\ ReleaseSlot(hash[f])
      /\ UNCHANGED <<style, program, died, state>>
  BY DEF ClearField
<1>2. hash \in [Fields -> Slots]
  BY DEF CInv, Typed
<1>3. hash' \in [Fields -> Slots] /\ hash'[f] = Absent /\ \A g \in Fields \ {f} : hash'[g] = hash[g]
  BY <1>1, <1>2, AbsentIs
<1>4. /\ ContainersOK'
      /\ \A c \in Containers : count'[c] = IF hash[f] = RefTo(c) THEN count[c] - 1 ELSE count[c]
  BY <1>1, ReleaseSlotContainers
<1>5. Typed'
  BY <1>1, <1>3 DEF CInv, Typed
<1>6. \A g \in Fields : Fitting(g)'
  BY <1>1, <1>3, FittingStays DEF CInv
<1>7. CountsAreHolders'
  <2>1. \A c \in Containers : count[c] \in Nat
    BY DEF CInv, ContainersOK
  <2>2. \A c \in Containers : count'[c] =
          count[c] - (IF hash[f] = RefTo(c) THEN 1 ELSE 0)
                   + (IF hash'[f] = RefTo(c) THEN 1 ELSE 0)
    BY <1>3, <1>4, <2>1, AbsentIs
  <2> QED
    BY <1>1, <1>3, <2>2, CountedAfter
<1> QED
  BY <1>4, <1>5, <1>6, <1>7 DEF CInv

\* The others of a oneof refer to nothing that is counted.
LEMMA SiblingsPlain ==
    ASSUME CInv, NEW f \in Fields, NEW g \in Siblings(f), NEW c
    PROVE  g \in Fields /\ hash[g] # RefTo(c)
<1>1. g \in Fields /\ Oneof[g] # NoOneof
  BY DEF Siblings
<1>2. Kind[g] = "scalar" /\ g \notin Extensions
  BY <1>1, AccessorsAssumption
<1>3. Valid(Type[g]) \cup Residue \subseteq {"good", "zero", "undef"}
  BY DEF Valid, Residue
<1>4. Fitting(g)
  BY <1>1 DEF CInv
<1>5. hash[g] = Absent \/ hash[g] \in {Plain(is) : is \in {"good", "zero", "undef"}}
  BY <1>2, <1>3, <1>4 DEF Fitting
<1> QED
  BY <1>1, <1>5, PlainIsNoRef, AbsentIs

\* set_scalar and the setters of the other scalar fields,
LEMMA SetToCInv ==
    ASSUME CInv, state = "ok", NEW f \in Fields, Kind[f] = "scalar",
           NEW v \in {"good", "bad", "undef"}, SetTo(f, v)
    PROVE  CInv'
<1> DEFINE takes == Accepts(Type[f], v)
           old == hash[f].is
           new == Copied(Type[f], old, v)
<1>1. /\ hash' = [g \in Fields |->
                    IF g \in Siblings(f) THEN Absent
                    ELSE IF g = f /\ (old # "ref" \/ takes) THEN Plain(new) ELSE hash[g]]
      /\ died' = (died \/ ~takes)
      /\ IF takes THEN ReleaseSlot(hash[f]) ELSE UNCHANGED <<count, content, foreign>>
      /\ UNCHANGED <<style, program, state>>
  BY DEF SetTo, Died
<1>2. hash \in [Fields -> Slots] /\ hash[f] \in Slots /\ died \in BOOLEAN
  BY DEF CInv, Typed
<1>3. old \in {"absent", "undef", "zero", "good", "ref"}
  BY <1>2, AbsentIs
<1>4. /\ takes \in BOOLEAN
      /\ takes => new \in Valid(Type[f])
      /\ ~takes => new = IF old \in {"absent", "hole"} THEN "undef" ELSE old
  <2>1. old \in Values \cup {"ref"}
    BY <1>3 DEF Values
  <2> QED
    BY <2>1, CopiedIs
<1>5. old # "ref" /\ old # "absent" => hash[f] \in {Plain(is) : is \in Valid(Type[f]) \cup Residue}
  <2>1. Fitting(f)
    BY DEF CInv
  <2>2. ASSUME NEW c, hash[f] = RefTo(c) PROVE old = "ref"
    BY <2>2 DEF RefTo, Slot
  <2> QED
    BY <1>2, <2>1, <2>2, AbsentIs DEF Fitting
<1>6. f \notin Siblings(f)
  BY DEF Siblings
<1>7. died' \in BOOLEAN /\ (died => died') /\ (~takes => died')
  BY <1>1, <1>2, <1>4
<1>8. old # "ref" \/ takes => new \in Valid(Type[f]) \cup Residue'
  <2>1. CASE ~takes /\ old # "ref" /\ old # "absent"
    <3>1. new = old
      BY <1>3, <1>4, <2>1
    <3>2. PICK is \in Valid(Type[f]) \cup Residue : hash[f] = Plain(is)
      BY <1>5, <2>1
    <3>3. old = is
      BY <3>2 DEF Plain, Slot
    <3> QED
      BY <1>1, <1>7, <3>1, <3>2, <3>3, MoreResidue
  <2>2. CASE ~takes /\ old = "absent"
    BY <1>4, <1>7, <2>2 DEF Residue
  <2> QED
    BY <1>4, <2>1, <2>2
<1> HIDE DEF new, takes
<1>9. \/ hash'[f] = hash[f] /\ ~takes
      \/ /\ hash'[f] = Plain(new) /\ (takes \/ old # "ref")
         /\ new \in Valid(Type[f]) \cup Residue'
  BY <1>1, <1>4, <1>6, <1>8
<1>10. Valid(Type[f]) \cup Residue' \subseteq {"good", "zero", "undef"}
  BY DEF Valid, Residue
<1>11. /\ DOMAIN hash' = Fields
       /\ \A g \in Fields \ {f} : hash'[g] = hash[g] \/ (hash'[g] = Absent /\ g \in Siblings(f))
  BY <1>1
<1>12. \A is \in {"good", "zero", "undef"} : Plain(is) \in Slots
  BY DEF Slots
<1>13. hash' \in [Fields -> Slots]
  <2>1. \A g \in Fields : hash'[g] \in Slots
    BY <1>2, <1>9, <1>10, <1>11, <1>12, AbsentIs
  <2>2. hash' = [g \in Fields |-> hash'[g]]
    BY <1>1
  <2> QED
    BY <2>1, <2>2
<1>14. Typed'
  BY <1>1, <1>7, <1>13 DEF CInv, Typed
<1>15. \A g \in Fields : Fitting(g)'
  <2>1. Fitting(f)'
    <3>1. CASE hash'[f] = hash[f]
      BY <1>1, <1>7, <3>1, FittingStays DEF CInv
    <3>2. CASE hash'[f] = Plain(new) /\ new \in Valid(Type[f]) \cup Residue'
      BY <3>2 DEF Fitting
    <3> QED
      BY <1>9, <3>1, <3>2
  <2>2. \A g \in Fields \ {f} : Fitting(g)'
    BY <1>1, <1>7, <1>11, FittingStays DEF CInv
  <2> QED
    BY <2>1, <2>2
<1>16. /\ ContainersOK'
       /\ \A c \in Containers :
             count'[c] = IF hash[f] = RefTo(c) /\ takes THEN count[c] - 1 ELSE count[c]
  <2>1. CASE takes
    BY <1>1, <1>7, <2>1, ReleaseSlotContainers
  <2>2. CASE ~takes
    <3>1. UNCHANGED <<count, content, foreign>>
      BY <1>1, <2>2
    <3>2. \A c \in Containers : Inside(c)'
      BY <1>1, <1>7, <3>1, Untouched DEF CInv, ContainersOK
    <3> QED
      BY <2>2, <3>1, <3>2 DEF CInv, ContainersOK
  <2> QED
    BY <2>1, <2>2
<1>17. CountsAreHolders'
  <2>1. \A c \in Containers : \A g \in Fields \ {f} : hash'[g] = RefTo(c) <=> hash[g] = RefTo(c)
    BY <1>11, SiblingsPlain, AbsentIs
  <2>2. \A c \in Containers : hash'[f] = RefTo(c) <=> hash[f] = RefTo(c) /\ ~takes
    <3>1. \A c : Plain(new) = RefTo(c) => new = "ref"
      BY PlainIsNoRef
    <3>2. ASSUME NEW c, hash[f] = RefTo(c) PROVE old = "ref"
      BY <3>2 DEF RefTo, Slot
    <3> QED
      BY <1>9, <1>10, <3>1, <3>2
  <2>3. \A c \in Containers : count[c] \in Nat
    BY DEF CInv, ContainersOK
  <2>4. \A c \in Containers : count'[c] =
          count[c] - (IF hash[f] = RefTo(c) THEN 1 ELSE 0)
                   + (IF hash'[f] = RefTo(c) THEN 1 ELSE 0)
    BY <1>16, <2>2, <2>3
  <2> QED
    BY <1>1, <2>1, <2>4, CountedAfter
<1> QED
  BY <1>14, <1>15, <1>16, <1>17 DEF CInv

\* References differ if what they refer to does.
LEMMA RefIs ==
    /\ \A c, d : RefTo(c) = RefTo(d) <=> c = d
    /\ \A c \in Containers : RefTo(c) \in Slots
    /\ \A c : RefTo(c).is = "ref" /\ RefTo(c).ref = c
  BY DEF RefTo, Slot, Slots

\* get_write_array or get_write_hash, and what is then put into the container.
LEMMA WriteToCInv ==
    ASSUME CInv, state = "ok", NEW f \in Fields, NEW c \in Containers, Writes(f, c),
           c \in IF Kind[f] = "map" THEN Hashes ELSE Arrays,
           ItemMethods(f) \/ Kind[f] = "map",
           NEW new \in IF c \in Arrays THEN Seq(Values) ELSE [Keys -> Values],
           WriteTo(f, c, new), died => died', died' \in BOOLEAN,
           c \notin foreign => Elements(c)' \subseteq Checked'
    PROVE  CInv'
<1>1. /\ hash' = [hash EXCEPT ![f] = RefTo(c)]
      /\ count' = IF hash[f] = RefTo(c) THEN count ELSE [count EXCEPT ![c] = 1]
      /\ content' = [content EXCEPT ![c] = new]
      /\ UNCHANGED <<style, program, foreign, state>>
  BY DEF WriteTo
<1>2. /\ hash \in [Fields -> Slots] /\ count \in [Containers -> Nat]
      /\ content = [d \in Containers |-> content[d]] /\ foreign \subseteq Containers
      /\ \A d \in Containers : Inside(d)
  BY DEF CInv, Typed, ContainersOK
<1>3. /\ hash' \in [Fields -> Slots] /\ hash'[f] = RefTo(c)
      /\ \A g \in Fields \ {f} : hash'[g] = hash[g]
  BY <1>1, <1>2, RefIs
<1>4. \A d \in Containers : count'[d] =
          count[d] - (IF hash[f] = RefTo(d) THEN 1 ELSE 0)
                   + (IF hash'[f] = RefTo(d) THEN 1 ELSE 0)
  <2>1. CASE hash[f] = RefTo(c)
    BY <1>1, <1>2, <1>3, <2>1, RefIs
  <2>2. CASE hash[f] # RefTo(c)
    <3>1. hash[f].is # "ref" /\ count[c] = 0
      BY <2>2 DEF Writes, Unused
    <3>2. \A d : hash[f] # RefTo(d)
      BY <3>1, RefIs
    <3> QED
      BY <1>1, <1>2, <1>3, <2>2, <3>1, <3>2, RefIs
  <2> QED
    BY <2>1, <2>2
<1>5. CountsAreHolders'
  BY <1>1, <1>3, <1>4, CountedAfter
<1>6. count' \in [Containers -> Nat] /\ count'[c] # 0
  <2>1. hash[f] = RefTo(c) => count[c] # 0
    BY HolderCounted
  <2> QED
    BY <1>1, <1>2, <2>1
<1>7. ContainersOK'
  <2>1. Inside(c)'
    BY <1>1, <1>2, <1>6 DEF Inside
  <2>2. ASSUME NEW d \in Containers, d # c PROVE Inside(d)'
    <3>1. count'[d] = count[d] /\ content'[d] = content[d]
      BY <1>1, <1>2, <2>2
    <3> QED
      BY <1>1, <1>2, <3>1, Untouched
  <2>3. content' = [d \in Containers |-> content'[d]]
    BY <1>1, <1>2
  <2> QED
    BY <1>1, <1>2, <1>6, <2>1, <2>2, <2>3 DEF ContainersOK
<1>8. Typed'
  BY <1>1, <1>3 DEF CInv, Typed
<1>9. \A g \in Fields : Fitting(g)'
  <2>1. Fitting(f)'
    BY <1>1, <1>3 DEF Fitting, ItemMethods
  <2>2. \A g \in Fields \ {f} : Fitting(g)'
    BY <1>1, <1>3, FittingStays DEF CInv
  <2> QED
    BY <2>1, <2>2
<1> QED
  BY <1>5, <1>7, <1>8, <1>9 DEF CInv

\* What passes the check of a setter, or is left by one that died, is Checked.
LEMMA CheckedIs ==
    /\ Residue \subseteq Checked /\ "hole" \in Checked
    /\ \A f \in Fields : ItemMethods(f) \/ Kind[f] = "map" => Valid(Type[f]) \subseteq Checked
<1> DEFINE valid == UNION {Valid(Type[g]) : g \in {g \in Fields : ItemMethods(g) \/ Kind[g] = "map"}}
<1>1. Checked = valid \cup Residue \cup {"hole"}
  BY DEF Checked
<1>2. ASSUME NEW f \in Fields, ItemMethods(f) \/ Kind[f] = "map"
      PROVE  Valid(Type[f]) \subseteq valid
  <2>1. f \in {g \in Fields : ItemMethods(g) \/ Kind[g] = "map"}
    BY <1>2
  <2> QED
    BY <2>1
<1> HIDE DEF valid
<1> QED
  BY <1>1, <1>2

\* It is the same after the step, as it is constant.
LEMMA CheckedIsNext == (Residue \subseteq Checked)' /\ ("hole" \in Checked)'
<1>1. Residue \subseteq Checked
  BY CheckedIs
<1>2. "hole" \in Checked
  BY CheckedIs
<1> QED
  BY <1>1, <1>2, PTL

\* What copy_value makes of an element or an entry.
LEMMA CopiedChecked ==
    ASSUME NEW f \in Fields, ItemMethods(f) \/ Kind[f] = "map",
           NEW old \in Values, NEW v \in {"good", "bad", "undef"},
           died \in BOOLEAN, Died(Type[f], v), UNCHANGED style
    PROVE  /\ died' \in BOOLEAN /\ (died => died')
           /\ Copied(Type[f], old, v) \in Values
           /\ Copied(Type[f], old, v) = old \/ Copied(Type[f], old, v) \in Checked'
<1> DEFINE takes == Accepts(Type[f], v)
           new == Copied(Type[f], old, v)
<1>1. /\ takes \in BOOLEAN /\ (takes => new \in Valid(Type[f]))
      /\ ~takes => new = IF old \in {"absent", "hole"} THEN "undef" ELSE old
  BY CopiedIs
<1>2. died' = (died \/ ~takes)
  BY DEF Died
<1>3. Valid(Type[f]) \subseteq Checked' /\ Residue' \subseteq Checked'
  <2>1. died => died'
    BY <1>1, <1>2
  <2>2. Checked \subseteq Checked'
    BY <2>1, MoreResidue
  <2> QED
    BY <2>2, CheckedIs, CheckedIsNext
<1>4. Valid(Type[f]) \subseteq Values /\ "undef" \in Values
  BY DEF Valid, Values
<1>5. ~takes => "undef" \in Residue'
  BY <1>1, <1>2 DEF Residue
<1> HIDE DEF takes, new
<1>6. /\ died' \in BOOLEAN /\ (died => died') /\ new \in Values
      /\ new = old \/ new \in Checked'
  BY <1>1, <1>2, <1>3, <1>4, <1>5
<1> QED
  BY <1>6 DEF new

\* An array after a write to one of its elements.
LEMMA PutElementIs ==
    ASSUME NEW s \in Seq(Values), NEW at \in Nat \ {0}, NEW x \in Values
    PROVE  /\ PutElement(s, at, x) \in Seq(Values) /\ Element(s, at) \in Values
           /\ Element(s, at) = "hole" \/ \E i \in DOMAIN s : Element(s, at) = s[i]
           /\ \A j \in DOMAIN PutElement(s, at, x) :
                 \/ PutElement(s, at, x)[j] \in {x, "hole"}
                 \/ \E i \in DOMAIN s : PutElement(s, at, x)[j] = s[i]
<1>1. Len(s) \in Nat /\ DOMAIN s = 1..Len(s) /\ \A i \in 1..Len(s) : s[i] \in Values
  OBVIOUS
<1>2. \A j \in Nat \ {0} : \/ Element(s, j) = "hole"
                           \/ \E i \in DOMAIN s : Element(s, j) = s[i]
  BY <1>1 DEF Element
<1>3. \A j \in Nat \ {0} : Element(s, j) \in Values
  BY <1>1, <1>2 DEF Values
<1>4. PICK n \in Nat : n = IF at > Len(s) THEN at ELSE Len(s)
  BY <1>1
<1>5. PutElement(s, at, x) = [j \in 1..n |-> IF j = at THEN x ELSE Element(s, j)]
  BY <1>4 DEF PutElement
<1>6. \A j \in 1..n : (IF j = at THEN x ELSE Element(s, j)) \in Values
  BY <1>3
<1>7. PutElement(s, at, x) \in [1..n -> Values]
  BY <1>5, <1>6
<1>8. PutElement(s, at, x) \in Seq(Values)
  BY <1>7
<1>9. \A j \in 1..n : PutElement(s, at, x)[j] = IF j = at THEN x ELSE Element(s, j)
  BY <1>5
<1>10. DOMAIN PutElement(s, at, x) = 1..n
  BY <1>5
<1> QED
  BY <1>2, <1>3, <1>8, <1>9, <1>10

\* What is in a list the setters have made has been checked.
LEMMA ArrayInside ==
    ASSUME CInv, NEW c \in Arrays
    PROVE  /\ content[c] \in Seq(Values) /\ c \in Containers /\ c \notin Hashes
           /\ c \notin foreign => \A i \in DOMAIN content[c] : content[c][i] \in Checked
<1>1. c \in Containers /\ c \notin Hashes
  BY AccessorsAssumption DEF Containers
<1>2. Inside(c)
  BY <1>1 DEF CInv, ContainersOK
<1> QED
  BY <1>1, <1>2 DEF Inside, Elements

\* The fields with methods for one item are lists.
LEMMA ItemMethodsIs ==
    ASSUME NEW f \in Fields
    PROVE  /\ ItemMethods(f) => Kind[f] # "map"
           /\ Kind[f] = "list" => ItemMethods(f)
  BY DEF ItemMethods

\* set_list_item,
LEMMA SetItemCInv ==
    ASSUME CInv, state = "ok", NEW f \in Fields, NEW index \in Int,
           NEW v \in {"good", "bad", "undef"}, SetItem(f, index, v)
    PROVE  CInv'
<1>1. PICK c \in Arrays : /\ Writes(f, c) /\ Position(content[c], index) \in 1..MaxSize
                          /\ WriteTo(f, c, PutElement(content[c], Position(content[c], index),
                                Copied(Type[f], Element(content[c], Position(content[c], index)), v)))
  BY DEF SetItem
<1>2. /\ content[c] \in Seq(Values) /\ c \in Containers
      /\ c \notin foreign => \A i \in DOMAIN content[c] : content[c][i] \in Checked
  BY ArrayInside
<1>3. PICK at \in Nat \ {0} : at = Position(content[c], index)
  BY <1>1
<1>4. PICK old : old = Element(content[c], at)
  OBVIOUS
<1> DEFINE s == content[c]
<1>20. s \in Seq(Values)
  BY <1>2
<1> HIDE DEF s
<1>5. old \in Values /\ (old = "hole" \/ \E i \in DOMAIN content[c] : old = content[c][i])
  <2>1. "hole" \in Values
    BY DEF Values
  <2>2. Element(s, at) \in Values
        /\ (Element(s, at) = "hole" \/ \E i \in DOMAIN s : Element(s, at) = s[i])
    BY <1>20, <2>1, PutElementIs
  <2> QED
    BY <1>4, <2>2 DEF s
<1>6. PICK x : x = Copied(Type[f], old, v)
  OBVIOUS
<1>7. UNCHANGED style /\ Died(Type[f], v) /\ died \in BOOLEAN /\ ItemMethods(f)
  BY <1>1 DEF WriteTo, SetItem, CInv, Typed
<1>8. /\ died' \in BOOLEAN /\ (died => died') /\ x \in Values
      /\ x = old \/ x \in Checked'
  BY <1>5, <1>6, <1>7, CopiedChecked
<1>9. PICK new : new = PutElement(content[c], at, x)
  OBVIOUS
<1>10. /\ new \in Seq(Values)
       /\ \A j \in DOMAIN new : new[j] \in {x, "hole"} \/ \E i \in DOMAIN content[c] : new[j] = content[c][i]
  <2>1. /\ PutElement(s, at, x) \in Seq(Values)
        /\ \A j \in DOMAIN PutElement(s, at, x) :
              \/ PutElement(s, at, x)[j] \in {x, "hole"}
              \/ \E i \in DOMAIN s : PutElement(s, at, x)[j] = s[i]
    BY <1>8, <1>20, PutElementIs
  <2> QED
    BY <1>9, <2>1 DEF s
<1>11. WriteTo(f, c, new)
  BY <1>1, <1>3, <1>4, <1>6, <1>9
<1>12. ASSUME c \notin foreign PROVE Elements(c)' \subseteq Checked'
  <2>1. Checked \subseteq Checked' /\ "hole" \in Checked
    BY <1>7, <1>8, MoreResidue, CheckedIs
  <2>2. \A i \in DOMAIN content[c] : content[c][i] \in Checked'
    BY <1>2, <1>12, <2>1
  <2>3. x \in Checked'
    BY <1>5, <1>8, <2>1, <2>2
  <2>4. \A j \in DOMAIN new : new[j] \in Checked'
    BY <1>10, <2>1, <2>2, <2>3
  <2>5. content'[c] = new
    <3>1. content' = [content EXCEPT ![c] = new]
      BY <1>11 DEF WriteTo
    <3>2. content = [d \in Containers |-> content[d]]
      BY DEF CInv, ContainersOK
    <3> QED
      BY <1>2, <3>1, <3>2
  <2>6. Elements(c)' = {new[i] : i \in DOMAIN new}
    BY <2>5 DEF Elements
  <2> QED
    BY <2>4, <2>6
<1>13. c \in IF Kind[f] = "map" THEN Hashes ELSE Arrays
  BY <1>1, <1>7, ItemMethodsIs
<1> QED
  BY <1>1, <1>2, <1>7, <1>8, <1>10, <1>11, <1>12, <1>13, WriteToCInv

\* add_list_item,
LEMMA AddItemCInv ==
    ASSUME CInv, state = "ok", NEW f \in Fields, NEW v \in {"good", "bad", "undef"}, AddItem(f, v)
    PROVE  CInv'
<1>1. PICK c \in Arrays : /\ Writes(f, c)
                          /\ WriteTo(f, c, Append(content[c], Copied(Type[f], "hole", v)))
  BY DEF AddItem
<1>2. /\ content[c] \in Seq(Values) /\ c \in Containers
      /\ c \notin foreign => \A i \in DOMAIN content[c] : content[c][i] \in Checked
  BY ArrayInside
<1>3. UNCHANGED style /\ Died(Type[f], v) /\ died \in BOOLEAN /\ ItemMethods(f)
  BY <1>1, ItemMethodsIs DEF WriteTo, AddItem, CInv, Typed
<1>4. PICK x : x = Copied(Type[f], "hole", v)
  OBVIOUS
<1>5. /\ died' \in BOOLEAN /\ (died => died') /\ x \in Values
      /\ x = "hole" \/ x \in Checked'
  BY <1>3, <1>4, CopiedChecked DEF Values
<1>6. PICK new : new = Append(content[c], x)
  OBVIOUS
<1>7. /\ new \in Seq(Values)
      /\ \A j \in DOMAIN new : new[j] = x \/ \E i \in DOMAIN content[c] : new[j] = content[c][i]
  <2>1. new \in Seq(Values) /\ Len(new) = Len(content[c]) + 1
    BY <1>2, <1>5, <1>6, AppendProperties
  <2>2. \A j \in 1..Len(new) : new[j] = IF j <= Len(content[c]) THEN content[c][j] ELSE x
    BY <1>2, <1>5, <1>6, AppendProperties
  <2>3. Len(content[c]) \in Nat /\ DOMAIN content[c] = 1..Len(content[c]) /\ DOMAIN new = 1..Len(new)
    BY <1>2, <2>1
  <2> QED
    BY <2>1, <2>2, <2>3
<1>8. WriteTo(f, c, new)
  BY <1>1, <1>4, <1>6
<1>9. ASSUME c \notin foreign PROVE Elements(c)' \subseteq Checked'
  <2>1. Checked \subseteq Checked' /\ "hole" \in Checked
    BY <1>3, <1>5, MoreResidue, CheckedIs
  <2>2. \A j \in DOMAIN new : new[j] \in Checked'
    BY <1>2, <1>5, <1>7, <1>9, <2>1
  <2>3. content'[c] = new
    <3>1. content' = [content EXCEPT ![c] = new]
      BY <1>8 DEF WriteTo
    <3>2. content = [d \in Containers |-> content[d]]
      BY DEF CInv, ContainersOK
    <3> QED
      BY <1>2, <3>1, <3>2
  <2>4. Elements(c)' = {new[i] : i \in DOMAIN new}
    BY <2>3 DEF Elements
  <2> QED
    BY <2>2, <2>4
<1>10. c \in IF Kind[f] = "map" THEN Hashes ELSE Arrays
  BY <1>1, <1>3, ItemMethodsIs
<1> QED
  BY <1>1, <1>2, <1>3, <1>5, <1>7, <1>8, <1>9, <1>10, WriteToCInv

\* set_map_item,
LEMMA SetMapItemCInv ==
    ASSUME CInv, state = "ok", NEW f \in Fields, NEW k \in Keys,
           NEW v \in {"good", "bad", "undef"}, SetMapItem(f, k, v)
    PROVE  CInv'
<1>1. PICK c \in Hashes : /\ Writes(f, c)
                          /\ WriteTo(f, c, [content[c] EXCEPT ![k] = Copied(Type[f], @, v)])
  BY DEF SetMapItem
<1>2. c \in Containers /\ c \notin Arrays
  BY AccessorsAssumption DEF Containers
<1>3. /\ content[c] \in [Keys -> Values]
      /\ c \notin foreign => \A j \in Keys : content[c][j] = "absent" \/ content[c][j] \in Checked
  <2>1. Inside(c)
    BY <1>2 DEF CInv, ContainersOK
  <2> QED
    BY <1>2, <2>1 DEF Inside, Elements
<1>4. UNCHANGED style /\ Died(Type[f], v) /\ died \in BOOLEAN /\ Kind[f] = "map"
  BY <1>1 DEF WriteTo, SetMapItem, CInv, Typed
<1>5. PICK x : x = Copied(Type[f], content[c][k], v)
  OBVIOUS
<1>6. /\ died' \in BOOLEAN /\ (died => died') /\ x \in Values
      /\ x = content[c][k] \/ x \in Checked'
  BY <1>3, <1>4, <1>5, CopiedChecked
<1>7. PICK new : new = [content[c] EXCEPT ![k] = x]
  OBVIOUS
<1>8. /\ new \in [Keys -> Values]
      /\ new[k] = x /\ \A j \in Keys \ {k} : new[j] = content[c][j]
  BY <1>3, <1>6, <1>7
<1>9. WriteTo(f, c, new)
  BY <1>1, <1>5, <1>7
<1>10. ASSUME c \notin foreign PROVE Elements(c)' \subseteq Checked'
  <2>1. Checked \subseteq Checked'
    BY <1>4, <1>6, MoreResidue
  <2>2. \A j \in Keys : new[j] = "absent" \/ new[j] \in Checked'
    BY <1>3, <1>6, <1>8, <1>10, <2>1
  <2>3. content'[c] = new
    <3>1. content' = [content EXCEPT ![c] = new]
      BY <1>9 DEF WriteTo
    <3>2. content = [d \in Containers |-> content[d]]
      BY DEF CInv, ContainersOK
    <3> QED
      BY <1>2, <3>1, <3>2
  <2>4. Elements(c)' = {new[j] : j \in Keys} \ {"absent"}
    BY <1>2, <2>3 DEF Elements
  <2> QED
    BY <2>2, <2>4
<1>11. c \in IF Kind[f] = "map" THEN Hashes ELSE Arrays
  BY <1>1, <1>4
<1>12. new \in IF c \in Arrays THEN Seq(Values) ELSE [Keys -> Values]
  BY <1>2, <1>8
<1> QED
  BY <1>1, <1>2, <1>4, <1>6, <1>9, <1>10, <1>11, <1>12, WriteToCInv

\* An object with nothing set, and no list or map.
LEMMA NothingSet ==
    ASSUME hash' = [g \in Fields |-> Absent], content' = [c \in Containers |-> Empty(c)],
           count' = [c \in Containers |-> 0], program' = {}, foreign' = {}, died' = FALSE,
           state' \in {"ok", "crashed"}
    PROVE  CInv'
<1>1. Typed'
  BY AbsentIs DEF Typed
<1>2. \A g \in Fields : Fitting(g)'
  BY DEF Fitting
<1>3. \A c \in Containers : Inside(c)'
  BY FreedInside
<1>4. ContainersOK'
  BY <1>3 DEF ContainersOK
<1>5. \A c \in Containers : Holders(c)' = 0
  <2>1. \A c : {g \in Fields : hash'[g] = RefTo(c)} = {}
    BY AbsentIs
  <2>2. Cardinality({}) = 0
    BY FS_EmptySet
  <2> QED
    BY <2>1, <2>2 DEF Holders
<1> QED
  BY <1>1, <1>2, <1>4, <1>5 DEF CInv, CountsAreHolders

\* set_list_item before the first item, where perl ends the program,
LEMMA SetItemBeforeCInv ==
    ASSUME NEW f, NEW index, SetItemBefore(f, index)
    PROVE  CInv'
  BY NothingSet DEF SetItemBefore

\* set_list and set_map of a container of the program,
LEMMA SetContainerCInv ==
    ASSUME CInv, state = "ok", NEW f \in Fields, NEW c \in Containers, SetContainer(f, c)
    PROVE  CInv'
<1>1. /\ TakesContainer(f, c) /\ ~Freed(f, c)
      /\ hash' = [hash EXCEPT ![f] = RefTo(c)]
      /\ count' = Replaced(f, c)
      /\ content' = [d \in Containers |-> IF count'[d] = 0 THEN Empty(d) ELSE content[d]]
      /\ foreign' = {d \in foreign : count'[d] > 0}
      /\ UNCHANGED <<style, program, died, state>>
  BY DEF SetContainer
<1>2. /\ hash \in [Fields -> Slots] /\ count \in [Containers -> Nat]
      /\ foreign \subseteq Containers /\ \A d \in Containers : Inside(d)
  BY DEF CInv, Typed, ContainersOK
<1>3. /\ hash' \in [Fields -> Slots] /\ hash'[f] = RefTo(c)
      /\ \A g \in Fields \ {f} : hash'[g] = hash[g]
  BY <1>1, <1>2, RefIs
<1>4. /\ \A d \in Containers : count'[d] =
             count[d] - (IF hash[f] = RefTo(d) THEN 1 ELSE 0)
                      + (IF hash'[f] = RefTo(d) THEN 1 ELSE 0)
      /\ count' \in [Containers -> Nat]
  <2>1. CASE hash[f].is = "ref"
    <3>1. PICK old \in Containers : hash[f] = RefTo(old) /\ hash[f].ref = old
      BY <1>2, <2>1, AbsentIs, RefIs
    <3>2. count[old] >= 1
      BY <3>1, HolderCounted
    <3>3. count' = [[count EXCEPT ![old] = @ - 1] EXCEPT ![c] = @ + 1]
      BY <1>1, <2>1, <3>1 DEF Replaced, Dec
    <3>4. \A d : (hash[f] = RefTo(d) <=> d = old) /\ (hash'[f] = RefTo(d) <=> d = c)
      BY <1>3, <3>1, RefIs
    <3> QED
      BY <1>2, <3>2, <3>3, <3>4
  <2>2. CASE hash[f].is # "ref"
    <3>1. count' = [count EXCEPT ![c] = @ + 1]
      BY <1>1, <2>2 DEF Replaced
    <3>2. \A d : hash[f] # RefTo(d) /\ (hash'[f] = RefTo(d) <=> d = c)
      BY <1>3, <2>2, RefIs
    <3> QED
      BY <1>2, <3>1, <3>2
  <2> QED
    BY <2>1, <2>2
<1>5. CountsAreHolders'
  BY <1>1, <1>3, <1>4, CountedAfter
<1>6. ContainersOK'
  <2>1. ASSUME NEW d \in Containers PROVE Inside(d)'
    <3>1. CASE count'[d] = 0
      BY <1>1, <3>1, FreedInside
    <3>2. CASE count'[d] # 0
      <4>1. content'[d] = content[d] /\ (d \in foreign' <=> d \in foreign)
        BY <1>1, <1>4, <3>2
      <4>2. Elements(d)' = Elements(d)
        BY <4>1 DEF Elements
      <4> QED
        BY <1>1, <1>2, <3>2, <4>1, <4>2, MoreResidue DEF Inside
    <3> QED
      BY <3>1, <3>2
  <2> QED
    BY <1>1, <1>2, <1>4, <2>1 DEF ContainersOK
<1>7. Typed'
  BY <1>1, <1>3 DEF CInv, Typed
<1>8. \A g \in Fields : Fitting(g)'
  <2>1. Fitting(f)'
    BY <1>1, <1>3 DEF Fitting, TakesContainer, ItemMethods
  <2>2. \A g \in Fields \ {f} : Fitting(g)'
    BY <1>1, <1>3, FittingStays DEF CInv
  <2> QED
    BY <2>1, <2>2
<1> QED
  BY <1>5, <1>6, <1>7, <1>8 DEF CInv

\* the same with the container that is there, which may go before it is stored,
LEMMA SetToItselfCInv ==
    ASSUME CInv, NEW f \in Fields, NEW c \in Containers, SetToItself(f, c)
    PROVE  CInv'
<1>1. /\ count[c] = 1 /\ state' = "dangling" /\ Release(c)
      /\ UNCHANGED <<style, hash, program, died>>
  BY DEF SetToItself, Freed
<1>2. ContainersOK'
  BY <1>1, ReleaseContainers DEF CInv
<1>3. Typed'
  BY <1>1 DEF CInv, Typed
<1>4. \A g \in Fields : Fitting(g)'
  BY <1>1, FittingStays DEF CInv
<1> QED
  BY <1>1, <1>2, <1>3, <1>4 DEF CInv, CountsAreHolders

\* Steps of the program: the object stays as it is, and the counts follow what it holds.
LEMMA ProgramCInv ==
    ASSUME CInv, state = "ok", UNCHANGED <<style, hash, died, state>>, ContainersOK',
           program' \subseteq Containers,
           \A c \in Containers : count'[c] =
              count[c] - (IF c \in program THEN 1 ELSE 0) + (IF c \in program' THEN 1 ELSE 0)
    PROVE  CInv'
<1>1. Typed'
  BY DEF CInv, Typed
<1>2. \A g \in Fields : Fitting(g)'
  BY FittingStays DEF CInv
<1>3. ASSUME NEW c \in Containers
      PROVE  count'[c] = Cardinality(Holding(c)') + (IF c \in program' THEN 1 ELSE 0)
  <2>1. count[c] = Cardinality(Holding(c)) + (IF c \in program THEN 1 ELSE 0)
    BY DEF CInv, CountsAreHolders, Holders, Holding
  <2>2. Cardinality(Holding(c)) \in Nat
    BY HoldingFinite
  <2>3. Holding(c)' = Holding(c)
    BY DEF Holding
  <2> QED
    BY <2>1, <2>2, <2>3
<1>4. CountsAreHolders'
  BY <1>3 DEF CountsAreHolders, Holders, Holding
<1> QED
  BY <1>1, <1>2, <1>4 DEF CInv

\* the program building a container,
LEMMA BuildCInv ==
    ASSUME CInv, state = "ok", NEW c \in Containers, Build(c, "bad")
    PROVE  CInv'
<1> DEFINE new == IF c \in Arrays THEN <<"bad">> ELSE [k \in Keys |-> "bad"]
<1>1. /\ count' = [count EXCEPT ![c] = 1] /\ content' = [content EXCEPT ![c] = new]
      /\ program' = program \cup {c} /\ foreign' = foreign \cup {c}
      /\ UNCHANGED <<style, hash, died, state>>
  BY DEF Build
<1>2. /\ count \in [Containers -> Nat] /\ foreign \subseteq Containers /\ program \subseteq Containers
      /\ content = [d \in Containers |-> content[d]] /\ \A d \in Containers : Inside(d)
  BY DEF CInv, Typed, ContainersOK
<1>3. count[c] = 0 /\ c \notin program
  BY NobodyHolds DEF Build, Unused
<1>4. new \in IF c \in Arrays THEN Seq(Values) ELSE [Keys -> Values]
  <2>1. "bad" \in Values
    BY DEF Values
  <2>2. <<"bad">> \in Seq(Values)
    BY <2>1
  <2>3. [k \in Keys |-> "bad"] \in [Keys -> Values]
    BY <2>1
  <2> QED
    BY <2>2, <2>3
<1> HIDE DEF new
<1>5. ContainersOK'
  <2>1. Inside(c)'
    BY <1>1, <1>2, <1>4 DEF Inside
  <2>2. ASSUME NEW d \in Containers, d # c PROVE Inside(d)'
    <3>1. count'[d] = count[d] /\ content'[d] = content[d] /\ (d \in foreign' <=> d \in foreign)
      BY <1>1, <1>2, <2>2
    <3> QED
      BY <1>1, <1>2, <3>1, Untouched
  <2>3. content' = [d \in Containers |-> content'[d]]
    BY <1>1, <1>2
  <2> QED
    BY <1>1, <1>2, <2>1, <2>2, <2>3 DEF ContainersOK
<1>6. \A d \in Containers : count'[d] =
         count[d] - (IF d \in program THEN 1 ELSE 0) + (IF d \in program' THEN 1 ELSE 0)
  BY <1>1, <1>2, <1>3
<1> QED
  BY <1>1, <1>2, <1>5, <1>6, ProgramCInv

\* the program keeping the container of a field,
LEMMA KeepCInv ==
    ASSUME CInv, state = "ok", NEW f \in Fields, NEW c \in Containers, Keep(f, c)
    PROVE  CInv'
<1>1. /\ hash[f] = RefTo(c) /\ c \notin program
      /\ count' = [count EXCEPT ![c] = @ + 1] /\ program' = program \cup {c}
      /\ UNCHANGED <<style, hash, content, foreign, died, state>>
  BY DEF Keep
<1>2. /\ count \in [Containers -> Nat] /\ foreign \subseteq Containers /\ program \subseteq Containers
      /\ content = [d \in Containers |-> content[d]] /\ \A d \in Containers : Inside(d)
  BY DEF CInv, Typed, ContainersOK
<1>3. count[c] >= 1
  BY <1>1, HolderCounted
<1>4. ContainersOK'
  <2>1. ASSUME NEW d \in Containers PROVE Inside(d)'
    <3>1. Elements(d)' = Elements(d)
      BY <1>1 DEF Elements
    <3>2. count'[d] = 0 => count[d] = 0
      BY <1>1, <1>2, <1>3
    <3> QED
      BY <1>1, <1>2, <3>1, <3>2, MoreResidue DEF Inside
  <2> QED
    BY <1>1, <1>2, <2>1 DEF ContainersOK
<1>5. \A d \in Containers : count'[d] =
         count[d] - (IF d \in program THEN 1 ELSE 0) + (IF d \in program' THEN 1 ELSE 0)
  BY <1>1, <1>2
<1> QED
  BY <1>1, <1>2, <1>4, <1>5, ProgramCInv

\* and the program letting go of one.
LEMMA LetGoCInv ==
    ASSUME CInv, state = "ok", NEW c \in Containers, LetGo(c)
    PROVE  CInv'
<1>1. /\ c \in program /\ program' = program \ {c} /\ Release(c)
      /\ UNCHANGED <<style, hash, died, state>>
  BY DEF LetGo
<1>2. count[c] >= 1
  BY <1>1, HolderCounted
<1>3. ContainersOK' /\ count' = [count EXCEPT ![c] = @ - 1]
  BY <1>1, <1>2, ReleaseContainers DEF CInv
<1>4. count \in [Containers -> Nat] /\ program \subseteq Containers
  BY DEF CInv, Typed, ContainersOK
<1>5. \A d \in Containers : count'[d] =
         count[d] - (IF d \in program THEN 1 ELSE 0) + (IF d \in program' THEN 1 ELSE 0)
  BY <1>1, <1>3, <1>4
<1> QED
  BY <1>1, <1>3, <1>4, <1>5, ProgramCInv

\* A new object has no containers.
LEMMA InitCInv == Init => CInv
<1> SUFFICES ASSUME Init PROVE CInv
  OBVIOUS
<1>1. Typed
  BY AbsentIs DEF Init, Typed
<1>2. \A g \in Fields : Fitting(g)
  BY DEF Init, Fitting
<1>3. ContainersOK
  <2>1. ASSUME NEW c \in Containers PROVE Inside(c)
    BY EmptyIs DEF Init, Inside
  <2> QED
    BY <2>1 DEF Init, ContainersOK
<1>4. \A c \in Containers : Holders(c) = 0
  <2>1. \A c : {g \in Fields : hash[g] = RefTo(c)} = {}
    BY AbsentIs DEF Init
  <2>2. Cardinality({}) = 0
    BY FS_EmptySet
  <2> QED
    BY <2>1, <2>2 DEF Init, Holders
<1> QED
  BY <1>1, <1>2, <1>3, <1>4 DEF Init, CInv, CountsAreHolders

\* The containers and their counts are right after every step.
LEMMA NextCInv == CInv /\ [Next]_vars => CInv'
<1> SUFFICES ASSUME CInv, [Next]_vars PROVE CInv'
  OBVIOUS
<1>1. CASE UNCHANGED vars
  <2>1. ContainersOK'
    BY <1>1, Untouched DEF vars, CInv, ContainersOK
  <2>2. Typed' /\ \A g \in Fields : Fitting(g)'
    BY <1>1, FittingStays DEF vars, CInv, Typed
  <2>3. CountsAreHolders'
    BY <1>1 DEF vars, CInv, CountsAreHolders, Holders
  <2> QED
    BY <2>1, <2>2, <2>3 DEF CInv
<1>2. CASE state = "ok" /\ Call
  <2>1. ASSUME NEW f \in Fields, ClearField(f) PROVE CInv'
    BY <1>2, <2>1, ClearFieldCInv
  <2>2. ASSUME NEW f \in Fields, NEW v \in Given(f), SetScalar(f, v) PROVE CInv'
    BY <1>2, <2>2, GivenIs, SetToCInv DEF SetScalar
  <2>3. ASSUME NEW f \in Fields, NEW v \in Given(f), AddItem(f, v) PROVE CInv'
    BY <1>2, <2>3, GivenIs, AddItemCInv
  <2>4. ASSUME NEW f \in Fields, NEW g \in Fields, SetToValueOf(f, g) PROVE CInv'
    BY <1>2, <2>4, SeenIs, SetToCInv DEF SetToValueOf
  <2>5. ASSUME NEW f \in Fields, NEW index \in -1..(MaxSize - 1), SetItemBefore(f, index) PROVE CInv'
    BY <2>5, SetItemBeforeCInv
  <2>6. ASSUME NEW f \in Fields, NEW index \in -1..(MaxSize - 1), NEW v \in Given(f), SetItem(f, index, v)
        PROVE CInv'
    BY <1>2, <2>6, GivenIs, SetItemCInv
  <2>7. ASSUME NEW f \in Fields, NEW k \in Keys, NEW v \in Given(f), SetMapItem(f, k, v) PROVE CInv'
    BY <1>2, <2>7, GivenIs, SetMapItemCInv
  <2>8. ASSUME NEW f \in Fields, NEW c \in Containers, SetContainer(f, c) PROVE CInv'
    BY <1>2, <2>8, SetContainerCInv
  <2>9. ASSUME NEW f \in Fields, NEW c \in Containers, SetToItself(f, c) PROVE CInv'
    BY <2>9, SetToItselfCInv
  <2> QED
    BY <1>2, <2>1, <2>2, <2>3, <2>4, <2>5, <2>6, <2>7, <2>8, <2>9 DEF Call
<1>3. CASE state = "ok" /\ Perl
  BY <1>3, BuildCInv, KeepCInv, LetGoCInv DEF Perl
<1> QED
  BY <1>1, <1>2, <1>3 DEF Next

\* The inductive invariant of the containers holds for every sequence of calls.
LEMMA ContainersInvariant == Spec => []CInv
  BY InitCInv, NextCInv, PTL DEF Spec

\* Through any sharing of lists and maps between fields and the program, and any setter
\* that dies half way, a container has as many references as holders: it is freed when
\* the last one goes, and not before (until a list or map is set to itself).
THEOREM CountsStayHolders == Spec => []CountsAreHolders
<1>1. CInv => CountsAreHolders
  BY DEF CInv
<1> QED
  BY <1>1, ContainersInvariant, PTL

\* It says what the types are.
LEMMA CInvTypeOK == CInv => TypeOK
<1> SUFFICES ASSUME CInv PROVE TypeOK
  OBVIOUS
<1>1. program \cup foreign \subseteq Containers /\ state \in {"ok", "crashed", "dangling"}
  BY DEF CInv, Typed, ContainersOK
<1>2. ASSUME NEW f \in Fields, hash[f].is = "ref"
      PROVE  /\ hash[f].ref \in IF Kind[f] = "map" THEN Hashes ELSE Arrays
             /\ Kind[f] = "scalar" => f \in Extensions /\ style = "single_accessor"
             /\ hash[f].ref \notin foreign => Elements(hash[f].ref) \subseteq Checked
  <2>1. hash[f] \in Slots /\ Fitting(f) /\ \A c \in Containers : Inside(c)
    BY DEF CInv, Typed, ContainersOK
  <2>2. PICK c \in Containers : hash[f] = RefTo(c) /\ hash[f].ref = c
    BY <1>2, <2>1, AbsentIs, RefIs
  <2>3. hash[f] # Absent /\ \A is \in Valid(Type[f]) \cup Residue : hash[f] # Plain(is)
    <3>1. "ref" \notin Valid(Type[f]) \cup Residue
      BY DEF Valid, Residue
    <3> QED
      BY <2>2, <3>1, AbsentIs, PlainIsNoRef
  <2>4. /\ hash[f] \in {RefTo(d) : d \in IF Kind[f] = "map" THEN Hashes ELSE Arrays}
        /\ Kind[f] = "scalar" => f \in Extensions /\ style = "single_accessor"
    BY <2>1, <2>3 DEF Fitting
  <2>5. c \in IF Kind[f] = "map" THEN Hashes ELSE Arrays
    BY <2>2, <2>4, RefIs
  <2>6. c \notin foreign => Elements(c) \subseteq Checked
    BY <2>1 DEF Inside
  <2> QED
    BY <2>2, <2>4, <2>5, <2>6
<1>3. ASSUME NEW f \in Fields, hash[f].is # "ref", hash[f].is # "absent"
      PROVE  Kind[f] = "scalar" /\ hash[f].is \in Valid(Type[f]) \cup Residue
  <2>1. Fitting(f) /\ hash[f] \in Slots
    BY DEF CInv, Typed
  <2>2. \A c : hash[f] # RefTo(c)
    BY <1>3, RefIs
  <2>3. Kind[f] = "scalar" /\ hash[f] \in {Plain(is) : is \in Valid(Type[f]) \cup Residue}
    BY <1>3, <2>1, <2>2, AbsentIs DEF Fitting
  <2>4. \A is : Plain(is).is = is
    BY DEF Plain, Slot
  <2> QED
    BY <2>3, <2>4
<1> QED
  BY <1>1, <1>2, <1>3 DEF TypeOK, Checked

\* A field holds nothing, a value of its type, or a list or map of its kind with checked
\* values, and what setters that died leave behind is undef at most.
THEOREM TypeCorrect == Spec => []TypeOK
  BY CInvTypeOK, ContainersInvariant, PTL
==============================================================================
