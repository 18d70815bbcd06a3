-------------------------- MODULE FieldLookupProofs --------------------------
(* The lookup table of FieldLookup, for every set of fields.                    *)
EXTENDS FieldLookup, TLAPS

\* The last number that fits, while the scan goes on and after it.
LastFits == last # 0 => last \in fields /\ Fits(last)

\* Before optimize_lookup every field is in the hash; after it the fields up to
\* top are in the array, each in its slot, and the others in the hash.
Partition ==
    /\ phase = "add" => sparse = {}
    /\ phase = "scan" => sparse = fields
    /\ phase # "ready" => top = 0 /\ packed = [n \in {} |-> NULL]
    /\ phase = "ready" =>
          /\ top = last
          /\ packed = [n \in Slots |-> IF n \in UpTo(last) THEN n ELSE NULL]
          /\ sparse = fields \ UpTo(last)

\* Inductive: the properties of the table follow from it.
IInv == TypeOK /\ LastFits /\ Partition

\* The table starts empty.
LEMMA InitInv == Init => IInv
<1> SUFFICES ASSUME Init PROVE IInv
  OBVIOUS
<1>1. fields \in Definitions /\ sparse = {} /\ todo = {} /\ last = 0 /\ top = 0
      /\ phase = "add" /\ packed = [n \in {} |-> NULL]
  BY DEF Init
<1>2. packed \in [IF top = 0 THEN {} ELSE 0..top -> fields \cup {NULL}]
  BY <1>1
<1>3. TypeOK
  BY <1>1, <1>2 DEF TypeOK
<1> QED
  BY <1>1, <1>3 DEF IInv, LastFits, Partition

\* Adding the fields.
LEMMA AddFieldsInv == IInv /\ AddFields => IInv'
<1> SUFFICES ASSUME IInv, AddFields PROVE IInv'
  OBVIOUS
<1>1. TypeOK'
  BY DEF IInv, TypeOK, AddFields
<1>2. LastFits'
  BY DEF IInv, LastFits, AddFields, Fits, LoadFactor, UpTo
<1>3. Partition'
  BY DEF IInv, Partition, AddFields
<1> QED
  BY <1>1, <1>2, <1>3 DEF IInv

\* A turn of find_packed_fields only moves last, to a number that fits.
LEMMA ScanInv == IInv /\ Scan => IInv'
<1> SUFFICES ASSUME IInv, Scan PROVE IInv'
  OBVIOUS
<1>1. PICK f \in todo : /\ todo' = todo \ {f}
                        /\ last' = IF Fits(f) THEN f ELSE last
  BY DEF Scan
<1>2. f \in fields /\ f \in Nat
  BY DefinitionsAssumption DEF IInv, TypeOK
<1>3. UNCHANGED <<fields, sparse, packed, top, phase>>
  BY DEF Scan
<1>4. TypeOK'
  BY <1>1, <1>2, <1>3 DEF IInv, TypeOK
<1>5. LastFits'
  <2>1. \A g : Fits(g)' <=> Fits(g)
    BY <1>3 DEF Fits, LoadFactor, UpTo
  <2> QED
    BY <1>1, <1>2, <1>3, <2>1 DEF IInv, LastFits
<1>6. Partition'
  BY <1>3 DEF IInv, Partition, Scan
<1> QED
  BY <1>4, <1>5, <1>6 DEF IInv

\* optimize_lookup moves exactly the fields up to the last one that fits.
LEMMA PackInv == IInv /\ Pack => IInv'
<1> SUFFICES ASSUME IInv, Pack PROVE IInv'
  OBVIOUS
<1>1. phase = "scan" /\ sparse = fields /\ fields \subseteq Nat \ {0}
  BY DefinitionsAssumption DEF IInv, Partition, Pack, TypeOK
<1>2. Moved = UpTo(last)
  BY <1>1 DEF Moved, UpTo
<1>3. /\ top' = last /\ last' = last /\ fields' = fields /\ phase' = "ready"
      /\ todo' = todo /\ sparse' = fields \ UpTo(last)
      /\ packed' = [n \in Slots |-> IF n \in UpTo(last) THEN n ELSE NULL]
  BY <1>1, <1>2 DEF Pack
<1>4. last \in Nat /\ todo \subseteq fields /\ fields \in Definitions
  BY DEF IInv, TypeOK
<1>5. packed' \in [IF top' = 0 THEN {} ELSE 0..top' -> fields' \cup {NULL}]
  BY <1>3, <1>4 DEF Slots, UpTo
<1>6. TypeOK'
  BY <1>3, <1>4, <1>5 DEF TypeOK
<1>7. UpTo(last)' = UpTo(last) /\ Slots' = Slots
  BY <1>3 DEF UpTo, Slots
<1>8. LastFits'
  <2>1. \A g : Fits(g)' <=> Fits(g)
    BY <1>3 DEF Fits, LoadFactor, UpTo
  <2> QED
    BY <1>3, <2>1 DEF IInv, LastFits
<1>9. Partition'
  BY <1>3, <1>7 DEF Partition
<1> QED
  BY <1>6, <1>8, <1>9 DEF IInv

\* IInv holds whatever the message.
THEOREM LookupInvariant == Spec => []IInv
<1>1. IInv /\ [Next]_vars => IInv'
  <2> SUFFICES ASSUME IInv, [Next]_vars PROVE IInv'
    OBVIOUS
  <2>1. CASE Next
    BY <2>1, AddFieldsInv, ScanInv, PackInv DEF Next
  <2>2. CASE UNCHANGED vars
    BY <2>2 DEF vars, IInv, TypeOK, LastFits, Partition, Fits, LoadFactor, UpTo, Slots
  <2> QED
    BY <2>1, <2>2
<1> QED
  BY InitInv, <1>1, PTL DEF Spec

\* The array and the hash together hold exactly the fields of the message.
LEMMA PartitionIsExact == IInv => LookupExact
<1> SUFFICES ASSUME IInv, phase = "ready" PROVE LookupExact
  BY DEF LookupExact
<1>1. /\ top = last /\ last \in Nat
      /\ packed = [n \in Slots |-> IF n \in UpTo(last) THEN n ELSE NULL]
      /\ sparse = fields \ UpTo(last)
      /\ fields \subseteq Nat \ {0}
  BY DefinitionsAssumption DEF IInv, Partition, TypeOK
<1>2. ASSUME NEW n \in (1..top) \cup fields
      PROVE  InTable(n) /\ FindField(n) = IF n \in fields THEN n ELSE NULL
  <2>1. n \in Nat \ {0}
    BY <1>1
  <2>2. CASE n <= top
    <3>1. n \in Slots
      BY <1>1, <2>1, <2>2 DEF Slots
    <3>2. packed[n] = IF n \in fields THEN n ELSE NULL
      BY <1>1, <2>2, <3>1 DEF UpTo
    <3> QED
      BY <1>1, <2>2, <3>1, <3>2 DEF InTable, FindField
  <2>3. CASE ~(n <= top)
    <3>1. n \in sparse <=> n \in fields
      BY <1>1, <2>3 DEF UpTo
    <3> QED
      BY <2>3, <3>1 DEF InTable, FindField
  <2> QED
    BY <2>2, <2>3
<1> QED
  BY <1>1, <1>2 DEF LookupExact

\* find_field answers with the fields of the message and no others, wherever
\* optimize_lookup put them.
THEOREM LookupIsExact == Spec => []LookupExact
BY LookupInvariant, PartitionIsExact, PTL

\* The slots of the array in use are the fields up to its top, the last that fits.
LEMMA TopFits == IInv => WellFilled
<1> SUFFICES ASSUME IInv, phase = "ready", top >= LowField
             PROVE  (Cardinality({n \in DOMAIN packed : packed[n] # NULL}) * 100)
                        \div (top + 1) > MinLoad
  BY DEF WellFilled
<1>1. /\ top = last /\ last \in Nat /\ top # 0
      /\ packed = [n \in Slots |-> IF n \in UpTo(last) THEN n ELSE NULL]
      /\ fields \subseteq Nat \ {0}
  BY DefinitionsAssumption DEF IInv, Partition, TypeOK, LowField
<1>2. {n \in DOMAIN packed : packed[n] # NULL} = UpTo(top)
  <2>1. Slots = 0..top
    BY <1>1 DEF Slots
  <2>2. ASSUME NEW g \in UpTo(top) PROVE g \in 0..top /\ g # 0
    <3>1. g \in Nat /\ g # 0 /\ g <= top
      BY <1>1 DEF UpTo
    <3> QED
      BY <1>1, <3>1
  <2> QED
    BY <1>1, <2>1, <2>2 DEF NULL
<1>3. Fits(top) /\ ~(top < LowField)
  BY <1>1 DEF IInv, LastFits, LowField
<1>4. LoadFactor(top) > MinLoad
  BY <1>3 DEF Fits
<1> QED
  BY <1>2, <1>4 DEF LoadFactor

\* More than three quarters of an array that goes beyond the low numbers are fields.
THEOREM ArrayIsWellFilled == Spec => []WellFilled
BY LookupInvariant, TopFits, PTL
=============================================================================
