----------------------------- MODULE FieldLookup -----------------------------
(* DecoderFieldData (src/src/pb/decoder.{h,cpp}): the table in which the decoder *)
(* looks up the number of a tag.  The Mapper constructor adds the fields of the  *)
(* message to a hash (sparse), then optimize_lookup() moves the low numbers to   *)
(* an array (packed), as far up as it is well filled.                            *)
(* FieldMap (src/src/fieldmap.{h,cpp}), which the encoder uses to find fields by  *)
(* number, is written the same way.                                              *)
(*                                                                               *)
(* An entry is the number of its field.  Left out: the FieldData of the entry,   *)
(* and find_field(0), which reads a slot that an empty array does not have.      *)
EXTENDS Integers, FiniteSets

CONSTANT Definitions   \* sets of field numbers: the messages

ASSUME DefinitionsAssumption ==
    \A d \in Definitions : d \subseteq Nat \ {0} /\ IsFiniteSet(d)

VARIABLES fields,   \* the fields of the message
          sparse, packed, top,   \* sparse_fields, packed_fields, top_packed_field
          todo,     \* find_packed_fields: the numbers not looked at
          last,     \* all_fields[last_included]; 0 when there is none
          phase     \* "add", "scan" (optimize_lookup running) or "ready"

vars == <<fields, sparse, packed, top, todo, last, phase>>

NULL == 0
LowField == 70    \* numbers below are always in the array
MinLoad == 75     \* per cent

Init ==
    /\ fields \in Definitions
    /\ sparse = {}
    /\ packed = [n \in {} |-> NULL]
    /\ top = 0
    /\ todo = {}
    /\ last = 0
    /\ phase = "add"

\* The loop over the fields of the message, one add_field() each.
AddFields ==
    /\ phase = "add"
    /\ sparse' = fields
    /\ todo' = fields
    /\ phase' = "scan"
    /\ UNCHANGED <<fields, packed, top, last>>

\* The fields up to f, f included, and their share of the numbers 0..f.
UpTo(f) == {g \in fields : g <= f}
LoadFactor(f) == (Cardinality(UpTo(f)) * 100) \div (f + 1)

\* Mutant: the unused entry 0 is not counted.
FitsWithoutZero(f) == f < LowField \/ (Cardinality(UpTo(f)) * 100) \div f > MinLoad

Fits(f) == f < LowField \/ LoadFactor(f) > MinLoad

\* One turn of the loop of find_packed_fields, over the sorted numbers.
Scan ==
    /\ phase = "scan"
    /\ \E f \in todo :
          /\ \A g \in todo : f <= g
          /\ todo' = todo \ {f}
          /\ last' = IF Fits(f) THEN f ELSE last
    /\ UNCHANGED <<fields, sparse, packed, top, phase>>

\* Mutant: the fields moved are those that fit, not all those up to the last one.
MovedIfFitting == {f \in sparse : f <= last /\ Fits(f)}

Moved == {f \in sparse : f <= last}

\* packed_fields.resize(top_packed_field + 1).
Slots == IF last = 0 THEN {} ELSE 0..last

\* The rest of optimize_lookup.
Pack ==
    /\ phase = "scan"
    /\ todo = {}
    /\ top' = last
    /\ packed' = [n \in Slots |-> IF n \in Moved THEN n ELSE NULL]
    /\ sparse' = sparse \ Moved
    /\ phase' = "ready"
    /\ UNCHANGED <<fields, todo, last>>

\* find_field, for a number whose slot exists: InTable.
FindField(number) ==
    IF number <= top THEN packed[number]
    ELSE IF number \in sparse THEN number ELSE NULL

InTable(number) == number <= top => number \in DOMAIN packed

Next == AddFields \/ Scan \/ Pack

Spec == Init /\ [][Next]_vars

------------------------------------------------------------------------------
(* Properties.                                                                  *)

\* Types of the table and of the scan.
TypeOK ==
    /\ fields \in Definitions
    /\ sparse \subseteq fields
    /\ todo \subseteq fields
    /\ last \in Nat /\ top \in Nat
    /\ packed \in [IF top = 0 THEN {} ELSE 0..top -> fields \cup {NULL}]
    /\ phase \in {"add", "scan", "ready"}

\* Wherever optimize_lookup put them, the fields of the message, and no others, are
\* found under their number (numbers start at 1; above top only sparse answers).
LookupExact ==
    phase = "ready" =>
        /\ \A n \in (1..top) \cup fields :
              InTable(n) /\ FindField(n) = IF n \in fields THEN n ELSE NULL
        /\ sparse \subseteq fields

\* The array does not waste memory: either its numbers are low, or more than three
\* quarters of it are fields (find_packed_fields).
WellFilled ==
    phase = "ready" /\ top >= LowField =>
        (Cardinality({n \in DOMAIN packed : packed[n] # NULL}) * 100) \div (top + 1) > MinLoad
=============================================================================
