----------------------------- MODULE WireSchema -----------------------------
(* The message descriptors the decoder looks fields up in: gpd::pb::Descriptor *)
(* (src/src/pb/decoder.h) reduced to what decoding decides on.  A field is     *)
(* known by its number; NoField stands for the NULL entry of find_field.       *)
EXTENDS Integers, Sequences

CONSTANTS Messages,   \* the message types that are mapped
          Roots,      \* the types of the messages that are decoded
          NoMessage,  \* "not a message": the type of a scalar field
          Schema      \* Messages -> field number -> [wire, repeated, message]

\* WireType; 3 and 4 (groups) are not supported, 6 and 7 do not exist.
VARINT  == 0
FIXED64 == 1
LEN     == 2
FIXED32 == 5
WireTypes == {VARINT, FIXED64, LEN, FIXED32}

NoField == 0

\* The numbers of the fields of message m.
FieldsOf(m) == DOMAIN Schema[m]

ASSUME RootAssumption == Roots \subseteq Messages /\ NoMessage \notin Messages

\* Field numbers are positive; only a length-delimited field holds a message
\* (Descriptor::add_field derives the wire type from the declared type).
ASSUME SchemaAssumption ==
    \A m \in Messages : \A f \in FieldsOf(m) :
        /\ f \in Nat \ {NoField}
        /\ Schema[m][f].wire \in WireTypes
        /\ Schema[m][f].repeated \in BOOLEAN
        /\ Schema[m][f].message \in Messages \cup {NoMessage}
        /\ Schema[m][f].message # NoMessage => Schema[m][f].wire = LEN

\* DecoderFieldData::find_field.
FindField(m, number) == IF number \in FieldsOf(m) THEN number ELSE NoField
=============================================================================
