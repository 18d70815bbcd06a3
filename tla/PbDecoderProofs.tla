--------------------------- MODULE PbDecoderProofs ---------------------------
(* PbDecoder for every set of buffers and every schema: its types and framing,   *)
(* and that it implements TokenStream.                                           *)
EXTENDS PbDecoder, SequenceTheorems, TLAPS

------------------------------------------------------------------------------
(* Decoding a number: where it ends, and that it is one.                        *)

\* The buffer lies in the address space.
LEMMA Sizes ==
    ASSUME TypeOK
    PROVE  /\ bytes \in Seq(0..255) /\ Before \in Seq(0..255)
           /\ Len(bytes) \in Nat /\ Base \in Nat /\ Word \in Nat /\ Word > 0
           /\ Base = Len(Before)
           /\ Base + Len(bytes) < Word
           /\ current \in Positions /\ messageEnd \in Positions
           /\ packedEnd \in Positions /\ fieldPayload \in Positions
<1>1. /\ bytes \in Seq(0..255) /\ Before \in Seq(0..255)
      /\ Word \in Nat /\ Word > 0
      /\ Base + Len(bytes) < Word
      /\ current \in Positions /\ messageEnd \in Positions
      /\ packedEnd \in Positions /\ fieldPayload \in Positions
  BY WordAssumption DEF TypeOK, Buffers, bytes
<1>2. Len(bytes) \in Nat /\ Len(Before) \in Nat
  BY <1>1
<1> QED
  BY <1>1, <1>2 DEF Base, Positions

\* A varint that decode_varint accepts ends after its start, within the message
\* being read and within the buffer.
LEMMA VarintEnds ==
    ASSUME TypeOK, NEW p \in Positions, VarintOk(p)
    PROVE  /\ VarintNext(p) \in Positions
           /\ p < VarintNext(p)
           /\ VarintNext(p) <= messageEnd
<1> DEFINE T == Terminators(p)
<1>2. /\ Len(bytes) \in Nat /\ Base \in Nat
      /\ p \in Int /\ -Base <= p
  BY Sizes DEF Positions
<1>3. \A q \in T : q \in Int /\ p + 1 <= q /\ q <= p + 10 /\ q <= Len(bytes)
  BY <1>2 DEF Terminators
<1>4. \E q \in T : \A r \in T : q <= r
  <2>1. PICK m \in T : TRUE
    BY DEF VarintOk
  <2> HIDE DEF T
  <2> DEFINE Below(k) == \A q \in T : q > p + k
  <2>2. Below(0) /\ ~Below(10)
    BY <1>2, <1>3, <2>1
  <2>3. ASSUME NEW k \in 0..9, Below(k), ~Below(k + 1)
        PROVE  \E q \in T : \A r \in T : q <= r
    <3>1. PICK q \in T : ~(q > p + (k + 1))
      BY <2>3
    <3>2. q <= p + (k + 1)
      BY <3>1, <1>2, <1>3
    <3>3. ASSUME NEW r \in T PROVE q <= r
      <4>1. r \in Int /\ r > p + k
        BY <2>3, <1>3
      <4> QED
        BY <4>1, <3>2, <1>2, <1>3
    <3> QED
      BY <3>3
  <2> HIDE DEF Below
  <2>4. /\ 0 + 1 = 1 /\ 1 + 1 = 2 /\ 2 + 1 = 3 /\ 3 + 1 = 4 /\ 4 + 1 = 5
        /\ 5 + 1 = 6 /\ 6 + 1 = 7 /\ 7 + 1 = 8 /\ 8 + 1 = 9 /\ 9 + 1 = 10
    OBVIOUS
  <2>5. \E k \in 0..9 : Below(k) /\ ~Below(k + 1)
    BY <2>2, <2>4
  <2> QED
    BY <2>3, <2>5
<1>5. VarintNext(p) \in T
  <2> HIDE DEF T
  <2>1. VarintNext(p) = CHOOSE q \in T : \A r \in T : q <= r
    BY DEF VarintNext, T
  <2> QED
    BY <2>1, <1>4
<1> QED
  BY <1>2, <1>3, <1>5 DEF VarintOk, Positions

\* The value of an accepted varint fits an unsigned long.
LEMMA VarintFits ==
    ASSUME TypeOK, NEW p \in Positions, VarintOk(p)
    PROVE  VarintValue(p) \in Nat /\ VarintValue(p) < Word
<1> DEFINE next == VarintNext(p)
           d(i) == Digit(p, next, i)
<1>1. /\ bytes \in Seq(0..255) /\ Before \in Seq(0..255)
      /\ Len(bytes) \in Nat /\ Base \in Nat /\ Base = Len(Before)
      /\ Word \in Nat /\ Word > 0
      /\ p \in Int /\ -Base <= p
  BY Sizes DEF Positions
<1>2. next \in Int /\ next <= Len(bytes)
  BY <1>1, VarintEnds DEF Positions
<1>3. ASSUME NEW i \in 0..9 PROVE d(i) \in Nat
  <2>1. CASE p + i < next
    <3>1. Byte(p + i + 1) \in 0..255
      <4>1. CASE p + i + 1 > 0
        <5>1. p + i + 1 \in 1..Len(bytes)
          BY <1>1, <1>2, <2>1, <4>1
        <5>2. bytes[p + i + 1] \in 0..255
          BY <1>1, <5>1, ElementOfSeq
        <5> QED
          BY <4>1, <5>2 DEF Byte
      <4>2. CASE ~(p + i + 1 > 0)
        <5>1. Base + (p + i + 1) \in 1..Len(Before)
          BY <1>1, <4>2
        <5>2. Before[Base + (p + i + 1)] \in 0..255
          BY <1>1, <5>1, ElementOfSeq
        <5> QED
          BY <4>2, <5>2 DEF Byte
      <4> QED
        BY <4>1, <4>2
    <3> QED
      BY <2>1, <3>1 DEF Digit
  <2>2. CASE ~(p + i < next)
    BY <2>2 DEF Digit
  <2> QED
    BY <2>1, <2>2
<1>4. VarintValue(p) =
        AddDigit(d(0), AddDigit(d(1), AddDigit(d(2), AddDigit(d(3), AddDigit(d(4),
            AddDigit(d(5), AddDigit(d(6), AddDigit(d(7), AddDigit(d(8),
                AddDigit(d(9), 0))))))))))
  BY DEF VarintValue
<1>5. /\ d(0) \in Nat /\ d(1) \in Nat /\ d(2) \in Nat /\ d(3) \in Nat /\ d(4) \in Nat
      /\ d(5) \in Nat /\ d(6) \in Nat /\ d(7) \in Nat /\ d(8) \in Nat /\ d(9) \in Nat
  BY <1>3
<1> HIDE DEF d
<1>6. \A x, y \in Nat : AddDigit(x, y) \in Nat /\ AddDigit(x, y) < Word
  <2> SUFFICES ASSUME NEW x \in Nat, NEW y \in Nat
               PROVE  AddDigit(x, y) \in Nat /\ AddDigit(x, y) < Word
    OBVIOUS
  <2>1. x + 128 * y \in Nat
    OBVIOUS
  <2> DEFINE z == x + 128 * y
  <2>2. z \in Nat
    BY <2>1
  <2> HIDE DEF z
  <2>3. z % Word \in 0..(Word - 1)
    BY <1>1, <2>2
  <2> QED
    BY <1>1, <2>3 DEF AddDigit, z
<1>7. AddDigit(d(7), AddDigit(d(8), AddDigit(d(9), 0))) \in Nat
  BY <1>5, <1>6
<1>8. AddDigit(d(4), AddDigit(d(5), AddDigit(d(6),
        AddDigit(d(7), AddDigit(d(8), AddDigit(d(9), 0)))))) \in Nat
  BY <1>5, <1>6, <1>7
<1>9. AddDigit(d(1), AddDigit(d(2), AddDigit(d(3), AddDigit(d(4), AddDigit(d(5),
        AddDigit(d(6), AddDigit(d(7), AddDigit(d(8), AddDigit(d(9), 0))))))))) \in Nat
  BY <1>5, <1>6, <1>8
<1> QED
  BY <1>4, <1>5, <1>6, <1>9

\* A payload that decode_payload accepts ends within the message and in the address
\* space.  Unless its length wraps the cursor, it also lies after the tag it follows,
\* and the payload of a length-delimited field starts no later than it ends; the start
\* is only moved for such a field.
LEMMA PayloadEnds ==
    ASSUME TypeOK, NEW w, NEW p \in Positions, PayloadOk(w, p)
    PROVE  /\ PayloadEnd(w, p) \in Positions
           /\ PayloadEnd(w, p) <= messageEnd
           /\ PayloadStart(w, p) \in Positions
           /\ ~LengthWraps(w, p) =>
                 /\ p < PayloadEnd(w, p)
                 /\ fieldPayload <= p => PayloadStart(w, p) <= PayloadEnd(w, p)
           /\ 0 <= fieldPayload /\ 0 <= p => 0 <= PayloadStart(w, p)
<1> USE DEF VARINT, LEN, FIXED32, FIXED64
<1>1. /\ Len(bytes) \in Nat /\ Base \in Nat /\ Word \in Nat
      /\ Base + Len(bytes) < Word
      /\ messageEnd \in Positions /\ fieldPayload \in Positions
      /\ p \in Int /\ -Base <= p /\ p <= Len(bytes)
      /\ messageEnd \in Int /\ messageEnd <= Len(bytes)
      /\ fieldPayload \in Int
  BY Sizes DEF Positions
<1>2. CASE w = LEN
  <2> DEFINE next == VarintNext(p)
             n    == VarintValue(p)
  <2>1. VarintOk(p) /\ PayloadEnd(w, p) <= messageEnd
    BY <1>2 DEF PayloadOk, ScalarOk
  <2>2. next \in Positions /\ p < next
    BY <2>1, VarintEnds
  <2>3. n \in Nat /\ n < Word
    BY <2>1, VarintFits
  <2>4. /\ PayloadEnd(w, p) = IF Base + next + n >= Word THEN next + n - Word ELSE next + n
        /\ LengthWraps(w, p) <=> Base + next + n >= Word
        /\ PayloadStart(w, p) = next
    BY <1>2 DEF PayloadEnd, PayloadStart, LengthWraps, Advance, Wraps
  <2>5. next \in Int /\ -Base <= next /\ next <= Len(bytes)
    BY <1>1, <2>2 DEF Positions
  <2> HIDE DEF next, n
  <2> DEFINE e == PayloadEnd(w, p)
  <2>6. e = IF Base + next + n >= Word THEN next + n - Word ELSE next + n
    BY <2>4
  <2>7. e <= messageEnd
    BY <2>1
  <2> HIDE DEF e
  <2>8. e \in Int /\ -Base <= e /\ e <= Len(bytes)
    BY <1>1, <2>3, <2>5, <2>6, <2>7
  <2>9. e \in Positions
    BY <1>1, <2>8 DEF Positions
  <2>10. ~LengthWraps(w, p) => p < e /\ next <= e
    BY <1>1, <2>2, <2>3, <2>4, <2>5, <2>6
  <2>11. 0 <= p => 0 <= next
    BY <1>1, <2>2, <2>5
  <2> QED
    BY <2>2, <2>4, <2>7, <2>9, <2>10, <2>11 DEF e
<1>3. CASE w # LEN /\ w = VARINT
  <2>1. VarintOk(p)
    BY <1>3 DEF PayloadOk, ScalarOk
  <2>2. VarintNext(p) \in Positions /\ p < VarintNext(p) /\ VarintNext(p) <= messageEnd
    BY <2>1, VarintEnds
  <2> QED
    BY <1>1, <1>3, <2>2 DEF PayloadEnd, PayloadStart, ScalarEnd, Positions
<1>4. CASE w # LEN /\ w \in {FIXED64, FIXED32}
  BY <1>1, <1>4 DEF PayloadOk, ScalarOk, PayloadEnd, PayloadStart, ScalarEnd, Positions
<1> QED
  BY <1>2, <1>3, <1>4 DEF PayloadOk, ScalarOk

\* An element that parse_packed_field_internal accepts lies within its chunk.
LEMMA ElementEnds ==
    ASSUME TypeOK, NEW f, NEW p \in Positions, NEW end \in Positions, ElementOk(f, p, end)
    PROVE  /\ ElementEnd(f, p) \in Positions
           /\ p < ElementEnd(f, p)
           /\ ElementEnd(f, p) <= end
<1> USE DEF VARINT, LEN, FIXED32, FIXED64
<1> DEFINE w == FieldDef(f).wire
<1>0. Len(bytes) \in Nat /\ Base \in Nat
  BY Sizes
<1>1. ScalarOk(w, p) /\ ScalarEnd(w, p) <= end
  BY DEF ElementOk
<1> HIDE DEF w
<1>2. CASE w = VARINT
  <2>1. VarintNext(p) \in Positions /\ p < VarintNext(p)
    BY <1>1, <1>2, VarintEnds DEF ScalarOk
  <2> QED
    BY <1>1, <1>2, <2>1 DEF ScalarEnd, ElementEnd, w
<1>3. CASE w \in {FIXED64, FIXED32}
  BY <1>0, <1>1, <1>3 DEF ScalarEnd, ElementEnd, w, Positions
<1> QED
  BY <1>1, <1>2, <1>3 DEF ScalarOk

\* A number is always some field's or none's, and the entry of a field that
\* exists is well formed.
LEMMA KnownEntry ==
    ASSUME TypeOK, NestedEnds
    PROVE  /\ Lookup \in Messages
           /\ \A f \in FieldsOf(Lookup) :
                 /\ f \in Nat
                 /\ FieldDef(f).message \in Messages \cup {NoMessage}
                 /\ FieldDef(f).message # NoMessage => FieldDef(f).wire = LEN
           /\ \A n : FindField(Lookup, n) \in FieldsOf(Lookup) \cup {NoField}
           /\ FieldsOf(Lookup) \cup {NoField} \subseteq Nat
<1>1. Len(state) \in 1..Len(state)
  BY DEF TypeOK, NestedEnds
<1>2. state[Len(state)] \in [lookup: Messages, end: Positions, field: Nat, state: States]
  BY <1>1, ElementOfSeq DEF TypeOK
<1>3. Lookup \in Messages
  BY <1>2 DEF Lookup
<1>4. \A f \in FieldsOf(Lookup) :
        /\ f \in Nat
        /\ FieldDef(f).message \in Messages \cup {NoMessage}
        /\ FieldDef(f).message # NoMessage => FieldDef(f).wire = LEN
  BY <1>3, SchemaAssumption DEF FieldDef
<1> QED
  BY <1>3, <1>4 DEF FindField, NoField

\* After a tag that decodes there is room for a payload before the message's end.
LEMMA TagEnds ==
    ASSUME TypeOK, TagOk
    PROVE  /\ AfterTag \in Positions
           /\ current < AfterTag
           /\ AfterTag <= messageEnd
  BY VarintEnds DEF TypeOK, TagOk, AfterTag

------------------------------------------------------------------------------
(* The invariant.                                                               *)

\* What a next_token() step has to establish: everything about the other messages
\* is unchanged.
Local ==
    /\ current' \in Positions
    /\ packedEnd' \in Positions
    /\ fieldPayload' \in Positions
    /\ wrapped' \in BOOLEAN
    /\ fieldEntry' \in FieldsOf(Lookup) \cup {NoField}
    /\ currentState' \in States
    /\ token' \in Tokens
    /\ delivered' \in Seq(Nat \X Nat)
    /\ currentState' = "START_REPEATED" \/ token' = "FIELD" => current' <= messageEnd
    /\ ~wrapped' =>
          0 <= fieldPayload' /\ fieldPayload' <= current' /\ current' <= messageEnd
    /\ PackedInside'
    /\ EndsAtTheEnd'
    /\ currentState' \in {"START_REPEATED", "START_PACKED", "IN_REPEATED", "IN_PACKED",
                         "END_REPEATED"} => fieldEntry' # NoField
    /\ currentState' \in {"START_PACKED", "IN_PACKED", "END_REPEATED"} =>
          FieldDef(fieldEntry').message = NoMessage
    /\ token' = "FIELD" =>
          /\ fieldEntry' # NoField
          /\ currentState' \in {"FIELD", "IN_REPEATED", "IN_PACKED", "END_REPEATED"}

\* next_token() leaves the open messages alone, so what Local says of the step is
\* enough to keep the invariant.
LEMMA LocalSuffices ==
    ASSUME IInv, SameMessage, Local
    PROVE  IInv'
<1>1. TypeOK /\ NestedEnds /\ CursorInside /\ EntriesKnown
  BY DEF IInv, Framing
<1>2. UNCHANGED <<input, messageEnd, state, Lookup, bytes, Positions>>
  BY DEF SameMessage, Lookup, bytes, Positions
<1>3. FieldsOf(Lookup) \cup {NoField} \subseteq Nat
  BY <1>1, KnownEntry
<1>4. TypeOK'
  BY <1>1, <1>2, <1>3 DEF TypeOK, Local
<1>5. NestedEnds'
  BY <1>1, <1>2 DEF NestedEnds
<1>6. CursorInside'
  BY <1>2 DEF CursorInside, Local
<1>7. EntriesKnown'
  <2>1. \A f : FieldDef(f)' = FieldDef(f)
    BY <1>2 DEF FieldDef
  <2>2. \A i \in 1..(Len(state') - 1) :
          /\ state'[i + 1].field \in FieldsOf(state'[i].lookup)
          /\ state'[i + 1].state \in {"FIELD", "IN_REPEATED"}
    BY <1>1, <1>2 DEF EntriesKnown
  <2>3. FieldDef(fieldEntry)' = FieldDef(fieldEntry')
    BY <1>2 DEF FieldDef
  <2> QED
    BY <1>2, <2>2, <2>3 DEF EntriesKnown, Local
<1> QED
  BY <1>4, <1>5, <1>6, <1>7 DEF IInv, Framing, Local

\* The history grows by pairs of naturals.
LEMMA DeliverType ==
    ASSUME TypeOK, NEW f \in Nat, Deliver(f)
    PROVE  delivered' \in Seq(Nat \X Nat)
<1>1. Len(state) \in Nat /\ delivered \in Seq(Nat \X Nat)
  BY DEF TypeOK
<1>2. <<Len(state), f>> \in Nat \X Nat
  BY <1>1
<1>3. Append(delivered, <<Len(state), f>>) \in Seq(Nat \X Nat)
  BY <1>1, <1>2, AppendProperties
<1> QED
  BY <1>1, <1>3 DEF Deliver

\* When a payload was skipped, the cursors stay in the address space and before the end
\* of the message; until a length wraps, also after the start of the payload.
SkippedInside ==
    /\ current' \in Positions
    /\ packedEnd' \in Positions
    /\ fieldPayload' \in Positions
    /\ wrapped' \in BOOLEAN
    /\ current' <= messageEnd
    /\ ~wrapped' => 0 <= fieldPayload' /\ fieldPayload' <= current'

LEMMA Skipped ==
    ASSUME TypeOK, CursorInside, TagOk, PayloadOk(Wire, AfterTag), PayloadSkipped
    PROVE  SkippedInside
<1>1. AfterTag \in Positions /\ current < AfterTag
  BY TagEnds
<1>2. /\ PayloadEnd(Wire, AfterTag) \in Positions
      /\ PayloadEnd(Wire, AfterTag) <= messageEnd
      /\ PayloadStart(Wire, AfterTag) \in Positions
      /\ ~LengthWraps(Wire, AfterTag) =>
            /\ AfterTag < PayloadEnd(Wire, AfterTag)
            /\ fieldPayload <= AfterTag =>
                  PayloadStart(Wire, AfterTag) <= PayloadEnd(Wire, AfterTag)
      /\ 0 <= fieldPayload /\ 0 <= AfterTag => 0 <= PayloadStart(Wire, AfterTag)
  BY <1>1, PayloadEnds
<1>3. /\ current' = PayloadEnd(Wire, AfterTag)
      /\ fieldPayload' = PayloadStart(Wire, AfterTag)
      /\ wrapped' = (wrapped \/ LengthWraps(Wire, AfterTag))
      /\ packedEnd' = packedEnd
  BY DEF PayloadSkipped, RecordWrap
<1>4. /\ packedEnd \in Positions
      /\ current \in Int /\ fieldPayload \in Int /\ AfterTag \in Int
      /\ wrapped \in BOOLEAN
  BY <1>1, Sizes DEF TypeOK, Positions
<1>5. ~wrapped => 0 <= fieldPayload /\ fieldPayload <= current
  BY DEF CursorInside
<1>6. ASSUME ~wrapped' PROVE 0 <= fieldPayload' /\ fieldPayload' <= current'
  <2>1. ~wrapped /\ ~LengthWraps(Wire, AfterTag)
    BY <1>3, <1>6
  <2>2. 0 <= fieldPayload /\ fieldPayload <= AfterTag /\ 0 <= AfterTag
    BY <2>1, <1>1, <1>4, <1>5
  <2> QED
    BY <2>1, <2>2, <1>2, <1>3
<1>7. wrapped' \in BOOLEAN
  BY <1>3, <1>4 DEF LengthWraps, Wraps
<1> QED
  BY <1>2, <1>3, <1>4, <1>6, <1>7 DEF SkippedInside

\* STATE_FIELD, when a payload was skipped: the field found is one of the message, or
\* none.
LEMMA SkippedPayload ==
    ASSUME IInv, FieldDecoded, PayloadSkipped
    PROVE  /\ SkippedInside
           /\ fieldEntry' \in FieldsOf(Lookup) \cup {NoField}
           /\ currentState = "FIELD"
<1>1. TypeOK /\ NestedEnds /\ CursorInside
  BY DEF IInv, Framing
<1> QED
  BY <1>1, Skipped, KnownEntry DEF FieldDecoded

\* set_error() keeps what next_token() must keep.
LEMMA ErrorStep ==
    ASSUME IInv, Error
    PROVE  Local
<1>1. TypeOK /\ CursorInside /\ EntriesKnown
  BY DEF IInv, Framing
<1>2. /\ current \in Positions /\ packedEnd \in Positions /\ fieldPayload \in Positions
      /\ wrapped \in BOOLEAN
  BY <1>1, Sizes DEF TypeOK
<1> QED
  BY <1>1, <1>2 DEF Error, Goto, Local, TypeOK, CursorInside, EntriesKnown, PackedInside,
      EndsAtTheEnd, States, Tokens, cursors

------------------------------------------------------------------------------
(* One step per action.                                                         *)

\* next_token() keeps the invariant, in whatever state it is called.
LEMMA NextTokenStep ==
    ASSUME IInv, NextToken
    PROVE  IInv'
<1> USE DEF Goto, States, Tokens
<1>1. TypeOK /\ NestedEnds /\ CursorInside /\ PackedInside /\ EndsAtTheEnd /\ EntriesKnown
  BY DEF IInv, Framing
<1>2. /\ fieldPayload \in Positions /\ current \in Positions
      /\ packedEnd \in Positions /\ messageEnd \in Positions
      /\ fieldPayload \in Int /\ current \in Int
      /\ packedEnd \in Int /\ messageEnd \in Int
      /\ wrapped \in BOOLEAN
      /\ ~wrapped => 0 <= fieldPayload /\ fieldPayload <= current /\ current <= messageEnd
      /\ currentState = "START_REPEATED" \/ token = "FIELD" => current <= messageEnd
      /\ fieldEntry \in FieldsOf(Lookup) \cup {NoField}
      /\ fieldEntry \in Nat
      /\ delivered \in Seq(Nat \X Nat)
      /\ messageEnd' = messageEnd
  BY <1>1, Sizes DEF TypeOK, CursorInside, EntriesKnown, NextToken, SameMessage, Positions
<1>3. /\ FieldsOf(Lookup) \cup {NoField} \subseteq Nat
      /\ \A f \in FieldsOf(Lookup) :
            FieldDef(f).wire # LEN => FieldDef(f).message = NoMessage
  BY <1>1, KnownEntry
<1>4. SUFFICES Local
  BY LocalSuffices DEF NextToken
<1>5. CASE EndOfMessage
  BY <1>5, <1>2 DEF EndOfMessage, cursors, Local, PackedInside, EndsAtTheEnd
<1>6. CASE InvalidField
  BY <1>6, ErrorStep DEF InvalidField
<1>7. CASE UnknownField
  <2>1. /\ FieldDecoded /\ PayloadSkipped
        /\ token' = "UNKNOWN_FIELD" /\ UNCHANGED <<currentState, delivered>>
    BY <1>7 DEF UnknownField
  <2> QED
    BY <2>1, <1>2, SkippedPayload DEF SkippedInside, Local, PackedInside, EndsAtTheEnd
<1>8. CASE SingularField
  <2>1. /\ FieldDecoded /\ PayloadSkipped
        /\ token' = "FIELD" /\ fieldEntry' # NoField /\ Deliver(fieldEntry')
        /\ UNCHANGED currentState
    BY <1>8 DEF SingularField
  <2>2. /\ fieldEntry' \in FieldsOf(Lookup) \cup {NoField}
        /\ delivered' \in Seq(Nat \X Nat)
    BY <2>1, <1>1, <1>3, SkippedPayload, DeliverType
  <2> QED
    BY <2>1, <2>2, SkippedPayload DEF SkippedInside, Local, PackedInside, EndsAtTheEnd
<1>9. CASE StartRepeated
  <2>1. /\ FieldDecoded /\ PayloadSkipped
        /\ token' = "START_SEQUENCE" /\ fieldEntry' # NoField
        /\ currentState' = "START_REPEATED"
        /\ UNCHANGED delivered
    BY <1>9 DEF StartRepeated
  <2> QED
    BY <2>1, <1>2, SkippedPayload DEF SkippedInside, Local, PackedInside, EndsAtTheEnd
<1>10. CASE StartPacked
  <2> DEFINE start == PayloadStart(Wire, AfterTag)
             end   == PayloadEnd(Wire, AfterTag)
  <2>1. /\ FieldDecoded /\ fieldEntry' # NoField /\ IsPacked(fieldEntry')
        /\ ElementOk(fieldEntry', start, end)
        /\ current' = ElementEnd(fieldEntry', start)
        /\ fieldPayload' = start /\ packedEnd' = end
        /\ currentState' = "START_PACKED" /\ token' = "START_SEQUENCE"
        /\ UNCHANGED delivered
    BY <1>10 DEF StartPacked
  <2>2. AfterTag \in Positions /\ current < AfterTag
    BY <2>1, <1>1, <1>2, TagEnds DEF FieldDecoded
  <2>3. /\ end \in Positions /\ end <= messageEnd
        /\ start \in Positions
        /\ 0 <= fieldPayload /\ 0 <= AfterTag => 0 <= start
    BY <2>1, <2>2, <1>1, PayloadEnds DEF FieldDecoded
  <2>4. /\ current' \in Positions /\ start < current' /\ current' <= end
    BY <2>1, <2>3, <1>1, ElementEnds
  <2>6. wrapped' = (wrapped \/ LengthWraps(Wire, AfterTag))
    BY <1>10 DEF StartPacked, RecordWrap
  <2>7. /\ start \in Int /\ end \in Int /\ current' \in Int /\ AfterTag \in Int
    BY <2>2, <2>3, <2>4, Sizes, <1>1 DEF Positions
  <2>8. wrapped' \in BOOLEAN /\ (~wrapped' => ~wrapped)
    BY <2>6, <1>2 DEF LengthWraps, Wraps
  <2>5. /\ fieldEntry' \in FieldsOf(Lookup)
        /\ FieldDef(fieldEntry').message = NoMessage
    BY <2>1, <1>1, <1>3, KnownEntry DEF FieldDecoded, IsPacked
  <2> HIDE DEF start, end
  <2> QED
    BY <2>1, <2>2, <2>3, <2>4, <2>5, <2>7, <2>8, <1>2
    DEF Local, PackedInside, EndsAtTheEnd
<1>11. CASE InvalidFirstElement
  BY <1>11, ErrorStep DEF InvalidFirstElement
<1>12. CASE FirstRepeated
  <2>1. delivered' \in Seq(Nat \X Nat)
    BY <1>12, <1>1, <1>2, DeliverType DEF FirstRepeated
  <2> QED
    BY <2>1, <1>12, <1>1, <1>2
    DEF FirstRepeated, cursors, Local, EntriesKnown, PackedInside, EndsAtTheEnd
<1>13. CASE NextRepeated
  <2>1. /\ TagOk /\ PayloadOk(Wire, AfterTag) /\ PayloadSkipped
        /\ token' = "FIELD" /\ Deliver(fieldEntry)
        /\ currentState = "IN_REPEATED"
        /\ UNCHANGED <<currentState, fieldEntry>>
    BY <1>13 DEF NextRepeated
  <2>3. SkippedInside
    BY <2>1, <1>1, Skipped
  <2>4. delivered' \in Seq(Nat \X Nat)
    BY <2>1, <1>1, <1>2, DeliverType
  <2> QED
    BY <2>1, <2>3, <2>4, <1>1, <1>2
    DEF SkippedInside, Local, EntriesKnown, PackedInside, EndsAtTheEnd
<1>14. CASE InvalidRepeated
  BY <1>14, ErrorStep DEF InvalidRepeated
<1>15. CASE EndRepeated
  BY <1>15, <1>2 DEF EndRepeated, cursors, Local, PackedInside, EndsAtTheEnd
<1>16. CASE FirstPacked
  <2>1. delivered' \in Seq(Nat \X Nat)
    BY <1>16, <1>1, <1>2, DeliverType DEF FirstPacked
  <2> QED
    BY <2>1, <1>16, <1>1, <1>2
    DEF FirstPacked, cursors, Local, EntriesKnown, PackedInside, EndsAtTheEnd
<1>17. CASE NextPacked
  <2>1. /\ currentState = "IN_PACKED"
        /\ ElementOk(fieldEntry, current, packedEnd)
        /\ current' = ElementEnd(fieldEntry, current)
        /\ IF current' = packedEnd THEN currentState' = "END_REPEATED"
                                   ELSE UNCHANGED currentState
        /\ token' = "FIELD" /\ Deliver(fieldEntry)
        /\ UNCHANGED <<packedEnd, fieldPayload, wrapped, fieldEntry>>
    BY <1>17 DEF NextPacked
  <2>2. current' \in Positions /\ current < current' /\ current' <= packedEnd
    BY <2>1, <1>1, <1>2, ElementEnds
  <2>4. current' \in Int
    BY <2>2, Sizes, <1>1 DEF Positions
  <2>3. delivered' \in Seq(Nat \X Nat)
    BY <2>1, <1>1, <1>2, DeliverType
  <2> QED
    BY <2>1, <2>2, <2>3, <2>4, <1>1, <1>2
    DEF Local, EntriesKnown, PackedInside, EndsAtTheEnd
<1>18. CASE InvalidPacked
  BY <1>18, ErrorStep DEF InvalidPacked
<1>19. CASE EndPacked
  BY <1>19, <1>2 DEF EndPacked, cursors, Local, PackedInside, EndsAtTheEnd
<1>20. CASE EndOfMessageAgain
  BY <1>20, <1>1, <1>2
  DEF EndOfMessageAgain, cursors, Local, PackedInside, EndsAtTheEnd
<1> QED
  BY <1>5, <1>6, <1>7, <1>8, <1>9, <1>10, <1>11, <1>12, <1>13, <1>14, <1>15, <1>16,
     <1>17, <1>18, <1>19, <1>20 DEF NextToken

\* start_message() keeps the invariant: the field that was just delivered is a
\* message, so the decoder is in a state that can be resumed at a tag.
LEMMA StartMessageStep ==
    ASSUME IInv, StartMessage
    PROVE  IInv'
<1> DEFINE n   == Len(state)
           cxt == Context(FieldDef(fieldEntry).message, current, fieldEntry, currentState)
<1>1. TypeOK /\ NestedEnds /\ CursorInside /\ PackedInside /\ EndsAtTheEnd /\ EntriesKnown
  BY DEF IInv, Framing
<1>2. /\ token = "FIELD" /\ FieldDef(fieldEntry).message # NoMessage
      /\ state' = Append(state, cxt)
      /\ messageEnd' = current /\ current' = fieldPayload /\ fieldEntry' = NoField
      /\ currentState' = "FIELD" /\ token' = "none"
      /\ UNCHANGED <<input, packedEnd, fieldPayload, wrapped, delivered>>
  BY DEF StartMessage, EntersMessage, Goto
<1>3. /\ fieldEntry \in FieldsOf(Lookup)
      /\ currentState \in {"FIELD", "IN_REPEATED"}
  BY <1>1, <1>2 DEF EntriesKnown
<1>4. /\ FieldDef(fieldEntry).message \in Messages
      /\ fieldEntry \in Nat
  BY <1>1, <1>2, <1>3, KnownEntry
<1>5. cxt \in [lookup: Messages, end: Positions, field: Nat, state: States]
  BY <1>1, <1>4 DEF Context, TypeOK
<1>6. n \in Nat /\ n >= 1
  BY <1>1 DEF TypeOK, NestedEnds
<1>7. /\ state' \in Seq([lookup: Messages, end: Positions, field: Nat, state: States])
      /\ Len(state') = n + 1
      /\ \A i \in 1..n : state'[i] = state[i]
      /\ state'[n + 1] = cxt
  BY <1>1, <1>2, <1>5, AppendProperties DEF TypeOK
<1>0. /\ bytes' = bytes /\ Positions' = Positions
      /\ current \in Positions /\ messageEnd \in Positions
      /\ packedEnd \in Positions /\ fieldPayload \in Positions
      /\ current \in Int /\ messageEnd \in Int /\ fieldPayload \in Int
  BY <1>1, <1>2, Sizes DEF Positions, bytes
<1>8. /\ cxt.end = current /\ cxt.field = fieldEntry /\ cxt.state = currentState
      /\ cxt.lookup = FieldDef(fieldEntry).message
  BY DEF Context
<1> HIDE DEF n, cxt
<1>9. TypeOK'
  BY <1>0, <1>1, <1>2, <1>7 DEF TypeOK, NoField, States, Tokens
<1>10. NestedEnds'
  <2>1. \A i \in 1..(Len(state') - 1) : state'[i + 1].end <= state'[i].end
    <3> SUFFICES ASSUME NEW i \in 1..n PROVE state'[i + 1].end <= state'[i].end
      BY <1>6, <1>7
    <3>1. CASE i = n
      <4>1. state[n].end = messageEnd /\ current <= messageEnd
        BY <1>1, <1>2 DEF NestedEnds, CursorInside, n
      <4>2. n \in 1..n /\ state'[i + 1].end = current /\ state'[i].end = state[n].end
        BY <3>1, <1>6, <1>7, <1>8
      <4> QED
        BY <4>1, <4>2
    <3>2. CASE i # n
      <4>1. i \in 1..(n - 1) /\ i + 1 \in 1..n
        BY <3>2, <1>6
      <4> QED
        BY <4>1, <1>1, <1>7 DEF NestedEnds, n
    <3> QED
      BY <3>1, <3>2
  <2>2. state'[1] = state[1] /\ bytes' = bytes
    BY <1>2, <1>6, <1>7 DEF bytes
  <2>3. messageEnd' = state'[Len(state')].end
    BY <1>2, <1>7, <1>8
  <2>4. state' # <<>>
    BY <1>6, <1>7
  <2> QED
    BY <2>1, <2>2, <2>3, <2>4, <1>1 DEF NestedEnds
<1>11. CursorInside' /\ PackedInside' /\ EndsAtTheEnd'
  BY <1>0, <1>1, <1>2 DEF CursorInside, PackedInside, EndsAtTheEnd
<1>12. EntriesKnown'
  <2>0. Len(state') - 1 = n
    BY <1>6, <1>7
  <2>1. ASSUME NEW i \in 1..n
        PROVE  /\ state'[i + 1].field \in FieldsOf(state'[i].lookup)
               /\ state'[i + 1].state \in {"FIELD", "IN_REPEATED"}
    <3>1. CASE i = n
      BY <3>1, <1>3, <1>6, <1>7, <1>8 DEF Lookup, n
    <3>2. CASE i # n
      <4>1. i \in 1..(n - 1) /\ i + 1 \in 1..n
        BY <3>2, <1>6
      <4> QED
        BY <4>1, <1>1, <1>7 DEF EntriesKnown, n
    <3> QED
      BY <3>1, <3>2
  <2> QED
    BY <2>0, <2>1, <1>2 DEF EntriesKnown
<1> QED
  BY <1>9, <1>10, <1>11, <1>12 DEF IInv, Framing

\* end_message() keeps the invariant: the parent is resumed at the end of the
\* message inside it, at a tag.
LEMMA EndMessageStep ==
    ASSUME IInv, EndMessage
    PROVE  IInv'
<1> DEFINE n     == Len(state)
           inner == state[n]
<1>1. TypeOK /\ NestedEnds /\ CursorInside /\ PackedInside /\ EndsAtTheEnd /\ EntriesKnown
  BY DEF IInv, Framing
<1>2. /\ n > 1
      /\ state' = SubSeq(state, 1, n - 1)
      /\ messageEnd' = state[n - 1].end
      /\ current' = inner.end /\ fieldEntry' = inner.field
      /\ currentState' = inner.state /\ token' = "none"
      /\ UNCHANGED <<input, packedEnd, fieldPayload, wrapped, delivered>>
  BY DEF EndMessage, Goto
<1>3. n \in Nat /\ n - 1 \in 1..n /\ n \in 1..n /\ n = (n - 1) + 1
  BY <1>1, <1>2 DEF TypeOK
<1>4. \A i \in 1..n : state[i] \in [lookup: Messages, end: Positions, field: Nat, state: States]
  BY <1>1, ElementOfSeq DEF TypeOK
<1>5. /\ state' \in Seq([lookup: Messages, end: Positions, field: Nat, state: States])
      /\ Len(state') = n - 1
      /\ \A i \in 1..(n - 1) : state'[i] = state[i]
  BY <1>2, <1>3, <1>4, SubSeqProperties
<1>6. /\ inner.end <= state[n - 1].end
      /\ ~wrapped => 0 <= fieldPayload /\ fieldPayload <= inner.end
      /\ inner.end = messageEnd
  <2>1. state[(n - 1) + 1].end <= state[n - 1].end
    BY <1>1, <1>2, <1>3 DEF NestedEnds
  <2>2. inner.end <= state[n - 1].end
    BY <1>3, <2>1
  <2>3. inner.end = messageEnd
    BY <1>1, <1>3 DEF NestedEnds, TypeOK
  <2>4. ~wrapped => 0 <= fieldPayload /\ fieldPayload <= messageEnd
    BY <1>1, Sizes DEF CursorInside, Positions
  <2> QED
    BY <2>2, <2>3, <2>4
<1>7. /\ inner.field \in FieldsOf(state[n - 1].lookup)
      /\ inner.state \in {"FIELD", "IN_REPEATED"}
  <2>1. /\ state[(n - 1) + 1].field \in FieldsOf(state[n - 1].lookup)
        /\ state[(n - 1) + 1].state \in {"FIELD", "IN_REPEATED"}
    BY <1>1, <1>2, <1>3 DEF EntriesKnown
  <2> QED
    BY <2>1, <1>3
<1>0. bytes' = bytes /\ Positions' = Positions
  BY <1>2 DEF Positions, bytes
<1>8. /\ inner.end \in Positions /\ inner.field \in Nat
      /\ state[n - 1].end \in Positions /\ state[n - 1].lookup \in Messages
  BY <1>3, <1>4
<1>9. inner.field # NoField
  BY <1>7, <1>8, SchemaAssumption
<1> HIDE DEF n, inner
<1>10. TypeOK'
  BY <1>0, <1>1, <1>2, <1>5, <1>7, <1>8 DEF TypeOK, States, Tokens
<1>11. NestedEnds'
  <2>1. \A i \in 1..(Len(state') - 1) : state'[i + 1].end <= state'[i].end
    <3> SUFFICES ASSUME NEW i \in 1..(n - 2)
                 PROVE  state'[i + 1].end <= state'[i].end
      BY <1>3, <1>5
    <3>1. i \in 1..(n - 1) /\ i + 1 \in 1..(n - 1)
      BY <1>3
    <3> QED
      BY <3>1, <1>1, <1>5 DEF NestedEnds, n
  <2>2. state'[1] = state[1] /\ bytes' = bytes
    BY <1>2, <1>3, <1>5 DEF bytes
  <2>3. messageEnd' = state'[Len(state')].end
    BY <1>2, <1>3, <1>5
  <2>4. state' # <<>>
    <3>1. Len(state') > 0
      BY <1>2, <1>3, <1>5
    <3> QED
      BY <3>1
  <2> QED
    BY <2>1, <2>2, <2>3, <2>4, <1>1 DEF NestedEnds
<1>12. CursorInside' /\ PackedInside' /\ EndsAtTheEnd'
  BY <1>2, <1>6, <1>7 DEF CursorInside, PackedInside, EndsAtTheEnd
<1>13. EntriesKnown'
  <2>0. Len(state') - 1 = n - 2
    BY <1>3, <1>5
  <2>1. ASSUME NEW i \in 1..(n - 2)
        PROVE  /\ state'[i + 1].field \in FieldsOf(state'[i].lookup)
               /\ state'[i + 1].state \in {"FIELD", "IN_REPEATED"}
    <3>1. i \in 1..(n - 1) /\ i + 1 \in 1..(n - 1)
      BY <1>3
    <3> QED
      BY <3>1, <1>1, <1>5 DEF EntriesKnown, n
  <2>2. Lookup' = state[n - 1].lookup
    BY <1>3, <1>5 DEF Lookup
  <2> QED
    BY <2>0, <2>1, <2>2, <1>2, <1>7, <1>9 DEF EntriesKnown
<1> QED
  BY <1>10, <1>11, <1>12, <1>13 DEF IInv, Framing

\* set_buffer() followed by start_message() of the root establishes the invariant.
LEMMA InitInv == Init => IInv
<1> SUFFICES ASSUME Init PROVE IInv
  OBVIOUS
<1> PICK root \in Roots : state = <<Context(root, Len(bytes), NoField, "FIELD")>>
  BY DEF Init
<1> DEFINE cxt == Context(root, Len(bytes), NoField, "FIELD")
<1>1. /\ bytes \in Seq(0..255) /\ Len(bytes) \in Nat
      /\ Base + Len(bytes) < Word
      /\ 0 \in Positions /\ Len(bytes) \in Positions
  <2>1. input \in Inputs /\ bytes \in Seq(0..255)
    BY InputsAssumption DEF Init, Buffers, bytes
  <2>2. Base \in Nat /\ Len(bytes) \in Nat
    BY <2>1, WordAssumption DEF Base
  <2>3. Base + Len(bytes) < Word
    BY <2>1, WordAssumption DEF bytes
  <2> QED
    BY <2>1, <2>2, <2>3 DEF Positions
<1>2. cxt \in [lookup: Messages, end: Positions, field: Nat, state: States]
  BY <1>1, RootAssumption DEF Context, NoField, States
<1>3. cxt.end = Len(bytes)
  BY DEF Context
<1> HIDE DEF cxt
<1>4. /\ state = <<cxt>> /\ messageEnd = Len(bytes) /\ current = 0 /\ packedEnd = 0
      /\ fieldPayload = 0 /\ fieldEntry = NoField /\ currentState = "FIELD"
      /\ token = "none" /\ delivered = <<>> /\ input \in Inputs /\ wrapped = FALSE
  BY DEF Init, cxt
<1>5. TypeOK
  <2>1. input \in Buffers /\ Base + Len(bytes) < Word
    BY <1>1, <1>4, InputsAssumption
  <2>2. {current, messageEnd, packedEnd, fieldPayload} \subseteq Positions
    BY <1>1, <1>4
  <2>3. state \in Seq([lookup: Messages, end: Positions, field: Nat, state: States])
    BY <1>2, <1>4
  <2>4. fieldEntry \in Nat /\ currentState \in States /\ token \in Tokens
    BY <1>4 DEF NoField, States, Tokens
  <2>5. delivered \in Seq(Nat \X Nat)
    BY <1>4
  <2>6. wrapped \in BOOLEAN
    BY <1>4
  <2> QED
    BY <2>1, <2>2, <2>3, <2>4, <2>5, <2>6 DEF TypeOK
<1>6. Framing
  BY <1>1, <1>3, <1>4 DEF Framing, NestedEnds, CursorInside, PackedInside, EndsAtTheEnd
<1>7. EntriesKnown
  BY <1>4 DEF EntriesKnown
<1> QED
  BY <1>5, <1>6, <1>7 DEF IInv

\* Every step of the tokenizer keeps the invariant.
LEMMA NextInv == IInv /\ [Next]_vars => IInv'
<1> SUFFICES ASSUME IInv, [Next]_vars PROVE IInv'
  OBVIOUS
<1>1. CASE NextToken
  BY <1>1, NextTokenStep
<1>2. CASE StartMessage
  BY <1>2, StartMessageStep
<1>3. CASE EndMessage
  BY <1>3, EndMessageStep
<1>4. CASE UNCHANGED vars
  BY <1>4 DEF vars, cursors, IInv, TypeOK, Framing, NestedEnds, CursorInside,
     PackedInside, EndsAtTheEnd, EntriesKnown, bytes, Lookup, FieldDef, Positions
<1> QED
  BY <1>1, <1>2, <1>3, <1>4 DEF Next

------------------------------------------------------------------------------

\* The inductive invariant holds of the tokenizer, for any schema, any buffers and any
\* size of the words that hold its lengths and its cursor.
THEOREM Invariant == Spec => []IInv
  BY InitInv, NextInv, PTL DEF Spec

\* Every variable of the tokenizer keeps its type: no cursor of next_token,
\* start_message and end_message leaves the address space or passes the end of the
\* buffer, not even when a length wraps it around.
THEOREM TypeCorrect == Spec => []TypeOK
<1>1. IInv => TypeOK
  BY DEF IInv
<1> QED
  BY <1>1, Invariant, PTL

\* Whatever the bytes, nested messages lie within each other and in the buffer, packed
\* chunks within their message, and END_MESSAGE is only returned at the end of the
\* message; and as long as no length has wrapped the cursor around the address space,
\* the tokenizer reads inside the message it is in, and no payload starts after it.
THEOREM FramingHolds == Spec => []Framing
<1>1. IInv => Framing
  BY DEF IInv
<1> QED
  BY <1>1, Invariant, PTL

------------------------------------------------------------------------------
(* Refinement of TokenStream: what run_bbpb_decoder relies on holds of the       *)
(* tokens of any bytes.                                                          *)

Levels == [type: Messages, field: Nat, seq: {"none", "empty", "open"}]

\* The level of the innermost message.
TopBar == [type |-> Lookup, field |-> fieldEntry, seq |-> OpenSeq(currentState)]

\* The level of the message around Context i + 1.
OuterBar(i) == [type |-> state[i].lookup, field |-> state[i + 1].field,
                seq |-> OpenSeq(state[i + 1].state)]

NoError == currentState # "ERROR"

\* There is a level for every open message.
LevelsAre ==
    /\ levelsBar \in Seq(Levels)
    /\ Len(levelsBar) = Len(state)
    /\ Len(state) \in Nat \ {0}
    /\ \A i \in 1..(Len(state) - 1) : levelsBar[i] = OuterBar(i)
    /\ levelsBar[Len(state)] = TopBar
    /\ levelsBar # <<>>

------------------------------------------------------------------------------
(* What the mapping is.                                                         *)

\* Unless there was an error, the levels are as many as the open messages, and each
\* is what levelsBar says.
LEMMA LevelsBar == IInv /\ NoError => LevelsAre
<1> SUFFICES ASSUME IInv, NoError PROVE LevelsAre
  OBVIOUS
<1> DEFINE n == Len(state)
<1>1. TypeOK /\ NestedEnds /\ EntriesKnown
  BY DEF IInv, Framing
<1>2. n \in Nat /\ n >= 1
  BY <1>1 DEF TypeOK, NestedEnds
<1>3. \A s : OpenSeq(s) \in {"none", "empty", "open"}
  BY DEF OpenSeq
<1>4. TopBar \in Levels
  BY <1>1, <1>3, KnownEntry DEF TopBar, Levels, TypeOK
<1>5. ASSUME NEW i \in 1..(n - 1) PROVE OuterBar(i) \in Levels
  <2>1. i \in 1..n /\ i + 1 \in 1..n
    BY <1>2
  <2>2. /\ state[i] \in [lookup: Messages, end: Positions, field: Nat, state: States]
        /\ state[i + 1] \in [lookup: Messages, end: Positions, field: Nat, state: States]
    BY <1>1, <2>1, ElementOfSeq DEF TypeOK
  <2> QED
    BY <1>3, <2>2 DEF OuterBar, Levels
<1> DEFINE L == [i \in 1..n |-> IF i = n THEN TopBar ELSE OuterBar(i)]
<1>6. levelsBar = L
  BY DEF NoError, levelsBar, TopBar, OuterBar
<1> HIDE DEF n
<1>7. ASSUME NEW i \in 1..n PROVE (IF i = n THEN TopBar ELSE OuterBar(i)) \in Levels
  <2>1. i # n => i \in 1..(n - 1)
    BY <1>2
  <2> QED
    BY <1>4, <1>5, <2>1
<1>8. L \in [1..n -> Levels]
  BY <1>7
<1>9. L \in Seq(Levels) /\ Len(L) = n
  <2> HIDE DEF L
  <2> QED
    BY <1>2, <1>8
<1>10. \A i \in 1..(n - 1) : L[i] = OuterBar(i)
  BY <1>2
<1>11. L[n] = TopBar
  BY <1>2
<1>12. L # <<>>
  <2> HIDE DEF L
  <2> QED
    BY <1>2, <1>9
<1> HIDE DEF L
<1> QED
  BY <1>2, <1>6, <1>9, <1>10, <1>11, <1>12 DEF n, LevelsAre

\* The same after a step.
LEMMA LevelsBarNext == IInv' /\ NoError' => LevelsAre'
  BY LevelsBar, PTL

\* The innermost level is the field and the state of the tokenizer.
LEMMA TopOfStream ==
    ASSUME IInv, NoError
    PROVE  Stream!Top = TopBar
  BY LevelsBar DEF LevelsAre, Stream!Top

\* next_token() changes the innermost level only.
LEMMA TopChanges ==
    ASSUME IInv, IInv', SameMessage, NoError, NoError'
    PROVE  Stream!InTop(Stream!Level(Lookup, fieldEntry', OpenSeq(currentState')))
<1> DEFINE n   == Len(state)
           new == [type |-> Lookup, field |-> fieldEntry', seq |-> OpenSeq(currentState')]
<1>1. UNCHANGED state /\ Lookup' = Lookup
  BY DEF SameMessage, Lookup
<1>2. /\ levelsBar \in Seq(Levels) /\ Len(levelsBar) = n /\ n \in Nat \ {0}
      /\ \A i \in 1..(n - 1) : levelsBar[i] = OuterBar(i)
  BY LevelsBar DEF LevelsAre
<1>3. /\ levelsBar' \in Seq(Levels) /\ Len(levelsBar') = n
      /\ \A i \in 1..(n - 1) : levelsBar'[i] = OuterBar(i)
      /\ levelsBar'[n] = new
  BY <1>1, LevelsBarNext DEF LevelsAre, OuterBar, TopBar
<1>4. new \in Levels
  BY <1>2, <1>3, ElementOfSeq
<1> HIDE DEF n, new
<1>5. /\ [levelsBar EXCEPT ![n] = new] \in Seq(Levels)
      /\ Len([levelsBar EXCEPT ![n] = new]) = n
      /\ \A j \in 1..n : [levelsBar EXCEPT ![n] = new][j]
                           = IF j = n THEN new ELSE levelsBar[j]
  BY <1>2, <1>4, ExceptSeq
<1>6. \A j \in 1..n : levelsBar'[j] = [levelsBar EXCEPT ![n] = new][j]
  BY <1>2, <1>3, <1>5
<1>7. levelsBar' = [levelsBar EXCEPT ![n] = new]
  BY <1>3, <1>5, <1>6, SeqEqual
<1> QED
  BY <1>2, <1>7 DEF Stream!InTop, Stream!Level, new

------------------------------------------------------------------------------
(* One step per action.                                                         *)

\* The driver asks the stream for a token, or enters a message, exactly when it asks
\* the tokenizer.
LEMMA DriverAgrees ==
    ASSUME IInv, NoError
    PROVE  /\ Stream!EntersMessage <=> EntersMessage
           /\ Asked => Stream!Asked
<1>1. /\ Stream!Top.type = Lookup /\ Stream!Top.field = fieldEntry
      /\ levelsBar # <<>>
  BY LevelsBar, TopOfStream DEF TopBar, LevelsAre
<1>2. Stream!EntersMessage <=> EntersMessage
  BY <1>1 DEF Stream!EntersMessage, EntersMessage, FieldDef
<1> QED
  BY <1>1, <1>2 DEF Asked, Stream!Asked

\* set_error() ends the stream.
LEMMA ErrorRefines ==
    ASSUME IInv, NoError, Asked, Error
    PROVE  Stream!Next
<1>1. levelsBar' = <<>>
  BY DEF Error, Goto, levelsBar
<1> QED
  BY <1>1, DriverAgrees DEF Error, Stream!Error, Stream!Next

\* Every way through next_token() is a token of the stream.
LEMMA NextTokenRefines ==
    ASSUME IInv, IInv', NextToken
    PROVE  Stream!Next
<1> USE DEF Goto, OpenSeq
<1>1. Asked /\ SameMessage
  BY DEF NextToken
<1>2. /\ fieldEntry' \in FieldsOf(Lookup) \cup {NoField}
      /\ FieldsOf(Lookup) \cup {NoField} \subseteq Nat
  <2>1. Lookup' = Lookup
    BY <1>1 DEF SameMessage, Lookup
  <2> QED
    BY <2>1, KnownEntry DEF IInv, Framing, EntriesKnown
<1>3. ASSUME NoError
      PROVE  /\ Stream!Asked
             /\ Stream!Top = TopBar
             /\ Stream!Top.type = Lookup /\ Stream!Top.field = fieldEntry
             /\ Stream!Top.seq = OpenSeq(currentState)
  BY <1>1, <1>3, DriverAgrees, TopOfStream DEF TopBar
<1>4. ASSUME NoError, NoError'
      PROVE  Stream!InTop(Stream!Level(Lookup, fieldEntry', OpenSeq(currentState')))
  BY <1>1, <1>4, TopChanges
<1>5. ASSUME NoError, NoError', UNCHANGED fieldEntry,
             OpenSeq(currentState') = OpenSeq(currentState)
      PROVE  UNCHANGED levelsBar
  <2>1. OpenSeq(state[Len(state)].state) = OpenSeq(state[Len(state)].state)
    OBVIOUS
  <2> QED
    BY <1>1, <1>5 DEF SameMessage, Lookup, NoError, levelsBar
<1>6. CASE EndOfMessage \/ EndOfMessageAgain
  <2>1. /\ currentState \in {"FIELD", "END_MESSAGE"} /\ currentState' = "END_MESSAGE"
        /\ token' = "END_MESSAGE" /\ UNCHANGED fieldEntry
    BY <1>6 DEF EndOfMessage, EndOfMessageAgain
  <2>2. NoError /\ NoError'
    BY <2>1 DEF NoError
  <2> QED
    BY <2>1, <2>2, <1>3, <1>5 DEF Stream!EndOfMessage, Stream!Next
<1>7. CASE InvalidField \/ InvalidFirstElement \/ InvalidRepeated \/ InvalidPacked
  <2>1. NoError /\ Error
    BY <1>7 DEF InvalidField, InvalidFirstElement, InvalidRepeated, InvalidPacked, NoError
  <2> QED
    BY <2>1, <1>1, ErrorRefines
<1>8. CASE UnknownField
  <2>1. /\ currentState = "FIELD" /\ currentState' = "FIELD"
        /\ token' = "UNKNOWN_FIELD"
    BY <1>8 DEF UnknownField, FieldDecoded
  <2>2. NoError /\ NoError'
    BY <2>1 DEF NoError
  <2>3. Stream!InTop(Stream!Level(Lookup, fieldEntry', "none"))
    BY <2>1, <2>2, <1>4
  <2> QED
    BY <2>1, <2>2, <2>3, <1>2, <1>3 DEF Stream!UnknownField, Stream!Next,
        Stream!FieldsOf, Stream!NoField, FieldsOf, NoField
<1>9. CASE SingularField
  <2>1. /\ currentState = "FIELD" /\ currentState' = "FIELD"
        /\ token' = "FIELD" /\ fieldEntry' # NoField
        /\ ~Schema[Lookup][fieldEntry'].repeated
    BY <1>9 DEF SingularField, FieldDecoded, FieldDef
  <2>2. NoError /\ NoError'
    BY <2>1 DEF NoError
  <2>3. Stream!InTop(Stream!Level(Lookup, fieldEntry', "none"))
    BY <2>1, <2>2, <1>4
  <2>4. Stream!Field
    BY <2>1, <2>2, <2>3, <1>2, <1>3
    DEF Stream!Field, Stream!FieldsOf, FieldsOf
  <2> QED
    BY <2>4 DEF Stream!Next
<1>10. CASE StartRepeated \/ StartPacked
  <2>1. /\ currentState = "FIELD" /\ currentState' \in {"START_REPEATED", "START_PACKED"}
        /\ token' = "START_SEQUENCE" /\ fieldEntry' # NoField
        /\ Schema[Lookup][fieldEntry'].repeated
    BY <1>10 DEF StartRepeated, StartPacked, FieldDecoded, FieldDef
  <2>2. NoError /\ NoError'
    BY <2>1 DEF NoError
  <2>3. Stream!InTop(Stream!Level(Lookup, fieldEntry', "empty"))
    BY <2>1, <2>2, <1>4
  <2> QED
    BY <2>1, <2>2, <2>3, <1>2, <1>3 DEF Stream!StartSequence, Stream!Next,
        Stream!FieldsOf, Stream!NoField, FieldsOf, NoField
<1>11. CASE FirstRepeated \/ NextRepeated \/ FirstPacked \/ NextPacked
  <2>1. /\ currentState \in {"START_REPEATED", "IN_REPEATED", "START_PACKED", "IN_PACKED"}
        /\ currentState' \in {"IN_REPEATED", "IN_PACKED", "END_REPEATED"}
        /\ token' = "FIELD" /\ UNCHANGED fieldEntry
    BY <1>11 DEF FirstRepeated, NextRepeated, FirstPacked, NextPacked
  <2>2. NoError /\ NoError'
    BY <2>1 DEF NoError
  <2>3. /\ Stream!InTop(Stream!Level(Lookup, fieldEntry, "open"))
        /\ Stream!Top.seq # "none"
    BY <2>1, <2>2, <1>3, <1>4
  <2>4. Stream!Field
    BY <2>1, <2>2, <2>3, <1>3
    DEF Stream!Field, Stream!FieldsOf, FieldsOf
  <2> QED
    BY <2>4 DEF Stream!Next
<1>12. CASE EndRepeated \/ EndPacked
  <2>1. /\ currentState \in {"IN_REPEATED", "END_REPEATED"}
        /\ currentState' \in {"FIELD", "END_MESSAGE"}
        /\ token' = "END_SEQUENCE" /\ UNCHANGED fieldEntry
    BY <1>12 DEF EndRepeated, EndPacked
  <2>2. NoError /\ NoError'
    BY <2>1 DEF NoError
  <2>3. /\ Stream!InTop(Stream!Level(Lookup, fieldEntry, "none"))
        /\ Stream!Top.seq = "open"
    BY <2>1, <2>2, <1>3, <1>4
  <2> QED
    BY <2>1, <2>2, <2>3, <1>3 DEF Stream!EndSequence, Stream!Next
<1> QED
  BY <1>6, <1>7, <1>8, <1>9, <1>10, <1>11, <1>12 DEF NextToken

\* start_message() adds the level of the inner message, and keeps what the outer one
\* is to be resumed with.
LEMMA StartMessageRefines ==
    ASSUME IInv, IInv', StartMessage
    PROVE  Stream!StartMessage
<1> DEFINE n   == Len(state)
           cxt == Context(FieldDef(fieldEntry).message, current, fieldEntry, currentState)
           new == Stream!Level(FieldDef(fieldEntry).message, NoField, "none")
<1>1. /\ EntersMessage /\ token = "FIELD"
      /\ state' = Append(state, cxt)
      /\ fieldEntry' = NoField /\ currentState' = "FIELD" /\ token' = "none"
  BY DEF StartMessage, EntersMessage, Goto
<1>2. NoError /\ NoError'
  BY <1>1 DEF IInv, EntriesKnown, NoError
<1>3. LevelsAre /\ LevelsAre'
  BY <1>2, LevelsBar, LevelsBarNext
<1>4. n \in Nat \ {0}
  BY <1>3 DEF LevelsAre
<1>5. cxt \in [lookup: Messages, end: Positions, field: Nat, state: States]
  BY <1>1, KnownEntry DEF IInv, Framing, TypeOK, EntriesKnown, EntersMessage, Context
<1>6. /\ Len(state') = n + 1
      /\ \A i \in 1..n : state'[i] = state[i]
      /\ state'[n + 1] = cxt
  BY <1>1, <1>5, AppendProperties DEF IInv, TypeOK
<1>7. /\ cxt.field = fieldEntry /\ cxt.state = currentState
      /\ cxt.lookup = FieldDef(fieldEntry).message
  BY DEF Context
<1> HIDE DEF n, cxt
<1>8. levelsBar'[n + 1] = new
  BY <1>1, <1>3, <1>4, <1>6, <1>7
  DEF LevelsAre, TopBar, OpenSeq, Lookup, Stream!Level
<1>9. levelsBar'[n] = levelsBar[n]
  <2>1. n \in 1..n /\ n \in 1..(Len(state') - 1)
    BY <1>4, <1>6
  <2>2. levelsBar'[n] = [type |-> state'[n].lookup, field |-> state'[n + 1].field,
                         seq |-> OpenSeq(state'[n + 1].state)]
    BY <1>3, <2>1 DEF LevelsAre, OuterBar
  <2>3. levelsBar'[n] = TopBar
    BY <1>6, <1>7, <2>1, <2>2 DEF TopBar, Lookup, n
  <2> QED
    BY <1>3, <2>3 DEF LevelsAre, n
<1>10. ASSUME NEW i \in 1..(n - 1) PROVE levelsBar'[i] = levelsBar[i]
  <2>1. i \in 1..n /\ i + 1 \in 1..n /\ i \in 1..(Len(state') - 1)
    BY <1>4, <1>6
  <2>2. OuterBar(i)' = OuterBar(i)
    BY <1>6, <2>1 DEF OuterBar
  <2> QED
    BY <1>3, <2>1, <2>2 DEF LevelsAre, n
<1>11. levelsBar' = Append(levelsBar, new)
  <2>1. levelsBar \in Seq(Levels) /\ Len(levelsBar) = n
    BY <1>3 DEF LevelsAre, n
  <2>2. levelsBar' \in Seq(Levels) /\ Len(levelsBar') = n + 1
    BY <1>3, <1>6 DEF LevelsAre, Levels
  <2>3. new \in Levels
    <3>1. n + 1 \in 1..(n + 1)
      BY <1>4
    <3> QED
      BY <1>8, <2>2, <3>1, ElementOfSeq
  <2> HIDE DEF new
  <2>4. /\ Append(levelsBar, new) \in Seq(Levels)
        /\ Len(Append(levelsBar, new)) = n + 1
        /\ \A i \in 1..n : Append(levelsBar, new)[i] = levelsBar[i]
        /\ Append(levelsBar, new)[n + 1] = new
    BY <2>1, <2>3, AppendProperties
  <2>5. ASSUME NEW i \in 1..(n + 1) PROVE levelsBar'[i] = Append(levelsBar, new)[i]
    <3>1. i \in 1..(n - 1) \/ i = n \/ i = n + 1
      BY <1>4
    <3>2. i # n + 1 => i \in 1..n
      BY <1>4
    <3> QED
      BY <3>1, <3>2, <2>4, <1>4, <1>8, <1>9, <1>10
  <2> QED
    BY <2>2, <2>4, <2>5, SeqEqual
<1>12. Stream!EntersMessage /\ Stream!Top.type = Lookup /\ Stream!Top.field = fieldEntry
  BY <1>1, <1>2, DriverAgrees, TopOfStream DEF TopBar
<1> QED
  BY <1>1, <1>11, <1>12
  DEF Stream!StartMessage, Stream!NoField, NoField, FieldDef, new

\* end_message() removes the innermost level; the one below is resumed as it was.
LEMMA EndMessageRefines ==
    ASSUME IInv, IInv', EndMessage
    PROVE  Stream!EndMessage
<1> DEFINE n == Len(state)
<1>1. /\ n > 1 /\ token = "END_MESSAGE"
      /\ state' = SubSeq(state, 1, n - 1)
      /\ fieldEntry' = state[n].field
      /\ currentState' = state[n].state /\ token' = "none"
  BY DEF EndMessage, Goto
<1>2. /\ n \in Nat /\ n - 1 \in 1..(n - 1) /\ n = (n - 1) + 1
      /\ state[(n - 1) + 1].state \in {"FIELD", "IN_REPEATED"}
  <2>1. n \in Nat
    BY DEF IInv, TypeOK
  <2>2. n - 1 \in 1..(n - 1) /\ n = (n - 1) + 1
    BY <1>1, <2>1
  <2>3. EntriesKnown
    BY DEF IInv
  <2> QED
    BY <2>1, <2>2, <2>3 DEF EntriesKnown
<1>3. NoError /\ NoError'
  BY <1>1, <1>2 DEF IInv, Framing, EndsAtTheEnd, NoError
<1>4. LevelsAre /\ LevelsAre'
  BY <1>3, LevelsBar, LevelsBarNext
<1>5. \A i \in 1..n : state[i] \in [lookup: Messages, end: Positions, field: Nat, state: States]
  BY ElementOfSeq DEF IInv, TypeOK
<1>6. Len(state') = n - 1 /\ \A i \in 1..(n - 1) : state'[i] = state[i]
  BY <1>1, <1>2, <1>5, SubSeqProperties
<1> HIDE DEF n
<1>7. levelsBar'[n - 1] = levelsBar[n - 1]
  <2>1. levelsBar'[n - 1] = TopBar'
    BY <1>4, <1>6 DEF LevelsAre
  <2>2. TopBar' = OuterBar(n - 1)
    BY <1>1, <1>2, <1>6 DEF TopBar, OuterBar, Lookup
  <2> QED
    BY <2>1, <2>2, <1>2, <1>4 DEF LevelsAre, n
<1>8. ASSUME NEW i \in 1..(n - 2) PROVE levelsBar'[i] = levelsBar[i]
  <2>1. i \in 1..(n - 1) /\ i + 1 \in 1..(n - 1) /\ i \in 1..(Len(state') - 1)
    BY <1>2, <1>6
  <2>2. OuterBar(i)' = OuterBar(i)
    BY <1>6, <2>1 DEF OuterBar
  <2> QED
    BY <1>4, <2>1, <2>2 DEF LevelsAre, n
<1>9. levelsBar' = SubSeq(levelsBar, 1, n - 1)
  <2>1. levelsBar \in Seq(Levels) /\ Len(levelsBar) = n
    BY <1>4 DEF LevelsAre, n
  <2>2. levelsBar' \in Seq(Levels) /\ Len(levelsBar') = n - 1
    BY <1>4, <1>6 DEF LevelsAre, Levels
  <2>3. \A i \in 1..(n - 1) : levelsBar[i] \in Levels
    BY <2>1, <1>2, ElementOfSeq
  <2>4. /\ SubSeq(levelsBar, 1, n - 1) \in Seq(Levels)
        /\ Len(SubSeq(levelsBar, 1, n - 1)) = n - 1
        /\ \A i \in 1..(n - 1) : SubSeq(levelsBar, 1, n - 1)[i] = levelsBar[i]
    BY <2>3, <1>1, <1>2, SubSeqProperties
  <2>5. ASSUME NEW i \in 1..(n - 1)
        PROVE  levelsBar'[i] = SubSeq(levelsBar, 1, n - 1)[i]
    <3>1. i \in 1..(n - 2) \/ i = n - 1
      BY <1>2
    <3> QED
      BY <3>1, <2>4, <1>7, <1>8
  <2> QED
    BY <2>2, <2>4, <2>5, SeqEqual
<1> QED
  BY <1>1, <1>4, <1>9 DEF Stream!EndMessage, LevelsAre, n

------------------------------------------------------------------------------

\* set_buffer() and the root's start_message() begin a stream.
LEMMA InitRefines == Init => Stream!Init
<1> SUFFICES ASSUME Init PROVE Stream!Init
  OBVIOUS
<1>1. PICK root \in Roots : state = <<Context(root, Len(bytes), NoField, "FIELD")>>
  BY DEF Init
<1>2. fieldEntry = NoField /\ currentState = "FIELD" /\ token = "none"
  BY DEF Init
<1>3. Len(state) = 1 /\ Lookup = root
  BY <1>1 DEF Lookup, Context
<1>4. IInv /\ NoError
  BY <1>2, InitInv DEF NoError
<1>5. /\ levelsBar \in Seq(Levels) /\ Len(levelsBar) = 1
      /\ levelsBar[1] = [type |-> root, field |-> NoField, seq |-> "none"]
  BY <1>2, <1>3, <1>4, LevelsBar DEF LevelsAre, TopBar, OpenSeq
<1>6. levelsBar = <<[type |-> root, field |-> NoField, seq |-> "none"]>>
  <2> DEFINE top == [type |-> root, field |-> NoField, seq |-> "none"]
  <2>1. top \in Levels
    BY <1>5, ElementOfSeq
  <2>2. <<top>> \in Seq(Levels) /\ Len(<<top>>) = 1 /\ <<top>>[1] = top
    BY <2>1
  <2> HIDE DEF top
  <2> QED
    BY <2>2, <1>5, SeqEqual DEF top
<1> QED
  BY <1>2, <1>6 DEF Stream!Init, Stream!Level, Stream!NoField, NoField

\* Every step of the tokenizer is a step of the stream, or changes nothing of it.
LEMMA NextRefines == IInv /\ IInv' /\ [Next]_vars => [Stream!Next]_(Stream!vars)
<1> SUFFICES ASSUME IInv, IInv', [Next]_vars PROVE [Stream!Next]_(Stream!vars)
  OBVIOUS
<1>1. CASE NextToken
  BY <1>1, NextTokenRefines
<1>2. CASE StartMessage
  BY <1>2, StartMessageRefines DEF Stream!Next
<1>3. CASE EndMessage
  BY <1>3, EndMessageRefines DEF Stream!Next
<1>4. CASE UNCHANGED vars
  BY <1>4 DEF vars, cursors, levelsBar, Lookup, Stream!vars
<1> QED
  BY <1>1, <1>2, <1>3, <1>4 DEF Next

\* Whatever the bytes and the schema, the tokens are a stream run_bbpb_decoder can
\* rely on: it dispatches next_token()'s answers without checking their order.
THEOREM ImplementsTokenStream == Spec => RefinesTokenStream
  BY InitRefines, NextRefines, Invariant, PTL DEF Spec, RefinesTokenStream, Stream!Spec
==============================================================================
