------------------------------ MODULE PbDecoder ------------------------------
(* gpd::pb::Decoder (src/src/pb/decoder.{h,cpp}), the tokenizer of the wire     *)
(* format, driven the way Mapper::run_bbpb_decoder drives it: one next_token()  *)
(* per step, start_message() right after a FIELD token of a message field,      *)
(* end_message() right after the END_MESSAGE of an inner message.               *)
(*                                                                              *)
(* A pointer is its distance from the start of the buffer: positions below zero *)
(* are memory before the buffer.  Numbers and addresses are of one word: adding *)
(* a length to the cursor (decoder.cpp:250) wraps around at the end of the      *)
(* address space, and the comparison that follows sees the wrapped pointer.     *)
(* Left out: the texts of the errors, the decoded values (only lengths and tags *)
(* move the cursor), and the cursor after an error, which nothing reads.        *)
EXTENDS WireSchema

CONSTANTS
    Inputs,  \* [bytes, fields, whole]: a buffer, the <<depth, field>> pairs it
             \* encodes, and whether it is complete: it ends where a field ends,
             \* and none of its packed chunks is empty
    Word,    \* how many values an unsigned long, and a pointer, can have: 2^64
    Before,  \* the bytes of the address space before the buffer
    MaxDelivered  \* how many fields the history of delivered fields keeps

Buffers == [bytes: Seq(0..255), fields: Seq(Nat \X Nat), whole: BOOLEAN]

\* The address of the buffer.
Base == Len(Before)

ASSUME InputsAssumption ==
    MaxDelivered \in Nat /\ \A i \in Inputs : i \in Buffers

\* The buffer, and the pointer to its end, are in the address space.
ASSUME WordAssumption ==
    /\ Word \in Nat \ {0}
    /\ Before \in Seq(0..255)
    /\ \A i \in Inputs : Base + Len(i.bytes) < Word

VARIABLES
    input,         \* buffer, buffer_end
    current,       \* the cursor
    messageEnd,    \* message_end: the end of the innermost open message
    packedEnd,     \* packed_end: the end of the packed chunk being read
    fieldPayload,  \* field_payload: start of the last length-delimited payload
    fieldEntry,    \* field_entry: the number of the field it points to
    currentState,  \* current_state
    state,         \* the stack of Context records
    token,         \* what next_token() last returned, "none" after start/end_message
    delivered,     \* history: the <<depth, field>> of the first MaxDelivered FIELD tokens
    wrapped        \* history: a length has carried the cursor around the address space

cursors == <<current, packedEnd, fieldPayload, wrapped>>
vars == <<input, cursors, messageEnd, fieldEntry, currentState, state, token, delivered>>

States == {"FIELD", "START_REPEATED", "START_PACKED", "IN_REPEATED", "IN_PACKED",
           "END_REPEATED", "END_MESSAGE", "ERROR"}
Tokens == {"none", "FIELD", "UNKNOWN_FIELD", "START_SEQUENCE", "END_SEQUENCE",
           "END_MESSAGE", "ERROR"}

Context(m, end, f, s) == [lookup |-> m, end |-> end, field |-> f, state |-> s]

bytes == input.bytes
Lookup == state[Len(state)].lookup
FieldDef(f) == Schema[Lookup][f]

------------------------------------------------------------------------------
(* Decoding a number or a payload at position p.                                *)

Positions == (-Base)..Len(bytes)

\* The byte before position q.
Byte(q) == IF q > 0 THEN bytes[q] ELSE Before[Base + q]

\* A varint ends with its first byte below 0x80, within ten bytes.
Terminators(p) == {q \in (p + 1)..Len(bytes) : q <= p + 10 /\ Byte(q) < 128}
VarintNext(p) == LET T == Terminators(p) IN CHOOSE q \in T : \A r \in T : q <= r
VarintOk(p) == Terminators(p) # {} /\ VarintNext(p) <= messageEnd

\* The unrolled PARSE_VARINT_BYTE: seven bits per byte, the low ones first; the bits
\* that do not fit an unsigned long are lost.
Digit(p, next, i) == IF p + i < next THEN Byte(p + i + 1) % 128 ELSE 0
AddDigit(digit, rest) == (digit + 128 * rest) % Word
VarintValue(p) ==
    LET next == VarintNext(p)
        d(i) == Digit(p, next, i)
    IN  AddDigit(d(0), AddDigit(d(1), AddDigit(d(2), AddDigit(d(3), AddDigit(d(4),
            AddDigit(d(5), AddDigit(d(6), AddDigit(d(7), AddDigit(d(8),
                AddDigit(d(9), 0))))))))))

TagField(p) == VarintValue(p) \div 8
TagWire(p) == VarintValue(p) % 8

\* A varint or a fixed-size number.
ScalarEnd(w, p) ==
    CASE w = FIXED64 -> p + 8
      [] w = FIXED32 -> p + 4
      [] OTHER       -> VarintNext(p)
ScalarOk(w, p) ==
    \/ w = VARINT /\ VarintOk(p)
    \/ w \in {FIXED64, FIXED32} /\ ScalarEnd(w, p) <= messageEnd

\* n bytes after p, in pointer arithmetic: both are below Word, so it wraps at most once.
Wraps(p, n) == Base + p + n >= Word
Advance(p, n) == IF Wraps(p, n) THEN p + n - Word ELSE p + n

LengthWraps(w, p) == w = LEN /\ Wraps(VarintNext(p), VarintValue(p))

\* Mutant: a payload that does not fit is cut at the end of the message.
PayloadEndClamped(w, p) ==
    IF w # LEN THEN ScalarEnd(w, p)
    ELSE IF Advance(VarintNext(p), VarintValue(p)) <= messageEnd
         THEN Advance(VarintNext(p), VarintValue(p)) ELSE messageEnd

\* decode_payload: skips the payload that follows a tag.
PayloadEnd(w, p) ==
    IF w = LEN THEN Advance(VarintNext(p), VarintValue(p)) ELSE ScalarEnd(w, p)

\* The length is only compared with what is left after the cursor has moved.
PayloadOk(w, p) ==
    \/ w = LEN /\ VarintOk(p) /\ PayloadEnd(w, p) <= messageEnd
    \/ ScalarOk(w, p)
PayloadStart(w, p) == IF w = LEN THEN VarintNext(p) ELSE fieldPayload

\* Mutant: only the message bounds an element, not the chunk.
ElementOkInMessage(f, p, end) == ScalarOk(FieldDef(f).wire, p)

\* parse_packed_field_internal: the element at p, within the chunk that ends at end.
ElementOk(f, p, end) ==
    ScalarOk(FieldDef(f).wire, p) /\ ScalarEnd(FieldDef(f).wire, p) <= end
ElementEnd(f, p) == ScalarEnd(FieldDef(f).wire, p)

------------------------------------------------------------------------------

EntersMessage == token = "FIELD" /\ FieldDef(fieldEntry).message # NoMessage

\* The loop of run_bbpb_decoder calls next_token() again.
Asked == token \notin {"END_MESSAGE", "ERROR"} /\ ~EntersMessage

Goto(s) == currentState' = s
Deliver(f) ==
    IF Len(delivered) < MaxDelivered
    THEN delivered' = Append(delivered, <<Len(state), f>>)
    ELSE UNCHANGED delivered

\* What next_token() leaves alone, whatever it returns.
SameMessage == UNCHANGED <<input, messageEnd, state>>

Error ==
    /\ Goto("ERROR")
    /\ token' = "ERROR"
    /\ UNCHANGED <<cursors, fieldEntry, delivered>>

\* The tag at the cursor, and where its payload starts.
TagOk == current # messageEnd /\ VarintOk(current)
Number == TagField(current)
Wire == TagWire(current)
AfterTag == VarintNext(current)

\* An unpacked occurrence of a number-like repeated field may also come packed.
IsPacked(f) == Wire = LEN /\ FieldDef(f).wire # LEN

(* STATE_FIELD *)

EndOfMessage ==
    /\ currentState = "FIELD"
    /\ current = messageEnd
    /\ Goto("END_MESSAGE")
    /\ token' = "END_MESSAGE"
    /\ UNCHANGED <<cursors, fieldEntry, delivered>>

\* The tag and its payload are decoded before the field is looked at.
FieldDecoded ==
    /\ currentState = "FIELD"
    /\ TagOk
    /\ PayloadOk(Wire, AfterTag)
    /\ fieldEntry' = FindField(Lookup, Number)

\* Mutant: the cursor stays before the tag.
PayloadKept ==
    /\ fieldPayload' = PayloadStart(Wire, AfterTag)
    /\ UNCHANGED <<current, packedEnd, wrapped>>

RecordWrap == wrapped' = (wrapped \/ LengthWraps(Wire, AfterTag))

PayloadSkipped ==
    /\ current' = PayloadEnd(Wire, AfterTag)
    /\ fieldPayload' = PayloadStart(Wire, AfterTag)
    /\ RecordWrap
    /\ UNCHANGED packedEnd

InvalidField ==
    /\ currentState = "FIELD"
    /\ current # messageEnd
    /\ ~(TagOk /\ PayloadOk(Wire, AfterTag))
    /\ Error

UnknownField ==
    /\ FieldDecoded
    /\ \/ fieldEntry' = NoField
       \/ /\ fieldEntry' # NoField
          /\ FieldDef(fieldEntry').wire # Wire
          /\ ~(FieldDef(fieldEntry').repeated /\ IsPacked(fieldEntry'))
    /\ PayloadSkipped
    /\ token' = "UNKNOWN_FIELD"
    /\ UNCHANGED <<currentState, delivered>>

SingularField ==
    /\ FieldDecoded
    /\ fieldEntry' # NoField
    /\ ~FieldDef(fieldEntry').repeated
    /\ FieldDef(fieldEntry').wire = Wire
    /\ PayloadSkipped
    /\ token' = "FIELD"
    /\ Deliver(fieldEntry')
    /\ UNCHANGED currentState

StartRepeated ==
    /\ FieldDecoded
    /\ fieldEntry' # NoField
    /\ FieldDef(fieldEntry').repeated
    /\ FieldDef(fieldEntry').wire = Wire
    /\ PayloadSkipped
    /\ Goto("START_REPEATED")
    /\ token' = "START_SEQUENCE"
    /\ UNCHANGED delivered

\* The first element of a packed chunk is decoded with its START_SEQUENCE; an
\* empty chunk has none, and is an error.
StartPacked ==
    /\ FieldDecoded
    /\ fieldEntry' # NoField
    /\ FieldDef(fieldEntry').repeated
    /\ IsPacked(fieldEntry')
    /\ LET start == PayloadStart(Wire, AfterTag)
           end   == PayloadEnd(Wire, AfterTag)
       IN  /\ ElementOk(fieldEntry', start, end)
           /\ current' = ElementEnd(fieldEntry', start)
           /\ fieldPayload' = start
           /\ packedEnd' = end
    /\ RecordWrap
    /\ Goto("START_PACKED")
    /\ token' = "START_SEQUENCE"
    /\ UNCHANGED delivered

InvalidFirstElement ==
    /\ currentState = "FIELD"
    /\ TagOk
    /\ PayloadOk(Wire, AfterTag)
    /\ LET f == FindField(Lookup, Number)
       IN  /\ f # NoField
           /\ FieldDef(f).repeated
           /\ IsPacked(f)
           /\ ~ElementOk(f, PayloadStart(Wire, AfterTag), PayloadEnd(Wire, AfterTag))
    /\ Error

(* STATE_START_REPEATED_FIELD and STATE_IN_REPEATED_FIELD *)

FirstRepeated ==
    /\ currentState = "START_REPEATED"
    /\ Goto("IN_REPEATED")
    /\ token' = "FIELD"
    /\ Deliver(fieldEntry)
    /\ UNCHANGED <<cursors, fieldEntry>>

\* Any occurrence of the same field number is an element, whatever its wire type.
NextRepeated ==
    /\ currentState = "IN_REPEATED"
    /\ TagOk
    /\ Number = fieldEntry
    /\ PayloadOk(Wire, AfterTag)
    /\ PayloadSkipped
    /\ token' = "FIELD"
    /\ Deliver(fieldEntry)
    /\ UNCHANGED <<currentState, fieldEntry>>

InvalidRepeated ==
    /\ currentState = "IN_REPEATED"
    /\ current # messageEnd
    /\ TagOk => Number = fieldEntry /\ ~PayloadOk(Wire, AfterTag)
    /\ Error

\* The tag of another field is left for the next call.
EndRepeated ==
    /\ currentState = "IN_REPEATED"
    /\ \/ current = messageEnd /\ Goto("END_MESSAGE")
       \/ TagOk /\ Number # fieldEntry /\ Goto("FIELD")
    /\ token' = "END_SEQUENCE"
    /\ UNCHANGED <<cursors, fieldEntry, delivered>>

(* STATE_START_PACKED_REPEATED_FIELD and STATE_IN_PACKED_REPEATED_FIELD *)

\* Mutant: a chunk is taken to have one element.
OnlyPacked ==
    /\ currentState = "START_PACKED"
    /\ Goto("END_REPEATED")
    /\ current' = packedEnd
    /\ token' = "FIELD"
    /\ Deliver(fieldEntry)
    /\ UNCHANGED <<packedEnd, fieldPayload, wrapped, fieldEntry>>

FirstPacked ==
    /\ currentState = "START_PACKED"
    /\ IF current = packedEnd THEN Goto("END_REPEATED") ELSE Goto("IN_PACKED")
    /\ token' = "FIELD"
    /\ Deliver(fieldEntry)
    /\ UNCHANGED <<cursors, fieldEntry>>

NextPacked ==
    /\ currentState = "IN_PACKED"
    /\ ElementOk(fieldEntry, current, packedEnd)
    /\ current' = ElementEnd(fieldEntry, current)
    /\ IF current' = packedEnd THEN Goto("END_REPEATED") ELSE UNCHANGED currentState
    /\ token' = "FIELD"
    /\ Deliver(fieldEntry)
    /\ UNCHANGED <<packedEnd, fieldPayload, wrapped, fieldEntry>>

InvalidPacked ==
    /\ currentState = "IN_PACKED"
    /\ ~ElementOk(fieldEntry, current, packedEnd)
    /\ Error

(* STATE_END_REPEATED_FIELD and STATE_END_MESSAGE *)

EndPacked ==
    /\ currentState = "END_REPEATED"
    /\ IF current = messageEnd THEN Goto("END_MESSAGE") ELSE Goto("FIELD")
    /\ token' = "END_SEQUENCE"
    /\ UNCHANGED <<cursors, fieldEntry, delivered>>

EndOfMessageAgain ==
    /\ currentState = "END_MESSAGE"
    /\ token' = "END_MESSAGE"
    /\ UNCHANGED <<cursors, fieldEntry, currentState, delivered>>

NextToken ==
    /\ Asked
    /\ SameMessage
    /\ \/ EndOfMessage \/ InvalidField \/ UnknownField \/ SingularField
       \/ StartRepeated \/ StartPacked \/ InvalidFirstElement
       \/ FirstRepeated \/ NextRepeated \/ InvalidRepeated \/ EndRepeated
       \/ FirstPacked \/ NextPacked \/ InvalidPacked \/ EndPacked
       \/ EndOfMessageAgain

------------------------------------------------------------------------------
(* start_message and end_message.                                               *)

\* The inner message is what lies between the last payload start and the cursor.
StartMessage ==
    /\ EntersMessage
    /\ state' = Append(state, Context(FieldDef(fieldEntry).message, current,
                                      fieldEntry, currentState))
    /\ messageEnd' = current
    /\ current' = fieldPayload
    /\ fieldEntry' = NoField
    /\ Goto("FIELD")
    /\ token' = "none"
    /\ UNCHANGED <<input, packedEnd, fieldPayload, wrapped, delivered>>

\* Mutant: the outer message is always resumed at a tag.
EndMessageAtTag ==
    /\ token = "END_MESSAGE"
    /\ Len(state) > 1
    /\ state' = SubSeq(state, 1, Len(state) - 1)
    /\ messageEnd' = state[Len(state) - 1].end
    /\ current' = state[Len(state)].end
    /\ fieldEntry' = state[Len(state)].field
    /\ Goto("FIELD")
    /\ token' = "none"
    /\ UNCHANGED <<input, packedEnd, fieldPayload, wrapped, delivered>>

EndMessage ==
    /\ token = "END_MESSAGE"
    /\ Len(state) > 1
    /\ LET inner == state[Len(state)] IN
          /\ state' = SubSeq(state, 1, Len(state) - 1)
          /\ messageEnd' = state[Len(state) - 1].end
          /\ current' = inner.end
          /\ fieldEntry' = inner.field
          /\ Goto(inner.state)
    /\ token' = "none"
    /\ UNCHANGED <<input, packedEnd, fieldPayload, wrapped, delivered>>

\* set_buffer, then start_message for the root.
Init ==
    /\ input \in Inputs
    /\ current = 0
    /\ messageEnd = Len(bytes)
    /\ packedEnd = 0
    /\ fieldPayload = 0
    /\ fieldEntry = NoField
    /\ currentState = "FIELD"
    /\ \E root \in Roots : state = <<Context(root, Len(bytes), NoField, "FIELD")>>
    /\ token = "none"
    /\ delivered = <<>>
    /\ wrapped = FALSE

Next == NextToken \/ StartMessage \/ EndMessage

Spec == Init /\ [][Next]_vars

\* The loop of run_bbpb_decoder only leaves on an error or the end of the root.
FairSpec == Spec /\ WF_vars(Next)

------------------------------------------------------------------------------
(* Correctness.                                                                 *)

\* Every cursor stays in the address space, and none ever passes the end of the
\* buffer, whatever the lengths.
TypeOK ==
    /\ input \in Buffers
    /\ Base + Len(bytes) < Word
    /\ {current, messageEnd, packedEnd, fieldPayload} \subseteq Positions
    /\ fieldEntry \in Nat
    /\ currentState \in States
    /\ state \in Seq([lookup: Messages, end: Positions, field: Nat, state: States])
    /\ token \in Tokens
    /\ delivered \in Seq(Nat \X Nat)
    /\ wrapped \in BOOLEAN

\* The open messages are nested: each ends within the one around it, the
\* outermost one at the end of the buffer, and message_end is the innermost end.
NestedEnds ==
    /\ state # <<>>
    /\ state[1].end = Len(bytes)
    /\ \A i \in 1..(Len(state) - 1) : state[i + 1].end <= state[i].end
    /\ messageEnd = state[Len(state)].end

\* A field's value that has just been skipped ends within the message; and unless a
\* length has wrapped, the cursor stays in the innermost message and in the buffer,
\* and no payload starts after it.
CursorInside ==
    /\ currentState = "START_REPEATED" \/ token = "FIELD" => current <= messageEnd
    /\ ~wrapped => 0 <= fieldPayload /\ fieldPayload <= current /\ current <= messageEnd

\* A packed chunk lies within its message, and the cursor within the chunk: at
\* its end exactly when the last element has been decoded.
PackedInside ==
    /\ currentState \in {"START_PACKED", "IN_PACKED", "END_REPEATED"} =>
          current <= packedEnd /\ packedEnd <= messageEnd
    /\ currentState = "IN_PACKED" => current < packedEnd
    /\ currentState = "END_REPEATED" => current = packedEnd

\* A message is over when its end has been reached, not before.
EndsAtTheEnd ==
    /\ token = "END_MESSAGE" => currentState = "END_MESSAGE"
    /\ currentState = "END_MESSAGE" => current = messageEnd

\* The messages being read lie within each other and within the buffer, a packed
\* chunk within its message, and a message is only over at its end: this holds of any
\* bytes, also when a length wraps the cursor around the address space.  Until one
\* does, what the decoder reads next also lies inside the innermost message
\* (set_buffer, next_token, start_message, end_message).
Framing == NestedEnds /\ CursorInside /\ PackedInside /\ EndsAtTheEnd

\* What makes Framing inductive: the entry of an open sequence, of a field just
\* delivered and of every message being read is a field of the right message;
\* packed elements are never messages; and every message but the innermost one
\* is to be resumed at a tag.
EntriesKnown ==
    /\ fieldEntry \in FieldsOf(Lookup) \cup {NoField}
    /\ currentState \in {"START_REPEATED", "START_PACKED", "IN_REPEATED", "IN_PACKED",
                        "END_REPEATED"} => fieldEntry # NoField
    /\ currentState \in {"START_PACKED", "IN_PACKED", "END_REPEATED"} =>
          FieldDef(fieldEntry).message = NoMessage
    /\ token = "FIELD" =>
          /\ fieldEntry # NoField
          /\ currentState \in {"FIELD", "IN_REPEATED", "IN_PACKED", "END_REPEATED"}
    /\ \A i \in 1..(Len(state) - 1) :
          /\ state[i + 1].field \in FieldsOf(state[i].lookup)
          /\ state[i + 1].state \in {"FIELD", "IN_REPEATED"}

\* Inductive: TypeOK and Framing follow from it, and every step keeps it.
IInv == TypeOK /\ Framing /\ EntriesKnown

\* The decoding succeeded: END_MESSAGE of the root.
Accepted == token = "END_MESSAGE" /\ Len(state) = 1
Stopped == token = "ERROR" \/ Accepted

\* The fields are delivered as they were written, each at its depth and in order:
\* none is invented, even from a buffer that is cut short, and none is missing
\* when decoding succeeds.
DeliveredAsWritten ==
    /\ Len(delivered) <= Len(input.fields)
    /\ delivered = SubSeq(input.fields, 1, Len(delivered))
    /\ Accepted => delivered = input.fields

\* A buffer is accepted exactly when it is complete: next_token never takes a
\* truncated buffer for a shorter message, never fails on one that ends where a field
\* ends, and refuses an empty packed chunk.
TruncationDetected == Stopped => (Accepted <=> input.whole)

\* The sequence that a decoder state is in the middle of.
OpenSeq(s) ==
    IF s \in {"START_REPEATED", "START_PACKED"} THEN "empty"
    ELSE IF s \in {"IN_REPEATED", "IN_PACKED", "END_REPEATED"} THEN "open" ELSE "none"

\* The decoder as a stream of tokens: for an outer message, the field and the state
\* to return to are in the Context of the message inside it.
levelsBar ==
    IF currentState = "ERROR" THEN <<>>
    ELSE [i \in 1..Len(state) |->
            IF i = Len(state)
            THEN [type |-> Lookup, field |-> fieldEntry, seq |-> OpenSeq(currentState)]
            ELSE [type |-> state[i].lookup, field |-> state[i + 1].field,
                  seq |-> OpenSeq(state[i + 1].state)]]

Stream == INSTANCE TokenStream WITH levels <- levelsBar

\* Whatever the bytes, the tokens are a stream that run_bbpb_decoder can rely on.
RefinesTokenStream == Stream!Spec

\* Decoding stops: the loop of run_bbpb_decoder ends, on any bytes in which no length
\* wraps the cursor around the address space.
Terminates == <>(Stopped \/ wrapped)
==============================================================================
