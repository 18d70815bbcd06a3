----------------------------- MODULE MCPbDecoder -----------------------------
(* Buffers for PbDecoder.  Written inputs are messages put together from a few   *)
(* encoded fields ("chunks"), cut anywhere; raw inputs are arbitrary bytes.      *)
EXTENDS PbDecoder, SequencesExt, FiniteSets

MCMessages == {"M", "Sub"}

Def(w, r, m) == [wire |-> w, repeated |-> r, message |-> m]

\* M: a repeated number, a message, repeated messages, a fixed32, repeated fixed32,
\* a string list, and a field whose tag takes two bytes.  Sub nests Sub.
MCSchema ==
    [M   |-> [f \in {1, 2, 3, 4, 5, 6, 16} |->
                CASE f = 1 -> Def(VARINT, TRUE, NoMessage)
                  [] f = 2 -> Def(LEN, FALSE, "Sub")
                  [] f = 3 -> Def(LEN, TRUE, "Sub")
                  [] f = 4 -> Def(FIXED32, FALSE, NoMessage)
                  [] f = 5 -> Def(FIXED32, TRUE, NoMessage)
                  [] f = 6 -> Def(LEN, TRUE, NoMessage)
                  [] f = 16 -> Def(VARINT, FALSE, NoMessage)],
     Sub |-> [f \in {1, 2, 3} |->
                CASE f = 1 -> Def(VARINT, FALSE, NoMessage)
                  [] f = 2 -> Def(VARINT, TRUE, NoMessage)
                  [] f = 3 -> Def(LEN, TRUE, "Sub")]]

\* An encoded field: its number, its wire type, its bytes and what they deliver.
Chunk(f, w, payload, fields) ==
    [field |-> f, wire |-> w,
     bytes |-> (IF f < 16 THEN <<8 * f + w>> ELSE <<128 + w, 1>>) \o payload,
     fields |-> fields]

BytesOf(cs) == FlattenSeq([i \in DOMAIN cs |-> cs[i].bytes])
FieldsIn(cs) == FlattenSeq([i \in DOMAIN cs |-> cs[i].fields])
Deeper(fields) == [i \in DOMAIN fields |-> <<fields[i][1] + 1, fields[i][2]>>]

Scalar(f, payload) == Chunk(f, VARINT, payload, <<<<1, f>>>>)
Packed(f, payload, n) == Chunk(f, LEN, <<Len(payload)>> \o payload, [i \in 1..n |-> <<1, f>>])
Inner(f, cs) ==
    Chunk(f, LEN, <<Len(BytesOf(cs))>> \o BytesOf(cs), <<<<1, f>>>> \o Deeper(FieldsIn(cs)))

\* Correctly typed fields, then fields that a decoder must skip: unknown numbers
\* and occurrences with a wire type the field cannot have; and empty packed chunks.
TypedChunks ==
    {Scalar(1, <<1>>), Scalar(1, <<129, 1>>), Packed(1, <<5, 130, 1>>, 2),
     Inner(2, <<>>), Inner(2, <<Scalar(1, <<3>>)>>),
     Inner(3, <<Packed(2, <<1, 2>>, 2)>>), Inner(3, <<Inner(3, <<>>), Scalar(1, <<0>>)>>),
     Chunk(4, FIXED32, <<1, 0, 0, 0>>, <<<<1, 4>>>>),
     Packed(5, <<1, 0, 0, 0>>, 1), Chunk(6, LEN, <<0>>, <<<<1, 6>>>>),
     Scalar(16, <<7>>)}
SkippedChunks ==
    {Chunk(7, VARINT, <<3>>, <<>>), Chunk(7, LEN, <<1, 9>>, <<>>),
     Chunk(1, FIXED32, <<0, 0, 0, 0>>, <<>>), Chunk(2, VARINT, <<200, 1>>, <<>>),
     Chunk(7, FIXED64, <<0, 0, 0, 0, 0, 0, 0, 0>>, <<>>)}
EmptyPacked == {Packed(1, <<>>, 0), Inner(3, <<Scalar(1, <<4>>), Packed(2, <<>>, 0)>>)}
Chunks == TypedChunks \cup SkippedChunks \cup EmptyPacked

\* d right after c is an element of the sequence that c left open, though its wire
\* type is not that of the field.
Mixed(c, d) ==
    /\ c.field = d.field
    /\ c.field \in FieldsOf("M")
    /\ MCSchema["M"][c.field].repeated
    /\ c.wire = MCSchema["M"][c.field].wire
    /\ d.wire # c.wire

IsMixed(cs) == \E i \in 1..(Len(cs) - 1) : Mixed(cs[i], cs[i + 1])

Written(cs) ==
    [bytes |-> BytesOf(cs), fields |-> FieldsIn(cs),
     whole |-> \A i \in DOMAIN cs : cs[i] \notin EmptyPacked]

CONSTANTS MaxChunks,  \* longest written input, in chunks
          MaxCut      \* longest written input that is also cut

WholeInputs == {Written(cs) : cs \in {cs \in BoundedSeq(Chunks, MaxChunks) : ~IsMixed(cs)}}
CutInputs ==
    LET cut == {Written(cs) : cs \in {cs \in BoundedSeq(Chunks, MaxCut) : ~IsMixed(cs)}}
        wholeBytes == {w.bytes : w \in WholeInputs}
    IN  {c \in UNION {{[w EXCEPT !.bytes = SubSeq(@, 1, n), !.whole = FALSE] :
                          n \in 0..(Len(w.bytes) - 1)} : w \in cut} :
            c.bytes \notin wholeBytes}
WrittenInputs == WholeInputs \cup CutInputs

CONSTANTS RawBytes, MaxRaw

RawInputs ==
    {[bytes |-> b, fields |-> <<>>, whole |-> FALSE] : b \in BoundedSeq(RawBytes, MaxRaw)}

\* What lies before the buffer: a number, then an empty nested message.
MCBefore == <<24, 26, 0>>
==============================================================================
