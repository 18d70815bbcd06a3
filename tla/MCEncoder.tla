------------------------------ MODULE MCEncoder ------------------------------
(* Encoder for TLC: a message of every style, each inside another.               *)
EXTENDS EncoderMeaning

S == Plain("scalar")
D == Plain("default")
U == Plain("undef")
Hash(entries) == Val("hash", entries)
List0 == Val("list", <<>>)
List2(v, w) == Val("list", <<Entry("[0]", v), Entry("[1]", w)>>)
x(value) == Entry("x", value)

Scalar(name) == Fld(name, "scalar", "one", FALSE, "none", FALSE)

\* "A": a message of fields; "B": with an unknown field callback; "C": transformed;
\* "T": transformed to a table.
MCFields ==
    [A |-> <<Fld("r", "scalar", "one", TRUE, "none", FALSE),
             Fld("o", "scalar", "one", FALSE, "one", TRUE),
             Fld("p", "enum", "one", FALSE, "one", TRUE),
             Fld("l", "enum", "list", FALSE, "none", TRUE),
             Fld("m", "B", "map", FALSE, "none", TRUE),
             Fld("b", "B", "list", FALSE, "none", TRUE),
             Fld("t", "T", "one", FALSE, "none", TRUE)>>,
     B |-> <<Scalar("x"), Fld("c", "C", "one", FALSE, "none", TRUE),
             Fld("q", "scalar", "one", TRUE, "none", TRUE)>>,
     C |-> <<Scalar("x"), Fld("e", "enum", "one", FALSE, "none", FALSE)>>,
     T |-> <<Fld("x", "scalar", "one", FALSE, "two", TRUE),
             Fld("y", "scalar", "one", FALSE, "two", TRUE),
             Fld("q", "scalar", "one", TRUE, "none", TRUE)>>]
MCStyle == [A |-> "fields", B |-> "hash", C |-> "transform", T |-> "table"]

q == Entry("q", S)
u == Entry("u", S)
r == Entry("r", S)

MCInputs ==
    [A |-> {Hash(<<Entry("p", Magic(S)), Entry("o", U), r,
                   Entry("b", List2(Hash(<<u, q>>), Hash(<<q, x(D), u>>))),
                   Entry("t", Hash(<<x(S), Entry("y", Magic(S)), q>>))>>),
            Hash(<<r, Entry("l", List2(D, U)), Entry("b", List0),
                   Entry("m", Hash(<<Entry("k", U), Entry("j", Hash(<<q, x(Magic(U))>>))>>))>>),
            Hash(<<r, Entry("l", List2(S, Plain("wrong")))>>),
            Hash(<<r, Entry("l", List2(Magic(S), Plain("hole")))>>),
            Hash(<<Entry("r", U)>>),
            Hash(<<r, Entry("l", List0), Entry("b", S)>>)},
     B |-> {Hash(<<Entry("c", Hash(<<x(S), u>>)), x(U), q>>),
            Hash(<<u, x(S)>>),
            Hash(<<q, Entry("c", S)>>)},
     C |-> {Hash(<<x(D), Entry("e", U)>>),
            Hash(<<Entry("e", Plain("wrong"))>>)},
     T |-> {Hash(<<u, Entry("y", U), x(S), q>>), Hash(<<x(S)>>)}]

MCNames == {"r", "o", "p", "l", "m", "b", "t", "x", "y", "c", "q", "e", "u", "k", "j",
            "one", "two", "[0]", "[1]", "FETCH"}

\* A value and all that it holds.
RECURSIVE Parts(_)
Parts(v) == {v} \cup UNION {Parts(v.of[i].value) : i \in DOMAIN v.of}
MCValues == {Plain("absent"), D} \cup UNION {Parts(v) : v \in UNION {MCInputs[t] : t \in DOMAIN MCInputs}}
=============================================================================
