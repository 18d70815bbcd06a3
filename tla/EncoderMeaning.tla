---------------------------- MODULE EncoderMeaning ----------------------------
(* What an encode is meant to write for a value, what may be wrong with it, and  *)
(* what Mapper::check (src/src/mapper.cpp) makes of it: defined on the value as a *)
(* whole, where Encoder goes through it step by step.                            *)
EXTENDS Encoder

Sum(parts) == [out |-> FlattenSeq([i \in DOMAIN parts |-> parts[i].out]),
               faults |-> UNION {parts[i].faults : i \in DOMAIN parts}]
Writes(events) == [out |-> events, faults |-> {}]
Fault(error) == [out |-> <<>>, faults |-> {error}]
Between(open, parts, close) == Sum(<<Writes(open)>> \o parts \o <<Writes(close)>>)

\* The entries of a message that count: known, there, and first of their oneof.
Counted(t, value) ==
    LET there == SelectSeq(Visits(t, value), LAMBDA e : Has(t, e.key) /\ ~Ignored(t, Got(e.value)))
        oneof(i) == FieldOf(t, there[i].key).oneof
        first(i) == oneof(i) = "none" \/ \A j \in 1..(i - 1) : oneof(j) # oneof(i)
    IN  [i \in DOMAIN there |-> IF first(i) THEN there[i] ELSE Entry(there[i].key, Plain("absent"))]

\* The value of field f of a message of type t; Root(m) is the message itself.
RECURSIVE Meant(_, _, _)
MeantMessage(t, value) ==
    LET counted == Counted(t, value)
        present == {counted[i].key : i \in {j \in DOMAIN counted : counted[j].value.is # "absent"}}
        fields == [i \in DOMAIN counted |-> Meant(t, FieldOf(t, counted[i].key), counted[i].value)]
    IN  IF value.is # "hash" THEN Fault("croak")
        ELSE Between(<<"(">>,
                     <<IF MissingFrom(t, present) THEN Fault("required") ELSE Writes(<<>>)>> \o fields,
                     <<")">>)

MeantMany(t, f, value) ==
    LET kept == SelectSeq(value.of, LAMBDA e : f.many = "map" /\ t \in IgnoreUndef
                                                   => e.value.is # "undef")
        items == [i \in DOMAIN kept |->
                    Sum(<<Writes(IF f.many = "map" THEN <<kept[i].key>> ELSE <<>>),
                          Meant(t, Item(f), kept[i].value)>>)]
    IN  IF value.is # ContainerOf[f.many] THEN Fault("croak")
        ELSE IF f.many = "list" /\ ~IsMessage(f) /\ value.of = <<>> THEN Writes(<<>>)
        ELSE Between(<<"[">>, items, <<"]">>)

Meant(t, f, given) ==
    LET value == Got(given)
    IN  CASE value.is = "absent" -> Writes(<<>>)
          [] value.is = "hole" -> Fault("unknown")
          [] value.is \notin {"absent", "hole"} /\ f.many # "one" -> MeantMany(t, f, value)
          [] value.is \notin {"absent", "hole"} /\ f.many = "one" /\ IsMessage(f) ->
                MeantMessage(f.type, value)
          [] value.is = "wrong" -> Fault("enum")
          [] OTHER -> Writes(IF value.is # "scalar" /\ ~f.explicit THEN <<>>
                             ELSE IF value.is = "undef" THEN <<"default">> ELSE <<value.is>>)

\* Mapper::check: unknown fields, values of enumerations and the shapes of messages
\* and lists, not required fields.  A map is a list of messages to it.
RECURSIVE Accepts(_, _)
AcceptsField(f, value) ==
    CASE f.many # "one" -> value.is = "list"
                               /\ \A i \in DOMAIN value.of : Accepts(Item(f), Got(value.of[i].value))
      [] f.many = "one" /\ IsMessage(f) ->
            /\ value.is = "hash"
            /\ \A i \in DOMAIN value.of :
                  /\ Has(f.type, value.of[i].key)
                  /\ Accepts(FieldOf(f.type, value.of[i].key), Got(value.of[i].value))
      [] OTHER -> f.type = "enum" => value.is \notin {"wrong", "hole"}
\* Mutant: of a list, the first is checked.
AcceptsFirst(f, value) ==
    IF f.many # "one" /\ value.is = "list" /\ Len(value.of) > 1
    THEN AcceptsField(f, Val("list", <<value.of[1]>>))
    ELSE AcceptsField(f, value)

Accepts(f, value) == AcceptsField(f, value)

------------------------------------------------------------------------------
(* Properties.                                                                   *)

\* An encode that succeeds has written what the value means, and nothing was wrong with
\* it, whatever Perl code did and encoded with other mappers meanwhile.
OutputIsInput ==
    last.outcome = "ok" /\ ~last.reentered =>
        Meant(last.mapper, Root(last.mapper), last.value) = Writes(last.out)

\* When encode fails, last_error_message() names something that is wrong with the
\* value, unless an error of an earlier decode hides it.
ErrorNamesFault ==
    last.outcome = "failed" /\ ~last.reentered /\ last.message # "decoder" =>
        last.message \in Meant(last.mapper, Root(last.mapper), last.value).faults

\* last_error_message() says what is wrong with the value that was encoded.
ErrorIsItsOwn ==
    last.outcome = "failed" /\ ~last.reentered =>
        last.message \in Meant(last.mapper, Root(last.mapper), last.value).faults

\* A value that check() accepts is encoded, or fails for a required field or a hole
\* in an array, which check() does not look for.
CheckedIsEncodable ==
    last.outcome \in {"failed", "croaked"} /\ ~last.reentered /\ last.message # "decoder"
        /\ Accepts(Root(last.mapper), last.value) =>
            last.outcome = "failed" /\ last.message \in {"required", "unknown"}

=============================================================================
