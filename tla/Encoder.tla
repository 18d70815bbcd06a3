------------------------------- MODULE Encoder -------------------------------
(* Mapper::encode (src/src/mapper.cpp): Perl hashes to a stream of events for     *)
(* the upb encoder, field by field, with the path of the field (MapperContext)    *)
(* kept for warnings and for unknown field callbacks.                             *)
(*                                                                               *)
(* Perl code runs in the middle: FETCH of a tied value, a transform, an unknown   *)
(* field callback, a warn handler.  It may encode with another mapper, or with    *)
(* the same, or die.  All mappers share one WarnContext.                          *)
(*                                                                               *)
(* Left out: what scalars convert to, fail_ref_coercion, JSON (the same events    *)
(* go to a printer), what transforms compute (they give back what they get).      *)
EXTENDS Integers, SequencesExt

CONSTANTS
    Fields,        \* message type -> sequence of its fields
    Style,         \* message type -> "fields", "hash", "transform" or "table"
    CheckRequired, \* types with check_required_fields
    IgnoreUndef,   \* types with ignore_undef_fields
    Names,         \* names of fields and oneofs, keys of hashes, indexes of arrays
    Values,        \* the Perl values there are, with all that they hold
    Inputs,        \* message type -> the values encoded as one
    MaxCalls,      \* bound: calls of encode
    MaxDepth       \* bound: encodes that run at a time

VARIABLES
    calls,         \* the encodes that run, the innermost last
    contexts,      \* mapper -> its mapper_context
    status,        \* mapper -> its status: "ok" or the error
    decoderError,  \* the mappers whose decoder_callbacks.error is not empty
    warnContext,   \* WarnContext: context (whose), chained_handler
    hook,          \* PL_warnhook: "user", "own" (handle_warning) or "none"
    last,          \* how the last encode ended
    count          \* calls so far

vars == <<calls, contexts, status, decoderError, warnContext, hook, last, count>>

Mappers == DOMAIN Fields
Styles == {"fields", "hash", "transform", "table"}

NoKey == "<message>"   \* a level that is no field, item or entry yet

\* A field: "scalar", "enum" or the type of its messages; "one", "list" or "map";
\* explicit: encoded also if it has the default value (not an ACTION_PUT_..._ND).
FieldSet == [name : Names \cup {"root"}, type : Mappers \cup {"scalar", "enum"},
             many : {"one", "list", "map"}, required : BOOLEAN,
             oneof : Names \cup {"none"}, explicit : BOOLEAN]
Fld(name, type, many, required, oneof, explicit) ==
    [name |-> name, type |-> type, many |-> many, required |-> required, oneof |-> oneof,
     explicit |-> explicit]

\* One value of a list or map.
Item(f) == Fld(f.name, f.type, "one", FALSE, "none", TRUE)
Root(m) == Fld("root", m, "one", FALSE, "none", TRUE)

\* A value: "scalar", "default", "wrong" (not a value of the enumeration), "undef",
\* "absent", "hole" (of an array), or entries: a "hash", a "list", or "magic", a tied
\* value with what FETCH returns.
Kinds == {"scalar", "default", "wrong", "undef", "absent", "hole", "hash", "list", "magic"}
Entries == [value : Values, key : Names]
Val(is, of) == [is |-> is, of |-> of]
Plain(is) == Val(is, <<>>)
Entry(key, value) == [value |-> value, key |-> key]
Magic(value) == Val("magic", <<Entry("FETCH", value)>>)
Got(value) == IF value.is = "magic" THEN value.of[1].value ELSE value

\* A message does not have a name twice.
ASSUME FieldsAssumption ==
    /\ Mappers # {} /\ NoKey \notin Names
    /\ \A t \in Mappers :
        /\ Style[t] \in Styles /\ Fields[t] \in Seq(FieldSet)
        /\ \A i \in DOMAIN Fields[t] : Fields[t][i].name \in Names
        /\ \A i, j \in DOMAIN Fields[t] : Fields[t][i].name = Fields[t][j].name => i = j

\* A hash has no key twice, an array no index.
ASSUME ValuesAssumption ==
    /\ Inputs \in [Mappers -> SUBSET Values]
    /\ Plain("absent") \in Values /\ Plain("default") \in Values
    /\ \A v \in Values :
        /\ v \in [is : Kinds, of : Seq(Entries)]
        /\ v.is = "magic" => v.of # <<>>
        /\ \A i, j \in DOMAIN v.of : v.of[i].key = v.of[j].key => i = j

ASSUME BoundsAssumption == MaxCalls \in Nat /\ MaxDepth \in Nat

IsMessage(f) == f.type \in Mappers
FieldsNamed(t, key) == {f \in Range(Fields[t]) : f.name = key}
Has(t, key) == FieldsNamed(t, key) # {}
FieldOf(t, key) == CHOOSE f \in FieldsNamed(t, key) : TRUE
EntriesAt(value, key) == {e \in Range(value.of) : e.key = key}
Find(value, key) ==
    IF EntriesAt(value, key) = {} THEN Plain("absent")
    ELSE (CHOOSE e \in EntriesAt(value, key) : TRUE).value

\* What a message does, in order: its fields, or the entries of the hash, or those of
\* the table a transform made of it.
Visits(t, value) ==
    IF Style[t] = "fields"
    THEN [i \in DOMAIN Fields[t] |-> Entry(Fields[t][i].name, Find(value, Fields[t][i].name))]
    ELSE value.of

\* ignore_undef_fields is about fields of a hash, not of a table.
Ignored(t, value) == \/ value.is = "absent"
                     \/ value.is = "undef" /\ t \in IgnoreUndef /\ Style[t] # "table"

MissingFrom(t, seen) ==
    (t \in CheckRequired \/ Style[t] = "fields")
        /\ \E i \in DOMAIN Fields[t] : Fields[t][i].required /\ Fields[t][i].name \notin seen

------------------------------------------------------------------------------
(* MapperContext: levels are kept when they are popped, to be used again.         *)

Clear == [levels |-> <<>>, next |-> 0, nextId |-> 1]
Cleared(cxt) == [levels |-> cxt.levels, next |-> 0, nextId |-> 1]

NewLevel(cxt) ==
    [levels |-> Append(cxt.levels, [key |-> NoKey, id |-> cxt.nextId + 1]),
     next |-> cxt.next + 1, nextId |-> cxt.nextId + 1]

\* Mutant: the new level starts with the key the old one had.
PushKeepsKey(cxt) ==
    IF cxt.next = Len(cxt.levels)
    THEN NewLevel(cxt)
    ELSE [cxt EXCEPT !.levels[cxt.next + 1].id = cxt.nextId, !.next = @ + 1, !.nextId = @ + 1]

PushLevel(cxt) ==
    IF cxt.next = Len(cxt.levels)
    THEN NewLevel(cxt)
    ELSE [cxt EXCEPT !.levels[cxt.next + 1] = [key |-> NoKey, id |-> cxt.nextId],
                     !.next = @ + 1, !.nextId = @ + 1]

\* Mutant: a new array index does not take a new number.
SetKeyOnly(cxt, level, key) == [cxt EXCEPT !.levels[level].key = key]

\* set_hash_key, set_array_index, by the reference push_level gave.
SetKey(cxt, level, key) ==
    [levels |-> [cxt.levels EXCEPT ![level] = [key |-> key, id |-> cxt.nextId]],
     next |-> cxt.next, nextId |-> cxt.nextId + 1]

\* next_level-- ; before the first level comes the end of the list, in libstdc++.
PopLevel(cxt) == [cxt EXCEPT !.next = IF cxt.next = 0 THEN Len(cxt.levels) ELSE cxt.next - 1]

\* fill_context.
Path(cxt) == [i \in 1..cxt.next |-> cxt.levels[i].key]
Ids(cxt) == [i \in 1..cxt.next |-> cxt.levels[i].id]

------------------------------------------------------------------------------
(* A running encode: the messages, lists and maps it is in, innermost last, each  *)
(* with what is still to do; what it wrote; the stage it is at, and the message    *)
(* that is about to start ("enter", "open").                                      *)

NewCall(m, value) ==
    [mapper |-> m, value |-> value, frames |-> <<>>, out |-> <<>>, stage |-> "enter",
     then |-> "look", type |-> m, arg |-> value, hook |-> hook, nested |-> calls # <<>>,
     reentered |-> FALSE, told |-> {}, warning |-> {}]

Stages == {"enter", "open", "look", "put", "encode", "skip", "perl", "recursing"}

Depth == Len(calls)
Running == Depth > 0
Call == calls[Depth]
This == Call.mapper
Context == contexts[This]
Level == Len(Call.frames)
Inner == Call.frames[Level]
Type == Inner.type
Next1 == Inner.todo[1]
At(stage) == Running /\ Call.stage = stage
Field == IF Inner.kind = "message" THEN FieldOf(Type, Next1.key) ELSE Item(Inner.field)

\* A frame that starts, with the level that is pushed for it.
Frame(kind, f, type, todo) ==
    [kind |-> kind, field |-> f, type |-> type, todo |-> todo, key |-> NoKey,
     oneofs |-> {}, seen |-> {}, level |-> Context.next + 1]

\* The path that the frames spell.
TruePath(c) == [i \in DOMAIN c.frames |-> c.frames[i].key]

\* What a call writes after an encode with the same mapper has taken its sink goes
\* anywhere.
Wrote(events) == IF Call.reentered THEN Call.out ELSE Call.out \o events

WithCall(c) == calls' = [calls EXCEPT ![Depth] = c]
WithContext(cxt) == contexts' = [contexts EXCEPT ![This] = cxt]
Quietly == UNCHANGED <<status, decoderError, warnContext, hook, last, count>>

Staged(stage) == [Call EXCEPT !.stage = stage]
Perl(c, then) == [c EXCEPT !.stage = "perl", !.then = then]
Passed(c) == [c EXCEPT !.frames[Level].todo = Tail(Inner.todo), !.stage = "look"]

\* Mutant: the members of a oneof are encoded as any field.
MarkedNothing(oneofs, f) == oneofs

MarkedOneof(oneofs, f) == IF f.oneof = "none" THEN oneofs ELSE oneofs \cup {f.oneof}

\* Mutant: the handler stays.
HookStays(c) == hook

\* PL_warnhook when the scope of the call is left.
HookAfter(c) == c.hook

\* The call is over, contexts stay as they are.  What last_error_message() says.
Ended(c, outcome, error) ==
    /\ calls' = SubSeq(calls, 1, Depth - 1)
    /\ hook' = HookAfter(c)
    /\ status' = [status EXCEPT ![This] = error]
    /\ last' = [mapper |-> This, value |-> c.value, outcome |-> outcome, out |-> c.out,
                reentered |-> c.reentered,
                message |-> IF This \in decoderError THEN "decoder"
                            ELSE IF error = "ok" THEN "unknown" ELSE error]
    /\ UNCHANGED <<decoderError, warnContext, count>>

\* return false; croak.
Failed(error) == Ended(Call, "failed", error)
Croaked == Ended(Call, "croaked", status[This])

\* Mutant: an encode starts with the status of the last.
KeepStatus(m) == status

\* status.Clear().
ClearStatus(m) == [status EXCEPT ![m] = "ok"]

------------------------------------------------------------------------------
(* encode, with or without an outer encode that waits for Perl code.              *)
StartCall(m, value) ==
    /\ Running => At("perl")
    /\ count < MaxCalls /\ Depth < MaxDepth
    /\ count' = count + 1
    /\ calls' = Append([i \in 1..Depth |->
                          [calls[i] EXCEPT !.nested = TRUE,
                                           !.reentered = @ \/ calls[i].mapper = m]],
                       NewCall(m, value))
    /\ status' = ClearStatus(m)
    /\ contexts' = [contexts EXCEPT ![m] = Cleared(contexts[m])]
    /\ warnContext' = [context |-> m, chained |-> hook]
    /\ hook' = "own"
    /\ UNCHANGED <<decoderError, last>>

\* encode_message, encode_transformed_message: the transform runs first.
Transform ==
    /\ At("enter") /\ Style[Call.type] = "transform"
    /\ WithCall(Perl(Call, "open"))
    /\ UNCHANGED contexts /\ Quietly

Opens == At("open") \/ (At("enter") /\ Style[Call.type] # "transform")

\* A message starts.  A table is made after its level is pushed.
Open ==
    /\ Opens /\ Call.arg.is = "hash"
    /\ LET c == [Call EXCEPT
                   !.frames = Append(@, Frame("message", Root(Call.type), Call.type,
                                              Visits(Call.type, Call.arg))),
                   !.out = Wrote(<<"(">>)]
       IN  WithCall(IF Style[Call.type] = "table" THEN Perl(c, "look")
                    ELSE [c EXCEPT !.stage = "look"])
    /\ WithContext(PushLevel(Context)) /\ Quietly

NotAHash ==
    /\ Opens /\ Call.arg.is # "hash"
    /\ Croaked /\ UNCHANGED contexts

------------------------------------------------------------------------------
(* The next field, item or entry.                                                *)

Visiting == At("look") /\ Inner.todo # <<>>
Known == Inner.kind = "message" => Has(Type, Next1.key)
AtNext == WithContext(SetKey(Context, Inner.level, Next1.key))
Keyed == [Call EXCEPT !.frames[Level].key = Next1.key]

\* Left out before its key is set: a number the table's message does not have, an
\* undefined value of a map.
Overlooked == \/ Style[Type] = "table" /\ ~Known
              \/ Inner.kind = "map" /\ Next1.value.is = "undef" /\ Type \in IgnoreUndef

Overlook ==
    /\ Visiting /\ Overlooked
    /\ WithCall(Passed(Call))
    /\ UNCHANGED contexts /\ Quietly

\* unknown_field_transform is told the path and its numbers.
Unknown ==
    /\ Visiting /\ ~Known /\ ~Overlooked
    /\ AtNext
    /\ WithCall(IF Style[Type] = "hash"
                THEN Perl([Keyed EXCEPT !.told = @ \cup {[path |-> Path(contexts'[This]),
                                                          ids |-> Ids(contexts'[This])]}],
                          "skip")
                ELSE [Keyed EXCEPT !.stage = "skip"])
    /\ Quietly

Skip ==
    /\ At("skip")
    /\ WithCall(Passed(Call))
    /\ UNCHANGED contexts /\ Quietly

\* Get magic runs before the value is looked at; of a table, after the oneof is.
Look ==
    /\ Visiting /\ Known /\ ~Overlooked
    /\ AtNext
    /\ WithCall(IF Style[Type] = "table" /\ Inner.kind = "message" /\ Field.oneof \in Inner.oneofs
                THEN [Keyed EXCEPT !.stage = "skip"]
                ELSE IF Next1.value.is = "magic"
                THEN Perl([Keyed EXCEPT !.frames[Level].todo =
                                            <<Entry(Next1.key, Got(Next1.value))>>
                                                \o Tail(Inner.todo)],
                          "put")
                ELSE [Keyed EXCEPT !.stage = "put"])
    /\ Quietly

\* A field that is left out: not there, ignored, or its oneof has a member already.
Omitted == Inner.kind = "message"
               /\ (Ignored(Type, Next1.value) \/ Field.oneof \in Inner.oneofs)

\* fail_if_required, at once when all fields are tried in turn.
Requires == Style[Type] = "fields" /\ Inner.kind = "message"
                /\ Ignored(Type, Next1.value) /\ Field.required

FailRequired ==
    /\ At("put") /\ Requires
    /\ Failed("required") /\ UNCHANGED contexts

\* An array without an element at the index: false, and no message.
FailHole ==
    /\ At("put") /\ Next1.value.is = "hole"
    /\ Failed(status[This]) /\ UNCHANGED contexts

Put ==
    /\ At("put") /\ ~Requires /\ Next1.value.is # "hole"
    /\ WithCall(IF Omitted THEN Passed(Call)
                ELSE [Call EXCEPT !.stage = "encode",
                                  !.frames[Level].oneofs = MarkedOneof(@, Field),
                                  !.frames[Level].seen = @ \cup {Next1.key},
                                  !.out = Wrote(IF Inner.kind = "map" THEN <<Next1.key>>
                                                ELSE <<>>)])
    /\ UNCHANGED contexts /\ Quietly

------------------------------------------------------------------------------
(* encode_field.                                                                 *)

Encoding(what) == At("encode") /\ Field.many = what
IsScalar == Encoding("one") /\ ~IsMessage(Field)

\* Not a number or a string of its own: perl warns.  handle_warning puts the path of
\* the context before the text and calls the handler that was there before.
Warn ==
    /\ IsScalar /\ Next1.value.is = "undef"
    /\ LET c == [Call EXCEPT
                   !.frames[Level].todo = <<Entry(Next1.key, Plain("default"))>>
                                              \o Tail(Inner.todo),
                   !.warning = {[path |-> Path(contexts[warnContext.context]),
                                 field |-> TruePath(Call), to |-> warnContext.chained]}]
       IN  /\ WithCall(IF warnContext.chained = "user" THEN Perl(c, "encode")
                       ELSE IF warnContext.chained = "own"
                       THEN [c EXCEPT !.stage = "recursing"]
                       ELSE c)
           /\ hook' = IF warnContext.chained = "user" THEN "none" ELSE hook
    /\ UNCHANGED <<contexts, status, decoderError, warnContext, last, count>>

FailEnum ==
    /\ IsScalar /\ Next1.value.is = "wrong"
    /\ Failed("enum") /\ UNCHANGED contexts

PutScalar ==
    /\ IsScalar /\ Next1.value.is \in {"scalar", "default"}
    /\ WithCall([Passed(Call) EXCEPT
                   !.out = Wrote(IF Next1.value.is = "default" /\ ~Field.explicit THEN <<>>
                                 ELSE <<Next1.value.is>>)])
    /\ UNCHANGED contexts /\ Quietly

\* encode_message: the frame goes on when the message is done.
PutMessage ==
    /\ Encoding("one") /\ IsMessage(Field)
    /\ WithCall([Passed(Call) EXCEPT !.stage = "enter", !.type = Field.type,
                                     !.arg = Next1.value])
    /\ UNCHANGED contexts /\ Quietly

ContainerOf == [list |-> "list", map |-> "hash"]

\* encode_from_perl_array, encode_from_perl_hash.  An empty list of scalars writes
\* nothing.
PutMany ==
    /\ (Encoding("list") \/ Encoding("map"))
    /\ Next1.value.is = ContainerOf[Field.many]
    /\ LET value == Next1.value
       IN  IF Field.many = "list" /\ ~IsMessage(Field) /\ value.of = <<>>
           THEN WithCall(Passed(Call)) /\ UNCHANGED contexts
           ELSE /\ WithCall([Passed(Call) EXCEPT
                               !.frames = Append(@, Frame(Field.many, Field, Type, value.of)),
                               !.out = Wrote(<<"[">>)])
                /\ WithContext(PushLevel(Context))
    /\ Quietly

NotAContainer ==
    /\ (Encoding("list") \/ Encoding("map"))
    /\ Next1.value.is # ContainerOf[Field.many]
    /\ Croaked /\ UNCHANGED contexts

------------------------------------------------------------------------------
(* The end of a message, list or map; of the outermost, that of the call.         *)

Done == At("look") /\ Inner.todo = <<>>

FailMissing ==
    /\ Done /\ Inner.kind = "message" /\ Style[Type] # "fields" /\ MissingFrom(Type, Inner.seen)
    /\ Failed("required") /\ UNCHANGED contexts

Finish ==
    /\ Done
    /\ Inner.kind # "message" \/ Style[Type] = "fields" \/ ~MissingFrom(Type, Inner.seen)
    /\ LET c == [Call EXCEPT !.frames = Front(@),
                             !.out = Wrote(IF Inner.kind = "message" THEN <<")">> ELSE <<"]">>)]
       IN  IF Level = 1 THEN Ended(c, "ok", "ok") ELSE WithCall(c) /\ Quietly
    /\ WithContext(PopLevel(Context))

------------------------------------------------------------------------------
(* Perl code, and what happens between encodes.                                   *)

Return ==
    /\ At("perl")
    /\ WithCall(Staged(Call.then))
    /\ hook' = "own"
    /\ UNCHANGED <<contexts, status, decoderError, warnContext, last, count>>

Die ==
    /\ At("perl")
    /\ Ended(Call, "died", status[This]) /\ UNCHANGED contexts

\* A decode leaves decoder_callbacks.error empty, or not.
Decode(m) ==
    /\ ~Running
    /\ decoderError' \in {decoderError \cup {m}, decoderError \ {m}}
    /\ UNCHANGED <<calls, contexts, status, warnContext, hook, last, count>>

Start ==
    /\ calls = <<>>
    /\ contexts = [m \in Mappers |-> Clear]
    /\ status = [m \in Mappers |-> "ok"]
    /\ decoderError = {}
    /\ hook = "user"

\* The process ends: handle_warning calls itself until the stack is full, or an encode
\* goes on with the encoder that an inner one replaced and freed.  A new one starts.
Crash ==
    /\ At("recursing") \/ (Running /\ Call.reentered /\ ~At("perl"))
    /\ calls' = <<>>
    /\ contexts' = [m \in Mappers |-> Clear]
    /\ status' = [m \in Mappers |-> "ok"]
    /\ decoderError' = {}
    /\ hook' = "user"
    /\ last' = [outcome |-> "crashed"]
    /\ UNCHANGED <<warnContext, count>>

Init ==
    /\ Start
    /\ warnContext = [context |-> CHOOSE m \in Mappers : TRUE, chained |-> "none"]
    /\ last = [outcome |-> "none"]
    /\ count = 0

Step == \/ Transform \/ Open \/ NotAHash \/ Overlook \/ Unknown \/ Skip \/ Look
        \/ FailRequired \/ FailHole \/ Put \/ Warn \/ FailEnum \/ PutScalar \/ PutMessage
        \/ PutMany \/ NotAContainer \/ FailMissing \/ Finish

Next ==
    \/ Step \/ Return \/ Die \/ Crash
    \/ \E m \in Mappers : Decode(m) \/ \E value \in Inputs[m] : StartCall(m, value)

Spec == Init /\ [][Next]_vars

------------------------------------------------------------------------------
(* Properties.                                                                   *)

TypeOK ==
    /\ \A i \in 1..Depth :
          /\ calls[i].mapper \in Mappers /\ calls[i].stage \in Stages
          /\ i < Depth => calls[i].stage = "perl"
    /\ \A m \in Mappers :
          /\ contexts[m].next \in 0..Len(contexts[m].levels)
          /\ status[m] \in {"ok", "required", "enum"}
    /\ decoderError \subseteq Mappers
    /\ warnContext \in [context : Mappers, chained : {"user", "own", "none"}]
    /\ hook \in {"user", "own", "none"}
    /\ count \in 0..MaxCalls

\* The path that callbacks and warnings are told is where the encode is: through every
\* push and pop, for levels used before, and while other mappers encode.
ContextIsPath ==
    /\ TypeOK
    /\ \A i \in 1..Depth : ~calls[i].reentered =>
          /\ Path(contexts[calls[i].mapper]) = TruePath(calls[i])
          /\ calls[i].told # {} /\ calls[i].then = "skip" /\ calls[i].stage = "perl" =>
                \E told \in calls[i].told : told.path = TruePath(calls[i])

\* The numbers that unknown field callbacks get with a path: at each level, the same
\* number if and only if the path up to there is the same.
IdsNameOneField ==
    \A i \in 1..Depth : \A a, b \in calls[i].told :
        ~calls[i].reentered =>
            \A n \in 1..(IF Len(a.path) < Len(b.path) THEN Len(a.path) ELSE Len(b.path)) :
                (a.ids[n] = b.ids[n]) <=> (SubSeq(a.path, 1, n) = SubSeq(b.path, 1, n))

\* A warning goes to the handler the program has set, with the path of the field that
\* has the value, if the encode is not within another and none ran within it.
WarningNamesFieldUnlessNested ==
    \A i \in 1..Depth : ~calls[i].nested =>
        \A w \in calls[i].warning : w.to = "user" /\ w.path = w.field

=============================================================================
