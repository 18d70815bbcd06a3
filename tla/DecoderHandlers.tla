--------------------------- MODULE DecoderHandlers ---------------------------
(* Mapper::DecoderHandlers (src/src/mapper.cpp): the callbacks that build the    *)
(* Perl hash of a decoded message, and the stacks they keep.  Each callback is   *)
(* an operator from the DecoderHandlers object (cxt) to the object it leaves.    *)
(*                                                                               *)
(* The hash under construction is a function from paths to nodes: the references *)
(* the handlers keep in items are paths here.  A scalar is "wire" (decoded) or   *)
(* "default"; its value is left out, and so are blessing, transforms and         *)
(* fieldtables.  The index of a field in mapper->fields is its number less one:  *)
(* messages have dense numbers.  A map key is one of Keys.                       *)
EXTENDS WireSchema, FiniteSets, SequencesExt

CONSTANTS
    Traits,      \* message -> field -> [label, oneof, enum, string, map]
    Explicit,    \* message -> decode_explicit_defaults
    Check,       \* message -> option check_required_fields
    Entries,     \* the message types that are map entries
    Keys,        \* map keys
    DefaultKey   \* the key that a missing one defaults to

\* The fields of a map entry.
KeyField == 1
ValueField == 2

NoKey == [key |-> "none"]
NoOneof == 0
NULL == <<<<"NULL", 0>>>>

ASSUME DenseAssumption ==
    \A m \in Messages : FieldsOf(m) = 1..Cardinality(FieldsOf(m))

ASSUME TraitsAssumption ==
    \A m \in Messages : \A f \in FieldsOf(m) :
        /\ Traits[m][f].label \in {"optional", "required", "repeated"}
        /\ (Traits[m][f].label = "repeated") = Schema[m][f].repeated
        /\ Traits[m][f].oneof \in Nat
        /\ Traits[m][f].oneof # NoOneof => Traits[m][f].label = "optional"
        /\ {Traits[m][f].map, Traits[m][f].enum, Traits[m][f].string} \subseteq BOOLEAN
        /\ Traits[m][f].map => Schema[m][f].repeated /\ Schema[m][f].message \in Entries

\* A message type is that of map entries, or of messages on their own.
ASSUME MapsAssumption ==
    /\ Entries \subseteq Messages /\ Roots \cap Entries = {}
    /\ \A m \in Messages : \A f \in FieldsOf(m) :
          Schema[m][f].message \in Entries => Traits[m][f].map

\* Entry types are nested in the message with the map and mapped with its options.
ASSUME OptionsAssumption ==
    \A m \in Messages :
        /\ {Explicit[m], Check[m]} \subseteq BOOLEAN
        /\ \A f \in FieldsOf(m) :
              Traits[m][f].map => Explicit[Schema[m][f].message] = Explicit[m]

ASSUME KeysAssumption == DefaultKey \in Keys

\* Keys are numbers or strings.
ASSUME EntriesAssumption ==
    \A m \in Entries : /\ FieldsOf(m) = {KeyField, ValueField}
                       /\ Schema[m][KeyField].message = NoMessage
                       /\ \A f \in FieldsOf(m) : Traits[m][f].label = "optional"
                       /\ \A f \in FieldsOf(m) : Traits[m][f].oneof = NoOneof

------------------------------------------------------------------------------
(* What the Mapper constructor derives from a message definition.               *)

Oneofs(m) == {Traits[m][f].oneof : f \in FieldsOf(m)} \ {NoOneof}
Required(m) == {f \in FieldsOf(m) : Traits[m][f].label = "required"}
CheckRequired(m) == Required(m) # {} /\ Check[m]
HasDefault(m, f) ==
    /\ Traits[m][f].label = "optional"
    /\ Traits[m][f].oneof = NoOneof
    /\ Schema[m][f].message = NoMessage
TracksSeen(m) == CheckRequired(m) \/ Explicit[m]

------------------------------------------------------------------------------
(* The tree and the stacks.                                                     *)

Leaf(kind) == [kind |-> kind]
Scalar == Leaf("wire")
Default == Leaf("default")
Undef == Leaf("undef")
\* chunks: the occurrences of the message, 2 when more were merged into the hash.
Hash(m, chunks) == [kind |-> "hash", type |-> m, chunks |-> chunks]

Nodes == [kind: {"wire", "default", "undef", "array", "map"}]
         \cup [kind: {"hash"}, type: Messages, chunks: 1..2]

\* The node the field of a message, the element of an array or a map must be.
Fits(node, m) ==
    IF m = NoMessage THEN node.kind \in {"wire", "default"}
    ELSE node.kind = "hash" /\ node.type = m
\* An entry without a value may leave undef where a message is expected.
Absent(node, m) == node = Undef /\ m # NoMessage

Under(path, t) == {p \in DOMAIN t : IsPrefix(path, p)}
Put(t, path, node) == [p \in DOMAIN t \cup {path} |-> IF p = path THEN node ELSE t[p]]
Drop(t, path) == [p \in DOMAIN t \ Under(path, t) |-> t[p]]
\* The value at one path replaces what is at the other.
Move(t, from, to) ==
    LET moved == {to \o SubSeq(p, Len(from) + 1, Len(p)) : p \in Under(from, t)}
        kept  == DOMAIN t \ (Under(from, t) \cup Under(to, t))
    IN  [p \in kept \cup moved |->
            IF p \in kept THEN t[p] ELSE t[from \o SubSeq(p, Len(to) + 1, Len(p))]]

Child(path, kind, n) == Append(path, <<kind, n>>)
Value(map) == Child(map, "value", 0)   \* a map value before its entry ends
Items(t, path) == {p \in DOMAIN t : Len(p) = Len(path) + 1 /\ IsPrefix(path, p)}

SetLast(s, e) == [s EXCEPT ![Len(s)] = e]

Mapper(c) == Last(c.mappers)

------------------------------------------------------------------------------
(* The object.                                                                  *)

\* The bits of a seen_fields entry beyond the last field: nothing initialises
\* them, and the handlers of a map entry read and write the first two of the
\* message that holds the map.
Junk(m) == SUBSET ({KeyField, ValueField} \ FieldsOf(m))

\* The mapper whose handlers these are stays at the bottom of mappers.
RootOf(c) == Head(c.mappers)

\* DecoderHandlers(): no call yet.
NoCall(root) ==
    [mappers |-> <<root>>, items |-> <<>>, mapKeys |-> <<>>, seenFields |-> <<>>,
     seenOneof |-> <<>>, track |-> FALSE, tree |-> [p \in {} |-> Undef],
     missing |-> NoField, crashed |-> FALSE]

\* Mutant: the seen fields of an earlier call are kept.
SeenOnce(c, junk) ==
    IF TracksSeen(RootOf(c)) /\ c.seenFields = <<>> THEN <<junk>> ELSE c.seenFields

ResetSeen(c, junk) == IF TracksSeen(RootOf(c)) THEN <<junk>> ELSE c.seenFields

\* prepare(): the stacks of fields and oneofs are reset only if the root uses them.
Prepared(c, junk) ==
    [mappers    |-> <<RootOf(c)>>,
     items      |-> <<<<>>>>,
     mapKeys    |-> <<>>,
     seenFields |-> ResetSeen(c, junk),
     seenOneof  |-> IF Oneofs(RootOf(c)) # {}
                    THEN <<[o \in Oneofs(RootOf(c)) |-> NoField]>> ELSE c.seenOneof,
     track      |-> TracksSeen(RootOf(c)),
     tree       |-> [p \in {<<>>} |-> Hash(RootOf(c), 1)],
     missing    |-> NoField,
     crashed    |-> FALSE]

\* static_clear(): what the stacks refer to is released; the seen stacks are kept.
Cleared(c) == [c EXCEPT !.items = <<>>, !.mapKeys = <<>>]

PushMapper(c, m) == [c EXCEPT !.mappers = Append(@, m), !.track = TracksSeen(m)]
PopMapper(c) ==
    [c EXCEPT !.mappers = Front(@), !.track = TracksSeen(Last(Front(c.mappers)))]

MarkSeen(c, f) ==
    IF c.track THEN [c EXCEPT !.seenFields = SetLast(@, Last(@) \cup {f})] ELSE c

\* Mutant: only the first member of a oneof is remembered.
ReplaceOneofOnce(c, f) ==
    LET o == Traits[Mapper(c)][f].oneof
    IN  IF o = NoOneof \/ Last(c.seenOneof)[o] # NoField THEN c
        ELSE [c EXCEPT !.seenOneof = SetLast(@, [Last(@) EXCEPT ![o] = f])]

\* A later member of a oneof deletes the one that this level has seen before it.
ReplaceOneof(c, f) ==
    LET o == Traits[Mapper(c)][f].oneof
        s == Last(c.seenOneof)[o]
    IN  IF o = NoOneof THEN c
        ELSE [c EXCEPT !.seenOneof = SetLast(@, [Last(@) EXCEPT ![o] = f]),
                       !.tree = IF s \notin {NoField, f}
                                THEN Drop(@, Child(Last(c.items), "field", s)) ELSE @]

\* get_target(): the object once the target exists, and the path of the target.
\* Map keys are not in the tree: OnKey.  A second value of an entry takes the place
\* of the first in items, which was the only reference to it.
IsValue(c, f) == Mapper(c) \in Entries /\ f = ValueField
\* Mutant: the last index of the array instead of the next one.
LastItem(c) == Cardinality(Items(c.tree, Last(c.items)))

NextItem(c) == Cardinality(Items(c.tree, Last(c.items))) + 1
TargetPath(c, f) ==
    IF IsValue(c, f) THEN Value(c.items[Len(c.items) - 1])
    ELSE IF Schema[Mapper(c)][f].repeated THEN Child(Last(c.items), "item", NextItem(c))
    ELSE Child(Last(c.items), "field", f)
Target(c, f) ==
    IF IsValue(c, f)
    THEN [c EXCEPT !.items = SetLast(@, TargetPath(c, f)),
                   !.tree = Drop(@, TargetPath(c, f))]
    ELSE IF Schema[Mapper(c)][f].repeated THEN c ELSE ReplaceOneof(c, f)

StoreAt(c, f, node) == [Target(c, f) EXCEPT !.tree = Put(@, TargetPath(c, f), node)]

------------------------------------------------------------------------------
(* The callbacks.                                                               *)

\* Mutant: mark_seen is not called.
OnScalarUnmarked(c, f) == StoreAt(c, f, Scalar)

\* on_iv, on_uv, on_nv, on_bigiv, on_biguv, on_*_bool, on_string.
OnScalar(c, f) == StoreAt(MarkSeen(c, f), f, Scalar)

\* The same for the key of a map entry; on_string_key does not mark it as seen.
OnKey(c, k) ==
    LET string == Traits[Mapper(c)][KeyField].string
        d      == IF string THEN c ELSE MarkSeen(c, KeyField)
    IN  [d EXCEPT !.mapKeys = SetLast(@, [key |-> k])]

\* Mutant: the field is marked as seen before the value is looked up.
OnUnknownEnumMarked(c, f) == MarkSeen(c, f)

\* on_enum with a number the enumeration lacks: SvTYPE(items.back()) looks through
\* a null pointer when a map entry has no value yet.
OnUnknownEnum(c, f) ==
    IF Last(c.items) = NULL THEN [c EXCEPT !.crashed = TRUE]
    ELSE IF c.tree[Last(c.items)].kind = "array" THEN StoreAt(c, f, Default)
    ELSE c

\* Mutant: every occurrence starts a new array.
ContainerAnew(c, f, kind) ==
    LET path == Child(Last(c.items), "field", f)
        d    == MarkSeen(c, f)
    IN  [d EXCEPT !.tree = Put(Drop(@, path), path, Leaf(kind)),
                  !.items = Append(@, path)]

\* The array or hash of a repeated field is created by its first occurrence.
Container(c, f, kind) ==
    LET path == Child(Last(c.items), "field", f)
        d    == MarkSeen(c, f)
    IN  [d EXCEPT !.tree = IF path \in DOMAIN @ THEN @
                           ELSE Put(@, path, Leaf(kind)),
                  !.items = Append(@, path)]

OnStartSequence(c, f) == Container(c, f, "array")
OnEndSequence(c) == [c EXCEPT !.items = Front(@)]

OnStartMap(c, f) ==
    LET d == PushMapper(Container(c, f, "map"), Schema[Mapper(c)][f].message)
    IN  [d EXCEPT !.items = Append(@, NULL), !.mapKeys = Append(@, NoKey)]

OnEndMap(c) ==
    [PopMapper(c) EXCEPT !.items = Front(Front(@)), !.mapKeys = Front(@)]

\* A second occurrence of a message is merged into the hash of the first.
OnStartSubMessage(c, f, junk) ==
    LET m    == Schema[Mapper(c)][f].message
        path == TargetPath(c, f)
        d    == Target(MarkSeen(c, f), f)
        old  == path \in DOMAIN d.tree
        e    == PushMapper([d EXCEPT
                    !.tree = Put(@, path, Hash(m, IF old THEN 2 ELSE 1)),
                    !.items = Append(@, path)], m)
    IN  [e EXCEPT
            !.seenFields = IF e.track THEN Append(@, junk) ELSE @,
            !.seenOneof = IF Oneofs(m) # {}
                          THEN Append(@, [o \in Oneofs(m) |-> NoField]) ELSE @]

\* Mutant: the oneofs of the message are not popped.
OnEndSubMessageKeepsOneofs(c) ==
    [PopMapper([c EXCEPT !.seenFields = IF c.track THEN Front(@) ELSE @])
        EXCEPT !.items = Front(@)]

OnEndSubMessage(c) ==
    LET d == [c EXCEPT !.seenOneof = IF Oneofs(Mapper(c)) # {} THEN Front(@) ELSE @,
                       !.seenFields = IF c.track THEN Front(@) ELSE @]
    IN  [PopMapper(d) EXCEPT !.items = Front(@)]

\* apply_defaults_and_check(): the defaults of the fields not seen, unless another
\* chunk of the message has set them; then the first required one not seen.
Unseen(c) == FieldsOf(Mapper(c)) \ Last(c.seenFields)
MissingRequired(c) ==
    IF CheckRequired(Mapper(c)) THEN Required(Mapper(c)) \cap Unseen(c) ELSE {}
ToDefault(c) ==
    IF Explicit[Mapper(c)] THEN {f \in Unseen(c) : HasDefault(Mapper(c), f)} ELSE {}

DefaultEntry(c) ==
    LET d == IF KeyField \in ToDefault(c) /\ Last(c.mapKeys) = NoKey
                /\ ~Traits[Mapper(c)][KeyField].string
             THEN [c EXCEPT !.mapKeys = SetLast(@, [key |-> DefaultKey])] ELSE c
    IN  IF ValueField \in ToDefault(c) THEN StoreAt(d, ValueField, Default) ELSE d

DefaultFields(c) ==
    LET paths == {Child(Last(c.items), "field", f) : f \in ToDefault(c)} \ DOMAIN c.tree
    IN  [c EXCEPT !.tree = [p \in DOMAIN @ \cup paths |->
                               IF p \in paths THEN Default ELSE @[p]]]

OnEndMessage(c) ==
    IF ~c.track THEN c
    ELSE IF MissingRequired(c) # {}
         THEN [c EXCEPT !.missing = CHOOSE f \in MissingRequired(c) :
                                      \A g \in MissingRequired(c) : f <= g]
    ELSE IF Mapper(c) \in Entries THEN DefaultEntry(c) ELSE DefaultFields(c)

\* An entry without a value gets the default of its type (undef if that is a
\* message); one without a key is dropped, and nothing releases its value.
StoreEntry(c) ==
    LET map   == c.items[Len(c.items) - 1]
        key   == Last(c.mapKeys)
        empty == IF Schema[Mapper(c)][ValueField].message = NoMessage THEN Default ELSE Undef
        tree  == IF Last(c.items) = NULL THEN Put(c.tree, Value(map), empty) ELSE c.tree
    IN  [c EXCEPT
            !.tree = IF key = NoKey THEN Drop(@, Value(map))
                     ELSE Move(tree, Value(map), Child(map, "key", key.key))]


\* Mutant: the value stays in items.
ForgetKey(c) == [c EXCEPT !.mapKeys = SetLast(@, NoKey)]

\* Only the handler for keys that are not strings forgets that the value was seen.
ForgetEntry(c) ==
    [c EXCEPT
        !.mapKeys = SetLast(@, NoKey),
        !.items = SetLast(@, NULL),
        !.seenFields = IF c.track /\ ~Traits[Mapper(c)][KeyField].string
                       THEN SetLast(@, Last(@) \ {ValueField}) ELSE @]

\* on_end_map_entry, on_end_string_map_entry.
OnEndMapEntry(c) == ForgetEntry(StoreEntry(c))
==============================================================================
