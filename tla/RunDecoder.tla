----------------------------- MODULE RunDecoder -----------------------------
(* Mapper::decode_bbpb and run_bbpb_decoder (src/src/mapper.cpp): one mapper     *)
(* decodes message after message, and turns the tokens of each into calls of the *)
(* handlers.  The tokenizer is its abstract specification, TokenStream: what     *)
(* holds here holds for every sequence of tokens PbDecoder can produce.          *)
(*                                                                               *)
(* MaxTokens bounds the tokens of a call, MaxCalls the calls.                    *)
EXTENDS DecoderHandlers

CONSTANTS MaxCalls, MaxTokens

ASSUME BoundsAssumption == MaxCalls \in Nat /\ MaxTokens \in Nat

VARIABLES levels,   \* the messages the driver has entered (TokenStream)
          token,    \* the last token (TokenStream)
          cxt,      \* decoder_callbacks
          outcome,  \* of the last call: "none" before the first one
          calls, tokens

vars == <<levels, token, cxt, outcome, calls, tokens>>

Tok == INSTANCE TokenStream

Current == Last(levels)
InEntry(level) == level.type \in Entries

Init ==
    /\ Tok!Init
    /\ cxt = NoCall(Current.type)
    /\ outcome = "none"
    /\ calls = 0
    /\ tokens = 0

------------------------------------------------------------------------------
(* The call.                                                                    *)

\* decode_bbpb() up to its loop.
Prepare ==
    /\ outcome \notin {"running", "crashed"}
    /\ calls < MaxCalls
    /\ levels' = <<Tok!Level(RootOf(cxt), NoField, "none")>>
    /\ token' = "none"
    /\ \E junk \in Junk(RootOf(cxt)) : cxt' = Prepared(cxt, junk)
    /\ outcome' = "running"
    /\ calls' = calls + 1
    /\ tokens' = 0

\* A token arrives and the call goes on.
Token ==
    /\ outcome = "running"
    /\ tokens < MaxTokens
    /\ tokens' = tokens + 1
    /\ UNCHANGED calls

Running == Token /\ outcome' = "running"

\* The handlers of the field just read: key, enumeration or other scalar.
Scalars(level) ==
    IF InEntry(level) /\ level.field = KeyField
    THEN {OnKey(cxt, k) : k \in Keys}
    ELSE {OnScalar(cxt, level.field)} \cup
         IF Traits[level.type][level.field].enum
         THEN {OnUnknownEnum(cxt, level.field)} ELSE {}

ScalarField ==
    /\ Token
    /\ Tok!Field
    /\ LET level == Last(levels')
       IN  /\ Schema[level.type][level.field].message = NoMessage
           /\ cxt' \in Scalars(level)
    /\ outcome' = IF cxt'.crashed THEN "crashed" ELSE "running"

\* The message the token announces is entered before the next token is asked for.
MessageField ==
    /\ Running
    /\ Tok!Field
    /\ LET level == Last(levels') IN Schema[level.type][level.field].message # NoMessage
    /\ UNCHANGED cxt

UnknownField ==
    /\ Running
    /\ Tok!UnknownField
    /\ UNCHANGED cxt

StartSequence ==
    /\ Running
    /\ Tok!StartSequence
    /\ LET level == Last(levels')
       IN  cxt' = IF Traits[level.type][level.field].map
                  THEN OnStartMap(cxt, level.field)
                  ELSE OnStartSequence(cxt, level.field)

EndSequence ==
    /\ Running
    /\ Tok!EndSequence
    /\ cxt' = IF Traits[Current.type][Current.field].map
              THEN OnEndMap(cxt) ELSE OnEndSequence(cxt)

\* Entering a map entry calls no handler: on_start_map has pushed its mapper.
StartMessage ==
    /\ outcome = "running"
    /\ Tok!StartMessage
    /\ IF InEntry(Last(levels')) THEN UNCHANGED cxt
       ELSE \E junk \in Junk(Last(levels').type) :
               cxt' = OnStartSubMessage(cxt, Current.field, junk)
    /\ UNCHANGED <<outcome, calls, tokens>>

\* The end of a message: of the call when it is the outermost one or fails its
\* check.  finish() and SAVEDESTRUCTOR clear the stacks either way.
EndOfMessage ==
    /\ Token
    /\ Tok!EndOfMessage
    /\ LET done == OnEndMessage(cxt)
       IN  \/ /\ done.missing # NoField
              /\ cxt' = Cleared(done)
              /\ outcome' = "failed"
           \/ /\ done.missing = NoField
              /\ Len(levels) = 1
              /\ cxt' = Cleared(done)
              /\ outcome' = "decoded"
           \/ /\ done.missing = NoField
              /\ Len(levels) > 1
              /\ cxt' = done
              /\ outcome' = "running"

EndMessage ==
    /\ outcome = "running"
    /\ Tok!EndMessage
    /\ cxt' = IF InEntry(Current) THEN OnEndMapEntry(cxt) ELSE OnEndSubMessage(cxt)
    /\ UNCHANGED <<outcome, calls, tokens>>

Error ==
    /\ Token
    /\ Tok!Error
    /\ cxt' = Cleared(cxt)
    /\ outcome' = "failed"

Next == \/ Prepare \/ ScalarField \/ MessageField \/ UnknownField
        \/ StartSequence \/ EndSequence \/ StartMessage \/ EndOfMessage
        \/ EndMessage \/ Error

Spec == Init /\ [][Next]_vars

------------------------------------------------------------------------------
(* Properties.                                                                  *)

OpenMap(level) == level.seq # "none" /\ Traits[level.type][level.field].map
OpenList(level) == level.seq # "none" /\ ~Traits[level.type][level.field].map

\* Who pushes on items: a message its hash, the field of an open map the map and the
\* value of an entry, the field of an open list its array.
Own == {i \in DOMAIN levels : ~InEntry(levels[i])}
Maps == {i \in DOMAIN levels : OpenMap(levels[i])}
Lists == {i \in DOMAIN levels : OpenList(levels[i])}
Tracking == {i \in Own : TracksSeen(levels[i].type)}
Choosing == {i \in Own : Oneofs(levels[i].type) # {}}

\* How much the first n levels have pushed, and what level i has pushed first.
Upto(S, n) == Cardinality({i \in S : i <= n})
ItemHeight(n) == Upto(Own, n) + 2 * Upto(Maps, n) + Upto(Lists, n)
ItemAt(i) == ItemHeight(i - 1) + 1

\* What the calls before have left at the bottom of seenFields and seenOneof.
OldFields == Len(cxt.seenFields) - Cardinality(Tracking)
OldOneofs == Len(cxt.seenOneof) - Cardinality(Choosing)

ItemKind(i) ==
    IF cxt.items[i] = NULL \/ (i > 1 /\ cxt.items[i] = Value(cxt.items[i - 1]))
    THEN "value" ELSE cxt.tree[cxt.items[i]].kind

\* Types of the state: the decoder's context and the driver's variables.
TypeOK ==
    /\ Tok!TypeOK
    /\ outcome \in {"none", "running", "decoded", "failed", "crashed"}
    /\ calls \in 0..MaxCalls /\ tokens \in 0..MaxTokens
    /\ cxt.mappers \in Seq(Messages) /\ Len(cxt.mappers) > 0
    /\ \A i \in DOMAIN cxt.items : \A j \in DOMAIN cxt.items[i] :
          cxt.items[i][j][1] \in {"NULL", "field", "item", "key", "value"}
    /\ \A i \in DOMAIN cxt.mapKeys : cxt.mapKeys[i] \in [key: Keys] \cup {NoKey}
    /\ \A i \in DOMAIN cxt.seenFields : cxt.seenFields[i] \subseteq Nat
    /\ \A i \in DOMAIN cxt.seenOneof : \E m \in Messages :
          /\ DOMAIN cxt.seenOneof[i] = Oneofs(m)
          /\ \A o \in Oneofs(m) : cxt.seenOneof[i][o] \in
                {NoField} \cup {f \in FieldsOf(m) : Traits[m][f].oneof = o}
    /\ \A p \in DOMAIN cxt.tree : cxt.tree[p] \in Nodes
    /\ cxt.missing \in Nat
    /\ {cxt.crashed, cxt.track} \subseteq BOOLEAN

\* Between two entries of a map nothing of the last one is pending: an entry without
\* a key or without a value does not get those of the entry before it.
NothingPends ==
    OpenMap(Current) /\ token # "FIELD" =>
        Last(cxt.mapKeys) = NoKey /\ Last(cxt.items) = NULL

\* The driver's stack of messages and the five stacks of the handlers, pushed and
\* popped by different code on different tokens, agree at every token: a handler
\* always finds the mapper of the message, the container of the field, the key of
\* the entry and the seen fields and oneofs that the token is about, and nothing of
\* the entry before.
StacksAligned ==
    outcome = "running" =>
        /\ Len(cxt.mappers) = Len(levels) + IF OpenMap(Current) THEN 1 ELSE 0
        /\ \A i \in DOMAIN levels : cxt.mappers[i] = levels[i].type
        /\ OpenMap(Current) => Mapper(cxt) = Schema[Current.type][Current.field].message
        /\ Len(cxt.items) = ItemHeight(Len(levels))
        /\ \A i \in Own : ItemKind(ItemAt(i)) = "hash"
        /\ \A i \in Maps : ItemKind(ItemHeight(i) - 1) = "map" /\ ItemKind(ItemHeight(i)) = "value"
        /\ \A i \in Lists : ItemKind(ItemHeight(i)) = "array"
        /\ Len(cxt.mapKeys) = Cardinality(Maps)
        /\ cxt.track = TracksSeen(Mapper(cxt))
        /\ OldFields >= 0 /\ (TracksSeen(RootOf(cxt)) => OldFields = 0)
        /\ OldOneofs >= 0 /\ (Oneofs(RootOf(cxt)) # {} => OldOneofs = 0)
        /\ \A i \in Choosing :
              DOMAIN cxt.seenOneof[OldOneofs + Upto(Choosing, i)] = Oneofs(levels[i].type)
        /\ NothingPends

\* No handler holds a reference to something that has been deleted: every container
\* in items is still in the hash under construction, inside the one below it.
\* Deleting a member of a oneof or moving a map value must not reach an open one.
HeldContainersLive ==
    \A i \in DOMAIN cxt.items :
        cxt.items[i] # NULL =>
            /\ cxt.items[i] \in DOMAIN cxt.tree
            /\ i > 1 /\ cxt.items[i - 1] # NULL => IsPrefix(cxt.items[i - 1], cxt.items[i])

ElementType(path) ==   \* of the array or map at the path
    LET f == Schema[cxt.tree[Front(path)].type][Last(path)[2]].message
    IN  IF cxt.tree[path].kind = "map" THEN Schema[f][ValueField].message ELSE f

\* The hash has the shape of the schema: every value is a field of a hash, an
\* element of an array or an entry of a map, of the kind the field declares, and
\* arrays have no holes; a value waiting for its key is the one the handlers hold.
TreeFitsSchema ==
    /\ TypeOK
    /\ \A p \in DOMAIN cxt.tree \ {<<>>} :
           LET up   == cxt.tree[Front(p)]
               at   == Last(p)
               node == cxt.tree[p]
           IN  /\ Front(p) \in DOMAIN cxt.tree
               /\ \/ /\ up.kind = "hash" /\ at[1] = "field" /\ at[2] \in FieldsOf(up.type)
                     /\ IF Schema[up.type][at[2]].repeated
                        THEN node.kind = IF Traits[up.type][at[2]].map THEN "map" ELSE "array"
                        ELSE Fits(node, Schema[up.type][at[2]].message)
                  \/ /\ up.kind = "array" /\ at[1] = "item"
                     /\ at[2] = 1 \/ Child(Front(p), "item", at[2] - 1) \in DOMAIN cxt.tree
                     /\ Fits(node, ElementType(Front(p)))
                  \/ /\ up.kind = "map" /\ at[1] = "key"
                     /\ Fits(node, ElementType(Front(p))) \/ Absent(node, ElementType(Front(p)))
                  \/ /\ up.kind = "map" /\ at[1] = "value"
                     /\ Fits(node, ElementType(Front(p)))
                     /\ outcome = "running" => p \in ToSet(cxt.items)
                     /\ outcome # "decoded"

Hashes == {p \in DOMAIN cxt.tree : cxt.tree[p].kind = "hash"}
Has(path, f) == Child(path, "field", f) \in DOMAIN cxt.tree

\* At most one member of each oneof is in a hash, whatever members came on the wire
\* and in what order (the last one stays).
Exclusive(path) ==
    LET m == cxt.tree[path].type
    IN  \A f, g \in FieldsOf(m) :
            f # g /\ Traits[m][f].oneof = Traits[m][g].oneof /\ Traits[m][f].oneof # NoOneof
                => ~(Has(path, f) /\ Has(path, g))

OneofExclusive == \A p \in Hashes : Exclusive(p)
\* The same for the messages that came in one piece: the oneofs of this message and
\* of the messages around it, and of the calls before, do not mix.
OneofExclusiveInOnePiece == \A p \in Hashes : cxt.tree[p].chunks = 1 => Exclusive(p)

\* The seen fields of a message with maps that the handlers of their entries use for
\* their own (on_start_map pushes a mapper and no seen fields).
HasMap(m) == \E f \in FieldsOf(m) : Traits[m][f].map
Borrowed(m) == IF Explicit[m] /\ HasMap(m) THEN {KeyField, ValueField} ELSE {}

\* A decoded message has all its required fields, and so have the messages in it;
\* what an earlier or a failed call has seen does not count.  What the entries of a map
\* have seen does, for the fields they borrow.
RequiredPresent ==
    outcome = "decoded" =>
        \A p \in Hashes : CheckRequired(cxt.tree[p].type) =>
            \A f \in Required(cxt.tree[p].type) \ Borrowed(cxt.tree[p].type) : Has(p, f)

\* explicit_defaults: a decoded message has all the fields with a default, but those that
\* entries of its maps borrow; its defaults do not depend on the messages in it or around
\* it.
DefaultsPresent ==
    outcome = "decoded" =>
        \A p \in Hashes : LET m == cxt.tree[p].type IN
            Explicit[m] => \A f \in FieldsOf(m) \ Borrowed(m) : HasDefault(m, f) => Has(p, f)

\* "Missing required field": the field is really not there, in a message that came
\* in one piece; the entries of a map can forget what they borrow.
MissingStep(path) ==
    \/ cxt'.missing \in {NoField, cxt.missing} \cup Borrowed(cxt.tree[path].type)
    \/ ~Has(path, cxt'.missing)
MissingIsMissingInOnePiece ==
    [][outcome = "running" /\ token' = "END_MESSAGE" /\ ~InEntry(Current)
         /\ cxt.tree[cxt.items[Len(cxt.items)]].chunks = 1
         => MissingStep(Last(cxt.items))]_vars

\* A handler changes the hash only in the field (or the map entry) the token is
\* about: what has been decoded elsewhere stays, and so do the fields of a message
\* another occurrence is merged into and the elements of an array.
Open == IF Last(cxt.items) = NULL \/ ItemKind(Len(cxt.items)) = "value"
        THEN cxt.items[Len(cxt.items) - 1] ELSE Last(cxt.items)
Replaceable(p) ==
    /\ IsPrefix(Open, p) /\ p # Open
    /\ LET f == p[Len(Open) + 1][2]
       IN  CASE cxt.tree[Open].kind = "map" -> TRUE
             [] cxt.tree[Open].kind = "array" -> FALSE
             [] OTHER -> \/ Traits[cxt.tree[Open].type][f].oneof # NoOneof
                         \/ /\ p = Child(Open, "field", f)
                            /\ cxt.tree[p].kind \notin {"hash", "array", "map"}
DecodedStays ==
    [][outcome = "running" =>
         \A p \in DOMAIN cxt.tree : Replaceable(p) \/
             (p \in DOMAIN cxt'.tree /\ cxt'.tree[p].kind = cxt.tree[p].kind)]_vars

=============================================================================
