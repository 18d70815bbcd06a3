--------------------------- MODULE TransformQueue ---------------------------
(* Decoder transforms: functions that rewrite a decoded message once the whole  *)
(* input is read (gpd::transform::DecoderTransformQueue, src/src/transform.cpp, *)
(* and the callbacks of Mapper::DecoderHandlers that feed it).                  *)
(*                                                                              *)
(* A Perl value is known by the order in which it was made, and by the counted  *)
(* references to it: one from the hash, array or map that holds it (slots), one *)
(* from each queued transform, one from whichever vector owns it meanwhile.     *)
(* Messages are a tree of such values; a message of a "table" type is not built *)
(* as a hash, its fields pile up in fieldtable_entries, above a marker.         *)
EXTENDS Integers, SequencesExt

CONSTANTS
    Kind,       \* type -> transform set on it: "none", "plain", "table", or
                \* "bare": fieldtable without a transform
    Fields,     \* type -> field -> [type, label, own]: own is the kind of the
                \* field's transform, label "single", "choice" (a member of
                \* the oneof of its type), "list" or "map"
    Roots,      \* the types that are decoded
    Scalar,     \* "not a message": the type of a scalar field
    Keys,       \* the keys of map entries, numbers
    MaxEvents   \* bound: root -> callbacks of one call

VARIABLES
    svs,        \* the values made by the call: [refs, slots, freed]
    frames,     \* items and mappers: the open containers, innermost last
    entries,    \* fieldtable_entries: [field, value], a marker has NoSv
    pending,    \* DecoderTransformQueue::pending_transforms
    table,      \* DecoderTransformQueue::fieldtable
    phase,      \* "idle", "decoding", "applying", "undefined"
    outcome,    \* of the call: "ok", "failed" (decoder), "died" (croak)
    at,         \* apply_transforms: transforms that are left
    mapped,     \* apply_transforms: already_mapped
    left,       \* callbacks that the input may still cause
    ghost       \* what the properties compare with, no part of the program

vars == <<svs, frames, entries, pending, table, phase, outcome, at, mapped,
          left, ghost>>

NoSv == 0
NoField == 0
NoKey == 0
Types == DOMAIN Kind
AllFields == UNION {DOMAIN Fields[t] : t \in Types}
IsTable(t) == Kind[t] \in {"table", "bare"}    \* decoder_transform_fieldtable

ASSUME KindAssumption ==
    /\ Roots \subseteq Types /\ Scalar \notin Types
    /\ \A t \in Types : Kind[t] \in {"none", "plain", "table", "bare"}
ASSUME FieldsAssumption ==
    \A t \in Types : \A f \in DOMAIN Fields[t] :
        /\ Fields[t][f].type \in Types \cup {Scalar}
        /\ Fields[t][f].label \in {"single", "choice", "list", "map"}
        /\ Fields[t][f].own \in {"none", "plain", "table"}

Top == Last(frames)
NewSv == [refs |-> 1, slots |-> <<>>, freed |-> FALSE]
NextSv == Len(svs) + 1     \* the value that is made next

------------------------------------------------------------------------------
(* Reference counts.                                                            *)

\* SvREFCNT_dec of every value that a function gives (NULL is skipped).
Dec(s, ids) ==
    [n \in DOMAIN s |->
        [s[n] EXCEPT !.refs = @ - Cardinality({i \in DOMAIN ids : ids[i] = n})]]

\* A value goes when nothing refers to it but containers that go.  Containers are
\* older than what they hold.
Held(v) == {v.slots[i] : i \in DOMAIN v.slots}
HeldBy(s, S, n) == Cardinality({k \in S : n \in Held(s[k])})
Gone(s) ==
    LET goes[n \in DOMAIN s] ==
            s[n].refs <= HeldBy(s, {k \in DOMAIN s : k < n /\ n \in Held(s[k]) /\ goes[k]}, n)
    IN {n \in DOMAIN s : goes[n]}
Reap(s) ==
    LET gone == Gone(s) IN
    [n \in DOMAIN s |->
        [refs  |-> s[n].refs - HeldBy(s, gone, n),
         slots |-> IF n \in gone THEN <<>> ELSE s[n].slots,
         freed |-> s[n].freed \/ n \in gone]]
Release(s, ids) == Reap(Dec(s, ids))

\* f, with x at i.
With(f, i, x) == [j \in {i} \cup DOMAIN f |-> IF j = i THEN x ELSE f[j]]

Put(s, holder, slot, n) == [s EXCEPT ![holder].slots = With(@, slot, n)]
Values(es) == [i \in DOMAIN es |-> es[i].value]

------------------------------------------------------------------------------
(* The queue.                                                                   *)

\* add_transform: the transform of the field wins over that of the message; the
\* index returned is that of the last element, whether one was added or not.
Queued(n, message, field) ==
    LET by == IF field # "none" THEN field
              ELSE IF message \in {"plain", "table"} THEN message ELSE "none"
    IN IF by = "none" THEN <<>>
       ELSE <<[target |-> n, by |-> by, offset |-> -1, size |-> 0]>>

\* Mutant: the queue takes no reference.
QueueBorrows(s, q) == s

IncQueued(s, q) == IF q = <<>> THEN s ELSE [s EXCEPT ![q[1].target].refs = @ + 1]

\* finish_add_transform_fieldtable: the entries above the innermost marker move
\* to the queue, and the marker goes.
Markers == {i \in DOMAIN entries : entries[i].value = NoSv}
Innermost == CHOOSE i \in Markers : \A j \in Markers : j <= i
Outer == SubSeq(entries, 1, Innermost - 1)
Own == SubSeq(entries, Innermost + 1, Len(entries))
TableMoved(rest, offset) ==
    [entries |-> rest, table |-> table \o Own,
     pending |-> [pending EXCEPT ![entries[Innermost].field].offset = offset,
                                 ![entries[Innermost].field].size = Len(Own)]]
TableLeft == [entries |-> entries, table |-> table, pending |-> pending]

\* Mutant: the offset is that of the entries before they moved.
TableDoneInPlace == IF Markers = {} THEN TableLeft ELSE TableMoved(Outer, Innermost)

\* Mutant: only the marker is erased.
TableDoneKept == IF Markers = {} THEN TableLeft ELSE TableMoved(Outer \o Own, Len(table))

TableDone == IF Markers = {} THEN TableLeft ELSE TableMoved(Outer, Len(table))

------------------------------------------------------------------------------
(* Decoding: the callbacks, in the order the wire format drives them.           *)

\* get_target and get_hash_item_target for field f of the current message: a new
\* entry of a field table; the slot of a hash, made when it is missing, after the
\* member of its oneof that this occurrence of the message set before is deleted.  A
\* message that comes again keeps what its earlier occurrences set.
Others(f) == {g \in DOMAIN svs[Top.sv].slots \ {f} :
                 Fields[Top.type][f].label = "choice" /\ g = Top.seen}

\* Mutant: the other member leaves the hash and is not released.
EmptiedOnly(f) ==
    [svs EXCEPT ![Top.sv].slots = Restrict(@, DOMAIN @ \ Others(f))]

Emptied(f) ==
    LET slots == svs[Top.sv].slots
    IN Release([svs EXCEPT ![Top.sv].slots = Restrict(@, DOMAIN @ \ Others(f))],
               [g \in Others(f) |-> slots[g]])
ItemTarget(f) ==
    IF Top.kind = "table"
    THEN [sv |-> NextSv, svs |-> Append(svs, NewSv),
          entries |-> Append(entries, [field |-> f, value |-> NextSv])]
    ELSE IF f \in DOMAIN svs[Top.sv].slots
    THEN [sv |-> svs[Top.sv].slots[f], svs |-> Emptied(f), entries |-> entries]
    ELSE [sv |-> NextSv, svs |-> Put(Append(Emptied(f), NewSv), Top.sv, f, NextSv),
          entries |-> entries]

Decoding == phase = "decoding" /\ left > 0
Event == left' = left - 1 /\ UNCHANGED <<phase, outcome, at, mapped>>

InMessage(labels) ==
    {f \in DOMAIN Fields[Top.type] :
        Top.kind \in {"message", "table"} /\ Fields[Top.type][f].label \in labels}
\* The fields a sub-message can start for: of the message, of the open array, the
\* value of the open map.
SubFields ==
    IF Top.kind \in {"message", "table"} THEN InMessage({"single", "choice"})
    ELSE IF Top.kind \in {"array", "value"} THEN {Top.field} ELSE {}

\* seen is seen_oneof, which starts empty for every occurrence of a message.  own and
\* base are for the properties: the fields that a table got so far, and where its
\* marker is.
Noted(f) ==
    CASE Top.kind = "table" -> [frames EXCEPT ![Len(frames)].own = Append(@, f)]
      [] Top.kind = "message" /\ Fields[Top.type][f].label = "choice" ->
            [frames EXCEPT ![Len(frames)].seen = f]
      [] OTHER -> frames
Frame(kind, n, t, f) ==
    [kind |-> kind, sv |-> n, type |-> t, field |-> f, seen |-> NoField,
     own |-> <<>>, base |-> 0]
Opened(t, n, f, below) ==
    IF IsTable(t) THEN [Frame("table", n, t, f) EXCEPT !.base = Len(below) + 1]
    ELSE Frame("message", n, t, f)
Marker(t, q) == IF IsTable(t) THEN <<[field |-> Len(q), value |-> NoSv]>> ELSE <<>>

\* prepare: everything is reset, and the root's transform is queued first.
Prepare(root) ==
    /\ phase = "idle"
    /\ phase' = "decoding" /\ outcome' = "ok" /\ left' = MaxEvents[root]
    /\ pending' = Queued(1, Kind[root], "none")
    /\ svs' = IncQueued(<<NewSv>>, pending')
    /\ IsTable(root) => Len(pending') > 0
    /\ frames' = <<Opened(root, 1, NoField, <<>>)>>
    /\ entries' = Marker(root, pending')
    /\ ghost' = [merged |-> FALSE, cut |-> FALSE, lost |-> FALSE,
                 written |-> <<>>, log |-> <<>>]
    /\ UNCHANGED <<table, at, mapped>>

\* on_start_string, on_bigints, ...: any callback that stores a scalar.
OnScalar(f) ==
    /\ Decoding /\ f \in InMessage({"single", "choice"})
    /\ Fields[Top.type][f].type = Scalar
    /\ svs' = ItemTarget(f).svs /\ entries' = ItemTarget(f).entries
    /\ frames' = Noted(f)
    /\ Event /\ UNCHANGED <<pending, table, ghost>>

\* on_start_sequence, on_start_map: the value of a map is not in it yet.
OnStartMany(f) ==
    /\ Decoding /\ f \in InMessage({"list", "map"})
    /\ LET target == ItemTarget(f) IN
         /\ svs' = target.svs /\ entries' = target.entries
         /\ frames' = Noted(f) \o
              IF Fields[Top.type][f].label = "list"
              THEN <<Frame("array", target.sv, Top.type, f)>>
              ELSE <<Frame("map", target.sv, Top.type, f),
                     Frame("value", NoSv, Top.type, f)>>
    /\ Event /\ UNCHANGED <<pending, table, ghost>>

\* on_end_sequence, on_end_map.
OnEndMany ==
    /\ Decoding
    /\ \/ Top.kind = "array" /\ frames' = Front(frames)
       \/ Top.kind = "value" /\ Top.sv = NoSv /\ frames' = Front(Front(frames))
    /\ Event /\ UNCHANGED <<svs, entries, pending, table, ghost>>

\* on_end_map_entry: the value moves into the map, and frees the one that was
\* there; without a key it is dropped from items and never freed.
OnEndMapEntry(key) ==
    /\ Decoding /\ Top.kind = "value" /\ Top.sv # NoSv
    /\ LET map == frames[Len(frames) - 1].sv
           old == IF key \in DOMAIN svs[map].slots THEN <<svs[map].slots[key]>> ELSE <<>>
       IN svs' = IF key = NoKey THEN svs ELSE Release(Put(svs, map, key, Top.sv), old)
    /\ frames' = [frames EXCEPT ![Len(frames)].sv = NoSv]
    /\ ghost' = [ghost EXCEPT !.lost = @ \/ key = NoKey]
    /\ Event /\ UNCHANGED <<entries, pending, table>>

\* av_push: the index after the last of an array.
NextIndex(slots) == CHOOSE i \in 1..Cardinality(DOMAIN slots) + 1 : i \notin DOMAIN slots

\* get_target for a sub-message: a new element of the array, a new value of the
\* map entry (which forgets the one it had), a field of the message.
SubTarget(f) ==
    CASE Top.kind = "array" ->
            [sv |-> NextSv, entries |-> entries,
             svs |-> Put(Append(svs, NewSv), Top.sv, NextIndex(svs[Top.sv].slots), NextSv)]
      [] Top.kind = "value" ->
            [sv |-> NextSv, entries |-> entries, svs |-> Append(svs, NewSv)]
      [] OTHER -> ItemTarget(f)

\* on_start_sub_message: the transform is queued before those of the messages
\* inside.  The marker of a table message holds the index add_transform returned,
\* which is that of another message when nothing was added; on an empty queue it
\* wraps, and what follows is undefined.
OnStartSub(f) ==
    /\ Decoding /\ f \in SubFields /\ Fields[Top.type][f].type # Scalar
    /\ LET field  == Fields[Top.type][f]
           target == SubTarget(f)
           queued == Queued(target.sv, Kind[field.type], field.own)
           outer  == IF Top.kind = "value"
                     THEN [frames EXCEPT ![Len(frames)].sv = target.sv] ELSE Noted(f)
       IN /\ svs' = IncQueued(target.svs, queued)
          /\ pending' = pending \o queued
          /\ IsTable(field.type) => Len(pending') > 0
          /\ entries' = target.entries \o Marker(field.type, pending')
          /\ frames' = Append(outer, Opened(field.type, target.sv, f, target.entries))
          /\ ghost' = [ghost EXCEPT !.merged = @ \/ target.sv # NextSv,
                                    !.lost = @ \/ (Top.kind = "value" /\ Top.sv # NoSv)]
    /\ Event /\ UNCHANGED table

\* on_end_sub_message.
OnEndSub ==
    /\ Decoding /\ Top.kind \in {"message", "table"} /\ Len(frames) > 1
    /\ frames' = Front(frames)
    /\ IF Top.kind = "table"
       THEN /\ entries' = TableDone.entries /\ table' = TableDone.table
            /\ pending' = TableDone.pending
            /\ ghost' = [ghost EXCEPT !.written =
                            With(@, entries[Innermost].field, Top.own)]
       ELSE UNCHANGED <<entries, table, pending, ghost>>
    /\ Event /\ UNCHANGED svs

------------------------------------------------------------------------------
(* finish: after the decoder stopped, whether it failed or not.                 *)

\* DecoderHandlers::static_clear: whatever is on items and is no hash or array is
\* taken for a value of a map that nothing holds, and freed; so are the entries.
\* The first item is the hash of the root.
Unowned == {i \in 2..Len(frames) : frames[i].kind \in {"table", "value"}}
Cleared(s, es) == Release(Dec(s, [i \in Unowned |-> frames[i].sv]), Values(es))

Finish(result) ==
    /\ phase = "decoding"
    /\ result = "ok" => Len(frames) = 1
    /\ LET root == frames[1].kind = "table"
           done == IF root THEN TableDone ELSE TableLeft
       IN /\ svs' = Cleared(svs, done.entries)
          /\ table' = done.table /\ pending' = done.pending
          /\ ghost' = [ghost EXCEPT
                !.written = IF root THEN With(@, 1, frames[1].own) ELSE @,
                !.cut = \E i \in 2..Len(frames) : frames[i].kind = "table"]
    /\ entries' = <<>> /\ frames' = <<>>
    /\ phase' = "applying" /\ outcome' = result
    /\ at' = Len(pending) /\ mapped' = {}
    /\ UNCHANGED left

\* apply_transforms: from the last queued to the first; a value that others than
\* the message and one transform hold is looked up in already_mapped.
\* Mutant: from the first to the last.
FirstQueued == pending[Len(pending) + 1 - at]

This == pending[at]

\* Mutant: the queue's own references are miscounted.
SharedByMore == svs[This.target].refs > 3

Shared == svs[This.target].refs > 2

\* Mutant: already_mapped is not looked up.
SkippedIfShared == Shared

Skipped == Shared /\ This.target \in mapped

Applying == phase = "applying" /\ at > 0
Undefined == svs[This.target].freed

Skip ==
    /\ Applying /\ ~Undefined /\ Skipped
    /\ at' = at - 1
    /\ UNCHANGED <<svs, frames, entries, pending, table, phase, outcome, mapped, left, ghost>>

Items == Values(SubSeq(table, This.offset + 1, This.offset + This.size))
Matches == (This.by = "table") = (This.offset # -1)
Logged == [ghost EXCEPT !.log = Append(@, [target |-> This.target, index |-> at,
               fields |-> IF This.offset = -1 THEN <<>>
                          ELSE [i \in 1..This.size |-> table[This.offset + i].field]])]

\* DecoderTransform::transform: Perl code that keeps the message, or puts
\* something else in its place.  transform_fieldtable: C code that takes the items.
Apply(keep) ==
    /\ Applying /\ ~Undefined /\ ~Skipped /\ Matches
    /\ mapped' = IF Shared THEN mapped \cup {This.target} ELSE mapped
    /\ at' = at - 1
    /\ IF This.by = "plain"
       THEN /\ svs' = IF keep THEN svs
                      ELSE Release([svs EXCEPT ![This.target].slots = <<>>],
                                   svs[This.target].slots)
            /\ UNCHANGED table
       ELSE /\ keep
            /\ svs' = [svs EXCEPT ![This.target].slots = Items]
            /\ table' = [i \in DOMAIN table |->
                           IF i \in This.offset + 1 .. This.offset + This.size
                           THEN [table[i] EXCEPT !.value = NoSv] ELSE table[i]]
    /\ ghost' = Logged
    /\ UNCHANGED <<frames, entries, pending, phase, outcome, left>>

\* Both destructors run as the call is left: the queue lets go of its targets, and
\* of the items that no transform took.  A result that was made mortal goes with a
\* call that dies.
Leave(result) ==
    /\ svs' = Release(Dec(Dec(svs, [i \in DOMAIN pending |-> pending[i].target]),
                          Values(table)),
                      IF outcome = "ok" /\ result # "ok" THEN <<1>> ELSE <<>>)
    /\ pending' = <<>> /\ table' = <<>> /\ at' = 0 /\ mapped' = {}
    /\ phase' = "idle" /\ outcome' = result
    /\ UNCHANGED <<frames, entries, left>>

\* The transform dies, or the wrong kind of function is called ("Internal error").
Die ==
    /\ Applying /\ ~Undefined /\ ~Skipped
    /\ ghost' = Logged
    /\ Leave(IF Matches THEN "died" ELSE "internal error")

Return == phase = "applying" /\ at = 0 /\ Leave(outcome) /\ UNCHANGED ghost

Init ==
    /\ svs = <<>> /\ frames = <<>> /\ entries = <<>> /\ pending = <<>> /\ table = <<>>
    /\ phase = "idle" /\ outcome = "ok" /\ at = 0 /\ mapped = {} /\ left = 0
    /\ ghost = [merged |-> FALSE, cut |-> FALSE, lost |-> FALSE,
                written |-> <<>>, log |-> <<>>]

Callback ==
    \/ \E f \in AllFields : OnScalar(f) \/ OnStartMany(f) \/ OnStartSub(f)
    \/ OnEndMany \/ OnEndSub
    \/ \E key \in Keys \cup {NoKey} : OnEndMapEntry(key)
Next ==
    \/ \E root \in Roots : Prepare(root)
    \/ Callback
    \/ \E result \in {"ok", "failed"} : Finish(result)
    \/ Skip \/ \E keep \in BOOLEAN : Apply(keep)
    \/ Die \/ Return

Spec == Init /\ [][Next]_vars

------------------------------------------------------------------------------
(* Properties.                                                                  *)

Svs == 1..Len(svs)
\* transform and transform_fieldtable find the kind of function they call, and do not
\* croak with "Internal error", unless decoding failed inside a field table.
TypeOK ==
    /\ \A n \in Svs : svs[n].refs \in Int /\ svs[n].freed \in BOOLEAN
                      /\ \A k \in DOMAIN svs[n].slots : svs[n].slots[k] \in Svs \cup {NoSv}
    /\ \A i \in DOMAIN pending : /\ pending[i].target \in Svs
                                 /\ pending[i].by \in {"plain", "table"}
                                 /\ pending[i].offset \in -1..Len(table)
    /\ \A i \in DOMAIN entries : entries[i].value \in Svs \cup {NoSv}
    /\ phase \in {"idle", "decoding", "applying"}
    /\ outcome \in {"ok", "failed", "died"} \cup IF ghost.cut THEN {"internal error"} ELSE {}
    /\ at \in 0..Len(pending) /\ mapped \subseteq Svs

\* What refers to value n: containers, queue, field tables, an open map entry, the
\* caller (or, when decoding failed, nobody any more: target_ref is not freed).
Holders(n) ==
    Cardinality({k \in Svs : n \in Held(svs[k])})
    + Cardinality({i \in DOMAIN pending : pending[i].target = n})
    + Cardinality({i \in DOMAIN entries : entries[i].value = n})
    + Cardinality({i \in DOMAIN table : table[i].value = n})
    + Cardinality({i \in DOMAIN frames : frames[i].kind = "value" /\ frames[i].sv = n})
    + IF n = 1 /\ ~(phase = "idle" /\ outcome \in {"died", "internal error"}) THEN 1 ELSE 0

\* No value is freed while a container, the queue or a field table refers to it:
\* its count never falls below the references there are, whichever way the call
\* ends (add_transform, static_clear, clear).
CountsCoverHolders == \A n \in Svs : svs[n].refs >= Holders(n)

\* The same unless decoding failed inside a message that is decoded to a field
\* table.
CountsCoverHoldersOutsideTables == ~ghost.cut => CountsCoverHolders

\* A call leaves every value with exactly the references that the result shows:
\* nothing the queue held, no item no transform took, no member of a oneof and no
\* value replaced in a map is left behind, whether the call succeeds, the decoder
\* fails or a transform dies with others still queued (static_clear, clear,
\* on_end_map_entry).  What does leak is said by name: map entries without a key or
\* with two values (lost), a message cut inside a field table (cut), and the root,
\* with what it holds, when decoding failed.
NothingLeaks ==
    phase = "idle" /\ ~ghost.lost /\ ~ghost.cut =>
        \A n \in Svs : (n = 1 => outcome = "ok") => svs[n].refs = Holders(n)

\* The values inside value n, at any depth: containers are older than their items.
Inside(n) ==
    LET tabled(k) == UNION {{table[j].value : j \in pending[i].offset + 1 ..
                                                pending[i].offset + pending[i].size} :
                              i \in {i \in DOMAIN pending : pending[i].target = k}}
        kids == [k \in Svs |-> (Held(svs[k]) \cup tabled(k)) \ {NoSv}]
        closed == {S \in SUBSET (n + 1 .. Len(svs)) : \A k \in S \cup {n} : kids[k] \subseteq S}
    IN {k \in Svs : \A S \in closed : k \in S}

\* Transforms run from the inside out: when a message is transformed, no message
\* inside it still waits for its transform (apply_transforms walks the queue
\* backwards).  Only for inputs in which no message occurs twice and is merged.
ChildrenFirst ==
    [][Len(ghost'.log) > Len(ghost.log) /\ ~ghost.merged =>
        \A j \in 1..at - 1 : pending[j].target \notin Inside(This.target)]_vars

\* "callbacks are only triggered once": a message that came in several pieces is
\* queued several times and transformed once, if the result still holds it when the
\* transforms have run.  One that a oneof, in one occurrence of the message around it,
\* or the transform of that message took out lost a reference, and already_mapped is
\* no longer looked up.
KeptTransformedOnce ==
    ~ghost.cut => \A i, j \in DOMAIN ghost.log :
        LET n == ghost.log[i].target IN
        ghost.log[j].target = n /\ i # j => \A k \in Svs : n \notin Held(svs[k])

\* apply_transforms skips a message only when it was transformed: no queued message
\* is missed.
AllTransformed ==
    phase = "applying" => \A i \in at + 1 .. Len(pending) :
        \E k \in DOMAIN ghost.log : ghost.log[k].target = pending[i].target

\* A transform of a field table gets the fields of its own message, all of them
\* and in the order they were decoded, however the tables of other messages lie
\* around them in fieldtable_entries and in the queue.
TableIsOwnFields ==
    ~ghost.cut => \A k \in DOMAIN ghost.log :
        LET done == ghost.log[k] IN
        done.index \in DOMAIN ghost.written => done.fields = ghost.written[done.index]
=============================================================================
