# Google::ProtocolBuffers::Dynamic in TLA+

`Google::ProtocolBuffers::Dynamic` is a Perl extension (C++) that reads protocol
buffer definitions at run time and maps them to Perl classes, which encode and
decode messages. This directory holds TLA+ models of it, the TLC configurations that
check them on small instances, and proofs that the TLA+ proof system checks.
`PROJECT.json` is the index: components, runs, mutants of the modelled code (each
property is shown to fail for one of them), the lines every definition models,
findings, hazards and theorems.

All paths below are relative to the repository, under `src/`.

## The system

| Part | Source | State | Operations |
|---|---|---|---|
| Tokenizer of the wire format, `gpd::pb::Decoder` | `src/pb/decoder.{h,cpp}` | cursor, end of message, end of packed chunk, current state, stack of open messages | `set_buffer`, `next_token`, `start_message`, `end_message` |
| Field lookup, `DecoderFieldData` | `src/pb/decoder.{h,cpp}` | array of low field numbers, hash of the others | `add_field`, `optimize_lookup`, `find_field` |
| Decoder callbacks, `Mapper::DecoderHandlers` | `src/mapper.cpp` | the Perl hash under construction; stacks of mappers, containers, map keys, seen fields, seen oneofs; pending transforms; error | `prepare`, `on_*`, `finish`, `static_clear` |
| Decoding driver, `Mapper::decode_bbpb`, `run_bbpb_decoder` | `src/mapper.cpp` | current mapper and a stack of mappers; status | one call per message |
| Encoder, `Mapper::encode` and `encode_*` | `src/mapper.cpp` | status; seen fields and oneofs of each message; path of the current field | `encode_bbpb`, `encode_json`, `check` |
| Path and warnings, `MapperContext`, `WarnContext` | `src/mapper_context.{h,cpp}` | levels of the field being encoded, saved warn handler | push and pop, localize |
| Transforms and fieldtables | `src/transform.{h,cpp}` | queue of targets to transform when decoding ends | add, apply, clear |
| Accessors, `MapperField` | `src/mapper.cpp`, `xsp/` | the hash of the object | get, set, has, clear, list and map variants |
| Registry, `Dynamic` | `src/dynamic.{h,cpp}`, `lib/Google/ProtocolBuffers/Dynamic.pm` | mapped messages, enums, services; pending mappers and methods; Perl packages and classes | `load_file`, `map*`, `resolve_references` |
| Names on encoding, `FieldMap` | `src/fieldmap.{h,cpp}` | hash of names, optimized table | `add`, `optimize_lookup`, `find` |
| Descriptors, introspection, services, generators | several | read-only views | - |

Decoding is one thread of control made of two machines that do not know each other.
The tokenizer turns bytes into tokens (FIELD, START_SEQUENCE, END_SEQUENCE,
END_MESSAGE, UNKNOWN_FIELD, ERROR). The driver asks for the next token, dispatches it
to a callback of the handlers, and for a message field tells the tokenizer to enter
the payload it has just skipped. Both keep a stack of the open messages; the
handlers keep five stacks more, each pushed and popped by different callbacks on
different tokens. A mapper, with its handlers, is reused by every later call, also
after calls that failed in the middle.

Encoding goes the other way, by recursion over the hash, into the events of an upb
sink. A mapper has one `MapperContext`, the path of the field being encoded, and one
status. Perl code runs in the middle (tied values, transforms, callbacks for unknown
fields, warn handlers) and may encode with another mapper, with the same one, or die.

Transforms of decoded messages are queued by the callbacks and run by `finish()` when
the input ends; whether a target was queued twice is told from its reference count.

Nothing runs concurrently. What is hard here is the order of tokens (any order the
bytes ask for, repeated and merged messages, incomplete map entries), boundaries
(lengths, packed chunks, ends of nested messages), what one call leaves behind
for the next, calls that die in the middle, re-entry through Perl code, and the
ownership of Perl values. `hazards` in `PROJECT.json` lists each at its line.

### What makes each part correct

* Tokenizer: messages and packed chunks nest, whatever the bytes; the tokens obey a
  grammar the driver relies on; complete input is delivered as written, cut input is an
  error. As long as no length carries the cursor around the address space, it reads
  only inside the innermost open message, and it stops.
* Field lookup: exactly the fields of the message are found, whichever table they are
  in; the array is not mostly empty.
* Handlers and driver: the stacks agree with the open messages at every token; no
  handler uses a container that has been deleted; the hash has the shape of the
  definitions; oneofs are exclusive, required fields are present and reported missing
  only if they are; defaults are set; nothing of one map entry, message or call
  changes another; every value ends in the message or is released.
* Encoder: each field is written once, in the form its type and options ask for;
  oneofs and required fields are checked; the error that is reported is one of this
  value; the path is where the encoder is, also after an error or while other mappers
  encode.
* Transforms: each registered target is transformed once, inner ones first, with the
  fields of its own table; every value has as many references as holders when the call
  ends.
* Accessors: oneofs stay exclusive, a call touches one field, containers live as long as
  their holders.
* Registry: no mapped type is lost to a call that died, and no method of a finished client
  class; what can encode holds only what can encode; a class keeps its type; a message
  knows which of its fields are maps; mapping ends although types are circular.

## Modules

| Module | Models | Remarks |
|---|---|---|
| `WireSchema` | `Descriptor` and its fields | the constants shared by the decoding modules |
| `TokenStream` | what the driver may rely on | abstract specification of the tokenizer: the grammar of tokens, without bytes |
| `PbDecoder` | `gpd::pb::Decoder` | bytes, cursors, states; refines `TokenStream` |
| `PbDecoderProofs` | | type correctness, framing and the refinement of `TokenStream`, for every schema and buffer |
| `FieldLookup` | `DecoderFieldData`, `find_packed_fields` | one step per turn of the scan loop |
| `FieldLookupProofs` | | the lookup is exact and the array well filled |
| `DecoderHandlers` | the callbacks | operators from the handlers' object to the object they leave |
| `RunDecoder` | `decode_bbpb`, `run_bbpb_decoder` | composes `TokenStream` and `DecoderHandlers` |
| `TransformQueue` | `DecoderTransformQueue`, `finish`, `static_clear` and what the callbacks do to the queue | reference counts of every value of one call |
| `Encoder` | `encode`, `encode_*`, `MapperContext`, `WarnContext`, `last_error_message` | a stack of encodes that run inside each other |
| `Registry` | `Dynamic` and `resolve_references`, with `Dynamic.pm` | a call is a list of things to do, which can stop anywhere |
| `Accessors` | `MapperField` and `xsp/mapper.xsp` | one object and the program that holds its lists |
| `EncoderMeaning` | what a value should be written as; `check` | recursive over the value, for TLC's runs only |
| `RunDecoderProofs`, `RunDecoderContentProofs`, `TransformQueueProofs`, `EncoderProofs`, `RegistryProofs`, `AccessorsProofs` | | see Proofs |
| `MCPbDecoder`, `MCFieldLookup`, `MCRunDecoder`, `MCTransformQueue`, `MCEncoder`, `MCRegistry`, `MCAccessors` | | instances for TLC |

### PbDecoder

A pointer into the buffer is a number of bytes. One `next_token()` is one step; each
disjunct of `NextToken` is one way through the `switch` of `next_token_internal`
(decoder.cpp:120-236), up to the return. `StartMessage` and `EndMessage` are the calls
of the driver, which come right after the FIELD or END_MESSAGE that asks for them
(mapper.cpp:1552-1570, 1611). `Context` is a record of the stack, with the same fields.
Varints are decoded by what they are worth, byte by byte, so lengths and tags are
those of the bytes. `delivered` is a history of FIELD tokens, for the properties only.

Numbers and addresses are of one word, `Word` values. A length is added to the cursor before
the sum is compared with `message_end` (decoder.cpp:250-252), and `Advance` wraps around as
the pointer does: a length close to 2^64 brings the cursor back to its own tag, to an earlier
message, or to memory before the buffer (`Before`; positions below zero), and the comparison
passes. The history `wrapped` remembers that this has happened. What `Framing` says of ends holds
all the same; that the cursor is inside its message, and that decoding stops, is only claimed
until then, because afterwards it is not so.

Left out: decoded values, error texts, and the two implementations of each
decoding function (with and without bounds checks; they return the same).

### FieldLookup

The constructor of a mapper adds all the fields, then `optimize_lookup` sorts their
numbers, scans them for the last one that keeps the array filled (one `Scan` step each)
and moves the fields up to it. An entry is the number of its field. The lookup of
number 0 is left out: the branch of the array is taken for it (`0 <= top_packed_field`)
even in a message whose array is empty, and reads an element that is not there;
elsewhere it finds the unused entry, and `PbDecoder` takes 0 for an unknown field.

### TokenStream and the composition

`TokenStream` has a stack of levels: the message type, the field last announced, and the
sequence that is open. `PbDecoder` implements it under the mapping `levelsBar`
(`RefinesTokenStream`): for an outer message the field to return to is in the context
of the message inside. `RunDecoder` uses the same actions as its source of tokens,
so what holds of it holds for every sequence of tokens that bytes can produce.

### DecoderHandlers and RunDecoder

The Perl hash is a function from paths to nodes, and a pointer kept in `items` is a
path; deleting a hash element removes the paths under it, so a dangling pointer is a
path that is not in the tree. Values are "wire" or "default". A node of a message
remembers how many occurrences were merged into it (`chunks`). Bits of `seen_fields` the
code may read or write without having initialised them are chosen freely (`Junk`): the
handlers of map entries use the entry of the enclosing message, whose vector may be
too short.

An action of `RunDecoder` takes one token and calls every handler the driver calls for
it. `Prepare` begins a call on the same mapper; the end of a call, by success, failed
check or error, includes `finish()`, so what stays in the stacks is what the code
leaves there.

Left out: blessing, the string callbacks of the upb parsers, and the JSON decoder.
Transforms and field tables are in `TransformQueue`.

Entry types are those of map fields: protobuf refuses to define a message that uses the
entry type of a map for anything else, and a field of an entry type is a map whatever the
options (mapper.cpp:842). Decoding an entry type as a message of its own, which
`implicit_maps` can map, is outside the model (`MapsAssumption`).

Where an unknown enumeration number is a map value, the callback writes through a
container that is not there (mapper.cpp:543); the model ends such a call as "crashed",
and the properties claim nothing of it.

### TransformQueue

`RunDecoder` knows the shape of the tree and nothing of reference counts;
`TransformQueue` is the same callbacks seen from the counts. A value is known by
the order in which it was made and has a count, slots and a flag for having been freed.
`frames` stands for `items` with the mappers and `seen_oneof`: a frame has the member its oneof
was last set to in this occurrence of the message (`seen`), and that member only is deleted when
another comes, so a message that came in several pieces may keep two. `entries` stands for `fieldtable_entries`,
where the marker of a table is an entry without a value, `pending` and `table` for
the two vectors of the queue. The input is chosen step by step (the next scalar, the
beginning or the end of a message, list or map entry), bounded by `MaxEvents`.
`Finish` is the end of decoding, by success or error; `Apply` calls one transform, which
may keep what it was given in place, or empty it; `Die` is a transform that croaks; `Return`
hands out the result, or clears. `ghost` remembers what was written and
transformed, for the properties; so do `own` and `base` of a frame, the fields a table
message got so far and where its marker is. A reference that is dropped (`Dec`) may be the
last one: `Gone` are the values that nothing holds any more but others that go, found from
the oldest on because a container is older than what it holds, and `Reap` takes them away.

### Encoder

`calls` is the stack of encodes that run: each has a stack of frames, one for every
message, list or map the recursion is in, the next item, the fields and oneofs seen, and
the events written. `stage` says what the code does at this point (enter a message, look at a
value, put it, skip an unknown field). Perl code is the `stage` "perl": another call of `encode`
may start there, or the program dies (`Die`), and what the destructors and `SAVE*` restore is
restored. Values carry what
the code distinguishes: default, undef, wrong, a hole of an array, magic. `contexts`
has the levels of each mapper's path, with the ones left for reuse above `next`; `ids`
are the numbers the callbacks get. `EncoderMeaning` has the reference, `Meant`: what the value,
taken as a whole, should be written as and what is wrong with it; and `check()`, `Accepts`.
Both go down the value, which `Encoder` itself never does: it has the value of each frame at hand.

When the same mapper encodes again inside its own encode, the outer call is marked
`reentered`: the mapper's sink, status and path are the inner call's from then on, and
nothing is claimed of the outer call.

### Registry

A `Dynamic` is a record: files, what is mapped, what waits, what can encode, which messages
are map entries. A call of Perl's `map` or `resolve_references` becomes `todo`, the list of
things the C++ loops and recursions still do; each step takes the first and may put others
in its place (`MapPackage`, `MapRecursively`, `MapAlongFields`). `Refused` is a croak of
`check_package` or of a type mapped twice; it empties `todo` and keeps what was
mapped. Perl packages and classes are global, shared by the registries.

A service is looked at before anything else: with `client_services` left at `disable` it is
ignored (`MapIgnored`), also by `map_wkts`. Otherwise it is inserted, and `bind_service` makes its
class: with `noop` without methods, with `grpc_xs` with one pending method after the other,
and it may die before the first (no `Grpc::Client`) or between two (no function for this kind of
method), which leaves the service mapped and the methods before that one pending (`BindFails`).
`resolve_references` resolves the methods after the messages; one whose message is not mapped, or
is mapped to a package without the functions of a message, ends it there
(`ResolveMethodsFails`), with what came before resolved and all still pending. `stubs` are the services
whose class was finished, `served` the methods that can be called.

Which messages are entries is known from their own mapping on (`entries`), and the mapper of a
message looks at the types of its repeated fields once, when it is made (`maps`).
Nothing says where an entry written by hand is declared or who uses it, and the model assumes
nothing of it: the order of mapping decides.

### Accessors

One object. A field's slot is absent, a value, or a reference to one of a few arrays and
hashes with counts. The program may keep what a getter hands out, build lists of its own, with
holes and wrong values, and pass either to any setter; a setter that cannot convert
a value dies where the code does (`Died`), after the oneof was cleared. Both accessor styles
are covered; in the style with one accessor per field the item methods of extensions reach scalars.
An element before the first of an array ends the process (`SetItemBefore`), a
list set to itself is freed (`SetToItself`): both states are kept, and named in the
properties that exclude them.

## Runs

| Run | Shows |
|---|---|
| `decoder_written` | every message of up to 3 encoded fields of every kind, whole, or of up to 2 cut at every byte: the fields are delivered as written, truncation is always an error, and so is an empty packed chunk |
| `decoder_raw` | every string of up to 5 of 7 bytes, chosen to be tags, lengths, values, the start of long varints and lengths that wrap the cursor at once: the inductive invariant, which includes `Framing`, the refinement of `TokenStream`, and termination unless a length wraps |
| `lookup_tables` | 640 messages whose numbers lie around 70 and around a load of 75 per cent |
| `decode` | three roots, with two calls each of up to 10 tokens: merged, repeated and oneof messages with required fields; nested messages with defaults; maps of messages and of enumerations |
| `transforms` | calls of up to 6 callbacks over trees, lists, oneofs, maps and field tables, and of up to 12 with a message that comes up to four times, its oneof set to another member each time, cut by errors or by a transform that dies |
| `encode` | two encodes of messages of all four styles with everything that can be wrong in them, one after the other or one inside the other |
| `registry` | two registries, two calls of any kind over packages with circular, nested, map and well-known types and a service, with the default options or with `implicit_maps` and clients; they die between types, while a class is made, and between methods |
| `accessors` | every sequence of setters and clearers on a message with a oneof, a list, a map and an extension, with two arrays and one hash |
| `decode_oneof`, `transforms_freed`, `registry_wkt`, `encode_error` | disagreements, below |

Bounds. `MaxChunks = 3` fields let a sequence be started, continued and interrupted;
`MaxCut = 2` covers a cut inside the first, inside the last and between fields.
`MaxRaw = 5` bytes hold a message inside a message inside a message, or a packed chunk with
a varint across its end, in a repeated message; the schema of that run is recursive. In the run on
arbitrary bytes `Word = 256`: the two bytes 251 1 are then a length five below a word, as ten
bytes are in the code, and short strings wrap to their own tag, to fields already read, and before
the buffer, where `Before` has a number and an empty nested message. A word
of 8 bits only makes the wrap nearer; nothing else depends on its size, and the proofs are for every
size. `Word = 4096` in `decoder_written`, where no length is near it. The history `delivered` is kept
to `MaxDelivered` fields, since a decoder that has wrapped may deliver the same field for ever.
`RunDecoder!MaxCalls = 2`: what a call leaves behind meets the next one; `prepare` depends
on nothing older. `MaxTokens = 10` per call is enough to merge two occurrences of a
message with two fields each, or to complete two entries of a map and begin another.
Two keys of a map tell apart the same entry again and another one.
`MaxEvents = 6` opens a table inside messages inside a table and writes to the inner one, or
sends a message twice and replaces it; the 12 of the calls that decode a `Whole`, with a schema of three
messages, send it twice more, so that both members of its oneof stay. `Encoder!MaxDepth = 2` is an encode inside an
encode; a third would meet the second as the second meets the first. `Registry!MaxCalls = 2`
is a call that died and one that meets what it left, loading aside, which is not counted; `noop`
clients, whose services are mapped like messages, are left to the proofs.
`Accessors` has no bound on calls: `MaxSize = 2` and `MaxHeld = 1` bound an array and what the
program holds, two arrays allow sharing and replacing. Arrays are symmetric in that run,
which has no liveness property.

Deadlock is checked for `encode` only: elsewhere a call ends, buffers end and the number
of calls is bounded.

Fairness: `Terminates` assumes weak fairness of `Next`, which is the loop of
`run_bbpb_decoder` that calls `next_token()` again until it returns (mapper.cpp:1503). It
claims nothing once a length has wrapped: an unknown field whose length leads back to its own
tag is met for ever.
`CallsEnd` assumes weak fairness of `Steps`, the loops and recursions inside one call
of the registry, which nothing outside can stop (dynamic.cpp:378-592).

### Disagreements between the code and what it says of itself

Each is a run of one property that fails; `findings` in `PROJECT.json` quotes the line.

| Run | Disagreement |
|---|---|
| `decode_oneof` | two members of a oneof survive when occurrences of the message are merged |
| `transforms_freed` | decoding that fails inside a message decoded to a field table frees a value the table and the queue still refer to |
| `registry_wkt` | a well-known type with a nested type gets no class |
| `encode_error` | an encode that fails after a decode failed dies with the message of the decode |

The passing runs state the same guarantees under the condition that makes them true, and
the name or the comment of a property says which: messages in one piece
(`OneofExclusiveInOnePiece`, `MissingIsMissingInOnePiece`: a required field that an
earlier occurrence has set is reported missing), fields that the entries of a map do not
borrow (`RequiredPresent`, `DefaultsPresent`: map entries use the first two seen fields of
the message that holds the map), sequences not mixed (`decoder_written`: a repeated field with a wrong
wire type is skipped as the first occurrence but taken as an element after another one),
`CountsCoverHoldersOutsideTables`, map values that are not replaced or left without a key
(`NothingLeaks`), entries nested in their message and used by it alone (`OwnMapFieldsAgree`: with
`implicit_maps`, an entry that is declared after its message is marked as an entry and the field stays
a list, although nothing in `is_map_entry` forbids it), no length
that wraps the cursor (`Framing`, `Terminates`), warnings outside nested encodes (`WarningNamesFieldUnlessNested`: a
nested encode replaces the handler that the outer one has chained), and messages not
mapped by prefix (`AskedIsMapped`: the types nested in them are left out).

## Proofs

`PbDecoderProofs` proves `Spec => []IInv` for every set of messages, every schema,
every set of buffers and every size of words, from `RootAssumption`, `SchemaAssumption`,
`InputsAssumption` and `WordAssumption` (the buffer lies in the address space).
`Framing` alone is not inductive: `end_message` restores the cursor, the field and
the state from the stack, so framing after it needs to know what the stack holds. `IInv`
adds `EntriesKnown`: the field of every open message is a field of the message
around it, that message is to be resumed at a tag, and packed elements are never messages (so
no message is entered in the middle of a chunk). The lemmas `VarintEnds`, `PayloadEnds`, `ElementEnds` bound
the helpers; `LocalSuffices` reduces a step of `next_token` to what it changes; then
there is one step per action. `TypeCorrect` and `FramingHolds` follow. Lengths that wrap are
part of both: an accepted payload ends at most at `message_end` whichever way the pointer
went, which is all that the nesting of messages and chunks and the refinement need, while the
lower bounds of the cursor are claimed, and proved, under `~wrapped`.

`FieldLookupProofs` proves that the lookup is exact (`LookupIsExact`) and the array well
filled (`ArrayIsWellFilled`) for every finite set of field numbers, from
`DefinitionsAssumption`. The invariant says where the fields are in each phase
(`Partition`) and that the last number included fits (`LastFits`).

The second part of `PbDecoderProofs` proves `Spec => RefinesTokenStream`: for every schema and
every set of buffers, the tokens are a stream of `TokenStream`. `LevelsBar` says what the mapping
is under `IInv`; `TopChanges` that `next_token()` moves the innermost level only; then
one step per action shows which token of the stream it is. Entering a message pushes a level
and freezes the one below, which is the point of `Context`; leaving restores it, and
needs `EntriesKnown`: the parent is resumed at a tag or inside its sequence, never in a
packed chunk.

`RegistryProofs` proves, for any types, packages and registries (`RegistryAssumption`),
`NothingLost`, `ReadyIsClosed`, `ServicesResolve`, `ClassPerType` and the action property
`ClassKeepsType`. The conjunction of the first four with `TypeOK` is inductive (`IInv`).
`ServicesResolve` speaks of classes that were made to the end (`stubs`), as a binding that dies leaves
a service with some of its methods or none, and needs no assumption on what can die where: a
method is served only when its messages are mapped and pending is clear, and the list of pending methods
is only cleared when all of it was served. `TypeOK` has to
know that the steps still to do concern types of the right kind, because the lists grow
while they are worked through; one lemma per step of a call. Two results lie on top of it.
`AskedIsMapped` needs to know what the list of steps will still do: `InsideFirst` says that
before a type is mapped it is the turn of all that is inside it, and that what was asked
for is mapped, covered by a step still to come, or the call will die (`GhostOK` ties this
to the call that is running). `OwnMapFieldsAgree` needs `EntryFirst`: before a message is mapped
its own entry types are (that is when they become known), and following fields such an entry is met
only in the message that has the map, unless a call began at an entry. It is the property that is
restricted, to entries nested in their message and used there only (`OwnEntries`, as the protobuf
compiler writes them), and no assumption on the types: other entries may be anywhere.
`NamesAssumption` says that packages contain what their names say, `ServicesAssumption` and
`MembersAssumption` that services are at the top of a package and are no fields, and that messages have
fields and services methods.

`AccessorsProofs` proves, for any fields, containers and bounds, that oneofs stay exclusive
and that a call concerns one field, with `IInv`: the hash is a function on the fields, and
`OneofExclusive`. Every action is reduced to what it does to the hash (`StepOfHash`):
nothing, setting one field outside any oneof, or `SetTo`, which clears the others first.
`CountsAreHolders` and the types need more (`CInv`): a slot holds what its field allows, and
the holders of a container, slots and the program together, are as many as its count says.
Holders are counted by cardinality, so message types have finitely many fields
(`FieldsAssumption`).

`RunDecoderProofs` proves `StacksAligned`, `HeldContainersLive` and `TreeFitsSchema` for every schema, every sequence of tokens of the grammar and every
sequence of calls. None of the three is inductive, and neither is their conjunction: a handler
finds its container by position, so the invariant (`IInv`) has to say where every level
stands. `HeightOf(L, n)` is the number of items the first `n` levels have pushed: one for
a message, two more for an open map (the map and the value of its entry), one more for an open
list, none for an entry. `ItemsOK` says that the hash of each level is at its height, with the
type of the level, that the container of an open field is the child of that hash, and that
the items form a chain of nodes of the tree (`Chain`), of which only the last can be
missing; a value waiting for its key is the last item and nowhere else. `SeenOK`
counts the levels that push seen fields and oneofs, above what earlier calls have left.
`Shaped` is the shape of the tree. The first part of the module shows that putting a node in its
place, dropping a member and moving a map value keep `Shaped`, the second that the same
changes keep `ItemsOK`, as nothing that is held is below them; then one lemma per
callback and per action. The assumptions are those of the modules: fields are numbered
densely (`DenseAssumption`), oneofs have optional members (`TraitsAssumption`), map fields and entry
types belong together (`MapsAssumption`, `EntriesAssumption`), an entry type has the options
of its message (`OptionsAssumption`), the default key is a key (`KeysAssumption`), and the bounds are numbers
(`BoundsAssumption`).

`RunDecoderContentProofs` proves, on top of `IInv`, what decoded messages contain and keep:
`RequiredPresent`, `DefaultsPresent`, `OneofExclusiveInOnePiece` and the action property
`MissingIsMissingInOnePiece`. They speak of the hash, while the handlers go by what they
remember: an entry of `seen_fields` and one of `seen_oneof` for each open message, some
of which push none, on stacks on which earlier calls may have left entries. `View` puts together, for each
open message, its hash, what was seen of it and the last member of each of its oneofs. `CInv` adds
to `IInv` that the two agree (`Told`): a field that was seen is in the hash, a field that is
in the hash of a message in one piece was seen, a member that is there is the one its oneof
names; and that every other hash is finished: it has what is required of it and its
defaults (`Full`), and one that came in one piece has exclusive oneofs. A message belongs
to the others from END_MESSAGE on (`NotEnded`), although its hash is still on the stack. A
merged message is the case that needs care: it was `Full`, it is open again with nothing seen, and
what is told of what is seen is only that it is there, never that the rest is not. That open
messages have different hashes, each inside the one before (`Nested`), is what keeps a callback
for one from changing what is told of the others: `Stored` says what a callback changes of
the hashes, `Touched` what it changes of the view.

`DecodedStays`, in the same module, follows from the shape of the stacks: the items that are
open (`Base`) name the node `Open` that the next value goes into (`OpenIsBase`), whatever a callback drops or
overwrites lies below that node, and there it is a map entry, a member of a oneof or a scalar
field that comes again (`StoreStays`, `EntryStays`). The two places a callback stores at
otherwise are empty: a default is stored where nothing is, a container is made where there is none.

`TransformQueueProofs` proves, for any types, fields, transforms, keys and number of callbacks
(`KindAssumption`, `FieldsAssumption`), that the counts cover the holders
(`CountsCoverHoldersOutsideTables`). Counts are about all places at once, and one
callback moves a value, makes another and frees what a oneof gave up, so the invariant (`Inv`)
first says where values are: each in at most one slot (`Tree`), or in at most one of the
places outside (`Apart`: the root, an open map entry, `fieldtable_entries`, `fieldtable`), and never
both. Then a count has one number to cover, the owner, if there is one, and the
transforms that wait for the value; `Slack` is what it has beyond that, and `Counted` says that it is
not negative until decoding is cut inside a table. Each thing the code does to values is one
lemma about `Moves`, which says how `Tree` and `Slack` go on: making a value, filling or
emptying a slot, queueing, and letting go, where `Gone` is shown to take only values whose count is used
up. A callback is then a list of moves (`Targets`, `Decodes`), and so is
a transform (`Applies`).

The second half of `TransformQueueProofs` proves, on top of `Inv`, which transforms run, with what and when:
`AllTransformed`, `KeptTransformedOnce`, `TableIsOwnFields` and the action property `ChildrenFirst`.
Each has an invariant of its own.
`OrderInv`: what the log has is what lies behind in the queue, and a value that ran, is
still to come and is still in the result is in `already_mapped`. It needs the counts: a
value that waits twice and is owned has three references, so the code does look it up;
one that lost its owner may be transformed again, which is why the property speaks of those that are kept.
`TablesInv`: the entries of the open tables are blocks (`Blocks`), each above its marker and
below the marker of the next, which together are all of `fieldtable_entries`; so the entries above
the innermost marker are those of the table that is closed, in the order they
came. The fields of a closed table are where its element of the queue says
(`Written`), which later tables leave alone as `fieldtable` only grows.
`AgeInv`: containers, queued messages and tables, open or closed, are older than what they
hold (`Older`, `ItemsOlder`, `Newer`), and while no message was merged the queue is in the order of age
(`Sorted`); what is inside a message is newer, so it was queued later and runs earlier.

`EncoderProofs` proves, for any messages, values, keys and number of encodes one within another
(`FieldsAssumption`: no message has a field twice, and the mark of a level without a key is no
name; `ValuesAssumption`: no hash has a key twice, no array an index; `BoundsAssumption`),
`ContextIsPath`, `IdsNameOneField` and `WarningNamesFieldUnlessNested`. The path of a mapper is kept
apart from the recursion it describes: a level is pushed when a message, list or map begins,
written when the next key is tried and popped when it ends, and the level is reused with what it
had. `IInv` says of every encode of which no other has taken the mapper that its
levels are those of its frames (`Follows`), that the numbers of those levels are below the next one, and, for
what callbacks were told (`ToldOK`): a path that was told has, at each level it shares with the
encode, the number the level has now exactly if the paths agree so far, and where they
agree on all but the last key, that key is not one the frame still comes to (`Ahead`). The last part
is what makes a new number name a new field, and rests on the values: the
entries of a frame have distinct keys (`CallOK`). Any two told paths (`Pair`) then agree
in numbers as far as in keys. A step of a call stays at its key, goes to another,
starts a message or ends one (`Stays`, `GoesTo`, `Starts`, `Pops`), each of which is one lemma about a call
and its context (`Good`); `ContextKept` and `ContextChanged` show that the other running encodes do
not notice. `Nesting` orders the encodes: those below the innermost wait in Perl code, two of
the same mapper mark the outer one `reentered`, and only the outermost, until another runs
in it, has the program's handler in `warnContext`.

Only model-checked: delivery as written and truncation (they depend on the encoding of whole
inputs), termination and `CallsEnd` (liveness is out of the prover's reach),
three properties of `encode` (`OutputIsInput`, `ErrorNamesFault` and `CheckedIsEncodable` compare
the output and the error with `Meant` and `Accepts`, which recur over nested values, so that they
need induction over data), and two invariants of `TransformQueue`. `TypeOK` (no "Internal error") and
`NothingLeaks` hold only for programs whose options agree: a type with `fieldtable` has a
transform, and the transform of a field takes a table if and only if the type of the field
is decoded to one. `set_decoder_options` checks neither (mapper.cpp:1262, 1304), so both
are stated of the types of the run, whose options agree, and not of any constants.

## Not modelled

* Numeric conversions (big integers, zigzag, map keys): 64-bit arithmetic of one call.
* `decode_upb`, `decode_json`, `encode_json`: the parsers and printers are the upb library;
  they drive the callbacks that are modelled.
* Reference counts of mappers and the registry: a mapper refers to its registry and the
  registry to its mappers (mapper.cpp:753), so neither is destroyed by any program.
* `gpb_mapping` and `upb/bridge.cpp` (copies of descriptors), the loaders (file input),
  introspection and the classes of services (read-only views), the protoc plug-in and
  `MakeModule` (generators), `ppport.h` and the containers (vendored or plumbing).

## What is left

* `RunDecoder` and `TransformQueue` on one tree, so that transforms meet defaults and
  required fields.
* The hash of names of `FieldMap`, and the accessors a class is given by `bind_message`.
