------------------------------ MODULE Accessors ------------------------------
(* MapperField (src/src/mapper.cpp): the setters and clearers that a mapped class  *)
(* binds to the fields of a message, on one object, with the Perl program that     *)
(* calls them.  A list or a map is a container with a reference count; the         *)
(* program may hold it too, and may give the object a container of its own.        *)
(*                                                                               *)
(* A getter changes nothing, but hands out the very value or reference the hash    *)
(* holds, without counting it, and the program may pass that to a setter.          *)
(* Left out: what numbers and strings convert to, and the counts of messages.      *)
EXTENDS Integers, Sequences, FiniteSets

CONSTANTS
    Fields,       \* of the message
    Kind,         \* field -> "scalar", "list" or "map"
    Type,         \* field -> "int", "enum" (0 is not a value of it) or "message"
    Oneof,        \* field -> its oneof or NoOneof
    Extensions,   \* the fields reached by name through the extension methods too
    Styles,       \* accessor_style: "get_and_set", "single_accessor"
    Keys,         \* of maps
    Arrays,       \* the arrays there can be at a time
    Hashes,       \* the hashes there can be at a time
    MaxSize,      \* bound: longest array
    MaxHeld,      \* bound: containers the program holds at a time
    NoOneof, NoContainer

ASSUME AccessorsAssumption ==
    /\ Kind \in [Fields -> {"scalar", "list", "map"}]
    /\ Type \in [Fields -> {"int", "enum", "message"}]
    /\ \A f \in Fields : Kind[f] # "scalar" \/ f \in Extensions => Oneof[f] = NoOneof
    /\ Extensions \subseteq Fields
    /\ Arrays \cap Hashes = {}
    /\ NoContainer \notin Arrays \cup Hashes

\* A message has finitely many fields.
ASSUME FieldsAssumption == IsFiniteSet(Fields)

Containers == Arrays \cup Hashes

VARIABLES
    style,    \* of the mapping
    hash,     \* field -> what the object has for it
    content,  \* container -> its elements or entries
    count,    \* container -> its reference count
    program,  \* the containers the program holds
    foreign,  \* the containers the program has built
    died,     \* copy_value has died in some setter
    state     \* "ok", "crashed", or "dangling": a field refers to a freed container

vars == <<style, hash, content, count, program, foreign, died, state>>

\* A value in a hash: a converted value, "undef", nothing, or a reference.  "zero" is
\* what undef and junk convert to.
Slot(is, ref) == [is |-> is, ref |-> ref]
Absent == Slot("absent", NoContainer)
Plain(is) == Slot(is, NoContainer)
RefTo(c) == Slot("ref", c)

\* What a program may pass: a value of the type, one that is not, undef, which only a
\* message tells from a bad value.
Given(f) == IF Type[f] = "message" THEN {"good", "bad", "undef"} ELSE {"good", "bad"}

Accepts(type, v) ==
    CASE type = "int" -> TRUE
      [] type = "enum" -> v = "good"
      [] type = "message" -> v # "bad"

Converted(type, v) == IF type = "int" /\ v # "good" THEN "zero" ELSE v

\* Mutant: an enumeration or a message is copied unchecked.
CopiedUnchecked(type, old, v) == Converted(type, v)

\* copy_value croaks before it touches the target, which by then exists.
Copied(type, old, v) ==
    CASE Accepts(type, v) -> Converted(type, v)
      [] ~Accepts(type, v) /\ old \in {"absent", "hole"} -> "undef"
      [] OTHER -> old

Died(type, v) == died' = (died \/ ~Accepts(type, v))

Empty(c) == IF c \in Arrays THEN <<>> ELSE [k \in Keys |-> "absent"]
Unused(c) == count[c] = 0

\* SvREFCNT_dec; a container that nobody holds is freed.
Dec(c) == [count EXCEPT ![c] = @ - 1]
Release(c) ==
    /\ count' = Dec(c)
    /\ content' = IF count[c] = 1 THEN [content EXCEPT ![c] = Empty(c)] ELSE content
    /\ foreign' = IF count[c] = 1 THEN foreign \ {c} ELSE foreign
ReleaseSlot(slot) ==
    IF slot.is = "ref" THEN Release(slot.ref) ELSE UNCHANGED <<count, content, foreign>>

----------------------------------------------------------------------------
\* The methods of a field, and the extension methods, which look for a scalar or a
\* repeated extension; in the style of one accessor, those for items and lists look for
\* a scalar one (find_scalar_extension).
ItemMethods(f) ==
    \/ Kind[f] = "list"
    \/ Kind[f] = "scalar" /\ f \in Extensions /\ style = "single_accessor"

ClearField(f) ==
    /\ hash' = [hash EXCEPT ![f] = Absent]
    /\ ReleaseSlot(hash[f])
    /\ UNCHANGED <<style, program, died, state>>

\* Mutant: clear_oneof is called for fields without a oneof, too.
SiblingsUnchecked(f) == {g \in Fields : Oneof[g] = Oneof[f]} \ {f}

Siblings(f) == IF Oneof[f] = NoOneof THEN {} ELSE {g \in Fields : Oneof[g] = Oneof[f]} \ {f}

\* Mutant: clear_oneof comes after the copy, if that does not die.
SetToClearsLast(f, v) ==
    /\ hash' = [g \in Fields |->
                  IF g \in Siblings(f) /\ Accepts(Type[f], v) THEN Absent
                  ELSE IF g = f /\ (hash[f].is # "ref" \/ Accepts(Type[f], v))
                  THEN Plain(Copied(Type[f], hash[f].is, v)) ELSE hash[g]]
    /\ Died(Type[f], v)
    /\ IF Accepts(Type[f], v) THEN ReleaseSlot(hash[f]) ELSE UNCHANGED <<count, content, foreign>>
    /\ UNCHANGED <<style, program, state>>

\* v is what copy_value finds when it reads its argument.
SetTo(f, v) ==
    /\ hash' = [g \in Fields |->
                  IF g \in Siblings(f) THEN Absent
                  ELSE IF g = f /\ (hash[f].is # "ref" \/ Accepts(Type[f], v))
                  THEN Plain(Copied(Type[f], hash[f].is, v)) ELSE hash[g]]
    /\ Died(Type[f], v)
    /\ IF Accepts(Type[f], v) THEN ReleaseSlot(hash[f]) ELSE UNCHANGED <<count, content, foreign>>
    /\ UNCHANGED <<style, program, state>>

SetScalar(f, v) ==
    /\ Kind[f] = "scalar"
    /\ SetTo(f, v)

\* $o->set_f($o->get_g): the value lives in g.  If clear_oneof has freed it, the new
\* value of f takes its place, and is undef.
Seen(f, g) ==
    CASE g \in Siblings(f) \/ hash[g].is = "undef" -> "undef"
      [] g \notin Siblings(f) /\ hash[g].is = "zero" -> "bad"
      [] g \notin Siblings(f) /\ hash[g].is = "good" ->
           IF (Type[f] = "message") = (Type[g] = "message") THEN "good" ELSE "bad"

SetToValueOf(f, g) ==
    /\ Kind[f] = "scalar" /\ Kind[g] = "scalar"
    /\ hash[g].is \in {"good", "zero", "undef"}
    /\ SetTo(f, Seen(f, g))

----------------------------------------------------------------------------
\* get_write_array, get_write_hash: the container c of f, a new one if f is unset.
Writes(f, c) ==
    \/ hash[f] = RefTo(c)
    \/ /\ hash[f].is \in {"absent", "undef"}
       /\ Unused(c)
       /\ c \in IF Kind[f] = "map" THEN Hashes ELSE Arrays

WriteTo(f, c, new) ==
    /\ hash' = [hash EXCEPT ![f] = RefTo(c)]
    /\ count' = IF hash[f] = RefTo(c) THEN count ELSE [count EXCEPT ![c] = 1]
    /\ content' = [content EXCEPT ![c] = new]
    /\ UNCHANGED <<style, program, foreign, state>>

\* av_fetch for writing: the elements before a new one are holes.
Element(s, i) == IF i <= Len(s) THEN s[i] ELSE "hole"
PutElement(s, i, v) ==
    [j \in 1..(IF i > Len(s) THEN i ELSE Len(s)) |-> IF j = i THEN v ELSE Element(s, j)]

\* A negative index counts from the end; before the first there is no element, and
\* set_item writes through NULL: the process ends.
Position(s, index) == IF index >= 0 THEN index + 1 ELSE Len(s) + index + 1

SetItem(f, index, v) ==
    /\ ItemMethods(f)
    /\ \E c \in Arrays :
          /\ Writes(f, c)
          /\ LET at == Position(content[c], index)
             IN  /\ at \in 1..MaxSize
                 /\ WriteTo(f, c, PutElement(content[c], at,
                                     Copied(Type[f], Element(content[c], at), v)))
    /\ Died(Type[f], v)

SetItemBefore(f, index) ==
    /\ ItemMethods(f)
    /\ \E c \in Arrays : Writes(f, c) /\ Position(content[c], index) < 1
    /\ state' = "crashed"
    /\ hash' = [g \in Fields |-> Absent]
    /\ content' = [c \in Containers |-> Empty(c)]
    /\ count' = [c \in Containers |-> 0]
    /\ program' = {}
    /\ foreign' = {}
    /\ died' = FALSE
    /\ UNCHANGED style

AddItem(f, v) ==
    /\ Kind[f] = "list"
    /\ \E c \in Arrays :
          /\ Writes(f, c)
          /\ Len(content[c]) < MaxSize
          /\ WriteTo(f, c, Append(content[c], Copied(Type[f], "hole", v)))
    /\ Died(Type[f], v)

SetMapItem(f, k, v) ==
    /\ Kind[f] = "map"
    /\ \E c \in Hashes :
          /\ Writes(f, c)
          /\ WriteTo(f, c, [content[c] EXCEPT ![k] = Copied(Type[f], @, v)])
    /\ Died(Type[f], v)

----------------------------------------------------------------------------
\* Calls that die before they change anything are left out: an extension of the wrong
\* kind, a list set to what is not an array, items of a scalar that has a value.

\* set_list, set_map: the old container is released before the new one is counted.
TakesContainer(f, c) ==
    IF Kind[f] = "map" THEN c \in Hashes ELSE ItemMethods(f) /\ c \in Arrays

\* The references the program can pass: its own and those of get_list and get_map.
Passable(c) == c \in program \/ \E g \in Fields : hash[g] = RefTo(c)

Freed(f, c) == hash[f] = RefTo(c) /\ count[c] = 1

\* Mutant: set_list takes the reference over.
ReplacedUncounted(f, c) == IF hash[f].is = "ref" THEN Dec(hash[f].ref) ELSE count

Replaced(f, c) ==
    IF hash[f].is = "ref"
    THEN [Dec(hash[f].ref) EXCEPT ![c] = @ + 1]
    ELSE [count EXCEPT ![c] = @ + 1]

SetContainer(f, c) ==
    /\ TakesContainer(f, c)
    /\ Passable(c)
    /\ hash[f].is \in {"absent", "undef", "ref"} \/ (Type[f] = "message" /\ hash[f].is = "good")
    /\ ~Freed(f, c)
    /\ hash' = [hash EXCEPT ![f] = RefTo(c)]
    /\ count' = Replaced(f, c)
    /\ content' = [d \in Containers |-> IF count'[d] = 0 THEN Empty(d) ELSE content[d]]
    /\ foreign' = {d \in foreign : count'[d] > 0}
    /\ UNCHANGED <<style, program, died, state>>

\* $o->set_list($o->get_list), and nobody else holds it.
SetToItself(f, c) ==
    /\ TakesContainer(f, c)
    /\ Freed(f, c)
    /\ state' = "dangling"
    /\ Release(c)
    /\ UNCHANGED <<style, hash, program, died>>

----------------------------------------------------------------------------
\* The program builds a container, keeps what a getter returns, and lets go of both.
Build(c, value) ==
    /\ Unused(c) /\ Cardinality(program) < MaxHeld
    /\ count' = [count EXCEPT ![c] = 1]
    /\ content' = [content EXCEPT ![c] = IF c \in Arrays THEN <<value>> ELSE [k \in Keys |-> value]]
    /\ program' = program \cup {c}
    /\ foreign' = foreign \cup {c}
    /\ UNCHANGED <<style, hash, died, state>>

Keep(f, c) ==
    /\ hash[f] = RefTo(c)
    /\ c \notin program /\ Cardinality(program) < MaxHeld
    /\ count' = [count EXCEPT ![c] = @ + 1]
    /\ program' = program \cup {c}
    /\ UNCHANGED <<style, hash, content, foreign, died, state>>

LetGo(c) ==
    /\ c \in program
    /\ program' = program \ {c}
    /\ Release(c)
    /\ UNCHANGED <<style, hash, died, state>>

Init ==
    /\ style \in Styles
    /\ hash = [f \in Fields |-> Absent]
    /\ content = [c \in Containers |-> Empty(c)]
    /\ count = [c \in Containers |-> 0]
    /\ program = {}
    /\ foreign = {}
    /\ died = FALSE
    /\ state = "ok"

Call ==
    \E f \in Fields :
          \/ ClearField(f)
          \/ \E v \in Given(f) : SetScalar(f, v) \/ AddItem(f, v)
          \/ \E g \in Fields : SetToValueOf(f, g)
          \/ \E index \in -1..(MaxSize - 1) :
                \/ SetItemBefore(f, index)
                \/ \E v \in Given(f) : SetItem(f, index, v)
          \/ \E k \in Keys : \E v \in Given(f) : SetMapItem(f, k, v)
          \/ \E c \in Containers : SetContainer(f, c) \/ SetToItself(f, c)

Perl ==
    \E c \in Containers :
       \/ Build(c, "bad")
       \/ \E f \in Fields : Keep(f, c)
       \/ LetGo(c)

Next == state = "ok" /\ (Call \/ Perl)

Spec == Init /\ [][Next]_vars

----------------------------------------------------------------------------
\* What the program put into a container of its own is not checked.
Elements(c) ==
    IF c \in Arrays THEN {content[c][i] : i \in DOMAIN content[c]}
    ELSE {content[c][k] : k \in Keys} \ {"absent"}

Valid(type) == IF type = "int" THEN {"good", "zero"} ELSE
               IF type = "enum" THEN {"good"} ELSE {"good", "undef"}

\* What a setter that dies can leave behind.
Residue == IF died THEN {"undef"} ELSE {}

\* A field holds nothing, a value of its type, or a container of its kind with such
\* values; only setters that died leave an undef (set_scalar, set_item, add_item).  With
\* one accessor, the methods for items of extensions turn scalars into arrays.
TypeOK ==
    /\ state \in {"ok", "crashed", "dangling"}
    /\ program \cup foreign \subseteq Containers
    /\ \A f \in Fields :
          LET slot == hash[f]
          IN  CASE slot.is = "absent" -> TRUE
                [] slot.is = "ref" ->
                     /\ slot.ref \in IF Kind[f] = "map" THEN Hashes ELSE Arrays
                     /\ Kind[f] = "scalar" => f \in Extensions /\ style = "single_accessor"
                     /\ slot.ref \notin foreign =>
                          Elements(slot.ref) \subseteq
                             (UNION {Valid(Type[g]) : g \in {g \in Fields : ItemMethods(g) \/ Kind[g] = "map"}})
                             \cup Residue \cup {"hole"}
                [] OTHER -> Kind[f] = "scalar" /\ slot.is \in Valid(Type[f]) \cup Residue

\* An object made by the accessors has one member of a oneof at most, whichever setters
\* died (clear_oneof).
OneofExclusive ==
    \A f, g \in Fields :
       f # g /\ Oneof[f] = Oneof[g] /\ Oneof[f] # NoOneof => hash[f] = Absent \/ hash[g] = Absent

Holders(c) == Cardinality({f \in Fields : hash[f] = RefTo(c)}) + (IF c \in program THEN 1 ELSE 0)

\* A list or map is freed when its last holder goes and not before, through any sharing
\* of containers between fields and the program, until the program sets a list to
\* itself (set_list, set_map).
CountsAreHolders ==
    state # "dangling" => \A c \in Containers : count[c] = Holders(c)

\* A call concerns one field and its oneof: no other field of the object changes, also
\* if the call dies (all setters).
OneFieldPerCall ==
    [][state' # "crashed" =>
          \A f \in {f \in Fields : hash'[f] # hash[f]} : \A g \in Fields \ {f} :
             hash'[g] # hash[g] => Oneof[f] = Oneof[g] /\ Oneof[f] # NoOneof]_vars
==============================================================================
