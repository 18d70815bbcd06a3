---------------------------- MODULE EncoderProofs ----------------------------
(* For any messages, any values and any number of encodes within one another: the  *)
(* path that callbacks and warnings are told is where the encode is, the numbers   *)
(* that come with it name one field each, and a warning of the outermost encode    *)
(* goes to the program with the path of its field.                                 *)
EXTENDS Encoder, SequenceTheorems, TLAPS

------------------------------------------------------------------------------
(* Types.                                                                        *)

Keys == Names \cup {NoKey}
Hooks == {"user", "own", "none"}
FrameType ==
    [kind : {"message", "list", "map"}, field : FieldSet, type : Mappers, todo : Seq(Entries),
     key : Keys, oneofs : SUBSET Names, seen : SUBSET Names, level : Nat]
ToldType == [path : Seq(Keys), ids : Seq(Nat)]
WarningType == [path : Seq(Keys), field : Seq(Keys), to : Hooks]
Events == Names \cup {"(", ")", "[", "]", "scalar", "default"}
CallType ==
    [mapper : Mappers, value : Values, frames : Seq(FrameType), out : Seq(Events),
     stage : Stages, then : {"open", "look", "skip", "put", "encode"}, type : Mappers,
     arg : Values, hook : Hooks, nested : BOOLEAN, reentered : BOOLEAN,
     told : SUBSET ToldType, warning : SUBSET WarningType]
LevelType == [key : Keys, id : Nat]
ContextType == {x \in [levels : Seq(LevelType), next : Nat, nextId : Nat] : x.next <= Len(x.levels)}

------------------------------------------------------------------------------
(* A call by itself: where it is, and the keys it still goes to.                   *)

Top(c) == c.frames[Len(c.frames)]

\* The stages a call is at, or goes to when Perl code returns.
Resumes(c, stages) == c.stage \in stages \/ (c.stage = "perl" /\ c.then \in stages)

\* At an entry of its innermost frame; about to start a message.
AtEntry(c) == Resumes(c, {"put", "encode", "skip", "recursing"})
Descends(c) == Resumes(c, {"enter", "open"})

KeysFrom(s, n) == {s[j].key : j \in n..Len(s)}
DistinctKeys(s) == \A i, j \in DOMAIN s : s[i].key = s[j].key => i = j

\* The keys a frame of the call has still to come to.
Ahead(c, n) == KeysFrom(c.frames[n].todo, IF n = Len(c.frames) /\ AtEntry(c) THEN 2 ELSE 1)

CallOK(c) ==
    /\ ~Descends(c) => c.frames # <<>>
    /\ \A k \in 1..Len(c.frames) :
          /\ k < Len(c.frames) \/ Descends(c) => c.frames[k].key # NoKey
          /\ DistinctKeys(c.frames[k].todo)
          /\ c.frames[k].key \notin Ahead(c, k)
    /\ AtEntry(c) => Top(c).todo # <<>> /\ Top(c).todo[1].key = Top(c).key
    /\ Resumes(c, {"put", "encode"}) /\ Top(c).kind = "message" =>
          Has(Top(c).type, Top(c).todo[1].key)

\* What a warning of the outermost encode says.
WarningOK(c) == ~c.nested => \A w \in c.warning : w.to = "user" /\ w.path = w.field

------------------------------------------------------------------------------
(* A call and its context, as long as no encode with the same mapper ran in it.    *)

\* The levels are those of the frames.
Follows(c, x) ==
    /\ x.next = Len(c.frames)
    /\ \A k \in 1..Len(c.frames) :
          /\ x.levels[k].key = c.frames[k].key /\ c.frames[k].level = k
          /\ c.frames[k].key # NoKey => x.levels[k].id < x.nextId

Along(path, c, n) == \A k \in 1..n : path[k] = c.frames[k].key

\* What a callback was told, and where the call is now: the same number at the levels
\* they share, and the call does not come there again.
ToldOK(a, c, x) ==
    /\ Len(a.path) > 0 /\ Len(a.ids) = Len(a.path)
    /\ \A k \in 1..Len(a.ids) : a.ids[k] < x.nextId
    /\ \A n \in 1..Len(c.frames) : n <= Len(a.path) =>
          /\ c.frames[n].key # NoKey => (a.ids[n] = x.levels[n].id <=> Along(a.path, c, n))
          /\ Along(a.path, c, n - 1) => a.path[n] \notin Ahead(c, n)
    /\ (AtEntry(c) \/ Descends(c)) /\ Along(a.path, c, Len(c.frames)) =>
          Len(a.path) <= Len(c.frames)

SamePrefix(p, r, n) == \A k \in 1..n : p[k] = r[k]

Pair(a, b) ==
    \A n \in 1..Len(a.path) : n <= Len(b.path) =>
        (a.ids[n] = b.ids[n] <=> SamePrefix(a.path, b.path, n))

IsToldPath(c) == c.stage = "perl" /\ c.then = "skip" => \E a \in c.told : a.path = TruePath(c)

Linked(c, x) ==
    /\ Follows(c, x)
    /\ \A a \in c.told : ToldOK(a, c, x)
    /\ \A a, b \in c.told : Pair(a, b)
    /\ IsToldPath(c)

------------------------------------------------------------------------------
(* The inductive invariant.                                                      *)

Typed ==
    /\ calls \in Seq(CallType) /\ contexts \in [Mappers -> ContextType]
    /\ status \in [Mappers -> {"ok", "required", "enum"}] /\ decoderError \subseteq Mappers
    /\ warnContext \in [context : Mappers, chained : Hooks] /\ hook \in Hooks
    /\ count \in 0..MaxCalls

\* The calls below the innermost wait for Perl code; the program's handler comes back
\* with the end of the outermost.
Nesting ==
    /\ \A i \in 1..Depth :
          /\ i < Depth => calls[i].stage = "perl" /\ calls[i].nested
          /\ i = 1 => calls[i].hook = "user"
          /\ calls[i].reentered => calls[i].nested
          /\ ~calls[i].nested =>
                i = 1 /\ warnContext = [context |-> calls[i].mapper, chained |-> "user"]
          /\ \A j \in 1..Depth : i < j /\ calls[i].mapper = calls[j].mapper => calls[i].reentered
    /\ calls = <<>> => hook = "user"

CallsOK ==
    \A i \in 1..Depth :
        /\ CallOK(calls[i]) /\ WarningOK(calls[i])
        /\ ~calls[i].reentered => Linked(calls[i], contexts[calls[i].mapper])

IInv == Typed /\ Nesting /\ CallsOK

\* A level that is no field has no name.
LEMMA NoKeyIs == NoKey \notin Names
  BY FieldsAssumption

------------------------------------------------------------------------------
(* Contexts.                                                                     *)

\* set_map_key and set_array_index write the key and a new number at one level.
LEMMA SetKeyIs ==
    ASSUME NEW x \in ContextType, NEW level \in 1..Len(x.levels), NEW key \in Keys
    PROVE  LET y == SetKey(x, level, key)
           IN  /\ y \in ContextType /\ y.next = x.next /\ y.nextId = x.nextId + 1
               /\ Len(y.levels) = Len(x.levels)
               /\ y.levels[level].key = key /\ y.levels[level].id = x.nextId
               /\ \A k \in 1..Len(x.levels) : k # level => y.levels[k] = x.levels[k]
<1> DEFINE new == [key |-> key, id |-> x.nextId]
           y == SetKey(x, level, key)
<1>1. x \in [levels : Seq(LevelType), next : Nat, nextId : Nat] /\ x.next <= Len(x.levels)
  BY DEF ContextType
<1>2. new \in LevelType
  BY <1>1 DEF LevelType
<1>3. y = [levels |-> [x.levels EXCEPT ![level] = new], next |-> x.next,
           nextId |-> x.nextId + 1]
  BY DEF SetKey
<1>4. y.levels \in Seq(LevelType) /\ Len(y.levels) = Len(x.levels)
      /\ \A k \in 1..Len(x.levels) : y.levels[k] = IF k = level THEN new ELSE x.levels[k]
  BY <1>1, <1>2, <1>3, ExceptSeq
<1>5. y \in ContextType
  BY <1>1, <1>3, <1>4 DEF ContextType
<1> QED
  BY <1>2, <1>3, <1>4, <1>5

\* A level out of reach is none.
LEMMA SetKeyType ==
    ASSUME NEW x \in ContextType, NEW level \in Nat, NEW key \in Keys
    PROVE  SetKey(x, level, key) \in ContextType
<1>1. x \in [levels : Seq(LevelType), next : Nat, nextId : Nat] /\ x.next <= Len(x.levels)
  BY DEF ContextType
<1>2. CASE level \in 1..Len(x.levels)
  BY <1>2, SetKeyIs
<1>3. CASE level \notin 1..Len(x.levels)
  <2>1. DOMAIN x.levels = 1..Len(x.levels) /\ x.levels \in [1..Len(x.levels) -> LevelType]
    BY <1>1, LenProperties
  <2>2. [x.levels EXCEPT ![level] = [key |-> key, id |-> x.nextId]] = x.levels
    BY <1>3, <2>1
  <2>3. SetKey(x, level, key) = [levels |-> x.levels, next |-> x.next, nextId |-> x.nextId + 1]
    BY <2>2 DEF SetKey
  <2> QED
    BY <1>1, <2>3 DEF ContextType
<1> QED
  BY <1>2, <1>3

\* push_level opens one level, with no key yet, and leaves those below it.
LEMMA PushLevelIs ==
    ASSUME NEW x \in ContextType
    PROVE  LET y == PushLevel(x)
           IN  /\ y \in ContextType /\ y.next = x.next + 1 /\ y.nextId = x.nextId + 1
               /\ y.levels[x.next + 1].key = NoKey
               /\ \A k \in 1..x.next : y.levels[k] = x.levels[k]
<1> DEFINE y == PushLevel(x)
<1>1. x \in [levels : Seq(LevelType), next : Nat, nextId : Nat] /\ x.next <= Len(x.levels)
  BY DEF ContextType
<1>2. Len(x.levels) \in Nat
  BY <1>1, LenProperties
<1>3. CASE x.next = Len(x.levels)
  <2> DEFINE new == [key |-> NoKey, id |-> x.nextId + 1]
  <2>1. new \in LevelType /\ new.key = NoKey
    BY <1>1 DEF LevelType, Keys
  <2>2. y = [levels |-> Append(x.levels, new), next |-> x.next + 1, nextId |-> x.nextId + 1]
    BY <1>3 DEF PushLevel, NewLevel
  <2> HIDE DEF new, y
  <2>3. /\ Append(x.levels, new) \in Seq(LevelType)
        /\ Len(Append(x.levels, new)) = Len(x.levels) + 1
        /\ \A k \in 1..Len(x.levels) : Append(x.levels, new)[k] = x.levels[k]
        /\ Append(x.levels, new)[Len(x.levels) + 1] = new
    BY <1>1, <2>1, AppendProperties
  <2>4. y \in ContextType
    BY <1>1, <1>2, <1>3, <2>2, <2>3 DEF ContextType
  <2> QED
    BY <1>1, <1>2, <1>3, <2>1, <2>2, <2>3, <2>4 DEF y
<1>4. CASE x.next # Len(x.levels)
  <2> DEFINE new == [key |-> NoKey, id |-> x.nextId]
             n == x.next + 1
  <2>1. new \in LevelType /\ new.key = NoKey
    BY <1>1 DEF LevelType, Keys
  <2>2. n \in 1..Len(x.levels)
    BY <1>1, <1>2, <1>4
  <2>3. y = [levels |-> [x.levels EXCEPT ![n] = new], next |-> n, nextId |-> x.nextId + 1]
    BY <1>1, <1>4 DEF PushLevel
  <2> HIDE DEF new, y
  <2>4. /\ [x.levels EXCEPT ![n] = new] \in Seq(LevelType)
        /\ Len([x.levels EXCEPT ![n] = new]) = Len(x.levels)
        /\ \A k \in 1..Len(x.levels) :
              [x.levels EXCEPT ![n] = new][k] = IF k = n THEN new ELSE x.levels[k]
    BY <1>1, <2>1, <2>2, ExceptSeq
  <2>5. y \in ContextType
    BY <1>1, <1>2, <2>2, <2>3, <2>4 DEF ContextType
  <2> QED
    BY <1>1, <1>2, <2>1, <2>2, <2>3, <2>4, <2>5 DEF y
<1> QED
  BY <1>3, <1>4

\* pop_level takes the last level away and gives no number back.
LEMMA PopLevelIs ==
    ASSUME NEW x \in ContextType
    PROVE  LET y == PopLevel(x)
           IN  /\ y \in ContextType /\ y.levels = x.levels /\ y.nextId = x.nextId
               /\ x.next # 0 => y.next = x.next - 1
<1>1. x \in [levels : Seq(LevelType), next : Nat, nextId : Nat] /\ x.next <= Len(x.levels)
  BY DEF ContextType
<1>2. Len(x.levels) \in Nat
  BY <1>1, LenProperties
<1>3. PopLevel(x) = [levels |-> x.levels, nextId |-> x.nextId,
                     next |-> IF x.next = 0 THEN Len(x.levels) ELSE x.next - 1]
  BY <1>1 DEF PopLevel
<1> QED
  BY <1>1, <1>2, <1>3 DEF ContextType

\* A cleared context has no level.
LEMMA ClearedIs ==
    ASSUME NEW x \in ContextType
    PROVE  Cleared(x) \in ContextType /\ Cleared(x).next = 0
<1>1. x \in [levels : Seq(LevelType), next : Nat, nextId : Nat] /\ x.next <= Len(x.levels)
  BY DEF ContextType
<1>2. Len(x.levels) \in Nat
  BY <1>1, LenProperties
<1>3. Cleared(x) = [levels |-> x.levels, next |-> 0, nextId |-> 1]
  BY DEF Cleared
<1> QED
  BY <1>1, <1>2, <1>3 DEF ContextType

\* So has a new one.
LEMMA ClearIs == Clear \in ContextType
<1>1. <<>> \in Seq(LevelType) /\ Len(<<>>) = 0
  BY EmptySeq
<1> QED
  BY <1>1 DEF ContextType, Clear

------------------------------------------------------------------------------
(* Sequences of entries, and frames.                                             *)

\* The entries that are left when the first is done.
LEMMA TailIs ==
    ASSUME NEW s \in Seq(Entries), s # <<>>, DistinctKeys(s)
    PROVE  /\ s[1] \in Entries /\ Tail(s) \in Seq(Entries) /\ DistinctKeys(Tail(s))
           /\ KeysFrom(Tail(s), 1) = KeysFrom(s, 2) /\ s[1].key \notin KeysFrom(s, 2)
           /\ KeysFrom(s, 2) \subseteq KeysFrom(s, 1)
           /\ s[1].key \in KeysFrom(s, 1)
<1>1. PICK n \in Nat : Len(s) = n
  BY LenProperties
<1>2. DOMAIN s = 1..n /\ n # 0 /\ s \in [1..n -> Entries]
  BY <1>1, LenProperties, EmptySeq
<1>3. /\ Tail(s) \in Seq(Entries) /\ Len(Tail(s)) = n - 1
      /\ \A i \in 1..(n - 1) : Tail(s)[i] = s[i + 1]
  BY <1>1, HeadTailProperties
<1>4. DOMAIN Tail(s) = 1..(n - 1)
  BY <1>3, LenProperties
<1>5. DistinctKeys(Tail(s))
  BY <1>2, <1>3, <1>4 DEF DistinctKeys
<1>6. KeysFrom(Tail(s), 1) = KeysFrom(s, 2)
  <2>1. ASSUME NEW i \in 1..(n - 1) PROVE i + 1 \in 2..n /\ Tail(s)[i].key = s[i + 1].key
    BY <1>3
  <2>2. ASSUME NEW i \in 2..n PROVE i - 1 \in 1..(n - 1) /\ Tail(s)[i - 1].key = s[i].key
    BY <1>3
  <2> QED
    BY <1>1, <1>3, <2>1, <2>2 DEF KeysFrom
<1>7. s[1].key \notin KeysFrom(s, 2)
  BY <1>1, <1>2 DEF KeysFrom, DistinctKeys
<1>8. KeysFrom(s, 2) \subseteq KeysFrom(s, 1) /\ s[1].key \in KeysFrom(s, 1)
  BY <1>1, <1>2 DEF KeysFrom
<1> QED
  BY <1>2, <1>3, <1>5, <1>6, <1>7, <1>8

\* The same entries when the first has another value.
LEMMA FirstReplaced ==
    ASSUME NEW s \in Seq(Entries), s # <<>>, DistinctKeys(s), NEW v \in Values
    PROVE  LET t == <<Entry(s[1].key, v)>> \o Tail(s)
           IN  /\ t \in Seq(Entries) /\ t # <<>> /\ t[1].key = s[1].key /\ DistinctKeys(t)
               /\ KeysFrom(t, 2) = KeysFrom(s, 2)
<1> DEFINE e == Entry(s[1].key, v)
           t == <<e>> \o Tail(s)
<1>1. PICK n \in Nat : Len(s) = n
  BY LenProperties
<1>2. DOMAIN s = 1..n /\ n # 0 /\ s \in [1..n -> Entries]
  BY <1>1, LenProperties, EmptySeq
<1>3. /\ Tail(s) \in Seq(Entries) /\ Len(Tail(s)) = n - 1
      /\ \A i \in 1..(n - 1) : Tail(s)[i] = s[i + 1]
  BY <1>1, HeadTailProperties
<1>4. e \in Entries /\ e.key = s[1].key
  BY <1>2 DEF Entry, Entries
<1> HIDE DEF e
<1>5. <<e>> \in Seq(Entries) /\ Len(<<e>>) = 1 /\ <<e>>[1] = e
  BY <1>4
<1>6. /\ t \in Seq(Entries) /\ Len(t) = n
      /\ \A i \in 1..n : t[i] = IF i = 1 THEN e ELSE s[i]
  <2>1. /\ t \in Seq(Entries) /\ Len(t) = 1 + (n - 1)
        /\ \A i \in 1..(1 + (n - 1)) : t[i] = IF i <= 1 THEN <<e>>[i] ELSE Tail(s)[i - 1]
    BY <1>3, <1>5, ConcatProperties
  <2>2. ASSUME NEW i \in 1..n PROVE t[i] = IF i = 1 THEN e ELSE s[i]
    BY <1>1, <1>2, <1>3, <1>5, <2>1
  <2> QED
    BY <2>1, <2>2
<1> HIDE DEF t
<1>7. DOMAIN t = 1..n
  BY <1>6, LenProperties
<1>8. \A i \in 1..n : t[i].key = s[i].key
  BY <1>4, <1>6
<1>9. DistinctKeys(t)
  BY <1>2, <1>7, <1>8 DEF DistinctKeys
<1>10. KeysFrom(t, 2) = KeysFrom(s, 2)
  BY <1>1, <1>6, <1>8 DEF KeysFrom
<1>11. t # <<>>
  BY <1>2, <1>6, EmptySeq
<1> QED
  BY <1>2, <1>6, <1>8, <1>9, <1>10, <1>11 DEF t, e

\* Entries of a value have keys of their own.
LEMMA EntriesDistinct ==
    ASSUME NEW v \in Values
    PROVE  v.of \in Seq(Entries) /\ DistinctKeys(v.of)
  BY ValuesAssumption DEF DistinctKeys

\* What a message goes through is entries, no key twice.
LEMMA VisitsDistinct ==
    ASSUME NEW t \in Mappers, NEW v \in Values
    PROVE  Visits(t, v) \in Seq(Entries) /\ DistinctKeys(Visits(t, v))
<1>1. CASE Style[t] # "fields"
  BY <1>1, EntriesDistinct DEF Visits
<1>2. CASE Style[t] = "fields"
  <2>1. PICK n \in Nat : n = Len(Fields[t])
    BY FieldsAssumption, LenProperties
  <2>2. DOMAIN Fields[t] = 1..n /\ Fields[t] \in [1..n -> FieldSet]
    BY <2>1, FieldsAssumption, LenProperties
  <2> DEFINE e(i) == Entry(Fields[t][i].name, Find(v, Fields[t][i].name))
  <2>3. Visits(t, v) = [i \in 1..n |-> e(i)]
    BY <1>2, <2>2 DEF Visits
  <2>4. ASSUME NEW key PROVE Find(v, key) \in Values
    <3>1. CASE EntriesAt(v, key) = {}
      BY <3>1, ValuesAssumption DEF Find
    <3>2. CASE EntriesAt(v, key) # {}
      <4>1. PICK f : f = CHOOSE g \in EntriesAt(v, key) : TRUE
        OBVIOUS
      <4>2. f \in EntriesAt(v, key) /\ Find(v, key) = f.value
        BY <3>2, <4>1 DEF Find
      <4>3. f \in Entries
        BY <4>2, EntriesDistinct, LenProperties DEF EntriesAt, Range
      <4> QED
        BY <4>2, <4>3 DEF Entries
    <3> QED
      BY <3>1, <3>2
  <2>5. \A i \in 1..n : e(i) \in Entries /\ e(i).key = Fields[t][i].name
    <3>1. \A i \in 1..n : Fields[t][i].name \in Names
      BY <2>2, FieldsAssumption
    <3> QED
      BY <2>4, <3>1 DEF Entry, Entries
  <2> HIDE DEF e
  <2>6. [i \in 1..n |-> e(i)] \in Seq(Entries)
    BY <2>5, IsASeq
  <2>7. \A i, j \in 1..n : e(i).key = e(j).key => i = j
    BY <2>2, <2>5, FieldsAssumption
  <2> QED
    BY <2>3, <2>6, <2>7 DEF DistinctKeys
<1> QED
  BY <1>1, <1>2

\* The innermost frame is one, and its list of entries.
LEMMA TopType ==
    ASSUME NEW c \in CallType, c.frames # <<>>
    PROVE  /\ Len(c.frames) \in Nat /\ Len(c.frames) # 0 /\ Top(c) \in FrameType
           /\ DOMAIN c.frames = 1..Len(c.frames)
           /\ \A k \in 1..Len(c.frames) : c.frames[k] \in FrameType
<1>1. c.frames \in Seq(FrameType)
  BY DEF CallType
<1> QED
  BY <1>1, LenProperties, EmptySeq DEF Top

\* The frames when the innermost is replaced.
LEMMA TopReplaced ==
    ASSUME NEW c \in CallType, c.frames # <<>>, NEW fr \in FrameType, NEW frames,
           frames = [c.frames EXCEPT ![Len(c.frames)] = fr]
    PROVE  /\ frames \in Seq(FrameType) /\ Len(frames) = Len(c.frames)
           /\ frames[Len(c.frames)] = fr
           /\ \A k \in 1..Len(c.frames) : k # Len(c.frames) => frames[k] = c.frames[k]
<1>1. c.frames \in Seq(FrameType)
  BY DEF CallType
<1>2. Len(c.frames) \in 1..Len(c.frames)
  BY TopType
<1> QED
  BY <1>1, <1>2, ExceptSeq

------------------------------------------------------------------------------
(* A step of a call that stays at the fields it is at.                             *)

Moves(c, d) ==
    /\ Len(d.frames) = Len(c.frames)
    /\ \A k \in 1..Len(c.frames) :
          /\ d.frames[k].key = c.frames[k].key /\ d.frames[k].level = c.frames[k].level
          /\ Ahead(d, k) \subseteq Ahead(c, k)
    /\ d.told = c.told
    /\ Descends(d) \/ AtEntry(d) => Descends(c) \/ AtEntry(c)
    /\ d.stage = "perl" /\ d.then = "skip" => c.stage = "perl" /\ c.then = "skip"

\* The messages, lists and maps a call is in are frames.
LEMMA FramesType ==
    ASSUME NEW c \in CallType
    PROVE  /\ c.frames \in Seq(FrameType) /\ Len(c.frames) \in Nat
           /\ DOMAIN c.frames = 1..Len(c.frames)
           /\ \A k \in 1..Len(c.frames) : c.frames[k] \in FrameType
<1>1. c.frames \in Seq(FrameType)
  BY DEF CallType
<1> QED
  BY <1>1, LenProperties

\* A call that moves is where it was.
LEMMA MovesTruePath ==
    ASSUME NEW c \in CallType, NEW d \in CallType, Moves(c, d)
    PROVE  TruePath(d) = TruePath(c)
  BY FramesType DEF Moves, TruePath

\* It keeps what it told, and its context.
LEMMA MovesLinked ==
    ASSUME NEW c \in CallType, NEW d \in CallType, NEW x \in ContextType,
           Linked(c, x), Moves(c, d)
    PROVE  Linked(d, x)
<1>1. PICK n \in Nat : Len(c.frames) = n /\ Len(d.frames) = n
  BY FramesType DEF Moves
<1>2. Follows(d, x)
  BY <1>1 DEF Linked, Follows, Moves
<1>3. ASSUME NEW a \in d.told PROVE ToldOK(a, d, x)
  <2>1. ToldOK(a, c, x)
    BY <1>3 DEF Linked, Moves
  <2>2. PICK p \in Nat : Len(a.path) = p
    <3>1. a \in ToldType
      BY DEF CallType
    <3> QED
      BY <3>1, LenProperties DEF ToldType
  <2>3. \A m \in Int : m <= n => (Along(a.path, d, m) <=> Along(a.path, c, m))
    BY <1>1 DEF Moves, Along
  <2>4. \A m \in 1..n : m <= p =>
          /\ d.frames[m].key # NoKey => (a.ids[m] = x.levels[m].id <=> Along(a.path, d, m))
          /\ Along(a.path, d, m - 1) => a.path[m] \notin Ahead(d, m)
    <3> TAKE m \in 1..n
    <3> HAVE m <= p
    <3>1. /\ c.frames[m].key # NoKey => (a.ids[m] = x.levels[m].id <=> Along(a.path, c, m))
          /\ Along(a.path, c, m - 1) => a.path[m] \notin Ahead(c, m)
      BY <1>1, <2>1, <2>2 DEF ToldOK
    <3>2. Ahead(d, m) \subseteq Ahead(c, m) /\ d.frames[m].key = c.frames[m].key
      BY <1>1 DEF Moves
    <3>3. m - 1 \in Int /\ m - 1 <= n /\ m <= n
      OBVIOUS
    <3> QED
      BY <2>3, <3>1, <3>2, <3>3
  <2>5. (AtEntry(d) \/ Descends(d)) /\ Along(a.path, d, n) => p <= n
    <3>1. AtEntry(d) \/ Descends(d) => AtEntry(c) \/ Descends(c)
      BY DEF Moves
    <3>2. (AtEntry(c) \/ Descends(c)) /\ Along(a.path, c, n) => p <= n
      BY <1>1, <2>1, <2>2 DEF ToldOK
    <3> QED
      BY <2>3, <3>1, <3>2
  <2>6. Len(a.path) > 0 /\ Len(a.ids) = Len(a.path) /\ \A k \in 1..Len(a.ids) : a.ids[k] < x.nextId
    BY <2>1 DEF ToldOK
  <2> QED
    BY <1>1, <2>2, <2>4, <2>5, <2>6 DEF ToldOK
<1>4. \A a, b \in d.told : Pair(a, b)
  BY DEF Linked, Moves
<1>5. IsToldPath(d)
  <2>1. IsToldPath(c) /\ d.told = c.told
    BY DEF Linked, Moves
  <2>2. TruePath(d) = TruePath(c)
    BY MovesTruePath
  <2> QED
    BY <2>1, <2>2 DEF IsToldPath, Moves
<1> QED
  BY <1>2, <1>3, <1>4, <1>5 DEF Linked

------------------------------------------------------------------------------
(* A step that goes on to the next field of the innermost frame.                   *)

TellsPath(a, y) == a = [path |-> Path(y), ids |-> Ids(y)]

Advances(c, d, key) ==
    /\ Len(d.frames) = Len(c.frames) /\ c.frames # <<>>
    /\ \A k \in 1..Len(c.frames) : k # Len(c.frames) => d.frames[k] = c.frames[k]
    /\ Top(d).key = key /\ Top(d).level = Top(c).level
    /\ ~Descends(c) /\ AtEntry(d) /\ key \in Ahead(c, Len(c.frames))
    /\ Ahead(d, Len(c.frames)) \subseteq Ahead(c, Len(c.frames))
    /\ key \notin Ahead(d, Len(c.frames))

\* set_map_key and set_array_index, at the level of the innermost frame, follow a call that
\* goes to another key of it.
LEMMA AdvancesFollows ==
    ASSUME NEW c \in CallType, NEW d \in CallType, NEW x \in ContextType, NEW key \in Names,
           Linked(c, x), Advances(c, d, key), NEW y, y = SetKey(x, Top(c).level, key)
    PROVE  /\ Follows(d, y) /\ y \in ContextType /\ y.next = Len(c.frames)
           /\ y.nextId = x.nextId + 1 /\ x.nextId \in Nat
           /\ y.levels[Len(c.frames)].id = x.nextId
           /\ \A k \in 1..Len(c.frames) : k # Len(c.frames) => y.levels[k] = x.levels[k]
<1>1. PICK n \in Nat : Len(c.frames) = n /\ Len(d.frames) = n /\ n # 0
  BY TopType DEF Advances
<1>2. x.next = n /\ Top(c).level = n /\ n <= Len(x.levels) /\ Len(x.levels) \in Nat /\ x.nextId \in Nat
  <2>1. x.next = n /\ Top(c).level = n
    BY <1>1 DEF Linked, Follows, Top
  <2>2. x.levels \in Seq(LevelType) /\ x.next <= Len(x.levels) /\ x.nextId \in Nat
    BY DEF ContextType
  <2> QED
    BY <2>1, <2>2, LenProperties
<1>3. n \in 1..Len(x.levels) /\ key \in Keys
  BY <1>1, <1>2 DEF Keys
<1>4. /\ y \in ContextType /\ y.next = x.next /\ y.nextId = x.nextId + 1
      /\ y.levels[n].key = key /\ y.levels[n].id = x.nextId
      /\ \A k \in 1..Len(x.levels) : k # n => y.levels[k] = x.levels[k]
  BY <1>2, <1>3, SetKeyIs
<1>5. ASSUME NEW k \in 1..n
      PROVE  /\ y.levels[k].key = d.frames[k].key /\ d.frames[k].level = k
             /\ d.frames[k].key # NoKey => y.levels[k].id < y.nextId
  <2>1. CASE k = n
    BY <1>1, <1>2, <1>4, <2>1 DEF Advances, Top
  <2>2. CASE k # n
    <3>1. d.frames[k] = c.frames[k] /\ y.levels[k] = x.levels[k]
      BY <1>1, <1>2, <1>4, <2>2 DEF Advances
    <3>2. /\ x.levels[k].key = c.frames[k].key /\ c.frames[k].level = k
          /\ c.frames[k].key # NoKey => x.levels[k].id < x.nextId
      BY <1>1 DEF Linked, Follows
    <3>3. x.levels[k].id \in Nat
      <4>1. x.levels \in Seq(LevelType) /\ k \in 1..Len(x.levels)
        BY <1>2 DEF ContextType
      <4>2. x.levels[k] \in LevelType
        BY <4>1, ElementOfSeq
      <4> QED
        BY <4>2 DEF LevelType
    <3> QED
      BY <1>2, <1>4, <3>1, <3>2, <3>3
  <2> QED
    BY <2>1, <2>2
<1>6. Follows(d, y)
  BY <1>1, <1>2, <1>4, <1>5 DEF Follows
<1> QED
  BY <1>1, <1>2, <1>4, <1>6

\* What a callback was told before stays apart from the new field.
LEMMA AdvancesTold ==
    ASSUME NEW c \in CallType, NEW d \in CallType, NEW x \in ContextType, NEW key \in Names,
           Linked(c, x), Advances(c, d, key), NEW y, y = SetKey(x, Top(c).level, key),
           NEW a \in c.told
    PROVE  ToldOK(a, d, y)
<1>1. PICK n \in Nat : Len(c.frames) = n /\ Len(d.frames) = n /\ n # 0
  BY TopType DEF Advances
<1>2. PICK p \in Nat : Len(a.path) = p
  <2>1. a \in ToldType
    BY DEF CallType
  <2> QED
    BY <2>1, LenProperties DEF ToldType
<1>3. ToldOK(a, c, x) /\ a.ids \in Seq(Nat)
  <2>1. a \in ToldType
    BY DEF CallType
  <2> QED
    BY <2>1 DEF Linked, ToldType
<1>4. /\ p > 0 /\ Len(a.ids) = p
      /\ \A k \in 1..p : a.ids[k] < x.nextId /\ a.ids[k] \in Nat
  BY <1>2, <1>3, LenProperties DEF ToldOK
<1>5. /\ y.nextId = x.nextId + 1 /\ x.nextId \in Nat /\ y.levels[n].id = x.nextId
      /\ \A k \in 1..n : k # n => y.levels[k] = x.levels[k] /\ d.frames[k] = c.frames[k]
  BY <1>1, AdvancesFollows DEF Advances
<1>6. \A m \in Int : m < n => (Along(a.path, d, m) <=> Along(a.path, c, m))
  <2>1. \A m \in Int : m < n => \A k \in 1..m : d.frames[k] = c.frames[k]
    BY <1>5
  <2> QED
    BY <2>1 DEF Along
<1>7. ASSUME n <= p PROVE ~Along(a.path, d, n)
  <2>1. Along(a.path, d, n) => Along(a.path, c, n - 1) /\ a.path[n] = key
    <3>1. d.frames[n].key = key
      BY <1>1 DEF Advances, Top
    <3>2. Along(a.path, d, n) => Along(a.path, d, n - 1) /\ a.path[n] = d.frames[n].key
      BY <1>1 DEF Along
    <3> QED
      BY <1>1, <1>6, <3>1, <3>2
  <2>2. Along(a.path, c, n - 1) => a.path[n] \notin Ahead(c, n)
    BY <1>1, <1>2, <1>3, <1>7 DEF ToldOK
  <2> QED
    BY <1>1, <2>1, <2>2 DEF Advances
<1>8. ASSUME NEW m \in 1..n, m <= p
      PROVE  /\ d.frames[m].key # NoKey => (a.ids[m] = y.levels[m].id <=> Along(a.path, d, m))
             /\ Along(a.path, d, m - 1) => a.path[m] \notin Ahead(d, m)
  <2>1. /\ c.frames[m].key # NoKey => (a.ids[m] = x.levels[m].id <=> Along(a.path, c, m))
        /\ Along(a.path, c, m - 1) => a.path[m] \notin Ahead(c, m)
    BY <1>1, <1>2, <1>3, <1>8 DEF ToldOK
  <2>2. Along(a.path, d, m - 1) <=> Along(a.path, c, m - 1)
    BY <1>6
  <2>3. CASE m = n
    <3>1. Ahead(d, n) \subseteq Ahead(c, n)
      BY <1>1 DEF Advances
    <3>2. a.ids[n] # y.levels[n].id
      BY <1>4, <1>5, <1>8, <2>3
    <3> QED
      BY <1>7, <1>8, <2>1, <2>2, <2>3, <3>1, <3>2
  <2>4. CASE m # n
    <3>1. Ahead(d, m) = Ahead(c, m)
      BY <1>1, <1>5, <2>4 DEF Ahead
    <3>2. Along(a.path, d, m) <=> Along(a.path, c, m)
      BY <1>6, <2>4
    <3> QED
      BY <1>5, <2>1, <2>2, <2>4, <3>1, <3>2
  <2> QED
    BY <2>3, <2>4
<1>9. Along(a.path, d, n) => p <= n
  BY <1>7
<1>10. \A k \in 1..p : a.ids[k] < y.nextId
  BY <1>4, <1>5
<1> QED
  BY <1>1, <1>2, <1>4, <1>8, <1>9, <1>10 DEF ToldOK

\* The path that the callback is told now, with its numbers.
LEMMA TellsTruePath ==
    ASSUME NEW c \in CallType, NEW d \in CallType, NEW x \in ContextType, NEW key \in Names,
           Linked(c, x), CallOK(c), Advances(c, d, key), NEW y, y = SetKey(x, Top(c).level, key),
           NEW a, TellsPath(a, y)
    PROVE  /\ a \in ToldType /\ a.path = TruePath(d) /\ ToldOK(a, d, y)
           /\ Len(a.path) = Len(d.frames)
           /\ \A k \in 1..Len(d.frames) :
                 /\ a.path[k] = d.frames[k].key /\ a.ids[k] = y.levels[k].id
                 /\ d.frames[k].key # NoKey
<1>1. PICK n \in Nat : Len(c.frames) = n /\ Len(d.frames) = n /\ n # 0
  BY TopType DEF Advances
<1>2. Follows(d, y) /\ y \in ContextType /\ y.next = n
  BY <1>1, AdvancesFollows
<1>3. y.levels \in Seq(LevelType) /\ n <= Len(y.levels)
  BY <1>2 DEF ContextType
<1>4. \A k \in 1..n : y.levels[k].key \in Keys /\ y.levels[k].id \in Nat
  <2>1. \A k \in 1..n : y.levels[k] \in LevelType
    BY <1>1, <1>3, LenProperties
  <2> QED
    BY <2>1 DEF LevelType
<1>5. a.path = [k \in 1..n |-> y.levels[k].key] /\ a.ids = [k \in 1..n |-> y.levels[k].id]
  BY <1>2 DEF TellsPath, Path, Ids
<1>6. /\ a.path \in Seq(Keys) /\ Len(a.path) = n
      /\ a.ids \in Seq(Nat) /\ Len(a.ids) = n
  BY <1>4, <1>5
<1>7. a \in ToldType
  BY <1>6 DEF TellsPath, ToldType
<1>8. \A k \in 1..n : /\ a.path[k] = d.frames[k].key /\ a.ids[k] = y.levels[k].id
                      /\ d.frames[k].key # NoKey => a.ids[k] < y.nextId
  BY <1>1, <1>2, <1>5 DEF Follows
<1>9. ASSUME NEW k \in 1..n
      PROVE  d.frames[k].key # NoKey /\ d.frames[k].key \notin Ahead(d, k)
  <2>1. CASE k = n
    BY <1>1, <2>1, NoKeyIs DEF Advances, Top
  <2>2. CASE k # n
    <3>1. d.frames[k] = c.frames[k]
      BY <1>1, <2>2 DEF Advances
    <3>2. Ahead(d, k) = Ahead(c, k)
      BY <1>1, <2>2, <3>1 DEF Ahead
    <3>3. c.frames[k].key # NoKey /\ c.frames[k].key \notin Ahead(c, k)
      BY <1>1, <2>2 DEF CallOK
    <3> QED
      BY <3>1, <3>2, <3>3
  <2> QED
    BY <2>1, <2>2
<1>10. \A m \in 1..n : Along(a.path, d, m)
  BY <1>1, <1>8 DEF Along
<1>11. ToldOK(a, d, y)
  BY <1>1, <1>6, <1>8, <1>9, <1>10 DEF ToldOK
<1>12. a.path = TruePath(d)
  <2>1. DOMAIN d.frames = 1..n
    BY <1>1, FramesType
  <2> QED
    BY <1>5, <1>8, <2>1 DEF TruePath
<1> QED
  BY <1>1, <1>6, <1>7, <1>8, <1>9, <1>11, <1>12

\* The call told nothing of the key it goes to, so the new number names a new field.
LEMMA AdvancesLinked ==
    ASSUME NEW c \in CallType, NEW d \in CallType, NEW x \in ContextType, NEW key \in Names,
           Linked(c, x), CallOK(c), Advances(c, d, key), NEW y, y = SetKey(x, Top(c).level, key),
           \/ d.told = c.told /\ ~(d.stage = "perl" /\ d.then = "skip")
           \/ \E a \in d.told : TellsPath(a, y) /\ d.told = c.told \cup {a}
    PROVE  Linked(d, y)
<1>1. Follows(d, y)
  BY AdvancesFollows
<1>2. \A a \in c.told : ToldOK(a, d, y)
  BY AdvancesTold
<1>3. CASE d.told = c.told /\ ~(d.stage = "perl" /\ d.then = "skip")
  BY <1>1, <1>2, <1>3 DEF Linked, IsToldPath
<1>4. ASSUME NEW a \in d.told, TellsPath(a, y), d.told = c.told \cup {a} PROVE Linked(d, y)
  <2>1. PICK n \in Nat : Len(d.frames) = n
    BY FramesType
  <2>2. /\ a \in ToldType /\ a.path = TruePath(d) /\ ToldOK(a, d, y) /\ Len(a.path) = n
        /\ \A k \in 1..n : /\ a.path[k] = d.frames[k].key /\ a.ids[k] = y.levels[k].id
                           /\ d.frames[k].key # NoKey
    BY <1>4, <2>1, TellsTruePath
  <2>3. ASSUME NEW b \in c.told, NEW m \in 1..n, m <= Len(b.path)
        PROVE  /\ a.ids[m] = b.ids[m] <=> SamePrefix(a.path, b.path, m)
               /\ b.ids[m] = a.ids[m] <=> SamePrefix(b.path, a.path, m)
    <3>1. b.ids[m] = y.levels[m].id <=> Along(b.path, d, m)
      BY <1>2, <2>1, <2>2, <2>3 DEF ToldOK
    <3>2. Along(b.path, d, m) <=> SamePrefix(a.path, b.path, m)
      BY <2>2 DEF Along, SamePrefix
    <3>3. SamePrefix(a.path, b.path, m) <=> SamePrefix(b.path, a.path, m)
      BY DEF SamePrefix
    <3> QED
      BY <2>2, <3>1, <3>2, <3>3
  <2>4. \A b \in c.told : Len(b.path) \in Nat
    <3>1. \A b \in c.told : b \in ToldType
      BY DEF CallType
    <3> QED
      BY <3>1, LenProperties DEF ToldType
  <2>5. \A b \in c.told : Pair(a, b) /\ Pair(b, a)
    BY <2>1, <2>2, <2>3, <2>4 DEF Pair
  <2>6. Pair(a, a)
    BY DEF Pair, SamePrefix
  <2>7. \A b, e \in d.told : Pair(b, e)
    BY <1>4, <2>5, <2>6 DEF Linked
  <2>8. \A b \in d.told : ToldOK(b, d, y)
    BY <1>2, <1>4, <2>2
  <2>9. IsToldPath(d)
    BY <2>2 DEF IsToldPath
  <2> QED
    BY <1>1, <2>7, <2>8, <2>9 DEF Linked
<1> QED
  BY <1>3, <1>4

------------------------------------------------------------------------------
(* A message, list or map starts.                                                *)

Pushes(c, d, x) ==
    /\ Len(d.frames) = Len(c.frames) + 1
    /\ \A k \in 1..Len(c.frames) :
          /\ d.frames[k].key = c.frames[k].key /\ d.frames[k].level = c.frames[k].level
          /\ Ahead(d, k) \subseteq Ahead(c, k)
    /\ Top(d).key = NoKey /\ Top(d).level = x.next + 1
    /\ d.told = c.told
    /\ Descends(c) \/ AtEntry(c)
    /\ ~Descends(d) /\ ~AtEntry(d)

\* push_level follows a call that starts a message, a list or a map.
LEMMA PushesLinked ==
    ASSUME NEW c \in CallType, NEW d \in CallType, NEW x \in ContextType,
           Linked(c, x), Pushes(c, d, x)
    PROVE  Linked(d, PushLevel(x))
<1>1. PICK n \in Nat : Len(c.frames) = n /\ Len(d.frames) = n + 1 /\ x.next = n
  BY FramesType DEF Pushes, Linked, Follows
<1>2. PICK y \in ContextType :
        /\ y = PushLevel(x) /\ y.next = n + 1 /\ y.nextId = x.nextId + 1 /\ x.nextId \in Nat
        /\ y.levels[n + 1].key = NoKey /\ \A k \in 1..n : y.levels[k] = x.levels[k]
  <2>1. x.nextId \in Nat
    BY DEF ContextType
  <2> QED
    BY <1>1, <2>1, PushLevelIs
<1>3. /\ d.frames[n + 1].key = NoKey /\ d.frames[n + 1].level = n + 1
      /\ \A k \in 1..n : d.frames[k].key = c.frames[k].key /\ d.frames[k].level = c.frames[k].level
  BY <1>1 DEF Pushes, Top
<1>4. ASSUME NEW k \in 1..n, c.frames[k].key # NoKey
      PROVE  x.levels[k].id < y.nextId
  <2>1. x.levels[k].id < x.nextId
    BY <1>1, <1>4 DEF Linked, Follows
  <2>2. x.levels[k] \in LevelType
    <3>1. x.levels \in Seq(LevelType) /\ n <= Len(x.levels)
      BY <1>1 DEF ContextType
    <3> QED
      BY <3>1, LenProperties
  <2> QED
    BY <1>2, <2>1, <2>2 DEF LevelType
<1>5. Follows(d, y)
  <2>1. \A k \in 1..n : x.levels[k].key = c.frames[k].key /\ c.frames[k].level = k
    BY <1>1 DEF Linked, Follows
  <2>2. ASSUME NEW k \in 1..(n + 1)
        PROVE  /\ y.levels[k].key = d.frames[k].key /\ d.frames[k].level = k
               /\ d.frames[k].key # NoKey => y.levels[k].id < y.nextId
    <3>1. CASE k = n + 1
      BY <1>2, <1>3, <3>1
    <3>2. CASE k \in 1..n
      BY <1>2, <1>3, <1>4, <2>1, <3>2
    <3> QED
      BY <3>1, <3>2
  <2> QED
    BY <1>1, <1>2, <2>2 DEF Follows
<1>6. ASSUME NEW a \in d.told PROVE ToldOK(a, d, y)
  <2>1. a \in ToldType /\ ToldOK(a, c, x)
    BY <1>6 DEF CallType, Linked, Pushes
  <2>2. PICK p \in Nat : Len(a.path) = p
    BY <2>1, LenProperties DEF ToldType
  <2>3. p > 0 /\ Len(a.ids) = p /\ \A k \in 1..p : a.ids[k] < x.nextId /\ a.ids[k] \in Nat
    <3>1. a.ids \in Seq(Nat)
      BY <2>1 DEF ToldType
    <3> QED
      BY <2>1, <2>2, <3>1, LenProperties DEF ToldOK
  <2>4. \A m \in Int : m <= n => (Along(a.path, d, m) <=> Along(a.path, c, m))
    BY <1>3 DEF Along
  <2>5. Along(a.path, d, n) => p <= n
    BY <1>1, <2>1, <2>2, <2>4 DEF ToldOK, Pushes
  <2>6. ASSUME NEW m \in 1..(n + 1), m <= p
        PROVE  /\ d.frames[m].key # NoKey => (a.ids[m] = y.levels[m].id <=> Along(a.path, d, m))
               /\ Along(a.path, d, m - 1) => a.path[m] \notin Ahead(d, m)
    <3>1. CASE m = n + 1
      BY <1>3, <2>5, <2>6, <3>1
    <3>2. CASE m \in 1..n
      <4>1. /\ c.frames[m].key # NoKey => (a.ids[m] = x.levels[m].id <=> Along(a.path, c, m))
            /\ Along(a.path, c, m - 1) => a.path[m] \notin Ahead(c, m)
        BY <1>1, <2>1, <2>2, <2>6, <3>2 DEF ToldOK
      <4>2. Ahead(d, m) \subseteq Ahead(c, m)
        BY <1>1, <3>2 DEF Pushes
      <4>3. /\ Along(a.path, d, m) <=> Along(a.path, c, m)
            /\ Along(a.path, d, m - 1) <=> Along(a.path, c, m - 1)
        BY <2>4, <3>2
      <4> QED
        BY <1>2, <1>3, <3>2, <4>1, <4>2, <4>3
    <3> QED
      BY <3>1, <3>2
  <2>7. \A k \in 1..p : a.ids[k] < y.nextId
    BY <1>2, <2>3
  <2> QED
    BY <1>1, <2>2, <2>3, <2>6, <2>7 DEF ToldOK, Pushes
<1>7. (\A a, b \in d.told : Pair(a, b)) /\ IsToldPath(d)
  BY DEF Linked, Pushes, IsToldPath, AtEntry, Resumes
<1> QED
  BY <1>2, <1>5, <1>6, <1>7 DEF Linked

------------------------------------------------------------------------------
(* A message, list or map within another ends.                                   *)

Pops(c, d) ==
    /\ Len(c.frames) = Len(d.frames) + 1
    /\ \A k \in 1..Len(d.frames) : d.frames[k] = c.frames[k]
    /\ d.told = c.told /\ d.frames # <<>>
    /\ ~Descends(d) /\ ~AtEntry(d)

\* pop_level follows a call that ends one.
LEMMA PopsLinked ==
    ASSUME NEW c \in CallType, NEW d \in CallType, NEW x \in ContextType,
           Linked(c, x), Pops(c, d)
    PROVE  Linked(d, PopLevel(x))
<1>1. PICK n \in Nat : Len(d.frames) = n /\ Len(c.frames) = n + 1 /\ x.next = n + 1
  BY FramesType DEF Pops, Linked, Follows
<1>2. PICK y \in ContextType :
        y = PopLevel(x) /\ y.next = n /\ y.nextId = x.nextId /\ y.levels = x.levels
  BY <1>1, PopLevelIs
<1>3. \A k \in 1..n : d.frames[k] = c.frames[k]
  BY <1>1 DEF Pops
<1>4. Follows(d, y)
  BY <1>1, <1>2, <1>3 DEF Linked, Follows
<1>5. \A k \in 1..n : Ahead(d, k) = Ahead(c, k)
  BY <1>1, <1>3 DEF Ahead, Pops
<1>6. ASSUME NEW a \in d.told PROVE ToldOK(a, d, y)
  <2>1. a \in ToldType /\ ToldOK(a, c, x)
    BY <1>6 DEF CallType, Linked, Pops
  <2>2. PICK p \in Nat : Len(a.path) = p
    BY <2>1, LenProperties DEF ToldType
  <2>3. \A m \in Int : m <= n => (Along(a.path, d, m) <=> Along(a.path, c, m))
    BY <1>3 DEF Along
  <2>4. ASSUME NEW m \in 1..n, m <= p
        PROVE  /\ d.frames[m].key # NoKey => (a.ids[m] = y.levels[m].id <=> Along(a.path, d, m))
               /\ Along(a.path, d, m - 1) => a.path[m] \notin Ahead(d, m)
    <3>1. /\ c.frames[m].key # NoKey => (a.ids[m] = x.levels[m].id <=> Along(a.path, c, m))
          /\ Along(a.path, c, m - 1) => a.path[m] \notin Ahead(c, m)
      BY <1>1, <2>1, <2>2, <2>4 DEF ToldOK
    <3>2. /\ Along(a.path, d, m) <=> Along(a.path, c, m)
          /\ Along(a.path, d, m - 1) <=> Along(a.path, c, m - 1)
      BY <2>3
    <3> QED
      BY <1>2, <1>3, <1>5, <3>1, <3>2
  <2> QED
    BY <1>1, <1>2, <2>1, <2>2, <2>4 DEF ToldOK, Pops
<1>7. (\A a, b \in d.told : Pair(a, b)) /\ IsToldPath(d)
  BY DEF Linked, Pops, IsToldPath, AtEntry, Resumes
<1> QED
  BY <1>2, <1>4, <1>6, <1>7 DEF Linked

\* A call that starts has told nothing.
LEMMA NewLinked ==
    ASSUME NEW c, NEW x, c.frames = <<>>, c.told = {}, c.stage = "enter", x.next = 0
    PROVE  Linked(c, x)
<1>1. Len(c.frames) = 0
  BY EmptySeq
<1> QED
  BY <1>1 DEF Linked, Follows, IsToldPath

\* What else is known of a call does not matter here.
SameSteps(c, d) ==
    /\ d.frames = c.frames /\ d.told = c.told /\ d.stage = c.stage /\ d.then = c.then

\* What is said of a call is said of any with the same frames and paths.
LEMMA SameLinked ==
    ASSUME NEW c, NEW d, NEW x, SameSteps(c, d)
    PROVE  (Linked(c, x) <=> Linked(d, x)) /\ (CallOK(c) <=> CallOK(d))
<1>1. (AtEntry(d) <=> AtEntry(c)) /\ (Descends(d) <=> Descends(c)) /\ Top(d) = Top(c)
      /\ (Resumes(d, {"put", "encode"}) <=> Resumes(c, {"put", "encode"}))
  BY DEF SameSteps, AtEntry, Descends, Resumes, Top
<1>2. \A k : Ahead(d, k) = Ahead(c, k)
  BY <1>1 DEF Ahead, SameSteps
<1>3. CallOK(c) <=> CallOK(d)
  BY <1>1, <1>2, Zenon DEF CallOK, SameSteps
<1>4. \A path, k : Along(path, c, k) <=> Along(path, d, k)
  BY DEF Along, SameSteps
<1>5. \A a : ToldOK(a, c, x) <=> ToldOK(a, d, x)
  BY <1>1, <1>2, <1>4, Zenon DEF ToldOK, SameSteps
<1>6. (Follows(c, x) <=> Follows(d, x)) /\ (IsToldPath(c) <=> IsToldPath(d))
  BY DEF Follows, IsToldPath, SameSteps, TruePath
<1> QED
  BY <1>3, <1>5, <1>6, Zenon DEF Linked, SameSteps

------------------------------------------------------------------------------
(* What a step does to the invariant, by what it does to the innermost call.        *)

\* A call with its context.
Good(c, x) ==
    /\ c \in CallType /\ CallOK(c) /\ WarningOK(c) /\ x \in ContextType
    /\ ~c.reentered => Linked(c, x)

SameCall(c, d) ==
    /\ d.mapper = c.mapper /\ d.hook = c.hook /\ d.nested = c.nested
    /\ d.reentered = c.reentered

\* Only the context of the mapper that encodes changes.
ContextsKept ==
    /\ contexts' \in [Mappers -> ContextType]
    /\ \A m \in Mappers : m # This => contexts'[m] = contexts[m]

\* The running encodes are numbered from the outermost.
LEMMA DepthIs ==
    ASSUME Typed
    PROVE  /\ Depth \in Nat /\ DOMAIN calls = 1..Depth
           /\ \A i \in 1..Depth : calls[i] \in CallType /\ calls[i].mapper \in Mappers
           /\ calls = <<>> <=> Depth = 0
<1>1. calls \in Seq(CallType)
  BY DEF Typed
<1>2. Depth \in Nat /\ DOMAIN calls = 1..Depth /\ \A i \in 1..Depth : calls[i] \in CallType
  BY <1>1, LenProperties DEF Depth
<1>3. calls = <<>> <=> Depth = 0
  BY <1>1, EmptySeq DEF Depth
<1> QED
  BY <1>2, <1>3 DEF CallType

\* The innermost call and its context.
LEMMA CallIs ==
    ASSUME IInv, Running
    PROVE  /\ Good(Call, Context) /\ This \in Mappers /\ Depth \in Nat /\ Depth # 0
           /\ ~Call.nested => warnContext = [context |-> This, chained |-> "user"]
           /\ Call.reentered => Call.nested
<1>1. Depth \in Nat /\ Depth # 0 /\ Call \in CallType /\ This \in Mappers /\ Depth \in 1..Depth
  BY DepthIs DEF IInv, Running, Call, This
<1>2. Context \in ContextType
  BY <1>1 DEF IInv, Typed, Context
<1>3. CallOK(Call) /\ WarningOK(Call) /\ (~Call.reentered => Linked(Call, Context))
  BY <1>1 DEF IInv, CallsOK, Call, Context, This
<1>4. /\ ~Call.nested => warnContext = [context |-> This, chained |-> "user"]
      /\ Call.reentered => Call.nested
  BY <1>1 DEF IInv, Nesting, Call, This
<1> QED
  BY <1>1, <1>2, <1>3, <1>4 DEF Good

\* The calls around the innermost keep what is known of them.
LEMMA OuterKept ==
    ASSUME IInv, Running, ContextsKept, NEW i \in 1..Depth, i # Depth
    PROVE  /\ CallOK(calls[i]) /\ WarningOK(calls[i])
           /\ ~calls[i].reentered => Linked(calls[i], contexts'[calls[i].mapper])
<1>1. Depth \in Nat /\ Depth # 0 /\ i < Depth /\ calls[i].mapper \in Mappers /\ Depth \in 1..Depth
  BY DepthIs DEF IInv, Running
<1>2. /\ CallOK(calls[i]) /\ WarningOK(calls[i])
      /\ ~calls[i].reentered => Linked(calls[i], contexts[calls[i].mapper])
  BY DEF IInv, CallsOK
<1>3. ~calls[i].reentered => calls[i].mapper # This
  BY <1>1 DEF IInv, Nesting, This, Call
<1> QED
  BY <1>1, <1>2, <1>3 DEF ContextsKept

\* The innermost call goes on.
LEMMA Continues ==
    ASSUME IInv, Running, ContextsKept, NEW d, WithCall(d), Good(d, contexts'[This]),
           SameCall(Call, d), hook' \in Hooks,
           UNCHANGED <<status, decoderError, warnContext, count>>
    PROVE  IInv'
<1>1. Depth \in Nat /\ Depth # 0 /\ Depth \in 1..Depth
  BY DepthIs DEF IInv, Running
<1>2. d \in CallType
  BY DEF Good
<1>3. /\ calls' \in Seq(CallType) /\ Len(calls') = Depth
      /\ \A i \in 1..Depth : calls'[i] = IF i = Depth THEN d ELSE calls[i]
  <2>1. calls \in Seq(CallType)
    BY DEF IInv, Typed
  <2> QED
    BY <1>1, <1>2, <2>1, ExceptSeq DEF WithCall, Depth
<1>4. Depth' = Depth /\ calls' # <<>>
  BY <1>1, <1>3, EmptySeq DEF Depth
<1>5. Typed'
  BY <1>3 DEF IInv, Typed, ContextsKept
<1>6. \A i \in 1..Depth : /\ calls'[i].mapper = calls[i].mapper /\ calls'[i].hook = calls[i].hook
                          /\ calls'[i].nested = calls[i].nested
                          /\ calls'[i].reentered = calls[i].reentered
                          /\ i < Depth => calls'[i].stage = calls[i].stage
  BY <1>1, <1>3 DEF SameCall, Call
<1>7. Nesting'
  BY <1>1, <1>4, <1>6 DEF IInv, Nesting
<1>8. CallsOK'
  <2>1. ASSUME NEW i \in 1..Depth
        PROVE  /\ CallOK(calls'[i]) /\ WarningOK(calls'[i])
               /\ ~calls'[i].reentered => Linked(calls'[i], contexts'[calls'[i].mapper])
    <3>1. CASE i = Depth
      <4>1. calls'[i] = d /\ d.mapper = This
        BY <1>3, <3>1 DEF SameCall, This
      <4> QED
        BY <4>1 DEF Good
    <3>2. CASE i # Depth
      <4>1. calls'[i] = calls[i]
        BY <1>3, <3>2
      <4> QED
        BY <3>2, <4>1, OuterKept
    <3> QED
      BY <3>1, <3>2
  <2> QED
    BY <1>4, <2>1 DEF CallsOK
<1> QED
  BY <1>5, <1>7, <1>8 DEF IInv

\* The innermost call ends; the handler that was set before it comes back.
LEMMA Ends ==
    ASSUME IInv, Running, ContextsKept, NEW c, NEW outcome, NEW error, Ended(c, outcome, error),
           c.hook = Call.hook, error \in {"ok", "required", "enum"}
    PROVE  IInv'
<1>1. Depth \in Nat /\ Depth # 0 /\ Depth \in 1..Depth /\ Call \in CallType /\ This \in Mappers
  BY DepthIs, CallIs DEF IInv, Running, Good
<1>2. /\ calls' \in Seq(CallType) /\ Len(calls') = Depth - 1
      /\ \A i \in 1..(Depth - 1) : calls'[i] = calls[i]
  <2>1. calls' = SubSeq(calls, 1, Depth - 1)
    BY DEF Ended
  <2>2. \A i \in 1..(Depth - 1) : calls[i] \in CallType
    BY <1>1, DepthIs DEF IInv
  <2> QED
    BY <1>1, <2>1, <2>2, SubSeqProperties
<1>3. Depth' = Depth - 1
  BY <1>2 DEF Depth
<1>4. hook' = Call.hook /\ hook' \in Hooks
  BY <1>1 DEF Ended, HookAfter, CallType
<1>5. Typed'
  BY <1>1, <1>2, <1>4 DEF IInv, Typed, ContextsKept, Ended
<1>6. Nesting'
  <2>1. ASSUME calls' = <<>> PROVE hook' = "user"
    <3>1. Depth = 1
      BY <1>1, <1>2, <2>1, EmptySeq
    <3> QED
      BY <1>4, <3>1 DEF IInv, Nesting, Call
  <2>2. ASSUME NEW i \in 1..(Depth - 1)
        PROVE  /\ i < Depth - 1 => calls'[i].stage = "perl" /\ calls'[i].nested
               /\ i = 1 => calls'[i].hook = "user"
               /\ calls'[i].reentered => calls'[i].nested
               /\ ~calls'[i].nested =>
                     i = 1 /\ warnContext' = [context |-> calls'[i].mapper, chained |-> "user"]
               /\ \A j \in 1..(Depth - 1) :
                     i < j /\ calls'[i].mapper = calls'[j].mapper => calls'[i].reentered
    <3>1. i \in 1..Depth /\ calls'[i] = calls[i] /\ i < Depth /\ warnContext' = warnContext
      BY <1>1, <1>2 DEF Ended
    <3>2. \A j \in 1..(Depth - 1) : j \in 1..Depth /\ calls'[j] = calls[j]
      BY <1>1, <1>2
    <3> QED
      BY <3>1, <3>2 DEF IInv, Nesting
  <2> QED
    BY <1>3, <2>1, <2>2 DEF Nesting
<1>7. CallsOK'
  <2>1. ASSUME NEW i \in 1..(Depth - 1)
        PROVE  /\ CallOK(calls'[i]) /\ WarningOK(calls'[i])
               /\ ~calls'[i].reentered => Linked(calls'[i], contexts'[calls'[i].mapper])
    <3>1. i \in 1..Depth /\ i # Depth /\ calls'[i] = calls[i]
      BY <1>1, <1>2
    <3> QED
      BY <3>1, OuterKept
  <2> QED
    BY <1>3, <2>1 DEF CallsOK
<1> QED
  BY <1>5, <1>6, <1>7 DEF IInv

\* An encode that starts has a level 0 context of its own; another of the same mapper
\* loses its.
LEMMA StartCallInv ==
    ASSUME IInv, NEW m \in Mappers, NEW value \in Inputs[m], StartCall(m, value)
    PROVE  IInv'
<1>1. Depth \in Nat /\ DOMAIN calls = 1..Depth /\ \A i \in 1..Depth : calls[i] \in CallType
  BY DepthIs DEF IInv
<1> DEFINE outer(c) == [c EXCEPT !.nested = TRUE, !.reentered = @ \/ c.mapper = m]
           outers == [i \in 1..Depth |-> outer(calls[i])]
           new == NewCall(m, value)
<1>0. /\ Running => At("perl")
      /\ count < MaxCalls /\ count' = count + 1
      /\ warnContext' = [context |-> m, chained |-> hook]
  BY DEF StartCall
<1>2. /\ value \in Values /\ contexts[m] \in ContextType /\ hook \in Hooks
      /\ status \in [Mappers -> {"ok", "required", "enum"}]
  BY ValuesAssumption DEF IInv, Typed
<1>3. /\ new \in CallType /\ new.frames = <<>> /\ new.told = {} /\ new.warning = {}
      /\ new.stage = "enter" /\ new.mapper = m /\ new.hook = hook /\ new.reentered = FALSE
      /\ calls # <<>> => new.nested = TRUE
  BY <1>2, EmptySeq DEF NewCall, CallType, Stages
<1>4. ASSUME NEW i \in 1..Depth
      PROVE  /\ outer(calls[i]) \in CallType /\ SameSteps(calls[i], outer(calls[i]))
             /\ outer(calls[i]).nested = TRUE /\ outer(calls[i]).mapper = calls[i].mapper
             /\ outer(calls[i]).hook = calls[i].hook
             /\ outer(calls[i]).reentered = (calls[i].reentered \/ calls[i].mapper = m)
  <2>1. PICK c \in CallType : c = calls[i]
    BY <1>1
  <2>2. outer(c) \in CallType
    BY DEF CallType
  <2>3. /\ outer(c).nested = TRUE /\ outer(c).mapper = c.mapper /\ outer(c).hook = c.hook
        /\ outer(c).reentered = (c.reentered \/ c.mapper = m)
    BY DEF CallType
  <2>4. SameSteps(c, outer(c))
    BY DEF CallType, SameSteps
  <2> QED
    BY <2>1, <2>2, <2>3, <2>4
<1> HIDE DEF outer, new
<1>5. outers \in Seq(CallType) /\ Len(outers) = Depth /\ \A i \in 1..Depth : outers[i] = outer(calls[i])
  <2>1. outers \in [1..Depth -> CallType]
    BY <1>4
  <2> QED
    BY <1>1, <2>1
<1>6. calls' = Append(outers, new)
  BY DEF StartCall, outer, new
<1> HIDE DEF outers
<1>7. /\ calls' \in Seq(CallType) /\ Len(calls') = Depth + 1 /\ calls' # <<>>
      /\ \A i \in 1..Depth : calls'[i] = outer(calls[i])
      /\ calls'[Depth + 1] = new
  BY <1>3, <1>5, <1>6, AppendProperties
<1>8. Depth' = Depth + 1
  BY <1>7 DEF Depth
<1>9. /\ contexts' \in [Mappers -> ContextType] /\ contexts'[m].next = 0
      /\ \A k \in Mappers : k # m => contexts'[k] = contexts[k]
  BY <1>2, ClearedIs DEF StartCall, IInv, Typed
<1>10. Typed'
  <2>1. count' \in 0..MaxCalls
    BY <1>0, BoundsAssumption DEF IInv, Typed
  <2>2. status' \in [Mappers -> {"ok", "required", "enum"}]
    BY <1>2 DEF StartCall, ClearStatus
  <2>3. warnContext' \in [context : Mappers, chained : Hooks] /\ hook' \in Hooks
    BY <1>2 DEF StartCall, Hooks
  <2> QED
    BY <1>7, <1>9, <2>1, <2>2, <2>3 DEF Typed, IInv, StartCall
<1>11. Nesting'
  <2>1. ASSUME NEW i \in 1..(Depth + 1)
        PROVE  /\ i < Depth + 1 => calls'[i].stage = "perl" /\ calls'[i].nested
               /\ i = 1 => calls'[i].hook = "user"
               /\ calls'[i].reentered => calls'[i].nested
               /\ ~calls'[i].nested =>
                     i = 1 /\ warnContext' = [context |-> calls'[i].mapper, chained |-> "user"]
    <3>1. CASE i = Depth + 1
      <4>1. calls'[i] = new /\ (i = 1 <=> calls = <<>>)
        BY <1>1, <1>7, <3>1, DepthIs DEF IInv
      <4>2. calls = <<>> => hook = "user"
        BY DEF IInv, Nesting
      <4> QED
        <5>1. CASE calls = <<>>
          BY <1>0, <1>3, <3>1, <4>1, <4>2, <5>1
        <5>2. CASE calls # <<>>
          <6>1. i # 1 /\ calls'[i].nested = TRUE /\ calls'[i].reentered = FALSE /\ ~(i < Depth + 1)
            BY <1>1, <1>3, <3>1, <4>1, <5>2
          <6> QED
            BY <6>1
        <5> QED
          BY <5>1, <5>2
    <3>2. CASE i \in 1..Depth
      <4>1. calls'[i] = outer(calls[i])
        BY <1>7, <3>2
      <4>2. calls[i].stage = "perl"
        <5>1. i < Depth => calls[i].stage = "perl"
          BY <3>2 DEF IInv, Nesting
        <5>2. Depth # 0
          BY <1>1, <3>2
        <5>3. calls[Depth].stage = "perl"
          BY <1>0, <1>1, <5>2 DEF Running, At, Call
        <5> QED
          BY <1>1, <3>2, <5>1, <5>3
      <4>3. i = 1 => calls[i].hook = "user"
        BY <3>2 DEF IInv, Nesting
      <4> QED
        BY <1>4, <3>2, <4>1, <4>2, <4>3 DEF SameSteps
    <3> QED
      BY <1>1, <3>1, <3>2
  <2>2. ASSUME NEW i \in 1..(Depth + 1), NEW j \in 1..(Depth + 1), i < j,
               calls'[i].mapper = calls'[j].mapper
        PROVE  calls'[i].reentered
    <3>1. i \in 1..Depth /\ calls'[i] = outer(calls[i])
      BY <1>1, <1>7, <2>2
    <3>2. CASE j = Depth + 1
      <4>1. calls'[i].mapper = m
        BY <1>3, <1>7, <2>2, <3>2
      <4>2. calls[i].mapper = m /\ calls'[i].reentered = (calls[i].reentered \/ calls[i].mapper = m)
        BY <1>4, <3>1, <4>1
      <4> QED
        BY <4>2
    <3>3. CASE j \in 1..Depth
      <4>1. calls'[j] = outer(calls[j])
        BY <1>7, <3>3
      <4>2. calls[i].mapper = calls[j].mapper
        BY <1>4, <2>2, <3>1, <3>3, <4>1
      <4>3. calls[i].reentered
        BY <2>2, <3>1, <3>3, <4>2 DEF IInv, Nesting
      <4> QED
        BY <1>4, <3>1, <4>3
    <3> QED
      BY <1>1, <3>2, <3>3
  <2> QED
    BY <1>7, <1>8, <2>1, <2>2 DEF Nesting
<1>12. CallsOK'
  <2>1. ASSUME NEW i \in 1..(Depth + 1)
        PROVE  /\ CallOK(calls'[i]) /\ WarningOK(calls'[i])
               /\ ~calls'[i].reentered => Linked(calls'[i], contexts'[calls'[i].mapper])
    <3>1. CASE i = Depth + 1
      <4>1. calls'[i] = new
        BY <1>7, <3>1
      <4>2. CallOK(new) /\ WarningOK(new)
        <5>1. Len(new.frames) = 0
          BY <1>3, EmptySeq
        <5> QED
          BY <1>3, <5>1 DEF CallOK, WarningOK, Descends, AtEntry, Resumes
      <4>3. Linked(new, contexts'[m])
        BY <1>3, <1>9, NewLinked
      <4> QED
        BY <1>3, <4>1, <4>2, <4>3
    <3>2. CASE i \in 1..Depth
      <4>1. /\ calls'[i] = outer(calls[i]) /\ calls[i].mapper \in Mappers
            /\ CallOK(calls[i])
            /\ ~calls[i].reentered => Linked(calls[i], contexts[calls[i].mapper])
        BY <1>7, <3>2, DepthIs DEF IInv, CallsOK
      <4>2. CallOK(calls'[i])
        BY <1>4, <3>2, <4>1, SameLinked
      <4>3. WarningOK(calls'[i])
        BY <1>4, <3>2, <4>1 DEF WarningOK
      <4>4. ASSUME ~calls'[i].reentered
            PROVE  Linked(calls'[i], contexts'[calls'[i].mapper])
        <5>1. ~calls[i].reentered /\ calls[i].mapper # m /\ calls'[i].mapper = calls[i].mapper
          BY <1>4, <3>2, <4>1, <4>4
        <5>2. Linked(calls[i], contexts'[calls'[i].mapper])
          BY <1>9, <4>1, <5>1
        <5>3. SameSteps(calls[i], calls'[i])
          BY <1>4, <3>2, <4>1
        <5> QED
          BY <5>2, <5>3, SameLinked, Zenon
      <4> QED
        BY <4>2, <4>3, <4>4
    <3> QED
      BY <1>1, <3>1, <3>2
  <2> QED
    BY <1>8, <2>1 DEF CallsOK
<1> QED
  BY <1>10, <1>11, <1>12 DEF IInv

------------------------------------------------------------------------------
(* Kinds of steps of the innermost call.                                         *)

\* The path that a context spells, typed; that of the frames, if it follows them.
LEMMA PathType ==
    ASSUME NEW x \in ContextType
    PROVE  Path(x) \in Seq(Keys) /\ Ids(x) \in Seq(Nat)
<1>1. x.levels \in Seq(LevelType) /\ x.next \in Nat /\ x.next <= Len(x.levels)
  BY DEF ContextType
<1>2. \A k \in 1..x.next : x.levels[k] \in LevelType
  <2>1. PICK levels \in Seq(LevelType) : levels = x.levels
    BY <1>1
  <2>2. Len(levels) \in Nat /\ \A k \in 1..Len(levels) : levels[k] \in LevelType
    BY LenProperties
  <2> QED
    BY <1>1, <2>1, <2>2
<1>3. \A k \in 1..x.next : x.levels[k].key \in Keys /\ x.levels[k].id \in Nat
  <2>1. \A l \in LevelType : l.key \in Keys /\ l.id \in Nat
    BY DEF LevelType
  <2> QED
    BY <1>2, <2>1
<1>4. PICK n \in Nat : n = x.next
  BY <1>1
<1>5. [i \in 1..n |-> x.levels[i].key] \in Seq(Keys)
  BY <1>3, <1>4
<1>6. [i \in 1..n |-> x.levels[i].id] \in Seq(Nat)
  BY <1>3, <1>4
<1> QED
  BY <1>4, <1>5, <1>6 DEF Path, Ids

\* The path of the frames, typed.
LEMMA TruePathType ==
    ASSUME NEW c \in CallType
    PROVE  TruePath(c) \in Seq(Keys)
<1>1. PICK n \in Nat : n = Len(c.frames) /\ DOMAIN c.frames = 1..n
  BY FramesType
<1>2. \A k \in 1..n : c.frames[k] \in FrameType
  BY <1>1, FramesType
<1>3. \A k \in 1..n : c.frames[k].key \in Keys
  BY <1>2 DEF FrameType
<1> QED
  BY <1>1, <1>3 DEF TruePath

\* A context that follows the frames spells their path.
LEMMA FollowsPath ==
    ASSUME NEW c \in CallType, NEW x, Follows(c, x)
    PROVE  Path(x) = TruePath(c)
  BY FramesType DEF Follows, Path, TruePath

SameRest(c, d) == SameCall(c, d) /\ d.told = c.told /\ d.warning = c.warning

\* The call stays at its field or passes it; frame fr replaces the innermost.
Stays(c, d, fr) ==
    /\ c.frames # <<>> /\ fr \in FrameType /\ d.frames = [c.frames EXCEPT ![Len(c.frames)] = fr]
    /\ fr.key = Top(c).key /\ fr.level = Top(c).level /\ DistinctKeys(fr.todo)
    /\ KeysFrom(fr.todo, IF AtEntry(d) THEN 2 ELSE 1)
          \subseteq KeysFrom(Top(c).todo, IF AtEntry(c) THEN 2 ELSE 1)
    /\ Descends(d) \/ AtEntry(d) => AtEntry(c)
    /\ AtEntry(d) => fr.todo # <<>> /\ fr.todo[1].key = fr.key
    /\ Resumes(d, {"put", "encode"}) /\ fr.kind = "message" => Has(fr.type, fr.todo[1].key)
    /\ ~(d.stage = "perl" /\ d.then = "skip")

\* At an entry, the innermost frame has its key.
LEMMA EntryKey ==
    ASSUME NEW c \in CallType, CallOK(c), AtEntry(c), c.frames # <<>>
    PROVE  Top(c).key # NoKey /\ Top(c).todo # <<>> /\ Top(c).todo[1].key = Top(c).key
<1>1. Top(c).todo # <<>> /\ Top(c).todo[1].key = Top(c).key
  BY DEF CallOK
<1>2. Top(c).todo \in Seq(Entries)
  BY TopType DEF FrameType
<1>3. Top(c).todo[1] \in Entries
  BY <1>1, <1>2, EmptySeq, LenProperties
<1> QED
  BY <1>1, <1>3, NoKeyIs DEF Entries

\* A step that stays at a key, or passes it, leaves a call good.
LEMMA StaysGood ==
    ASSUME NEW c, NEW x, NEW d \in CallType, NEW fr, Good(c, x), Stays(c, d, fr),
           SameCall(c, d), d.told = c.told, WarningOK(d)
    PROVE  Good(d, x)
<1>1. c \in CallType /\ CallOK(c) /\ x \in ContextType /\ c.frames # <<>> /\ fr \in FrameType
  BY DEF Good, Stays
<1>2. PICK n \in Nat : n = Len(c.frames) /\ n # 0
  BY <1>1, TopType
<1>3. /\ Len(d.frames) = n /\ d.frames[n] = fr
      /\ \A k \in 1..n : k # n => d.frames[k] = c.frames[k]
  BY <1>1, <1>2, TopReplaced DEF Stays
<1>4. Top(d) = fr /\ Top(c) = c.frames[n]
  BY <1>2, <1>3 DEF Top
<1>5. ASSUME NEW k \in 1..n
      PROVE  /\ d.frames[k].key = c.frames[k].key /\ d.frames[k].level = c.frames[k].level
             /\ Ahead(d, k) \subseteq Ahead(c, k) /\ DistinctKeys(d.frames[k].todo)
  <2>1. CASE k = n
    BY <1>2, <1>3, <1>4, <2>1 DEF Stays, Ahead
  <2>2. CASE k # n
    <3>1. d.frames[k] = c.frames[k] /\ DistinctKeys(c.frames[k].todo)
      BY <1>1, <1>2, <1>3, <2>2 DEF CallOK
    <3> QED
      BY <1>2, <1>3, <2>2, <3>1 DEF Ahead
  <2> QED
    BY <2>1, <2>2
<1>6. Moves(c, d)
  BY <1>2, <1>3, <1>5 DEF Moves, Stays
<1>7. ASSUME NEW k \in 1..n
      PROVE  /\ k < n \/ Descends(d) => d.frames[k].key # NoKey
             /\ d.frames[k].key \notin Ahead(d, k)
  <2>1. k < n => c.frames[k].key # NoKey
    BY <1>1, <1>2 DEF CallOK
  <2>2. Descends(d) => c.frames[n].key # NoKey
    BY <1>1, <1>4, EntryKey DEF Stays
  <2>3. c.frames[k].key \notin Ahead(c, k)
    BY <1>1, <1>2 DEF CallOK
  <2> QED
    BY <1>5, <2>1, <2>2, <2>3
<1>8. d.frames # <<>>
  BY <1>2, <1>3, EmptySeq
<1>9. CallOK(d)
  BY <1>3, <1>4, <1>5, <1>7, <1>8 DEF CallOK, Stays
<1>10. ~d.reentered => Linked(d, x)
  BY <1>1, <1>6, MovesLinked DEF Good, SameCall
<1> QED
  BY <1>1, <1>9, <1>10 DEF Good

\* Perl code starts, or returns.
LEMMA ResumesGood ==
    ASSUME NEW c, NEW x, NEW d \in CallType, Good(c, x), SameRest(c, d), d.frames = c.frames,
           Descends(d) <=> Descends(c), AtEntry(d) <=> AtEntry(c),
           Resumes(d, {"put", "encode"}) <=> Resumes(c, {"put", "encode"}),
           ~(d.stage = "perl" /\ d.then = "skip")
    PROVE  Good(d, x)
<1>1. c \in CallType /\ CallOK(c) /\ x \in ContextType
  BY DEF Good
<1>2. \A k : Ahead(d, k) = Ahead(c, k)
  BY DEF Ahead
<1>3. Top(d) = Top(c)
  BY DEF Top
<1>4. CallOK(d)
  BY <1>1, <1>2, <1>3, Zenon DEF CallOK
<1>5. Moves(c, d)
  BY <1>2 DEF Moves, SameRest
<1>6. ~d.reentered => Linked(d, x)
  BY <1>1, <1>5, MovesLinked DEF Good, SameRest, SameCall
<1>7. WarningOK(d)
  BY DEF Good, WarningOK, SameRest, SameCall
<1> QED
  BY <1>1, <1>4, <1>6, <1>7 DEF Good

\* The call goes to the next entry of the innermost frame, which becomes fr.
GoesTo(c, d, fr) ==
    /\ c.stage = "look" /\ Top(c).todo # <<>>
    /\ c.frames # <<>> /\ fr \in FrameType /\ d.frames = [c.frames EXCEPT ![Len(c.frames)] = fr]
    /\ fr.key = Top(c).todo[1].key /\ fr.level = Top(c).level /\ DistinctKeys(fr.todo)
    /\ KeysFrom(fr.todo, 2) = KeysFrom(Top(c).todo, 2)
    /\ AtEntry(d) /\ fr.todo # <<>> /\ fr.todo[1].key = fr.key
    /\ Resumes(d, {"put", "encode"}) /\ fr.kind = "message" => Has(fr.type, fr.todo[1].key)

\* A step that goes to another key leaves it good.
LEMMA GoesToGood ==
    ASSUME NEW c, NEW x, NEW d \in CallType, NEW fr, NEW y, Good(c, x), GoesTo(c, d, fr),
           SameCall(c, d), d.warning = c.warning, y = SetKey(x, Top(c).level, fr.key),
           \/ d.told = c.told /\ ~(d.stage = "perl" /\ d.then = "skip")
           \/ \E a \in d.told : TellsPath(a, y) /\ d.told = c.told \cup {a}
    PROVE  Good(d, y)
<1>1. c \in CallType /\ CallOK(c) /\ x \in ContextType /\ c.frames # <<>> /\ fr \in FrameType
  BY DEF Good, GoesTo
<1>2. PICK n \in Nat : n = Len(c.frames) /\ n # 0
  BY <1>1, TopType
<1>3. /\ Len(d.frames) = n /\ d.frames[n] = fr
      /\ \A k \in 1..n : k # n => d.frames[k] = c.frames[k]
  BY <1>1, <1>2, TopReplaced DEF GoesTo
<1>4. Top(d) = fr /\ Top(c) = c.frames[n] /\ n \in 1..n
  BY <1>2, <1>3 DEF Top
<1>5. ~AtEntry(c) /\ ~Descends(c)
  BY DEF GoesTo, AtEntry, Descends, Resumes
<1>6. Top(c) \in FrameType /\ DistinctKeys(Top(c).todo)
  BY <1>1, <1>2, <1>4, TopType DEF CallOK
<1>7. /\ Top(c).todo[1].key \in Names /\ Top(c).todo[1].key \notin KeysFrom(Top(c).todo, 2)
      /\ KeysFrom(Top(c).todo, 2) \subseteq KeysFrom(Top(c).todo, 1)
      /\ Top(c).todo[1].key \in KeysFrom(Top(c).todo, 1)
  <2>1. Top(c).todo \in Seq(Entries) /\ Top(c).todo # <<>>
    BY <1>6 DEF FrameType, GoesTo
  <2>2. Top(c).todo[1] \in Entries
    BY <1>6, <2>1, TailIs
  <2> QED
    BY <1>6, <2>1, <2>2, TailIs DEF Entries
<1>8. Ahead(c, n) = KeysFrom(Top(c).todo, 1) /\ Ahead(d, n) = KeysFrom(Top(c).todo, 2)
  BY <1>2, <1>3, <1>4, <1>5 DEF Ahead, GoesTo
<1>9. fr.key \in Names /\ Advances(c, d, fr.key)
  BY <1>1, <1>2, <1>3, <1>4, <1>5, <1>7, <1>8 DEF Advances, GoesTo
<1>10. ASSUME NEW k \in 1..n
      PROVE  /\ k < n => d.frames[k].key # NoKey
             /\ d.frames[k].key \notin Ahead(d, k)
             /\ DistinctKeys(d.frames[k].todo)
  <2>1. CASE k = n
    BY <1>3, <1>7, <1>8, <2>1 DEF GoesTo
  <2>2. CASE k # n
    <3>1. d.frames[k] = c.frames[k] /\ Ahead(d, k) = Ahead(c, k)
      BY <1>2, <1>3, <2>2 DEF Ahead
    <3> QED
      BY <1>1, <1>2, <3>1 DEF CallOK
  <2> QED
    BY <2>1, <2>2
<1>11. d.frames # <<>> /\ ~Descends(d)
  <2>1. d.frames # <<>>
    BY <1>2, <1>3, EmptySeq
  <2> QED
    BY <2>1 DEF GoesTo, AtEntry, Descends, Resumes
<1>12. CallOK(d)
  BY <1>3, <1>4, <1>10, <1>11 DEF CallOK, GoesTo
<1>13. y \in ContextType
  <2>1. Top(c).level \in Nat /\ fr.key \in Keys
    BY <1>6, <1>9 DEF FrameType, Keys
  <2> QED
    BY <1>1, <2>1, SetKeyType
<1>14. ~d.reentered => Linked(d, y)
  <2> SUFFICES ASSUME ~d.reentered PROVE Linked(d, y)
    OBVIOUS
  <2>1. Linked(c, x)
    BY DEF Good, SameCall
  <2> QED
    BY <1>1, <1>9, <2>1, AdvancesLinked
<1>15. WarningOK(d)
  BY DEF Good, WarningOK, SameCall
<1> QED
  BY <1>12, <1>13, <1>14, <1>15 DEF Good

\* A frame fr starts within those of c, whose innermost may have passed its entry.
Starts(c, d, x, base, fr) ==
    /\ fr \in FrameType /\ base \in Seq(FrameType) /\ Len(base) = Len(c.frames)
    /\ d.frames = Append(base, fr)
    /\ fr.key = NoKey /\ fr.level = x.next + 1 /\ DistinctKeys(fr.todo)
    /\ \A k \in 1..Len(c.frames) :
          /\ base[k].key = c.frames[k].key /\ base[k].level = c.frames[k].level
          /\ DistinctKeys(base[k].todo) /\ KeysFrom(base[k].todo, 1) \subseteq Ahead(c, k)
    /\ Descends(c) \/ AtEntry(c)
    /\ ~Descends(d) /\ ~AtEntry(d)

\* A step that starts a message, a list or a map leaves it good.
LEMMA StartsGood ==
    ASSUME NEW c, NEW x, NEW d \in CallType, NEW base, NEW fr, Good(c, x),
           Starts(c, d, x, base, fr), SameRest(c, d)
    PROVE  Good(d, PushLevel(x))
<1>1. c \in CallType /\ CallOK(c) /\ x \in ContextType
  BY DEF Good
<1>2. PICK n \in Nat : n = Len(c.frames)
  BY <1>1, FramesType
<1>3. /\ Len(d.frames) = n + 1 /\ d.frames[n + 1] = fr /\ d.frames # <<>>
      /\ \A k \in 1..n : d.frames[k] = base[k]
  BY <1>2, AppendProperties DEF Starts
<1>4. Top(d) = fr
  BY <1>2, <1>3 DEF Top
<1>5. ASSUME NEW k \in 1..n
      PROVE  /\ d.frames[k].key = c.frames[k].key /\ d.frames[k].level = c.frames[k].level
             /\ DistinctKeys(d.frames[k].todo) /\ Ahead(d, k) \subseteq Ahead(c, k)
             /\ d.frames[k].key # NoKey
  <2>1. Ahead(d, k) = KeysFrom(base[k].todo, 1)
    BY <1>2, <1>3 DEF Ahead
  <2>2. c.frames[k].key # NoKey
    <3>1. CASE k < n \/ Descends(c)
      BY <1>1, <1>2, <3>1 DEF CallOK
    <3>2. CASE k = n /\ AtEntry(c)
      <4>1. c.frames # <<>>
        BY <1>2, <3>2, EmptySeq
      <4> QED
        BY <1>1, <1>2, <3>2, <4>1, EntryKey DEF Top
    <3> QED
      BY <1>2, <3>1, <3>2 DEF Starts
  <2> QED
    BY <1>2, <1>3, <2>1, <2>2 DEF Starts
<1>6. fr.key \notin Ahead(d, n + 1)
  <2>1. fr.todo \in Seq(Entries)
    BY DEF Starts, FrameType
  <2>2. \A j \in 1..Len(fr.todo) : fr.todo[j] \in Entries
    BY <2>1, LenProperties
  <2>3. \A j \in 1..Len(fr.todo) : fr.todo[j].key # NoKey
    BY <2>2, NoKeyIs DEF Entries
  <2> QED
    BY <1>3, <2>3 DEF Ahead, KeysFrom, Starts
<1>7. CallOK(d)
  <2>1. ~AtEntry(d) /\ ~Resumes(d, {"put", "encode"})
    BY DEF Starts, AtEntry, Resumes
  <2>2. ASSUME NEW k \in 1..(n + 1)
        PROVE  /\ k < n + 1 \/ Descends(d) => d.frames[k].key # NoKey
               /\ DistinctKeys(d.frames[k].todo) /\ d.frames[k].key \notin Ahead(d, k)
    <3>1. CASE k = n + 1
      BY <1>3, <1>6, <3>1 DEF Starts
    <3>2. CASE k \in 1..n
      <4>1. c.frames[k].key \notin Ahead(c, k)
        BY <1>1, <1>2, <3>2 DEF CallOK
      <4> QED
        BY <1>5, <3>2, <4>1
    <3> QED
      BY <3>1, <3>2
  <2> QED
    BY <1>3, <2>1, <2>2 DEF CallOK
<1>8. Pushes(c, d, x)
  BY <1>2, <1>3, <1>4, <1>5 DEF Pushes, Starts, SameRest
<1>9. ~d.reentered => Linked(d, PushLevel(x))
  BY <1>1, <1>8, PushesLinked DEF Good, SameRest, SameCall
<1>10. PushLevel(x) \in ContextType
  BY <1>1, PushLevelIs
<1>11. WarningOK(d)
  BY DEF Good, WarningOK, SameRest, SameCall
<1> QED
  BY <1>7, <1>9, <1>10, <1>11 DEF Good

\* The innermost frame of several is done.
LEMMA FinishesGood ==
    ASSUME NEW c, NEW x, NEW d \in CallType, Good(c, x), SameRest(c, d), c.stage = "look",
           d.stage = "look", Len(c.frames) # 1, d.frames = Front(c.frames)
    PROVE  Good(d, PopLevel(x))
<1>1. c \in CallType /\ CallOK(c) /\ x \in ContextType
  BY DEF Good
<1>2. ~AtEntry(c) /\ ~Descends(c) /\ ~AtEntry(d) /\ ~Descends(d) /\ ~Resumes(d, {"put", "encode"})
  BY DEF AtEntry, Descends, Resumes
<1>3. c.frames # <<>>
  BY <1>1, <1>2 DEF CallOK
<1>4. PICK n \in Nat : Len(c.frames) = n + 1 /\ n # 0
  <2>1. Len(c.frames) \in Nat /\ Len(c.frames) # 0
    BY <1>1, <1>3, TopType
  <2>2. Len(c.frames) - 1 \in Nat
    BY <2>1
  <2> WITNESS Len(c.frames) - 1 \in Nat
  <2> QED
    BY <2>1
<1>5. Len(d.frames) = n /\ (\A k \in 1..n : d.frames[k] = c.frames[k]) /\ d.frames # <<>>
  <2>1. \A k \in 1..n : c.frames[k] \in FrameType
    BY <1>1, <1>4, FramesType
  <2>2. d.frames = SubSeq(c.frames, 1, n)
    BY <1>4 DEF Front
  <2>3. Len(d.frames) = n /\ \A k \in 1..n : d.frames[k] = c.frames[k]
    BY <1>4, <2>1, <2>2, SubSeqProperties
  <2> QED
    BY <1>4, <2>3, EmptySeq
<1>6. Pops(c, d)
  BY <1>2, <1>4, <1>5 DEF Pops, SameRest
<1>7. \A k \in 1..n : Ahead(d, k) = Ahead(c, k)
  BY <1>2, <1>4, <1>5 DEF Ahead
<1>8. CallOK(d)
  <2>1. ASSUME NEW k \in 1..n
        PROVE  /\ c.frames[k].key # NoKey /\ DistinctKeys(c.frames[k].todo)
               /\ c.frames[k].key \notin Ahead(c, k)
    BY <1>1, <1>4 DEF CallOK
  <2> QED
    BY <1>2, <1>5, <1>7, <2>1 DEF CallOK
<1>9. ~d.reentered => Linked(d, PopLevel(x))
  BY <1>1, <1>6, PopsLinked DEF Good, SameRest, SameCall
<1>10. PopLevel(x) \in ContextType
  BY <1>1, PopLevelIs
<1>11. WarningOK(d)
  BY DEF Good, WarningOK, SameRest, SameCall
<1> QED
  BY <1>8, <1>9, <1>10, <1>11 DEF Good

------------------------------------------------------------------------------
(* Where the innermost call is, at each stage.                                    *)

\* A step that touches no context touches none of another call.
LEMMA ContextKept ==
    ASSUME IInv, Running, UNCHANGED contexts
    PROVE  ContextsKept /\ contexts'[This] = Context
  BY DEF IInv, Typed, ContextsKept, Context

\* A step that writes its own context touches none of another call that relies on its own.
LEMMA ContextChanged ==
    ASSUME IInv, Running, NEW y \in ContextType, WithContext(y)
    PROVE  ContextsKept /\ contexts'[This] = y
<1>1. This \in Mappers
  BY CallIs
<1> QED
  BY <1>1 DEF IInv, Typed, ContextsKept, WithContext

\* The innermost call goes on, in the same context.
LEMMA GoesOn ==
    ASSUME IInv, Running, UNCHANGED contexts, Quietly, NEW d, WithCall(d), Good(d, Context),
           SameCall(Call, d)
    PROVE  IInv'
<1>1. ContextsKept /\ contexts'[This] = Context
  BY ContextKept
<1>2. hook' \in Hooks /\ UNCHANGED <<status, decoderError, warnContext, count>>
  BY DEF Quietly, IInv, Typed
<1> QED
  BY <1>1, <1>2, Continues

\* The innermost frame, and the first of its entries.
LEMMA TodoIs ==
    ASSUME IInv, Running, Call.frames # <<>>, Inner.todo # <<>>
    PROVE  /\ Call \in CallType /\ Inner = Top(Call) /\ Level = Len(Call.frames)
           /\ Level \in 1..Level /\ DOMAIN Call.frames = 1..Level /\ Level \in Nat
           /\ Inner \in FrameType /\ Inner.todo \in Seq(Entries) /\ DistinctKeys(Inner.todo)
           /\ Next1 = Inner.todo[1] /\ Next1 \in Entries /\ Next1.key \in Names
           /\ Next1.value \in Values
<1>1. Call \in CallType /\ CallOK(Call)
  BY CallIs DEF Good
<1>2. Inner = Top(Call) /\ Level = Len(Call.frames)
  BY DEF Inner, Top, Level
<1>3. Level \in 1..Level /\ DOMAIN Call.frames = 1..Level /\ Inner \in FrameType /\ Level \in Nat
  BY <1>1, <1>2, TopType
<1>4. Inner.todo \in Seq(Entries) /\ DistinctKeys(Inner.todo)
  BY <1>1, <1>2, <1>3 DEF FrameType, CallOK, Inner, Level
<1>5. Next1 = Inner.todo[1] /\ Next1 \in Entries
  BY <1>4, TailIs DEF Next1
<1>6. Next1.key \in Names /\ Next1.value \in Values
  BY <1>5 DEF Entries
<1> QED
  BY <1>1, <1>2, <1>3, <1>4, <1>5, <1>6

\* A call that looks for the next entry is in some frame.
LEMMA LookIs ==
    ASSUME IInv, At("look")
    PROVE  Running /\ Call.frames # <<>> /\ ~AtEntry(Call) /\ ~Descends(Call)
<1>1. Running /\ Call.stage = "look"
  BY DEF At
<1>2. CallOK(Call)
  BY <1>1, CallIs DEF Good
<1> QED
  BY <1>1, <1>2 DEF CallOK, AtEntry, Descends, Resumes

\* A call at an entry has it at hand, and in a message its field is one of the type's.
LEMMA EntryIs ==
    ASSUME IInv, Running, Call.stage \in {"put", "encode", "skip"}
    PROVE  /\ Call.frames # <<>> /\ Inner.todo # <<>> /\ AtEntry(Call) /\ ~Descends(Call)
           /\ Next1.key = Inner.key
           /\ Call.stage # "skip" /\ Inner.kind = "message" => Has(Type, Next1.key)
<1>1. CallOK(Call)
  BY CallIs DEF Good
<1>2. AtEntry(Call) /\ ~Descends(Call)
      /\ (Call.stage # "skip" => Resumes(Call, {"put", "encode"}))
  BY DEF AtEntry, Descends, Resumes
<1>3. Inner = Top(Call) /\ Type = Top(Call).type /\ Next1 = Top(Call).todo[1]
  BY DEF Inner, Top, Level, Type, Next1
<1> QED
  BY <1>1, <1>2, <1>3 DEF CallOK

\* Fields the encoder makes: of an item, and of the outermost message.
LEMMA FldIs ==
    ASSUME NEW name \in Names \cup {"root"}, NEW type \in Mappers \cup {"scalar", "enum"}
    PROVE  Fld(name, type, "one", FALSE, "none", TRUE) \in FieldSet
  BY DEF Fld, FieldSet

\* The field an entry is of.
LEMMA FieldIs ==
    ASSUME IInv, Running, Inner \in FrameType, Inner.kind = "message" => Has(Type, Next1.key)
    PROVE  Field \in FieldSet
<1>1. Inner.type \in Mappers /\ Inner.field \in FieldSet
  BY DEF FrameType
<1>2. CASE Inner.kind = "message"
  <2>1. FieldsNamed(Type, Next1.key) # {}
    BY <1>2 DEF Has
  <2>2. Field \in FieldsNamed(Type, Next1.key)
    BY <1>2, <2>1 DEF Field, FieldOf
  <2>3. Fields[Type] \in Seq(FieldSet)
    BY <1>1, FieldsAssumption DEF Type
  <2>4. \A i \in DOMAIN Fields[Type] : Fields[Type][i] \in FieldSet
    BY <2>3, LenProperties
  <2> QED
    BY <2>2, <2>4 DEF FieldsNamed, Range
<1>3. CASE Inner.kind # "message"
  <2>1. PICK f \in FieldSet : f = Inner.field
    BY <1>1
  <2>2. Field = Item(f)
    BY <1>3, <2>1 DEF Field
  <2>3. f.name \in Names \cup {"root"} /\ f.type \in Mappers \cup {"scalar", "enum"}
    BY DEF FieldSet
  <2>4. Item(f) \in FieldSet
    BY <2>3, FldIs DEF Item
  <2> QED
    BY <2>2, <2>4
<1> QED
  BY <1>2, <1>3

\* A call writes events.
LEMMA WroteType ==
    ASSUME Call \in CallType, NEW events \in Seq(Events)
    PROVE  Wrote(events) \in Seq(Events)
<1>1. Call.out \in Seq(Events)
  BY DEF CallType
<1> QED
  BY <1>1, ConcatProperties DEF Wrote

\* The innermost frame after its first entry.
PassedFrame == [Inner EXCEPT !.todo = Tail(Inner.todo)]

\* A frame passes the first of its entries and keeps its key.
LEMMA PassedFrameIs ==
    ASSUME IInv, Running, Call.frames # <<>>, Inner.todo # <<>>
    PROVE  /\ PassedFrame \in FrameType /\ PassedFrame.key = Inner.key
           /\ PassedFrame.level = Inner.level /\ DistinctKeys(PassedFrame.todo)
           /\ KeysFrom(PassedFrame.todo, 1) = KeysFrom(Inner.todo, 2)
           /\ KeysFrom(Inner.todo, 2) \subseteq KeysFrom(Inner.todo, 1)
<1>1. Inner \in FrameType /\ Inner.todo \in Seq(Entries) /\ DistinctKeys(Inner.todo)
  BY TodoIs
<1>2. /\ Tail(Inner.todo) \in Seq(Entries) /\ DistinctKeys(Tail(Inner.todo))
      /\ KeysFrom(Tail(Inner.todo), 1) = KeysFrom(Inner.todo, 2)
      /\ KeysFrom(Inner.todo, 2) \subseteq KeysFrom(Inner.todo, 1)
  BY <1>1, TailIs
<1>3. PassedFrame.todo = Tail(Inner.todo) /\ PassedFrame.key = Inner.key
      /\ PassedFrame.level = Inner.level
  BY <1>1 DEF PassedFrame, FrameType
<1>4. PassedFrame \in FrameType
  BY <1>1, <1>2 DEF PassedFrame, FrameType
<1> QED
  BY <1>2, <1>3, <1>4

\* The call that passed it goes on to look.
LEMMA PassedIs ==
    ASSUME IInv, Running, Call.frames # <<>>, Inner.todo # <<>>
    PROVE  /\ Passed(Call) \in CallType /\ SameRest(Call, Passed(Call))
           /\ Passed(Call).frames = [Call.frames EXCEPT ![Level] = PassedFrame]
           /\ Passed(Call).stage = "look"
<1>1. PICK c \in CallType : c = Call
  BY TodoIs
<1> DEFINE frames == [c.frames EXCEPT ![Level] = PassedFrame]
<1>2. frames \in Seq(FrameType)
  BY <1>1, PassedFrameIs, TopReplaced DEF Level
<1>3. Inner = c.frames[Level]
  BY <1>1 DEF Inner
<1>4. Passed(c) = [c EXCEPT !.frames = frames, !.stage = "look"]
  BY <1>3 DEF Passed, PassedFrame
<1> HIDE DEF frames
<1>5. Passed(c) \in CallType
  BY <1>2, <1>4 DEF CallType, Stages
<1>6. SameRest(c, Passed(c)) /\ Passed(c).frames = frames /\ Passed(c).stage = "look"
  BY <1>4 DEF SameRest, SameCall, CallType
<1> QED
  BY <1>1, <1>5, <1>6 DEF frames

\* A step that passes an entry.
LEMMA PassedInv ==
    ASSUME IInv, Running, Call.frames # <<>>, Inner.todo # <<>>, NEW d \in CallType,
           SameRest(Call, d), d.frames = [Call.frames EXCEPT ![Level] = PassedFrame],
           ~AtEntry(d), d.stage # "perl", Descends(d) => AtEntry(Call),
           WithCall(d), UNCHANGED contexts, Quietly
    PROVE  IInv'
<1>1. Good(Call, Context)
  BY CallIs
<1>2. Inner = Top(Call) /\ Level = Len(Call.frames)
  BY DEF Inner, Top, Level
<1>3. ~Resumes(d, {"put", "encode"})
  BY DEF AtEntry, Resumes
<1>4. Stays(Call, d, PassedFrame)
  BY <1>2, <1>3, PassedFrameIs DEF Stays
<1>5. SameCall(Call, d) /\ d.told = Call.told /\ WarningOK(d)
  BY <1>1 DEF SameRest, SameCall, Good, WarningOK
<1>6. Good(d, Context)
  BY <1>1, <1>4, <1>5, StaysGood
<1> QED
  BY <1>5, <1>6, GoesOn

------------------------------------------------------------------------------
(* One lemma for each step.                                                      *)

\* A message's transformation starts, and the call waits for it.
LEMMA TransformInv == IInv /\ Transform => IInv'
<1> SUFFICES ASSUME IInv, Transform PROVE IInv'
  OBVIOUS
<1>1. Running /\ Call.stage = "enter" /\ WithCall(Perl(Call, "open")) /\ UNCHANGED contexts /\ Quietly
  BY DEF Transform, At
<1>2. Good(Call, Context) /\ Call \in CallType
  BY <1>1, CallIs DEF Good
<1> DEFINE d == Perl(Call, "open")
<1>3. /\ d \in CallType /\ d.stage = "perl" /\ d.then = "open" /\ d.frames = Call.frames
      /\ SameRest(Call, d)
  <2>1. d \in CallType
    BY <1>2 DEF Perl, CallType, Stages
  <2> QED
    BY <1>2, <2>1 DEF Perl, CallType, SameRest, SameCall
<1> HIDE DEF d
<1>4. Good(d, Context)
  BY <1>1, <1>2, <1>3, ResumesGood DEF Resumes, Descends, AtEntry
<1> QED
  BY <1>1, <1>3, <1>4, GoesOn DEF SameRest, d

\* A message starts, with a level of its own, and the entries of its hash are ahead.
LEMMA OpenInv == IInv /\ Open => IInv'
<1> SUFFICES ASSUME IInv, Open PROVE IInv'
  OBVIOUS
<1> DEFINE fr == Frame("message", Root(Call.type), Call.type, Visits(Call.type, Call.arg))
           e == [Call EXCEPT !.frames = Append(@, fr), !.out = Wrote(<<"(">>)]
           d == IF Style[Call.type] = "table" THEN Perl(e, "look") ELSE [e EXCEPT !.stage = "look"]
<1>1. /\ Running /\ Call.stage \in {"enter", "open"} /\ WithCall(d)
      /\ WithContext(PushLevel(Context)) /\ Quietly
  BY DEF Open, Opens, At
<1>2. Good(Call, Context) /\ Call \in CallType /\ Context \in ContextType
  BY <1>1, CallIs DEF Good
<1>3. Call.type \in Mappers /\ Call.arg \in Values /\ Call.frames \in Seq(FrameType)
  BY <1>2 DEF CallType
<1>4. /\ fr \in FrameType /\ fr.key = NoKey /\ fr.level = Context.next + 1
      /\ DistinctKeys(fr.todo)
  <2>1. Root(Call.type) \in FieldSet
    BY <1>3, FldIs DEF Root
  <2>2. Context.next \in Nat
    BY <1>2 DEF ContextType
  <2>3. Visits(Call.type, Call.arg) \in Seq(Entries) /\ DistinctKeys(Visits(Call.type, Call.arg))
    BY <1>3, VisitsDistinct
  <2>4. NoKey \in Keys /\ Context.next + 1 \in Nat
    BY <2>2 DEF Keys
  <2>5. PICK root \in FieldSet : root = Root(Call.type)
    BY <2>1
  <2>6. PICK todo \in Seq(Entries) : todo = Visits(Call.type, Call.arg)
    BY <2>3
  <2>7. fr = [kind |-> "message", field |-> root, type |-> Call.type, todo |-> todo, key |-> NoKey,
              oneofs |-> {}, seen |-> {}, level |-> Context.next + 1]
    BY <2>5, <2>6, Zenon DEF Frame
  <2>8. fr \in FrameType
    BY <1>3, <2>4, <2>7 DEF FrameType
  <2> QED
    BY <2>3, <2>6, <2>7, <2>8
<1> HIDE DEF fr
<1>5. Wrote(<<"(">>) \in Seq(Events)
  <2>1. <<"(">> \in Seq(Events)
    BY DEF Events
  <2> QED
    BY <1>2, <2>1, WroteType
<1>6. Append(Call.frames, fr) \in Seq(FrameType)
  BY <1>3, <1>4, AppendProperties
<1>7. e \in CallType /\ e.frames = Append(Call.frames, fr) /\ SameRest(Call, e)
  <2>1. PICK c \in CallType : c = Call
    BY <1>2
  <2>2. PICK frames \in Seq(FrameType) : frames = Append(c.frames, fr)
    BY <1>6, <2>1
  <2>3. PICK out \in Seq(Events) : out = Wrote(<<"(">>)
    BY <1>5
  <2>4. e = [c EXCEPT !.frames = frames, !.out = out]
    BY <2>1, <2>2, <2>3
  <2> HIDE DEF e
  <2>5. e \in CallType
    BY <2>4 DEF CallType
  <2>6. e.frames = frames /\ SameRest(c, e)
    BY <2>4 DEF CallType, SameRest, SameCall
  <2> QED
    BY <2>1, <2>2, <2>5, <2>6
<1> HIDE DEF e
<1>8. /\ d \in CallType /\ d.frames = Append(Call.frames, fr) /\ SameRest(Call, d)
      /\ d.stage = "look" \/ (d.stage = "perl" /\ d.then = "look")
  <2>1. CASE Style[Call.type] = "table"
    <3>1. d = [e EXCEPT !.stage = "perl", !.then = "look"]
      BY <2>1 DEF Perl
    <3>2. d \in CallType
      BY <1>7, <3>1 DEF CallType, Stages
    <3> QED
      BY <1>7, <3>1, <3>2 DEF CallType, SameRest, SameCall
  <2>2. CASE Style[Call.type] # "table"
    <3>1. d = [e EXCEPT !.stage = "look"]
      BY <2>2
    <3>2. d \in CallType
      BY <1>7, <3>1 DEF CallType, Stages
    <3> QED
      BY <1>7, <3>1, <3>2 DEF CallType, SameRest, SameCall
  <2> QED
    BY <2>1, <2>2
<1> HIDE DEF d
<1>9. Descends(Call) /\ ~AtEntry(Call) /\ ~Descends(d) /\ ~AtEntry(d)
  BY <1>1, <1>8 DEF Descends, AtEntry, Resumes
<1>10. \A k \in 1..Len(Call.frames) :
          DistinctKeys(Call.frames[k].todo) /\ KeysFrom(Call.frames[k].todo, 1) = Ahead(Call, k)
  BY <1>2, <1>9 DEF Good, CallOK, Ahead
<1>11. Starts(Call, d, Context, Call.frames, fr)
  BY <1>3, <1>4, <1>8, <1>9, <1>10 DEF Starts
<1>12. Good(d, PushLevel(Context))
  BY <1>2, <1>8, <1>11, StartsGood
<1>13. ContextsKept /\ contexts'[This] = PushLevel(Context)
  BY <1>1, <1>2, PushLevelIs, ContextChanged
<1>14. hook' \in Hooks /\ UNCHANGED <<status, decoderError, warnContext, count>>
  BY <1>1 DEF Quietly, IInv, Typed
<1> QED
  BY <1>1, <1>8, <1>12, <1>13, <1>14, Continues DEF SameRest

\* An entry is left out before its key is set.
LEMMA OverlookInv == IInv /\ Overlook => IInv'
<1> SUFFICES ASSUME IInv, Overlook PROVE IInv'
  OBVIOUS
<1>1. At("look") /\ Inner.todo # <<>> /\ WithCall(Passed(Call)) /\ UNCHANGED contexts /\ Quietly
  BY DEF Overlook, Visiting
<1>2. Running /\ Call.frames # <<>>
  BY <1>1, LookIs
<1>3. /\ Passed(Call) \in CallType /\ SameRest(Call, Passed(Call)) /\ Passed(Call).stage = "look"
      /\ Passed(Call).frames = [Call.frames EXCEPT ![Level] = PassedFrame]
  BY <1>1, <1>2, PassedIs
<1>4. ~AtEntry(Passed(Call)) /\ ~Descends(Passed(Call)) /\ Passed(Call).stage # "perl"
  BY <1>3 DEF AtEntry, Descends, Resumes
<1> QED
  BY <1>1, <1>2, <1>3, <1>4, PassedInv

\* An entry whose key is set, but that is not encoded, is passed.
LEMMA SkipInv == IInv /\ Skip => IInv'
<1> SUFFICES ASSUME IInv, Skip PROVE IInv'
  OBVIOUS
<1>1. Running /\ Call.stage = "skip" /\ WithCall(Passed(Call)) /\ UNCHANGED contexts /\ Quietly
  BY DEF Skip, At
<1>2. Call.frames # <<>> /\ Inner.todo # <<>>
  BY <1>1, EntryIs
<1>3. /\ Passed(Call) \in CallType /\ SameRest(Call, Passed(Call)) /\ Passed(Call).stage = "look"
      /\ Passed(Call).frames = [Call.frames EXCEPT ![Level] = PassedFrame]
  BY <1>1, <1>2, PassedIs
<1>4. ~AtEntry(Passed(Call)) /\ ~Descends(Passed(Call)) /\ Passed(Call).stage # "perl"
  BY <1>3 DEF AtEntry, Descends, Resumes
<1> QED
  BY <1>1, <1>2, <1>3, <1>4, PassedInv

\* The innermost frame with the key it comes to.
KeyedFrame == [Inner EXCEPT !.key = Next1.key]

\* The frame that goes to the key of its first entry.
LEMMA KeyedIs ==
    ASSUME IInv, Running, Call.frames # <<>>, Inner.todo # <<>>
    PROVE  /\ KeyedFrame \in FrameType /\ KeyedFrame.key = Next1.key
           /\ KeyedFrame.level = Inner.level /\ KeyedFrame.todo = Inner.todo
           /\ KeyedFrame.kind = Inner.kind /\ KeyedFrame.type = Inner.type
           /\ Keyed \in CallType /\ SameRest(Call, Keyed) /\ Keyed.stage = Call.stage
           /\ Keyed.frames = [Call.frames EXCEPT ![Level] = KeyedFrame]
<1>1. PICK c \in CallType : c = Call
  BY TodoIs
<1>2. Inner \in FrameType /\ Next1.key \in Names
  BY TodoIs
<1>3. KeyedFrame \in FrameType
  BY <1>2 DEF KeyedFrame, FrameType, Keys
<1>4. /\ KeyedFrame.key = Next1.key /\ KeyedFrame.level = Inner.level
      /\ KeyedFrame.todo = Inner.todo /\ KeyedFrame.kind = Inner.kind
      /\ KeyedFrame.type = Inner.type
  BY <1>2 DEF KeyedFrame, FrameType
<1> DEFINE frames == [c.frames EXCEPT ![Level] = KeyedFrame]
<1>5. frames \in Seq(FrameType)
  BY <1>1, <1>3, TopReplaced DEF Level
<1>6. Keyed = [c EXCEPT !.frames = frames]
  BY <1>1 DEF Keyed, KeyedFrame, Inner
<1> HIDE DEF frames
<1>7. Keyed \in CallType
  BY <1>5, <1>6 DEF CallType
<1>8. SameRest(c, Keyed) /\ Keyed.frames = frames /\ Keyed.stage = c.stage
  BY <1>6 DEF SameRest, SameCall, CallType
<1> QED
  BY <1>1, <1>3, <1>4, <1>7, <1>8 DEF frames

\* A step to the next entry: what the call becomes, the context being told its key.
LEMMA AtNextInv ==
    ASSUME IInv, Visiting, AtNext, Quietly, NEW d \in CallType, NEW fr, WithCall(d),
           GoesTo(Call, d, fr), SameCall(Call, d), d.warning = Call.warning,
           \/ d.told = Call.told /\ ~(d.stage = "perl" /\ d.then = "skip")
           \/ \E a \in d.told : TellsPath(a, contexts'[This]) /\ d.told = Call.told \cup {a}
    PROVE  IInv'
<1>1. At("look") /\ Inner.todo # <<>>
  BY DEF Visiting
<1>2. Running /\ Call.frames # <<>>
  BY <1>1, LookIs
<1>3. Good(Call, Context) /\ Context \in ContextType
  BY <1>2, CallIs DEF Good
<1>4. Inner = Top(Call) /\ Inner \in FrameType /\ Next1 = Inner.todo[1] /\ Next1.key \in Names
  BY <1>1, <1>2, TodoIs
<1>5. PICK y : y = SetKey(Context, Inner.level, Next1.key)
  OBVIOUS
<1>6. y \in ContextType
  BY <1>3, <1>4, <1>5, SetKeyType DEF FrameType, Keys
<1>7. ContextsKept /\ contexts'[This] = y
  BY <1>2, <1>5, <1>6, ContextChanged DEF AtNext
<1>8. y = SetKey(Context, Top(Call).level, fr.key)
  BY <1>4, <1>5 DEF GoesTo
<1>9. Good(d, y)
  BY <1>3, <1>7, <1>8, GoesToGood
<1>10. hook' \in Hooks /\ UNCHANGED <<status, decoderError, warnContext, count>>
  BY DEF Quietly, IInv, Typed
<1> QED
  BY <1>2, <1>7, <1>9, <1>10, Continues

\* The next entry's key is written, and no path was told that goes on with it.
LEMMA LookInv == IInv /\ Look => IInv'
<1> SUFFICES ASSUME IInv, Look PROVE IInv'
  OBVIOUS
<1> DEFINE todo == <<Entry(Next1.key, Got(Next1.value))>> \o Tail(Inner.todo)
           skips == Style[Type] = "table" /\ Inner.kind = "message" /\ Field.oneof \in Inner.oneofs
           magic == [Keyed EXCEPT !.frames[Level].todo = todo]
<1>1. /\ Visiting /\ Known /\ AtNext /\ Quietly
      /\ WithCall(IF skips THEN [Keyed EXCEPT !.stage = "skip"]
                  ELSE IF Next1.value.is = "magic" THEN Perl(magic, "put")
                  ELSE [Keyed EXCEPT !.stage = "put"])
  BY DEF Look
<1>2. At("look") /\ Inner.todo # <<>>
  BY <1>1 DEF Visiting
<1>3. Running /\ Call.frames # <<>> /\ Call.stage = "look"
  BY <1>2, LookIs DEF At
<1>4. /\ KeyedFrame \in FrameType /\ KeyedFrame.key = Next1.key
      /\ KeyedFrame.level = Inner.level /\ KeyedFrame.todo = Inner.todo
      /\ KeyedFrame.kind = Inner.kind /\ KeyedFrame.type = Inner.type
      /\ Keyed \in CallType /\ SameRest(Call, Keyed)
      /\ Keyed.frames = [Call.frames EXCEPT ![Level] = KeyedFrame]
  BY <1>2, <1>3, KeyedIs
<1>5. /\ Call \in CallType /\ Inner = Top(Call) /\ Level = Len(Call.frames)
      /\ Inner.todo \in Seq(Entries) /\ DistinctKeys(Inner.todo)
      /\ Next1 = Inner.todo[1] /\ Next1 \in Entries /\ Next1.value \in Values
  BY <1>2, <1>3, TodoIs
<1>6. Inner.kind = "message" => Has(Inner.type, Inner.todo[1].key)
  BY <1>1, <1>5 DEF Known, Type
<1>7. ASSUME NEW stage \in {"skip", "put"}, WithCall([Keyed EXCEPT !.stage = stage])
      PROVE  IInv'
  <2> DEFINE d == [Keyed EXCEPT !.stage = stage]
  <2>1. d \in CallType
    BY <1>4, <1>7 DEF CallType, Stages
  <2>2. d.stage = stage /\ d.frames = Keyed.frames /\ SameRest(Call, d)
    BY <1>4 DEF CallType, SameRest, SameCall
  <2> HIDE DEF d
  <2>3. AtEntry(d) /\ d.stage # "perl"
    BY <1>7, <2>2 DEF AtEntry, Resumes
  <2>4. GoesTo(Call, d, KeyedFrame)
    BY <1>2, <1>3, <1>4, <1>5, <1>6, <2>2, <2>3 DEF GoesTo
  <2> QED
    BY <1>1, <1>7, <2>1, <2>2, <2>3, <2>4, AtNextInv DEF SameRest, d
<1>8. ASSUME Next1.value.is = "magic", WithCall(Perl(magic, "put")) PROVE IInv'
  <2> DEFINE d == Perl(magic, "put")
             fr == [KeyedFrame EXCEPT !.todo = todo]
             frames == [Call.frames EXCEPT ![Level] = fr]
  <2>1. Got(Next1.value) \in Values
    <3>1. PICK v \in Values : v = Next1.value
      BY <1>5
    <3>2. v.of \in Seq(Entries) /\ v.of # <<>>
      BY <1>8, <3>1, ValuesAssumption
    <3>3. v.of[1] \in Entries
      BY <3>2, LenProperties, EmptySeq
    <3> QED
      BY <1>8, <3>1, <3>3 DEF Got, Entries
  <2>2. /\ todo \in Seq(Entries) /\ todo # <<>> /\ todo[1].key = Next1.key /\ DistinctKeys(todo)
        /\ KeysFrom(todo, 2) = KeysFrom(Inner.todo, 2)
    BY <1>2, <1>5, <2>1, FirstReplaced
  <2> HIDE DEF todo
  <2>3. fr \in FrameType
    BY <1>4, <2>2 DEF FrameType
  <2>4. /\ fr.key = Next1.key /\ fr.level = Inner.level /\ fr.todo = todo
        /\ fr.kind = Inner.kind /\ fr.type = Inner.type
    BY <1>4 DEF FrameType
  <2>5. frames \in Seq(FrameType)
    BY <1>3, <1>5, <2>3, TopReplaced
  <2>6. magic = [Keyed EXCEPT !.frames = frames]
    <3>1. Keyed.frames[Level] = KeyedFrame
      <4>1. PICK c \in CallType : c = Call
        BY <1>5
      <4> QED
        BY <1>3, <1>4, <1>5, TopReplaced, TopType
    <3>2. [Keyed.frames EXCEPT ![Level] = fr] = frames
      BY <1>4
    <3> QED
      BY <3>1, <3>2
  <2>7. d = [Keyed EXCEPT !.frames = frames, !.stage = "perl", !.then = "put"]
    BY <2>6 DEF Perl
  <2> HIDE DEF d, fr, frames, magic
  <2>8. d \in CallType
    BY <1>4, <2>5, <2>7 DEF CallType, Stages
  <2>9. /\ d.stage = "perl" /\ d.then = "put" /\ d.frames = frames /\ SameRest(Call, d)
    BY <1>4, <2>7 DEF CallType, SameRest, SameCall
  <2>10. AtEntry(d) /\ d.then # "skip"
    BY <2>9 DEF AtEntry, Resumes
  <2>11. GoesTo(Call, d, fr)
    BY <1>2, <1>3, <1>5, <1>6, <2>2, <2>3, <2>4, <2>9, <2>10 DEF GoesTo, frames
  <2> QED
    BY <1>1, <1>8, <2>8, <2>9, <2>10, <2>11, AtNextInv DEF SameRest, d
<1> QED
  BY <1>1, <1>7, <1>8

\* The callback for unknown fields is told the path that set_map_key just wrote.
LEMMA UnknownInv == IInv /\ Unknown => IInv'
<1> SUFFICES ASSUME IInv, Unknown PROVE IInv'
  OBVIOUS
<1> DEFINE a == [path |-> Path(contexts'[This]), ids |-> Ids(contexts'[This])]
           told == [Keyed EXCEPT !.told = @ \cup {a}]
<1>1. /\ Visiting /\ ~Known /\ AtNext /\ Quietly
      /\ WithCall(IF Style[Type] = "hash" THEN Perl(told, "skip")
                  ELSE [Keyed EXCEPT !.stage = "skip"])
  BY DEF Unknown
<1>2. At("look") /\ Inner.todo # <<>>
  BY <1>1 DEF Visiting
<1>3. Running /\ Call.frames # <<>> /\ Call.stage = "look"
  BY <1>2, LookIs DEF At
<1>4. /\ KeyedFrame \in FrameType /\ KeyedFrame.key = Next1.key
      /\ KeyedFrame.level = Inner.level /\ KeyedFrame.todo = Inner.todo
      /\ Keyed \in CallType /\ SameRest(Call, Keyed)
      /\ Keyed.frames = [Call.frames EXCEPT ![Level] = KeyedFrame]
  BY <1>2, <1>3, KeyedIs
<1>5. /\ Inner = Top(Call) /\ Level = Len(Call.frames) /\ DistinctKeys(Inner.todo)
      /\ Next1 = Inner.todo[1] /\ Inner \in FrameType /\ Next1.key \in Names
  BY <1>2, <1>3, TodoIs
<1>6. ASSUME NEW d \in CallType, SameCall(Call, d), d.frames = Keyed.frames,
             d.stage = "skip" \/ (d.stage = "perl" /\ d.then = "skip")
      PROVE  GoesTo(Call, d, KeyedFrame)
  <2>1. AtEntry(d) /\ ~Resumes(d, {"put", "encode"})
    BY <1>6 DEF AtEntry, Resumes
  <2> QED
    BY <1>2, <1>3, <1>4, <1>5, <1>6, <2>1 DEF GoesTo
<1>7. CASE Style[Type] # "hash"
  <2> DEFINE d == [Keyed EXCEPT !.stage = "skip"]
  <2>1. d \in CallType
    BY <1>4 DEF CallType, Stages
  <2>2. d.stage = "skip" /\ d.frames = Keyed.frames /\ SameRest(Call, d)
    BY <1>4 DEF CallType, SameRest, SameCall
  <2>3. WithCall(d)
    BY <1>1, <1>7
  <2> HIDE DEF d
  <2> QED
    BY <1>1, <1>6, <2>1, <2>2, <2>3, AtNextInv DEF SameRest
<1>8. CASE Style[Type] = "hash"
  <2> DEFINE d == Perl(told, "skip")
  <2>1. a \in ToldType
    <3>1. contexts'[This] \in ContextType
      <4>1. Context \in ContextType /\ This \in Mappers
        BY <1>3, CallIs DEF Good
      <4>2. SetKey(Context, Inner.level, Next1.key) \in ContextType
        BY <1>5, <4>1, SetKeyType DEF FrameType, Keys
      <4> QED
        BY <1>1, <1>3, <4>2, ContextChanged DEF AtNext
    <3> QED
      BY <3>1, PathType DEF ToldType
  <2>2. TellsPath(a, contexts'[This])
    BY DEF TellsPath
  <2> HIDE DEF a
  <2>3. Keyed.told = Call.told
    BY <1>4 DEF SameRest
  <2>4. d = [Keyed EXCEPT !.told = @ \cup {a}, !.stage = "perl", !.then = "skip"]
    BY DEF Perl
  <2>5. WithCall(d)
    BY <1>1, <1>8 DEF a
  <2> HIDE DEF d
  <2>6. d \in CallType
    BY <1>4, <2>1, <2>4 DEF CallType, Stages
  <2>7. /\ d.stage = "perl" /\ d.then = "skip" /\ d.frames = Keyed.frames
        /\ d.told = Call.told \cup {a} /\ SameCall(Call, d) /\ d.warning = Call.warning
    BY <1>4, <2>3, <2>4 DEF CallType, SameRest, SameCall
  <2>8. \E b \in d.told : TellsPath(b, contexts'[This]) /\ d.told = Call.told \cup {b}
    BY <2>2, <2>7
  <2> QED
    BY <1>1, <1>6, <2>5, <2>6, <2>7, <2>8, AtNextInv
<1> QED
  BY <1>7, <1>8

\* An entry is passed, or its field is marked and goes on to be encoded.
LEMMA PutInv == IInv /\ Put => IInv'
<1> SUFFICES ASSUME IInv, Put PROVE IInv'
  OBVIOUS
<1> DEFINE oneofs == MarkedOneof(Inner.oneofs, Field)
           events == IF Inner.kind = "map" THEN <<Next1.key>> ELSE <<>>
           d == [Call EXCEPT !.stage = "encode", !.frames[Level].oneofs = oneofs,
                             !.frames[Level].seen = @ \cup {Next1.key}, !.out = Wrote(events)]
<1>1. /\ Running /\ Call.stage = "put" /\ UNCHANGED contexts /\ Quietly
      /\ WithCall(IF Omitted THEN Passed(Call) ELSE
           [Call EXCEPT !.stage = "encode", !.frames[Level].oneofs = MarkedOneof(@, Field),
                        !.frames[Level].seen = @ \cup {Next1.key}, !.out = Wrote(events)])
  BY DEF Put, At
<1>2. /\ Call.frames # <<>> /\ Inner.todo # <<>> /\ AtEntry(Call) /\ Next1.key = Inner.key
      /\ Inner.kind = "message" => Has(Type, Next1.key)
  BY <1>1, EntryIs
<1>3. /\ Call \in CallType /\ Inner = Top(Call) /\ Level = Len(Call.frames)
      /\ Inner \in FrameType /\ DistinctKeys(Inner.todo)
      /\ Next1 = Inner.todo[1] /\ Next1.key \in Names
  BY <1>1, <1>2, TodoIs
<1>4. CASE Omitted
  <2>1. /\ Passed(Call) \in CallType /\ SameRest(Call, Passed(Call))
        /\ Passed(Call).frames = [Call.frames EXCEPT ![Level] = PassedFrame]
        /\ Passed(Call).stage = "look"
    BY <1>1, <1>2, PassedIs
  <2>2. ~AtEntry(Passed(Call)) /\ ~Descends(Passed(Call)) /\ Passed(Call).stage # "perl"
    BY <2>1 DEF AtEntry, Descends, Resumes
  <2> QED
    BY <1>1, <1>2, <1>4, <2>1, <2>2, PassedInv
<1>5. CASE ~Omitted
  <2> DEFINE seen == Inner.seen \cup {Next1.key}
             fr == [Inner EXCEPT !.oneofs = oneofs, !.seen = seen]
             frames == [Call.frames EXCEPT ![Level] = fr]
  <2>1. oneofs \in SUBSET Names /\ seen \in SUBSET Names
    <3>1. Field \in FieldSet
      BY <1>1, <1>2, <1>3, FieldIs
    <3>2. Field.oneof = "none" \/ Field.oneof \in Names
      BY <3>1 DEF FieldSet
    <3>3. Inner.oneofs \in SUBSET Names /\ Inner.seen \in SUBSET Names
      BY <1>3 DEF FrameType
    <3> QED
      BY <1>3, <3>2, <3>3 DEF MarkedOneof
  <2>2. Wrote(events) \in Seq(Events)
    <3>1. Next1.key \in Events
      BY <1>3 DEF Events
    <3>2. events \in Seq(Events)
      BY <3>1
    <3> QED
      BY <1>3, <3>2, WroteType
  <2> HIDE DEF oneofs, seen, events
  <2>3. fr \in FrameType
    BY <1>3, <2>1 DEF FrameType
  <2>4. fr.key = Inner.key /\ fr.level = Inner.level /\ fr.todo = Inner.todo
        /\ fr.kind = Inner.kind /\ fr.type = Inner.type
    BY <1>3 DEF FrameType
  <2>5. frames \in Seq(FrameType)
    BY <1>2, <1>3, <2>3, TopReplaced
  <2>6. d = [Call EXCEPT !.stage = "encode", !.frames = frames, !.out = Wrote(events)]
    <3>1. PICK c \in CallType : c = Call
      BY <1>3
    <3>2. PICK n \in DOMAIN c.frames : n = Level /\ Inner = c.frames[n]
      BY <1>2, <1>3, <3>1, TopType DEF Inner
    <3> DEFINE one == [Inner EXCEPT !.oneofs = oneofs]
               first == [c.frames EXCEPT ![n] = one]
    <3>3. [c EXCEPT !.stage = "encode", !.frames[n].oneofs = oneofs]
             = [c EXCEPT !.stage = "encode", !.frames = first]
      BY <3>2 DEF CallType
    <3>4. first[n] = one /\ one.seen = Inner.seen
      BY <1>3, <3>2 DEF FrameType
    <3>5. [first EXCEPT ![n] = [one EXCEPT !.seen = seen]] = frames
      BY <3>1, <3>2
    <3> QED
      BY <3>1, <3>2, <3>3, <3>4, <3>5 DEF CallType, seen
  <2>7. WithCall(d)
    <3>1. Inner.oneofs = Call.frames[Level].oneofs
      BY DEF Inner
    <3> QED
      BY <1>1, <1>5, <3>1 DEF oneofs
  <2> HIDE DEF d, fr, frames
  <2>8. d \in CallType
    BY <1>3, <2>2, <2>5, <2>6 DEF CallType, Stages
  <2>9. d.stage = "encode" /\ d.frames = frames /\ SameRest(Call, d)
    BY <1>3, <2>6 DEF CallType, SameRest, SameCall
  <2>10. AtEntry(d) /\ ~Descends(d) /\ d.stage # "perl"
    BY <2>9 DEF AtEntry, Descends, Resumes
  <2>11. Stays(Call, d, fr)
    BY <1>2, <1>3, <2>3, <2>4, <2>9, <2>10 DEF Stays, frames, Type
  <2>12. Good(Call, Context)
    BY <1>1, CallIs
  <2>13. WarningOK(d)
    BY <2>9, <2>12 DEF Good, WarningOK, SameRest, SameCall
  <2>14. Good(d, Context)
    BY <2>8, <2>9, <2>11, <2>12, <2>13, StaysGood DEF SameRest
  <2> QED
    BY <1>1, <2>7, <2>9, <2>14, GoesOn DEF SameRest
<1> QED
  BY <1>4, <1>5

\* A scalar is written and passed.
LEMMA PutScalarInv == IInv /\ PutScalar => IInv'
<1> SUFFICES ASSUME IInv, PutScalar PROVE IInv'
  OBVIOUS
<1> DEFINE out == Wrote(IF Next1.value.is = "default" /\ ~Field.explicit THEN <<>>
                        ELSE <<Next1.value.is>>)
           d == [Passed(Call) EXCEPT !.out = out]
<1>1. /\ Running /\ Call.stage = "encode" /\ Next1.value.is \in {"scalar", "default"}
      /\ WithCall(d) /\ UNCHANGED contexts /\ Quietly
  BY DEF PutScalar, IsScalar, Encoding, At
<1>2. Call.frames # <<>> /\ Inner.todo # <<>> /\ AtEntry(Call)
  BY <1>1, EntryIs
<1>3. /\ Passed(Call) \in CallType /\ SameRest(Call, Passed(Call))
      /\ Passed(Call).frames = [Call.frames EXCEPT ![Level] = PassedFrame]
      /\ Passed(Call).stage = "look"
  BY <1>1, <1>2, PassedIs
<1>4. out \in Seq(Events)
  <2>1. Call \in CallType /\ <<>> \in Seq(Events)
    BY <1>1, CallIs DEF Good
  <2>2. Next1.value.is \in Events
    BY <1>1 DEF Events
  <2>3. <<Next1.value.is>> \in Seq(Events)
    BY <2>2
  <2> QED
    BY <2>1, <2>3, WroteType
<1> HIDE DEF out
<1>5. d \in CallType /\ SameRest(Call, d) /\ d.frames = Passed(Call).frames /\ d.stage = "look"
  <2>1. d \in CallType
    BY <1>3, <1>4 DEF CallType
  <2> QED
    BY <1>3, <2>1 DEF CallType, SameRest, SameCall
<1> HIDE DEF d
<1>6. ~AtEntry(d) /\ ~Descends(d) /\ d.stage # "perl"
  BY <1>5 DEF AtEntry, Descends, Resumes
<1> QED
  BY <1>1, <1>2, <1>3, <1>5, <1>6, PassedInv

\* A message within a message is passed, and about to start.
LEMMA PutMessageInv == IInv /\ PutMessage => IInv'
<1> SUFFICES ASSUME IInv, PutMessage PROVE IInv'
  OBVIOUS
<1> DEFINE d == [Passed(Call) EXCEPT !.stage = "enter", !.type = Field.type, !.arg = Next1.value]
<1>1. /\ Running /\ Call.stage = "encode" /\ Field.type \in Mappers
      /\ WithCall(d) /\ UNCHANGED contexts /\ Quietly
  BY DEF PutMessage, Encoding, At, IsMessage
<1>2. Call.frames # <<>> /\ Inner.todo # <<>> /\ AtEntry(Call)
  BY <1>1, EntryIs
<1>3. /\ Passed(Call) \in CallType /\ SameRest(Call, Passed(Call))
      /\ Passed(Call).frames = [Call.frames EXCEPT ![Level] = PassedFrame]
  BY <1>1, <1>2, PassedIs
<1>4. Next1.value \in Values
  BY <1>1, <1>2, TodoIs
<1>5. d \in CallType /\ SameRest(Call, d) /\ d.frames = Passed(Call).frames /\ d.stage = "enter"
  <2>1. d \in CallType
    BY <1>1, <1>3, <1>4 DEF CallType, Stages
  <2> QED
    BY <1>3, <2>1 DEF CallType, SameRest, SameCall
<1> HIDE DEF d
<1>6. ~AtEntry(d) /\ d.stage # "perl"
  BY <1>5 DEF AtEntry, Resumes
<1> QED
  BY <1>1, <1>2, <1>3, <1>5, <1>6, PassedInv

\* A list or a map starts, with a level of its own, unless it is an empty list of scalars.
LEMMA PutManyInv == IInv /\ PutMany => IInv'
<1> SUFFICES ASSUME IInv, PutMany PROVE IInv'
  OBVIOUS
<1> DEFINE empty == Field.many = "list" /\ ~IsMessage(Field) /\ Next1.value.of = <<>>
           fr == Frame(Field.many, Field, Type, Next1.value.of)
           d == [Passed(Call) EXCEPT !.frames = Append(@, fr), !.out = Wrote(<<"[">>)]
<1>1. /\ Running /\ Call.stage = "encode" /\ Field.many \in {"list", "map"} /\ Quietly
      /\ \/ empty /\ WithCall(Passed(Call)) /\ UNCHANGED contexts
         \/ WithCall(d) /\ WithContext(PushLevel(Context))
  BY DEF PutMany, Encoding, At
<1>2. /\ Call.frames # <<>> /\ Inner.todo # <<>> /\ AtEntry(Call)
      /\ Inner.kind = "message" => Has(Type, Next1.key)
  BY <1>1, EntryIs
<1>3. /\ Passed(Call) \in CallType /\ SameRest(Call, Passed(Call))
      /\ Passed(Call).frames = [Call.frames EXCEPT ![Level] = PassedFrame]
      /\ Passed(Call).stage = "look"
  BY <1>1, <1>2, PassedIs
<1>4. CASE WithCall(Passed(Call)) /\ UNCHANGED contexts
  <2>1. ~AtEntry(Passed(Call)) /\ ~Descends(Passed(Call)) /\ Passed(Call).stage # "perl"
    BY <1>3 DEF AtEntry, Descends, Resumes
  <2> QED
    BY <1>1, <1>2, <1>3, <1>4, <2>1, PassedInv
<1>5. CASE WithCall(d) /\ WithContext(PushLevel(Context))
  <2>1. Good(Call, Context) /\ Call \in CallType /\ Context \in ContextType
    BY <1>1, CallIs DEF Good
  <2>2. /\ Inner = Top(Call) /\ Level = Len(Call.frames) /\ Inner \in FrameType
        /\ Next1.value \in Values /\ Level \in 1..Level /\ Level \in Nat
        /\ DOMAIN Call.frames = 1..Level
    BY <1>1, <1>2, TodoIs
  <2>3. /\ fr \in FrameType /\ fr.key = NoKey /\ fr.level = Context.next + 1
        /\ DistinctKeys(fr.todo)
    <3>1. Field \in FieldSet
      BY <1>1, <1>2, <2>2, FieldIs
    <3>2. Context.next + 1 \in Nat /\ NoKey \in Keys /\ Type \in Mappers
      BY <2>1, <2>2 DEF ContextType, Keys, Type, FrameType
    <3>3. PICK todo \in Seq(Entries) : todo = Next1.value.of /\ DistinctKeys(todo)
      BY <2>2, EntriesDistinct
    <3>4. PICK f \in FieldSet : f = Field
      BY <3>1
    <3>5. fr = [kind |-> f.many, field |-> f, type |-> Type, todo |-> todo, key |-> NoKey,
                oneofs |-> {}, seen |-> {}, level |-> Context.next + 1]
      BY <3>3, <3>4, Zenon DEF Frame
    <3> HIDE DEF fr
    <3>6. f.many \in {"message", "list", "map"}
      BY <1>1, <3>4
    <3>7. fr \in FrameType
      BY <3>2, <3>5, <3>6 DEF FrameType
    <3> QED
      BY <3>3, <3>5, <3>7
  <2> HIDE DEF fr
  <2>4. PICK base \in Seq(FrameType) :
          /\ base = [Call.frames EXCEPT ![Level] = PassedFrame] /\ Len(base) = Level
          /\ base[Level] = PassedFrame
          /\ \A k \in 1..Level : k # Level => base[k] = Call.frames[k]
    <3> DEFINE frames == [Call.frames EXCEPT ![Level] = PassedFrame]
    <3>1. PassedFrame \in FrameType
      BY <1>1, <1>2, PassedFrameIs
    <3>2. frames = [Call.frames EXCEPT ![Len(Call.frames)] = PassedFrame]
      BY <2>2, Zenon
    <3> HIDE DEF frames
    <3>3. /\ frames \in Seq(FrameType) /\ Len(frames) = Level /\ frames[Level] = PassedFrame
          /\ \A k \in 1..Level : k # Level => frames[k] = Call.frames[k]
      <4>1. Call \in CallType /\ Call.frames # <<>> /\ Len(Call.frames) = Level
        BY <1>2, <2>1, <2>2
      <4>2. PICK c \in CallType, fr2 \in FrameType : c = Call /\ fr2 = PassedFrame
        BY <3>1, <4>1
      <4>3. c.frames # <<>> /\ frames = [c.frames EXCEPT ![Len(c.frames)] = fr2]
        BY <3>2, <4>1, <4>2
      <4>4. /\ frames \in Seq(FrameType) /\ Len(frames) = Len(c.frames)
            /\ frames[Len(c.frames)] = fr2
            /\ \A k \in 1..Len(c.frames) : k # Len(c.frames) => frames[k] = c.frames[k]
        <5>1. c.frames \in Seq(FrameType)
          BY FramesType
        <5>2. Len(c.frames) \in 1..Len(c.frames)
          BY <4>3, TopType
        <5> QED
          BY <4>3, <5>1, <5>2, ExceptSeq
      <4> QED
        BY <4>1, <4>2, <4>4
    <3> QED
      BY <3>3 DEF frames
  <2>5. PICK out \in Seq(Events) : out = Wrote(<<"[">>)
    <3>1. <<"[">> \in Seq(Events)
      BY DEF Events
    <3> QED
      BY <2>1, <3>1, WroteType
  <2>6. PICK frames \in Seq(FrameType) : frames = Append(base, fr)
    BY <2>3, <2>4, AppendProperties
  <2>7. d = [Passed(Call) EXCEPT !.frames = frames, !.out = out]
    BY <1>3, <2>4, <2>5, <2>6
  <2> HIDE DEF d
  <2>8. d \in CallType
    BY <1>3, <2>7 DEF CallType
  <2>9. d.frames = frames /\ SameRest(Call, d) /\ d.stage = "look"
    BY <1>3, <2>7 DEF CallType, SameRest, SameCall
  <2>10. ~Descends(d) /\ ~AtEntry(d)
    BY <2>9 DEF Descends, AtEntry, Resumes
  <2>11. ASSUME NEW k \in 1..Level
         PROVE  /\ base[k].key = Call.frames[k].key /\ base[k].level = Call.frames[k].level
                /\ DistinctKeys(base[k].todo) /\ KeysFrom(base[k].todo, 1) \subseteq Ahead(Call, k)
    <3>1. CASE k = Level
      <4>1. Inner = Call.frames[k]
        BY <3>1 DEF Inner
      <4>2. Ahead(Call, k) = KeysFrom(Inner.todo, 2)
        BY <1>2, <2>2, <3>1, <4>1 DEF Ahead
      <4> QED
        BY <1>1, <1>2, <2>4, <3>1, <4>1, <4>2, PassedFrameIs
    <3>2. CASE k # Level
      <4>1. base[k] = Call.frames[k] /\ DistinctKeys(Call.frames[k].todo)
        BY <2>1, <2>2, <2>4, <3>2 DEF Good, CallOK
      <4>2. Ahead(Call, k) = KeysFrom(Call.frames[k].todo, 1)
        BY <2>2, <3>2 DEF Ahead
      <4> QED
        BY <4>1, <4>2
    <3> QED
      BY <3>1, <3>2
  <2>12. Starts(Call, d, Context, base, fr)
    BY <1>2, <2>2, <2>3, <2>4, <2>6, <2>9, <2>10, <2>11 DEF Starts
  <2>13. Good(d, PushLevel(Context))
    BY <2>1, <2>8, <2>9, <2>12, StartsGood
  <2>14. ContextsKept /\ contexts'[This] = PushLevel(Context)
    BY <1>1, <1>5, <2>1, PushLevelIs, ContextChanged
  <2>15. hook' \in Hooks /\ UNCHANGED <<status, decoderError, warnContext, count>>
    BY <1>1 DEF Quietly, IInv, Typed
  <2> QED
    BY <1>1, <1>5, <2>9, <2>13, <2>14, <2>15, Continues DEF SameRest
<1> QED
  BY <1>1, <1>4, <1>5

\* What a warning reports.
LEMMA WarnInv == IInv /\ Warn => IInv'
<1> SUFFICES ASSUME IInv, Warn PROVE IInv'
  OBVIOUS
<1> DEFINE todo == <<Entry(Next1.key, Plain("default"))>> \o Tail(Inner.todo)
           w == [path |-> Path(contexts[warnContext.context]), field |-> TruePath(Call),
                 to |-> warnContext.chained]
           e == [Call EXCEPT !.frames[Level].todo = todo, !.warning = {w}]
           d == IF warnContext.chained = "user" THEN Perl(e, "encode")
                ELSE IF warnContext.chained = "own" THEN [e EXCEPT !.stage = "recursing"] ELSE e
<1>1. /\ Running /\ Call.stage = "encode" /\ WithCall(d)
      /\ hook' = IF warnContext.chained = "user" THEN "none" ELSE hook
      /\ UNCHANGED <<contexts, status, decoderError, warnContext, last, count>>
  BY DEF Warn, IsScalar, Encoding, At
<1>2. /\ Call.frames # <<>> /\ Inner.todo # <<>> /\ AtEntry(Call) /\ Next1.key = Inner.key
      /\ Inner.kind = "message" => Has(Type, Next1.key)
  BY <1>1, EntryIs
<1>3. /\ Call \in CallType /\ Inner = Top(Call) /\ Level = Len(Call.frames)
      /\ Inner \in FrameType /\ Inner.todo \in Seq(Entries) /\ DistinctKeys(Inner.todo)
      /\ Next1 = Inner.todo[1] /\ Next1.key \in Names
  BY <1>1, <1>2, TodoIs
<1>4. Good(Call, Context) /\ (Call.reentered => Call.nested)
      /\ (~Call.nested => warnContext = [context |-> This, chained |-> "user"])
  BY <1>1, CallIs
<1>5. w \in WarningType
  <2>1. warnContext.context \in Mappers /\ warnContext.chained \in Hooks
    BY DEF IInv, Typed
  <2>2. contexts[warnContext.context] \in ContextType
    BY <2>1 DEF IInv, Typed
  <2>3. Path(contexts[warnContext.context]) \in Seq(Keys) /\ TruePath(Call) \in Seq(Keys)
    BY <1>3, <2>2, PathType, TruePathType
  <2> QED
    BY <2>1, <2>3 DEF WarningType
<1>6. ~Call.nested => w.to = "user" /\ w.path = w.field
  <2> SUFFICES ASSUME ~Call.nested PROVE w.to = "user" /\ w.path = w.field
    OBVIOUS
  <2>1. warnContext.context = This /\ warnContext.chained = "user"
    BY <1>4
  <2>2. Path(Context) = TruePath(Call)
    BY <1>3, <1>4, FollowsPath DEF Good, Linked
  <2> QED
    BY <2>1, <2>2 DEF Context
<1> HIDE DEF w
<1>7. /\ todo \in Seq(Entries) /\ todo # <<>> /\ todo[1].key = Next1.key /\ DistinctKeys(todo)
      /\ KeysFrom(todo, 2) = KeysFrom(Inner.todo, 2)
  BY <1>2, <1>3, ValuesAssumption, FirstReplaced
<1> HIDE DEF todo
<1> DEFINE fr == [Inner EXCEPT !.todo = todo]
           frames == [Call.frames EXCEPT ![Level] = fr]
<1>8. fr \in FrameType
  BY <1>3, <1>7 DEF FrameType
<1>9. /\ fr.key = Inner.key /\ fr.level = Inner.level /\ fr.todo = todo
      /\ fr.kind = Inner.kind /\ fr.type = Inner.type
  BY <1>3 DEF FrameType
<1>10. frames \in Seq(FrameType)
  BY <1>2, <1>3, <1>8, TopReplaced
<1>11. e = [Call EXCEPT !.frames = frames, !.warning = {w}]
  BY DEF Inner
<1> HIDE DEF e, fr, frames
<1>12. e \in CallType
  BY <1>3, <1>5, <1>10, <1>11 DEF CallType
<1>13. /\ e.frames = frames /\ e.warning = {w} /\ e.told = Call.told /\ SameCall(Call, e)
       /\ e.stage = "encode"
  BY <1>1, <1>3, <1>11 DEF CallType, SameCall
<1>14. /\ d \in CallType /\ d.frames = frames /\ d.warning = {w} /\ d.told = Call.told
       /\ SameCall(Call, d)
       /\ d.stage \in {"recursing", "encode"} \/ (d.stage = "perl" /\ d.then = "encode")
  <2>1. CASE warnContext.chained = "user"
    <3>1. d = [e EXCEPT !.stage = "perl", !.then = "encode"]
      BY <2>1 DEF Perl
    <3>2. d \in CallType
      BY <1>12, <3>1 DEF CallType, Stages
    <3> QED
      BY <1>12, <1>13, <3>1, <3>2 DEF CallType, SameCall
  <2>2. CASE warnContext.chained = "own"
    <3>1. d = [e EXCEPT !.stage = "recursing"]
      BY <2>2
    <3>2. d \in CallType
      BY <1>12, <3>1 DEF CallType, Stages
    <3> QED
      BY <1>12, <1>13, <3>1, <3>2 DEF CallType, SameCall
  <2>3. CASE warnContext.chained \notin {"user", "own"}
    BY <1>12, <1>13, <2>3
  <2> QED
    BY <2>1, <2>2, <2>3
<1> HIDE DEF d
<1>15. AtEntry(d) /\ ~Descends(d) /\ ~(d.stage = "perl" /\ d.then = "skip")
  BY <1>14 DEF AtEntry, Descends, Resumes
<1>16. Stays(Call, d, fr)
  BY <1>2, <1>3, <1>7, <1>8, <1>9, <1>14, <1>15 DEF Stays, frames, Type
<1>17. WarningOK(d)
  BY <1>6, <1>14 DEF WarningOK, SameCall
<1>18. Good(d, Context)
  BY <1>4, <1>14, <1>16, <1>17, StaysGood
<1>19. hook' \in Hooks
  BY <1>1 DEF Hooks, IInv, Typed
<1>20. ContextsKept /\ contexts'[This] = Context
  BY <1>1, ContextKept
<1> QED
  BY <1>1, <1>14, <1>18, <1>19, <1>20, Continues

\* The innermost frame ends, and with it its level.
LEMMA FinishInv == IInv /\ Finish => IInv'
<1> SUFFICES ASSUME IInv, Finish PROVE IInv'
  OBVIOUS
<1> DEFINE events == IF Inner.kind = "message" THEN <<")">> ELSE <<"]">>
           d == [Call EXCEPT !.frames = Front(@), !.out = Wrote(events)]
<1>1. /\ At("look") /\ WithContext(PopLevel(Context))
      /\ IF Level = 1 THEN Ended(d, "ok", "ok") ELSE WithCall(d) /\ Quietly
  BY DEF Finish, Done
<1>2. Running /\ Call.frames # <<>> /\ Call.stage = "look"
  BY <1>1, LookIs DEF At
<1>3. Good(Call, Context) /\ Call \in CallType /\ Context \in ContextType
  BY <1>2, CallIs DEF Good
<1>4. ContextsKept /\ contexts'[This] = PopLevel(Context)
  BY <1>1, <1>2, <1>3, PopLevelIs, ContextChanged
<1>5. Call.frames \in Seq(FrameType) /\ Front(Call.frames) \in Seq(FrameType)
  <2>1. Call.frames \in Seq(FrameType) /\ Level \in Nat /\ Level # 0
        /\ \A k \in 1..Level : Call.frames[k] \in FrameType
    BY <1>2, <1>3, FramesType, TopType DEF Level
  <2>2. Front(Call.frames) = SubSeq(Call.frames, 1, Level - 1)
    BY DEF Front, Level
  <2> QED
    BY <2>1, <2>2, SubSeqProperties
<1>6. Wrote(events) \in Seq(Events)
  <2>1. <<")">> \in Seq(Events) /\ <<"]">> \in Seq(Events)
    BY DEF Events
  <2> QED
    BY <1>3, <2>1, WroteType
<1> HIDE DEF events
<1>7. PICK frames \in Seq(FrameType) : frames = Front(Call.frames)
  BY <1>5
<1>8. PICK out \in Seq(Events) : out = Wrote(events)
  BY <1>6
<1>9. d = [Call EXCEPT !.frames = frames, !.out = out]
  BY <1>7, <1>8
<1> HIDE DEF d
<1>10. d \in CallType
  BY <1>3, <1>9 DEF CallType
<1>11. d.frames = frames /\ SameRest(Call, d) /\ d.stage = "look"
  BY <1>2, <1>3, <1>9 DEF CallType, SameRest, SameCall
<1>12. CASE Level = 1
  BY <1>1, <1>2, <1>4, <1>11, <1>12, Ends DEF SameRest, SameCall
<1>13. CASE Level # 1
  <2>1. Good(d, PopLevel(Context))
    BY <1>2, <1>3, <1>7, <1>10, <1>11, <1>13, FinishesGood DEF Level
  <2>2. hook' \in Hooks /\ UNCHANGED <<status, decoderError, warnContext, count>>
    BY <1>1, <1>13 DEF Quietly, IInv, Typed
  <2> QED
    BY <1>1, <1>2, <1>4, <1>11, <1>13, <2>1, <2>2, Continues DEF SameRest
<1> QED
  BY <1>12, <1>13

\* An encode that fails, croaks or dies.
LEMMA FailureInv ==
    ASSUME IInv,
           \/ NotAHash \/ FailRequired \/ FailHole \/ FailEnum \/ NotAContainer \/ FailMissing
           \/ Die
    PROVE  IInv'
<1>1. /\ Running /\ UNCHANGED contexts
      /\ \E outcome : \E error \in {"required", "enum", status[This]} : Ended(Call, outcome, error)
  BY DEF NotAHash, FailRequired, FailHole, FailEnum, NotAContainer, FailMissing, Die, Opens,
         IsScalar, Encoding, Done, At, Failed, Croaked
<1>2. PICK outcome, error : /\ error \in {"required", "enum", status[This]}
                            /\ Ended(Call, outcome, error)
  BY <1>1
<1>3. error \in {"ok", "required", "enum"}
  BY <1>1, <1>2, CallIs DEF IInv, Typed
<1> QED
  BY <1>1, <1>2, <1>3, ContextKept, Ends

\* Perl code returns, and the innermost call goes on where it waited.
LEMMA ReturnInv == IInv /\ Return => IInv'
<1> SUFFICES ASSUME IInv, Return PROVE IInv'
  OBVIOUS
<1> DEFINE d == Staged(Call.then)
<1>1. /\ Running /\ Call.stage = "perl" /\ WithCall(d) /\ hook' = "own"
      /\ UNCHANGED <<contexts, status, decoderError, warnContext, last, count>>
  BY DEF Return, At
<1>2. Good(Call, Context) /\ Call \in CallType
  BY <1>1, CallIs DEF Good
<1>3. Call.then \in {"open", "look", "skip", "put", "encode"}
  BY <1>2 DEF CallType
<1>4. d \in CallType /\ d.stage = Call.then /\ d.frames = Call.frames /\ SameRest(Call, d)
  <2>1. d \in CallType
    BY <1>2, <1>3 DEF Staged, CallType, Stages
  <2> QED
    BY <1>2, <2>1 DEF Staged, CallType, SameRest, SameCall
<1> HIDE DEF d
<1>5. /\ Descends(d) <=> Descends(Call)
      /\ AtEntry(d) <=> AtEntry(Call)
      /\ Resumes(d, {"put", "encode"}) <=> Resumes(Call, {"put", "encode"})
      /\ d.stage # "perl"
  BY <1>1, <1>3, <1>4 DEF Descends, AtEntry, Resumes
<1>6. Good(d, Context)
  BY <1>2, <1>4, <1>5, ResumesGood
<1>7. ContextsKept /\ contexts'[This] = Context
  BY <1>1, ContextKept
<1> QED
  BY <1>1, <1>4, <1>6, <1>7, Continues DEF SameRest, Hooks

\* No call runs.
LEMMA NoCallsInv ==
    ASSUME calls = <<>>, contexts = [m \in Mappers |-> Clear],
           status \in [Mappers -> {"ok", "required", "enum"}], decoderError \subseteq Mappers,
           warnContext \in [context : Mappers, chained : Hooks], hook = "user",
           count \in 0..MaxCalls
    PROVE  IInv
<1>1. Depth = 0 /\ calls \in Seq(CallType)
  BY EmptySeq DEF Depth
<1>2. contexts \in [Mappers -> ContextType]
  BY ClearIs
<1>3. Typed
  BY <1>1, <1>2 DEF Typed, Hooks
<1> QED
  BY <1>1, <1>3 DEF IInv, Nesting, CallsOK

\* Nothing runs, and every context is empty.
LEMMA InitInv == Init => IInv
<1> SUFFICES ASSUME Init PROVE IInv
  OBVIOUS
<1>1. (CHOOSE m \in Mappers : TRUE) \in Mappers
  BY FieldsAssumption
<1>2. warnContext \in [context : Mappers, chained : Hooks]
  BY <1>1 DEF Init, Hooks
<1>3. count \in 0..MaxCalls
  BY BoundsAssumption DEF Init
<1> QED
  BY <1>2, <1>3, NoCallsInv DEF Init, Start

\* After the process ended nothing runs, as at first.
LEMMA CrashInv == IInv /\ Crash => IInv'
<1> SUFFICES ASSUME IInv, Crash PROVE IInv'
  OBVIOUS
<1>1. Depth' = 0 /\ calls' \in Seq(CallType)
  BY EmptySeq DEF Crash, Depth
<1>2. contexts' \in [Mappers -> ContextType]
  BY ClearIs DEF Crash
<1>3. Typed'
  BY <1>1, <1>2 DEF Crash, Typed, Hooks, IInv
<1> QED
  BY <1>1, <1>3 DEF Crash, IInv, Nesting, CallsOK

\* A decode touches no encode.
LEMMA DecodeInv ==
    ASSUME IInv, NEW m \in Mappers, Decode(m)
    PROVE  IInv'
<1>1. Depth' = Depth /\ decoderError' \subseteq Mappers
  BY DEF Decode, Depth, IInv, Typed
<1> QED
  BY <1>1 DEF Decode, IInv, Typed, Nesting, CallsOK

\* Every step keeps the invariant.
LEMMA NextInv == IInv /\ [Next]_vars => IInv'
<1> SUFFICES ASSUME IInv, [Next]_vars PROVE IInv'
  OBVIOUS
<1>1. CASE UNCHANGED vars
  BY <1>1 DEF vars, IInv, Typed, Nesting, CallsOK, Depth
<1>2. CASE Step
  BY <1>2, TransformInv, OpenInv, OverlookInv, UnknownInv, SkipInv, LookInv, PutInv, WarnInv,
     PutScalarInv, PutMessageInv, PutManyInv, FinishInv, FailureInv DEF Step
<1>3. CASE Return \/ Die \/ Crash
  BY <1>3, ReturnInv, FailureInv, CrashInv
<1>4. ASSUME NEW m \in Mappers, Decode(m) PROVE IInv'
  BY <1>4, DecodeInv
<1>5. ASSUME NEW m \in Mappers, NEW value \in Inputs[m], StartCall(m, value) PROVE IInv'
  BY <1>5, StartCallInv
<1> QED
  BY <1>1, <1>2, <1>3, <1>4, <1>5 DEF Next

\* The inductive invariant of the encoder.
LEMMA Invariant == Spec => []IInv
<1> QED
  BY InitInv, NextInv, PTL DEF Spec

------------------------------------------------------------------------------
(* The properties.                                                               *)

\* The invariant types every variable.
LEMMA TypesOK == IInv => TypeOK
<1> SUFFICES ASSUME IInv PROVE TypeOK
  OBVIOUS
<1>1. ASSUME NEW i \in 1..Depth
      PROVE  /\ calls[i].mapper \in Mappers /\ calls[i].stage \in Stages
             /\ i < Depth => calls[i].stage = "perl"
  <2>1. calls[i] \in CallType
    BY DepthIs DEF IInv
  <2> QED
    BY <2>1 DEF CallType, IInv, Nesting
<1>2. ASSUME NEW m \in Mappers
      PROVE  contexts[m].next \in 0..Len(contexts[m].levels) /\ status[m] \in {"ok", "required", "enum"}
  <2>1. contexts[m] \in ContextType /\ status[m] \in {"ok", "required", "enum"}
    BY DEF IInv, Typed
  <2>2. /\ contexts[m].next \in Nat /\ contexts[m].next <= Len(contexts[m].levels)
        /\ contexts[m].levels \in Seq(LevelType)
    BY <2>1 DEF ContextType
  <2> QED
    BY <2>1, <2>2, LenProperties
<1> QED
  BY <1>1, <1>2 DEF TypeOK, IInv, Typed, Hooks

\* Every state of the encoder is one: an outer encode waits for Perl code, a context has
\* the levels it has given out.
THEOREM TypesAreOK == Spec => []TypeOK
<1> QED
  BY Invariant, TypesOK, PTL

\* The path that Perl code is told is where the encode is, whatever it encodes meanwhile.
THEOREM ContextFollows == Spec => []ContextIsPath
<1>1. IInv => ContextIsPath
  <2> SUFFICES ASSUME IInv, NEW i \in 1..Depth, ~calls[i].reentered
               PROVE  /\ Path(contexts[calls[i].mapper]) = TruePath(calls[i])
                      /\ calls[i].told # {} /\ calls[i].then = "skip" /\ calls[i].stage = "perl" =>
                            \E told \in calls[i].told : told.path = TruePath(calls[i])
    BY TypesOK DEF ContextIsPath
  <2>1. Linked(calls[i], contexts[calls[i].mapper]) /\ calls[i] \in CallType
    BY DepthIs DEF IInv, CallsOK
  <2> QED
    BY <2>1, FollowsPath DEF Linked, IsToldPath
<1> QED
  BY <1>1, Invariant, PTL

\* Numbers given out with two paths are the same exactly as far as the paths are.
THEOREM IdsAreOfFields == Spec => []IdsNameOneField
<1>1. IInv => IdsNameOneField
  <2> SUFFICES ASSUME IInv, NEW i \in 1..Depth, NEW a \in calls[i].told, NEW b \in calls[i].told,
                      ~calls[i].reentered,
                      NEW n \in 1..(IF Len(a.path) < Len(b.path) THEN Len(a.path) ELSE Len(b.path))
               PROVE  (a.ids[n] = b.ids[n]) <=> (SubSeq(a.path, 1, n) = SubSeq(b.path, 1, n))
    BY DEF IdsNameOneField
  <2>1. Linked(calls[i], contexts[calls[i].mapper]) /\ calls[i] \in CallType
    BY DepthIs DEF IInv, CallsOK
  <2>2. a \in ToldType /\ b \in ToldType
    BY <2>1 DEF CallType
  <2>3. a.path \in Seq(Keys) /\ b.path \in Seq(Keys)
    BY <2>2 DEF ToldType
  <2>4. Len(a.path) \in Nat /\ Len(b.path) \in Nat
    BY <2>3, LenProperties
  <2>5. n \in Nat /\ n \in 1..Len(a.path) /\ n \in 1..Len(b.path) /\ n <= Len(b.path)
    BY <2>4
  <2>6. a.ids[n] = b.ids[n] <=> SamePrefix(a.path, b.path, n)
    BY <2>1, <2>5 DEF Linked, Pair
  <2>7. /\ SubSeq(a.path, 1, n) \in Seq(Keys) /\ Len(SubSeq(a.path, 1, n)) = n
        /\ SubSeq(b.path, 1, n) \in Seq(Keys) /\ Len(SubSeq(b.path, 1, n)) = n
        /\ \A k \in 1..n : /\ SubSeq(a.path, 1, n)[k] = a.path[k]
                           /\ SubSeq(b.path, 1, n)[k] = b.path[k]
    <3>1. ASSUME NEW s \in Seq(Keys), n <= Len(s)
          PROVE  /\ SubSeq(s, 1, n) \in Seq(Keys) /\ Len(SubSeq(s, 1, n)) = n
                 /\ \A k \in 1..n : SubSeq(s, 1, n)[k] = s[k]
      <4>1. \A k \in 1..n : s[k] \in Keys
        BY <2>5, <3>1, LenProperties
      <4> QED
        BY <2>5, <4>1, SubSeqProperties
    <3> QED
      BY <2>3, <2>5, <3>1
  <2>8. SamePrefix(a.path, b.path, n) <=> SubSeq(a.path, 1, n) = SubSeq(b.path, 1, n)
    <3>1. ASSUME SamePrefix(a.path, b.path, n)
          PROVE  SubSeq(a.path, 1, n) = SubSeq(b.path, 1, n)
      BY <2>7, <3>1, SeqEqual DEF SamePrefix
    <3>2. ASSUME SubSeq(a.path, 1, n) = SubSeq(b.path, 1, n)
          PROVE  SamePrefix(a.path, b.path, n)
      BY <2>7, <3>2 DEF SamePrefix
    <3> QED
      BY <3>1, <3>2
  <2> QED
    BY <2>6, <2>8
<1> QED
  BY <1>1, Invariant, PTL

\* A warning of an encode that is not within another, and has none in it, goes to the
\* program's handler with the path of the value.
THEOREM WarningsNameFields == Spec => []WarningNamesFieldUnlessNested
<1>1. IInv => WarningNamesFieldUnlessNested
  BY DEF IInv, CallsOK, WarningOK, WarningNamesFieldUnlessNested
<1> QED
  BY <1>1, Invariant, PTL

=============================================================================
