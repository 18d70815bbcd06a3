--------------------------- MODULE RegistryProofs ---------------------------
(* Proofs about Registry, with any number of registries, types and calls: its     *)
(* types; a call that dies in the middle leaves nothing behind that is unusable;  *)
(* a call that ends has mapped what it was asked for; a mapped message knows      *)
(* which of its fields are maps, when the entries are its own.                    *)
EXTENDS Registry, TLAPS

\* The inductive invariant: the types of what is still to do, and how the queues,
\* the mapped types and the Perl packages fit together.
IInv == TypeOK /\ NothingLost /\ ReadyIsClosed /\ ServicesResolve /\ ClassPerType

TypeOps == {"unless mapped", "recursive", "prefix", "alone unless mapped", "map"}

\* The options of a call; resolve_references has none.
AllOptions == [implicit : BOOLEAN, clients : ClientServices]
Default == [implicit |-> FALSE, clients |-> "disable"]

\* Callers give options, or get the default ones.
LEMMA OptionsOfCalls ==
    Options \subseteq AllOptions /\ Default \in AllOptions
  BY RegistryAssumption DEF AllOptions, Default, ClientServices

\* A method takes and gives messages.
LEMMA MethodMessages ==
    ASSUME NEW method \in AllMethods
    PROVE  MessagesOf(method) \subseteq Messages
<1>1. PICK s \in Types : \E i \in DOMAIN Methods[s] : method = <<s, i>>
  BY DEF AllMethods
<1>3. PICK i \in DOMAIN Methods[s] : method = <<s, i>>
  BY <1>1
<1>2. Methods[s][i] \in SUBSET Messages
  BY <1>1, RegistryAssumption
<1> QED
  BY <1>2, <1>3 DEF MessagesOf

\* What a call is made of: an operation on a type, or one on a package.
LEMMA DoType ==
    ASSUME NEW op \in TypeOps, NEW t \in Types, NEW path \in Seq(Words), NEW keep \in BOOLEAN
    PROVE  Do(op, t, path, keep) \in Items
  BY DEF Items, Things, Do, TypeOps

\* What is queued for a package is a thing to do.
LEMMA DoPackage ==
    ASSUME NEW op \in {"package", "resolve"}, NEW p \in Packages,
           NEW path \in Seq(Words), NEW keep \in BOOLEAN
    PROVE  Do(op, p, path, keep) \in Items
  BY DEF Items, Things, Do

\* A function from 1..n to things is a sequence of things.
LEMMA IsSequence ==
    ASSUME NEW S, NEW n \in Nat, NEW f \in [1..n -> S]
    PROVE  f \in Seq(S)
  OBVIOUS

\* The first thing to do is one, and so are the others; those that map are about types.
LEMMA FirstThing ==
    ASSUME TypeOK, ~Idle
    PROVE  /\ This \in Items /\ Tail(todo) \in Seq(Items)
           /\ This.path \in Seq(Words) /\ This.keep \in BOOLEAN
           /\ This.op \in {"package", "resolve"} => This.type \in Packages
           /\ This.op \notin {"package", "resolve"} => This.type \in Types /\ This.op \in TypeOps
<1>1. todo \in Seq(Items) /\ todo # <<>>
  BY DEF TypeOK, Idle
<1>2. This \in Items /\ Tail(todo) \in Seq(Items)
  BY <1>1 DEF This
<1> QED
  BY <1>2 DEF Items, Things, TypeOps

\* What takes the place of the first thing, in front of the others.
LEMMA InsteadTyped ==
    ASSUME TypeOK, ~Idle, NEW items \in Seq(Items), Instead(items)
    PROVE  todo' \in Seq(Items)
  BY FirstThing DEF Instead

\* The package of a type inside that of another.
LEMMA LongerPath ==
    ASSUME NEW path \in Seq(Words), NEW t \in Types
    PROVE  Append(path, t) \in Seq(Words) /\ <<t>> \in Seq(Words)
  BY DEF Words

\* Any part of a sequence of types is one of the types.
LEMMA TypesInside ==
    ASSUME NEW t \in Types
    PROVE  /\ Nested[t] \in Seq(Types) /\ Uses[t] \in Seq(Types)
           /\ FullName[t] \in Seq(Words) /\ MessagesUsed(t) \subseteq Messages
  BY RegistryAssumption DEF MessagesUsed

\* Types and packages are words: the paths a call starts with are well-formed.
LEMMA PathsOfCalls ==
    /\ <<WktPrefix>> \in Seq(Words) /\ <<>> \in Seq(Words)
    /\ \A prefix \in Prefixes : <<prefix>> \in Seq(Words)
    /\ \A prefix \in Prefixes, t \in Types : <<prefix, t>> \in Seq(Words)
  BY DEF Words

\* The registry starts empty.
LEMMA InitInv ==
    ASSUME Init
    PROVE  IInv
<1>1. \E r \in Registries : TRUE
  BY RegistryAssumption
<1>2. (CHOOSE r \in Registries : TRUE) \in Registries
  BY <1>1
<1>3. Empty \in Knowledge
  BY DEF Empty, Knowledge
<1>4. reg \in [Registries -> Knowledge] /\ \A r \in Registries : reg[r].stubs = {} /\ reg[r].served = {}
  BY <1>3 DEF Init, Empty
<1>5. call \in CallRecords
  BY <1>2 DEF Init, CallRecords, ClientServices
<1>6. todo \in Seq(Items)
  BY DEF Init
<1>7. marked \subseteq stashes /\ DOMAIN bound = {}
  BY DEF Init
<1>8. TypeOK
  BY <1>4, <1>5, <1>6, <1>7 DEF TypeOK
<1> QED
  BY <1>8 DEF Init, IInv, NothingLost, ReadyIsClosed, ServicesResolve, ClassPerType, Empty

\* Loading files changes nothing that is mapped.
LEMMA LoadInv ==
    ASSUME IInv, NEW r \in Registries, NEW p \in Packages, Load(r, p)
    PROVE  IInv'
<1>1. Depends[p] \subseteq Packages
  BY RegistryAssumption
<1> DEFINE new == [reg[r] EXCEPT !.files = @ \cup Depends[p]]
<1>0. reg[r] \in Knowledge /\ reg[r].files \cup Depends[p] \subseteq Packages
  BY <1>1 DEF IInv, TypeOK, Knowledge
<1>2. /\ new \in Knowledge /\ new.mapped = reg[r].mapped /\ new.ready = reg[r].ready
      /\ new.pending = reg[r].pending /\ new.methods = reg[r].methods
      /\ new.served = reg[r].served /\ new.stubs = reg[r].stubs
  BY <1>0 DEF Knowledge
<1>3. reg' = [reg EXCEPT ![r] = new] /\ UNCHANGED <<stashes, marked, bound, todo, call>>
  BY DEF Load
<1> HIDE DEF new
<1>4. reg \in [Registries -> Knowledge] /\ reg' \in [Registries -> Knowledge]
  BY <1>2, <1>3 DEF IInv, TypeOK
<1>5. \A s \in Registries : /\ reg'[s].mapped = reg[s].mapped /\ reg'[s].ready = reg[s].ready
                             /\ reg'[s].pending = reg[s].pending
                             /\ reg'[s].methods = reg[s].methods
                             /\ reg'[s].served = reg[s].served /\ reg'[s].stubs = reg[s].stubs
  BY <1>2, <1>3, <1>4
<1>6. TypeOK'
  BY <1>3, <1>4, <1>5 DEF IInv, TypeOK
<1>7. NothingLost' /\ ReadyIsClosed' /\ ServicesResolve'
  BY <1>5 DEF IInv, NothingLost, ReadyIsClosed, ServicesResolve
<1>8. ClassPerType'
  BY <1>3, <1>5 DEF IInv, TypeOK, ClassPerType
<1> QED
  BY <1>6, <1>7, <1>8 DEF IInv

\* A call begins, or the next thing takes the place of the first: only todo changes.
LEMMA OnlyTodoInv ==
    ASSUME IInv, UNCHANGED <<stashes, marked, bound, reg>>,
           call' \in CallRecords, todo' \in Seq(Items)
    PROVE  IInv'
<1>1. TypeOK'
  BY DEF IInv, TypeOK
<1> QED
  BY <1>1 DEF IInv, NothingLost, ReadyIsClosed, ServicesResolve, ClassPerType

\* What a call asks for first, and what Dynamic::map does after it.
LEMMA CallsInv ==
    ASSUME IInv, NEW r \in Registries, NEW options \in AllOptions,
           NEW first \in Items, NEW items \in Whole(first) \cup {<<ResolveAll>>},
           Start(r, options, items)
    PROVE  IInv'
<1>1. MapWkts \in Items /\ ResolveAll \in Items
  BY DoPackage, PathsOfCalls, RegistryAssumption DEF MapWkts, ResolveAll
<1>2. items \in Seq(Items)
  <2>1. <<first>> \in Seq(Items) /\ <<ResolveAll>> \in Seq(Items)
    BY <1>1
  <2>2. <<first, MapWkts, ResolveAll>> \in Seq(Items)
    BY <1>1
  <2> QED
    BY <2>1, <2>2 DEF Whole
<1>3. todo' \in Seq(Items) /\ call' \in CallRecords
  BY <1>2 DEF Start, AllOptions, CallRecords
<1> QED
  BY <1>3, OnlyTodoInv DEF Start

\* The steps that only replace the first thing to do by others.
LEMMA PlanInv ==
    ASSUME IInv,
           MapPackage \/ SkipMapped \/ MapRecursively \/ MapAlongFields \/ MapAlone
    PROVE  IInv'
<1>0. TypeOK /\ ~Idle
  BY DEF IInv, MapPackage, SkipMapped, MapRecursively, MapAlongFields, MapAlone, Doing
<1> DEFINE op == This.op
           path == This.path
           keep == This.keep
           t == This.type
<1>1. /\ path \in Seq(Words) /\ keep \in BOOLEAN
      /\ op \in {"package", "resolve"} => t \in Packages
      /\ op \notin {"package", "resolve"} => t \in Types
  BY <1>0, FirstThing
<1>2. UNCHANGED <<stashes, marked, bound, reg, call>>
  BY DEF MapPackage, SkipMapped, MapRecursively, MapAlongFields, MapAlone, OnlyListed
<1>3. SUFFICES \E items \in Seq(Items) : Instead(items)
  BY <1>0, <1>2, InsteadTyped, OnlyTodoInv DEF IInv, TypeOK
<1>4. ASSUME NEW types \in Seq(Types)
      PROVE  [i \in DOMAIN types |-> Do("unless mapped", types[i], Append(path, types[i]), keep)]
                \in Seq(Items)
  <2> DEFINE d == [i \in DOMAIN types |->
                     Do("unless mapped", types[i], Append(path, types[i]), keep)]
  <2>1. ASSUME NEW i \in DOMAIN types
        PROVE  Do("unless mapped", types[i], Append(path, types[i]), keep) \in Items
    <3>1. types[i] \in Types
      OBVIOUS
    <3>2. Append(path, types[i]) \in Seq(Words)
      BY <1>1, <3>1, LongerPath
    <3> QED
      BY <1>1, <3>1, <3>2, DoType DEF TypeOps
  <2>2. d \in [DOMAIN types -> Items]
    BY <2>1
  <2>3. DOMAIN types = 1..Len(types) /\ Len(types) \in Nat
    OBVIOUS
  <2> HIDE DEF d
  <2>4. d \in Seq(Items)
    BY <2>2, <2>3, IsSequence
  <2> QED
    BY <2>4 DEF d
<1>5. CASE MapPackage
  <2>1. t \in Packages
    BY <1>1, <1>5 DEF MapPackage, Doing
  <2>2. (IF t \in Current.files THEN TopLevel[t] ELSE <<>>) \in Seq(Types)
    BY <2>1, RegistryAssumption
  <2> QED
    BY <2>2, <1>4, <1>5 DEF MapPackage
<1>6. CASE SkipMapped
  <2>1. Instead(<<>>)
    BY <1>6 DEF SkipMapped
  <2>2. <<>> \in Seq(Items)
    OBVIOUS
  <2> QED
    BY <2>1, <2>2
<1>7. CASE MapRecursively
  <2>1. t \in Types /\ This \in Items
    BY <1>0, <1>1, <1>7, FirstThing DEF MapRecursively, Doing
  <2>2. Nested[t] \in Seq(Types)
    BY <2>1, TypesInside
  <2>3. [This EXCEPT !.op = "map"] \in Items
    BY <2>1, <1>7 DEF Items, Things, MapRecursively, Doing
  <2>4. \A s \in Seq(Items) : s \o <<[This EXCEPT !.op = "map"]>> \in Seq(Items)
    BY <2>3
  <2> QED
    BY <2>2, <2>4, <1>4, <1>7 DEF MapRecursively
<1>8. CASE MapAlongFields
  <2>1. t \in Types
    BY <1>1, <1>8 DEF MapAlongFields, Doing
  <2>2. Uses[t] \in Seq(Types)
    BY <2>1, TypesInside
  <2>3. \A u \in Types : path \o FullName[u] \in Seq(Words)
    BY <1>1, TypesInside
  <2>4. \A u \in Types : Followed(u) \in Items
    BY <1>1, <2>3, DoType DEF Followed, TypeOps
  <2> DEFINE d == [i \in DOMAIN Uses[t] |-> Followed(Uses[t][i])]
             last == Do("alone unless mapped", t, path \o FullName[t], FALSE)
  <2>5. DOMAIN Uses[t] = 1..Len(Uses[t]) /\ Len(Uses[t]) \in Nat
        /\ \A i \in DOMAIN Uses[t] : Uses[t][i] \in Types
    BY <2>2
  <2>6. d \in [DOMAIN Uses[t] -> Items]
    BY <2>4, <2>5
  <2>7. last \in Items
    BY <2>1, <2>3, DoType DEF TypeOps
  <2>8. Instead(<<>>) \/ Instead(d \o <<last>>)
    BY <1>8 DEF MapAlongFields
  <2> HIDE DEF d, last
  <2>9. d \in Seq(Items)
    BY <2>5, <2>6, IsSequence
  <2>10. d \o <<last>> \in Seq(Items) /\ <<>> \in Seq(Items)
    BY <2>7, <2>9
  <2> QED
    BY <2>8, <2>10
<1>9. CASE MapAlone
  <2>1. This \in Items /\ t \in Types
    BY <1>0, <1>1, <1>9, FirstThing DEF MapAlone, Doing
  <2>2. [This EXCEPT !.op = "map"] \in Items
    BY <2>1, <1>9 DEF Items, Things, MapAlone, Doing
  <2> QED
    <3>1. Instead(<<>>) \/ Instead(<<[This EXCEPT !.op = "map"]>>)
      BY <1>9 DEF MapAlone
    <3>2. <<>> \in Seq(Items) /\ <<[This EXCEPT !.op = "map"]>> \in Seq(Items)
      BY <2>2
    <3> QED
      BY <3>1, <3>2
<1> QED
  BY <1>5, <1>6, <1>7, <1>8, <1>9

\* Every pending mapper is made ready, with all its fields use, and some methods can be
\* called.
LEMMA ResolvedState ==
    ASSUME IInv, ~Unresolved(Current.pending),
           NEW n \in 0..Len(Current.methods),
           \A i \in 1..n : Resolvable(Current.methods[i]),
           NEW methods \in {Current.methods, <<>>},
           methods = Current.methods \/ n = Len(Current.methods),
           reg' = [reg EXCEPT ![call.reg] = [Serving(n) EXCEPT !.methods = methods]],
           UNCHANGED <<stashes, marked, bound, call>>, todo' \in Seq(Items)
    PROVE  IInv'
<1> DEFINE r == call.reg
           called == {Current.methods[i] : i \in 1..n}
           new == [Serving(n) EXCEPT !.methods = methods]
<1>1. r \in Registries /\ reg \in [Registries -> Knowledge] /\ Current = reg[r]
  BY DEF IInv, TypeOK, Current, CallRecords
<1>2. Current \in Knowledge
  BY <1>1
<1>3. Current.methods \in Seq(AllMethods) /\ 1..n \subseteq DOMAIN Current.methods
  BY <1>2 DEF Knowledge
<1>4. called \subseteq AllMethods
  BY <1>3
<1>5. methods \in Seq(AllMethods)
  <2>1. <<>> \in Seq(AllMethods)
    OBVIOUS
  <2> QED
    BY <1>3, <2>1
<1> HIDE DEF called
<1>6. /\ new \in Knowledge /\ new.mapped = reg[r].mapped /\ new.pending = {}
      /\ new.ready = reg[r].ready \cup reg[r].pending /\ new.methods = methods
      /\ new.served = reg[r].served \cup called /\ new.stubs = reg[r].stubs
  <2>1. PICK now : now = Resolved
    OBVIOUS
  <2>2. /\ now \in Knowledge /\ now.mapped = reg[r].mapped /\ now.pending = {}
        /\ now.ready = reg[r].ready \cup reg[r].pending
        /\ now.served = reg[r].served /\ now.stubs = reg[r].stubs
    BY <1>1, <1>2, <2>1 DEF Knowledge, Resolved
  <2>3. PICK serving : serving = [now EXCEPT !.served = now.served \cup called]
    OBVIOUS
  <2>4. serving = Serving(n)
    BY <2>1, <2>3 DEF Serving, called
  <2>5. now.served \cup called \in SUBSET AllMethods
    BY <1>4, <2>2 DEF Knowledge
  <2>6. /\ serving \in Knowledge /\ serving.mapped = now.mapped /\ serving.pending = now.pending
        /\ serving.ready = now.ready /\ serving.stubs = now.stubs
        /\ serving.served = now.served \cup called
    BY <2>2, <2>3, <2>5 DEF Knowledge
  <2>7. new = [serving EXCEPT !.methods = methods]
    BY <2>4
  <2>8. /\ new \in Knowledge /\ new.mapped = serving.mapped /\ new.pending = serving.pending
        /\ new.ready = serving.ready /\ new.stubs = serving.stubs /\ new.methods = methods
        /\ new.served = serving.served
    BY <1>5, <2>6, <2>7 DEF Knowledge
  <2> QED
    BY <2>2, <2>6, <2>8
<1>7. reg' = [reg EXCEPT ![r] = new]
  OBVIOUS
<1> HIDE DEF new
<1>8. reg' \in [Registries -> Knowledge] /\ reg'[r] = new
      /\ \A s \in Registries : s # r => reg'[s] = reg[s]
  BY <1>1, <1>6, <1>7
<1>9. TypeOK'
  BY <1>8 DEF IInv, TypeOK
<1>10. reg[r].mapped \cap Messages = new.ready
  BY <1>1, <1>6 DEF IInv, NothingLost
<1>11. NothingLost'
  BY <1>6, <1>8, <1>10 DEF IInv, NothingLost
<1>12. \A m \in new.ready : MessagesUsed(m) \subseteq new.ready
  <2>1. \A m \in reg[r].pending : MessagesUsed(m) \subseteq reg[r].mapped \cap Messages
    BY <1>1 DEF Unresolved, MessagesUsed
  <2>2. \A m \in reg[r].ready : MessagesUsed(m) \subseteq reg[r].ready
    BY <1>1 DEF IInv, ReadyIsClosed
  <2> QED
    BY <1>6, <1>10, <2>1, <2>2
<1>13. ReadyIsClosed'
  BY <1>8, <1>12 DEF IInv, ReadyIsClosed
<1>14. ASSUME NEW s \in reg[r].stubs, NEW i \in DOMAIN Methods[s]
       PROVE  <<s, i>> \in Range(new.methods) \cup new.served
  <2>1. <<s, i>> \in Range(reg[r].methods) \cup reg[r].served
    BY <1>1 DEF IInv, ServicesResolve
  <2>2. CASE methods = Current.methods
    BY <1>1, <1>6, <2>1, <2>2
  <2>3. CASE n = Len(Current.methods)
    <3>1. DOMAIN Current.methods = 1..n
      BY <1>3, <2>3
    <3>2. Range(reg[r].methods) \subseteq called
      BY <1>1, <3>1 DEF Range, called
    <3> QED
      BY <1>6, <2>1, <3>2
  <2> QED
    BY <2>2, <2>3
<1>15. ASSUME NEW method \in new.served PROVE MessagesOf(method) \subseteq new.ready
  <2>1. CASE method \in reg[r].served
    BY <1>1, <1>6, <2>1 DEF IInv, ServicesResolve
  <2>2. CASE method \in called
    <3>1. \A t \in MessagesOf(method) : t \in Current.mapped
      BY <2>2 DEF called, Resolvable, Mapped
    <3> QED
      BY <1>1, <1>4, <1>10, <2>2, <3>1, MethodMessages
  <2> QED
    BY <1>6, <2>1, <2>2
<1>16. ServicesResolve'
  BY <1>6, <1>8, <1>14, <1>15 DEF IInv, ServicesResolve
<1>17. ClassPerType'
  <2>1. \A s \in Registries : reg'[s].mapped = reg[s].mapped
    BY <1>6, <1>8
  <2> QED
    BY <2>1 DEF IInv, TypeOK, ClassPerType
<1> QED
  BY <1>9, <1>11, <1>13, <1>16, <1>17 DEF IInv

\* What a registry knows once the type is mapped, with all the methods of a client, or
\* with those before the one that died.
Knows(new, all) ==
    /\ new \in Knowledge /\ new.files = Current.files
    /\ new.mapped = Current.mapped \cup {This.type} /\ new.ready = Current.ready
    /\ new.pending = IF Kind[This.type] = "message" THEN Current.pending \cup {This.type}
                     ELSE Current.pending
    /\ new.entries = EntriesNow
    /\ new.maps = [Current.maps EXCEPT ![This.type] = EntriesNow \cap Repeated[This.type]]
    /\ new.served = Current.served /\ Range(Current.methods) \subseteq Range(new.methods)
    /\ IF all THEN /\ new.stubs = Current.stubs \cup {This.type}
                   /\ \A i \in DOMAIN Methods[This.type] : <<This.type, i>> \in Range(new.methods)
       ELSE new.stubs = Current.stubs

\* What one more type adds to what is known.
LEMMA KnowsThis ==
    ASSUME IInv, Doing("map")
    PROVE  Knows(WithThis, FALSE)
<1>1. TypeOK /\ ~Idle /\ This.op = "map" /\ Current \in Knowledge
  BY DEF IInv, TypeOK, Current, Doing, CallRecords
<1>2. This.type \in Types /\ This.path \in Seq(Words)
  BY <1>1, FirstThing
<1>3. EntriesNow \in SUBSET Messages
  BY <1>1, RegistryAssumption DEF EntriesNow, Knowledge
<1>4. [Current.maps EXCEPT ![This.type] = EntriesNow \cap Repeated[This.type]]
          \in [Types -> SUBSET Messages]
  BY <1>1, <1>2, <1>3 DEF Knowledge
<1>5. [Current.package EXCEPT ![This.type] = This.path] \in [Types -> Seq(Words)]
  BY <1>1, <1>2 DEF Knowledge
<1>6. (IF Kind[This.type] = "message" THEN Current.pending \cup {This.type} ELSE Current.pending)
          \in SUBSET Messages
  BY <1>1, <1>2 DEF Knowledge, Messages
<1>7. Current.mapped \cup {This.type} \in SUBSET Types
  BY <1>1, <1>2 DEF Knowledge
<1>8. WithThis \in Knowledge
  BY <1>1, <1>3, <1>4, <1>5, <1>6, <1>7 DEF Knowledge, WithThis
<1> QED
  BY <1>1, <1>8 DEF Knowledge, WithThis, Knows

\* What the methods of a service add.
LEMMA KnowsMethods ==
    ASSUME IInv, Doing("map"), NEW n \in 0..Len(Methods[This.type])
    PROVE  /\ Knows(Pushed(n), FALSE)
           /\ n = Len(Methods[This.type]) => Knows(WithClient, TRUE)
<1>1. TypeOK /\ ~Idle /\ This.op = "map" /\ Current \in Knowledge
  BY DEF IInv, TypeOK, Current, Doing, CallRecords
<1>2. This.type \in Types /\ Methods[This.type] \in Seq(SUBSET Messages)
  BY <1>1, FirstThing, RegistryAssumption
<1>3. PICK these : these = [i \in 1..n |-> <<This.type, i>>]
  OBVIOUS
<1>4. 1..n \subseteq DOMAIN Methods[This.type] /\ n \in Nat
  BY <1>2
<1>5. \A i \in 1..n : <<This.type, i>> \in AllMethods
  BY <1>2, <1>4 DEF AllMethods
<1>6. these \in [1..n -> AllMethods]
  BY <1>3, <1>5
<1>7. these \in Seq(AllMethods) /\ Len(these) = n
  BY <1>4, <1>6, IsSequence
<1>8. PICK known : known = WithThis
  OBVIOUS
<1>9. Knows(known, FALSE)
  BY <1>8, KnowsThis
<1>10. PICK methods : methods = known.methods \o these
  OBVIOUS
<1>11. known.methods \in Seq(AllMethods)
  BY <1>9 DEF Knows, Knowledge
<1>12. /\ methods \in Seq(AllMethods)
       /\ DOMAIN methods = 1..(Len(known.methods) + n) /\ Len(known.methods) \in Nat
       /\ \A i \in 1..Len(known.methods) : methods[i] = known.methods[i]
       /\ \A i \in 1..n : methods[Len(known.methods) + i] = these[i]
  <2>1. PICK old \in Seq(AllMethods) : old = known.methods
    BY <1>11
  <2>2. old \o these \in Seq(AllMethods)
    BY <1>7
  <2>3. DOMAIN (old \o these) = 1..(Len(old) + Len(these)) /\ Len(old) \in Nat
    BY <1>7
  <2>4. \A i \in 1..Len(old) : (old \o these)[i] = old[i]
    BY <1>7
  <2>5. \A i \in 1..Len(these) : (old \o these)[Len(old) + i] = these[i]
    BY <1>7
  <2> QED
    BY <1>7, <1>10, <2>1, <2>2, <2>3, <2>4, <2>5, Zenon
<1>13. Range(known.methods) \subseteq Range(methods)
  <2>1. DOMAIN known.methods = 1..Len(known.methods)
    BY <1>11
  <2>2. ASSUME NEW i \in 1..Len(known.methods) PROVE known.methods[i] \in Range(methods)
    <3>1. i \in DOMAIN methods /\ methods[i] = known.methods[i]
      BY <1>4, <1>12, <2>2
    <3> QED
      BY <3>1 DEF Range
  <2> QED
    BY <2>1, <2>2 DEF Range
<1>14. \A i \in 1..n : <<This.type, i>> \in Range(methods)
  <2>1. ASSUME NEW i \in 1..n PROVE <<This.type, i>> \in Range(methods)
    <3>0. Len(known.methods) + i \in 1..(Len(known.methods) + n)
      BY <1>4, <1>12
    <3>1. PICK j \in DOMAIN methods : j = Len(known.methods) + i
      BY <1>12, <3>0
    <3>2. methods[j] = <<This.type, i>>
      BY <1>3, <1>12, <3>1
    <3> QED
      BY <3>2 DEF Range
  <2> QED
    BY <2>1
<1>15. Pushed(n) = [known EXCEPT !.methods = methods]
  BY <1>3, <1>8, <1>10 DEF Pushed
<1>16. Knows(Pushed(n), FALSE) /\ Pushed(n).methods = methods
  BY <1>9, <1>12, <1>13, <1>15 DEF Knows, Knowledge
<1>17. ASSUME n = Len(Methods[This.type]) PROVE Knows(WithClient, TRUE)
  <2>1. PICK pushed : pushed = Pushed(n)
    OBVIOUS
  <2>2. WithClient = [pushed EXCEPT !.stubs = Current.stubs \cup {This.type}]
    BY <1>16, <1>17, <2>1 DEF WithClient, Knows
  <2>3. Current.stubs \cup {This.type} \in SUBSET Types
    BY <1>1, <1>2 DEF Knowledge
  <2>4. DOMAIN Methods[This.type] = 1..n
    BY <1>2, <1>17
  <2> QED
    BY <1>14, <1>16, <2>1, <2>2, <2>3, <2>4 DEF Knows, Knowledge
<1> QED
  BY <1>16, <1>17

\* A type is mapped, and its methods are bound, or some of them.
LEMMA MappedState ==
    ASSUME IInv, MapOne \/ BindFails
    PROVE  \E new : /\ reg' = [reg EXCEPT ![call.reg] = new]
                    /\ Knows(new, TRUE) \/ Knows(new, FALSE)
<1>1. TypeOK /\ Doing("map") /\ This.type \in Types
  BY FirstThing DEF IInv, MapOne, BindFails, Doing
<1>2. Len(Methods[This.type]) \in Nat
  BY <1>1, RegistryAssumption
<1>3. CASE MapOne /\ Client
  <2>1. PICK n \in 0..Len(Methods[This.type]) : n = Len(Methods[This.type])
    BY <1>2
  <2>2. Knows(WithClient, TRUE)
    BY <1>1, <2>1, KnowsMethods
  <2> QED
    BY <1>3, <2>2 DEF MapOne
<1>4. CASE MapOne /\ ~Client
  BY <1>1, <1>4, KnowsThis DEF MapOne
<1>5. CASE BindFails
  BY <1>1, <1>5, KnowsMethods DEF BindFails
<1> QED
  BY <1>3, <1>4, <1>5

\* A type that is mapped waits to be resolved, and gets a class of its own unless its
\* Perl package is kept or its methods cannot be bound.
LEMMA MapOneInv ==
    ASSUME IInv, MapOne \/ BindFails
    PROVE  IInv' /\ \A p \in DOMAIN bound : p \in DOMAIN bound' /\ bound'[p] = bound[p]
<1> DEFINE r == call.reg
           t == This.type
<1>1. /\ r \in Registries /\ reg \in [Registries -> Knowledge] /\ Current = reg[r]
      /\ reg[r] \in Knowledge
  BY DEF IInv, TypeOK, Current, CallRecords
<1>2. TypeOK /\ ~Idle /\ ~Refused /\ This.op = "map"
  BY DEF IInv, MapOne, BindFails, Doing
<1>3. t \in Types /\ t \notin reg[r].mapped /\ This.path \in Seq(Words)
  BY <1>1, <1>2, FirstThing DEF Refused, Mapped
<1>4. PICK new : reg' = [reg EXCEPT ![r] = new] /\ (Knows(new, TRUE) \/ Knows(new, FALSE))
  BY MappedState
<1>5. Kind[t] = "message" <=> t \in Messages
  BY <1>3 DEF Messages
<1>6. /\ new \in Knowledge /\ new.mapped = reg[r].mapped \cup {t} /\ new.ready = reg[r].ready
      /\ new.pending = IF Kind[t] = "message" THEN reg[r].pending \cup {t} ELSE reg[r].pending
      /\ new.served = reg[r].served
  BY <1>1, <1>4 DEF Knows
<1>7. \A s \in new.stubs : \A i \in DOMAIN Methods[s] :
         s \in reg[r].stubs \/ <<s, i>> \in Range(new.methods)
  BY <1>1, <1>4 DEF Knows
<1>8. Range(reg[r].methods) \subseteq Range(new.methods)
  BY <1>1, <1>4 DEF Knows
<1>9. UNCHANGED call
  BY DEF MapOne, BindFails, Die
<1>10. reg' \in [Registries -> Knowledge] /\ reg'[r] = new
       /\ \A s \in Registries : s # r => reg'[s] = reg[s]
  BY <1>1, <1>4, <1>6
<1>11. \A s \in Registries : /\ reg[s].mapped \subseteq reg'[s].mapped
                              /\ reg'[s].ready = reg[s].ready
  BY <1>6, <1>10
<1>12. todo' \in Seq(Items)
  <2>1. Instead(<<>>) \/ todo' = <<>>
    BY DEF MapOne, BindFails, Die
  <2>2. <<>> \in Seq(Items)
    OBVIOUS
  <2> QED
    BY <1>2, <2>1, <2>2, InsteadTyped
<1>13. marked' = marked \cup {This.path} /\ stashes' = stashes \cup Ancestors(This.path)
  BY DEF MapOne, BindFails, Mark
<1>14. marked' \subseteq stashes'
  BY <1>2, <1>13 DEF TypeOK, Ancestors
<1> DEFINE class == [reg |-> r, type |-> t]
<1>15. bound' = bound \/ (bound' = BoundHere /\ DefinesNames)
  BY DEF MapOne, BindFails, Die
<1>16. PICK made \in BOOLEAN :
       /\ made => DefinesNames
       /\ DOMAIN bound' = DOMAIN bound \cup (IF made THEN {This.path} ELSE {})
       /\ \A p \in DOMAIN bound' : bound'[p] = IF p = This.path /\ made THEN class ELSE bound[p]
  <2>1. CASE bound' = bound
    BY <2>1
  <2>2. CASE bound' = BoundHere /\ DefinesNames
    BY <2>2 DEF BoundHere
  <2> QED
    BY <1>15, <2>1, <2>2
<1>17. made => This.path \notin DOMAIN bound
  BY <1>2, <1>16 DEF Refused, TypeOK
<1>18. \A p \in DOMAIN bound : p \in DOMAIN bound' /\ bound'[p] = bound[p]
  BY <1>16, <1>17
<1>19. TypeOK'
  <2>1. DOMAIN bound' \subseteq marked'
    BY <1>2, <1>13, <1>16 DEF TypeOK
  <2>2. \A p \in DOMAIN bound' : bound'[p] \in [reg : Registries, type : Types]
    BY <1>1, <1>2, <1>3, <1>16 DEF TypeOK
  <2> QED
    BY <1>2, <1>9, <1>10, <1>12, <1>14, <2>1, <2>2 DEF TypeOK
<1>20. NothingLost'
  <2>1. new.mapped \cap Messages = new.pending \cup new.ready
    BY <1>1, <1>5, <1>6 DEF IInv, NothingLost
  <2>2. new.pending \cap new.ready = {}
    BY <1>1, <1>3, <1>6 DEF IInv, NothingLost
  <2> QED
    BY <1>10, <2>1, <2>2 DEF IInv, NothingLost
<1>21. ReadyIsClosed'
  BY <1>11 DEF IInv, ReadyIsClosed
<1>22. ServicesResolve'
  <2>1. \A s \in new.stubs : \A i \in DOMAIN Methods[s] : <<s, i>> \in Range(new.methods) \cup new.served
    BY <1>1, <1>6, <1>7, <1>8 DEF IInv, ServicesResolve
  <2>2. \A method \in new.served : MessagesOf(method) \subseteq new.ready
    BY <1>1, <1>6 DEF IInv, ServicesResolve
  <2> QED
    BY <1>10, <2>1, <2>2 DEF IInv, ServicesResolve
<1>23. ClassPerType'
  <2>1. \A p \in DOMAIN bound : bound[p].reg \in Registries /\ bound[p] # class
    BY <1>2, <1>3 DEF TypeOK, IInv, ClassPerType
  <2>2. \A p \in DOMAIN bound' : bound'[p].type \in reg'[bound'[p].reg].mapped
    <3>1. \A p \in DOMAIN bound : bound[p].type \in reg'[bound[p].reg].mapped
      BY <1>11, <2>1 DEF IInv, ClassPerType
    <3>2. class.type \in reg'[class.reg].mapped
      BY <1>6, <1>10
    <3> QED
      BY <1>16, <3>1, <3>2
  <2>3. \A p, q \in DOMAIN bound' : bound'[p] = bound'[q] => p = q
    BY <1>16, <1>18, <2>1 DEF IInv, ClassPerType
  <2> QED
    BY <2>2, <2>3 DEF ClassPerType
<1> QED
  BY <1>18, <1>19, <1>20, <1>21, <1>22, <1>23 DEF IInv

\* Every step keeps the invariant, and no class that exists changes.
LEMMA NextInv ==
    ASSUME IInv, [Next]_vars
    PROVE  IInv' /\ \A p \in DOMAIN bound : p \in DOMAIN bound' /\ bound'[p] = bound[p]
<1>0. CASE UNCHANGED vars
  <2>1. UNCHANGED <<stashes, marked, bound, reg, call, todo>>
    BY <1>0 DEF vars
  <2> QED
    BY <2>1, OnlyTodoInv DEF IInv, TypeOK
<1>1. CASE \E r \in Registries, p \in Packages : Load(r, p)
  BY <1>1, LoadInv DEF Load
<1>2. ASSUME NEW r \in Registries, NEW p \in Packages, NEW prefix \in Prefixes,
             NEW options \in Options, CallMapPackage(r, p, prefix, options)
      PROVE  IInv' /\ UNCHANGED bound
  <2>1. Do("package", p, <<prefix>>, FALSE) \in Items
    BY DoPackage, PathsOfCalls
  <2> QED
    BY <1>2, <2>1, CallsInv, OptionsOfCalls DEF CallMapPackage, Start
<1>3. ASSUME NEW r \in Registries, NEW t \in Types, NEW prefix \in Prefixes,
             NEW options \in Options, CallMapType(r, t, prefix, options)
      PROVE  IInv' /\ UNCHANGED bound
  <2>1. Do("recursive", t, <<prefix, t>>, FALSE) \in Items
    BY DoType, PathsOfCalls DEF TypeOps
  <2> QED
    BY <1>3, <2>1, CallsInv, OptionsOfCalls DEF CallMapType, Start
<1>4. ASSUME NEW r \in Registries, NEW t \in Types, NEW prefix \in Prefixes,
             NEW options \in Options, CallMapMessagePrefix(r, t, prefix, options)
      PROVE  IInv' /\ UNCHANGED bound
  <2>1. Do("prefix", t, <<prefix>>, FALSE) \in Items
    BY DoType, PathsOfCalls DEF TypeOps
  <2> QED
    BY <1>4, <2>1, CallsInv, OptionsOfCalls DEF CallMapMessagePrefix, Start
<1>5. ASSUME NEW r \in Registries, CallResolve(r)
      PROVE  IInv' /\ UNCHANGED bound
  <2>1. ResolveAll \in Items
    BY DoPackage, PathsOfCalls, RegistryAssumption DEF ResolveAll
  <2> QED
    BY <1>5, <2>1, CallsInv, OptionsOfCalls DEF CallResolve, Start, Default
<1>6. CASE MapPackage \/ SkipMapped \/ MapRecursively \/ MapAlongFields \/ MapAlone
  <2>1. UNCHANGED bound
    BY <1>6 DEF MapPackage, SkipMapped, MapRecursively, MapAlongFields, MapAlone, OnlyListed
  <2> QED
    BY <1>6, <2>1, PlanInv
<1>7. CASE MapRefused \/ ResolveFails
  <2>1. UNCHANGED <<stashes, marked, bound, reg, call>> /\ todo' = <<>>
    BY <1>7 DEF MapRefused, ResolveFails, Croak, Die
  <2>2. todo' \in Seq(Items) /\ call' \in CallRecords
    BY <2>1 DEF IInv, TypeOK
  <2> QED
    BY <2>1, <2>2, OnlyTodoInv
<1>8. CASE MapOne \/ BindFails
  BY <1>8, MapOneInv
<1>11. CASE MapIgnored
  <2>1. /\ UNCHANGED <<stashes, marked, bound, reg, call>>
        /\ TypeOK /\ ~Idle /\ Instead(<<>>)
    BY <1>11 DEF MapIgnored, OnlyListed, Doing, IInv
  <2>2. <<>> \in Seq(Items)
    OBVIOUS
  <2>3. todo' \in Seq(Items)
    BY <2>1, <2>2, InsteadTyped
  <2> QED
    BY <2>1, <2>3, OnlyTodoInv DEF TypeOK
<1>9. CASE ResolveMethodsFails
  <2>1. Current \in Knowledge
    BY DEF IInv, TypeOK, Current, CallRecords
  <2>2. Current.methods \in Seq(AllMethods)
    BY <2>1 DEF Knowledge
  <2>3. PICK n \in DOMAIN Current.methods :
           /\ \A i \in 1..n - 1 : Resolvable(Current.methods[i])
           /\ reg' = [reg EXCEPT ![call.reg] = Serving(n - 1)]
    BY <1>9 DEF ResolveMethodsFails
  <2>4. n - 1 \in 0..Len(Current.methods)
    BY <2>2
  <2>5. Serving(n - 1) = [Serving(n - 1) EXCEPT !.methods = Current.methods]
    BY <2>1 DEF Serving, Resolved, Knowledge
  <2>6. /\ todo' = <<>> /\ UNCHANGED <<stashes, marked, bound, call>>
        /\ ~Unresolved(Current.pending)
    BY <1>9 DEF ResolveMethodsFails, Croak, Die
  <2>7. todo' \in Seq(Items)
    BY <2>6
  <2> QED
    BY <2>3, <2>4, <2>5, <2>6, <2>7, ResolvedState
<1>10. CASE Resolve
  <2>1. Current \in Knowledge
    BY DEF IInv, TypeOK, Current, CallRecords
  <2>2. Current.methods \in Seq(AllMethods)
    BY <2>1 DEF Knowledge
  <2>3. PICK n \in 0..Len(Current.methods) : n = Len(Current.methods)
    BY <2>2
  <2>4. /\ UNCHANGED <<stashes, marked, bound, call>>
        /\ reg' = [reg EXCEPT ![call.reg] = [Serving(n) EXCEPT !.methods = <<>>]]
        /\ ~Unresolved(Current.pending)
    BY <1>10, <2>3 DEF Resolve
  <2>5. \A i \in 1..n : Resolvable(Current.methods[i])
    BY <1>10, <2>2, <2>3 DEF Resolve
  <2>6. TypeOK /\ ~Idle /\ Instead(<<>>)
    BY <1>10 DEF Resolve, Doing, IInv
  <2>7. <<>> \in Seq(Items)
    OBVIOUS
  <2>8. todo' \in Seq(Items)
    BY <2>6, <2>7, InsteadTyped
  <2> QED
    BY <2>3, <2>4, <2>5, <2>8, ResolvedState
<1> QED
  BY <1>0, <1>1, <1>2, <1>3, <1>4, <1>5, <1>6, <1>7, <1>8, <1>9, <1>10, <1>11
  DEF Next, Calls, Steps

\* The inductive invariant holds, with any number of registries, types and calls.
THEOREM Invariant == Spec => []IInv
<1>1. Init => IInv
  BY InitInv
<1>2. IInv /\ [Next]_vars => IInv'
  BY NextInv
<1> QED
  BY <1>1, <1>2, PTL DEF Spec

\* The types of the registry, of what is still to do and of the Perl packages.
THEOREM TypeCorrect == Spec => []TypeOK
<1>1. IInv => TypeOK
  BY DEF IInv
<1> QED
  BY <1>1, Invariant, PTL

\* A mapped message is waiting to be resolved or is usable, never both or neither,
\* whichever call died before (resolve_references, map_message).
THEOREM NothingIsLost == Spec => []NothingLost
<1>1. IInv => NothingLost
  BY DEF IInv
<1> QED
  BY <1>1, Invariant, PTL

\* What can encode and decode holds only messages that can (resolve_references finds
\* the mappers of all pending messages before it makes any of them ready).
THEOREM ReadyStaysClosed == Spec => []ReadyIsClosed
<1>1. IInv => ReadyIsClosed
  BY DEF IInv
<1> QED
  BY <1>1, Invariant, PTL

\* The methods of a client class that was made to the end wait or can be called, and
\* the messages of those that can are ready, whether bind_service or the second loop of
\* resolve_references died before; nothing is said of a service whose binding died.
THEOREM ServicesWaitOrResolve == Spec => []ServicesResolve
<1>1. IInv => ServicesResolve
  BY DEF IInv
<1> QED
  BY <1>1, Invariant, PTL

\* No type of a registry has two classes, and a class is for a type that is mapped.
THEOREM OneClassPerType == Spec => []ClassPerType
<1>1. IInv => ClassPerType
  BY DEF IInv
<1> QED
  BY <1>1, Invariant, PTL

\* A class keeps the type it was made for, whatever is mapped later and by whom
\* (check_package, mark_package).
THEOREM ClassesAreKept == Spec => ClassKeepsType
<1>1. IInv /\ [Next]_vars => [\A p \in DOMAIN bound : p \in DOMAIN bound' /\ bound'[p] = bound[p]]_vars
  BY NextInv
<1> QED
  BY <1>1, Invariant, PTL DEF Spec, ClassKeepsType

----------------------------------------------------------------------------
(* What was asked for gets mapped.  The things to do are ordered: a type is mapped *)
(* after the types inside it.                                                       *)

\* Services are passed over with the default options, which those of map_wkts are.
PassedOver(item, u) == Kind[u] = "service" /\ (item.keep \/ call.clients = "disable")

\* The thing will map u, or finds it mapped.
Covers(item, u) ==
    /\ ~PassedOver(item, u)
    /\ \/ item.op = "map" /\ item.type = u
       \/ item.op \in {"unless mapped", "recursive"} /\ FullName[item.type] \in Ancestors(FullName[u])
       \/ item.op = "package" /\ item.type = FullName[u][1] /\ item.type \in Current.files

\* u is mapped, or will be by one of the first n things.
Assured(u, n) == Mapped(u) \/ \E j \in 1..n : Covers(todo[j], u)

\* A mapped type is mapped with all that is inside it, also if the call died.
Closed(mapped) ==
    \A t \in mapped : \A u \in Types : FullName[t] \in Ancestors(FullName[u]) => u \in mapped
MappedInside == \A r \in Registries : Closed(reg[r].mapped)

\* Before a type is mapped it is the turn of all that is inside it.
InsideBefore(i) ==
    todo[i].op = "map" =>
        \A u \in Types \ {todo[i].type} :
           FullName[todo[i].type] \in Ancestors(FullName[u]) => Assured(u, i - 1)

\* Only map_message_prefix follows fields.
FollowsFields(item) == item.op \in {"prefix", "alone unless mapped"}

\* A call that has not died still covers what it was asked for.  Not so along fields.
InsideFirst ==
    ~ghost.byPrefix =>
        /\ MappedInside
        /\ \A i \in 1..Len(todo) : ~FollowsFields(todo[i]) /\ InsideBefore(i)
        /\ ~ghost.failed => \A u \in ghost.asked : Assured(u, Len(todo))

\* Along with what the ghost records.
GhostOK ==
    ghost \in [failed : BOOLEAN, byPrefix : BOOLEAN, fromEntry : BOOLEAN, asked : SUBSET Types]

\* Where the things to do are after a step that replaced the first.
LEMMA AfterInstead ==
    ASSUME TypeOK, ~Idle, NEW items \in Seq(Items), Instead(items)
    PROVE  /\ todo \in Seq(Items) /\ Len(todo) >= 1 /\ This = todo[1]
           /\ todo' \in Seq(Items) /\ Len(todo') = Len(items) + Len(todo) - 1
           /\ \A k \in 1..Len(items) : todo'[k] = items[k]
           /\ \A k \in 2..Len(todo) : todo'[k - 1 + Len(items)] = todo[k]
<1>1. todo \in Seq(Items) /\ todo # <<>>
  BY DEF TypeOK, Idle
<1>2. Len(todo) >= 1 /\ This = todo[1] /\ Len(todo) \in Nat
  BY <1>1 DEF This
<1>3. Tail(todo) \in Seq(Items) /\ Len(Tail(todo)) = Len(todo) - 1
  BY <1>1
<1>4. \A k \in 2..Len(todo) : Tail(todo)[k - 1] = todo[k]
  BY <1>1, <1>2
<1>5. todo' = items \o Tail(todo)
  BY DEF Instead
<1>6. todo' \in Seq(Items) /\ Len(todo') = Len(items) + Len(todo) - 1
  BY <1>2, <1>3, <1>5
<1>7. \A k \in 1..Len(items) : todo'[k] = items[k]
  BY <1>3, <1>5
<1>8. ASSUME NEW k \in 2..Len(todo) PROVE todo'[k - 1 + Len(items)] = todo[k]
  <2>1. k - 1 \in 1..Len(Tail(todo)) /\ Len(items) \in Nat
    BY <1>2, <1>3
  <2>2. todo'[Len(items) + (k - 1)] = Tail(todo)[k - 1]
    BY <1>3, <1>5, <2>1
  <2> QED
    BY <1>4, <2>1, <2>2
<1> QED
  BY <1>1, <1>2, <1>6, <1>7, <1>8

\* What takes the place of the first thing does all it would have done, in an order
\* that keeps what is inside first.
PassesOn(items) ==
    /\ \A k \in 1..Len(items) : ~FollowsFields(items[k])
    /\ \A u \in Types : Covers(This, u) =>
          Mapped(u)' \/ \E k \in 1..Len(items) : Covers(items[k], u)
    /\ \A k \in 1..Len(items) : items[k].op = "map" =>
          \A u \in Types \ {items[k].type} : FullName[items[k].type] \in Ancestors(FullName[u]) =>
             Mapped(u)' \/ \E j \in 1..(k - 1) : Covers(items[j], u)

\* A step that maps what it takes off the queue, or passes it on, keeps what is inside
\* mapped first.
LEMMA InsteadInside ==
    ASSUME IInv, GhostOK, InsideFirst, ~Idle, NEW items \in Seq(Items), Instead(items),
           UNCHANGED <<call, ghost>>, (Current.files)' = Current.files,
           \A u \in Types : Mapped(u) => Mapped(u)',
           ~ghost.byPrefix => PassesOn(items) /\ MappedInside'
    PROVE  InsideFirst'
<1> SUFFICES ASSUME ~ghost.byPrefix PROVE InsideFirst'
  BY DEF InsideFirst
<1>0. TypeOK
  BY DEF IInv
<1> DEFINE new == Len(items)
<1>1. /\ Len(todo) \in Nat /\ Len(todo) >= 1 /\ This = todo[1] /\ new \in Nat
      /\ Len(todo') = new + Len(todo) - 1
  BY <1>0, AfterInstead
<1>2. \A k \in 1..new : todo'[k] = items[k]
  BY <1>0, AfterInstead
<1>3. \A k \in 2..Len(todo) : todo'[k - 1 + new] = todo[k]
  BY <1>0, AfterInstead
<1>4. \A item, u : Covers(item, u)' <=> Covers(item, u)
  BY DEF Covers, PassedOver
<1> HIDE DEF new
<1>5. ASSUME NEW i \in 1..Len(todo'), i > new
      PROVE  \E k \in 2..Len(todo) : i = k - 1 + new /\ todo'[i] = todo[k]
  <2>1. (i - new + 1) \in 2..Len(todo) /\ i = (i - new + 1) - 1 + new
    BY <1>1, <1>5
  <2> QED
    BY <1>3, <2>1
<1>6. ASSUME NEW u \in Types, NEW n \in 1..Len(todo), Assured(u, n)
      PROVE  Assured(u, n - 1 + new)'
  <2>1. CASE Mapped(u)
    BY <2>1 DEF Assured
  <2>2. CASE Covers(todo[1], u)
    <3>1. Mapped(u)' \/ \E k \in 1..new : Covers(items[k], u)
      BY <1>1, <2>2 DEF PassesOn, new
    <3>2. \A k \in 1..new : k \in 1..(n - 1 + new)
      BY <1>1
    <3> QED
      BY <1>2, <1>4, <3>1, <3>2 DEF Assured
  <2>3. ASSUME NEW j \in 2..n, Covers(todo[j], u) PROVE Assured(u, n - 1 + new)'
    <3>1. j - 1 + new \in 1..(n - 1 + new) /\ j \in 2..Len(todo)
      BY <1>1
    <3>2. todo'[j - 1 + new] = todo[j]
      BY <1>3, <3>1
    <3> QED
      BY <1>4, <2>3, <3>1, <3>2 DEF Assured
  <2>4. \A j \in 1..n : j = 1 \/ j \in 2..n
    OBVIOUS
  <2> QED
    BY <1>6, <2>1, <2>2, <2>3, <2>4 DEF Assured
<1>7. ASSUME NEW i \in 1..Len(todo') PROVE ~FollowsFields(todo'[i]) /\ InsideBefore(i)'
  <2>1. CASE i <= new
    <3>1. i \in 1..new /\ todo'[i] = items[i] /\ \A j \in 1..(i - 1) : todo'[j] = items[j]
      BY <1>1, <1>2, <2>1
    <3>2. ~FollowsFields(items[i])
      BY <3>1 DEF PassesOn, new
    <3>3. ASSUME items[i].op = "map", NEW u \in Types \ {items[i].type},
                 FullName[items[i].type] \in Ancestors(FullName[u])
          PROVE  Assured(u, i - 1)'
      <4>1. Mapped(u)' \/ \E j \in 1..(i - 1) : Covers(items[j], u)
        BY <3>1, <3>3 DEF PassesOn, new
      <4> QED
        BY <1>4, <3>1, <4>1 DEF Assured
    <3> QED
      BY <3>1, <3>2, <3>3 DEF InsideBefore
  <2>2. CASE i > new
    <3>1. PICK k \in 2..Len(todo) : i = k - 1 + new /\ todo'[i] = todo[k]
      BY <1>5, <2>2
    <3>2. k \in 1..Len(todo) /\ k - 1 \in 1..Len(todo) /\ (k - 1) - 1 + new = i - 1
      BY <1>1, <3>1
    <3>3. ~FollowsFields(todo[k]) /\ InsideBefore(k)
      BY <3>2 DEF InsideFirst
    <3>4. ASSUME NEW u \in Types, Assured(u, k - 1) PROVE Assured(u, i - 1)'
      BY <1>6, <3>2, <3>4
    <3> QED
      BY <3>1, <3>3, <3>4 DEF InsideBefore
  <2> QED
    BY <1>1, <2>1, <2>2
<1>8. ASSUME ~ghost.failed, NEW u \in ghost.asked PROVE Assured(u, Len(todo))'
  <2>1. u \in Types /\ Assured(u, Len(todo))
    BY <1>8 DEF InsideFirst, GhostOK
  <2>2. PICK n \in 1..Len(todo) : n = Len(todo)
    BY <1>1
  <2>3. Assured(u, n - 1 + new)'
    BY <1>6, <2>1, <2>2
  <2>4. n - 1 + new = Len(todo')
    BY <1>1, <2>2
  <2> QED
    BY <2>3, <2>4 DEF Assured
<1> QED
  BY <1>7, <1>8 DEF InsideFirst
\* One thing for each of some types, in their order.
EachUnlessMapped(types, path, keep) ==
    [i \in DOMAIN types |-> Do("unless mapped", types[i], Append(path, types[i]), keep)]

IsEach(items, types, path, keep) ==
    /\ items = EachUnlessMapped(types, path, keep) /\ Len(items) = Len(types)
    /\ \A i \in 1..Len(types) : /\ items[i].op = "unless mapped"
                                /\ items[i].type = types[i] /\ items[i].keep = keep

\* The things to do for a list of types are one for each of them.
LEMMA EachThing ==
    ASSUME NEW types \in Seq(Types), NEW path \in Seq(Words), NEW keep \in BOOLEAN
    PROVE  \E items \in Seq(Items) : IsEach(items, types, path, keep)
<1> DEFINE d == EachUnlessMapped(types, path, keep)
<1>1. DOMAIN types = 1..Len(types) /\ Len(types) \in Nat /\ \A i \in DOMAIN types : types[i] \in Types
  OBVIOUS
<1>2. ASSUME NEW i \in DOMAIN types
      PROVE  Do("unless mapped", types[i], Append(path, types[i]), keep) \in Items
  <2>1. Append(path, types[i]) \in Seq(Words)
    BY <1>1, LongerPath
  <2> QED
    BY <1>1, <2>1, DoType DEF TypeOps
<1>3. d \in [1..Len(types) -> Items]
  BY <1>1, <1>2 DEF EachUnlessMapped
<1>4. \A i \in 1..Len(types) : d[i].op = "unless mapped" /\ d[i].type = types[i] /\ d[i].keep = keep
  BY <1>1 DEF EachUnlessMapped, Do
<1> HIDE DEF d
<1>5. d \in Seq(Items) /\ Len(d) = Len(types)
  BY <1>1, <1>3
<1>6. PICK items \in Seq(Items) : items = d
  BY <1>5
<1>7. IsEach(items, types, path, keep)
  BY <1>4, <1>5, <1>6 DEF IsEach, d
<1> QED
  BY <1>7

\* A last thing after others.
LEMMA ThenLast ==
    ASSUME NEW S, NEW first \in Seq(S), NEW last \in S
    PROVE  \E s \in Seq(S) :
              /\ s = first \o <<last>> /\ Len(s) = Len(first) + 1 /\ Len(first) \in Nat
              /\ s[Len(first) + 1] = last
              /\ \A i \in 1..Len(first) : s[i] = first[i]
<1>1. <<last>> \in Seq(S) /\ Len(<<last>>) = 1 /\ <<last>>[1] = last
  OBVIOUS
<1>2. PICK s : s = first \o <<last>>
  OBVIOUS
<1>3. s \in Seq(S) /\ Len(s) = Len(first) + 1 /\ Len(first) \in Nat
  BY <1>1, <1>2
<1>4. s[Len(first) + 1] = last
  BY <1>1, <1>2, <1>3
<1>5. \A i \in 1..Len(first) : s[i] = first[i]
  BY <1>1, <1>2, <1>3
<1> QED
  BY <1>2, <1>3, <1>4, <1>5

\* Its type is then mapped.
ThisMapped == [This EXCEPT !.op = "map"]
\* What is to do for a type is mapping it, if it is not mapped yet.
LEMMA ThisToMap ==
    ASSUME This \in Items, This.type \in Types, This.op \in TypeOps
    PROVE  ThisMapped \in Items /\ ThisMapped.op = "map" /\ ThisMapped.type = This.type
           /\ ThisMapped.keep = This.keep
<1>1. This.path \in Seq(Words) /\ This.keep \in BOOLEAN
  BY DEF Items, Things
<1>2. This = [op |-> This.op, type |-> This.type, path |-> This.path, keep |-> This.keep]
  BY DEF Items, Things
<1>3. ThisMapped = Do("map", This.type, This.path, This.keep)
  BY <1>2 DEF ThisMapped, Do
<1> QED
  BY <1>1, <1>3, DoType DEF Do, TypeOps

\* The steps that put others in the place of the first thing.
LEMMA PlanInside ==
    ASSUME IInv, GhostOK, InsideFirst,
           MapPackage \/ SkipMapped \/ MapRecursively \/ MapAlongFields \/ MapAlone
    PROVE  InsideFirst'
<1> SUFFICES ASSUME ~ghost.byPrefix PROVE InsideFirst'
  BY DEF InsideFirst, MapPackage, SkipMapped, MapRecursively, MapAlongFields, MapAlone, OnlyListed
<1>0. TypeOK /\ ~Idle
  BY DEF IInv, MapPackage, SkipMapped, MapRecursively, MapAlongFields, MapAlone, Doing
<1>1. /\ This.path \in Seq(Words) /\ This.keep \in BOOLEAN /\ This \in Items
      /\ This.op \in {"package", "resolve"} => This.type \in Packages
      /\ This.op \notin {"package", "resolve"} => This.type \in Types
  BY <1>0, FirstThing
<1>2. UNCHANGED <<reg, call, ghost>>
  BY DEF MapPackage, SkipMapped, MapRecursively, MapAlongFields, MapAlone, OnlyListed
<1>3. /\ (Current.files)' = Current.files /\ \A u : Mapped(u)' = Mapped(u)
      /\ MappedInside /\ MappedInside'
  BY <1>2 DEF Current, Mapped, InsideFirst, MappedInside
<1>4. SUFFICES \E items \in Seq(Items) : Instead(items) /\ PassesOn(items)
  BY <1>0, <1>2, <1>3, InsteadInside
<1>5. ~FollowsFields(This)
  <2>1. This = todo[1] /\ 1 \in 1..Len(todo)
    BY <1>0 DEF TypeOK, Idle, This
  <2> QED
    BY <2>1 DEF InsideFirst
<1>6. CASE MapPackage
  <2>1. This.op = "package" /\ This.type \in Packages
    BY <1>1, <1>6 DEF MapPackage, Doing
  <2>2. PICK types : types = IF This.type \in Current.files THEN TopLevel[This.type] ELSE <<>>
    OBVIOUS
  <2>3. types \in Seq(Types)
    BY <2>1, <2>2, RegistryAssumption
  <2>4. PICK items \in Seq(Items) :
           /\ items = EachUnlessMapped(types, This.path, This.keep) /\ Len(items) = Len(types)
           /\ \A i \in 1..Len(types) : /\ items[i].op = "unless mapped"
                                      /\ items[i].type = types[i] /\ items[i].keep = This.keep
    <3>1. PICK path \in Seq(Words), keep \in BOOLEAN : path = This.path /\ keep = This.keep
      BY <1>1
    <3>2. PICK each \in Seq(Items) : IsEach(each, types, path, keep)
      BY <2>3, EachThing
    <3> QED
      BY <3>1, <3>2 DEF IsEach
  <2>5. Instead(items)
    BY <1>6, <2>2, <2>4 DEF MapPackage, EachUnlessMapped
  <2>6. ASSUME NEW u \in Types, Covers(This, u) PROVE \E k \in 1..Len(items) : Covers(items[k], u)
    <3>1. This.type = FullName[u][1] /\ types = TopLevel[This.type]
      BY <2>1, <2>2, <2>6 DEF Covers
    <3>2. PICK t \in Range(TopLevel[FullName[u][1]]) : FullName[t] \in Ancestors(FullName[u])
      BY <2>1, <3>1, NamesAssumption
    <3>3. PICK i \in 1..Len(types) : types[i] = t
      BY <2>3, <3>1, <3>2 DEF Range
    <3> QED
      BY <2>4, <2>6, <3>2, <3>3 DEF Covers, PassedOver
  <2> QED
    BY <2>4, <2>5, <2>6 DEF PassesOn, FollowsFields
<1>7. CASE SkipMapped
  <2>1. This.op = "unless mapped" /\ Mapped(This.type) /\ Instead(<<>>)
    BY <1>7 DEF SkipMapped, Doing
  <2>2. <<>> \in Seq(Items) /\ Len(<<>>) = 0
    OBVIOUS
  <2>3. call.reg \in Registries
    BY <1>0 DEF TypeOK, CallRecords
  <2>4. \A u \in Types : Covers(This, u) => Mapped(u)
    BY <1>3, <2>1, <2>3 DEF Covers, Mapped, MappedInside, Closed, Current
  <2>5. PassesOn(<<>>)
    BY <1>3, <2>2, <2>4 DEF PassesOn
  <2> QED
    BY <2>1, <2>2, <2>5
<1>8. CASE MapRecursively
  <2>1. This.op \in {"recursive", "unless mapped"} /\ This.type \in Types
    BY <1>1, <1>8 DEF MapRecursively, Doing
  <2>2. PICK inner \in Seq(Types) : inner = Nested[This.type]
    BY <2>1, TypesInside
  <2>3. PICK first \in Seq(Items) :
           /\ first = EachUnlessMapped(inner, This.path, This.keep) /\ Len(first) = Len(inner)
           /\ \A i \in 1..Len(inner) : first[i].op = "unless mapped" /\ first[i].type = inner[i]
                                    /\ first[i].keep = This.keep
    <3>1. PICK path \in Seq(Words), keep \in BOOLEAN : path = This.path /\ keep = This.keep
      BY <1>1
    <3>2. PICK each \in Seq(Items) : IsEach(each, inner, path, keep)
      BY EachThing
    <3> QED
      BY <3>1, <3>2 DEF IsEach
  <2>4. PICK last \in Items : last = ThisMapped /\ last.op = "map" /\ last.type = This.type
                            /\ last.keep = This.keep
    BY <1>1, <2>1, ThisToMap DEF TypeOps
  <2>5. PICK items \in Seq(Items) :
           /\ items = first \o <<last>> /\ Len(items) = Len(first) + 1 /\ Len(first) \in Nat
           /\ items[Len(first) + 1] = last
           /\ \A i \in 1..Len(first) : items[i] = first[i]
    BY ThenLast
  <2>6. Len(items) = Len(inner) + 1 /\ Len(inner) \in Nat
    BY <2>3, <2>5
  <2>7. items[Len(inner) + 1] = last /\ \A i \in 1..Len(inner) : items[i] = first[i]
    BY <2>3, <2>5
  <2>8. Instead(items)
    BY <1>8, <2>2, <2>3, <2>4, <2>5 DEF MapRecursively, EachUnlessMapped, ThisMapped
  <2>9. \A k \in 1..Len(items) : k = Len(inner) + 1 \/ k \in 1..Len(inner)
    BY <2>6
  <2>10. ASSUME NEW u \in Types, u # This.type, FullName[This.type] \in Ancestors(FullName[u])
         PROVE  \E k \in 1..Len(inner) : Covers(items[k], u)
    <3>1. PICK t \in Range(inner) : FullName[t] \in Ancestors(FullName[u])
      BY <2>1, <2>2, <2>10, NamesAssumption
    <3>2. PICK i \in 1..Len(inner) : inner[i] = t
      BY <2>2, <3>1 DEF Range
    <3>3. Kind[u] # "service"
      BY <2>1, <2>10, ServicesAssumption
    <3> QED
      BY <2>3, <2>7, <3>1, <3>2, <3>3 DEF Covers, PassedOver
  <2>11. \A k \in 1..Len(items) : ~FollowsFields(items[k])
    BY <2>3, <2>4, <2>7, <2>9 DEF FollowsFields
  <2>12. ASSUME NEW u \in Types, Covers(This, u) PROVE \E k \in 1..Len(items) : Covers(items[k], u)
    <3>1. FullName[This.type] \in Ancestors(FullName[u])
      BY <2>1, <2>12 DEF Covers
    <3>2. CASE u = This.type
      <4>1. Covers(last, u)
        BY <2>4, <2>12, <3>2 DEF Covers, PassedOver
      <4>2. Len(inner) + 1 \in 1..Len(items)
        BY <2>6
      <4> QED
        BY <2>7, <4>1, <4>2
    <3>3. CASE u # This.type
      BY <2>6, <2>10, <3>1, <3>3
    <3> QED
      BY <3>2, <3>3
  <2>13. ASSUME NEW k \in 1..Len(items), items[k].op = "map",
                NEW u \in Types \ {items[k].type}, FullName[items[k].type] \in Ancestors(FullName[u])
         PROVE  \E j \in 1..(k - 1) : Covers(items[j], u)
    <3>1. k = Len(inner) + 1
      BY <2>3, <2>7, <2>9, <2>13
    <3>2. items[k].type = This.type /\ k - 1 = Len(inner)
      <4>1. items[k] = last
        BY <2>7, <3>1
      <4>2. k - 1 = Len(inner)
        BY <2>6, <3>1
      <4> QED
        BY <2>4, <4>1, <4>2
    <3> QED
      BY <2>10, <2>13, <3>2
  <2> QED
    BY <2>8, <2>11, <2>12, <2>13 DEF PassesOn
<1>9. CASE MapAlongFields \/ MapAlone
  BY <1>5, <1>9 DEF MapAlongFields, MapAlone, Doing, FollowsFields
<1> QED
  BY <1>6, <1>7, <1>8, <1>9
\* What changes when a type is mapped, with or without its methods.
LEMMA MappedFields ==
    ASSUME IInv, MapOne \/ BindFails
    PROVE  /\ reg'[call.reg].mapped = Current.mapped \cup {This.type}
           /\ reg'[call.reg].files = Current.files /\ reg'[call.reg].entries = EntriesNow
           /\ reg'[call.reg].maps =
                 [Current.maps EXCEPT ![This.type] = EntriesNow \cap Repeated[This.type]]
           /\ \A r \in Registries : r # call.reg => reg'[r] = reg[r]
<1>1. call.reg \in Registries /\ reg \in [Registries -> Knowledge]
  BY DEF IInv, TypeOK, CallRecords
<1>2. PICK new : reg' = [reg EXCEPT ![call.reg] = new] /\ (Knows(new, TRUE) \/ Knows(new, FALSE))
  BY MappedState
<1>3. reg'[call.reg] = new /\ \A r \in Registries : r # call.reg => reg'[r] = reg[r]
  BY <1>1, <1>2
<1> QED
  BY <1>2, <1>3 DEF Knows

\* The type is mapped when all that is inside it is.
LEMMA MapOneInside ==
    ASSUME IInv, GhostOK, InsideFirst, MapOne \/ BindFails
    PROVE  InsideFirst'
<1>0. UNCHANGED call /\ ghost'.byPrefix = ghost.byPrefix
  BY DEF MapOne, BindFails, Die, GhostOK
<1> SUFFICES ASSUME ~ghost.byPrefix PROVE InsideFirst'
  BY <1>0 DEF InsideFirst
<1>1. TypeOK /\ ~Idle /\ This.op = "map"
  BY DEF IInv, MapOne, BindFails, Doing
<1>2. <<>> \in Seq(Items) /\ Len(<<>>) = 0
  OBVIOUS
<1>3. call.reg \in Registries
  BY <1>1 DEF TypeOK, CallRecords
<1>4. PICK new : /\ new = reg'[call.reg] /\ new.mapped = Current.mapped \cup {This.type}
                 /\ new.files = Current.files
                 /\ \A r \in Registries : r # call.reg => reg'[r] = reg[r]
  BY MappedFields
<1>5. /\ (Current.files)' = Current.files
      /\ \A u : Mapped(u)' <=> Mapped(u) \/ u = This.type
  BY <1>0, <1>4 DEF Current, Mapped
<1>6. ASSUME NEW u \in Types, FullName[This.type] \in Ancestors(FullName[u]), u # This.type
      PROVE  u \in Current.mapped
  <2>1. 1 \in 1..Len(todo) /\ This = todo[1]
    BY <1>1 DEF TypeOK, Idle, This
  <2>2. InsideBefore(1)
    BY <2>1 DEF InsideFirst
  <2>3. Assured(u, 1 - 1)
    BY <1>1, <1>6, <2>1, <2>2 DEF InsideBefore
  <2>4. Mapped(u)
    BY <2>3 DEF Assured
  <2> QED
    BY <2>4 DEF Mapped
<1>7. Closed(new.mapped)
  <2>1. Closed(Current.mapped)
    BY <1>3 DEF Current, InsideFirst, MappedInside
  <2> QED
    BY <1>4, <1>6, <2>1 DEF Closed
<1>8. MappedInside'
  BY <1>4, <1>7 DEF InsideFirst, MappedInside
<1>9. CASE MapOne
  <2>1. Instead(<<>>) /\ UNCHANGED <<call, ghost>>
    BY <1>9 DEF MapOne
  <2>2. PassesOn(<<>>)
    BY <1>1, <1>2, <1>5 DEF PassesOn, Covers
  <2> QED
    BY <1>1, <1>2, <1>5, <1>8, <2>1, <2>2, InsteadInside
<1>10. CASE BindFails
  <2>1. todo' = <<>> /\ ghost'.failed = TRUE
    BY <1>10 DEF BindFails, Die, GhostOK
  <2>2. Len(todo') = 0
    BY <2>1
  <2> QED
    BY <1>8, <2>1, <2>2 DEF InsideFirst
<1> QED
  BY <1>9, <1>10

\* A service that is ignored was not asked for.
LEMMA IgnoredInside ==
    ASSUME IInv, GhostOK, InsideFirst, MapIgnored
    PROVE  InsideFirst'
<1>1. ~Idle /\ This.op = "map" /\ IgnoredNow /\ Instead(<<>>) /\ UNCHANGED <<reg, call, ghost>>
  BY DEF MapIgnored, OnlyListed, Doing
<1>2. <<>> \in Seq(Items) /\ Len(<<>>) = 0
  OBVIOUS
<1>3. PassesOn(<<>>)
  <2>1. \A u : ~Covers(This, u)
    BY <1>1 DEF Covers, PassedOver, IgnoredNow, Ignored
  <2> QED
    BY <1>2, <2>1 DEF PassesOn
<1>4. (Current.files)' = Current.files /\ \A u : Mapped(u)' = Mapped(u)
  BY <1>1 DEF Current, Mapped
<1>5. ~ghost.byPrefix => MappedInside'
  BY <1>1 DEF InsideFirst, MappedInside
<1> QED
  BY <1>1, <1>2, <1>3, <1>4, <1>5, InsteadInside

\* What resolving the references of a registry leaves as it was.
LEMMA ResolvedFields ==
    ASSUME IInv, MapRefused \/ ResolveFails \/ ResolveMethodsFails \/ Resolve
    PROVE  \A r \in Registries :
              /\ reg'[r].mapped = reg[r].mapped /\ reg'[r].files = reg[r].files
              /\ reg'[r].entries = reg[r].entries /\ reg'[r].maps = reg[r].maps
<1>1. call.reg \in Registries /\ reg \in [Registries -> Knowledge] /\ Current = reg[call.reg]
  BY DEF IInv, TypeOK, Current, CallRecords
<1>2. Current \in Knowledge
  BY <1>1
<1> DEFINE Same(k) == /\ k.mapped = Current.mapped /\ k.files = Current.files
                      /\ k.entries = Current.entries /\ k.maps = Current.maps
<1>3. \A n : Same(Serving(n)) /\ Same([Serving(n) EXCEPT !.methods = <<>>])
  BY <1>2 DEF Serving, Resolved, Knowledge
<1>4. reg' = reg \/ \E k : reg' = [reg EXCEPT ![call.reg] = k] /\ Same(k)
  <2>1. CASE MapRefused \/ ResolveFails
    BY <2>1 DEF MapRefused, ResolveFails
  <2>2. CASE ResolveMethodsFails
    <3>1. PICK n : reg' = [reg EXCEPT ![call.reg] = Serving(n - 1)]
      BY <2>2 DEF ResolveMethodsFails
    <3>2. Same(Serving(n - 1))
      BY <1>3
    <3> QED
      BY <3>1, <3>2
  <2>3. CASE Resolve
    BY <1>3, <2>3 DEF Resolve
  <2> QED
    BY <2>1, <2>2, <2>3
<1>5. CASE reg' = reg
  BY <1>5
<1>6. ASSUME NEW k, reg' = [reg EXCEPT ![call.reg] = k], Same(k)
      PROVE  \A r \in Registries : (r = call.reg /\ reg'[r] = k) \/ reg'[r] = reg[r]
  BY <1>1, <1>6
<1>7. CASE \E k : reg' = [reg EXCEPT ![call.reg] = k] /\ Same(k)
  BY <1>1, <1>6, <1>7
<1> QED
  BY <1>4, <1>5, <1>7

\* Types are resolved, or the call dies: nothing is mapped.
LEMMA EndInside ==
    ASSUME IInv, GhostOK, InsideFirst, MapRefused \/ ResolveFails \/ ResolveMethodsFails \/ Resolve
    PROVE  InsideFirst'
<1>1. call.reg \in Registries
  BY DEF IInv, TypeOK, CallRecords
<1>5. \A r \in Registries : reg'[r].mapped = reg[r].mapped /\ reg'[r].files = reg[r].files
  BY ResolvedFields
<1>6. UNCHANGED call /\ ghost'.byPrefix = ghost.byPrefix /\ ghost'.asked = ghost.asked
  BY DEF MapRefused, ResolveFails, ResolveMethodsFails, Resolve, Croak, Die, GhostOK
<1>7. (Current.files)' = Current.files /\ \A u : Mapped(u)' = Mapped(u)
  BY <1>1, <1>5, <1>6 DEF Current, Mapped
<1>8. InsideFirst => (~ghost.byPrefix => MappedInside /\ MappedInside')
  BY <1>5 DEF InsideFirst, MappedInside
<1>9. CASE MapRefused \/ ResolveFails \/ ResolveMethodsFails
  <2>1. todo' = <<>> /\ ghost'.failed = TRUE
    BY <1>9 DEF MapRefused, ResolveFails, ResolveMethodsFails, Croak, Die, GhostOK
  <2>2. Len(todo') = 0
    BY <2>1
  <2> QED
    BY <1>6, <1>8, <2>1, <2>2 DEF InsideFirst
<1>10. CASE Resolve
  <2>1. ~Idle /\ This.op = "resolve" /\ Instead(<<>>) /\ UNCHANGED <<call, ghost>>
    BY <1>10 DEF Resolve, Doing
  <2>2. <<>> \in Seq(Items) /\ Len(<<>>) = 0
    OBVIOUS
  <2>3. PassesOn(<<>>)
    BY <2>1, <2>2 DEF PassesOn, Covers
  <2> QED
    BY <1>7, <1>8, <2>1, <2>2, <2>3, InsteadInside
<1> QED
  BY <1>9, <1>10

\* A call starts with one thing that covers what it is asked for, or follows fields.
LEMMA StartInside ==
    ASSUME IInv, GhostOK, InsideFirst,
           NEW r \in Registries, NEW options \in AllOptions,
           NEW first \in Items, NEW items \in Whole(first) \cup {<<ResolveAll>>},
           Start(r, options, items), first.op \in {"package", "recursive"},
           ghost'.byPrefix = ghost.byPrefix,
           \A u \in ghost'.asked : items # <<ResolveAll>> /\ Covers(first, u)'
    PROVE  InsideFirst'
<1> SUFFICES ASSUME ~ghost.byPrefix PROVE InsideFirst'
  BY DEF InsideFirst
<1>1. UNCHANGED reg /\ todo' = items
  BY DEF Start
<1>2. MappedInside'
  BY <1>1 DEF InsideFirst, MappedInside
<1>3. items \in {<<first>>, <<first, MapWkts, ResolveAll>>, <<ResolveAll>>}
  BY DEF Whole
<1>4. \A i \in 1..Len(todo') : todo'[i].op \in {"package", "recursive", "resolve"}
  BY <1>1, <1>3 DEF MapWkts, ResolveAll, Do
<1>5. \A i \in 1..Len(todo') : ~FollowsFields(todo'[i]) /\ InsideBefore(i)'
  BY <1>4 DEF FollowsFields, InsideBefore
<1>6. ASSUME NEW u \in ghost'.asked PROVE Assured(u, Len(todo))'
  <2>1. todo' = <<first>> \/ todo' = <<first, MapWkts, ResolveAll>>
    BY <1>1, <1>3, <1>6
  <2>2. 1 \in 1..Len(todo') /\ todo'[1] = first
    <3>1. CASE todo' = <<first>>
      BY <3>1
    <3>2. CASE todo' = <<first, MapWkts, ResolveAll>>
      BY <3>2
    <3> QED
      BY <2>1, <3>1, <3>2
  <2> QED
    BY <1>6, <2>2 DEF Assured
<1> QED
  BY <1>2, <1>5, <1>6 DEF InsideFirst

\* What calls do to the ghost.
LEMMA GhostStep == GhostOK /\ [Next]_vars => GhostOK'
<1> SUFFICES ASSUME GhostOK, [Next]_vars PROVE GhostOK'
  OBVIOUS
<1>1. CASE UNCHANGED ghost
  BY <1>1 DEF GhostOK
<1>2. CASE ghost' = [ghost EXCEPT !.failed = TRUE]
  BY <1>2 DEF GhostOK
<1>4. CASE Steps
  BY <1>1, <1>2, <1>4
  DEF Steps, MapPackage, SkipMapped, MapRecursively, MapAlongFields, MapAlone, OnlyListed,
      MapIgnored, MapRefused, MapOne, BindFails, ResolveFails, ResolveMethodsFails, Resolve,
      Croak, Die
<1>5. \A r : Known(r) \subseteq Types
  BY DEF Known
<1>6. ASSUME NEW asked \in SUBSET Types, ghost' = [ghost EXCEPT !.failed = FALSE, !.asked = asked]
      PROVE  GhostOK'
  BY <1>6 DEF GhostOK
<1>7. ASSUME NEW r \in Registries, NEW p \in Packages, NEW prefix \in Prefixes,
             NEW options \in Options, CallMapPackage(r, p, prefix, options)
      PROVE  GhostOK'
  <2>1. {t \in Known(r) : FullName[t][1] = p /\ ~Ignored(t, options)} \in SUBSET Types
    BY <1>5
  <2> QED
    BY <1>6, <1>7, <2>1 DEF CallMapPackage
<1>8. ASSUME NEW r \in Registries, NEW t \in Types, NEW prefix \in Prefixes,
             NEW options \in Options, CallMapType(r, t, prefix, options)
      PROVE  GhostOK'
  <2>1. {u \in Known(r) : FullName[t] \in Ancestors(FullName[u])} \in SUBSET Types
    BY <1>5
  <2> QED
    BY <1>6, <1>8, <2>1 DEF CallMapType
<1>9. ASSUME NEW r \in Registries, NEW t \in Types, NEW prefix \in Prefixes,
             NEW options \in Options, CallMapMessagePrefix(r, t, prefix, options)
      PROVE  GhostOK'
  BY <1>9 DEF CallMapMessagePrefix, GhostOK
<1>10. ASSUME NEW r \in Registries, CallResolve(r) PROVE GhostOK'
  <2>1. {} \in SUBSET Types
    OBVIOUS
  <2>2. ghost' = [ghost EXCEPT !.failed = FALSE, !.asked = {}]
    BY <1>10 DEF CallResolve
  <2> QED
    BY <1>6, <2>1, <2>2
<1>11. ASSUME NEW r \in Registries, NEW p \in Packages, Load(r, p) PROVE GhostOK'
  BY <1>1, <1>11 DEF Load
<1> QED
  BY <1>1, <1>4, <1>7, <1>8, <1>9, <1>10, <1>11 DEF Next, Calls, vars

\* Every step keeps what is inside first.
LEMMA NextInside ==
    ASSUME IInv, GhostOK, InsideFirst, [Next]_vars
    PROVE  InsideFirst'
<1>1. CASE UNCHANGED vars
  <2>1. UNCHANGED <<reg, todo, call, ghost>>
    BY <1>1 DEF vars
  <2>2. \A u, n : Assured(u, n)' <=> Assured(u, n)
    BY <2>1 DEF Assured, Covers, PassedOver, Mapped, Current
  <2>3. MappedInside => MappedInside'
    BY <2>1 DEF MappedInside
  <2>4. \A i : InsideBefore(i) => InsideBefore(i)'
    BY <2>1, <2>2 DEF InsideBefore
  <2>5. ASSUME NEW u, Assured(u, Len(todo)) PROVE Assured(u, Len(todo))'
    BY <2>1, <2>5 DEF Assured, Covers, PassedOver, Mapped, Current
  <2> QED
    BY <2>1, <2>3, <2>4, <2>5 DEF InsideFirst
<1>2. ASSUME NEW r \in Registries, NEW p \in Packages, Load(r, p) PROVE InsideFirst'
  <2>1. todo = <<>> /\ todo' = <<>> /\ UNCHANGED <<call, ghost>>
    BY <1>2 DEF Load, Idle
  <2>2. reg \in [Registries -> Knowledge] /\ call.reg \in Registries
    BY DEF IInv, TypeOK, CallRecords
  <2>3. \A s \in Registries : reg'[s].mapped = reg[s].mapped
    BY <1>2, <2>2 DEF Load, Knowledge
  <2>4. \A u : Mapped(u)' = Mapped(u)
    BY <2>1, <2>2, <2>3 DEF Mapped, Current
  <2>5. MappedInside => MappedInside'
    BY <2>3 DEF MappedInside
  <2>6. Len(todo) = 0 /\ Len(todo') = 0
    BY <2>1
  <2>7. ASSUME NEW u, Assured(u, Len(todo)) PROVE Assured(u, Len(todo))'
    BY <2>4, <2>6, <2>7 DEF Assured
  <2> QED
    BY <2>1, <2>5, <2>6, <2>7 DEF InsideFirst
<1>3. ASSUME NEW r \in Registries, NEW p \in Packages, NEW prefix \in Prefixes,
             NEW options \in Options, CallMapPackage(r, p, prefix, options)
      PROVE  InsideFirst'
  <2> DEFINE first == Do("package", p, <<prefix>>, FALSE)
  <2>1. first \in Items /\ first.op = "package" /\ first.type = p /\ first.keep = FALSE
    BY DoPackage, PathsOfCalls DEF Do
  <2>2. PICK items \in Whole(first) : Start(r, options, items)
    BY <1>3 DEF CallMapPackage
  <2>3. /\ ghost'.byPrefix = ghost.byPrefix
        /\ ghost'.asked = {t \in Known(r) : FullName[t][1] = p /\ ~Ignored(t, options)}
    BY <1>3 DEF CallMapPackage, GhostOK
  <2>4. (Current.files)' = reg[r].files /\ call'.clients = options.clients
    BY <2>2 DEF Start, Current
  <2>5. \A u \in ghost'.asked : Covers(first, u)'
    BY <2>1, <2>3, <2>4 DEF Covers, PassedOver, Ignored, Known
  <2>6. items # <<ResolveAll>>
    BY <2>1, <2>2 DEF Whole, ResolveAll, Do
  <2> HIDE DEF first
  <2> QED
    BY <2>1, <2>2, <2>3, <2>5, <2>6, StartInside, OptionsOfCalls
<1>4. ASSUME NEW r \in Registries, NEW t \in Types, NEW prefix \in Prefixes,
             NEW options \in Options, CallMapType(r, t, prefix, options)
      PROVE  InsideFirst'
  <2> DEFINE first == Do("recursive", t, <<prefix, t>>, FALSE)
  <2>1. first \in Items /\ first.op = "recursive" /\ first.type = t /\ first.keep = FALSE
    BY DoType, PathsOfCalls DEF Do, TypeOps
  <2>2. PICK items \in Whole(first) : Start(r, options, items)
    BY <1>4 DEF CallMapType
  <2>3. /\ ghost'.byPrefix = ghost.byPrefix
        /\ ghost'.asked = {u \in Known(r) : FullName[t] \in Ancestors(FullName[u])}
    BY <1>4 DEF CallMapType, GhostOK
  <2>4. \A u \in ghost'.asked : Covers(first, u)'
    <3>1. ~Ignored(t, options) /\ call'.clients = options.clients
      BY <1>4, <2>2 DEF CallMapType, Start
    <3>2. \A u \in ghost'.asked : /\ FullName[t] \in Ancestors(FullName[u])
                                  /\ Kind[u] = "service" => u = t
      BY <2>3, ServicesAssumption DEF Known
    <3>3. \A u \in ghost'.asked : ~(Kind[u] = "service" /\ call'.clients = "disable")
      BY <3>1, <3>2 DEF Ignored
    <3> QED
      BY <2>1, <3>2, <3>3 DEF Covers, PassedOver
  <2>5. items # <<ResolveAll>>
    BY <2>1, <2>2 DEF Whole, ResolveAll, Do
  <2> HIDE DEF first
  <2> QED
    BY <2>1, <2>2, <2>3, <2>4, <2>5, StartInside, OptionsOfCalls
<1>5. ASSUME NEW r \in Registries, NEW t \in Types, NEW prefix \in Prefixes,
             NEW options \in Options, CallMapMessagePrefix(r, t, prefix, options)
      PROVE  InsideFirst'
  BY <1>5 DEF CallMapMessagePrefix, GhostOK, InsideFirst
<1>6. ASSUME NEW r \in Registries, CallResolve(r) PROVE InsideFirst'
  <2> DEFINE first == Do("package", WktPackage, <<WktPrefix>>, TRUE)
  <2>1. first \in Items /\ first.op = "package"
    BY DoPackage, PathsOfCalls, RegistryAssumption DEF Do
  <2>2. Start(r, Default, <<ResolveAll>>) /\ ghost'.asked = {} /\ ghost'.byPrefix = ghost.byPrefix
    BY <1>6 DEF CallResolve, GhostOK, Default
  <2> HIDE DEF first
  <2> QED
    BY <2>1, <2>2, StartInside, OptionsOfCalls
<1>7. CASE Steps
  BY <1>7, PlanInside, IgnoredInside, MapOneInside, EndInside DEF Steps
<1> QED
  BY <1>1, <1>2, <1>3, <1>4, <1>5, <1>6, <1>7 DEF Next, Calls

\* It holds at first, when nothing has been asked.
LEMMA InitInside == Init => GhostOK /\ InsideFirst
<1> SUFFICES ASSUME Init PROVE GhostOK /\ InsideFirst
  OBVIOUS
<1>1. GhostOK
  BY DEF Init, GhostOK
<1>2. Len(todo) = 0 /\ ghost.asked = {}
  BY DEF Init
<1>3. MappedInside
  BY DEF Init, Empty, MappedInside, Closed
<1> QED
  BY <1>1, <1>2, <1>3 DEF InsideFirst

\* Whatever calls die, and however types are nested, a call that did not die has mapped
\* all it was asked for (map_message_recursive maps what is inside a message first, and
\* skips a mapped one with all in it).
THEOREM WhatIsAskedIsMapped == Spec => []AskedIsMapped
<1>1. Spec => [](IInv /\ GhostOK /\ InsideFirst)
  <2>1. IInv /\ GhostOK /\ InsideFirst /\ [Next]_vars => (IInv /\ GhostOK /\ InsideFirst)'
    BY NextInv, NextInside, GhostStep
  <2>2. Init => IInv /\ GhostOK /\ InsideFirst
    BY InitInv, InitInside
  <2> QED
    BY <2>1, <2>2, PTL DEF Spec
<1>2. GhostOK /\ InsideFirst => AskedIsMapped
  <2> SUFFICES ASSUME GhostOK, InsideFirst, Idle, ~ghost.failed, ~ghost.byPrefix,
                      NEW u \in ghost.asked
               PROVE  u \in Current.mapped
    BY DEF AskedIsMapped
  <2>1. Len(todo) = 0 /\ Assured(u, Len(todo))
    BY DEF Idle, InsideFirst
  <2> QED
    BY <2>1 DEF Assured, Mapped
<1> QED
  BY <1>1, <1>2, PTL

----------------------------------------------------------------------------
(* Mappers agree on what is a map.                                                  *)

\* The thing will map the entry e, unless that is under way already (recursed_names).
Gives(item, e) ==
    /\ item.type = e /\ e \in LooksLikeEntry
    /\ \/ item.op \in {"map", "alone unless mapped", "unless mapped", "recursive"}
       \/ item.op = "prefix" /\ e \notin recursed

\* e is mapped, or one of the first n things will map it.
Given(e, n) == Mapped(e) \/ \E j \in 1..n : Gives(todo[j], e)

\* The entries of a message that is mapped, or about to be, are mapped before.
MapsItself(item) == item.op \in {"map", "alone unless mapped"}
EntriesInside == \A r \in Registries : \A m \in reg[r].mapped : OwnEntries(m) \subseteq reg[r].mapped
EntriesBefore(i) ==
    MapsItself(todo[i]) => \A e \in OwnEntries(todo[i].type) : Given(e, i - 1)

\* Along fields, an entry is met in the message that has the map only.
OnlyFromMap ==
    \A m \in Types : \A e \in OwnEntries(m) :
       (e \in recursed \/ \E i \in 1..Len(todo) : todo[i].op = "prefix" /\ todo[i].type = e)
          => m \in recursed

MapsAgree ==
    \A r \in Registries :
        /\ reg[r].entries \subseteq LooksLikeEntry
        /\ \A m \in reg[r].mapped : reg[r].maps[m] \cap OwnEntries(m)
                                        = reg[r].entries \cap Repeated[m] \cap OwnEntries(m)

\* Unless a call began at an entry.
EntryFirst ==
    ~ghost.fromEntry =>
        EntriesInside /\ OnlyFromMap /\ MapsAgree /\ \A i \in 1..Len(todo) : EntriesBefore(i)
\* What takes the place of the first thing maps the entry that was to be mapped, and
\* the entries of a message before it; so it does for what is now under way.
GivesOn(items) ==
    /\ \A e : Gives(This, e) => Mapped(e)' \/ \E k \in 1..Len(items) : Gives(items[k], e)'
    /\ \A k \in 1..Len(items) : MapsItself(items[k]) => \A e \in OwnEntries(items[k].type) :
          Mapped(e)' \/ \E j \in 1..(k - 1) : Gives(items[j], e)'
    /\ \A item, e : Gives(item, e) =>
          \/ Gives(item, e)' \/ Mapped(e)' \/ \E k \in 1..Len(items) : Gives(items[k], e)'

\* A step that passes the entries of maps on keeps them before the messages they are in.
LEMMA InsteadEntries ==
    ASSUME TypeOK, ~Idle, NEW items \in Seq(Items), Instead(items),
           \A e : Mapped(e) => Mapped(e)', GivesOn(items),
           \A i \in 1..Len(todo) : EntriesBefore(i)
    PROVE  \A i \in 1..Len(todo') : EntriesBefore(i)'
<1> DEFINE new == Len(items)
<1>1. /\ Len(todo) \in Nat /\ Len(todo) >= 1 /\ This = todo[1] /\ new \in Nat
      /\ Len(todo') = new + Len(todo) - 1
  BY AfterInstead
<1>2. \A k \in 1..new : todo'[k] = items[k]
  BY AfterInstead
<1>3. \A k \in 2..Len(todo) : todo'[k - 1 + new] = todo[k]
  BY AfterInstead
<1> HIDE DEF new
<1>4. ASSUME NEW e, NEW n \in 1..Len(todo), \E k \in 1..new : Gives(items[k], e)'
      PROVE  Given(e, n - 1 + new)'
  <2>1. \A k \in 1..new : k \in 1..(n - 1 + new)
    BY <1>1
  <2>2. PICK k \in 1..new : Gives(items[k], e)'
    BY <1>4
  <2>3. Gives(todo[k], e)'
    BY <1>2, <2>2 DEF Gives
  <2> QED
    BY <2>1, <2>3 DEF Given
<1>5. ASSUME NEW e, NEW n \in 1..Len(todo), Given(e, n)
      PROVE  Given(e, n - 1 + new)'
  <2>1. CASE Mapped(e)
    BY <2>1 DEF Given
  <2>2. CASE Gives(todo[1], e)
    BY <1>1, <1>4, <2>2 DEF GivesOn, new, Given
  <2>3. ASSUME NEW j \in 2..n, Gives(todo[j], e) PROVE Given(e, n - 1 + new)'
    <3>1. j - 1 + new \in 1..(n - 1 + new) /\ j \in 2..Len(todo)
      BY <1>1
    <3>2. PICK item : item = todo[j]
      OBVIOUS
    <3>3. \/ Gives(item, e)' \/ Mapped(e)' \/ \E k \in 1..new : Gives(items[k], e)'
      BY <2>3, <3>2 DEF GivesOn, new
    <3>4. CASE Gives(item, e)'
      <4>1. todo'[j - 1 + new] = item
        BY <1>3, <3>1, <3>2
      <4>2. PICK i \in 1..(n - 1 + new) : i = j - 1 + new
        BY <3>1
      <4>3. Gives(todo[i], e)'
        BY <3>4, <4>1, <4>2 DEF Gives
      <4> QED
        BY <4>3 DEF Given
    <3> QED
      BY <1>4, <3>3, <3>4 DEF Given
  <2>4. \A j \in 1..n : j = 1 \/ j \in 2..n
    OBVIOUS
  <2> QED
    BY <1>5, <2>1, <2>2, <2>3, <2>4 DEF Given
<1>6. ASSUME NEW i \in 1..Len(todo') PROVE EntriesBefore(i)'
  <2>1. CASE i <= new
    <3>1. i \in 1..new /\ todo'[i] = items[i] /\ \A j \in 1..(i - 1) : todo'[j] = items[j]
      BY <1>1, <1>2, <2>1
    <3>2. ASSUME MapsItself(items[i]), NEW e \in OwnEntries(items[i].type) PROVE Given(e, i - 1)'
      <4>1. Mapped(e)' \/ \E j \in 1..(i - 1) : Gives(items[j], e)'
        BY <3>1, <3>2 DEF GivesOn, new
      <4>2. ASSUME NEW j \in 1..(i - 1), Gives(items[j], e)' PROVE Gives(todo[j], e)'
        BY <3>1, <4>2 DEF Gives
      <4> QED
        BY <4>1, <4>2 DEF Given
    <3> QED
      BY <3>1, <3>2 DEF EntriesBefore
  <2>2. CASE i > new
    <3>1. (i - new + 1) \in 2..Len(todo) /\ i = (i - new + 1) - 1 + new
      BY <1>1, <2>2
    <3>2. PICK k \in 2..Len(todo) : i = k - 1 + new /\ todo'[i] = todo[k]
      BY <1>3, <3>1
    <3>3. k \in 1..Len(todo) /\ k - 1 \in 1..Len(todo) /\ (k - 1) - 1 + new = i - 1
      BY <1>1, <3>2
    <3>4. ASSUME NEW e, Given(e, k - 1) PROVE Given(e, i - 1)'
      BY <1>5, <3>3, <3>4
    <3> QED
      BY <3>2, <3>3, <3>4 DEF EntriesBefore
  <2> QED
    BY <1>1, <2>1, <2>2
<1> QED
  BY <1>6

\* Which entries were met stays known.
LEMMA InsteadMet ==
    ASSUME TypeOK, ~Idle, NEW items \in Seq(Items), Instead(items), OnlyFromMap,
           \A m \in Types : \A e \in OwnEntries(m) :
              /\ \A k \in 1..Len(items) :
                    items[k].op = "prefix" /\ items[k].type = e => m \in recursed'
              /\ e \in recursed' /\ e \notin recursed => m \in recursed',
           recursed \subseteq recursed'
    PROVE  OnlyFromMap'
<1> DEFINE new == Len(items)
<1>1. /\ Len(todo) \in Nat /\ Len(todo) >= 1 /\ new \in Nat
      /\ Len(todo') = new + Len(todo) - 1
  BY AfterInstead
<1>2. \A k \in 1..new : todo'[k] = items[k]
  BY AfterInstead
<1>3. \A k \in 2..Len(todo) : todo'[k - 1 + new] = todo[k]
  BY AfterInstead
<1> HIDE DEF new
<1>4. SUFFICES ASSUME NEW m \in Types, NEW e \in OwnEntries(m), m \notin recursed'
               PROVE  /\ e \notin recursed'
                      /\ \A i \in 1..Len(todo') : ~(todo'[i].op = "prefix" /\ todo'[i].type = e)
  BY DEF OnlyFromMap
<1>5. e \notin recursed' /\ \A k \in 1..Len(todo) : ~(todo[k].op = "prefix" /\ todo[k].type = e)
  BY <1>4 DEF OnlyFromMap
<1>6. \A k \in 1..new : ~(items[k].op = "prefix" /\ items[k].type = e)
  BY <1>4 DEF new
<1>7. ASSUME NEW i \in 1..Len(todo') PROVE ~(todo'[i].op = "prefix" /\ todo'[i].type = e)
  <2>1. CASE i <= new
    BY <1>1, <1>2, <1>6, <2>1
  <2>2. CASE i > new
    <3>1. (i - new + 1) \in 2..Len(todo) /\ i = (i - new + 1) - 1 + new
      BY <1>1, <2>2
    <3>2. PICK k \in 2..Len(todo) : i = k - 1 + new /\ todo'[i] = todo[k]
      BY <1>3, <3>1
    <3> QED
      BY <1>1, <1>5, <3>2
  <2> QED
    BY <1>1, <2>1, <2>2
<1> QED
  BY <1>5, <1>7
\* Nothing to do is an empty list of things.
LEMMA NoThings == \E none \in Seq(Items) : none = <<>> /\ 1..Len(none) = {}
<1>1. <<>> \in Seq(Items) /\ Len(<<>>) = 0
  OBVIOUS
<1>2. 1..0 = {}
  OBVIOUS
<1> QED
  BY <1>1, <1>2

\* No entry is lost when nothing takes the place of a thing that gives none.
LEMMA NothingInstead ==
    ASSUME IInv, EntryFirst, ~Idle, Instead(<<>>), UNCHANGED ghost, recursed' = recursed,
           \A e : Mapped(e) => Mapped(e)', \A e : Gives(This, e) => Mapped(e)',
           ~ghost.fromEntry => EntriesInside' /\ MapsAgree'
    PROVE  EntryFirst'
<1> SUFFICES ASSUME ~ghost.fromEntry PROVE EntryFirst'
  BY DEF EntryFirst
<1>0. TypeOK
  BY DEF IInv
<1>1. PICK none \in Seq(Items) : none = <<>> /\ 1..Len(none) = {}
  BY NoThings
<1>2. GivesOn(none)
  <2>1. \A item, e : Gives(item, e)' <=> Gives(item, e)
    BY DEF Gives
  <2> QED
    BY <1>1, <2>1 DEF GivesOn
<1>3. \A i \in 1..Len(todo') : EntriesBefore(i)'
  BY <1>0, <1>1, <1>2, InsteadEntries DEF EntryFirst
<1>4. OnlyFromMap'
  BY <1>0, <1>1, InsteadMet DEF EntryFirst
<1> QED
  BY <1>3, <1>4 DEF EntryFirst

\* After a call that died nothing is left to do.
LEMMA NothingLeft ==
    ASSUME EntryFirst, ~ghost.fromEntry, todo' = <<>>, recursed' = recursed,
           EntriesInside', MapsAgree'
    PROVE  EntryFirst'
<1>1. 1..Len(todo') = {}
  OBVIOUS
<1>2. OnlyFromMap'
  BY <1>1 DEF EntryFirst, OnlyFromMap
<1> QED
  BY <1>1, <1>2 DEF EntryFirst

\* The steps that put others in the place of the first thing.
LEMMA PlanEntries ==
    ASSUME IInv, EntryFirst,
           MapPackage \/ SkipMapped \/ MapRecursively \/ MapAlongFields \/ MapAlone
    PROVE  EntryFirst'
<1> SUFFICES ASSUME ~ghost.fromEntry PROVE EntryFirst'
  BY DEF EntryFirst, MapPackage, SkipMapped, MapRecursively, MapAlongFields, MapAlone, OnlyListed
<1>0. TypeOK /\ ~Idle
  BY DEF IInv, MapPackage, SkipMapped, MapRecursively, MapAlongFields, MapAlone, Doing
<1>1. /\ This.path \in Seq(Words) /\ This.keep \in BOOLEAN /\ This \in Items
      /\ This.op \in {"package", "resolve"} => This.type \in Packages
      /\ This.op \notin {"package", "resolve"} => This.type \in Types
  BY <1>0, FirstThing
<1>2. UNCHANGED <<reg, call, ghost>>
  BY DEF MapPackage, SkipMapped, MapRecursively, MapAlongFields, MapAlone, OnlyListed
<1>3. /\ \A u : Mapped(u)' <=> Mapped(u)
      /\ EntriesInside' /\ MapsAgree' /\ OnlyFromMap /\ \A i \in 1..Len(todo) : EntriesBefore(i)
  BY <1>2 DEF Current, Mapped, EntryFirst, EntriesInside, MapsAgree
<1>4. SUFFICES \E items \in Seq(Items) :
           /\ Instead(items) /\ GivesOn(items) /\ recursed \subseteq recursed'
           /\ \A m \in Types : \A e \in OwnEntries(m) :
                 /\ \A k \in 1..Len(items) :
                       items[k].op = "prefix" /\ items[k].type = e => m \in recursed'
                 /\ e \in recursed' /\ e \notin recursed => m \in recursed'
  BY <1>0, <1>2, <1>3, InsteadEntries, InsteadMet DEF EntryFirst
<1>5. /\ 1 \in 1..Len(todo) /\ This = todo[1]
  BY <1>0 DEF TypeOK, Idle, This
<1>6. PICK none \in Seq(Items) : none = <<>> /\ 1..Len(none) = {}
  BY NoThings
<1>7. recursed' = recursed => \A item, e : Gives(item, e)' <=> Gives(item, e)
  BY DEF Gives
<1>8. CASE MapPackage
  <2>1. This.op = "package" /\ This.type \in Packages /\ recursed' = recursed
    BY <1>1, <1>8 DEF MapPackage, Doing
  <2>2. PICK types : types = IF This.type \in Current.files THEN TopLevel[This.type] ELSE <<>>
    OBVIOUS
  <2>3. types \in Seq(Types)
    BY <2>1, <2>2, RegistryAssumption
  <2>4. PICK items \in Seq(Items) :
           /\ items = EachUnlessMapped(types, This.path, This.keep) /\ Len(items) = Len(types)
           /\ \A i \in 1..Len(types) : /\ items[i].op = "unless mapped"
                                      /\ items[i].type = types[i] /\ items[i].keep = This.keep
    <3>1. PICK path \in Seq(Words), keep \in BOOLEAN : path = This.path /\ keep = This.keep
      BY <1>1
    <3>2. PICK each \in Seq(Items) : IsEach(each, types, path, keep)
      BY <2>3, EachThing
    <3> QED
      BY <3>1, <3>2 DEF IsEach
  <2>5. Instead(items)
    BY <1>8, <2>2, <2>4 DEF MapPackage, EachUnlessMapped
  <2>6. \A e : ~Gives(This, e)
    BY <2>1 DEF Gives
  <2>7. GivesOn(items)
    BY <1>7, <2>1, <2>4, <2>6 DEF GivesOn, MapsItself
  <2> QED
    BY <2>1, <2>4, <2>5, <2>7
<1>9. CASE SkipMapped \/ (MapAlone /\ Mapped(This.type))
  <2>1. Mapped(This.type) /\ Instead(none) /\ recursed' = recursed
    BY <1>6, <1>9 DEF SkipMapped, MapAlone
  <2>2. \A e : Gives(This, e) => Mapped(e)
    BY <2>1 DEF Gives
  <2>3. GivesOn(none)
    BY <1>3, <1>6, <1>7, <2>1, <2>2 DEF GivesOn
  <2> QED
    BY <1>6, <2>1, <2>3
<1>10. CASE MapAlone /\ ~Mapped(This.type)
  <2>1. This.op = "alone unless mapped" /\ This.type \in Types /\ recursed' = recursed
    BY <1>1, <1>10 DEF MapAlone, Doing
  <2>2. PICK item \in Items : item = ThisMapped /\ item.op = "map" /\ item.type = This.type
    BY <1>1, <2>1, ThisToMap DEF TypeOps
  <2>3. <<item>> \in Seq(Items) /\ Len(<<item>>) = 1 /\ <<item>>[1] = item
    OBVIOUS
  <2>4. PICK items \in Seq(Items) : items = <<item>> /\ Len(items) = 1 /\ items[1] = item
    BY <2>3
  <2>5. Instead(items)
    BY <1>10, <2>2, <2>4 DEF MapAlone, ThisMapped
  <2>6. \A e : Gives(This, e) => Gives(items[1], e)'
    BY <2>2, <2>4 DEF Gives
  <2>7. \A e \in OwnEntries(item.type) : Mapped(e)
    <3>1. EntriesBefore(1)
      BY <1>3, <1>5
    <3>2. \A e \in OwnEntries(This.type) : Given(e, 1 - 1)
      BY <1>5, <2>1, <3>1 DEF EntriesBefore, MapsItself
    <3> QED
      BY <2>2, <3>2 DEF Given
  <2>8. \A k \in 1..Len(items) : k = 1
    BY <2>4
  <2>9. GivesOn(items)
    <3>1. \A e : Gives(This, e) => \E k \in 1..Len(items) : Gives(items[k], e)'
      BY <2>4, <2>6
    <3>2. \A k \in 1..Len(items) : \A e \in OwnEntries(items[k].type) : Mapped(e)'
      BY <1>3, <2>4, <2>7, <2>8
    <3> QED
      BY <1>7, <2>1, <3>1, <3>2 DEF GivesOn
  <2> QED
    BY <2>1, <2>2, <2>4, <2>5, <2>8, <2>9
<1>11. CASE MapRecursively
  <2>1. This.op \in {"recursive", "unless mapped"} /\ This.type \in Types /\ recursed' = recursed
    BY <1>1, <1>11 DEF MapRecursively, Doing
  <2>2. PICK inner \in Seq(Types) : inner = Nested[This.type]
    BY <2>1, TypesInside
  <2>3. PICK first \in Seq(Items) :
           /\ first = EachUnlessMapped(inner, This.path, This.keep) /\ Len(first) = Len(inner)
           /\ \A i \in 1..Len(inner) : first[i].op = "unless mapped" /\ first[i].type = inner[i]
    <3>1. PICK path \in Seq(Words), keep \in BOOLEAN : path = This.path /\ keep = This.keep
      BY <1>1
    <3>2. PICK each \in Seq(Items) : IsEach(each, inner, path, keep)
      BY EachThing
    <3> QED
      BY <3>1, <3>2 DEF IsEach
  <2>4. PICK last \in Items : last = ThisMapped /\ last.op = "map" /\ last.type = This.type
    BY <1>1, <2>1, ThisToMap DEF TypeOps
  <2>5. PICK items \in Seq(Items) :
           /\ items = first \o <<last>> /\ Len(items) = Len(first) + 1 /\ Len(first) \in Nat
           /\ items[Len(first) + 1] = last
           /\ \A i \in 1..Len(first) : items[i] = first[i]
    BY ThenLast
  <2>6. Len(items) = Len(inner) + 1 /\ Len(inner) \in Nat
    BY <2>3, <2>5
  <2>7. items[Len(inner) + 1] = last /\ \A i \in 1..Len(inner) : items[i] = first[i]
    BY <2>3, <2>5
  <2>8. Instead(items)
    BY <1>11, <2>2, <2>3, <2>4, <2>5 DEF MapRecursively, EachUnlessMapped, ThisMapped
  <2>9. \A k \in 1..Len(items) : k = Len(inner) + 1 \/ k \in 1..Len(inner)
    BY <2>6
  <2>10. Len(inner) + 1 \in 1..Len(items)
    BY <2>6
  <2>11. \A e : Gives(This, e) => Gives(items[Len(inner) + 1], e)'
    BY <2>4, <2>7 DEF Gives
  <2>12. ASSUME NEW k \in 1..Len(items), MapsItself(items[k]), NEW e \in OwnEntries(items[k].type)
         PROVE  \E j \in 1..(k - 1) : Gives(items[j], e)'
    <3>1. k = Len(inner) + 1
      BY <2>3, <2>7, <2>9, <2>12 DEF MapsItself
    <3>2. items[k] = last /\ k - 1 = Len(inner)
      BY <2>6, <2>7, <3>1
    <3>3. e \in Range(inner)
      BY <2>1, <2>2, <2>4, <2>12, <3>2 DEF OwnEntries
    <3>4. PICK i \in 1..Len(inner) : inner[i] = e
      BY <2>2, <3>3 DEF Range
    <3>5. Gives(items[i], e)'
      BY <2>3, <2>7, <2>12, <3>4 DEF Gives, OwnEntries
    <3> QED
      BY <3>2, <3>4, <3>5
  <2>13. GivesOn(items)
    BY <1>7, <2>1, <2>10, <2>11, <2>12 DEF GivesOn
  <2>14. \A k \in 1..Len(items) : items[k].op # "prefix"
    BY <2>3, <2>4, <2>7, <2>9
  <2> QED
    BY <2>1, <2>8, <2>13, <2>14
<1>12. CASE MapAlongFields /\ This.type \in recursed
  <2>1. This.op = "prefix" /\ Instead(none) /\ recursed' = recursed
    BY <1>6, <1>12 DEF MapAlongFields, Doing
  <2>2. \A e : ~Gives(This, e)
    BY <1>12, <2>1 DEF Gives
  <2>3. GivesOn(none)
    BY <1>6, <1>7, <2>1, <2>2 DEF GivesOn
  <2> QED
    BY <1>6, <2>1, <2>3
<1>13. CASE MapAlongFields /\ This.type \notin recursed
  <2>1. /\ This.op = "prefix" /\ This.type \in Types /\ recursed' = recursed \cup {This.type}
    BY <1>1, <1>13 DEF MapAlongFields, Doing
  <2>2. PICK uses \in Seq(Types) : uses = Uses[This.type]
    BY <2>1, TypesInside
  <2>3. PICK first \in Seq(Items) :
           /\ first = [i \in DOMAIN uses |-> Followed(uses[i])] /\ Len(first) = Len(uses)
           /\ \A i \in 1..Len(uses) : first[i] = Followed(uses[i])
    <3> DEFINE d == [i \in DOMAIN uses |-> Followed(uses[i])]
    <3>1. \A u \in Types : This.path \o FullName[u] \in Seq(Words)
      BY <1>1, TypesInside
    <3>2. \A u \in Types : Followed(u) \in Items
      BY <1>1, <3>1, DoType DEF Followed, TypeOps
    <3>3. DOMAIN uses = 1..Len(uses) /\ Len(uses) \in Nat /\ \A i \in DOMAIN uses : uses[i] \in Types
      OBVIOUS
    <3>4. d \in [1..Len(uses) -> Items] /\ \A i \in 1..Len(uses) : d[i] = Followed(uses[i])
      BY <3>2, <3>3
    <3> HIDE DEF d
    <3>5. d \in Seq(Items) /\ Len(d) = Len(uses)
      BY <3>3, <3>4
    <3> QED
      BY <3>4, <3>5 DEF d
  <2>4. PICK last \in Items :
           /\ last = Do("alone unless mapped", This.type, This.path \o FullName[This.type], FALSE)
           /\ last.op = "alone unless mapped" /\ last.type = This.type
    <3>1. This.path \o FullName[This.type] \in Seq(Words)
      BY <1>1, <2>1, TypesInside
    <3> QED
      BY <2>1, <3>1, DoType DEF TypeOps, Do
  <2>5. PICK items \in Seq(Items) :
           /\ items = first \o <<last>> /\ Len(items) = Len(first) + 1 /\ Len(first) \in Nat
           /\ items[Len(first) + 1] = last
           /\ \A i \in 1..Len(first) : items[i] = first[i]
    BY ThenLast
  <2>6. Len(items) = Len(uses) + 1 /\ Len(uses) \in Nat
    BY <2>3, <2>5
  <2>7. items[Len(uses) + 1] = last /\ \A i \in 1..Len(uses) : items[i] = Followed(uses[i])
    BY <2>3, <2>5
  <2>8. Instead(items)
    BY <1>13, <2>2, <2>3, <2>4, <2>5 DEF MapAlongFields
  <2>9. \A k \in 1..Len(items) : k = Len(uses) + 1 \/ k \in 1..Len(uses)
    BY <2>6
  <2>10. PICK z \in 1..Len(items) : z = Len(uses) + 1 /\ items[z] = last
    BY <2>6, <2>7
  <2>11. \A u \in Types : /\ Followed(u).type = u
                          /\ Followed(u).op = IF Kind[u] = "message" THEN "prefix" ELSE "alone unless mapped"
    BY DEF Followed, Do
  <2>12. \A i \in 1..Len(uses) : uses[i] \in Types
    BY <2>2
  <2>13. ASSUME NEW e \in OwnEntries(This.type) PROVE \E j \in 1..Len(uses) : Gives(items[j], e)'
    <3>1. e \in Range(uses) /\ e \in Types /\ Kind[e] = "message"
      BY <2>2, <2>13 DEF OwnEntries, MessagesUsed, Messages
    <3>2. PICK i \in 1..Len(uses) : uses[i] = e
      BY <2>2, <3>1 DEF Range
    <3>3. e \notin recursed
      BY <1>3, <1>13, <2>1, <2>13 DEF OnlyFromMap
    <3>4. e # This.type
      BY <2>1, <2>13 DEF OwnEntries
    <3>5. Gives(items[i], e)'
      BY <2>1, <2>7, <2>11, <2>13, <3>1, <3>2, <3>3, <3>4 DEF Gives, OwnEntries
    <3> QED
      BY <3>5
  <2>14. ASSUME NEW k \in 1..Len(items), MapsItself(items[k]), NEW e \in OwnEntries(items[k].type)
         PROVE  \E j \in 1..(k - 1) : Gives(items[j], e)'
    <3>1. CASE k = Len(uses) + 1
      <4>1. items[k] = last /\ k - 1 = Len(uses)
        BY <2>6, <2>7, <3>1
      <4> QED
        BY <2>4, <2>13, <2>14, <4>1
    <3>2. CASE k \in 1..Len(uses)
      <4>1. items[k].type \in Types /\ Kind[items[k].type] # "message"
        BY <2>7, <2>11, <2>12, <2>14, <3>2 DEF MapsItself
      <4> QED
        BY <2>14, <4>1, MembersAssumption DEF OwnEntries, MessagesUsed, Range
    <3> QED
      BY <2>9, <3>1, <3>2
  <2>20. \A e : Gives(This, e) => Gives(items[z], e)'
    BY <2>4, <2>10 DEF Gives
  <2>16. \A item, e : Gives(item, e) /\ ~Gives(item, e)' => Gives(items[z], e)'
    BY <2>1, <2>4, <2>10 DEF Gives
  <2>17. GivesOn(items)
    BY <2>14, <2>16, <2>20 DEF GivesOn
  <2>18. ASSUME NEW m \in Types, NEW e \in OwnEntries(m), NEW k \in 1..Len(items),
                items[k].op = "prefix", items[k].type = e
         PROVE  m \in recursed'
    <3>1. k \in 1..Len(uses)
      BY <2>4, <2>7, <2>9, <2>18
    <3>2. uses[k] = e
      BY <2>7, <2>11, <2>12, <2>18, <3>1
    <3>3. e \in Range(uses)
      BY <2>2, <3>1, <3>2 DEF Range
    <3>4. e \in MessagesUsed(This.type)
      BY <2>2, <2>18, <3>3 DEF OwnEntries, MessagesUsed
    <3>5. m = This.type
      BY <2>1, <2>18, <3>4 DEF OwnEntries
    <3> QED
      BY <2>1, <3>5
  <2>19. ASSUME NEW m \in Types, NEW e \in OwnEntries(m), e \in recursed', e \notin recursed
         PROVE  m \in recursed'
    <3>1. e = This.type
      BY <2>1, <2>19
    <3>2. m \in recursed
      BY <1>3, <1>5, <2>1, <2>19, <3>1 DEF OnlyFromMap
    <3> QED
      BY <2>1, <3>2
  <2> QED
    BY <2>1, <2>8, <2>17, <2>18, <2>19
<1> QED
  BY <1>8, <1>9, <1>10, <1>11, <1>12, <1>13

\* A message that is mapped finds its entries mapped, and is not itself an entry of one
\* that is mapped already.
LEMMA MapOneEntries ==
    ASSUME IInv, GhostOK, EntryFirst, MapOne \/ BindFails
    PROVE  EntryFirst'
<1>0. /\ TypeOK /\ ~Idle /\ This.op = "map" /\ ~Refused
      /\ UNCHANGED <<call, recursed>> /\ ghost'.fromEntry = ghost.fromEntry
  BY DEF IInv, MapOne, BindFails, Die, Doing, GhostOK
<1> SUFFICES ASSUME ~ghost.fromEntry PROVE EntryFirst'
  BY <1>0 DEF EntryFirst
<1>1. This.type \in Types /\ 1 \in 1..Len(todo) /\ This = todo[1]
  BY <1>0, FirstThing DEF TypeOK, Idle, This
<1>2. /\ call.reg \in Registries /\ Current \in Knowledge /\ Current = reg[call.reg]
  BY <1>0 DEF TypeOK, Current, CallRecords
<1>3. PICK new : /\ new = reg'[call.reg] /\ new.mapped = Current.mapped \cup {This.type}
                 /\ new.entries = EntriesNow
                 /\ new.maps = [Current.maps EXCEPT ![This.type] = EntriesNow \cap Repeated[This.type]]
                 /\ \A r \in Registries : r # call.reg => reg'[r] = reg[r]
  BY MappedFields
<1>6. \A u : Mapped(u)' <=> Mapped(u) \/ u = This.type
  BY <1>0, <1>3 DEF Current, Mapped
<1>7. OwnEntries(This.type) \subseteq Current.mapped
  <2>1. EntriesBefore(1)
    BY <1>1 DEF EntryFirst
  <2>2. \A e \in OwnEntries(This.type) : Given(e, 1 - 1)
    BY <1>0, <1>1, <2>1 DEF EntriesBefore, MapsItself
  <2> QED
    BY <2>2 DEF Given, Mapped
<1>8. \A m \in Current.mapped : OwnEntries(m) \subseteq Current.mapped
  BY <1>2 DEF EntryFirst, EntriesInside
<1>9. EntriesInside'
  BY <1>3, <1>7, <1>8 DEF EntryFirst, EntriesInside
<1>10. /\ Current.entries \subseteq LooksLikeEntry
       /\ \A m \in Current.mapped : Current.maps[m] \cap OwnEntries(m)
                                       = Current.entries \cap Repeated[m] \cap OwnEntries(m)
  BY <1>2 DEF EntryFirst, MapsAgree
<1>11. EntriesNow \subseteq LooksLikeEntry /\ EntriesNow \subseteq Current.entries \cup {This.type}
       /\ Current.entries \subseteq EntriesNow
  BY <1>10 DEF EntriesNow
<1>12. This.type \notin Current.mapped
  BY <1>0 DEF Refused, Mapped
<1>13. ASSUME NEW m \in new.mapped
       PROVE  new.maps[m] \cap OwnEntries(m) = new.entries \cap Repeated[m] \cap OwnEntries(m)
  <2>1. Current.maps \in [Types -> SUBSET Messages]
    BY <1>2 DEF Knowledge
  <2>2. CASE m = This.type
    BY <1>1, <1>3, <2>1, <2>2
  <2>3. CASE m # This.type
    <3>1. m \in Current.mapped /\ new.maps[m] = Current.maps[m]
      BY <1>1, <1>3, <2>1, <2>3
    <3>2. This.type \notin OwnEntries(m)
      BY <1>8, <1>12, <3>1
    <3>3. EntriesNow \cap OwnEntries(m) = Current.entries \cap OwnEntries(m)
      BY <1>11, <3>2
    <3> QED
      BY <1>3, <1>10, <3>1, <3>3
  <2> QED
    BY <2>2, <2>3
<1>14. MapsAgree'
  <2>1. SUFFICES ASSUME NEW r \in Registries
                 PROVE  /\ reg'[r].entries \subseteq LooksLikeEntry
                        /\ \A m \in reg'[r].mapped :
                              reg'[r].maps[m] \cap OwnEntries(m)
                                 = reg'[r].entries \cap Repeated[m] \cap OwnEntries(m)
    BY DEF MapsAgree
  <2>2. CASE r = call.reg
    <3>1. new.entries \subseteq LooksLikeEntry
      BY <1>3, <1>11
    <3> QED
      BY <1>3, <1>13, <2>2, <3>1
  <2>3. CASE r # call.reg
    <3>1. reg'[r] = reg[r]
      BY <1>3, <2>3
    <3>2. MapsAgree
      BY DEF EntryFirst
    <3> QED
      BY <3>1, <3>2 DEF MapsAgree
  <2> QED
    BY <2>2, <2>3
<1>15. CASE MapOne
  <2>1. \A e : Gives(This, e) => Mapped(e)'
    BY <1>6 DEF Gives
  <2>2. Instead(<<>>) /\ UNCHANGED ghost
    BY <1>15 DEF MapOne
  <2> QED
    BY <1>0, <1>6, <1>9, <1>14, <2>1, <2>2, NothingInstead
<1>16. CASE BindFails
  <2>1. todo' = <<>>
    BY <1>16 DEF BindFails, Die
  <2> QED
    BY <1>0, <1>9, <1>14, <2>1, NothingLeft
<1> QED
  BY <1>15, <1>16

\* A service is no entry.
LEMMA IgnoredEntries ==
    ASSUME IInv, EntryFirst, MapIgnored
    PROVE  EntryFirst'
<1>1. ~Idle /\ IgnoredNow /\ Instead(<<>>) /\ UNCHANGED <<reg, call, ghost, recursed>>
  BY DEF MapIgnored, OnlyListed, Doing
<1>2. \A e : ~Gives(This, e)
  BY <1>1, RegistryAssumption DEF Gives, IgnoredNow, Ignored, Messages
<1>3. \A u : Mapped(u)' = Mapped(u)
  BY <1>1 DEF Current, Mapped
<1>4. ~ghost.fromEntry => EntriesInside' /\ MapsAgree'
  BY <1>1 DEF EntryFirst, EntriesInside, MapsAgree
<1> QED
  BY <1>1, <1>2, <1>3, <1>4, NothingInstead

\* Resolving changes neither what is mapped nor what is an entry.
LEMMA EndEntries ==
    ASSUME IInv, GhostOK, EntryFirst, MapRefused \/ ResolveFails \/ ResolveMethodsFails \/ Resolve
    PROVE  EntryFirst'
<1>1. call.reg \in Registries
  BY DEF IInv, TypeOK, CallRecords
<1>5. \A r \in Registries : /\ reg'[r].mapped = reg[r].mapped /\ reg'[r].entries = reg[r].entries
                            /\ reg'[r].maps = reg[r].maps
  BY ResolvedFields
<1>6. UNCHANGED <<call, recursed>> /\ ghost'.fromEntry = ghost.fromEntry
  BY DEF MapRefused, ResolveFails, ResolveMethodsFails, Resolve, Croak, Die, GhostOK
<1> SUFFICES ASSUME ~ghost.fromEntry PROVE EntryFirst'
  BY <1>6 DEF EntryFirst
<1>7. \A u : Mapped(u)' = Mapped(u)
  BY <1>1, <1>5, <1>6 DEF Current, Mapped
<1>8. EntriesInside' /\ MapsAgree'
  BY <1>5 DEF EntryFirst, EntriesInside, MapsAgree
<1>9. CASE MapRefused \/ ResolveFails \/ ResolveMethodsFails
  <2>1. todo' = <<>>
    BY <1>9 DEF MapRefused, ResolveFails, ResolveMethodsFails, Croak, Die
  <2> QED
    BY <1>6, <1>8, <2>1, NothingLeft
<1>10. CASE Resolve
  <2>1. ~Idle /\ This.op = "resolve" /\ Instead(<<>>) /\ ghost' = ghost
    BY <1>10 DEF Resolve, Doing
  <2>2. \A e : ~Gives(This, e)
    BY <2>1 DEF Gives
  <2> QED
    BY <1>6, <1>7, <1>8, <2>1, <2>2, NothingInstead
<1> QED
  BY <1>9, <1>10

\* A call starts with nothing under way, and along fields not at an entry.
LEMMA StartEntries ==
    ASSUME IInv, EntryFirst,
           NEW r \in Registries, NEW options \in AllOptions,
           NEW first \in Items, NEW items \in Whole(first) \cup {<<ResolveAll>>},
           Start(r, options, items), first.op \in {"package", "recursive", "prefix"},
           ~ghost'.fromEntry =>
              ~ghost.fromEntry /\ (first.op = "prefix" => first.type \notin LooksLikeEntry)
    PROVE  EntryFirst'
<1> SUFFICES ASSUME ~ghost'.fromEntry PROVE EntryFirst'
  BY DEF EntryFirst
<1>1. UNCHANGED reg /\ todo' = items /\ recursed' = {}
  BY DEF Start
<1>2. EntriesInside' /\ MapsAgree'
  BY <1>1 DEF EntryFirst, EntriesInside, MapsAgree
<1>3. items \in {<<first>>, <<first, MapWkts, ResolveAll>>, <<ResolveAll>>}
  BY DEF Whole
<1>4. \A i \in 1..Len(todo') : todo'[i] = first \/ todo'[i].op \in {"package", "resolve"}
  <2>1. MapWkts.op = "package" /\ ResolveAll.op = "resolve"
    BY DEF MapWkts, ResolveAll, Do
  <2>2. CASE todo' = <<first>>
    BY <2>2
  <2>3. CASE todo' = <<first, MapWkts, ResolveAll>>
    BY <2>1, <2>3
  <2>4. CASE todo' = <<ResolveAll>>
    BY <2>1, <2>4
  <2> QED
    BY <1>1, <1>3, <2>2, <2>3, <2>4
<1>5. \A i \in 1..Len(todo') : EntriesBefore(i)'
  BY <1>4 DEF EntriesBefore, MapsItself
<1>6. \A e \in LooksLikeEntry : \A i \in 1..Len(todo') : ~(todo'[i].op = "prefix" /\ todo'[i].type = e)
  BY <1>4
<1>7. OnlyFromMap'
  BY <1>1, <1>6 DEF OnlyFromMap, OwnEntries
<1> QED
  BY <1>2, <1>5, <1>7 DEF EntryFirst

\* Every step keeps entries first.
LEMMA NextEntries ==
    ASSUME IInv, GhostOK, EntryFirst, [Next]_vars
    PROVE  EntryFirst'
<1>1. CASE UNCHANGED vars
  <2>1. UNCHANGED <<reg, todo, call, ghost, recursed>>
    BY <1>1 DEF vars
  <2>2. \A e, n : Given(e, n)' <=> Given(e, n)
    BY <2>1 DEF Given, Gives, Mapped, Current
  <2>3. (EntriesInside => EntriesInside') /\ (MapsAgree => MapsAgree')
    BY <2>1 DEF EntriesInside, MapsAgree
  <2>4. \A i : EntriesBefore(i) => EntriesBefore(i)'
    BY <2>1, <2>2 DEF EntriesBefore
  <2>5. OnlyFromMap => OnlyFromMap'
    BY <2>1 DEF OnlyFromMap
  <2> QED
    BY <2>1, <2>3, <2>4, <2>5 DEF EntryFirst
<1>2. ASSUME NEW r \in Registries, NEW p \in Packages, Load(r, p) PROVE EntryFirst'
  <2>1. todo = <<>> /\ todo' = <<>> /\ UNCHANGED <<call, ghost, recursed>>
    BY <1>2 DEF Load, Idle
  <2>2. reg \in [Registries -> Knowledge]
    BY DEF IInv, TypeOK
  <2>3. \A s \in Registries : /\ reg'[s].mapped = reg[s].mapped
                              /\ reg'[s].entries = reg[s].entries /\ reg'[s].maps = reg[s].maps
    BY <1>2, <2>2 DEF Load, Knowledge
  <2>4. (EntriesInside => EntriesInside') /\ (MapsAgree => MapsAgree')
    BY <2>3 DEF EntriesInside, MapsAgree
  <2>5. OnlyFromMap => OnlyFromMap'
    BY <2>1 DEF OnlyFromMap
  <2>6. 1..Len(todo') = {}
    BY <2>1
  <2> QED
    BY <2>1, <2>4, <2>5, <2>6 DEF EntryFirst
<1>3. ASSUME NEW r \in Registries, NEW p \in Packages, NEW prefix \in Prefixes,
             NEW options \in Options, CallMapPackage(r, p, prefix, options)
      PROVE  EntryFirst'
  <2> DEFINE first == Do("package", p, <<prefix>>, FALSE)
  <2>1. first \in Items /\ first.op = "package"
    BY DoPackage, PathsOfCalls DEF Do
  <2>2. PICK items \in Whole(first) : Start(r, options, items)
    BY <1>3 DEF CallMapPackage
  <2>3. ghost'.fromEntry = ghost.fromEntry
    BY <1>3 DEF CallMapPackage, GhostOK
  <2> HIDE DEF first
  <2> QED
    BY <2>1, <2>2, <2>3, StartEntries, OptionsOfCalls
<1>4. ASSUME NEW r \in Registries, NEW t \in Types, NEW prefix \in Prefixes,
             NEW options \in Options, CallMapType(r, t, prefix, options)
      PROVE  EntryFirst'
  <2> DEFINE first == Do("recursive", t, <<prefix, t>>, FALSE)
  <2>1. first \in Items /\ first.op = "recursive"
    BY DoType, PathsOfCalls DEF Do, TypeOps
  <2>2. PICK items \in Whole(first) : Start(r, options, items)
    BY <1>4 DEF CallMapType
  <2>3. ghost'.fromEntry = ghost.fromEntry
    BY <1>4 DEF CallMapType, GhostOK
  <2> HIDE DEF first
  <2> QED
    BY <2>1, <2>2, <2>3, StartEntries, OptionsOfCalls
<1>5. ASSUME NEW r \in Registries, NEW t \in Types, NEW prefix \in Prefixes,
             NEW options \in Options, CallMapMessagePrefix(r, t, prefix, options)
      PROVE  EntryFirst'
  <2> DEFINE first == Do("prefix", t, <<prefix>>, FALSE)
  <2>1. first \in Items /\ first.op = "prefix" /\ first.type = t
    BY DoType, PathsOfCalls DEF Do, TypeOps
  <2>2. PICK items \in Whole(first) : Start(r, options, items)
    BY <1>5 DEF CallMapMessagePrefix
  <2>3. ghost'.fromEntry = (ghost.fromEntry \/ t \in LooksLikeEntry)
    BY <1>5 DEF CallMapMessagePrefix, GhostOK
  <2> HIDE DEF first
  <2> QED
    BY <2>1, <2>2, <2>3, StartEntries, OptionsOfCalls
<1>6. ASSUME NEW r \in Registries, CallResolve(r) PROVE EntryFirst'
  <2> DEFINE first == Do("package", WktPackage, <<WktPrefix>>, TRUE)
  <2>1. first \in Items /\ first.op = "package"
    BY DoPackage, PathsOfCalls, RegistryAssumption DEF Do
  <2>2. Start(r, Default, <<ResolveAll>>) /\ ghost'.fromEntry = ghost.fromEntry
    BY <1>6 DEF CallResolve, GhostOK, Default
  <2> HIDE DEF first
  <2> QED
    BY <2>1, <2>2, StartEntries, OptionsOfCalls
<1>7. CASE Steps
  BY <1>7, PlanEntries, IgnoredEntries, MapOneEntries, EndEntries DEF Steps
<1> QED
  BY <1>1, <1>2, <1>3, <1>4, <1>5, <1>6, <1>7 DEF Next, Calls

\* It holds at first, when nothing is mapped.
LEMMA InitEntries == Init => EntryFirst
<1> SUFFICES ASSUME Init PROVE EntryFirst
  OBVIOUS
<1>1. todo = <<>> /\ recursed = {}
  BY DEF Init
<1>2. 1..Len(todo) = {}
  BY <1>1
<1>3. EntriesInside /\ MapsAgree
  BY DEF Init, Empty, EntriesInside, MapsAgree
<1> QED
  BY <1>1, <1>2, <1>3 DEF EntryFirst, OnlyFromMap

\* With implicit_maps or without, and whatever call died: a repeated field of an entry
\* that is nested in the message and used by it alone is taken for a map when the mapper
\* of the entry takes itself for one, unless a call of map_message_prefix began at an
\* entry (mapper.cpp looks at the types of the fields when the mapper is made, after those
\* of the entries inside it).
THEOREM OwnMapsAgree == Spec => []OwnMapFieldsAgree
<1>1. Spec => [](IInv /\ GhostOK /\ EntryFirst)
  <2>1. IInv /\ GhostOK /\ EntryFirst /\ [Next]_vars => (IInv /\ GhostOK /\ EntryFirst)'
    BY NextInv, NextEntries, GhostStep
  <2>2. Init => IInv /\ GhostOK /\ EntryFirst
    BY InitInv, InitInside, InitEntries
  <2> QED
    BY <2>1, <2>2, PTL DEF Spec
<1>2. IInv /\ EntryFirst => OwnMapFieldsAgree
  <2>1. IInv => \A r \in Registries : reg[r].mapped \subseteq Types
    BY DEF IInv, TypeOK, Knowledge
  <2> QED
    BY <2>1 DEF EntryFirst, MapsAgree, OwnMapFieldsAgree, AgreeOn
<1> QED
  BY <1>1, <1>2, PTL
=============================================================================
