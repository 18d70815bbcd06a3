------------------------------ MODULE Registry ------------------------------
(* The registry of mapped types (gpd::Dynamic, src/src/dynamic.cpp): messages,  *)
(* enumerations and services are mapped to Perl packages one by one, packages    *)
(* at a time or along their fields, and become usable when resolve_references    *)
(* has connected all of them.  Several registries share the Perl packages.       *)
(*                                                                               *)
(* A call that maps many types is a list of things to do: it may die in the      *)
(* middle, and what it mapped stays.                                             *)
EXTENDS Integers, Sequences

CONSTANTS
    Registries,   \* Dynamic objects of the process
    Kind,         \* type -> "message", "enum", "service"
    Nested,       \* message -> sequence of the messages, then the enums, inside
    Uses,         \* message -> sequence of the types of its fields
    Repeated,     \* message -> those of its repeated fields
    Methods,      \* service -> sequence of its methods: of each, the messages it
                  \* takes and gives
    FullName,     \* type -> its name as a path, the package first
    TopLevel,     \* package -> sequence of its messages, enums, services
    Depends,      \* package -> packages its file needs, itself included
    WktPackage,   \* "google.protobuf"
    WktPrefix,    \* "Google::ProtocolBuffers::Dynamic::WKT"
    Prefixes,     \* the Perl package prefixes that callers use
    LooksLikeEntry, \* messages that implicit_maps turns into map entries
    Options,      \* the options of calls: implicit_maps, client_services
    MaxCalls      \* bound: calls that map or resolve

VARIABLES
    stashes,      \* Perl packages that exist, as paths
    marked,       \* those that have a $mapped_from
    bound,        \* Perl package -> registry and type of the class there, when it
                  \* is complete
    reg,          \* registry -> see Empty
    todo,         \* what the current call still does, first to last
    call,         \* the current call: registry, implicit_maps, client_services
    recursed,     \* recursed_names of map_message_prefix
    calls,        \* calls so far
    ghost         \* how types came to be mapped, for the properties

vars == <<stashes, marked, bound, reg, todo, call, recursed, calls, ghost>>

Types == DOMAIN Kind
Messages == {t \in Types : Kind[t] = "message"}
Packages == DOMAIN TopLevel

\* How the class of a service is made.
ClientServices == {"disable", "noop", "grpc_xs"}

Words == Types \cup Packages \cup Prefixes \cup {WktPrefix}

ASSUME RegistryAssumption ==
    /\ Kind \in [Types -> {"message", "enum", "service"}]
    /\ Nested \in [Types -> Seq(Types)] /\ Uses \in [Types -> Seq(Types)]
    /\ FullName \in [Types -> Seq(Words)]
    /\ TopLevel \in [Packages -> Seq(Types)] /\ Depends \in [Packages -> SUBSET Packages]
    /\ Methods \in [Types -> Seq(SUBSET Messages)]
    /\ LooksLikeEntry \subseteq Messages
    /\ Options \subseteq [implicit : BOOLEAN, clients : ClientServices]
    /\ WktPackage \in Packages /\ Registries # {}

Range(s) == {s[i] : i \in DOMAIN s}
MessagesUsed(t) == Range(Uses[t]) \cap Messages
AllMethods == UNION {{<<s, i>> : i \in DOMAIN Methods[s]} : s \in Types}
Ancestors(path) == {path} \cup {SubSeq(path, 1, n) : n \in 1..(Len(path) - 1)}

\* Names are those of the descriptors: what is inside a type is in one of those nested
\* in it, and every type is in one at the top of its package.
ASSUME NamesAssumption ==
    /\ \A t, u \in Types : FullName[t] \in Ancestors(FullName[u]) /\ t # u =>
          \E inner \in Range(Nested[t]) : FullName[inner] \in Ancestors(FullName[u])
    /\ \A u \in Types : FullName[u][1] \in Packages =>
          \E t \in Range(TopLevel[FullName[u][1]]) : FullName[t] \in Ancestors(FullName[u])

\* Services are at the top of a package, and no field is of one.
ASSUME ServicesAssumption ==
    /\ \A s, t \in Types : Kind[s] = "service" /\ FullName[t] \in Ancestors(FullName[s]) => t = s
    /\ \A t \in Types : \A u \in Range(Uses[t]) : Kind[u] # "service"

\* Messages have fields, and services have methods.
ASSUME MembersAssumption ==
    \A t \in Types : /\ Repeated[t] \subseteq MessagesUsed(t)
                     /\ Kind[t] # "message" => Uses[t] = <<>>
                     /\ Kind[t] # "service" => Methods[t] = <<>>

\* What a Dynamic knows: files; descriptor_map with mapped_enums and
\* mapped_services, and the Perl package of each type; pending and pending_methods;
\* the mappers that can encode and decode, the methods that can be called, the
\* services whose client class is complete; the messages marked as map entries, and
\* for every mapper the types of the fields it takes for maps.
Empty == [files |-> {}, mapped |-> {}, package |-> [t \in Types |-> <<>>],
          pending |-> {}, methods |-> <<>>, ready |-> {}, served |-> {}, stubs |-> {},
          entries |-> {}, maps |-> [t \in Types |-> {}]]
Current == reg[call.reg]
Idle == todo = <<>>

\* A thing to do concerns a type or, in the first place, a package.
Things(ops, names) == [op : ops, type : names, path : Seq(Words), keep : BOOLEAN]
Items ==
    Things({"unless mapped", "recursive", "prefix", "alone unless mapped", "map"}, Types)
        \cup Things({"package", "resolve"}, Packages)
Do(op, t, path, keep) == [op |-> op, type |-> t, path |-> path, keep |-> keep]

\* The things a call is made of.
MapWkts == Do("package", WktPackage, <<WktPrefix>>, TRUE)
ResolveAll == Do("resolve", WktPackage, <<>>, FALSE)

Init ==
    /\ stashes = {} /\ marked = {} /\ bound = [p \in {} |-> {}]
    /\ reg = [r \in Registries |-> Empty]
    /\ todo = <<>>
    /\ call = [reg |-> CHOOSE r \in Registries : TRUE, implicit |-> FALSE, clients |-> "disable"]
    /\ recursed = {} /\ calls = 0
    /\ ghost = [failed |-> FALSE, byPrefix |-> FALSE, fromEntry |-> FALSE,
              asked |-> {}]

------------------------------------------------------------------------------
(* Calls.                                                                       *)

\* load_file, load_string: the file and what it depends on.
Load(r, p) ==
    /\ Idle /\ p \notin reg[r].files
    /\ reg' = [reg EXCEPT ![r].files = @ \cup Depends[p]]
    /\ UNCHANGED <<stashes, marked, bound, todo, call, recursed, calls, ghost>>

Known(r) == {t \in Types : FullName[t][1] \in reg[r].files}

Start(r, options, items) ==
    /\ Idle /\ calls < MaxCalls
    /\ calls' = calls + 1 /\ todo' = items
    /\ call' = [reg |-> r, implicit |-> options.implicit, clients |-> options.clients]
    /\ recursed' = {}
    /\ UNCHANGED <<stashes, marked, bound, reg>>

\* map with one mapping: what it asks for, the well-known types, resolve_references.
\* A plain map_package, map_message or map_message_prefix does the first only.
Whole(item) == {<<item>>, <<item, MapWkts, ResolveAll>>}

Ignored(t, options) == Kind[t] = "service" /\ options.clients = "disable"

CallMapPackage(r, p, prefix, options) ==
    /\ \E items \in Whole(Do("package", p, <<prefix>>, FALSE)) : Start(r, options, items)
    /\ ghost' = [ghost EXCEPT !.failed = FALSE,
                  !.asked = {t \in Known(r) : FullName[t][1] = p /\ ~Ignored(t, options)}]

\* map_message, map_enum and map_service; a service that is to be ignored is refused
\* at once.
CallMapType(r, t, prefix, options) ==
    /\ t \in Known(r) /\ ~Ignored(t, options)
    /\ \E items \in Whole(Do("recursive", t, <<prefix, t>>, FALSE)) : Start(r, options, items)
    /\ ghost' = [ghost EXCEPT !.failed = FALSE,
                  !.asked = {u \in Known(r) : FullName[t] \in Ancestors(FullName[u])}]
CallMapMessagePrefix(r, t, prefix, options) ==
    /\ t \in Known(r) \cap Messages
    /\ \E items \in Whole(Do("prefix", t, <<prefix>>, FALSE)) : Start(r, options, items)
    /\ ghost' = [ghost EXCEPT !.failed = FALSE, !.asked = {t}, !.byPrefix = TRUE,
                              !.fromEntry = @ \/ t \in LooksLikeEntry]
CallResolve(r) ==
    /\ Start(r, [implicit |-> FALSE, clients |-> "disable"], <<ResolveAll>>)
    /\ ghost' = [ghost EXCEPT !.failed = FALSE, !.asked = {}]

------------------------------------------------------------------------------
(* What a call does, one step at a time.                                        *)

This == Head(todo)
Instead(items) == todo' = items \o Tail(todo)
OnlyListed == UNCHANGED <<stashes, marked, bound, reg, call, calls, ghost>>
Doing(op) == ~Idle /\ This.op = op

\* croak: the rest of the call is not done.
Die ==
    /\ todo' = <<>> /\ ghost' = [ghost EXCEPT !.failed = TRUE]
    /\ UNCHANGED <<bound, call, recursed, calls>>
Croak == Die /\ UNCHANGED <<stashes, marked>>

Mapped(t) == t \in Current.mapped

\* map_package_or_prefix, for the file of the package (if it is loaded).
MapPackage ==
    /\ Doing("package")
    /\ LET types == IF This.type \in Current.files THEN TopLevel[This.type] ELSE <<>>
       IN Instead([i \in DOMAIN types |->
                     Do("unless mapped", types[i], Append(This.path, types[i]), This.keep)])
    /\ OnlyListed /\ UNCHANGED recursed

\* descriptor_map.find, mapped_enums.find: mapped types are skipped, with all that
\* is nested in them.
SkipMapped ==
    /\ Doing("unless mapped") /\ Mapped(This.type)
    /\ Instead(<<>>) /\ OnlyListed /\ UNCHANGED recursed

\* map_message_recursive: nested messages and enums first.

\* Mutant: the message before those nested in it.
MapOuterFirst ==
    /\ Doing("recursive") \/ (Doing("unless mapped") /\ ~Mapped(This.type))
    /\ LET inner == Nested[This.type]
       IN Instead(<<[This EXCEPT !.op = "map"]>> \o
                  [i \in DOMAIN inner |->
                     Do("unless mapped", inner[i], Append(This.path, inner[i]), This.keep)])
    /\ OnlyListed /\ UNCHANGED recursed

\* Mutant: nested types are left to their fields.
MapFlat ==
    /\ Doing("recursive") \/ (Doing("unless mapped") /\ ~Mapped(This.type))
    /\ Instead(<<[This EXCEPT !.op = "map"]>>)
    /\ OnlyListed /\ UNCHANGED recursed

MapRecursively ==
    /\ Doing("recursive") \/ (Doing("unless mapped") /\ ~Mapped(This.type))
    /\ LET inner == Nested[This.type]
       IN Instead([i \in DOMAIN inner |->
                     Do("unless mapped", inner[i], Append(This.path, inner[i]), This.keep)]
                  \o <<[This EXCEPT !.op = "map"]>>)
    /\ OnlyListed /\ UNCHANGED recursed

\* map_message_prefix_recursive: the types of the fields first, then the message
\* unless it is mapped; not the types nested in it.
Followed(t) ==
    IF Kind[t] = "message" THEN Do("prefix", t, This.path, FALSE)
    ELSE Do("alone unless mapped", t, This.path \o FullName[t], FALSE)

\* Mutant: recursed_names is not filled, and a message is mapped before its fields.
MapAlongFieldsForEver ==
    /\ Doing("prefix")
    /\ Instead(<<Do("alone unless mapped", This.type,
                    This.path \o FullName[This.type], FALSE)>>
               \o [i \in DOMAIN Uses[This.type] |-> Followed(Uses[This.type][i])])
    /\ OnlyListed /\ UNCHANGED recursed

MapAlongFields ==
    /\ Doing("prefix")
    /\ IF This.type \in recursed THEN Instead(<<>>) /\ UNCHANGED recursed
       ELSE /\ recursed' = recursed \cup {This.type}
            /\ Instead([i \in DOMAIN Uses[This.type] |-> Followed(Uses[This.type][i])]
                       \o <<Do("alone unless mapped", This.type,
                               This.path \o FullName[This.type], FALSE)>>)
    /\ OnlyListed
MapAlone ==
    /\ Doing("alone unless mapped")
    /\ Instead(IF Mapped(This.type) THEN <<>> ELSE <<[This EXCEPT !.op = "map"]>>)
    /\ OnlyListed /\ UNCHANGED recursed

\* map_message, map_enum, map_service.  A package that another type was mapped to is
\* refused; a well-known type leaves the Perl package as it is when it exists.
DefinesNames == ~This.keep \/ This.path \notin stashes

\* Mutant: one of the two checks is missing.
RefusedIfMapped == Mapped(This.type)

Refused == (DefinesNames /\ This.path \in marked) \/ Mapped(This.type)

\* map_service ignores the service before it looks at it; map_wkts has the default
\* options.

IgnoredNow == Ignored(This.type, call) \/ (Kind[This.type] = "service" /\ This.keep)

MapIgnored ==
    /\ Doing("map") /\ IgnoredNow /\ Instead(<<>>)
    /\ OnlyListed /\ UNCHANGED recursed

MapRefused == Doing("map") /\ ~IgnoredNow /\ Refused /\ Croak /\ UNCHANGED reg

\* Whether the type is a map entry is known from its mapping on; the mapper of a
\* message looks at the types of its repeated fields when it is made.
EntriesNow == Current.entries \cup
    (IF call.implicit /\ ~This.keep /\ This.type \in LooksLikeEntry THEN {This.type} ELSE {})

WithThis ==
    [Current EXCEPT
       !.mapped = @ \cup {This.type},
       !.package = [Current.package EXCEPT ![This.type] = This.path],
       !.pending = IF Kind[This.type] = "message" THEN @ \cup {This.type} ELSE @,
       !.entries = EntriesNow,
       !.maps = [Current.maps EXCEPT ![This.type] = EntriesNow \cap Repeated[This.type]]]

BoundHere == [p \in DOMAIN bound \cup {This.path} |->
                IF p = This.path THEN [reg |-> call.reg, type |-> This.type] ELSE bound[p]]

\* bind_service: the class of a client has a method for each of the service, which
\* waits in pending_methods; with "noop" there are none.
Client == Kind[This.type] = "service" /\ call.clients = "grpc_xs"
Pushed(n) == [WithThis EXCEPT !.methods = @ \o [i \in 1..n |-> <<This.type, i>>]]
WithClient == [Pushed(Len(Methods[This.type])) EXCEPT !.stubs = @ \cup {This.type}]

\* mark_package.
Mark == stashes' = stashes \cup Ancestors(This.path) /\ marked' = marked \cup {This.path}

MapOne ==
    /\ Doing("map") /\ ~IgnoredNow /\ ~Refused /\ Mark
    /\ reg' = [reg EXCEPT ![call.reg] = IF Client THEN WithClient ELSE WithThis]
    /\ bound' = IF DefinesNames THEN BoundHere ELSE bound
    /\ Instead(<<>>)
    /\ UNCHANGED <<call, recursed, calls, ghost>>

\* load_module dies when Grpc::Client is not there, MethodMapper when it has no
\* function for this kind of method: the service is mapped, the methods before this
\* one wait.
BindFails ==
    /\ Doing("map") /\ ~IgnoredNow /\ ~Refused /\ Mark /\ Client
    /\ \E n \in 0..Len(Methods[This.type]) :
         /\ n > 0 => n < Len(Methods[This.type])
         /\ reg' = [reg EXCEPT ![call.reg] = Pushed(n)]
    /\ Die

\* resolve_references: every pending mapper finds those of its fields, or the call
\* dies; only then are they made ready, and pending is cleared.

\* Mutant: a type that was loaded will do.
UnresolvedIfUnknown(types) == \E t \in types : ~(MessagesUsed(t) \subseteq Known(call.reg))

Unresolved(types) == \E t \in types : ~(MessagesUsed(t) \subseteq Current.mapped)

\* Mutant: all that is mapped is made ready.
ResolvedAll == [Current EXCEPT !.ready = @ \cup Current.mapped, !.pending = {}]

Resolved == [Current EXCEPT !.ready = @ \cup Current.pending, !.pending = {}]

\* Mutant: pending is cleared before its mappers are resolved.
ResolveFailsEmpty ==
    /\ Doing("resolve") /\ Unresolved(Current.pending)
    /\ Croak /\ reg' = [reg EXCEPT ![call.reg].pending = {}]

ResolveFails ==
    /\ Doing("resolve") /\ Unresolved(Current.pending)
    /\ Croak /\ UNCHANGED reg

\* Then the pending methods, one after the other: their messages must be mapped, to
\* packages that have the static functions of a message; pending_methods is cleared
\* when all are resolved.
MessagesOf(method) == Methods[method[1]][method[2]]
HasStatic(t) ==
    /\ Current.package[t] \in DOMAIN bound
    /\ Kind[bound[Current.package[t]].type] = "message"
Resolvable(method) == \A t \in MessagesOf(method) : Mapped(t) /\ HasStatic(t)

\* Mutant: pending_methods is cleared before they are resolved.
ServingPopped(n) ==
    [Resolved EXCEPT !.served = @ \cup {Current.methods[i] : i \in 1..n}, !.methods = <<>>]

Serving(n) == [Resolved EXCEPT !.served = @ \cup {Current.methods[i] : i \in 1..n}]

ResolveMethodsFails ==
    /\ Doing("resolve") /\ ~Unresolved(Current.pending)
    /\ \E n \in DOMAIN Current.methods :
         /\ ~Resolvable(Current.methods[n])
         /\ \A i \in 1..n - 1 : Resolvable(Current.methods[i])
         /\ reg' = [reg EXCEPT ![call.reg] = Serving(n - 1)]
    /\ Croak
Resolve ==
    /\ Doing("resolve") /\ ~Unresolved(Current.pending)
    /\ \A n \in DOMAIN Current.methods : Resolvable(Current.methods[n])
    /\ reg' = [reg EXCEPT ![call.reg] =
                 [Serving(Len(Current.methods)) EXCEPT !.methods = <<>>]]
    /\ Instead(<<>>)
    /\ UNCHANGED <<stashes, marked, bound, call, recursed, calls, ghost>>

Calls ==
    \E r \in Registries :
        \/ \E p \in Packages : Load(r, p)
        \/ \E prefix \in Prefixes, options \in Options :
              \/ \E p \in Packages : CallMapPackage(r, p, prefix, options)
              \/ \E t \in Types : \/ CallMapType(r, t, prefix, options)
                                  \/ CallMapMessagePrefix(r, t, prefix, options)
        \/ CallResolve(r)
Steps ==
    \/ MapPackage \/ SkipMapped \/ MapRecursively \/ MapAlongFields \/ MapAlone
    \/ MapIgnored \/ MapRefused \/ MapOne \/ BindFails
    \/ ResolveFails \/ ResolveMethodsFails \/ Resolve
Next == Calls \/ Steps

Spec == Init /\ [][Next]_vars /\ WF_vars(Steps)

------------------------------------------------------------------------------
(* Properties.                                                                  *)

Knowledge ==
    [files : SUBSET Packages, mapped : SUBSET Types, package : [Types -> Seq(Words)],
     pending : SUBSET Messages, methods : Seq(AllMethods), ready : SUBSET Messages,
     served : SUBSET AllMethods, stubs : SUBSET Types,
     entries : SUBSET Messages, maps : [Types -> SUBSET Messages]]

CallRecords == [reg : Registries, implicit : BOOLEAN, clients : ClientServices]

TypeOK ==
    /\ todo \in Seq(Items)
    /\ call \in CallRecords
    /\ marked \subseteq stashes /\ DOMAIN bound \subseteq marked
    /\ \A p \in DOMAIN bound : bound[p] \in [reg : Registries, type : Types]
    /\ reg \in [Registries -> Knowledge]

\* A mapped message is waiting to be resolved, or can encode and decode, never both
\* and never neither, whichever call died before: no type is mapped for good without
\* becoming usable by the next resolve_references (map_message, resolve_references).
NothingLost ==
    \A r \in Registries :
        /\ reg[r].mapped \cap Messages = reg[r].pending \cup reg[r].ready
        /\ reg[r].pending \cap reg[r].ready = {}

\* A message that can encode and decode holds only messages that can: one type that
\* is missing keeps all that wait with it from being used (find_mapper croaks in the
\* first loop of resolve_references, before the second).
ReadyIsClosed ==
    \A r \in Registries : \A m \in reg[r].ready : MessagesUsed(m) \subseteq reg[r].ready

\* The same for services.  Each method of a client class that was made to the end
\* waits to be resolved or can be called, whichever resolve_references dies, and one
\* that can be called has messages that can encode and decode: pending_methods is
\* resolved after pending is clear, and cleared when none has failed.
ServicesResolve ==
    \A r \in Registries :
        /\ \A s \in reg[r].stubs : \A i \in DOMAIN Methods[s] :
              <<s, i>> \in Range(reg[r].methods) \cup reg[r].served
        /\ \A method \in reg[r].served : MessagesOf(method) \subseteq reg[r].ready

\* "old mapping is still in effect": a Perl class keeps the type it was made for,
\* whatever is mapped later, by any registry (check_package, mark_package).
ClassKeepsType ==
    [][\A p \in DOMAIN bound : p \in DOMAIN bound' /\ bound'[p] = bound[p]]_vars

\* A class works on a type its registry has mapped, and no type of a registry has
\* two classes.
ClassPerType ==
    \A p \in DOMAIN bound :
        /\ bound[p].type \in reg[bound[p].reg].mapped
        /\ \A q \in DOMAIN bound : bound[q] = bound[p] => q = p

\* "Each Protocol Buffer message is mapped to a generated Perl class."
HasClass(t) == \E p \in DOMAIN bound : bound[p].type = t
EveryMessageHasClass ==
    \A r \in Registries : \A t \in reg[r].mapped \cap Messages : HasClass(t)

\* A call that did not die has mapped what it was asked for: the package, or the
\* message, with all that is nested inside.  Not so after map_message_prefix, which
\* maps a message without the types nested in it: they are skipped with it later.
AskedIsMapped ==
    Idle /\ ~ghost.failed /\ ~ghost.byPrefix => ghost.asked \subseteq Current.mapped

\* "will be marked as map entries": a mapper takes a repeated field for a map when the
\* mapper of its type takes itself for a map entry.  Of some entries of each message:
AgreeOn(entries) ==
    \A r \in Registries : \A m \in reg[r].mapped :
        reg[r].maps[m] \cap entries[m] = reg[r].entries \cap Repeated[m] \cap entries[m]

\* The entries as protoc would write them: nested in the message that has the map, and
\* used there only.
OwnEntries(m) ==
    {e \in LooksLikeEntry \cap MessagesUsed(m) \cap Range(Nested[m]) :
        \A n \in Types : e \in MessagesUsed(n) => n = m /\ m # e}

\* They agree on these entries, in whatever order and with whatever options the two are
\* mapped, except when map_message_prefix starts at the entry.  implicit_maps marks a type
\* only when it is mapped, and who is mapped before sees a plain message: so they need
\* not agree on an entry written by hand that is declared elsewhere, or shared.
OwnMapFieldsAgree == ~ghost.fromEntry => AgreeOn([m \in Types |-> OwnEntries(m)])

\* Every call ends, although types use each other in circles (recursed_names).
CallsEnd == ~Idle ~> Idle
=============================================================================
