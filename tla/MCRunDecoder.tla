---------------------------- MODULE MCRunDecoder ----------------------------
(* Instances of RunDecoder for TLC: which message types the mapper decodes.      *)
EXTENDS RunDecoder

Scal(wire) == [wire |-> wire, repeated |-> FALSE, message |-> NoMessage]
Sub(m)     == [wire |-> LEN, repeated |-> FALSE, message |-> m]
Subs(m)    == [wire |-> LEN, repeated |-> TRUE, message |-> m]
Scals      == [wire |-> VARINT, repeated |-> TRUE, message |-> NoMessage]

Trait == [label |-> "optional", oneof |-> NoOneof, enum |-> FALSE,
          string |-> FALSE, map |-> FALSE]
Req    == [Trait EXCEPT !.label = "required"]
Rep    == [Trait EXCEPT !.label = "repeated"]
Choice == [Trait EXCEPT !.oneof = 1]
Other  == [Trait EXCEPT !.oneof = 2]
Enum   == [Trait EXCEPT !.enum = TRUE]
Enums  == [Rep EXCEPT !.enum = TRUE]
Str    == [Trait EXCEPT !.string = TRUE]
Map    == [Rep EXCEPT !.map = TRUE]

------------------------------------------------------------------------------
(* Merging: RMerge holds messages SMerge, alone, repeated and as a member of a   *)
(* oneof; SMerge has a required field and a oneof of its own.                    *)
(*                                                                               *)
(* Nesting: the same with a root that has required fields too, without oneofs.   *)
(*                                                                               *)
(* Maps: RMap, with a required field, maps integers to messages and strings to    *)
(* enumerations.                                                                 *)

Types == {"RMerge", "SMerge", "RNest", "SNest", "RMap", "SMap", "E", "F"}
MCSchema ==
    [m \in Types |->
        CASE m = "RMerge" -> <<Sub("SMerge"), Scal(VARINT), Subs("SMerge")>>
          [] m = "SMerge" -> <<Scal(VARINT), Scal(VARINT), Scal(VARINT)>>
          [] m = "RNest"  -> <<Scal(VARINT), Sub("SNest"), Scals>>
          [] m = "SNest"  -> <<Scal(VARINT), Scal(VARINT), Sub("SNest")>>
          [] m = "RMap"   -> <<Scal(VARINT), Subs("E"), Subs("F"), Scal(VARINT)>>
          [] m = "SMap"   -> <<Scal(VARINT)>>
          [] m = "E"      -> <<Scal(VARINT), Sub("SMap")>>
          [] m = "F"      -> <<Scal(LEN), Scal(VARINT)>>]
MCTraits ==
    [m \in Types |->
        CASE m = "RMerge" -> <<Other, Other, Rep>>
          [] m = "SMerge" -> <<Req, Choice, Choice>>
          [] m = "RNest"  -> <<Req, Trait, Enums>>
          [] m = "SNest"  -> <<Enum, Req, Trait>>
          [] m = "RMap"   -> <<Req, Map, Map, Enum>>
          [] m = "SMap"   -> <<Enum>>
          [] m = "E"      -> <<Trait, Trait>>
          [] m = "F"      -> <<Str, Enum>>]
MCExplicit == [m \in Types |-> m \in {"SNest", "RMap", "SMap", "E", "F"}]
MCCheck == [m \in Types |-> m \in {"SMerge", "RNest", "SNest", "RMap"}]
MapEntries == {"E", "F"}
=============================================================================
