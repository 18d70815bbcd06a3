----------------------------- MODULE MCRegistry -----------------------------
(* Instances of Registry for TLC.                                                *)
(*                                                                               *)
(* Package p: message A holds a map (its nested message E is the entry), and the *)
(* nested enum N; A and B use each other; B uses the well-known W; service S.    *)
(* Package g: W holds a map, with entry F.                                       *)
EXTENDS Registry

MCKind == [A |-> "message", E |-> "message", N |-> "enum",
           B |-> "message", S |-> "service", W |-> "message", F |-> "message"]
MCNested == [t \in DOMAIN MCKind |->
    CASE t = "A" -> <<"E", "N">> [] t = "W" -> <<"F">> [] OTHER -> <<>>]
MCUses == [t \in DOMAIN MCKind |->
    CASE t = "A" -> <<"N", "E">> [] t = "E" -> <<"B">> [] t = "B" -> <<"W", "A">>
      [] t = "W" -> <<"F">> [] OTHER -> <<>>]
MCRepeated == [t \in DOMAIN MCKind |->
    CASE t = "A" -> {"E"} [] t = "W" -> {"F"} [] OTHER -> {}]
MCMethods == [t \in DOMAIN MCKind |-> IF t = "S" THEN <<{"B"}, {"B", "W"}>> ELSE <<>>]
MCFullName == [A |-> <<"p", "A">>, E |-> <<"p", "A", "E">>,
               N |-> <<"p", "A", "N">>, B |-> <<"p", "B">>, S |-> <<"p", "S">>,
               W |-> <<"g", "W">>, F |-> <<"g", "W", "F">>]
MCTopLevel == [p |-> <<"A", "B", "S">>, g |-> <<"W">>]
MCOptions == {[implicit |-> TRUE, clients |-> "grpc_xs"],
              [implicit |-> FALSE, clients |-> "disable"]}
MCDepends == [p |-> {"p", "g"}, g |-> {"g"}]
=============================================================================
