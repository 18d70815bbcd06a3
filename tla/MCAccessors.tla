---------------------------- MODULE MCAccessors -----------------------------
(* A message with a oneof of a number and a message, a list, a map and a        *)
(* scalar extension.                                                                  *)
EXTENDS Accessors, TLC

CONSTANTS a1, a2, h1

MCFields == {"choice", "inner", "list", "map", "extension"}
MCKind == [f \in MCFields |-> IF f \in {"list", "map"} THEN f ELSE "scalar"]
MCType == [f \in MCFields |->
             CASE f = "choice" -> "int"
               [] f = "inner" -> "message"
               [] OTHER -> "enum"]
MCOneof == [f \in MCFields |-> IF f \in {"choice", "inner"} THEN "oneof" ELSE NoOneof]

Sym == Permutations({a1, a2})
==============================================================================
