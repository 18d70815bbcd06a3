---------------------------- MODULE MCFieldLookup ----------------------------
(* Messages for FieldLookup: a run of low numbers, as long as it takes to reach  *)
(* the numbers from 70 on with a load of more or less than 75 per cent, and some *)
(* numbers around 70 and far above: among them messages where a number does not  *)
(* fit and a higher one does.                                                    *)
EXTENDS FieldLookup

Blocks == {{}, {3}, 1..52, 1..53, 1..69}
Others == SUBSET {70, 71, 72, 73, 74, 95, 536870911}
MCDefinitions == {block \cup other : block \in Blocks, other \in Others}
=============================================================================
