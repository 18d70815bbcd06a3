-------------------------- MODULE MCTransformQueue --------------------------
(* Instances of TransformQueue for TLC.                                         *)
EXTENDS TransformQueue

Single(t) == [type |-> t, label |-> "single", own |-> "none"]
Mine(t)   == [Single(t) EXCEPT !.own = "plain"]
Choice(t) == [Single(t) EXCEPT !.label = "choice"]
List(t)   == [Single(t) EXCEPT !.label = "list"]
Map(t)    == [Single(t) EXCEPT !.label = "map"]

\* Tree: a message with a transform of its own, which holds itself once, one of a
\* oneof, and in a list.  Table: a field table of scalars, tables and lists of them.
\* Maps: plain messages and tables as the values of maps.  Whole: a message with a
\* oneof of a message and a scalar, and few types, so that its calls can be long enough
\* for the message to come four times.
MCKind == [Tree |-> "plain", Leaf |-> "none", Table |-> "table", Maps |-> "none",
           Whole |-> "plain", Piece |-> "plain", Part |-> "plain"]
MCFields ==
    [Tree  |-> <<Single("Tree"), Choice("Leaf"), Choice("Tree"), List("Tree"), Mine("Leaf")>>,
     Leaf  |-> <<Single("Table")>>,
     Table |-> <<Single(Scalar), Single("Table"), List("Table"), Single("Tree")>>,
     Maps  |-> <<Map("Tree"), Map("Table")>>,
     Whole |-> <<Single("Piece")>>,
     Piece |-> <<Choice("Part"), Choice(Scalar)>>,
     Part  |-> <<>>]
MCMaxEvents == [root \in DOMAIN MCKind |-> IF root = "Whole" THEN 12 ELSE 6]
=============================================================================
