----------------------------- MODULE TokenStream -----------------------------
(* What a tokenizer promises the code that consumes its tokens, in terms of    *)
(* messages and fields only: no bytes, no cursors.  The consumer                *)
(* (Mapper::run_bbpb_decoder) pushes and pops its own stacks as the tokens say, *)
(* so it relies on all of this:                                                 *)
(*   - the elements of a repeated field come between START_SEQUENCE and         *)
(*     END_SEQUENCE, at least one of them, and nothing else does;               *)
(*   - END_MESSAGE only comes when no sequence of that message is open;         *)
(*   - a message that ends puts its parent back where it was;                   *)
(*   - nothing follows an error or the end of the outermost message.            *)
EXTENDS WireSchema

VARIABLES levels,  \* the open messages, outermost first; empty after an error
          token    \* the last token, "none" when a message was entered or left

vars == <<levels, token>>

Tokens == {"none", "FIELD", "UNKNOWN_FIELD", "START_SEQUENCE", "END_SEQUENCE",
           "END_MESSAGE", "ERROR"}

\* One open message: its type, the field of the last known token, and whether a
\* sequence of that field is open ("empty" until its first element).
Level(m, f, s) == [type |-> m, field |-> f, seq |-> s]

Top == levels[Len(levels)]

InTop(level) == levels' = [levels EXCEPT ![Len(levels)] = level]

TypeOK ==
    /\ levels \in Seq([type: Messages, field: Nat, seq: {"none", "empty", "open"}])
    /\ token \in Tokens

Init ==
    /\ \E root \in Roots : levels = <<Level(root, NoField, "none")>>
    /\ token = "none"

EntersMessage ==
    token = "FIELD" /\ Schema[Top.type][Top.field].message # NoMessage

\* The consumer asks for another token.
Asked ==
    /\ levels # <<>>
    /\ token \notin {"END_MESSAGE", "ERROR"}
    /\ ~EntersMessage

\* A field that is not repeated, or an element of the open sequence.
Field ==
    /\ Asked
    /\ token' = "FIELD"
    /\ \/ /\ Top.seq = "none"
          /\ \E f \in FieldsOf(Top.type) :
                /\ ~Schema[Top.type][f].repeated
                /\ InTop(Level(Top.type, f, "none"))
       \/ /\ Top.seq # "none"
          /\ InTop(Level(Top.type, Top.field, "open"))

UnknownField ==
    /\ Asked
    /\ Top.seq = "none"
    /\ token' = "UNKNOWN_FIELD"
    /\ \E f \in FieldsOf(Top.type) \cup {NoField} : InTop(Level(Top.type, f, "none"))

StartSequence ==
    /\ Asked
    /\ Top.seq = "none"
    /\ token' = "START_SEQUENCE"
    /\ \E f \in FieldsOf(Top.type) :
          /\ Schema[Top.type][f].repeated
          /\ InTop(Level(Top.type, f, "empty"))

EndSequence ==
    /\ Asked
    /\ Top.seq = "open"
    /\ token' = "END_SEQUENCE"
    /\ InTop(Level(Top.type, Top.field, "none"))

EndOfMessage ==
    /\ Asked
    /\ Top.seq = "none"
    /\ token' = "END_MESSAGE"
    /\ UNCHANGED levels

Error ==
    /\ Asked
    /\ token' = "ERROR"
    /\ levels' = <<>>

\* The consumer enters the message a field holds, and leaves it at its end.
StartMessage ==
    /\ EntersMessage
    /\ token' = "none"
    /\ levels' = Append(levels, Level(Schema[Top.type][Top.field].message, NoField, "none"))

EndMessage ==
    /\ token = "END_MESSAGE"
    /\ Len(levels) > 1
    /\ token' = "none"
    /\ levels' = SubSeq(levels, 1, Len(levels) - 1)

Next == \/ Field \/ UnknownField \/ StartSequence \/ EndSequence
        \/ EndOfMessage \/ Error \/ StartMessage \/ EndMessage

Spec == Init /\ [][Next]_vars
=============================================================================
