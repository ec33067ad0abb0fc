----------------------------- MODULE UndoHistory -----------------------------
(***************************************************************************)
(* What an undo history promises, whatever the document is: Undo takes it  *)
(* back to exactly what it was before the last change that still stands,   *)
(* Redo takes the last undone change up again, and a new change forgets    *)
(* the undone ones.                                                        *)
(***************************************************************************)
EXTENDS SequencesExt

CONSTANT First  \* the document at the start

VARIABLES doc, past, future

Init == doc = First /\ past = <<>> /\ future = <<>>

Change ==
    /\ past' = Append(past, doc)
    /\ future' = <<>>

Undo ==
    /\ past # <<>>
    /\ doc' = Last(past)
    /\ past' = Front(past)
    /\ future' = Append(future, doc)

Redo ==
    /\ future # <<>>
    /\ doc' = Last(future)
    /\ future' = Front(future)
    /\ past' = Append(past, doc)

Next == Change \/ Undo \/ Redo

Spec == Init /\ [][Next]_<<doc, past, future>>
=============================================================================
