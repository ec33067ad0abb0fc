--------------------------- MODULE SequenceParts ---------------------------
(* What remains of a sequence when a loop erases some of its elements.     *)
EXTENDS SequencesExt

(* The elements of s that are in S, in the order in which s has them       *)
Only(s, S) ==
    LET kept[i \in 0..Len(s)] ==
            IF i = 0 THEN <<>>
            ELSE IF s[i] \in S THEN Append(kept[i - 1], s[i]) ELSE kept[i - 1]
    IN  kept[Len(s)]

(* A loop over the indices of s that erases what it finds in S.  The next  *)
(* element then takes the index of the erased one, and the loop goes on    *)
(* with the index after it: the next element is passed over.               *)
EraseInLoop(s, S) ==
    LET scan[i \in 0..Len(s)] ==
            IF i = 0 THEN [kept |-> <<>>, passOver |-> FALSE]
            ELSE IF s[i] \in S /\ ~scan[i - 1].passOver
                 THEN [kept |-> scan[i - 1].kept, passOver |-> TRUE]
                 ELSE [kept |-> Append(scan[i - 1].kept, s[i]), passOver |-> FALSE]
    IN  scan[Len(s)].kept

(* Such a loop for each element of xs                                      *)
EraseEach(s, xs) ==
    LET left[i \in 0..Len(xs)] == IF i = 0 THEN s ELSE EraseInLoop(left[i - 1], {xs[i]})
    IN  left[Len(xs)]
=============================================================================
