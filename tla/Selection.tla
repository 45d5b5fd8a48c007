------------------------------- MODULE Selection -------------------------------
(***************************************************************************)
(* What a sequence has of a set.  It is what SelectSeq selects, defined by  *)
(* a recursive function so that it can be reasoned about                    *)
(* (Selection_proofs).                                                      *)
(***************************************************************************)
LOCAL INSTANCE Naturals
LOCAL INSTANCE Sequences

\* The elements of s that are in T, in their order.
Only(s, T) ==
    LET among[i \in 0..Len(s)] ==
            IF i = 0 THEN <<>>
            ELSE IF s[i] \in T THEN Append(among[i - 1], s[i])
            ELSE among[i - 1]
    IN  among[Len(s)]

=============================================================================
