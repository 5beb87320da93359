------------------------------ MODULE Filtering ------------------------------
(***************************************************************************)
(* What a component keeps of a sequence.  Only is SelectSeq for membership *)
(* in a set, written as a function so that the proofs can expand it.       *)
(***************************************************************************)
LOCAL INSTANCE Naturals
LOCAL INSTANCE Sequences

Members(s) == {s[i] : i \in 1 .. Len(s)}

Only(s, S) ==
    LET Picked[i \in 0 .. Len(s)] ==
            IF i = 0 THEN <<>>
            ELSE IF s[i] \in S THEN Append(Picked[i - 1], s[i]) ELSE Picked[i - 1]
    IN  Picked[Len(s)]

Without(s, S) == Only(s, Members(s) \ S)
=============================================================================
