--------------------------- MODULE SessionMailbox ---------------------------
(***************************************************************************)
(* What a session promises whoever sends to it, whichever deployment runs  *)
(* it at the moment: a command it accepted is taken exactly once, in the   *)
(* order of acceptance, until the session is over.                         *)
(***************************************************************************)
EXTENDS Sequences, Naturals

CONSTANT Commands

VARIABLES
    accepted,    \* commands in the order they were accepted
    taken,       \* commands in the order a turn took them
    over         \* whether the session has ended

vars == <<accepted, taken, over>>

Init == accepted = <<>> /\ taken = <<>> /\ over = FALSE

Accept(c) ==
    /\ ~over
    /\ \A i \in 1 .. Len(accepted) : accepted[i] # c
    /\ accepted' = Append(accepted, c)
    /\ UNCHANGED <<taken, over>>

Take ==
    /\ ~over
    /\ Len(taken) < Len(accepted)
    /\ taken' = Append(taken, accepted[Len(taken) + 1])
    /\ UNCHANGED <<accepted, over>>

(* A command that ends the session is taken in turn like any other.        *)
End ==
    /\ ~over
    /\ over'
    /\ \/ UNCHANGED taken
       \/ /\ Len(taken) < Len(accepted)
          /\ taken' = Append(taken, accepted[Len(taken) + 1])
    /\ UNCHANGED accepted

Next == (\E c \in Commands : Accept(c)) \/ Take \/ End
Spec == Init /\ [][Next]_vars
=============================================================================
