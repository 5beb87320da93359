---------------------------- MODULE MCPendingInput ----------------------------
(* Requests, batches and messages for the runs of PendingInput: g1 is the  *)
(* approval of a tool with a response policy, a1, a2 and a3 are plain       *)
(* approvals, q1 is a question with options, l1 the limit prompt; the      *)
(* message ok names an option, hi does not.                                *)
EXTENDS PendingInput

CONSTANTS g1, a1, a2, a3, q1, l1, calls, more, poll, limit, ok, hi, alice, bob

Kind == [r \in Requests |-> CASE r = l1 -> "limit" [] r = q1 -> "question" [] OTHER -> "approval"]
BatchOf == [b \in Batches |->
    Requests \cap (CASE b = calls -> {g1, a1} [] b = more -> {a2, a3} [] b = poll -> {q1} [] OTHER -> {l1})]
SaysOf == [t \in Texts |-> IF t = ok THEN "yes" ELSE "prose"]
OneAnswer == {<<"yes">>, <<"no">>}
=============================================================================
