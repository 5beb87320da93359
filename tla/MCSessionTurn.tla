---------------------------- MODULE MCSessionTurn ----------------------------
(* Senders, requests and turn ids for the runs of SessionTurn: alice       *)
(* steers and answers, bob queues; n1 cancels the first turn, c1 whichever *)
(* turn is active.                                                         *)
EXTENDS SessionTurn

CONSTANTS m1, m2, q1, q2, a1, k1, c1, n1, r1, x1, alice, bob

SenderOf == [d \in Deliveries |-> IF d \in Queued THEN bob ELSE alice]
QuestionOf == [a \in Answers |-> k1]
TurnOf == [c \in Cancels |-> IF c = n1 THEN 1 ELSE AnyTurn]
=============================================================================
