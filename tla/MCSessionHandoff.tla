-------------------------- MODULE MCSessionHandoff --------------------------
(* Commands, the addresses they are sent to and the deployments that       *)
(* accept them, for the runs of SessionHandoff.                            *)
EXTENDS SessionHandoff

CONSTANTS o, s1, s2, x1, stable, alias, dA, dB, m1, m2, m3, end

(* m1 and m2 arrive through a newer deployment, m3 through the old one.    *)
AddressOf == [c \in Commands |-> IF c \in {m1, end} THEN stable ELSE alias]
AcceptedBy == [c \in Commands |-> IF c \in {m1, m2} THEN dB ELSE dA]
=============================================================================
