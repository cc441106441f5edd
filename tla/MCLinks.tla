------------------------------- MODULE MCLinks -------------------------------
(* Instances of Links for TLC: one order that can be paid beside one that is *)
(* free, or that asks for a bank nobody knows.                               *)
EXTENDS Links

CONSTANTS o1, o2, o3, p1, p2, p3, w1, w2

PaysForO1 == [p \in Payments |-> o1]
AskedFor  == [o \in Orders |-> IF o = o3 THEN "other" ELSE "tbank"]
=============================================================================
