------------------------------ MODULE MCBilling ------------------------------
(* Instances of Billing for TLC: one order, paid once or twice. *)
EXTENDS Billing, TLC

CONSTANTS o1, p1, p2, d1, d2, r1, r2, r3, w1, w2

\* every payment is for the only order
AllForO1   == [p \in Payments |-> o1]
AllTBank   == [p \in Payments |-> "tbank"]
OneOfEach  == [p \in Payments |-> IF p = p1 THEN "tbank" ELSE "sberbank"]

\* requests, workers and drivers are interchangeable
Symmetry == Permutations(Requests) \cup Permutations(Workers) \cup Permutations(Drivers)
=============================================================================
