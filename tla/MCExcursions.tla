---------------------------- MODULE MCExcursions ----------------------------
(* Instances of Excursions for TLC: a calendar of one or two slots. *)
EXTENDS Excursions, TLC

CONSTANTS o1, o2, o3, p1, d1, r1, r2, w1, s1, s2, b1, b2, g1

PaysForO1   == [p \in Payments |-> o1]
AllTBank    == [p \in Payments |-> "tbank"]
SameDate    == [s \in Slots |-> "monday"]
ThreePlaces == [s \in Slots |-> 3]
TwoPlaces   == [s \in Slots |-> 2]
\* o1 and o3 fill a slot of three together; o2 does not fit beside o1
PaxByOrder  == [o \in Orders |-> IF o = o3 THEN 1 ELSE 2]

BookingSymmetry == Permutations(Bookings) \cup Permutations(Requests)
=============================================================================
