---------------------------- MODULE MCOnboarding ----------------------------
(* Instances of Onboarding for TLC. *)
EXTENDS Onboarding, TLC

CONSTANTS selfie, licence, a1, a2, r1, r2

ForDrivers == [k \in Kinds |-> IF k = "supplier" THEN Photos ELSE {}]

Symmetry == Permutations(Requests) \cup Permutations(Avatars)
=============================================================================
