-------------------------------- MODULE MCOtp --------------------------------
(* Instances of Otp for TLC. *)
EXTENDS Otp, TLC

CONSTANTS r1, r2, c1, c2

\* requests are interchangeable, and so are codes
Symmetry == Permutations(Requests) \cup Permutations(Codes)
=============================================================================
