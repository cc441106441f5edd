----------------------------- MODULE MCAccounts -----------------------------
(* Instances of Accounts for TLC: user 1 may be made the owner, user 2 may *)
(* become a driver or a guide.                                               *)
EXTENDS Accounts, TLC

CONSTANTS j1, j2

OnePartner == [u \in Users |-> IF u = 1 THEN {} ELSE PartnerKinds]

\* Profiles are numbered as guides are approved: here the later user came first
SwappedIds == [u \in Users |-> 3 - u]

Symmetry == Permutations(Jobs)
=============================================================================
