----------------------------- MODULE Partnership -----------------------------
(***************************************************************************)
(* What it is to be a partner of the marketplace, with no applications,     *)
(* surveys or requests in sight: a user gets a partner's role together with *)
(* the profile of that role, once per role, and keeps the profile whatever  *)
(* role he is given later.  Onboarding implements this module.              *)
(***************************************************************************)
CONSTANTS
    Kinds,      \* partner roles
    OtherRoles  \* the other roles, "customer" among them

VARIABLES
    role,      \* the user's role
    profiles   \* partner roles he has a profile of

Init ==
    /\ role = "customer"
    /\ profiles = {}

Join(k) ==
    /\ k \notin profiles
    /\ role' = k
    /\ profiles' = profiles \cup {k}

Assign(other) ==
    /\ role' = other
    /\ UNCHANGED profiles

Next ==
    \/ \E k \in Kinds : Join(k)
    \/ \E other \in OtherRoles : Assign(other)

Spec == Init /\ [][Next]_<<role, profiles>>
=============================================================================
