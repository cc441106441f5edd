----------------------------- MODULE HoldLedger -----------------------------
(***************************************************************************)
(* What the accounts of the marketplace promise about each payment, with   *)
(* no orders, requests, queues or workers in sight: money that a bank holds *)
(* is booked once, and a booked hold is closed once, by a refund that is    *)
(* booked after the bank let the money go.  Billing implements this module. *)
(***************************************************************************)
CONSTANT Payments

VARIABLES
    money,  \* the client's money at the bank: "none", "held" or "released"
    books   \* the accounts: "blank", "hold" or "refunded"

Init ==
    /\ money = [p \in Payments |-> "none"]
    /\ books = [p \in Payments |-> "blank"]

Hold(p) ==
    /\ money[p] = "none"
    /\ money' = [money EXCEPT ![p] = "held"]
    /\ UNCHANGED books

Book(p) ==
    /\ money[p] # "none"
    /\ books[p] = "blank"
    /\ books' = [books EXCEPT ![p] = "hold"]
    /\ UNCHANGED money

\* Only a hold that is in the books is ever released
Release(p) ==
    /\ money[p] = "held"
    /\ books[p] = "hold"
    /\ money' = [money EXCEPT ![p] = "released"]
    /\ UNCHANGED books

Refund(p) ==
    /\ money[p] = "released"
    /\ books[p] = "hold"
    /\ books' = [books EXCEPT ![p] = "refunded"]
    /\ UNCHANGED money

Next == \E p \in Payments : Hold(p) \/ Book(p) \/ Release(p) \/ Refund(p)

Spec == Init /\ [][Next]_<<money, books>>
=============================================================================
