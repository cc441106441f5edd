------------------------- MODULE Excursions_proofs -------------------------
(***************************************************************************)
(* Theorems about Excursions, for every calendar, every number of tourists *)
(* and guides and every size of a group.                                   *)
(***************************************************************************)
EXTENDS Excursions, Billing_proofs, FiniteSetTheorems

\* Inductive: a slot's row belongs to the booking that locked it, and keeps the
\* counter the booking read; no two bookings make the same order.
BookingInv ==
    /\ \A b \in Bookings : booking[b] # NoBooking =>
          /\ slotLock[booking[b].slot] = b
          /\ booking[b].slot \in opened
          /\ booking[b].seen = seats[booking[b].slot]
          /\ ~Booked(booking[b].order)
    /\ \A b, c \in Bookings : booking[b] # NoBooking /\ booking[b].order = booking[c].order => b = c

\* Inductive: a guide's deletion goes through only while nobody has an order, and no
\* booking is left of a programme that is gone.
DeletionInv ==
    /\ NoOrphanOrders
    /\ PhotosOutliveProgramme
    /\ ~listed => opened = {}
    /\ \A g \in Deletions : deletion[g] = "clean" => ~listed

TourInv == TourTypeOK /\ Started /\ BookingInv /\ DeletionInv

LEMMA InitTour == TourInit => TourInv
<1> SUFFICES ASSUME TourInit PROVE TourInv
  OBVIOUS
<1>1. TypeOK
  BY InitType DEF TourInit
<1>2. \A o \in Orders : ~Booked(o)
  BY Zenon DEF TourInit, Init, Booked
<1>3. Started
  BY DEF TourInit, Init, Started, IdleRequest
<1>4. NoBooking \in Booking /\ NoVisit \in Visit
  BY DEF NoBooking, Booking, NoVisit, Visit
<1>5. TourTypeOK
  BY <1>1, <1>2, <1>4 DEF TourInit, TourTypeOK, NoVisit
<1>6. BookingInv /\ DeletionInv
  BY <1>2 DEF TourInit, BookingInv, DeletionInv, NoOrphanOrders, PhotosOutliveProgramme
<1>7. QED
  BY <1>3, <1>5, <1>6 DEF TourInv

-----------------------------------------------------------------------------
(* Every step of Excursions is a step of Billing *)

LEMMA StepIsBillings ==
  ASSUME "api" \in Faults, TourInv, [TourNext]_allVars
  PROVE  [Next]_vars
<1> USE DEF TourInv, TourTypeOK, BookingInv
<1>1. ASSUME UNCHANGED vars PROVE [Next]_vars
  BY <1>1
<1>2. ASSUME NEW r \in Requests, RequestStep(r) PROVE [Next]_vars
  BY <1>2 DEF Next
<1>3. ASSUME NEW s \in Slots, OpenSlot(s) PROVE UNCHANGED vars
  BY <1>3 DEF OpenSlot
<1>4. ASSUME NEW b \in Bookings, BookingStep(b) PROVE [Next]_vars
  <2>1. CASE BookCommit(b)
    <3>1. CreateOrder(booking[b].order) /\ booking[b].order \in Orders
      BY <2>1 DEF BookCommit, CreateOrder, Booked
    <3>2. QED
      BY <3>1 DEF Next, ClientStep
  <2>2. ASSUME NEW s \in Slots, NEW o \in Orders, BookLock(b, s, o) PROVE UNCHANGED vars
    BY <2>2 DEF BookLock, LockSlot, Select
  <2>3. CASE BookingLost(b)
    BY <2>3 DEF BookingLost
  <2>4. QED
    BY <1>4, <2>1, <2>2, <2>3 DEF BookingStep
<1>5. ASSUME NEW r \in Requests, GuideStep(r) PROVE [Next]_vars
  <2>1. ASSUME NEW o \in Orders, GuideRead(r, o) PROVE RequestStep(r)
    BY <2>1 DEF GuideRead, RequestStep
  <2>2. CASE GuideFindSlot(r)
    BY <2>2 DEF GuideFindSlot
  <2>3. GuideTwoSlots(r) => RequestStep(r)
    BY DEF GuideTwoSlots, RequestStep, RequestLost
  <2>4. GuideCommit(r) => RequestStep(r)
    BY DEF GuideCommit, RequestStep
  <2>5. GuideLost(r) => RequestStep(r)
    BY DEF GuideLost, RequestStep
  <2>6. QED
    BY <1>2, <1>5, <2>1, <2>2, <2>3, <2>4, <2>5 DEF GuideStep
<1>6. ASSUME NEW g \in Deletions, DeletionStep(g) PROVE UNCHANGED vars
  BY <1>6 DEF DeletionStep, DeleteCheck, DeleteCommit, Delete, DeleteRefused, DeleteClean, Clean,
              DeleteLost
<1>7. CASE OtherStep
  BY <1>7 DEF OtherStep, Next, ClientStep, RequestStep
<1>8. CASE UNCHANGED allVars
  BY <1>8 DEF allVars
<1>9. QED
  BY <1>1, <1>3, <1>4, <1>5, <1>6, <1>7, <1>8 DEF TourNext

-----------------------------------------------------------------------------
(* The invariant of the calendar *)

\* Billing's own requests are not those of a guide who is under way
LEMMA OthersLeaveVisits ==
  ASSUME TourInv, OtherStep
  PROVE  \A r \in Requests : visit[r].step # "none" => req'[r] = req[r]
<1> SUFFICES ASSUME NEW q \in Requests, visit[q].step # "none" PROVE req'[q] = req[q]
  OBVIOUS
<1> USE DEF TourInv
<1>1. ASSUME NEW r \in Requests, RequestStep(r), visit[r].step = "none" PROVE req'[q] = req[q]
  BY <1>1, RequestStepIsLocal DEF TourTypeOK
<1>2. ASSUME NEW p \in Payments, HoldPlaced(p) \/ WebhookRepeated(p) PROVE req'[q] = req[q]
  BY <1>2 DEF HoldPlaced, WebhookRepeated
<1>3. ASSUME NEW w \in Workers, WorkerStep(w) PROVE req'[q] = req[q]
  BY <1>3 DEF WorkerStep, RefundTake, Deliver, RefundFind, Found, RefundNotFound, BankReleases,
              BankRefuses, Refusal, RefundCommit, BookRefund, RefundConflict, WorkerLost, Dies,
              Redelivered, TaskFails
<1>4. QED
  BY <1>1, <1>2, <1>3 DEF OtherStep, RequestStep

LEMMA OtherTour ==
  ASSUME TourInv, TypeOK', OtherStep
  PROVE  TourInv'
<1> USE DEF TourInv, tourVars, historyVars
<1>1. BillingStep /\ UNCHANGED tourVars
  BY DEF OtherStep, BillingStep, RequestStep
<1>2. Started' /\ OldOrders
  BY <1>1, StepKeepsStarted DEF TourTypeOK
<1>3. \A r \in Requests : visit[r].step # "none" => req'[r] = req[r]
  BY OthersLeaveVisits
<1>4. TourTypeOK'
  BY <1>1, <1>2, <1>3 DEF TourTypeOK, Booked, OldOrders
<1>5. BookingInv' /\ DeletionInv'
  BY <1>1, <1>2 DEF TourTypeOK, BookingInv, DeletionInv, NoOrphanOrders, PhotosOutliveProgramme,
                    Booked, OldOrders
<1>6. QED
  BY <1>2, <1>4, <1>5

LEMMA BookingTour ==
  ASSUME TourInv, TypeOK', NEW b \in Bookings, BookingStep(b)
  PROVE  TourInv'
<1> USE ExcursionsAssumption, BillingAssumption DEF TourInv, NoBooking, historyVars
<1>1. ASSUME NEW s \in Slots, NEW o \in Orders, BookLock(b, s, o) PROVE TourInv'
  <2> USE <1>1 DEF BookLock, LockSlot, Select, vars, rowVars
  <2>1. TourTypeOK'
    BY DEF TourTypeOK, Booking, Booked
  <2>2. BookingInv'
    BY DEF TourTypeOK, BookingInv, Booked, Booking
  <2>3. DeletionInv' /\ Started'
    BY DEF DeletionInv, NoOrphanOrders, PhotosOutliveProgramme, Booked, Started
  <2>4. QED
    BY <2>1, <2>2, <2>3
<1>2. CASE BookCommit(b)
  <2> USE <1>2 DEF BookCommit, SetStatus
  <2>1. TourTypeOK'
    BY DEF TourTypeOK, Booking, Booked
  <2>2. BookingInv'
    BY DEF TourTypeOK, BookingInv, Booked, Booking
  <2>3. DeletionInv' /\ Started'
    BY DEF TourTypeOK, BookingInv, DeletionInv, NoOrphanOrders, PhotosOutliveProgramme, Booked, Started
  <2>4. QED
    BY <2>1, <2>2, <2>3
<1>3. CASE BookingLost(b)
  <2> USE <1>3 DEF BookingLost, vars, rowVars
  <2>1. TourTypeOK'
    BY DEF TourTypeOK, Booking, Booked
  <2>2. BookingInv'
    BY DEF TourTypeOK, BookingInv, Booked, Booking
  <2>3. DeletionInv' /\ Started'
    BY DEF DeletionInv, NoOrphanOrders, PhotosOutliveProgramme, Booked, Started
  <2>4. QED
    BY <2>1, <2>2, <2>3
<1>4. QED
  BY <1>1, <1>2, <1>3 DEF BookingStep

LEMMA GuideTour ==
  ASSUME "api" \in Faults, TourInv, TypeOK', NEW r \in Requests, GuideStep(r)
  PROVE  TourInv'
<1> USE ExcursionsAssumption, BillingAssumption DEF TourInv, NoVisit, NoBooking, historyVars
<1>1. ASSUME NEW o \in Orders, GuideRead(r, o) PROVE TourInv'
  <2>1. RequestStep(r) /\ Booked(o) /\ UNCHANGED status
    BY <1>1 DEF RequestStep, GuideRead, CancelRead, Booked, rowVars
  <2>2. req' = [req EXCEPT ![r] = [op |-> "cancel", order |-> o, payment |-> None,
                                   driver |-> None, seen |-> status[o]]]
    BY <1>1 DEF GuideRead, CancelRead, Start
  <2>3. TourTypeOK'
    BY <1>1, <2>1, <2>2 DEF GuideRead, TourTypeOK, TypeOK, Visit, Booked
  <2>4. Started' /\ BookingInv' /\ DeletionInv'
    BY <1>1, <2>1, <2>2 DEF GuideRead, TourTypeOK, TypeOK, Started, BookingInv, DeletionInv,
          NoOrphanOrders, PhotosOutliveProgramme, Booked
  <2>5. QED
    BY <2>3, <2>4
<1>2. CASE GuideFindSlot(r)
  <2>1. TourTypeOK'
    BY <1>2 DEF GuideFindSlot, TourTypeOK, Visit, Booked, vars, rowVars
  <2>2. Started' /\ BookingInv' /\ DeletionInv'
    BY <1>2 DEF GuideFindSlot, TourTypeOK, Started, BookingInv, DeletionInv, NoOrphanOrders,
          PhotosOutliveProgramme, Booked, vars, rowVars
  <2>3. QED
    BY <2>1, <2>2
<1>3. CASE GuideTwoSlots(r) \/ GuideLost(r)
  <2>1. Abandon(r) /\ UNCHANGED status /\ visit' = [visit EXCEPT ![r] = NoVisit]
    BY <1>3 DEF GuideTwoSlots, GuideLost, RequestLost, Abandon
  <2>2. UNCHANGED <<listed, opened, seats, slotLock, slotOf, booking, deletion, cleaned, historyVars>>
    BY <1>3 DEF GuideTwoSlots, GuideLost
  <2>3. req' = [req EXCEPT ![r] = IdleRequest]
    BY <2>1 DEF Abandon, Finish
  <2>4. TourTypeOK'
    BY <2>1, <2>2, <2>3 DEF TourTypeOK, TypeOK, Visit, Booked
  <2>5. Started' /\ BookingInv' /\ DeletionInv'
    BY <2>1, <2>2, <2>3 DEF TourTypeOK, TypeOK, Started, BookingInv, DeletionInv, NoOrphanOrders,
          PhotosOutliveProgramme, Booked, IdleRequest
  <2>6. QED
    BY <2>4, <2>5
<1>4. CASE GuideCommit(r)
  <2> DEFINE s == visit[r].slot
             o == req[r].order
  <2>1. s \in Slots /\ o \in Orders /\ slotLock[s] = None
    BY <1>4 DEF GuideCommit, ReturnSeats, TourTypeOK, TypeOK
  <2>2. RequestStep(r)
    BY <1>4 DEF GuideCommit, RequestStep
  <2>3. Started' /\ OldOrders
    BY <2>2, StepKeepsStarted DEF BillingStep, TourTypeOK
  <2>4. visit[r].seen + Pax[o] \in Nat
    BY <2>1 DEF TourTypeOK, Visit
  <2>5. \A q \in Requests : visit'[q].step # "none" => req'[q] = req[q]
    BY <1>4 DEF GuideCommit, ReturnSeats, CancelCommit, TourTypeOK, TypeOK
  <2>6. TourTypeOK'
    <3>1. /\ seats' \in [Slots -> Nat]
          /\ visit' \in [Requests -> Visit]
          /\ \A q \in Requests : visit'[q].step # "none" => visit'[q] = visit[q]
          /\ returned' \subseteq Orders /\ amiss' \subseteq Slots
      BY <1>4, <2>1, <2>4 DEF GuideCommit, ReturnSeats, TourTypeOK, Visit
    <3>2. UNCHANGED <<listed, opened, slotLock, slotOf, booking, deletion, cleaned>>
      BY <1>4 DEF GuideCommit, ReturnSeats
    <3>3. QED
      BY <2>3, <2>5, <3>1, <3>2 DEF TourTypeOK, Booked, OldOrders
  <2>7. BookingInv'
    BY <1>4, <2>1, <2>3 DEF GuideCommit, ReturnSeats, TourTypeOK, BookingInv, Booked, OldOrders
  <2>8. DeletionInv'
    BY <1>4, <2>3 DEF GuideCommit, ReturnSeats, DeletionInv, NoOrphanOrders,
          PhotosOutliveProgramme, Booked, OldOrders
  <2>9. QED
    BY <2>3, <2>6, <2>7, <2>8
<1>5. QED
  BY <1>1, <1>2, <1>3, <1>4 DEF GuideStep

LEMMA CalendarTour ==
  ASSUME TourInv, TypeOK', NEW s \in Slots, OpenSlot(s)
  PROVE  TourInv'
<1> USE ExcursionsAssumption DEF TourInv, OpenSlot, vars, rowVars, historyVars
<1>1. TourTypeOK'
  BY DEF TourTypeOK, Booked
<1>2. Started' /\ BookingInv' /\ DeletionInv'
  BY DEF TourTypeOK, Started, BookingInv, DeletionInv, NoOrphanOrders, PhotosOutliveProgramme, Booked
<1>3. QED
  BY <1>1, <1>2

LEMMA DeletionTour ==
  ASSUME TourInv, TypeOK', NEW g \in Deletions, DeletionStep(g)
  PROVE  TourInv'
<1> USE ExcursionsAssumption DEF TourInv, vars, rowVars, historyVars
<1>1. CASE DeleteCommit(g)
  <2>1. \A b \in Bookings : booking[b] = NoBooking
    BY <1>1 DEF DeleteCommit, TourTypeOK, BookingInv
  <2>2. TourTypeOK' /\ Started'
    BY <1>1 DEF DeleteCommit, Delete, TourTypeOK, Started, Booked
  <2>3. BookingInv' /\ DeletionInv'
    BY <1>1, <2>1 DEF DeleteCommit, Delete, TourTypeOK, BookingInv, DeletionInv, NoOrphanOrders,
          PhotosOutliveProgramme, Booked
  <2>4. QED
    BY <2>2, <2>3
<1>2. CASE DeleteCheck(g) \/ DeleteRefused(g) \/ DeleteLost(g) \/ DeleteClean(g)
  <2>1. UNCHANGED <<vars, listed, opened, seats, slotLock, slotOf, booking, visit, historyVars>>
    BY <1>2 DEF DeleteCheck, DeleteRefused, DeleteLost, DeleteClean, Clean
  <2>2. deletion' \in [Deletions -> {"idle", "delete", "clean"}] /\ cleaned' \in BOOLEAN
    BY <1>2 DEF DeleteCheck, DeleteRefused, DeleteLost, DeleteClean, Clean, TourTypeOK
  <2>3. TourTypeOK' /\ Started' /\ BookingInv'
    BY <2>1, <2>2 DEF TourTypeOK, Started, BookingInv, Booked
  <2>4. DeletionInv'
    BY <1>2, <2>1 DEF DeleteCheck, DeleteRefused, DeleteLost, DeleteClean, Clean, TourTypeOK,
          DeletionInv, NoOrphanOrders, PhotosOutliveProgramme, Booked
  <2>5. QED
    BY <2>3, <2>4
<1>3. QED
  BY <1>1, <1>2 DEF DeletionStep

LEMMA NextTour ==
  ASSUME "api" \in Faults, TourInv, [TourNext]_allVars
  PROVE  TourInv'
<1>1. TypeOK'
  BY StepIsBillings, NextType DEF TourInv, TourTypeOK
<1>2. CASE UNCHANGED allVars
  <2>1. TourTypeOK' /\ Started'
    BY <1>1, <1>2 DEF TourInv, TourTypeOK, Started, allVars, vars, tourVars, historyVars, rowVars, Booked
  <2>2. BookingInv' /\ DeletionInv'
    BY <1>2 DEF TourInv, BookingInv, DeletionInv, NoOrphanOrders, PhotosOutliveProgramme, Booked,
          allVars, vars, tourVars, rowVars
  <2>3. QED
    BY <2>1, <2>2 DEF TourInv
<1>3. QED
  BY <1>1, <1>2, BookingTour, GuideTour, CalendarTour, DeletionTour, OtherTour DEF TourNext

-----------------------------------------------------------------------------
(* Theorems.  A request that raises is a fault of the API, which each assumes. *)

\* The invariant behind the theorems on the calendar holds in every state.
THEOREM TourInvariant == ASSUME "api" \in Faults PROVE TourSpec => []TourInv
  BY InitTour, NextTour, PTL DEF TourSpec

\* Every row, booking, visit and deletion keeps the type its model declares; a
\* slot's counter, in particular, never goes below zero.
THEOREM TourTypeCorrect == ASSUME "api" \in Faults PROVE TourSpec => []TourTypeOK
<1>1. TourInv => TourTypeOK
  BY DEF TourInv
<1>2. QED
  BY <1>1, TourInvariant, PTL

\* Bookings and guides' cancellations are Billing's requests as far as orders and
\* money go: every theorem about Billing's Spec holds of excursions too.
THEOREM ExcursionsImplementBilling == ASSUME "api" \in Faults PROVE TourSpec => ImplementsBilling
<1>1. TourInit => Init
  BY DEF TourInit
<1>2. TourInv /\ [TourNext]_allVars => [Next]_vars
  BY StepIsBillings
<1>3. QED
  BY <1>1, <1>2, TourInvariant, PTL DEF TourSpec, Spec, ImplementsBilling

\* So do the accounts: money on excursions lives as the ledger's specification says.
THEOREM ExcursionsKeepAccounts == ASSUME "api" \in Faults PROVE TourSpec => KeepsAccounts
  BY ExcursionsImplementBilling, ImplementsLedger, PTL DEF ImplementsBilling

\* What Billing promises of orders and refunds is kept however bookings, guides'
\* cancellations and deletions of programmes mix with payments and drivers.
THEOREM ExcursionsKeepPromises ==
  ASSUME "api" \in Faults
  PROVE  TourSpec => /\ [](RefundedOnce /\ LedgerFollowsBank /\ PaidBeforeWork)
                     /\ TakenOffExchangeOnly
                     /\ ReopenedOnlyByNewPayment
  BY ExcursionsImplementBilling, RefundOnce, BooksFollowBank, PaidFirst, TakenOnce,
     NewPaymentReopens, PTL DEF ImplementsBilling

\* No tourist is left with an order of a programme that its guide has deleted.
THEOREM NoOrderOrphaned == ASSUME "api" \in Faults PROVE TourSpec => []NoOrphanOrders
<1>1. TourInv => NoOrphanOrders
  BY DEF TourInv, DeletionInv
<1>2. QED
  BY <1>1, TourInvariant, PTL

\* No photo is wiped before its programme is really gone, whichever deletion of the
\* same programme fails or is refused on the way.
THEOREM PhotosStay == ASSUME "api" \in Faults PROVE TourSpec => []PhotosOutliveProgramme
<1>1. TourInv => PhotosOutliveProgramme
  BY DEF TourInv, DeletionInv
<1>2. QED
  BY <1>1, TourInvariant, PTL

LEMMA StepBooks ==
  ASSUME "api" \in Faults, TourInv, [TourNext]_allVars, NEW o \in Orders, ~Booked(o), Booked(o)'
  PROVE  LET s == slotOf'[o] IN seats'[s] = seats[s] - Pax[o]
<1>1. ASSUME NEW b \in Bookings, BookCommit(b)
      PROVE  LET s == slotOf'[o] IN seats'[s] = seats[s] - Pax[o]
  <2>1. booking[b].order \in Orders /\ booking[b].slot \in Slots
    BY <1>1 DEF BookCommit, TourInv, TourTypeOK
  <2>2. o = booking[b].order
    BY <1>1, <2>1 DEF BookCommit, SetStatus, Booked, TourInv, TourTypeOK, TypeOK
  <2>3. booking[b].seen = seats[booking[b].slot]
    BY <1>1 DEF BookCommit, TourInv, BookingInv
  <2>4. QED
    BY <1>1, <2>1, <2>2, <2>3 DEF BookCommit, TourInv, TourTypeOK
<1>2. ASSUME UNCHANGED status PROVE FALSE
  BY <1>2 DEF Booked
<1>3. ASSUME BillingStep PROVE FALSE
  <2>1. OldOrders
    BY <1>3, StepKeepsStarted DEF TourInv, TourTypeOK
  <2>2. QED
    BY <2>1 DEF OldOrders, Booked
<1>4. ASSUME NEW b \in Bookings, BookingStep(b), ~BookCommit(b) PROVE FALSE
  BY <1>2, <1>4 DEF BookingStep, BookLock, LockSlot, Select, BookingLost, vars, rowVars
<1>5. ASSUME NEW r \in Requests, GuideStep(r) PROVE FALSE
  <2>1. CASE GuideFindSlot(r)
    BY <1>2, <2>1 DEF GuideFindSlot, vars, rowVars
  <2>2. CASE ~GuideFindSlot(r)
    <3>1. RequestStep(r)
      BY <1>5, <2>2 DEF GuideStep, GuideRead, GuideTwoSlots, GuideCommit, GuideLost, RequestStep,
                        RequestLost
    <3>2. QED
      BY <1>3, <3>1 DEF BillingStep
  <2>3. QED
    BY <2>1, <2>2
<1>6. ASSUME NEW s \in Slots, OpenSlot(s) PROVE FALSE
  BY <1>2, <1>6 DEF OpenSlot, vars, rowVars
<1>7. ASSUME NEW g \in Deletions, DeletionStep(g) PROVE FALSE
  BY <1>2, <1>7 DEF DeletionStep, DeleteCheck, DeleteCommit, Delete, DeleteRefused, DeleteClean,
                    Clean, DeleteLost, vars, rowVars
<1>8. ASSUME OtherStep PROVE FALSE
  BY <1>3, <1>8 DEF OtherStep, BillingStep, RequestStep
<1>9. CASE UNCHANGED allVars
  BY <1>2, <1>9 DEF allVars, vars, rowVars
<1>10. QED
  BY <1>1, <1>4, <1>5, <1>6, <1>7, <1>8, <1>9 DEF TourNext

\* Of any number of tourists who book one slot while guides cancel on it, each takes
\* his places off the counter as it stands: no booking is lost under another.
THEOREM NoBookingLost == ASSUME "api" \in Faults PROVE TourSpec => BookingsSubtract
<1>1. TourInv /\ [TourNext]_allVars
        => [\A o \in Orders : ~Booked(o) /\ Booked(o)' =>
              LET s == slotOf'[o] IN seats'[s] = seats[s] - Pax[o]]_allVars
  BY StepBooks
<1>2. QED
  BY <1>1, TourInvariant, PTL DEF TourSpec, BookingsSubtract

-----------------------------------------------------------------------------
(* Free places and booked places *)

LEMMA PlacesOfOrder ==
  ASSUME NEW o \in Orders
  PROVE  /\ IsFiniteSet({o} \X (1 .. Pax[o]))
         /\ Cardinality({o} \X (1 .. Pax[o])) = Pax[o]
<1>1. Pax[o] \in Nat \ {0}
  BY ExcursionsAssumption
<1> DEFINE S == {o}
           T == 1 .. Pax[o]
<1>2. IsFiniteSet(T) /\ Cardinality(T) = IF 1 > Pax[o] THEN 0 ELSE Pax[o] - 1 + 1
  BY <1>1, FS_Interval
<1>3. Cardinality(T) = Pax[o]
  BY <1>1, <1>2
<1>4. IsFiniteSet(S) /\ Cardinality(S) = 1
  BY FS_Singleton
<1>5. IsFiniteSet(S \X T) /\ Cardinality(S \X T) = Cardinality(S) * Cardinality(T)
  <2> HIDE DEF S, T
  <2>1. QED
    BY <1>2, <1>4, FS_Product
<1>6. Cardinality(S \X T) = Pax[o]
  <2> HIDE DEF S, T
  <2>1. QED
    BY <1>1, <1>3, <1>4, <1>5
<1>7. QED
  BY <1>5, <1>6

\* An order that is new to a set of orders brings a place for each of its tourists
LEMMA PlacesAdd ==
  ASSUME NEW S, NEW o \in Orders, o \notin S, IsFiniteSet(Places(S))
  PROVE  /\ IsFiniteSet(Places(S \cup {o}))
         /\ Cardinality(Places(S \cup {o})) = Cardinality(Places(S)) + Pax[o]
<1> DEFINE Q == Places(S)
           P == {o} \X (1 .. Pax[o])
<1>1. Places(S \cup {o}) = Q \cup P
  BY DEF Places
<1>2. Q \cap P = {}
  BY DEF Places
<1>3. IsFiniteSet(P) /\ Cardinality(P) = Pax[o]
  BY PlacesOfOrder
<1> HIDE DEF P
<1>4. /\ IsFiniteSet(Q \cup P)
      /\ Cardinality(Q \cup P) = Cardinality(Q) + Cardinality(P) - Cardinality(Q \cap P)
  <2> HIDE DEF Q
  <2>1. IsFiniteSet(Q)
    BY DEF Q
  <2>2. QED
    BY <1>3, <2>1, FS_Union
<1>5. Cardinality(Q \cap P) = 0
  BY <1>2, FS_EmptySet
<1>6. Cardinality(Q) \in Nat /\ Pax[o] \in Nat
  BY FS_CardinalityType, ExcursionsAssumption
<1> HIDE DEF Q
<1>7. Cardinality(Q \cup P) = Cardinality(Q) + Pax[o]
  BY <1>3, <1>4, <1>5, <1>6
<1>8. QED
  BY <1>1, <1>4, <1>7 DEF Q

\* Inductive: an order is on a slot that is open, a place is given back of a booked
\* order only, and the counter of a slot that is not amiss is what its orders leave.
SeatsInv ==
    /\ \A o \in Orders : slotOf[o] # None => Booked(o) /\ slotOf[o] \in opened
    /\ \A o \in returned : slotOf[o] # None
    /\ \A s \in Slots : IsFiniteSet(Places(BookedOn(s)))
    /\ SeatsAddUp

\* Inductive: a slot that a guide's cancellation has found by its date is the one its
\* order was booked on.
VisitsOwn ==
    \A r \in Requests : visit[r].step # "none" => visit[r].slot = slotOf[req[r].order]

LEMMA InitSeats == TourInit => SeatsInv /\ VisitsOwn
<1> SUFFICES ASSUME TourInit PROVE SeatsInv /\ VisitsOwn
  OBVIOUS
<1>1. opened = {} /\ returned = {} /\ \A o \in Orders : slotOf[o] = None
  BY DEF TourInit
<1>2. \A s \in Slots : Places(BookedOn(s)) = {}
  BY <1>1, ExcursionsAssumption DEF Places, BookedOn
<1>3. VisitsOwn
  BY DEF TourInit, VisitsOwn, NoVisit
<1>4. QED
  BY <1>1, <1>2, <1>3, FS_EmptySet DEF SeatsInv, SeatsAddUp

\* A guide cancels orders that are booked, and their slots are open
LEMMA VisitedIsBooked ==
  ASSUME TourInv, SeatsInv, NEW r \in Requests, visit[r].step # "none"
  PROVE  /\ req[r].order \in Orders
         /\ Booked(req[r].order)
         /\ slotOf[req[r].order] \in opened
<1>1. req[r].order \in Orders /\ Booked(req[r].order)
  BY DEF TourInv, TourTypeOK, TypeOK, Started, Booked
<1>2. slotOf[req[r].order] # None
  BY <1>1, ExcursionsAssumption DEF TourInv, TourTypeOK
<1>3. QED
  BY <1>1, <1>2 DEF SeatsInv

LEMMA NextVisits ==
  ASSUME "api" \in Faults, TourInv, SeatsInv, VisitsOwn, [TourNext]_allVars
  PROVE  VisitsOwn'
<1> SUFFICES ASSUME NEW r \in Requests, visit'[r].step # "none"
             PROVE  visit'[r].slot = slotOf'[req'[r].order]
  BY DEF VisitsOwn
<1>1. ASSUME visit'[r] = visit[r], req'[r] = req[r], UNCHANGED slotOf
      PROVE  visit'[r].slot = slotOf'[req'[r].order]
  BY <1>1 DEF VisitsOwn
<1>2. CASE OtherStep
  BY <1>1, <1>2, OthersLeaveVisits DEF OtherStep, tourVars
<1>3. ASSUME NEW b \in Bookings, BookingStep(b)
      PROVE  visit'[r].slot = slotOf'[req'[r].order]
  <2>1. CASE BookCommit(b)
    <3>1. visit' = visit /\ req' = req
      BY <2>1 DEF BookCommit
    <3>2. booking[b].order \in Orders /\ ~Booked(booking[b].order)
      BY <2>1 DEF BookCommit, TourInv, TourTypeOK, BookingInv
    <3>3. req[r].order \in Orders /\ Booked(req[r].order)
      BY <3>1, VisitedIsBooked
    <3>4. slotOf'[req[r].order] = slotOf[req[r].order]
      BY <2>1, <3>2, <3>3 DEF BookCommit, TourInv, TourTypeOK
    <3>5. QED
      BY <3>1, <3>4 DEF VisitsOwn
  <2>2. CASE ~BookCommit(b)
    BY <1>1, <1>3, <2>2 DEF BookingStep, BookLock, LockSlot, Select, BookingLost, vars
  <2>3. QED
    BY <2>1, <2>2
<1>4. ASSUME NEW q \in Requests, GuideStep(q)
      PROVE  visit'[r].slot = slotOf'[req'[r].order]
  <2>1. UNCHANGED slotOf
    BY <1>4 DEF GuideStep, GuideRead, GuideFindSlot, GuideTwoSlots, GuideCommit, ReturnSeats, GuideLost
  <2>2. CASE q # r
    <3>1. visit'[r] = visit[r]
      BY <1>4, <2>2 DEF GuideStep, GuideRead, GuideFindSlot, GuideTwoSlots, GuideCommit,
                        ReturnSeats, GuideLost, TourInv, TourTypeOK
    <3>2. RequestStep(q) \/ UNCHANGED req
      BY <1>4 DEF GuideStep, GuideRead, GuideFindSlot, GuideTwoSlots, GuideCommit, GuideLost,
                  RequestStep, RequestLost, vars
    <3>3. req'[r] = req[r]
      BY <2>2, <3>2, RequestStepIsLocal DEF TourInv, TourTypeOK
    <3>4. QED
      BY <1>1, <2>1, <3>1, <3>3
  <2>3. ASSUME q = r, NEW o \in Orders, GuideRead(r, o)
        PROVE  visit'[r].slot = slotOf'[req'[r].order]
    <3>1. visit'[r].slot = slotOf[o]
      BY <2>3 DEF GuideRead, TourInv, TourTypeOK
    <3>2. req'[r].order = o
      BY <2>3 DEF GuideRead, CancelRead, Start, TourInv, TourTypeOK, TypeOK
    <3>3. QED
      BY <2>1, <3>1, <3>2
  <2>4. CASE q = r /\ GuideFindSlot(r)
    <3>1. PICK s \in Slots :
             /\ SlotsAt(visit[r].slot) = {s}
             /\ visit' = [visit EXCEPT ![r] = [step |-> "return", slot |-> s, seen |-> seats[s]]]
      BY <2>4 DEF GuideFindSlot
    <3>2. visit[r].slot = slotOf[req[r].order] /\ visit[r].slot \in opened
      BY <2>4, VisitedIsBooked DEF GuideFindSlot, VisitsOwn
    <3>3. s = visit[r].slot
      BY <3>1, <3>2 DEF SlotsAt
    <3>4. visit'[r].slot = s /\ UNCHANGED req
      BY <2>4, <3>1 DEF GuideFindSlot, vars, TourInv, TourTypeOK
    <3>5. QED
      BY <2>1, <3>2, <3>3, <3>4
  <2>5. q = r /\ (GuideTwoSlots(r) \/ GuideCommit(r) \/ GuideLost(r)) => FALSE
    BY DEF GuideTwoSlots, GuideCommit, ReturnSeats, GuideLost, NoVisit, TourInv, TourTypeOK
  <2>6. QED
    BY <1>4, <2>2, <2>3, <2>4, <2>5 DEF GuideStep
<1>5. ASSUME NEW s \in Slots, OpenSlot(s) PROVE visit'[r].slot = slotOf'[req'[r].order]
  BY <1>1, <1>5 DEF OpenSlot, vars
<1>6. ASSUME NEW g \in Deletions, DeletionStep(g) PROVE visit'[r].slot = slotOf'[req'[r].order]
  BY <1>1, <1>6 DEF DeletionStep, DeleteCheck, DeleteCommit, Delete, DeleteRefused, DeleteClean,
                    Clean, DeleteLost, vars
<1>7. CASE UNCHANGED allVars
  BY <1>1, <1>7 DEF allVars, vars, tourVars
<1>8. QED
  BY <1>2, <1>3, <1>4, <1>5, <1>6, <1>7 DEF TourNext

\* The places still counted on a slot are finitely many
LEMMA CountedFinite ==
  ASSUME SeatsInv, NEW s \in Slots, NEW S, S \subseteq BookedOn(s)
  PROVE  IsFiniteSet(Places(S)) /\ Cardinality(Places(S)) <= Cardinality(Places(BookedOn(s)))
<1>1. Places(S) \subseteq Places(BookedOn(s))
  BY DEF Places
<1>2. QED
  BY <1>1, FS_Subset DEF SeatsInv

\* A step that leaves the calendar and what is booked on it alone
LEMMA SeatsKept ==
  ASSUME SeatsInv, UNCHANGED <<opened, seats, slotOf, historyVars>>, OldOrders
  PROVE  SeatsInv'
<1> USE DEF historyVars
<1>1. \A s : UNCHANGED <<Places(BookedOn(s)), Places(Counted(s))>>
  BY DEF Places, BookedOn, Counted
<1>2. SeatsAddUp'
  BY <1>1 DEF SeatsInv, SeatsAddUp
<1>3. QED
  BY <1>1, <1>2 DEF SeatsInv, OldOrders, Booked

\* A slot that is new to the calendar has no order, so all its places are free
LEMMA OpenSeats ==
  ASSUME TourInv, SeatsInv, NEW s \in Slots, OpenSlot(s)
  PROVE  SeatsInv'
<1> USE ExcursionsAssumption DEF OpenSlot, vars, rowVars, historyVars
<1>1. \A t : /\ Places(BookedOn(t))' = Places(BookedOn(t))
             /\ Places(Counted(t))' = Places(Counted(t))
  BY DEF Places, BookedOn, Counted
<1>2. Counted(s) = {}
  BY DEF SeatsInv, BookedOn, Counted
<1>3. Cardinality(Places(Counted(s))) = 0
  BY <1>2, FS_EmptySet DEF Places
<1>4. \A t \in opened' \ amiss' : seats'[t] + Cardinality(Places(Counted(t))) = Capacity[t]
  <2> SUFFICES ASSUME NEW t \in opened' \ amiss'
               PROVE  seats'[t] + Cardinality(Places(Counted(t))) = Capacity[t]
    OBVIOUS
  <2>1. CASE t = s
    <3>1. seats'[s] = Capacity[s] /\ Capacity[s] \in Nat
      BY DEF TourInv, TourTypeOK
    <3>2. seats'[s] + Cardinality(Places(Counted(s))) = Capacity[s]
      BY <1>3, <3>1
    <3>3. QED
      BY <2>1, <3>2
  <2>2. CASE t # s
    BY <2>2 DEF TourInv, TourTypeOK, SeatsInv, SeatsAddUp
  <2>3. QED
    BY <2>1, <2>2
<1>5. SeatsAddUp'
  BY <1>1, <1>4 DEF SeatsAddUp
<1>6. QED
  BY <1>1, <1>5 DEF SeatsInv, Booked

\* What a booking takes off the counter is what its order brings to the slot
LEMMA BookSeats ==
  ASSUME TourInv, TourInv', SeatsInv, NEW b \in Bookings, BookCommit(b)
  PROVE  SeatsInv'
<1>0. PICK s \in Slots, o \in Orders : s = booking[b].slot /\ o = booking[b].order
  BY DEF BookCommit, TourInv, TourTypeOK
<1>1. /\ s \in opened /\ s \in Slots /\ o \in Orders
      /\ slotOf[o] = None
      /\ booking[b].seen = seats[s]
  BY <1>0 DEF BookCommit, TourInv, BookingInv, SeatsInv
<1>2. /\ seats' = [seats EXCEPT ![s] = seats[s] - Pax[o]]
      /\ slotOf' = [slotOf EXCEPT ![o] = s]
      /\ status' = [status EXCEPT ![o] = "pending_payment"]
      /\ UNCHANGED <<opened, returned, amiss>>
  BY <1>0, <1>1 DEF BookCommit, SetStatus, historyVars
<1>3. s # None
  BY <1>1, ExcursionsAssumption
<1>4. /\ o \notin BookedOn(s) /\ BookedOn(s)' = BookedOn(s) \cup {o}
      /\ o \notin Counted(s) /\ Counted(s)' = Counted(s) \cup {o}
  BY <1>1, <1>2, <1>3 DEF BookedOn, Counted, SeatsInv, TourInv, TourTypeOK
<1>5. \A t \in Slots \ {s} : BookedOn(t)' = BookedOn(t) /\ Counted(t)' = Counted(t)
  BY <1>1, <1>2, ExcursionsAssumption DEF BookedOn, Counted, TourInv, TourTypeOK
<1>6. \A S : Places(S)' = Places(S)
  BY DEF Places
<1>7. /\ IsFiniteSet(Places(BookedOn(s)'))
      /\ IsFiniteSet(Places(Counted(s)))
      /\ Cardinality(Places(Counted(s)')) = Cardinality(Places(Counted(s))) + Pax[o]
  <2>1. IsFiniteSet(Places(BookedOn(s))) /\ IsFiniteSet(Places(Counted(s)))
    BY <1>1, CountedFinite DEF SeatsInv, Counted
  <2>2. IsFiniteSet(Places(BookedOn(s) \cup {o}))
    BY <1>1, <1>4, <2>1, PlacesAdd
  <2>3. Cardinality(Places(Counted(s) \cup {o})) = Cardinality(Places(Counted(s))) + Pax[o]
    BY <1>1, <1>4, <2>1, PlacesAdd
  <2>4. QED
    BY <1>4, <2>1, <2>2, <2>3
<1>8. \A q \in Orders : slotOf'[q] # None => Booked(q)' /\ slotOf'[q] \in opened'
  BY <1>1, <1>2 DEF SeatsInv, Booked, TourInv, TourTypeOK, TypeOK
<1>9. \A t \in Slots : IsFiniteSet(Places(BookedOn(t)'))
  BY <1>5, <1>7 DEF SeatsInv
<1>10. \A t \in opened \ amiss :
           seats'[t] + Cardinality(Places(Counted(t)')) = Capacity[t]
  <2> SUFFICES ASSUME NEW t \in opened \ amiss
               PROVE  seats'[t] + Cardinality(Places(Counted(t)')) = Capacity[t]
    OBVIOUS
  <2>1. t \in Slots /\ seats[t] + Cardinality(Places(Counted(t))) = Capacity[t]
    BY DEF TourInv, TourTypeOK, SeatsInv, SeatsAddUp
  <2>2. CASE t = s
    <3>1. seats'[s] = seats[s] - Pax[o]
      BY <1>1, <1>2 DEF TourInv, TourTypeOK
    <3>2. seats[s] \in Nat /\ Pax[o] \in Nat /\ Cardinality(Places(Counted(s))) \in Nat
      BY <1>1, ExcursionsAssumption, <1>7, FS_CardinalityType DEF TourInv, TourTypeOK
    <3>3. QED
      BY <1>7, <2>1, <2>2, <3>1, <3>2
  <2>3. CASE t # s
    BY <1>1, <1>2, <1>5, <2>1, <2>3 DEF TourInv, TourTypeOK
  <2>4. QED
    BY <2>2, <2>3
<1>11. \A q \in returned : slotOf'[q] # None
  BY <1>2, <1>3 DEF SeatsInv, TourInv, TourTypeOK
<1>12. QED
  BY <1>2, <1>8, <1>9, <1>10, <1>11 DEF SeatsInv, SeatsAddUp, Places

\* A guide's cancellation gives back the places of its own order, unless the slot is
\* amiss
LEMMA ReturnedSeats ==
  ASSUME TourInv, SeatsInv, VisitsOwn, OldOrders, NEW r \in Requests, GuideCommit(r)
  PROVE  SeatsInv'
<1>0. PICK s \in Slots, o \in Orders : s = visit[r].slot /\ o = req[r].order
  BY VisitedIsBooked DEF GuideCommit, ReturnSeats, TourInv, TourTypeOK
<1>1. s = slotOf[o] /\ s \in opened /\ s # None
  BY <1>0, VisitedIsBooked, ExcursionsAssumption DEF GuideCommit, ReturnSeats, VisitsOwn
<1>2. /\ UNCHANGED <<opened, slotOf>>
      /\ seats' = [seats EXCEPT ![s] = visit[r].seen + Pax[o]]
      /\ returned' = returned \cup {o}
      /\ amiss' = IF visit[r].seen # seats[s] \/ o \in returned THEN amiss \cup {s} ELSE amiss
  BY <1>0 DEF GuideCommit, ReturnSeats
<1>3. /\ \A t : BookedOn(t)' = BookedOn(t)
      /\ \A S : Places(S)' = Places(S)
  BY <1>2 DEF Places, BookedOn
<1>4. \A t \in opened \ amiss' : seats'[t] + Cardinality(Places(Counted(t)')) = Capacity[t]
  <2> SUFFICES ASSUME NEW t \in opened \ amiss'
               PROVE  seats'[t] + Cardinality(Places(Counted(t)')) = Capacity[t]
    OBVIOUS
  <2>1. t \in Slots /\ t \notin amiss
    BY <1>2 DEF TourInv, TourTypeOK
  <2>2. seats[t] + Cardinality(Places(Counted(t))) = Capacity[t]
    BY <2>1 DEF SeatsInv, SeatsAddUp
  <2>3. CASE t # s
    <3>1. Counted(t)' = Counted(t)
      BY <1>1, <1>2, <1>3, <2>3 DEF Counted, BookedOn
    <3>2. seats'[t] = seats[t]
      BY <1>2, <2>1, <2>3 DEF TourInv, TourTypeOK
    <3>3. QED
      BY <2>2, <3>1, <3>2
  <2>4. CASE t = s
    <3>1. visit[r].seen = seats[s] /\ o \notin returned
      BY <1>2, <2>4
    <3>2. o \notin Counted(s)' /\ Counted(s) = Counted(s)' \cup {o}
      BY <1>1, <1>2, <1>3, <3>1 DEF Counted, BookedOn
    <3>3. Counted(s)' \subseteq BookedOn(s)
      BY <1>3 DEF Counted
    <3>4. IsFiniteSet(Places(Counted(s)'))
      BY <3>3, CountedFinite
    <3>5. Cardinality(Places(Counted(s))) = Cardinality(Places(Counted(s)')) + Pax[o]
      BY <3>2, <3>4, PlacesAdd
    <3>6. seats'[s] = seats[s] + Pax[o]
      BY <1>2, <3>1 DEF TourInv, TourTypeOK
    <3>7. seats[s] \in Nat /\ Pax[o] \in Nat /\ Cardinality(Places(Counted(s)')) \in Nat
      BY <3>4, FS_CardinalityType, ExcursionsAssumption DEF TourInv, TourTypeOK
    <3>8. QED
      BY <2>2, <2>4, <3>5, <3>6, <3>7
  <2>5. QED
    BY <2>3, <2>4
<1>5. SeatsAddUp'
  BY <1>2, <1>3, <1>4 DEF SeatsAddUp
<1>6. \A q \in returned' : slotOf'[q] # None
  BY <1>1, <1>2 DEF SeatsInv
<1>7. QED
  BY <1>2, <1>3, <1>5, <1>6 DEF SeatsInv, OldOrders, Booked

\* The calendar goes only while nobody has an order
LEMMA DeletedSeats ==
  ASSUME SeatsInv, NEW g \in Deletions, DeleteCommit(g)
  PROVE  SeatsInv'
<1>1. /\ opened' = {} /\ UNCHANGED <<slotOf, returned>>
      /\ \A o \in Orders : slotOf[o] = None
  BY DEF DeleteCommit, Delete, SeatsInv, historyVars
<1>2. \A s : Places(BookedOn(s))' = Places(BookedOn(s))
  BY <1>1 DEF Places, BookedOn
<1>3. QED
  BY <1>1, <1>2 DEF SeatsInv, SeatsAddUp

LEMMA NextSeats ==
  ASSUME "api" \in Faults, TourInv, SeatsInv, VisitsOwn, [TourNext]_allVars
  PROVE  SeatsInv'
<1>1. TourInv'
  BY NextTour
<1>2. ASSUME UNCHANGED status PROVE OldOrders
  BY <1>2 DEF OldOrders
<1>3. ASSUME BillingStep PROVE OldOrders
  BY <1>3, StepKeepsStarted DEF TourInv, TourTypeOK
<1>4. ASSUME NEW b \in Bookings, BookingStep(b) PROVE SeatsInv'
  <2>1. CASE BookCommit(b)
    BY <1>1, <2>1, BookSeats
  <2>2. CASE ~BookCommit(b)
    <3>1. UNCHANGED <<status, opened, seats, slotOf, historyVars>>
      BY <1>4, <2>2 DEF BookingStep, BookLock, LockSlot, Select, BookingLost, vars, rowVars
    <3>2. QED
      BY <1>2, <3>1, SeatsKept
  <2>3. QED
    BY <2>1, <2>2
<1>5. ASSUME NEW r \in Requests, GuideStep(r) PROVE SeatsInv'
  <2>1. CASE GuideFindSlot(r)
    <3>1. UNCHANGED <<status, opened, seats, slotOf, historyVars>>
      BY <2>1 DEF GuideFindSlot, vars, rowVars
    <3>2. QED
      BY <1>2, <3>1, SeatsKept
  <2>2. CASE ~GuideFindSlot(r)
    <3>1. RequestStep(r)
      BY <1>5, <2>2 DEF GuideStep, GuideRead, GuideTwoSlots, GuideCommit, GuideLost, RequestStep,
                        RequestLost
    <3>2. OldOrders
      BY <1>3, <3>1 DEF BillingStep
    <3>3. CASE GuideCommit(r)
      BY <3>2, <3>3, ReturnedSeats
    <3>4. CASE ~GuideCommit(r)
      <4>1. UNCHANGED <<opened, seats, slotOf, historyVars>>
        BY <1>5, <2>2, <3>4 DEF GuideStep, GuideRead, GuideTwoSlots, GuideLost
      <4>2. QED
        BY <3>2, <4>1, SeatsKept
    <3>5. QED
      BY <3>3, <3>4
  <2>3. QED
    BY <2>1, <2>2
<1>6. ASSUME NEW g \in Deletions, DeletionStep(g) PROVE SeatsInv'
  <2>1. CASE DeleteCommit(g)
    BY <2>1, DeletedSeats
  <2>2. CASE ~DeleteCommit(g)
    <3>1. UNCHANGED <<status, opened, seats, slotOf, historyVars>>
      BY <1>6, <2>2 DEF DeletionStep, DeleteCheck, DeleteRefused, DeleteClean, Clean, DeleteLost,
                        vars, rowVars
    <3>2. QED
      BY <1>2, <3>1, SeatsKept
  <2>3. QED
    BY <2>1, <2>2
<1>7. CASE OtherStep
  <2>1. BillingStep /\ UNCHANGED <<opened, seats, slotOf, historyVars>>
    BY <1>7 DEF OtherStep, BillingStep, RequestStep, tourVars
  <2>2. QED
    BY <1>3, <2>1, SeatsKept
<1>8. CASE UNCHANGED allVars
  <2>1. UNCHANGED <<status, opened, seats, slotOf, historyVars>>
    BY <1>8 DEF allVars, vars, rowVars, tourVars
  <2>2. QED
    BY <1>2, <2>1, SeatsKept
<1>9. QED
  BY <1>4, <1>5, <1>6, <1>7, <1>8, OpenSeats DEF TourNext

\* The counts of the calendar hold in every state.
THEOREM CalendarInvariant ==
  ASSUME "api" \in Faults
  PROVE  TourSpec => [](TourInv /\ SeatsInv /\ VisitsOwn)
<1>1. TourInv /\ SeatsInv /\ VisitsOwn /\ [TourNext]_allVars => TourInv' /\ SeatsInv' /\ VisitsOwn'
  BY NextTour, NextSeats, NextVisits
<1>2. TourInit => TourInv /\ SeatsInv /\ VisitsOwn
  BY InitTour, InitSeats
<1>3. QED
  BY <1>1, <1>2, PTL DEF TourSpec

\* Free places and those of the orders that no guide gave back add up to what he opened
\* a slot with, however many tourists book it at once, whatever happens to their orders
\* and however many of them he cancels, as long as no cancellation writes over a
\* counter that has changed or gives an order's places a second time.
THEOREM SeatsAreCounted == ASSUME "api" \in Faults PROVE TourSpec => []SeatsAddUp
<1>1. SeatsInv => SeatsAddUp
  BY DEF SeatsInv
<1>2. QED
  BY <1>1, CalendarInvariant, PTL

\* A slot is overbooked in two ways only: its counter was written over by a guide's
\* cancellation or raised twice for one order, or an order stands again after its
\* places were given back and sold (book_excursion_places, cancel_order_by_guide,
\* process_bank_webhook).
THEOREM OverbookingCauses == ASSUME "api" \in Faults PROVE TourSpec => []OverbookedByReturns
<1>1. TourInv /\ SeatsInv => OverbookedByReturns
  <2> SUFFICES ASSUME TourInv, SeatsInv, NEW s \in opened, Taken(s) > Capacity[s], s \notin amiss,
                      Holders(s) \cap returned = {}
               PROVE  FALSE
    BY DEF OverbookedByReturns
  <2>1. s \in Slots /\ seats[s] \in Nat /\ Capacity[s] \in Nat
    BY ExcursionsAssumption DEF TourInv, TourTypeOK
  <2>2. seats[s] + Cardinality(Places(Counted(s))) = Capacity[s]
    BY DEF SeatsInv, SeatsAddUp
  <2>3. Places(Holders(s)) \subseteq Places(Counted(s))
    BY DEF Holders, Counted, Places
  <2>4. IsFiniteSet(Places(Counted(s)))
    BY <2>1, CountedFinite DEF Counted
  <2>5. /\ Cardinality(Places(Holders(s))) <= Cardinality(Places(Counted(s)))
        /\ Cardinality(Places(Counted(s))) \in Nat
        /\ Cardinality(Places(Holders(s))) \in Nat
    BY <2>3, <2>4, FS_Subset, FS_CardinalityType
  <2>6. QED
    BY <2>1, <2>2, <2>5 DEF Taken
<1>2. QED
  BY <1>1, CalendarInvariant, PTL
=============================================================================
