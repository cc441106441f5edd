----------------------------- MODULE Excursions -----------------------------
(***************************************************************************)
(* Seats on excursions: one excursion programme of a guide, the slots of    *)
(* its calendar (rows of `excursion_slots`) and the orders that tourists    *)
(* book on them, composed with Billing, which moves the same orders and     *)
(* their money.  Different programmes share no row.                         *)
(*                                                                          *)
(* A booking keeps its slot's row locked from its SELECT ... FOR UPDATE     *)
(* NOWAIT to its commit.  A guide's cancellation reads the order, then the  *)
(* slot, without a lock, and writes back the number it computed.            *)
(***************************************************************************)
EXTENDS Billing, FiniteSets

CONSTANTS
    Slots,      \* ids of slots
    DateOf,     \* a slot's execution_at: nothing keeps two slots apart
    Capacity,   \* the places the guide opens a slot with
    Pax,        \* orders.pax_count
    Bookings,   \* booking requests served at the same time
    Deletions,  \* requests of the guide to delete the programme
    Cancellers  \* who cancels orders: "guide", "driver"

ASSUME ExcursionsAssumption ==
    /\ Capacity \in [Slots -> Nat \ {0}]
    /\ Pax \in [Orders -> Nat \ {0}]
    /\ Cancellers \subseteq {"guide", "driver"}
    /\ None \notin Slots \cup Bookings

VARIABLES
    listed,    \* the programme's row exists
    opened,    \* slots in the calendar
    seats,     \* excursion_slots.available_slots
    slotLock,  \* the booking whose FOR UPDATE holds the slot's row
    slotOf,    \* the slot an order was booked on
    booking,   \* the booking requests being served
    visit,     \* what a cancelling guide's request has read of the calendar
    deletion,  \* the deletions being served
    cleaned,   \* the programme's photos are given to the S3 cleaning task
    returned,  \* history: orders whose places a guide's cancellation gave back
    amiss      \* history: slots that a cancellation gave places they had not lost

historyVars == <<returned, amiss>>
tourVars == <<listed, opened, seats, slotLock, slotOf, booking, visit, deletion, cleaned,
              historyVars>>
allVars  == <<vars, tourVars>>

Booking == [slot: Slots \cup {None}, order: Orders \cup {None}, seen: Nat]
NoBooking == [slot |-> None, order |-> None, seen |-> 0]

Visit == [step: {"none", "find", "return"}, slot: Slots \cup {None}, seen: Nat]
NoVisit == [step |-> "none", slot |-> None, seen |-> 0]

Booked(o)    == status[o] # "absent"
SlotsAt(s)   == {t \in opened : DateOf[t] = DateOf[s]}

TourInit ==
    /\ Init
    /\ listed   = TRUE
    /\ opened   = {}
    /\ seats    = [s \in Slots |-> 0]
    /\ slotLock = [s \in Slots |-> None]
    /\ slotOf   = [o \in Orders |-> None]
    /\ booking  = [b \in Bookings |-> NoBooking]
    /\ visit    = [r \in Requests |-> NoVisit]
    /\ deletion = [g \in Deletions |-> "idle"]
    /\ cleaned  = FALSE
    /\ returned = {}
    /\ amiss    = {}

-----------------------------------------------------------------------------
(* The calendar: open_new_calendar_slot *)

OpenSlot(s) ==
    /\ listed
    /\ s \notin opened
    /\ opened' = opened \cup {s}
    /\ seats' = [seats EXCEPT ![s] = Capacity[s]]
    /\ UNCHANGED <<vars, listed, slotLock, slotOf, booking, visit, deletion, cleaned, historyVars>>

-----------------------------------------------------------------------------
(* A tourist books places: book_excursion_places *)

\* The request keeps the counter it read
Select(b, s, o) ==
    /\ booking[b] = NoBooking
    /\ s \in opened
    /\ ~Booked(o)
    /\ \A c \in Bookings : booking[c].order # o   \* ids come from a sequence
    /\ booking' = [booking EXCEPT ![b] = [slot |-> s, order |-> o, seen |-> seats[s]]]
    /\ UNCHANGED <<vars, listed, opened, seats, slotOf, visit, deletion, cleaned, historyVars>>

\* MUTANT: a plain SELECT
BookRead(b, s, o) ==
    /\ seats[s] >= Pax[o]
    /\ Select(b, s, o)
    /\ UNCHANGED slotLock

\* FOR UPDATE NOWAIT: a row that is locked already is answered 409
LockSlot(b, s, o) ==
    /\ slotLock[s] = None
    /\ slotLock' = [slotLock EXCEPT ![s] = b]
    /\ Select(b, s, o)

BookLock(b, s, o) ==
    /\ seats[s] >= Pax[o]
    /\ LockSlot(b, s, o)

\* The seats, the order and its audit row, in one commit
BookCommit(b) ==
    LET s == booking[b].slot
        o == booking[b].order
    IN  /\ booking[b] # NoBooking
        /\ seats' = [seats EXCEPT ![s] = booking[b].seen - Pax[o]]
        /\ slotLock' = [slotLock EXCEPT ![s] = None]
        /\ slotOf' = [slotOf EXCEPT ![o] = s]
        /\ SetStatus(o, "absent", "pending_payment")
        /\ booking' = [booking EXCEPT ![b] = NoBooking]
        /\ UNCHANGED <<performer, lock, bookVars, bankVars, taskVars, req, work,
                       listed, opened, visit, deletion, cleaned, historyVars>>

BookingLost(b) ==
    /\ "api" \in Faults
    /\ booking[b] # NoBooking
    /\ slotLock' = [slotLock EXCEPT ![booking[b].slot] = None]
    /\ booking' = [booking EXCEPT ![b] = NoBooking]
    /\ UNCHANGED <<vars, listed, opened, seats, slotOf, visit, deletion, cleaned, historyVars>>

-----------------------------------------------------------------------------
(* The guide cancels an order: cancel_order_by_guide *)

GuideRead(r, o) ==
    /\ CancelRead(r, o)
    /\ visit' = [visit EXCEPT ![r] = [step |-> "find", slot |-> slotOf[o], seen |-> 0]]
    /\ UNCHANGED <<listed, opened, seats, slotLock, slotOf, booking, deletion, cleaned, historyVars>>

\* The slot is found by its date.  There is one at least: a slot goes only with
\* its programme, which cannot go while it has an order.
GuideFindSlot(r) ==
    /\ visit[r].step = "find"
    /\ \E s \in Slots :
          /\ SlotsAt(visit[r].slot) = {s}
          /\ visit' = [visit EXCEPT ![r] = [step |-> "return", slot |-> s, seen |-> seats[s]]]
    /\ UNCHANGED <<vars, listed, opened, seats, slotLock, slotOf, booking, deletion, cleaned, historyVars>>

\* scalar_one_or_none raises on two slots of one date: 500
GuideTwoSlots(r) ==
    /\ visit[r].step = "find"
    /\ \A s \in Slots : SlotsAt(visit[r].slot) # {s}
    /\ Abandon(r)
    /\ visit' = [visit EXCEPT ![r] = NoVisit]
    /\ UNCHANGED <<listed, opened, seats, slotLock, slotOf, booking, deletion, cleaned, historyVars>>

\* The seats that were read plus the order's, whatever the row holds now.  The
\* UPDATE waits for a booking's lock.
ReturnSeats(r) ==
    LET s == visit[r].slot
        o == req[r].order
    IN  /\ visit[r].step = "return"
        /\ slotLock[s] = None
        /\ seats' = [seats EXCEPT ![s] = visit[r].seen + Pax[o]]
        /\ visit' = [visit EXCEPT ![r] = NoVisit]
        /\ returned' = returned \cup {o}
        /\ amiss' = IF visit[r].seen # seats[s] \/ o \in returned
                     THEN amiss \cup {s} ELSE amiss
        /\ UNCHANGED <<listed, opened, slotLock, slotOf, booking, deletion, cleaned>>

\* MUTANT: the refund task is not sent
GuideCommitOnly(r) ==
    /\ ReturnSeats(r)
    /\ CancelCommitOnly(r)

\* The same commit cancels the order
GuideCommit(r) ==
    /\ ReturnSeats(r)
    /\ CancelCommit(r)

GuideLost(r) ==
    /\ visit[r].step # "none"
    /\ RequestLost(r)
    /\ visit' = [visit EXCEPT ![r] = NoVisit]
    /\ UNCHANGED <<listed, opened, seats, slotLock, slotOf, booking, deletion, cleaned, historyVars>>

-----------------------------------------------------------------------------
(* The guide deletes the programme: delete_excursion_by_guide *)

Active == {"searching", "assigned", "in_progress"}

DeleteCheck(g) ==
    /\ deletion[g] = "idle"
    /\ listed
    /\ \A o \in Orders : status[o] \notin Active
    /\ deletion' = [deletion EXCEPT ![g] = "delete"]
    /\ UNCHANGED <<vars, listed, opened, seats, slotLock, slotOf, booking, visit, cleaned, historyVars>>

\* The slots go with the programme
Delete(g) ==
    /\ deletion[g] = "delete"
    /\ listed' = FALSE
    /\ opened' = {}
    /\ deletion' = [deletion EXCEPT ![g] = "clean"]
    /\ UNCHANGED <<vars, seats, slotLock, slotOf, booking, visit, cleaned, historyVars>>

\* MUTANT: the count of active orders is all that is looked at
DeleteUnchecked(g) == Delete(g)

\* The DELETE waits for locked slots; orders.excursion_id is ON DELETE RESTRICT
DeleteCommit(g) ==
    /\ \A s \in opened : slotLock[s] = None
    /\ \A o \in Orders : ~Booked(o)
    /\ Delete(g)

DeleteRefused(g) ==
    /\ deletion[g] = "delete"
    /\ \E o \in Orders : Booked(o)
    /\ deletion' = [deletion EXCEPT ![g] = "idle"]
    /\ UNCHANGED <<vars, listed, opened, seats, slotLock, slotOf, booking, visit, cleaned, historyVars>>

Clean(g) ==
    /\ cleaned' = TRUE
    /\ deletion' = [deletion EXCEPT ![g] = "idle"]
    /\ UNCHANGED <<vars, listed, opened, seats, slotLock, slotOf, booking, visit, historyVars>>

\* MUTANT: the photos are sent to the cleaning task before the commit
CleanEarly(g) ==
    /\ deletion[g] \in {"delete", "clean"}
    /\ Clean(g)

\* The cleaning task is sent after the commit
DeleteClean(g) ==
    /\ deletion[g] = "clean"
    /\ Clean(g)

DeleteLost(g) ==
    /\ "api" \in Faults
    /\ deletion[g] # "idle"
    /\ deletion' = [deletion EXCEPT ![g] = "idle"]
    /\ UNCHANGED <<vars, listed, opened, seats, slotLock, slotOf, booking, visit, cleaned, historyVars>>

-----------------------------------------------------------------------------

BookingStep(b) ==
    \/ \E s \in Slots, o \in Orders : BookLock(b, s, o)
    \/ BookCommit(b)
    \/ BookingLost(b)

GuideStep(r) ==
    \/ "guide" \in Cancellers /\ \E o \in Orders : GuideRead(r, o)
    \/ GuideFindSlot(r)
    \/ GuideTwoSlots(r)
    \/ GuideCommit(r)
    \/ GuideLost(r)

DeletionStep(g) ==
    \/ DeleteCheck(g)
    \/ DeleteCommit(g)
    \/ DeleteRefused(g)
    \/ DeleteClean(g)
    \/ DeleteLost(g)

\* What Billing does to the same orders: payments and their webhooks, refunds, and
\* a driver's cancellation, which takes any order's id and returns no seats
OtherStep ==
    /\ \/ \E p \in Payments : HoldPlaced(p) \/ WebhookRepeated(p)
       \/ \E r \in Requests :
             /\ visit[r].step = "none"
             /\ \/ \E p \in Payments : WebhookRead(r, p)
                \/ WebhookCommit(r)
                \/ WebhookConflict(r)
                \/ "driver" \in Cancellers /\ \E o \in Orders : CancelRead(r, o)
                \/ CancelCommit(r)
                \/ CancelEnqueue(r)
                \/ \E d \in Drivers, o \in Orders : AcceptLock(r, d, o)
                \/ AcceptCommit(r)
                \/ RequestLost(r)
       \/ \E w \in Workers : WorkerStep(w)
    /\ UNCHANGED tourVars

TourNext ==
    \/ \E s \in Slots : OpenSlot(s)
    \/ \E b \in Bookings : BookingStep(b)
    \/ \E r \in Requests : GuideStep(r)
    \/ \E g \in Deletions : DeletionStep(g)
    \/ OtherStep

TourSpec == TourInit /\ [][TourNext]_allVars

-----------------------------------------------------------------------------
(* What the calendar promises *)

TourTypeOK ==
    /\ TypeOK
    /\ listed \in BOOLEAN
    /\ opened \subseteq Slots
    /\ seats \in [Slots -> Nat]
    /\ slotLock \in [Slots -> Bookings \cup {None}]
    /\ slotOf \in [Orders -> Slots \cup {None}]
    /\ booking \in [Bookings -> Booking]
    /\ visit \in [Requests -> Visit]
    /\ deletion \in [Deletions -> {"idle", "delete", "clean"}]
    /\ cleaned \in BOOLEAN
    /\ returned \subseteq Orders
    /\ amiss \subseteq Slots
    /\ \A b \in Bookings : booking[b] # NoBooking =>
          /\ booking[b].slot \in Slots /\ booking[b].order \in Orders
          /\ booking[b].seen >= Pax[booking[b].order]
    /\ \A o \in Orders : Booked(o) => slotOf[o] \in Slots
    /\ \A r \in Requests : visit[r].step # "none" =>
          req[r].op = "cancel" /\ visit[r].slot \in Slots

\* A booking takes its places off the counter as the row holds it at the commit,
\* whatever other bookings, and cancellations that write the counter, did since
\* the booking read it (get_slot_for_update_atomic).
BookingsSubtract ==
    [][\A o \in Orders : ~Booked(o) /\ Booked(o)' =>
          LET s == slotOf'[o] IN seats'[s] = seats[s] - Pax[o]]_allVars

\* A place on a slot for each tourist of an order
Places(orders) == UNION {{o} \X (1 .. Pax[o]) : o \in orders}
BookedOn(s)    == {o \in Orders : slotOf[o] = s}
Counted(s)     == BookedOn(s) \ returned

\* Free places of a slot and those of the orders booked on it, but for the ones a
\* guide has given back, add up to what he opened it with: tourists who book at the
\* same time neither lose a place nor share one, a cancellation gives back its own
\* order's places, and webhooks, drivers and refunds give none to anybody.  Excepted
\* is a slot that a cancellation wrote over with a counter another commit had
\* changed, or gave an order's places a second time
\* (book_excursion_places, cancel_order_by_guide).
SeatsAddUp ==
    \A s \in opened \ amiss :
        seats[s] + Cardinality(Places(Counted(s))) = Capacity[s]

\* Orders that hold places on a slot
Holders(s) == {o \in BookedOn(s) : status[o] \notin {"cancelled", "rejected"}}
Taken(s)   == Cardinality(Places(Holders(s)))

\* "Защищено от Race Condition и овербукинга": excursion_service.py:148
NoOverbooking == \A s \in opened : Taken(s) <= Capacity[s]

\* What overbooks a slot: a counter gone amiss, or an order that stands again after
\* its places were given back, as a late webhook can have it.
OverbookedByReturns ==
    \A s \in opened : Taken(s) > Capacity[s] =>
        s \in amiss \/ Holders(s) \cap returned # {}

\* Nobody holds an order of a programme that is gone, though the guide's check
\* counts only paid orders and looks before it deletes (delete_excursion_by_guide).
NoOrphanOrders == ~listed => \A o \in Orders : ~Booked(o)

\* The photos of a programme are wiped only once it is really deleted: a deletion
\* that the database refuses at its commit leaves them (delete_excursion_by_guide).
PhotosOutliveProgramme == cleaned => ~listed

\* Bookings and a guide's cancellations do to orders, money and refund tasks nothing
\* that Billing's own requests do not do: every step is one of its steps or leaves
\* its rows alone, and what holds of Billing holds here.
ImplementsBilling == Spec
=============================================================================
