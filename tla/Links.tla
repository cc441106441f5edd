-------------------------------- MODULE Links --------------------------------
(***************************************************************************)
(* Payment links: between an order and its payment stand a Celery task that *)
(* asks the bank to open a payment, a Redis key payment_url:<order> that    *)
(* keeps the bank's page for 15 minutes, and a client that polls for it.    *)
(* Transfers and excursions do the same, each in its own service.           *)
(*                                                                          *)
(* An order is created by one request, so a request is where its order is.  *)
(***************************************************************************)
EXTENDS Naturals, FiniteSets

CONSTANTS
    Orders,      \* ids of orders
    Payments,    \* ids a bank gives to payments
    Workers,     \* Celery workers of the "critical" queue
    OrderOf,     \* the order a payment is opened for
    Provider,    \* the bank an order asks for: a query parameter nobody checks
    Free,        \* excursions of price 0
    Faults,      \* which parts of the environment may fail
    MaxLosses,   \* bound: how often workers are lost while they serve an order
    None         \* no order, no payment, no link

Banks      == {"tbank", "sberbank"}
FaultKinds == {"api", "bank", "worker", "task", "tariff"}

ASSUME LinksAssumption ==
    /\ IsFiniteSet(Payments)
    /\ IsFiniteSet(Workers)
    /\ OrderOf \in [Payments -> Orders]
    /\ Provider \in [Orders -> Banks \cup {"other"}]
    /\ Free \subseteq Orders
    /\ Faults \subseteq FaultKinds
    /\ MaxLosses \in Nat
    /\ None \notin Orders \cup Payments

VARIABLES
    stage,    \* of an order's request: nothing, committed, task sent, or lost
    queue,    \* link tasks waiting in the broker
    work,     \* link tasks being executed
    opened,   \* payments a bank has opened
    link,     \* payment_url:<order>; None also for "", which reads as no link
    shown,    \* payments whose page a client was given
    paid,     \* payments a client has made: the bank holds the money
    losses,   \* history: how often an order's task was delivered again
    failed    \* history: orders whose link task ended in an error

vars == <<stage, queue, work, opened, link, shown, paid, losses, failed>>

Task == [step: {"idle", "price", "bank", "store"}, order: Orders \cup {None},
         payment: Payments \cup {None}, owned: BOOLEAN]
IdleTask == [step |-> "idle", order |-> None, payment |-> None, owned |-> FALSE]

Exists(o)   == stage[o] # "absent"
OpenedFor(o) == {p \in opened : OrderOf[p] = o}

Init ==
    /\ stage   = [o \in Orders |-> "absent"]
    /\ queue   = [o \in Orders |-> 0]
    /\ work    = [w \in Workers |-> IdleTask]
    /\ opened  = {}
    /\ link    = [o \in Orders |-> None]
    /\ shown   = {}
    /\ paid    = {}
    /\ losses  = [o \in Orders |-> 0]
    /\ failed  = {}

-----------------------------------------------------------------------------
(* The request: process_highload_order_creation and its twin *)

CreateOrder(o) ==
    /\ stage[o] = "absent"
    /\ stage' = [stage EXCEPT ![o] = "created"]
    /\ UNCHANGED <<queue, work, opened, link, shown, paid, losses, failed>>

Send(o) ==
    /\ stage' = [stage EXCEPT ![o] = "sent"]
    /\ queue' = [queue EXCEPT ![o] = @ + 1]
    /\ UNCHANGED <<work, opened, link, shown, paid, losses, failed>>

\* MUTANT: the task is sent when the id is known, and the commit may still fail
SendEarly(o) ==
    /\ stage[o] \in {"absent", "created"}
    /\ queue' = [queue EXCEPT ![o] = 1]
    /\ stage' = [stage EXCEPT ![o] = IF @ = "created" THEN "sent" ELSE @]
    /\ UNCHANGED <<work, opened, link, shown, paid, losses, failed>>

\* The task reaches the broker only after the commit, then the client gets the id
SendTask(o) ==
    /\ stage[o] = "created"
    /\ Send(o)

\* The process dies after the commit or the broker refuses the task: the order
\* stays, and no client ever learns its id
RequestLost(o) ==
    /\ "api" \in Faults
    /\ stage[o] = "created"
    /\ stage' = [stage EXCEPT ![o] = "lost"]
    /\ UNCHANGED <<queue, work, opened, link, shown, paid, losses, failed>>

-----------------------------------------------------------------------------
(* The link task.  One that returns or raises, or whose pool process is killed, is
   acknowledged: task_acks_late without task_reject_on_worker_lost *)

Acknowledge(w) == work' = [work EXCEPT ![w] = IdleTask]

\* ... and in all but the first case the client's link is gone with it
Fails(w) ==
    /\ Acknowledge(w)
    /\ failed' = IF work[w].owned THEN failed \cup {work[w].order} ELSE failed

Deliver(w, o) ==
    /\ work[w].step = "idle"
    /\ queue' = [queue EXCEPT ![o] = @ - 1]
    /\ work' = [work EXCEPT ![w] = [step |-> "price", order |-> o, payment |-> None,
                                    owned |-> TRUE]]
    /\ UNCHANGED <<stage, opened, link, shown, paid, losses, failed>>

Take(w, o) ==
    /\ queue[o] > 0
    /\ Deliver(w, o)

\* The tariff of a transfer or the price of an excursion is read again
Price(w) ==
    /\ work[w].step = "price"
    /\ work[w].order \notin Free
    /\ work' = [work EXCEPT ![w].step = "bank"]
    /\ UNCHANGED <<stage, queue, opened, link, shown, paid, losses, failed>>

\* The route, its tariff or the order is gone since the request; of an excursion
\* `not total_price` is an error, and so is 0
NoPrice(w) ==
    /\ work[w].step = "price"
    /\ work[w].order \in Free \/ "tariff" \in Faults
    /\ Fails(w)
    /\ UNCHANGED <<stage, queue, opened, link, shown, paid, losses>>

\* Each request to the bank opens a payment: the ids of an earlier one are nowhere
BankOpens(w) ==
    LET o == work[w].order
    IN  /\ work[w].step = "bank"
        /\ Provider[o] \in Banks
        /\ \E p \in Payments \ opened :
              /\ OrderOf[p] = o
              /\ opened' = opened \cup {p}
              /\ work' = [work EXCEPT ![w] = [@ EXCEPT !.step = "store", !.payment = p]]
        /\ UNCHANGED <<stage, queue, link, shown, paid, losses, failed>>

\* The bank refuses or does not answer; it may have opened the payment all the same
Failure(w) ==
    LET o == work[w].order
    IN  /\ "bank" \in Faults
        /\ work[w].step = "bank"
        /\ Provider[o] \in Banks
        /\ \/ UNCHANGED opened
           \/ \E p \in Payments \ opened : OrderOf[p] = o /\ opened' = opened \cup {p}
        /\ UNCHANGED <<stage, queue, link, shown, paid, losses>>

\* MUTANT: the task asks again
BankFailsRetried(w) ==
    /\ Failure(w)
    /\ UNCHANGED <<work, failed>>

BankFails(w) ==
    /\ Failure(w)
    /\ Fails(w)

\* Neither branch is taken and "" is stored
NoBank(w) ==
    /\ work[w].step = "bank"
    /\ Provider[work[w].order] \notin Banks
    /\ Acknowledge(w)
    /\ UNCHANGED <<stage, queue, opened, link, shown, paid, losses, failed>>

\* SETEX, over a link that is there already
StoreLink(w) ==
    /\ work[w].step = "store"
    /\ link' = [link EXCEPT ![work[w].order] = work[w].payment]
    /\ Acknowledge(w)
    /\ UNCHANGED <<stage, queue, opened, shown, paid, losses, failed>>

\* Redis or the database refuses a call, or the pool process is killed
TaskFails(w) ==
    /\ "task" \in Faults
    /\ work[w].step # "idle"
    /\ Fails(w)
    /\ UNCHANGED <<stage, queue, opened, link, shown, paid, losses>>

LinkExpires(o) ==
    /\ link[o] # None
    /\ link' = [link EXCEPT ![o] = None]
    /\ UNCHANGED <<stage, queue, work, opened, shown, paid, losses, failed>>

Loses(w) ==
    /\ "worker" \in Faults
    /\ work[w].step # "idle"
    /\ losses[work[w].order] < MaxLosses
    /\ UNCHANGED <<stage, opened, link, shown, paid, failed>>

Again(w) ==
    /\ queue' = [queue EXCEPT ![work[w].order] = @ + 1]
    /\ losses' = [losses EXCEPT ![work[w].order] = @ + 1]

\* MUTANT: acknowledged when it is taken
WorkerLostForgotten(w) ==
    /\ Loses(w)
    /\ Acknowledge(w)
    /\ UNCHANGED <<queue, losses>>

\* task_acks_late: the messages of a worker that dies as a whole, or whose connection
\* breaks, go back to the queue
WorkerLost(w) ==
    /\ Loses(w)
    /\ Acknowledge(w)
    /\ IF work[w].owned THEN Again(w) ELSE UNCHANGED <<queue, losses>>

\* The broker lost the worker's connection while the task goes on running
Redelivered(w) ==
    /\ Loses(w)
    /\ work[w].owned
    /\ Again(w)
    /\ work' = [work EXCEPT ![w].owned = FALSE]

-----------------------------------------------------------------------------
(* The client *)

\* "ready", to whoever asks by the order's id; a poll that is told "loading" changes
\* nothing
Poll(o) ==
    /\ link[o] # None
    /\ shown' = shown \cup {link[o]}
    /\ UNCHANGED <<stage, queue, work, opened, link, paid, losses, failed>>

\* A page once given stays with the client
Pay(p) ==
    /\ p \in shown \ paid
    /\ paid' = paid \cup {p}
    /\ UNCHANGED <<stage, queue, work, opened, link, shown, losses, failed>>

-----------------------------------------------------------------------------

OrderStep(o) ==
    \/ CreateOrder(o)
    \/ SendTask(o)
    \/ RequestLost(o)
    \/ LinkExpires(o)
    \/ Poll(o)

WorkerStep(w) ==
    \/ \E o \in Orders : Take(w, o)
    \/ Price(w)
    \/ NoPrice(w)
    \/ BankOpens(w)
    \/ BankFails(w)
    \/ NoBank(w)
    \/ StoreLink(w)
    \/ TaskFails(w)
    \/ WorkerLost(w)
    \/ Redelivered(w)

Next ==
    \/ \E o \in Orders : OrderStep(o)
    \/ \E w \in Workers : WorkerStep(w)
    \/ \E p \in Payments : Pay(p)

Spec == Init /\ [][Next]_vars

\* Workers take what is queued and end what they do not lose.  Nothing makes a
\* client order, poll or pay.
Fairness ==
    /\ \A o \in Orders : SF_vars(\E w \in Workers : Take(w, o))
    /\ \A w \in Workers :
          WF_vars(Price(w) \/ NoPrice(w) \/ BankOpens(w) \/ NoBank(w) \/ StoreLink(w))

FairSpec == Spec /\ Fairness

-----------------------------------------------------------------------------
(* What payment links promise *)

TypeOK ==
    /\ stage \in [Orders -> {"absent", "created", "sent", "lost"}]
    /\ queue \in [Orders -> Nat]
    /\ work \in [Workers -> Task]
    /\ opened \subseteq Payments
    /\ link \in [Orders -> Payments \cup {None}]
    /\ shown \subseteq Payments
    /\ paid \subseteq Payments
    /\ losses \in [Orders -> Nat]
    /\ failed \subseteq Orders
    /\ \A w \in Workers :
          /\ work[w].step # "idle" => work[w].order \in Orders
          /\ work[w].step = "store" => work[w].payment \in OpenedFor(work[w].order)

\* A bank is asked for a payment only of an order that is committed, also when the
\* worker is faster than the request, and what a client is shown is such a payment
\* (just_create_order_record, "Завершаем транзакцию, чтобы воркер увидел запись").
LinksHaveOrders ==
    /\ \A p \in opened : Exists(OrderOf[p])
    /\ shown \subseteq opened
    /\ \A o \in Orders : link[o] # None => link[o] \in OpenedFor(o)

\* An order is offered to the banks once, and once more for each time its task was
\* delivered again because a worker was lost: the task remembers no payment it has
\* opened (generate_payment_link_task, task_acks_late).
OpenedPerDelivery ==
    \A o \in Orders : Cardinality(OpenedFor(o)) <= 1 + losses[o]

Payable(o) == Provider[o] \in Banks /\ o \notin Free

\* A link task that waits is taken, however often workers are lost on the way, and the
\* client's link is there, unless the task ended in an error: the bank's, a tariff that
\* is gone, an exception, a killed process.  An excursion that is free and a bank nobody
\* knows leave him polling for ever (check_order_payment_status).
LinkArrives ==
    \A o \in Orders :
        (queue[o] > 0 /\ Payable(o)) ~> (link[o] # None \/ o \in failed)

\* What Billing takes for granted of the clients and the banks: orders begin
\* unpaid, and money is held only for payments of orders that are there.
Bill == INSTANCE Billing
    WITH Drivers <- {}, Requests <- {}, Faults <- {}, Workers <- {},
         ProviderOf <- [p \in Payments |->
                           IF Provider[OrderOf[p]] = "sberbank" THEN "sberbank" ELSE "tbank"],
         status <- [o \in Orders |-> IF Exists(o) THEN "pending_payment" ELSE "absent"],
         performer <- [o \in Orders |-> None],
         lock <- [o \in Orders |-> None],
         lastLog <- [o \in Orders |->
                        [from |-> "absent",
                         to   |-> IF Exists(o) THEN "pending_payment" ELSE "absent"]],
         payment <- [p \in Payments |-> "absent"],
         refunds <- [p \in Payments |-> 0],
         bank <- [p \in Payments |-> IF p \in paid THEN "held" ELSE "none"],
         acked <- {}, forgotten <- {}, queue <- [o \in Orders |-> 0],
         req <- [r \in {} |-> None], work <- [w \in {} |-> None]

FeedsBilling == Bill!Spec
=============================================================================
