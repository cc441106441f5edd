------------------------------- MODULE Billing -------------------------------
(***************************************************************************)
(* The billing core of the marketplace: the rows of `orders`,              *)
(* `order_status_logs` and `transactions`, the HTTP requests that change    *)
(* them (bank webhooks, cancellations, a driver taking an order) and the    *)
(* Celery task that gives a held payment back.                              *)
(*                                                                          *)
(* A request owns one database session (infra/db_depends.py).  PostgreSQL   *)
(* runs at READ COMMITTED: a plain SELECT takes no lock and the ORM object  *)
(* keeps what it read, so a request is split into the step that reads the   *)
(* order and the step that commits, and `seen` is the status it read.  An   *)
(* UPDATE waits for a row lock held by SELECT ... FOR UPDATE.               *)
(***************************************************************************)
EXTENDS Naturals

CONSTANTS
    Orders,      \* ids of orders
    Payments,    \* ids a bank gives to payments: external_payment_id
    Drivers,     \* users with the driver role
    Requests,    \* HTTP requests the API serves at the same time
    Workers,     \* Celery workers of the "maintenance" queue
    OrderOf,     \* the order a payment link was issued for
    ProviderOf,  \* the bank that issued it
    Faults,      \* which parts of the environment may fail
    None         \* no driver, no payment, no lock

Providers  == {"tbank", "sberbank"}
FaultKinds == {"api", "bank", "worker", "task"}

ASSUME BillingAssumption ==
    /\ OrderOf \in [Payments -> Orders]
    /\ ProviderOf \in [Payments -> Providers]
    /\ Faults \subseteq FaultKinds
    /\ None \notin Orders \cup Payments \cup Drivers \cup Requests

VARIABLES
    status,     \* orders.status, "absent" before the INSERT
    performer,  \* orders.performer_id
    lock,       \* the request whose FOR UPDATE holds the order's row
    lastLog,    \* the order's newest order_status_logs row: no code reads older ones
    payment,    \* status of the PAYMENT transaction with this external id
    refunds,    \* number of REFUND transactions "refund_<external id>"
    bank,       \* what the bank did with the client's money
    acked,      \* payments whose webhook the bank saw answered "OK"
    queue,      \* process_bank_refund_task messages waiting in the broker
    forgotten,  \* history: holds whose refund failed since the last cancellation
    req,        \* the API requests being served
    work        \* the refund tasks being executed

rowVars  == <<status, performer, lock, lastLog>>
bookVars == <<payment, refunds>>
bankVars == <<bank, acked>>
taskVars == <<queue, forgotten>>
vars     == <<rowVars, bookVars, bankVars, taskVars, req, work>>

OrderStatus == {"pending_payment", "searching", "assigned", "in_progress",
                "completed", "cancelled", "rejected", "dispute"}
LogRow      == [from: OrderStatus \cup {"absent"}, to: OrderStatus \cup {"absent"}]

Request == [op: {"idle", "webhook", "cancel", "enqueue", "accept"},
            order: Orders \cup {None}, payment: Payments \cup {None},
            driver: Drivers \cup {None}, seen: OrderStatus \cup {"absent"}]
IdleRequest == [op |-> "idle", order |-> None, payment |-> None,
                driver |-> None, seen |-> "absent"]

\* `owned`: the broker still counts this execution as the holder of the message
Task == [step: {"idle", "find", "call", "commit"}, order: Orders \cup {None},
         payment: Payments \cup {None}, owned: BOOLEAN]
IdleTask == [step |-> "idle", order |-> None, payment |-> None, owned |-> FALSE]

PaymentsOf(o) == {p \in Payments : OrderOf[p] = o}
HoldsOf(o)    == {p \in PaymentsOf(o) : payment[p] = "hold"}

Init ==
    /\ status    = [o \in Orders |-> "absent"]
    /\ performer = [o \in Orders |-> None]
    /\ lock      = [o \in Orders |-> None]
    /\ lastLog   = [o \in Orders |-> [from |-> "absent", to |-> "absent"]]
    /\ payment   = [p \in Payments |-> "absent"]
    /\ refunds   = [p \in Payments |-> 0]
    /\ bank      = [p \in Payments |-> "none"]
    /\ acked     = {}
    /\ queue     = [o \in Orders |-> 0]
    /\ forgotten = {}
    /\ req       = [r \in Requests |-> IdleRequest]
    /\ work      = [w \in Workers |-> IdleTask]

\* One committed UPDATE of orders.status with its audit row
SetStatus(o, from, to) ==
    /\ status'  = [status EXCEPT ![o] = to]
    /\ lastLog' = [lastLog EXCEPT ![o] = [from |-> from, to |-> to]]

\* A request is routed to its handler and reads the order
Start(r, operation, o, p, d) ==
    /\ req[r].op = "idle"
    /\ req' = [req EXCEPT ![r] = [op |-> operation, order |-> o, payment |-> p,
                                  driver |-> d, seen |-> status[o]]]

Finish(r) == req' = [req EXCEPT ![r] = IdleRequest]

-----------------------------------------------------------------------------
(* The client *)

CreateOrder(o) ==
    /\ status[o] = "absent"
    /\ SetStatus(o, "absent", "pending_payment")
    /\ UNCHANGED <<performer, lock, bookVars, bankVars, taskVars, req, work>>

\* The client pays by a link that was issued for the order
HoldPlaced(p) ==
    /\ bank[p] = "none"
    /\ status[OrderOf[p]] # "absent"
    /\ bank' = [bank EXCEPT ![p] = "held"]
    /\ UNCHANGED <<rowVars, bookVars, acked, taskVars, req, work>>

-----------------------------------------------------------------------------
(* A bank webhook: process_bank_webhook *)

\* The order already waits on the exchange: answered "OK", nothing written
WebhookRepeated(p) ==
    /\ bank[p] # "none"
    /\ status[OrderOf[p]] = "searching"
    /\ acked' = acked \cup {p}
    /\ UNCHANGED <<rowVars, bookVars, bank, taskVars, req, work>>

\* The bank names the order and its client (OrderId, Data.user_id), as the link task
\* gave them to it: without them the answer is "OK" and nothing is written
Webhook(r, p) ==
    /\ bank[p] # "none"
    /\ Start(r, "webhook", OrderOf[p], p, None)
    /\ UNCHANGED <<rowVars, bookVars, bankVars, taskVars, work>>

\* MUTANT: an order takes a payment only while it waits for one
WebhookReadPending(r, p) ==
    /\ status[OrderOf[p]] = "pending_payment"
    /\ Webhook(r, p)

WebhookRead(r, p) ==
    /\ status[OrderOf[p]] \notin {"absent", "searching"}
    /\ Webhook(r, p)

\* The order, its audit row and the PAYMENT transaction, in one commit
BookHold(r) ==
    LET o == req[r].order
        p == req[r].payment
    IN  /\ req[r].op = "webhook"
        /\ lock[o] = None     \* the UPDATE waits for a row that is locked
        /\ SetStatus(o, req[r].seen, "searching")
        /\ payment' = [payment EXCEPT ![p] = "hold"]
        /\ acked' = acked \cup {p}
        /\ Finish(r)
        /\ UNCHANGED <<performer, lock, refunds, bank, taskVars, work>>

WebhookCommit(r) ==
    /\ req[r].op = "webhook"
    /\ payment[req[r].payment] = "absent"
    /\ BookHold(r)

\* external_payment_id is unique: rollback and 500, so the bank will repeat
WebhookConflict(r) ==
    /\ req[r].op = "webhook"
    /\ payment[req[r].payment] # "absent"
    /\ Finish(r)
    /\ UNCHANGED <<rowVars, bookVars, bankVars, taskVars, work>>

-----------------------------------------------------------------------------
(* A cancellation: cancel_and_refund_order_hold *)

CancelRead(r, o) ==
    /\ status[o] \notin {"absent", "completed", "cancelled"}
    /\ Start(r, "cancel", o, None, None)
    /\ UNCHANGED <<rowVars, bookVars, bankVars, taskVars, work>>

Cancel(r) ==
    /\ req[r].op = "cancel"
    /\ lock[req[r].order] = None
    /\ SetStatus(req[r].order, req[r].seen, "cancelled")
    /\ forgotten' = forgotten \ PaymentsOf(req[r].order)
    /\ UNCHANGED <<performer, lock, bookVars, bankVars, queue, work>>

\* MUTANT: the refund task is not sent
CancelCommitOnly(r) ==
    /\ Cancel(r)
    /\ Finish(r)

CancelCommit(r) ==
    /\ Cancel(r)
    /\ req' = [req EXCEPT ![r].op = "enqueue"]

\* The refund task reaches the broker only after the commit
CancelEnqueue(r) ==
    /\ req[r].op = "enqueue"
    /\ queue' = [queue EXCEPT ![req[r].order] = @ + 1]
    /\ Finish(r)
    /\ UNCHANGED <<rowVars, bookVars, bankVars, forgotten, work>>

-----------------------------------------------------------------------------
(* A driver takes an order from the exchange: accept_order_by_driver *)

\* FOR UPDATE NOWAIT: a row that is held already is answered 409
LockOrder(r, d, o) ==
    /\ status[o] # "absent"
    /\ lock[o] = None
    /\ lock' = [lock EXCEPT ![o] = r]
    /\ Start(r, "accept", o, None, d)
    /\ UNCHANGED <<status, performer, lastLog, bookVars, bankVars, taskVars, work>>

\* MUTANT: a plain SELECT
AcceptRead(r, d, o) ==
    /\ status[o] = "searching"
    /\ Start(r, "accept", o, None, d)
    /\ UNCHANGED <<rowVars, bookVars, bankVars, taskVars, work>>

AcceptLock(r, d, o) ==
    /\ status[o] = "searching"
    /\ LockOrder(r, d, o)

AcceptCommit(r) ==
    LET o == req[r].order
    IN  /\ req[r].op = "accept"
        /\ SetStatus(o, req[r].seen, "assigned")
        /\ performer' = [performer EXCEPT ![o] = req[r].driver]
        /\ lock' = [lock EXCEPT ![o] = None]
        /\ Finish(r)
        /\ UNCHANGED <<bookVars, bankVars, taskVars, work>>

\* The session is closed: its locks, its uncommitted writes and a refund it was
\* about to send are gone
Abandon(r) ==
    /\ req[r].op # "idle"
    /\ lock' = [o \in Orders |-> IF lock[o] = r THEN None ELSE lock[o]]
    /\ forgotten' = IF req[r].op = "enqueue" THEN forgotten \cup HoldsOf(req[r].order)
                                             ELSE forgotten
    /\ Finish(r)
    /\ UNCHANGED <<status, performer, lastLog, bookVars, bankVars, queue, work>>

\* The process dies, the commit raises or the broker refuses the task
RequestLost(r) ==
    /\ "api" \in Faults
    /\ Abandon(r)

-----------------------------------------------------------------------------
(* The refund task: execute_bank_api_refund.  A task that returns, raises or *)
(* has its pool process killed is acknowledged; the broker delivers it again *)
(* only when it loses the whole worker (task_acks_late without              *)
(* task_reject_on_worker_lost).                                             *)

Acknowledge(w) == work' = [work EXCEPT ![w] = IdleTask]

\* The holds a task was to give back
Charge(w) == IF work[w].step = "find" THEN HoldsOf(work[w].order) ELSE {work[w].payment}

\* The task ends for good with its holds as they are; what a worker runs that the
\* broker does not count any more is delivered again
Fails(w) ==
    /\ forgotten' = IF work[w].owned THEN forgotten \cup Charge(w) ELSE forgotten
    /\ Acknowledge(w)

Deliver(w, o) ==
    /\ work[w].step = "idle"
    /\ queue' = [queue EXCEPT ![o] = @ - 1]
    /\ work' = [work EXCEPT ![w] = [step |-> "find", order |-> o, payment |-> None,
                                    owned |-> TRUE]]
    /\ UNCHANGED <<rowVars, bookVars, bankVars, forgotten, req>>

RefundTake(w, o) ==
    /\ queue[o] > 0
    /\ Deliver(w, o)

\* The hold the task works on, and where it goes on
Found(w, next) ==
    /\ work[w].step = "find"
    /\ \E p \in Payments :
          /\ HoldsOf(work[w].order) = {p}
          /\ work' = [work EXCEPT ![w].step = next, ![w].payment = p]
    /\ UNCHANGED <<rowVars, bookVars, bankVars, taskVars, req>>

\* MUTANT: the refund is booked and the bank is not asked
RefundFindUnasked(w) == Found(w, "commit")

RefundFind(w) == Found(w, "call")

\* No hold: "No hold found".  Two holds: scalar_one_or_none raises
RefundNotFound(w) ==
    /\ work[w].step = "find"
    /\ \A p \in Payments : HoldsOf(work[w].order) # {p}
    /\ Fails(w)
    /\ UNCHANGED <<rowVars, bookVars, bankVars, queue, req>>

\* T-Bank ids are digits and Sber's mdOrder is a uuid; the code takes an id for
\* Sber's when it holds an underscore, as only the orderNumber "order_<id>" does
ExternalId(p)  == IF ProviderOf[p] = "tbank" THEN "digits" ELSE "uuid"
IsSber(format) == format = "order_number"
Gateway(p)     == IF IsSber(ExternalId(p)) THEN "sberbank" ELSE "tbank"

BankReleases(w) ==
    LET p == work[w].payment
    IN  /\ work[w].step = "call"
        /\ Gateway(p) = ProviderOf[p]
        /\ bank' = [bank EXCEPT ![p] = "released"]
        /\ work' = [work EXCEPT ![w].step = "commit"]
        /\ UNCHANGED <<rowVars, bookVars, acked, taskVars, req>>

\* The bank does not know the payment, has released it before, or fails; when
\* only its answer is lost the hold is released all the same
Refusal(w) ==
    LET p == work[w].payment
    IN  /\ work[w].step = "call"
        /\ \/ /\ \/ Gateway(p) # ProviderOf[p]
                 \/ bank[p] = "released"
                 \/ "bank" \in Faults
              /\ UNCHANGED bank
           \/ /\ "bank" \in Faults
              /\ Gateway(p) = ProviderOf[p]
              /\ bank' = [bank EXCEPT ![p] = "released"]
        /\ UNCHANGED <<rowVars, bookVars, acked, queue, req>>

\* MUTANT: the bank's answer is not looked at
BankRefusesUnseen(w) ==
    /\ Refusal(w)
    /\ work' = [work EXCEPT ![w].step = "commit"]
    /\ UNCHANGED forgotten

BankRefuses(w) ==
    /\ Refusal(w)
    /\ Fails(w)

\* The hold is closed and its REFUND booked, in one commit
BookRefund(w) ==
    LET p == work[w].payment
    IN  /\ work[w].step = "commit"
        /\ payment' = [payment EXCEPT ![p] = "failed"]
        /\ refunds' = [refunds EXCEPT ![p] = @ + 1]
        /\ Acknowledge(w)
        /\ UNCHANGED <<rowVars, bankVars, taskVars, req>>

RefundCommit(w) ==
    /\ work[w].step = "commit"
    /\ refunds[work[w].payment] = 0
    /\ BookRefund(w)

\* "refund_<external id>" is unique: rollback and raise
RefundConflict(w) ==
    /\ work[w].step = "commit"
    /\ refunds[work[w].payment] > 0
    /\ Acknowledge(w)
    /\ UNCHANGED <<rowVars, bookVars, bankVars, taskVars, req>>

\* The pool process that runs the task is killed, or the database raises: the task
\* is acknowledged, and the hold stays as the last step left it
TaskFails(w) ==
    /\ "task" \in Faults
    /\ work[w].step # "idle"
    /\ Fails(w)
    /\ UNCHANGED <<rowVars, bookVars, bankVars, queue, req>>

Dies(w) ==
    /\ "worker" \in Faults
    /\ work[w].step # "idle"
    /\ Acknowledge(w)
    /\ UNCHANGED <<rowVars, bookVars, bankVars, forgotten, req>>

\* MUTANT: the broker forgot the message when the worker took it
WorkerLostForgotten(w) ==
    /\ Dies(w)
    /\ UNCHANGED taskVars

\* The whole worker dies or its machine is cut off: with task_acks_late its message
\* goes back to the queue
WorkerLost(w) ==
    /\ Dies(w)
    /\ queue' = [queue EXCEPT ![work[w].order] = IF work[w].owned THEN @ + 1 ELSE @]

\* The broker lost the worker's connection while the task goes on running
Redelivered(w) ==
    /\ "worker" \in Faults
    /\ work[w].step # "idle"
    /\ work[w].owned
    /\ queue' = [queue EXCEPT ![work[w].order] = @ + 1]
    /\ work' = [work EXCEPT ![w].owned = FALSE]
    /\ UNCHANGED <<rowVars, bookVars, bankVars, forgotten, req>>

-----------------------------------------------------------------------------

ClientStep ==
    \/ \E o \in Orders : CreateOrder(o)
    \/ \E p \in Payments : HoldPlaced(p)

RequestStep(r) ==
    \/ \E p \in Payments : WebhookRead(r, p)
    \/ WebhookCommit(r)
    \/ WebhookConflict(r)
    \/ \E o \in Orders : CancelRead(r, o)
    \/ CancelCommit(r)
    \/ CancelEnqueue(r)
    \/ \E d \in Drivers, o \in Orders : AcceptLock(r, d, o)
    \/ AcceptCommit(r)
    \/ RequestLost(r)

WorkerStep(w) ==
    \/ \E o \in Orders : RefundTake(w, o)
    \/ RefundFind(w)
    \/ RefundNotFound(w)
    \/ BankReleases(w)
    \/ BankRefuses(w)
    \/ RefundCommit(w)
    \/ RefundConflict(w)
    \/ TaskFails(w)
    \/ WorkerLost(w)
    \/ Redelivered(w)

Next ==
    \/ ClientStep
    \/ \E p \in Payments : WebhookRepeated(p)
    \/ \E r \in Requests : RequestStep(r)
    \/ \E w \in Workers : WorkerStep(w)

Spec == Init /\ [][Next]_vars

\* Handlers and tasks that have begun go on unless they are lost.  A bank repeats a
\* webhook until it is answered "OK", and not every repetition is lost; a queued
\* task is taken, and a worker does not lose each task before it has found the hold
\* or has the bank's answer: strong fairness, for losses disable these steps for a
\* while.  Nothing makes a client order or pay, a driver accept, or anyone cancel.
HandlerRuns(r) ==
    \/ CancelCommit(r) \/ CancelEnqueue(r)
    \/ AcceptCommit(r)

WebhookRepeats(p) ==
    /\ p \notin acked
    /\ WebhookRepeated(p) \/ \E r \in Requests : WebhookRead(r, p)

Finds(w) == RefundFind(w) \/ RefundNotFound(w)
Asks(w)  == BankReleases(w) \/ BankRefuses(w)

Fairness ==
    /\ \A r \in Requests : WF_vars(HandlerRuns(r))
    /\ \A r \in Requests : SF_vars(WebhookCommit(r) \/ WebhookConflict(r))
    /\ \A p \in Payments : SF_vars(WebhookRepeats(p))
    /\ \A o \in Orders : SF_vars(\E w \in Workers : RefundTake(w, o))
    /\ \A w \in Workers :
          /\ WF_vars(Finds(w) \/ Asks(w) \/ RefundCommit(w) \/ RefundConflict(w))
          /\ SF_vars(work[w].owned /\ Finds(w))
          /\ SF_vars(work[w].owned /\ Asks(w))

FairSpec == Spec /\ Fairness

-----------------------------------------------------------------------------
(* What the billing core promises *)

TypeOK ==
    /\ status \in [Orders -> OrderStatus \cup {"absent"}]
    /\ performer \in [Orders -> Drivers \cup {None}]
    /\ lock \in [Orders -> Requests \cup {None}]
    /\ lastLog \in [Orders -> LogRow]
    /\ payment \in [Payments -> {"absent", "hold", "failed"}]
    /\ refunds \in [Payments -> Nat]
    /\ bank \in [Payments -> {"none", "held", "released"}]
    /\ acked \subseteq Payments
    /\ queue \in [Orders -> Nat]
    /\ forgotten \subseteq Payments
    /\ req \in [Requests -> Request]
    /\ work \in [Workers -> Task]
    /\ \A r \in Requests :
          /\ req[r].op # "idle" => req[r].order \in Orders
          /\ req[r].op = "webhook" => req[r].payment \in PaymentsOf(req[r].order)
          /\ req[r].op = "accept" => req[r].driver \in Drivers
    /\ \A w \in Workers :
          /\ work[w].step # "idle" => work[w].order \in Orders
          /\ work[w].step \in {"call", "commit"} =>
                work[w].payment \in PaymentsOf(work[w].order)

\* However often the refund task is delivered, and by however many workers at
\* once, the accounts hold at most one REFUND of a payment
\* (execute_bank_api_refund).
RefundedOnce == \A p \in Payments : refunds[p] <= 1

\* The accounts never run ahead of the bank: a PAYMENT is booked only for money
\* the bank holds, it is closed exactly when its REFUND is booked, and then the
\* bank has released the money (process_bank_webhook, execute_bank_api_refund).
LedgerFollowsBank ==
    \A p \in Payments :
        /\ payment[p] # "absent" => bank[p] # "none"
        /\ refunds[p] > 0 <=> payment[p] = "failed"
        /\ refunds[p] > 0 => bank[p] = "released"

\* The accounts of one payment as HoldLedger sees them
BooksOf(p) ==
    CASE payment[p] = "absent" /\ refunds[p] = 0 -> "blank"
      [] payment[p] = "hold" /\ refunds[p] = 0   -> "hold"
      [] payment[p] = "failed" /\ refunds[p] = 1 -> "refunded"
      [] OTHER                                   -> "inconsistent"

Accounts == INSTANCE HoldLedger
                WITH money <- bank, books <- [p \in Payments |-> BooksOf(p)]

\* Webhooks, cancellations, refund tasks, their duplicates and their failures do to
\* every payment what the ledger's specification allows and nothing else.
KeepsAccounts == Accounts!Spec

\* No order is offered to drivers, or assigned to one, that nobody paid for
\* (process_bank_webhook, accept_order_by_driver).
PaidBeforeWork ==
    \A o \in Orders : status[o] \in {"searching", "assigned"} =>
        \E p \in PaymentsOf(o) : payment[p] # "absent"

\* A driver gets an order only off the exchange: of the drivers and the cancelling
\* requests that race for it, none overwrites another's result, and no driver
\* takes the place of one who has the order (accept_order_by_driver's FOR UPDATE
\* NOWAIT).
TakenOffExchangeOnly ==
    [][\A o \in Orders :
          status'[o] = "assigned" /\ (status[o] # "assigned" \/ performer'[o] # performer[o])
              => status[o] = "searching"]_vars

\* A cancelled order comes back, and an assigned one leaves its driver without being
\* cancelled, only with a payment that was not booked before: a repeated or late
\* webhook of a payment already booked reopens nothing (process_bank_webhook,
\* external_payment_id unique).
ReopenedOnlyByNewPayment ==
    [][\A o \in Orders :
          \/ status[o] = "cancelled" /\ status'[o] # "cancelled"
          \/ status[o] = "assigned" /\ status'[o] \notin {"assigned", "cancelled"}
          => \E p \in PaymentsOf(o) : payment[p] = "absent" /\ payment'[p] = "hold"]_vars

\* An order a driver has taken leaves him only by a cancellation.  Duplicates of a
\* webhook keep this; a second payment of the order does not.
AssignedUntilCancelled ==
    [][\A o \in Orders : status[o] = "assigned" =>
          status'[o] \in {"assigned", "cancelled"}]_vars

\* While the money of a cancelled order is still held, a refund of it is on its
\* way: being sent, in the queue, or run by a worker whose loss would requeue it.
\* The ways to lose it are those of `forgotten`: the sending request is lost, the
\* task raises, its process is killed, or the bank refuses
\* (cancel_and_refund_order_hold, process_bank_refund_task).
RefundUnderWay ==
    \A p \in Payments :
        LET o == OrderOf[p]
        IN  status[o] = "cancelled" /\ payment[p] = "hold" /\ bank[p] = "held" =>
                \/ p \in forgotten
                \/ queue[o] > 0
                \/ \E r \in Requests : req[r].op = "enqueue" /\ req[r].order = o
                \/ \E w \in Workers :
                      /\ work[w].order = o
                      /\ work[w].owned
                      /\ work[w].step \in {"find", "call"}
                      /\ p \in Charge(w)

\* "Оплачен (деньги на HOLD), ищет водителя/гида на бирже": models/orders.py:20
SearchingHasHold ==
    \A o \in Orders : status[o] = "searching" =>
        \E p \in PaymentsOf(o) : bank[p] = "held"

\* Money that is held gets into the accounts, as banks repeat their webhooks.
HeldIsBooked == \A p \in Payments : bank[p] = "held" ~> payment[p] # "absent"

\* The money of a cancelled order is given back, however often workers are lost,
\* unless the order is revived or a failure ends its refund (`forgotten`).
CancelledIsReleased ==
    \A p \in Payments :
        (status[OrderOf[p]] = "cancelled" /\ payment[p] = "hold")
            ~> (status[OrderOf[p]] # "cancelled" \/ bank[p] = "released" \/ p \in forgotten)
=============================================================================
