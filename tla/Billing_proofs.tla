--------------------------- MODULE Billing_proofs ---------------------------
(***************************************************************************)
(* Theorems about Billing, for every set of orders, payments, drivers,     *)
(* requests and workers and for every combination of faults.               *)
(***************************************************************************)
EXTENDS Billing, TLAPS

-----------------------------------------------------------------------------
(* Types *)

LEMMA IdleTypes == IdleRequest \in Request /\ IdleTask \in Task
  BY DEF IdleRequest, Request, IdleTask, Task, OrderStatus

LEMMA InitType == Init => TypeOK
  BY IdleTypes DEF Init, TypeOK, LogRow, IdleRequest, IdleTask

\* What a task was to give back are payments
LEMMA ChargeType ==
  ASSUME TypeOK, NEW w \in Workers, work[w].step # "idle"
  PROVE  Charge(w) \subseteq Payments
  BY DEF TypeOK, Charge, HoldsOf, PaymentsOf, Task

LEMMA NextType == TypeOK /\ [Next]_vars => TypeOK'
<1> SUFFICES ASSUME TypeOK, [Next]_vars PROVE TypeOK'
  OBVIOUS
<1> USE BillingAssumption, IdleTypes 
       DEF TypeOK, PaymentsOf, rowVars, bookVars, bankVars, taskVars, OrderStatus, IdleRequest, IdleTask
<1>1. ASSUME NEW o \in Orders, CreateOrder(o) PROVE TypeOK'
  BY <1>1 DEF CreateOrder, SetStatus, LogRow
<1>2. ASSUME NEW p \in Payments, HoldPlaced(p) PROVE TypeOK'
  BY <1>2 DEF HoldPlaced
<1>3. ASSUME NEW p \in Payments, WebhookRepeated(p) PROVE TypeOK'
  BY <1>3 DEF WebhookRepeated
<1>4. ASSUME NEW r \in Requests, RequestStep(r) PROVE TypeOK'
  <2>1. ASSUME NEW p \in Payments, WebhookRead(r, p) PROVE TypeOK'
    BY <2>1 DEF WebhookRead, Webhook, Start, Request
  <2>2. CASE WebhookCommit(r)
    BY <2>2 DEF WebhookCommit, BookHold, SetStatus, Finish, LogRow, Request
  <2>3. CASE WebhookConflict(r)
    BY <2>3 DEF WebhookConflict, Finish
  <2>4. ASSUME NEW o \in Orders, CancelRead(r, o) PROVE TypeOK'
    BY <2>4 DEF CancelRead, Start, Request
  <2>5. CASE CancelCommit(r)
    <3>1. req' = [req EXCEPT ![r] = [req[r] EXCEPT !.op = "enqueue"]]
      BY <2>5 DEF CancelCommit
    <3>2. [req[r] EXCEPT !.op = "enqueue"] \in Request
      BY DEF Request
    <3>3. /\ status' \in [Orders -> OrderStatus \cup {"absent"}]
          /\ lastLog' \in [Orders -> LogRow]
      BY <2>5 DEF CancelCommit, Cancel, SetStatus, LogRow, Request
    <3>4. QED
      BY <2>5, <3>1, <3>2, <3>3 DEF CancelCommit, Cancel, Request
  <2>6. CASE CancelEnqueue(r)
    BY <2>6 DEF CancelEnqueue, Finish
  <2>7. ASSUME NEW d \in Drivers, NEW o \in Orders, AcceptLock(r, d, o) PROVE TypeOK'
    BY <2>7 DEF AcceptLock, LockOrder, Start, Request
  <2>8. CASE AcceptCommit(r)
    BY <2>8 DEF AcceptCommit, SetStatus, Finish, LogRow, Request
  <2>9. CASE RequestLost(r)
    BY <2>9 DEF RequestLost, Abandon, Finish, HoldsOf
  <2>10. QED
    BY <1>4, <2>1, <2>2, <2>3, <2>4, <2>5, <2>6, <2>7, <2>8, <2>9 DEF RequestStep
<1>5. ASSUME NEW w \in Workers, WorkerStep(w) PROVE TypeOK'
  <2>1. ASSUME NEW o \in Orders, RefundTake(w, o) PROVE TypeOK'
    <3>1. queue' \in [Orders -> Nat]
      BY <2>1 DEF RefundTake, Deliver
    <3>2. [step |-> "find", order |-> o, payment |-> None, owned |-> TRUE] \in Task
      BY DEF Task
    <3>3. QED
      BY <2>1, <3>1, <3>2 DEF RefundTake, Deliver
  <2>2. CASE RefundFind(w)
    <3>1. PICK p \in HoldsOf(work[w].order) :
             work' = [work EXCEPT ![w] = [work[w] EXCEPT !.step = "call", !.payment = p]]
      BY <2>2 DEF RefundFind, Found
    <3>2. p \in PaymentsOf(work[w].order)
      BY DEF HoldsOf
    <3>3. [work[w] EXCEPT !.step = "call", !.payment = p] \in Task
      BY <3>2 DEF Task
    <3>4. QED
      BY <2>2, <3>1, <3>2, <3>3 DEF RefundFind, Found, Task
  <2>3. CASE RefundNotFound(w)
    BY <2>3, ChargeType DEF RefundNotFound, Fails, Acknowledge
  <2>4. CASE BankReleases(w)
    BY <2>4 DEF BankReleases, Task
  <2>5. CASE BankRefuses(w)
    BY <2>5, ChargeType DEF BankRefuses, Refusal, Fails, Acknowledge
  <2>6. CASE RefundCommit(w)
    BY <2>6 DEF RefundCommit, BookRefund, Acknowledge
  <2>7. CASE RefundConflict(w)
    BY <2>7 DEF RefundConflict, Acknowledge
  <2>8. CASE WorkerLost(w)
    BY <2>8 DEF WorkerLost, Dies, Acknowledge
  <2>9. CASE Redelivered(w)
    <3>1. work' = [work EXCEPT ![w] = [work[w] EXCEPT !.owned = FALSE]]
      BY <2>9 DEF Redelivered
    <3>2. [work[w] EXCEPT !.owned = FALSE] \in Task
      BY DEF Task
    <3>3. queue' \in [Orders -> Nat]
      BY <2>9 DEF Redelivered
    <3>4. QED
      BY <2>9, <3>1, <3>2, <3>3 DEF Redelivered, Task
  <2>10. CASE TaskFails(w)
    BY <2>10, ChargeType DEF TaskFails, Fails, Acknowledge
  <2>11. QED
    BY <1>5, <2>1, <2>2, <2>3, <2>4, <2>5, <2>6, <2>7, <2>8, <2>9, <2>10 DEF WorkerStep
<1>6. CASE UNCHANGED vars
  BY <1>6 DEF vars
<1>7. QED
  BY <1>1, <1>2, <1>3, <1>4, <1>5, <1>6 DEF Next, ClientStep

\* Every row, request, message and task keeps the type its model declares.
THEOREM TypeCorrect == Spec => []TypeOK
  BY InitType, NextType, PTL DEF Spec

-----------------------------------------------------------------------------
(* The accounts *)

\* Inductive: a refund task books its refund only after the bank released the
\* hold it found, and a hold that is found stays in the books.
LedgerInv ==
    /\ \A p \in Payments :
          /\ refunds[p] \in {0, 1}
          /\ refunds[p] = 1 <=> payment[p] = "failed"
          /\ payment[p] # "absent" => bank[p] # "none"
          /\ payment[p] = "failed" => bank[p] = "released"
          /\ bank[p] = "released" => payment[p] # "absent"
    /\ \A r \in Requests : req[r].op = "webhook" => bank[req[r].payment] # "none"
    /\ \A w \in Workers :
          /\ work[w].step = "call" => payment[work[w].payment] # "absent"
          /\ work[w].step = "commit" => bank[work[w].payment] = "released"

LEMMA InitLedger == Init => LedgerInv
  BY DEF Init, LedgerInv, IdleRequest, IdleTask

LEMMA NextLedger == TypeOK /\ LedgerInv /\ [Next]_vars => LedgerInv'
<1> SUFFICES ASSUME TypeOK, LedgerInv, [Next]_vars PROVE LedgerInv'
  OBVIOUS
<1> USE BillingAssumption
     DEF TypeOK, LedgerInv, PaymentsOf, rowVars, bookVars, bankVars, taskVars, IdleRequest, IdleTask
<1>1. ASSUME NEW o \in Orders, CreateOrder(o) PROVE LedgerInv'
  BY <1>1 DEF CreateOrder
<1>2. ASSUME NEW p \in Payments, HoldPlaced(p) PROVE LedgerInv'
  BY <1>2 DEF HoldPlaced
<1>3. ASSUME NEW p \in Payments, WebhookRepeated(p) PROVE LedgerInv'
  BY <1>3 DEF WebhookRepeated
<1>4. ASSUME NEW r \in Requests, RequestStep(r) PROVE LedgerInv'
  <2>1. ASSUME NEW p \in Payments, WebhookRead(r, p) PROVE LedgerInv'
    BY <2>1 DEF WebhookRead, Webhook, Start, Request
  <2>2. CASE WebhookCommit(r)
    BY <2>2 DEF WebhookCommit, BookHold, Finish
  <2>3. CASE WebhookConflict(r)
    BY <2>3 DEF WebhookConflict, Finish
  <2>4. ASSUME NEW o \in Orders, CancelRead(r, o) PROVE LedgerInv'
    BY <2>4 DEF CancelRead, Start, Request
  <2>5. CASE CancelCommit(r)
    BY <2>5 DEF CancelCommit, Cancel, Request
  <2>6. CASE CancelEnqueue(r)
    BY <2>6 DEF CancelEnqueue, Finish
  <2>7. ASSUME NEW d \in Drivers, NEW o \in Orders, AcceptLock(r, d, o) PROVE LedgerInv'
    BY <2>7 DEF AcceptLock, LockOrder, Start, Request
  <2>8. CASE AcceptCommit(r)
    BY <2>8 DEF AcceptCommit, Finish
  <2>9. CASE RequestLost(r)
    BY <2>9 DEF RequestLost, Abandon, Finish
  <2>10. QED
    BY <1>4, <2>1, <2>2, <2>3, <2>4, <2>5, <2>6, <2>7, <2>8, <2>9 DEF RequestStep
<1>5. ASSUME NEW w \in Workers, WorkerStep(w) PROVE LedgerInv'
  <2>1. ASSUME NEW o \in Orders, RefundTake(w, o) PROVE LedgerInv'
    BY <2>1 DEF RefundTake, Deliver, Task
  <2>2. CASE RefundFind(w)
    <3>1. PICK p \in HoldsOf(work[w].order) :
             work' = [work EXCEPT ![w] = [work[w] EXCEPT !.step = "call", !.payment = p]]
      BY <2>2 DEF RefundFind, Found
    <3>2. p \in Payments /\ payment[p] = "hold"
      BY DEF HoldsOf
    <3>3. QED
      BY <2>2, <3>1, <3>2 DEF RefundFind, Found, Task
  <2>3. CASE RefundNotFound(w)
    BY <2>3 DEF RefundNotFound, Fails, Acknowledge
  <2>4. CASE BankReleases(w)
    BY <2>4 DEF BankReleases, Task
  <2>5. CASE BankRefuses(w)
    BY <2>5 DEF BankRefuses, Refusal, Fails, Acknowledge
  <2>6. CASE RefundCommit(w)
    BY <2>6 DEF RefundCommit, BookRefund, Acknowledge
  <2>7. CASE RefundConflict(w)
    BY <2>7 DEF RefundConflict, Acknowledge
  <2>8. CASE WorkerLost(w)
    BY <2>8 DEF WorkerLost, Dies, Acknowledge
  <2>9. CASE Redelivered(w)
    BY <2>9 DEF Redelivered, Task
  <2>10. CASE TaskFails(w)
    BY <2>10 DEF TaskFails, Fails, Acknowledge
  <2>11. QED
    BY <1>5, <2>1, <2>2, <2>3, <2>4, <2>5, <2>6, <2>7, <2>8, <2>9, <2>10 DEF WorkerStep
<1>6. CASE UNCHANGED vars
  BY <1>6 DEF vars
<1>7. QED
  BY <1>1, <1>2, <1>3, <1>4, <1>5, <1>6 DEF Next, ClientStep

\* The invariant behind the theorems on the accounts holds in every state.
THEOREM LedgerInvariant == Spec => []LedgerInv
  BY InitLedger, NextLedger, TypeCorrect, PTL DEF Spec

\* Redelivered, concurrent and retried refund tasks book one REFUND at most.
THEOREM RefundOnce == Spec => []RefundedOnce
<1>1. LedgerInv => RefundedOnce
  BY DEF LedgerInv, RefundedOnce
<1>2. QED
  BY <1>1, LedgerInvariant, PTL

\* The accounts never say more than the bank did.
THEOREM BooksFollowBank == Spec => []LedgerFollowsBank
<1>1. LedgerInv => LedgerFollowsBank
  BY DEF LedgerInv, LedgerFollowsBank
<1>2. QED
  BY <1>1, LedgerInvariant, PTL

-----------------------------------------------------------------------------
(* Billing implements HoldLedger *)

Books == [p \in Payments |-> BooksOf(p)]

LEMMA InitAccounts == Init => Accounts!Init
  BY DEF Init, Accounts!Init, BooksOf

LEMMA QuietStep ==
  ASSUME UNCHANGED <<payment, refunds, bank>>
  PROVE  UNCHANGED <<bank, Books>>
  BY DEF Books, BooksOf

LEMMA NextAccounts ==
  TypeOK /\ LedgerInv /\ [Next]_vars => [Accounts!Next]_<<bank, Books>>
<1> SUFFICES ASSUME TypeOK, LedgerInv, [Next]_vars
             PROVE  [Accounts!Next]_<<bank, Books>>
  OBVIOUS
<1> USE DEF rowVars, bookVars, bankVars, taskVars
<1>1. ASSUME UNCHANGED <<payment, refunds, bank>>
      PROVE  [Accounts!Next]_<<bank, Books>>
  BY <1>1, QuietStep
<1>2. ASSUME NEW p \in Payments, HoldPlaced(p) PROVE [Accounts!Next]_<<bank, Books>>
  <2>1. Accounts!Hold(p)
    BY <1>2 DEF HoldPlaced, Accounts!Hold, BooksOf
  <2>2. QED
    BY <2>1 DEF Accounts!Next
<1>3. ASSUME NEW r \in Requests, WebhookCommit(r) PROVE [Accounts!Next]_<<bank, Books>>
  <2> DEFINE q == req[r].payment
  <2>1. /\ q \in Payments
        /\ bank[q] # "none"
        /\ payment[q] = "absent" /\ refunds[q] = 0
        /\ payment' = [payment EXCEPT ![q] = "hold"]
        /\ UNCHANGED <<refunds, bank>>
    BY <1>3 DEF WebhookCommit, BookHold, LedgerInv, TypeOK, PaymentsOf
  <2> HIDE DEF q
  <2>2. Books' = [Books EXCEPT ![q] = "hold"]
    BY <2>1 DEF Books, BooksOf, TypeOK
  <2>3. Books[q] = "blank"
    BY <2>1 DEF Books, BooksOf
  <2>4. Accounts!Book(q)
    BY <2>1, <2>2, <2>3 DEF Accounts!Book, Books
  <2>5. QED
    BY <2>1, <2>4 DEF Accounts!Next
<1>4. ASSUME NEW w \in Workers, BankReleases(w) \/ BankRefuses(w)
      PROVE  [Accounts!Next]_<<bank, Books>>
  <2> DEFINE q == work[w].payment
  <2>1. /\ q \in Payments
        /\ payment[q] # "absent"
        /\ UNCHANGED <<payment, refunds>>
        /\ bank' = [bank EXCEPT ![q] = "released"] \/ UNCHANGED bank
    BY <1>4 DEF BankReleases, BankRefuses, Refusal, LedgerInv, TypeOK, PaymentsOf
  <2> HIDE DEF q
  <2>2. UNCHANGED Books
    BY <2>1 DEF Books, BooksOf
  <2>3. CASE bank[q] = "held" /\ bank' = [bank EXCEPT ![q] = "released"]
    <3>1. Books[q] = "hold"
      BY <2>1, <2>3 DEF Books, BooksOf, LedgerInv, TypeOK
    <3>2. Accounts!Release(q)
      BY <2>1, <2>2, <2>3, <3>1 DEF Accounts!Release, Books
    <3>3. QED
      BY <2>1, <3>2 DEF Accounts!Next
  <2>4. CASE UNCHANGED bank
    BY <2>2, <2>4
  <2>5. bank[q] # "held" /\ bank' = [bank EXCEPT ![q] = "released"] => UNCHANGED bank
    BY <2>1 DEF LedgerInv, TypeOK
  <2>6. QED
    BY <2>1, <2>3, <2>4, <2>5
<1>5. ASSUME NEW w \in Workers, RefundCommit(w) PROVE [Accounts!Next]_<<bank, Books>>
  <2> DEFINE q == work[w].payment
  <2>1. /\ q \in Payments
        /\ bank[q] = "released"
        /\ payment[q] = "hold" /\ refunds[q] = 0
        /\ payment' = [payment EXCEPT ![q] = "failed"]
        /\ refunds' = [refunds EXCEPT ![q] = 1]
        /\ UNCHANGED bank
    BY <1>5 DEF RefundCommit, BookRefund, LedgerInv, TypeOK, PaymentsOf
  <2> HIDE DEF q
  <2>2. Books' = [Books EXCEPT ![q] = "refunded"]
    BY <2>1 DEF Books, BooksOf, TypeOK
  <2>3. Books[q] = "hold"
    BY <2>1 DEF Books, BooksOf
  <2>4. Accounts!Refund(q)
    BY <2>1, <2>2, <2>3 DEF Accounts!Refund, Books
  <2>5. QED
    BY <2>1, <2>4 DEF Accounts!Next
<1>6. ASSUME NEW r \in Requests, RequestStep(r), ~WebhookCommit(r)
      PROVE  UNCHANGED <<payment, refunds, bank>>
  BY <1>6 DEF RequestStep, WebhookRead, Webhook, WebhookConflict, CancelRead, CancelCommit,
              Cancel, CancelEnqueue, AcceptLock, LockOrder, AcceptCommit, RequestLost, Abandon
<1>7. ASSUME NEW w \in Workers, WorkerStep(w),
             ~BankReleases(w), ~BankRefuses(w), ~RefundCommit(w)
      PROVE  UNCHANGED <<payment, refunds, bank>>
  BY <1>7 DEF WorkerStep, RefundTake, Deliver, RefundFind, Found, RefundNotFound,
              RefundConflict, WorkerLost, Dies, Redelivered, TaskFails, Fails
<1>8. ASSUME NEW o \in Orders, CreateOrder(o) PROVE UNCHANGED <<payment, refunds, bank>>
  BY <1>8 DEF CreateOrder
<1>9. ASSUME NEW p \in Payments, WebhookRepeated(p) PROVE UNCHANGED <<payment, refunds, bank>>
  BY <1>9 DEF WebhookRepeated
<1>10. CASE UNCHANGED vars
  BY <1>1, <1>10 DEF vars
<1>11. QED
  BY <1>1, <1>2, <1>3, <1>4, <1>5, <1>6, <1>7, <1>8, <1>9, <1>10 DEF Next, ClientStep

\* Whatever webhooks, cancellations and refund tasks do, and whatever is lost or
\* repeated, each payment lives as the ledger's specification says.
THEOREM ImplementsLedger == Spec => KeepsAccounts
<1>1. TypeOK /\ LedgerInv /\ [Next]_vars
         => [Accounts!Next]_<<bank, [p \in Payments |-> BooksOf(p)]>>
  BY NextAccounts DEF Books
<1>2. QED
  BY <1>1, InitAccounts, TypeCorrect, LedgerInvariant, PTL DEF Spec, KeepsAccounts, Accounts!Spec

-----------------------------------------------------------------------------
(* The order's row *)

\* Inductive: FOR UPDATE keeps an order on the exchange, and its row, for the
\* request that locked it; an order gets there by a payment, and booked payments stay.
ExchangeInv ==
    /\ PaidBeforeWork
    /\ \A r \in Requests : req[r].op = "accept" =>
          lock[req[r].order] = r /\ status[req[r].order] = "searching"

LEMMA InitExchange == Init => ExchangeInv
  BY DEF Init, ExchangeInv, PaidBeforeWork, IdleRequest

LEMMA NextExchange == TypeOK /\ ExchangeInv /\ [Next]_vars => ExchangeInv'
<1> SUFFICES ASSUME TypeOK, ExchangeInv, [Next]_vars PROVE ExchangeInv'
  OBVIOUS
<1> USE BillingAssumption
     DEF TypeOK, ExchangeInv, PaidBeforeWork, PaymentsOf, rowVars, bookVars, bankVars, taskVars,
         IdleRequest
<1>1. ASSUME NEW o \in Orders, CreateOrder(o) PROVE ExchangeInv'
  BY <1>1 DEF CreateOrder, SetStatus
<1>2. ASSUME NEW p \in Payments, HoldPlaced(p) PROVE ExchangeInv'
  BY <1>2 DEF HoldPlaced
<1>3. ASSUME NEW p \in Payments, WebhookRepeated(p) PROVE ExchangeInv'
  BY <1>3 DEF WebhookRepeated
<1>4. ASSUME NEW r \in Requests, RequestStep(r) PROVE ExchangeInv'
  <2>1. ASSUME NEW p \in Payments, WebhookRead(r, p) PROVE ExchangeInv'
    BY <2>1 DEF WebhookRead, Webhook, Start, Request
  <2>2. CASE WebhookCommit(r)
    BY <2>2 DEF WebhookCommit, BookHold, SetStatus, Finish
  <2>3. CASE WebhookConflict(r)
    BY <2>3 DEF WebhookConflict, Finish
  <2>4. ASSUME NEW o \in Orders, CancelRead(r, o) PROVE ExchangeInv'
    BY <2>4 DEF CancelRead, Start, Request
  <2>5. CASE CancelCommit(r)
    BY <2>5 DEF CancelCommit, Cancel, SetStatus, Request
  <2>6. CASE CancelEnqueue(r)
    BY <2>6 DEF CancelEnqueue, Finish
  <2>7. ASSUME NEW d \in Drivers, NEW o \in Orders, AcceptLock(r, d, o) PROVE ExchangeInv'
    BY <2>7 DEF AcceptLock, LockOrder, Start, Request
  <2>8. CASE AcceptCommit(r)
    BY <2>8 DEF AcceptCommit, SetStatus, Finish
  <2>9. CASE RequestLost(r)
    BY <2>9 DEF RequestLost, Abandon, Finish
  <2>10. QED
    BY <1>4, <2>1, <2>2, <2>3, <2>4, <2>5, <2>6, <2>7, <2>8, <2>9 DEF RequestStep
<1>5. ASSUME NEW w \in Workers, WorkerStep(w) PROVE ExchangeInv'
  <2>1. UNCHANGED <<status, lock, req>>
    BY <1>5 DEF WorkerStep, RefundTake, Deliver, RefundFind, Found, RefundNotFound, BankReleases,
                BankRefuses, Refusal, RefundCommit, BookRefund, RefundConflict, WorkerLost, Dies,
                Redelivered, TaskFails, Fails
  <2>2. \A p \in Payments : payment[p] # "absent" => payment'[p] # "absent"
    BY <1>5 DEF WorkerStep, RefundTake, Deliver, RefundFind, Found, RefundNotFound, BankReleases,
                BankRefuses, Refusal, RefundCommit, BookRefund, RefundConflict, WorkerLost, Dies,
                Redelivered, TaskFails, Fails
  <2>3. QED
    BY <2>1, <2>2
<1>6. CASE UNCHANGED vars
  BY <1>6 DEF vars
<1>7. QED
  BY <1>1, <1>2, <1>3, <1>4, <1>5, <1>6 DEF Next, ClientStep

\* The invariant behind the theorems on the exchange holds in every state.
THEOREM ExchangeInvariant == Spec => []ExchangeInv
  BY InitExchange, NextExchange, TypeCorrect, PTL DEF Spec

\* Nobody is sent to work on an order that was never paid for.
THEOREM PaidFirst == Spec => []PaidBeforeWork
<1>1. ExchangeInv => PaidBeforeWork
  BY DEF ExchangeInv
<1>2. QED
  BY <1>1, ExchangeInvariant, PTL

\* Only four kinds of step write orders.status or a performer.
LEMMA StatusSteps ==
  ASSUME [Next]_vars
  PROVE  \/ UNCHANGED <<status, performer, payment>>
         \/ UNCHANGED <<status, performer>> /\ \E w \in Workers : WorkerStep(w)
         \/ \E o \in Orders : CreateOrder(o)
         \/ \E r \in Requests : WebhookCommit(r) \/ CancelCommit(r) \/ AcceptCommit(r)
<1> USE DEF rowVars, bookVars, bankVars, taskVars
<1>1. ASSUME NEW w \in Workers, WorkerStep(w) PROVE UNCHANGED <<status, performer>>
  BY <1>1 DEF WorkerStep, RefundTake, Deliver, RefundFind, Found, RefundNotFound, BankReleases,
              BankRefuses, Refusal, RefundCommit, BookRefund, RefundConflict, WorkerLost, Dies,
              Redelivered, TaskFails, Fails
<1>2. ASSUME NEW r \in Requests, RequestStep(r),
             ~WebhookCommit(r), ~CancelCommit(r), ~AcceptCommit(r)
      PROVE  UNCHANGED <<status, performer, payment>>
  BY <1>2 DEF RequestStep, WebhookRead, Webhook, WebhookConflict, CancelRead, CancelEnqueue,
              AcceptLock, LockOrder, RequestLost, Abandon
<1>3. ASSUME NEW p \in Payments, HoldPlaced(p) \/ WebhookRepeated(p)
      PROVE  UNCHANGED <<status, performer, payment>>
  BY <1>3 DEF HoldPlaced, WebhookRepeated
<1>4. CASE UNCHANGED vars
  BY <1>4 DEF vars
<1>5. QED
  BY <1>1, <1>2, <1>3, <1>4 DEF Next, ClientStep

\* A request works on an order that was created, and no step deletes one
Started == \A r \in Requests : req[r].op # "idle" => status[req[r].order] # "absent"

\* No step but CreateOrder
OldOrders == \A o \in Orders : status'[o] = "absent" <=> status[o] = "absent"

BillingStep ==
    \/ \E p \in Payments : HoldPlaced(p) \/ WebhookRepeated(p)
    \/ \E r \in Requests : RequestStep(r)
    \/ \E w \in Workers : WorkerStep(w)

LEMMA StepKeepsStarted ==
  ASSUME TypeOK, Started, BillingStep
  PROVE  Started' /\ OldOrders
<1> USE BillingAssumption
     DEF TypeOK, Started, OldOrders, IdleRequest, rowVars, bookVars, bankVars, taskVars
<1>1. ASSUME NEW p \in Payments, HoldPlaced(p) \/ WebhookRepeated(p) PROVE Started' /\ OldOrders
  BY <1>1 DEF HoldPlaced, WebhookRepeated
<1>2. ASSUME NEW r \in Requests, RequestStep(r) PROVE Started' /\ OldOrders
  <2>1. ASSUME NEW p \in Payments, WebhookRead(r, p) PROVE Started' /\ OldOrders
    BY <2>1 DEF WebhookRead, Webhook, Start
  <2>2. CASE WebhookCommit(r)
    BY <2>2 DEF WebhookCommit, BookHold, SetStatus, Finish
  <2>3. CASE WebhookConflict(r)
    BY <2>3 DEF WebhookConflict, Finish
  <2>4. ASSUME NEW o \in Orders, CancelRead(r, o) PROVE Started' /\ OldOrders
    BY <2>4 DEF CancelRead, Start
  <2>5. CASE CancelCommit(r)
    BY <2>5 DEF CancelCommit, Cancel, SetStatus, Request
  <2>6. CASE CancelEnqueue(r)
    BY <2>6 DEF CancelEnqueue, Finish
  <2>7. ASSUME NEW d \in Drivers, NEW o \in Orders, AcceptLock(r, d, o) PROVE Started' /\ OldOrders
    BY <2>7 DEF AcceptLock, LockOrder, Start
  <2>8. CASE AcceptCommit(r)
    BY <2>8 DEF AcceptCommit, SetStatus, Finish
  <2>9. CASE RequestLost(r)
    BY <2>9 DEF RequestLost, Abandon, Finish
  <2>10. QED
    BY <1>2, <2>1, <2>2, <2>3, <2>4, <2>5, <2>6, <2>7, <2>8, <2>9 DEF RequestStep
<1>3. ASSUME NEW w \in Workers, WorkerStep(w) PROVE Started' /\ OldOrders
  <2>1. UNCHANGED <<status, req>>
    BY <1>3 DEF WorkerStep, RefundTake, Deliver, RefundFind, Found, RefundNotFound, BankReleases,
                BankRefuses, Refusal, RefundCommit, BookRefund, RefundConflict, WorkerLost, Dies,
                Redelivered, TaskFails, Fails
  <2>2. QED
    BY <2>1
<1>4. QED
  BY <1>1, <1>2, <1>3 DEF BillingStep

LEMMA RequestStepIsLocal ==
  ASSUME TypeOK, NEW r \in Requests, RequestStep(r), NEW q \in Requests, q # r
  PROVE  req'[q] = req[q]
  BY DEF RequestStep, WebhookRead, Webhook, WebhookCommit, BookHold, WebhookConflict, CancelRead,
         CancelCommit, Cancel, CancelEnqueue, AcceptLock, LockOrder, AcceptCommit, RequestLost,
         Abandon, Start, Finish, TypeOK

LEMMA StepTakesOffExchange ==
  ASSUME TypeOK, ExchangeInv, [Next]_vars, NEW o \in Orders,
         status'[o] = "assigned", status[o] # "assigned" \/ performer'[o] # performer[o]
  PROVE  status[o] = "searching"
<1>1. ASSUME NEW r \in Requests, AcceptCommit(r) PROVE status[o] = "searching"
  BY <1>1 DEF AcceptCommit, SetStatus, TypeOK, ExchangeInv
<1>2. ASSUME NEW r \in Requests, WebhookCommit(r) \/ CancelCommit(r) PROVE FALSE
  BY <1>2 DEF WebhookCommit, BookHold, CancelCommit, Cancel, SetStatus, TypeOK
<1>3. ASSUME NEW x \in Orders, CreateOrder(x) PROVE FALSE
  BY <1>3 DEF CreateOrder, SetStatus, TypeOK
<1>4. QED
  BY <1>1, <1>2, <1>3, StatusSteps

\* Drivers who race for an order, with each other and with a cancellation, cannot
\* overwrite one another, or replace the driver who has it: FOR UPDATE keeps the
\* status they checked.
THEOREM TakenOnce == Spec => TakenOffExchangeOnly
<1>1. TypeOK /\ ExchangeInv /\ [Next]_vars
        => [\A o \in Orders :
              status'[o] = "assigned" /\ (status[o] # "assigned" \/ performer'[o] # performer[o])
                 => status[o] = "searching"]_vars
  BY StepTakesOffExchange
<1>2. QED
  BY <1>1, TypeCorrect, ExchangeInvariant, PTL DEF Spec, TakenOffExchangeOnly

LEMMA StepReopens ==
  ASSUME TypeOK, ExchangeInv, [Next]_vars, NEW o \in Orders,
         \/ status[o] = "cancelled" /\ status'[o] # "cancelled"
         \/ status[o] = "assigned" /\ status'[o] \notin {"assigned", "cancelled"}
  PROVE  \E p \in PaymentsOf(o) : payment[p] = "absent" /\ payment'[p] = "hold"
<1>1. ASSUME NEW r \in Requests, WebhookCommit(r)
      PROVE  \E p \in PaymentsOf(o) : payment[p] = "absent" /\ payment'[p] = "hold"
  <2>1. req[r].order = o
    BY <1>1 DEF WebhookCommit, BookHold, SetStatus, TypeOK
  <2>2. req[r].payment \in PaymentsOf(o)
    BY <1>1, <2>1 DEF WebhookCommit, TypeOK
  <2>3. payment[req[r].payment] = "absent" /\ payment'[req[r].payment] = "hold"
    BY <1>1, <2>2 DEF WebhookCommit, BookHold, TypeOK, PaymentsOf
  <2>4. QED
    BY <2>2, <2>3
<1>2. ASSUME NEW r \in Requests, CancelCommit(r) PROVE FALSE
  BY <1>2 DEF CancelCommit, Cancel, SetStatus, TypeOK
<1>3. ASSUME NEW r \in Requests, AcceptCommit(r) PROVE FALSE
  BY <1>3 DEF AcceptCommit, SetStatus, TypeOK, ExchangeInv
<1>4. ASSUME NEW x \in Orders, CreateOrder(x) PROVE FALSE
  BY <1>4 DEF CreateOrder, SetStatus, TypeOK
<1>5. QED
  BY <1>1, <1>2, <1>3, <1>4, StatusSteps

\* A bank that repeats itself cannot bring a cancelled order back to life, nor take one
\* from its driver.
THEOREM NewPaymentReopens == Spec => ReopenedOnlyByNewPayment
<1>1. TypeOK /\ ExchangeInv /\ [Next]_vars
        => [\A o \in Orders :
              \/ status[o] = "cancelled" /\ status'[o] # "cancelled"
              \/ status[o] = "assigned" /\ status'[o] \notin {"assigned", "cancelled"}
              => \E p \in PaymentsOf(o) : payment[p] = "absent" /\ payment'[p] = "hold"]_vars
  BY StepReopens
<1>2. QED
  BY <1>1, TypeCorrect, ExchangeInvariant, PTL DEF Spec, ReopenedOnlyByNewPayment

-----------------------------------------------------------------------------
(* An order paid once *)

PaidOnce == \A p, q \in Payments : OrderOf[p] = OrderOf[q] => p = q

LEMMA StepKeepsDriver ==
  ASSUME PaidOnce, TypeOK, ExchangeInv, [Next]_vars, NEW o \in Orders, status[o] = "assigned"
  PROVE  status'[o] \in {"assigned", "cancelled"}
<1>1. ASSUME NEW r \in Requests, WebhookCommit(r)
      PROVE  status'[o] = "assigned"
  <2>1. req[r].payment \in PaymentsOf(req[r].order) /\ payment[req[r].payment] = "absent"
    BY <1>1 DEF WebhookCommit, TypeOK
  <2>2. req[r].order # o
    BY <2>1 DEF ExchangeInv, PaidBeforeWork, PaidOnce, PaymentsOf
  <2>3. QED
    BY <1>1, <2>2 DEF WebhookCommit, BookHold, SetStatus, TypeOK
<1>2. ASSUME NEW r \in Requests, CancelCommit(r) \/ AcceptCommit(r)
      PROVE  status'[o] \in {"assigned", "cancelled"}
  BY <1>2 DEF CancelCommit, Cancel, AcceptCommit, SetStatus, TypeOK
<1>3. ASSUME NEW x \in Orders, CreateOrder(x) PROVE status'[o] = "assigned"
  BY <1>3 DEF CreateOrder, SetStatus, TypeOK
<1>4. QED
  BY <1>1, <1>2, <1>3, StatusSteps

\* An order that is paid once stays with its driver, whatever webhooks are repeated.
THEOREM DriverKeepsOrder == ASSUME PaidOnce PROVE Spec => AssignedUntilCancelled
<1>1. TypeOK /\ ExchangeInv /\ [Next]_vars
        => [\A o \in Orders : status[o] = "assigned" =>
               status'[o] \in {"assigned", "cancelled"}]_vars
  BY StepKeepsDriver
<1>2. QED
  BY <1>1, TypeCorrect, ExchangeInvariant, PTL DEF Spec, AssignedUntilCancelled

-----------------------------------------------------------------------------
(* Refunds on their way *)

\* The same of one payment: its refund is being sent, queued or run, or is forgotten
Waits(p) == status[OrderOf[p]] = "cancelled" /\ payment[p] = "hold" /\ bank[p] = "held"

Sent(o) == \E r \in Requests : req[r].op = "enqueue" /\ req[r].order = o

Served(o, p) ==
    \E w \in Workers :
        /\ work[w].order = o
        /\ work[w].owned
        /\ work[w].step \in {"find", "call"}
        /\ p \in Charge(w)

Cared(p) ==
    \/ p \in forgotten
    \/ queue[OrderOf[p]] > 0
    \/ Sent(OrderOf[p])
    \/ Served(OrderOf[p], p)

LEMMA UnderWayIsCared == RefundUnderWay <=> \A p \in Payments : Waits(p) => Cared(p)
  BY DEF RefundUnderWay, Waits, Cared, Sent, Served

LEMMA RequestKeepsCare ==
  ASSUME TypeOK, NEW r \in Requests, RequestStep(r), NEW p \in Payments, Waits(p)',
         Waits(p) => Cared(p)
  PROVE  Cared(p)'
<1> DEFINE o == OrderOf[p]
<1> USE BillingAssumption
     DEF TypeOK, PaymentsOf, rowVars, bookVars, bankVars, taskVars
<1>1. o \in Orders
  OBVIOUS
<1>2. \A q \in Requests \ {r} : req'[q] = req[q]
  BY RequestStepIsLocal
<1>3. CASE CancelCommit(r) /\ req[r].order = o
  BY <1>3 DEF CancelCommit, Cancel, Request, Cared, Sent
<1>4. CASE CancelEnqueue(r) /\ req[r].order = o
  <2>1. queue'[o] = queue[o] + 1 /\ queue[o] \in Nat
    BY <1>1, <1>4 DEF CancelEnqueue
  <2>2. QED
    BY <2>1 DEF Cared
<1>5. CASE RequestLost(r) /\ req[r].op = "enqueue" /\ req[r].order = o
  BY <1>5 DEF RequestLost, Abandon, HoldsOf, Waits, Cared
<1>6. CASE /\ ~(CancelCommit(r) /\ req[r].order = o)
           /\ ~(CancelEnqueue(r) /\ req[r].order = o)
           /\ ~(RequestLost(r) /\ req[r].op = "enqueue" /\ req[r].order = o)
  <2>1. ~(WebhookCommit(r) /\ req[r].order = o)
    BY <1>1 DEF WebhookCommit, BookHold, SetStatus, Waits
  <2>2. ~(AcceptCommit(r) /\ req[r].order = o)
    BY <1>1 DEF AcceptCommit, SetStatus, Waits
  <2>3. Waits(p)
    <3>1. status'[o] = status[o]
      BY <1>1, <1>6, <2>1, <2>2 DEF RequestStep, WebhookRead, Webhook, WebhookCommit, BookHold,
         WebhookConflict, CancelRead, CancelCommit, Cancel, CancelEnqueue, AcceptLock, LockOrder,
         AcceptCommit, RequestLost, Abandon, SetStatus
    <3>2. payment'[p] = payment[p] /\ bank'[p] = bank[p]
      <4>1. CASE WebhookCommit(r)
        <5>1. req[r].payment # p
          BY <2>1, <4>1 DEF WebhookCommit
        <5>2. QED
          BY <4>1, <5>1 DEF WebhookCommit, BookHold
      <4>2. CASE ~WebhookCommit(r)
        BY <4>2 DEF RequestStep, WebhookRead, Webhook,
           WebhookConflict, CancelRead, CancelCommit, Cancel, CancelEnqueue, AcceptLock, LockOrder,
           AcceptCommit, RequestLost, Abandon
      <4>3. QED
        BY <4>1, <4>2
    <3>3. QED
      BY <3>1, <3>2 DEF Waits
  <2>4. Cared(p)
    BY <2>3
  <2>5. p \in forgotten => p \in forgotten'
    BY <1>6 DEF RequestStep, WebhookRead, Webhook, WebhookCommit, BookHold, WebhookConflict,
       CancelRead, CancelCommit, Cancel, CancelEnqueue, AcceptLock, LockOrder, AcceptCommit,
       RequestLost, Abandon
  <2>6. queue[o] > 0 => queue'[o] > 0
    <3>1. CASE CancelEnqueue(r)
      BY <1>6, <3>1 DEF CancelEnqueue
    <3>2. CASE ~CancelEnqueue(r)
      BY <3>2 DEF RequestStep, WebhookRead, Webhook, WebhookCommit, BookHold, WebhookConflict,
         CancelRead, CancelCommit, Cancel, AcceptLock, LockOrder, AcceptCommit, RequestLost, Abandon
    <3>3. QED
      BY <3>1, <3>2
  <2>7. Sent(o) => Sent(o)'
    <3>1. req[r].op = "enqueue" /\ req[r].order = o => FALSE
      BY <1>6 DEF RequestStep, WebhookRead, Webhook, WebhookCommit, BookHold, WebhookConflict,
         CancelRead, CancelCommit, Cancel, CancelEnqueue, AcceptLock, LockOrder, AcceptCommit,
         RequestLost, Start
    <3>2. QED
      BY <1>2, <3>1 DEF Sent
  <2>8. Served(o, p) => Served(o, p)'
    <3>1. UNCHANGED work
      BY DEF RequestStep, WebhookRead, Webhook, WebhookCommit, BookHold, WebhookConflict,
         CancelRead, CancelCommit, Cancel, CancelEnqueue, AcceptLock, LockOrder, AcceptCommit,
         RequestLost, Abandon
    <3>2. p \in HoldsOf(o)'
      BY DEF HoldsOf, Waits
    <3>3. QED
      BY <3>1, <3>2 DEF Served, Charge
  <2>9. QED
    BY <2>4, <2>5, <2>6, <2>7, <2>8 DEF Cared
<1>7. QED
  BY <1>3, <1>4, <1>5, <1>6

LEMMA WorkerKeepsCare ==
  ASSUME TypeOK, NEW w \in Workers, WorkerStep(w), NEW p \in Payments, Waits(p)',
         Waits(p) => Cared(p)
  PROVE  Cared(p)'
<1> DEFINE o == OrderOf[p]
<1> USE BillingAssumption
     DEF TypeOK, PaymentsOf, rowVars, bookVars, bankVars, taskVars
<1>1. o \in Orders
  OBVIOUS
<1>2. /\ UNCHANGED <<status, req>>
      /\ \A v \in Workers \ {w} : work'[v] = work[v]
      /\ forgotten \subseteq forgotten'
  BY DEF WorkerStep, RefundTake, Deliver, RefundFind, Found, RefundNotFound, BankReleases,
         BankRefuses, Refusal, RefundCommit, BookRefund, RefundConflict, WorkerLost, Dies,
         Redelivered, TaskFails, Fails, Acknowledge
<1>3. payment[p] = "hold" /\ bank[p] = "held"
  BY DEF Waits, WorkerStep, RefundTake, Deliver, RefundFind, Found, RefundNotFound, BankReleases,
         BankRefuses, Refusal, RefundCommit, BookRefund, RefundConflict, WorkerLost, Dies,
         Redelivered, TaskFails, Fails, Acknowledge
<1>4. Waits(p) /\ Cared(p)
  BY <1>2, <1>3 DEF Waits
<1>5. p \in HoldsOf(o) /\ p \in HoldsOf(o)'
  BY <1>3 DEF HoldsOf, Waits
<1>6. ASSUME NEW v \in Workers \ {w}, work[v].order = o, work[v].owned,
             work[v].step \in {"find", "call"}, p \in Charge(v)
      PROVE  Served(o, p)'
  BY <1>2, <1>5, <1>6 DEF Served, Charge
<1>7. Sent(o) => Sent(o)'
  BY <1>2 DEF Sent
<1>8. SUFFICES ASSUME p \notin forgotten', ~Sent(o)
               PROVE  queue'[o] > 0 \/ Served(o, p)'
  BY <1>7 DEF Cared
<1>9. CASE queue[o] > 0 /\ \A x \in Orders : ~RefundTake(w, x)
  <2>1. queue'[o] = queue[o] \/ queue'[o] = queue[o] + 1
    BY <1>1, <1>9 DEF WorkerStep, RefundFind, Found, RefundNotFound, BankReleases,
         BankRefuses, Refusal, RefundCommit, BookRefund, RefundConflict, WorkerLost, Dies,
         Redelivered, TaskFails, Fails
  <2>2. QED
    BY <1>1, <1>9, <2>1
<1>10. ASSUME NEW x \in Orders, RefundTake(w, x) PROVE queue'[o] > 0 \/ Served(o, p)'
  <2>1. CASE x = o
    <3>1. work'[w] = [step |-> "find", order |-> o, payment |-> None, owned |-> TRUE]
      BY <1>10, <2>1 DEF RefundTake, Deliver
    <3>2. QED
      BY <1>5, <3>1 DEF Served, Charge
  <2>2. CASE x # o
    <3>1. queue'[o] = queue[o] /\ work[w].step = "idle"
      BY <1>10, <2>2 DEF RefundTake, Deliver
    <3>2. queue[o] > 0 \/ Served(o, p)
      BY <1>2, <1>4, <1>8 DEF Cared
    <3>3. QED
      BY <1>6, <3>1, <3>2 DEF Served
  <2>3. QED
    BY <2>1, <2>2
<1>11. ASSUME work[w].order = o, work[w].owned, work[w].step \in {"find", "call"}, p \in Charge(w)
       PROVE  queue'[o] > 0 \/ Served(o, p)'
  <2>1. ~RefundNotFound(w) /\ ~BankRefuses(w) /\ ~TaskFails(w)
    BY <1>8, <1>11 DEF RefundNotFound, BankRefuses, TaskFails, Fails
  <2>2. ~BankReleases(w)
    BY <1>11 DEF BankReleases, Charge, Waits
  <2>3. CASE RefundFind(w)
    <3>1. PICK q \in Payments :
             /\ HoldsOf(o) = {q}
             /\ work' = [work EXCEPT ![w] = [work[w] EXCEPT !.step = "call", !.payment = q]]
      BY <1>11, <2>3 DEF RefundFind, Found
    <3>2. q = p
      BY <1>5, <3>1
    <3>3. /\ work'[w].step = "call" /\ work'[w].payment = p
          /\ work'[w].order = o /\ work'[w].owned
      BY <1>11, <3>1, <3>2 DEF Task
    <3>4. QED
      BY <3>3 DEF Served, Charge
  <2>4. CASE WorkerLost(w) \/ Redelivered(w)
    BY <1>1, <1>11, <2>4 DEF WorkerLost, Dies, Redelivered
  <2>5. QED
    BY <1>11, <2>1, <2>2, <2>3, <2>4
       DEF WorkerStep, RefundTake, Deliver, RefundCommit, BookRefund, RefundConflict
<1>12. QED
  BY <1>2, <1>4, <1>6, <1>8, <1>9, <1>10, <1>11 DEF Cared, Served

LEMMA StepKeepsRefund ==
  ASSUME TypeOK, LedgerInv, RefundUnderWay, [Next]_vars
  PROVE  RefundUnderWay'
<1> SUFFICES ASSUME NEW p \in Payments, Waits(p)' PROVE Cared(p)'
  BY DEF RefundUnderWay, Waits, Cared, Sent, Served
<1>1. Waits(p) => Cared(p)
  BY UnderWayIsCared
<1> USE BillingAssumption DEF TypeOK, rowVars, bookVars, bankVars, taskVars
<1>2. ASSUME UNCHANGED <<payment, queue, forgotten, req, work>>, Waits(p) PROVE Cared(p)'
  BY <1>1, <1>2 DEF Cared, Sent, Served, Charge, HoldsOf
<1>3. ASSUME NEW o \in Orders, CreateOrder(o) PROVE Cared(p)'
  BY <1>2, <1>3 DEF CreateOrder, SetStatus, Waits
<1>4. ASSUME NEW q \in Payments, HoldPlaced(q) PROVE Cared(p)'
  BY <1>2, <1>4 DEF HoldPlaced, Waits, LedgerInv
<1>5. ASSUME NEW q \in Payments, WebhookRepeated(q) PROVE Cared(p)'
  BY <1>2, <1>5 DEF WebhookRepeated, Waits
<1>6. ASSUME NEW r \in Requests, RequestStep(r) PROVE Cared(p)'
  BY <1>1, <1>6, RequestKeepsCare
<1>7. ASSUME NEW w \in Workers, WorkerStep(w) PROVE Cared(p)'
  BY <1>1, <1>7, WorkerKeepsCare
<1>8. CASE UNCHANGED vars
  BY <1>2, <1>8 DEF vars, Waits
<1>9. QED
  BY <1>3, <1>4, <1>5, <1>6, <1>7, <1>8 DEF Next, ClientStep

\* The money of a cancelled order never waits without a refund on its way, however
\* often workers are lost and messages delivered again, but for a refund that ended in
\* one of the failures `forgotten` records.
THEOREM RefundNotForgotten == Spec => []RefundUnderWay
<1>1. Init => RefundUnderWay
  BY DEF Init, RefundUnderWay
<1>2. TypeOK /\ LedgerInv /\ RefundUnderWay /\ [Next]_vars => RefundUnderWay'
  BY StepKeepsRefund
<1>3. QED
  BY <1>1, <1>2, TypeCorrect, LedgerInvariant, PTL DEF Spec

-----------------------------------------------------------------------------
(* No refund without a cancellation *)

Standing(o) == status[o] # "cancelled"

\* Inductive while an order stands: nobody is on the way to refund it
Untouched(o) ==
    /\ \A r \in Requests : req[r].op = "enqueue" => req[r].order # o
    /\ queue[o] = 0
    /\ \A w \in Workers : work[w].step # "idle" => work[w].order # o
    /\ \A p \in PaymentsOf(o) : bank[p] # "released"

LEMMA StandsUntouched ==
  ASSUME NEW o \in Orders, TypeOK, Untouched(o), Standing(o)', [Next]_vars
  PROVE  Untouched(o)'
<1> USE BillingAssumption
     DEF TypeOK, Untouched, Standing, PaymentsOf, rowVars, bookVars, bankVars, taskVars, IdleRequest, IdleTask
<1>1. ASSUME NEW x \in Orders, CreateOrder(x) PROVE Untouched(o)'
  BY <1>1 DEF CreateOrder
<1>2. ASSUME NEW p \in Payments, HoldPlaced(p) \/ WebhookRepeated(p) PROVE Untouched(o)'
  BY <1>2 DEF HoldPlaced, WebhookRepeated
<1>3. ASSUME NEW r \in Requests, RequestStep(r) PROVE Untouched(o)'
  <2>1. \A q \in Requests \ {r} : req'[q] = req[q]
    BY <1>3, RequestStepIsLocal
  <2>2. CASE CancelCommit(r)
    <3>1. req[r].order \in Orders /\ status'[req[r].order] = "cancelled"
      BY <2>2 DEF CancelCommit, Cancel, SetStatus
    <3>2. req[r].order # o
      BY <3>1
    <3>3. req'[r].order = req[r].order /\ UNCHANGED <<queue, work, bank>>
      BY <2>2 DEF CancelCommit, Cancel, Request
    <3>4. QED
      BY <2>1, <3>2, <3>3
  <2>3. CASE CancelEnqueue(r)
    BY <2>3 DEF CancelEnqueue, Finish
  <2>4. CASE ~CancelCommit(r) /\ ~CancelEnqueue(r)
    <3>1. UNCHANGED <<queue, work, bank>> /\ req'[r].op # "enqueue"
      BY <1>3, <2>4 DEF RequestStep, WebhookRead, Webhook, WebhookCommit, BookHold, WebhookConflict,
           CancelRead, AcceptLock, LockOrder, AcceptCommit, RequestLost, Abandon, Start, Finish
    <3>2. QED
      BY <2>1, <3>1
  <2>5. QED
    BY <2>2, <2>3, <2>4
<1>4. ASSUME NEW w \in Workers, WorkerStep(w) PROVE Untouched(o)'
  <2>1. UNCHANGED req /\ \A v \in Workers \ {w} : work'[v] = work[v]
    BY <1>4 DEF WorkerStep, RefundTake, Deliver, RefundFind, Found, RefundNotFound, BankReleases,
                BankRefuses, Refusal, RefundCommit, BookRefund, RefundConflict, WorkerLost, Dies,
                Redelivered, TaskFails, Fails, Acknowledge
  <2>2. ASSUME NEW x \in Orders, RefundTake(w, x) PROVE Untouched(o)'
    <3>1. x # o
      BY <2>2 DEF RefundTake
    <3>2. queue'[o] = 0 /\ work'[w].order = x /\ UNCHANGED bank
      BY <2>2, <3>1 DEF RefundTake, Deliver
    <3>3. QED
      BY <2>1, <3>1, <3>2
  <2>3. CASE work[w].step # "idle" /\ work[w].order # o
    <3>1. work'[w].step # "idle" => work'[w].order = work[w].order
      BY <1>4, <2>3 DEF WorkerStep, RefundTake, Deliver, RefundFind, Found, RefundNotFound,
           BankReleases, BankRefuses, Refusal, RefundCommit, BookRefund, RefundConflict, WorkerLost,
           Dies, Redelivered, TaskFails, Fails, Acknowledge, Task
    <3>2. queue'[o] = 0
      BY <1>4, <2>3 DEF WorkerStep, RefundTake, Deliver, RefundFind, Found, RefundNotFound,
           BankReleases, BankRefuses, Refusal, RefundCommit, BookRefund, RefundConflict, WorkerLost,
           Dies, Redelivered, TaskFails, Fails, Acknowledge
    <3>3. \A p \in PaymentsOf(o) : bank'[p] = bank[p]
      BY <1>4, <2>3 DEF WorkerStep, RefundTake, Deliver, RefundFind, Found, RefundNotFound,
           BankReleases, BankRefuses, Refusal, RefundCommit, BookRefund, RefundConflict, WorkerLost,
           Dies, Redelivered, TaskFails, Fails, Acknowledge
    <3>4. QED
      BY <2>1, <2>3, <3>1, <3>2, <3>3
  <2>4. work[w].step = "idle" => \E x \in Orders : RefundTake(w, x)
    BY <1>4 DEF WorkerStep, RefundFind, Found, RefundNotFound, BankReleases,
                BankRefuses, Refusal, RefundCommit, BookRefund, RefundConflict, WorkerLost, Dies,
                Redelivered, TaskFails, Fails
  <2>5. QED
    BY <2>2, <2>3, <2>4
<1>5. CASE UNCHANGED vars
  BY <1>5 DEF vars
<1>6. QED
  BY <1>1, <1>2, <1>3, <1>4, <1>5 DEF Next, ClientStep

\* While an order is not cancelled none of its money is given back, though any refund
\* task looks for the hold by the order's id alone: whatever requests, workers and
\* messages are lost or repeated (execute_bank_api_refund).
THEOREM RefundNeedsCancellation ==
  ASSUME NEW o \in Orders
  PROVE  Spec /\ []Standing(o) => [](\A p \in PaymentsOf(o) : bank[p] # "released")
<1>1. Init => Untouched(o)
  BY BillingAssumption DEF Init, Untouched, PaymentsOf, IdleRequest, IdleTask
<1>2. TypeOK /\ Untouched(o) /\ Standing(o)' /\ [Next]_vars => Untouched(o)'
  BY StandsUntouched
<1>3. Untouched(o) => \A p \in PaymentsOf(o) : bank[p] # "released"
  BY DEF Untouched
<1>4. QED
  BY <1>1, <1>2, <1>3, TypeCorrect, PTL DEF Spec

-----------------------------------------------------------------------------
(* What is on the exchange is funded, but for revived orders *)

\* No handler writes over a cancellation
CancelledForGood ==
    [][\A o \in Orders : status[o] = "cancelled" => status'[o] = "cancelled"]_vars

\* A driver works for money that is held
AssignedHasHold ==
    \A o \in Orders : status[o] = "assigned" => \E p \in PaymentsOf(o) : bank[p] = "held"

\* Inductive as long as cancellations last
StandingUntouched == \A o \in Orders : Standing(o) => Untouched(o)

LEMMA StandingStaysUntouched ==
  ASSUME TypeOK, StandingUntouched, [Next]_vars,
         \A o \in Orders : status[o] = "cancelled" => status'[o] = "cancelled"
  PROVE  StandingUntouched'
<1> SUFFICES ASSUME NEW o \in Orders, Standing(o)' PROVE Untouched(o)'
  BY DEF StandingUntouched
<1>1. Standing(o)
  BY DEF Standing
<1>2. Untouched(o)
  BY <1>1 DEF StandingUntouched
<1>3. QED
  BY <1>2, StandsUntouched

LEMMA UntouchedIsFunded ==
  ASSUME TypeOK, LedgerInv, ExchangeInv, StandingUntouched,
         NEW o \in Orders, status[o] \in {"searching", "assigned"}
  PROVE  \E p \in PaymentsOf(o) : bank[p] = "held"
<1>1. PICK p \in PaymentsOf(o) : payment[p] # "absent"
  BY DEF ExchangeInv, PaidBeforeWork
<1>2. p \in Payments /\ bank[p] # "none"
  BY <1>1 DEF PaymentsOf, LedgerInv
<1>3. bank[p] # "released"
  BY DEF StandingUntouched, Standing, Untouched
<1>4. bank[p] = "held"
  BY <1>2, <1>3 DEF TypeOK
<1>5. QED
  BY <1>4

\* The order that is offered to drivers without money is a cancelled one that a webhook
\* has put back on the exchange, and there is no other way: in a behaviour in which
\* cancellations last, what the model of orders says of the exchange is true, and no
\* driver works for nothing, whatever is lost or repeated (process_bank_webhook).
THEOREM OnlyRevivalUnfunds == Spec /\ CancelledForGood => [](SearchingHasHold /\ AssignedHasHold)
<1> DEFINE Lasts == \A o \in Orders : status[o] = "cancelled" => status'[o] = "cancelled"
<1>1. Init => StandingUntouched
  BY BillingAssumption
     DEF Init, StandingUntouched, Standing, Untouched, PaymentsOf, IdleRequest, IdleTask
<1>2. TypeOK /\ StandingUntouched /\ [Next]_vars /\ [Lasts]_vars => StandingUntouched'
  <2>1. [Lasts]_vars => Lasts
    BY DEF vars, rowVars
  <2>2. QED
    BY <2>1, StandingStaysUntouched
<1>3. TypeOK /\ LedgerInv /\ ExchangeInv /\ StandingUntouched => SearchingHasHold /\ AssignedHasHold
  BY UntouchedIsFunded DEF SearchingHasHold, AssignedHasHold
<1>4. QED
  BY <1>1, <1>2, <1>3, TypeCorrect, LedgerInvariant, ExchangeInvariant, PTL DEF Spec, CancelledForGood

-----------------------------------------------------------------------------
(* Money that a bank was told is received *)

Paid(o) == \E p \in PaymentsOf(o) : payment[p] # "absent"

\* The order of a payment whose webhook was answered "OK" is in the books as paid, by
\* this payment or another one: the early answer to a webhook of an order that is
\* already on the exchange loses a second payment at most (process_bank_webhook).
AckedIsPaid == \A p \in acked : Paid(OrderOf[p])

LEMMA StepKeepsAcked ==
  ASSUME TypeOK, ExchangeInv, AckedIsPaid, [Next]_vars
  PROVE  AckedIsPaid'
<1> USE BillingAssumption DEF rowVars, bookVars, bankVars, taskVars
<1>1. ASSUME UNCHANGED acked, \A p \in Payments : payment[p] # "absent" => payment'[p] # "absent"
      PROVE  AckedIsPaid'
  BY <1>1 DEF AckedIsPaid, Paid, PaymentsOf
<1>2. ASSUME NEW p \in Payments, HoldPlaced(p) PROVE AckedIsPaid'
  BY <1>1, <1>2 DEF HoldPlaced
<1>3. ASSUME NEW p \in Payments, WebhookRepeated(p) PROVE AckedIsPaid'
  <2>1. OrderOf[p] \in Orders /\ Paid(OrderOf[p])
    BY <1>3 DEF WebhookRepeated, ExchangeInv, PaidBeforeWork, Paid
  <2>2. acked' = acked \cup {p} /\ UNCHANGED payment
    BY <1>3 DEF WebhookRepeated
  <2>3. QED
    BY <2>1, <2>2 DEF AckedIsPaid, Paid
<1>4. ASSUME NEW r \in Requests, WebhookCommit(r) PROVE AckedIsPaid'
  <2> DEFINE p == req[r].payment
  <2>1. /\ acked' = acked \cup {p}
        /\ p \in Payments
        /\ payment' = [payment EXCEPT ![p] = "hold"]
    BY <1>4 DEF WebhookCommit, BookHold, TypeOK, PaymentsOf
  <2>2. payment'[p] = "hold" /\ \A q \in Payments : payment[q] # "absent" => payment'[q] # "absent"
    BY <2>1 DEF TypeOK
  <2> HIDE DEF p
  <2>3. QED
    BY <2>1, <2>2 DEF AckedIsPaid, Paid, PaymentsOf
<1>5. ASSUME NEW r \in Requests, RequestStep(r), ~WebhookCommit(r) PROVE UNCHANGED <<acked, payment>>
  BY <1>5 DEF RequestStep, WebhookRead, Webhook, WebhookConflict, CancelRead, CancelCommit, Cancel,
              CancelEnqueue, AcceptLock, LockOrder, AcceptCommit, RequestLost, Abandon
<1>6. ASSUME NEW w \in Workers, WorkerStep(w) PROVE AckedIsPaid'
  <2>1. UNCHANGED acked
    BY <1>6 DEF WorkerStep, RefundTake, Deliver, RefundFind, Found, RefundNotFound, BankReleases,
                BankRefuses, Refusal, RefundCommit, BookRefund, RefundConflict, WorkerLost, Dies,
                Redelivered, TaskFails, Fails
  <2>2. \A p \in Payments : payment[p] # "absent" => payment'[p] # "absent"
    BY <1>6 DEF WorkerStep, RefundTake, Deliver, RefundFind, Found, RefundNotFound, BankReleases,
                BankRefuses, Refusal, RefundCommit, BookRefund, RefundConflict, WorkerLost, Dies,
                Redelivered, TaskFails, Fails, TypeOK
  <2>3. QED
    BY <1>1, <2>1, <2>2
<1>7. ASSUME NEW o \in Orders, CreateOrder(o) PROVE UNCHANGED <<acked, payment>>
  BY <1>7 DEF CreateOrder
<1>8. ASSUME UNCHANGED <<acked, payment>> PROVE AckedIsPaid'
  BY <1>1, <1>8
<1>9. CASE UNCHANGED vars
  BY <1>8, <1>9 DEF vars
<1>10. QED
  BY <1>2, <1>3, <1>4, <1>5, <1>6, <1>7, <1>8, <1>9 DEF Next, ClientStep

\* A bank that was answered "OK" does not repeat its webhook; the order it was about is
\* paid in the books by then.
THEOREM AckedMeansPaid == Spec => []AckedIsPaid
<1>1. Init => AckedIsPaid
  BY DEF Init, AckedIsPaid
<1>2. TypeOK /\ ExchangeInv /\ AckedIsPaid /\ [Next]_vars => AckedIsPaid'
  BY StepKeepsAcked
<1>3. QED
  BY <1>1, <1>2, TypeCorrect, ExchangeInvariant, PTL DEF Spec

\* Of an order that is paid once, then, the very payment is in the books.
THEOREM AckedIsBooked ==
  ASSUME PaidOnce
  PROVE  Spec => [](\A p \in acked : payment[p] # "absent")
<1>1. TypeOK /\ AckedIsPaid => \A p \in acked : payment[p] # "absent"
  BY DEF TypeOK, AckedIsPaid, Paid, PaymentsOf, PaidOnce
<1>2. QED
  BY <1>1, AckedMeansPaid, TypeCorrect, PTL
=============================================================================
