----------------------------- MODULE Links_proofs -----------------------------
(* Theorems about Links, for any orders, payments, workers and losses. *)
EXTENDS Links, FiniteSetTheorems, TLAPS

-----------------------------------------------------------------------------
(* The invariant *)

\* Executions that may still open a payment for an order
Asks(t, o)  == t.step \in {"price", "bank"} /\ t.order = o
Asking(o)   == {w \in Workers : Asks(work[w], o)}

Types ==
    /\ stage \in [Orders -> {"absent", "created", "sent", "lost"}]
    /\ queue \in [Orders -> Nat]
    /\ work \in [Workers -> Task]
    /\ opened \subseteq Payments
    /\ link \in [Orders -> Payments \cup {None}]
    /\ shown \subseteq opened
    /\ paid \subseteq shown
    /\ losses \in [Orders -> Nat]
    /\ failed \subseteq Orders

TasksSound ==
    \A w \in Workers :
        /\ work[w].step # "idle" => work[w].order \in Orders
        /\ work[w].step = "store" => work[w].payment \in OpenedFor(work[w].order)

LinksSound ==
    \A o \in Orders : link[o] # None => link[o] \in OpenedFor(o)

\* A payment that is open was asked for by a task, and every task was sent once or was
\* delivered again after a loss
Count(o) == Cardinality(OpenedFor(o)) + Cardinality(Asking(o)) + queue[o]
Counted ==
    \A o \in Orders :
        /\ stage[o] # "sent" => OpenedFor(o) = {} /\ Asking(o) = {} /\ queue[o] = 0
        /\ Count(o) <= 1 + losses[o]

IInv ==
    /\ Types
    /\ TasksSound
    /\ LinksSound
    /\ Counted

\* The parts of the invariant that look at the tasks only
LEMMA Finite ==
  ASSUME NEW o \in Orders, opened \subseteq Payments
  PROVE  /\ IsFiniteSet(OpenedFor(o)) /\ Cardinality(OpenedFor(o)) \in Nat
         /\ IsFiniteSet(Asking(o)) /\ Cardinality(Asking(o)) \in Nat
<1>1. OpenedFor(o) \in SUBSET Payments /\ Asking(o) \in SUBSET Workers
  BY DEF OpenedFor, Asking
<1>2. IsFiniteSet(OpenedFor(o)) /\ IsFiniteSet(Asking(o))
  BY <1>1, FS_Subset, LinksAssumption
<1> QED
  BY <1>2, FS_CardinalityType

LEMMA InvTypes == ASSUME IInv PROVE TypeOK
  BY DEF IInv, Types, TasksSound, TypeOK

LEMMA InvInit == ASSUME Init PROVE IInv
<1>1. IdleTask \in Task /\ IdleTask.step = "idle"
  BY DEF IdleTask, Task
<1>2. Types /\ TasksSound /\ LinksSound
  BY <1>1 DEF Init, Types, TasksSound, LinksSound
<1>3. ASSUME NEW o \in Orders PROVE OpenedFor(o) = {} /\ Asking(o) = {}
  BY <1>1 DEF Init, OpenedFor, Asking, Asks
<1>4. Cardinality({}) = 0
  BY FS_EmptySet
<1>5. Counted
  BY <1>3, <1>4 DEF Init, Counted, Count
<1> QED
  BY <1>2, <1>5 DEF IInv

-----------------------------------------------------------------------------
(* How the counts move *)

LEMMA SetMoves ==
  ASSUME NEW S, NEW x, IsFiniteSet(S)
  PROVE  /\ x \in S => Cardinality(S \ {x}) = Cardinality(S) - 1
         /\ x \notin S => Cardinality(S \cup {x}) = Cardinality(S) + 1
         /\ x \in S => S \cup {x} = S
         /\ x \notin S => S \ {x} = S
  BY FS_AddElement, FS_RemoveElement

\* One worker's task changes
LEMMA WorkMoves ==
  ASSUME Types, NEW w \in Workers, NEW t \in Task, work' = [work EXCEPT ![w] = t],
         NEW o \in Orders
  PROVE  /\ work' \in [Workers -> Task] /\ work'[w] = t
         /\ \A v \in Workers : v # w => work'[v] = work[v]
         /\ Asks(t, o) => Asking(o)' = Asking(o) \cup {w}
         /\ ~Asks(t, o) => Asking(o)' = Asking(o) \ {w}
<1>1. /\ work' \in [Workers -> Task] /\ work'[w] = t
      /\ \A v \in Workers : v # w => work'[v] = work[v]
  BY DEF Types
<1>2. Asks(t, o) => Asking(o)' = Asking(o) \cup {w}
  BY <1>1 DEF Asking, Asks
<1>3. ~Asks(t, o) => Asking(o)' = Asking(o) \ {w}
  BY <1>1 DEF Asking, Asks
<1> QED
  BY <1>1, <1>2, <1>3

\* ... by how much the number of executions that still ask changes
LEMMA AskMoves ==
  ASSUME Types, NEW w \in Workers, NEW t \in Task, work' = [work EXCEPT ![w] = t],
         NEW o \in Orders
  PROVE  /\ Asks(t, o) /\ Asks(work[w], o) =>
               Asking(o)' = Asking(o) /\ Cardinality(Asking(o)') = Cardinality(Asking(o))
         /\ Asks(t, o) /\ ~Asks(work[w], o) =>
               Cardinality(Asking(o)') = Cardinality(Asking(o)) + 1
         /\ ~Asks(t, o) /\ Asks(work[w], o) =>
               Cardinality(Asking(o)') = Cardinality(Asking(o)) - 1
         /\ ~Asks(t, o) /\ ~Asks(work[w], o) =>
               Asking(o)' = Asking(o) /\ Cardinality(Asking(o)') = Cardinality(Asking(o))
<1>1. w \in Asking(o) <=> Asks(work[w], o)
  BY DEF Asking
<1>2. IsFiniteSet(Asking(o))
  BY Finite DEF Types
<1>3. /\ Asks(t, o) => Asking(o)' = Asking(o) \cup {w}
      /\ ~Asks(t, o) => Asking(o)' = Asking(o) \ {w}
  BY WorkMoves
<1> HIDE DEF Asking, Asks
<1> QED
  BY <1>1, <1>2, <1>3, SetMoves

LEMMA OpenMoves ==
  ASSUME Types, NEW p \in Payments \ opened, opened' = opened \cup {p}, NEW o \in Orders
  PROVE  /\ OrderOf[p] = o => Cardinality(OpenedFor(o)') = Cardinality(OpenedFor(o)) + 1
         /\ OrderOf[p] # o => OpenedFor(o)' = OpenedFor(o)
<1>1. OrderOf[p] = o => OpenedFor(o)' = OpenedFor(o) \cup {p}
  BY DEF OpenedFor
<1>2. OrderOf[p] # o => OpenedFor(o)' = OpenedFor(o)
  BY DEF OpenedFor
<1>3. p \notin OpenedFor(o)
  BY DEF OpenedFor
<1> QED
  BY <1>1, <1>2, <1>3, SetMoves, Finite DEF Types

-----------------------------------------------------------------------------
(* Requests and clients *)

LEMMA SameSets ==
  ASSUME UNCHANGED <<opened, work>>
  PROVE  \A o \in Orders : OpenedFor(o)' = OpenedFor(o) /\ Asking(o)' = Asking(o)
  BY DEF OpenedFor, Asking, Asks

LEMMA OrderMoves == ASSUME IInv, NEW o \in Orders, OrderStep(o) PROVE IInv'
<1>1. UNCHANGED <<opened, work, losses>>
  BY DEF OrderStep, CreateOrder, SendTask, Send, RequestLost, LinkExpires, Poll
<1>2. \A q \in Orders : OpenedFor(q)' = OpenedFor(q) /\ Asking(q)' = Asking(q)
  BY <1>1, SameSets
<1>3. Types'
  BY DEF IInv, Types, LinksSound, OpenedFor, OrderStep, CreateOrder, SendTask, Send,
         RequestLost, LinkExpires, Poll
<1>4. TasksSound'
  BY <1>1, <1>2 DEF IInv, TasksSound, OpenedFor
<1>5. LinksSound'
  BY <1>2 DEF IInv, Types, LinksSound, OrderStep, CreateOrder, SendTask, Send, RequestLost,
              LinkExpires, Poll
<1>6. Counted'
  <2> SUFFICES ASSUME NEW q \in Orders
               PROVE  /\ stage'[q] # "sent" =>
                            OpenedFor(q)' = {} /\ Asking(q)' = {} /\ queue'[q] = 0
                      /\ Cardinality(OpenedFor(q)') + Cardinality(Asking(q)') + queue'[q]
                            <= 1 + losses'[q]
    BY DEF Counted, Count
  <2>1. CASE UNCHANGED <<stage, queue>>
    BY <2>1, <1>1, <1>2 DEF IInv, Counted, Count
  <2>2. CASE CreateOrder(o) \/ RequestLost(o)
    BY <2>2, <1>1, <1>2 DEF IInv, Types, Counted, Count, CreateOrder, RequestLost
  <2>3. CASE SendTask(o)
    <3>1. /\ stage[o] = "created" /\ stage' = [stage EXCEPT ![o] = "sent"]
          /\ queue' = [queue EXCEPT ![o] = @ + 1]
      BY <2>3 DEF SendTask, Send
    <3>2. OpenedFor(o) = {} /\ Asking(o) = {} /\ queue[o] = 0
      BY <3>1 DEF IInv, Counted
    <3>3. Cardinality({}) = 0
      BY FS_EmptySet
    <3>4. CASE q = o
      <4>1. stage'[q] = "sent" /\ queue'[q] = queue[q] + 1 /\ losses'[q] = losses[q]
        BY <3>1, <3>4, <1>1 DEF IInv, Types
      <4>2. OpenedFor(q)' = {} /\ Asking(q)' = {} /\ queue[q] = 0 /\ losses[q] \in Nat
        BY <3>2, <3>4, <1>2 DEF IInv, Types
      <4> QED
        BY <4>1, <4>2, <3>3
    <3>5. CASE q # o
      BY <3>1, <3>5, <1>1, <1>2 DEF IInv, Types, Counted, Count
    <3> QED
      BY <3>4, <3>5
  <2> QED
    BY <2>1, <2>2, <2>3 DEF OrderStep, LinkExpires, Poll
<1> QED
  BY <1>3, <1>4, <1>5, <1>6 DEF IInv

LEMMA SameTasks ==
  ASSUME IInv, UNCHANGED <<stage, queue, work, opened, link, losses>>, Types'
  PROVE  IInv'
<1>1. \A q \in Orders : OpenedFor(q)' = OpenedFor(q) /\ Asking(q)' = Asking(q)
  BY SameSets
<1>2. Counted'
  BY <1>1 DEF IInv, Counted, Count
<1>3. TasksSound' /\ LinksSound'
  BY <1>1 DEF IInv, TasksSound, LinksSound
<1> QED
  BY <1>2, <1>3 DEF IInv

LEMMA PayMoves == ASSUME IInv, NEW p \in Payments, Pay(p) PROVE IInv'
<1>1. Types' /\ UNCHANGED <<stage, queue, work, opened, link, losses>>
  BY DEF IInv, Types, Pay
<1> QED
  BY <1>1, SameTasks

-----------------------------------------------------------------------------
(* Workers *)

\* A task of an order is under way: its request has sent it
LEMMA SentFirst ==
  ASSUME IInv, NEW w \in Workers, work[w].step # "idle"
  PROVE  work[w].order \in Orders /\ stage[work[w].order] = "sent"
<1>1. work[w].order \in Orders /\ work[w] \in Task
  BY DEF IInv, TasksSound, Types
<1>2. CASE work[w].step = "store"
  BY <1>1, <1>2 DEF IInv, TasksSound, Counted
<1>3. CASE work[w].step \in {"price", "bank"}
  <2>1. w \in Asking(work[w].order)
    BY <1>3 DEF Asking, Asks
  <2> QED
    BY <1>1, <2>1 DEF IInv, Counted
<1> QED
  BY <1>1, <1>2, <1>3 DEF Task

\* What a worker's step has to show of its order; the other orders are as they were
LEMMA CountsMove ==
  ASSUME IInv, NEW w \in Workers, NEW t \in Task, NEW o \in Orders,
         work' = [work EXCEPT ![w] = t], stage[o] = "sent", UNCHANGED stage,
         \A q \in Orders \ {o} :
            /\ queue'[q] = queue[q] /\ losses'[q] = losses[q]
            /\ OpenedFor(q)' = OpenedFor(q)
            /\ ~Asks(t, q) /\ ~Asks(work[w], q),
         Cardinality(OpenedFor(o)') + Cardinality(Asking(o)') + queue'[o] <= 1 + losses'[o]
  PROVE  Counted'
<1>1. \A q \in Orders \ {o} : Asking(q)' = Asking(q)
  BY AskMoves DEF IInv
<1> SUFFICES ASSUME NEW q \in Orders
             PROVE  /\ stage'[q] # "sent" =>
                          OpenedFor(q)' = {} /\ Asking(q)' = {} /\ queue'[q] = 0
                    /\ Cardinality(OpenedFor(q)') + Cardinality(Asking(q)') + queue'[q]
                          <= 1 + losses'[q]
  BY DEF Counted, Count
<1>2. CASE q = o
  BY <1>2
<1>3. CASE q # o
  BY <1>3, <1>1 DEF IInv, Counted, Count
<1> QED
  BY <1>2, <1>3

LEMMA IdleTasks ==
  /\ IdleTask \in Task /\ IdleTask.step = "idle"
  /\ \A o : ~Asks(IdleTask, o)
  BY DEF IdleTask, Task, Asks

LEMMA TakeMoves ==
  ASSUME IInv, NEW w \in Workers, NEW o \in Orders, Take(w, o)
  PROVE  IInv'
<1> DEFINE t == [step |-> "price", order |-> o, payment |-> None, owned |-> TRUE]
<1>1. /\ queue[o] > 0 /\ work[w].step = "idle" /\ queue' = [queue EXCEPT ![o] = @ - 1]
      /\ work' = [work EXCEPT ![w] = t]
      /\ UNCHANGED <<stage, opened, link, shown, paid, losses, failed>>
  BY DEF Take, Deliver
<1>2. t \in Task /\ t.step = "price" /\ t.order = o /\ Asks(t, o)
  BY DEF Task, Asks
<1> HIDE DEF t
<1>3. \A q \in Orders : ~Asks(work[w], q) /\ OpenedFor(q)' = OpenedFor(q)
  BY <1>1 DEF Asks, OpenedFor
<1>4. /\ work' \in [Workers -> Task] /\ work'[w] = t
      /\ \A v \in Workers : v # w => work'[v] = work[v]
  BY <1>1, <1>2, WorkMoves DEF IInv
<1>5. queue[o] \in Nat /\ losses[o] \in Nat
  BY DEF IInv, Types
<1>6. Types'
  BY <1>1, <1>4, <1>5 DEF IInv, Types
<1>7. TasksSound' /\ LinksSound'
  BY <1>1, <1>2, <1>3, <1>4 DEF IInv, TasksSound, LinksSound
<1>8. Cardinality(Asking(o)') = Cardinality(Asking(o)) + 1
  BY <1>1, <1>2, <1>3, AskMoves DEF IInv
<1>9. Cardinality(OpenedFor(o)) \in Nat /\ Cardinality(Asking(o)) \in Nat
  BY Finite DEF IInv, Types
<1>10. stage[o] = "sent" /\ Count(o) <= 1 + losses[o]
  BY <1>1, <1>5 DEF IInv, Counted
<1>11. Cardinality(OpenedFor(o)') + Cardinality(Asking(o)') + queue'[o] <= 1 + losses'[o]
  <2>1. queue'[o] = queue[o] - 1 /\ losses'[o] = losses[o]
    BY <1>1 DEF IInv, Types
  <2> QED
    BY <1>3, <1>5, <1>8, <1>9, <1>10, <2>1 DEF Count
<1>12. \A q \in Orders \ {o} :
          /\ queue'[q] = queue[q] /\ losses'[q] = losses[q]
          /\ OpenedFor(q)' = OpenedFor(q)
          /\ ~Asks(t, q) /\ ~Asks(work[w], q)
  BY <1>1, <1>2, <1>3 DEF Asks, IInv, Types
<1>13. Counted'
  BY <1>1, <1>2, <1>10, <1>11, <1>12, CountsMove
<1> QED
  BY <1>6, <1>7, <1>13 DEF IInv

\* A task that goes on or ends and opens nothing, of an order in whose queue nothing changes
LEMMA TaskMoves ==
  ASSUME IInv, NEW w \in Workers, NEW t \in Task,
         work[w].step # "idle", work' = [work EXCEPT ![w] = t],
         t.step \in {"idle", "bank"},
         t.step # "idle" => work[w].step = "price" /\ t.order = work[w].order,
         UNCHANGED <<stage, queue, opened, losses>>,
         Types', LinksSound'
  PROVE  IInv'
<1>1. PICK o \in Orders : o = work[w].order /\ stage[o] = "sent"
  BY SentFirst
<1>2. \A q \in Orders : OpenedFor(q)' = OpenedFor(q)
  BY DEF OpenedFor
<1>3. /\ work'[w] = t /\ \A v \in Workers : v # w => work'[v] = work[v]
  BY DEF IInv, Types
<1>4. TasksSound'
  BY <1>1, <1>2, <1>3 DEF IInv, TasksSound
<1>5. \A q \in Orders \ {o} :
          /\ queue'[q] = queue[q] /\ losses'[q] = losses[q]
          /\ OpenedFor(q)' = OpenedFor(q)
          /\ ~Asks(t, q) /\ ~Asks(work[w], q)
  BY <1>1, <1>2 DEF Asks
<1>6. Asks(t, o) => Asks(work[w], o)
  BY <1>1 DEF Asks
<1>7. /\ queue[o] \in Nat /\ losses[o] \in Nat
      /\ Cardinality(OpenedFor(o)) \in Nat /\ Cardinality(Asking(o)) \in Nat
      /\ Count(o) <= 1 + losses[o]
  BY <1>1, Finite DEF IInv, Types, Counted
<1>8. \/ Cardinality(Asking(o)') = Cardinality(Asking(o))
      \/ Cardinality(Asking(o)') = Cardinality(Asking(o)) - 1
  <2>1. Types
    BY DEF IInv
  <2> HIDE DEF IInv
  <2> QED
    BY <1>6, <2>1, AskMoves
<1>9. Cardinality(OpenedFor(o)') + Cardinality(Asking(o)') + queue'[o] <= 1 + losses'[o]
  BY <1>2, <1>7, <1>8 DEF Count
<1>10. Counted'
  BY <1>1, <1>5, <1>9, CountsMove
<1> QED
  BY <1>4, <1>10 DEF IInv

LEMMA PriceMoves == ASSUME IInv, NEW w \in Workers, Price(w) PROVE IInv'
<1> DEFINE t == [work[w] EXCEPT !.step = "bank"]
<1>1. /\ work[w].step = "price" /\ work' = [work EXCEPT ![w] = t]
      /\ UNCHANGED <<stage, queue, opened, link, shown, paid, losses, failed>>
  BY DEF Price
<1>2. t \in Task /\ t.step = "bank" /\ t.order = work[w].order
  BY DEF IInv, Types, Task
<1> HIDE DEF t
<1>3. Types'
  BY <1>1, <1>2 DEF IInv, Types
<1>4. LinksSound'
  BY <1>1 DEF IInv, LinksSound, OpenedFor
<1> QED
  BY <1>1, <1>2, <1>3, <1>4, TaskMoves

LEMMA FailedType ==
  ASSUME IInv, NEW w \in Workers, work[w].step # "idle", Fails(w)
  PROVE  failed' \in SUBSET Orders
  BY SentFirst DEF Fails, IInv, Types

LEMMA EndMoves ==
  ASSUME IInv, NEW w \in Workers, NoPrice(w) \/ NoBank(w) \/ StoreLink(w) \/ TaskFails(w)
  PROVE  IInv'
<1>1. /\ work[w].step # "idle" /\ work' = [work EXCEPT ![w] = IdleTask]
      /\ UNCHANGED <<stage, queue, opened, shown, paid, losses>>
  BY DEF NoPrice, NoBank, StoreLink, TaskFails, Fails, Acknowledge
<1>4. failed' \in SUBSET Orders
  BY <1>1, FailedType DEF IInv, Types, NoPrice, NoBank, StoreLink, TaskFails
<1>2. CASE StoreLink(w)
  <2> DEFINE o == work[w].order
  <2>1. /\ o \in Orders /\ work[w].payment \in OpenedFor(o)
        /\ link' = [link EXCEPT ![o] = work[w].payment]
    BY <1>2 DEF IInv, TasksSound, StoreLink
  <2>2. Types'
    BY <1>1, <1>4, <2>1, IdleTasks DEF IInv, Types, OpenedFor
  <2>3. LinksSound'
    BY <1>1, <2>1 DEF IInv, Types, LinksSound, OpenedFor
  <2> QED
    BY <1>1, <2>2, <2>3, IdleTasks, TaskMoves
<1>3. CASE UNCHANGED link
  <2>1. Types' /\ LinksSound'
    BY <1>1, <1>3, <1>4, IdleTasks DEF IInv, Types, LinksSound, OpenedFor
  <2> QED
    BY <1>1, <2>1, IdleTasks, TaskMoves
<1> QED
  BY <1>2, <1>3 DEF NoPrice, NoBank, TaskFails

\* A bank is asked by a task that has a price
LEMMA Bank ==
  ASSUME IInv, NEW w \in Workers, work[w].step = "bank"
  PROVE  \E o \in Orders :
            /\ o = work[w].order /\ stage[o] = "sent" /\ Asks(work[w], o)
            /\ queue[o] \in Nat /\ losses[o] \in Nat
            /\ Cardinality(OpenedFor(o)) \in Nat /\ Cardinality(Asking(o)) \in Nat
            /\ Count(o) <= 1 + losses[o]
<1>1. PICK o \in Orders : o = work[w].order /\ stage[o] = "sent"
  BY SentFirst
<1>2. Asks(work[w], o)
  BY <1>1 DEF Asks
<1> QED
  BY <1>1, <1>2, Finite DEF IInv, Types, Counted

\* One payment more is open, and one task less asks for one
LEMMA OpensMoves ==
  ASSUME IInv, NEW w \in Workers, NEW t \in Task, work' = [work EXCEPT ![w] = t],
         work[w].step = "bank", t.step \in {"idle", "store"},
         NEW p \in Payments \ opened, OrderOf[p] = work[w].order, opened' = opened \cup {p},
         t.step = "store" => t.order = work[w].order /\ t.payment = p,
         failed' \in SUBSET Orders,
         UNCHANGED <<stage, queue, link, shown, paid, losses>>
  PROVE  IInv'
<1>1. PICK o \in Orders :
            /\ o = work[w].order /\ stage[o] = "sent" /\ Asks(work[w], o)
            /\ queue[o] \in Nat /\ losses[o] \in Nat
            /\ Cardinality(OpenedFor(o)) \in Nat /\ Cardinality(Asking(o)) \in Nat
            /\ Count(o) <= 1 + losses[o]
  BY Bank
<1>2. /\ Cardinality(OpenedFor(o)') = Cardinality(OpenedFor(o)) + 1
      /\ \A q \in Orders \ {o} : OpenedFor(q)' = OpenedFor(q)
  BY <1>1, OpenMoves DEF IInv
<1>3. \A q \in Orders : OpenedFor(q) \subseteq OpenedFor(q)'
  BY DEF OpenedFor
<1>4. /\ work' \in [Workers -> Task] /\ work'[w] = t
      /\ \A v \in Workers : v # w => work'[v] = work[v]
  BY DEF IInv, Types
<1>5. Types'
  BY <1>4 DEF IInv, Types
<1>6. LinksSound'
  BY <1>3 DEF IInv, LinksSound
<1>7. t.step = "store" => t.order = o /\ t.payment \in OpenedFor(o)'
  BY <1>1 DEF OpenedFor
<1>8. TasksSound'
  BY <1>1, <1>3, <1>4, <1>7 DEF IInv, TasksSound
<1>9. ~Asks(t, o)
  BY DEF Asks
<1>10. Cardinality(Asking(o)') = Cardinality(Asking(o)) - 1
  <2>1. Types
    BY DEF IInv
  <2> QED
    BY <1>1, <1>9, <2>1, AskMoves
<1>11. Cardinality(OpenedFor(o)') + Cardinality(Asking(o)') + queue'[o] <= 1 + losses'[o]
  BY <1>1, <1>2, <1>10 DEF Count
<1>12. \A q \in Orders \ {o} :
          /\ queue'[q] = queue[q] /\ losses'[q] = losses[q]
          /\ OpenedFor(q)' = OpenedFor(q)
          /\ ~Asks(t, q) /\ ~Asks(work[w], q)
  BY <1>1, <1>2 DEF Asks
<1>13. Counted'
  BY <1>1, <1>11, <1>12, CountsMove
<1> QED
  BY <1>5, <1>6, <1>8, <1>13 DEF IInv

LEMMA BankMoves == ASSUME IInv, NEW w \in Workers, BankOpens(w) PROVE IInv'
<1>1. PICK p \in Payments \ opened :
        /\ OrderOf[p] = work[w].order /\ opened' = opened \cup {p}
        /\ work' = [work EXCEPT ![w] = [work[w] EXCEPT !.step = "store", !.payment = p]]
  BY Zenon DEF BankOpens
<1> DEFINE t == [work[w] EXCEPT !.step = "store", !.payment = p]
<1>2. t \in Task /\ t.step = "store" /\ t.order = work[w].order /\ t.payment = p
  BY DEF IInv, Types, Task
<1>3. work[w].step = "bank" /\ UNCHANGED <<stage, queue, link, shown, paid, losses, failed>>
  BY DEF BankOpens
<1>4. failed' \in SUBSET Orders
  BY <1>3 DEF IInv, Types
<1>5. work' = [work EXCEPT ![w] = t]
  BY <1>1
<1> HIDE DEF t
<1> QED
  BY <1>1, <1>2, <1>3, <1>4, <1>5, OpensMoves

LEMMA FailMoves == ASSUME IInv, NEW w \in Workers, BankFails(w) PROVE IInv'
<1>1. /\ work[w].step = "bank" /\ work' = [work EXCEPT ![w] = IdleTask]
      /\ UNCHANGED <<stage, queue, link, shown, paid, losses>>
  BY DEF BankFails, Failure, Fails, Acknowledge
<1>2. failed' \in SUBSET Orders
  BY <1>1, FailedType DEF BankFails
<1>3. CASE UNCHANGED opened
  <2>1. Types' /\ LinksSound'
    BY <1>1, <1>2, <1>3, IdleTasks DEF IInv, Types, LinksSound, OpenedFor
  <2> QED
    BY <1>1, <1>3, <2>1, IdleTasks, TaskMoves
<1>4. CASE \E p \in Payments \ opened :
             OrderOf[p] = work[w].order /\ opened' = opened \cup {p}
  BY <1>1, <1>2, <1>4, IdleTasks, OpensMoves
<1> QED
  BY <1>3, <1>4 DEF BankFails, Failure

\* One more delivery, after one more loss
LEMMA AgainMoves ==
  ASSUME IInv, NEW w \in Workers, NEW t \in Task, work' = [work EXCEPT ![w] = t],
         work[w].step # "idle", Again(w),
         \/ t.step = "idle"
         \/ t.step = work[w].step /\ t.order = work[w].order /\ t.payment = work[w].payment,
         UNCHANGED <<stage, opened, link, shown, paid, failed>>
  PROVE  IInv'
<1>1. PICK o \in Orders : o = work[w].order /\ stage[o] = "sent"
  BY SentFirst
<1>2. /\ queue' = [queue EXCEPT ![o] = @ + 1] /\ losses' = [losses EXCEPT ![o] = @ + 1]
  BY <1>1 DEF Again
<1>3. /\ queue[o] \in Nat /\ losses[o] \in Nat
      /\ Cardinality(OpenedFor(o)) \in Nat /\ Cardinality(Asking(o)) \in Nat
      /\ Count(o) <= 1 + losses[o]
  BY <1>1, Finite DEF IInv, Types, Counted
<1>4. /\ work' \in [Workers -> Task] /\ work'[w] = t
      /\ \A v \in Workers : v # w => work'[v] = work[v]
  BY DEF IInv, Types
<1>5. /\ queue' \in [Orders -> Nat] /\ losses' \in [Orders -> Nat]
      /\ queue'[o] = queue[o] + 1 /\ losses'[o] = losses[o] + 1
      /\ \A q \in Orders : q # o => queue'[q] = queue[q] /\ losses'[q] = losses[q]
  BY <1>2, <1>3 DEF IInv, Types
<1>6. Types'
  BY <1>4, <1>5 DEF IInv, Types
<1>7. \A q \in Orders : OpenedFor(q)' = OpenedFor(q)
  BY DEF OpenedFor
<1>8. LinksSound'
  BY <1>7 DEF IInv, LinksSound
<1>9. TasksSound'
  BY <1>4, <1>7 DEF IInv, TasksSound
<1>10. Asks(t, o) => Asks(work[w], o)
  BY DEF Asks
<1>11. \/ Cardinality(Asking(o)') = Cardinality(Asking(o))
       \/ Cardinality(Asking(o)') = Cardinality(Asking(o)) - 1
  <2>1. Types
    BY DEF IInv
  <2> QED
    BY <1>10, <2>1, AskMoves
<1>12. Cardinality(OpenedFor(o)') + Cardinality(Asking(o)') + queue'[o] <= 1 + losses'[o]
  BY <1>3, <1>5, <1>7, <1>11 DEF Count
<1>13. \A q \in Orders \ {o} :
          /\ queue'[q] = queue[q] /\ losses'[q] = losses[q]
          /\ OpenedFor(q)' = OpenedFor(q)
          /\ ~Asks(t, q) /\ ~Asks(work[w], q)
  BY <1>1, <1>5, <1>7 DEF Asks
<1>14. Counted'
  BY <1>1, <1>12, <1>13, CountsMove
<1> QED
  BY <1>6, <1>8, <1>9, <1>14 DEF IInv

LEMMA LossMoves ==
  ASSUME IInv, NEW w \in Workers, WorkerLost(w) \/ Redelivered(w)
  PROVE  IInv'
<1>1. work[w].step # "idle" /\ UNCHANGED <<stage, opened, link, shown, paid, failed>>
  BY DEF WorkerLost, Redelivered, Loses
<1>2. CASE Redelivered(w)
  <2> DEFINE t == [work[w] EXCEPT !.owned = FALSE]
  <2>1. work' = [work EXCEPT ![w] = t] /\ Again(w)
    BY <1>2 DEF Redelivered
  <2>2. /\ t \in Task /\ t.step = work[w].step /\ t.order = work[w].order
        /\ t.payment = work[w].payment
    BY DEF IInv, Types, Task
  <2> HIDE DEF t
  <2> QED
    BY <1>1, <2>1, <2>2, AgainMoves
<1>3. CASE WorkerLost(w) /\ work[w].owned
  <2>1. work' = [work EXCEPT ![w] = IdleTask] /\ Again(w)
    BY <1>3 DEF WorkerLost, Acknowledge
  <2> QED
    BY <1>1, <2>1, IdleTasks, AgainMoves
<1>4. CASE WorkerLost(w) /\ ~work[w].owned
  <2>1. work' = [work EXCEPT ![w] = IdleTask] /\ UNCHANGED <<queue, losses>>
    BY <1>4 DEF WorkerLost, Acknowledge
  <2>2. Types' /\ LinksSound'
    BY <1>1, <2>1, IdleTasks DEF IInv, Types, LinksSound, OpenedFor
  <2> QED
    BY <1>1, <2>1, <2>2, IdleTasks, TaskMoves
<1> QED
  BY <1>2, <1>3, <1>4

LEMMA NextMoves == ASSUME IInv, [Next]_vars PROVE IInv'
<1>1. CASE UNCHANGED vars
  <2>1. Types'
    BY <1>1 DEF IInv, Types, vars
  <2> QED
    BY <1>1, <2>1, SameTasks DEF vars
<1>2. CASE \E o \in Orders : OrderStep(o)
  BY <1>2, OrderMoves
<1>3. ASSUME NEW w \in Workers, WorkerStep(w) PROVE IInv'
  BY <1>3, TakeMoves, PriceMoves, EndMoves, BankMoves, FailMoves, LossMoves DEF WorkerStep
<1>4. CASE \E p \in Payments : Pay(p)
  BY <1>4, PayMoves
<1> QED
  BY <1>1, <1>2, <1>3, <1>4 DEF Next

-----------------------------------------------------------------------------
(* The theorems *)

THEOREM Invariance == Spec => []IInv
<1>1. Init => IInv
  BY InvInit
<1>2. IInv /\ [Next]_vars => IInv'
  BY NextMoves
<1> QED
  BY <1>1, <1>2, PTL DEF Spec

\* Tasks and links keep their shapes, and a task that stores a link stores one of its own
\* order (generate_payment_link_task).
THEOREM LinkTypes == Spec => []TypeOK
<1>1. IInv => TypeOK
  BY InvTypes
<1> QED
  BY <1>1, Invariance, PTL

\* A bank is asked only for orders that are committed, and a client is shown only pages
\* that were opened for his order (just_create_order_record).
THEOREM OrdersFirst == Spec => []LinksHaveOrders
<1>1. IInv => LinksHaveOrders
  <2> SUFFICES ASSUME IInv PROVE LinksHaveOrders
    OBVIOUS
  <2>1. ASSUME NEW p \in opened PROVE Exists(OrderOf[p])
    <3>1. p \in Payments /\ OrderOf[p] \in Orders
      BY <2>1, LinksAssumption DEF IInv, Types
    <3>2. OpenedFor(OrderOf[p]) # {}
      BY <2>1 DEF OpenedFor
    <3> QED
      BY <3>1, <3>2 DEF IInv, Counted, Exists
  <2> QED
    BY <2>1 DEF IInv, Types, LinksSound, LinksHaveOrders
<1> QED
  BY <1>1, Invariance, PTL

\* However many orders, payments, workers and losses there are, a bank is asked once for
\* an order and once more for each delivery after a loss (task_acks_late).
THEOREM OncePerDelivery == Spec => []OpenedPerDelivery
<1>1. IInv => OpenedPerDelivery
  <2> SUFFICES ASSUME IInv, NEW o \in Orders
               PROVE  Cardinality(OpenedFor(o)) <= 1 + losses[o]
    BY DEF OpenedPerDelivery
  <2>1. Count(o) <= 1 + losses[o] /\ queue[o] \in Nat /\ losses[o] \in Nat
    BY DEF IInv, Types, Counted
  <2>2. Cardinality(OpenedFor(o)) \in Nat /\ Cardinality(Asking(o)) \in Nat
    BY Finite DEF IInv, Types
  <2> QED
    BY <2>1, <2>2 DEF Count
<1> QED
  BY <1>1, Invariance, PTL

PaidFor(o) == {p \in paid : OrderOf[p] = o}

\* A client pays an order twice only if its link task was delivered again: while no
\* worker is lost every order is paid once at most, which is what the theorems on
\* Billing that need one payment per order ask for (generate_payment_link_task).
PaidPerDelivery == \A o \in Orders : Cardinality(PaidFor(o)) <= 1 + losses[o]

THEOREM PaidTwiceOnlyAfterLoss == Spec => []PaidPerDelivery
<1>1. IInv /\ OpenedPerDelivery => PaidPerDelivery
  <2> SUFFICES ASSUME IInv, OpenedPerDelivery, NEW o \in Orders
               PROVE  Cardinality(PaidFor(o)) <= 1 + losses[o]
    BY DEF PaidPerDelivery
  <2>1. PaidFor(o) \subseteq OpenedFor(o) /\ losses[o] \in Nat
    BY DEF IInv, Types, PaidFor, OpenedFor
  <2>2. IsFiniteSet(OpenedFor(o))
    BY Finite DEF IInv, Types
  <2>3. /\ Cardinality(PaidFor(o)) <= Cardinality(OpenedFor(o))
        /\ Cardinality(PaidFor(o)) \in Nat /\ Cardinality(OpenedFor(o)) \in Nat
    BY <2>1, <2>2, FS_Subset, FS_CardinalityType
  <2>4. Cardinality(OpenedFor(o)) <= 1 + losses[o]
    BY DEF OpenedPerDelivery
  <2> QED
    BY <2>1, <2>3, <2>4
<1> QED
  BY <1>1, Invariance, OncePerDelivery, PTL

-----------------------------------------------------------------------------
(* No task is forgotten: as much of LinkArrives as is safety *)

\* A delivery the broker still answers for: waiting, or with a worker that has not
\* acknowledged it
Serves(t, o) == t.step # "idle" /\ t.order = o /\ t.owned
Owed(o)      == queue[o] > 0 \/ \E w \in Workers : Serves(work[w], o)

\* The broker loses no link task of an order that can be paid: it ends with a link or
\* with an error of its own (the bank's, an exception, a killed process), while a worker
\* that is lost as a whole, at whatever step, leaves its message to another
\* (task_acks_late, generate_payment_link_task).
TaskNotForgotten ==
    [][\A o \in Orders : Payable(o) /\ Owed(o) /\ ~Owed(o)'
                            => link'[o] # None \/ o \in failed']_vars

\* A step that takes no message and no task of the order away
LEMMA StaysOwed ==
  ASSUME NEW o \in Orders, Owed(o), queue[o] > 0 => queue'[o] > 0,
         \A w \in Workers : Serves(work[w], o) => Serves(work'[w], o)
  PROVE  Owed(o)'
<1>1. queue[o] > 0 => Owed(o)'
  BY DEF Owed
<1>2. ASSUME NEW w \in Workers, Serves(work[w], o) PROVE Owed(o)'
  <2>1. Serves(work'[w], o)
    BY <1>2
  <2> QED
    BY <2>1 DEF Owed, Serves
<1> QED
  BY <1>1, <1>2 DEF Owed

\* A worker that takes a task is the one that owes it
LEMMA TakenIsOwed ==
  ASSUME IInv, NEW w \in Workers, NEW q \in Orders, Take(w, q), NEW o \in Orders, Owed(o)
  PROVE  Owed(o)'
<1>1. /\ work[w].step = "idle" /\ queue' = [queue EXCEPT ![q] = @ - 1]
      /\ work'[w] = [step |-> "price", order |-> q, payment |-> None, owned |-> TRUE]
      /\ \A v \in Workers : v # w => work'[v] = work[v]
  BY DEF Take, Deliver, IInv, Types
<1>2. CASE q = o
  BY <1>1, <1>2 DEF Owed, Serves
<1>3. CASE q # o
  <2>1. queue'[o] = queue[o]
    BY <1>1, <1>3 DEF IInv, Types
  <2>2. \A v \in Workers : Serves(work[v], o) => Serves(work'[v], o)
    BY <1>1 DEF Serves
  <2> QED
    BY <2>1, <2>2, StaysOwed
<1> QED
  BY <1>2, <1>3

\* A step of one worker that changes the record of its task and no queue
LEMMA ServedOn ==
  ASSUME IInv, NEW w \in Workers, NEW t, work' = [work EXCEPT ![w] = t], UNCHANGED queue,
         NEW o \in Orders, Owed(o), Serves(work[w], o) => Serves(t, o)
  PROVE  Owed(o)'
<1>1. /\ work'[w] = t /\ \A v \in Workers : v # w => work'[v] = work[v]
  BY DEF IInv, Types
<1>2. \A v \in Workers : Serves(work[v], o) => Serves(work'[v], o)
  BY <1>1
<1> QED
  BY <1>2, StaysOwed

\* The message of a lost worker is back in the queue
LEMMA LostIsOwed ==
  ASSUME IInv, NEW w \in Workers, WorkerLost(w) \/ Redelivered(w), NEW o \in Orders, Owed(o)
  PROVE  Owed(o)'
<1>1. work[w].step # "idle" /\ work[w].order \in Orders
  BY DEF WorkerLost, Redelivered, Loses, IInv, TasksSound
<1>2. \A v \in Workers : v # w => work'[v] = work[v]
  BY DEF WorkerLost, Redelivered, Acknowledge, IInv, Types
<1>3. CASE work[w].owned
  <2>1. queue' = [queue EXCEPT ![work[w].order] = @ + 1]
    BY <1>3 DEF WorkerLost, Redelivered, Again
  <2>2. \A q \in Orders : queue[q] \in Nat
    BY DEF IInv, Types
  <2>3. queue'[work[w].order] > 0 /\ \A q \in Orders : queue[q] > 0 => queue'[q] > 0
    BY <1>1, <2>1, <2>2 DEF IInv, Types
  <2>4. CASE work[w].order = o
    BY <2>3, <2>4 DEF Owed
  <2>5. CASE work[w].order # o
    <3>1. \A v \in Workers : Serves(work[v], o) => Serves(work'[v], o)
      BY <1>2, <2>5 DEF Serves
    <3> QED
      BY <2>3, <3>1, StaysOwed
  <2> QED
    BY <2>4, <2>5
<1>4. CASE ~work[w].owned
  <2>1. UNCHANGED queue
    BY <1>4 DEF WorkerLost, Redelivered
  <2>2. \A v \in Workers : Serves(work[v], o) => Serves(work'[v], o)
    BY <1>2, <1>4 DEF Serves
  <2> QED
    BY <2>1, <2>2, StaysOwed
<1> QED
  BY <1>3, <1>4

\* A worker that gives its task up has a link for it, an error, or nothing to be paid
LEMMA EndIsAnswer ==
  ASSUME IInv, NEW w \in Workers,
         NoPrice(w) \/ NoBank(w) \/ StoreLink(w) \/ BankFails(w) \/ TaskFails(w),
         NEW o \in Orders, Payable(o), Owed(o)
  PROVE  Owed(o)' \/ link'[o] # None \/ o \in failed'
<1>1. work' = [work EXCEPT ![w] = IdleTask] /\ UNCHANGED queue
  BY DEF NoPrice, NoBank, StoreLink, BankFails, TaskFails, Failure, Fails, Acknowledge
<1>2. CASE ~Serves(work[w], o)
  BY <1>1, <1>2, ServedOn
<1>3. CASE Serves(work[w], o)
  <2>1. work[w].order = o /\ work[w].step # "idle" /\ work[w].owned
    BY <1>3 DEF Serves
  <2>2. ~NoBank(w)
    BY <2>1 DEF NoBank, Payable
  <2>3. StoreLink(w) => link'[o] # None
    <3> SUFFICES ASSUME StoreLink(w) PROVE link'[o] # None
      OBVIOUS
    <3>1. /\ link' = [link EXCEPT ![o] = work[w].payment]
          /\ work[w].payment \in OpenedFor(o)
      BY <2>1 DEF StoreLink, IInv, TasksSound
    <3>2. work[w].payment \in Payments
      BY <3>1 DEF OpenedFor, IInv, Types
    <3> QED
      BY <3>1, <3>2, LinksAssumption DEF IInv, Types
  <2>4. NoPrice(w) \/ BankFails(w) \/ TaskFails(w) => o \in failed'
    BY <2>1 DEF NoPrice, BankFails, TaskFails, Fails
  <2> QED
    BY <2>2, <2>3, <2>4
<1> QED
  BY <1>2, <1>3

LEMMA NextOwed ==
  ASSUME IInv, [Next]_vars, NEW o \in Orders, Payable(o), Owed(o)
  PROVE  Owed(o)' \/ link'[o] # None \/ o \in failed'
<1>1. CASE UNCHANGED <<queue, work>>
  BY <1>1, StaysOwed
<1>2. ASSUME NEW q \in Orders, OrderStep(q) PROVE Owed(o)'
  <2>1. UNCHANGED work
    BY <1>2 DEF OrderStep, CreateOrder, SendTask, Send, RequestLost, LinkExpires, Poll
  <2>2. UNCHANGED queue \/ queue' = [queue EXCEPT ![q] = @ + 1]
    BY <1>2 DEF OrderStep, CreateOrder, SendTask, Send, RequestLost, LinkExpires, Poll
  <2>3. queue[o] > 0 => queue'[o] > 0
    BY <2>2 DEF IInv, Types
  <2> QED
    BY <2>1, <2>3, StaysOwed
<1>3. ASSUME NEW w \in Workers, WorkerStep(w)
      PROVE  Owed(o)' \/ link'[o] # None \/ o \in failed'
  <2>1. CASE Price(w)
    <3>1. /\ work' = [work EXCEPT ![w] = [work[w] EXCEPT !.step = "bank"]] /\ UNCHANGED queue
      BY <2>1 DEF Price
    <3>2. Serves(work[w], o) => Serves([work[w] EXCEPT !.step = "bank"], o)
      BY DEF Serves, IInv, Types, Task
    <3> QED
      BY <3>1, <3>2, ServedOn
  <2>2. CASE BankOpens(w)
    <3>1. PICK p \in Payments :
              work' = [work EXCEPT ![w] = [work[w] EXCEPT !.step = "store", !.payment = p]]
      BY <2>2, Zenon DEF BankOpens
    <3>2. UNCHANGED queue
      BY <2>2 DEF BankOpens
    <3>3. Serves(work[w], o) => Serves([work[w] EXCEPT !.step = "store", !.payment = p], o)
      BY DEF Serves, IInv, Types, Task
    <3> QED
      BY <3>1, <3>2, <3>3, ServedOn
  <2> QED
    BY <1>3, <2>1, <2>2, TakenIsOwed, LostIsOwed, EndIsAnswer DEF WorkerStep
<1>4. CASE \E p \in Payments : Pay(p)
  BY <1>1, <1>4 DEF Pay
<1> QED
  BY <1>1, <1>2, <1>3, <1>4 DEF Next, vars

\* Fairness is left with nothing but to bring the task forward.
THEOREM TasksAreKept == Spec => TaskNotForgotten
<1>1. IInv /\ [Next]_vars =>
        [\A o \in Orders : Payable(o) /\ Owed(o) /\ ~Owed(o)'
                             => link'[o] # None \/ o \in failed']_vars
  BY NextOwed
<1> QED
  BY <1>1, Invariance, PTL DEF Spec, TaskNotForgotten

-----------------------------------------------------------------------------
(* Links gives Billing the clients and the banks it assumes *)

Unpaid(o) == IF Exists(o) THEN "pending_payment" ELSE "absent"
Statuses  == [o \in Orders |-> Unpaid(o)]
Logs      == [o \in Orders |-> [from |-> "absent", to |-> Unpaid(o)]]
Held      == [p \in Payments |-> IF p \in paid THEN "held" ELSE "none"]

LEMMA SameBill ==
  ASSUME UNCHANGED <<Statuses, Logs, Held>>
  PROVE  UNCHANGED Bill!vars
  BY DEF Bill!vars, Bill!rowVars, Bill!bookVars, Bill!bankVars, Statuses, Logs, Held, Unpaid

LEMMA CreateBilled ==
  ASSUME IInv, NEW o \in Orders, CreateOrder(o)
  PROVE  Bill!Next
<1>1. stage[o] = "absent" /\ stage' = [stage EXCEPT ![o] = "created"] /\ paid' = paid
  BY DEF CreateOrder
<1>2. \A q \in Orders : stage'[q] = IF q = o THEN "created" ELSE stage[q]
  BY <1>1 DEF IInv, Types
<1>3. Statuses' = [Statuses EXCEPT ![o] = "pending_payment"] /\ Statuses[o] = "absent"
  <2>1. Statuses' = [q \in Orders |-> IF stage'[q] # "absent" THEN "pending_payment" ELSE "absent"]
    BY DEF Statuses, Unpaid, Exists
  <2>2. Statuses = [q \in Orders |-> IF stage[q] # "absent" THEN "pending_payment" ELSE "absent"]
    BY DEF Statuses, Unpaid, Exists
  <2>3. "created" # "absent"
    OBVIOUS
  <2> QED
    BY <1>1, <1>2, <2>1, <2>2, <2>3
<1>4. Logs' = [Logs EXCEPT ![o] = [from |-> "absent", to |-> "pending_payment"]]
  <2>1. Logs' = [q \in Orders |->
                    [from |-> "absent",
                     to |-> IF stage'[q] # "absent" THEN "pending_payment" ELSE "absent"]]
    BY DEF Logs, Unpaid, Exists
  <2>2. Logs = [q \in Orders |->
                    [from |-> "absent",
                     to |-> IF stage[q] # "absent" THEN "pending_payment" ELSE "absent"]]
    BY DEF Logs, Unpaid, Exists
  <2> QED
    BY <1>1, <1>2, <2>1, <2>2
<1>5. Held' = Held
  BY <1>1 DEF Held
<1>6. Bill!CreateOrder(o)
  BY <1>3, <1>4, <1>5
     DEF Bill!CreateOrder, Bill!SetStatus, Bill!bookVars, Bill!bankVars,
         Statuses, Logs, Held, Unpaid
<1> QED
  BY <1>6 DEF Bill!Next, Bill!ClientStep

LEMMA PayBilled ==
  ASSUME IInv, NEW p \in Payments, Pay(p)
  PROVE  Bill!Next
<1>1. p \in shown /\ p \notin paid /\ paid' = paid \cup {p} /\ stage' = stage
  BY DEF Pay
<1>2. OrderOf[p] \in Orders /\ Exists(OrderOf[p])
  <2>1. OrderOf[p] \in Orders /\ p \in OpenedFor(OrderOf[p])
    BY <1>1, LinksAssumption DEF IInv, Types, OpenedFor
  <2> QED
    BY <2>1 DEF IInv, Counted, Exists
<1>3. Statuses[OrderOf[p]] # "absent"
  BY <1>2 DEF Statuses, Unpaid
<1>4. Held' = [Held EXCEPT ![p] = "held"] /\ Held[p] = "none"
  <2>1. Held' = [q \in Payments |-> IF q \in paid' THEN "held" ELSE "none"]
    BY DEF Held
  <2> QED
    BY <1>1, <2>1 DEF Held
<1>5. Statuses' = Statuses /\ Logs' = Logs
  BY <1>1 DEF Statuses, Logs, Unpaid, Exists
<1>6. Bill!HoldPlaced(p)
  BY <1>3, <1>4, <1>5
     DEF Bill!HoldPlaced, Bill!rowVars, Bill!bookVars, Statuses, Logs, Held, Unpaid
<1> QED
  BY <1>6 DEF Bill!Next, Bill!ClientStep

\* Steps that create no order and pay for none are none of Billing's
LEMMA OthersUnbilled ==
  ASSUME IInv, \A o \in Orders : Exists(o)' = Exists(o), UNCHANGED paid
  PROVE  UNCHANGED Bill!vars
<1>1. Statuses' = Statuses /\ Logs' = Logs /\ Held' = Held
  BY DEF Statuses, Logs, Held, Unpaid
<1> QED
  BY <1>1, SameBill

LEMMA NextBilled == ASSUME IInv, [Next]_vars PROVE [Bill!Next]_(Bill!vars)
<1>1. CASE UNCHANGED vars
  <2>1. UNCHANGED <<stage, paid>>
    BY <1>1 DEF vars
  <2> QED
    BY <2>1, OthersUnbilled DEF Exists
<1>2. ASSUME NEW o \in Orders, OrderStep(o) PROVE [Bill!Next]_(Bill!vars)
  <2>1. CASE CreateOrder(o)
    BY <2>1, CreateBilled
  <2>2. CASE SendTask(o) \/ RequestLost(o)
    <3>1. stage[o] = "created" /\ paid' = paid
      BY <2>2 DEF SendTask, Send, RequestLost
    <3>2. stage' = [stage EXCEPT ![o] = "sent"] \/ stage' = [stage EXCEPT ![o] = "lost"]
      BY <2>2 DEF SendTask, Send, RequestLost
    <3>3. \A q \in Orders : Exists(q)' = Exists(q)
      BY <3>1, <3>2 DEF IInv, Types, Exists
    <3> QED
      BY <3>1, <3>3, OthersUnbilled
  <2>3. CASE LinkExpires(o) \/ Poll(o)
    <3>1. UNCHANGED <<stage, paid>>
      BY <2>3 DEF LinkExpires, Poll
    <3> QED
      BY <3>1, OthersUnbilled DEF Exists
  <2> QED
    BY <1>2, <2>1, <2>2, <2>3 DEF OrderStep
<1>3. ASSUME NEW w \in Workers, WorkerStep(w) PROVE [Bill!Next]_(Bill!vars)
  <2>1. ASSUME NEW o \in Orders, Take(w, o) PROVE UNCHANGED <<stage, paid>>
    BY <2>1 DEF Take, Deliver
  <2>2. BankOpens(w) => UNCHANGED <<stage, paid>>
    BY DEF BankOpens
  <2>3. BankFails(w) \/ WorkerLost(w) \/ Redelivered(w) => UNCHANGED <<stage, paid>>
    BY DEF BankFails, Failure, WorkerLost, Redelivered, Loses
  <2>4. \/ Price(w) \/ NoPrice(w) \/ NoBank(w)
        \/ StoreLink(w) \/ TaskFails(w)
        => UNCHANGED <<stage, paid>>
    BY DEF Price, NoPrice, NoBank, StoreLink, TaskFails
  <2>5. UNCHANGED <<stage, paid>>
    BY <1>3, <2>1, <2>2, <2>3, <2>4 DEF WorkerStep
  <2> QED
    BY <2>5, OthersUnbilled DEF Exists
<1>4. ASSUME NEW p \in Payments, Pay(p) PROVE [Bill!Next]_(Bill!vars)
  BY <1>4, PayBilled
<1> QED
  BY <1>1, <1>2, <1>3, <1>4 DEF Next

\* Links does to Billing's variables only what Billing allows its clients and banks: an
\* order begins unpaid, and money is held for none that is not there.
THEOREM ImplementsBilling == Spec => FeedsBilling
<1>1. Init => Bill!Init
  BY DEF Init, Bill!Init, Exists, Bill!IdleRequest, Bill!IdleTask
<1>2. IInv /\ [Next]_vars => [Bill!Next]_(Bill!vars)
  BY NextBilled
<1> QED
  BY <1>1, <1>2, Invariance, PTL DEF Spec, FeedsBilling, Bill!Spec
=============================================================================
