-------------------------- MODULE Sessions_proofs --------------------------
(***************************************************************************)
(* Theorems about Sessions, for every number of requests, of sessions and   *)
(* every limit of devices.                                                  *)
(***************************************************************************)
EXTENDS Sessions, FiniteSetTheorems, TLAPS

-----------------------------------------------------------------------------
(* Types *)

LEMMA IdleType == IdleRequest \in Request /\ Sound(IdleRequest)
  BY DEF IdleRequest, Request, Operations, Steps, Sound

\* A request's next state, and the other requests' states, after Serve
LEMMA Served ==
  ASSUME TypeOK, NEW r \in Requests, NEW q \in Request, Sound(q), Serve(r, q)
  PROVE  /\ req' \in [Requests -> Request]
         /\ \A p \in Requests : Sound(req'[p])
         /\ req'[r] = q
         /\ \A p \in Requests \ {r} : req'[p] = req[p]
  BY DEF TypeOK, Serve

LEMMA InitType == Init => TypeOK
<1> SUFFICES ASSUME Init PROVE TypeOK
  OBVIOUS
<1>1. /\ req \in [Requests -> Request]
      /\ \A r \in Requests : Sound(req[r])
  BY IdleType DEF Init
<1>2. /\ banned \in BOOLEAN /\ deleted \in BOOLEAN
      /\ index \subseteq Sids /\ data \subseteq Sids /\ issued \subseteq Sids
      /\ stored \subseteq Sids
      /\ grace \in [Sids -> Sids \cup {None}]
  BY DEF Init
<1>3. next \in 0 .. MaxSid
  BY SessionsAssumption DEF Init
<1>4. QED
  BY <1>1, <1>2, <1>3 DEF TypeOK

LEMMA NextType == TypeOK /\ [Next]_vars => TypeOK'
<1> SUFFICES ASSUME TypeOK, [Next]_vars PROVE TypeOK'
  OBVIOUS
<1> USE IdleType DEF userVars, GoTo, Answer
<1> DEFINE RowsOK == /\ banned \in BOOLEAN /\ deleted \in BOOLEAN
                     /\ index \subseteq Sids /\ data \subseteq Sids
                     /\ grace \in [Sids -> Sids \cup {None}]
                     /\ next \in 0 .. MaxSid
                     /\ issued \subseteq Sids /\ stored \subseteq Sids
           ReqOK == req \in [Requests -> Request] /\ \A r \in Requests : Sound(req[r])
<1>a. RowsOK /\ ReqOK
  BY DEF TypeOK
<1>b. \A r \in Requests : req[r] \in Request /\ Sound(req[r])
  BY <1>a
<1>1. ASSUME NEW r \in Requests, NEW q \in Request, Sound(q), Serve(r, q) PROVE ReqOK'
  BY <1>1, Served
<1>2. ASSUME NEW r \in Requests, LogOutAll(r) PROVE ReqOK'
  <2>1. [IdleRequest EXCEPT !.op = "logout_all", !.step = "list", !.due = data] \in Request
    BY <1>a DEF Request, IdleRequest, Operations, Steps
  <2>2. Sound([IdleRequest EXCEPT !.op = "logout_all", !.step = "list", !.due = data])
    BY DEF Sound, IdleRequest
  <2>3. QED
    BY <1>1, <1>2, <2>1, <2>2 DEF LogOutAll
<1>3. ASSUME NEW r \in Requests, NEW old \in Sids \cup {None}, NEW operation \in Operations,
             operation = "login" \/ (operation = "refresh" /\ old \in Sids),
             NewSession(r, operation, old)
      PROVE  ReqOK' /\ next' \in 0 .. MaxSid
  <2>1. next' = next + 1 /\ next' \in 0 .. MaxSid /\ next + 1 \in Sids
    BY <1>3, <1>a, SessionsAssumption DEF NewSession, Sids
  <2>2. [IdleRequest EXCEPT !.op = operation, !.step = "add", !.old = old, !.new = next + 1]
          \in Request
    BY <2>1 DEF Request, IdleRequest, Steps
  <2>3. Sound([IdleRequest EXCEPT !.op = operation, !.step = "add", !.old = old,
                                  !.new = next + 1])
    BY <1>3, <2>1 DEF Sound, IdleRequest
  <2>4. QED
    BY <1>1, <1>3, <2>1, <2>2, <2>3 DEF NewSession
<1>4. ASSUME NEW r \in Requests, Arrival(r) PROVE TypeOK'
  <2>1. CASE Login(r)
    BY <2>1, <1>3, <1>a DEF Login, TypeOK, Operations
  <2>2. ASSUME NEW s \in Sids, NEW operation \in Operations, Ask(r, operation, s)
        PROVE TypeOK'
    <3>1. [IdleRequest EXCEPT !.op = operation, !.step = "exists", !.old = s] \in Request
      BY DEF Request, IdleRequest, Steps
    <3>2. Sound([IdleRequest EXCEPT !.op = operation, !.step = "exists", !.old = s])
      BY DEF Sound, IdleRequest
    <3>3. QED
      BY <2>2, <3>1, <3>2, <1>1, <1>a DEF Ask, TypeOK
  <2>3. CASE Ban(r) \/ Reset(r)
    BY <2>3, <1>2, <1>a DEF Ban, Reset, TypeOK
  <2>4. QED
    BY <1>4, <2>1, <2>2, <2>3 DEF Arrival, Refresh, AskAsUser, Operations
<1>5. ASSUME NEW r \in Requests, Handling(r) PROVE TypeOK'
  <2> USE <1>a, <1>b
  <2>1. ASSUME NEW step \in Steps, Sound([req[r] EXCEPT !.step = step]), GoTo(r, step)
        PROVE  ReqOK'
    <3>1. [req[r] EXCEPT !.step = step] \in Request
      BY DEF Request
    <3>2. QED
      BY <2>1, <3>1, <1>1
  <2>2. CASE KeyExists(r)
    <3>1. Sound([req[r] EXCEPT !.step = "user"])
      BY <2>2 DEF KeyExists, Sound, Request
    <3>2. QED
      BY <2>1, <2>2, <3>1 DEF KeyExists, TypeOK, Steps
  <2>3. CASE KeyMissing(r)
    BY <2>3, <1>1 DEF KeyMissing, TypeOK
  <2>4. CASE AdmitRefresh(r)
    <3>1. req[r].old \in Sids
      BY <2>4 DEF AdmitRefresh, Sound
    <3>2. QED
      BY <2>4, <3>1, <1>3 DEF AdmitRefresh, TypeOK, Operations
  <2>5. CASE Admit(r)
    <3>1. Sound([req[r] EXCEPT !.step = "drop"]) \/ req[r].op # "logout"
      BY <2>5 DEF Admit, Sound, Request
    <3>2. Sound([req[r] EXCEPT !.step = "commit"]) \/ req[r].op # "delete"
      BY <2>5 DEF Admit, Sound, Request
    <3>3. QED
      BY <2>1, <2>5, <3>1, <3>2, <1>2 DEF Admit, TypeOK, Steps
  <2>6. CASE Reject(r)
    <3>1. [req[r] EXCEPT !.op = "reject", !.step = "drop"] \in Request
      BY DEF Request, Operations, Steps
    <3>2. Sound([req[r] EXCEPT !.op = "reject", !.step = "drop"])
      BY <2>6 DEF Reject, Sound, Request
    <3>3. QED
      BY <2>6, <3>1, <3>2, <1>1 DEF Reject, TypeOK
  <2>7. CASE DeleteCommit(r)
    BY <2>7, <1>2 DEF DeleteCommit, TypeOK
  <2>8. CASE AddToIndex(r)
    <3>1. req[r].new \in Sids /\ Sound([req[r] EXCEPT !.step = "pick"])
      BY <2>8 DEF AddToIndex, AddToZset, Sound, Request
    <3>2. ReqOK'
      BY <2>1, <2>8, <3>1 DEF AddToIndex, AddToZset, Steps
    <3>3. QED
      BY <2>8, <3>1, <3>2 DEF AddToIndex, AddToZset, TypeOK
  <2>9. CASE Pick(r)
    <3>1. PICK kept \in SUBSET index :
            Serve(r, [req[r] EXCEPT !.step = "store", !.picked = index \ kept])
      BY <2>9 DEF Pick, PickOver
    <3>2. [req[r] EXCEPT !.step = "store", !.picked = index \ kept] \in Request
      BY DEF Request, Steps
    <3>3. Sound([req[r] EXCEPT !.step = "store", !.picked = index \ kept])
      BY <2>9 DEF Pick, PickOver, Sound, Request
    <3>4. QED
      BY <2>9, <3>1, <3>2, <3>3, <1>1 DEF Pick, PickOver, TypeOK
  <2>10. CASE Store(r)
    <3>1. req[r].new \in Sids
      BY <2>10 DEF Store, StoreKey, Sound
    <3>2. req[r].op # "login" => Sound([req[r] EXCEPT !.step = "grace"])
      BY <2>10, <3>1 DEF Store, StoreKey, Sound, Request
    <3>3. ReqOK'
      BY <2>1, <2>10, <3>2, <1>1 DEF Store, StoreKey, Steps
    <3>4. QED
      BY <2>10, <3>1, <3>3 DEF Store, StoreKey, TypeOK
  <2>11. CASE SetGrace(r)
    <3>1. req[r].old \in Sids /\ req[r].new \in Sids
      BY <2>11 DEF SetGrace, Sound
    <3>2. Sound([req[r] EXCEPT !.step = "drop"])
      BY <2>11, <3>1 DEF SetGrace, Sound, Request
    <3>3. ReqOK'
      BY <2>1, <2>11, <3>2 DEF SetGrace, Steps
    <3>4. QED
      BY <2>11, <3>1, <3>3 DEF SetGrace, TypeOK
  <2>12. CASE DropKeys(r)
    <3>1. Sound([req[r] EXCEPT !.step = "unindex"])
      BY <2>12 DEF DropKeys, Sound, Request
    <3>2. ReqOK'
      BY <2>1, <2>12, <3>1 DEF DropKeys, Steps
    <3>3. QED
      BY <2>12, <3>2 DEF DropKeys, TypeOK
  <2>13. CASE Unindex(r)
    <3>1. req[r].op = "refresh" => req[r].new \in Sids
      BY <2>13 DEF Unindex, Sound
    <3>2. QED
      BY <2>13, <3>1, <1>1 DEF Unindex, TypeOK
  <2>14. CASE ListIndex(r)
    <3>1. ASSUME NEW picked \in SUBSET Sids, NEW step \in {"sweep", "wipe"}
          PROVE  /\ [req[r] EXCEPT !.step = step, !.picked = picked] \in Request
                 /\ Sound([req[r] EXCEPT !.step = step, !.picked = picked])
      BY <2>14 DEF ListIndex, Sound, Request, Steps
    <3>2. PICK picked \in SUBSET Sids, step \in {"sweep", "wipe"} :
            Serve(r, [req[r] EXCEPT !.step = step, !.picked = picked])
      <4>1. data \in SUBSET Sids /\ index \in SUBSET Sids
        OBVIOUS
      <4>2. QED
        BY <2>14, <4>1 DEF ListIndex
    <3>3. ReqOK'
      BY <3>1, <3>2, <1>1
    <3>4. QED
      BY <2>14, <3>3 DEF ListIndex, TypeOK
  <2>15. CASE Wipe(r)
    <3>1. data' \subseteq Sids
      BY <2>15 DEF Wipe
    <3>2. /\ [req[r] EXCEPT !.step = "sweep", !.picked = data'] \in Request
          /\ Sound([req[r] EXCEPT !.step = "sweep", !.picked = data'])
      BY <2>15, <3>1 DEF Wipe, Sound, Request, Steps
    <3>3. ReqOK'
      BY <2>15, <3>2, <1>1 DEF Wipe
    <3>4. QED
      BY <2>15, <3>1, <3>3 DEF Wipe, TypeOK
  <2>16. CASE Sweep(r)
    BY <2>16, <1>1 DEF Sweep, SweepKeys, TypeOK
  <2>17. CASE RequestLost(r)
    BY <2>17, <1>1 DEF RequestLost, TypeOK
  <2>18. QED
    BY <1>5, <2>2, <2>3, <2>4, <2>5, <2>6, <2>7, <2>8, <2>9, <2>10, <2>11, <2>12,
       <2>13, <2>14, <2>15, <2>16, <2>17 DEF Handling
<1>6. ASSUME NEW s \in Sids, RefreshInGrace(s) \/ GraceExpires(s) PROVE TypeOK'
  BY <1>6, <1>a DEF RefreshInGrace, GraceExpires, TypeOK
<1>7. CASE Unban
  BY <1>7, <1>a DEF Unban, TypeOK
<1>8. CASE UNCHANGED vars
  BY <1>8 DEF vars, TypeOK
<1>9. QED
  BY <1>4, <1>5, <1>6, <1>7, <1>8 DEF Next

\* Every variable keeps its type.
THEOREM SessionTypes == Spec => []TypeOK
  BY InitType, NextType, PTL DEF Spec

-----------------------------------------------------------------------------
(* What a step may do to the sessions *)

Creating == {"add", "pick", "store"}
Ending   == {"list", "wipe", "sweep"}

\* A login or a refresh takes a new id
TakesId(r) ==
    /\ next' = next + 1
    /\ req'[r].new = next + 1
    /\ req'[r].step = "add"
    /\ \A q \in Requests \ {r} : req'[q] = req[q]
    /\ UNCHANGED <<index, data, stored>>

\* No session starts, though some may end
Quiet ==
    /\ index' \subseteq index
    /\ data' \subseteq data
    /\ \A q \in Requests : req'[q].step \in Creating => req'[q] = req[q]
    /\ UNCHANGED <<next, stored>>

LEMMA NewSessionTakesId ==
  ASSUME TypeOK, NEW r \in Requests, NEW old, NEW operation, NewSession(r, operation, old),
         UNCHANGED <<index, data, stored>>
  PROVE  TakesId(r)
  BY DEF NewSession, Serve, IdleRequest, TakesId, TypeOK

\* Steps that only move a request out of, or leave it out of, a creation
LEMMA Waiting ==
  ASSUME TypeOK, NEW r \in Requests, NEW q, Serve(r, q), q.step \notin Creating,
         index' \subseteq index, data' \subseteq data, UNCHANGED <<next, stored>>
  PROVE  Quiet
  BY DEF Serve, Quiet, TypeOK

LEMMA StepKinds ==
  ASSUME TypeOK, [Next]_vars
  PROVE  \/ \E r \in Requests : TakesId(r) \/ AddToIndex(r) \/ Pick(r) \/ Store(r)
         \/ Quiet
<1> USE DEF userVars, GoTo, Answer, LogOutAll, Creating, IdleRequest
<1>1. ASSUME NEW r \in Requests, Arrival(r) PROVE TakesId(r) \/ Quiet
  <2>1. CASE Login(r)
    BY <2>1, NewSessionTakesId DEF Login
  <2>2. ASSUME NEW s, NEW operation, Ask(r, operation, s) PROVE Quiet
    BY <2>2, Waiting DEF Ask
  <2>3. CASE Ban(r) \/ Reset(r)
    BY <2>3, Waiting DEF Ban, Reset
  <2>4. QED
    BY <1>1, <2>1, <2>2, <2>3 DEF Arrival, Refresh, AskAsUser
<1>2. ASSUME NEW r \in Requests, Handling(r)
      PROVE  TakesId(r) \/ AddToIndex(r) \/ Pick(r) \/ Store(r) \/ Quiet
  <2> req[r] \in Request
    BY DEF TypeOK
  <2> USE DEF Request
  <2>1. CASE AdmitRefresh(r)
    BY <2>1, NewSessionTakesId DEF AdmitRefresh
  <2>2. CASE KeyExists(r) \/ KeyMissing(r) \/ Admit(r)
    BY <2>2, Waiting DEF KeyExists, KeyMissing, Admit
  <2>3. CASE Reject(r) \/ DeleteCommit(r) \/ SetGrace(r)
    BY <2>3, Waiting DEF Reject, DeleteCommit, SetGrace
  <2>4. CASE DropKeys(r) \/ Unindex(r)
    BY <2>4, Waiting DEF DropKeys, Unindex
  <2>5. CASE ListIndex(r)
    BY <2>5, Waiting DEF ListIndex
  <2>6. CASE Wipe(r)
    BY <2>6, Waiting DEF Wipe
  <2>7. CASE Sweep(r) \/ RequestLost(r)
    BY <2>7, Waiting DEF Sweep, SweepKeys, RequestLost
  <2>8. QED
    BY <1>2, <2>1, <2>2, <2>3, <2>4, <2>5, <2>6, <2>7 DEF Handling
<1>3. ASSUME NEW s \in Sids, RefreshInGrace(s) \/ GraceExpires(s) PROVE Quiet
  BY <1>3 DEF RefreshInGrace, GraceExpires, Quiet
<1>4. CASE Unban \/ UNCHANGED vars
  BY <1>4 DEF Unban, Quiet, vars
<1>5. QED
  BY <1>1, <1>2, <1>3, <1>4 DEF Next

-----------------------------------------------------------------------------
(* New sessions are new *)

\* Inductive: ids are given out once, and a session that is being created has no key
FreshInv ==
    /\ data \subseteq stored
    /\ \A s \in stored : s <= next
    /\ \A r \in Requests : req[r].step \in Creating =>
          req[r].new <= next /\ req[r].new \notin stored
    /\ \A r, q \in Requests :
          /\ req[r].step \in Creating
          /\ req[q].step \in Creating
          /\ req[r].new = req[q].new
          => r = q

LEMMA InitFresh == Init => FreshInv
  BY DEF Init, FreshInv, IdleRequest, Creating

\* A request that goes on creating its session keeps the session's id
LEMMA GoesOn ==
  ASSUME TypeOK, NEW r \in Requests, AddToIndex(r) \/ Pick(r) \/ Store(r)
  PROVE  /\ req[r].step \in Creating /\ req[r].new \in Sids
         /\ req'[r].step \in Creating => req'[r].new = req[r].new
         /\ Store(r) => req'[r].step \notin Creating
         /\ \A q \in Requests \ {r} : req'[q] = req[q]
         /\ next' = next
<1> USE DEF TypeOK, Sound, Serve, GoTo, Answer, IdleRequest, Creating, Request
<1>1. CASE AddToIndex(r)
  BY <1>1 DEF AddToIndex, AddToZset, Store, StoreKey
<1>2. CASE Pick(r)
  BY <1>2 DEF Pick, PickOver, Store, StoreKey
<1>3. CASE Store(r)
  BY <1>3 DEF Store, StoreKey
<1>4. QED
  BY <1>1, <1>2, <1>3

LEMMA NextFresh == TypeOK /\ FreshInv /\ [Next]_vars => FreshInv'
<1> SUFFICES ASSUME TypeOK, FreshInv, [Next]_vars PROVE FreshInv'
  OBVIOUS
<1>n. next \in Nat /\ stored \subseteq Nat
  BY SessionsAssumption DEF TypeOK, Sids
<1>r. \A r \in Requests : req[r].new \in Nat
  BY DEF TypeOK, Request, Sids, None
<1>1. ASSUME NEW r \in Requests, TakesId(r) PROVE FreshInv'
  BY <1>1, <1>n, <1>r DEF FreshInv, TakesId, Creating
<1>2. ASSUME NEW r \in Requests, AddToIndex(r) \/ Pick(r) PROVE FreshInv'
  <2>1. data' = data /\ stored' = stored
    BY <1>2 DEF AddToIndex, AddToZset, Pick, PickOver
  <2>2. QED
    BY <1>2, <2>1, GoesOn DEF FreshInv
<1>3. ASSUME NEW r \in Requests, Store(r) PROVE FreshInv'
  <2>1. stored' = stored \cup {req[r].new} /\ data' \subseteq data \cup {req[r].new}
    BY <1>3 DEF Store, StoreKey
  <2>2. QED
    BY <1>3, <2>1, GoesOn DEF FreshInv
<1>4. CASE Quiet
  BY <1>4 DEF FreshInv, Quiet, Creating
<1>5. QED
  BY <1>1, <1>2, <1>3, <1>4, StepKinds

LEMMA FreshInvariant == Spec => []FreshInv
<1>1. QED
  BY InitFresh, NextFresh, SessionTypes, PTL DEF Spec

-----------------------------------------------------------------------------
(* The life of a session *)

LEMMA LivesStep ==
  ASSUME TypeOK, FreshInv, [Next]_vars
  PROVE  [Lives!Next]_([s \in Sids |-> LifeOf(s)])
<1> USE DEF LifeOf
<1>1. CASE UNCHANGED <<data, stored>>
  BY <1>1
<1>2. CASE Quiet
  <2>1. data' \subseteq data /\ stored' = stored /\ data \subseteq stored /\ data \subseteq Sids
    BY <1>2 DEF Quiet, FreshInv, TypeOK
  <2>2. \E gone \in SUBSET Sids : gone = data \ data'
    BY <2>1
  <2>3. PICK gone \in SUBSET Sids : gone = data \ data'
    BY <2>2
  <2>4. Lives!End(gone)
    BY <2>1, <2>3 DEF Lives!End
  <2>5. QED
    BY <2>4 DEF Lives!Next, Lives!End
<1>3. ASSUME NEW r \in Requests, Store(r) PROVE Lives!Next
  <2> DEFINE n == req[r].new
             ended == {t \in Sids : t = n \/ LifeOf(t) = "alive"} \cap req[r].picked
  <2>1. n \in Sids /\ n \notin stored /\ n \notin data
    BY <1>3, GoesOn DEF FreshInv, Creating
  <2>2. data' = (data \cup {n}) \ req[r].picked /\ stored' = stored \cup {n}
    BY <1>3 DEF Store, StoreKey
  <2>3. data \subseteq stored
    BY DEF FreshInv
  <2>4. \A t \in Sids : LifeOf(t)' = IF t \in ended THEN "ended"
                                      ELSE IF t = n THEN "alive" ELSE LifeOf(t)
    BY <2>1, <2>2, <2>3
  <2>5. Lives!Start(n)
    <3>1. ended \in SUBSET {t \in Sids : t = n \/ LifeOf(t) = "alive"}
      OBVIOUS
    <3>2. LifeOf(n) = "unknown"
      BY <2>1
    <3>3. [t \in Sids |-> LifeOf(t)]' = [t \in Sids |-> IF t \in ended THEN "ended"
                                      ELSE IF t = n THEN "alive" ELSE LifeOf(t)]
      BY <2>4
    <3> HIDE DEF ended, LifeOf
    <3>4. QED
      BY <2>1, <3>1, <3>2, <3>3 DEF Lives!Start
  <2> HIDE DEF n, ended, LifeOf
  <2>6. QED
    BY <2>1, <2>5 DEF Lives!Next
<1>4. ASSUME NEW r \in Requests, TakesId(r) \/ AddToIndex(r) \/ Pick(r)
      PROVE  UNCHANGED <<data, stored>>
  BY <1>4 DEF TakesId, AddToIndex, AddToZset, Pick, PickOver
<1>5. QED
  BY <1>1, <1>2, <1>3, <1>4, StepKinds

\* Sessions implements SessionLife: a session is started once, and what has ended
\* stays ended, whatever requests were under way.
THEOREM SessionsImplementLife == Spec => KeepsLives
<1>1. Init => Lives!Init
  BY DEF Init, Lives!Init, LifeOf
<1>2. QED
  BY <1>1, LivesStep, SessionTypes, FreshInvariant, PTL DEF Spec, KeepsLives, Lives!Spec

-----------------------------------------------------------------------------
(* Logging out everywhere *)

\* Inductive: what a logout_all is to end is old, and the second clean-up has seen
\* what is left of it
DueInv ==
    \A r \in Requests :
        /\ req[r].step \in Ending => req[r].due \subseteq stored
        /\ req[r].step = "sweep" => req[r].due \cap data \subseteq req[r].picked

LEMMA InitDue == Init => DueInv
  BY DEF Init, DueInv, IdleRequest, Ending

\* How a request comes to a step of logout_all
LEMMA EndingSteps ==
  ASSUME TypeOK, [Next]_vars, NEW r \in Requests, req'[r].step \in Ending
  PROVE  \/ req'[r] = req[r]
         \/ LogOutAll(r) /\ UNCHANGED <<data, stored>>
         \/ ListIndex(r)
         \/ Wipe(r)
<1> USE DEF TypeOK, Request, Serve, GoTo, Answer, IdleRequest, Ending, userVars
<1>1. ASSUME NEW q \in Requests, Arrival(q)
      PROVE  req'[r] = req[r] \/ (LogOutAll(r) /\ UNCHANGED <<data, stored>>)
  <2>1. CASE Login(q)
    BY <2>1 DEF Login, NewSession
  <2>2. ASSUME NEW s, NEW operation, Ask(q, operation, s) PROVE req'[r] = req[r]
    BY <2>2 DEF Ask
  <2>3. CASE Ban(q) \/ Reset(q)
    <3>1. LogOutAll(q) /\ UNCHANGED <<data, stored>>
      BY <2>3 DEF Ban, Reset
    <3>2. q # r => req'[r] = req[r]
      BY <3>1 DEF LogOutAll
    <3>3. QED
      BY <3>1, <3>2
  <2>4. QED
    BY <1>1, <2>1, <2>2, <2>3 DEF Arrival, Refresh, AskAsUser
<1>2. ASSUME NEW q \in Requests, Handling(q), q # r PROVE req'[r] = req[r]
  BY <1>2 DEF Handling, KeyExists, KeyMissing, AdmitRefresh, NewSession, Admit, Reject,
       DeleteCommit, LogOutAll, AddToIndex, AddToZset, Pick, PickOver, Store, StoreKey,
       SetGrace, DropKeys, Unindex, ListIndex, Wipe, Sweep, SweepKeys, RequestLost
<1>3. ASSUME Handling(r)
      PROVE  \/ LogOutAll(r) /\ UNCHANGED <<data, stored>>
             \/ ListIndex(r) \/ Wipe(r)
  <2>1. ASSUME NEW step, step \notin Ending, GoTo(r, step) PROVE FALSE
    BY <2>1
  <2>2. CASE KeyExists(r) \/ KeyMissing(r) \/ SetGrace(r)
    BY <2>1, <2>2 DEF KeyExists, KeyMissing, SetGrace
  <2>3. CASE Reject(r)
    BY <2>3 DEF Reject
  <2>4. CASE AdmitRefresh(r)
    BY <2>4 DEF AdmitRefresh, NewSession
  <2>5. CASE Admit(r) \/ DeleteCommit(r)
    <3>1. \/ LogOutAll(r) /\ UNCHANGED <<data, stored>>
          \/ \E step \in {"drop", "commit"} : Serve(r, [req[r] EXCEPT !.step = step])
      BY <2>5 DEF Admit, DeleteCommit
    <3>2. QED
      BY <3>1
  <2>6. CASE AddToIndex(r) \/ Store(r)
    BY <2>1, <2>6 DEF AddToIndex, AddToZset, Store, StoreKey
  <2>7. CASE Pick(r)
    BY <2>7 DEF Pick, PickOver
  <2>8. CASE DropKeys(r) \/ Unindex(r) \/ Sweep(r) \/ RequestLost(r)
    BY <2>8 DEF DropKeys, Unindex, Sweep, SweepKeys, RequestLost
  <2>9. QED
    BY <1>3, <2>2, <2>3, <2>4, <2>5, <2>6, <2>7, <2>8 DEF Handling
<1>4. ASSUME NEW s \in Sids, RefreshInGrace(s) \/ GraceExpires(s) PROVE req' = req
  BY <1>4 DEF RefreshInGrace, GraceExpires
<1>5. CASE Unban \/ UNCHANGED vars
  BY <1>5 DEF Unban, vars
<1>6. QED
  BY <1>1, <1>2, <1>3, <1>4, <1>5 DEF Next

\* An old session never gets its key back
LEMMA DataSteps ==
  ASSUME TypeOK, FreshInv, [Next]_vars
  PROVE  stored \subseteq stored' /\ data' \cap stored \subseteq data
<1>1. ASSUME NEW r \in Requests, Store(r)
      PROVE  stored \subseteq stored' /\ data' \cap stored \subseteq data
  BY <1>1, GoesOn DEF Store, StoreKey, FreshInv
<1>2. ASSUME NEW r \in Requests, TakesId(r) \/ AddToIndex(r) \/ Pick(r)
      PROVE  UNCHANGED <<data, stored>>
  BY <1>2 DEF TakesId, AddToIndex, AddToZset, Pick, PickOver
<1>3. QED
  BY <1>1, <1>2, StepKinds DEF Quiet

LEMMA NextDue == TypeOK /\ FreshInv /\ DueInv /\ [Next]_vars => DueInv'
<1> SUFFICES ASSUME TypeOK, FreshInv, DueInv, [Next]_vars, NEW r \in Requests,
                    req'[r].step \in Ending
             PROVE  /\ req'[r].due \subseteq stored'
                    /\ req'[r].step = "sweep" => req'[r].due \cap data' \subseteq req'[r].picked
  BY DEF DueInv, Ending
<1>1. CASE req'[r] = req[r]
  BY <1>1, DataSteps DEF DueInv
<1>2. CASE LogOutAll(r) /\ UNCHANGED <<data, stored>>
  BY <1>2 DEF LogOutAll, Serve, IdleRequest, TypeOK, FreshInv
<1>3. CASE ListIndex(r)
  BY <1>3 DEF ListIndex, Serve, TypeOK, Request, DueInv, Ending
<1>4. CASE Wipe(r)
  <2>1. req'[r].due = req[r].due /\ req'[r].picked = data' /\ stored' = stored
    BY <1>4 DEF Wipe, Serve, TypeOK, Request
  <2>2. req[r].due \subseteq stored
    BY <1>4 DEF Wipe, DueInv, Ending
  <2>3. QED
    BY <2>1, <2>2
<1>5. QED
  BY <1>1, <1>2, <1>3, <1>4, EndingSteps

LEMMA DueInvariant == Spec => []DueInv
  BY InitDue, NextDue, SessionTypes, FreshInvariant, PTL DEF Spec

\* A logout_all that is answered has ended all that was alive when it began.
THEOREM EarlierSessionsEnd == Spec => OldSessionsEnd
<1>1. ASSUME DueInv, NEW r \in Requests, Sweep(r) PROVE data' \cap req[r].due = {}
  BY <1>1 DEF DueInv, Sweep, SweepKeys
<1>2. DueInv => [\A r \in Requests : Sweep(r) => data' \cap req[r].due = {}]_vars
  BY <1>1
<1>3. QED
  BY <1>2, DueInvariant, PTL DEF OldSessionsEnd

-----------------------------------------------------------------------------
(* The limit of devices *)

Storing == {r \in Requests : req[r].step = "store"}

\* What the index keeps of completed sessions when the requests in T are through
Kept(T) ==
    {s \in index : /\ s \in stored \/ \E r \in T : s = req[r].new
                   /\ \A r \in T : s \notin req[r].picked}

\* Inductive: whichever of the requests that have read the index get through, the
\* limit is kept.  The limit itself is the case of none.
CapInv == \A T \in SUBSET Storing : Cardinality(Kept(T)) <= MaxSessions

LEMMA FiniteSids == \A S \in SUBSET Sids : IsFiniteSet(S)
<1>1. IsFiniteSet(Sids)
  <2>1. 1 \in Int /\ MaxSid \in Int
    BY SessionsAssumption
  <2>2. QED
    BY <2>1, FS_Interval DEF Sids
<1>2. QED
  BY <1>1, FS_Subset

LEMMA SmallerSet ==
  ASSUME NEW S \in SUBSET Sids, NEW T \in SUBSET S, Cardinality(S) <= MaxSessions
  PROVE  Cardinality(T) <= MaxSessions
<1>1. IsFiniteSet(S) /\ IsFiniteSet(T)
  BY FiniteSids
<1>2. Cardinality(S) \in Nat /\ Cardinality(T) \in Nat /\ Cardinality(T) <= Cardinality(S)
  BY <1>1, FS_CardinalityType, FS_Subset
<1>3. QED
  BY <1>2, SessionsAssumption

LEMMA CapIsKept == CapInv => IndexCapped
<1>1. Kept({}) = index \cap stored /\ {} \in SUBSET Storing
  BY DEF Kept
<1>2. QED
  BY <1>1 DEF CapInv, IndexCapped

LEMMA InitCap == Init => CapInv
<1> SUFFICES ASSUME Init, NEW T \in SUBSET Storing PROVE Cardinality(Kept(T)) <= MaxSessions
  BY DEF CapInv
<1>1. Kept(T) = {}
  BY DEF Init, Kept
<1>2. QED
  BY <1>1, FS_EmptySet, SessionsAssumption

\* A request that reads the index leaves no more than the limit of what is there
LEMMA PickKeepsCap ==
  ASSUME TypeOK, CapInv, NEW r \in Requests, Pick(r), NEW T, (T \in SUBSET Storing)'
  PROVE  Cardinality(Kept(T)') <= MaxSessions
<1>1. PICK kept \in SUBSET index :
        Newest(kept, MaxSessions)
          /\ Serve(r, [req[r] EXCEPT !.step = "store", !.picked = index \ kept])
  BY DEF Pick, PickOver
<1>2. UNCHANGED <<index, stored>>
  BY DEF Pick, PickOver
<1>3. req'[r].picked = index \ kept /\ \A q \in Requests \ {r} : req'[q] = req[q]
  BY <1>1 DEF Serve, TypeOK, Request
<1>4. CASE r \in T
  <2>1. Kept(T)' \subseteq kept
    BY <1>2, <1>3, <1>4 DEF Kept
  <2>2. kept \subseteq Sids /\ index \subseteq Sids
    BY DEF TypeOK
  <2>3. IsFiniteSet(index) /\ IsFiniteSet(kept)
    BY <2>2, FiniteSids
  <2>4. Cardinality(kept) <= MaxSessions
    BY <1>1, <2>3, FS_CardinalityType, SessionsAssumption DEF Newest
  <2>5. QED
    BY <2>1, <2>2, <2>4, SmallerSet
<1>5. CASE r \notin T
  <2>1. T \in SUBSET Storing
    BY <1>3, <1>5 DEF Storing
  <2>2. Kept(T)' = Kept(T)
    BY <1>2, <1>3, <1>5, <2>1 DEF Kept, Storing
  <2>3. QED
    BY <2>1, <2>2 DEF CapInv
<1>6. QED
  BY <1>4, <1>5

\* What a request that is through has kept is what it was to keep
LEMMA StoreKeepsCap ==
  ASSUME TypeOK, CapInv, NEW r \in Requests, Store(r), NEW T, (T \in SUBSET Storing)'
  PROVE  Cardinality(Kept(T)') <= MaxSessions
<1>1. /\ index' = index \ req[r].picked
      /\ stored' = stored \cup {req[r].new}
      /\ r \in Storing
  BY DEF Store, StoreKey, Storing
<1>2. req'[r].step # "store" /\ \A q \in Requests \ {r} : req'[q] = req[q]
  BY GoesOn DEF Creating
<1>3. r \notin T /\ T \cup {r} \in SUBSET Storing
  BY <1>1, <1>2 DEF Storing
<1>4. Kept(T)' \subseteq Kept(T \cup {r})
  BY <1>1, <1>2, <1>3 DEF Kept, Storing
<1>5. Kept(T \cup {r}) \in SUBSET Sids
  BY DEF Kept, TypeOK
<1>6. QED
  BY <1>3, <1>4, <1>5, SmallerSet DEF CapInv

\* Any other step keeps what was kept, or less
LEMMA OthersKeepCap ==
  ASSUME TypeOK, FreshInv, CapInv, NEW T, (T \in SUBSET Storing)',
         Quiet \/ \E r \in Requests : TakesId(r) \/ AddToIndex(r)
  PROVE  Cardinality(Kept(T)') <= MaxSessions
<1>1. \A q \in T : q \in Requests /\ req'[q] = req[q] /\ req[q].step = "store"
  <2>1. ASSUME NEW r \in Requests, AddToIndex(r) PROVE req'[r].step = "pick"
    BY <2>1 DEF AddToIndex, AddToZset, GoTo, Serve, TypeOK, Request
  <2>2. QED
    BY <2>1, GoesOn DEF Storing, Quiet, TakesId, Creating
<1>2. T \in SUBSET Storing
  BY <1>1 DEF Storing
<1>3. Kept(T)' \subseteq Kept(T)
  <2>1. CASE index' \subseteq index /\ stored' = stored
    BY <1>1, <2>1 DEF Kept
  <2>2. ASSUME NEW r \in Requests, AddToIndex(r) PROVE Kept(T)' \subseteq Kept(T)
    <3>1. index' = index \cup {req[r].new} /\ stored' = stored /\ req[r].step = "add"
      BY <2>2 DEF AddToIndex, AddToZset
    <3>2. req[r].new \notin stored /\ \A q \in T : req[r].new # req[q].new
      BY <1>1, <3>1 DEF FreshInv, Creating
    <3>3. QED
      BY <1>1, <3>1, <3>2 DEF Kept
  <2>3. QED
    BY <2>1, <2>2 DEF Quiet, TakesId
<1>4. Kept(T) \in SUBSET Sids
  BY DEF Kept, TypeOK
<1>5. QED
  BY <1>2, <1>3, <1>4, SmallerSet DEF CapInv

LEMMA NextCap == TypeOK /\ FreshInv /\ CapInv /\ [Next]_vars => CapInv'
<1> SUFFICES ASSUME TypeOK, FreshInv, CapInv, [Next]_vars, NEW T, (T \in SUBSET Storing)'
             PROVE  Cardinality(Kept(T)') <= MaxSessions
  BY DEF CapInv
<1>1. QED
  BY StepKinds, PickKeepsCap, StoreKeepsCap, OthersKeepCap

\* The index never keeps more completed sessions than the limit, whatever logins and
\* refreshes overlap.
THEOREM DevicesLimited == Spec => []IndexCapped
  BY InitCap, NextCap, CapIsKept, SessionTypes, FreshInvariant, PTL DEF Spec

-----------------------------------------------------------------------------
(* Tokens *)

\* A refresh that has written its new session, and is to hand out its tokens
Rotating(q) == q.step = "grace" \/ (q.op = "refresh" /\ q.step \in {"drop", "unindex"})

\* Inductive: tokens, also the pairs kept for repeated refreshes, are of sessions that
\* were written
TokenInv ==
    /\ issued \subseteq stored
    /\ \A s \in Sids : grace[s] # None => grace[s] \in stored
    /\ \A r \in Requests : Rotating(req[r]) => req[r].new \in stored

\* A step that hands out nothing
LEMMA KeepsTokens ==
  ASSUME TypeOK, TokenInv, NEW r \in Requests, NEW q, Serve(r, q),
         Rotating(q) => q.new \in stored',
         issued' = issued, stored \subseteq stored',
         \A s \in Sids : grace'[s] = None \/ grace'[s] = grace[s]
  PROVE  TokenInv'
<1>1. req'[r] = q /\ \A p \in Requests \ {r} : req'[p] = req[p]
  BY DEF Serve, TypeOK
<1>2. \A p \in Requests : Rotating(req'[p]) => req'[p].new \in stored'
  BY <1>1 DEF TokenInv
<1>3. QED
  BY <1>2 DEF TokenInv

LEMMA NextTokens ==
  ASSUME TypeOK, TokenInv, [Next]_vars
  PROVE  TokenInv'
<1> USE DEF userVars, GoTo, Answer, LogOutAll, IdleRequest
<1>1. ASSUME NEW r \in Requests, NEW operation \in {"login", "refresh"}, NEW old,
             NewSession(r, operation, old), UNCHANGED <<grace, issued, stored>>
      PROVE  TokenInv'
  BY <1>1, KeepsTokens DEF NewSession, Rotating
<1>2. ASSUME NEW r \in Requests, Arrival(r) PROVE TokenInv'
  <2>1. CASE Login(r)
    BY <1>1, <2>1 DEF Login
  <2>2. ASSUME NEW s, NEW operation, Ask(r, operation, s) PROVE TokenInv'
    BY <2>2, KeepsTokens DEF Ask, Rotating
  <2>3. CASE Ban(r) \/ Reset(r)
    BY <2>3, KeepsTokens DEF Ban, Reset, Rotating
  <2>4. QED
    BY <1>2, <2>1, <2>2, <2>3 DEF Arrival, Refresh, AskAsUser
<1>3. ASSUME NEW r \in Requests, Handling(r) PROVE TokenInv'
  <2>r. req[r] \in Request /\ Sound(req[r])
    BY DEF TypeOK
  <2> USE <2>r DEF Request
  <2>1. CASE AdmitRefresh(r)
    BY <1>1, <2>1 DEF AdmitRefresh
  <2>2. CASE KeyExists(r) \/ KeyMissing(r)
    BY <2>2, KeepsTokens DEF KeyExists, KeyMissing, Rotating
  <2>3. CASE Admit(r) \/ Reject(r) \/ DeleteCommit(r)
    BY <2>3, KeepsTokens DEF Admit, Reject, DeleteCommit, Rotating
  <2>4. CASE AddToIndex(r) \/ Pick(r)
    BY <2>4, KeepsTokens DEF AddToIndex, AddToZset, Pick, PickOver, Rotating
  <2>5. CASE Store(r)
    <3>1. /\ stored' = stored \cup {req[r].new}
          /\ issued' \subseteq issued \cup {req[r].new}
          /\ grace' = grace
      BY <2>5 DEF Store, StoreKey
    <3>2. \A p \in Requests \ {r} : req'[p] = req[p]
      BY <2>5 DEF Store, StoreKey, Serve, TypeOK
    <3>3. req'[r].new = req[r].new \/ ~Rotating(req'[r])
      BY <2>5 DEF Store, StoreKey, Serve, TypeOK, Rotating
    <3>4. QED
      BY <3>1, <3>2, <3>3 DEF TokenInv
  <2>6. CASE SetGrace(r)
    <3>1. /\ grace' = [grace EXCEPT ![req[r].old] = req[r].new]
          /\ req' = [req EXCEPT ![r] = [req[r] EXCEPT !.step = "drop"]]
          /\ UNCHANGED <<issued, stored>>
          /\ req[r].step = "grace"
      BY <2>6 DEF SetGrace, Serve
    <3>2. req[r].new \in stored
      BY <3>1 DEF TokenInv, Rotating
    <3>3. \A s \in Sids : grace'[s] # None => grace'[s] \in stored
      BY <3>1, <3>2 DEF TokenInv, TypeOK
    <3>4. \A p \in Requests : req'[p] = req[p] \/ req'[p].new = req[r].new
      BY <3>1 DEF TypeOK
    <3>5. QED
      BY <3>1, <3>2, <3>3, <3>4 DEF TokenInv
  <2>7. CASE DropKeys(r)
    <3>1. Rotating([req[r] EXCEPT !.step = "unindex"]) => Rotating(req[r])
      BY <2>7 DEF DropKeys, Rotating
    <3>2. \A s \in Sids : grace'[s] = None \/ grace'[s] = grace[s]
      BY <2>7 DEF DropKeys, TypeOK
    <3>3. QED
      BY <2>7, <3>1, <3>2, KeepsTokens DEF DropKeys, TokenInv
  <2>8. CASE Unindex(r)
    <3>1. req[r].op = "refresh" => req[r].new \in stored
      BY <2>8 DEF Unindex, TokenInv, Rotating
    <3>2. /\ issued' \subseteq stored
          /\ UNCHANGED <<grace, stored>>
      BY <2>8, <3>1 DEF Unindex, TokenInv
    <3>3. \A p \in Requests : req'[p] = req[p] \/ ~Rotating(req'[p])
      BY <2>8 DEF Unindex, Serve, TypeOK, Rotating
    <3>4. QED
      BY <3>2, <3>3 DEF TokenInv
  <2>9. CASE ListIndex(r)
    BY <2>9, KeepsTokens DEF ListIndex, TokenInv, Rotating
  <2>10. CASE Wipe(r)
    BY <2>10, KeepsTokens DEF Wipe, TokenInv, Rotating
  <2>11. CASE Sweep(r) \/ RequestLost(r)
    BY <2>11, KeepsTokens DEF Sweep, SweepKeys, RequestLost, Rotating
  <2>12. QED
    BY <1>3, <2>1, <2>2, <2>3, <2>4, <2>5, <2>6, <2>7, <2>8, <2>9, <2>10, <2>11 DEF Handling
<1>4. ASSUME NEW s \in Sids, RefreshInGrace(s) \/ GraceExpires(s) PROVE TokenInv'
  <2>1. issued' \subseteq stored /\ UNCHANGED <<req, stored>>
    BY <1>4 DEF RefreshInGrace, GraceExpires, TokenInv
  <2>2. \A t \in Sids : grace'[t] = None \/ grace'[t] = grace[t]
    BY <1>4 DEF RefreshInGrace, GraceExpires, TypeOK
  <2>3. QED
    BY <2>1, <2>2 DEF TokenInv
<1>5. CASE Unban \/ UNCHANGED vars
  BY <1>5 DEF Unban, vars, TokenInv
<1>6. QED
  BY <1>2, <1>3, <1>4, <1>5 DEF Next

LEMMA TokenInvariant == Spec => []TokenInv
<1>1. Init => TokenInv
  BY DEF Init, TokenInv, Rotating, IdleRequest
<1>2. QED
  BY <1>1, NextTokens, SessionTypes, PTL DEF Spec

\* Every token a client holds is of a session that was written, for `issued` are those
\* whose tokens were handed out and `stored` those whose key was: so no token can
\* come alive after it was refused.
RefusedForGood == [][\A s \in issued : s \notin data => s \notin data']_vars

\* A token that is refused once because its session is gone is refused for ever: by
\* no logout, rotation, eviction or repeated refresh, however they overlap, does its
\* key come back (validate_user_access, create_tokens).
THEOREM RefusalIsFinal == Spec => RefusedForGood
<1>1. ASSUME TypeOK, FreshInv, TokenInv, [Next]_vars, NEW s \in issued, s \notin data
      PROVE  s \notin data'
  <2>1. s \in stored
    BY <1>1 DEF TokenInv
  <2>2. ASSUME NEW r \in Requests, Store(r) PROVE s \notin data'
    <3>1. req[r].new \notin stored
      BY <1>1, <2>2, GoesOn DEF FreshInv
    <3>2. data' \subseteq data \cup {req[r].new}
      BY <2>2 DEF Store, StoreKey
    <3>3. QED
      BY <1>1, <2>1, <3>1, <3>2
  <2>3. ASSUME NEW r \in Requests, TakesId(r) \/ AddToIndex(r) \/ Pick(r) PROVE data' = data
    BY <2>3 DEF TakesId, AddToIndex, AddToZset, Pick, PickOver
  <2>4. CASE Quiet
    BY <1>1, <2>4 DEF Quiet
  <2>5. QED
    BY <1>1, <2>2, <2>3, <2>4, StepKinds
<1>2. TypeOK /\ FreshInv /\ TokenInv /\ [Next]_vars
        => [\A s \in issued : s \notin data => s \notin data']_vars
  BY <1>1
<1>3. QED
  BY <1>2, SessionTypes, FreshInvariant, TokenInvariant, PTL DEF Spec, RefusedForGood
=============================================================================
