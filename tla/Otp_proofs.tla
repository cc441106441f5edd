----------------------------- MODULE Otp_proofs -----------------------------
(* Theorems about Otp, for any number of requests and any limits. *)
EXTENDS Otp, FiniteSetTheorems, TLAPS

-----------------------------------------------------------------------------
(* How a request moves *)

LEMMA Served ==
  ASSUME TypeOK, NEW r \in Requests, NEW q \in Request, Sound(q), Serve(r, q)
  PROVE  /\ req' \in [Requests -> Request]
         /\ \A p \in Requests : Sound(req'[p])
         /\ req'[r] = q
         /\ \A p \in Requests \ {r} : req'[p] = req[p]
  BY DEF TypeOK, Serve

LEMMA GoneTo ==
  ASSUME TypeOK, NEW r \in Requests, NEW step \in Steps, GoTo(r, step),
         req[r].guess \in Codes \/ step \notin {"blocked", "compare", "miss", "lock", "clear"}
  PROVE  /\ req' \in [Requests -> Request]
         /\ \A p \in Requests : Sound(req'[p])
         /\ req'[r].step = step
         /\ \A p \in Requests \ {r} : req'[p] = req[p]
<1> DEFINE q == [step |-> step, guess |-> req[r].guess]
<1>1. req[r] \in Request
  BY DEF TypeOK
<1>2. [req[r] EXCEPT !.step = step] = q /\ q \in Request /\ q.step = step /\ Sound(q)
  BY <1>1 DEF Request, Sound
<1> HIDE DEF q
<1>3. Serve(r, q)
  BY <1>2 DEF GoTo
<1> QED
  BY <1>2, <1>3, Served

LEMMA Answered ==
  ASSUME TypeOK, NEW r \in Requests, Answer(r)
  PROVE  /\ req' \in [Requests -> Request]
         /\ \A p \in Requests : Sound(req'[p])
         /\ req'[r].step = "idle"
         /\ \A p \in Requests \ {r} : req'[p] = req[p]
<1>1. IdleRequest \in Request /\ Sound(IdleRequest) /\ IdleRequest.step = "idle"
  BY DEF IdleRequest, Request, Steps, Sound
<1> QED
  BY <1>1, Served DEF Answer

LEMMA Verified ==
  ASSUME TypeOK, NEW r \in Requests, NEW guess \in Codes, Verify(r, guess)
  PROVE  /\ req' \in [Requests -> Request]
         /\ \A p \in Requests : Sound(req'[p])
         /\ req'[r].step = "blocked"
         /\ \A p \in Requests \ {r} : req'[p] = req[p]
<1> DEFINE q == [step |-> "blocked", guess |-> guess]
<1>1. q \in Request /\ Sound(q) /\ q.step = "blocked"
  BY DEF Request, Steps, Sound
<1>2. Serve(r, q)
  BY DEF Verify, VerifyWith
<1> HIDE DEF q
<1> QED
  BY <1>1, <1>2, Served

\* Request r moved, from one step to another
Moved(r, from, to) ==
    /\ req' \in [Requests -> Request]
    /\ \A p \in Requests : Sound(req'[p])
    /\ \A p \in Requests \ {r} : req'[p] = req[p]
    /\ req[r].step = from
    /\ req'[r].step = to

LEMMA Moves ==
  ASSUME TypeOK, NEW r \in Requests
  PROVE  /\ Ask(r) => Moved(r, "idle", "limits")
         /\ (\E guess \in Codes : Verify(r, guess)) => Moved(r, "idle", "blocked")
         /\ ReadLimits(r) => Moved(r, "limits", "count") \/ Moved(r, "limits", "idle")
         /\ ReadCount(r) => Moved(r, "count", IF daily < DailyLimit THEN "set" ELSE "idle")
         /\ SetCode(r) => Moved(r, "set", "wait")
         /\ SetWait(r) => Moved(r, "wait", "incr")
         /\ IncrDaily(r) => Moved(r, "incr", "day")
         /\ ExpireDaily(r) => Moved(r, "day", "idle")
         /\ ReadRetries(r) => Moved(r, "blocked", IF retries < RetryLimit THEN "compare" ELSE "idle")
         /\ Compare(r) => Moved(r, "compare", IF code = req[r].guess THEN "clear" ELSE "miss")
         /\ Miss(r) => Moved(r, "miss", IF retries = 0 THEN "lock" ELSE "idle")
         /\ SetLock(r) => Moved(r, "lock", "idle")
         /\ Clear(r) => Moved(r, "clear", "idle")
         /\ RequestLost(r) => Moved(r, req[r].step, "idle")
<1> DEFINE Verifying == {"blocked", "compare", "miss", "lock", "clear"}
<1>1. \A to \in Steps : GoTo(r, to) /\ (req[r].step \in Verifying \/ to \notin Verifying)
                        => Moved(r, req[r].step, to)
  BY GoneTo DEF Moved, TypeOK, Sound
<1>2. Answer(r) => Moved(r, req[r].step, "idle")
  BY Answered DEF Moved
<1>3. Ask(r) => Moved(r, "idle", "limits")
  BY <1>1 DEF Ask, At, Steps
<1>4. (\E guess \in Codes : Verify(r, guess)) => Moved(r, "idle", "blocked")
  <2> SUFFICES ASSUME NEW guess \in Codes, Verify(r, guess) PROVE Moved(r, "idle", "blocked")
    OBVIOUS
  <2>1. req[r].step = "idle"
    BY DEF Verify, VerifyWith, At
  <2> QED
    BY <2>1, Verified DEF Moved
<1>5. ReadLimits(r) => Moved(r, "limits", "count") \/ Moved(r, "limits", "idle")
  BY <1>1, <1>2 DEF ReadLimits, At, Steps
<1>6. ReadCount(r) => Moved(r, "count", IF daily < DailyLimit THEN "set" ELSE "idle")
  BY <1>1, <1>2 DEF ReadCount, ReadCountUpTo, At, Steps
<1>7. SetCode(r) => Moved(r, "set", "wait")
  BY <1>1 DEF SetCode, At, Steps
<1>8. SetWait(r) => Moved(r, "wait", "incr")
  BY <1>1 DEF SetWait, At, Steps
<1>9. IncrDaily(r) => Moved(r, "incr", "day")
  BY <1>1 DEF IncrDaily, At, Steps
<1>10. ExpireDaily(r) => Moved(r, "day", "idle")
  BY <1>2 DEF ExpireDaily, ExpireIf, At
<1>11. ReadRetries(r) => Moved(r, "blocked", IF retries < RetryLimit THEN "compare" ELSE "idle")
  BY <1>1, <1>2 DEF ReadRetries, ReadRetriesUpTo, At, Steps
<1>12. Compare(r) => Moved(r, "compare", IF code = req[r].guess THEN "clear" ELSE "miss")
  <2> SUFFICES ASSUME Compare(r)
               PROVE  Moved(r, "compare", IF code = req[r].guess THEN "clear" ELSE "miss")
    OBVIOUS
  <2> DEFINE to == IF code = req[r].guess THEN "clear" ELSE "miss"
  <2>1. req[r].step = "compare" /\ GoTo(r, to) /\ to \in Steps
    BY DEF Compare, At, Steps
  <2> QED
    BY <2>1, <1>1
<1>13. Miss(r) => Moved(r, "miss", IF retries = 0 THEN "lock" ELSE "idle")
  <2>1. retries + 1 = 1 <=> retries = 0
    BY DEF TypeOK
  <2> QED
    BY <2>1, <1>1, <1>2 DEF Miss, At, Steps
<1>14. SetLock(r) => Moved(r, "lock", "idle")
  BY <1>2 DEF SetLock, At
<1>15. Clear(r) => Moved(r, "clear", "idle")
  BY <1>2 DEF Clear, ClearLeaving, At
<1>16. RequestLost(r) => Moved(r, req[r].step, "idle")
  BY <1>2 DEF RequestLost
<1> QED
  BY <1>3, <1>4, <1>5, <1>6, <1>7, <1>8, <1>9, <1>10, <1>11, <1>12, <1>13, <1>14, <1>15, <1>16

\* Types: what is stored, and that a verification has a code at every step.
THEOREM OtpTypes == Spec => []TypeOK
<1>1. Init => TypeOK
  <2> SUFFICES ASSUME Init PROVE TypeOK
    OBVIOUS
  <2>1. IdleRequest \in Request /\ Sound(IdleRequest)
    BY DEF IdleRequest, Request, Steps, Sound
  <2>2. req \in [Requests -> Request] /\ \A r \in Requests : req[r] = IdleRequest
    BY <2>1 DEF Init
  <2>3. \A r \in Requests : Sound(req[r])
    BY <2>1, <2>2
  <2> QED
    BY <2>2, <2>3 DEF Init, TypeOK
<1>2. TypeOK /\ [Next]_vars => TypeOK'
  <2> SUFFICES ASSUME TypeOK, [Next]_vars
               PROVE  TypeOK'
    OBVIOUS
  <2> DEFINE ReqOK == req \in [Requests -> Request] /\ \A r \in Requests : Sound(req[r])
             CodeOK == code \in Codes \cup {None} /\ spent \subseteq Codes
             DayOK  == daily \in Nat /\ dailyEnds \in BOOLEAN
             LockOK == retries \in Nat /\ retryEnds \in BOOLEAN
             RestOK == waiting \in BOOLEAN /\ torn \subseteq {"day", "lock"}
  <2>0. ReqOK /\ CodeOK /\ DayOK /\ LockOK /\ RestOK
    BY DEF TypeOK
  <2> USE DEF codeVars, dailyVars, retryVars
  <2>1. ASSUME NEW r \in Requests, Ask(r) \/ (\E guess \in Codes : Verify(r, guess)) \/ Handling(r)
        PROVE  TypeOK'
    <3>1. ReqOK'
      BY <2>1, Moves DEF Moved, Handling
    <3>2. CodeOK'
      <4>1. CASE UNCHANGED codeVars
        BY <4>1, <2>0
      <4>2. CASE SetCode(r)
        BY <4>2, <2>0 DEF SetCode
      <4>3. CASE Clear(r)
        <5>1. req[r].guess \in Codes
          BY <4>3, <2>0 DEF Clear, ClearLeaving, At, Sound
        <5> QED
          BY <5>1, <4>3, <2>0 DEF Clear, ClearLeaving
      <4> QED
        BY <2>1, <4>1, <4>2, <4>3 DEF Ask, Verify, VerifyWith, Handling, ReadLimits, ReadCount,
           ReadCountUpTo, SetWait, IncrDaily, ExpireDaily, ExpireIf, ReadRetries, ReadRetriesUpTo,
           Compare, Miss, SetLock, RequestLost
    <3>3. DayOK'
      <4>1. CASE UNCHANGED dailyVars
        BY <4>1, <2>0
      <4>2. CASE IncrDaily(r)
        BY <4>2, <2>0 DEF IncrDaily
      <4>3. CASE ExpireDaily(r)
        <5>1. dailyEnds' \in BOOLEAN /\ daily' = daily
          BY <4>3 DEF ExpireDaily, ExpireIf
        <5> QED
          BY <5>1, <2>0
      <4> QED
        BY <2>1, <4>1, <4>2, <4>3 DEF Ask, Verify, VerifyWith, Handling, ReadLimits, ReadCount,
           ReadCountUpTo, SetCode, SetWait, ReadRetries, ReadRetriesUpTo,
           Compare, Miss, SetLock, Clear, ClearLeaving, RequestLost
    <3>4. LockOK'
      <4>1. CASE UNCHANGED retryVars
        BY <4>1, <2>0
      <4>2. CASE Miss(r)
        BY <4>2, <2>0 DEF Miss
      <4>3. CASE SetLock(r)
        <5>1. retryEnds' \in BOOLEAN /\ retries' = retries
          BY <4>3 DEF SetLock
        <5> QED
          BY <5>1, <2>0
      <4>4. CASE Clear(r)
        BY <4>4 DEF Clear, ClearLeaving
      <4> QED
        BY <2>1, <4>1, <4>2, <4>3, <4>4 DEF Ask, Verify, VerifyWith, Handling, ReadLimits, ReadCount,
           ReadCountUpTo, SetCode, SetWait, IncrDaily, ExpireDaily, ExpireIf, ReadRetries,
           ReadRetriesUpTo, Compare, RequestLost
    <3>5. RestOK'
      <4>1. CASE UNCHANGED <<waiting, torn>>
        BY <4>1, <2>0
      <4>2. CASE SetWait(r)
        BY <4>2, <2>0 DEF SetWait
      <4>3. CASE RequestLost(r)
        BY <4>3, <2>0 DEF RequestLost
      <4> QED
        BY <2>1, <4>1, <4>2, <4>3 DEF Ask, Verify, VerifyWith, Handling, ReadLimits, ReadCount,
           ReadCountUpTo, SetCode, IncrDaily, ExpireDaily, ExpireIf, ReadRetries, ReadRetriesUpTo,
           Compare, Miss, SetLock, Clear, ClearLeaving
    <3> QED
      BY <3>1, <3>2, <3>3, <3>4, <3>5 DEF TypeOK
  <2>2. CASE CodeEnds
    BY <2>2, <2>0 DEF CodeEnds, TypeOK
  <2>3. CASE WaitEnds
    BY <2>3, <2>0 DEF WaitEnds, TypeOK
  <2>4. CASE DayEnds
    BY <2>4, <2>0 DEF DayEnds, TypeOK
  <2>5. CASE LockEnds
    BY <2>5, <2>0 DEF LockEnds, TypeOK
  <2>6. CASE UNCHANGED vars
    BY <2>6, <2>0 DEF vars, TypeOK
  <2> QED
    BY <2>1, <2>2, <2>3, <2>4, <2>5, <2>6 DEF Next
<1> QED
  BY <1>1, <1>2, PTL DEF Spec

-----------------------------------------------------------------------------
(* The limits *)

\* Requests between a check and the count it was for
Calling  == {r \in Requests : req[r].step \in {"set", "wait", "incr"}}
Guessing == {r \in Requests : req[r].step \in {"compare", "miss"}}

\* The limits themselves are not inductive: requests that passed the check count too.
LimitInv ==
    /\ daily + Cardinality(Calling) < DailyLimit + Cardinality(Requests)
    /\ retries + Cardinality(Guessing) < RetryLimit + Cardinality(Requests)

\* What becomes of a set of requests when one of them moves
LEMMA OneMoves ==
  ASSUME NEW r \in Requests, NEW S \in SUBSET Requests, NEW T \in SUBSET Requests,
         S \ {r} = T \ {r}
  PROVE  /\ Cardinality(S) \in Nat /\ Cardinality(T) \in Nat /\ Cardinality(Requests) \in Nat
         /\ Cardinality(T) <= Cardinality(Requests)
         /\ r \notin T => Cardinality(T) <= Cardinality(S)
         /\ r \in S /\ r \notin T => Cardinality(T) + 1 = Cardinality(S)
         /\ r \in S => Cardinality(T) <= Cardinality(S)
<1>1. IsFiniteSet(S) /\ IsFiniteSet(T) /\ IsFiniteSet(Requests)
  BY OtpAssumption, FS_Subset
<1>2. /\ Cardinality(S) \in Nat /\ Cardinality(T) \in Nat /\ Cardinality(Requests) \in Nat
  BY <1>1, FS_CardinalityType
<1>3. Cardinality(T) <= Cardinality(Requests)
  BY <1>1, FS_Subset
<1>4. r \notin T => Cardinality(T) <= Cardinality(S)
  BY <1>1, FS_Subset
<1>5. r \in S /\ r \notin T => Cardinality(T) + 1 = Cardinality(S)
  <2>1. r \notin T => T = S \ {r}
    OBVIOUS
  <2>2. r \in S => Cardinality(S \ {r}) = Cardinality(S) - 1
    BY <1>1, FS_RemoveElement
  <2> QED
    BY <2>1, <2>2, <1>2
<1>6. r \in S => Cardinality(T) <= Cardinality(S)
  <2>1. r \in S => T \subseteq S
    OBVIOUS
  <2> QED
    BY <2>1, <1>1, FS_Subset
<1> QED
  BY <1>2, <1>3, <1>4, <1>5, <1>6

LEMMA LimitsHold == Spec => [](CallsLimited /\ AttemptsLimited)
<1> USE OtpAssumption
<1>1. Init => LimitInv
  <2> SUFFICES ASSUME Init PROVE LimitInv
    OBVIOUS
  <2>1. Calling = {} /\ Guessing = {} /\ daily = 0 /\ retries = 0
    BY DEF Init, Calling, Guessing, IdleRequest
  <2>2. Cardinality({}) = 0 /\ Cardinality(Requests) \in Nat
    BY FS_EmptySet, FS_CardinalityType
  <2> QED
    BY <2>1, <2>2 DEF LimitInv
<1>2. TypeOK /\ LimitInv /\ [Next]_vars => LimitInv'
  <2> SUFFICES ASSUME TypeOK, LimitInv, [Next]_vars
               PROVE  LimitInv'
    OBVIOUS
  <2>0. daily \in Nat /\ retries \in Nat
    BY DEF TypeOK
  <2>1. ASSUME NEW r \in Requests,
               \A q \in Requests \ {r} : req'[q] = req[q]
        PROVE  /\ Calling \ {r} = Calling' \ {r}
               /\ Guessing \ {r} = Guessing' \ {r}
    BY <2>1 DEF Calling, Guessing
  <2>2. ASSUME NEW r \in Requests, Ask(r) \/ (\E guess \in Codes : Verify(r, guess)) \/ Handling(r)
        PROVE  /\ Calling \ {r} = Calling' \ {r}
               /\ Guessing \ {r} = Guessing' \ {r}
    <3>1. \A q \in Requests \ {r} : req'[q] = req[q]
      BY <2>2, Moves DEF Moved, Handling
    <3> QED
      BY <3>1, <2>1
  <2>3. ASSUME NEW r \in Requests, Ask(r) \/ (\E guess \in Codes : Verify(r, guess)) \/ Handling(r)
        PROVE  LimitInv'
    <3> DEFINE C == Calling
               D == Calling'
               G == Guessing
               H == Guessing'
    <3>1. C \in SUBSET Requests /\ D \in SUBSET Requests /\ G \in SUBSET Requests /\ H \in SUBSET Requests
      BY DEF Calling, Guessing
    <3>2. C \ {r} = D \ {r} /\ G \ {r} = H \ {r}
      BY <2>2, <2>3
    <3>3. /\ r \in C <=> req[r].step \in {"set", "wait", "incr"}
          /\ r \in G <=> req[r].step \in {"compare", "miss"}
          /\ r \in D <=> req'[r].step \in {"set", "wait", "incr"}
          /\ r \in H <=> req'[r].step \in {"compare", "miss"}
      BY DEF Calling, Guessing
    <3> HIDE DEF C, D, G, H
    <3>4. /\ Cardinality(C) \in Nat /\ Cardinality(D) \in Nat /\ Cardinality(Requests) \in Nat
          /\ Cardinality(D) <= Cardinality(Requests)
          /\ r \notin D => Cardinality(D) <= Cardinality(C)
          /\ r \in C /\ r \notin D => Cardinality(D) + 1 = Cardinality(C)
          /\ r \in C => Cardinality(D) <= Cardinality(C)
      BY <3>1, <3>2, OneMoves
    <3>5. /\ Cardinality(G) \in Nat /\ Cardinality(H) \in Nat /\ Cardinality(Requests) \in Nat
          /\ Cardinality(H) <= Cardinality(Requests)
          /\ r \notin H => Cardinality(H) <= Cardinality(G)
          /\ r \in G /\ r \notin H => Cardinality(H) + 1 = Cardinality(G)
          /\ r \in G => Cardinality(H) <= Cardinality(G)
      BY <3>1, <3>2, OneMoves
    <3>6. /\ daily + Cardinality(C) < DailyLimit + Cardinality(Requests)
          /\ retries + Cardinality(G) < RetryLimit + Cardinality(Requests)
      BY DEF LimitInv, C, G
    <3>7. /\ daily' \in Nat
          /\ daily' + Cardinality(D) < DailyLimit + Cardinality(Requests)
      <4>1. CASE /\ r \in C => r \in C
                 /\ daily' = daily
                 /\ r \in D => r \in C
        BY <4>1, <3>4, <3>6, <2>0
      <4>2. CASE IncrDaily(r)
        <5>1. daily' = daily + 1 /\ r \in C /\ r \notin D
          BY <4>2, <3>3, Moves DEF IncrDaily, Moved
        <5> QED
          BY <5>1, <3>4, <3>6, <2>0
      <4>3. CASE ReadCount(r)
        <5>1. daily' = daily /\ (r \in D => daily < DailyLimit)
          BY <4>3, <3>3, Moves DEF ReadCount, ReadCountUpTo, Moved, dailyVars
        <5> QED
          BY <5>1, <3>4, <3>6, <2>0
      <4>4. ASSUME Ask(r) \/ (\E guess \in Codes : Verify(r, guess)) \/ ReadLimits(r)
                   \/ SetCode(r) \/ SetWait(r) \/ ExpireDaily(r)
            PROVE  daily' = daily /\ (r \in D => r \in C)
        BY <4>4, <3>3, Moves DEF Moved, Ask, Verify, VerifyWith, ReadLimits, SetCode, SetWait,
           ExpireDaily, ExpireIf, dailyVars
      <4>5. ASSUME ReadRetries(r) \/ Compare(r) \/ Miss(r) \/ SetLock(r) \/ Clear(r) \/ RequestLost(r)
            PROVE  daily' = daily /\ (r \in D => r \in C)
        BY <4>5, <3>3, Moves DEF Moved, ReadRetries, ReadRetriesUpTo, Compare, Miss, SetLock,
           Clear, ClearLeaving, RequestLost, dailyVars
      <4> QED
        BY <4>1, <4>2, <4>3, <4>4, <4>5, <2>3 DEF Handling
    <3>8. /\ retries' \in Nat
          /\ retries' + Cardinality(H) < RetryLimit + Cardinality(Requests)
      <4>1. CASE /\ retries' = retries \/ retries' = 0
                 /\ r \in H => r \in G
        BY <4>1, <3>5, <3>6, <2>0
      <4>2. CASE Miss(r)
        <5>1. retries' = retries + 1 /\ r \in G /\ r \notin H
          BY <4>2, <3>3, Moves DEF Miss, Moved
        <5> QED
          BY <5>1, <3>5, <3>6, <2>0
      <4>3. CASE ReadRetries(r)
        <5>1. retries' = retries /\ (r \in H => retries < RetryLimit)
          BY <4>3, <3>3, Moves DEF ReadRetries, ReadRetriesUpTo, Moved, retryVars
        <5> QED
          BY <5>1, <3>5, <3>6, <2>0
      <4>4. ASSUME Ask(r) \/ (\E guess \in Codes : Verify(r, guess)) \/ ReadLimits(r) \/ ReadCount(r)
                   \/ SetCode(r) \/ SetWait(r) \/ IncrDaily(r) \/ ExpireDaily(r)
            PROVE  retries' = retries /\ (r \in H => r \in G)
        BY <4>4, <3>3, Moves DEF Moved, Ask, Verify, VerifyWith, ReadLimits, ReadCount, ReadCountUpTo,
           SetCode, SetWait, IncrDaily, ExpireDaily, ExpireIf, retryVars
      <4>5. ASSUME Compare(r) \/ SetLock(r) \/ Clear(r) \/ RequestLost(r)
            PROVE  (retries' = retries \/ retries' = 0) /\ (r \in H => r \in G)
        BY <4>5, <3>3, Moves DEF Moved, Compare, SetLock, Clear, ClearLeaving, RequestLost, retryVars
      <4> QED
        BY <4>1, <4>2, <4>3, <4>4, <4>5, <2>3 DEF Handling
    <3> QED
      BY <3>7, <3>8 DEF LimitInv, D, H
  <2>4. CASE CodeEnds \/ WaitEnds \/ DayEnds \/ LockEnds \/ UNCHANGED vars
    <3>1. req' = req /\ (daily' = daily \/ daily' = 0) /\ (retries' = retries \/ retries' = 0)
      BY <2>4 DEF CodeEnds, WaitEnds, DayEnds, LockEnds, vars, dailyVars, retryVars
    <3>2. Calling' = Calling /\ Guessing' = Guessing
      BY <3>1 DEF Calling, Guessing
    <3>3. Cardinality(Calling) \in Nat /\ Cardinality(Guessing) \in Nat /\ Cardinality(Requests) \in Nat
      <4>1. Calling \in SUBSET Requests /\ Guessing \in SUBSET Requests
        BY DEF Calling, Guessing
      <4>2. IsFiniteSet(Calling) /\ IsFiniteSet(Guessing)
        BY <4>1, FS_Subset
      <4> QED
        BY <4>2, FS_CardinalityType
    <3> HIDE DEF Calling, Guessing
    <3>4. /\ daily + Cardinality(Calling) < DailyLimit + Cardinality(Requests)
          /\ retries + Cardinality(Guessing) < RetryLimit + Cardinality(Requests)
      BY DEF LimitInv
    <3>5. /\ daily' + Cardinality(Calling) < DailyLimit + Cardinality(Requests)
          /\ retries' + Cardinality(Guessing) < RetryLimit + Cardinality(Requests)
      BY <3>1, <3>3, <3>4, <2>0
    <3> QED
      BY <3>2, <3>5 DEF LimitInv
  <2> QED
    BY <2>3, <2>4 DEF Next
<1>3. TypeOK /\ LimitInv => CallsLimited /\ AttemptsLimited
  <2> SUFFICES ASSUME TypeOK, LimitInv PROVE CallsLimited /\ AttemptsLimited
    OBVIOUS
  <2>1. Cardinality(Calling) \in Nat /\ Cardinality(Guessing) \in Nat /\ Cardinality(Requests) \in Nat
    <3>1. Calling \in SUBSET Requests /\ Guessing \in SUBSET Requests
      BY DEF Calling, Guessing
    <3>2. IsFiniteSet(Calling) /\ IsFiniteSet(Guessing)
      BY <3>1, FS_Subset
    <3> QED
      BY <3>2, FS_CardinalityType
  <2> QED
    BY <2>1 DEF TypeOK, LimitInv, CallsLimited, AttemptsLimited
<1> QED
  BY <1>1, <1>2, <1>3, OtpTypes, PTL DEF Spec

\* However many requests ask for a call at once, those over the limit of a day are
\* fewer than the requests themselves (_check_otp_limits).
THEOREM CallsHold == Spec => []CallsLimited
  BY LimitsHold, PTL

\* The same for the attempts at guessing the code (verify_otp_code).
THEOREM AttemptsHold == Spec => []AttemptsLimited
  BY LimitsHold, PTL

-----------------------------------------------------------------------------
(* Locks and spent codes *)

\* Any counter, not only one that refuses, has a lifetime or is about to get one
LockInv ==
    /\ daily > 0 => dailyEnds \/ "day" \in torn \/ \E r \in Requests : At(r, "day")
    /\ retries > 0 => retryEnds \/ "lock" \in torn \/ \E r \in Requests : At(r, "lock")

\* A spent code is not stored
SpentIsGone == code \notin spent

LEMMA LocksAndCodes == Spec => [](LocksEnd /\ SpentIsGone)
<1> USE OtpAssumption
<1>1. Init => LockInv /\ SpentIsGone
  BY DEF Init, LockInv, SpentIsGone
<1>2. TypeOK /\ LockInv /\ SpentIsGone /\ [Next]_vars => LockInv' /\ SpentIsGone'
  <2> SUFFICES ASSUME TypeOK, LockInv, SpentIsGone, [Next]_vars
               PROVE  LockInv' /\ SpentIsGone'
    OBVIOUS
  <2>0. daily \in Nat /\ retries \in Nat /\ None \notin spent
    BY DEF TypeOK
  <2> USE DEF codeVars, dailyVars, retryVars
  <2>1. ASSUME NEW r \in Requests,
               \/ Ask(r) \/ (\E guess \in Codes : Verify(r, guess)) \/ ReadLimits(r)
               \/ ReadCount(r) \/ SetCode(r) \/ SetWait(r) \/ ReadRetries(r) \/ Compare(r)
        PROVE  LockInv'
    <3>1. UNCHANGED <<daily, dailyEnds, retries, retryEnds, torn>>
      BY <2>1 DEF Ask, Verify, VerifyWith, ReadLimits, ReadCount, ReadCountUpTo, SetCode, SetWait,
                  ReadRetries, ReadRetriesUpTo, Compare
    <3>2. \A q \in Requests : At(q, "day") \/ At(q, "lock") => req'[q] = req[q]
      BY <2>1, Moves DEF Moved, At
    <3> QED
      BY <3>1, <3>2 DEF LockInv, At
  <2>2. ASSUME NEW r \in Requests, IncrDaily(r)
        PROVE  LockInv'
    <3>1. /\ \A q \in Requests : At(q, "lock") => At(q, "lock")'
          /\ At(r, "day")'
      BY <2>2, Moves DEF Moved, At
    <3> QED
      BY <2>2, <3>1 DEF IncrDaily, LockInv
  <2>3. ASSUME NEW r \in Requests, ExpireDaily(r)
        PROVE  LockInv'
    <3>1. \A q \in Requests : At(q, "lock") => At(q, "lock")'
      BY <2>3, Moves DEF Moved, At
    <3> QED
      BY <2>3, <3>1 DEF ExpireDaily, ExpireIf, LockInv
  <2>4. ASSUME NEW r \in Requests, Miss(r)
        PROVE  LockInv'
    <3>1. /\ \A q \in Requests : At(q, "day") => At(q, "day")'
          /\ \A q \in Requests : At(q, "lock") => At(q, "lock")'
          /\ retries = 0 => At(r, "lock")'
      BY <2>4, <2>0, Moves DEF Moved, At
    <3>2. retries' = retries + 1 /\ UNCHANGED <<daily, dailyEnds, retryEnds, torn>>
      BY <2>4 DEF Miss
    <3> QED
      BY <3>1, <3>2, <2>0 DEF LockInv
  <2>5. ASSUME NEW r \in Requests, SetLock(r) \/ Clear(r)
        PROVE  LockInv'
    <3>1. \A q \in Requests : At(q, "day") => At(q, "day")'
      BY <2>5, Moves DEF Moved, At
    <3>2. UNCHANGED <<daily, dailyEnds, torn>>
      BY <2>5 DEF SetLock, Clear, ClearLeaving
    <3>3. retries' > 0 => retryEnds'
      <4>1. CASE SetLock(r)
        <5>1. retries' = retries /\ retryEnds' = (retries > 0)
          BY <4>1 DEF SetLock
        <5> QED
          BY <5>1, Zenon
      <4>2. CASE Clear(r)
        BY <4>2 DEF Clear, ClearLeaving
      <4> QED
        BY <2>5, <4>1, <4>2
    <3> QED
      BY <3>1, <3>2, <3>3 DEF LockInv
  <2>6. ASSUME NEW r \in Requests, RequestLost(r)
        PROVE  LockInv'
    <3>1. /\ \A q \in Requests \ {r} : req'[q] = req[q]
          /\ torn' = torn \cup ({req[r].step} \cap {"day", "lock"})
          /\ UNCHANGED <<daily, dailyEnds, retries, retryEnds>>
      BY <2>6, Moves DEF Moved, RequestLost
    <3> QED
      BY <3>1 DEF LockInv, At
  <2>7. CASE CodeEnds \/ WaitEnds \/ DayEnds \/ LockEnds \/ UNCHANGED vars
    <3>1. /\ req' = req /\ torn' = torn
          /\ daily' = 0 \/ UNCHANGED dailyVars
          /\ retries' = 0 \/ UNCHANGED retryVars
          /\ code' = None \/ code' = code
          /\ spent' = spent
      BY <2>7 DEF CodeEnds, WaitEnds, DayEnds, LockEnds, vars
    <3>2. LockInv'
      BY <3>1 DEF LockInv, At
    <3>3. SpentIsGone'
      BY <3>1, <2>0 DEF SpentIsGone
    <3> QED
      BY <3>2, <3>3
  <2>8. ASSUME NEW r \in Requests, Ask(r) \/ (\E guess \in Codes : Verify(r, guess)) \/ Handling(r)
        PROVE  LockInv'
    BY <2>8, <2>1, <2>2, <2>3, <2>4, <2>5, <2>6 DEF Handling
  <2>9. ASSUME NEW r \in Requests, Ask(r) \/ (\E guess \in Codes : Verify(r, guess)) \/ Handling(r)
        PROVE  SpentIsGone'
    <3>1. CASE UNCHANGED codeVars
      BY <3>1 DEF SpentIsGone
    <3>2. CASE SetCode(r)
      BY <3>2 DEF SetCode, SpentIsGone
    <3>3. CASE Clear(r)
      <4>1. req[r].guess \in Codes
        BY <3>3 DEF Clear, ClearLeaving, At, TypeOK, Sound
      <4> QED
        BY <4>1, <3>3, <2>0 DEF Clear, ClearLeaving, SpentIsGone
    <3> QED
      BY <2>9, <3>1, <3>2, <3>3 DEF Ask, Verify, VerifyWith, Handling, ReadLimits, ReadCount,
         ReadCountUpTo, SetWait, IncrDaily, ExpireDaily, ExpireIf, ReadRetries, ReadRetriesUpTo,
         Compare, Miss, SetLock, RequestLost
  <2> QED
    BY <2>7, <2>8, <2>9 DEF Next
<1>3. TypeOK /\ LockInv => LocksEnd
  BY DEF TypeOK, LockInv, LocksEnd
<1> QED
  BY <1>1, <1>2, <1>3, OtpTypes, PTL DEF Spec

\* A phone is never locked for good, unless a request died between the INCR of a
\* counter and its EXPIRE (_increment_otp_stats, verify_otp_code).
THEOREM LocksAreTemporary == Spec => []LocksEnd
  BY LocksAndCodes, PTL

\* Only a lookup admits, and it admits with the code that is stored
LEMMA AdmittedByCompare ==
  ASSUME TypeOK, SpentIsGone, [Next]_vars, NEW c \in spent
  PROVE  Admitted(c)' \subseteq Admitted(c)
<1> SUFFICES ASSUME NEW r \in Requests, req'[r].step = "clear", req'[r].guess = c
             PROVE  req[r].step = "clear" /\ req[r].guess = c
  BY DEF Admitted, At
<1>1. CASE req'[r] = req[r]
  BY <1>1
<1>2. ASSUME NEW p \in Requests,
             Ask(p) \/ (\E guess \in Codes : Verify(p, guess)) \/ Handling(p)
      PROVE  req'[r] = req[r] \/ Compare(r)
  <2>1. CASE p # r
    BY <1>2, <2>1, Moves DEF Moved, Handling
  <2>2. CASE p = r
    BY <1>2, <2>2, Moves DEF Moved, Handling
  <2> QED
    BY <2>1, <2>2
<1>3. ~Compare(r)
  <2> SUFFICES ASSUME Compare(r) PROVE FALSE
    OBVIOUS
  <2>1. code = req[r].guess
    BY Moves DEF Moved
  <2>2. req'[r].guess = req[r].guess
    BY DEF Compare, GoTo, Serve, TypeOK, Request
  <2> QED
    BY <2>1, <2>2 DEF SpentIsGone
<1>4. CodeEnds \/ WaitEnds \/ DayEnds \/ LockEnds \/ UNCHANGED vars => req' = req
  BY DEF CodeEnds, WaitEnds, DayEnds, LockEnds, vars
<1> QED
  BY <1>1, <1>2, <1>3, <1>4 DEF Next

\* A code that admitted somebody admits nobody whose lookup comes after, for any number
\* of requests: of two that find it at once both are admitted, a later one is not, until
\* the same digits are given out again (verify_otp_code).
THEOREM SpentCodesGone == Spec => SpentAdmitsNoMore
<1>1. TypeOK /\ SpentIsGone /\ [Next]_vars =>
        [\A c \in spent : Admitted(c)' \subseteq Admitted(c)]_vars
  BY AdmittedByCompare
<1>2. Spec => []SpentIsGone
  BY LocksAndCodes, PTL
<1> QED
  BY <1>1, <1>2, OtpTypes, PTL DEF Spec, SpentAdmitsNoMore
=============================================================================
