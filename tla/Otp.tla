-------------------------------- MODULE Otp --------------------------------
(***************************************************************************)
(* The one-time codes of one phone (AuthService.request_otp and             *)
(* verify_otp_code): the code, the minute between two calls, the calls of a *)
(* day and the failed attempts, each a Redis key with a lifetime.  Every    *)
(* Redis call is a step.                                                    *)
(***************************************************************************)
EXTENDS Naturals, FiniteSets

CONSTANTS
    Requests,     \* requests about this phone served at the same time
    Codes,        \* what a code can be
    DailyLimit,   \* calls of a day
    RetryLimit    \* failed attempts until the phone is locked

None == 0   \* no code

ASSUME OtpAssumption ==
    /\ IsFiniteSet(Requests)
    /\ None \notin Codes
    /\ DailyLimit \in Nat \ {0}
    /\ RetryLimit \in Nat \ {0}

VARIABLES
    code,        \* otp:<phone>
    waiting,     \* limit:otp_req_phone:<phone> exists
    daily,       \* limit:otp_daily:<phone>, 0 if there is none
    dailyEnds,   \* ... and has a lifetime
    retries,     \* limit:otp_retry:<phone>, 0 if there is none
    retryEnds,   \* ... and has a lifetime
    req,         \* the requests being served
    spent,       \* history: codes that admitted somebody and were not given out again
    torn         \* history: counters whose lifetime a lost request did not set

codeVars  == <<code, spent>>
dailyVars == <<daily, dailyEnds>>
retryVars == <<retries, retryEnds>>
vars      == <<codeVars, waiting, dailyVars, retryVars, req, torn>>

Steps == {"idle", "limits", "count", "set", "wait", "incr", "day",
          "blocked", "compare", "miss", "lock", "clear"}

\* `guess`: the code a verification brings
Request == [step: Steps, guess: Codes \cup {None}]
IdleRequest == [step |-> "idle", guess |-> None]

Init ==
    /\ code = None
    /\ waiting = FALSE
    /\ daily = 0
    /\ dailyEnds = FALSE
    /\ retries = 0
    /\ retryEnds = FALSE
    /\ req = [r \in Requests |-> IdleRequest]
    /\ spent = {}
    /\ torn = {}

At(r, step)       == req[r].step = step
Serve(r, request) == req' = [req EXCEPT ![r] = request]
GoTo(r, step)     == Serve(r, [req[r] EXCEPT !.step = step])
Answer(r)         == Serve(r, IdleRequest)

-----------------------------------------------------------------------------
(* request_otp *)

Ask(r) ==
    /\ At(r, "idle")
    /\ GoTo(r, "limits")
    /\ UNCHANGED <<codeVars, waiting, dailyVars, retryVars, torn>>

\* The limit of an address refuses requests too, and changes nothing else
ReadLimits(r) ==
    /\ At(r, "limits")
    /\ \/ ~waiting /\ GoTo(r, "count")
       \/ Answer(r)
    /\ UNCHANGED <<codeVars, waiting, dailyVars, retryVars, torn>>

ReadCountUpTo(r, limit) ==
    /\ At(r, "count")
    /\ IF daily < limit THEN GoTo(r, "set") ELSE Answer(r)
    /\ UNCHANGED <<codeVars, waiting, dailyVars, retryVars, torn>>

\* MUTANT: one call more
ReadCountLate(r) == ReadCountUpTo(r, DailyLimit + 1)

ReadCount(r) == ReadCountUpTo(r, DailyLimit)

\* Four random digits
SetCode(r) ==
    /\ At(r, "set")
    /\ \E c \in Codes : code' = c /\ spent' = spent \ {c}
    /\ GoTo(r, "wait")
    /\ UNCHANGED <<waiting, dailyVars, retryVars, torn>>

SetWait(r) ==
    /\ At(r, "wait")
    /\ waiting' = TRUE
    /\ GoTo(r, "incr")
    /\ UNCHANGED <<codeVars, dailyVars, retryVars, torn>>

IncrDaily(r) ==
    /\ At(r, "incr")
    /\ daily' = daily + 1
    /\ GoTo(r, "day")
    /\ UNCHANGED <<codeVars, waiting, dailyEnds, retryVars, torn>>

\* EXPIRE NX of what may be gone, then the call is ordered
ExpireIf(r, present) ==
    /\ At(r, "day")
    /\ dailyEnds' = (dailyEnds \/ present)
    /\ Answer(r)
    /\ UNCHANGED <<codeVars, waiting, daily, retryVars, torn>>

\* MUTANT: a lifetime for the first call only, as for the attempts
ExpireFirst(r) == ExpireIf(r, daily = 1)

ExpireDaily(r) == ExpireIf(r, daily > 0)

-----------------------------------------------------------------------------
(* verify_otp_code *)

VerifyWith(r, guess) ==
    /\ At(r, "idle")
    /\ Serve(r, [step |-> "blocked", guess |-> guess])
    /\ UNCHANGED <<codeVars, waiting, dailyVars, retryVars, torn>>

\* MUTANT: an empty code is not refused
VerifyEmpty(r, guess) == VerifyWith(r, None)

Verify(r, guess) == VerifyWith(r, guess)

ReadRetriesUpTo(r, limit) ==
    /\ At(r, "blocked")
    /\ IF retries < limit THEN GoTo(r, "compare") ELSE Answer(r)
    /\ UNCHANGED <<codeVars, waiting, dailyVars, retryVars, torn>>

\* MUTANT: `>` for `>=`
ReadRetriesLate(r) == ReadRetriesUpTo(r, RetryLimit + 1)

ReadRetries(r) == ReadRetriesUpTo(r, RetryLimit)

Compare(r) ==
    /\ At(r, "compare")
    /\ GoTo(r, IF code = req[r].guess THEN "clear" ELSE "miss")
    /\ UNCHANGED <<codeVars, waiting, dailyVars, retryVars, torn>>

Miss(r) ==
    /\ At(r, "miss")
    /\ retries' = retries + 1
    /\ IF retries' = 1 THEN GoTo(r, "lock") ELSE Answer(r)
    /\ UNCHANGED <<codeVars, waiting, dailyVars, retryEnds, torn>>

\* EXPIRE, which does nothing when the key is gone
SetLock(r) ==
    /\ At(r, "lock")
    /\ retryEnds' = (retries > 0)
    /\ Answer(r)
    /\ UNCHANGED <<codeVars, waiting, dailyVars, retries, torn>>

\* The attempts and the code are deleted, whatever code is there by now
ClearLeaving(r, left) ==
    /\ At(r, "clear")
    /\ code' = left
    /\ spent' = spent \cup {req[r].guess}
    /\ retries' = 0
    /\ retryEnds' = FALSE
    /\ Answer(r)
    /\ UNCHANGED <<waiting, dailyVars, torn>>

\* MUTANT: only the attempts
ClearAttempts(r) == ClearLeaving(r, code)

Clear(r) == ClearLeaving(r, None)

-----------------------------------------------------------------------------
(* Lifetimes and losses *)

CodeEnds ==
    /\ code # None
    /\ code' = None
    /\ UNCHANGED <<spent, waiting, dailyVars, retryVars, req, torn>>

WaitEnds ==
    /\ waiting
    /\ waiting' = FALSE
    /\ UNCHANGED <<codeVars, dailyVars, retryVars, req, torn>>

DayEnds ==
    /\ dailyEnds
    /\ daily' = 0
    /\ dailyEnds' = FALSE
    /\ UNCHANGED <<codeVars, waiting, retryVars, req, torn>>

LockEnds ==
    /\ retryEnds
    /\ retries' = 0
    /\ retryEnds' = FALSE
    /\ UNCHANGED <<codeVars, waiting, dailyVars, req, torn>>

\* The process dies or Redis does not answer
RequestLost(r) ==
    /\ ~At(r, "idle")
    /\ torn' = torn \cup ({req[r].step} \cap {"day", "lock"})
    /\ Answer(r)
    /\ UNCHANGED <<codeVars, waiting, dailyVars, retryVars>>

Handling(r) ==
    \/ ReadLimits(r) \/ ReadCount(r) \/ SetCode(r) \/ SetWait(r)
    \/ IncrDaily(r) \/ ExpireDaily(r)
    \/ ReadRetries(r) \/ Compare(r) \/ Miss(r) \/ SetLock(r) \/ Clear(r)
    \/ RequestLost(r)

Next ==
    \/ \E r \in Requests :
          \/ Ask(r)
          \/ \E guess \in Codes : Verify(r, guess)
          \/ Handling(r)
    \/ CodeEnds \/ WaitEnds \/ DayEnds \/ LockEnds

Spec == Init /\ [][Next]_vars

-----------------------------------------------------------------------------
(* What the codes promise *)

\* A verification brings a code to every step
Sound(request) ==
    request.step \in {"blocked", "compare", "miss", "lock", "clear"} => request.guess \in Codes

TypeOK ==
    /\ code \in Codes \cup {None}
    /\ waiting \in BOOLEAN
    /\ daily \in Nat
    /\ dailyEnds \in BOOLEAN
    /\ retries \in Nat
    /\ retryEnds \in BOOLEAN
    /\ req \in [Requests -> Request]
    /\ \A r \in Requests : Sound(req[r])
    /\ spent \subseteq Codes
    /\ torn \subseteq {"day", "lock"}

\* The limit of calls is exceeded by the requests that overlap at most, however
\* they interleave (_check_otp_limits, auth_service.py:290).
CallsLimited == daily < DailyLimit + Cardinality(Requests)

\* The same for the failed attempts (verify_otp_code).
AttemptsLimited == retries < RetryLimit + Cardinality(Requests)

\* A lock is temporary: a counter that refuses requests has a lifetime or a request
\* that is about to set it, unless a request died at that very call.
LocksEnd ==
    /\ daily >= DailyLimit => dailyEnds \/ "day" \in torn \/ \E r \in Requests : At(r, "day")
    /\ retries >= RetryLimit => retryEnds \/ "lock" \in torn \/ \E r \in Requests : At(r, "lock")

\* A code that admitted somebody admits nobody whose lookup comes after: those it still
\* admits had found it before it was deleted, until the same digits are given out again
\* (verify_otp_code).
Admitted(c) == {r \in Requests : At(r, "clear") /\ req[r].guess = c}
SpentAdmitsNoMore == [][\A c \in spent : Admitted(c)' \subseteq Admitted(c)]_vars
=============================================================================
