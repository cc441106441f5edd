------------------------------ MODULE Sessions ------------------------------
(***************************************************************************)
(* The login sessions of one user (AuthService, create_tokens): the Redis   *)
(* keys `refresh:*`, `user_sessions:*` and `grace_period:*`, and the flags  *)
(* of the user's row.  Every Redis call is a step of its own, a pipeline    *)
(* with transaction=True is one step, and a handler keeps what an earlier   *)
(* call returned.                                                           *)
(*                                                                          *)
(* A session id is the rank of its creation time: the sorted set orders     *)
(* sessions by that score, whichever ZADD arrives first.                    *)
(***************************************************************************)
EXTENDS Naturals, FiniteSets

CONSTANTS
    Requests,     \* requests of this user, or about him, served at the same time
    MaxSid,       \* bound: sessions ever created
    MaxSessions   \* max_sessions_per_user

ASSUME SessionsAssumption ==
    /\ MaxSid \in Nat
    /\ MaxSessions \in Nat \ {0}

Sids == 1 .. MaxSid
None == 0   \* no session

VARIABLES
    banned,    \* users.is_banned
    deleted,   \* users.deleted_at is set and is_active is off
    index,     \* members of user_sessions:<user>
    data,      \* sessions with a refresh:<user>:<sid> key
    grace,     \* the session whose pair grace_period:<user>:<sid> keeps
    next,      \* number of session ids given out
    issued,    \* sessions whose tokens a client may hold
    req,       \* the requests being served
    stored     \* history: sessions whose refresh key was ever written

userVars == <<banned, deleted>>
vars     == <<userVars, index, data, grace, next, issued, req, stored>>

Operations == {"login", "refresh", "logout", "logout_all", "delete", "reject"}
Steps == {"idle", "exists", "user", "commit", "add", "pick", "store", "grace",
          "drop", "unindex", "list", "wipe", "sweep"}

\* `picked`: the ids a call returned; `due`: history, the sessions a logout_all is to end
Request == [op: Operations, step: Steps, old: Sids \cup {None}, new: Sids \cup {None},
            picked: SUBSET Sids, due: SUBSET Sids]
IdleRequest == [op |-> "login", step |-> "idle", old |-> None, new |-> None,
                picked |-> {}, due |-> {}]

Init ==
    /\ banned  = FALSE
    /\ deleted = FALSE
    /\ index   = {}
    /\ data    = {}
    /\ grace   = [s \in Sids |-> None]
    /\ next    = 0
    /\ issued  = {}
    /\ req     = [r \in Requests |-> IdleRequest]
    /\ stored  = {}

Serve(r, request) == req' = [req EXCEPT ![r] = request]
GoTo(r, step)     == Serve(r, [req[r] EXCEPT !.step = step])
Answer(r)         == Serve(r, IdleRequest)

\* Every session alive now is due
LogOutAll(r) == Serve(r, [IdleRequest EXCEPT !.op = "logout_all", !.step = "list",
                                             !.due = data])

\* create_tokens takes a new id and a timestamp
NewSession(r, operation, old) ==
    /\ next < MaxSid
    /\ next' = next + 1
    /\ Serve(r, [IdleRequest EXCEPT !.op = operation, !.step = "add",
                                    !.old = old, !.new = next + 1])

-----------------------------------------------------------------------------
(* Requests arrive *)

\* A verified phone: the row is created or restored; a banned user is refused
Login(r) ==
    /\ req[r].step = "idle"
    /\ ~banned
    /\ deleted' = FALSE
    /\ NewSession(r, "login", None)
    /\ UNCHANGED <<banned, index, data, grace, issued, stored>>

\* The refresh is repeated within its grace period: the same pair again
RefreshInGrace(s) ==
    /\ s \in issued
    /\ grace[s] # None
    /\ issued' = issued \cup {grace[s]}
    /\ UNCHANGED <<userVars, index, data, grace, next, req, stored>>

Ask(r, operation, s) ==
    /\ req[r].step = "idle"
    /\ s \in issued
    /\ Serve(r, [IdleRequest EXCEPT !.op = operation, !.step = "exists", !.old = s])
    /\ UNCHANGED <<userVars, index, data, grace, next, issued, stored>>

Refresh(r, s) ==
    /\ grace[s] = None
    /\ Ask(r, "refresh", s)

\* get_current_user comes first for any other operation
AskAsUser(r, s) == \E operation \in {"logout", "logout_all", "delete"} : Ask(r, operation, s)

\* An administrator; what the row holds is not what his handler read, perhaps
Ban(r) ==
    /\ req[r].step = "idle"
    /\ banned' = TRUE
    /\ LogOutAll(r)
    /\ UNCHANGED <<deleted, index, data, grace, next, issued, stored>>

Unban ==
    /\ banned' = FALSE
    /\ UNCHANGED <<deleted, index, data, grace, next, issued, req, stored>>

\* Another role, another phone
Reset(r) ==
    /\ req[r].step = "idle"
    /\ LogOutAll(r)
    /\ UNCHANGED <<userVars, index, data, grace, next, issued, stored>>

-----------------------------------------------------------------------------
(* validate_user_access *)

KeyExists(r) ==
    /\ req[r].step = "exists"
    /\ req[r].old \in data
    /\ GoTo(r, "user")
    /\ UNCHANGED <<userVars, index, data, grace, next, issued, stored>>

KeyMissing(r) ==
    /\ req[r].step = "exists"
    /\ req[r].old \notin data
    /\ Answer(r)
    /\ UNCHANGED <<userVars, index, data, grace, next, issued, stored>>

AdmitRefresh(r) ==
    /\ req[r].step = "user"
    /\ req[r].op = "refresh"
    /\ ~banned /\ ~deleted
    /\ NewSession(r, "refresh", req[r].old)
    /\ UNCHANGED <<userVars, index, data, grace, issued, stored>>

Admit(r) ==
    /\ req[r].step = "user"
    /\ ~banned /\ ~deleted
    /\ \/ req[r].op = "logout" /\ GoTo(r, "drop")
       \/ req[r].op = "logout_all" /\ LogOutAll(r)
       \/ req[r].op = "delete" /\ GoTo(r, "commit")
    /\ UNCHANGED <<userVars, index, data, grace, next, issued, stored>>

\* The session of a user who is out is logged out, and the request refused
Reject(r) ==
    /\ req[r].step = "user"
    /\ banned \/ deleted
    /\ Serve(r, [req[r] EXCEPT !.op = "reject", !.step = "drop"])
    /\ UNCHANGED <<userVars, index, data, grace, next, issued, stored>>

\* delete_account
DeleteCommit(r) ==
    /\ req[r].step = "commit"
    /\ deleted' = TRUE
    /\ LogOutAll(r)
    /\ UNCHANGED <<banned, index, data, grace, next, issued, stored>>

-----------------------------------------------------------------------------
(* create_tokens and _rotate_session *)

AddToZset(r, s) ==
    /\ req[r].step = "add"
    /\ index' = index \cup {s}
    /\ GoTo(r, "pick")
    /\ UNCHANGED <<userVars, data, grace, next, issued, stored>>

\* MUTANT: the id of the session that is rotated
AddOldId(r) == AddToZset(r, req[r].old)

AddToIndex(r) == AddToZset(r, req[r].new)

\* The newest members, `limit` of them if there are as many
Newest(kept, limit) ==
    /\ Cardinality(kept) = IF Cardinality(index) < limit THEN Cardinality(index) ELSE limit
    /\ \A s \in kept, t \in index \ kept : t < s

\* ZRANGE 0 -(limit + 1): everything but the newest `limit` members
PickOver(r, limit) ==
    /\ req[r].step = "pick"
    /\ \E kept \in SUBSET index :
          /\ Newest(kept, limit)
          /\ Serve(r, [req[r] EXCEPT !.step = "store", !.picked = index \ kept])
    /\ UNCHANGED <<userVars, index, data, grace, next, issued, stored>>

\* MUTANT: the range ends one rank too early
PickOneLess(r) == PickOver(r, MaxSessions + 1)

Pick(r) == PickOver(r, MaxSessions)

\* The pipeline writes the new key, then deletes the picked ones and their ids
StoreKey(r, s) ==
    /\ req[r].step = "store"
    /\ data' = (data \cup {s}) \ req[r].picked
    /\ stored' = stored \cup {s}
    /\ index' = index \ req[r].picked
    /\ IF req[r].op = "login"
       THEN issued' = issued \cup {s} /\ Answer(r)
       ELSE issued' = issued /\ GoTo(r, "grace")
    /\ UNCHANGED <<userVars, grace, next>>

\* MUTANT: a rotated session keeps its id
StoreSame(r) == StoreKey(r, IF req[r].op = "refresh" THEN req[r].old ELSE req[r].new)

Store(r) == StoreKey(r, req[r].new)

SetGrace(r) ==
    /\ req[r].step = "grace"
    /\ grace' = [grace EXCEPT ![req[r].old] = req[r].new]
    /\ GoTo(r, "drop")
    /\ UNCHANGED <<userVars, index, data, next, issued, stored>>

\* 60 seconds
GraceExpires(s) ==
    /\ grace[s] # None
    /\ grace' = [grace EXCEPT ![s] = None]
    /\ UNCHANGED <<userVars, index, data, next, issued, req, stored>>

-----------------------------------------------------------------------------
(* logout *)

DropKeys(r) ==
    /\ req[r].step = "drop"
    /\ data' = data \ {req[r].old}
    /\ grace' = [grace EXCEPT ![req[r].old] = None]
    /\ GoTo(r, "unindex")
    /\ UNCHANGED <<userVars, index, next, issued, stored>>

Unindex(r) ==
    /\ req[r].step = "unindex"
    /\ index' = index \ {req[r].old}
    /\ issued' = IF req[r].op = "refresh" THEN issued \cup {req[r].new} ELSE issued
    /\ Answer(r)
    /\ UNCHANGED <<userVars, data, grace, next, stored>>

-----------------------------------------------------------------------------
(* logout_all *)

ListIndex(r) ==
    /\ req[r].step = "list"
    /\ Serve(r, IF index = {} THEN [req[r] EXCEPT !.step = "sweep", !.picked = data]
                ELSE [req[r] EXCEPT !.step = "wipe", !.picked = index])
    /\ UNCHANGED <<userVars, index, data, grace, next, issued, stored>>

\* One DEL of the listed sessions' keys and of the index
Wipe(r) ==
    /\ req[r].step = "wipe"
    /\ data' = data \ req[r].picked
    /\ grace' = [s \in Sids |-> IF s \in req[r].picked THEN None ELSE grace[s]]
    /\ index' = {}
    /\ Serve(r, [req[r] EXCEPT !.step = "sweep", !.picked = data'])
    /\ UNCHANGED <<userVars, next, issued, stored>>

\* SCAN returns the keys that were there when it began, and may return newer ones
SweepKeys(r, found) ==
    /\ req[r].step = "sweep"
    /\ data' = data \ found
    /\ Answer(r)
    /\ UNCHANGED <<userVars, index, grace, next, issued, stored>>

\* MUTANT: no second clean-up
SweepNothing(r) == SweepKeys(r, {})

Sweep(r) == \E newer \in SUBSET data : SweepKeys(r, req[r].picked \cup newer)

-----------------------------------------------------------------------------

\* The process dies or Redis does not answer
RequestLost(r) ==
    /\ req[r].step # "idle"
    /\ Answer(r)
    /\ UNCHANGED <<userVars, index, data, grace, next, issued, stored>>

Arrival(r) ==
    \/ Login(r)
    \/ \E s \in Sids : Refresh(r, s) \/ AskAsUser(r, s)
    \/ Ban(r)
    \/ Reset(r)

Handling(r) ==
    \/ KeyExists(r) \/ KeyMissing(r)
    \/ AdmitRefresh(r) \/ Admit(r) \/ Reject(r) \/ DeleteCommit(r)
    \/ AddToIndex(r) \/ Pick(r) \/ Store(r) \/ SetGrace(r)
    \/ DropKeys(r) \/ Unindex(r)
    \/ ListIndex(r) \/ Wipe(r) \/ Sweep(r)
    \/ RequestLost(r)

Next ==
    \/ \E r \in Requests : Arrival(r) \/ Handling(r)
    \/ \E s \in Sids : RefreshInGrace(s) \/ GraceExpires(s)
    \/ Unban

Spec == Init /\ [][Next]_vars

-----------------------------------------------------------------------------
(* What the sessions promise *)

\* What a request knows at each step
Sound(request) ==
    /\ request.step \in {"exists", "user", "drop", "unindex"} => request.old \in Sids
    /\ request.step \in {"add", "pick", "store"} => request.op \in {"login", "refresh"}
    /\ request.step = "grace" => request.op = "refresh"
    /\ request.op = "refresh" => request.old \in Sids
    /\ request.step \in {"add", "pick", "store", "grace"} => request.new \in Sids
    /\ request.op = "refresh" /\ request.step \in {"drop", "unindex"} => request.new \in Sids

TypeOK ==
    /\ banned \in BOOLEAN
    /\ deleted \in BOOLEAN
    /\ index \subseteq Sids
    /\ data \subseteq Sids
    /\ grace \in [Sids -> Sids \cup {None}]
    /\ next \in 0 .. MaxSid
    /\ issued \subseteq Sids
    /\ req \in [Requests -> Request]
    /\ stored \subseteq Sids
    /\ \A r \in Requests : Sound(req[r])

\* The limit of devices: of the sessions that were ever completed, the index never
\* keeps more than max_sessions_per_user, whatever logins and refreshes overlap or
\* break off (create_tokens).
IndexCapped == Cardinality(index \cap stored) <= MaxSessions

\* A logout_all that is answered has ended every session that was alive when it
\* began, also the ones that fell out of the index in a race (logout_all's second
\* clean-up).
OldSessionsEnd ==
    [][\A r \in Requests : Sweep(r) =>
          data' \cap req[r].due = {}]_vars

LifeOf(s) == IF s \in data THEN "alive" ELSE IF s \in stored THEN "ended" ELSE "unknown"

Lives == INSTANCE SessionLife WITH life <- [s \in Sids |-> LifeOf(s)]

\* Whatever requests were under way when a session ended, it never comes back, and
\* no two logins or refreshes share a session.
KeepsLives == Lives!Spec

\* "Grace Period (Льготный период для повторных запросов)": auth_service.py:99.  A
\* refresh is answered while its old session's pair is kept for repeated requests.
GraceKept ==
    [][\A r \in Requests : req[r].op = "refresh" /\ Unindex(r) =>
          grace[req[r].old] = req[r].new]_vars
=============================================================================
