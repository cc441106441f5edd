------------------------------ MODULE Accounts ------------------------------
(***************************************************************************)
(* The rows of `users`: registration and login, the owner's own changes,    *)
(* the administrators' changes, duty, deletion, and the nightly purge with  *)
(* the S3 files of those it deletes.                                        *)
(*                                                                          *)
(* A request reads rows by plain SELECTs, its user's when it is             *)
(* authenticated, decides, and writes by an UPDATE of the user's id that    *)
(* looks at nothing else.  Sessions are in Sessions, orders in Billing.     *)
(***************************************************************************)
EXTENDS Naturals

CONSTANTS
    Users,      \* ids of rows; one id for ever, also when a phone registers again
    MayBecome,  \* the partners that some of them can become; nobody becomes both
    ProfileId,  \* the id that a guide's row in trip_guide_profiles has
    Owners,     \* users whom create_admin.py is run for
    Jobs,       \* requests, and runs of the nightly task, going on at the same time
    Faults,     \* which parts of the environment may fail
    None        \* no user

PartnerKinds == {"supplier", "trip_guide"}
FaultKinds   == {"api", "s3"}

ASSUME AccountsAssumption ==
    /\ Users \subseteq Nat
    /\ MayBecome \in [Users -> SUBSET PartnerKinds]
    /\ Owners \subseteq Users
    /\ Faults \subseteq FaultKinds
    /\ None \notin Users

VARIABLES
    row,         \* users: what a row holds
    profiles,    \* users with a partner's profile
    programmes,  \* guides with excursions
    busy,        \* drivers with an assigned order
    referenced,  \* users named by orders, their logs or reviews: RESTRICT
    job,         \* the requests and the runs of the nightly task
    prefixes,    \* users' folders that delete_user_s3_resources_task is to delete
    tours,       \* excursions' folders likewise, by the guide they belong to
    wiped,       \* users whose folders are deleted
    toursWiped   \* guides whose excursions' folders are deleted

orderVars  == <<profiles, programmes, busy, referenced>>
folderVars == <<prefixes, tours, wiped, toursWiped>>
vars       == <<row, orderVars, job, folderVars>>

Roles == {"customer", "admin"} \cup PartnerKinds

Row == [state: {"absent", "active", "deleted", "purged"}, role: Roles, super: BOOLEAN,
        banned: BOOLEAN, named: BOOLEAN, available: BOOLEAN]
NewRow == [state |-> "active", role |-> "customer", super |-> FALSE, banned |-> FALSE,
           named |-> FALSE, available |-> TRUE]
NoRow     == [NewRow EXCEPT !.state = "absent"]
PurgedRow == [NewRow EXCEPT !.state = "purged"]

Exists(u) == row[u].state \in {"active", "deleted"}

\* get_role_level
Level(r) == IF r.super THEN 100
            ELSE IF r.role = "admin" THEN 50
            ELSE IF r.role \in PartnerKinds THEN 20 ELSE 10

Steps == {"idle", "role", "ban", "delete", "duty", "available", "accept", "purge", "send"}

\* What a request is to write, as it read or decided it: `role`, `flag` for a ban and for
\* the line; whom the purge selected, and the guides of the excursions it found.
\* History: `own`, the user himself asks; `owners`, those selected or read as owners;
\* `looked`, his orders were looked for
Job == [step: Steps, target: Users \cup {None}, role: Roles, flag: BOOLEAN,
        ids: SUBSET Users, guides: SUBSET Users,
        own: BOOLEAN, owners: SUBSET Users, looked: BOOLEAN]
NoJob == [step |-> "idle", target |-> None, role |-> "customer", flag |-> FALSE,
          ids |-> {}, guides |-> {}, own |-> FALSE, owners |-> {}, looked |-> FALSE]

Init ==
    /\ row        = [u \in Users |-> NoRow]
    /\ profiles   = {}
    /\ programmes = {}
    /\ busy       = {}
    /\ referenced = {}
    /\ job        = [j \in Jobs |-> NoJob]
    /\ prefixes   = {}
    /\ tours      = {}
    /\ wiped      = {}
    /\ toursWiped = {}

At(j, step)  == job[j].step = step
Run(j, new)  == job' = [job EXCEPT ![j] = new]
End(j)       == Run(j, NoJob)
Write(u, new) == row' = [row EXCEPT ![u] = new]

\* An UPDATE finds no row of an id that is gone, and the request is answered 404 or 500
Update(u, new) == IF Exists(u) THEN Write(u, new) ELSE UNCHANGED row

\* get_current_user
Authenticated(u) == row[u].state = "active" /\ ~row[u].banned

\* `actor` sends a request about a user, whose row is read
Ask(j, actor, u, step, role, flag) ==
    /\ At(j, "idle")
    /\ Authenticated(actor)
    /\ row[u].state = "active"
    /\ Run(j, [NoJob EXCEPT !.step = step, !.target = u, !.role = role, !.flag = flag,
                            !.own = (actor = u), !.owners = {v \in {u} : row[v].super}])
    /\ UNCHANGED <<row, orderVars, folderVars>>

-----------------------------------------------------------------------------
(* Users come, name themselves, become partners, work and leave *)

\* create_with_phone: an upsert that keeps the role and the ban.  The row it returns is
\* locked, and that of a banned user is rolled back.
Login(u) ==
    /\ row[u].state # "purged"
    /\ ~row[u].banned
    /\ Write(u, IF Exists(u) THEN [row[u] EXCEPT !.state = "active"] ELSE NewRow)
    /\ UNCHANGED <<orderVars, job, folderVars>>

\* complete_registration and the other changes of what is the user's own
ChangeProfile(u) ==
    /\ Authenticated(u)
    /\ Write(u, [row[u] EXCEPT !.named = TRUE])
    /\ UNCHANGED <<orderVars, job, folderVars>>

\* approve_partner_application (Onboarding)
BecomePartner(u, kind) ==
    /\ kind \in MayBecome[u]
    /\ Exists(u)
    /\ u \notin profiles
    /\ profiles' = profiles \cup {u}
    /\ Write(u, [row[u] EXCEPT !.role = kind])
    /\ UNCHANGED <<programmes, busy, referenced, job, folderVars>>

\* create_new_excursion_by_guide
Publish(u) ==
    /\ Authenticated(u)
    /\ u \in profiles
    /\ Level(row[u]) = 20
    /\ row[u].role = "trip_guide"
    /\ programmes' = programmes \cup {u}
    /\ UNCHANGED <<row, profiles, busy, referenced, job, folderVars>>

\* He orders, or somebody orders one of his excursions
Ordered(u) ==
    /\ Exists(u)
    /\ referenced' = referenced \cup {u}
    /\ UNCHANGED <<row, profiles, programmes, busy, job, folderVars>>

\* Administrators leave as customers
DeleteRead(j, u) ==
    Ask(j, u, u, "delete", IF row[u].role = "admin" THEN "customer" ELSE row[u].role, FALSE)

\* delete_account
DeleteCommit(j) ==
    LET u == job[j].target
    IN  /\ At(j, "delete")
        /\ Update(u, [row[u] EXCEPT !.state = "deleted", !.super = FALSE, !.role = job[j].role])
        /\ End(j)
        /\ UNCHANGED <<orderVars, folderVars>>

-----------------------------------------------------------------------------
(* Administrators *)

\* _validate_hierarchy
Outranks(a, u) == Level(row[a]) > Level(row[u])

RoleRead(j, a, u, role) ==
    /\ Level(row[a]) >= 50
    /\ IF a = u THEN row[a].super => role = "admin"
                ELSE Outranks(a, u) /\ (role = "admin" => row[a].super)
    /\ Ask(j, a, u, "role", role, FALSE)

\* set_user_role: is_superuser is set to False, whoever the user is
RoleCommit(j) ==
    LET u == job[j].target
    IN  /\ At(j, "role")
        /\ Update(u, [row[u] EXCEPT !.role = job[j].role, !.super = FALSE])
        /\ End(j)
        /\ UNCHANGED <<orderVars, folderVars>>

\* The opposite of what was read
BanRead(j, a, u) ==
    /\ a # u
    /\ Level(row[a]) >= 50
    /\ Outranks(a, u)
    /\ Ask(j, a, u, "ban", "customer", ~row[u].banned)

Banned(j) == [row[job[j].target] EXCEPT !.banned = job[j].flag]

\* MUTANT: a row is written whether there is one or not
BanBlind(j) ==
    /\ At(j, "ban")
    /\ Write(job[j].target, Banned(j))
    /\ End(j)
    /\ UNCHANGED <<orderVars, folderVars>>

\* toggle_user_ban, with its audit row in the same commit
BanCommit(j) ==
    /\ At(j, "ban")
    /\ Update(job[j].target, Banned(j))
    /\ End(j)
    /\ UNCHANGED <<orderVars, folderVars>>

\* scripts/create_admin.py, by hand, of a phone that may belong to a deleted user
Promote(u) ==
    /\ Exists(u)
    /\ Write(u, [row[u] EXCEPT !.role = "admin", !.super = TRUE])
    /\ UNCHANGED <<orderVars, job, folderVars>>

-----------------------------------------------------------------------------
(* Duty: toggle_work_status, and accept_order_by_driver of Billing *)

DutyRead(j, u) ==
    /\ Level(row[u]) = 20
    /\ Ask(j, u, u, "duty", "customer", ~row[u].available)

\* Only a user who was on the line is asked for his orders
DutyCheck(j) ==
    /\ At(j, "duty")
    /\ job[j].flag \/ job[j].target \notin busy
    /\ Run(j, [job[j] EXCEPT !.step = "available", !.looked = ~job[j].flag])
    /\ UNCHANGED <<row, orderVars, folderVars>>

SetDuty(j, available) ==
    LET u == job[j].target
    IN  /\ At(j, "available")
        /\ Update(u, [row[u] EXCEPT !.available = available])
        /\ End(j)
        /\ UNCHANGED <<orderVars, folderVars>>

\* MUTANT: SET is_available = NOT is_available
DutyFlip(j) == SetDuty(j, ~row[job[j].target].available)

\* The opposite of what was read; the Redis keys that are deleted then nobody writes
DutyCommit(j) == SetDuty(j, job[j].flag)

AcceptRead(j, u) ==
    /\ Level(row[u]) = 20
    /\ row[u].role = "supplier"
    /\ row[u].available
    /\ u \in profiles
    /\ Ask(j, u, u, "accept", "customer", FALSE)

\* The order's performer has to be there: a foreign key
AcceptCommit(j) ==
    LET u == job[j].target
    IN  /\ At(j, "accept")
        /\ Exists(u)
        /\ busy' = busy \cup {u}
        /\ referenced' = referenced \cup {u}
        /\ End(j)
        /\ UNCHANGED <<row, profiles, programmes, folderVars>>

\* Cancelled, by whomever; the order and its log stay
OrderEnds(u) ==
    /\ u \in busy
    /\ busy' = busy \ {u}
    /\ UNCHANGED <<row, profiles, programmes, referenced, job, folderVars>>

\* He has an order that keeps him on the line, or the order is somebody else's by now
Refused(j) ==
    /\ \/ At(j, "duty") /\ ~job[j].flag /\ job[j].target \in busy
       \/ At(j, "accept")
    /\ End(j)
    /\ UNCHANGED <<row, orderVars, folderVars>>

-----------------------------------------------------------------------------
(* purge_abandoned_and_deleted_users, delete_user_s3_resources_task *)

\* get_excursion_ids_by_guides takes ids of profiles and is given those of users
Select(j, users) ==
    /\ At(j, "idle")
    /\ users # {}
    /\ Run(j, [NoJob EXCEPT !.step = "purge", !.ids = users,
                            !.guides = {g \in programmes : ProfileId[g] \in users},
                            !.owners = {u \in users : row[u].super}])
    /\ UNCHANGED <<row, orderVars, folderVars>>

\* Deleted, or without a name; 30 and 180 days may be over for each of them or not
MayBeDue(u) == row[u].state = "deleted" \/ (row[u].state = "active" /\ ~row[u].named)

\* MUTANT: owners are selected too
PurgeSelectAll(j, users) ==
    /\ \A u \in users : MayBeDue(u)
    /\ Select(j, users)

\* get_expired_and_abandoned_users
PurgeSelect(j, users) ==
    /\ \A u \in users : MayBeDue(u) /\ ~row[u].super
    /\ Select(j, users)

\* After logout_all of each: one DELETE by the ids, with the profiles and excursions
PurgeCommit(j) ==
    LET ids == job[j].ids
    IN  /\ At(j, "purge")
        /\ ids \cap referenced = {}
        /\ row' = [u \in Users |-> IF u \in ids THEN PurgedRow ELSE row[u]]
        /\ profiles' = profiles \ ids
        /\ programmes' = programmes \ ids
        /\ Run(j, [job[j] EXCEPT !.step = "send"])
        /\ UNCHANGED <<busy, referenced, folderVars>>

\* One user with an order, and the database refuses the deletion of all
PurgeRefused(j) ==
    /\ At(j, "purge")
    /\ job[j].ids \cap referenced # {}
    /\ End(j)
    /\ UNCHANGED <<row, orderVars, folderVars>>

SendFolders(j) ==
    /\ prefixes' = prefixes \cup job[j].ids
    /\ tours' = tours \cup job[j].guides
    /\ UNCHANGED <<row, orderVars, wiped, toursWiped>>

\* MUTANT: the task is sent when the folders are known
PurgeSendEarly(j) ==
    /\ job[j].step \in {"purge", "send"}
    /\ SendFolders(j)
    /\ IF At(j, "send") THEN End(j) ELSE UNCHANGED job

PurgeSend(j) ==
    /\ At(j, "send")
    /\ SendFolders(j)
    /\ End(j)

\* delete_directory_by_prefix
WipeFolder(u) ==
    /\ u \in prefixes
    /\ prefixes' = prefixes \ {u}
    /\ wiped' = wiped \cup {u}
    /\ UNCHANGED <<row, orderVars, job, tours, toursWiped>>

WipeTours(g) ==
    /\ g \in tours
    /\ tours' = tours \ {g}
    /\ toursWiped' = toursWiped \cup {g}
    /\ UNCHANGED <<row, orderVars, job, prefixes, wiped>>

\* A task that raises is not repeated
FoldersStay(u) ==
    /\ "s3" \in Faults
    /\ u \in prefixes \cup tours
    /\ prefixes' = prefixes \ {u}
    /\ tours' = tours \ {u}
    /\ UNCHANGED <<row, orderVars, job, wiped, toursWiped>>

\* The process dies or the commit raises; a purge that is delivered again selects anew
JobLost(j) ==
    /\ "api" \in Faults
    /\ ~At(j, "idle")
    /\ End(j)
    /\ UNCHANGED <<row, orderVars, folderVars>>

-----------------------------------------------------------------------------

UserStep(u) ==
    \/ Login(u)
    \/ ChangeProfile(u)
    \/ Publish(u)
    \/ Ordered(u)
    \/ OrderEnds(u)
    \/ WipeFolder(u)
    \/ WipeTours(u)
    \/ FoldersStay(u)

Asked(j, u) ==
    \/ DeleteRead(j, u)
    \/ DutyRead(j, u)
    \/ AcceptRead(j, u)
    \/ \E a \in Users : BanRead(j, a, u)
    \/ \E a \in Users, role \in {"customer", "admin"} : RoleRead(j, a, u, role)

Answered(j) ==
    \/ DeleteCommit(j)
    \/ RoleCommit(j)
    \/ BanCommit(j)
    \/ DutyCheck(j)
    \/ DutyCommit(j)
    \/ AcceptCommit(j)
    \/ Refused(j)
    \/ JobLost(j)

PurgeStep(j) ==
    \/ \E users \in SUBSET Users : PurgeSelect(j, users)
    \/ PurgeCommit(j)
    \/ PurgeRefused(j)
    \/ PurgeSend(j)

Next ==
    \/ \E u \in Users : UserStep(u)
    \/ \E u \in Users, kind \in PartnerKinds : BecomePartner(u, kind)
    \/ \E u \in Owners : Promote(u)
    \/ \E j \in Jobs : Answered(j) \/ PurgeStep(j)
    \/ \E j \in Jobs, u \in Users : Asked(j, u)

Spec == Init /\ [][Next]_vars

-----------------------------------------------------------------------------
(* What the users' rows promise *)

TypeOK ==
    /\ row \in [Users -> Row]
    /\ profiles \subseteq Users
    /\ programmes \subseteq profiles
    /\ busy \subseteq referenced
    /\ referenced \subseteq Users
    /\ job \in [Jobs -> Job]
    /\ prefixes \subseteq Users
    /\ tours \subseteq Users
    /\ wiped \subseteq Users
    /\ toursWiped \subseteq Users
    /\ \A u \in Users :
          ~Exists(u) => row[u] \in {NoRow, PurgedRow} /\ u \notin profiles \cup referenced
    /\ \A j \in Jobs :
          job[j].step \notin {"idle", "purge", "send"} => job[j].target \in Users

\* A user's folders are deleted only after his row is gone for good: a purge that the
\* database refuses, or that dies half-way, touches no file of anybody who stays
\* ("Выполняется строго после commit", purge_abandoned_and_deleted_users).
FilesOutliveRows ==
    \A u \in prefixes \cup wiped : row[u].state = "purged"

Owner(u)   == Exists(u) /\ row[u].super
Written(j) == job[j].step # "idle" /\ job'[j] = NoJob

\* Nobody but the owner of the marketplace himself bans, demotes, deletes or purges
\* him, unless it was decided before he became the owner (_validate_hierarchy,
\* set_user_role, get_expired_and_abandoned_users).
OwnersSpared ==
    [][\A u \in Users : Owner(u) =>
          \/ Owner(u)' /\ (row'[u].banned => row[u].banned)
          \/ \E j \in Jobs : Written(j) /\ job[j].target = u
                                        /\ (job[j].own \/ u \notin job[j].owners)
          \/ \E j \in Jobs : u \in job[j].ids \ job[j].owners]_vars

\* A performer leaves the line only by a request that has looked for his orders and
\* found none, however many of his requests overlap (toggle_work_status).
OffLineOnlyWhenFree ==
    [][\A u \in Users : Exists(u) /\ row[u].available /\ ~row'[u].available =>
          \E j \in Jobs : Written(j) /\ job[j].target = u /\ job[j].looked]_vars

\* "Собираем ID всех экскурсий удаляемых гидов": user_service.py:387
ToursOutliveGuides == \A g \in toursWiped : g \notin programmes
=============================================================================
