--------------------------- MODULE Accounts_proofs ---------------------------
(* Theorems about Accounts, for any users, owners, requests and nightly runs. *)
EXTENDS Accounts, TLAPS

-----------------------------------------------------------------------------
(* Rows *)

\* What happens to a user's row: nothing, an UPDATE, a registration, or the purge
Updated(u)    == row[u].state \in {"active", "deleted"} /\ row'[u].state \in {"active", "deleted"}
Registered(u) == row[u].state = "absent" /\ row'[u] = NewRow
Purged(u)     == row'[u] = PurgedRow

RowStep ==
    /\ row' \in [Users -> Row]
    /\ \A u \in Users : row'[u] = row[u] \/ Updated(u) \/ Registered(u) \/ Purged(u)

\* A changed row, field by field
LEMMA RowFields ==
  ASSUME NEW r \in Row, NEW x \in Roles, NEW b \in BOOLEAN, NEW c \in BOOLEAN
  PROVE  /\ NewRow \in Row /\ NoRow \in Row /\ PurgedRow \in Row
         /\ NoRow.state = "absent" /\ PurgedRow.state = "purged" /\ NewRow.state = "active"
         /\ [r EXCEPT !.state = "active"] \in Row
         /\ [r EXCEPT !.named = b] \in Row
         /\ [r EXCEPT !.banned = b] \in Row
         /\ [r EXCEPT !.available = b] \in Row
         /\ [r EXCEPT !.role = x] \in Row
         /\ [r EXCEPT !.role = x, !.super = b] \in Row
         /\ [r EXCEPT !.state = "deleted", !.super = b, !.role = x] \in Row
  BY DEF Row, NewRow, NoRow, PurgedRow, Roles

LEMMA Wrote ==
  ASSUME row \in [Users -> Row], NEW u \in Users, NEW new \in Row,
         Exists(u), new.state \in {"active", "deleted"}, Write(u, new)
  PROVE  RowStep /\ row'[u] = new /\ \A v \in Users \ {u} : row'[v] = row[v]
  BY DEF Write, RowStep, Updated, Exists

LEMMA WroteIfThere ==
  ASSUME row \in [Users -> Row], NEW u \in Users, NEW new \in Row,
         new.state \in {row[u].state, "deleted"}, Update(u, new)
  PROVE  /\ RowStep
         /\ row'[u] = IF Exists(u) THEN new ELSE row[u]
         /\ \A v \in Users \ {u} : row'[v] = row[v]
<1>1. CASE Exists(u)
  <2>1. new.state \in {"active", "deleted"}
    BY <1>1 DEF Exists
  <2> QED
    BY <1>1, <2>1, Wrote DEF Update
<1>2. CASE ~Exists(u)
  BY <1>2 DEF Update, RowStep
<1> QED
  BY <1>1, <1>2

-----------------------------------------------------------------------------
(* Jobs *)

\* What a request, or a run of the nightly task, knows at each step
Sound(q) ==
    /\ q \in Job
    /\ q.step \notin {"idle", "purge", "send"} => q.target \in Users
    /\ q.step \in {"role", "ban", "delete"} => q.own \/ q.target \notin q.owners
    /\ q.step = "available" => q.flag \/ q.looked
    /\ q.step = "purge" => q.ids \cap q.owners = {}

JobsSound == job \in [Jobs -> Job] /\ \A j \in Jobs : Sound(job[j])

\* The folders about to be sent belong to nobody any more
SentAreGone ==
    \A j \in Jobs : job[j].step = "send" => \A u \in job[j].ids : row[u].state = "purged"

LEMMA Ran ==
  ASSUME JobsSound, NEW j \in Jobs, NEW q, Sound(q), Run(j, q)
  PROVE  JobsSound' /\ job'[j] = q /\ \A k \in Jobs \ {j} : job'[k] = job[k]
<1>1. q \in Job
  BY DEF Sound
<1> QED
  BY <1>1 DEF JobsSound, Run, Sound

LEMMA Ended ==
  ASSUME JobsSound, NEW j \in Jobs, End(j)
  PROVE  JobsSound' /\ job'[j] = NoJob /\ \A k \in Jobs \ {j} : job'[k] = job[k]
<1>1. Sound(NoJob)
  BY DEF NoJob, Job, Steps, Roles, Sound
<1> QED
  BY <1>1, Ran DEF End

\* Every request begins by reading its target
LEMMA AskedSound ==
  ASSUME JobsSound, NEW j \in Jobs, NEW a \in Users, NEW u \in Users,
         NEW step \in {"role", "ban", "delete", "duty", "accept"},
         NEW role \in Roles, NEW flag \in BOOLEAN,
         step \in {"role", "ban", "delete"} => a = u \/ ~row[u].super,
         Ask(j, a, u, step, role, flag)
  PROVE  /\ JobsSound' /\ job'[j].step = step
         /\ \A k \in Jobs \ {j} : job'[k] = job[k]
<1> DEFINE own    == (a = u)
           owners == {v \in {u} : row[v].super}
           q == [NoJob EXCEPT !.step = step, !.target = u, !.role = role, !.flag = flag,
                              !.own = own, !.owners = owners]
<1>1. own \in BOOLEAN /\ owners \in SUBSET Users
  OBVIOUS
<1>2. u \notin owners <=> ~row[u].super
  OBVIOUS
<1>3. own <=> a = u
  OBVIOUS
<1>4. Run(j, q)
  BY DEF Ask
<1> HIDE DEF own, owners
<1>5. q \in Job
  BY <1>1 DEF Job, NoJob, Steps, Roles
<1>6. /\ q.step = step /\ q.target = u /\ q.own = own /\ q.owners = owners
  BY DEF NoJob
<1> HIDE DEF q
<1>7. Sound(q)
  BY <1>2, <1>3, <1>5, <1>6 DEF Sound
<1> QED
  BY <1>4, <1>6, <1>7, Ran

-----------------------------------------------------------------------------
(* The invariant, and what a step does to its parts *)

\* What TypeOK says of the sets
Sets ==
    /\ profiles \subseteq Users
    /\ programmes \subseteq profiles
    /\ busy \subseteq referenced
    /\ referenced \subseteq Users
    /\ prefixes \subseteq Users
    /\ tours \subseteq Users
    /\ wiped \subseteq Users
    /\ toursWiped \subseteq Users

\* Profiles and orders belong to rows that are there: cascades and foreign keys
Belong == \A u \in profiles \cup referenced : Exists(u)

Gone == \A u \in Users : ~Exists(u) => row[u] \in {NoRow, PurgedRow}

\* PurgeSend sends the folders of users whose rows PurgeCommit has deleted
IInv ==
    /\ row \in [Users -> Row]
    /\ Sets
    /\ Belong
    /\ Gone
    /\ JobsSound
    /\ SentAreGone
    /\ FilesOutliveRows

\* Rows move as RowStep says; the folders that are sent belong to users who are gone
Moves ==
    /\ RowStep
    /\ Sets'
    /\ Belong'
    /\ JobsSound'
    /\ \A j \in Jobs : job'[j].step = "send" =>
          \/ job'[j] = job[j]
          \/ \A u \in job'[j].ids : row'[u].state = "purged"
    /\ prefixes' \cup wiped' \subseteq
          prefixes \cup wiped \cup UNION {job[j].ids : j \in {k \in Jobs : At(k, "send")}}

LEMMA InvTypes == ASSUME IInv PROVE TypeOK
<1>1. \A u \in Users : ~Exists(u) => row[u] \in {NoRow, PurgedRow} /\ u \notin profiles \cup referenced
  BY DEF IInv, Gone, Belong
<1>2. \A j \in Jobs : job[j].step \notin {"idle", "purge", "send"} => job[j].target \in Users
  BY DEF IInv, JobsSound, Sound
<1> QED
  BY <1>1, <1>2 DEF IInv, Sets, JobsSound, TypeOK

LEMMA InvInit == ASSUME Init PROVE IInv
<1>1. row \in [Users -> Row]
  BY DEF Init, NoRow, NewRow, Row, Roles
<1>2. Sound(NoJob)
  BY DEF NoJob, Job, Steps, Roles, Sound
<1>3. JobsSound
  BY <1>2 DEF Init, JobsSound, Sound
<1>4. SentAreGone /\ FilesOutliveRows
  BY DEF Init, NoJob, SentAreGone, FilesOutliveRows
<1> QED
  BY <1>1, <1>3, <1>4 DEF Init, IInv, Sets, Belong, Gone

LEMMA MovesKeep == ASSUME IInv, Moves PROVE IInv'
<1>1. Gone'
  <2> SUFFICES ASSUME NEW u \in Users, ~Exists(u)'
               PROVE  row'[u] \in {NoRow, PurgedRow}
    BY DEF Gone
  <2>1. CASE row'[u] = row[u]
    BY <2>1 DEF IInv, Gone, Exists
  <2>2. CASE Registered(u)
    BY <2>2 DEF Registered, NewRow, Exists
  <2> QED
    BY <2>1, <2>2 DEF Moves, RowStep, Updated, Purged, Exists
<1>2. \A u \in Users : row[u].state = "purged" => row'[u].state = "purged"
  BY DEF Moves, RowStep, Updated, Registered, Purged, PurgedRow, NewRow
<1>3. SentAreGone'
  <2> SUFFICES ASSUME NEW j \in Jobs, job'[j].step = "send", NEW u \in job'[j].ids
               PROVE  row'[u].state = "purged"
    BY DEF SentAreGone
  <2>1. CASE job'[j] = job[j]
    <3>1. u \in Users
      BY <2>1 DEF IInv, JobsSound, Sound, Job
    <3> QED
      BY <2>1, <3>1, <1>2 DEF IInv, SentAreGone
  <2> QED
    BY <2>1 DEF Moves
<1>4. FilesOutliveRows'
  <2> SUFFICES ASSUME NEW u \in prefixes' \cup wiped' PROVE row'[u].state = "purged"
    BY DEF FilesOutliveRows
  <2>1. u \in Users
    BY DEF Moves, Sets
  <2>2. row[u].state = "purged"
    BY DEF Moves, IInv, SentAreGone, FilesOutliveRows, At
  <2> QED
    BY <2>1, <2>2, <1>2
<1> QED
  BY <1>1, <1>3, <1>4 DEF Moves, RowStep, IInv

-----------------------------------------------------------------------------
(* The actions *)

\* A step of a request or the nightly task, after which the job is idle or is asked
LEMMA JobMoved ==
  ASSUME IInv, UNCHANGED folderVars, NEW j \in Jobs, JobsSound',
         job'[j].step = "send" => \A u \in job'[j].ids : row'[u].state = "purged",
         \A k \in Jobs \ {j} : job'[k] = job[k],
         RowStep, Sets', Belong'
  PROVE  Moves
BY DEF Moves, folderVars

\* Rows that only change leave every profile and every order where it belongs
LEMMA RowMoved ==
  ASSUME IInv, NEW u \in Users, NEW new \in Row,
         new.state \in {row[u].state, "deleted"}, Update(u, new),
         UNCHANGED <<orderVars, folderVars>>
  PROVE  RowStep /\ Sets' /\ Belong'
<1>1. /\ RowStep
      /\ row'[u] = IF Exists(u) THEN new ELSE row[u]
      /\ \A v \in Users \ {u} : row'[v] = row[v]
  BY WroteIfThere DEF IInv
<1>2. \A v \in Users : Exists(v) => Exists(v)'
  BY <1>1 DEF Exists
<1>3. Belong'
  BY <1>2 DEF IInv, Belong, Sets, orderVars
<1> QED
  BY <1>1, <1>3 DEF IInv, Sets, orderVars, folderVars

LEMMA RowStays ==
  ASSUME IInv, UNCHANGED row
  PROVE  RowStep
BY DEF IInv, RowStep

LEMMA LoginMoves == ASSUME IInv, NEW u \in Users, Login(u) PROVE Moves
<1>1. RowStep /\ \A v \in Users : Exists(v) => Exists(v)'
  <2>1. CASE Exists(u)
    <3> DEFINE new == [row[u] EXCEPT !.state = "active"]
    <3>1. Write(u, new)
      BY <2>1 DEF Login
    <3>2. new \in Row /\ new.state = "active"
      BY DEF IInv, Row
    <3> HIDE DEF new
    <3>3. RowStep /\ row'[u] = new /\ \A v \in Users \ {u} : row'[v] = row[v]
      BY <2>1, <3>1, <3>2, Wrote DEF IInv
    <3> QED
      BY <3>2, <3>3 DEF Exists
  <2>2. CASE ~Exists(u)
    <3>1. row' = [row EXCEPT ![u] = NewRow]
      BY <2>2 DEF Login, Write
    <3>2. NewRow \in Row /\ NewRow.state = "active"
      BY DEF NewRow, Row, Roles
    <3>3. row[u].state = "absent"
      BY <2>2 DEF IInv, Gone, Login, PurgedRow, NoRow, NewRow
    <3> QED
      BY <2>2, <3>1, <3>2, <3>3 DEF IInv, RowStep, Registered, Exists
  <2> QED
    BY <2>1, <2>2
<1>2. UNCHANGED <<orderVars, job, folderVars>>
  BY DEF Login
<1>3. Belong' /\ Sets'
  BY <1>1, <1>2 DEF IInv, Belong, Sets, orderVars, folderVars
<1> QED
  BY <1>1, <1>2, <1>3 DEF Moves, IInv, JobsSound, folderVars

\* Changes of a row that do not touch its state
LEMMA ChangeMoves ==
  ASSUME IInv, NEW u \in Users, NEW new \in Row, new.state = row[u].state, Exists(u),
         Write(u, new), UNCHANGED <<orderVars, job, folderVars>>
  PROVE  Moves
<1>1. RowStep /\ Sets' /\ Belong'
  BY RowMoved DEF Update
<1> QED
  BY <1>1 DEF Moves, IInv, JobsSound, folderVars

LEMMA ProfileMoves == ASSUME IInv, NEW u \in Users, ChangeProfile(u) PROVE Moves
<1> DEFINE new == [row[u] EXCEPT !.named = TRUE]
<1>1. new \in Row /\ new.state = row[u].state
  BY DEF IInv, Row
<1>2. Write(u, new) /\ Exists(u) /\ UNCHANGED <<orderVars, job, folderVars>>
  BY DEF ChangeProfile, Authenticated, Exists
<1> HIDE DEF new
<1> QED
  BY <1>1, <1>2, ChangeMoves

LEMMA PromoteMoves == ASSUME IInv, NEW u \in Users, Promote(u) PROVE Moves
<1> DEFINE new == [row[u] EXCEPT !.role = "admin", !.super = TRUE]
<1>1. new \in Row /\ new.state = row[u].state
  BY DEF IInv, Row, Roles
<1>2. Write(u, new) /\ Exists(u) /\ UNCHANGED <<orderVars, job, folderVars>>
  BY DEF Promote
<1> HIDE DEF new
<1> QED
  BY <1>1, <1>2, ChangeMoves

LEMMA PartnerMoves ==
  ASSUME IInv, NEW u \in Users, NEW kind \in PartnerKinds, BecomePartner(u, kind)
  PROVE  Moves
<1> DEFINE new == [row[u] EXCEPT !.role = kind]
<1>1. new \in Row /\ new.state = row[u].state
  BY DEF IInv, Row, Roles
<1>2. /\ Write(u, new) /\ Exists(u) /\ profiles' = profiles \cup {u}
      /\ UNCHANGED <<programmes, busy, referenced, job, folderVars>>
  BY DEF BecomePartner
<1> HIDE DEF new
<1>3. RowStep /\ \A v \in Users : Exists(v) => Exists(v)'
  BY <1>1, <1>2, Wrote DEF IInv, Exists
<1>4. Belong' /\ Sets'
  BY <1>2, <1>3 DEF IInv, Belong, Sets, folderVars
<1> QED
  BY <1>2, <1>3, <1>4 DEF Moves, IInv, JobsSound, folderVars

LEMMA OrderMoves ==
  ASSUME IInv, NEW u \in Users,
         \/ Publish(u) \/ Ordered(u) \/ OrderEnds(u)
         \/ WipeFolder(u) \/ WipeTours(u) \/ FoldersStay(u)
  PROVE  Moves
<1>1. UNCHANGED <<row, job>>
  BY DEF Publish, Ordered, OrderEnds, WipeFolder, WipeTours, FoldersStay
<1>2. Sets'
  BY DEF IInv, Sets, Publish, Ordered, OrderEnds, WipeFolder, WipeTours, FoldersStay,
         folderVars, orderVars
<1>3. Belong'
  BY <1>1 DEF IInv, Belong, Exists, Publish, Ordered, OrderEnds, WipeFolder, WipeTours,
              FoldersStay, orderVars
<1>4. prefixes' \cup wiped' \subseteq prefixes \cup wiped
  BY DEF Publish, Ordered, OrderEnds, WipeFolder, WipeTours, FoldersStay, folderVars
<1> QED
  BY <1>1, <1>2, <1>3, <1>4, RowStays DEF Moves, IInv, JobsSound

LEMMA AskMoves == ASSUME IInv, NEW j \in Jobs, NEW u \in Users, Asked(j, u) PROVE Moves
<1>1. PICK a \in Users, step \in {"role", "ban", "delete", "duty", "accept"},
           role \in Roles, flag \in BOOLEAN :
        /\ Ask(j, a, u, step, role, flag)
        /\ step \in {"role", "ban", "delete"} => a = u \/ ~row[u].super
  <2>1. CASE DeleteRead(j, u)
    <3>1. (IF row[u].role = "admin" THEN "customer" ELSE row[u].role) \in Roles
      BY DEF IInv, Row, Roles
    <3> QED
      BY <2>1, <3>1 DEF DeleteRead
  <2>2. CASE DutyRead(j, u)
    <3>1. (~row[u].available) \in BOOLEAN /\ "customer" \in Roles
      BY DEF Roles
    <3> QED
      BY <2>2, <3>1 DEF DutyRead
  <2>3. CASE AcceptRead(j, u)
    BY <2>3 DEF AcceptRead, Roles
  <2>4. CASE \E a \in Users : BanRead(j, a, u)
    <3>1. (~row[u].banned) \in BOOLEAN /\ "customer" \in Roles
      BY DEF Roles
    <3>2. PICK a \in Users : BanRead(j, a, u)
      BY <2>4
    <3>3. ~row[u].super
      BY <3>2 DEF BanRead, Outranks, Level
    <3> QED
      BY <3>1, <3>2, <3>3 DEF BanRead
  <2>5. CASE \E a \in Users, role \in {"customer", "admin"} : RoleRead(j, a, u, role)
    <3>1. PICK a \in Users, role \in {"customer", "admin"} : RoleRead(j, a, u, role)
      BY <2>5
    <3>2. a = u \/ ~row[u].super
      BY <3>1 DEF RoleRead, Outranks, Level
    <3> QED
      BY <3>1, <3>2 DEF RoleRead, Roles
  <2> QED
    BY <2>1, <2>2, <2>3, <2>4, <2>5 DEF Asked
<1>2. /\ JobsSound' /\ job'[j].step = step
      /\ \A k \in Jobs \ {j} : job'[k] = job[k]
  BY <1>1, AskedSound DEF IInv
<1>3. UNCHANGED <<row, orderVars, folderVars>>
  BY <1>1 DEF Ask
<1>4. Sets' /\ Belong'
  BY <1>3 DEF IInv, Sets, Belong, Exists, orderVars, folderVars
<1> QED
  BY <1>2, <1>3, <1>4, RowStays, JobMoved

LEMMA CommitMoves ==
  ASSUME IInv, NEW j \in Jobs,
         \/ DeleteCommit(j) \/ RoleCommit(j) \/ BanCommit(j) \/ DutyCommit(j)
  PROVE  Moves
<1> DEFINE u == job[j].target
<1>1. u \in Users /\ job[j] \in Job /\ row[u] \in Row
  BY DEF IInv, JobsSound, Sound, DeleteCommit, RoleCommit, BanCommit, DutyCommit, SetDuty, At
<1>2. \E new \in Row : new.state \in {row[u].state, "deleted"} /\ Update(u, new)
  <2>1. CASE DeleteCommit(j)
    <3> DEFINE new == [row[u] EXCEPT !.state = "deleted", !.super = FALSE, !.role = job[j].role]
    <3>1. new \in Row /\ new.state = "deleted"
      BY <1>1 DEF Row, Job
    <3>2. Update(u, new)
      BY <2>1 DEF DeleteCommit
    <3> HIDE DEF new
    <3> QED
      BY <3>1, <3>2
  <2>2. CASE RoleCommit(j)
    <3> DEFINE new == [row[u] EXCEPT !.role = job[j].role, !.super = FALSE]
    <3>1. new \in Row /\ new.state = row[u].state
      BY <1>1 DEF Row, Job
    <3>2. Update(u, new)
      BY <2>2 DEF RoleCommit
    <3> HIDE DEF new
    <3> QED
      BY <3>1, <3>2
  <2>3. CASE BanCommit(j)
    <3> DEFINE new == [row[u] EXCEPT !.banned = job[j].flag]
    <3>1. new \in Row /\ new.state = row[u].state
      BY <1>1 DEF Row, Job
    <3>2. Update(u, new)
      BY <2>3 DEF BanCommit, Banned
    <3> HIDE DEF new
    <3> QED
      BY <3>1, <3>2
  <2>4. CASE DutyCommit(j)
    <3> DEFINE new == [row[u] EXCEPT !.available = job[j].flag]
    <3>1. new \in Row /\ new.state = row[u].state
      BY <1>1 DEF Row, Job
    <3>2. Update(u, new)
      BY <2>4 DEF DutyCommit, SetDuty
    <3> HIDE DEF new
    <3> QED
      BY <3>1, <3>2
  <2> QED
    BY <2>1, <2>2, <2>3, <2>4
<1>3. End(j) /\ UNCHANGED <<orderVars, folderVars>>
  BY DEF DeleteCommit, RoleCommit, BanCommit, DutyCommit, SetDuty
<1>4. RowStep /\ Sets' /\ Belong'
  BY <1>1, <1>2, <1>3, RowMoved
<1>5. JobsSound' /\ job'[j] = NoJob /\ \A k \in Jobs \ {j} : job'[k] = job[k]
  BY <1>3, Ended DEF IInv
<1>6. job'[j].step # "send"
  BY <1>5 DEF NoJob
<1> QED
  BY <1>3, <1>4, <1>5, <1>6, JobMoved

\* The steps that end a request without a change of the user's row
LEMMA EndMoves ==
  ASSUME IInv, NEW j \in Jobs,
         AcceptCommit(j) \/ Refused(j) \/ JobLost(j) \/ PurgeRefused(j)
  PROVE  Moves
<1>1. End(j) /\ UNCHANGED <<row, folderVars>>
  BY DEF AcceptCommit, Refused, JobLost, PurgeRefused
<1>2. Sets' /\ Belong'
  <2>1. CASE AcceptCommit(j)
    <3>1. job[j].target \in Users
      BY <2>1 DEF IInv, JobsSound, Sound, AcceptCommit, At
    <3> QED
      BY <2>1, <3>1, <1>1 DEF IInv, Sets, Belong, Exists, AcceptCommit, folderVars
  <2>2. CASE UNCHANGED orderVars
    BY <2>2, <1>1 DEF IInv, Sets, Belong, Exists, orderVars, folderVars
  <2> QED
    BY <2>1, <2>2 DEF Refused, JobLost, PurgeRefused
<1>3. JobsSound' /\ job'[j] = NoJob /\ \A k \in Jobs \ {j} : job'[k] = job[k]
  BY <1>1, Ended DEF IInv
<1>4. job'[j].step # "send"
  BY <1>3 DEF NoJob
<1> QED
  BY <1>1, <1>2, <1>3, <1>4, RowStays, JobMoved

LEMMA CheckMoves == ASSUME IInv, NEW j \in Jobs, DutyCheck(j) PROVE Moves
<1> DEFINE looked == ~job[j].flag
           q == [job[j] EXCEPT !.step = "available", !.looked = looked]
<1>1. job[j] \in Job /\ job[j].target \in Users /\ looked \in BOOLEAN
  BY DEF IInv, JobsSound, Sound, DutyCheck, At, Job
<1>2. job[j].flag \/ looked
  OBVIOUS
<1>3. Run(j, q) /\ UNCHANGED <<row, orderVars, folderVars>>
  BY DEF DutyCheck
<1> HIDE DEF looked
<1>4. /\ q \in Job /\ q.step = "available" /\ q.target = job[j].target
      /\ q.flag = job[j].flag /\ q.looked = looked
  BY <1>1 DEF Job, Steps
<1> HIDE DEF q
<1>5. Sound(q)
  BY <1>1, <1>2, <1>4 DEF Sound
<1>6. JobsSound' /\ job'[j] = q /\ \A k \in Jobs \ {j} : job'[k] = job[k]
  BY <1>3, <1>5, Ran DEF IInv
<1>7. Sets' /\ Belong'
  BY <1>3 DEF IInv, Sets, Belong, Exists, orderVars, folderVars
<1> QED
  BY <1>3, <1>4, <1>6, <1>7, RowStays, JobMoved

LEMMA SelectMoves == ASSUME IInv, NEW j \in Jobs, NEW users \in SUBSET Users,
                            PurgeSelect(j, users)
                     PROVE  Moves
<1> DEFINE owners == {u \in users : row[u].super}
           guides == {g \in programmes : ProfileId[g] \in users}
           q == [NoJob EXCEPT !.step = "purge", !.ids = users, !.guides = guides,
                              !.owners = owners]
<1>1. owners \in SUBSET Users /\ guides \in SUBSET Users
  BY DEF IInv, Sets
<1>2. users \cap owners = {}
  BY DEF PurgeSelect
<1>3. Run(j, q) /\ UNCHANGED <<row, orderVars, folderVars>>
  BY DEF PurgeSelect, Select
<1> HIDE DEF owners, guides
<1>4. q \in Job /\ q.step = "purge" /\ q.ids = users /\ q.owners = owners
  BY <1>1 DEF NoJob, Job, Steps, Roles
<1> HIDE DEF q
<1>5. Sound(q)
  BY <1>2, <1>4 DEF Sound
<1>6. JobsSound' /\ job'[j] = q /\ \A k \in Jobs \ {j} : job'[k] = job[k]
  BY <1>3, <1>5, Ran DEF IInv
<1>7. Sets' /\ Belong'
  BY <1>3 DEF IInv, Sets, Belong, Exists, orderVars, folderVars
<1> QED
  BY <1>3, <1>4, <1>6, <1>7, RowStays, JobMoved

LEMMA PurgeMoves == ASSUME IInv, NEW j \in Jobs, PurgeCommit(j) PROVE Moves
<1> DEFINE ids == job[j].ids
           q   == [job[j] EXCEPT !.step = "send"]
<1>1. job[j] \in Job /\ ids \in SUBSET Users
  BY DEF IInv, JobsSound, Sound, Job
<1>2. Run(j, q) /\ UNCHANGED <<busy, referenced, folderVars>>
  BY DEF PurgeCommit
<1>3. q \in Job /\ q.step = "send" /\ q.ids = ids
  BY <1>1 DEF Job, Steps
<1>4. Sound(q)
  BY <1>3 DEF Sound
<1> HIDE DEF q
<1>5. JobsSound' /\ job'[j] = q /\ \A k \in Jobs \ {j} : job'[k] = job[k]
  BY <1>2, <1>4, Ran DEF IInv
<1>6. /\ row' = [u \in Users |-> IF u \in ids THEN PurgedRow ELSE row[u]]
      /\ profiles' = profiles \ ids /\ programmes' = programmes \ ids
      /\ ids \cap referenced = {}
  BY DEF PurgeCommit
<1>7. PurgedRow \in Row /\ PurgedRow.state = "purged"
  BY DEF PurgedRow, NewRow, Row, Roles
<1>8. RowStep /\ \A u \in ids : row'[u].state = "purged"
  BY <1>1, <1>6, <1>7 DEF IInv, RowStep, Purged
<1>9. \A v \in Users \ ids : Exists(v) => Exists(v)'
  BY <1>6 DEF Exists
<1>10. Belong' /\ Sets'
  BY <1>2, <1>6, <1>9 DEF IInv, Belong, Sets, folderVars
<1> QED
  BY <1>2, <1>3, <1>5, <1>8, <1>10, JobMoved

LEMMA SendMoves == ASSUME IInv, NEW j \in Jobs, PurgeSend(j) PROVE Moves
<1>1. /\ At(j, "send") /\ End(j) /\ UNCHANGED <<row, orderVars>>
      /\ prefixes' = prefixes \cup job[j].ids /\ tours' = tours \cup job[j].guides
      /\ wiped' = wiped /\ toursWiped' = toursWiped
  BY DEF PurgeSend, SendFolders
<1>2. job[j].ids \subseteq Users /\ job[j].guides \subseteq Users
  BY DEF IInv, JobsSound, Sound, Job
<1>3. JobsSound' /\ job'[j] = NoJob /\ \A k \in Jobs \ {j} : job'[k] = job[k]
  BY <1>1, Ended DEF IInv
<1>4. Sets' /\ Belong'
  BY <1>1, <1>2 DEF IInv, Sets, Belong, Exists, orderVars
<1>5. job'[j].step # "send"
  BY <1>3 DEF NoJob
<1>6. prefixes' \cup wiped' \subseteq
        prefixes \cup wiped \cup UNION {job[k].ids : k \in {i \in Jobs : At(i, "send")}}
  BY <1>1
<1> QED
  BY <1>1, <1>3, <1>4, <1>5, <1>6, RowStays DEF Moves

LEMMA NextMoves == ASSUME IInv, [Next]_vars PROVE Moves
<1>1. CASE UNCHANGED vars
  <2>1. Sets' /\ Belong'
    BY <1>1 DEF IInv, Sets, Belong, Exists, vars, orderVars, folderVars
  <2> QED
    BY <1>1, <2>1, RowStays DEF Moves, IInv, JobsSound, vars, folderVars
<1>2. CASE \E u \in Users : UserStep(u)
  BY <1>2, LoginMoves, ProfileMoves, OrderMoves DEF UserStep
<1>3. CASE \E u \in Users, kind \in PartnerKinds : BecomePartner(u, kind)
  BY <1>3, PartnerMoves
<1>4. CASE \E u \in Owners : Promote(u)
  BY <1>4, PromoteMoves, AccountsAssumption
<1>5. CASE \E j \in Jobs : Answered(j) \/ PurgeStep(j)
  BY <1>5, CommitMoves, CheckMoves, EndMoves, SelectMoves, PurgeMoves, SendMoves
     DEF Answered, PurgeStep
<1>6. CASE \E j \in Jobs, u \in Users : Asked(j, u)
  BY <1>6, AskMoves
<1> QED
  BY <1>1, <1>2, <1>3, <1>4, <1>5, <1>6 DEF Next

-----------------------------------------------------------------------------
(* The theorems *)

THEOREM Invariance == Spec => []IInv
<1>1. Init => IInv
  BY InvInit
<1>2. IInv /\ [Next]_vars => IInv'
  BY NextMoves, MovesKeep
<1> QED
  BY <1>1, <1>2, PTL DEF Spec

\* The rows, the profiles and the requests keep their shapes: whoever has a profile or
\* an order has a row, and a deletion removes no row but by the purge (user_repository.py).
THEOREM AccountTypes == Spec => []TypeOK
<1>1. IInv => TypeOK
  BY InvTypes
<1> QED
  BY <1>1, Invariance, PTL

\* The purge deletes no file of a user whose row is still there, wherever it dies
\* (purge_abandoned_and_deleted_users).
THEOREM FilesOutlive == Spec => []FilesOutliveRows
<1>1. IInv => FilesOutliveRows
  BY DEF IInv
<1> QED
  BY <1>1, Invariance, PTL

\* A row that keeps its owner an owner, bans nobody anew and takes nobody off the line
Milder(u, new) ==
    /\ new.state \in {"active", "deleted"}
    /\ row[u].super => new.super
    /\ new.banned => row[u].banned
    /\ row[u].available => new.available

\* Which rows a step may change for the worse, and what has been decided about them
Judged(u) ==
    \/ ~Exists(u)
    \/ row'[u] = row[u]
    \/ Milder(u, row'[u])
    \/ \E j \in Jobs : Written(j) /\ job[j].target = u
                                  /\ (job[j].own \/ u \notin job[j].owners)
                                  /\ (row[u].available => row'[u].available)
    \/ \E j \in Jobs : u \in job[j].ids \ job[j].owners /\ row'[u] = PurgedRow
    \/ /\ \E j \in Jobs : Written(j) /\ job[j].target = u /\ job[j].looked
       /\ row'[u].state = row[u].state /\ row'[u].super = row[u].super
       /\ row'[u].banned = row[u].banned

AllJudged == \A v \in Users : Judged(v)

LEMMA MilderJudged ==
  ASSUME IInv, NEW u \in Users, NEW new, Milder(u, new), Write(u, new)
  PROVE  AllJudged
<1>1. row'[u] = new /\ \A v \in Users \ {u} : row'[v] = row[v]
  BY DEF Write, IInv
<1> QED
  BY <1>1 DEF AllJudged, Judged

LEMMA LoginJudged == ASSUME IInv, NEW u \in Users, Login(u) PROVE AllJudged
<1>1. CASE Exists(u)
  <2> DEFINE new == [row[u] EXCEPT !.state = "active"]
  <2>1. Milder(u, new)
    BY DEF IInv, Row, Milder
  <2>2. Write(u, new)
    BY <1>1 DEF Login
  <2> HIDE DEF new
  <2> QED
    BY <2>1, <2>2, MilderJudged
<1>2. CASE ~Exists(u)
  <2>1. \A v \in Users \ {u} : row'[v] = row[v]
    BY <1>2 DEF Login, Write, IInv
  <2> QED
    BY <1>2, <2>1 DEF AllJudged, Judged
<1> QED
  BY <1>1, <1>2

\* A change that the rows' user asked for, or that was decided when he was no owner
LEMMA OrderedJudged ==
  ASSUME IInv, NEW j \in Jobs, DeleteCommit(j) \/ RoleCommit(j) \/ BanCommit(j)
  PROVE  AllJudged
<1> DEFINE u == job[j].target
<1>1. /\ u \in Users /\ job[j] \in Job /\ row[u] \in Row /\ job[j].step # "idle"
      /\ job[j].own \/ u \notin job[j].owners
  BY DEF IInv, JobsSound, Sound, DeleteCommit, RoleCommit, BanCommit, At
<1>2. PICK new \in Row : Update(u, new) /\ new.available = row[u].available
  <2>1. CASE DeleteCommit(j)
    <3> DEFINE new == [row[u] EXCEPT !.state = "deleted", !.super = FALSE, !.role = job[j].role]
    <3>1. new \in Row /\ new.available = row[u].available
      BY <1>1 DEF Row, Job
    <3>2. Update(u, new)
      BY <2>1 DEF DeleteCommit
    <3> HIDE DEF new
    <3> QED
      BY <3>1, <3>2
  <2>2. CASE RoleCommit(j)
    <3> DEFINE new == [row[u] EXCEPT !.role = job[j].role, !.super = FALSE]
    <3>1. new \in Row /\ new.available = row[u].available
      BY <1>1 DEF Row, Job
    <3>2. Update(u, new)
      BY <2>2 DEF RoleCommit
    <3> HIDE DEF new
    <3> QED
      BY <3>1, <3>2
  <2>3. CASE BanCommit(j)
    <3> DEFINE new == [row[u] EXCEPT !.banned = job[j].flag]
    <3>1. new \in Row /\ new.available = row[u].available
      BY <1>1 DEF Row, Job
    <3>2. Update(u, new)
      BY <2>3 DEF BanCommit, Banned
    <3> HIDE DEF new
    <3> QED
      BY <3>1, <3>2
  <2> QED
    BY <2>1, <2>2, <2>3
<1>3. End(j)
  BY DEF DeleteCommit, RoleCommit, BanCommit
<1>4. Written(j)
  BY <1>1, <1>3, Ended DEF Written, IInv
<1>5. /\ row'[u] = IF Exists(u) THEN new ELSE row[u]
      /\ \A v \in Users \ {u} : row'[v] = row[v]
  BY <1>1, <1>2 DEF Update, Write, IInv
<1>6. row[u].available => row'[u].available
  BY <1>2, <1>5
<1>7. Judged(u)
  BY <1>1, <1>4, <1>6 DEF Judged
<1>8. \A v \in Users : v # u => Judged(v)
  BY <1>5 DEF Judged
<1> HIDE DEF u
<1> QED
  BY <1>7, <1>8, Zenon DEF AllJudged

\* The line is left by a request that has looked for orders
LEMMA DutyJudged ==
  ASSUME IInv, NEW j \in Jobs, DutyCommit(j)
  PROVE  AllJudged
<1> DEFINE u   == job[j].target
           new == [row[u] EXCEPT !.available = job[j].flag]
<1>1. /\ u \in Users /\ job[j] \in Job /\ row[u] \in Row /\ job[j].step # "idle"
      /\ job[j].flag \/ job[j].looked
  BY DEF IInv, JobsSound, Sound, DutyCommit, SetDuty, At
<1>2. Update(u, new) /\ End(j)
  BY DEF DutyCommit, SetDuty
<1>3. /\ new.state = row[u].state /\ new.super = row[u].super
      /\ new.banned = row[u].banned /\ new.available = job[j].flag
  BY <1>1 DEF Row
<1> HIDE DEF new
<1>4. Written(j)
  BY <1>1, <1>2, Ended DEF Written, IInv
<1>5. /\ row'[u] = IF Exists(u) THEN new ELSE row[u]
      /\ \A v \in Users \ {u} : row'[v] = row[v]
  BY <1>1, <1>2 DEF Update, Write, IInv
<1>6. Judged(u)
  <2>1. CASE ~Exists(u)
    BY <2>1 DEF Judged
  <2>2. CASE Exists(u) /\ job[j].looked
    BY <2>2, <1>1, <1>3, <1>4, <1>5 DEF Judged
  <2>3. CASE Exists(u) /\ job[j].flag
    <3>1. Milder(u, new)
      BY <2>3, <1>3 DEF Milder, Exists
    <3> QED
      BY <2>3, <3>1, <1>5 DEF Judged
  <2> QED
    BY <1>1, <2>1, <2>2, <2>3
<1>7. \A v \in Users : v # u => Judged(v)
  BY <1>5 DEF Judged
<1> HIDE DEF u
<1> QED
  BY <1>6, <1>7, Zenon DEF AllJudged

LEMMA PurgeJudged ==
  ASSUME IInv, NEW j \in Jobs, PurgeCommit(j)
  PROVE  AllJudged
<1>1. job[j].ids \cap job[j].owners = {}
  BY DEF IInv, JobsSound, Sound, PurgeCommit, At
<1>2. \A v \in Users : row'[v] = IF v \in job[j].ids THEN PurgedRow ELSE row[v]
  BY DEF PurgeCommit
<1> QED
  BY <1>1, <1>2 DEF AllJudged, Judged

LEMMA RowsJudged == ASSUME UNCHANGED row PROVE AllJudged
  BY DEF AllJudged, Judged

LEMMA NextJudged == ASSUME IInv, [Next]_vars PROVE AllJudged
<1>1. UNCHANGED row => AllJudged
  BY RowsJudged
<1>2. ASSUME NEW u \in Users, UserStep(u) PROVE AllJudged
  <2>1. CASE Login(u)
    BY <2>1, LoginJudged
  <2>2. CASE ChangeProfile(u)
    <3> DEFINE new == [row[u] EXCEPT !.named = TRUE]
    <3>1. Milder(u, new)
      BY <2>2 DEF IInv, Row, Milder, ChangeProfile, Authenticated
    <3>2. Write(u, new)
      BY <2>2 DEF ChangeProfile
    <3> HIDE DEF new
    <3> QED
      BY <3>1, <3>2, MilderJudged
  <2> QED
    BY <1>1, <1>2, <2>1, <2>2
       DEF UserStep, Publish, Ordered, OrderEnds, WipeFolder, WipeTours, FoldersStay, orderVars
<1>3. ASSUME NEW u \in Users, NEW kind \in PartnerKinds, BecomePartner(u, kind)
      PROVE  AllJudged
  <2> DEFINE new == [row[u] EXCEPT !.role = kind]
  <2>1. Milder(u, new)
    BY <1>3 DEF IInv, Row, Roles, Milder, BecomePartner, Exists
  <2>2. Write(u, new)
    BY <1>3 DEF BecomePartner
  <2> HIDE DEF new
  <2> QED
    BY <2>1, <2>2, MilderJudged
<1>4. ASSUME NEW u \in Owners, Promote(u) PROVE AllJudged
  <2> DEFINE new == [row[u] EXCEPT !.role = "admin", !.super = TRUE]
  <2>1. u \in Users
    BY AccountsAssumption
  <2>2. Milder(u, new)
    BY <1>4, <2>1 DEF IInv, Row, Roles, Milder, Promote, Exists
  <2>3. Write(u, new)
    BY <1>4 DEF Promote
  <2> HIDE DEF new
  <2> QED
    BY <2>1, <2>2, <2>3, MilderJudged
<1>5. ASSUME NEW j \in Jobs, Answered(j) \/ PurgeStep(j) PROVE AllJudged
  <2>1. CASE DeleteCommit(j) \/ RoleCommit(j) \/ BanCommit(j)
    BY <2>1, OrderedJudged
  <2>2. CASE DutyCommit(j)
    BY <2>2, DutyJudged
  <2>3. CASE PurgeCommit(j)
    BY <2>3, PurgeJudged
  <2>4. CASE \/ DutyCheck(j) \/ AcceptCommit(j) \/ Refused(j) \/ JobLost(j)
             \/ \E users \in SUBSET Users : PurgeSelect(j, users)
             \/ PurgeRefused(j) \/ PurgeSend(j)
    <3>1. DutyCheck(j) \/ AcceptCommit(j) \/ Refused(j) \/ JobLost(j) => UNCHANGED row
      BY DEF DutyCheck, AcceptCommit, Refused, JobLost
    <3>2. ASSUME NEW users \in SUBSET Users, PurgeSelect(j, users) PROVE UNCHANGED row
      BY <3>2 DEF PurgeSelect, Select
    <3>3. PurgeRefused(j) \/ PurgeSend(j) => UNCHANGED row
      BY DEF PurgeRefused, PurgeSend, SendFolders
    <3> QED
      BY <1>1, <2>4, <3>1, <3>2, <3>3
  <2> QED
    BY <1>5, <2>1, <2>2, <2>3, <2>4 DEF Answered, PurgeStep
<1>6. ASSUME NEW j \in Jobs, NEW u \in Users, Asked(j, u) PROVE AllJudged
  <2>1. DeleteRead(j, u) \/ DutyRead(j, u) \/ AcceptRead(j, u) => UNCHANGED row
    BY DEF DeleteRead, DutyRead, AcceptRead, Ask
  <2>2. ASSUME NEW a \in Users, BanRead(j, a, u) PROVE UNCHANGED row
    BY <2>2 DEF BanRead, Ask
  <2>3. ASSUME NEW a \in Users, NEW role \in {"customer", "admin"}, RoleRead(j, a, u, role)
        PROVE  UNCHANGED row
    BY <2>3 DEF RoleRead, Ask
  <2> QED
    BY <1>1, <1>6, <2>1, <2>2, <2>3 DEF Asked
<1> QED
  BY <1>1, <1>2, <1>3, <1>4, <1>5, <1>6 DEF Next, vars

LEMMA JudgedSpares ==
  ASSUME NEW u \in Users, Judged(u), Owner(u)
  PROVE  \/ Owner(u)' /\ (row'[u].banned => row[u].banned)
         \/ \E j \in Jobs : Written(j) /\ job[j].target = u
                                       /\ (job[j].own \/ u \notin job[j].owners)
         \/ \E j \in Jobs : u \in job[j].ids \ job[j].owners
  BY DEF Judged, Owner, Exists, Milder

LEMMA JudgedFree ==
  ASSUME NEW u \in Users, Judged(u), Exists(u), row[u].available, ~row'[u].available
  PROVE  \E j \in Jobs : Written(j) /\ job[j].target = u /\ job[j].looked
  BY DEF Judged, Milder, PurgedRow, NewRow

\* Whatever overlaps with whatever, an owner loses his role, his freedom or his row only
\* by his own request or by a decision older than his rights (admin_service.py).
THEOREM OwnersKeep == Spec => OwnersSpared
<1>1. IInv /\ [Next]_vars =>
        [\A u \in Users : Owner(u) =>
          \/ Owner(u)' /\ (row'[u].banned => row[u].banned)
          \/ \E j \in Jobs : Written(j) /\ job[j].target = u
                                        /\ (job[j].own \/ u \notin job[j].owners)
          \/ \E j \in Jobs : u \in job[j].ids \ job[j].owners]_vars
  BY NextJudged, JudgedSpares DEF AllJudged
<1> QED
  BY <1>1, Invariance, PTL DEF Spec, OwnersSpared

\* However many toggles overlap, only one that found no order takes its driver off the
\* line (toggle_work_status).
THEOREM LineLeftFree == Spec => OffLineOnlyWhenFree
<1>1. IInv /\ [Next]_vars =>
        [\A u \in Users : Exists(u) /\ row[u].available /\ ~row'[u].available =>
          \E j \in Jobs : Written(j) /\ job[j].target = u /\ job[j].looked]_vars
  BY NextJudged, JudgedFree DEF AllJudged
<1> QED
  BY <1>1, Invariance, PTL DEF Spec, OffLineOnlyWhenFree

-----------------------------------------------------------------------------
(* Whose excursions lose their files *)

\* The number of g's profile is that of a user whose row is gone for good
NumberPurged(g) == ProfileId[g] \in Users /\ row[ProfileId[g]].state = "purged"

OnlyByNumber == \A g \in tours \cup toursWiped : NumberPurged(g)

\* Inductive: the purge finds a guide by his profile's number only
ToursInv ==
    /\ OnlyByNumber
    /\ \A j \in Jobs : job[j].step \in {"purge", "send"} =>
          \A g \in job[j].guides : ProfileId[g] \in job[j].ids

LEMMA PurgedStay ==
  ASSUME IInv, [Next]_vars
  PROVE  \A u \in Users : row[u].state = "purged" => row'[u].state = "purged"
<1>1. Moves
  BY NextMoves
<1>2. QED
  BY <1>1 DEF IInv, Moves, RowStep, Updated, Registered, Purged, PurgedRow, NewRow

\* Folders of excursions come from a purge that is committed
LEMMA ToursFromPurge ==
  ASSUME [Next]_vars
  PROVE  tours' \cup toursWiped' \subseteq
            tours \cup toursWiped \cup UNION {job[j].guides : j \in {k \in Jobs : At(k, "send")}}
<1> DEFINE Old == tours \cup toursWiped
           Sent == UNION {job[j].guides : j \in {k \in Jobs : At(k, "send")}}
<1>1. ASSUME UNCHANGED <<tours, toursWiped>> PROVE tours' \cup toursWiped' \subseteq Old \cup Sent
  BY <1>1
<1>2. ASSUME NEW u \in Users, UserStep(u) PROVE tours' \cup toursWiped' \subseteq Old \cup Sent
  BY <1>2 DEF UserStep, Login, ChangeProfile, Publish, Ordered, OrderEnds, WipeFolder, WipeTours,
              FoldersStay, folderVars
<1>3. ASSUME NEW j \in Jobs, PurgeStep(j) PROVE tours' \cup toursWiped' \subseteq Old \cup Sent
  <2>1. CASE PurgeSend(j)
    BY <2>1 DEF PurgeSend, SendFolders
  <2>2. CASE ~PurgeSend(j)
    BY <1>3, <2>2 DEF PurgeStep, PurgeSelect, Select, PurgeCommit, PurgeRefused, folderVars
  <2>3. QED
    BY <2>1, <2>2
<1>4. ASSUME NEW j \in Jobs, Answered(j) PROVE UNCHANGED <<tours, toursWiped>>
  BY <1>4 DEF Answered, DeleteCommit, RoleCommit, BanCommit, DutyCheck, DutyCommit, SetDuty,
              AcceptCommit, Refused, JobLost, folderVars
<1>5. ASSUME NEW j \in Jobs, NEW u \in Users, Asked(j, u) PROVE UNCHANGED <<tours, toursWiped>>
  BY <1>5 DEF Asked, DeleteRead, DutyRead, AcceptRead, BanRead, RoleRead, Ask, folderVars
<1>6. CASE UNCHANGED vars
  BY <1>1, <1>6 DEF vars, folderVars
<1>7. CASE (\E u \in Users, kind \in PartnerKinds : BecomePartner(u, kind)) \/ \E u \in Owners : Promote(u)
  BY <1>1, <1>7 DEF BecomePartner, Promote, folderVars
<1>8. QED
  BY <1>1, <1>2, <1>3, <1>4, <1>5, <1>6, <1>7 DEF Next

\* A job comes to a purge by selecting users, and keeps whom it found
LEMMA PurgesFromSelect ==
  ASSUME IInv, [Next]_vars, NEW k \in Jobs, job'[k].step \in {"purge", "send"}
  PROVE  \/ job'[k] = job[k]
         \/ \E users \in SUBSET Users : PurgeSelect(k, users)
         \/ PurgeCommit(k)
<1> DEFINE Kept == job'[k] = job[k]
<1>0. /\ \A q : \A j \in Jobs : Run(j, q) => job'[j] = q /\ (j # k => Kept)
      /\ \A j \in Jobs : End(j) => job'[j].step = "idle" /\ (j # k => Kept)
  BY DEF Run, End, NoJob, IInv, JobsSound
<1>1. ASSUME NEW u \in Users, UserStep(u) PROVE Kept
  BY <1>1 DEF UserStep, Login, ChangeProfile, Publish, Ordered, OrderEnds, WipeFolder, WipeTours,
              FoldersStay
<1>2. ASSUME NEW j \in Jobs, PurgeStep(j), ~Kept
      PROVE  (\E users \in SUBSET Users : PurgeSelect(k, users)) \/ PurgeCommit(k)
  <2>1. CASE PurgeRefused(j) \/ PurgeSend(j)
    BY <1>0, <1>2, <2>1 DEF PurgeRefused, PurgeSend
  <2>2. CASE PurgeCommit(j)
    BY <1>0, <1>2, <2>2 DEF PurgeCommit
  <2>3. ASSUME NEW users \in SUBSET Users, PurgeSelect(j, users) PROVE PurgeSelect(k, users)
    BY <1>0, <1>2, <2>3 DEF PurgeSelect, Select
  <2>4. QED
    BY <1>2, <2>1, <2>2, <2>3 DEF PurgeStep
<1>3. ASSUME NEW j \in Jobs, Answered(j) PROVE Kept
  <2>1. CASE DutyCheck(j)
    <3>1. job[j] \in Job
      BY DEF IInv, JobsSound, Sound
    <3>2. [job[j] EXCEPT !.step = "available", !.looked = ~job[j].flag].step = "available"
      BY <3>1 DEF Job
    <3>3. Run(j, [job[j] EXCEPT !.step = "available", !.looked = ~job[j].flag])
      BY <2>1 DEF DutyCheck
    <3>4. job'[j].step = "available" /\ (j # k => Kept)
      BY <1>0, <3>2, <3>3
    <3>5. QED
      BY <3>4
  <2>2. CASE ~DutyCheck(j)
    <3>1. End(j)
      BY <1>3, <2>2 DEF Answered, DeleteCommit, RoleCommit, BanCommit, DutyCommit, SetDuty,
                        AcceptCommit, Refused, JobLost
    <3>2. QED
      BY <1>0, <3>1
  <2>3. QED
    BY <2>1, <2>2
<1>4. ASSUME NEW j \in Jobs, NEW u \in Users, Asked(j, u) PROVE Kept
  <2>1. ASSUME NEW a, NEW step, step \notin {"purge", "send"}, NEW role, NEW flag,
               Ask(j, a, u, step, role, flag)
        PROVE  Kept
    <3> DEFINE q == [NoJob EXCEPT !.step = step, !.target = u, !.role = role, !.flag = flag,
                                  !.own = (a = u), !.owners = {v \in {u} : row[v].super}]
    <3>1. Run(j, q)
      BY <2>1 DEF Ask
    <3>2. q.step = step
      BY DEF NoJob
    <3> HIDE DEF q
    <3>3. job'[j].step = step /\ (j # k => Kept)
      BY <1>0, <3>1, <3>2
    <3>4. QED
      BY <2>1, <3>3
  <2>2. \A a, step, role, flag :
           step \notin {"purge", "send"} /\ Ask(j, a, u, step, role, flag) => Kept
    BY <2>1
  <2>3. \E a, role, flag, step : step \notin {"purge", "send"} /\ Ask(j, a, u, step, role, flag)
    BY <1>4 DEF Asked, DeleteRead, DutyRead, AcceptRead, BanRead, RoleRead
  <2>4. QED
    BY <2>2, <2>3
<1>5. CASE UNCHANGED vars
  BY <1>5 DEF vars
<1>6. CASE (\E u \in Users, kind \in PartnerKinds : BecomePartner(u, kind)) \/ \E u \in Owners : Promote(u)
  BY <1>6 DEF BecomePartner, Promote
<1>7. QED
  BY <1>1, <1>2, <1>3, <1>4, <1>5, <1>6 DEF Next

LEMMA NextTours ==
  ASSUME IInv, ToursInv, [Next]_vars
  PROVE  ToursInv'
<1>1. \A g : NumberPurged(g) => NumberPurged(g)'
  BY PurgedStay DEF NumberPurged
<1>2. ASSUME NEW j \in Jobs, At(j, "send"), NEW g \in job[j].guides PROVE NumberPurged(g)
  <2>1. ProfileId[g] \in job[j].ids /\ job[j].ids \subseteq Users
    BY <1>2 DEF ToursInv, At, IInv, JobsSound, Sound, Job
  <2>2. QED
    BY <1>2, <2>1 DEF IInv, SentAreGone, At, NumberPurged
<1>3. OnlyByNumber'
  BY <1>1, <1>2, ToursFromPurge DEF ToursInv, OnlyByNumber
<1>4. ASSUME NEW j \in Jobs, job'[j].step \in {"purge", "send"}, NEW g \in job'[j].guides
      PROVE  ProfileId[g] \in job'[j].ids
  <2>1. CASE job'[j] = job[j]
    BY <1>4, <2>1 DEF ToursInv
  <2>2. ASSUME NEW users \in SUBSET Users, PurgeSelect(j, users)
        PROVE  ProfileId[g] \in job'[j].ids
    <3>1. /\ job'[j].ids = users
          /\ job'[j].guides = {h \in programmes : ProfileId[h] \in users}
      BY <2>2 DEF PurgeSelect, Select, Run, NoJob, IInv, JobsSound
    <3>2. QED
      BY <1>4, <3>1
  <2>3. CASE PurgeCommit(j)
    <3>1. job'[j].ids = job[j].ids /\ job'[j].guides = job[j].guides /\ job[j].step = "purge"
      BY <2>3 DEF PurgeCommit, Run, At, IInv, JobsSound, Sound, Job
    <3>2. QED
      BY <1>4, <3>1 DEF ToursInv
  <2>4. QED
    BY <1>4, <2>1, <2>2, <2>3, PurgesFromSelect
<1>5. QED
  BY <1>3, <1>4 DEF ToursInv

\* The purge deletes the files of a guide's excursions only for a user, purged by then,
\* whose id is the number of the guide's profile: the numbers that are mixed up harm
\* nobody else, wherever the purge dies (purge_abandoned_and_deleted_users).
THEOREM WipedByNumberOnly == Spec => []OnlyByNumber
<1>1. Init => ToursInv
  BY DEF Init, ToursInv, OnlyByNumber, NoJob
<1>2. IInv /\ ToursInv /\ [Next]_vars => ToursInv'
  BY NextTours
<1>3. ToursInv => OnlyByNumber
  BY DEF ToursInv
<1>4. QED
  BY <1>1, <1>2, <1>3, Invariance, PTL DEF Spec

\* What the code says of itself holds as long as profiles have their users' numbers.
THEOREM SameNumbersSpare ==
  ASSUME \A u \in Users : ProfileId[u] = u
  PROVE  Spec => []ToursOutliveGuides
<1>1. IInv /\ OnlyByNumber => ToursOutliveGuides
  <2> SUFFICES ASSUME IInv, OnlyByNumber, NEW g \in toursWiped PROVE g \notin programmes
    BY DEF ToursOutliveGuides
  <2>1. g \in Users /\ row[g].state = "purged"
    BY DEF OnlyByNumber, NumberPurged, IInv, Sets
  <2>2. g \notin profiles
    BY <2>1 DEF IInv, Belong, Exists
  <2>3. QED
    BY <2>2 DEF IInv, Sets
<1>2. QED
  BY <1>1, WipedByNumberOnly, Invariance, PTL
=============================================================================
