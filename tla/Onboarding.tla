----------------------------- MODULE Onboarding -----------------------------
(***************************************************************************)
(* One user on his way to become a partner: his row of                      *)
(* `onboarding_applications`, the bank's webhook, the survey with its       *)
(* photos, the administrators' decision, his profiles and his avatar.       *)
(* Different users share no row and no file.                                *)
(*                                                                          *)
(* A request reads the application by a plain SELECT and writes it later by *)
(* an UPDATE of the user's row; only the cancellation looks again.  Files   *)
(* live in S3, where nothing is rolled back.                                *)
(***************************************************************************)
EXTENDS Naturals, FiniteSets

CONSTANTS
    Photos,     \* kinds of documents: a file's key has the user's id and the kind
    PhotosOf,   \* ... that the survey of a role has (ROLE_ALLOWED_PHOTOS)
    Selfie,     \* the one that becomes a driver's avatar
    Avatars,    \* keys of avatars: a uuid each, so that every request has its own
    Requests,   \* requests about this user served at the same time
    OtherRoles, \* roles an administrator may give (AdminTargetRoleRequest)
    Faults,     \* which parts of the environment may fail
    MaxLinks,   \* bound: how many files a survey names by links of its own
    None        \* no role, no document, no avatar

Kinds      == {"supplier", "trip_guide"}
FaultKinds == {"api", "s3"}
Files      == Photos \cup Avatars

ASSUME OnboardingAssumption ==
    /\ PhotosOf \in [Kinds -> SUBSET Photos]
    /\ Selfie \in Photos
    /\ "customer" \in OtherRoles
    /\ Kinds \cap OtherRoles = {}
    /\ Faults \subseteq FaultKinds
    /\ MaxLinks \in Nat
    /\ None \notin Files \cup Kinds
    /\ "selfie" \notin Files
    /\ Photos \cap Avatars = {}

VARIABLES
    app,        \* the application: status, role, survey
    checked,    \* history: the bank has confirmed this user's phone
    role,       \* users.role
    profiles,   \* profiles he has: supplier_profiles, trip_guide_profiles
    filed,      \* photos of a profile that lie in onboarding/permanent
    granted,    \* documents the client was given an upload form for
    tmp,        \* files under onboarding/tmp
    permanent,  \* files under onboarding/permanent
    uploaded,   \* history: documents ever uploaded
    photo,      \* users.photo_url; "selfie" is a link set by the service
    avatars,    \* avatars the client was given, but for those deleted from S3
    linked,     \* history: files that a survey has named by a link of its own
    req         \* the requests being served

fileVars    == <<granted, tmp, permanent, uploaded>>
avatarVars  == <<photo, avatars>>
partnerVars == <<role, profiles, filed>>
vars        == <<app, checked, partnerVars, fileVars, avatarVars, linked, req>>

Status   == {"none", "pending_legal", "filling_survey", "on_moderation",
             "approved", "rejected", "canceled"}
Active   == {"pending_legal", "filling_survey", "on_moderation"}
Roles    == Kinds \cup OtherRoles

\* Photos' fields whose value is a link the client wrote and the service left as it was,
\* of the form of public_url, with the bucket in the path
Links    == [Photos -> Files \cup {None}]
NoLinks  == [p \in Photos |-> None]
Named(l) == {l[p] : p \in Photos} \ {None}

\* `survey`: the role whose fields the payload has; `moved`: those of its links that
\* the service has set to onboarding/permanent
Application == [status: Status, kind: Kinds \cup {None}, survey: Kinds \cup {None},
                moved: SUBSET Photos, links: Links]
NoApplication == [status |-> "none", kind |-> None, survey |-> None,
                  moved |-> {}, links |-> NoLinks]

Steps == {"idle", "clean", "upsert", "accept", "refuse", "move", "drop", "cancel",
          "approve", "reject", "avatar", "wipe"}

\* What a request has read, and how far its photos are: `move` those to be moved,
\* `broken` those whose link the service takes for another key
Request == [step: Steps, kind: Kinds \cup {None}, move: SUBSET Photos,
            broken: SUBSET Photos, moved: SUBSET Photos, file: Photos \cup {None},
            links: Links, old: Files \cup {None, "selfie"},
            new: Avatars \cup {None}]
IdleRequest == [step |-> "idle", kind |-> None, move |-> {}, broken |-> {},
                moved |-> {}, file |-> None, links |-> NoLinks, old |-> None, new |-> None]

Init ==
    /\ app       = NoApplication
    /\ checked   = FALSE
    /\ role      = "customer"
    /\ profiles  = {}
    /\ filed     = [k \in Kinds |-> {}]
    /\ granted   = {}
    /\ tmp       = {}
    /\ permanent = {}
    /\ uploaded  = {}
    /\ photo     = None
    /\ avatars   = {}
    /\ linked    = {}
    /\ req       = [r \in Requests |-> IdleRequest]

At(r, step)       == req[r].step = step
Serve(r, request) == req' = [req EXCEPT ![r] = request]
Answer(r)         == Serve(r, IdleRequest)

Read(r, step, kind) == At(r, "idle") /\ Serve(r, [IdleRequest EXCEPT !.step = step, !.kind = kind])

-----------------------------------------------------------------------------
(* The application: create_application, process_bank_webhook *)

\* Of an archived application the files are deleted that its payload names, if the
\* link has the form delete_files_batch looks for: those set by the service do not
CreateRead(r, kind) ==
    /\ app.status \notin Active
    /\ At(r, "idle")
    /\ Serve(r, [IdleRequest EXCEPT !.step = IF Named(app.links) = {} THEN "upsert" ELSE "clean",
                                    !.kind = kind, !.links = app.links])
    /\ UNCHANGED <<app, checked, partnerVars, fileVars, avatarVars, linked>>

\* A deletion that fails is logged, and the registration goes on
CreateClean(r) ==
    /\ At(r, "clean")
    /\ \E gone \in SUBSET Named(req[r].links) :
          /\ gone = Named(req[r].links) \/ "s3" \in Faults
          /\ permanent' = permanent \ gone
          /\ avatars' = avatars \ gone
    /\ Serve(r, [req[r] EXCEPT !.step = "upsert", !.links = NoLinks])
    /\ UNCHANGED <<app, checked, partnerVars, granted, tmp, uploaded, photo, linked>>

\* INSERT ... ON CONFLICT DO UPDATE, over whatever the row holds by now
CreateCommit(r) ==
    /\ At(r, "upsert")
    /\ app' = [NoApplication EXCEPT !.status = "pending_legal", !.kind = req[r].kind]
    /\ Answer(r)
    /\ UNCHANGED <<checked, partnerVars, fileVars, avatarVars, linked>>

\* The statement gives no target_region_id, which may not be NULL
CreateRefused(r) ==
    /\ At(r, "upsert")
    /\ Answer(r)
    /\ UNCHANGED <<app, checked, partnerVars, fileVars, avatarVars, linked>>

\* A repeated webhook, of an application that is past this step, changes nothing
BankRead(r) ==
    /\ app.status = "pending_legal"
    /\ \E step \in {"accept", "refuse"} : Read(r, step, None)   \* the phones match or not
    /\ UNCHANGED <<app, checked, partnerVars, fileVars, avatarVars, linked>>

\* The user's name and the application, in one commit
BankAccept(r) ==
    /\ At(r, "accept")
    /\ app' = [app EXCEPT !.status = "filling_survey"]
    /\ checked' = TRUE
    /\ Answer(r)
    /\ UNCHANGED <<partnerVars, fileVars, avatarVars, linked>>

BankRefuse(r) ==
    /\ At(r, "refuse")
    /\ app' = [app EXCEPT !.status = "rejected"]
    /\ Answer(r)
    /\ UNCHANGED <<checked, partnerVars, fileVars, avatarVars, linked>>

-----------------------------------------------------------------------------
(* cancel_current_application *)

CancelRead(r) ==
    /\ app.status \in {"pending_legal", "filling_survey"}
    /\ Read(r, "cancel", None)
    /\ UNCHANGED <<app, checked, partnerVars, fileVars, avatarVars, linked>>

CancelIf(r, statuses) ==
    /\ At(r, "cancel")
    /\ app' = IF app.status \in statuses THEN [app EXCEPT !.status = "canceled"] ELSE app
    /\ Answer(r)
    /\ UNCHANGED <<checked, partnerVars, fileVars, avatarVars, linked>>

\* MUTANT: what was read before is enough
CancelBlind(r) == CancelIf(r, Active)

\* The UPDATE looks at the status again
CancelCommit(r) == CancelIf(r, {"pending_legal", "filling_survey"})

-----------------------------------------------------------------------------
(* The photos and the survey: get_onboarding_upload_url, submit_survey *)

Grant(p) ==
    /\ app.status = "filling_survey"
    /\ p \in PhotosOf[app.kind]
    /\ granted' = granted \cup {p}
    /\ UNCHANGED <<app, checked, partnerVars, tmp, permanent, uploaded, avatarVars, linked, req>>

\* The client sends the file to S3 by himself.  The form is valid for 15 minutes, here for
\* ever: that it ends only forbids what may as well not happen.
Upload(p) ==
    /\ p \in granted
    /\ tmp' = tmp \cup {p}
    /\ uploaded' = uploaded \cup {p}
    /\ UNCHANGED <<app, checked, partnerVars, granted, permanent, avatarVars, linked, req>>

\* A link to tmp that names the bucket in its host is moved; the links that
\* get_upload_params hands out name it in their path, and the key that is cut out of
\* them is no file's; any other value stays as it is, also a link to another file
Survey == [move: SUBSET Photos, broken: SUBSET Photos, links: Links]

\* No client knows the key of an avatar before it is committed
Fits(survey) ==
    LET left == PhotosOf[app.kind] \ (survey.move \cup survey.broken)
    IN  /\ survey.move \cup survey.broken \subseteq PhotosOf[app.kind]
        /\ survey.move \cap survey.broken = {}
        /\ \A p \in Photos : survey.links[p] # None => p \in left
        /\ \A r \in Requests : At(r, "avatar") => req[r].new \notin Named(survey.links)
        /\ Cardinality(linked \cup Named(survey.links)) <= MaxLinks

SubmitFrom(r, statuses, survey) ==
    /\ app.status \in statuses
    /\ At(r, "idle")
    /\ Fits(survey)
    /\ Serve(r, [IdleRequest EXCEPT !.step = "move", !.kind = app.kind, !.move = survey.move,
                                    !.broken = survey.broken, !.links = survey.links])
    /\ linked' = linked \cup Named(survey.links)
    /\ UNCHANGED <<app, checked, partnerVars, fileVars, avatarVars>>

\* MUTANT: any application that is under way
SubmitUnchecked(r, survey) == SubmitFrom(r, Active, survey)

SubmitRead(r, survey) == SubmitFrom(r, {"filling_survey"}, survey)

CopyTo(r, p) ==
    /\ At(r, "move")
    /\ permanent' = IF p \in tmp THEN permanent \cup {p} ELSE permanent
    /\ Serve(r, [req[r] EXCEPT !.step = "drop", !.file = p])
    /\ UNCHANGED <<app, checked, partnerVars, granted, tmp, uploaded, avatarVars, linked>>

\* MUTANT: a copy that fails is logged, as a deletion is
CopyUnseen(r, p) ==
    /\ p \in req[r].move \ req[r].moved
    /\ CopyTo(r, p)

\* MUTANT: every photo the user has
CopyAny(r, p) ==
    /\ p \in tmp
    /\ CopyTo(r, p)

Copy(r, p) ==
    /\ p \in req[r].move \ req[r].moved
    /\ p \in tmp
    /\ CopyTo(r, p)

\* There is no such file, or S3 fails: the request ends, what it moved stays moved
CopyFails(r) ==
    /\ At(r, "move")
    /\ \/ req[r].broken # {}
       \/ req[r].move \ (req[r].moved \cup tmp) # {}
       \/ "s3" \in Faults /\ req[r].move # req[r].moved
    /\ Answer(r)
    /\ UNCHANGED <<app, checked, partnerVars, fileVars, avatarVars, linked>>

\* A deletion that fails is logged and forgotten
Drop(r) ==
    LET p == req[r].file
    IN  /\ At(r, "drop")
        /\ \/ tmp' = tmp \ {p}
           \/ "s3" \in Faults /\ UNCHANGED tmp
        /\ Serve(r, [req[r] EXCEPT !.step = "move", !.moved = @ \cup {p}, !.file = None])
        /\ UNCHANGED <<app, checked, partnerVars, granted, permanent, uploaded, avatarVars, linked>>

SubmitCommit(r) ==
    /\ At(r, "move")
    /\ req[r].broken = {}
    /\ req[r].moved = req[r].move
    /\ app' = [app EXCEPT !.status = "on_moderation", !.survey = req[r].kind,
                           !.moved = req[r].moved, !.links = req[r].links]
    /\ Answer(r)
    /\ UNCHANGED <<checked, partnerVars, fileVars, avatarVars, linked>>

-----------------------------------------------------------------------------
(* The administrators: approve_partner_application, reject_partner_application *)

\* A survey of another role is refused by its schema, one whose documents have
\* expired is too: then nothing happens
ApproveRead(r) ==
    /\ At(r, "idle")
    /\ app.status = "on_moderation"
    /\ app.survey = app.kind
    /\ Serve(r, [IdleRequest EXCEPT !.step = "approve", !.kind = app.kind,
                                    !.moved = app.moved, !.links = app.links])
    /\ UNCHANGED <<app, checked, partnerVars, fileVars, avatarVars, linked>>

\* The profile, the role, the status and a driver's avatar, in one commit
Approve(r, newRole) ==
    LET k == req[r].kind
    IN  /\ At(r, "approve")
        /\ k \notin profiles
        /\ profiles' = profiles \cup {k}
        /\ filed' = [filed EXCEPT ![k] = req[r].moved]
        /\ role' = newRole
        /\ app' = [app EXCEPT !.status = "approved"]
        /\ photo' = CASE k # "supplier"               -> photo
                      [] req[r].links[Selfie] = None -> "selfie"
                      [] OTHER                       -> req[r].links[Selfie]
        /\ Answer(r)
        /\ UNCHANGED <<checked, fileVars, avatars, linked>>

\* MUTANT: the role is the one the row has by now
ApproveFresh(r) == Approve(r, app.kind)

ApproveCommit(r) == Approve(r, req[r].kind)

\* The profile's user_id is unique: rollback and 500
ApproveConflict(r) ==
    /\ At(r, "approve")
    /\ req[r].kind \in profiles
    /\ Answer(r)
    /\ UNCHANGED <<app, checked, partnerVars, fileVars, avatarVars, linked>>

RejectRead(r) ==
    /\ app.status = "on_moderation"
    /\ Read(r, "reject", None)
    /\ UNCHANGED <<app, checked, partnerVars, fileVars, avatarVars, linked>>

RejectCommit(r) ==
    /\ At(r, "reject")
    /\ app' = [app EXCEPT !.status = "rejected"]
    /\ Answer(r)
    /\ UNCHANGED <<checked, partnerVars, fileVars, avatarVars, linked>>

\* set_user_role: an administrator gives him another role, which is no partner's
SetRole(other) ==
    /\ role' = other
    /\ UNCHANGED <<app, checked, profiles, filed, fileVars, avatarVars, linked, req>>

-----------------------------------------------------------------------------
(* update_avatar *)

\* A uuid that nobody has seen; the key of a deleted avatar that nothing refers to may
\* stand for it
Fresh(a) ==
    /\ a \notin avatars \cup linked \cup {photo}
    /\ \A r \in Requests : a \notin {req[r].old, req[r].new}

AvatarRead(r, a) ==
    /\ At(r, "idle")
    /\ Fresh(a)
    /\ Serve(r, [IdleRequest EXCEPT !.step = "avatar", !.old = photo, !.new = a])
    /\ UNCHANGED <<app, checked, partnerVars, fileVars, avatarVars, linked>>

AvatarCommit(r) ==
    /\ At(r, "avatar")
    /\ photo' = req[r].new
    /\ avatars' = avatars \cup {req[r].new}
    /\ Serve(r, [req[r] EXCEPT !.step = "wipe"])
    /\ UNCHANGED <<app, checked, partnerVars, fileVars, linked>>

\* delete_file_by_url: "selfie" has not the form it looks for
Wipe(r) ==
    /\ permanent' = permanent \ {req[r].old}
    /\ avatars' = avatars \ {req[r].old}
    /\ UNCHANGED <<app, checked, partnerVars, granted, tmp, uploaded, photo, linked>>

\* MUTANT: the old file is deleted before the commit, which may fail
AvatarWipeEarly(r) ==
    /\ req[r].step \in {"avatar", "wipe"}
    /\ Wipe(r)
    /\ IF At(r, "wipe") THEN Answer(r) ELSE UNCHANGED req

AvatarWipe(r) ==
    /\ At(r, "wipe")
    /\ Wipe(r)
    /\ Answer(r)

\* The process dies, the commit raises or the file stays
RequestLost(r) ==
    /\ "api" \in Faults
    /\ ~At(r, "idle")
    /\ Answer(r)
    /\ UNCHANGED <<app, checked, partnerVars, fileVars, avatarVars, linked>>

-----------------------------------------------------------------------------

ApplicationStep(r) ==
    \/ \E kind \in Kinds : CreateRead(r, kind)
    \/ CreateClean(r)
    \/ CreateCommit(r)
    \/ CreateRefused(r)
    \/ BankRead(r)
    \/ BankAccept(r)
    \/ BankRefuse(r)
    \/ CancelRead(r)
    \/ CancelCommit(r)

SurveyStep(r) ==
    \/ \E survey \in Survey : SubmitRead(r, survey)
    \/ \E p \in Photos : Copy(r, p)
    \/ CopyFails(r)
    \/ Drop(r)
    \/ SubmitCommit(r)

AdminStep(r) ==
    \/ ApproveRead(r)
    \/ ApproveCommit(r)
    \/ ApproveConflict(r)
    \/ RejectRead(r)
    \/ RejectCommit(r)

AvatarStep(r) ==
    \/ \E a \in Avatars : AvatarRead(r, a)
    \/ AvatarCommit(r)
    \/ AvatarWipe(r)

Next ==
    \/ \E r \in Requests :
          ApplicationStep(r) \/ SurveyStep(r) \/ AdminStep(r) \/ AvatarStep(r) \/ RequestLost(r)
    \/ \E p \in Photos : Grant(p) \/ Upload(p)
    \/ \E other \in OtherRoles : SetRole(other)

Spec == Init /\ [][Next]_vars

-----------------------------------------------------------------------------
(* What onboarding promises *)

TypeOK ==
    /\ app \in Application
    /\ checked \in BOOLEAN
    /\ role \in Roles
    /\ profiles \subseteq Kinds
    /\ filed \in [Kinds -> SUBSET Photos]
    /\ granted \subseteq Photos
    /\ tmp \subseteq Photos
    /\ permanent \subseteq Photos
    /\ uploaded \subseteq Photos
    /\ photo \in Files \cup {None, "selfie"}
    /\ avatars \subseteq Avatars
    /\ linked \subseteq Files
    /\ req \in [Requests -> Request]
    /\ app.status # "none" => app.kind \in Kinds
    /\ \A r \in Requests :
          /\ req[r].step \notin {"idle", "clean", "upsert", "avatar", "wipe"} => app.status # "none"
          /\ req[r].step \in {"clean", "upsert", "move", "drop", "approve"} => req[r].kind \in Kinds
          /\ req[r].step = "drop" => req[r].file \in Photos
          /\ req[r].step \in {"move", "drop"} => req[r].moved \subseteq req[r].move
          /\ req[r].step \in {"avatar", "wipe"} => req[r].new \in Avatars

\* Nobody is looked at by an administrator, or becomes a partner, whose phone the
\* bank has not confirmed, whichever of his requests overlap (submit_survey).
CheckedFirst == (app.status = "on_moderation" \/ profiles # {}) => checked

\* An application that is on moderation is not cancelled, also by a user whose
\* request read it before he sent his survey ("Отмена пользователем только тех заявок,
\* что не на модерации", cancel_application).
CancelSparesModeration ==
    [][app.status = "on_moderation" => app'.status # "canceled"]_vars

\* A document that was uploaded is in one of its two places, and a survey or a
\* profile names the permanent place of none that is not there, although S3 and the
\* database share no transaction.  Excepted are the files that the user himself has
\* named in a survey: a restart of his application deletes them, and so does a new
\* avatar after such a selfie (submit_survey, create_application).
Kept == permanent \cup linked
PhotosKept ==
    /\ uploaded \subseteq tmp \cup Kept
    /\ app.moved \subseteq Kept
    /\ \A k \in profiles : filed[k] \subseteq Kept

\* The file of a user's avatar is deleted only when his row names another, with the
\* same exception (update_avatar).
AvatarAlive == photo \in Avatars => photo \in avatars \cup linked

\* Approvals that race with each other, with rejections, restarts and other roles
\* make a partner once per role, and with the profile of that very role
\* (approve_partner_application).
Partner == INSTANCE Partnership
KeepsPartnership == Partner!Spec
=============================================================================
