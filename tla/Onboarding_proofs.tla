-------------------------- MODULE Onboarding_proofs --------------------------
(* Theorems about Onboarding, for any documents, avatars and requests. *)
EXTENDS Onboarding, TLAPS

-----------------------------------------------------------------------------
(* The invariant *)

\* What a request knows: it began with an application, the bank's answer came before
\* it, the photos it has moved are where it says, and the links it has read are some
\* that the user has sent
Sound(q, status, confirmed, kept, seen) ==
    /\ q \in Request
    /\ q.step \notin {"idle", "clean", "upsert", "avatar", "wipe"} => status # "none"
    /\ q.step \in {"clean", "upsert", "move", "drop", "approve"} => q.kind \in Kinds
    /\ q.step = "drop" => q.file \in Photos /\ q.file \in kept /\ q.file \in q.move
    /\ q.step \in {"move", "drop"} => q.moved \subseteq q.move
    /\ q.step \in {"avatar", "wipe"} => q.new \in Avatars
    /\ q.step \in {"move", "drop", "approve", "reject"} => confirmed
    /\ q.step \in {"move", "drop", "approve"} => q.moved \subseteq kept
    /\ Named(q.links) \subseteq seen

ReqsSound ==
    /\ req \in [Requests -> Request]
    /\ \A r \in Requests : Sound(req[r], app.status, checked, Kept, linked)

AppSound ==
    /\ app \in Application
    /\ app.status # "none" => app.kind \in Kinds
    /\ app.status \in {"filling_survey", "on_moderation"} => checked
    /\ app.moved \subseteq Kept
    /\ Named(app.links) \subseteq linked

PartnerSound ==
    /\ role \in Roles
    /\ profiles \subseteq Kinds
    /\ filed \in [Kinds -> SUBSET Photos]
    /\ profiles # {} => checked
    /\ \A k \in profiles : filed[k] \subseteq Kept

FilesSound ==
    /\ granted \subseteq Photos
    /\ tmp \subseteq Photos
    /\ permanent \subseteq Photos
    /\ uploaded \subseteq Photos
    /\ uploaded \subseteq tmp \cup Kept

\* The key of an avatar not yet committed is nobody else's, and a request deletes no
\* avatar that a row names or is going to name, unless the user has named it in a survey
Changing(r) == req[r].step \in {"avatar", "wipe"}
AvatarsSound ==
    /\ photo \in Files \cup {None, "selfie"}
    /\ avatars \subseteq Avatars
    /\ linked \subseteq Files
    /\ photo \in Files => photo \in avatars \cup linked
    /\ \A r \in Requests : Changing(r) /\ req[r].old \in Photos => req[r].old \in linked
    /\ \A r \in Requests : At(r, "avatar") =>
          /\ req[r].new \in Avatars \ linked
          /\ req[r].new # photo
          /\ \A s \in Requests : Changing(s) => req[s].old # req[r].new
          /\ \A s \in Requests : At(s, "avatar") /\ s # r => req[s].new # req[r].new
    /\ \A r \in Requests : At(r, "wipe") /\ req[r].old = photo /\ photo \in Files => photo \in linked

IInv ==
    /\ checked \in BOOLEAN
    /\ AppSound
    /\ PartnerSound
    /\ FilesSound
    /\ ReqsSound
    /\ AvatarsSound

LEMMA InvTypes == ASSUME IInv PROVE TypeOK
<1>1. \A r \in Requests :
        /\ req[r].step \notin {"idle", "clean", "upsert", "avatar", "wipe"} =>
              app.status # "none"
        /\ req[r].step \in {"clean", "upsert", "move", "drop", "approve"} => req[r].kind \in Kinds
        /\ req[r].step = "drop" => req[r].file \in Photos
        /\ req[r].step \in {"move", "drop"} => req[r].moved \subseteq req[r].move
        /\ req[r].step \in {"avatar", "wipe"} => req[r].new \in Avatars
  BY DEF IInv, ReqsSound, Sound
<1>2. /\ avatars \subseteq Avatars /\ linked \subseteq Files
      /\ photo \in Files \cup {None, "selfie"}
  BY DEF IInv, AvatarsSound
<1> QED
  BY <1>1, <1>2 DEF IInv, AppSound, PartnerSound, FilesSound, ReqsSound, TypeOK

LEMMA NoneNamed == NoLinks \in Links /\ Named(NoLinks) = {}
  BY DEF NoLinks, Links, Named

LEMMA IdleIsRequest ==
  /\ IdleRequest \in Request /\ IdleRequest.step = "idle"
  /\ IdleRequest.links = NoLinks /\ Named(IdleRequest.links) = {}
  BY NoneNamed DEF IdleRequest, Request, Steps

LEMMA InvInit == ASSUME Init PROVE IInv
<1>1. AppSound
  BY NoneNamed DEF Init, AppSound, NoApplication, Application, Status
<1>2. PartnerSound /\ FilesSound /\ checked \in BOOLEAN
  BY OnboardingAssumption DEF Init, PartnerSound, FilesSound, Roles, Kinds
<1>3. \A r \in Requests : req[r] = IdleRequest
  BY DEF Init
<1>4. ReqsSound
  BY <1>3, IdleIsRequest DEF Init, ReqsSound, Sound
<1>5. None \notin Files
  BY OnboardingAssumption
<1>6. \A r \in Requests : ~Changing(r) /\ ~At(r, "avatar") /\ ~At(r, "wipe")
  BY <1>3, IdleIsRequest DEF Changing, At
<1>7. AvatarsSound
  BY <1>5, <1>6 DEF Init, AvatarsSound
<1> QED
  BY <1>1, <1>2, <1>4, <1>7 DEF IInv

-----------------------------------------------------------------------------
(* Requests *)

\* What no step takes back
Grows ==
    /\ app.status # "none" => app'.status # "none"
    /\ checked => checked'
    /\ Kept \subseteq Kept'
    /\ linked \subseteq linked'

Others(r) == \A s \in Requests \ {r} : req'[s] = req[s]

LEMMA Served ==
  ASSUME ReqsSound, Grows, NEW r \in Requests, NEW q,
         Sound(q, app'.status, checked', Kept', linked'), Serve(r, q)
  PROVE  ReqsSound' /\ req'[r] = q /\ Others(r)
<1>1. q \in Request
  BY DEF Sound
<1>2. req'[r] = q /\ Others(r) /\ req' \in [Requests -> Request]
  BY <1>1 DEF Serve, ReqsSound, Others
<1>3. \A s \in Requests \ {r} : Sound(req'[s], app'.status, checked', Kept', linked')
  BY <1>2 DEF ReqsSound, Sound, Grows, Others
<1>4. \A s \in Requests : Sound(req'[s], app'.status, checked', Kept', linked')
  BY <1>2, <1>3
<1> QED
  BY <1>2, <1>4 DEF ReqsSound

LEMMA Waits == ASSUME ReqsSound, Grows, UNCHANGED req PROVE ReqsSound'
  BY DEF ReqsSound, Sound, Grows

LEMMA Answered ==
  ASSUME ReqsSound, Grows, NEW r \in Requests, Answer(r)
  PROVE  ReqsSound' /\ req'[r].step = "idle" /\ Others(r)
<1>1. Sound(IdleRequest, app'.status, checked', Kept', linked')
  BY IdleIsRequest DEF Sound
<1> QED
  BY <1>1, Served, IdleIsRequest DEF Answer

LEMMA Began ==
  ASSUME ReqsSound, Grows, NEW r \in Requests,
         NEW step \in {"accept", "refuse", "cancel", "reject"},
         app'.status # "none", step = "reject" => checked',
         Read(r, step, None)
  PROVE  ReqsSound' /\ req'[r].step = step /\ Others(r)
<1> DEFINE q == [IdleRequest EXCEPT !.step = step, !.kind = None]
<1>1. q \in Request /\ q.step = step /\ q.links = NoLinks
  BY IdleIsRequest DEF IdleRequest, Request, Steps
<1>2. Serve(r, q)
  BY DEF Read
<1> HIDE DEF q
<1>3. Sound(q, app'.status, checked', Kept', linked')
  BY <1>1, NoneNamed DEF Sound
<1> QED
  BY <1>1, <1>2, <1>3, Served

\* Avatars and the links to them, when only linked ones may go and the row may only
\* come to name one of those
LEMMA AvatarsStay ==
  ASSUME AvatarsSound, avatars' \subseteq avatars, avatars \subseteq avatars' \cup linked,
         linked \subseteq linked', linked' \subseteq Files,
         \A r \in Requests : At(r, "avatar") => req[r].new \notin linked',
         photo' \in {photo, "selfie"} \cup linked,
         \/ UNCHANGED req
         \/ \E r \in Requests : Others(r) /\ req'[r].step \notin {"avatar", "wipe"}
  PROVE  AvatarsSound'
<1>1. "selfie" \notin Files /\ Avatars \subseteq Files /\ Photos \subseteq Files
  BY OnboardingAssumption DEF Files
<1>2. \A s \in Requests : req'[s].step \in {"avatar", "wipe"} => req'[s] = req[s]
  BY DEF Others
<1>3. /\ photo' \in Files \cup {None, "selfie"}
      /\ avatars' \subseteq Avatars
      /\ photo' \in Files => photo' \in avatars' \cup linked'
  BY <1>1 DEF AvatarsSound
<1>4. \A s \in Requests : Changing(s)' /\ req'[s].old \in Photos => req'[s].old \in linked'
  BY <1>2 DEF AvatarsSound, Changing
<1>5. \A r \in Requests : At(r, "avatar")' =>
         /\ req'[r].new \in Avatars \ linked'
         /\ req'[r].new # photo'
         /\ \A s \in Requests : Changing(s)' => req'[s].old # req'[r].new
         /\ \A s \in Requests : At(s, "avatar")' /\ s # r => req'[s].new # req'[r].new
  <2> SUFFICES ASSUME NEW r \in Requests, req'[r].step = "avatar"
               PROVE  /\ req'[r].new \in Avatars \ linked'
                      /\ req'[r].new # photo'
                      /\ \A s \in Requests : Changing(s)' => req'[s].old # req'[r].new
                      /\ \A s \in Requests : At(s, "avatar")' /\ s # r =>
                            req'[s].new # req'[r].new
    BY DEF At
  <2>1. req'[r] = req[r] /\ At(r, "avatar")
    BY <1>2 DEF At
  <2>2. req[r].new \in Avatars \ linked' /\ req[r].new # photo /\ req[r].new # "selfie"
    BY <2>1, <1>1 DEF AvatarsSound
  <2> QED
    BY <1>2, <2>1, <2>2 DEF AvatarsSound, Changing, At
<1>6. \A r \in Requests : At(r, "wipe")' /\ req'[r].old = photo' /\ photo' \in Files
                           => photo' \in linked'
  BY <1>1, <1>2 DEF AvatarsSound, At
<1> QED
  BY <1>3, <1>4, <1>5, <1>6 DEF AvatarsSound, Changing, At

LEMMA AvatarsSame ==
  ASSUME AvatarsSound, UNCHANGED <<avatars, linked>>, photo' \in {photo, "selfie"} \cup linked,
         \/ UNCHANGED req
         \/ \E r \in Requests : Others(r) /\ req'[r].step \notin {"avatar", "wipe"}
  PROVE  AvatarsSound'
<1>1. linked' \subseteq Files /\ \A r \in Requests : At(r, "avatar") => req[r].new \notin linked'
  BY DEF AvatarsSound
<1> QED
  BY <1>1, AvatarsStay

\* Steps that change only the application and a request
LEMMA AppStep ==
  ASSUME IInv, Grows, AppSound', ReqsSound', checked' \in BOOLEAN,
         UNCHANGED <<partnerVars, fileVars, avatarVars, linked>>,
         \/ UNCHANGED req
         \/ \E r \in Requests : Others(r) /\ req'[r].step \notin {"avatar", "wipe"}
  PROVE  IInv'
<1>1. AvatarsSound'
  BY AvatarsSame DEF IInv, avatarVars
<1>2. PartnerSound'
  BY DEF IInv, PartnerSound, Grows, partnerVars
<1>3. FilesSound'
  BY DEF IInv, FilesSound, fileVars, Kept
<1> QED
  BY <1>1, <1>2, <1>3 DEF IInv

LEMMA SameKept ==
  ASSUME UNCHANGED <<permanent, linked>>
  PROVE  Kept \subseteq Kept' /\ linked \subseteq linked'
BY DEF Kept

LEMMA SameApp ==
  ASSUME IInv, UNCHANGED <<app, checked>>, Kept \subseteq Kept', linked \subseteq linked'
  PROVE  Grows /\ AppSound' /\ checked' \in BOOLEAN
BY DEF IInv, AppSound, Grows

\* A new status of the application, in the same survey
LEMMA NewStatus ==
  ASSUME IInv, app.status # "none", app' \in Application,
         app'.status # "none", app'.kind = app.kind, app'.moved = app.moved,
         app'.links = app.links,
         app'.status \in {"filling_survey", "on_moderation"} => checked',
         checked => checked', UNCHANGED <<permanent, linked>>
  PROVE  Grows /\ AppSound'
<1>1. Kept' = Kept
  BY DEF Kept
<1> QED
  BY <1>1 DEF IInv, AppSound, Grows

\* What a request at one of these steps may rely on
LEMMA Known ==
  ASSUME IInv, NEW r \in Requests
  PROVE  Sound(req[r], app.status, checked, Kept, linked)
BY DEF IInv, ReqsSound

-----------------------------------------------------------------------------
(* The actions on the application *)

LEMMA CreateBegins ==
  ASSUME IInv, NEW r \in Requests, NEW kind \in Kinds, CreateRead(r, kind)
  PROVE  IInv'
<1> DEFINE step == IF Named(app.links) = {} THEN "upsert" ELSE "clean"
           q == [IdleRequest EXCEPT !.step = step, !.kind = kind, !.links = app.links]
<1>1. Serve(r, q) /\ UNCHANGED <<app, checked, partnerVars, fileVars, avatarVars, linked>>
  BY DEF CreateRead
<1>2. app.links \in Links /\ Named(app.links) \subseteq linked
  BY DEF IInv, AppSound, Application
<1>3. step \in {"upsert", "clean"}
  OBVIOUS
<1> HIDE DEF step
<1>4. q \in Request /\ q.step = step /\ q.kind = kind /\ q.links = app.links
  BY <1>2, <1>3 DEF IdleRequest, Request, Steps
<1> HIDE DEF q
<1>5. Grows /\ AppSound' /\ checked' \in BOOLEAN
  BY <1>1, SameKept, SameApp DEF fileVars
<1>6. Sound(q, app'.status, checked', Kept', linked')
  BY <1>1, <1>2, <1>3, <1>4 DEF Sound
<1>7. ReqsSound' /\ req'[r] = q /\ Others(r)
  BY <1>1, <1>5, <1>6, Served DEF IInv
<1> QED
  BY <1>1, <1>3, <1>4, <1>5, <1>7, AppStep

\* What a restart deletes the user has named himself
LEMMA CreateCleans == ASSUME IInv, NEW r \in Requests, CreateClean(r) PROVE IInv'
<1> DEFINE q == [req[r] EXCEPT !.step = "upsert", !.links = NoLinks]
<1>1. PICK gone \in SUBSET Named(req[r].links) :
        permanent' = permanent \ gone /\ avatars' = avatars \ gone
  BY DEF CreateClean
<1>2. /\ req[r].step = "clean" /\ Serve(r, q)
      /\ UNCHANGED <<app, checked, partnerVars, granted, tmp, uploaded, photo, linked>>
  BY DEF CreateClean, At
<1>3. Sound(req[r], app.status, checked, Kept, linked)
  BY Known
<1>4. gone \subseteq linked /\ req[r] \in Request /\ req[r].kind \in Kinds
  BY <1>1, <1>2, <1>3 DEF Sound
<1>5. q \in Request /\ q.step = "upsert" /\ q.kind = req[r].kind /\ q.links = NoLinks
  BY <1>4, NoneNamed DEF Request, Steps
<1> HIDE DEF q
<1>6. Kept' = Kept
  BY <1>1, <1>2, <1>4 DEF Kept
<1>7. Grows /\ AppSound' /\ checked' \in BOOLEAN
  BY <1>2, <1>6, SameApp
<1>8. Sound(q, app'.status, checked', Kept', linked')
  BY <1>4, <1>5, NoneNamed DEF Sound
<1>9. ReqsSound' /\ req'[r] = q /\ Others(r)
  BY <1>2, <1>7, <1>8, Served DEF IInv
<1>10. AvatarsSound'
  <2>1. linked' \subseteq Files /\ \A s \in Requests : At(s, "avatar") => req[s].new \notin linked'
    BY <1>2 DEF IInv, AvatarsSound
  <2> QED
    BY <1>1, <1>2, <1>4, <1>5, <1>9, <2>1, AvatarsStay DEF IInv
<1>11. PartnerSound' /\ FilesSound'
  BY <1>1, <1>2, <1>6 DEF IInv, PartnerSound, FilesSound, partnerVars
<1> QED
  BY <1>7, <1>9, <1>10, <1>11 DEF IInv

LEMMA ReadStep ==
  ASSUME IInv, NEW r \in Requests, BankRead(r) \/ CancelRead(r) \/ RejectRead(r)
  PROVE  IInv'
<1>1. UNCHANGED <<app, checked, partnerVars, fileVars, avatarVars, linked>>
  BY DEF BankRead, CancelRead, RejectRead
<1>2. Grows /\ AppSound' /\ checked' \in BOOLEAN
  BY <1>1, SameKept, SameApp DEF fileVars
<1>3. PICK step \in {"accept", "refuse", "cancel", "reject"} :
        /\ app'.status # "none"
        /\ step = "reject" => checked'
        /\ Read(r, step, None)
  <2>1. CASE BankRead(r)
    BY <1>1, <2>1 DEF BankRead
  <2>2. CASE CancelRead(r)
    BY <1>1, <2>2 DEF CancelRead
  <2>3. CASE RejectRead(r)
    <3>1. checked' /\ app'.status # "none"
      BY <1>1, <2>3 DEF RejectRead, IInv, AppSound
    <3> QED
      BY <2>3, <3>1 DEF RejectRead
  <2> QED
    BY <2>1, <2>2, <2>3
<1>4. ReqsSound' /\ req'[r].step = step /\ Others(r)
  BY <1>2, <1>3, Began DEF IInv
<1> QED
  BY <1>1, <1>2, <1>4, AppStep

\* A request that is answered, whether it has changed the application or not
LEMMA AnswerStep ==
  ASSUME IInv, NEW r \in Requests, Answer(r), Grows, AppSound', checked' \in BOOLEAN,
         UNCHANGED <<partnerVars, fileVars, avatarVars, linked>>
  PROVE  IInv'
<1>1. ReqsSound' /\ req'[r].step = "idle" /\ Others(r)
  BY Answered DEF IInv
<1> QED
  BY <1>1, AppStep

LEMMA CreateStep == ASSUME IInv, NEW r \in Requests, CreateCommit(r) PROVE IInv'
<1>1. req[r].kind \in Kinds
  BY Known DEF Sound, CreateCommit, At
<1>2. /\ app' = [NoApplication EXCEPT !.status = "pending_legal", !.kind = req[r].kind]
      /\ UNCHANGED <<checked, fileVars, linked>>
  BY DEF CreateCommit
<1>3. /\ app' \in Application /\ app'.status = "pending_legal"
      /\ app'.kind = req[r].kind /\ app'.moved = {} /\ Named(app'.links) = {}
  BY <1>1, <1>2, NoneNamed DEF NoApplication, Application, Status
<1>4. Grows /\ AppSound' /\ checked' \in BOOLEAN
  BY <1>1, <1>2, <1>3 DEF IInv, Grows, AppSound, fileVars, Kept
<1> QED
  BY <1>4, AnswerStep DEF CreateCommit

LEMMA DecideStep ==
  ASSUME IInv, NEW r \in Requests,
         BankAccept(r) \/ BankRefuse(r) \/ CancelCommit(r) \/ RejectCommit(r)
  PROVE  IInv'
<1>1. app.status # "none"
  BY Known DEF Sound, BankAccept, BankRefuse, CancelCommit, CancelIf, RejectCommit, At
<1>2. Answer(r) /\ UNCHANGED <<partnerVars, fileVars, avatarVars, linked>>
  BY DEF BankAccept, BankRefuse, CancelCommit, CancelIf, RejectCommit
<1>3. UNCHANGED <<permanent, linked>>
  BY <1>2 DEF fileVars
<1>4. CASE BankAccept(r)
  <2>1. checked' = TRUE /\ app' = [app EXCEPT !.status = "filling_survey"]
    BY <1>4 DEF BankAccept
  <2>2. /\ app' \in Application /\ app'.status = "filling_survey" /\ app'.kind = app.kind
        /\ app'.moved = app.moved /\ app'.links = app.links
    BY <2>1 DEF IInv, AppSound, Application, Status
  <2>3. Grows /\ AppSound'
    BY <1>1, <1>3, <2>1, <2>2, NewStatus
  <2> QED
    BY <1>2, <2>1, <2>3, AnswerStep
<1>5. CASE BankRefuse(r) \/ RejectCommit(r)
  <2>1. checked' = checked /\ app' = [app EXCEPT !.status = "rejected"]
    BY <1>5 DEF BankRefuse, RejectCommit
  <2>2. /\ app' \in Application /\ app'.status = "rejected" /\ app'.kind = app.kind
        /\ app'.moved = app.moved /\ app'.links = app.links
    BY <2>1 DEF IInv, AppSound, Application, Status
  <2>3. Grows /\ AppSound'
    BY <1>1, <1>3, <2>1, <2>2, NewStatus
  <2>4. checked' \in BOOLEAN
    BY <2>1 DEF IInv
  <2> QED
    BY <1>2, <2>3, <2>4, AnswerStep
<1>6. CASE CancelCommit(r)
  <2>1. checked' = checked /\ (app' = app \/ app' = [app EXCEPT !.status = "canceled"])
    BY <1>6 DEF CancelCommit, CancelIf
  <2>2. CASE app' = app
    <3>1. Grows /\ AppSound' /\ checked' \in BOOLEAN
      BY <1>3, <2>1, <2>2, SameKept, SameApp
    <3> QED
      BY <1>2, <3>1, AnswerStep
  <2>3. CASE app' = [app EXCEPT !.status = "canceled"]
    <3>1. /\ app' \in Application /\ app'.status = "canceled" /\ app'.kind = app.kind
          /\ app'.moved = app.moved /\ app'.links = app.links
      BY <2>3 DEF IInv, AppSound, Application, Status
    <3>2. Grows /\ AppSound'
      BY <1>1, <1>3, <2>1, <3>1, NewStatus
    <3>3. checked' \in BOOLEAN
      BY <2>1 DEF IInv
    <3> QED
      BY <1>2, <3>2, <3>3, AnswerStep
  <2> QED
    BY <2>1, <2>2, <2>3
<1> QED
  BY <1>4, <1>5, <1>6

LEMMA EndStep ==
  ASSUME IInv, NEW r \in Requests,
         CreateRefused(r) \/ CopyFails(r) \/ ApproveConflict(r) \/ RequestLost(r)
  PROVE  IInv'
<1>1. Answer(r) /\ UNCHANGED <<app, checked, partnerVars, fileVars, avatarVars, linked>>
  BY DEF CreateRefused, CopyFails, ApproveConflict, RequestLost
<1>2. Grows /\ AppSound' /\ checked' \in BOOLEAN
  BY <1>1, SameKept, SameApp DEF fileVars
<1> QED
  BY <1>1, <1>2, AnswerStep

-----------------------------------------------------------------------------
(* The files and the survey *)

LEMMA FormStep ==
  ASSUME IInv, NEW p \in Photos, Grant(p) \/ Upload(p)
  PROVE  IInv'
<1>1. UNCHANGED <<app, checked, partnerVars, permanent, avatarVars, linked, req>>
  BY DEF Grant, Upload
<1>2. Grows /\ AppSound' /\ checked' \in BOOLEAN
  BY <1>1, SameKept, SameApp
<1>3. ReqsSound'
  BY <1>1, <1>2, Waits DEF IInv
<1>4. FilesSound'
  BY DEF IInv, FilesSound, Grant, Upload, Kept
<1>5. PartnerSound'
  BY <1>1 DEF IInv, PartnerSound, partnerVars, Kept
<1>6. AvatarsSound'
  BY <1>1, AvatarsSame DEF IInv, avatarVars
<1> QED
  BY <1>2, <1>3, <1>4, <1>5, <1>6 DEF IInv

LEMMA SubmitStep ==
  ASSUME IInv, NEW r \in Requests, NEW survey \in Survey, SubmitRead(r, survey)
  PROVE  IInv'
<1> DEFINE q == [IdleRequest EXCEPT !.step = "move", !.kind = app.kind, !.move = survey.move,
                                    !.broken = survey.broken, !.links = survey.links]
<1>1. /\ UNCHANGED <<app, checked, partnerVars, fileVars, avatarVars>>
      /\ linked' = linked \cup Named(survey.links)
      /\ app.status = "filling_survey" /\ Serve(r, q)
  BY DEF SubmitRead, SubmitFrom
<1>2. app.kind \in Kinds /\ checked
  BY <1>1 DEF IInv, AppSound
<1>3. /\ survey.move \in SUBSET Photos /\ survey.broken \in SUBSET Photos
      /\ survey.links \in Links /\ Named(survey.links) \subseteq Files
  BY DEF Survey, Links, Named
<1>4. Kept \subseteq Kept' /\ linked \subseteq linked' /\ linked' \subseteq Files
  BY <1>1, <1>3 DEF Kept, fileVars, IInv, AvatarsSound
<1>5. Grows /\ AppSound' /\ checked' \in BOOLEAN
  BY <1>1, <1>4, SameApp
<1>6. /\ q \in Request /\ q.step = "move" /\ q.kind \in Kinds /\ q.moved = {}
      /\ q.links = survey.links
  BY <1>2, <1>3 DEF IdleRequest, Request, Steps
<1> HIDE DEF q
<1>7. Sound(q, app'.status, checked', Kept', linked')
  BY <1>1, <1>2, <1>6 DEF Sound
<1>8. ReqsSound' /\ req'[r] = q /\ Others(r)
  BY <1>1, <1>5, <1>7, Served DEF IInv
<1>9. \A s \in Requests : At(s, "avatar") => req[s].new \notin linked'
  BY <1>1 DEF SubmitRead, SubmitFrom, Fits, IInv, AvatarsSound
<1>10. AvatarsSound'
  BY <1>1, <1>4, <1>6, <1>8, <1>9, AvatarsStay DEF IInv, avatarVars
<1>11. PartnerSound' /\ FilesSound'
  BY <1>1, <1>4 DEF IInv, PartnerSound, FilesSound, partnerVars, fileVars
<1> QED
  BY <1>5, <1>8, <1>10, <1>11 DEF IInv

LEMMA CopyStep ==
  ASSUME IInv, NEW r \in Requests, NEW p \in Photos, Copy(r, p)
  PROVE  IInv'
<1> DEFINE q == [req[r] EXCEPT !.step = "drop", !.file = p]
<1>1. /\ permanent' = permanent \cup {p} /\ Serve(r, q)
      /\ UNCHANGED <<app, checked, partnerVars, granted, tmp, uploaded, avatarVars, linked>>
  BY DEF Copy, CopyTo
<1>2. Kept' = Kept \cup {p}
  BY <1>1 DEF Kept
<1>3. /\ req[r].step = "move" /\ Sound(req[r], app.status, checked, Kept, linked)
      /\ p \in req[r].move
  BY Known DEF Copy, CopyTo, At
<1>4. Grows /\ AppSound' /\ checked' \in BOOLEAN
  BY <1>1, <1>2, SameApp
<1>5. /\ q \in Request /\ q.step = "drop" /\ q.kind = req[r].kind /\ q.links = req[r].links
      /\ q.moved = req[r].moved /\ q.move = req[r].move /\ q.file = p
  BY <1>3 DEF Sound, Request, Steps
<1> HIDE DEF q
<1>6. Sound(q, app'.status, checked', Kept', linked')
  BY <1>1, <1>2, <1>3, <1>5 DEF Sound
<1>7. ReqsSound' /\ req'[r] = q /\ Others(r)
  BY <1>1, <1>4, <1>6, Served DEF IInv
<1>8. AvatarsSound'
  BY <1>1, <1>5, <1>7, AvatarsSame DEF IInv, avatarVars
<1>9. PartnerSound' /\ FilesSound'
  BY <1>1, <1>2 DEF IInv, PartnerSound, FilesSound, partnerVars
<1> QED
  BY <1>4, <1>7, <1>8, <1>9 DEF IInv

LEMMA DropStep == ASSUME IInv, NEW r \in Requests, Drop(r) PROVE IInv'
<1> DEFINE p == req[r].file
           moved == req[r].moved \cup {p}
           q == [req[r] EXCEPT !.step = "move", !.moved = moved, !.file = None]
<1>1. /\ tmp' = tmp \ {p} \/ tmp' = tmp
      /\ Serve(r, q)
      /\ UNCHANGED <<app, checked, partnerVars, granted, permanent, uploaded, avatarVars, linked>>
  BY DEF Drop
<1>2. /\ req[r].step = "drop" /\ Sound(req[r], app.status, checked, Kept, linked)
  BY Known DEF Drop, At
<1>3. Kept' = Kept
  BY <1>1 DEF Kept
<1>4. Grows /\ AppSound' /\ checked' \in BOOLEAN
  BY <1>1, <1>3, SameApp
<1>5. /\ p \in Photos /\ p \in Kept /\ p \in req[r].move
      /\ req[r].moved \subseteq req[r].move /\ req[r].moved \subseteq Kept
      /\ req[r] \in Request /\ req[r].kind \in Kinds
  BY <1>2 DEF Sound
<1>6. moved \in SUBSET Photos /\ moved \subseteq Kept /\ moved \subseteq req[r].move
  BY <1>5 DEF Request
<1> HIDE DEF moved
<1>7. /\ q \in Request /\ q.step = "move" /\ q.kind = req[r].kind /\ q.links = req[r].links
      /\ q.moved = moved /\ q.move = req[r].move
  BY <1>5, <1>6 DEF Request, Steps
<1> HIDE DEF q
<1>8. Sound(q, app'.status, checked', Kept', linked')
  BY <1>1, <1>2, <1>3, <1>5, <1>6, <1>7 DEF Sound
<1>9. ReqsSound' /\ req'[r] = q /\ Others(r)
  BY <1>1, <1>4, <1>8, Served DEF IInv
<1>10. AvatarsSound'
  BY <1>1, <1>7, <1>9, AvatarsSame DEF IInv, avatarVars
<1>11. FilesSound'
  BY <1>1, <1>3, <1>5 DEF IInv, FilesSound
<1>12. PartnerSound'
  BY <1>1, <1>3 DEF IInv, PartnerSound, partnerVars
<1> QED
  BY <1>4, <1>9, <1>10, <1>11, <1>12 DEF IInv

LEMMA SubmitDone == ASSUME IInv, NEW r \in Requests, SubmitCommit(r) PROVE IInv'
<1>1. /\ req[r].step = "move" /\ Sound(req[r], app.status, checked, Kept, linked)
  BY Known DEF SubmitCommit, At
<1>2. /\ app' = [app EXCEPT !.status = "on_moderation", !.survey = req[r].kind,
                            !.moved = req[r].moved, !.links = req[r].links]
      /\ Answer(r) /\ UNCHANGED <<checked, partnerVars, fileVars, avatarVars, linked>>
  BY DEF SubmitCommit
<1>3. /\ req[r].kind \in Kinds /\ req[r].moved \subseteq Photos /\ req[r].moved \subseteq Kept
      /\ req[r].links \in Links /\ Named(req[r].links) \subseteq linked
      /\ app.status # "none" /\ checked
  BY <1>1 DEF Sound, Request
<1>4. /\ app' \in Application /\ app'.status = "on_moderation" /\ app'.kind = app.kind
      /\ app'.moved = req[r].moved /\ app'.links = req[r].links
  BY <1>2, <1>3 DEF IInv, AppSound, Application, Status
<1>5. Kept' = Kept
  BY <1>2 DEF Kept, fileVars
<1>6. Grows /\ AppSound' /\ checked' \in BOOLEAN
  BY <1>2, <1>3, <1>4, <1>5 DEF IInv, AppSound, Grows
<1> QED
  BY <1>2, <1>6, AnswerStep

-----------------------------------------------------------------------------
(* The administrators *)

LEMMA ApproveBegins == ASSUME IInv, NEW r \in Requests, ApproveRead(r) PROVE IInv'
<1> DEFINE q == [IdleRequest EXCEPT !.step = "approve", !.kind = app.kind,
                                    !.moved = app.moved, !.links = app.links]
<1>1. /\ UNCHANGED <<app, checked, partnerVars, fileVars, avatarVars, linked>>
      /\ app.status = "on_moderation" /\ Serve(r, q)
  BY DEF ApproveRead
<1>2. /\ app.kind \in Kinds /\ app.moved \subseteq Kept /\ app.moved \in SUBSET Photos
      /\ app.links \in Links /\ Named(app.links) \subseteq linked /\ checked
  BY <1>1 DEF IInv, AppSound, Application
<1>3. Grows /\ AppSound' /\ checked' \in BOOLEAN /\ Kept' = Kept
  BY <1>1, SameKept, SameApp DEF fileVars, Kept
<1>4. /\ q \in Request /\ q.step = "approve" /\ q.kind \in Kinds /\ q.moved = app.moved
      /\ q.links = app.links
  BY <1>2 DEF IdleRequest, Request, Steps
<1> HIDE DEF q
<1>5. Sound(q, app'.status, checked', Kept', linked')
  BY <1>1, <1>2, <1>3, <1>4 DEF Sound
<1>6. ReqsSound' /\ req'[r] = q /\ Others(r)
  BY <1>1, <1>3, <1>5, Served DEF IInv
<1> QED
  BY <1>1, <1>3, <1>4, <1>6, AppStep

LEMMA ApproveStep == ASSUME IInv, NEW r \in Requests, ApproveCommit(r) PROVE IInv'
<1> DEFINE k == req[r].kind
           link == req[r].links[Selfie]
<1>1. /\ req[r].step = "approve" /\ Sound(req[r], app.status, checked, Kept, linked)
  BY Known DEF ApproveCommit, Approve, At
<1>2. /\ k \in Kinds /\ req[r].moved \in SUBSET Photos /\ req[r].moved \subseteq Kept
      /\ Named(req[r].links) \subseteq linked /\ app.status # "none" /\ checked
  BY <1>1 DEF Sound, Request
<1>3. /\ profiles' = profiles \cup {k} /\ filed' = [filed EXCEPT ![k] = req[r].moved]
      /\ role' = k /\ app' = [app EXCEPT !.status = "approved"]
      /\ photo' \in {photo, "selfie"} \/ (photo' = link /\ link # None)
      /\ Answer(r) /\ UNCHANGED <<checked, fileVars, avatars, linked>>
  BY DEF ApproveCommit, Approve
<1>4. link # None => link \in linked
  BY <1>2, OnboardingAssumption DEF Named
<1>5. /\ app' \in Application /\ app'.status = "approved" /\ app'.kind = app.kind
      /\ app'.moved = app.moved /\ app'.links = app.links
  BY <1>3 DEF IInv, AppSound, Application, Status
<1>6. UNCHANGED <<permanent, linked>> /\ Kept' = Kept
  BY <1>3 DEF fileVars, Kept
<1>7. Grows /\ AppSound' /\ checked' \in BOOLEAN
  BY <1>2, <1>3, <1>5, <1>6, NewStatus DEF IInv
<1>8. ReqsSound' /\ req'[r].step = "idle" /\ Others(r)
  BY <1>3, <1>7, Answered DEF IInv
<1>9. PartnerSound'
  BY <1>2, <1>3, <1>6 DEF IInv, PartnerSound, Roles
<1>10. FilesSound'
  BY <1>3, <1>6 DEF IInv, FilesSound, fileVars
<1>11. AvatarsSound'
  BY <1>3, <1>4, <1>8, AvatarsSame DEF IInv
<1> QED
  BY <1>7, <1>8, <1>9, <1>10, <1>11 DEF IInv

LEMMA RoleStep ==
  ASSUME IInv, NEW other \in OtherRoles, SetRole(other)
  PROVE  IInv'
<1>1. /\ role' = other
      /\ UNCHANGED <<app, checked, profiles, filed, fileVars, avatarVars, linked, req>>
  BY DEF SetRole
<1>2. Grows /\ AppSound' /\ checked' \in BOOLEAN /\ Kept' = Kept
  BY <1>1, SameKept, SameApp DEF fileVars, Kept
<1>3. ReqsSound'
  BY <1>1, <1>2, Waits DEF IInv
<1>4. PartnerSound' /\ FilesSound'
  BY <1>1, <1>2 DEF IInv, PartnerSound, FilesSound, Roles, fileVars
<1>5. AvatarsSound'
  BY <1>1, AvatarsSame DEF IInv, avatarVars
<1> QED
  BY <1>2, <1>3, <1>4, <1>5 DEF IInv

-----------------------------------------------------------------------------
(* The avatar *)

\* Everything but the avatars, when a request about them moves
LEMMA AvatarMoved ==
  ASSUME IInv, NEW r \in Requests, NEW q, q \in Request,
         q.step \in {"idle", "avatar", "wipe"},
         q.step # "idle" => q.new \in Avatars,
         Named(q.links) \subseteq linked, Serve(r, q), Kept' = Kept, permanent' \subseteq permanent,
         UNCHANGED <<app, checked, partnerVars, granted, tmp, uploaded, linked>>
  PROVE  /\ req'[r] = q /\ Others(r)
         /\ AvatarsSound' => IInv'
<1>1. Grows /\ AppSound' /\ checked' \in BOOLEAN
  BY SameApp
<1>2. Sound(q, app'.status, checked', Kept', linked')
  BY DEF Sound
<1>3. ReqsSound' /\ req'[r] = q /\ Others(r)
  BY <1>1, <1>2, Served DEF IInv
<1>4. PartnerSound' /\ FilesSound'
  BY DEF IInv, PartnerSound, FilesSound, partnerVars
<1> QED
  BY <1>1, <1>3, <1>4 DEF IInv

LEMMA AvatarBegins ==
  ASSUME IInv, NEW r \in Requests, NEW a \in Avatars, AvatarRead(r, a)
  PROVE  IInv'
<1> DEFINE q == [IdleRequest EXCEPT !.step = "avatar", !.old = photo, !.new = a]
<1>1. /\ Fresh(a) /\ Serve(r, q)
      /\ UNCHANGED <<app, checked, partnerVars, fileVars, photo, avatars, linked>>
  BY DEF AvatarRead, avatarVars
<1>2. AvatarsSound
  BY DEF IInv
<1>3. /\ q \in Request /\ q.step = "avatar" /\ q.old = photo /\ q.new = a /\ q.links = NoLinks
  BY <1>2, NoneNamed DEF AvatarsSound, IdleRequest, Request, Steps
<1> HIDE DEF q
<1>4. Kept' = Kept /\ permanent' = permanent /\ UNCHANGED <<granted, tmp, uploaded>>
  BY <1>1 DEF Kept, fileVars
<1>5. req'[r] = q /\ Others(r) /\ (AvatarsSound' => IInv')
  BY <1>1, <1>3, <1>4, NoneNamed, AvatarMoved
<1>6. \A s \in Requests : s # r => req'[s] = req[s]
  BY <1>5 DEF Others
<1>7. photo \in Photos => photo \in linked
  BY <1>2, OnboardingAssumption DEF AvatarsSound, Files
<1>8. \A s \in Requests : Changing(s)' /\ req'[s].old \in Photos => req'[s].old \in linked
  BY <1>2, <1>3, <1>5, <1>6, <1>7 DEF AvatarsSound, Changing
<1>9. ASSUME NEW s \in Requests, req'[s].step = "avatar"
      PROVE  /\ req'[s].new \in Avatars \ linked
             /\ req'[s].new # photo
             /\ \A t \in Requests : Changing(t)' => req'[t].old # req'[s].new
             /\ \A t \in Requests : At(t, "avatar")' /\ t # s => req'[t].new # req'[s].new
  <2>1. CASE s = r
    BY <1>1, <1>3, <1>5, <1>6, <2>1 DEF Fresh
  <2>2. CASE s # r
    BY <1>1, <1>2, <1>3, <1>5, <1>6, <1>9, <2>2 DEF AvatarsSound, Changing, At, Fresh
  <2> QED
    BY <2>1, <2>2
<1>10. \A s \in Requests : req'[s].step = "wipe" /\ req'[s].old = photo /\ photo \in Files
                           => photo \in linked
  BY <1>2, <1>3, <1>5, <1>6 DEF AvatarsSound, At
<1>11. AvatarsSound'
  BY <1>1, <1>2, <1>8, <1>9, <1>10 DEF AvatarsSound, Changing, At
<1> QED
  BY <1>5, <1>11

LEMMA AvatarCommits == ASSUME IInv, NEW r \in Requests, AvatarCommit(r) PROVE IInv'
<1> DEFINE q == [req[r] EXCEPT !.step = "wipe"]
<1>1. /\ req[r].step = "avatar" /\ Serve(r, q) /\ photo' = req[r].new
      /\ avatars' = avatars \cup {req[r].new}
      /\ UNCHANGED <<app, checked, partnerVars, fileVars, linked>>
  BY DEF AvatarCommit, At
<1>2. req[r] \in Request /\ Named(req[r].links) \subseteq linked
  BY <1>1, Known DEF Sound
<1>3. /\ q \in Request /\ q.step = "wipe" /\ q.old = req[r].old /\ q.new = req[r].new
      /\ q.links = req[r].links
  BY <1>2 DEF Request, Steps
<1> HIDE DEF q
<1>4. AvatarsSound
  BY DEF IInv
<1>5. /\ req[r].new \in Avatars /\ req[r].new # req[r].old
      /\ \A s \in Requests : Changing(s) => req[s].old # req[r].new
      /\ \A s \in Requests : At(s, "avatar") /\ s # r => req[s].new # req[r].new
  BY <1>1, <1>4 DEF AvatarsSound, At, Changing
<1>6. Kept' = Kept /\ permanent' = permanent /\ UNCHANGED <<granted, tmp, uploaded>>
  BY <1>1 DEF Kept, fileVars
<1>7. req'[r] = q /\ Others(r) /\ (AvatarsSound' => IInv')
  BY <1>1, <1>2, <1>3, <1>5, <1>6, AvatarMoved
<1>8. \A s \in Requests : s # r => req'[s] = req[s]
  BY <1>7 DEF Others
<1>9. /\ photo' \in Files /\ avatars' \subseteq Avatars /\ linked' \subseteq Files
      /\ photo' \in avatars'
  BY <1>1, <1>4, <1>5 DEF AvatarsSound, Files
<1>10. \A s \in Requests : Changing(s)' /\ req'[s].old \in Photos => req'[s].old \in linked
  BY <1>1, <1>3, <1>4, <1>7, <1>8 DEF AvatarsSound, Changing
<1>11. ASSUME NEW s \in Requests, req'[s].step = "avatar"
       PROVE  /\ req'[s].new \in Avatars \ linked
              /\ req'[s].new # photo'
              /\ \A t \in Requests : Changing(t)' => req'[t].old # req'[s].new
              /\ \A t \in Requests : At(t, "avatar")' /\ t # s => req'[t].new # req'[s].new
  <2>1. s # r /\ req'[s] = req[s] /\ At(s, "avatar")
    BY <1>3, <1>7, <1>8, <1>11 DEF At
  <2> QED
    BY <1>1, <1>3, <1>4, <1>5, <1>7, <1>8, <2>1 DEF AvatarsSound, Changing, At
<1>12. \A s \in Requests : req'[s].step = "wipe" => req'[s].old # photo'
  <2> SUFFICES ASSUME NEW s \in Requests, req'[s].step = "wipe" PROVE req'[s].old # req[r].new
    BY <1>1
  <2>1. CASE s = r
    BY <1>3, <1>5, <1>7, <2>1
  <2>2. CASE s # r
    BY <1>5, <1>8, <2>2 DEF Changing
  <2> QED
    BY <2>1, <2>2
<1>13. AvatarsSound'
  BY <1>1, <1>9, <1>10, <1>11, <1>12 DEF AvatarsSound, Changing, At
<1> QED
  BY <1>7, <1>13

LEMMA AvatarWipes == ASSUME IInv, NEW r \in Requests, AvatarWipe(r) PROVE IInv'
<1> DEFINE old == req[r].old
<1>1. /\ req[r].step = "wipe" /\ Serve(r, IdleRequest)
      /\ permanent' = permanent \ {old} /\ avatars' = avatars \ {old}
      /\ UNCHANGED <<app, checked, partnerVars, granted, tmp, uploaded, photo, linked>>
  BY DEF AvatarWipe, Wipe, Answer, At
<1>2. AvatarsSound /\ permanent \subseteq Photos
  BY DEF IInv, FilesSound
<1>3. old \in Photos => old \in linked
  BY <1>1, <1>2 DEF AvatarsSound, Changing
<1>4. Kept' = Kept /\ permanent' \subseteq permanent
  BY <1>1, <1>2, <1>3 DEF Kept
<1>5. req'[r] = IdleRequest /\ Others(r) /\ (AvatarsSound' => IInv')
  BY <1>1, <1>4, IdleIsRequest, AvatarMoved
<1>6. req'[r].step = "idle" /\ \A s \in Requests : s # r => req'[s] = req[s]
  BY <1>5, IdleIsRequest DEF Others
<1>7. photo \in Files => photo \in (avatars \ {old}) \cup linked
  BY <1>1, <1>2 DEF AvatarsSound, At
<1>8. AvatarsSound'
  BY <1>1, <1>2, <1>6, <1>7 DEF AvatarsSound, Changing, At
<1> QED
  BY <1>5, <1>8

-----------------------------------------------------------------------------
(* The theorems *)

LEMMA StutterStep == ASSUME IInv, UNCHANGED vars PROVE IInv'
<1>1. Kept' = Kept
  BY DEF Kept, vars, fileVars
<1>2. AppSound' /\ PartnerSound' /\ FilesSound' /\ checked' \in BOOLEAN
  BY <1>1 DEF IInv, AppSound, PartnerSound, FilesSound, vars, partnerVars, fileVars
<1>3. ReqsSound'
  BY <1>1, Waits DEF IInv, Grows, vars
<1>4. AvatarsSound'
  BY AvatarsSame DEF IInv, vars, avatarVars
<1> QED
  BY <1>2, <1>3, <1>4 DEF IInv

LEMMA NextStep == ASSUME IInv, [Next]_vars PROVE IInv'
<1>1. CASE UNCHANGED vars
  BY <1>1, StutterStep
<1>2. ASSUME NEW r \in Requests, ApplicationStep(r) PROVE IInv'
  BY <1>2, CreateBegins, CreateCleans, ReadStep, CreateStep, DecideStep, EndStep DEF ApplicationStep
<1>3. ASSUME NEW r \in Requests, SurveyStep(r) PROVE IInv'
  BY <1>3, SubmitStep, CopyStep, DropStep, EndStep, SubmitDone DEF SurveyStep
<1>4. ASSUME NEW r \in Requests, AdminStep(r) PROVE IInv'
  BY <1>4, ReadStep, ApproveBegins, ApproveStep, DecideStep, EndStep DEF AdminStep
<1>5. ASSUME NEW r \in Requests, AvatarStep(r) PROVE IInv'
  BY <1>5, AvatarBegins, AvatarCommits, AvatarWipes DEF AvatarStep
<1>6. ASSUME NEW r \in Requests, RequestLost(r) PROVE IInv'
  BY <1>6, EndStep
<1>7. ASSUME NEW p \in Photos, Grant(p) \/ Upload(p) PROVE IInv'
  BY <1>7, FormStep
<1>8. ASSUME NEW other \in OtherRoles, SetRole(other) PROVE IInv'
  BY <1>8, RoleStep
<1> QED
  BY <1>1, <1>2, <1>3, <1>4, <1>5, <1>6, <1>7, <1>8 DEF Next

THEOREM Invariance == Spec => []IInv
<1>1. Init => IInv
  BY InvInit
<1>2. IInv /\ [Next]_vars => IInv'
  BY NextStep
<1> QED
  BY <1>1, <1>2, PTL DEF Spec

\* The application, its survey and the requests keep their shapes, and what a request
\* relies on after its reads is there (onboarding_service.py).
THEOREM OnboardingTypes == Spec => []TypeOK
<1>1. IInv => TypeOK
  BY InvTypes
<1> QED
  BY <1>1, Invariance, PTL

\* No survey reaches moderation, and nobody becomes a partner, before the bank has
\* confirmed the user's phone, with any number of overlapping requests (submit_survey,
\* process_bank_webhook).
THEOREM BankFirst == Spec => []CheckedFirst
<1>1. IInv => CheckedFirst
  BY DEF IInv, AppSound, PartnerSound, CheckedFirst
<1> QED
  BY <1>1, Invariance, PTL

\* No uploaded document is lost between S3's two places and the database, and no link
\* that the service has set is dead, for any documents and any failures, except the
\* files that the user's surveys have named by links of his own: those a restart of the
\* application does delete (submit_survey, create_application).
THEOREM DocumentsKept == Spec => []PhotosKept
<1>1. IInv => PhotosKept
  BY DEF IInv, AppSound, PartnerSound, FilesSound, PhotosKept
<1> QED
  BY <1>1, Invariance, PTL

\* No row names an avatar whose file is deleted, however many changes of it overlap with
\* each other and with restarts, unless a survey of the user has named that file
\* (update_avatar, create_application).
THEOREM AvatarsLive == Spec => []AvatarAlive
<1>1. IInv => AvatarAlive
  BY DEF IInv, AvatarsSound, AvatarAlive, Files
<1> QED
  BY <1>1, Invariance, PTL

LEMMA AvatarOnly ==
  ASSUME NEW r \in Requests, AvatarStep(r)
  PROVE  UNCHANGED <<app, role, profiles>>
<1>1. ASSUME NEW a \in Avatars, AvatarRead(r, a) PROVE UNCHANGED <<app, role, profiles>>
  BY <1>1 DEF AvatarRead, partnerVars
<1>2. AvatarCommit(r) \/ AvatarWipe(r) => UNCHANGED <<app, role, profiles>>
  BY DEF AvatarCommit, AvatarWipe, Wipe, partnerVars
<1> QED
  BY <1>1, <1>2 DEF AvatarStep

\* The steps that do not touch the application or that give it another status
LEMMA NewStatuses ==
  ASSUME IInv, Next
  PROVE  \/ app' = app
         \/ app'.status # "canceled"
         \/ app.status # "on_moderation"
<1>1. app \in Application
  BY DEF IInv, AppSound
<1>2. ASSUME NEW r \in Requests, ApplicationStep(r)
      PROVE  app' = app \/ app'.status # "canceled" \/ app.status # "on_moderation"
  <2>1. (\E kind \in Kinds : CreateRead(r, kind)) \/ CreateClean(r) \/ CreateRefused(r)
           \/ BankRead(r) \/ CancelRead(r) => app' = app
    BY DEF CreateRead, CreateClean, CreateRefused, BankRead, CancelRead
  <2>2. CreateCommit(r) => app'.status # "canceled"
    BY DEF CreateCommit, NoApplication
  <2>3. BankAccept(r) \/ BankRefuse(r) => app'.status # "canceled"
    BY <1>1 DEF BankAccept, BankRefuse, Application
  <2>4. CancelCommit(r) => app' = app \/ app.status # "on_moderation"
    BY DEF CancelCommit, CancelIf
  <2> QED
    BY <1>2, <2>1, <2>2, <2>3, <2>4 DEF ApplicationStep
<1>3. ASSUME NEW r \in Requests, SurveyStep(r)
      PROVE  app' = app \/ app'.status # "canceled"
  <2>1. ASSUME NEW survey \in Survey, SubmitRead(r, survey)
        PROVE  app' = app
    BY <2>1 DEF SubmitRead, SubmitFrom
  <2>2. ASSUME NEW p \in Photos, Copy(r, p) PROVE app' = app
    BY <2>2 DEF Copy, CopyTo
  <2>3. CopyFails(r) \/ Drop(r) => app' = app
    BY DEF CopyFails, Drop
  <2>4. SubmitCommit(r) => app'.status # "canceled"
    BY <1>1 DEF SubmitCommit, Application
  <2> QED
    BY <1>3, <2>1, <2>2, <2>3, <2>4 DEF SurveyStep
<1>4. ASSUME NEW r \in Requests, AdminStep(r) \/ AvatarStep(r) \/ RequestLost(r)
      PROVE  app' = app \/ app'.status # "canceled"
  <2>1. ApproveRead(r) \/ ApproveConflict(r) \/ RejectRead(r) \/ RequestLost(r) => app' = app
    BY DEF ApproveRead, ApproveConflict, RejectRead, RequestLost
  <2>2. ApproveCommit(r) \/ RejectCommit(r) => app'.status # "canceled"
    BY <1>1 DEF ApproveCommit, Approve, RejectCommit, Application
  <2>3. AvatarStep(r) => app' = app
    BY AvatarOnly
  <2> QED
    BY <1>4, <2>1, <2>2, <2>3 DEF AdminStep
<1>5. ASSUME NEW p \in Photos, Grant(p) \/ Upload(p) PROVE app' = app
  BY <1>5 DEF Grant, Upload
<1>6. ASSUME NEW other \in OtherRoles, SetRole(other) PROVE app' = app
  BY <1>6 DEF SetRole
<1> QED
  BY <1>2, <1>3, <1>4, <1>5, <1>6 DEF Next

\* A cancellation that was decided before the survey was sent leaves an application on
\* moderation alone (cancel_application).
THEOREM ModerationSpared == Spec => CancelSparesModeration
<1>1. IInv /\ [Next]_vars =>
        [app.status = "on_moderation" => app'.status # "canceled"]_vars
  BY NewStatuses
<1> QED
  BY <1>1, Invariance, PTL DEF Spec, CancelSparesModeration

-----------------------------------------------------------------------------
(* Onboarding implements Partnership *)

LEMMA PartnerStep ==
  ASSUME IInv, [Next]_vars
  PROVE  [Partner!Next]_<<role, profiles>>
<1>1. ASSUME NEW r \in Requests, ApproveCommit(r) PROVE Partner!Next
  <2>1. req[r].kind \in Kinds
    BY <1>1, Known DEF Sound, ApproveCommit, Approve, At
  <2>2. Partner!Join(req[r].kind)
    BY <1>1 DEF ApproveCommit, Approve, Partner!Join
  <2> QED
    BY <2>1, <2>2 DEF Partner!Next
<1>2. ASSUME NEW r \in Requests, ApplicationStep(r) PROVE UNCHANGED <<role, profiles>>
  BY <1>2 DEF ApplicationStep, CreateRead, CreateClean, CreateCommit, CreateRefused, BankRead,
              BankAccept, BankRefuse, CancelRead, CancelCommit, CancelIf, partnerVars
<1>3. ASSUME NEW r \in Requests, SurveyStep(r) PROVE UNCHANGED <<role, profiles>>
  <2>1. ASSUME NEW survey \in Survey, SubmitRead(r, survey)
        PROVE  UNCHANGED <<role, profiles>>
    BY <2>1 DEF SubmitRead, SubmitFrom, partnerVars
  <2>2. ASSUME NEW p \in Photos, Copy(r, p) PROVE UNCHANGED <<role, profiles>>
    BY <2>2 DEF Copy, CopyTo, partnerVars
  <2>3. CopyFails(r) \/ Drop(r) \/ SubmitCommit(r) => UNCHANGED <<role, profiles>>
    BY DEF CopyFails, Drop, SubmitCommit, partnerVars
  <2> QED
    BY <1>3, <2>1, <2>2, <2>3 DEF SurveyStep
<1>4. ASSUME NEW r \in Requests, AdminStep(r), ~ApproveCommit(r)
      PROVE  UNCHANGED <<role, profiles>>
  BY <1>4 DEF AdminStep, ApproveRead, ApproveConflict, RejectRead, RejectCommit, partnerVars
<1>5. ASSUME NEW r \in Requests, AvatarStep(r) \/ RequestLost(r)
      PROVE  UNCHANGED <<role, profiles>>
  BY <1>5, AvatarOnly DEF RequestLost, partnerVars
<1>6. ASSUME NEW p \in Photos, Grant(p) \/ Upload(p)
      PROVE  UNCHANGED <<role, profiles>>
  BY <1>6 DEF Grant, Upload, partnerVars
<1>7. ASSUME NEW other \in OtherRoles, SetRole(other) PROVE Partner!Next
  BY <1>7 DEF SetRole, Partner!Next, Partner!Assign
<1>8. CASE UNCHANGED vars
  BY <1>8 DEF vars, partnerVars
<1> QED
  BY <1>1, <1>2, <1>3, <1>4, <1>5, <1>6, <1>7, <1>8 DEF Next

\* Onboarding implements Partnership: whatever approvals, rejections, restarts and roles
\* overlap, a user becomes a partner once per role and with that role's profile
\* (approve_partner_application).
THEOREM ImplementsPartnership == Spec => KeepsPartnership
<1>1. Init => Partner!Init
  BY DEF Init, Partner!Init
<1>2. IInv /\ [Next]_vars => [Partner!Next]_<<role, profiles>>
  BY PartnerStep
<1> QED
  BY <1>1, <1>2, Invariance, PTL DEF Spec, KeepsPartnership, Partner!Spec

\* Whoever has a partner's role has its profile, and the bank has confirmed his phone.
PartnersAreReal == role \in Kinds => role \in profiles /\ checked

\* What drivers' and guides' handlers rely on when they find a user by his role: the
\* profile is there, and no unchecked user works, whatever approvals, roles and
\* restarts of the application overlap (approve_partner_application, set_user_role).
THEOREM PartnersReal == Spec => []PartnersAreReal
<1> DEFINE HasProfile == role \in Kinds => role \in profiles
<1>1. Partner!Init => HasProfile
  BY OnboardingAssumption DEF Partner!Init
<1>2. HasProfile /\ [Partner!Next]_<<role, profiles>> => HasProfile'
  BY OnboardingAssumption DEF Partner!Next, Partner!Join, Partner!Assign
<1>3. HasProfile /\ CheckedFirst => PartnersAreReal
  BY DEF PartnersAreReal, CheckedFirst
<1> HIDE DEF HasProfile
<1>4. QED
  BY <1>1, <1>2, <1>3, ImplementsPartnership, BankFirst, PTL DEF KeepsPartnership, Partner!Spec
=============================================================================
