---------------------------- MODULE Owners_proofs ----------------------------
(***************************************************************************)
(* Proofs about PropertyReview, for any properties, requests and limits,   *)
(* and about the composition that MCOwners makes of it with Disputes and   *)
(* Payouts.                                                                *)
(***************************************************************************)
EXTENDS MCOwners, Disputes_proofs, Payouts_proofs, FiniteSetTheorems

-----------------------------------------------------------------------------
\* PropertyReview: what is in flight, and what it remembers.

\* A submission has written the columns of p and is to write its rooms or photos.
Writing(q, p) == work[q].stage \in {"saved", "furnished"} /\ work[q].listing = p

\* A property that was never submitted twice at once has one submission under way.
SubmissionAlone(p) ==
  \A q, other \in OwnerRequests : Submits(q, p) /\ Submits(other, p) => q = other

\* If none was cut off either, what is under way has the number of the columns, and
\* nothing else stands between them and the rooms and photos.
SubmissionInTurn(p) ==
  /\ \A q \in OwnerRequests : Writing(q, p) =>
       /\ work[q].number = submissions[p]
       /\ work[q].stage = "furnished" => rooms[p] = submissions[p]
  /\ \/ rooms[p] = submissions[p] /\ photos[p] = submissions[p]
     \/ \E q \in OwnerRequests : Writing(q, p)

\* A property that was never moderated twice at once has one moderation under way,
\* whose revisionCount is still the row's.
ModerationAlone(p) ==
  /\ \A m, other \in Moderations : Moderates(m, p) /\ Moderates(other, p) => m = other
  /\ \A m \in Moderations :
       moderation[m].stage \in {"read", "logged"} /\ moderation[m].listing = p =>
         moderation[m].seen = revisions[p]
  /\ rounds[p] = revisions[p]
  /\ onboarding[p] = "escalated" => revisions[p] = RevisionCap

References == {ref[p] : p \in Listings} \ {0}

\* Who is about to give a property its reference finds it without one, and was told
\* a number that has been given out since, or the next.
NumberingFits(q) ==
  /\ work[q].stage \in {"first", "numbered"} => ref[work[q].listing] = 0
  /\ work[q].stage = "numbered" => work[q].number \in 1 .. RefCount + 1

\* While no property was submitted twice at once.
Numbered ==
  /\ References = 1 .. RefCount
  /\ \A q \in OwnerRequests : NumberingFits(q)
  /\ \A p \in Listings : onboarding[p] \in {"absent", "draft"} => ref[p] = 0

ReviewInv ==
  /\ ReviewTypeOK
  /\ \A p \in Listings : revisions[p] <= RevisionCap
  /\ \A p \in Listings \ contested : ModerationAlone(p)
  /\ \A p \in Listings \ crossed : SubmissionAlone(p)
  /\ \A p \in Listings \ (crossed \cup cut) : SubmissionInTurn(p)
  /\ crossed = {} => Numbered

\* The count of references is a number.
LEMMA RefCountType == RefCount \in Nat
<1>1. {p \in Listings : ref[p] # 0} \in SUBSET Listings
  OBVIOUS
<1> QED
  BY <1>1, ReviewAssumption, FS_Subset, FS_CardinalityType DEF RefCount

LEMMA ReviewInitInv == ReviewInit => ReviewInv
<1> SUFFICES ASSUME ReviewInit PROVE ReviewInv
  OBVIOUS
<1> USE ReviewAssumption DEF ReviewInit
<1>1. ReviewTypeOK
  BY DEF ReviewTypeOK, OnboardingStatus
<1>2. RefCount = 0
  <2>1. {p \in Listings : ref[p] # 0} = {}
    OBVIOUS
  <2> QED
    BY <2>1, FS_EmptySet DEF RefCount
<1>3. Numbered
  <2>1. References = {}
    BY DEF References
  <2> QED
    BY <1>2, <2>1 DEF Numbered, NumberingFits, Rest
<1>4. \A p \in Listings : SubmissionAlone(p) /\ SubmissionInTurn(p) /\ ModerationAlone(p)
  <2>1. \A q \in OwnerRequests : work[q].stage = "rest"
    BY DEF Rest
  <2>2. \A m \in Moderations : moderation[m].stage = "rest"
    BY DEF Rest
  <2>3. \A p \in Listings : SubmissionAlone(p) /\ SubmissionInTurn(p)
    BY <2>1 DEF SubmissionAlone, SubmissionInTurn, Submits, Writing
  <2>4. \A p \in Listings : ModerationAlone(p)
    BY <2>2 DEF ModerationAlone, Moderates
  <2> QED
    BY <2>3, <2>4
<1> QED
  BY <1>1, <1>3, <1>4 DEF ReviewInv

OwnerStep(q) ==
  \/ \E p \in Listings :
       \/ CreateDraft(q, p)
       \/ \E k \in Steps \cup {LegalStep} : SaveRead(q, p, k)
       \/ SubmitRead(q, p)
       \/ ReviseRead(q, p)
  \/ CreateOwnerRole(q) \/ SaveDraft(q) \/ SaveLegal(q) \/ ReplaceDocuments(q)
  \/ NumberRead(q) \/ SubmitWrite(q)
  \/ ReviseWrite(q) \/ ReplaceRoomTypes(q) \/ ReplacePhotos(q) \/ OwnerStop(q)

ModeratorStep(m) ==
  \/ \E p \in Listings, verdict \in Verdicts : ModerateRead(m, p, verdict)
  \/ Decide(m) \/ DecideLog(m) \/ RevisionLog(m) \/ RevisionWrite(m)
  \/ ModerationStop(m)

LEMMA ReviewSteps ==
  ReviewNext <=> \/ \E q \in OwnerRequests : OwnerStep(q)
                 \/ \E m \in Moderations : ModeratorStep(m)
BY DEF ReviewNext, OwnerStep, ModeratorStep

\* What a request in flight remembers.
LEMMA WorkFields ==
  ASSUME ReviewTypeOK, NEW q \in OwnerRequests
  PROVE  /\ work[q] = Rest \/ work[q] \in Work
         /\ Rest.stage = "rest"
         /\ work[q] # Rest => work[q].stage # "rest"
         /\ work[q].stage # "rest" => work[q] \in Work /\ work[q].listing \in Listings
         /\ work[q].stage = "save" => work[q].step \in Steps \cup {LegalStep}
                                       /\ work[q].seen \in SUBSET Steps
         /\ work[q].stage \in {"numbered", "saved", "furnished"} => work[q].number \in Nat
BY DEF ReviewTypeOK, Work, Rest

LEMMA ModerationFields ==
  ASSUME ReviewTypeOK, NEW m \in Moderations
  PROVE  /\ moderation[m] = Rest \/ moderation[m] \in Moderation
         /\ Rest.stage = "rest"
         /\ moderation[m].stage # "rest" =>
              moderation[m].listing \in Listings /\ moderation[m].verdict \in Verdicts
         /\ moderation[m].stage \in {"read", "logged"} => moderation[m].seen \in Nat
BY DEF ReviewTypeOK, Moderation, Rest

\* What the owner's requests do keeps the types ...
LEMMA OwnerTypeNext ==
  ASSUME ReviewTypeOK, NEW q \in OwnerRequests, OwnerStep(q)
  PROVE  ReviewTypeOK'
<1> USE DEF ReviewTypeOK, listingVars, filedVars, roundVars, historyVars
<1>0. /\ work[q].stage # "rest" => work[q].listing \in Listings
      /\ work[q].stage = "save" => work[q].seen \in SUBSET Steps
      /\ work[q].stage \in {"numbered", "saved", "furnished"} => work[q].number \in Nat
      /\ Rest.stage = "rest" /\ work \in [OwnerRequests -> Work \cup {Rest}]
      /\ \A r \in Work : work' = [work EXCEPT ![q] = r] => work' \in [OwnerRequests -> Work \cup {Rest}]
  BY WorkFields
<1>1. ASSUME NEW p \in Listings, CreateDraft(q, p) PROVE ReviewTypeOK'
  <2>1. [stage |-> "created", listing |-> p] \in Work
    BY DEF Work
  <2> QED
    BY <1>0, <1>1, <2>1 DEF CreateDraft, OnboardingStatus
<1>2. ASSUME NEW p \in Listings, NEW k \in Steps \cup {LegalStep}, SaveRead(q, p, k)
      PROVE  ReviewTypeOK'
  <2>1. [stage |-> "save", listing |-> p, step |-> k, seen |-> draft[p]] \in Work
    BY DEF Work
  <2> QED
    BY <1>0, <1>2, <2>1 DEF SaveRead
<1>3. ASSUME NEW p \in Listings, SubmitRead(q, p) \/ ReviseRead(q, p)
      PROVE  ReviewTypeOK'
  <2>1. /\ [stage |-> "first", listing |-> p] \in Work
        /\ [stage |-> "again", listing |-> p] \in Work
    BY DEF Work
  <2> QED
    BY <1>0, <1>3, <2>1 DEF SubmitRead, ReviseRead, Begin
<1>4. CASE CreateOwnerRole(q)
  BY <1>0, <1>4 DEF CreateOwnerRole
<1>5. CASE SaveDraft(q)
  BY <1>0, <1>5 DEF SaveDraft
<1>6. CASE SaveLegal(q)
  <2>1. [stage |-> "papers", listing |-> work[q].listing] \in Work
    BY <1>0, <1>6 DEF SaveLegal, Work
  <2> QED
    BY <1>0, <1>6, <2>1 DEF SaveLegal
<1>7. CASE ReplaceDocuments(q)
  BY <1>0, <1>7 DEF ReplaceDocuments
<1>8. CASE NumberRead(q)
  <2>1. [stage |-> "numbered", listing |-> work[q].listing, number |-> RefCount + 1] \in Work
    BY <1>0, <1>8, RefCountType DEF NumberRead, Work
  <2> QED
    BY <1>0, <1>8, <2>1 DEF NumberRead
<1>9. ASSUME NEW p \in Listings, Submitted(q, p)
      PROVE  /\ onboarding' \in [Listings -> OnboardingStatus]
             /\ draft' \in [Listings -> SUBSET Steps]
             /\ submissions' \in [Listings -> 0 .. MaxSubmissions]
             /\ work' \in [OwnerRequests -> Work \cup {Rest}]
  <2>1. submissions[p] + 1 \in 0 .. MaxSubmissions
    BY <1>9, ReviewAssumption DEF Submitted
  <2>2. [stage |-> "saved", listing |-> p, number |-> submissions[p] + 1] \in Work
    BY <2>1, ReviewAssumption DEF Work
  <2> QED
    BY <1>0, <1>9, <2>1, <2>2 DEF Submitted, OnboardingStatus
<1>10. CASE SubmitWrite(q)
  <2>1. work[q].listing \in Listings /\ work[q].number \in Nat
    BY <1>0, <1>10 DEF SubmitWrite
  <2>2. CASE Submitted(q, work[q].listing) /\ ref' = [ref EXCEPT ![work[q].listing] = work[q].number]
    BY <1>9, <1>10, <2>1, <2>2 DEF SubmitWrite
  <2>3. CASE work' = [work EXCEPT ![q] = Rest] /\ UNCHANGED <<onboarding, draft, ref, submissions>>
    BY <1>0, <1>10, <2>3 DEF SubmitWrite
  <2> QED
    BY <1>10, <2>2, <2>3 DEF SubmitWrite
<1>11. CASE ReviseWrite(q)
  BY <1>0, <1>9, <1>11 DEF ReviseWrite
<1>12. CASE ReplaceRoomTypes(q)
  <2>1. [work[q] EXCEPT !.stage = "furnished"] \in Work
    BY <1>0, <1>12 DEF ReplaceRoomTypes, Work, Rest
  <2>2. work' = [work EXCEPT ![q] = [work[q] EXCEPT !.stage = "furnished"]]
    BY <1>12 DEF ReplaceRoomTypes
  <2>3. work' \in [OwnerRequests -> Work \cup {Rest}]
    BY <1>0, <2>1, <2>2
  <2> QED
    BY <1>0, <1>12, <2>3 DEF ReplaceRoomTypes
<1>13. CASE ReplacePhotos(q)
  BY <1>0, <1>13 DEF ReplacePhotos
<1>14. CASE OwnerStop(q)
  BY <1>0, <1>14 DEF OwnerStop
<1> QED
  BY <1>1, <1>2, <1>3, <1>4, <1>5, <1>6, <1>7, <1>8, <1>10, <1>11, <1>12, <1>13, <1>14
  DEF OwnerStep

\* ... and what the administrators' requests do.
LEMMA ModeratorTypeNext ==
  ASSUME ReviewTypeOK, NEW m \in Moderations, ModeratorStep(m)
  PROVE  ReviewTypeOK'
<1> USE DEF ReviewTypeOK, listingVars, filedVars, roundVars, historyVars
<1>0. /\ moderation[m].stage # "rest" =>
           moderation[m].listing \in Listings /\ moderation[m].verdict \in Verdicts
      /\ moderation[m].stage \in {"read", "logged"} => moderation[m].seen \in Nat
      /\ \A r \in Moderation : moderation' = [moderation EXCEPT ![m] = r] =>
           moderation' \in [Moderations -> Moderation \cup {Rest}]
      /\ moderation' = [moderation EXCEPT ![m] = Rest] =>
           moderation' \in [Moderations -> Moderation \cup {Rest}]
  BY ModerationFields
<1>1. ASSUME NEW p \in Listings, NEW verdict \in Verdicts, ModerateRead(m, p, verdict)
      PROVE  ReviewTypeOK'
  <2>1. [stage |-> "read", listing |-> p, verdict |-> verdict, seen |-> revisions[p]]
          \in Moderation
    BY DEF Moderation
  <2> QED
    BY <1>0, <1>1, <2>1 DEF ModerateRead
<1>2. CASE Decide(m)
  <2>1. [stage |-> "decided", listing |-> moderation[m].listing,
         verdict |-> moderation[m].verdict] \in Moderation
    BY <1>0, <1>2 DEF Decide, Moderation
  <2> QED
    BY <1>0, <1>2, <2>1 DEF Decide, OnboardingStatus
<1>3. CASE DecideLog(m)
  BY <1>0, <1>3 DEF DecideLog
<1>4. CASE RevisionLog(m)
  <2>1. [moderation[m] EXCEPT !.stage = "logged"] \in Moderation
    BY <1>4 DEF RevisionLog, Moderation, Rest
  <2>2. moderation' = [moderation EXCEPT ![m] = [moderation[m] EXCEPT !.stage = "logged"]]
    BY <1>4 DEF RevisionLog
  <2>3. moderation' \in [Moderations -> Moderation \cup {Rest}]
    BY <1>0, <2>1, <2>2
  <2> QED
    BY <1>0, <1>4, <2>3 DEF RevisionLog
<1>5. CASE RevisionWrite(m)
  BY <1>0, <1>5 DEF RevisionWrite, OnboardingStatus
<1>6. CASE ModerationStop(m)
  BY <1>0, <1>6 DEF ModerationStop
<1> QED
  BY <1>1, <1>2, <1>3, <1>4, <1>5, <1>6 DEF ModeratorStep

LEMMA ReviewTypeNext ==
  ASSUME ReviewTypeOK, [ReviewNext]_reviewVars
  PROVE  ReviewTypeOK'
<1>1. CASE UNCHANGED reviewVars
  BY <1>1 DEF ReviewTypeOK, reviewVars, listingVars, filedVars, roundVars, historyVars
<1> QED
  BY <1>1, OwnerTypeNext, ModeratorTypeNext, ReviewSteps

\* Owners and administrators leave each other's rows and requests alone, except for
\* the status of the property.
LEMMA OwnerFrame ==
  ASSUME ReviewTypeOK, NEW q \in OwnerRequests, OwnerStep(q)
  PROVE  /\ UNCHANGED <<roundVars, moderation, contested>>
         /\ \A p \in Listings :
              \/ onboarding'[p] = onboarding[p]
              \/ onboarding'[p] = "pending_review"
              \/ onboarding[p] = "absent" /\ onboarding'[p] = "draft"
BY WorkFields
DEF OwnerStep, CreateDraft, SaveRead, SubmitRead, ReviseRead, Begin, CreateOwnerRole,
    SaveDraft, SaveLegal, ReplaceDocuments, NumberRead, SubmitWrite, ReviseWrite,
    Submitted, ReplaceRoomTypes, ReplacePhotos, OwnerStop, ReviewTypeOK, listingVars,
    filedVars, roundVars, historyVars

LEMMA ModeratorFrame ==
  ASSUME ReviewTypeOK, NEW m \in Moderations, ModeratorStep(m)
  PROVE  /\ UNCHANGED <<draft, filedVars, ref, submissions, rooms, photos, work, crossed, cut>>
         /\ \A p \in Listings :
              onboarding'[p] = onboarding[p] \/ onboarding'[p] \notin {"absent", "draft"}
BY ModerationFields
DEF ModeratorStep, ModerateRead, Decide, DecideLog, RevisionLog, RevisionWrite,
    ModerationStop, ReviewTypeOK, listingVars, filedVars, roundVars, historyVars

-----------------------------------------------------------------------------
\* The revisions of a property.

RevisionInv ==
  /\ \A p \in Listings : revisions[p] <= RevisionCap
  /\ \A p \in Listings \ contested : ModerationAlone(p)

LEMMA RevisionNext ==
  ASSUME ReviewTypeOK, RevisionInv, [ReviewNext]_reviewVars
  PROVE  RevisionInv'
<1> USE DEF RevisionInv
<1>1. ASSUME NEW q \in OwnerRequests, OwnerStep(q) PROVE RevisionInv'
  BY <1>1, OwnerFrame DEF ModerationAlone, Moderates, roundVars
<1>2. ASSUME NEW m \in Moderations, NEW p \in Listings, NEW verdict \in Verdicts,
             ModerateRead(m, p, verdict)
      PROVE  RevisionInv'
  <2>1. /\ UNCHANGED <<onboarding, revisions, rounds>>
        /\ contested \subseteq contested'
        /\ p \notin contested' => \A other \in Moderations : ~Moderates(other, p)
    BY <1>2 DEF ModerateRead, listingVars, roundVars
  <2>2. /\ moderation' \in [Moderations -> Moderation \cup {Rest}]
        /\ moderation'[m] = [stage |-> "read", listing |-> p, verdict |-> verdict,
                             seen |-> revisions[p]]
        /\ \A n \in Moderations \ {m} : moderation'[n] = moderation[n]
    BY <1>2, ModeratorTypeNext DEF ModerateRead, ReviewTypeOK, ModeratorStep
  <2>3. ASSUME NEW l \in Listings \ contested' PROVE ModerationAlone(l)'
    <3>1. ModerationAlone(l)
      BY <2>1
    <3>2. CASE l = p
      BY <2>1, <2>2, <3>1, <3>2 DEF ModerationAlone, Moderates
    <3>3. CASE l # p
      BY <2>1, <2>2, <3>1, <3>3 DEF ModerationAlone, Moderates
    <3> QED
      BY <3>2, <3>3
  <2> QED
    BY <2>1, <2>3
<1>3. ASSUME NEW m \in Moderations,
             Decide(m) \/ DecideLog(m) \/ RevisionLog(m) \/ ModerationStop(m)
      PROVE  RevisionInv'
  <2>1. /\ UNCHANGED <<revisions, rounds, contested>>
        /\ \A p \in Listings : onboarding'[p] = "escalated" => onboarding[p] = "escalated"
    BY <1>3, ModerationFields
    DEF Decide, DecideLog, RevisionLog, ModerationStop, ReviewTypeOK, listingVars,
        roundVars, historyVars
  <2>2. /\ \A n \in Moderations \ {m} : moderation'[n] = moderation[n]
        /\ moderation'[m].stage # "rest" => moderation[m].stage # "rest"
        /\ moderation'[m].stage # "rest" => moderation'[m].listing = moderation[m].listing
        /\ moderation'[m].stage \in {"read", "logged"} =>
             moderation[m].stage = "read" /\ moderation'[m].seen = moderation[m].seen
    <3>1. moderation[m] \in Moderation \cup {Rest} /\ Rest.stage = "rest"
      BY ModerationFields
    <3>2. CASE Decide(m)
      BY <3>1, <3>2 DEF Decide, ReviewTypeOK
    <3>3. CASE DecideLog(m) \/ ModerationStop(m)
      BY <3>1, <3>3 DEF DecideLog, ModerationStop, ReviewTypeOK
    <3>4. CASE RevisionLog(m)
      <4>1. moderation'[m] = [moderation[m] EXCEPT !.stage = "logged"]
        BY <3>4 DEF RevisionLog, ReviewTypeOK
      <4>2. moderation[m] \in Moderation /\ moderation[m].stage = "read"
        BY <3>1, <3>4 DEF RevisionLog
      <4> QED
        BY <3>4, <4>1, <4>2 DEF RevisionLog, ReviewTypeOK, Moderation
    <3> QED
      BY <1>3, <3>2, <3>3, <3>4
  <2>3. ASSUME NEW l \in Listings \ contested PROVE ModerationAlone(l)'
    BY <2>1, <2>2 DEF ModerationAlone, Moderates
  <2> QED
    BY <2>1, <2>3
<1>4. ASSUME NEW m \in Moderations, RevisionWrite(m) PROVE RevisionInv'
  <2>0. PICK p \in Listings, seen \in Nat :
          p = moderation[m].listing /\ seen = moderation[m].seen
    BY <1>4, ModerationFields DEF RevisionWrite
  <2>1. Moderates(m, p) /\ moderation[m].stage = "logged"
    BY <1>4, <2>0 DEF RevisionWrite, Moderates
  <2>2. /\ \A n \in Moderations \ {m} : moderation'[n] = moderation[n]
        /\ moderation'[m].stage = "rest"
        /\ contested' = contested
    BY <1>4 DEF RevisionWrite, ReviewTypeOK, Rest, historyVars
  <2>3. \/ /\ seen + 1 > RevisionCap
           /\ onboarding' = [onboarding EXCEPT ![p] = "escalated"]
           /\ UNCHANGED <<revisions, rounds>>
        \/ /\ seen + 1 <= RevisionCap
           /\ onboarding' = [onboarding EXCEPT ![p] = "needs_revision"]
           /\ revisions' = [revisions EXCEPT ![p] = seen + 1]
           /\ rounds' = [rounds EXCEPT ![p] = @ + 1]
    BY <1>4, <2>0 DEF RevisionWrite
  <2>4. \A l \in Listings : revisions'[l] <= RevisionCap
    BY <2>1, <2>3 DEF ReviewTypeOK
  <2>5. ASSUME NEW l \in Listings \ contested', l # p PROVE ModerationAlone(l)'
    <3>1. ModerationAlone(l)
      BY <2>2, <2>5
    <3>2. /\ revisions'[l] = revisions[l] /\ rounds'[l] = rounds[l]
          /\ onboarding'[l] = onboarding[l]
      BY <2>1, <2>3, <2>5 DEF ReviewTypeOK
    <3> QED
      BY <2>2, <2>5, <3>1, <3>2 DEF ModerationAlone, Moderates
  <2>6. ASSUME p \notin contested PROVE ModerationAlone(p)'
    <3>1. /\ seen = revisions[p] /\ rounds[p] = revisions[p]
          /\ revisions[p] \in Nat /\ revisions[p] <= RevisionCap
          /\ \A n \in Moderations : Moderates(n, p) => n = m
      BY <2>0, <2>1, <2>6 DEF ModerationAlone, ReviewTypeOK
    <3>2. rounds'[p] = revisions'[p]
      BY <2>1, <2>3, <3>1 DEF ReviewTypeOK
    <3>3. onboarding'[p] = "escalated" => revisions'[p] = RevisionCap
      BY <2>1, <2>3, <3>1, ReviewAssumption DEF ReviewTypeOK
    <3>4. \A n \in Moderations : ~(moderation'[n].stage # "rest" /\ moderation'[n].listing = p)
      BY <2>2, <3>1 DEF Moderates
    <3> QED
      BY <3>2, <3>3, <3>4 DEF ModerationAlone, Moderates
  <2> QED
    BY <2>2, <2>4, <2>5, <2>6
<1>5. CASE UNCHANGED reviewVars
  BY <1>5
  DEF reviewVars, listingVars, roundVars, historyVars, ModerationAlone, Moderates
<1> QED
  BY <1>1, <1>2, <1>3, <1>4, <1>5, ReviewSteps DEF ModeratorStep

-----------------------------------------------------------------------------
\* The submissions of a property.

SubmissionInv ==
  /\ \A p \in Listings \ crossed : SubmissionAlone(p)
  /\ \A p \in Listings \ (crossed \cup cut) : SubmissionInTurn(p)

\* A request changes no other request.
LEMMA OtherWork ==
  ASSUME ReviewTypeOK, NEW q \in OwnerRequests, OwnerStep(q)
  PROVE  \A other \in OwnerRequests \ {q} : work'[other] = work[other]
BY DEF OwnerStep, CreateDraft, SaveRead, SubmitRead, ReviseRead, Begin, CreateOwnerRole,
       SaveDraft, SaveLegal, ReplaceDocuments, NumberRead, SubmitWrite, ReviseWrite,
       Submitted, ReplaceRoomTypes, ReplacePhotos, OwnerStop, ReviewTypeOK

\* What a request does that writes none of a submission's columns and starts none.
LEMMA QuietNext ==
  ASSUME ReviewTypeOK, SubmissionInv, NEW q \in OwnerRequests,
         UNCHANGED <<submissions, rooms, photos, crossed, cut>>,
         \A other \in OwnerRequests \ {q} : work'[other] = work[other],
         \A p \in Listings : Submits(q, p)' => Submits(q, p),
         \A p \in Listings : ~Writing(q, p) /\ ~Writing(q, p)'
  PROVE  SubmissionInv'
BY DEF SubmissionInv, SubmissionAlone, SubmissionInTurn, Submits, Writing

\* The statements of one submission, of which nobody but its owner's other requests
\* knows.
LEMMA AloneNext ==
  ASSUME ReviewTypeOK, SubmissionInv, NEW q \in OwnerRequests, OwnerStep(q),
         crossed' = crossed,
         \A p \in Listings : Submits(q, p)' => Submits(q, p)
  PROVE  \A p \in Listings \ crossed' : SubmissionAlone(p)'
BY OtherWork DEF SubmissionInv, SubmissionAlone, Submits

\* A statement on p's rows leaves the other properties as they are.
LEMMA ElsewhereNext ==
  ASSUME ReviewTypeOK, SubmissionInv, NEW q \in OwnerRequests, OwnerStep(q),
         NEW p \in Listings, work[q].listing = p,
         crossed' = crossed, cut \subseteq cut',
         work'[q].stage = "rest" \/ work'[q].listing = p,
         \A l \in Listings \ {p} : /\ submissions'[l] = submissions[l]
                                   /\ rooms'[l] = rooms[l]
                                   /\ photos'[l] = photos[l]
  PROVE  \A l \in Listings \ (crossed' \cup cut') : l # p => SubmissionInTurn(l)'
<1> TAKE l \in Listings \ (crossed' \cup cut')
<1> HAVE l # p
<1>1. SubmissionInTurn(l)
  BY DEF SubmissionInv
<1>2. \A n \in OwnerRequests :
        /\ Writing(n, l)' <=> Writing(n, l)
        /\ Writing(n, l) => work'[n] = work[n]
  BY OtherWork DEF Writing
<1> QED
  BY <1>1, <1>2 DEF SubmissionInTurn

\* Of a property that was never submitted twice at once.
LEMMA OnlyWriter ==
  ASSUME SubmissionInv, NEW q \in OwnerRequests, NEW p \in Listings \ crossed,
         Submits(q, p)
  PROVE  \A n \in OwnerRequests \ {q} : ~Submits(n, p) /\ ~Writing(n, p)
BY DEF SubmissionInv, SubmissionAlone, Submits, Writing

\* One step per statement of a request.
LEMMA OwnerSubmissionNext ==
  ASSUME ReviewTypeOK, SubmissionInv, NEW q \in OwnerRequests, OwnerStep(q)
  PROVE  SubmissionInv'
<1>0. /\ work \in [OwnerRequests -> Work \cup {Rest}]
      /\ Rest.stage = "rest"
      /\ \A other \in OwnerRequests \ {q} : work'[other] = work[other]
  BY OtherWork, WorkFields DEF ReviewTypeOK
<1> USE DEF listingVars, filedVars, roundVars, historyVars
<1>1. ASSUME \/ \E p \in Listings : \/ CreateDraft(q, p)
                                    \/ \E k \in Steps \cup {LegalStep} : SaveRead(q, p, k)
             \/ CreateOwnerRole(q) \/ SaveDraft(q) \/ SaveLegal(q) \/ ReplaceDocuments(q)
      PROVE  SubmissionInv'
  <2>1. UNCHANGED <<submissions, rooms, photos, crossed, cut>>
    BY <1>1 DEF CreateDraft, SaveRead, CreateOwnerRole, SaveDraft, SaveLegal, ReplaceDocuments
  <2>2. /\ work[q].stage \in {"rest", "created", "save", "papers"}
        /\ work'[q].stage \in {"rest", "created", "save", "papers"}
    BY <1>0, <1>1
    DEF CreateDraft, SaveRead, CreateOwnerRole, SaveDraft, SaveLegal, ReplaceDocuments
  <2> QED
    BY <1>0, <2>1, <2>2, QuietNext DEF Submits, Writing
<1>2. ASSUME NEW p \in Listings, SubmitRead(q, p) \/ ReviseRead(q, p) PROVE SubmissionInv'
  <2>1. /\ UNCHANGED <<submissions, rooms, photos, cut>>
        /\ crossed \subseteq crossed'
        /\ p \notin crossed' => \A other \in OwnerRequests : ~Submits(other, p)
        /\ work[q].stage = "rest"
        /\ work'[q].stage \in {"first", "again"} /\ work'[q].listing = p
    BY <1>0, <1>2 DEF SubmitRead, ReviseRead, Begin
  <2>2. ASSUME NEW l \in Listings \ crossed' PROVE SubmissionAlone(l)'
    BY <1>0, <2>1, <2>2 DEF SubmissionInv, SubmissionAlone, Submits
  <2>3. ASSUME NEW l \in Listings \ (crossed' \cup cut') PROVE SubmissionInTurn(l)'
    <3>1. SubmissionInTurn(l)
      BY <2>1 DEF SubmissionInv
    <3>2. ~Writing(q, l) /\ ~Writing(q, l)'
      BY <2>1 DEF Writing
    <3> QED
      BY <1>0, <2>1, <3>1, <3>2 DEF SubmissionInTurn, Writing
  <2> QED
    BY <2>2, <2>3 DEF SubmissionInv
<1>3. CASE NumberRead(q)
  <2>1. /\ UNCHANGED <<submissions, rooms, photos, crossed, cut>>
        /\ work[q].stage = "first" /\ work'[q].stage = "numbered"
        /\ work'[q].listing = work[q].listing
    BY <1>0, <1>3 DEF NumberRead
  <2> QED
    BY <1>0, <2>1, QuietNext DEF Submits, Writing
<1>4. ASSUME NEW p \in Listings, Submitted(q, p), work[q].listing = p,
             work[q].stage \in {"numbered", "again"},
             UNCHANGED <<rooms, photos, crossed, cut>>
      PROVE  SubmissionInv'
  <2>1. /\ submissions' = [submissions EXCEPT ![p] = @ + 1]
        /\ work'[q].stage = "saved" /\ work'[q].listing = p
        /\ work'[q].number = submissions[p] + 1
        /\ Submits(q, p)
    BY <1>0, <1>4 DEF Submitted, Submits
  <2>2. \A l \in Listings \ crossed' : SubmissionAlone(l)'
    BY <1>4, <2>1, AloneNext DEF Submits
  <2>3. \A l \in Listings \ (crossed' \cup cut') : l # p => SubmissionInTurn(l)'
    BY <1>4, <2>1, ElsewhereNext DEF ReviewTypeOK
  <2>4. ASSUME p \notin crossed PROVE SubmissionInTurn(p)'
    <3>1. \A n \in OwnerRequests \ {q} : ~Writing(n, p)'
      BY <1>0, <2>1, <2>4, OnlyWriter DEF Writing
    <3>2. submissions'[p] = submissions[p] + 1
      BY <2>1 DEF ReviewTypeOK
    <3> QED
      BY <2>1, <3>1, <3>2 DEF SubmissionInTurn, Writing
  <2> QED
    BY <1>4, <2>2, <2>3, <2>4 DEF SubmissionInv
<1>5. CASE SubmitWrite(q)
  <2>0. PICK p \in Listings : p = work[q].listing
    BY <1>5, WorkFields DEF SubmitWrite
  <2>1. CASE Submitted(q, p)
    BY <1>4, <1>5, <2>0, <2>1 DEF SubmitWrite
  <2>2. CASE work' = [work EXCEPT ![q] = Rest] /\ UNCHANGED submissions
    <3>1. /\ UNCHANGED <<submissions, rooms, photos, crossed, cut>>
          /\ work[q].stage = "numbered" /\ work'[q].stage = "rest"
      BY <1>0, <1>5, <2>2 DEF SubmitWrite
    <3> QED
      BY <1>0, <3>1, QuietNext DEF Submits, Writing
  <2> QED
    BY <1>5, <2>0, <2>1, <2>2 DEF SubmitWrite
<1>6. CASE ReviseWrite(q)
  <2>0. PICK p \in Listings : p = work[q].listing
    BY <1>6, WorkFields DEF ReviseWrite
  <2> QED
    BY <1>4, <1>6, <2>0 DEF ReviseWrite
<1>7. ASSUME ReplaceRoomTypes(q) \/ ReplacePhotos(q) PROVE SubmissionInv'
  <2>0. PICK p \in Listings : p = work[q].listing
    BY <1>7, WorkFields DEF ReplaceRoomTypes, ReplacePhotos
  <2>1. /\ UNCHANGED <<submissions, crossed, cut>>
        /\ Submits(q, p) /\ Writing(q, p)
        /\ \/ /\ work[q].stage = "saved" /\ work'[q] = [work[q] EXCEPT !.stage = "furnished"]
              /\ rooms' = [rooms EXCEPT ![p] = work[q].number]
              /\ UNCHANGED photos
           \/ /\ work[q].stage = "furnished" /\ work'[q] = Rest
              /\ photos' = [photos EXCEPT ![p] = work[q].number]
              /\ UNCHANGED rooms
    BY <1>0, <1>7, <2>0 DEF ReplaceRoomTypes, ReplacePhotos, Submits, Writing
  <2>2. /\ work[q].stage = "saved" =>
             /\ work'[q].stage = "furnished" /\ work'[q].listing = p
             /\ work'[q].number = work[q].number
        /\ work[q].stage = "furnished" => work'[q].stage = "rest"
    BY <1>0, <2>0, <2>1 DEF Work
  <2>3. \A l \in Listings \ crossed' : SubmissionAlone(l)'
    BY <2>0, <2>1, <2>2, AloneNext DEF Submits
  <2>4. \A l \in Listings \ (crossed' \cup cut') : l # p => SubmissionInTurn(l)'
    BY <2>0, <2>1, <2>2, ElsewhereNext DEF ReviewTypeOK
  <2>5. ASSUME p \notin crossed \cup cut PROVE SubmissionInTurn(p)'
    <3>1. /\ work[q].number = submissions[p]
          /\ work[q].stage = "furnished" => rooms[p] = submissions[p]
      BY <2>1, <2>5 DEF SubmissionInv, SubmissionInTurn
    <3>2. \A n \in OwnerRequests \ {q} : ~Writing(n, p)'
      BY <1>0, <2>1, <2>5, OnlyWriter DEF Writing
    <3>3. CASE work[q].stage = "saved"
      <4>1. Writing(q, p)' /\ rooms'[p] = submissions'[p] /\ work'[q].number = submissions'[p]
        BY <2>0, <2>1, <2>2, <3>1, <3>3 DEF Writing, ReviewTypeOK, Rest
      <4> QED
        BY <3>2, <4>1 DEF SubmissionInTurn
    <3>4. CASE work[q].stage = "furnished"
      <4>1. rooms'[p] = submissions'[p] /\ photos'[p] = submissions'[p] /\ ~Writing(q, p)'
        BY <1>0, <2>0, <2>1, <3>1, <3>4 DEF Writing, ReviewTypeOK
      <4> QED
        BY <3>2, <4>1 DEF SubmissionInTurn
    <3> QED
      BY <2>1, <3>3, <3>4
  <2> QED
    BY <2>1, <2>3, <2>4, <2>5 DEF SubmissionInv
<1>8. CASE OwnerStop(q)
  <2>0. PICK p \in Listings : p = work[q].listing
    BY <1>8, WorkFields DEF OwnerStop
  <2>1. /\ UNCHANGED <<submissions, rooms, photos, crossed>>
        /\ work'[q].stage = "rest" /\ cut \subseteq cut'
        /\ p \notin cut' => ~Writing(q, p)
    BY <1>0, <1>8, <2>0 DEF OwnerStop, Writing
  <2>2. \A l \in Listings \ crossed' : SubmissionAlone(l)'
    BY <2>1, AloneNext DEF Submits
  <2>3. ASSUME NEW l \in Listings \ (crossed' \cup cut') PROVE SubmissionInTurn(l)'
    <3>1. SubmissionInTurn(l) /\ ~Writing(q, l) /\ ~Writing(q, l)'
      BY <2>0, <2>1 DEF SubmissionInv, Writing
    <3> QED
      BY <1>0, <2>1, <3>1 DEF SubmissionInTurn, Writing
  <2> QED
    BY <2>2, <2>3 DEF SubmissionInv
<1> QED
  BY <1>1, <1>2, <1>3, <1>5, <1>6, <1>7, <1>8 DEF OwnerStep

LEMMA SubmissionNext ==
  ASSUME ReviewTypeOK, SubmissionInv, [ReviewNext]_reviewVars
  PROVE  SubmissionInv'
<1>1. ASSUME UNCHANGED <<submissions, rooms, photos, work, crossed, cut>>
      PROVE  SubmissionInv'
  BY <1>1 DEF SubmissionInv, SubmissionAlone, SubmissionInTurn, Submits, Writing
<1>2. ASSUME NEW m \in Moderations, ModeratorStep(m) PROVE SubmissionInv'
  BY <1>1, <1>2, ModeratorFrame
<1> QED
  BY <1>1, <1>2, OwnerSubmissionNext, ReviewSteps
  DEF reviewVars, listingVars, historyVars

-----------------------------------------------------------------------------
\* The references of the submissions.

NumberedInv == crossed = {} => Numbered

\* A reference is given to a property that has none: one more is counted.
LEMMA RefCountGrows ==
  ASSUME ReviewTypeOK, NEW p \in Listings, ref[p] = 0,
         NEW n \in Nat \ {0}, ref' = [ref EXCEPT ![p] = n]
  PROVE  RefCount' = RefCount + 1 /\ References' = References \cup {n}
<1> DEFINE given == {l \in Listings : ref[l] # 0}
<1>1. IsFiniteSet(given)
  BY ReviewAssumption, FS_Subset
<1>2. given' = given \cup {p} /\ p \notin given
  BY DEF ReviewTypeOK
<1>3. Cardinality(given') = Cardinality(given) + 1
  BY <1>1, <1>2, FS_AddElement
<1>4. References' = References \cup {n}
  BY DEF References, ReviewTypeOK
<1> QED
  BY <1>3, <1>4 DEF RefCount

LEMMA NumberedNext ==
  ASSUME ReviewTypeOK, SubmissionInv, NumberedInv, [ReviewNext]_reviewVars, crossed' = {}
  PROVE  Numbered'
<1> USE DEF listingVars, filedVars, roundVars, historyVars
<1>1. ASSUME UNCHANGED <<ref, work, crossed>>,
             \A p \in Listings : onboarding'[p] = onboarding[p]
                                   \/ onboarding'[p] \notin {"absent", "draft"}
      PROVE  Numbered'
  BY <1>1 DEF NumberedInv, Numbered, References, NumberingFits, RefCount
<1>2. ASSUME NEW m \in Moderations, ModeratorStep(m) PROVE Numbered'
  BY <1>1, <1>2, ModeratorFrame
<1>3. ASSUME NEW q \in OwnerRequests, OwnerStep(q) PROVE Numbered'
  <2>1. crossed = {}
    BY <1>3
    DEF OwnerStep, CreateDraft, SaveRead, SubmitRead, ReviseRead, Begin, CreateOwnerRole,
        SaveDraft, SaveLegal, ReplaceDocuments, NumberRead, SubmitWrite, ReviseWrite,
        Submitted, ReplaceRoomTypes, ReplacePhotos, OwnerStop
  <2>2. /\ References = 1 .. RefCount /\ RefCount \in Nat
        /\ \A n \in OwnerRequests : NumberingFits(n)
        /\ \A p \in Listings : onboarding[p] \in {"absent", "draft"} => ref[p] = 0
    BY <2>1, RefCountType DEF NumberedInv, Numbered
  <2>3. /\ \A n \in OwnerRequests \ {q} : work'[n] = work[n]
        /\ work \in [OwnerRequests -> Work \cup {Rest}] /\ Rest.stage = "rest"
        /\ \A p \in Listings : \/ onboarding'[p] = onboarding[p]
                               \/ onboarding'[p] = "pending_review"
                               \/ onboarding[p] = "absent" /\ onboarding'[p] = "draft"
    BY <1>3, OtherWork, OwnerFrame, WorkFields DEF ReviewTypeOK
  <2>4. ASSUME ref' = ref, NumberingFits(q)' PROVE Numbered'
    <3>1. RefCount' = RefCount /\ References' = References
      BY <2>4 DEF RefCount, References
    <3>2. \A n \in OwnerRequests : NumberingFits(n)'
      BY <2>2, <2>3, <2>4, <3>1 DEF NumberingFits
    <3> QED
      BY <2>2, <2>3, <2>4, <3>1, <3>2 DEF Numbered
  <2>5. ASSUME ref' = ref, work'[q].stage \notin {"first", "numbered"} PROVE Numbered'
    BY <2>4, <2>5 DEF NumberingFits
  <2>6. ASSUME \/ \E p \in Listings : \/ CreateDraft(q, p)
                                      \/ \E k \in Steps \cup {LegalStep} : SaveRead(q, p, k)
                                      \/ ReviseRead(q, p)
               \/ CreateOwnerRole(q) \/ SaveDraft(q) \/ SaveLegal(q) \/ ReplaceDocuments(q)
               \/ ReviseWrite(q) \/ ReplaceRoomTypes(q) \/ ReplacePhotos(q) \/ OwnerStop(q)
        PROVE  Numbered'
    <3>1. CASE ReplaceRoomTypes(q)
      <4>1. work[q] \in Work /\ work[q].stage = "saved"
            /\ work'[q] = [work[q] EXCEPT !.stage = "furnished"] /\ ref' = ref
        BY <2>3, <3>1, WorkFields DEF ReplaceRoomTypes
      <4>2. work'[q].stage = "furnished"
        BY <4>1 DEF Work
      <4> QED
        BY <2>5, <4>1, <4>2
    <3>2. CASE ~ReplaceRoomTypes(q)
      <4>1. ref' = ref /\ work'[q].stage \in {"rest", "created", "save", "papers", "again", "saved"}
        BY <2>3, <2>6, <3>2
        DEF CreateDraft, SaveRead, ReviseRead, Begin, CreateOwnerRole, SaveDraft,
            SaveLegal, ReplaceDocuments, ReviseWrite, Submitted, ReplacePhotos, OwnerStop
      <4> QED
        BY <2>5, <4>1
    <3> QED
      BY <3>1, <3>2
  <2>7. ASSUME NEW p \in Listings, SubmitRead(q, p) PROVE Numbered'
    <3>1. ref' = ref /\ ref[p] = 0 /\ work'[q] = [stage |-> "first", listing |-> p]
      BY <2>2, <2>3, <2>7 DEF SubmitRead, Begin
    <3> QED
      BY <2>4, <3>1 DEF NumberingFits
  <2>8. CASE NumberRead(q)
    <3>1. /\ ref' = ref /\ work[q].stage = "first"
          /\ work'[q] = [stage |-> "numbered", listing |-> work[q].listing,
                         number |-> RefCount + 1]
      BY <2>3, <2>8 DEF NumberRead
    <3>2. RefCount' = RefCount
      BY <3>1 DEF RefCount
    <3> QED
      BY <2>2, <2>4, <3>1, <3>2 DEF NumberingFits
  <2>9. CASE SubmitWrite(q)
    <3>0. PICK p \in Listings : p = work[q].listing
      BY <2>9, WorkFields DEF SubmitWrite
    <3> DEFINE n == work[q].number
    <3>1. ref[p] = 0 /\ n \in 1 .. RefCount + 1 /\ Submits(q, p)
      BY <2>2, <2>9, <3>0 DEF NumberingFits, SubmitWrite, Submits
    <3>2. CASE work' = [work EXCEPT ![q] = Rest] /\ UNCHANGED ref
      BY <2>3, <2>5, <3>2
    <3>3. ASSUME Submitted(q, p), ref' = [ref EXCEPT ![p] = n],
                 \A other \in Listings \ {p} : ref[other] # n
          PROVE  Numbered'
      <4>1. n \in Nat \ {0}
        BY <2>2, <3>1
      <4>2. RefCount' = RefCount + 1 /\ References' = References \cup {n}
        BY <3>1, <3>3, <4>1, RefCountGrows
      <4>3. n \notin References
        BY <3>1, <3>3, <4>1 DEF References
      <4>4. References' = 1 .. RefCount'
        BY <2>2, <3>1, <4>2, <4>3
      <4>5. \A other \in OwnerRequests \ {q} : ~Submits(other, p)
        BY <2>1, <3>1, OnlyWriter
      <4>6. \A l \in Listings \ {p} : ref'[l] = ref[l] /\ onboarding'[l] = onboarding[l]
        BY <3>3 DEF Submitted, ReviewTypeOK
      <4>7. onboarding'[p] = "pending_review" /\ work'[q].stage = "saved"
        BY <2>3, <3>3 DEF Submitted, ReviewTypeOK
      <4>8. ASSUME NEW other \in OwnerRequests PROVE NumberingFits(other)'
        <5>1. CASE other = q
          BY <4>7, <5>1 DEF NumberingFits
        <5>2. CASE other # q
          BY <2>2, <2>3, <4>2, <4>5, <4>6, <5>2, WorkFields DEF NumberingFits, Submits
        <5> QED
          BY <5>1, <5>2
      <4> QED
        BY <2>2, <4>4, <4>6, <4>7, <4>8 DEF Numbered
    <3> QED
      BY <2>9, <3>0, <3>2, <3>3 DEF SubmitWrite
  <2> QED
    BY <1>3, <2>6, <2>7, <2>8, <2>9 DEF OwnerStep
<1> QED
  BY <1>1, <1>2, <1>3, ReviewSteps DEF reviewVars

-----------------------------------------------------------------------------
\* The theorems.

LEMMA ReviewInvariant == ReviewSpec => []ReviewInv
<1>1. ReviewInv <=> ReviewTypeOK /\ RevisionInv /\ SubmissionInv /\ NumberedInv
  BY DEF ReviewInv, RevisionInv, SubmissionInv, NumberedInv
<1>2. ReviewInv /\ [ReviewNext]_reviewVars => ReviewInv'
  <2> SUFFICES ASSUME ReviewInv, [ReviewNext]_reviewVars PROVE ReviewInv'
    OBVIOUS
  <2>1. ReviewTypeOK' /\ RevisionInv' /\ SubmissionInv' /\ NumberedInv'
    BY <1>1, ReviewTypeNext, RevisionNext, SubmissionNext, NumberedNext DEF NumberedInv
  <2> QED
    BY <2>1 DEF ReviewInv, RevisionInv, SubmissionInv, NumberedInv
<1> QED
  BY <1>2, ReviewInitInv, PTL DEF ReviewSpec

\* The rows of a property, and the requests in flight on it, keep their types.
THEOREM ReviewTypeCorrect == ReviewSpec => []ReviewTypeOK
BY ReviewInvariant, PTL DEF ReviewInv

\* What administrators review and guests book is one submission.
THEOREM ListedIsOneSubmission == ReviewSpec => []ListingIsOneSubmission
<1>1. ReviewInv => ListingIsOneSubmission
  BY DEF ReviewInv, ListingIsOneSubmission, SubmissionInTurn, Writing
<1> QED
  BY <1>1, ReviewInvariant, PTL

\* Nobody is asked for more revisions than the cap, nor escalated before it.
THEOREM RevisionsAreCapped == ReviewSpec => []RevisionsCapped
<1>1. ReviewInv => RevisionsCapped
  BY DEF ReviewInv, RevisionsCapped, ModerationAlone
<1> QED
  BY <1>1, ReviewInvariant, PTL

\* Races for a reference leave no gap in the numbering, and give none out twice.
THEOREM ReferencesAreNumbered == ReviewSpec => []ReferencesNumbered
<1>1. ReviewInv => ReferencesNumbered
  BY DEF ReviewInv, ReferencesNumbered, Numbered, References
<1> QED
  BY <1>1, ReviewInvariant, PTL

-----------------------------------------------------------------------------
\* What the platform promises of a property's review.

\* submit and revise are on their way to their update of p; an administrator has read p.
First(q, p) == work[q].stage \in {"first", "numbered"} /\ work[q].listing = p

Again(q, p) == work[q].stage = "again" /\ work[q].listing = p

Judges(m, p) == moderation[m].stage \in {"read", "logged"} /\ moderation[m].listing = p

\* The status that a request has read is still the row's when it writes.
Turn(p) ==
  /\ \A q \in OwnerRequests :
       /\ First(q, p) => onboarding[p] = "draft"
       /\ Again(q, p) => onboarding[p] = "needs_revision"
  /\ \A m \in Moderations : Judges(m, p) => onboarding[p] = "pending_review"

TurnInv == \A p \in Listings \ Overlapped : Turn(p)

\* What a step of the owner means for the status of properties: a submission begins, it
\* is written, a draft is created, or the status stays.
Begins(q, p) ==
  /\ UNCHANGED onboarding
  /\ contested' = contested
  /\ crossed' = crossed \/ crossed' = crossed \cup {p}
  /\ p \notin crossed' => \A other \in OwnerRequests : ~Submits(other, p)
  /\ work'[q].listing = p
  /\ \/ work'[q].stage = "first" /\ onboarding[p] = "draft"
     \/ work'[q].stage = "again" /\ onboarding[p] = "needs_revision"

Writes(q, p) ==
  /\ First(q, p) \/ Again(q, p)
  /\ onboarding' = [onboarding EXCEPT ![p] = "pending_review"]
  /\ UNCHANGED <<crossed, contested>>
  /\ work'[q].stage = "saved"

Creates(q, p) ==
  /\ onboarding[p] = "absent"
  /\ onboarding' = [onboarding EXCEPT ![p] = "draft"]
  /\ UNCHANGED <<crossed, contested>>
  /\ work'[q].stage = "created"

LeavesStatus(q) ==
  /\ UNCHANGED <<onboarding, crossed, contested>>
  /\ \A p \in Listings : (First(q, p)' => First(q, p)) /\ (Again(q, p)' => Again(q, p))

LEMMA OwnerMoves ==
  ASSUME ReviewTypeOK, NEW q \in OwnerRequests, OwnerStep(q)
  PROVE  \/ LeavesStatus(q)
         \/ \E p \in Listings : Begins(q, p) \/ Writes(q, p) \/ Creates(q, p)
<1> USE DEF ReviewTypeOK, listingVars, historyVars
<1>1. ASSUME NEW p \in Listings, CreateDraft(q, p) PROVE Creates(q, p)
  BY <1>1 DEF CreateDraft, Creates
<1>2. ASSUME NEW p \in Listings, SubmitRead(q, p) \/ ReviseRead(q, p) PROVE Begins(q, p)
  BY <1>2 DEF SubmitRead, ReviseRead, Begin, Begins
<1>3. ASSUME NEW p \in Listings, NEW k \in Steps \cup {LegalStep}, SaveRead(q, p, k)
      PROVE  LeavesStatus(q)
  BY <1>3 DEF SaveRead, LeavesStatus, First, Again
<1>4. CASE SubmitWrite(q)
  <2>1. work[q].listing \in Listings
    BY <1>4, WorkFields DEF SubmitWrite
  <2>2. CASE Submitted(q, work[q].listing)
    BY <1>4, <2>1, <2>2 DEF SubmitWrite, Submitted, Writes, First
  <2>3. CASE work' = [work EXCEPT ![q] = Rest] /\ UNCHANGED onboarding
    BY <1>4, <2>3 DEF SubmitWrite, LeavesStatus, First, Again, Rest
  <2> QED
    BY <1>4, <2>2, <2>3 DEF SubmitWrite
<1>5. CASE ReviseWrite(q)
  <2>1. work[q].listing \in Listings
    BY <1>5, WorkFields DEF ReviseWrite
  <2> QED
    BY <1>5, <2>1 DEF ReviseWrite, Submitted, Writes, Again
<1>6. CASE NumberRead(q)
  BY <1>6 DEF NumberRead, LeavesStatus, First, Again
<1>7. CASE ReplaceRoomTypes(q)
  <2>1. work[q] \in Work /\ work'[q] = [work[q] EXCEPT !.stage = "furnished"]
    BY <1>7, WorkFields DEF ReplaceRoomTypes
  <2>2. work'[q].stage = "furnished"
    BY <1>7, <2>1 DEF ReplaceRoomTypes, Work
  <2> QED
    BY <1>7, <2>2 DEF ReplaceRoomTypes, LeavesStatus, First, Again
<1>8. CASE SaveLegal(q)
  BY <1>8 DEF SaveLegal, LeavesStatus, First, Again
<1>9. CASE CreateOwnerRole(q) \/ SaveDraft(q) \/ ReplaceDocuments(q) \/ ReplacePhotos(q)
           \/ OwnerStop(q)
  <2>1. work'[q] = Rest /\ UNCHANGED <<onboarding, crossed, contested>>
    BY <1>9
    DEF CreateOwnerRole, SaveDraft, ReplaceDocuments, ReplacePhotos, OwnerStop
  <2> QED
    BY <2>1 DEF LeavesStatus, First, Again, Rest
<1> QED
  BY <1>1, <1>2, <1>3, <1>4, <1>5, <1>6, <1>7, <1>8, <1>9 DEF OwnerStep

\* What a step of an administrator means for it: a moderation begins, it is written, or
\* the status stays.
Reads(m, p) ==
  /\ UNCHANGED <<onboarding, rounds, crossed>>
  /\ contested' = contested \/ contested' = contested \cup {p}
  /\ onboarding[p] = "pending_review"
  /\ moderation'[m].listing = p

Judged(m, p, s) ==
  /\ Judges(m, p)
  /\ onboarding' = [onboarding EXCEPT ![p] = s]
  /\ UNCHANGED <<crossed, contested>>
  /\ moderation'[m].stage \notin {"read", "logged"}
  /\ \/ s \in {"approved", "rejected"} /\ UNCHANGED rounds
     \/ /\ s = "needs_revision"
        /\ moderation[m].seen + 1 <= RevisionCap
        /\ rounds' = [rounds EXCEPT ![p] = @ + 1]
     \/ /\ s = "escalated"
        /\ moderation[m].seen + 1 > RevisionCap
        /\ UNCHANGED rounds

Passes(m) ==
  /\ UNCHANGED <<onboarding, rounds, crossed, contested>>
  /\ \A p \in Listings : Judges(m, p)' => Judges(m, p)

LEMMA ModeratorMoves ==
  ASSUME ReviewTypeOK, NEW m \in Moderations, ModeratorStep(m)
  PROVE  /\ \A n \in Moderations \ {m} : moderation'[n] = moderation[n]
         /\ \/ Passes(m)
            \/ \E p \in Listings : Reads(m, p) \/ \E s \in OnboardingStatus : Judged(m, p, s)
<1> USE DEF ReviewTypeOK, listingVars, roundVars, historyVars
<1>1. \A n \in Moderations \ {m} : moderation'[n] = moderation[n]
  BY DEF ModeratorStep, ModerateRead, Decide, DecideLog, RevisionLog, RevisionWrite,
         ModerationStop
<1>2. ASSUME NEW p \in Listings, NEW verdict \in Verdicts, ModerateRead(m, p, verdict)
      PROVE  Reads(m, p)
  BY <1>2 DEF ModerateRead, Reads
<1>3. CASE Decide(m)
  <2>1. moderation[m].listing \in Listings
    BY <1>3, ModerationFields DEF Decide
  <2>2. Judged(m, moderation[m].listing, moderation[m].verdict)
    BY <1>3, <2>1 DEF Decide, Judged, Judges
  <2> QED
    BY <1>1, <1>3, <2>1, <2>2 DEF Decide, OnboardingStatus
<1>4. CASE RevisionWrite(m)
  <2>1. moderation[m].listing \in Listings
    BY <1>4, ModerationFields DEF RevisionWrite
  <2>2. \/ Judged(m, moderation[m].listing, "needs_revision")
        \/ Judged(m, moderation[m].listing, "escalated")
    BY <1>4, <2>1 DEF RevisionWrite, Judged, Judges, Rest
  <2> QED
    BY <1>1, <2>1, <2>2 DEF OnboardingStatus
<1>5. CASE RevisionLog(m)
  <2>1. moderation[m] \in Moderation /\ moderation[m].stage = "read"
    BY <1>5, ModerationFields DEF RevisionLog, Rest
  <2>2. moderation'[m].listing = moderation[m].listing
    BY <1>5, <2>1 DEF RevisionLog, Moderation
  <2> QED
    BY <1>1, <1>5, <2>1, <2>2 DEF RevisionLog, Passes, Judges
<1>6. CASE DecideLog(m) \/ ModerationStop(m)
  <2>1. moderation'[m] = Rest /\ UNCHANGED <<onboarding, rounds, crossed, contested>>
    BY <1>6 DEF DecideLog, ModerationStop
  <2> QED
    BY <1>1, <2>1 DEF Passes, Judges, Rest
<1> QED
  BY <1>1, <1>2, <1>3, <1>4, <1>5, <1>6 DEF ModeratorStep

LEMMA TurnNext ==
  ASSUME ReviewInv, TurnInv, [ReviewNext]_reviewVars
  PROVE  TurnInv'
<1> USE DEF TurnInv, Overlapped
<1>0. ReviewTypeOK
  BY DEF ReviewInv
<1>1. ASSUME NEW q \in OwnerRequests, OwnerStep(q) PROVE TurnInv'
  <2>0. /\ moderation' = moderation
        /\ \A other \in OwnerRequests \ {q} : work'[other] = work[other]
    BY <1>0, <1>1, OwnerFrame, OtherWork
  <2>1. CASE LeavesStatus(q)
    BY <2>0, <2>1 DEF LeavesStatus, Turn, First, Again, Judges
  <2>2. ASSUME NEW p \in Listings, Begins(q, p) PROVE TurnInv'
    <3> SUFFICES ASSUME NEW l \in Listings \ Overlapped' PROVE Turn(l)'
      OBVIOUS
    <3>1. Turn(l) /\ UNCHANGED onboarding
      BY <2>2 DEF Begins
    <3>2. /\ First(q, l)' => onboarding[l] = "draft"
          /\ Again(q, l)' => onboarding[l] = "needs_revision"
      BY <2>2 DEF Begins, First, Again
    <3> QED
      BY <2>0, <3>1, <3>2 DEF Turn, First, Again, Judges
  <2>3. ASSUME NEW p \in Listings, Writes(q, p) PROVE TurnInv'
    <3> SUFFICES ASSUME NEW l \in Listings \ Overlapped' PROVE Turn(l)'
      OBVIOUS
    <3>1. /\ Turn(l) /\ SubmissionAlone(l)
          /\ ~First(q, l)' /\ ~Again(q, l)'
          /\ \A other \in OwnerRequests \ {q} :
               (First(other, l)' <=> First(other, l)) /\ (Again(other, l)' <=> Again(other, l))
      BY <2>0, <2>3 DEF Writes, First, Again, ReviewInv
    <3>2. CASE l = p
      <4>1. \A other \in OwnerRequests \ {q} : ~First(other, l) /\ ~Again(other, l)
        BY <2>3, <3>1, <3>2 DEF Writes, First, Again, Submits, SubmissionAlone
      <4>2. onboarding'[l] = "pending_review"
        BY <1>0, <2>3, <3>2 DEF Writes, ReviewTypeOK
      <4> QED
        BY <3>1, <4>1, <4>2 DEF Turn
    <3>3. CASE l # p
      <4>1. onboarding'[l] = onboarding[l]
        BY <1>0, <2>3, <3>3 DEF Writes, ReviewTypeOK
      <4> QED
        BY <2>0, <3>1, <4>1 DEF Turn, Judges
    <3> QED
      BY <3>2, <3>3
  <2>4. ASSUME NEW p \in Listings, Creates(q, p) PROVE TurnInv'
    <3> SUFFICES ASSUME NEW l \in Listings \ Overlapped' PROVE Turn(l)'
      OBVIOUS
    <3>1. /\ Turn(l) /\ ~First(q, l)' /\ ~Again(q, l)'
          /\ onboarding'[l] = IF l = p THEN "draft" ELSE onboarding[l]
      BY <1>0, <2>4 DEF Creates, First, Again, ReviewTypeOK
    <3>2. l = p => onboarding[l] = "absent"
      BY <2>4 DEF Creates
    <3> QED
      BY <2>0, <3>1, <3>2 DEF Turn, First, Again, Judges
  <2> QED
    BY <1>0, <1>1, <2>1, <2>2, <2>3, <2>4, OwnerMoves
<1>2. ASSUME NEW m \in Moderations, ModeratorStep(m) PROVE TurnInv'
  <2>0. /\ work' = work
        /\ \A n \in Moderations \ {m} : moderation'[n] = moderation[n]
    BY <1>0, <1>2, ModeratorFrame, ModeratorMoves
  <2>1. CASE Passes(m)
    BY <2>0, <2>1 DEF Passes, Turn, First, Again, Judges
  <2>2. ASSUME NEW p \in Listings, Reads(m, p) PROVE TurnInv'
    <3> SUFFICES ASSUME NEW l \in Listings \ Overlapped' PROVE Turn(l)'
      OBVIOUS
    <3>1. /\ Turn(l) /\ UNCHANGED onboarding
          /\ Judges(m, l)' => onboarding[l] = "pending_review"
      BY <2>2 DEF Reads, Judges
    <3> QED
      BY <2>0, <3>1 DEF Turn, First, Again, Judges
  <2>3. ASSUME NEW p \in Listings, NEW s \in OnboardingStatus, Judged(m, p, s) PROVE TurnInv'
    <3> SUFFICES ASSUME NEW l \in Listings \ Overlapped' PROVE Turn(l)'
      OBVIOUS
    <3>1. Turn(l) /\ ModerationAlone(l) /\ ~Judges(m, l)'
      BY <2>3 DEF Judged, Judges, ReviewInv
    <3>2. CASE l = p
      <4>1. /\ onboarding[l] = "pending_review"
            /\ \A n \in Moderations \ {m} : ~Judges(n, l)
        BY <2>3, <3>1, <3>2 DEF Judged, Judges, Moderates, ModerationAlone, Turn
      <4> QED
        BY <2>0, <3>1, <4>1 DEF Turn, First, Again, Judges
    <3>3. CASE l # p
      <4>1. onboarding'[l] = onboarding[l]
        BY <1>0, <2>3, <3>3 DEF Judged, ReviewTypeOK
      <4> QED
        BY <2>0, <3>1, <4>1 DEF Turn, First, Again, Judges
    <3> QED
      BY <3>2, <3>3
  <2> QED
    BY <1>0, <1>2, <2>1, <2>2, <2>3, ModeratorMoves
<1>3. CASE UNCHANGED reviewVars
  BY <1>3 DEF reviewVars, listingVars, historyVars, Turn, First, Again, Judges
<1> QED
  BY <1>1, <1>2, <1>3, ReviewSteps

LEMMA TurnInvariant == ReviewSpec => []TurnInv
<1>1. ReviewInit => TurnInv
  BY DEF ReviewInit, TurnInv, Turn, First, Again, Judges, Rest
<1>2. ReviewInv /\ TurnInv /\ [ReviewNext]_reviewVars => TurnInv'
  BY TurnNext
<1> QED
  BY <1>1, <1>2, ReviewInvariant, PTL DEF ReviewSpec

\* What the machine sees of a property.
Seen(p) == IF p \in Overlapped THEN "overlapped" ELSE onboarding[p]

SeenRounds(p) == IF p \in Overlapped THEN 0 ELSE rounds[p]

\* A step on p alone is a step of the machine if it is one for p.
LEMMA MachineStep ==
  ASSUME NEW p \in Listings,
         \A l \in Listings \ {p} : Seen(l)' = Seen(l) /\ SeenRounds(l)' = SeenRounds(l),
         \/ Seen(p)' = Seen(p) /\ SeenRounds(p)' = SeenRounds(p)
         \/ Seen(p) # "overlapped" /\ Seen(p)' = "overlapped" /\ SeenRounds(p)' = 0
         \/ /\ SeenRounds(p)' = SeenRounds(p)
            /\ \/ Seen(p) = "absent" /\ Seen(p)' = "draft"
               \/ Seen(p) \in {"draft", "needs_revision"} /\ Seen(p)' = "pending_review"
               \/ Seen(p) = "pending_review" /\ Seen(p)' \in {"approved", "rejected"}
               \/ /\ Seen(p) = "pending_review" /\ SeenRounds(p) = RevisionCap
                  /\ Seen(p)' = "escalated"
         \/ /\ Seen(p) = "pending_review" /\ SeenRounds(p) < RevisionCap
            /\ Seen(p)' = "needs_revision" /\ SeenRounds(p)' = SeenRounds(p) + 1
  PROVE  [PropertyMachine!Next]_(PropertyMachine!desk)
<1> DEFINE stands == [l \in Listings |-> IF l \in Overlapped THEN "overlapped" ELSE onboarding[l]]
           asked == [l \in Listings |-> IF l \in Overlapped THEN 0 ELSE rounds[l]]
           after == [l \in Listings |-> Seen(l)']
           askedAfter == [l \in Listings |-> SeenRounds(l)']
<1>1. /\ stands = [l \in Listings |-> Seen(l)] /\ asked = [l \in Listings |-> SeenRounds(l)]
      /\ stands' = after /\ asked' = askedAfter
  BY DEF Seen, SeenRounds
<1>2. /\ after = [[l \in Listings |-> Seen(l)] EXCEPT ![p] = Seen(p)']
      /\ askedAfter = [[l \in Listings |-> SeenRounds(l)] EXCEPT ![p] = SeenRounds(p)']
  OBVIOUS
<1>3. /\ stands' = [stands EXCEPT ![p] = Seen(p)'] /\ stands[p] = Seen(p)
      /\ asked' = [asked EXCEPT ![p] = SeenRounds(p)'] /\ asked[p] = SeenRounds(p)
  <2> HIDE DEF stands, asked, after, askedAfter
  <2>1. /\ stands' = [stands EXCEPT ![p] = Seen(p)']
        /\ asked' = [asked EXCEPT ![p] = SeenRounds(p)']
    BY <1>1, <1>2
  <2>2. stands[p] = Seen(p) /\ asked[p] = SeenRounds(p)
    BY <1>1
  <2> QED
    BY <2>1, <2>2
<1>4. SeenRounds(p)' = SeenRounds(p) => asked' = asked
  <2> HIDE DEF stands, asked
  <2>1. asked = [l \in Listings |-> SeenRounds(l)]
    BY <1>1
  <2> QED
    BY <1>3, <2>1
<1>5. CASE Seen(p)' = Seen(p) /\ SeenRounds(p)' = SeenRounds(p)
  <2>1. stands' = stands
    <3> HIDE DEF stands, asked
    <3>1. stands = [l \in Listings |-> Seen(l)]
      BY <1>1
    <3> QED
      BY <1>3, <1>5, <3>1
  <2> QED
    BY <1>4, <1>5, <2>1 DEF PropertyMachine!desk
<1>6. CASE /\ Seen(p)' = "overlapped" /\ SeenRounds(p)' = 0
           /\ Seen(p) # "overlapped"
  <2>1. PropertyMachine!Overlap(p)
    BY <1>3, <1>6 DEF PropertyMachine!Overlap
  <2> QED
    BY <2>1 DEF PropertyMachine!Next
<1>7. CASE SeenRounds(p)' = SeenRounds(p) /\ Seen(p) = "absent" /\ Seen(p)' = "draft"
  <2>1. PropertyMachine!Create(p)
    BY <1>3, <1>4, <1>7 DEF PropertyMachine!Create, PropertyMachine!Becomes
  <2> QED
    BY <2>1 DEF PropertyMachine!Next
<1>8. CASE /\ SeenRounds(p)' = SeenRounds(p)
           /\ Seen(p) \in {"draft", "needs_revision"} /\ Seen(p)' = "pending_review"
  <2>1. PropertyMachine!Submit(p)
    BY <1>3, <1>4, <1>8 DEF PropertyMachine!Submit, PropertyMachine!Becomes
  <2> QED
    BY <2>1 DEF PropertyMachine!Next
<1>9. CASE /\ SeenRounds(p)' = SeenRounds(p)
           /\ Seen(p) = "pending_review" /\ Seen(p)' \in {"approved", "rejected"}
  <2>1. PropertyMachine!Decide(p)
    BY <1>3, <1>4, <1>9 DEF PropertyMachine!Decide, PropertyMachine!Becomes
  <2> QED
    BY <2>1 DEF PropertyMachine!Next
<1>10. CASE /\ SeenRounds(p)' = SeenRounds(p) /\ SeenRounds(p) = RevisionCap
            /\ Seen(p) = "pending_review" /\ Seen(p)' = "escalated"
  <2>1. PropertyMachine!Escalate(p)
    BY <1>3, <1>4, <1>10 DEF PropertyMachine!Escalate, PropertyMachine!Becomes
  <2> QED
    BY <2>1 DEF PropertyMachine!Next
<1>11. CASE /\ Seen(p) = "pending_review" /\ SeenRounds(p) < RevisionCap
            /\ Seen(p)' = "needs_revision" /\ SeenRounds(p)' = SeenRounds(p) + 1
  <2>1. PropertyMachine!AskRevision(p)
    BY <1>3, <1>11 DEF PropertyMachine!AskRevision
  <2> QED
    BY <2>1 DEF PropertyMachine!Next
<1> QED
  BY <1>5, <1>6, <1>7, <1>8, <1>9, <1>10, <1>11

\* Every step is a step of the machine or leaves what it sees.
LEMMA MachineNext ==
  ASSUME ReviewInv, TurnInv, [ReviewNext]_reviewVars
  PROVE  [PropertyMachine!Next]_(PropertyMachine!desk)
<1>0. ReviewTypeOK
  BY DEF ReviewInv
<1>1. CASE UNCHANGED <<onboarding, rounds, crossed, contested>>
  BY <1>1 DEF PropertyMachine!desk, Overlapped
<1>2. ASSUME NEW q \in OwnerRequests, OwnerStep(q)
      PROVE  [PropertyMachine!Next]_(PropertyMachine!desk)
  <2>0. rounds' = rounds
    BY <1>0, <1>2, OwnerFrame DEF roundVars
  <2>1. CASE LeavesStatus(q)
    BY <1>1, <2>0, <2>1 DEF LeavesStatus
  <2>2. ASSUME NEW p \in Listings, Begins(q, p)
        PROVE  [PropertyMachine!Next]_(PropertyMachine!desk)
    <3>1. \A l \in Listings \ {p} : Seen(l)' = Seen(l) /\ SeenRounds(l)' = SeenRounds(l)
      BY <2>0, <2>2 DEF Begins, Seen, SeenRounds, Overlapped
    <3>2. \/ Seen(p)' = Seen(p) /\ SeenRounds(p)' = SeenRounds(p)
          \/ Seen(p) # "overlapped" /\ Seen(p)' = "overlapped" /\ SeenRounds(p)' = 0
      <4>1. onboarding[p] # "overlapped"
        BY <1>0 DEF ReviewTypeOK, OnboardingStatus
      <4>2. Overlapped \subseteq Overlapped'
        BY <2>2 DEF Begins, Overlapped
      <4> QED
        BY <2>0, <2>2, <4>1, <4>2 DEF Begins, Seen, SeenRounds
    <3> QED
      BY <3>1, <3>2, MachineStep
  <2>3. ASSUME NEW p \in Listings, Writes(q, p) \/ Creates(q, p)
        PROVE  [PropertyMachine!Next]_(PropertyMachine!desk)
    <3>0. /\ Overlapped' = Overlapped
          /\ \A l \in Listings \ {p} : onboarding'[l] = onboarding[l]
          /\ onboarding'[p] = IF Writes(q, p) THEN "pending_review" ELSE "draft"
      BY <1>0, <2>3 DEF Writes, Creates, Overlapped, ReviewTypeOK
    <3>1. \A l \in Listings \ {p} : Seen(l)' = Seen(l) /\ SeenRounds(l)' = SeenRounds(l)
      BY <2>0, <3>0 DEF Seen, SeenRounds
    <3>2. SeenRounds(p)' = SeenRounds(p)
      BY <2>0, <3>0 DEF SeenRounds
    <3>3. CASE p \in Overlapped
      BY <3>0, <3>1, <3>2, <3>3, MachineStep DEF Seen
    <3>4. CASE p \notin Overlapped /\ Writes(q, p)
      <4>1. Seen(p) \in {"draft", "needs_revision"} /\ Seen(p)' = "pending_review"
        BY <3>0, <3>4 DEF Seen, Writes, TurnInv, Turn
      <4> QED
        BY <3>1, <3>2, <4>1, MachineStep
    <3>5. CASE p \notin Overlapped /\ ~Writes(q, p)
      <4>1. Seen(p) = "absent" /\ Seen(p)' = "draft"
        BY <2>3, <3>0, <3>5 DEF Seen, Creates
      <4> QED
        BY <3>1, <3>2, <4>1, MachineStep
    <3> QED
      BY <3>3, <3>4, <3>5
  <2> QED
    BY <1>0, <1>2, <2>1, <2>2, <2>3, OwnerMoves
<1>3. ASSUME NEW m \in Moderations, ModeratorStep(m)
      PROVE  [PropertyMachine!Next]_(PropertyMachine!desk)
  <2>1. CASE Passes(m)
    BY <1>1, <2>1 DEF Passes
  <2>2. ASSUME NEW p \in Listings, Reads(m, p)
        PROVE  [PropertyMachine!Next]_(PropertyMachine!desk)
    <3>1. \A l \in Listings \ {p} : Seen(l)' = Seen(l) /\ SeenRounds(l)' = SeenRounds(l)
      BY <2>2 DEF Reads, Seen, SeenRounds, Overlapped
    <3>2. \/ Seen(p)' = Seen(p) /\ SeenRounds(p)' = SeenRounds(p)
          \/ Seen(p) # "overlapped" /\ Seen(p)' = "overlapped" /\ SeenRounds(p)' = 0
      <4>1. onboarding[p] # "overlapped"
        BY <1>0 DEF ReviewTypeOK, OnboardingStatus
      <4>2. Overlapped \subseteq Overlapped'
        BY <2>2 DEF Reads, Overlapped
      <4> QED
        BY <2>2, <4>1, <4>2 DEF Reads, Seen, SeenRounds
    <3> QED
      BY <3>1, <3>2, MachineStep
  <2>3. ASSUME NEW p \in Listings, NEW s \in OnboardingStatus, Judged(m, p, s)
        PROVE  [PropertyMachine!Next]_(PropertyMachine!desk)
    <3>0. /\ Overlapped' = Overlapped
          /\ \A l \in Listings \ {p} : onboarding'[l] = onboarding[l] /\ rounds'[l] = rounds[l]
          /\ onboarding'[p] = s
          /\ rounds'[p] = IF s = "needs_revision" THEN rounds[p] + 1 ELSE rounds[p]
      BY <1>0, <2>3 DEF Judged, Overlapped, ReviewTypeOK
    <3>1. \A l \in Listings \ {p} : Seen(l)' = Seen(l) /\ SeenRounds(l)' = SeenRounds(l)
      BY <3>0 DEF Seen, SeenRounds
    <3>2. CASE p \in Overlapped
      BY <3>0, <3>1, <3>2, MachineStep DEF Seen, SeenRounds
    <3>3. CASE p \notin Overlapped
      <4>1. /\ onboarding[p] = "pending_review"
            /\ moderation[m].seen = rounds[p] /\ rounds[p] \in Nat /\ rounds[p] <= RevisionCap
        BY <1>0, <2>3, <3>3
        DEF Judged, Judges, TurnInv, Turn, Overlapped, ReviewInv, ModerationAlone,
            ReviewTypeOK
      <4>2. /\ Seen(p) = "pending_review" /\ Seen(p)' = s
            /\ SeenRounds(p) = rounds[p] /\ SeenRounds(p)' = rounds'[p]
        BY <3>0, <3>3, <4>1 DEF Seen, SeenRounds
      <4>3. CASE s \in {"approved", "rejected"}
        BY <3>0, <3>1, <4>2, <4>3, MachineStep
      <4>4. CASE s = "needs_revision"
        <5>1. SeenRounds(p) < RevisionCap /\ SeenRounds(p)' = SeenRounds(p) + 1
          BY <2>3, <3>0, <4>1, <4>2, <4>4, ReviewAssumption DEF Judged
        <5> QED
          BY <3>1, <4>2, <4>4, <5>1, MachineStep
      <4>5. CASE s = "escalated"
        <5>1. SeenRounds(p) = RevisionCap /\ SeenRounds(p)' = SeenRounds(p)
          BY <2>3, <3>0, <4>1, <4>2, <4>5, ReviewAssumption DEF Judged
        <5> QED
          BY <3>1, <4>2, <4>5, <5>1, MachineStep
      <4> QED
        BY <2>3, <4>3, <4>4, <4>5 DEF Judged
    <3> QED
      BY <3>2, <3>3
  <2> QED
    BY <1>0, <1>3, <2>1, <2>2, <2>3, ModeratorMoves
<1>4. CASE UNCHANGED reviewVars
  BY <1>1, <1>4 DEF reviewVars, listingVars, roundVars, historyVars
<1> QED
  BY <1>2, <1>3, <1>4, ReviewSteps

\* The review of a property moves as the platform promises, as long as no two requests
\* of one side overlap on it.
THEOREM ReviewImplementsStatus == ReviewSpec => ImplementsPropertyStatus
<1>1. ReviewInit => PropertyMachine!Init
  BY DEF ReviewInit, PropertyMachine!Init, Overlapped
<1>2. ReviewInv /\ TurnInv /\ [ReviewNext]_reviewVars =>
        [PropertyMachine!Next]_(PropertyMachine!desk)
  BY MachineNext
<1> QED
  BY <1>1, <1>2, ReviewInvariant, TurnInvariant, PTL
  DEF ReviewSpec, ImplementsPropertyStatus, PropertyMachine!Spec

-----------------------------------------------------------------------------
\* The composition: every step of MCOwners is a step of one component and leaves the
\* others alone, so that what is proved of the components holds of it.
THEOREM OwnersCompose == Spec => ReviewSpec /\ DisputesSpec /\ PayoutsSpec
<1>1. Init => ReviewInit /\ DisputesInit /\ PayoutsInit
  BY DEF Init
<1>2. [Next]_<<part, reviewVars, disputesVars, payoutsVars>> =>
        [ReviewNext]_reviewVars /\ [DisputesNext]_disputesVars /\ [PayoutsNext]_payoutsVars
  BY DEF Next, OneProperty, NoModeration
<1> QED
  BY <1>1, <1>2, PTL DEF Spec, ReviewSpec, DisputesSpec, PayoutsSpec
=============================================================================
