--------------------------- MODULE PropertyReview ---------------------------
(***************************************************************************)
(* Putting a property on the platform: the owner saves the steps of the    *)
(* wizard, submits, and resubmits after a revision; administrators         *)
(* approve, reject or ask for a revision, which they may do three times.   *)
(* Every handler reads the property, checks its status and then updates it *)
(* by its id alone, and a submission is four statements on three tables.   *)
(***************************************************************************)
EXTENDS Integers, FiniteSets

CONSTANTS
  Listings,        \* properties
  Steps,           \* steps of the wizard that are kept in draftData (1 .. 4)
  LegalStep,       \* step 5, kept in the compliance tables
  OwnerRequests,   \* requests of owners that can be in flight
  Moderations,     \* requests of administrators that can be in flight
  RevisionCap,     \* REVISION_CYCLE_CAP
  MaxSubmissions   \* bound: submissions of one property

ASSUME ReviewAssumption ==
  /\ IsFiniteSet(Listings)
  /\ LegalStep \notin Steps
  /\ RevisionCap \in Nat
  /\ MaxSubmissions \in Nat

VARIABLES
  onboarding,   \* onboarding[p]: Property.status
  owned,        \* properties whose creator has the role OWNER on them
  draft,        \* draft[p]: the steps in draftData
  legal,        \* properties with a compliance row
  papers,       \* properties with documents
  ref,          \* ref[p]: the number in submissionRef, 0 for none
  submissions,  \* submissions[p]: history: submissions written, the last of which
                \* the property's columns are from
  rooms,        \* rooms[p]: the submission its room types are from
  photos,       \* photos[p]: the submission its photos are from
  revisions,    \* revisions[p]: revisionCount, and the entries of revisionNotes
  rounds,       \* rounds[p]: history: revisions asked for
  logged,       \* logged[p]: the verdicts that its moderation log names
  work,         \* work[q]: the owner's request q
  moderation,   \* moderation[m]: the administrator's request m
  crossed,      \* history: properties with two submissions in flight at once
  contested,    \* history: properties with two moderations in flight at once
  cut           \* history: properties whose submission ended between two statements

filedVars == <<owned, legal, papers>>
listingVars == <<onboarding, draft, filedVars, ref, submissions, rooms, photos>>
roundVars == <<revisions, rounds, logged>>
historyVars == <<crossed, contested, cut>>
reviewVars == <<listingVars, roundVars, work, moderation, historyVars>>

OnboardingStatus ==
  {"absent", "draft", "pending_review", "needs_revision", "approved", "rejected",
   "escalated"}

Verdicts == {"approved", "rejected", "needs_revision"}

Rest == [stage |-> "rest"]

\* created: createDraft after its insertion.  save: a step after the check of the
\* status, with the draft that was read.  papers: step 5 after the upsert of the
\* compliance row.  first, again: submit and revise after their checks.  numbered: submit with its
\* reference.  saved, furnished: the property is updated, and its room types too.
Work ==
  [stage : {"save"}, listing : Listings, step : Steps \cup {LegalStep},
   seen : SUBSET Steps]
  \cup [stage : {"created", "papers", "first", "again"}, listing : Listings]
  \cup [stage : {"numbered", "saved", "furnished"}, listing : Listings, number : Nat]

\* read: after the check of the status, with the revisionCount that was read.
\* logged: requestRevision after its log row.  decided: before that of the others.
Moderation ==
  [stage : {"read", "logged"}, listing : Listings, verdict : Verdicts, seen : Nat]
  \cup [stage : {"decided"}, listing : Listings, verdict : Verdicts]

Submits(q, p) ==
  /\ work[q].stage \notin {"rest", "created", "save", "papers"}
  /\ work[q].listing = p

Moderates(m, p) == moderation[m].stage # "rest" /\ moderation[m].listing = p

\* validateStoredStep, and assertConditionalFields behind it: what a step lacks turns
\* a submission down, and that changes nothing.
StepSaved(p, k) == k \in draft[p]

\* getSummary finds the row of step 5 and its documents.
LegalSaved(p) == p \in legal \cap papers

\* validateAndMaterialize passes only with all five steps.
AllSaved(p) == (\A k \in Steps : StepSaved(p, k)) /\ LegalSaved(p)

\* assertDraftEditable: rejected and escalated properties can be edited.
Editable(p) == onboarding[p] \notin {"absent", "pending_review", "approved"}

\* Properties on which requests of one side have overlapped.
Overlapped == crossed \cup contested

\* The review of a property as the platform promises it.
PropertyMachine == INSTANCE PropertyStatus WITH
  status <- [p \in Listings |-> IF p \in Overlapped THEN "overlapped" ELSE onboarding[p]],
  rounds <- [p \in Listings |-> IF p \in Overlapped THEN 0 ELSE rounds[p]]

\* The count of generateSubmissionRef.
RefCount == Cardinality({p \in Listings : ref[p] # 0})
-----------------------------------------------------------------------------
ReviewInit ==
  /\ onboarding = [p \in Listings |-> "absent"]
  /\ owned = {}
  /\ draft = [p \in Listings |-> {}]
  /\ legal = {}
  /\ papers = {}
  /\ ref = [p \in Listings |-> 0]
  /\ submissions = [p \in Listings |-> 0]
  /\ rooms = [p \in Listings |-> 0]
  /\ photos = [p \in Listings |-> 0]
  /\ revisions = [p \in Listings |-> 0]
  /\ rounds = [p \in Listings |-> 0]
  /\ logged = [p \in Listings |-> {}]
  /\ work = [q \in OwnerRequests |-> Rest]
  /\ moderation = [m \in Moderations |-> Rest]
  /\ crossed = {}
  /\ contested = {}
  /\ cut = {}

\* createDraft inserts the property ...
CreateDraft(q, p) ==
  /\ work[q] = Rest
  /\ onboarding[p] = "absent"
  /\ onboarding' = [onboarding EXCEPT ![p] = "draft"]
  /\ work' = [work EXCEPT ![q] = [stage |-> "created", listing |-> p]]
  /\ UNCHANGED <<draft, filedVars, ref, submissions, rooms, photos, roundVars,
                 moderation, historyVars>>

\* ... and then the role, without which no owner can open it.
CreateOwnerRole(q) ==
  /\ work[q].stage = "created"
  /\ owned' = owned \cup {work[q].listing}
  /\ work' = [work EXCEPT ![q] = Rest]
  /\ UNCHANGED <<onboarding, draft, legal, papers, ref, submissions, rooms, photos,
                 roundVars, moderation, historyVars>>

-----------------------------------------------------------------------------
\* saveStep up to its checks.
SaveRead(q, p, k) ==
  /\ work[q] = Rest
  /\ p \in owned
  /\ Editable(p)
  /\ work' = [work EXCEPT ![q] =
       [stage |-> "save", listing |-> p, step |-> k, seen |-> draft[p]]]
  /\ UNCHANGED <<listingVars, roundVars, moderation, historyVars>>

\* Its update: the draft that was read and the step ...
SaveDraft(q) ==
  LET r == work[q] IN
  /\ r.stage = "save"
  /\ r.step \in Steps
  /\ draft' = [draft EXCEPT ![r.listing] = r.seen \cup {r.step}]
  /\ work' = [work EXCEPT ![q] = Rest]
  /\ UNCHANGED <<onboarding, filedVars, ref, submissions, rooms, photos, roundVars,
                 moderation, historyVars>>

\* ... or, with step 5, an upsert of the compliance row ...
SaveLegal(q) ==
  LET r == work[q] IN
  /\ r.stage = "save"
  /\ r.step = LegalStep
  /\ legal' = legal \cup {r.listing}
  /\ work' = [work EXCEPT ![q] = [stage |-> "papers", listing |-> r.listing]]
  /\ UNCHANGED <<onboarding, owned, draft, papers, ref, submissions, rooms, photos,
                 roundVars, moderation, historyVars>>

\* ... and the replacement of the documents, a transaction of its own.
ReplaceDocuments(q) ==
  /\ work[q].stage = "papers"
  /\ papers' = papers \cup {work[q].listing}
  /\ work' = [work EXCEPT ![q] = Rest]
  /\ UNCHANGED <<onboarding, owned, draft, legal, ref, submissions, rooms, photos,
                 roundVars, moderation, historyVars>>

\* A submission of p is under way.
Begin(q, p, stage) ==
  /\ work[q] = Rest
  /\ p \in owned
  /\ AllSaved(p)
  /\ submissions[p] < MaxSubmissions                                 \* bound
  /\ work' = [work EXCEPT ![q] = [stage |-> stage, listing |-> p]]
  /\ crossed' = IF \E other \in OwnerRequests : Submits(other, p)
                  THEN crossed \cup {p} ELSE crossed
  /\ UNCHANGED <<listingVars, roundVars, moderation, contested, cut>>

\* submit up to its checks.
SubmitRead(q, p) == onboarding[p] = "draft" /\ Begin(q, p, "first")

\* revise up to its checks.
ReviseRead(q, p) == onboarding[p] = "needs_revision" /\ Begin(q, p, "again")

\* generateSubmissionRef: one more than there are.
NumberRead(q) ==
  /\ work[q].stage = "first"
  /\ work' = [work EXCEPT ![q] =
       [stage |-> "numbered", listing |-> work[q].listing, number |-> RefCount + 1]]
  /\ UNCHANGED <<listingVars, roundVars, moderation, historyVars>>

\* The update of the property: under review, its draft gone.
Submitted(q, p) ==
  /\ submissions[p] < MaxSubmissions                                 \* bound
  /\ onboarding' = [onboarding EXCEPT ![p] = "pending_review"]
  /\ draft' = [draft EXCEPT ![p] = {}]
  /\ submissions' = [submissions EXCEPT ![p] = @ + 1]
  /\ work' = [work EXCEPT ![q] =
       [stage |-> "saved", listing |-> p, number |-> submissions[p] + 1]]

\* MUTANT: the reference has no unique index.
SubmitWriteTwice(q) ==
  LET p == work[q].listing IN
  /\ work[q].stage = "numbered"
  /\ Submitted(q, p)
  /\ ref' = [ref EXCEPT ![p] = work[q].number]
  /\ UNCHANGED <<filedVars, rooms, photos, roundVars, moderation, historyVars>>

\* submit's update, which the unique index refuses when another property has the
\* reference: a 500 that changes nothing.
SubmitWrite(q) ==
  LET p == work[q].listing
      n == work[q].number IN
  /\ work[q].stage = "numbered"
  /\ \/ /\ \A other \in Listings \ {p} : ref[other] # n
        /\ Submitted(q, p)
        /\ ref' = [ref EXCEPT ![p] = n]
     \/ /\ \E other \in Listings \ {p} : ref[other] = n
        /\ work' = [work EXCEPT ![q] = Rest]
        /\ UNCHANGED <<onboarding, draft, ref, submissions>>
  /\ UNCHANGED <<filedVars, rooms, photos, roundVars, moderation, historyVars>>

\* revise's update, which keeps the reference.
ReviseWrite(q) ==
  /\ work[q].stage = "again"
  /\ Submitted(q, work[q].listing)
  /\ UNCHANGED <<filedVars, ref, rooms, photos, roundVars, moderation, historyVars>>

\* MUTANT: the photos are left for the next submission.
ReplaceRoomsOnly(q) ==
  /\ work[q].stage = "saved"
  /\ rooms' = [rooms EXCEPT ![work[q].listing] = work[q].number]
  /\ work' = [work EXCEPT ![q] = Rest]
  /\ UNCHANGED <<onboarding, draft, filedVars, ref, submissions, photos, roundVars,
                 moderation, historyVars>>

\* replaceRoomTypes, a transaction of its own ...
ReplaceRoomTypes(q) ==
  /\ work[q].stage = "saved"
  /\ rooms' = [rooms EXCEPT ![work[q].listing] = work[q].number]
  /\ work' = [work EXCEPT ![q].stage = "furnished"]
  /\ UNCHANGED <<onboarding, draft, filedVars, ref, submissions, photos, roundVars,
                 moderation, historyVars>>

\* ... and replacePhotos, another.
ReplacePhotos(q) ==
  /\ work[q].stage = "furnished"
  /\ photos' = [photos EXCEPT ![work[q].listing] = work[q].number]
  /\ work' = [work EXCEPT ![q] = Rest]
  /\ UNCHANGED <<onboarding, draft, filedVars, ref, submissions, rooms, roundVars,
                 moderation, historyVars>>

\* A statement fails or the process ends in the middle of a request.
OwnerStop(q) ==
  /\ work[q] # Rest
  /\ cut' = IF work[q].stage \in {"saved", "furnished"}
              THEN cut \cup {work[q].listing} ELSE cut
  /\ work' = [work EXCEPT ![q] = Rest]
  /\ UNCHANGED <<listingVars, roundVars, moderation, crossed, contested>>

-----------------------------------------------------------------------------
\* MUTANT: an administrator decides whatever was submitted.
ModerateReadSubmitted(m, p, verdict) ==
  /\ moderation[m] = Rest
  /\ onboarding[p] \notin {"absent", "draft"}
  /\ moderation' = [moderation EXCEPT ![m] =
       [stage |-> "read", listing |-> p, verdict |-> verdict, seen |-> revisions[p]]]
  /\ contested' = IF \E other \in Moderations : Moderates(other, p)
                    THEN contested \cup {p} ELSE contested
  /\ UNCHANGED <<listingVars, roundVars, work, crossed, cut>>

\* approve, reject and requestRevision up to assertPendingReview.
ModerateRead(m, p, verdict) ==
  /\ moderation[m] = Rest
  /\ onboarding[p] = "pending_review"
  /\ moderation' = [moderation EXCEPT ![m] =
       [stage |-> "read", listing |-> p, verdict |-> verdict, seen |-> revisions[p]]]
  /\ contested' = IF \E other \in Moderations : Moderates(other, p)
                    THEN contested \cup {p} ELSE contested
  /\ UNCHANGED <<listingVars, roundVars, work, crossed, cut>>

\* The update of approve and of reject ...
Decide(m) ==
  LET r == moderation[m] IN
  /\ r.stage = "read"
  /\ r.verdict \in {"approved", "rejected"}
  /\ onboarding' = [onboarding EXCEPT ![r.listing] = r.verdict]
  /\ moderation' = [moderation EXCEPT ![m] =
       [stage |-> "decided", listing |-> r.listing, verdict |-> r.verdict]]
  /\ UNCHANGED <<draft, filedVars, ref, submissions, rooms, photos, roundVars, work,
                 historyVars>>

\* ... and then its row of the log.
DecideLog(m) ==
  /\ moderation[m].stage = "decided"
  /\ logged' = [logged EXCEPT ![moderation[m].listing] = @ \cup {moderation[m].verdict}]
  /\ moderation' = [moderation EXCEPT ![m] = Rest]
  /\ UNCHANGED <<listingVars, revisions, rounds, work, historyVars>>

\* requestRevision writes the log first ...
RevisionLog(m) ==
  LET r == moderation[m] IN
  /\ r.stage = "read"
  /\ r.verdict = "needs_revision"
  /\ logged' = [logged EXCEPT ![r.listing] = @ \cup {r.verdict}]
  /\ moderation' = [moderation EXCEPT ![m].stage = "logged"]
  /\ UNCHANGED <<listingVars, revisions, rounds, work, historyVars>>

\* MUTANT: the cap is the number of the request that is turned down.
RevisionWriteEarly(m) ==
  LET r == moderation[m] IN
  /\ r.stage = "logged"
  /\ \/ /\ r.seen + 1 >= RevisionCap
        /\ onboarding' = [onboarding EXCEPT ![r.listing] = "escalated"]
        /\ UNCHANGED <<revisions, rounds>>
     \/ /\ r.seen + 1 < RevisionCap
        /\ onboarding' = [onboarding EXCEPT ![r.listing] = "needs_revision"]
        /\ revisions' = [revisions EXCEPT ![r.listing] = r.seen + 1]
        /\ rounds' = [rounds EXCEPT ![r.listing] = @ + 1]
  /\ moderation' = [moderation EXCEPT ![m] = Rest]
  /\ UNCHANGED <<draft, filedVars, ref, submissions, rooms, photos, logged, work,
                 historyVars>>

\* ... and then updates the property with the count and the notes it read, or
\* escalates it when the cap is reached.
RevisionWrite(m) ==
  LET r == moderation[m] IN
  /\ r.stage = "logged"
  /\ \/ /\ r.seen + 1 > RevisionCap
        /\ onboarding' = [onboarding EXCEPT ![r.listing] = "escalated"]
        /\ UNCHANGED <<revisions, rounds>>
     \/ /\ r.seen + 1 <= RevisionCap
        /\ onboarding' = [onboarding EXCEPT ![r.listing] = "needs_revision"]
        /\ revisions' = [revisions EXCEPT ![r.listing] = r.seen + 1]
        /\ rounds' = [rounds EXCEPT ![r.listing] = @ + 1]
  /\ moderation' = [moderation EXCEPT ![m] = Rest]
  /\ UNCHANGED <<draft, filedVars, ref, submissions, rooms, photos, logged, work,
                 historyVars>>

ModerationStop(m) ==
  /\ moderation[m] # Rest
  /\ moderation' = [moderation EXCEPT ![m] = Rest]
  /\ UNCHANGED <<listingVars, roundVars, work, historyVars>>

ReviewNext ==
  \/ \E q \in OwnerRequests :
       \/ \E p \in Listings :
            \/ CreateDraft(q, p)
            \/ \E k \in Steps \cup {LegalStep} : SaveRead(q, p, k)
            \/ SubmitRead(q, p)
            \/ ReviseRead(q, p)
       \/ CreateOwnerRole(q) \/ SaveDraft(q) \/ SaveLegal(q) \/ ReplaceDocuments(q)
       \/ NumberRead(q) \/ SubmitWrite(q)
       \/ ReviseWrite(q) \/ ReplaceRoomTypes(q) \/ ReplacePhotos(q) \/ OwnerStop(q)
  \/ \E m \in Moderations :
       \/ \E p \in Listings, verdict \in Verdicts : ModerateRead(m, p, verdict)
       \/ Decide(m) \/ DecideLog(m) \/ RevisionLog(m) \/ RevisionWrite(m)
       \/ ModerationStop(m)

ReviewSpec == ReviewInit /\ [][ReviewNext]_reviewVars

-----------------------------------------------------------------------------
\* Properties.

\* Every variable has its type.
ReviewTypeOK ==
  /\ onboarding \in [Listings -> OnboardingStatus]
  /\ draft \in [Listings -> SUBSET Steps]
  /\ owned \in SUBSET Listings
  /\ legal \in SUBSET Listings
  /\ papers \in SUBSET Listings
  /\ ref \in [Listings -> Nat]
  /\ submissions \in [Listings -> 0 .. MaxSubmissions]
  /\ rooms \in [Listings -> Nat]
  /\ photos \in [Listings -> Nat]
  /\ revisions \in [Listings -> Nat]
  /\ rounds \in [Listings -> Nat]
  /\ logged \in [Listings -> SUBSET Verdicts]
  /\ work \in [OwnerRequests -> Work \cup {Rest}]
  /\ moderation \in [Moderations -> Moderation \cup {Rest}]
  /\ crossed \in SUBSET Listings
  /\ contested \in SUBSET Listings
  /\ cut \in SUBSET Listings

\* What administrators review and guests book is one submission: saves and decisions
\* that race it never leave a property with the columns of one submission and the
\* rooms or photos of another.  Two submissions at once, and a process that ends
\* between the statements, are the ways there are.
ListingIsOneSubmission ==
  \A p \in Listings :
    \/ rooms[p] = submissions[p] /\ photos[p] = submissions[p]
    \/ p \in crossed \cup cut
    \/ \E q \in OwnerRequests :
         work[q].stage \in {"saved", "furnished"} /\ work[q].listing = p

\* An owner is asked for at most three revisions and a property is escalated only
\* after the third, whatever its owner submits meanwhile; when two administrators
\* moderate one property at once, revisionCount still respects the cap.
RevisionsCapped ==
  \A p \in Listings :
    /\ revisions[p] <= RevisionCap
    /\ p \notin contested =>
         /\ rounds[p] = revisions[p]
         /\ onboarding[p] = "escalated" => rounds[p] = RevisionCap

\* Owners, administrators and stopped processes together move a property only as the
\* platform promises: saves that are late, an owner who resubmits while a moderation's
\* log row is still to be written, and a moderation that stopped half-way make no
\* other move, and every revision the owner is asked for is counted against the cap.
ImplementsPropertyStatus == PropertyMachine!Spec

\* As long as no property is submitted twice at once, the references are numbered
\* through, whoever raced for one and lost: what generateSubmissionRef counts is what
\* has been given out.
ReferencesNumbered ==
  crossed = {} => {ref[p] : p \in Listings} \ {0} = 1 .. RefCount

\* The reference that the next submission would get is free, so that a collision is
\* over when its caller tries again.
NextReferenceFree == \A p \in Listings : ref[p] # RefCount + 1
=============================================================================
