------------------------------- MODULE Reviews -------------------------------
(***************************************************************************)
(* The reviews of one property and the rating that its row keeps of them.  *)
(* A job opens a review for each completed booking and another removes it  *)
(* when the guest has not written it in time; guests report, the owner     *)
(* flags and answers, administrators publish, remove and delete.  Every    *)
(* handler reads the review, checks its status and updates it by its id    *)
(* alone; some of them then aggregate the published reviews and write the  *)
(* property's rating.                                                      *)
(***************************************************************************)
EXTENDS Integers, FiniteSets

CONSTANTS
  Trips,           \* completed bookings of the property, each with one review
  Tasks,           \* requests that can be in flight
  Expirers,        \* runs of the expiry job that can be in flight
  HideThreshold,   \* GUEST_REPORT_HIDE_THRESHOLD
  MaxReports       \* bound: reports of one review

ASSUME ReviewsAssumption ==
  /\ HideThreshold \in Nat
  /\ MaxReports \in Nat

VARIABLES
  written,     \* written[t]: Review.status, or none when there is no row
  window,      \* window[t]: soon before checkout + 2 h, over after checkout + 74 h
  submittedAt, \* reviews whose submittedAt is set
  reports,     \* reports[t]: guests' flags
  ownerFlags,  \* reviews the owner has flagged
  replied,     \* reviews with an ownerReply
  rating,      \* the reviews the property's rating is the average of
  task,        \* task[c]: the request c
  expiring,    \* expiring[j]: what the run j of the expiry job still has to remove
  takenDown,   \* history: reviews an administrator removed
  misflagged,  \* history: reviews the owner flagged when they were not published
  late,        \* history: reviews whose submission was in flight when they expired
  blurred      \* history: two recalculations overlapped, or one stopped

rowVars == <<written, submittedAt>>
flagVars == <<reports, ownerFlags>>
marksVars == <<takenDown, misflagged, late>>
reviewsVars ==
  <<rowVars, window, flagVars, replied, rating, task, expiring, marksVars, blurred>>

Waiting == [kind |-> "waiting"]

\* The kinds name what a request has checked and is about to do.  delete: whether
\* the review was published when it was read.  rating: what was aggregated.
Task ==
  [kind : {"submit", "report", "reported", "flag", "flagged", "moderate", "reply"},
   trip : Trips]
  \cup [kind : {"delete"}, trip : Trips, published : BOOLEAN]
  \cup [kind : {"recalculate"}]
  \cup [kind : {"rating"}, seen : SUBSET Trips]

Published == {t \in Trips : written[t] = "published"}

Start(c, r) == task[c] = Waiting /\ task' = [task EXCEPT ![c] = r]

Continue(c, r) == task' = [task EXCEPT ![c] = r]

Finish(c) == Continue(c, Waiting)

Recalculate(c) == Continue(c, [kind |-> "recalculate"])
-----------------------------------------------------------------------------
ReviewsInit ==
  /\ written = [t \in Trips |-> "none"]
  /\ window = [t \in Trips |-> "soon"]
  /\ submittedAt = {}
  /\ reports = [t \in Trips |-> 0]
  /\ ownerFlags = {}
  /\ replied = {}
  /\ rating = {}
  /\ task = [c \in Tasks |-> Waiting]
  /\ expiring = [j \in Expirers |-> {}]
  /\ takenDown = {}
  /\ misflagged = {}
  /\ late = {}
  /\ blurred = FALSE

\* Two hours, and then 74 hours, after the check-out.
TimePasses(t) ==
  /\ window[t] # "over"
  /\ window' = [window EXCEPT ![t] = IF @ = "soon" THEN "open" ELSE "over"]
  /\ UNCHANGED <<rowVars, flagVars, replied, rating, task, expiring, marksVars,
                 blurred>>

\* openReviewWindows: ON CONFLICT DO NOTHING makes up for its earlier SELECT.
OpenWindow(t) ==
  /\ written[t] = "none"
  /\ window[t] # "soon"
  /\ written' = [written EXCEPT ![t] = "pending"]
  /\ UNCHANGED <<submittedAt, window, flagVars, replied, rating, task, expiring,
                 marksVars, blurred>>

-----------------------------------------------------------------------------
\* submitReview up to the checks of the window.  No status is checked: a review that
\* was flagged or removed before it was written may still be.
SubmitCheck(c, t) ==
  /\ written[t] # "none"
  /\ t \notin submittedAt
  /\ window[t] # "over"
  /\ Start(c, [kind |-> "submit", trip |-> t])
  /\ UNCHANGED <<rowVars, window, flagVars, replied, rating, expiring, marksVars,
                 blurred>>

\* What hasPII and hasProfanity say of a text.
Clean == BOOLEAN

\* Its update.  A text with personal data is flagged: the row of ReviewFlag that
\* should follow has "system" in a column of UUIDs, and the request fails there.
SubmitReview(c, clean) ==
  LET t == task[c].trip IN
  /\ task[c].kind = "submit"
  /\ submittedAt' = submittedAt \cup {t}
  /\ written' = [written EXCEPT ![t] = IF clean THEN "published" ELSE "flagged"]
  /\ IF clean THEN Recalculate(c) ELSE Finish(c)
  /\ UNCHANGED <<window, flagVars, replied, rating, expiring, marksVars, blurred>>

\* reportReview up to its checks; each report is of another guest.
ReportCheck(c, t) ==
  /\ written[t] = "published"
  /\ reports[t] < MaxReports                                         \* bound
  /\ Start(c, [kind |-> "report", trip |-> t])
  /\ UNCHANGED <<rowVars, window, flagVars, replied, rating, expiring, marksVars,
                 blurred>>

ReportWrite(c) ==
  LET t == task[c].trip IN
  /\ task[c].kind = "report"
  /\ reports[t] < MaxReports                                         \* bound
  /\ reports' = [reports EXCEPT ![t] = @ + 1]
  /\ Continue(c, [kind |-> "reported", trip |-> t])
  /\ UNCHANGED <<rowVars, window, ownerFlags, replied, rating, expiring, marksVars,
                 blurred>>

\* The count of the reports, which only grows, and the update it leads to.
ReportHide(c) ==
  LET t == task[c].trip IN
  /\ task[c].kind = "reported"
  /\ \/ /\ reports[t] >= HideThreshold
        /\ written' = [written EXCEPT ![t] = "flagged"]
        /\ Recalculate(c)
     \/ /\ reports[t] < HideThreshold
        /\ Finish(c)
        /\ UNCHANGED written
  /\ UNCHANGED <<submittedAt, window, flagVars, replied, rating, expiring, marksVars,
                 blurred>>

\* ownerFlag up to its checks: of the owner's earlier flags, not of the status.
\* (Three flags a week, of all the owner's properties: a 429 at any time.)
FlagCheck(c, t) ==
  /\ written[t] # "none"
  /\ t \notin ownerFlags
  /\ Start(c, [kind |-> "flag", trip |-> t])
  /\ UNCHANGED <<rowVars, window, flagVars, replied, rating, expiring, marksVars,
                 blurred>>

\* Its flag ...
FlagCreate(c) ==
  /\ task[c].kind = "flag"
  /\ ownerFlags' = ownerFlags \cup {task[c].trip}
  /\ Continue(c, [kind |-> "flagged", trip |-> task[c].trip])
  /\ UNCHANGED <<rowVars, window, reports, replied, rating, expiring, marksVars,
                 blurred>>

\* ... and its update, after which nothing is recalculated.
FlagWrite(c) ==
  LET t == task[c].trip IN
  /\ task[c].kind = "flagged"
  /\ written' = [written EXCEPT ![t] = "flagged"]
  /\ misflagged' = IF written[t] = "published" THEN misflagged ELSE misflagged \cup {t}
  /\ Finish(c)
  /\ UNCHANGED <<submittedAt, window, flagVars, replied, rating, expiring, takenDown,
                 late, blurred>>

\* ownerReply up to its checks; the 96 hours may be over at any time.
ReplyCheck(c, t) ==
  /\ written[t] = "published"
  /\ t \notin replied
  /\ Start(c, [kind |-> "reply", trip |-> t])
  /\ UNCHANGED <<rowVars, window, flagVars, replied, rating, expiring, marksVars,
                 blurred>>

ReplyWrite(c) ==
  /\ task[c].kind = "reply"
  /\ replied' = replied \cup {task[c].trip}
  /\ Finish(c)
  /\ UNCHANGED <<rowVars, window, flagVars, rating, expiring, marksVars, blurred>>

-----------------------------------------------------------------------------
\* MUTANT: an administrator moderates a review whatever its status.
ModerateAnyStatus(c, t) ==
  /\ written[t] # "none"
  /\ Start(c, [kind |-> "moderate", trip |-> t])
  /\ UNCHANGED <<rowVars, window, flagVars, replied, rating, expiring, marksVars,
                 blurred>>

\* adminModerate up to its check.
ModerateCheck(c, t) ==
  /\ written[t] = "flagged"
  /\ Start(c, [kind |-> "moderate", trip |-> t])
  /\ UNCHANGED <<rowVars, window, flagVars, replied, rating, expiring, marksVars,
                 blurred>>

\* MUTANT: publishing a flagged review again does not count it again.
ModerateWriteUncounted(c, publish) ==
  LET t == task[c].trip IN
  /\ task[c].kind = "moderate"
  /\ written' = [written EXCEPT ![t] = IF publish THEN "published" ELSE "removed"]
  /\ takenDown' = IF publish THEN takenDown ELSE takenDown \cup {t}
  /\ Finish(c)
  /\ UNCHANGED <<submittedAt, window, flagVars, replied, rating, expiring, misflagged,
                 late, blurred>>

\* Its update; only a publication is followed by a recalculation.
ModerateWrite(c, publish) ==
  LET t == task[c].trip IN
  /\ task[c].kind = "moderate"
  /\ written' = [written EXCEPT ![t] = IF publish THEN "published" ELSE "removed"]
  /\ takenDown' = IF publish THEN takenDown ELSE takenDown \cup {t}
  /\ IF publish THEN Recalculate(c) ELSE Finish(c)
  /\ UNCHANGED <<submittedAt, window, flagVars, replied, rating, expiring, misflagged,
                 late, blurred>>

\* adminDeleteReview reads the review ...
DeleteRead(c, t) ==
  /\ written[t] # "none"
  /\ Start(c, [kind |-> "delete", trip |-> t, published |-> written[t] = "published"])
  /\ UNCHANGED <<rowVars, window, flagVars, replied, rating, expiring, marksVars,
                 blurred>>

\* ... and removes it, whatever it has become.
DeleteWrite(c) ==
  LET r == task[c] IN
  /\ r.kind = "delete"
  /\ written' = [written EXCEPT ![r.trip] = "removed"]
  /\ takenDown' = takenDown \cup {r.trip}
  /\ IF r.published THEN Recalculate(c) ELSE Finish(c)
  /\ UNCHANGED <<submittedAt, window, flagVars, replied, rating, expiring, misflagged,
                 late, blurred>>

-----------------------------------------------------------------------------
\* recalculatePropertyRating aggregates ...
Aggregate(c) ==
  /\ task[c].kind = "recalculate"
  /\ Continue(c, [kind |-> "rating", seen |-> Published])
  /\ blurred' = (blurred \/ \E d \in Tasks : task[d].kind = "rating")
  /\ UNCHANGED <<rowVars, window, flagVars, replied, rating, expiring, marksVars>>

\* ... and writes what it found.
WriteRating(c) ==
  /\ task[c].kind = "rating"
  /\ rating' = task[c].seen
  /\ Finish(c)
  /\ UNCHANGED <<rowVars, window, flagVars, replied, expiring, marksVars, blurred>>

\* A statement fails or the process ends in the middle of a request.
TaskStop(c) ==
  /\ task[c] # Waiting
  /\ blurred' = (blurred \/ task[c].kind \in {"recalculate", "rating"})
  /\ Finish(c)
  /\ UNCHANGED <<rowVars, window, flagVars, replied, rating, expiring, marksVars>>

-----------------------------------------------------------------------------
\* MUTANT: submittedAt and the status are not looked at.
ExpireFindAll(j) ==
  LET found == {t \in Trips : written[t] # "none" /\ window[t] = "over"} IN
  /\ expiring[j] = {}
  /\ found # {}
  /\ expiring' = [expiring EXCEPT ![j] = found]
  /\ late' = late \cup
       {t \in found : \E c \in Tasks : task[c].kind = "submit" /\ task[c].trip = t}
  /\ UNCHANGED <<rowVars, window, flagVars, replied, rating, task, takenDown,
                 misflagged, blurred>>

\* expireReviews finds what was not written in time ...
ExpireFind(j) ==
  LET found == {t \in Trips :
                  written[t] = "pending" /\ window[t] = "over" /\ t \notin submittedAt}
  IN
  /\ expiring[j] = {}
  /\ found # {}
  /\ expiring' = [expiring EXCEPT ![j] = found]
  /\ late' = late \cup
       {t \in found : \E c \in Tasks : task[c].kind = "submit" /\ task[c].trip = t}
  /\ UNCHANGED <<rowVars, window, flagVars, replied, rating, task, takenDown,
                 misflagged, blurred>>

\* ... and removes one after the other.
ExpireWrite(j, t) ==
  /\ t \in expiring[j]
  /\ written' = [written EXCEPT ![t] = "removed"]
  /\ expiring' = [expiring EXCEPT ![j] = @ \ {t}]
  /\ UNCHANGED <<submittedAt, window, flagVars, replied, rating, task, marksVars,
                 blurred>>

\* The process ends; the next run finds what is left.
ExpireStop(j) ==
  /\ expiring[j] # {}
  /\ expiring' = [expiring EXCEPT ![j] = {}]
  /\ UNCHANGED <<rowVars, window, flagVars, replied, rating, task, marksVars, blurred>>

ReviewsNext ==
  \/ \E t \in Trips :
       \/ TimePasses(t)
       \/ OpenWindow(t)
       \/ \E j \in Expirers : ExpireWrite(j, t)
       \/ \E c \in Tasks :
            SubmitCheck(c, t) \/ ReportCheck(c, t) \/ FlagCheck(c, t)
              \/ ReplyCheck(c, t) \/ ModerateCheck(c, t) \/ DeleteRead(c, t)
  \/ \E c \in Tasks :
       \/ \E clean \in Clean : SubmitReview(c, clean)
       \/ \E publish \in BOOLEAN : ModerateWrite(c, publish)
       \/ ReportWrite(c) \/ ReportHide(c) \/ FlagCreate(c) \/ FlagWrite(c)
       \/ ReplyWrite(c) \/ DeleteWrite(c) \/ Aggregate(c) \/ WriteRating(c)
       \/ TaskStop(c)
  \/ \E j \in Expirers : ExpireFind(j) \/ ExpireStop(j)

ReviewsSpec == ReviewsInit /\ [][ReviewsNext]_reviewsVars

-----------------------------------------------------------------------------
\* Properties.

\* Every variable has its type.
ReviewsTypeOK ==
  /\ written \in [Trips -> {"none", "pending", "published", "flagged", "removed"}]
  /\ window \in [Trips -> {"soon", "open", "over"}]
  /\ submittedAt \in SUBSET Trips
  /\ reports \in [Trips -> Nat]
  /\ ownerFlags \in SUBSET Trips
  /\ replied \in SUBSET Trips
  /\ rating \in SUBSET Trips
  /\ task \in [Tasks -> Task \cup {Waiting}]
  /\ expiring \in [Expirers -> SUBSET Trips]
  /\ takenDown \in SUBSET Trips
  /\ misflagged \in SUBSET Trips
  /\ late \in SUBSET Trips
  /\ blurred \in BOOLEAN

Recounts(c, t) ==
  \/ task[c].kind = "recalculate"
  \/ task[c].kind = "rating" /\ t \in task[c].seen

\* Whichever way a review came to be published, the property's rating counts it or a
\* request in flight is about to; only overlapping recalculations, and one that
\* stopped, lose it.
PublishedIsCounted ==
  \A t \in Published : t \in rating \/ blurred \/ \E c \in Tasks : Recounts(c, t)

\* A review its guest has written is removed by administrators alone; the expiry job
\* takes one only when its submission was under way as its time ran out.
WrittenIsKept ==
  \A t \in submittedAt : written[t] = "removed" => t \in takenDown \cup late

\* A review is published because its guest has written it; the one way around that
\* is a review its owner flagged before it was published.
PublishedWasWritten == Published \subseteq submittedAt \cup misflagged
=============================================================================
