---------------------------- MODULE Reviews_proofs ----------------------------
(***************************************************************************)
(* Proofs about Reviews, for any bookings, requests and runs of the expiry *)
(* job, and about the composition that MCBackOffice makes of it with the   *)
(* jobs of Disputes and Sessions.                                          *)
(***************************************************************************)
EXTENDS MCBackOffice, TLAPS

-----------------------------------------------------------------------------
\* What a request in flight remembers of the review it will write to.

Vouched == submittedAt \cup misflagged

\* A review that readers see, or that administrators may publish, was written or was
\* flagged by its owner; so was one that a request found in that state.
VouchedInv ==
  /\ \A t \in Trips : written[t] \in {"published", "flagged"} => t \in Vouched
  /\ \A c \in Tasks :
       task[c].kind \in {"report", "reported", "moderate"} => task[c].trip \in Vouched

\* What a run of the expiry job is to remove can no longer be written, but for the
\* submissions that were in flight when it was found.
ExpiryInv ==
  /\ \A t \in submittedAt : written[t] = "removed" => t \in takenDown \cup late
  /\ \A j \in Expirers : \A t \in expiring[j] :
       /\ window[t] = "over"
       /\ t \in submittedAt => t \in late
       /\ \A c \in Tasks : task[c].kind = "submit" /\ task[c].trip = t => t \in late

\* While no two recalculations overlapped and none stopped, one at most is about to
\* write, and what was published since it aggregated is about to be aggregated.
CountInv ==
  blurred \/
    /\ \A c, d \in Tasks : task[c].kind = "rating" /\ task[d].kind = "rating" => c = d
    /\ \A c \in Tasks : task[c].kind = "rating" =>
         \A t \in Published \ task[c].seen :
           \E d \in Tasks : task[d].kind = "recalculate"
    /\ PublishedIsCounted

ReviewsInv == ReviewsTypeOK /\ VouchedInv /\ ExpiryInv /\ CountInv

LEMMA ReviewsInitInv == ReviewsInit => ReviewsInv
<1> SUFFICES ASSUME ReviewsInit PROVE ReviewsInv
  OBVIOUS
<1>1. ReviewsTypeOK
  BY DEF ReviewsInit, ReviewsTypeOK
<1>2. \A c \in Tasks : task[c].kind = "waiting"
  BY DEF ReviewsInit, Waiting
<1>3. VouchedInv /\ ExpiryInv
  BY <1>2 DEF ReviewsInit, VouchedInv, ExpiryInv
<1>4. CountInv
  BY <1>2 DEF ReviewsInit, CountInv, Published, PublishedIsCounted
<1> QED
  BY <1>1, <1>3, <1>4 DEF ReviewsInv

\* What a request remembers.
LEMMA TaskFields ==
  ASSUME ReviewsTypeOK, NEW c \in Tasks
  PROVE  /\ task[c] \in Task \cup {Waiting}
         /\ Waiting.kind = "waiting"
         /\ task[c].kind \in {"submit", "report", "reported", "flag", "flagged", "moderate",
                              "reply", "delete"} => task[c].trip \in Trips
         /\ task[c].kind = "delete" => task[c].published \in BOOLEAN
         /\ task[c].kind = "rating" => task[c].seen \in SUBSET Trips
         /\ task[c].kind = "waiting" => task[c] = Waiting
BY DEF ReviewsTypeOK, Task, Waiting

\* The records that requests go on with.
LEMMA TaskRecords ==
  /\ \A t \in Trips :
       /\ \A k \in {"submit", "report", "reported", "flag", "flagged", "moderate", "reply"} :
            [kind |-> k, trip |-> t] \in Task
       /\ \A b \in BOOLEAN : [kind |-> "delete", trip |-> t, published |-> b] \in Task
  /\ [kind |-> "recalculate"] \in Task
  /\ \A s \in SUBSET Trips : [kind |-> "rating", seen |-> s] \in Task
BY DEF Task

\* One step of a request, and what it finds and leaves in the request.
Request(c) ==
  \/ \E t \in Trips : SubmitCheck(c, t) \/ ReportCheck(c, t) \/ FlagCheck(c, t)
                        \/ ReplyCheck(c, t) \/ ModerateCheck(c, t) \/ DeleteRead(c, t)
  \/ \E clean \in Clean : SubmitReview(c, clean)
  \/ \E publish \in BOOLEAN : ModerateWrite(c, publish)
  \/ ReportWrite(c) \/ ReportHide(c) \/ FlagCreate(c) \/ FlagWrite(c)
  \/ ReplyWrite(c) \/ DeleteWrite(c) \/ Aggregate(c) \/ WriteRating(c)
  \/ TaskStop(c)

Expiry(j) == ExpireFind(j) \/ ExpireStop(j) \/ \E t \in Trips : ExpireWrite(j, t)

LEMMA ReviewsSteps ==
  ReviewsNext <=> \/ \E t \in Trips : TimePasses(t) \/ OpenWindow(t)
                  \/ \E c \in Tasks : Request(c)
                  \/ \E j \in Expirers : Expiry(j)
BY DEF ReviewsNext, Request, Expiry

LEMMA RequestTask ==
  ASSUME ReviewsTypeOK, NEW c \in Tasks, Request(c)
  PROVE  /\ task'[c] \in Task \cup {Waiting}
         /\ task' = [task EXCEPT ![c] = task'[c]]
<1> USE TaskFields, TaskRecords DEF Start, Continue, Finish, Recalculate
<1>1. ASSUME NEW r \in Task \cup {Waiting}, task' = [task EXCEPT ![c] = r]
      PROVE  /\ task'[c] \in Task \cup {Waiting}
             /\ task' = [task EXCEPT ![c] = task'[c]]
  BY <1>1 DEF ReviewsTypeOK
<1>2. Published \in SUBSET Trips
  BY DEF Published
<1>3. \A t \in Trips : (written[t] = "published") \in BOOLEAN
  OBVIOUS
<1>4. \E r \in Task \cup {Waiting} : task' = [task EXCEPT ![c] = r]
  <2>1. ASSUME NEW t \in Trips,
               SubmitCheck(c, t) \/ ReportCheck(c, t) \/ FlagCheck(c, t)
                 \/ ReplyCheck(c, t) \/ ModerateCheck(c, t) \/ DeleteRead(c, t)
        PROVE  \E r \in Task \cup {Waiting} : task' = [task EXCEPT ![c] = r]
    BY <1>3, <2>1
    DEF SubmitCheck, ReportCheck, FlagCheck, ReplyCheck, ModerateCheck, DeleteRead
  <2>2. ASSUME NEW b \in BOOLEAN, SubmitReview(c, b) \/ ModerateWrite(c, b)
        PROVE  \E r \in Task \cup {Waiting} : task' = [task EXCEPT ![c] = r]
    BY <2>2 DEF SubmitReview, ModerateWrite
  <2>3. ASSUME ReportWrite(c) \/ ReportHide(c) \/ FlagCreate(c) \/ FlagWrite(c)
        PROVE  \E r \in Task \cup {Waiting} : task' = [task EXCEPT ![c] = r]
    BY <2>3 DEF ReportWrite, ReportHide, FlagCreate, FlagWrite
  <2>4. ASSUME ReplyWrite(c) \/ DeleteWrite(c) \/ Aggregate(c) \/ WriteRating(c) \/ TaskStop(c)
        PROVE  \E r \in Task \cup {Waiting} : task' = [task EXCEPT ![c] = r]
    BY <1>2, <2>4 DEF ReplyWrite, DeleteWrite, Aggregate, WriteRating, TaskStop
  <2> QED
    BY <2>1, <2>2, <2>3, <2>4 DEF Request, Clean
<1> QED
  BY <1>1, <1>4

LEMMA ReviewsTypeNext ==
  ASSUME ReviewsTypeOK, [ReviewsNext]_reviewsVars
  PROVE  ReviewsTypeOK'
<1> USE DEF ReviewsTypeOK, rowVars, flagVars, marksVars
<1>1. ASSUME NEW t \in Trips, TimePasses(t) \/ OpenWindow(t) PROVE ReviewsTypeOK'
  BY <1>1 DEF TimePasses, OpenWindow
<1>2. ASSUME NEW c \in Tasks, Request(c) PROVE ReviewsTypeOK'
  <2>0. /\ task' \in [Tasks -> Task \cup {Waiting}]
        /\ task[c].kind \in {"submit", "report", "reported", "flag", "flagged", "moderate",
                             "reply", "delete"} => task[c].trip \in Trips
        /\ task[c].kind = "rating" => task[c].seen \in SUBSET Trips
    BY <1>2, RequestTask, TaskFields
  <2>1. ASSUME NEW t \in Trips,
               SubmitCheck(c, t) \/ ReportCheck(c, t) \/ FlagCheck(c, t)
                 \/ ReplyCheck(c, t) \/ ModerateCheck(c, t) \/ DeleteRead(c, t)
        PROVE  ReviewsTypeOK'
    BY <2>0, <2>1
    DEF SubmitCheck, ReportCheck, FlagCheck, ReplyCheck, ModerateCheck, DeleteRead
  <2>2. ASSUME NEW b \in BOOLEAN, SubmitReview(c, b) PROVE ReviewsTypeOK'
    BY <2>0, <2>2 DEF SubmitReview
  <2>3. ASSUME NEW b \in BOOLEAN, ModerateWrite(c, b) PROVE ReviewsTypeOK'
    BY <2>0, <2>3 DEF ModerateWrite
  <2>4. ASSUME ReportWrite(c) \/ ReportHide(c) PROVE ReviewsTypeOK'
    BY <2>0, <2>4 DEF ReportWrite, ReportHide
  <2>5. ASSUME FlagCreate(c) \/ FlagWrite(c) PROVE ReviewsTypeOK'
    BY <2>0, <2>5 DEF FlagCreate, FlagWrite
  <2>6. ASSUME ReplyWrite(c) \/ DeleteWrite(c) PROVE ReviewsTypeOK'
    BY <2>0, <2>6 DEF ReplyWrite, DeleteWrite
  <2>7. ASSUME Aggregate(c) \/ WriteRating(c) \/ TaskStop(c) PROVE ReviewsTypeOK'
    BY <2>0, <2>7 DEF Aggregate, WriteRating, TaskStop
  <2> QED
    BY <1>2, <2>1, <2>2, <2>3, <2>4, <2>5, <2>6, <2>7 DEF Request, Clean
<1>3. ASSUME NEW j \in Expirers, Expiry(j) PROVE ReviewsTypeOK'
  BY <1>3 DEF Expiry, ExpireFind, ExpireStop, ExpireWrite
<1>4. CASE UNCHANGED reviewsVars
  BY <1>4 DEF reviewsVars
<1> QED
  BY <1>1, <1>2, <1>3, <1>4, ReviewsSteps

-----------------------------------------------------------------------------
\* Vouched: what the guest has written or the owner flagged stays so.

LEMMA VouchedNext ==
  ASSUME ReviewsTypeOK, VouchedInv, [ReviewsNext]_reviewsVars
  PROVE  VouchedInv'
<1> USE DEF rowVars, flagVars, marksVars
<1>1. ASSUME UNCHANGED <<submittedAt, misflagged, task>>,
             \A t \in Trips : \/ written'[t] = written[t]
                              \/ written'[t] \notin {"published", "flagged"}
      PROVE  VouchedInv'
  BY <1>1 DEF VouchedInv, Vouched
<1>2. ASSUME NEW c \in Tasks,
             task' = [task EXCEPT ![c] = task'[c]],
             Vouched \subseteq Vouched',
             \A t \in Trips : \/ written'[t] = written[t]
                              \/ written'[t] \in {"published", "flagged"} => t \in Vouched',
             task'[c].kind \in {"report", "reported", "moderate"} => task'[c].trip \in Vouched'
      PROVE  VouchedInv'
  <2>1. \A d \in Tasks \ {c} : task'[d] = task[d]
    BY <1>2 DEF ReviewsTypeOK
  <2> QED
    BY <1>2, <2>1 DEF VouchedInv
<1>3. ASSUME NEW t \in Trips, TimePasses(t) \/ OpenWindow(t) PROVE VouchedInv'
  BY <1>1, <1>3 DEF TimePasses, OpenWindow, ReviewsTypeOK
<1>4. ASSUME NEW j \in Expirers, Expiry(j) PROVE VouchedInv'
  BY <1>1, <1>4 DEF Expiry, ExpireFind, ExpireStop, ExpireWrite, ReviewsTypeOK
<1>5. ASSUME NEW c \in Tasks, Request(c) PROVE VouchedInv'
  <2>0. /\ task' = [task EXCEPT ![c] = task'[c]]
        /\ task \in [Tasks -> Task \cup {Waiting}] /\ Waiting.kind = "waiting"
        /\ task[c].kind \in {"submit", "report", "reported", "flag", "flagged", "moderate",
                             "reply", "delete"} => task[c].trip \in Trips
    BY <1>5, RequestTask, TaskFields DEF ReviewsTypeOK
  <2> USE <2>0 DEF Start, Continue, Finish, Recalculate, ReviewsTypeOK
  <2>1. ASSUME NEW t \in Trips,
               SubmitCheck(c, t) \/ FlagCheck(c, t) \/ ReplyCheck(c, t) \/ DeleteRead(c, t)
        PROVE  VouchedInv'
    <3>1. UNCHANGED <<written, submittedAt, misflagged>>
          /\ task'[c].kind \in {"submit", "flag", "reply", "delete"}
      BY <2>1 DEF SubmitCheck, FlagCheck, ReplyCheck, DeleteRead
    <3> QED
      BY <1>2, <3>1 DEF Vouched
  <2>2. ASSUME NEW t \in Trips, ReportCheck(c, t) \/ ModerateCheck(c, t) PROVE VouchedInv'
    <3>1. UNCHANGED <<written, submittedAt, misflagged>>
          /\ task'[c].trip = t /\ written[t] \in {"published", "flagged"}
      BY <2>2 DEF ReportCheck, ModerateCheck
    <3> QED
      BY <1>2, <3>1 DEF Vouched, VouchedInv
  <2>3. ASSUME NEW clean \in BOOLEAN, SubmitReview(c, clean) PROVE VouchedInv'
    <3>1. /\ submittedAt' = submittedAt \cup {task[c].trip} /\ misflagged' = misflagged
          /\ \A t \in Trips \ {task[c].trip} : written'[t] = written[t]
          /\ task'[c].kind \in {"recalculate", "waiting"}
      BY <2>3 DEF SubmitReview
    <3> QED
      BY <1>2, <3>1 DEF Vouched
  <2>4. ASSUME NEW publish \in BOOLEAN, ModerateWrite(c, publish) PROVE VouchedInv'
    <3>1. /\ UNCHANGED <<submittedAt, misflagged>>
          /\ task[c].trip \in Vouched
          /\ \A t \in Trips \ {task[c].trip} : written'[t] = written[t]
          /\ task'[c].kind \in {"recalculate", "waiting"}
      BY <2>4 DEF ModerateWrite, VouchedInv
    <3> QED
      BY <1>2, <3>1 DEF Vouched
  <2>5. CASE ReportWrite(c)
    <3>1. /\ UNCHANGED <<written, submittedAt, misflagged>>
          /\ task[c].trip \in Vouched /\ task'[c].trip = task[c].trip
      BY <2>5 DEF ReportWrite, VouchedInv
    <3> QED
      BY <1>2, <3>1 DEF Vouched
  <2>6. CASE ReportHide(c)
    <3>1. /\ UNCHANGED <<submittedAt, misflagged>>
          /\ task[c].trip \in Vouched
          /\ \A t \in Trips \ {task[c].trip} : written'[t] = written[t]
          /\ task'[c].kind \in {"recalculate", "waiting"}
      BY <2>6 DEF ReportHide, VouchedInv
    <3> QED
      BY <1>2, <3>1 DEF Vouched
  <2>7. CASE FlagWrite(c)
    <3>1. /\ submittedAt' = submittedAt /\ misflagged \subseteq misflagged'
          /\ written[task[c].trip] # "published" => task[c].trip \in misflagged'
          /\ \A t \in Trips \ {task[c].trip} : written'[t] = written[t]
          /\ task'[c].kind = "waiting" /\ task[c].trip \in Trips
      BY <2>7 DEF FlagWrite
    <3> QED
      BY <1>2, <3>1 DEF Vouched, VouchedInv
  <2>8. CASE DeleteWrite(c)
    <3>1. /\ UNCHANGED <<submittedAt, misflagged>>
          /\ written' = [written EXCEPT ![task[c].trip] = "removed"]
          /\ task'[c].kind \in {"recalculate", "waiting"}
      BY <2>8 DEF DeleteWrite
    <3> QED
      BY <1>2, <3>1 DEF Vouched
  <2>9. ASSUME FlagCreate(c) \/ ReplyWrite(c) \/ Aggregate(c) \/ WriteRating(c) \/ TaskStop(c)
        PROVE  VouchedInv'
    <3>1. /\ UNCHANGED <<written, submittedAt, misflagged>>
          /\ task'[c].kind \in {"flagged", "waiting", "rating"}
      BY <2>9 DEF FlagCreate, ReplyWrite, Aggregate, WriteRating, TaskStop
    <3> QED
      BY <1>2, <3>1 DEF Vouched
  <2> QED
    BY <1>5, <2>1, <2>2, <2>3, <2>4, <2>5, <2>6, <2>7, <2>8, <2>9 DEF Request, Clean
<1> QED
  BY <1>1, <1>3, <1>4, <1>5, ReviewsSteps DEF reviewsVars

-----------------------------------------------------------------------------
\* Expiry: no submission begins once the window is over.

LEMMA ExpiryNext ==
  ASSUME ReviewsTypeOK, ExpiryInv, [ReviewsNext]_reviewsVars
  PROVE  ExpiryInv'
<1> USE DEF rowVars, flagVars, marksVars
<1>1. ASSUME UNCHANGED <<written, submittedAt, window, expiring, marksVars>>,
             \A d \in Tasks : task'[d].kind = "submit" =>
               \/ task'[d] = task[d]
               \/ window[task'[d].trip] # "over"
      PROVE  ExpiryInv'
  BY <1>1 DEF ExpiryInv
<1>2. ASSUME NEW t \in Trips, TimePasses(t) PROVE ExpiryInv'
  BY <1>2 DEF TimePasses, ReviewsTypeOK, ExpiryInv
<1>3. ASSUME NEW t \in Trips, OpenWindow(t) PROVE ExpiryInv'
  BY <1>3 DEF OpenWindow, ReviewsTypeOK, ExpiryInv
<1>4. ASSUME NEW j \in Expirers, ExpireFind(j) PROVE ExpiryInv'
  BY <1>4 DEF ExpireFind, ReviewsTypeOK, ExpiryInv
<1>5. ASSUME NEW j \in Expirers, NEW t \in Trips, ExpireWrite(j, t) PROVE ExpiryInv'
  BY <1>5 DEF ExpireWrite, ReviewsTypeOK, ExpiryInv
<1>6. ASSUME NEW j \in Expirers, ExpireStop(j) PROVE ExpiryInv'
  BY <1>6 DEF ExpireStop, ReviewsTypeOK, ExpiryInv
<1>7. ASSUME NEW c \in Tasks, Request(c) PROVE ExpiryInv'
  <2>0. /\ \A d \in Tasks \ {c} : task'[d] = task[d]
        /\ task \in [Tasks -> Task \cup {Waiting}] /\ Waiting.kind = "waiting"
        /\ task[c].kind \in {"submit", "report", "reported", "flag", "flagged", "moderate",
                             "reply", "delete"} => task[c].trip \in Trips
    BY <1>7, RequestTask, TaskFields DEF ReviewsTypeOK
  <2> USE <2>0 DEF Start, Continue, Finish, Recalculate, ReviewsTypeOK
  <2>1. ASSUME NEW t \in Trips, SubmitCheck(c, t) PROVE ExpiryInv'
    BY <1>1, <2>1 DEF SubmitCheck
  <2>2. ASSUME NEW t \in Trips,
               ReportCheck(c, t) \/ FlagCheck(c, t) \/ ReplyCheck(c, t)
                 \/ ModerateCheck(c, t) \/ DeleteRead(c, t)
        PROVE  ExpiryInv'
    BY <1>1, <2>2 DEF ReportCheck, FlagCheck, ReplyCheck, ModerateCheck, DeleteRead
  <2>3. ASSUME ReportWrite(c) \/ FlagCreate(c) \/ ReplyWrite(c) \/ Aggregate(c)
                 \/ WriteRating(c) \/ TaskStop(c)
        PROVE  ExpiryInv'
    BY <1>1, <2>3
    DEF ReportWrite, FlagCreate, ReplyWrite, Aggregate, WriteRating, TaskStop
  <2>4. ASSUME UNCHANGED <<submittedAt, window, expiring, late>>,
               takenDown \subseteq takenDown',
               \A t \in Trips : written'[t] = "removed" =>
                 written[t] = "removed" \/ t \in takenDown',
               task'[c].kind # "submit"
        PROVE  ExpiryInv'
    BY <2>4 DEF ExpiryInv
  <2>5. ASSUME ReportHide(c) \/ FlagWrite(c) \/ DeleteWrite(c) PROVE ExpiryInv'
    BY <2>4, <2>5 DEF ReportHide, FlagWrite, DeleteWrite
  <2>6. ASSUME NEW publish \in BOOLEAN, ModerateWrite(c, publish) PROVE ExpiryInv'
    BY <2>4, <2>6 DEF ModerateWrite
  <2>7. ASSUME NEW clean \in BOOLEAN, SubmitReview(c, clean) PROVE ExpiryInv'
    <3>1. PICK t \in Trips : t = task[c].trip
      BY <2>7 DEF SubmitReview
    <3>2. /\ submittedAt' = submittedAt \cup {t}
          /\ written'[t] # "removed"
          /\ \A l \in Trips \ {t} : written'[l] = written[l]
          /\ UNCHANGED <<window, expiring, takenDown, late>>
          /\ task[c].kind = "submit" /\ task'[c].kind # "submit"
      BY <2>7, <3>1 DEF SubmitReview
    <3> QED
      BY <3>1, <3>2 DEF ExpiryInv
  <2> QED
    BY <1>7, <2>1, <2>2, <2>3, <2>5, <2>6, <2>7 DEF Request, Clean
<1>8. CASE UNCHANGED reviewsVars
  BY <1>1, <1>8 DEF reviewsVars
<1> QED
  BY <1>2, <1>3, <1>4, <1>5, <1>6, <1>7, <1>8, ReviewsSteps DEF Expiry

-----------------------------------------------------------------------------
\* The rating: what is published without being counted is about to be.

LEMMA CountNext ==
  ASSUME ReviewsTypeOK, CountInv, [ReviewsNext]_reviewsVars
  PROVE  CountInv'
<1> USE DEF rowVars, flagVars, marksVars
<1>1. ASSUME UNCHANGED <<rating, task, blurred>>, Published' \subseteq Published
      PROVE  CountInv'
  BY <1>1 DEF CountInv, PublishedIsCounted, Recounts
<1>2. ASSUME NEW t \in Trips, TimePasses(t) \/ OpenWindow(t) PROVE CountInv'
  <2>1. Published' \subseteq Published
    BY <1>2 DEF TimePasses, OpenWindow, Published, ReviewsTypeOK
  <2> QED
    BY <1>1, <1>2, <2>1 DEF TimePasses, OpenWindow
<1>3. ASSUME NEW j \in Expirers, Expiry(j) PROVE CountInv'
  <2>1. Published' \subseteq Published
    BY <1>3 DEF Expiry, ExpireFind, ExpireWrite, ExpireStop, Published, ReviewsTypeOK
  <2> QED
    BY <1>1, <1>3, <2>1 DEF Expiry, ExpireFind, ExpireWrite, ExpireStop
<1>4. ASSUME NEW c \in Tasks, Request(c) PROVE CountInv'
  <2>0. /\ \A d \in Tasks \ {c} : task'[d] = task[d]
        /\ task \in [Tasks -> Task \cup {Waiting}] /\ Waiting.kind = "waiting"
        /\ task[c].kind = "waiting" => task[c] = Waiting
        /\ task[c].kind \in {"submit", "report", "reported", "flag", "flagged", "moderate",
                             "reply", "delete"} => task[c].trip \in Trips
    BY <1>4, RequestTask, TaskFields DEF ReviewsTypeOK
  <2> USE <2>0 DEF Start, Continue, Finish, Recalculate
  <2>1. ASSUME UNCHANGED <<rating, blurred>>,
               task[c].kind \notin {"recalculate", "rating"},
               task'[c].kind # "rating",
               \A t \in Published' : t \in Published \/ task'[c].kind = "recalculate"
        PROVE  CountInv'
    <3> SUFFICES ASSUME ~blurred
                 PROVE  /\ \A a, d \in Tasks :
                             task'[a].kind = "rating" /\ task'[d].kind = "rating" => a = d
                        /\ \A a \in Tasks : task'[a].kind = "rating" =>
                             \A t \in Published' \ task'[a].seen :
                               \E d \in Tasks : task'[d].kind = "recalculate"
                        /\ \A t \in Published' : t \in rating \/ \E d \in Tasks : Recounts(d, t)'
      BY <2>1 DEF CountInv, PublishedIsCounted
    <3>1. \A a, d \in Tasks : task'[a].kind = "rating" /\ task'[d].kind = "rating" => a = d
      BY <2>1 DEF CountInv
    <3>2. ASSUME NEW a \in Tasks, task'[a].kind = "rating",
                 NEW t \in Published' \ task'[a].seen
          PROVE  \E d \in Tasks : task'[d].kind = "recalculate"
      BY <2>1, <3>2 DEF CountInv
    <3>3. ASSUME NEW t \in Published'
          PROVE  t \in rating \/ \E d \in Tasks : Recounts(d, t)'
      BY <2>1, <3>3 DEF CountInv, PublishedIsCounted, Recounts
    <3> QED
      BY <3>1, <3>2, <3>3
  <2>2. ASSUME NEW t \in Trips,
               SubmitCheck(c, t) \/ ReportCheck(c, t) \/ FlagCheck(c, t)
                 \/ ReplyCheck(c, t) \/ ModerateCheck(c, t) \/ DeleteRead(c, t)
        PROVE  CountInv'
    BY <2>1, <2>2
    DEF SubmitCheck, ReportCheck, FlagCheck, ReplyCheck, ModerateCheck, DeleteRead, Published
  <2>3. ASSUME NEW b \in BOOLEAN, SubmitReview(c, b) \/ ModerateWrite(c, b) PROVE CountInv'
    BY <2>1, <2>3 DEF SubmitReview, ModerateWrite, Published, ReviewsTypeOK
  <2>4. ASSUME ReportWrite(c) \/ ReportHide(c) \/ FlagCreate(c) \/ FlagWrite(c)
                 \/ ReplyWrite(c) \/ DeleteWrite(c)
        PROVE  CountInv'
    BY <2>1, <2>4
    DEF ReportWrite, ReportHide, FlagCreate, FlagWrite, ReplyWrite, DeleteWrite, Published,
        ReviewsTypeOK
  <2>5. CASE Aggregate(c)
    <3>1. /\ UNCHANGED <<rating, written>>
          /\ task[c].kind = "recalculate"
          /\ task'[c].kind = "rating" /\ task'[c].seen = Published
          /\ ~blurred' => ~blurred /\ \A d \in Tasks : task[d].kind # "rating"
      BY <2>5 DEF Aggregate, ReviewsTypeOK
    <3>2. Published' = Published
      BY <3>1 DEF Published
    <3>3. ASSUME ~blurred', NEW t \in Published
          PROVE  t \in rating \/ Recounts(c, t)'
      BY <3>1, <3>3 DEF Recounts
    <3>4. ~blurred' => \A a \in Tasks : task'[a].kind = "rating" => a = c
      BY <3>1
    <3> QED
      BY <3>1, <3>2, <3>3, <3>4 DEF CountInv, PublishedIsCounted
  <2>6. CASE WriteRating(c)
    <3>1. /\ UNCHANGED <<written, blurred>>
          /\ task[c].kind = "rating" /\ task'[c].kind = "waiting"
          /\ rating' = task[c].seen
      BY <2>6 DEF WriteRating
    <3>2. Published' = Published
      BY <3>1 DEF Published
    <3>3. ASSUME ~blurred, NEW t \in Published
          PROVE  t \in rating' \/ \E d \in Tasks : Recounts(d, t)'
      BY <3>1, <3>3 DEF CountInv, Recounts
    <3>4. ~blurred => \A a \in Tasks : task'[a].kind # "rating"
      BY <3>1 DEF CountInv
    <3> QED
      BY <3>1, <3>2, <3>3, <3>4 DEF CountInv, PublishedIsCounted
  <2>7. CASE TaskStop(c)
    <3>1. /\ UNCHANGED <<written, rating>>
          /\ task[c].kind \in {"recalculate", "rating"} => blurred'
          /\ ~blurred' => blurred' = blurred
          /\ task'[c].kind = "waiting"
      BY <2>7 DEF TaskStop, ReviewsTypeOK
    <3>2. CASE blurred'
      BY <3>2 DEF CountInv
    <3>3. CASE ~blurred'
      BY <2>1, <3>1, <3>3 DEF Published
    <3> QED
      BY <3>2, <3>3
  <2> QED
    BY <1>4, <2>2, <2>3, <2>4, <2>5, <2>6, <2>7 DEF Request, Clean
<1>5. CASE UNCHANGED reviewsVars
  <2>1. Published' = Published
    BY <1>5 DEF reviewsVars, Published
  <2> QED
    BY <1>1, <1>5, <2>1 DEF reviewsVars
<1> QED
  BY <1>2, <1>3, <1>4, <1>5, ReviewsSteps

-----------------------------------------------------------------------------
\* The theorems.

LEMMA ReviewsInvariant == ReviewsSpec => []ReviewsInv
<1>1. ReviewsInv /\ [ReviewsNext]_reviewsVars => ReviewsInv'
  BY ReviewsTypeNext, VouchedNext, ExpiryNext, CountNext DEF ReviewsInv
<1> QED
  BY <1>1, ReviewsInitInv, PTL DEF ReviewsSpec

\* The rows of the reviews, and the requests in flight, keep their types.
THEOREM ReviewsTypeCorrect == ReviewsSpec => []ReviewsTypeOK
BY ReviewsInvariant, PTL DEF ReviewsInv

\* The rating counts what is published, or a request in flight is about to count it.
THEOREM PublishedAreCounted == ReviewsSpec => []PublishedIsCounted
<1>1. ReviewsInv => PublishedIsCounted
  BY DEF ReviewsInv, CountInv, PublishedIsCounted
<1> QED
  BY <1>1, ReviewsInvariant, PTL

\* The expiry job takes no review that its guest has written in time.
THEOREM WrittenAreKept == ReviewsSpec => []WrittenIsKept
<1>1. ReviewsInv => WrittenIsKept
  BY DEF ReviewsInv, ExpiryInv, WrittenIsKept
<1> QED
  BY <1>1, ReviewsInvariant, PTL

\* What readers see was written by its guest, or flagged by the owner before it was.
THEOREM PublishedWereWritten == ReviewsSpec => []PublishedWasWritten
<1>1. ReviewsInv => PublishedWasWritten
  BY DEF ReviewsInv, VouchedInv, Vouched, Published, PublishedWasWritten
<1> QED
  BY <1>1, ReviewsInvariant, PTL

-----------------------------------------------------------------------------
\* The composition: every step of MCBackOffice is a step of one component and leaves
\* the others alone, so that what is proved of the components holds of it.
THEOREM BackOfficeComposes == Spec => ReviewsSpec /\ DisputesSpec /\ SessionsSpec
<1>1. Init => ReviewsInit /\ DisputesInit /\ SessionsInit
  BY DEF Init
<1>2. [Next]_vars =>
        [ReviewsNext]_reviewsVars /\ [DisputesNext]_disputesVars /\ [SessionsNext]_sessionsVars
  BY DEF Next, vars, otherThanReviews, otherThanDisputes, otherThanSessions
<1> QED
  BY <1>1, <1>2, PTL DEF Spec, ReviewsSpec, DisputesSpec, SessionsSpec
=============================================================================
