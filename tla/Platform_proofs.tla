--------------------------- MODULE Platform_proofs ---------------------------
(***************************************************************************)
(* Proofs about Notifications and Anomalies, for any events, reviews, runs *)
(* and entities, and about the composition that MCPlatform makes of them   *)
(* with Sessions, OneTimeCodes and LoginLockout.                           *)
(***************************************************************************)
EXTENDS MCPlatform, Accounts_proofs, SequenceTheorems

-----------------------------------------------------------------------------
\* Notifications: an event passes through the inbox once.

\* Where the event e is, and what is true of it there.  A message is asked for after
\* the row and before it is sent.
Passage(e) ==
  /\ kind[e] = "none" => e \notin listening
  /\ e \in listening => e \notin announcing
  /\ e \in announcing => kind[e] # "none" /\ row[e] # "none"
  /\ \A c \in Channels :
       /\ kind[e] = "none" \/ e \in listening \cup announcing =>
            sent[e][c] = 0 /\ <<e, c>> \notin requested
       /\ <<e, c>> \in requested => sent[e][c] = 0 /\ row[e] # "none"
       /\ sent[e][c] > 0 => sent[e][c] = 1 /\ row[e] # "none"

PassageInv ==
  /\ \A e \in Events : Passage(e)
  /\ \A e \in marking : row[e] # "none"

Todo(j, t) == remind[j] # Resting /\ t \in remind[j].todo

Marks(j, t) == remind[j].stage = "marked" /\ remind[j].review = t

\* A review that is marked is never found again; of one that two runs did not find at
\* once, one run has it, or has marked it, and has not reminded of it.
ReminderInv ==
  /\ \A j \in Reminders, t \in Unanswered : Marks(j, t) => t \in reminded
  /\ \A t \in Unanswered : t \notin reminded => reminders[t] = 0
  /\ \A t \in Unanswered \ overlapped :
       /\ reminders[t] <= 1
       /\ \A j \in Reminders : Todo(j, t) => t \notin reminded
       /\ \A j \in Reminders : Marks(j, t) => reminders[t] = 0
       /\ \A j, k \in Reminders :
            (Todo(j, t) /\ Todo(k, t)) \/ (Marks(j, t) /\ Marks(k, t)) => j = k

NotificationsInv == NotificationsTypeOK /\ PassageInv /\ ReminderInv

LEMMA NotificationsInitInv == NotificationsInit => NotificationsInv
<1> SUFFICES ASSUME NotificationsInit PROVE NotificationsInv
  OBVIOUS
<1>1. NotificationsTypeOK
  BY DEF NotificationsInit, NotificationsTypeOK, Channels
<1>2. PassageInv
  BY DEF NotificationsInit, PassageInv, Passage
<1>3. \A j \in Reminders : remind[j] = Resting /\ Resting.stage = "resting"
  BY DEF NotificationsInit, Resting
<1>4. ReminderInv
  BY <1>3 DEF NotificationsInit, ReminderInv, Todo, Marks
<1> QED
  BY <1>1, <1>2, <1>4 DEF NotificationsInv

\* What a run of the reminder job remembers.
LEMMA RemindFields ==
  ASSUME NotificationsTypeOK, NEW j \in Reminders
  PROVE  /\ remind[j] \in Reminding \cup {Resting}
         /\ Resting.stage = "resting"
         /\ remind[j] # Resting =>
              /\ remind[j].stage \in {"found", "marked"}
              /\ remind[j].todo \in SUBSET Unanswered
         /\ remind[j].stage \in {"found", "marked"} => remind[j] # Resting
         /\ remind[j].stage = "marked" => remind[j].review \in Unanswered
BY DEF NotificationsTypeOK, Reminding, Resting

\* The messages of an event.
LEMMA MessagesOf ==
  ASSUME NEW e \in Events
  PROVE  /\ Messages(e) \subseteq Events \X Channels
         /\ \A x \in Events, c \in Channels : <<x, c>> \in Messages(e) => x = e
BY DEF Messages

LEMMA InboxTypeNext ==
  ASSUME NotificationsTypeOK, InboxNext
  PROVE  NotificationsTypeOK'
<1> USE DEF NotificationsTypeOK, inFlight, inboxVars, reminderVars
<1>1. ASSUME NEW e \in Events, NEW k \in Kinds, Emit(e, k) PROVE NotificationsTypeOK'
  BY <1>1 DEF Emit
<1>2. ASSUME NEW e \in Events, CreateRow(e) \/ ListenerFails(e) PROVE NotificationsTypeOK'
  BY <1>2 DEF CreateRow, ListenerFails
<1>3. ASSUME NEW e \in Events, Announce(e) PROVE NotificationsTypeOK'
  BY <1>3, MessagesOf DEF Announce
<1>4. ASSUME NEW e \in Events, NEW c \in Channels, Deliver(e, c) PROVE NotificationsTypeOK'
  <2>1. sent' \in [Events -> [Channels -> Nat]]
    BY <1>4 DEF Deliver
  <2> QED
    BY <1>4, <2>1 DEF Deliver
<1>5. ASSUME NEW e \in Events, NEW c \in Channels, DeliveryFails(e, c)
      PROVE  NotificationsTypeOK'
  BY <1>5 DEF DeliveryFails
<1>6. ASSUME NEW e \in Events, MarkReadCheck(e) \/ MarkReadWrite(e) PROVE NotificationsTypeOK'
  BY <1>6 DEF MarkReadCheck, MarkReadWrite
<1>7. CASE ProcessEnds
  BY <1>7 DEF ProcessEnds
<1>8. CASE MarkAllRead
  BY <1>8 DEF MarkAllRead
<1> QED
  BY <1>1, <1>2, <1>3, <1>4, <1>5, <1>6, <1>7, <1>8 DEF InboxNext

LEMMA RemindersTypeNext ==
  ASSUME NotificationsTypeOK, RemindersNext
  PROVE  NotificationsTypeOK'
<1> USE DEF NotificationsTypeOK, inFlight, inboxVars, reminderVars
<1>1. ASSUME NEW j \in Reminders, RemindFind(j) PROVE NotificationsTypeOK'
  <2>1. [stage |-> "found", todo |-> Unanswered \ reminded] \in Reminding
    BY DEF Reminding
  <2> QED
    BY <1>1, <2>1 DEF RemindFind
<1>2. ASSUME NEW j \in Reminders, NEW t \in Unanswered, RemindMark(j, t)
      PROVE  NotificationsTypeOK'
  <2>1. [stage |-> "marked", todo |-> remind[j].todo \ {t}, review |-> t] \in Reminding
    BY <1>2, RemindFields DEF RemindMark, Reminding
  <2> QED
    BY <1>2, <2>1 DEF RemindMark
<1>3. ASSUME NEW j \in Reminders, RemindCreate(j) PROVE NotificationsTypeOK'
  <2>1. /\ remind[j].review \in Unanswered
        /\ [stage |-> "found", todo |-> remind[j].todo] \in Reminding
    BY <1>3, RemindFields DEF RemindCreate, Reminding
  <2> QED
    BY <1>3, <2>1 DEF RemindCreate
<1>4. ASSUME NEW j \in Reminders, RemindStop(j) PROVE NotificationsTypeOK'
  BY <1>4 DEF RemindStop
<1> QED
  BY <1>1, <1>2, <1>3, <1>4 DEF RemindersNext

\* An event moves on from the listener to the row, to the messages and out.
LEMMA PassageNext ==
  ASSUME NotificationsTypeOK, PassageInv, InboxNext
  PROVE  PassageInv'
<1> USE DEF NotificationsTypeOK, inFlight, reminderVars, PassageInv, Passage
<1>1. ASSUME NEW e \in Events, NEW k \in Kinds, Emit(e, k) PROVE PassageInv'
  <2>1. k # "none"
    BY DEF Kinds, MailedBookings, QuietBookings, HotelEvents, PayoutEvents, ReviewEvents
  <2> QED
    BY <1>1, <2>1 DEF Emit
<1>2. ASSUME NEW e \in Events, CreateRow(e) PROVE PassageInv'
  BY <1>2 DEF CreateRow
<1>3. ASSUME NEW e \in Events, ListenerFails(e) PROVE PassageInv'
  BY <1>3 DEF ListenerFails
<1>4. ASSUME NEW e \in Events, Announce(e) PROVE PassageInv'
  BY <1>4, MessagesOf DEF Announce
<1>5. ASSUME NEW e \in Events, NEW c \in Channels, Deliver(e, c) PROVE PassageInv'
  <2>1. /\ sent'[e][c] = sent[e][c] + 1
        /\ \A x \in Events, d \in Channels : x # e \/ d # c => sent'[x][d] = sent[x][d]
    BY <1>5 DEF Deliver
  <2>2. \A x \in Events, d \in Channels :
          <<x, d>> \in requested' => <<x, d>> \in requested /\ (x # e \/ d # c)
    BY <1>5 DEF Deliver
  <2>3. UNCHANGED <<kind, row, listening, announcing, marking>> /\ <<e, c>> \in requested
    BY <1>5 DEF Deliver
  <2>4. sent[e][c] = 0 /\ row[e] # "none" /\ kind[e] # "none" /\ e \notin listening \cup announcing
    BY <2>3
  <2> QED
    BY <2>1, <2>2, <2>3, <2>4
<1>6. ASSUME NEW e \in Events, NEW c \in Channels, DeliveryFails(e, c) PROVE PassageInv'
  BY <1>6 DEF DeliveryFails
<1>7. ASSUME NEW e \in Events, MarkReadCheck(e) \/ MarkReadWrite(e) PROVE PassageInv'
  BY <1>7 DEF MarkReadCheck, MarkReadWrite
<1>8. CASE ProcessEnds
  BY <1>8 DEF ProcessEnds
<1>9. CASE MarkAllRead
  BY <1>9 DEF MarkAllRead
<1> QED
  BY <1>1, <1>2, <1>3, <1>4, <1>5, <1>6, <1>7, <1>8, <1>9 DEF InboxNext

\* A review passes from the runs that found it to the one that marks it.
LEMMA ReminderNext ==
  ASSUME NotificationsTypeOK, ReminderInv, RemindersNext
  PROVE  ReminderInv'
<1> USE DEF NotificationsTypeOK, inboxVars, ReminderInv
<1>1. ASSUME NEW j \in Reminders, RemindFind(j) PROVE ReminderInv'
  <2>1. /\ UNCHANGED <<reminded, reminders>> /\ overlapped \subseteq overlapped'
        /\ \A t \in Unanswered : t \notin overlapped' /\ t \notin reminded =>
             \A k \in Reminders : ~Todo(k, t)
        /\ ~\E t \in Unanswered : Todo(j, t)
    BY <1>1 DEF RemindFind, Todo
  <2>2. /\ \A t \in Unanswered : Todo(j, t)' => t \notin reminded
        /\ \A t \in Unanswered : ~Marks(j, t)'
        /\ \A k \in Reminders \ {j}, t \in Unanswered :
             (Todo(k, t)' <=> Todo(k, t)) /\ (Marks(k, t)' <=> Marks(k, t))
    BY <1>1 DEF RemindFind, Todo, Marks
  <2> QED
    BY <2>1, <2>2
<1>2. ASSUME NEW j \in Reminders, NEW t \in Unanswered, RemindMark(j, t) PROVE ReminderInv'
  <2>1. /\ UNCHANGED <<reminders, overlapped>> /\ reminded' = reminded \cup {t}
        /\ Todo(j, t)
    BY <1>2, RemindFields DEF RemindMark, Todo
  <2>2. /\ \A l \in Unanswered : Todo(j, l)' => Todo(j, l) /\ l # t
        /\ \A l \in Unanswered : Marks(j, l)' => l = t
        /\ \A k \in Reminders \ {j}, l \in Unanswered :
             (Todo(k, l)' <=> Todo(k, l)) /\ (Marks(k, l)' <=> Marks(k, l))
    BY <1>2, RemindFields DEF RemindMark, Todo, Marks
  <2> QED
    BY <2>1, <2>2
<1>3. ASSUME NEW j \in Reminders, RemindCreate(j) PROVE ReminderInv'
  <2>0. PICK t \in Unanswered : t = remind[j].review
    BY <1>3, RemindFields DEF RemindCreate
  <2>1. /\ UNCHANGED <<reminded, overlapped>> /\ Marks(j, t)
        /\ reminders' = [reminders EXCEPT ![t] = @ + 1]
    BY <1>3, <2>0 DEF RemindCreate, Marks
  <2>2. /\ \A l \in Unanswered : (Todo(j, l)' => Todo(j, l)) /\ ~Marks(j, l)'
        /\ \A k \in Reminders \ {j}, l \in Unanswered :
             (Todo(k, l)' <=> Todo(k, l)) /\ (Marks(k, l)' <=> Marks(k, l))
    BY <1>3, RemindFields DEF RemindCreate, Todo, Marks
  <2>3. /\ t \in reminded /\ (t \notin overlapped => reminders[t] = 0 /\ reminders'[t] = 1)
        /\ \A l \in Unanswered \ {t} : reminders'[l] = reminders[l]
    BY <2>1
  <2>4. \A k \in Reminders, l \in Unanswered :
          (Todo(k, l)' => Todo(k, l)) /\ (Marks(k, l)' => Marks(k, l) /\ k # j)
    BY <2>2
  <2>5. \A k \in Reminders, l \in Unanswered \ overlapped :
          Marks(k, l)' => reminders'[l] = 0
    <3> TAKE k \in Reminders, l \in Unanswered \ overlapped
    <3>1. CASE l = t
      BY <3>1, <2>1, <2>4
    <3>2. CASE l # t
      BY <3>2, <2>3, <2>4
    <3> QED
      BY <3>1, <3>2
  <2>6. \A l \in Unanswered :
          /\ l \notin reminded => reminders'[l] = 0
          /\ l \notin overlapped => reminders'[l] <= 1
    BY <2>3
  <2> QED
    BY <2>1, <2>4, <2>5, <2>6
<1>4. ASSUME NEW j \in Reminders, RemindStop(j) PROVE ReminderInv'
  <2>1. /\ UNCHANGED <<reminded, reminders, overlapped>>
        /\ \A t \in Unanswered : ~Todo(j, t)' /\ ~Marks(j, t)'
        /\ \A k \in Reminders \ {j}, t \in Unanswered :
             (Todo(k, t)' <=> Todo(k, t)) /\ (Marks(k, t)' <=> Marks(k, t))
    BY <1>4, RemindFields DEF RemindStop, Todo, Marks
  <2> QED
    BY <2>1
<1> QED
  BY <1>1, <1>2, <1>3, <1>4 DEF RemindersNext

LEMMA NotificationsInvariant == NotificationsSpec => []NotificationsInv
<1>1. ASSUME NotificationsInv, [NotificationsNext]_notificationsVars
      PROVE  NotificationsInv'
  <2> USE <1>1 DEF NotificationsInv
  <2>1. CASE InboxNext
    <3>1. UNCHANGED reminderVars
      BY <2>1
      DEF InboxNext, Emit, CreateRow, ListenerFails, Announce, Deliver, DeliveryFails,
          MarkReadCheck, MarkReadWrite, ProcessEnds, MarkAllRead
    <3>2. ReminderInv'
      BY <3>1 DEF ReminderInv, reminderVars, Todo, Marks
    <3> QED
      BY <2>1, <3>2, InboxTypeNext, PassageNext
  <2>2. CASE RemindersNext
    <3>1. UNCHANGED inboxVars
      BY <2>2 DEF RemindersNext, RemindFind, RemindMark, RemindCreate, RemindStop
    <3>2. PassageInv'
      BY <3>1 DEF PassageInv, Passage, inboxVars, inFlight
    <3> QED
      BY <2>2, <3>2, RemindersTypeNext, ReminderNext
  <2>3. CASE UNCHANGED notificationsVars
    BY <2>3
    DEF notificationsVars, inboxVars, inFlight, reminderVars, NotificationsTypeOK,
        PassageInv, Passage, ReminderInv, Todo, Marks
  <2> QED
    BY <1>1, <2>1, <2>2, <2>3 DEF NotificationsNext
<1> QED
  BY <1>1, NotificationsInitInv, PTL DEF NotificationsSpec

\* The inbox, what is in flight for it and the reminder runs keep their types.
THEOREM NotificationsTypeCorrect == NotificationsSpec => []NotificationsTypeOK
BY NotificationsInvariant, PTL DEF NotificationsInv

\* Whoever gives up on the way: a message at most once, and only of what the inbox
\* shows; a reminder at most once, but for runs that overlap.
THEOREM EveryoneToldOnce == NotificationsSpec => []ToldOnce
<1>1. NotificationsInv => ToldOnce
  BY DEF NotificationsInv, PassageInv, Passage, ReminderInv, ToldOnce
<1> QED
  BY <1>1, NotificationsInvariant, PTL

-----------------------------------------------------------------------------
\* Anomalies: what no longer needs an administrator never does again.

\* When a run found no duplicate among the rows there were, every one of them was
\* resolved, and is.
ClearFits(d) ==
  LET r == detect[d] IN
  r.stage = "clear" =>
    /\ r.rows <= Len(anomaly)
    /\ \A i \in 1 .. r.rows :
         anomaly[i].rule = r.rule /\ anomaly[i].entity = r.entity =>
           anomaly[i].status \notin Unresolved

DetectionInv ==
  /\ Len(knew) = Len(anomaly)
  /\ \A d \in Detections : ClearFits(d)
  /\ ReportedOnce

AnomaliesInv == AnomaliesTypeOK /\ DetectionInv

LEMMA AnomaliesInitInv == AnomaliesInit => AnomaliesInv
<1> SUFFICES ASSUME AnomaliesInit PROVE AnomaliesInv
  OBVIOUS
<1>1. AnomaliesTypeOK
  BY AnomaliesAssumption DEF AnomaliesInit, AnomaliesTypeOK
<1>2. /\ Rows = {} /\ Len(knew) = Len(anomaly)
      /\ \A d \in Detections : detect[d].stage # "clear"
  BY DEF AnomaliesInit, Rows, Still
<1>3. DetectionInv
  BY <1>2 DEF DetectionInv, ClearFits, ReportedOnce
<1> QED
  BY <1>1, <1>3 DEF AnomaliesInv

\* What a run remembers.
LEMMA DetectionFields ==
  ASSUME AnomaliesTypeOK, NEW d \in Detections
  PROVE  /\ detect[d].stage \in {"scanning", "clear"} =>
              /\ detect[d].rule \in RuleNumbers
              /\ detect[d].todo \in SUBSET Entities
         /\ detect[d].stage = "clear" => detect[d].entity \in Entities /\ detect[d].rows \in Nat
         /\ detect[d].stage = "scanning" =>
              detect[d] \in [stage : {"scanning"}, rule : RuleNumbers, todo : SUBSET Entities]
<1>1. detect[d] \in Detection \cup {Still}
  BY DEF AnomaliesTypeOK
<1> QED
  BY <1>1 DEF Detection, Still

\* What an administrator changes of the rows.
LEMMA StatusShape ==
  ASSUME AnomaliesTypeOK, NEW i \in Rows, NEW to \in AnomalyStatus,
         ViewAnomaly(i) \/ UpdateStatus(i, to)
  PROVE  /\ anomaly' \in Seq(Row) /\ Len(anomaly') = Len(anomaly) /\ Rows' = Rows
         /\ UNCHANGED <<tally, knew, detect, unflagging>>
         /\ \A k \in Rows :
              /\ anomaly'[k].rule = anomaly[k].rule
              /\ anomaly'[k].entity = anomaly[k].entity
              /\ anomaly'[k].status \in Unresolved => anomaly[k].status \in Unresolved
<1>1. /\ anomaly \in Seq(Row) /\ Rows = 1 .. Len(anomaly) /\ anomaly[i] \in Row
      /\ \A k \in Rows : anomaly[k] \in Row
  BY DEF AnomaliesTypeOK, Rows
<1>2. anomaly[i].status \in Unresolved
  BY DEF ViewAnomaly, UpdateStatus, Unresolved
<1>3. PICK s \in AnomalyStatus :
        /\ anomaly' = [anomaly EXCEPT ![i].status = s]
        /\ UNCHANGED <<tally, knew, detect, unflagging>>
  BY DEF ViewAnomaly, UpdateStatus, AnomalyStatus
<1>4. [anomaly[i] EXCEPT !.status = s] \in Row
  BY <1>1 DEF Row
<1>5. anomaly' \in Seq(Row) /\ Len(anomaly') = Len(anomaly)
  BY <1>1, <1>3, <1>4
<1>6. \A k \in Rows :
        /\ anomaly'[k].rule = anomaly[k].rule
        /\ anomaly'[k].entity = anomaly[k].entity
        /\ anomaly'[k].status \in Unresolved => anomaly[k].status \in Unresolved
  BY <1>1, <1>2, <1>3 DEF Row
<1> QED
  BY <1>1, <1>3, <1>5, <1>6 DEF Rows

LEMMA AnomaliesTypeNext ==
  ASSUME AnomaliesTypeOK, AnomaliesNext
  PROVE  AnomaliesTypeOK'
<1> USE DEF AnomaliesTypeOK
<1>1. ASSUME NEW e \in Entities, NEW n \in Tallies, Count(e, n) PROVE AnomaliesTypeOK'
  <2>1. [n EXCEPT !.flagged = tally[e].flagged] \in [Counters -> Nat]
    BY AnomaliesAssumption DEF Counters
  <2> QED
    BY <1>1, <2>1 DEF Count
<1>2. ASSUME NEW e \in Entities, Flag(e) \/ UnflagWrite(e) PROVE AnomaliesTypeOK'
  <2>1. tally[e] \in [Counters -> Nat] /\ "flagged" \in Counters
    BY DEF Counters
  <2>2. PICK v \in Nat : tally' = [tally EXCEPT ![e] = [tally[e] EXCEPT !["flagged"] = v]]
    BY <1>2 DEF Flag, UnflagWrite
  <2>3. tally' \in [Entities -> [Counters -> Nat]]
    BY <2>1, <2>2
  <2> QED
    BY <1>2, <2>3 DEF Flag, UnflagWrite
<1>3. ASSUME NEW e \in Entities, UnflagCheck(e) PROVE AnomaliesTypeOK'
  BY <1>3 DEF UnflagCheck
<1>4. ASSUME NEW d \in Detections, NEW e \in Entities, DetectCheck(d, e)
      PROVE  AnomaliesTypeOK'
  <2> DEFINE r == detect[d]
  <2>1. /\ r.rule \in RuleNumbers /\ r.todo \in SUBSET Entities
        /\ r \in [stage : {"scanning"}, rule : RuleNumbers, todo : SUBSET Entities]
    BY <1>4, DetectionFields DEF DetectCheck
  <2>2. [r EXCEPT !.todo = @ \ {e}] \in Detection
    BY <2>1 DEF Detection
  <2>3. [stage |-> "clear", rule |-> r.rule, todo |-> r.todo \ {e}, entity |-> e,
         rows |-> Len(anomaly)] \in Detection
    BY <2>1 DEF Detection
  <2>4. detect' \in [Detections -> Detection \cup {Still}]
    BY <1>4, <2>2, <2>3 DEF DetectCheck
  <2> QED
    BY <1>4, <2>4 DEF DetectCheck
<1>5. ASSUME NEW d \in Detections, DetectStart(d) PROVE AnomaliesTypeOK'
  <2>1. [stage |-> "scanning", rule |-> 1, todo |-> Candidates(Rules[1])] \in Detection
    BY DEF Detection, Candidates, RuleNumbers, Rules
  <2> QED
    BY <1>5, <2>1 DEF DetectStart
<1>6. ASSUME NEW d \in Detections, DetectNext(d) PROVE AnomaliesTypeOK'
  <2> DEFINE r == detect[d]
  <2>1. r.rule \in RuleNumbers
    BY <1>6, DetectionFields DEF DetectNext
  <2>2. r.rule < Len(Rules) => r.rule + 1 \in RuleNumbers
    BY <2>1 DEF RuleNumbers, Rules
  <2>3. r.rule < Len(Rules) =>
          [stage |-> "scanning", rule |-> r.rule + 1, todo |-> Candidates(Rules[r.rule + 1])]
            \in Detection
    BY <2>2 DEF Detection, Candidates
  <2> QED
    BY <1>6, <2>3 DEF DetectNext
<1>7. ASSUME NEW d \in Detections, DetectCreate(d) PROVE AnomaliesTypeOK'
  <2> DEFINE r == detect[d]
             new == [rule |-> r.rule, entity |-> r.entity, status |-> "detected"]
  <2>1. /\ r.rule \in RuleNumbers /\ r.todo \in SUBSET Entities
        /\ r.entity \in Entities /\ r.rows \in Nat
    BY <1>7, DetectionFields DEF DetectCreate
  <2>2. new \in Row
    BY <2>1 DEF Row, AnomalyStatus
  <2>3. anomaly' \in Seq(Row) /\ Len(anomaly') = Len(anomaly) + 1 /\ knew' \in Seq(Nat)
    BY <1>7, <2>1, <2>2 DEF DetectCreate
  <2>4. Len(anomaly') <= MaxAnomalies
    BY <1>7, <2>3, AnomaliesAssumption DEF DetectCreate
  <2>5. [stage |-> "scanning", rule |-> r.rule, todo |-> r.todo] \in Detection
    BY <2>1 DEF Detection
  <2> QED
    BY <1>7, <2>3, <2>4, <2>5 DEF DetectCreate
<1>8. ASSUME NEW d \in Detections, DetectStop(d) PROVE AnomaliesTypeOK'
  BY <1>8 DEF DetectStop
<1>9. ASSUME NEW i \in Rows, NEW to \in AnomalyStatus, ViewAnomaly(i) \/ UpdateStatus(i, to)
      PROVE  AnomaliesTypeOK'
  <2>1. anomaly' \in Seq(Row) /\ Len(anomaly') = Len(anomaly)
    BY <1>9, StatusShape
  <2> QED
    BY <1>9, <2>1 DEF ViewAnomaly, UpdateStatus
<1> QED
  BY <1>1, <1>2, <1>3, <1>4, <1>5, <1>6, <1>7, <1>8, <1>9 DEF AnomaliesNext, AnomalyStatus

\* A row never becomes unresolved again.
LEMMA DetectionNext ==
  ASSUME AnomaliesTypeOK, DetectionInv, AnomaliesNext
  PROVE  DetectionInv'
<1> USE DEF AnomaliesTypeOK
<1> DEFINE Settled == UNCHANGED <<anomaly, knew, detect>>
<1>1. CASE Settled
  BY <1>1 DEF DetectionInv, ClearFits, ReportedOnce, Rows
<1>2. ASSUME NEW d \in Detections, UNCHANGED <<anomaly, knew>>,
             \A x \in Detections \ {d} : detect'[x] = detect[x], ClearFits(d)'
      PROVE  DetectionInv'
  <2>1. \A x \in Detections \ {d} : ClearFits(x)'
    BY <1>2 DEF DetectionInv, ClearFits
  <2> QED
    BY <1>2, <2>1 DEF DetectionInv, ReportedOnce, Rows
<1>3. ASSUME NEW d \in Detections,
             DetectStart(d) \/ DetectNext(d) \/ DetectStop(d)
      PROVE  DetectionInv'
  <2>1. detect'[d].stage # "clear"
    BY <1>3 DEF DetectStart, DetectNext, DetectStop, Still
  <2> QED
    BY <1>2, <1>3, <2>1 DEF DetectStart, DetectNext, DetectStop, ClearFits
<1>4. ASSUME NEW d \in Detections, NEW e \in Entities, DetectCheck(d, e)
      PROVE  DetectionInv'
  <2>1. CASE IsDuplicate(detect[d].rule, e)
    <3>1. detect'[d].stage = "scanning"
      BY <1>4, <2>1, DetectionFields DEF DetectCheck
    <3> QED
      BY <1>2, <1>4, <3>1 DEF DetectCheck, ClearFits
  <2>2. CASE ~IsDuplicate(detect[d].rule, e)
    <3>1. /\ detect'[d].rule = detect[d].rule /\ detect'[d].entity = e
          /\ detect'[d].rows = Len(anomaly)
      BY <1>4, <2>2 DEF DetectCheck
    <3>2. ClearFits(d)'
      BY <1>4, <2>2, <3>1 DEF DetectCheck, ClearFits, IsDuplicate, Rows
    <3> QED
      BY <1>2, <1>4, <3>2 DEF DetectCheck
  <2> QED
    BY <2>1, <2>2
<1>5. ASSUME NEW d \in Detections, DetectCreate(d) PROVE DetectionInv'
  <2> DEFINE r == detect[d]
             n == Len(anomaly)
  <2>1. /\ n \in Nat /\ Len(knew) = n /\ r.rows \in Nat
        /\ Rows = 1 .. n /\ Rows' = 1 .. n + 1
        /\ Len(anomaly') = n + 1 /\ Len(knew') = n + 1
        /\ \A i \in 1 .. n : anomaly'[i] = anomaly[i] /\ knew'[i] = knew[i]
        /\ anomaly'[n + 1].rule = r.rule /\ anomaly'[n + 1].entity = r.entity
        /\ knew'[n + 1] = r.rows
    BY <1>5, DetectionFields DEF DetectCreate, DetectionInv, Rows
  <2>2. detect'[d].stage = "scanning" /\ \A x \in Detections \ {d} : detect'[x] = detect[x]
    BY <1>5 DEF DetectCreate
  <2>3. \A x \in Detections : ClearFits(x)'
    <3> SUFFICES ASSUME NEW x \in Detections \ {d} PROVE ClearFits(x)'
      BY <2>2 DEF ClearFits
    <3>1. detect'[x] = detect[x] /\ ClearFits(x) /\
          (detect[x].stage = "clear" => detect[x].rows \in Nat)
      BY <2>2, DetectionFields DEF DetectionInv
    <3>2. detect[x].stage = "clear" =>
            /\ detect[x].rows <= n
            /\ \A i \in 1 .. detect[x].rows :
                 anomaly[i].rule = detect[x].rule /\ anomaly[i].entity = detect[x].entity =>
                   anomaly[i].status \notin Unresolved
      BY <3>1 DEF ClearFits
    <3>3. detect[x].stage = "clear" =>
            \A i \in 1 .. detect[x].rows : anomaly'[i] = anomaly[i]
      BY <2>1, <3>1, <3>2
    <3> QED
      <4>1. detect'[x].stage = "clear" =>
              /\ detect'[x].rows <= Len(anomaly')
              /\ \A i \in 1 .. detect'[x].rows :
                   anomaly'[i].rule = detect'[x].rule
                     /\ anomaly'[i].entity = detect'[x].entity =>
                       anomaly'[i].status \notin Unresolved
        <5> HIDE DEF n, r
        <5>1. detect'[x] = detect[x] /\ (detect[x].stage = "clear" => detect[x].rows \in Nat)
          BY <3>1
        <5>2. detect[x].stage = "clear" => detect[x].rows <= Len(anomaly')
          BY <2>1, <3>2, <5>1
        <5> QED
          BY <3>2, <3>3, <5>1, <5>2
      <4> QED
        BY <4>1 DEF ClearFits
  <2>4. ASSUME NEW i \in 1 .. n, r.rule = anomaly[i].rule, r.entity = anomaly[i].entity,
               anomaly[i].status \in Unresolved
        PROVE  r.rows < i
    <3>1. ClearFits(d) /\ r.stage = "clear"
      BY <1>5 DEF DetectCreate, DetectionInv
    <3>2. ~(i \in 1 .. r.rows)
      BY <2>4, <3>1 DEF ClearFits
    <3> QED
      BY <2>1, <3>2
  <2>5. ReportedOnce'
    <3> SUFFICES ASSUME NEW i \in 1 .. n + 1, NEW j \in 1 .. n + 1, i < j,
                        anomaly'[i].rule = anomaly'[j].rule,
                        anomaly'[i].entity = anomaly'[j].entity,
                        {anomaly'[i].status, anomaly'[j].status} \subseteq Unresolved
                 PROVE  knew'[j] < i
      BY <2>1 DEF ReportedOnce
    <3>1. CASE j = n + 1
      BY <3>1, <2>1, <2>4
    <3>2. CASE j # n + 1
      <4>1. i \in Rows /\ j \in Rows /\ ReportedOnce
        <5> HIDE DEF n
        <5>1. n \in Nat /\ Rows = 1 .. n
          BY <2>1
        <5>2. i \in 1 .. n /\ j \in 1 .. n
          BY <3>2, <5>1
        <5> QED
          BY <5>1, <5>2 DEF DetectionInv
      <4>2. anomaly'[i] = anomaly[i] /\ anomaly'[j] = anomaly[j] /\ knew'[j] = knew[j]
        BY <4>1, <2>1
      <4>3. /\ anomaly[i].rule = anomaly[j].rule /\ anomaly[i].entity = anomaly[j].entity
            /\ {anomaly[i].status, anomaly[j].status} \subseteq Unresolved
        BY <4>2
      <4>4. knew[j] < i
        BY <4>1, <4>3, Zenon DEF ReportedOnce
      <4> QED
        BY <4>2, <4>4
    <3> QED
      BY <3>1, <3>2
  <2> QED
    BY <2>1, <2>3, <2>5 DEF DetectionInv
<1>6. ASSUME NEW i \in Rows, NEW to \in AnomalyStatus, ViewAnomaly(i) \/ UpdateStatus(i, to)
      PROVE  DetectionInv'
  <2>1. /\ Len(anomaly') = Len(anomaly) /\ Rows' = Rows /\ UNCHANGED <<knew, detect>>
        /\ \A k \in Rows :
             /\ anomaly'[k].rule = anomaly[k].rule
             /\ anomaly'[k].entity = anomaly[k].entity
             /\ anomaly'[k].status \in Unresolved => anomaly[k].status \in Unresolved
    BY <1>6, StatusShape
  <2>2. \A x \in Detections : ClearFits(x)'
    <3> TAKE x \in Detections
    <3>1. ClearFits(x) /\ (detect[x].stage = "clear" => detect[x].rows \in Nat)
      BY DetectionFields DEF DetectionInv
    <3> QED
      BY <2>1, <3>1 DEF ClearFits, Rows
  <2>3. ReportedOnce'
    BY <2>1 DEF DetectionInv, ReportedOnce
  <2> QED
    BY <2>1, <2>2, <2>3 DEF DetectionInv
<1>7. ASSUME NEW e \in Entities, Flag(e) \/ UnflagCheck(e) \/ UnflagWrite(e)
             \/ \E n \in Tallies : Count(e, n)
      PROVE  Settled
  BY <1>7 DEF Flag, UnflagCheck, UnflagWrite, Count
<1> QED
  BY <1>1, <1>3, <1>4, <1>5, <1>6, <1>7 DEF AnomaliesNext, AnomalyStatus

LEMMA AnomaliesInvariant == AnomaliesSpec => []AnomaliesInv
<1>1. ASSUME AnomaliesInv, [AnomaliesNext]_anomaliesVars
      PROVE  AnomaliesInv'
  <2>1. CASE AnomaliesNext
    BY <1>1, <2>1, AnomaliesTypeNext, DetectionNext DEF AnomaliesInv
  <2>2. CASE UNCHANGED anomaliesVars
    BY <1>1, <2>2
    DEF anomaliesVars, AnomaliesInv, AnomaliesTypeOK, DetectionInv, ClearFits, ReportedOnce,
        Rows
  <2> QED
    BY <1>1, <2>1, <2>2
<1> QED
  BY <1>1, AnomaliesInitInv, PTL DEF AnomaliesSpec

\* The counts, the rows and the runs of the rule engine keep their types.
THEOREM AnomaliesTypeCorrect == AnomaliesSpec => []AnomaliesTypeOK
BY AnomaliesInvariant, PTL DEF AnomaliesInv

\* However many runs and administrators: two rows of one issue are unresolved together
\* only if the later one's run sought a duplicate before the earlier row was there.
THEOREM IssuesReportedOnce == AnomaliesSpec => []ReportedOnce
BY AnomaliesInvariant, PTL DEF AnomaliesInv, DetectionInv
-----------------------------------------------------------------------------
\* The composition.

\* Every step of MCPlatform is a step of one component and leaves the others alone, so
\* that what is proved of a component holds of it.
THEOREM PlatformComposes ==
  Spec => /\ SessionsSpec /\ CodesSpec /\ LoginSpec
          /\ NotificationsSpec /\ AnomaliesSpec
<1>1. Init => SessionsInit /\ CodesInit /\ LoginInit /\ NotificationsInit /\ AnomaliesInit
  BY DEF Init
<1>2. [Next]_vars =>
        /\ [SessionsNext]_sessionsVars /\ [CodesNext]_codesVars /\ [LoginNext]_loginVars
        /\ [NotificationsNext]_notificationsVars /\ [AnomaliesNext]_anomaliesVars
  BY DEF Next, vars, otherThanSessions, otherThanCodes, otherThanLogins, otherThanInbox,
         otherThanAnomalies, TwoRuns, OneRun, NotificationsNext
<1> QED
  BY <1>1, <1>2, PTL DEF Spec, SessionsSpec, CodesSpec, LoginSpec, NotificationsSpec,
                         AnomaliesSpec

\* Every variable of the five components has its type.
THEOREM PlatformTypeCorrect == Spec => []PlatformTypeOK
BY PlatformComposes, SessionsTypeCorrect, CodesTypeCorrect, LoginTypeCorrect,
   NotificationsTypeCorrect, AnomaliesTypeCorrect, PTL
DEF PlatformTypeOK

\* A count of requests or of failures that turns people away comes to an end, unless a
\* process has ended between INCR and EXPIRE.
THEOREM CountsEnd == Spec => []CountersEnd
BY PlatformComposes, RateWindowsEnd, LockoutsEnd, PTL DEF CountersEnd
=============================================================================
