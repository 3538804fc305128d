------------------------------ MODULE Anomalies ------------------------------
(***************************************************************************)
(* The rule engine that looks for anomalies every five minutes, and the    *)
(* administrators who resolve them.  A run takes the rules one after the   *)
(* other; for each entity that a rule holds of it looks for an unresolved  *)
(* anomaly and, when there is none, creates one.  No lock keeps the runs   *)
(* of two instances apart, and no unique index the rows.                   *)
(***************************************************************************)
EXTENDS Integers, Sequences

CONSTANTS
  Entities,    \* properties, customers and bookings
  Tallies,     \* what the queries may count of an entity
  Detections,  \* runs that can be in flight
  MaxAnomalies \* bound: rows of Anomaly

Counters ==
  {"total", "cancelled", "failed", "overlaps", "recent", "noShows", "lateNight",
   "refunded", "flagged", "guestFavour"}

ASSUME AnomaliesAssumption ==
  /\ Tallies \subseteq [Counters -> Nat]
  /\ MaxAnomalies \in Nat

VARIABLES
  tally,    \* tally[e]: the counts of the entity e
  anomaly,  \* the rows of Anomaly in the order of their creation
  knew,     \* history: knew[i]: the rows there were when row i's duplicate was sought
  detect,   \* detect[d]: the run d
  unflagging \* bookings an unflag has found flagged

anomaliesVars == <<tally, anomaly, knew, detect, unflagging>>

-----------------------------------------------------------------------------
\* The rules: the HAVING of the query and the threshold after it.
HighCancellationRate(n) == n.total >= 5 /\ 10 * n.cancelled > 3 * n.total

PaymentFailureSpike(n) == n.failed > 5

Overbooking(n) == n.overlaps > 0

BookingVelocity(n) == n.recent > 5

NoShowCluster(n) == n.noShows > 3

LateNightSpike(n) == n.lateNight > 10

RefundAbuse(n) == n.total >= 5 /\ 10 * n.refunded > 4 * n.total

ManualFlags(n) == n.flagged > 0

GuestFavourDisputes(n) == n.guestFavour > 5

\* The order of runDetection.
Rules ==
  <<"ANO-001", "ANO-002", "ANO-003", "ANO-004", "ANO-006", "ANO-007", "ANO-009",
    "ANO-010", "ANO-011">>

Holds(rule, n) ==
  \/ rule = "ANO-001" /\ HighCancellationRate(n)
  \/ rule = "ANO-002" /\ PaymentFailureSpike(n)
  \/ rule = "ANO-003" /\ Overbooking(n)
  \/ rule = "ANO-004" /\ BookingVelocity(n)
  \/ rule = "ANO-006" /\ NoShowCluster(n)
  \/ rule = "ANO-007" /\ LateNightSpike(n)
  \/ rule = "ANO-009" /\ RefundAbuse(n)
  \/ rule = "ANO-010" /\ ManualFlags(n)
  \/ rule = "ANO-011" /\ GuestFavourDisputes(n)

Candidates(rule) == {e \in Entities : Holds(rule, tally[e])}

AnomalyStatus ==
  {"detected", "investigating", "resolved_action", "resolved_fp", "escalated"}

Unresolved == {"detected", "investigating"}

RuleNumbers == DOMAIN Rules

Row == [rule : RuleNumbers, entity : Entities, status : AnomalyStatus]

Still == [stage |-> "still"]

\* scanning: todo holds the candidates of the rule that are left.  clear: no duplicate
\* of entity was found among the rows there were.
Detection ==
  [stage : {"scanning"}, rule : RuleNumbers, todo : SUBSET Entities]
  \cup [stage : {"clear"}, rule : RuleNumbers, todo : SUBSET Entities,
        entity : Entities, rows : Nat]

Rows == DOMAIN anomaly

\* findUnresolvedByRule.
IsDuplicate(rule, e) ==
  \E i \in Rows :
    anomaly[i].rule = rule /\ anomaly[i].entity = e /\ anomaly[i].status \in Unresolved
-----------------------------------------------------------------------------
AnomaliesInit ==
  /\ tally = [e \in Entities |-> [c \in Counters |-> 0]]
  /\ anomaly = <<>>
  /\ knew = <<>>
  /\ detect = [d \in Detections |-> Still]
  /\ unflagging = {}

\* Bookings come, are cancelled, fail, and leave the windows of the rules.
Count(e, n) ==
  /\ tally' = [tally EXCEPT ![e] = [n EXCEPT !.flagged = tally[e].flagged]]
  /\ UNCHANGED <<anomaly, knew, detect, unflagging>>

\* flag: the administrator's flag of a booking, whatever its status.
Flag(e) ==
  /\ tally' = [tally EXCEPT ![e].flagged = 1]
  /\ UNCHANGED <<anomaly, knew, detect, unflagging>>

\* unflag of a booking that is flagged ...
UnflagCheck(e) ==
  /\ tally[e].flagged = 1
  /\ unflagging' = unflagging \cup {e}
  /\ UNCHANGED <<tally, anomaly, knew, detect>>

\* ... and its update.
UnflagWrite(e) ==
  /\ e \in unflagging
  /\ tally' = [tally EXCEPT ![e].flagged = 0]
  /\ unflagging' = unflagging \ {e}
  /\ UNCHANGED <<anomaly, knew, detect>>

\* runDetection asks for the candidates of its first rule.
DetectStart(d) ==
  /\ detect[d] = Still
  /\ detect' = [detect EXCEPT ![d] =
       [stage |-> "scanning", rule |-> 1, todo |-> Candidates(Rules[1])]]
  /\ UNCHANGED <<tally, anomaly, knew, unflagging>>

\* The next rule, or the end.
DetectNext(d) ==
  LET r == detect[d] IN
  /\ r.stage = "scanning"
  /\ r.todo = {}
  /\ detect' = [detect EXCEPT ![d] =
       IF r.rule < Len(Rules)
         THEN [stage |-> "scanning", rule |-> r.rule + 1,
               todo |-> Candidates(Rules[r.rule + 1])]
         ELSE Still]
  /\ UNCHANGED <<tally, anomaly, knew, unflagging>>

\* MUTANT: only an anomaly that nobody has looked at is a duplicate.
DetectCheckDetected(d, e) ==
  LET r == detect[d] IN
  /\ r.stage = "scanning"
  /\ e \in r.todo
  /\ detect' = [detect EXCEPT ![d] =
       IF \E i \in Rows : /\ anomaly[i].rule = r.rule
                          /\ anomaly[i].entity = e
                          /\ anomaly[i].status = "detected"
         THEN [r EXCEPT !.todo = @ \ {e}]
         ELSE [stage |-> "clear", rule |-> r.rule, todo |-> r.todo \ {e}, entity |-> e,
               rows |-> Len(anomaly)]]
  /\ UNCHANGED <<tally, anomaly, knew, unflagging>>

\* isDuplicate ...
DetectCheck(d, e) ==
  LET r == detect[d] IN
  /\ r.stage = "scanning"
  /\ e \in r.todo
  /\ detect' = [detect EXCEPT ![d] =
       IF IsDuplicate(r.rule, e)
         THEN [r EXCEPT !.todo = @ \ {e}]
         ELSE [stage |-> "clear", rule |-> r.rule, todo |-> r.todo \ {e}, entity |-> e,
               rows |-> Len(anomaly)]]
  /\ UNCHANGED <<tally, anomaly, knew, unflagging>>

\* ... and create.
DetectCreate(d) ==
  LET r == detect[d] IN
  /\ r.stage = "clear"
  /\ Len(anomaly) < MaxAnomalies                                     \* bound
  /\ anomaly' = Append(anomaly,
       [rule |-> r.rule, entity |-> r.entity, status |-> "detected"])
  /\ knew' = Append(knew, r.rows)
  /\ detect' = [detect EXCEPT ![d] =
       [stage |-> "scanning", rule |-> r.rule, todo |-> r.todo]]
  /\ UNCHANGED <<tally, unflagging>>

\* A query fails or the process ends: the run is over, and no rule after it is tried.
DetectStop(d) ==
  /\ detect[d] # Still
  /\ detect' = [detect EXCEPT ![d] = Still]
  /\ UNCHANGED <<tally, anomaly, knew, unflagging>>

-----------------------------------------------------------------------------
\* getDetail: an administrator opens it.
ViewAnomaly(i) ==
  /\ anomaly[i].status = "detected"
  /\ anomaly' = [anomaly EXCEPT ![i].status = "investigating"]
  /\ UNCHANGED <<tally, knew, detect, unflagging>>

\* updateStatus, with its conditional UPDATE.
UpdateStatus(i, to) ==
  /\ anomaly[i].status \in (IF to = "investigating" THEN {"detected"} ELSE Unresolved)
  /\ to # "detected"
  /\ anomaly' = [anomaly EXCEPT ![i].status = to]
  /\ UNCHANGED <<tally, knew, detect, unflagging>>

AnomaliesNext ==
  \/ \E e \in Entities :
       \/ \E n \in Tallies : Count(e, n)
       \/ Flag(e) \/ UnflagCheck(e) \/ UnflagWrite(e)
       \/ \E d \in Detections : DetectCheck(d, e)
  \/ \E d \in Detections :
       DetectStart(d) \/ DetectNext(d) \/ DetectCreate(d) \/ DetectStop(d)
  \/ \E i \in Rows : ViewAnomaly(i) \/ \E to \in AnomalyStatus : UpdateStatus(i, to)

AnomaliesSpec == AnomaliesInit /\ [][AnomaliesNext]_anomaliesVars

-----------------------------------------------------------------------------
\* Properties.

\* Every variable has its type.
AnomaliesTypeOK ==
  /\ tally \in [Entities -> [Counters -> Nat]]
  /\ anomaly \in Seq(Row)
  /\ Len(anomaly) <= MaxAnomalies
  /\ knew \in Seq(Nat)
  /\ detect \in [Detections -> Detection \cup {Still}]
  /\ unflagging \in SUBSET Entities

\* An ongoing issue is one unresolved anomaly, however administrators and the engine
\* move it: two of one rule and entity are unresolved together only if the later
\* one's run looked for a duplicate before the earlier was created.
ReportedOnce ==
  \A i, j \in Rows :
    /\ i < j
    /\ anomaly[i].rule = anomaly[j].rule
    /\ anomaly[i].entity = anomaly[j].entity
    /\ {anomaly[i].status, anomaly[j].status} \subseteq Unresolved
    => knew[j] < i
=============================================================================
