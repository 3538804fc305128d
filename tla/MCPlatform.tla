----------------------------- MODULE MCPlatform -----------------------------
(***************************************************************************)
(* Sessions, one-time codes, the login lockout, the inbox, the reminders   *)
(* and the rule engine on small instances.  They share no variable: part   *)
(* names the one that is explored, and the others stay where they began.   *)
(***************************************************************************)
EXTENDS Sessions, OneTimeCodes, LoginLockout, Notifications, Anomalies, TLC

CONSTANTS x1, x2, r1, r2, v1, v2, s1, i1, i2

VARIABLE part

\* The two verifications run on two instances, and the sending on one of them.
MCConnectionOf == [x \in Verifiers \cup Senders |-> IF x = v2 THEN i2 ELSE i1]

Tally(total, cancelled) ==
  [c \in Counters |->
    IF c = "total" THEN total ELSE IF c = "cancelled" THEN cancelled ELSE 0]

\* An entity whose cancellations are just not too many, and one whose are.
Rates == {Tally(5, 1), Tally(5, 2)}

\* Every count at the largest value that no rule minds ...
AtLimits ==
  [total |-> 5, cancelled |-> 1, failed |-> 5, overlaps |-> 0, recent |-> 5,
   noShows |-> 3, lateNight |-> 10, refunded |-> 2, flagged |-> 0, guestFavour |-> 5]

\* ... and one of them beyond it.
BeyondOne ==
  {[AtLimits EXCEPT ![c] = @ + 1] : c \in Counters \ {"total", "flagged"}}

MCTallies == Rates \cup {AtLimits} \cup BeyondOne

otherThanSessions == <<codesVars, loginVars, notificationsVars, anomaliesVars>>
otherThanCodes == <<sessionsVars, loginVars, notificationsVars, anomaliesVars>>
otherThanLogins == <<sessionsVars, codesVars, notificationsVars, anomaliesVars>>
otherThanInbox == <<sessionsVars, codesVars, loginVars, anomaliesVars>>
otherThanAnomalies == <<sessionsVars, codesVars, loginVars, notificationsVars>>

vars == <<part, sessionsVars, codesVars, loginVars, notificationsVars, anomaliesVars>>

Init ==
  /\ SessionsInit
  /\ CodesInit
  /\ LoginInit
  /\ NotificationsInit
  /\ AnomaliesInit
  /\ part \in
       {"sessions", "codes", "logins", "inbox", "reminders", "anomalies", "rules"}

\* Two runs that one rule concerns; and one run that any rule may concern, up to the
\* first row.
TwoRuns == AnomaliesNext /\ \A e \in Entities : tally'[e].lateNight = 0

OneRun == AnomaliesNext /\ UNCHANGED <<detect[2], unflagging>> /\ Len(anomaly') <= 1

Next ==
  /\ UNCHANGED part
  /\ \/ part = "sessions" /\ SessionsNext /\ UNCHANGED otherThanSessions
     \/ part = "codes" /\ CodesNext /\ UNCHANGED otherThanCodes
     \/ part = "logins" /\ LoginNext /\ UNCHANGED otherThanLogins
     \/ part = "inbox" /\ InboxNext /\ UNCHANGED otherThanInbox
     \/ part = "reminders" /\ RemindersNext /\ UNCHANGED otherThanInbox
     \/ part = "anomalies" /\ TwoRuns /\ UNCHANGED otherThanAnomalies
     \/ part = "rules" /\ OneRun /\ UNCHANGED otherThanAnomalies

Spec == Init /\ [][Next]_vars

\* Every variable of these modules has its type.
PlatformTypeOK ==
  SessionsTypeOK /\ CodesTypeOK /\ LoginTypeOK /\ NotificationsTypeOK /\ AnomaliesTypeOK

\* Whatever process ends in the middle of a request: a count that turns requests for a
\* code down, and one that locks a login out, comes to an end, or else a process has
\* ended in the one place where the code leaves the key without a time to live.
CountersEnd == RateWindowEnds /\ LockoutEnds

\* Two registrations, two logins, and two events are alike.
MCSymmetry == Permutations({x1, x2})
=============================================================================
