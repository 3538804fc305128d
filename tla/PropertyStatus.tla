--------------------------- MODULE PropertyStatus ---------------------------
(***************************************************************************)
(* What the platform promises about one property under review: the owner   *)
(* submits a draft and resubmits what needs a revision, an administrator   *)
(* decides what is under review, a revision is asked for at most           *)
(* RevisionCap times and after that the property is escalated.  What is    *)
(* approved, rejected or escalated stays so.  The promise ends for a       *)
(* property on which two requests of one side have overlapped: nothing in  *)
(* the code keeps those apart.                                             *)
(***************************************************************************)
EXTENDS Naturals

CONSTANTS
  Listings,        \* properties
  RevisionCap      \* revisions an owner is asked for

VARIABLES
  status,          \* status[p]: the row's status, "absent" before its draft
  rounds           \* rounds[p]: revisions asked for

desk == <<status, rounds>>

Init ==
  /\ status = [p \in Listings |-> "absent"]
  /\ rounds = [p \in Listings |-> 0]

Becomes(p, s) == status' = [status EXCEPT ![p] = s] /\ UNCHANGED rounds

Create(p) == status[p] = "absent" /\ Becomes(p, "draft")

\* submit and revise.
Submit(p) == status[p] \in {"draft", "needs_revision"} /\ Becomes(p, "pending_review")

\* approve and reject.
Decide(p) ==
  /\ status[p] = "pending_review"
  /\ \E verdict \in {"approved", "rejected"} : Becomes(p, verdict)

\* requestRevision below the cap ...
AskRevision(p) ==
  /\ status[p] = "pending_review"
  /\ rounds[p] < RevisionCap
  /\ status' = [status EXCEPT ![p] = "needs_revision"]
  /\ rounds' = [rounds EXCEPT ![p] = @ + 1]

\* ... and at it.
Escalate(p) ==
  status[p] = "pending_review" /\ rounds[p] = RevisionCap /\ Becomes(p, "escalated")

\* Two submissions or two moderations of p are under way at once.
Overlap(p) ==
  /\ status[p] # "overlapped"
  /\ status' = [status EXCEPT ![p] = "overlapped"]
  /\ rounds' = [rounds EXCEPT ![p] = 0]

Next ==
  \E p \in Listings :
    Create(p) \/ Submit(p) \/ Decide(p) \/ AskRevision(p) \/ Escalate(p) \/ Overlap(p)

Spec == Init /\ [][Next]_desk
=============================================================================
