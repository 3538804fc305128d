---------------------------- MODULE MCBackOffice ----------------------------
(***************************************************************************)
(* Reviews on a small instance, and the jobs of Disputes and Sessions      *)
(* under their fairness.  The three share no variable: part names the one  *)
(* that is explored, and the others stay where they began.                 *)
(***************************************************************************)
EXTENDS Reviews, Disputes, Sessions

CONSTANTS d1, b1, o1, s1, w1, w2, c1, c2

VARIABLE part

MCBookingOf == [g \in Grants |-> b1]

otherThanReviews == <<disputesVars, sessionsVars>>
otherThanDisputes == <<reviewsVars, sessionsVars>>
otherThanSessions == <<reviewsVars, disputesVars>>

vars == <<part, reviewsVars, disputesVars, sessionsVars>>

Init ==
  /\ ReviewsInit
  /\ DisputesInit
  /\ SessionsInit
  /\ part \in {"reviews", "disputes", "sessions"}

Next ==
  /\ UNCHANGED part
  /\ \/ part = "reviews" /\ ReviewsNext /\ UNCHANGED otherThanReviews
     \/ part = "disputes" /\ DisputesNext /\ UNCHANGED otherThanDisputes
     \/ part = "sessions" /\ SessionsNext /\ UNCHANGED otherThanSessions

Spec == Init /\ [][Next]_vars

\* The fairness of a part binds the behaviours that explore it.
FairSpec ==
  /\ Spec
  /\ part = "disputes" => DisputesFairness
  /\ part = "sessions" => SessionsFairness
=============================================================================
