------------------------------ MODULE MCOwners ------------------------------
(***************************************************************************)
(* The review of a property, disputes and payouts on small instances.  The *)
(* three share no variable, so a behaviour of all is a behaviour of each:  *)
(* part names the one that is explored and the others stay where they      *)
(* began.  The review of one property and the numbering of two are apart.  *)
(***************************************************************************)
EXTENDS PropertyReview, Disputes, Payouts, TLC

CONSTANTS
  x1, x2, y1, y2, r1, b1, o1, p1, p2,
  Parts        \* the components that are explored

VARIABLE part

\* Both disputes, and the administrators' refund, are about one booking.
MCBookingOf == [g \in Grants |-> b1]

\* Each property has one booking, which the overlapping cycles of two days cover.
MCPropertyOf == [b \in Stays |-> b]
MCCheckOut == [b \in Stays |-> 1]
MCShare == [b \in Stays |-> 1]

Init ==
  /\ ReviewInit
  /\ DisputesInit
  /\ PayoutsInit
  /\ part \in Parts

\* One property, with its administrators; two, before any administrator.
OneProperty == ReviewNext /\ UNCHANGED onboarding[p2]

NoModeration == ReviewNext /\ UNCHANGED moderation

Next ==
  \/ part = "review" /\ OneProperty /\ UNCHANGED <<part, disputesVars, payoutsVars>>
  \/ part = "numbers" /\ NoModeration /\ UNCHANGED <<part, disputesVars, payoutsVars>>
  \/ part = "disputes" /\ DisputesNext /\ UNCHANGED <<part, reviewVars, payoutsVars>>
  \/ part = "payouts" /\ PayoutsNext /\ UNCHANGED <<part, reviewVars, disputesVars>>

Spec == Init /\ [][Next]_<<part, reviewVars, disputesVars, payoutsVars>>

\* The parts use the same model values, so that the permutations of one serve the
\* others: owners' requests, disputes and generations; moderations, sweepers and
\* clerks.
MCSymmetry == Permutations({x1, x2}) \cup Permutations({y1, y2})
=============================================================================
