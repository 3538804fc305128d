----------------------------- MODULE MCBookings -----------------------------
(***************************************************************************)
(* A booking on two small instances, too large for one: part names the one *)
(* that is explored.                                                       *)
(***************************************************************************)
EXTENDS MCBookingLifecycle, FiniteSets

VARIABLE part

PartsInit == Init /\ part \in {"payments", "stays"}

\* Two payment orders, and the two kinds of a booking, one of them without commission;
\* no refund and no extension by an administrator.
PaymentsNext ==
  /\ Next
  /\ \A h \in DOMAIN req : req'[h].op \notin {"refund", "extend"}
  /\ \A b \in Bookings : booking'[b].kind = "hourly" <=> booking'[b].price.fee = 0

\* Orders that the gateway or the tables know.
KnownOrders ==
  {o \in Orders :
     payment[o] # NoPayment \/ \E h \in DOMAIN req : req[h] # Idle /\ req[h].order = o}

\* Every operation on a booking for full days, with commission and one order at a time.
StaysNext ==
  /\ Next
  /\ Cardinality(KnownOrders') <= 1
  /\ \A b \in Bookings :
       booking'[b] # NoRow => booking'[b].kind = "fullday" /\ booking'[b].price \in MCPrices

PartsNext ==
  \/ part = "payments" /\ PaymentsNext /\ UNCHANGED part
  \/ part = "stays" /\ StaysNext /\ UNCHANGED part

PartsSpec == PartsInit /\ [][PartsNext]_<<part, vars>>
=============================================================================
