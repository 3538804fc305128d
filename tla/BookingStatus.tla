--------------------------- MODULE BookingStatus ---------------------------
(***************************************************************************)
(* What the booking engine promises about one booking: the moves its       *)
(* status may make, whoever makes them.  Guests, administrators and the    *)
(* scheduled jobs all write the same column, each through a conditional    *)
(* UPDATE naming the status it starts from; Moves collects those pairs.    *)
(***************************************************************************)
CONSTANT Bookings       \* the booking rows

VARIABLE status         \* status[b]: the row's status, "absent" before it is inserted

Active == {"pending_payment", "confirmed", "checked_in"}

Terminal == {"completed", "cancelled", "no_show", "voided"}

Status == {"absent"} \cup Active \cup Terminal

Moves ==
  { <<"absent", "pending_payment">>,      \* POST /bookings
    <<"pending_payment", "confirmed">>,   \* a captured payment
    <<"pending_payment", "cancelled">>,   \* the payment timeout
    <<"confirmed", "checked_in">>,        \* the guest arrives
    <<"confirmed", "cancelled">>,         \* by the guest or an administrator
    <<"confirmed", "voided">>,            \* by an administrator
    <<"confirmed", "no_show">>,           \* the no-show job
    <<"checked_in", "completed">> }       \* manual, forced or automatic check-out

Init == status = [b \in Bookings |-> "absent"]

Move(b) ==
  \E s \in Status :
    /\ <<status[b], s>> \in Moves
    /\ status' = [status EXCEPT ![b] = s]

Next == \E b \in Bookings : Move(b)

Spec == Init /\ [][Next]_status
=============================================================================
