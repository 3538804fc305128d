--------------------------- MODULE DisputeStatus ---------------------------
(***************************************************************************)
(* What the dispute desk promises about one dispute: the moves its status  *)
(* may make, whoever makes them.  Administrators, the property's staff and *)
(* the auto-close job all write the column; once a dispute is decided or   *)
(* escalated nobody moves it again.                                        *)
(***************************************************************************)
CONSTANT Disputes        \* the dispute rows

VARIABLE status          \* status[d]: the row's status, "absent" before it is filed

Open == {"filed", "under_review", "awaiting_hotel_response"}

Decided == {"resolved_guest", "resolved_partial", "resolved_hotel",
            "resolved_wallet_credit", "closed_no_response", "escalated"}

Status == {"absent"} \cup Open \cup Decided

Moves ==
  { <<"absent", "filed">>,                            \* the guest files
    <<"filed", "under_review">>,                      \* an administrator looks
    <<"filed", "awaiting_hotel_response">>,           \* the hotel is asked
    <<"under_review", "awaiting_hotel_response">>,
    <<"awaiting_hotel_response", "under_review">> }   \* the hotel answers
  \cup (Open \X Decided)                              \* resolve and auto-close

Init == status = [d \in Disputes |-> "absent"]

\* One row makes one of the moves and the others stay.
Move(d) ==
  /\ <<status[d], status'[d]>> \in Moves
  /\ status' = [status EXCEPT ![d] = status'[d]]

Next == \E d \in Disputes : Move(d)

Spec == Init /\ [][Next]_status
=============================================================================
