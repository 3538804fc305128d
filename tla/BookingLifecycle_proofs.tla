----------------------- MODULE BookingLifecycle_proofs -----------------------
(***************************************************************************)
(* Proofs about BookingLifecycle, for any bookings, orders, requests, jobs *)
(* and prices.                                                             *)
(***************************************************************************)
EXTENDS BookingLifecycle, TLAPS

Actors == Handlers \cup Sweepers

-----------------------------------------------------------------------------
\* The inductive invariant.

\* What an administrator's action leaves on the row, as long as the row exists.
Effective(op, row) ==
  /\ row.payStatus # "pending"
  /\ op = "void" => row.status = "voided" /\ row.refund = row.total
  /\ op = "admin_cancel" => row.status = "cancelled"
  /\ op = "force_checkout" => row.status = "completed"
  /\ op = "refund" => row.payStatus = "refunded"
  /\ op = "extend" => row.status \in {"checked_in", "completed"}

\* The row of b agrees with the journal and the log, and has waited as long as its
\* status says.
RowSane(b) ==
  LET row == booking[b] IN
  /\ row.status \in {"absent", "pending_payment"} => row.payStatus = "pending"
  /\ row.status \notin {"absent", "pending_payment", "cancelled"} => row.payStatus # "pending"
  /\ row.status # "absent" => row.price \in Prices
  /\ row.status = "pending_payment" => row.total = row.price.base + row.price.gst
  /\ ledger[b] = IF row.payStatus = "pending" THEN Unposted ELSE CaptureOf(row.price)
  /\ row.payStatus = "pending" => row.refund = 0 /\ issued[b] = 0
  /\ row.status = "no_show" => row.checkIn + NoShowGrace < now
  /\ row.status = "cancelled" /\ row.payStatus = "pending" =>
       row.createdAt + PaymentTimeout < now
  /\ row.status = "completed" => row.checkedOutAt <= now
  /\ row.status \in {"checked_in", "completed"} =>
       /\ row.checkIn - EarlyWindow <= row.checkedInAt
       /\ row.checkedInAt <= row.checkIn + NoShowGrace
  /\ \A op \in logged[b] : Effective(op, row)

\* What a request in flight remembers is still true, however stale its row is.
Fits(r) ==
  LET row == booking[r.id] IN
  /\ r.op # "idle" => row.status # "absent"
  /\ r.op = "order" => r.order \in Orders /\ payment[r.order] = NoPayment
  /\ r.op \in {"verify", "forged"} =>
       /\ r.order \in Orders
       /\ payment[r.order] # NoPayment
       /\ payment[r.order].booking = r.id
  /\ r.op = "verify" =>
       r.row.price = row.price /\ r.row.total = row.price.base + row.price.gst
  /\ r.op = "check_in" =>
       row.checkIn - EarlyWindow <= r.at /\ r.at <= row.checkIn + NoShowGrace
  /\ r.op \in {"check_out", "force_checkout"} => r.at <= now
  /\ r.op = "auto_checkout" => r.row.checkOut <= now
  /\ r.op = "no_show" => row.checkIn + NoShowGrace < now
  /\ r.op = "payment_timeout" => row.createdAt + PaymentTimeout < now
  /\ r.op = "refund" /\ r.stage = "write" => r.row.status \in Refundable
  /\ r.op = "void" /\ r.stage = "write" /\ row.status \in {"pending_payment", "confirmed"} =>
       r.amount = row.total
  /\ r.op \in AdminOps /\ r.stage = "audit" => Effective(r.op, row)

\* No two requests are about to record the same order.
OrdersApart ==
  \A g, h \in Actors :
    g # h /\ req[g].op = "order" /\ req[h].op = "order" => req[g].order # req[h].order

IInv ==
  /\ TypeOK
  /\ \A b \in Bookings : RowSane(b)
  /\ \A h \in Actors : Fits(req[h])
  /\ OrdersApart
  /\ OneCapture

-----------------------------------------------------------------------------
\* Types.

LEMMA PolicyRefundType ==
  ASSUME NEW row \in Row, NEW t \in Nat
  PROVE  PolicyRefund(row, t) \in Nat
BY DEF PolicyRefund, Row

LEMMA NoRowType == NoRow \in Row
BY DEF NoRow, Row, Price

\* What a handler has just read fits in a request.
LEMMA SeenType ==
  ASSUME TypeOK, NEW b \in Bookings, NEW op \in HandlerOps \cup SweepOps
  PROVE  /\ Seen(op, b) \in Request
         /\ SeenRow(op, b) \in Request
         /\ SeenNow(op, b) \in Request
<1>1. Seen(op, b) \in Request
  BY NoRowType DEF Seen, Request
<1> QED
  BY <1>1 DEF SeenRow, SeenNow, Request, TypeOK

LEMMA BeginType ==
  ASSUME TypeOK, NEW h \in Actors, NEW r \in Request, Begin(h, r)
  PROVE  TypeOK'
BY DEF TypeOK, Begin, Actors

LEMMA FinishType ==
  ASSUME TypeOK, NEW h \in Actors, Finish(h)
  PROVE  req' \in [Actors -> Request \cup {Idle}]
BY DEF TypeOK, Finish, Actors

LEMMA UpdateType ==
  ASSUME TypeOK, NEW b \in Bookings, NEW from, NEW row \in Row,
         UpdateIfStatus(b, from, row)
  PROVE  booking' \in [Bookings -> Row]
BY DEF TypeOK, UpdateIfStatus

LEMMA AdminUpdateType ==
  ASSUME TypeOK, NEW h \in Handlers, NEW op \in AdminOps, NEW from, NEW row \in Row,
         AdminUpdate(h, op, from, row)
  PROVE  TypeOK'
<1>1. req[h] \in Request
  BY DEF AdminUpdate, AdminOps, TypeOK, Idle
<1>2. booking' \in [Bookings -> Row]
  BY <1>1, UpdateType DEF AdminUpdate, Request
<1>3. [req[h] EXCEPT !.stage = "audit", !.row = NoRow] \in Request
  BY <1>1, NoRowType DEF Request
<1>4. req' \in [Actors -> Request \cup {Idle}]
  BY <1>3 DEF AdminUpdate, TypeOK, Actors
<1> QED
  BY <1>2, <1>4 DEF AdminUpdate, TypeOK, Actors

\* The legs of a capture are one for each account.
LEMMA LegsType ==
  ASSUME NEW row \in Row
  PROVE  CaptureLegs(row) \in [Accounts -> Int]
<1>1. \A x \in Int : Leg(x) \in Int
  BY DEF Leg
<1> QED
  BY <1>1 DEF CaptureLegs, Row, Price, Accounts

-----------------------------------------------------------------------------
\* Types are preserved.  That a payment row found by a request is still a payment
\* row when the request writes it is part of IInv.

LEMMA TypeGuest ==
  ASSUME IInv, NEW h \in Handlers, GuestStep(h)
  PROVE  TypeOK'
<1>0. TypeOK /\ h \in Actors /\ now \in Nat /\ Fits(req[h])
  BY DEF IInv, Actors, TypeOK
<1>1. ASSUME NEW b \in Bookings, NEW o \in Orders, CreateOrderRead(h, b, o)
      PROVE  TypeOK'
  <2>1. [Seen("order", b) EXCEPT !.order = o] \in Request
    BY <1>0, SeenType DEF Request, HandlerOps
  <2> QED
    BY <1>0, <1>1, <2>1, BeginType DEF CreateOrderRead
<1>2. ASSUME CreateOrderWrite(h)
      PROVE  TypeOK'
  <2>1. req[h] \in Request
    BY <1>0, <1>2 DEF CreateOrderWrite, TypeOK, Idle
  <2>2. payment' \in [Orders -> Payment \cup {NoPayment}]
    BY <1>0, <1>2, <2>1 DEF CreateOrderWrite, TypeOK, Request, Payment
  <2>3. req' \in [Actors -> Request \cup {Idle}]
    BY <1>0, <1>2, FinishType DEF CreateOrderWrite
  <2> QED
    BY <1>0, <1>2, <2>2, <2>3 DEF CreateOrderWrite, TypeOK, Actors
<1>3. ASSUME NEW o \in Orders, VerifyRead(h, o)
      PROVE  TypeOK'
  <2>1. PICK op \in {"verify", "forged"} :
          Begin(h, [SeenRow(op, payment[o].booking) EXCEPT !.order = o])
    BY <1>3 DEF VerifyRead
  <2>2. payment[o].booking \in Bookings
    BY <1>0, <1>3 DEF VerifyRead, TypeOK, Payment
  <2>3. SeenRow(op, payment[o].booking) \in Request
    BY <1>0, <2>2, SeenType DEF HandlerOps
  <2>4. [SeenRow(op, payment[o].booking) EXCEPT !.order = o] \in Request
    BY <2>3 DEF Request
  <2> QED
    BY <1>0, <2>1, <2>4, BeginType
<1>4. ASSUME RejectWrite(h)
      PROVE  TypeOK'
  <2>1. req[h].order \in Orders /\ payment[req[h].order] \in Payment
    BY <1>0, <1>4 DEF RejectWrite, TypeOK, Fits
  <2>2. payment' \in [Orders -> Payment \cup {NoPayment}]
    BY <1>0, <1>4, <2>1 DEF RejectWrite, TypeOK, Payment
  <2>3. req' \in [Actors -> Request \cup {Idle}]
    BY <1>0, <1>4, FinishType DEF RejectWrite
  <2> QED
    BY <1>0, <1>4, <2>2, <2>3 DEF RejectWrite, TypeOK, Actors
<1>5. ASSUME CaptureWrite(h)
      PROVE  TypeOK'
  <2> DEFINE legs == CaptureLegs(req[h].row)
  <2>1. req[h] \in Request /\ legs \in [Accounts -> Int]
    BY <1>0, <1>5, LegsType DEF CaptureWrite, TypeOK, Idle, Request
  <2>2. req' \in [Actors -> Request \cup {Idle}]
    BY <1>0, <1>5, FinishType DEF CaptureWrite
  <2>3. CASE UNCHANGED <<booking, payment, ledger>>
    BY <1>0, <1>5, <2>2, <2>3 DEF CaptureWrite, TypeOK, Actors
  <2>4. CASE booking[req[h].id].status = "pending_payment" /\ Balanced(legs)
    <3>1. req[h].order \in Orders /\ payment[req[h].order] \in Payment
      BY <1>0, <1>5 DEF CaptureWrite, TypeOK, Fits
    <3>2. /\ booking' = [booking EXCEPT ![req[h].id] = ConfirmedRow(booking[req[h].id])]
          /\ payment' = [payment EXCEPT ![req[h].order] = CapturedRow(payment[req[h].order])]
      BY <1>5, <2>4 DEF CaptureWrite
    <3>3. ConfirmedRow(booking[req[h].id]) \in Row
      BY <1>0, <2>1 DEF ConfirmedRow, TypeOK, Request, Row, Active
    <3>4. CapturedRow(payment[req[h].order]) \in Payment
      BY <3>1 DEF CapturedRow, Payment
    <3>5. /\ booking' \in [Bookings -> Row]
          /\ payment' \in [Orders -> Payment \cup {NoPayment}]
      BY <1>0, <3>2, <3>3, <3>4 DEF TypeOK
    <3>6. ledger' \in [Bookings -> [Accounts -> Int]]
      <4> HIDE DEF legs
      <4>1. Post(req[h].id, legs)
        BY <1>5, <2>4 DEF CaptureWrite, legs
      <4> QED
        BY <1>0, <2>1, <4>1 DEF Post, TypeOK, Request
    <3> QED
      BY <1>0, <1>5, <2>2, <3>5, <3>6 DEF CaptureWrite, TypeOK, Actors
  <2> QED
    BY <1>5, <2>3, <2>4 DEF CaptureWrite
<1>6. ASSUME NEW b \in Bookings, CheckInRead(h, b) \/ CheckOutRead(h, b)
      PROVE  TypeOK'
  <2>1. SeenNow("check_in", b) \in Request /\ SeenNow("check_out", b) \in Request
    BY <1>0, SeenType DEF HandlerOps
  <2> QED
    BY <1>0, <1>6, <2>1, BeginType DEF CheckInRead, CheckOutRead
<1>7. ASSUME CheckInWrite(h)
      PROVE  TypeOK'
  <2>1. req[h] \in Request
    BY <1>0, <1>7 DEF CheckInWrite, TypeOK, Idle
  <2>2. booking[req[h].id] \in Row
    BY <1>0, <2>1 DEF TypeOK, Request
  <2>3. [booking[req[h].id] EXCEPT !.status = "checked_in",
                                   !.checkedInAt = req[h].at, !.qr = FALSE] \in Row
    BY <2>1, <2>2 DEF Row, Request, Active, Terminal
  <2>4. booking' \in [Bookings -> Row]
    BY <1>0, <1>7, <2>1, <2>3, UpdateType DEF CheckInWrite, Request
  <2>5. req' \in [Actors -> Request \cup {Idle}]
    BY <1>0, <1>7, FinishType DEF CheckInWrite
  <2> QED
    BY <1>0, <1>7, <2>1, <2>4, <2>5 DEF CheckInWrite, TypeOK, Actors, Request
<1>8. ASSUME CheckOutWrite(h)
      PROVE  TypeOK'
  <2>1. req[h] \in Request
    BY <1>0, <1>8 DEF CheckOutWrite, TypeOK, Idle
  <2>2. booking[req[h].id] \in Row
    BY <1>0, <2>1 DEF TypeOK, Request
  <2>3. [booking[req[h].id] EXCEPT !.status = "completed",
                                   !.checkedOutAt = req[h].at] \in Row
    BY <2>1, <2>2 DEF Row, Request, Active, Terminal
  <2>4. booking' \in [Bookings -> Row]
    BY <1>0, <1>8, <2>1, <2>3, UpdateType DEF CheckOutWrite, Request
  <2>5. req' \in [Actors -> Request \cup {Idle}]
    BY <1>0, <1>8, FinishType DEF CheckOutWrite
  <2> QED
    BY <1>0, <1>8, <2>1, <2>4, <2>5 DEF CheckOutWrite, TypeOK, Actors, Request
<1>9. ASSUME NEW b \in Bookings, CancelRead(h, b)
      PROVE  TypeOK'
  <2>1. PolicyRefund(booking[b], now) \in Nat
    BY <1>0, PolicyRefundType DEF TypeOK
  <2>2. [Seen("cancel", b) EXCEPT !.amount = PolicyRefund(booking[b], now)] \in Request
    BY <1>0, <2>1, SeenType DEF Request, HandlerOps
  <2> QED
    BY <1>0, <1>9, <2>2, BeginType DEF CancelRead
<1>10. ASSUME CancelWrite(h)
       PROVE  TypeOK'
  <2>1. req[h] \in Request
    BY <1>0, <1>10 DEF CancelWrite, TypeOK, Idle
  <2>2. booking[req[h].id] \in Row
    BY <1>0, <2>1 DEF TypeOK, Request
  <2>3. [booking[req[h].id] EXCEPT !.status = "cancelled",
                                   !.refund = req[h].amount] \in Row
    BY <2>1, <2>2 DEF Row, Request, Active, Terminal
  <2>4. booking' \in [Bookings -> Row]
    BY <1>0, <1>10, <2>1, <2>3, UpdateType DEF CancelWrite, Request
  <2>5. req' \in [Actors -> Request \cup {Idle}]
    BY <1>0, <1>10, FinishType DEF CancelWrite
  <2> QED
    BY <1>0, <1>10, <2>1, <2>4, <2>5 DEF CancelWrite, TypeOK, Actors, Request
<1> QED
  BY <1>1, <1>2, <1>3, <1>4, <1>5, <1>6, <1>7, <1>8, <1>9, <1>10 DEF GuestStep

LEMMA TypeAdmin ==
  ASSUME IInv, NEW h \in Handlers, AdminStep(h)
  PROVE  TypeOK'
<1>0. TypeOK /\ h \in Actors /\ now \in Nat /\ Fits(req[h])
  BY DEF IInv, Actors, TypeOK
<1>1. ASSUME NEW b \in Bookings, VoidRead(h, b)
      PROVE  TypeOK'
  <2>1. booking[b].total \in Nat
    BY <1>0 DEF TypeOK, Row
  <2>2. [Seen("void", b) EXCEPT !.amount = booking[b].total] \in Request
    BY <1>0, <2>1, SeenType DEF Request, HandlerOps, AdminOps
  <2> QED
    BY <1>0, <1>1, <2>2, BeginType DEF VoidRead
<1>2. ASSUME NEW b \in Bookings, AdminCancelRead(h, b)
      PROVE  TypeOK'
  <2>1. PolicyRefund(booking[b], now) \in Nat
    BY <1>0, PolicyRefundType DEF TypeOK
  <2>2. [Seen("admin_cancel", b) EXCEPT !.amount = PolicyRefund(booking[b], now)]
          \in Request
    BY <1>0, <2>1, SeenType DEF Request, HandlerOps, AdminOps
  <2> QED
    BY <1>0, <1>2, <2>2, BeginType DEF AdminCancelRead
<1>3. ASSUME NEW b \in Bookings, NEW amount \in RefundAmounts, RefundRead(h, b, amount)
      PROVE  TypeOK'
  <2>1. amount \in Nat
    BY AmountAssumption
  <2>2. [SeenRow("refund", b) EXCEPT !.amount = amount] \in Request
    BY <1>0, <2>1, SeenType DEF Request, HandlerOps, AdminOps
  <2> QED
    BY <1>0, <1>3, <2>2, BeginType DEF RefundRead
<1>4. ASSUME NEW b \in Bookings, ForceCheckoutRead(h, b)
      PROVE  TypeOK'
  <2>1. SeenNow("force_checkout", b) \in Request
    BY <1>0, SeenType DEF HandlerOps, AdminOps
  <2> QED
    BY <1>0, <1>4, <2>1, BeginType DEF ForceCheckoutRead
<1>5. ASSUME NEW b \in Bookings, NEW until \in 1 .. MaxTime, NEW fee \in ExtensionFees,
             ExtendRead(h, b, until, fee)
      PROVE  TypeOK'
  <2>1. until \in Nat /\ fee \in Nat
    BY AmountAssumption, TimeAssumption
  <2>2. SeenRow("extend", b) \in Request
    BY <1>0, SeenType DEF HandlerOps, AdminOps
  <2>3. [SeenRow("extend", b) EXCEPT !.until = until, !.amount = fee] \in Request
    BY <2>1, <2>2 DEF Request
  <2> QED
    BY <1>0, <1>5, <2>3, BeginType DEF ExtendRead
<1>6. ASSUME VoidWrite(h)
      PROVE  TypeOK'
  <2>1. req[h] \in Request
    BY <1>0, <1>6 DEF VoidWrite, AdminUpdate, TypeOK, Idle
  <2>2. booking[req[h].id] \in Row
    BY <1>0, <2>1 DEF TypeOK, Request
  <2>3. [booking[req[h].id] EXCEPT !.status = "voided", !.payStatus = "refunded",
                                   !.refund = req[h].amount] \in Row
    BY <2>1, <2>2 DEF Row, Request, Active, Terminal
  <2> QED
    BY <1>0, <1>6, <2>3, AdminUpdateType DEF VoidWrite, AdminOps
<1>7. ASSUME AdminCancelWrite(h)
      PROVE  TypeOK'
  <2>1. req[h] \in Request
    BY <1>0, <1>7 DEF AdminCancelWrite, AdminUpdate, TypeOK, Idle
  <2>2. booking[req[h].id] \in Row
    BY <1>0, <2>1 DEF TypeOK, Request
  <2>3. [booking[req[h].id] EXCEPT !.status = "cancelled", !.refund = req[h].amount] \in Row
    BY <2>1, <2>2 DEF Row, Request, Active, Terminal
  <2> QED
    BY <1>0, <1>7, <2>3, AdminUpdateType DEF AdminCancelWrite, AdminOps
<1>8. ASSUME RefundWrite(h)
      PROVE  TypeOK'
  <2>1. req[h] \in Request
    BY <1>0, <1>8 DEF RefundWrite, AdminUpdate, TypeOK, Idle
  <2>2. booking[req[h].id] \in Row
    BY <1>0, <2>1 DEF TypeOK, Request
  <2>3. req[h].row.refund + req[h].amount \in Nat
    BY <2>1 DEF Row, Request
  <2>4. [booking[req[h].id] EXCEPT !.refund = req[h].row.refund + req[h].amount,
                                   !.payStatus = "refunded"] \in Row
    BY <2>1, <2>2, <2>3 DEF Row, Request, Active, Terminal
  <2> QED
    BY <1>0, <1>8, <2>4, AdminUpdateType DEF RefundWrite, AdminOps
<1>9. ASSUME ForceCheckoutWrite(h)
      PROVE  TypeOK'
  <2>1. req[h] \in Request
    BY <1>0, <1>9 DEF ForceCheckoutWrite, AdminUpdate, TypeOK, Idle
  <2>2. booking[req[h].id] \in Row
    BY <1>0, <2>1 DEF TypeOK, Request
  <2>3. [booking[req[h].id] EXCEPT !.status = "completed",
                                   !.checkedOutAt = req[h].at] \in Row
    BY <2>1, <2>2 DEF Row, Request, Active, Terminal
  <2> QED
    BY <1>0, <1>9, <2>3, AdminUpdateType DEF ForceCheckoutWrite, AdminOps
<1>10. ASSUME ExtendWrite(h)
       PROVE  TypeOK'
  <2>1. req[h] \in Request
    BY <1>0, <1>10 DEF ExtendWrite, AdminUpdate, TypeOK, Idle
  <2>2. booking[req[h].id] \in Row
    BY <1>0, <2>1 DEF TypeOK, Request
  <2>3. req[h].row.total + req[h].amount \in Nat
    BY <2>1 DEF Row, Request
  <2>4. [booking[req[h].id] EXCEPT !.checkOut = req[h].until,
                                   !.total = req[h].row.total + req[h].amount] \in Row
    BY <2>1, <2>2, <2>3 DEF Row, Request, Active, Terminal
  <2> QED
    BY <1>0, <1>10, <2>4, AdminUpdateType DEF ExtendWrite, AdminOps
<1>11. ASSUME Audit(h)
       PROVE  TypeOK'
  <2>1. req[h] \in Request /\ req[h].op \in AdminOps
    BY <1>0, <1>11 DEF Audit, AdminOps, TypeOK, Idle
  <2>2. req' \in [Actors -> Request \cup {Idle}]
    BY <1>0, <1>11, FinishType DEF Audit
  <2>3. logged' \in [Bookings -> SUBSET AdminOps] /\ issued' \in [Bookings -> Nat]
    BY <1>0, <1>11, <2>1 DEF Audit, TypeOK, Request
  <2> QED
    BY <1>0, <1>11, <2>2, <2>3 DEF Audit, TypeOK, Actors
<1> QED
  BY <1>1, <1>2, <1>3, <1>4, <1>5, <1>6, <1>7, <1>8, <1>9, <1>10, <1>11 DEF AdminStep

LEMMA TypeSweep ==
  ASSUME IInv, NEW s \in Sweepers, SweepWrite(s) \/ \E b \in Bookings : SweepRead(s, b)
  PROVE  TypeOK'
<1>0. TypeOK /\ s \in Actors
  BY DEF IInv, Actors
<1>1. ASSUME NEW b \in Bookings, SweepRead(s, b)
      PROVE  TypeOK'
  <2>1. /\ SeenRow("auto_checkout", b) \in Request
        /\ Seen("no_show", b) \in Request
        /\ Seen("payment_timeout", b) \in Request
    BY <1>0, SeenType DEF SweepOps
  <2> QED
    BY <1>0, <1>1, <2>1, BeginType DEF SweepRead
<1>2. ASSUME SweepWrite(s)
      PROVE  TypeOK'
  <2>1. req[s] \in Request
    BY <1>0, <1>2
       DEF SweepWrite, AutoCheckoutWrite, NoShowWrite, PaymentTimeoutWrite, TypeOK, Idle
  <2>2. booking[req[s].id] \in Row /\ req[s].id \in Bookings
    BY <1>0, <2>1 DEF TypeOK, Request
  <2>3. ASSUME AutoCheckoutWrite(s)
        PROVE  booking' \in [Bookings -> Row]
    <3>1. [booking[req[s].id] EXCEPT !.status = "completed",
                                     !.checkedOutAt = req[s].row.checkOut] \in Row
      BY <2>1, <2>2 DEF Row, Request, Terminal
    <3> QED
      BY <1>0, <2>2, <2>3, <3>1, UpdateType DEF AutoCheckoutWrite
  <2>4. ASSUME NoShowWrite(s)
        PROVE  booking' \in [Bookings -> Row]
    <3>1. [booking[req[s].id] EXCEPT !.status = "no_show"] \in Row
      BY <2>2 DEF Row, Terminal
    <3> QED
      BY <1>0, <2>2, <2>4, <3>1, UpdateType DEF NoShowWrite
  <2>5. ASSUME PaymentTimeoutWrite(s)
        PROVE  booking' \in [Bookings -> Row]
    <3>1. [booking[req[s].id] EXCEPT !.status = "cancelled", !.refund = 0] \in Row
      BY <2>2 DEF Row, Terminal
    <3> QED
      BY <1>0, <2>2, <2>5, <3>1, UpdateType DEF PaymentTimeoutWrite
  <2>6. req' \in [Actors -> Request \cup {Idle}]
    BY <1>0, <1>2, FinishType DEF SweepWrite
  <2> QED
    BY <1>0, <1>2, <2>3, <2>4, <2>5, <2>6 DEF SweepWrite, TypeOK, Actors
<1> QED
  BY <1>1, <1>2

LEMMA TypeStep == IInv /\ [Next]_vars => TypeOK'
<1> SUFFICES ASSUME IInv, TypeOK, [Next]_vars
             PROVE  TypeOK'
  BY DEF IInv
<1>1. ASSUME NEW b \in Bookings, NEW kind \in Kinds, NEW price \in Prices,
             NEW checkIn \in 0 .. MaxTime, NEW stay \in StayLengths,
             CreateBooking(b, kind, price, checkIn, stay)
      PROVE  TypeOK'
  <2>1. price \in Price /\ stay \in Nat /\ checkIn \in Nat /\ kind \in {"hourly", "fullday"}
    BY PriceAssumption, TimeAssumption
  <2>2. /\ now \in Nat
        /\ checkIn + stay \in Nat
        /\ price.base + price.gst \in Nat
    BY <2>1 DEF Price, TypeOK
  <2>3. [NoRow EXCEPT !.status = "pending_payment", !.kind = kind, !.price = price,
                      !.createdAt = now, !.checkIn = checkIn,
                      !.checkOut = checkIn + stay, !.total = price.base + price.gst] \in Row
    BY <2>1, <2>2, NoRowType DEF Row, Active
  <2> QED
    BY <1>1, <2>3 DEF CreateBooking, TypeOK
<1>2. ASSUME NEW o \in Orders, SimulateCheckout(o)
      PROVE  TypeOK'
  BY <1>2 DEF SimulateCheckout, TypeOK
<1>3. ASSUME NEW h \in Handlers \cup Sweepers, Crash(h)
      PROVE  TypeOK'
  BY <1>3 DEF Crash, Finish, TypeOK
<1>4. CASE Tick
  BY <1>4 DEF Tick, TypeOK
<1>5. CASE UNCHANGED vars
  BY <1>5 DEF vars, TypeOK
<1> QED
  BY <1>1, <1>2, <1>3, <1>4, <1>5, TypeGuest, TypeAdmin, TypeSweep DEF Next

-----------------------------------------------------------------------------
\* How a row may change.

\* Whatever happens to the row of b, these facts about it survive.
Evolves(b) ==
  LET row == booking[b]
      new == booking'[b]
  IN
  /\ row.status # "absent" =>
       /\ new.status # "absent"
       /\ new.checkIn = row.checkIn
       /\ new.createdAt = row.createdAt
       /\ new.price = row.price
       /\ new.status \in {"pending_payment", "confirmed"} =>
            row.status \in {"pending_payment", "confirmed"} /\ new.total = row.total
  /\ row.payStatus # "pending" => new.payStatus # "pending"
  /\ row.payStatus = "refunded" => new.payStatus = "refunded"
  /\ row.status \in {"voided", "cancelled", "completed"} => new.status = row.status
  /\ row.status = "voided" => new.refund = row.refund /\ new.total = row.total
  /\ row.status = "checked_in" => new.status \in {"checked_in", "completed"}

\* The status of b stays, or makes a move BookingStatus allows.
Moved(b) ==
  \/ booking'[b].status = booking[b].status
  \/ <<booking[b].status, booking'[b].status>> \in StatusMachine!Moves

\* A step that touches at most the row of b, and leaves it sane.
RowStep(b) ==
  /\ UNCHANGED <<now, payment, ledger, logged>>
  /\ \A c \in Bookings \ {b} : booking'[c] = booking[c] /\ issued'[c] = issued[c]
  /\ RowSane(b)'
  /\ Evolves(b)
  /\ Paid(b)' <=> Paid(b)
  /\ Moved(b)

\* A row that nobody writes stays sane while time passes.
LEMMA Kept ==
  ASSUME IInv, NEW b \in Bookings, now' \in Nat, now' >= now,
         booking'[b] = booking[b], ledger'[b] = ledger[b],
         logged'[b] = logged[b], issued'[b] = issued[b]
  PROVE  RowSane(b)' /\ Evolves(b)
<1>1. RowSane(b) /\ booking[b] \in Row /\ now \in Nat
  BY DEF IInv, TypeOK
<1>2. NoShowGrace \in Nat /\ PaymentTimeout \in Nat
  BY TimeAssumption
<1>3. RowSane(b)'
  BY <1>1, <1>2 DEF RowSane, Row
<1>4. Evolves(b)
  BY <1>1 DEF Evolves
<1> QED
  BY <1>3, <1>4

\* What a request knows when it writes.
LEMMA Known ==
  ASSUME IInv, NEW h \in Actors, req[h] # Idle
  PROVE  /\ req[h] \in Request
         /\ Fits(req[h])
         /\ req[h].id \in Bookings
         /\ booking[req[h].id] \in Row
         /\ booking \in [Bookings -> Row]
         /\ RowSane(req[h].id)
         /\ now \in Nat
<1>1. req[h] \in Request
  BY DEF IInv, TypeOK, Actors
<1> QED
  BY <1>1 DEF IInv, TypeOK, Request

LEMMA CheckInRow ==
  ASSUME IInv, NEW h \in Handlers, NEW b \in Bookings, req[h].id = b, CheckInWrite(h)
  PROVE  RowStep(b)
<1>1. req[h] # Idle /\ h \in Actors
  BY DEF CheckInWrite, Idle, Actors
<1>2. /\ req[h] \in Request
      /\ Fits(req[h])
      /\ booking[b] \in Row
      /\ booking \in [Bookings -> Row]
      /\ RowSane(b)
      /\ now \in Nat
  BY <1>1, Known
<1>3. /\ req[h].op = "check_in"
      /\ UNCHANGED <<now, payment, ledger, logged, issued>>
      /\ UpdateIfStatus(b, {"confirmed"},
           [booking[b] EXCEPT !.status = "checked_in",
                              !.checkedInAt = req[h].at, !.qr = FALSE])
  BY DEF CheckInWrite
<1>4. CASE booking[b].status \notin {"confirmed"}
  <2>1. booking' = booking
    BY <1>3, <1>4 DEF UpdateIfStatus
  <2> QED
    BY <1>2, <1>3, <2>1, Kept DEF RowStep, Paid, Moved
<1>5. CASE booking[b].status \in {"confirmed"}
  <2>1. /\ \A c \in Bookings \ {b} : booking'[c] = booking[c]
        /\ booking'[b] = [booking[b] EXCEPT !.status = "checked_in",
                              !.checkedInAt = req[h].at, !.qr = FALSE]
    BY <1>2, <1>3, <1>5 DEF UpdateIfStatus
  <2>2. booking[b].payStatus # "pending"
    BY <1>2, <1>5 DEF RowSane, Fits, Refundable
  <2>3. Evolves(b)
    BY <1>2, <1>5, <2>1, <2>2 DEF Evolves, Row
  <2>4. RowSane(b)'
    BY <1>2, <1>3, <1>5, <2>1, <2>2 DEF RowSane, Effective, Fits, Row, Request
  <2>5. Paid(b)' <=> Paid(b)
    BY <1>2, <2>1, <2>2 DEF Paid, Row
  <2>6. Moved(b)
    BY <1>2, <1>5, <2>1, <2>2 DEF Moved, StatusMachine!Moves, Row
  <2> QED
    BY <1>3, <2>1, <2>2, <2>3, <2>4, <2>5, <2>6 DEF RowStep
<1> QED
  BY <1>4, <1>5

LEMMA CheckOutRow ==
  ASSUME IInv, NEW h \in Handlers, NEW b \in Bookings, req[h].id = b, CheckOutWrite(h)
  PROVE  RowStep(b)
<1>1. req[h] # Idle /\ h \in Actors
  BY DEF CheckOutWrite, Idle, Actors
<1>2. /\ req[h] \in Request
      /\ Fits(req[h])
      /\ booking[b] \in Row
      /\ booking \in [Bookings -> Row]
      /\ RowSane(b)
      /\ now \in Nat
  BY <1>1, Known
<1>3. /\ req[h].op = "check_out"
      /\ UNCHANGED <<now, payment, ledger, logged, issued>>
      /\ UpdateIfStatus(b, {"checked_in"},
           [booking[b] EXCEPT !.status = "completed",
                              !.checkedOutAt = req[h].at])
  BY DEF CheckOutWrite
<1>4. CASE booking[b].status \notin {"checked_in"}
  <2>1. booking' = booking
    BY <1>3, <1>4 DEF UpdateIfStatus
  <2> QED
    BY <1>2, <1>3, <2>1, Kept DEF RowStep, Paid, Moved
<1>5. CASE booking[b].status \in {"checked_in"}
  <2>1. /\ \A c \in Bookings \ {b} : booking'[c] = booking[c]
        /\ booking'[b] = [booking[b] EXCEPT !.status = "completed",
                              !.checkedOutAt = req[h].at]
    BY <1>2, <1>3, <1>5 DEF UpdateIfStatus
  <2>2. booking[b].payStatus # "pending"
    BY <1>2, <1>5 DEF RowSane, Fits, Refundable
  <2>3. Evolves(b)
    BY <1>2, <1>5, <2>1, <2>2 DEF Evolves, Row
  <2>4. RowSane(b)'
    BY <1>2, <1>3, <1>5, <2>1, <2>2 DEF RowSane, Effective, Fits, Row, Request
  <2>5. Paid(b)' <=> Paid(b)
    BY <1>2, <2>1, <2>2 DEF Paid, Row
  <2>6. Moved(b)
    BY <1>2, <1>5, <2>1, <2>2 DEF Moved, StatusMachine!Moves, Row
  <2> QED
    BY <1>3, <2>1, <2>2, <2>3, <2>4, <2>5, <2>6 DEF RowStep
<1> QED
  BY <1>4, <1>5

LEMMA CancelRow ==
  ASSUME IInv, NEW h \in Handlers, NEW b \in Bookings, req[h].id = b, CancelWrite(h)
  PROVE  RowStep(b)
<1>1. req[h] # Idle /\ h \in Actors
  BY DEF CancelWrite, Idle, Actors
<1>2. /\ req[h] \in Request
      /\ Fits(req[h])
      /\ booking[b] \in Row
      /\ booking \in [Bookings -> Row]
      /\ RowSane(b)
      /\ now \in Nat
  BY <1>1, Known
<1>3. /\ req[h].op = "cancel"
      /\ UNCHANGED <<now, payment, ledger, logged>>
      /\ UpdateIfStatus(b, {"confirmed"},
           [booking[b] EXCEPT !.status = "cancelled", !.refund = req[h].amount])
  BY DEF CancelWrite
<1>4. CASE booking[b].status \notin {"confirmed"}
  <2>1. booking' = booking /\ issued' = issued
    BY <1>3, <1>4 DEF UpdateIfStatus, CancelWrite
  <2> QED
    BY <1>2, <1>3, <2>1, Kept DEF RowStep, Paid, Moved
<1>5. CASE booking[b].status \in {"confirmed"}
  <2>1. /\ \A c \in Bookings \ {b} : booking'[c] = booking[c]
        /\ booking'[b] = [booking[b] EXCEPT !.status = "cancelled", !.refund = req[h].amount]
    BY <1>2, <1>3, <1>5 DEF UpdateIfStatus
  <2>2. /\ booking[b].payStatus # "pending"
        /\ \A c \in Bookings \ {b} : issued'[c] = issued[c]
    BY <1>2, <1>5 DEF RowSane, CancelWrite, IInv, TypeOK
  <2>3. Evolves(b)
    BY <1>2, <1>5, <2>1, <2>2 DEF Evolves, Row
  <2>4. RowSane(b)'
    BY <1>2, <1>3, <1>5, <2>1, <2>2 DEF RowSane, Effective, Fits, Row, IInv, TypeOK, Request
  <2>5. Paid(b)' <=> Paid(b)
    BY <1>2, <2>1, <2>2 DEF Paid, Row
  <2>6. Moved(b)
    BY <1>2, <1>5, <2>1, <2>2 DEF Moved, StatusMachine!Moves, Row
  <2> QED
    BY <1>3, <2>1, <2>2, <2>3, <2>4, <2>5, <2>6 DEF RowStep
<1> QED
  BY <1>4, <1>5

LEMMA VoidRow ==
  ASSUME IInv, NEW h \in Handlers, NEW b \in Bookings, req[h].id = b, VoidWrite(h)
  PROVE  RowStep(b)
<1>1. req[h] # Idle /\ h \in Actors
  BY DEF VoidWrite, AdminUpdate, Idle, Actors
<1>2. /\ req[h] \in Request
      /\ Fits(req[h])
      /\ booking[b] \in Row
      /\ booking \in [Bookings -> Row]
      /\ RowSane(b)
      /\ now \in Nat
  BY <1>1, Known
<1>3. /\ req[h].op = "void" /\ req[h].stage = "write"
      /\ UNCHANGED <<now, payment, ledger, logged, issued>>
      /\ UpdateIfStatus(b, {"confirmed"},
           [booking[b] EXCEPT !.status = "voided", !.payStatus = "refunded",
                              !.refund = req[h].amount])
  BY DEF VoidWrite, AdminUpdate
<1>4. CASE booking[b].status \notin {"confirmed"}
  <2>1. booking' = booking
    BY <1>3, <1>4 DEF UpdateIfStatus
  <2> QED
    BY <1>2, <1>3, <2>1, Kept DEF RowStep, Paid, Moved
<1>5. CASE booking[b].status \in {"confirmed"}
  <2>1. /\ \A c \in Bookings \ {b} : booking'[c] = booking[c]
        /\ booking'[b] = [booking[b] EXCEPT !.status = "voided", !.payStatus = "refunded",
                              !.refund = req[h].amount]
    BY <1>2, <1>3, <1>5 DEF UpdateIfStatus
  <2>2. booking[b].payStatus # "pending"
    BY <1>2, <1>5 DEF RowSane, Fits, Refundable
  <2>3. Evolves(b)
    BY <1>2, <1>5, <2>1, <2>2 DEF Evolves, Row
  <2>4. RowSane(b)'
    BY <1>2, <1>3, <1>5, <2>1, <2>2 DEF RowSane, Effective, Fits, Row, Request
  <2>5. Paid(b)' <=> Paid(b)
    BY <1>2, <2>1, <2>2 DEF Paid, Row
  <2>6. Moved(b)
    BY <1>2, <1>5, <2>1, <2>2 DEF Moved, StatusMachine!Moves, Row
  <2> QED
    BY <1>3, <2>1, <2>2, <2>3, <2>4, <2>5, <2>6 DEF RowStep
<1> QED
  BY <1>4, <1>5

LEMMA AdminCancelRow ==
  ASSUME IInv, NEW h \in Handlers, NEW b \in Bookings, req[h].id = b, AdminCancelWrite(h)
  PROVE  RowStep(b)
<1>1. req[h] # Idle /\ h \in Actors
  BY DEF AdminCancelWrite, AdminUpdate, Idle, Actors
<1>2. /\ req[h] \in Request
      /\ Fits(req[h])
      /\ booking[b] \in Row
      /\ booking \in [Bookings -> Row]
      /\ RowSane(b)
      /\ now \in Nat
  BY <1>1, Known
<1>3. /\ req[h].op = "admin_cancel" /\ req[h].stage = "write"
      /\ UNCHANGED <<now, payment, ledger, logged, issued>>
      /\ UpdateIfStatus(b, {"confirmed"},
           [booking[b] EXCEPT !.status = "cancelled", !.refund = req[h].amount])
  BY DEF AdminCancelWrite, AdminUpdate
<1>4. CASE booking[b].status \notin {"confirmed"}
  <2>1. booking' = booking
    BY <1>3, <1>4 DEF UpdateIfStatus
  <2> QED
    BY <1>2, <1>3, <2>1, Kept DEF RowStep, Paid, Moved
<1>5. CASE booking[b].status \in {"confirmed"}
  <2>1. /\ \A c \in Bookings \ {b} : booking'[c] = booking[c]
        /\ booking'[b] = [booking[b] EXCEPT !.status = "cancelled", !.refund = req[h].amount]
    BY <1>2, <1>3, <1>5 DEF UpdateIfStatus
  <2>2. booking[b].payStatus # "pending"
    BY <1>2, <1>5 DEF RowSane, Fits, Refundable
  <2>3. Evolves(b)
    BY <1>2, <1>5, <2>1, <2>2 DEF Evolves, Row
  <2>4. RowSane(b)'
    BY <1>2, <1>3, <1>5, <2>1, <2>2 DEF RowSane, Effective, Fits, Row, Request
  <2>5. Paid(b)' <=> Paid(b)
    BY <1>2, <2>1, <2>2 DEF Paid, Row
  <2>6. Moved(b)
    BY <1>2, <1>5, <2>1, <2>2 DEF Moved, StatusMachine!Moves, Row
  <2> QED
    BY <1>3, <2>1, <2>2, <2>3, <2>4, <2>5, <2>6 DEF RowStep
<1> QED
  BY <1>4, <1>5

LEMMA ForceCheckoutRow ==
  ASSUME IInv, NEW h \in Handlers, NEW b \in Bookings, req[h].id = b, ForceCheckoutWrite(h)
  PROVE  RowStep(b)
<1>1. req[h] # Idle /\ h \in Actors
  BY DEF ForceCheckoutWrite, AdminUpdate, Idle, Actors
<1>2. /\ req[h] \in Request
      /\ Fits(req[h])
      /\ booking[b] \in Row
      /\ booking \in [Bookings -> Row]
      /\ RowSane(b)
      /\ now \in Nat
  BY <1>1, Known
<1>3. /\ req[h].op = "force_checkout" /\ req[h].stage = "write"
      /\ UNCHANGED <<now, payment, ledger, logged, issued>>
      /\ UpdateIfStatus(b, {"checked_in"},
           [booking[b] EXCEPT !.status = "completed", !.checkedOutAt = req[h].at])
  BY DEF ForceCheckoutWrite, AdminUpdate
<1>4. CASE booking[b].status \notin {"checked_in"}
  <2>1. booking' = booking
    BY <1>3, <1>4 DEF UpdateIfStatus
  <2> QED
    BY <1>2, <1>3, <2>1, Kept DEF RowStep, Paid, Moved
<1>5. CASE booking[b].status \in {"checked_in"}
  <2>1. /\ \A c \in Bookings \ {b} : booking'[c] = booking[c]
        /\ booking'[b] = [booking[b] EXCEPT !.status = "completed", !.checkedOutAt = req[h].at]
    BY <1>2, <1>3, <1>5 DEF UpdateIfStatus
  <2>2. booking[b].payStatus # "pending"
    BY <1>2, <1>5 DEF RowSane, Fits, Refundable
  <2>3. Evolves(b)
    BY <1>2, <1>5, <2>1, <2>2 DEF Evolves, Row
  <2>4. RowSane(b)'
    BY <1>2, <1>3, <1>5, <2>1, <2>2 DEF RowSane, Effective, Fits, Row, Request
  <2>5. Paid(b)' <=> Paid(b)
    BY <1>2, <2>1, <2>2 DEF Paid, Row
  <2>6. Moved(b)
    BY <1>2, <1>5, <2>1, <2>2 DEF Moved, StatusMachine!Moves, Row
  <2> QED
    BY <1>3, <2>1, <2>2, <2>3, <2>4, <2>5, <2>6 DEF RowStep
<1> QED
  BY <1>4, <1>5

LEMMA RefundRow ==
  ASSUME IInv, NEW h \in Handlers, NEW b \in Bookings, req[h].id = b, RefundWrite(h)
  PROVE  RowStep(b)
<1>1. req[h] # Idle /\ h \in Actors
  BY DEF RefundWrite, AdminUpdate, Idle, Actors
<1>2. /\ req[h] \in Request
      /\ Fits(req[h])
      /\ booking[b] \in Row
      /\ booking \in [Bookings -> Row]
      /\ RowSane(b)
      /\ now \in Nat
  BY <1>1, Known
<1>3. /\ req[h].op = "refund" /\ req[h].stage = "write"
      /\ UNCHANGED <<now, payment, ledger, logged, issued>>
      /\ UpdateIfStatus(b, {req[h].row.status},
           [booking[b] EXCEPT !.refund = req[h].row.refund + req[h].amount,
                              !.payStatus = "refunded"])
  BY DEF RefundWrite, AdminUpdate
<1>4. CASE booking[b].status \notin {req[h].row.status}
  <2>1. booking' = booking
    BY <1>3, <1>4 DEF UpdateIfStatus
  <2> QED
    BY <1>2, <1>3, <2>1, Kept DEF RowStep, Paid, Moved
<1>5. CASE booking[b].status \in {req[h].row.status}
  <2>1. /\ \A c \in Bookings \ {b} : booking'[c] = booking[c]
        /\ booking'[b] = [booking[b] EXCEPT !.refund = req[h].row.refund + req[h].amount,
                              !.payStatus = "refunded"]
    BY <1>2, <1>3, <1>5 DEF UpdateIfStatus
  <2>2. booking[b].status \in {"confirmed", "checked_in", "completed"} /\ booking[b].payStatus # "pending"
    BY <1>2, <1>5, <1>3 DEF RowSane, Fits, Refundable
  <2>3. Evolves(b)
    BY <1>2, <1>5, <2>1, <2>2 DEF Evolves, Row
  <2>4. RowSane(b)'
    BY <1>2, <1>3, <1>5, <2>1, <2>2 DEF RowSane, Effective, Fits, Row, Request
  <2>5. Paid(b)' <=> Paid(b)
    BY <1>2, <2>1, <2>2 DEF Paid, Row
  <2>6. Moved(b)
    BY <1>2, <1>5, <2>1, <2>2 DEF Moved, StatusMachine!Moves, Row
  <2> QED
    BY <1>3, <2>1, <2>2, <2>3, <2>4, <2>5, <2>6 DEF RowStep
<1> QED
  BY <1>4, <1>5

LEMMA ExtendRow ==
  ASSUME IInv, NEW h \in Handlers, NEW b \in Bookings, req[h].id = b, ExtendWrite(h)
  PROVE  RowStep(b)
<1>1. req[h] # Idle /\ h \in Actors
  BY DEF ExtendWrite, AdminUpdate, Idle, Actors
<1>2. /\ req[h] \in Request
      /\ Fits(req[h])
      /\ booking[b] \in Row
      /\ booking \in [Bookings -> Row]
      /\ RowSane(b)
      /\ now \in Nat
  BY <1>1, Known
<1>3. /\ req[h].op = "extend" /\ req[h].stage = "write"
      /\ UNCHANGED <<now, payment, ledger, logged, issued>>
      /\ UpdateIfStatus(b, {"checked_in"},
           [booking[b] EXCEPT !.checkOut = req[h].until,
                              !.total = req[h].row.total + req[h].amount])
  BY DEF ExtendWrite, AdminUpdate
<1>4. CASE booking[b].status \notin {"checked_in"}
  <2>1. booking' = booking
    BY <1>3, <1>4 DEF UpdateIfStatus
  <2> QED
    BY <1>2, <1>3, <2>1, Kept DEF RowStep, Paid, Moved
<1>5. CASE booking[b].status \in {"checked_in"}
  <2>1. /\ \A c \in Bookings \ {b} : booking'[c] = booking[c]
        /\ booking'[b] = [booking[b] EXCEPT !.checkOut = req[h].until,
                              !.total = req[h].row.total + req[h].amount]
    BY <1>2, <1>3, <1>5 DEF UpdateIfStatus
  <2>2. booking[b].payStatus # "pending"
    BY <1>2, <1>5 DEF RowSane, Fits, Refundable
  <2>3. Evolves(b)
    BY <1>2, <1>5, <2>1, <2>2 DEF Evolves, Row
  <2>4. RowSane(b)'
    BY <1>2, <1>3, <1>5, <2>1, <2>2 DEF RowSane, Effective, Fits, Row, Request
  <2>5. Paid(b)' <=> Paid(b)
    BY <1>2, <2>1, <2>2 DEF Paid, Row
  <2>6. Moved(b)
    BY <1>2, <1>5, <2>1, <2>2 DEF Moved, StatusMachine!Moves, Row
  <2> QED
    BY <1>3, <2>1, <2>2, <2>3, <2>4, <2>5, <2>6 DEF RowStep
<1> QED
  BY <1>4, <1>5

LEMMA AutoCheckoutRow ==
  ASSUME IInv, NEW s \in Sweepers, NEW b \in Bookings, req[s].id = b, SweepWrite(s), AutoCheckoutWrite(s)
  PROVE  RowStep(b)
<1>1. req[s] # Idle /\ s \in Actors
  BY DEF SweepWrite, AutoCheckoutWrite, Idle, Actors
<1>2. /\ req[s] \in Request
      /\ Fits(req[s])
      /\ booking[b] \in Row
      /\ booking \in [Bookings -> Row]
      /\ RowSane(b)
      /\ now \in Nat
  BY <1>1, Known
<1>3. /\ req[s].op = "auto_checkout"
      /\ UNCHANGED <<now, payment, ledger, logged, issued>>
      /\ UpdateIfStatus(b, {"checked_in"},
           [booking[b] EXCEPT !.status = "completed",
                              !.checkedOutAt = req[s].row.checkOut])
  BY DEF SweepWrite, AutoCheckoutWrite
<1>4. CASE booking[b].status \notin {"checked_in"}
  <2>1. booking' = booking
    BY <1>3, <1>4 DEF UpdateIfStatus
  <2> QED
    BY <1>2, <1>3, <2>1, Kept DEF RowStep, Paid, Moved
<1>5. CASE booking[b].status \in {"checked_in"}
  <2>1. /\ \A c \in Bookings \ {b} : booking'[c] = booking[c]
        /\ booking'[b] = [booking[b] EXCEPT !.status = "completed",
                              !.checkedOutAt = req[s].row.checkOut]
    BY <1>2, <1>3, <1>5 DEF UpdateIfStatus
  <2>2. booking[b].payStatus # "pending"
    BY <1>2, <1>5 DEF RowSane, Fits, Refundable
  <2>3. Evolves(b)
    BY <1>2, <1>5, <2>1, <2>2 DEF Evolves, Row
  <2>4. RowSane(b)'
    BY <1>2, <1>3, <1>5, <2>1, <2>2 DEF RowSane, Effective, Fits, Row, Request
  <2>5. Paid(b)' <=> Paid(b)
    BY <1>2, <2>1, <2>2 DEF Paid, Row
  <2>6. Moved(b)
    BY <1>2, <1>5, <2>1, <2>2 DEF Moved, StatusMachine!Moves, Row
  <2> QED
    BY <1>3, <2>1, <2>2, <2>3, <2>4, <2>5, <2>6 DEF RowStep
<1> QED
  BY <1>4, <1>5

LEMMA NoShowRow ==
  ASSUME IInv, NEW s \in Sweepers, NEW b \in Bookings, req[s].id = b, SweepWrite(s), NoShowWrite(s)
  PROVE  RowStep(b)
<1>1. req[s] # Idle /\ s \in Actors
  BY DEF SweepWrite, NoShowWrite, Idle, Actors
<1>2. /\ req[s] \in Request
      /\ Fits(req[s])
      /\ booking[b] \in Row
      /\ booking \in [Bookings -> Row]
      /\ RowSane(b)
      /\ now \in Nat
  BY <1>1, Known
<1>3. /\ req[s].op = "no_show"
      /\ UNCHANGED <<now, payment, ledger, logged, issued>>
      /\ UpdateIfStatus(b, {"confirmed"},
           [booking[b] EXCEPT !.status = "no_show"])
  BY DEF SweepWrite, NoShowWrite
<1>4. CASE booking[b].status \notin {"confirmed"}
  <2>1. booking' = booking
    BY <1>3, <1>4 DEF UpdateIfStatus
  <2> QED
    BY <1>2, <1>3, <2>1, Kept DEF RowStep, Paid, Moved
<1>5. CASE booking[b].status \in {"confirmed"}
  <2>1. /\ \A c \in Bookings \ {b} : booking'[c] = booking[c]
        /\ booking'[b] = [booking[b] EXCEPT !.status = "no_show"]
    BY <1>2, <1>3, <1>5 DEF UpdateIfStatus
  <2>2. booking[b].payStatus # "pending"
    BY <1>2, <1>5 DEF RowSane, Fits, Refundable
  <2>3. Evolves(b)
    BY <1>2, <1>5, <2>1, <2>2 DEF Evolves, Row
  <2>4. RowSane(b)'
    BY <1>2, <1>3, <1>5, <2>1, <2>2 DEF RowSane, Effective, Fits, Row, Request
  <2>5. Paid(b)' <=> Paid(b)
    BY <1>2, <2>1, <2>2 DEF Paid, Row
  <2>6. Moved(b)
    BY <1>2, <1>5, <2>1, <2>2 DEF Moved, StatusMachine!Moves, Row
  <2> QED
    BY <1>3, <2>1, <2>2, <2>3, <2>4, <2>5, <2>6 DEF RowStep
<1> QED
  BY <1>4, <1>5

LEMMA PaymentTimeoutRow ==
  ASSUME IInv, NEW s \in Sweepers, NEW b \in Bookings, req[s].id = b, SweepWrite(s), PaymentTimeoutWrite(s)
  PROVE  RowStep(b)
<1>1. req[s] # Idle /\ s \in Actors
  BY DEF SweepWrite, PaymentTimeoutWrite, Idle, Actors
<1>2. /\ req[s] \in Request
      /\ Fits(req[s])
      /\ booking[b] \in Row
      /\ booking \in [Bookings -> Row]
      /\ RowSane(b)
      /\ now \in Nat
  BY <1>1, Known
<1>3. /\ req[s].op = "payment_timeout"
      /\ UNCHANGED <<now, payment, ledger, logged, issued>>
      /\ UpdateIfStatus(b, {"pending_payment"},
           [booking[b] EXCEPT !.status = "cancelled", !.refund = 0])
  BY DEF SweepWrite, PaymentTimeoutWrite
<1>4. CASE booking[b].status \notin {"pending_payment"}
  <2>1. booking' = booking
    BY <1>3, <1>4 DEF UpdateIfStatus
  <2> QED
    BY <1>2, <1>3, <2>1, Kept DEF RowStep, Paid, Moved
<1>5. CASE booking[b].status \in {"pending_payment"}
  <2>1. /\ \A c \in Bookings \ {b} : booking'[c] = booking[c]
        /\ booking'[b] = [booking[b] EXCEPT !.status = "cancelled", !.refund = 0]
    BY <1>2, <1>3, <1>5 DEF UpdateIfStatus
  <2>2. booking[b].payStatus = "pending"
    BY <1>2, <1>5 DEF RowSane, Fits, Refundable
  <2>3. Evolves(b)
    BY <1>2, <1>5, <2>1, <2>2 DEF Evolves, Row
  <2>4. RowSane(b)'
    BY <1>2, <1>3, <1>5, <2>1, <2>2 DEF RowSane, Effective, Fits, Row, Request
  <2>5. Paid(b)' <=> Paid(b)
    BY <1>2, <2>1, <2>2 DEF Paid, Row
  <2>6. Moved(b)
    BY <1>2, <1>5, <2>1, <2>2 DEF Moved, StatusMachine!Moves, Row
  <2> QED
    BY <1>3, <2>1, <2>2, <2>3, <2>4, <2>5, <2>6 DEF RowStep
<1> QED
  BY <1>4, <1>5

-----------------------------------------------------------------------------
\* Every step, by what it does to the rows.

\* A step that touches no booking row, no journal entry and no log.
Quiet == UNCHANGED <<now, booking, ledger, logged, issued>>

LEMMA GuestCases ==
  ASSUME IInv, NEW h \in Handlers, GuestStep(h)
  PROVE  Quiet \/ CaptureWrite(h) \/ \E b \in Bookings : RowStep(b)
<1>1. ASSUME NEW b \in Bookings, NEW o \in Orders, CreateOrderRead(h, b, o)
      PROVE  Quiet
  BY <1>1 DEF Quiet, CreateOrderRead, Begin
<1>2. ASSUME CreateOrderWrite(h) \/ RejectWrite(h)
      PROVE  Quiet
  BY <1>2 DEF Quiet, CreateOrderWrite, RejectWrite
<1>3. ASSUME CheckInWrite(h) \/ CheckOutWrite(h) \/ CancelWrite(h)
      PROVE  \E b \in Bookings : RowStep(b)
  <2>1. req[h].id \in Bookings
    BY <1>3, Known DEF CheckInWrite, CheckOutWrite, CancelWrite, Idle, Actors
  <2>2. PICK b \in Bookings : req[h].id = b
    BY <2>1
  <2> QED
    BY <1>3, <2>2, CheckInRow, CheckOutRow, CancelRow
<1>4. ASSUME NEW o \in Orders, VerifyRead(h, o)
      PROVE  Quiet
  BY <1>4 DEF Quiet, VerifyRead, Begin
<1>5. ASSUME NEW b \in Bookings, CheckInRead(h, b) \/ CheckOutRead(h, b) \/ CancelRead(h, b)
      PROVE  Quiet
  BY <1>5 DEF Quiet, CheckInRead, CheckOutRead, CancelRead, Begin
<1> QED
  BY <1>1, <1>2, <1>3, <1>4, <1>5 DEF GuestStep

LEMMA AdminCases ==
  ASSUME IInv, NEW h \in Handlers, AdminStep(h)
  PROVE  Quiet \/ Audit(h) \/ \E b \in Bookings : RowStep(b)
<1>1. ASSUME NEW b \in Bookings, VoidRead(h, b) \/ AdminCancelRead(h, b) \/ ForceCheckoutRead(h, b)
      PROVE  Quiet
  BY <1>1 DEF Quiet, VoidRead, AdminCancelRead, ForceCheckoutRead, Begin
<1>2. ASSUME NEW b \in Bookings, NEW amount \in RefundAmounts, RefundRead(h, b, amount)
      PROVE  Quiet
  BY <1>2 DEF Quiet, RefundRead, Begin
<1>3. ASSUME NEW b \in Bookings, NEW until \in 1 .. MaxTime, NEW fee \in ExtensionFees,
             ExtendRead(h, b, until, fee)
      PROVE  Quiet
  BY <1>3 DEF Quiet, ExtendRead, Begin
<1>4. ASSUME \/ VoidWrite(h) \/ AdminCancelWrite(h) \/ RefundWrite(h)
             \/ ForceCheckoutWrite(h) \/ ExtendWrite(h)
      PROVE  \E b \in Bookings : RowStep(b)
  <2>1. req[h].id \in Bookings
    BY <1>4, Known DEF VoidWrite, AdminCancelWrite, RefundWrite, ForceCheckoutWrite,
                       ExtendWrite, AdminUpdate, Idle, Actors
  <2>2. PICK b \in Bookings : req[h].id = b
    BY <2>1
  <2> QED
    BY <1>4, <2>2, VoidRow, AdminCancelRow, RefundRow, ForceCheckoutRow, ExtendRow
<1> QED
  BY <1>1, <1>2, <1>3, <1>4 DEF AdminStep

LEMMA SweepCases ==
  ASSUME IInv, NEW s \in Sweepers, SweepWrite(s) \/ \E b \in Bookings : SweepRead(s, b)
  PROVE  Quiet \/ \E b \in Bookings : RowStep(b)
<1>1. ASSUME NEW b \in Bookings, SweepRead(s, b)
      PROVE  Quiet
  BY <1>1 DEF Quiet, SweepRead, Begin
<1>2. ASSUME SweepWrite(s)
      PROVE  \E b \in Bookings : RowStep(b)
  <2>1. req[s].id \in Bookings
    BY <1>2, Known DEF SweepWrite, AutoCheckoutWrite, NoShowWrite, PaymentTimeoutWrite,
                       Idle, Actors
  <2>2. PICK b \in Bookings : req[s].id = b
    BY <2>1
  <2>3. AutoCheckoutWrite(s) \/ NoShowWrite(s) \/ PaymentTimeoutWrite(s)
    BY <1>2 DEF SweepWrite
  <2> QED
    BY <1>2, <2>2, <2>3, AutoCheckoutRow, NoShowRow, PaymentTimeoutRow
<1> QED
  BY <1>1, <1>2

\* The legs verifyAndCapture posts are those of the quoted price: no leg of a
\* price is negative, so dropping the empty ones drops nothing else.
LEMMA LegsOfPrice ==
  ASSUME NEW row \in Row, row.price \in Prices, row.total = row.price.base + row.price.gst
  PROVE  CaptureLegs(row) = CaptureOf(row.price)
<1>1. /\ row.price \in Price
      /\ row.price.base > 0
      /\ row.price.fee <= row.price.base
  BY PriceAssumption
<1>2. \A x \in Nat : Leg(x) = x
  BY DEF Leg
<1>3. /\ row.price.base + row.price.gst \in Nat
      /\ row.price.base - row.price.fee \in Nat
      /\ row.price.fee \in Nat
      /\ row.price.gst \in Nat
  BY <1>1 DEF Price
<1>4. /\ Leg(row.total) = row.price.base + row.price.gst
      /\ Leg(row.price.base - row.price.fee) = row.price.base - row.price.fee
      /\ Leg(row.price.fee) = row.price.fee
      /\ Leg(row.price.gst) = row.price.gst
  BY <1>2, <1>3
<1> QED
  BY <1>4 DEF CaptureLegs, CaptureOf, Accounts

\* A capture that takes effect: the row, the payment and the journal move together.
LEMMA CaptureEffect ==
  ASSUME IInv, NEW h \in Handlers, NEW b \in Bookings, req[h].id = b, CaptureWrite(h)
  PROVE  \/ UNCHANGED <<booking, payment, ledger>>
         \/ /\ booking[b].status = "pending_payment"
            /\ booking' = [booking EXCEPT ![b] = ConfirmedRow(booking[b])]
            /\ payment' = [payment EXCEPT ![req[h].order] = CapturedRow(payment[req[h].order])]
            /\ \A c \in Bookings \ {b} : ledger'[c] = ledger[c]
            /\ ledger'[b] = CaptureOf(booking[b].price)
<1>1. req[h] # Idle /\ h \in Actors /\ req[h].op = "verify"
  BY DEF CaptureWrite, Idle, Actors
<1>2. req[h] \in Request /\ Fits(req[h]) /\ booking[b] \in Row /\ RowSane(b)
  BY <1>1, Known
<1> DEFINE legs == CaptureLegs(req[h].row)
<1>3. CASE ~(booking[b].status = "pending_payment" /\ Balanced(legs))
  BY <1>3 DEF CaptureWrite
<1>4. CASE booking[b].status = "pending_payment" /\ Balanced(legs)
  <2>1. /\ booking' = [booking EXCEPT ![b] = ConfirmedRow(booking[b])]
        /\ payment' = [payment EXCEPT ![req[h].order] = CapturedRow(payment[req[h].order])]
        /\ Post(b, legs)
    BY <1>4 DEF CaptureWrite
  <2>2. req[h].row \in Row /\ req[h].row.price = booking[b].price
    BY <1>1, <1>2 DEF Fits, Request
  <2>3. booking[b].price \in Prices /\ req[h].row.total = booking[b].price.base + booking[b].price.gst
    BY <1>1, <1>2, <1>4 DEF Fits, RowSane
  <2>4. legs = CaptureOf(booking[b].price)
    BY <2>2, <2>3, LegsOfPrice
  <2>5. legs \in [Accounts -> Int]
    BY <2>2, LegsType
  <2>6. ledger[b] = Unposted
    BY <1>2, <1>4 DEF RowSane
  <2> HIDE DEF legs
  <2>7. /\ ledger' = [ledger EXCEPT ![b] = [a \in Accounts |-> ledger[b][a] + legs[a]]]
        /\ ledger \in [Bookings -> [Accounts -> Int]]
    BY <2>1 DEF Post, IInv, TypeOK
  <2>8. [a \in Accounts |-> ledger[b][a] + legs[a]] = legs
    BY <2>5, <2>6 DEF Unposted
  <2> QED
    BY <1>4, <2>1, <2>4, <2>7, <2>8
<1> QED
  BY <1>3, <1>4

LEMMA RowsStep ==
  ASSUME IInv, [Next]_vars
  PROVE  \A b \in Bookings : RowSane(b)' /\ Evolves(b)
<1> SUFFICES ASSUME NEW b \in Bookings
             PROVE  RowSane(b)' /\ Evolves(b)
  OBVIOUS
<1>0. /\ RowSane(b)
      /\ booking[b] \in Row
      /\ booking \in [Bookings -> Row]
      /\ now \in Nat
  BY DEF IInv, TypeOK
<1>1. ASSUME NEW c \in Bookings, RowStep(c)
      PROVE  RowSane(b)' /\ Evolves(b)
  <2>1. CASE b = c
    BY <1>1, <2>1 DEF RowStep
  <2>2. CASE b # c
    BY <1>0, <1>1, <2>2, Kept DEF RowStep
  <2> QED
    BY <2>1, <2>2
<1>2. CASE Quiet
  BY <1>0, <1>2, Kept DEF Quiet
<1>3. CASE Tick
  BY <1>0, <1>3, Kept DEF Tick
<1>4. ASSUME NEW c \in Bookings, NEW kind \in Kinds, NEW price \in Prices,
             NEW checkIn \in 0 .. MaxTime, NEW stay \in StayLengths,
             CreateBooking(c, kind, price, checkIn, stay)
      PROVE  RowSane(b)' /\ Evolves(b)
  <2>1. CASE b # c
    BY <1>0, <1>4, <2>1, Kept DEF CreateBooking
  <2>2. CASE b = c
    <3>1. /\ booking[b].status = "absent"
          /\ booking[b].payStatus = "pending"
          /\ ledger[b] = Unposted
          /\ issued[b] = 0
          /\ logged[b] = {}
      BY <1>0, <1>4, <2>2 DEF CreateBooking, RowSane, Effective, IInv, TypeOK
    <3>2. /\ booking'[b].status = "pending_payment"
          /\ booking'[b].payStatus = "pending"
          /\ booking'[b].price = price
          /\ booking'[b].total = price.base + price.gst
          /\ booking'[b].refund = 0
      BY <1>0, <1>4, <2>2 DEF CreateBooking, NoRow
    <3>3. UNCHANGED <<ledger, issued, logged>>
      BY <1>4 DEF CreateBooking
    <3>4. Evolves(b)
      BY <3>1 DEF Evolves
    <3>5. RowSane(b)'
      BY <3>1, <3>2, <3>3 DEF RowSane
    <3> QED
      BY <3>4, <3>5
  <2> QED
    BY <2>1, <2>2
<1>5. ASSUME NEW h \in Handlers, CaptureWrite(h)
      PROVE  RowSane(b)' /\ Evolves(b)
  <2>1. PICK c \in Bookings : req[h].id = c
    BY <1>5, Known DEF CaptureWrite, Idle, Actors
  <2>2. UNCHANGED <<now, logged, issued>>
    BY <1>5 DEF CaptureWrite
  <2>3. CASE UNCHANGED <<booking, payment, ledger>>
    BY <1>0, <2>2, <2>3, Kept
  <2>4. CASE /\ booking[c].status = "pending_payment"
             /\ booking' = [booking EXCEPT ![c] = ConfirmedRow(booking[c])]
             /\ \A d \in Bookings \ {c} : ledger'[d] = ledger[d]
             /\ ledger'[c] = CaptureOf(booking[c].price)
    <3>1. CASE b # c
      BY <1>0, <2>2, <2>4, <3>1, Kept
    <3>2. CASE b = c
      <4>1. booking'[b] = [booking[b] EXCEPT !.status = "confirmed",
                                             !.payStatus = "success", !.qr = TRUE]
        BY <1>0, <2>4, <3>2 DEF ConfirmedRow
      <4>2. logged[b] = {} /\ booking[b].payStatus = "pending" /\ booking[b].price \in Prices
        BY <1>0, <2>4, <3>2 DEF RowSane, Effective, IInv, TypeOK
      <4>3. Evolves(b)
        BY <1>0, <2>4, <3>2, <4>1, <4>2 DEF Evolves, Row
      <4>4. RowSane(b)'
        BY <1>0, <2>2, <2>4, <3>2, <4>1, <4>2 DEF RowSane, Row
      <4> QED
        BY <4>3, <4>4
    <3> QED
      BY <3>1, <3>2
  <2> QED
    BY <1>5, <2>1, <2>3, <2>4, CaptureEffect
<1>6. ASSUME NEW h \in Handlers, Audit(h)
      PROVE  RowSane(b)' /\ Evolves(b)
  <2>1. /\ req[h] # Idle
        /\ h \in Actors
        /\ req[h].op \in AdminOps
        /\ req[h].stage = "audit"
    BY <1>6 DEF Audit, Idle, AdminOps, Actors
  <2>2. req[h] \in Request /\ Fits(req[h]) /\ req[h].id \in Bookings
    BY <2>1, Known
  <2>3. UNCHANGED <<now, booking, ledger>>
    BY <1>6 DEF Audit
  <2>4. CASE b # req[h].id
    <3>1. logged'[b] = logged[b] /\ issued'[b] = issued[b]
      BY <1>6, <2>2, <2>4 DEF Audit, IInv, TypeOK
    <3> QED
      BY <1>0, <2>3, <3>1, Kept
  <2>5. CASE b = req[h].id
    <3>1. Effective(req[h].op, booking[b])
      BY <2>1, <2>2, <2>5 DEF Fits
    <3>2. logged'[b] = logged[b] \cup {req[h].op}
      BY <1>6, <2>5 DEF Audit, IInv, TypeOK
    <3>3. booking[b].payStatus # "pending"
      BY <3>1 DEF Effective
    <3>4. Evolves(b)
      BY <2>3 DEF Evolves
    <3>5. \A op \in logged'[b] : Effective(op, booking[b])
      BY <1>0, <3>1, <3>2 DEF RowSane
    <3>6. RowSane(b)'
      BY <1>0, <2>3, <3>3, <3>5 DEF RowSane, Effective
    <3> QED
      BY <3>4, <3>6
  <2> QED
    BY <2>4, <2>5
<1>7. ASSUME NEW o \in Orders, SimulateCheckout(o)
      PROVE  Quiet
  BY <1>7 DEF SimulateCheckout, Quiet
<1>8. ASSUME NEW h \in Handlers \cup Sweepers, Crash(h)
      PROVE  Quiet
  BY <1>8 DEF Crash, Quiet
<1>9. CASE UNCHANGED vars
  BY <1>2, <1>9 DEF vars, Quiet
<1>10. ASSUME NEW h \in Handlers, GuestStep(h) \/ AdminStep(h)
       PROVE  RowSane(b)' /\ Evolves(b)
  BY <1>1, <1>2, <1>5, <1>6, <1>10, GuestCases, AdminCases
<1>11. ASSUME NEW s \in Sweepers, SweepWrite(s) \/ \E c \in Bookings : SweepRead(s, c)
       PROVE  RowSane(b)' /\ Evolves(b)
  BY <1>1, <1>2, <1>11, SweepCases
<1> QED
  BY <1>2, <1>3, <1>4, <1>7, <1>8, <1>9, <1>10, <1>11 DEF Next

-----------------------------------------------------------------------------
\* What a step does to the requests in flight.

\* The order was paid for.
Taken(o) == payment[o] # NoPayment /\ payment[o].capturedAt

\* Payment rows are never deleted and never change hands, and a new one is that of
\* a request which ends here.
PaymentsKept ==
  \A o \in Orders :
    /\ payment[o] # NoPayment =>
         payment'[o] # NoPayment /\ payment'[o].booking = payment[o].booking
    /\ payment[o] = NoPayment /\ payment'[o] # NoPayment =>
         \E h \in Handlers : req[h].op = "order" /\ req[h].order = o /\ Finish(h)

TakenKept == \A o \in Orders : Taken(o)' <=> Taken(o)

\* What a request remembers stays true while its booking evolves.
LEMMA FitsKept ==
  ASSUME IInv, NEW r \in Request, Fits(r), Evolves(r.id), PaymentsKept,
         now' \in Nat, now' >= now,
         r.op = "order" => payment'[r.order] = NoPayment
  PROVE  Fits(r)'
<1>1. booking[r.id] \in Row /\ now \in Nat /\ r.row \in Row
  BY DEF IInv, TypeOK, Request
<1>2. EarlyWindow \in Nat /\ NoShowGrace \in Nat /\ PaymentTimeout \in Nat
  BY TimeAssumption
<1>3. r.id \in Bookings /\ r.at \in Nat
  BY DEF Request
<1>4. r.op \in AdminOps /\ r.stage = "audit" => Effective(r.op, booking'[r.id])
  BY DEF Fits, Effective, Evolves
<1>5. r.op # "idle" => booking[r.id].status # "absent"
  BY DEF Fits
<1>6. r.op \in {"verify", "forged"} =>
        /\ r.order \in Orders
        /\ payment'[r.order] # NoPayment
        /\ payment'[r.order].booking = r.id
  BY DEF Fits, PaymentsKept
<1> QED
  BY <1>1, <1>2, <1>3, <1>4, <1>5, <1>6 DEF Fits, Evolves, Row

\* A request begins with a row it has just read.
Begins(h) ==
  \E r \in Request :
    /\ Begin(h, r)
    /\ Fits(r)
    /\ r.op = "order" => \A g \in Actors : req[g] # Idle => req[g].order # r.order

\* An administrator's winning UPDATE goes on to its audit row.
Advances(h) ==
  /\ req' = [req EXCEPT ![h] = [req[h] EXCEPT !.stage = "audit", !.row = NoRow]]
  /\ req[h].op \in AdminOps
  /\ Effective(req[h].op, booking[req[h].id])'
  /\ UNCHANGED payment

LEMMA PaymentsStep ==
  ASSUME IInv, [Next]_vars
  PROVE  /\ PaymentsKept
         /\ now' \in Nat
         /\ now' >= now
         /\ TakenKept \/ \E h \in Handlers : CaptureWrite(h)
<1>0. /\ payment \in [Orders -> Payment \cup {NoPayment}]
      /\ now \in Nat
  BY DEF IInv, TypeOK
<1>1. ASSUME NEW h \in Handlers, CreateOrderWrite(h)
      PROVE  PaymentsKept /\ TakenKept /\ UNCHANGED now
  <2>1. payment[req[h].order] = NoPayment /\ req[h].order \in Orders
    BY <1>1, Known DEF CreateOrderWrite, Idle, Actors, Fits
  <2>2. \A o \in Orders : o # req[h].order => payment'[o] = payment[o]
    BY <1>0, <1>1 DEF CreateOrderWrite
  <2>3. ~payment'[req[h].order].capturedAt
    BY <1>0, <1>1, <2>1 DEF CreateOrderWrite
  <2>4. PaymentsKept
    BY <1>1, <2>1, <2>2 DEF CreateOrderWrite, PaymentsKept
  <2> QED
    BY <1>1, <2>1, <2>2, <2>3, <2>4 DEF CreateOrderWrite, TakenKept, Taken
<1>2. ASSUME NEW h \in Handlers, RejectWrite(h)
      PROVE  PaymentsKept /\ TakenKept /\ UNCHANGED now
  <2>1. req[h].order \in Orders /\ payment[req[h].order] \in Payment
    BY <1>0, <1>2, Known DEF RejectWrite, Idle, Actors, Fits
  <2>2. /\ payment'[req[h].order].booking = payment[req[h].order].booking
        /\ payment'[req[h].order].capturedAt = payment[req[h].order].capturedAt
        /\ payment'[req[h].order].status = "failed"
        /\ payment[req[h].order] # NoPayment
    BY <1>0, <1>2, <2>1 DEF RejectWrite, Payment, NoPayment
  <2>3. \A o \in Orders : o # req[h].order => payment'[o] = payment[o]
    BY <1>0, <1>2 DEF RejectWrite
  <2>4. payment'[req[h].order] # NoPayment
    BY <2>2 DEF NoPayment
  <2> QED
    BY <1>2, <2>1, <2>2, <2>3, <2>4 DEF RejectWrite, PaymentsKept, TakenKept, Taken
<1>3. ASSUME NEW h \in Handlers, CaptureWrite(h)
      PROVE  PaymentsKept /\ UNCHANGED now
  <2>1. /\ req[h].order \in Orders
        /\ payment[req[h].order] \in Payment
        /\ req[h].id \in Bookings
    BY <1>0, <1>3, Known DEF CaptureWrite, Idle, Actors, Fits
  <2>2. CASE UNCHANGED payment
    BY <1>3, <2>2 DEF CaptureWrite, PaymentsKept
  <2>3. CASE payment' = [payment EXCEPT ![req[h].order] = CapturedRow(payment[req[h].order])]
    <3>1. /\ payment'[req[h].order].booking = payment[req[h].order].booking
          /\ payment'[req[h].order].status = "captured"
          /\ payment[req[h].order] # NoPayment
      BY <1>0, <2>1, <2>3 DEF CapturedRow, Payment, NoPayment
    <3>2. \A o \in Orders : o # req[h].order => payment'[o] = payment[o]
      BY <1>0, <2>3
    <3> QED
      BY <1>3, <2>1, <3>1, <3>2 DEF CaptureWrite, PaymentsKept, NoPayment
  <2> QED
    BY <1>3, <2>1, <2>2, <2>3, CaptureEffect
<1>4. ASSUME NEW h \in Handlers, GuestStep(h), ~CreateOrderWrite(h), ~RejectWrite(h),
             ~CaptureWrite(h)
      PROVE  UNCHANGED <<now, payment>>
  BY <1>4 DEF GuestStep, Begin, CreateOrderRead, VerifyRead, CheckInRead, CheckInWrite,
              CheckOutRead, CheckOutWrite, CancelRead, CancelWrite
<1>5. ASSUME NEW h \in Handlers, AdminStep(h)
      PROVE  UNCHANGED <<now, payment>>
  BY <1>5 DEF AdminStep, Begin, VoidRead, VoidWrite, AdminCancelRead, AdminCancelWrite,
              RefundRead, RefundWrite, ForceCheckoutRead, ForceCheckoutWrite, ExtendRead,
              ExtendWrite, AdminUpdate, Audit
<1>6. ASSUME NEW s \in Sweepers, SweepWrite(s) \/ \E b \in Bookings : SweepRead(s, b)
      PROVE  UNCHANGED <<now, payment>>
  BY <1>6 DEF SweepWrite, SweepRead, Begin
<1>7. ASSUME NEW b \in Bookings, NEW kind \in Kinds, NEW price \in Prices,
             NEW checkIn \in 0 .. MaxTime, NEW stay \in StayLengths,
             CreateBooking(b, kind, price, checkIn, stay)
      PROVE  UNCHANGED <<now, payment>>
  BY <1>7 DEF CreateBooking
<1>8. ASSUME NEW o \in Orders, SimulateCheckout(o)
      PROVE  UNCHANGED <<now, payment>>
  BY <1>8 DEF SimulateCheckout
<1>9. ASSUME NEW h \in Handlers \cup Sweepers, Crash(h)
      PROVE  UNCHANGED <<now, payment>>
  BY <1>9 DEF Crash
<1>10. UNCHANGED payment => PaymentsKept /\ TakenKept
  BY DEF PaymentsKept, TakenKept, Taken
<1>11. CASE Tick
  BY <1>0, <1>10, <1>11 DEF Tick
<1>12. CASE UNCHANGED vars
  BY <1>0, <1>10, <1>12 DEF vars
<1>13. UNCHANGED now => now' \in Nat /\ now' >= now
  BY <1>0
<1> QED
  BY <1>1, <1>2, <1>3, <1>4, <1>5, <1>6, <1>7, <1>8, <1>9, <1>10, <1>11, <1>12, <1>13 DEF Next

\* What the handlers' reads put in their request.
LEMMA SeenFields ==
  ASSUME TypeOK, NEW b \in Bookings, NEW op \in HandlerOps \cup SweepOps
  PROVE  /\ Seen(op, b).op = op /\ Seen(op, b).stage = "write" /\ Seen(op, b).id = b
         /\ SeenRow(op, b).op = op /\ SeenRow(op, b).stage = "write"
         /\ SeenRow(op, b).id = b /\ SeenRow(op, b).row = booking[b]
         /\ SeenNow(op, b).op = op /\ SeenNow(op, b).stage = "write"
         /\ SeenNow(op, b).id = b /\ SeenNow(op, b).at = now
         /\ Seen(op, b).order = NoOrder
         /\ SeenRow(op, b).order = NoOrder
         /\ SeenNow(op, b).order = NoOrder
BY DEF Seen, SeenRow, SeenNow

LEMMA OrderBegins ==
  ASSUME IInv, NEW h \in Handlers, NEW b \in Bookings, NEW o \in Orders,
         CreateOrderRead(h, b, o)
  PROVE  Begins(h)
<1> DEFINE r == [Seen("order", b) EXCEPT !.order = o]
<1>0. TypeOK /\ booking[b] \in Row /\ now \in Nat /\ b \in Bookings
  BY DEF IInv, TypeOK
<1>1. Begin(h, r)
  BY DEF CreateOrderRead
<1>2. /\ payment[o] = NoPayment
      /\ booking[b].status = "pending_payment"
  BY DEF CreateOrderRead
<1>3. Seen("order", b) \in Request
  BY <1>0, SeenType DEF HandlerOps, AdminOps
<1>4. r \in Request
  BY <1>0, <1>3 DEF Request, Row
<1>5. /\ r.op = "order"
      /\ r.stage = "write"
      /\ r.id = b
      /\ r.order = o
  BY <1>0, <1>3, SeenFields DEF Request, HandlerOps, AdminOps
<1>6. r.op = "order" => \A g \in Actors : req[g] # Idle => req[g].order # r.order
  BY <1>5 DEF CreateOrderRead, IInv, TypeOK, Actors
<1> HIDE DEF r
<1>7. Fits(r)
  BY <1>0, <1>2, <1>5 DEF Fits, Row
<1> QED
  BY <1>1, <1>4, <1>6, <1>7 DEF Begins

LEMMA CheckInBegins ==
  ASSUME IInv, NEW h \in Handlers, NEW b \in Bookings,
         CheckInRead(h, b)
  PROVE  Begins(h)
<1> DEFINE r == SeenNow("check_in", b)
<1>0. TypeOK /\ booking[b] \in Row /\ now \in Nat /\ b \in Bookings
  BY DEF IInv, TypeOK
<1>1. Begin(h, r)
  BY DEF CheckInRead
<1>2. /\ booking[b].status = "confirmed"
      /\ now >= booking[b].checkIn - EarlyWindow
      /\ now <= booking[b].checkIn + NoShowGrace
  BY DEF CheckInRead
<1>3. SeenNow("check_in", b) \in Request
  BY <1>0, SeenType DEF HandlerOps, AdminOps
<1>4. r \in Request
  BY <1>0, <1>3 DEF Request, Row
<1>5. /\ r.op = "check_in"
      /\ r.stage = "write"
      /\ r.id = b
      /\ r.at = now
      /\ r.order = NoOrder
  BY <1>0, <1>3, SeenFields DEF Request, HandlerOps, AdminOps
<1>6. r.op = "order" => \A g \in Actors : req[g] # Idle => req[g].order # r.order
  BY <1>5
<1> HIDE DEF r
<1>7. Fits(r)
  BY <1>0, <1>2, <1>5 DEF Fits, Row
<1> QED
  BY <1>1, <1>4, <1>6, <1>7 DEF Begins

LEMMA CheckOutBegins ==
  ASSUME IInv, NEW h \in Handlers, NEW b \in Bookings,
         CheckOutRead(h, b)
  PROVE  Begins(h)
<1> DEFINE r == SeenNow("check_out", b)
<1>0. TypeOK /\ booking[b] \in Row /\ now \in Nat /\ b \in Bookings
  BY DEF IInv, TypeOK
<1>1. Begin(h, r)
  BY DEF CheckOutRead
<1>2. booking[b].status = "checked_in"
  BY DEF CheckOutRead
<1>3. SeenNow("check_out", b) \in Request
  BY <1>0, SeenType DEF HandlerOps, AdminOps
<1>4. r \in Request
  BY <1>0, <1>3 DEF Request, Row
<1>5. /\ r.op = "check_out"
      /\ r.stage = "write"
      /\ r.id = b
      /\ r.at = now
      /\ r.order = NoOrder
  BY <1>0, <1>3, SeenFields DEF Request, HandlerOps, AdminOps
<1>6. r.op = "order" => \A g \in Actors : req[g] # Idle => req[g].order # r.order
  BY <1>5
<1> HIDE DEF r
<1>7. Fits(r)
  BY <1>0, <1>2, <1>5 DEF Fits, Row
<1> QED
  BY <1>1, <1>4, <1>6, <1>7 DEF Begins

LEMMA CancelBegins ==
  ASSUME IInv, NEW h \in Handlers, NEW b \in Bookings,
         CancelRead(h, b)
  PROVE  Begins(h)
<1> DEFINE r == [Seen("cancel", b) EXCEPT !.amount = PolicyRefund(booking[b], now)]
<1>0. TypeOK /\ booking[b] \in Row /\ now \in Nat /\ b \in Bookings
  BY DEF IInv, TypeOK
<1>1. Begin(h, r)
  BY DEF CancelRead
<1>2. booking[b].status = "confirmed"
  BY DEF CancelRead
<1>a. PolicyRefund(booking[b], now) \in Nat
  BY <1>0, PolicyRefundType
<1>3. Seen("cancel", b) \in Request
  BY <1>0, SeenType DEF HandlerOps, AdminOps
<1>4. r \in Request
  BY <1>0, <1>a, <1>3 DEF Request, Row
<1>5. /\ r.op = "cancel"
      /\ r.stage = "write"
      /\ r.id = b
      /\ r.order = NoOrder
  BY <1>0, <1>3, SeenFields DEF Request, HandlerOps, AdminOps
<1>6. r.op = "order" => \A g \in Actors : req[g] # Idle => req[g].order # r.order
  BY <1>5
<1> HIDE DEF r
<1>7. Fits(r)
  BY <1>0, <1>2, <1>5 DEF Fits, Row
<1> QED
  BY <1>1, <1>4, <1>6, <1>7 DEF Begins

LEMMA VoidBegins ==
  ASSUME IInv, NEW h \in Handlers, NEW b \in Bookings,
         VoidRead(h, b)
  PROVE  Begins(h)
<1> DEFINE r == [Seen("void", b) EXCEPT !.amount = booking[b].total]
<1>0. TypeOK /\ booking[b] \in Row /\ now \in Nat /\ b \in Bookings
  BY DEF IInv, TypeOK
<1>1. Begin(h, r)
  BY DEF VoidRead
<1>2. booking[b].status # "absent"
  BY DEF VoidRead
<1>3. Seen("void", b) \in Request
  BY <1>0, SeenType DEF HandlerOps, AdminOps
<1>4. r \in Request
  BY <1>0, <1>3 DEF Request, Row
<1>5. /\ r.op = "void"
      /\ r.stage = "write"
      /\ r.id = b
      /\ r.amount = booking[b].total
      /\ r.order = NoOrder
  BY <1>0, <1>3, SeenFields DEF Request, HandlerOps, AdminOps
<1>6. r.op = "order" => \A g \in Actors : req[g] # Idle => req[g].order # r.order
  BY <1>5
<1> HIDE DEF r
<1>7. Fits(r)
  BY <1>0, <1>2, <1>5 DEF Fits, Row
<1> QED
  BY <1>1, <1>4, <1>6, <1>7 DEF Begins

LEMMA AdminCancelBegins ==
  ASSUME IInv, NEW h \in Handlers, NEW b \in Bookings,
         AdminCancelRead(h, b)
  PROVE  Begins(h)
<1> DEFINE r == [Seen("admin_cancel", b) EXCEPT !.amount = PolicyRefund(booking[b], now)]
<1>0. TypeOK /\ booking[b] \in Row /\ now \in Nat /\ b \in Bookings
  BY DEF IInv, TypeOK
<1>1. Begin(h, r)
  BY DEF AdminCancelRead
<1>2. booking[b].status # "absent"
  BY DEF AdminCancelRead
<1>a. PolicyRefund(booking[b], now) \in Nat
  BY <1>0, PolicyRefundType
<1>3. Seen("admin_cancel", b) \in Request
  BY <1>0, SeenType DEF HandlerOps, AdminOps
<1>4. r \in Request
  BY <1>0, <1>a, <1>3 DEF Request, Row
<1>5. /\ r.op = "admin_cancel"
      /\ r.stage = "write"
      /\ r.id = b
      /\ r.order = NoOrder
  BY <1>0, <1>3, SeenFields DEF Request, HandlerOps, AdminOps
<1>6. r.op = "order" => \A g \in Actors : req[g] # Idle => req[g].order # r.order
  BY <1>5
<1> HIDE DEF r
<1>7. Fits(r)
  BY <1>0, <1>2, <1>5 DEF Fits, Row
<1> QED
  BY <1>1, <1>4, <1>6, <1>7 DEF Begins

LEMMA RefundBegins ==
  ASSUME IInv, NEW h \in Handlers, NEW b \in Bookings, NEW amount \in RefundAmounts,
         RefundRead(h, b, amount)
  PROVE  Begins(h)
<1> DEFINE r == [SeenRow("refund", b) EXCEPT !.amount = amount]
<1>0. TypeOK /\ booking[b] \in Row /\ now \in Nat /\ b \in Bookings
  BY DEF IInv, TypeOK
<1>1. Begin(h, r)
  BY DEF RefundRead
<1>2. booking[b].status \in Refundable
  BY DEF RefundRead
<1>a. amount \in Nat
  BY AmountAssumption, TimeAssumption
<1>3. SeenRow("refund", b) \in Request
  BY <1>0, SeenType DEF HandlerOps, AdminOps
<1>4. r \in Request
  BY <1>0, <1>a, <1>3 DEF Request, Row
<1>5. /\ r.op = "refund"
      /\ r.stage = "write"
      /\ r.id = b
      /\ r.row = booking[b]
      /\ r.order = NoOrder
  BY <1>0, <1>3, SeenFields DEF Request, HandlerOps, AdminOps
<1>6. r.op = "order" => \A g \in Actors : req[g] # Idle => req[g].order # r.order
  BY <1>5
<1> HIDE DEF r
<1>7. Fits(r)
  BY <1>0, <1>2, <1>5 DEF Fits, Row, Refundable
<1> QED
  BY <1>1, <1>4, <1>6, <1>7 DEF Begins

LEMMA ForceCheckoutBegins ==
  ASSUME IInv, NEW h \in Handlers, NEW b \in Bookings,
         ForceCheckoutRead(h, b)
  PROVE  Begins(h)
<1> DEFINE r == SeenNow("force_checkout", b)
<1>0. TypeOK /\ booking[b] \in Row /\ now \in Nat /\ b \in Bookings
  BY DEF IInv, TypeOK
<1>1. Begin(h, r)
  BY DEF ForceCheckoutRead
<1>2. booking[b].status # "absent"
  BY DEF ForceCheckoutRead
<1>3. SeenNow("force_checkout", b) \in Request
  BY <1>0, SeenType DEF HandlerOps, AdminOps
<1>4. r \in Request
  BY <1>0, <1>3 DEF Request, Row
<1>5. /\ r.op = "force_checkout"
      /\ r.stage = "write"
      /\ r.id = b
      /\ r.at = now
      /\ r.order = NoOrder
  BY <1>0, <1>3, SeenFields DEF Request, HandlerOps, AdminOps
<1>6. r.op = "order" => \A g \in Actors : req[g] # Idle => req[g].order # r.order
  BY <1>5
<1> HIDE DEF r
<1>7. Fits(r)
  BY <1>0, <1>2, <1>5 DEF Fits, Row
<1> QED
  BY <1>1, <1>4, <1>6, <1>7 DEF Begins

LEMMA ExtendBegins ==
  ASSUME IInv, NEW h \in Handlers, NEW b \in Bookings, NEW until \in 1 .. MaxTime, NEW fee \in ExtensionFees,
         ExtendRead(h, b, until, fee)
  PROVE  Begins(h)
<1> DEFINE r == [SeenRow("extend", b) EXCEPT !.until = until, !.amount = fee]
<1>0. TypeOK /\ booking[b] \in Row /\ now \in Nat /\ b \in Bookings
  BY DEF IInv, TypeOK
<1>1. Begin(h, r)
  BY DEF ExtendRead
<1>2. booking[b].status = "checked_in"
  BY DEF ExtendRead
<1>a. until \in Nat /\ fee \in Nat
  BY AmountAssumption, TimeAssumption
<1>3. SeenRow("extend", b) \in Request
  BY <1>0, SeenType DEF HandlerOps, AdminOps
<1>4. r \in Request
  BY <1>0, <1>a, <1>3 DEF Request, Row
<1>5. /\ r.op = "extend"
      /\ r.stage = "write"
      /\ r.id = b
      /\ r.row = booking[b]
      /\ r.order = NoOrder
  BY <1>0, <1>3, SeenFields DEF Request, HandlerOps, AdminOps
<1>6. r.op = "order" => \A g \in Actors : req[g] # Idle => req[g].order # r.order
  BY <1>5
<1> HIDE DEF r
<1>7. Fits(r)
  BY <1>0, <1>2, <1>5 DEF Fits, Row
<1> QED
  BY <1>1, <1>4, <1>6, <1>7 DEF Begins

LEMMA VerifyBegins ==
  ASSUME IInv, NEW h \in Handlers, NEW o \in Orders, VerifyRead(h, o)
  PROVE  Begins(h)
<1> DEFINE b == payment[o].booking
<1>0. /\ TypeOK
      /\ payment[o] # NoPayment
      /\ b \in Bookings
      /\ booking[b] \in Row
      /\ booking[b].status = "pending_payment"
      /\ RowSane(b)
  BY DEF VerifyRead, IInv, TypeOK, Payment
<1>1. PICK op \in {"verify", "forged"} : Begin(h, [SeenRow(op, b) EXCEPT !.order = o])
  BY DEF VerifyRead
<1> DEFINE r == [SeenRow(op, b) EXCEPT !.order = o]
<1>2. SeenRow(op, b) \in Request
  BY <1>0, SeenType DEF HandlerOps
<1>3. r \in Request
  BY <1>2 DEF Request
<1>4. /\ r.op = op
      /\ r.stage = "write"
      /\ r.id = b
      /\ r.row = booking[b]
      /\ r.order = o
  BY <1>0, <1>2, SeenFields DEF Request, HandlerOps
<1> HIDE DEF r
<1>5. booking[b].total = booking[b].price.base + booking[b].price.gst
  BY <1>0 DEF RowSane
<1>6. Fits(r)
  BY <1>0, <1>4, <1>5 DEF Fits, AdminOps
<1> QED
  BY <1>1, <1>3, <1>4, <1>6 DEF Begins, r

LEMMA SweepBegins ==
  ASSUME IInv, NEW s \in Sweepers, NEW b \in Bookings, SweepRead(s, b)
  PROVE  Begins(s)
<1>0. TypeOK /\ booking[b] \in Row /\ now \in Nat
  BY DEF IInv, TypeOK
<1>1. /\ SeenRow("auto_checkout", b) \in Request
      /\ Seen("no_show", b) \in Request
      /\ Seen("payment_timeout", b) \in Request
  BY <1>0, SeenType DEF SweepOps
<1>2. NoShowGrace \in Nat /\ PaymentTimeout \in Nat
  BY TimeAssumption
<1>3. CASE AutoCheckoutDue(b) /\ Begin(s, SeenRow("auto_checkout", b))
  <2> DEFINE r == SeenRow("auto_checkout", b)
  <2>1. /\ r.op = "auto_checkout" /\ r.stage = "write" /\ r.id = b /\ r.row = booking[b]
    BY <1>0, SeenFields DEF SweepOps
  <2> HIDE DEF r
  <2>2. Fits(r)
    BY <1>3, <2>1 DEF Fits, AutoCheckoutDue, AdminOps
  <2> QED
    BY <1>1, <1>3, <2>1, <2>2 DEF Begins, r
<1>4. CASE NoShowDue(b) /\ Begin(s, Seen("no_show", b))
  <2> DEFINE r == Seen("no_show", b)
  <2>1. r.op = "no_show" /\ r.stage = "write" /\ r.id = b
    BY <1>0, SeenFields DEF SweepOps
  <2> HIDE DEF r
  <2>2. Fits(r)
    BY <1>0, <1>2, <1>4, <2>1 DEF Fits, NoShowDue, AdminOps, Row
  <2> QED
    BY <1>1, <1>4, <2>1, <2>2 DEF Begins, r
<1>5. CASE PaymentTimeoutDue(b) /\ Begin(s, Seen("payment_timeout", b))
  <2> DEFINE r == Seen("payment_timeout", b)
  <2>1. r.op = "payment_timeout" /\ r.stage = "write" /\ r.id = b
    BY <1>0, SeenFields DEF SweepOps
  <2> HIDE DEF r
  <2>2. Fits(r)
    BY <1>0, <1>2, <1>5, <2>1 DEF Fits, PaymentTimeoutDue, AdminOps, Row
  <2> QED
    BY <1>1, <1>5, <2>1, <2>2 DEF Begins, r
<1> QED
  BY <1>3, <1>4, <1>5 DEF SweepRead

LEMMA VoidAdvances ==
  ASSUME IInv, NEW h \in Handlers, VoidWrite(h)
  PROVE  Finish(h) \/ Advances(h)
<1> DEFINE b == req[h].id
<1>1. /\ req[h] # Idle
      /\ h \in Actors
      /\ req[h].op = "void"
      /\ req[h].stage = "write"
  BY DEF VoidWrite, AdminUpdate, Idle, Actors
<1>2. /\ req[h] \in Request
      /\ Fits(req[h])
      /\ b \in Bookings
      /\ booking[b] \in Row
      /\ booking \in [Bookings -> Row]
      /\ RowSane(b)
  BY <1>1, Known
<1>3. CASE booking[b].status \notin {"confirmed"}
  BY <1>3 DEF VoidWrite, AdminUpdate, Finish
<1>4. CASE booking[b].status \in {"confirmed"}
  <2>1. /\ booking'[b] = [booking[b] EXCEPT !.status = "voided", !.payStatus = "refunded",
                              !.refund = req[h].amount]
        /\ req' = [req EXCEPT ![h] = [req[h] EXCEPT !.stage = "audit", !.row = NoRow]]
        /\ UNCHANGED payment
    BY <1>2, <1>4 DEF VoidWrite, AdminUpdate, UpdateIfStatus
  <2>2. /\ booking'[b].status = "voided"
        /\ booking'[b].payStatus = "refunded"
        /\ booking'[b].refund = booking'[b].total
    BY <1>1, <1>2, <1>4, <2>1 DEF Fits, Row
  <2>3. req'[h].op = "void" /\ req'[h].id = b
    BY <1>1, <1>2, <2>1 DEF Request, IInv, TypeOK, Actors
  <2>4. Effective(req[h].op, booking[req[h].id])'
    BY <2>2, <2>3 DEF Effective
  <2> QED
    BY <1>1, <2>1, <2>4 DEF Advances, AdminOps
<1> QED
  BY <1>3, <1>4

LEMMA AdminCancelAdvances ==
  ASSUME IInv, NEW h \in Handlers, AdminCancelWrite(h)
  PROVE  Finish(h) \/ Advances(h)
<1> DEFINE b == req[h].id
<1>1. /\ req[h] # Idle
      /\ h \in Actors
      /\ req[h].op = "admin_cancel"
      /\ req[h].stage = "write"
  BY DEF AdminCancelWrite, AdminUpdate, Idle, Actors
<1>2. /\ req[h] \in Request
      /\ Fits(req[h])
      /\ b \in Bookings
      /\ booking[b] \in Row
      /\ booking \in [Bookings -> Row]
      /\ RowSane(b)
  BY <1>1, Known
<1>3. CASE booking[b].status \notin {"confirmed"}
  BY <1>3 DEF AdminCancelWrite, AdminUpdate, Finish
<1>4. CASE booking[b].status \in {"confirmed"}
  <2>1. /\ booking'[b] = [booking[b] EXCEPT !.status = "cancelled", !.refund = req[h].amount]
        /\ req' = [req EXCEPT ![h] = [req[h] EXCEPT !.stage = "audit", !.row = NoRow]]
        /\ UNCHANGED payment
    BY <1>2, <1>4 DEF AdminCancelWrite, AdminUpdate, UpdateIfStatus
  <2>2. /\ booking'[b].status = "cancelled"
        /\ booking'[b].payStatus # "pending"
    BY <1>1, <1>2, <1>4, <2>1 DEF RowSane, Row
  <2>3. req'[h].op = "admin_cancel" /\ req'[h].id = b
    BY <1>1, <1>2, <2>1 DEF Request, IInv, TypeOK, Actors
  <2>4. Effective(req[h].op, booking[req[h].id])'
    BY <2>2, <2>3 DEF Effective
  <2> QED
    BY <1>1, <2>1, <2>4 DEF Advances, AdminOps
<1> QED
  BY <1>3, <1>4

LEMMA RefundAdvances ==
  ASSUME IInv, NEW h \in Handlers, RefundWrite(h)
  PROVE  Finish(h) \/ Advances(h)
<1> DEFINE b == req[h].id
<1>1. /\ req[h] # Idle
      /\ h \in Actors
      /\ req[h].op = "refund"
      /\ req[h].stage = "write"
  BY DEF RefundWrite, AdminUpdate, Idle, Actors
<1>2. /\ req[h] \in Request
      /\ Fits(req[h])
      /\ b \in Bookings
      /\ booking[b] \in Row
      /\ booking \in [Bookings -> Row]
      /\ RowSane(b)
  BY <1>1, Known
<1>3. CASE booking[b].status \notin {req[h].row.status}
  BY <1>3 DEF RefundWrite, AdminUpdate, Finish
<1>4. CASE booking[b].status \in {req[h].row.status}
  <2>1. /\ booking'[b] = [booking[b] EXCEPT !.refund = req[h].row.refund + req[h].amount,
                              !.payStatus = "refunded"]
        /\ req' = [req EXCEPT ![h] = [req[h] EXCEPT !.stage = "audit", !.row = NoRow]]
        /\ UNCHANGED payment
    BY <1>2, <1>4 DEF RefundWrite, AdminUpdate, UpdateIfStatus
  <2>2. booking'[b].payStatus = "refunded"
    BY <1>1, <1>2, <1>4, <2>1 DEF Row
  <2>3. req'[h].op = "refund" /\ req'[h].id = b
    BY <1>1, <1>2, <2>1 DEF Request, IInv, TypeOK, Actors
  <2>4. Effective(req[h].op, booking[req[h].id])'
    BY <2>2, <2>3 DEF Effective
  <2> QED
    BY <1>1, <2>1, <2>4 DEF Advances, AdminOps
<1> QED
  BY <1>3, <1>4

LEMMA ForceCheckoutAdvances ==
  ASSUME IInv, NEW h \in Handlers, ForceCheckoutWrite(h)
  PROVE  Finish(h) \/ Advances(h)
<1> DEFINE b == req[h].id
<1>1. /\ req[h] # Idle
      /\ h \in Actors
      /\ req[h].op = "force_checkout"
      /\ req[h].stage = "write"
  BY DEF ForceCheckoutWrite, AdminUpdate, Idle, Actors
<1>2. /\ req[h] \in Request
      /\ Fits(req[h])
      /\ b \in Bookings
      /\ booking[b] \in Row
      /\ booking \in [Bookings -> Row]
      /\ RowSane(b)
  BY <1>1, Known
<1>3. CASE booking[b].status \notin {"checked_in"}
  BY <1>3 DEF ForceCheckoutWrite, AdminUpdate, Finish
<1>4. CASE booking[b].status \in {"checked_in"}
  <2>1. /\ booking'[b] = [booking[b] EXCEPT !.status = "completed", !.checkedOutAt = req[h].at]
        /\ req' = [req EXCEPT ![h] = [req[h] EXCEPT !.stage = "audit", !.row = NoRow]]
        /\ UNCHANGED payment
    BY <1>2, <1>4 DEF ForceCheckoutWrite, AdminUpdate, UpdateIfStatus
  <2>2. /\ booking'[b].status = "completed"
        /\ booking'[b].payStatus # "pending"
    BY <1>1, <1>2, <1>4, <2>1 DEF RowSane, Row
  <2>3. req'[h].op = "force_checkout" /\ req'[h].id = b
    BY <1>1, <1>2, <2>1 DEF Request, IInv, TypeOK, Actors
  <2>4. Effective(req[h].op, booking[req[h].id])'
    BY <2>2, <2>3 DEF Effective
  <2> QED
    BY <1>1, <2>1, <2>4 DEF Advances, AdminOps
<1> QED
  BY <1>3, <1>4

LEMMA ExtendAdvances ==
  ASSUME IInv, NEW h \in Handlers, ExtendWrite(h)
  PROVE  Finish(h) \/ Advances(h)
<1> DEFINE b == req[h].id
<1>1. /\ req[h] # Idle
      /\ h \in Actors
      /\ req[h].op = "extend"
      /\ req[h].stage = "write"
  BY DEF ExtendWrite, AdminUpdate, Idle, Actors
<1>2. /\ req[h] \in Request
      /\ Fits(req[h])
      /\ b \in Bookings
      /\ booking[b] \in Row
      /\ booking \in [Bookings -> Row]
      /\ RowSane(b)
  BY <1>1, Known
<1>3. CASE booking[b].status \notin {"checked_in"}
  BY <1>3 DEF ExtendWrite, AdminUpdate, Finish
<1>4. CASE booking[b].status \in {"checked_in"}
  <2>1. /\ booking'[b] = [booking[b] EXCEPT !.checkOut = req[h].until,
                              !.total = req[h].row.total + req[h].amount]
        /\ req' = [req EXCEPT ![h] = [req[h] EXCEPT !.stage = "audit", !.row = NoRow]]
        /\ UNCHANGED payment
    BY <1>2, <1>4 DEF ExtendWrite, AdminUpdate, UpdateIfStatus
  <2>2. /\ booking'[b].status = "checked_in"
        /\ booking'[b].payStatus # "pending"
    BY <1>1, <1>2, <1>4, <2>1 DEF RowSane, Row
  <2>3. req'[h].op = "extend" /\ req'[h].id = b
    BY <1>1, <1>2, <2>1 DEF Request, IInv, TypeOK, Actors
  <2>4. Effective(req[h].op, booking[req[h].id])'
    BY <2>2, <2>3 DEF Effective
  <2> QED
    BY <1>1, <2>1, <2>4 DEF Advances, AdminOps
<1> QED
  BY <1>3, <1>4

\* Every step leaves the requests alone, begins or ends one, or takes an
\* administrator's on to its audit row.
LEMMA RequestsStep ==
  ASSUME IInv, [Next]_vars
  PROVE  req' = req \/ \E h \in Actors : Begins(h) \/ Finish(h) \/ Advances(h)
<1>1. ASSUME NEW h \in Handlers, GuestStep(h)
      PROVE  Begins(h) \/ Finish(h)
  BY <1>1, OrderBegins, VerifyBegins, CheckInBegins, CheckOutBegins, CancelBegins
     DEF GuestStep, CreateOrderWrite, RejectWrite, CaptureWrite, CheckInWrite,
         CheckOutWrite, CancelWrite
<1>2. ASSUME NEW h \in Handlers, AdminStep(h)
      PROVE  Begins(h) \/ Finish(h) \/ Advances(h)
  <2>1. Audit(h) => Finish(h)
    BY DEF Audit
  <2> QED
    BY <1>2, <2>1, VoidBegins, AdminCancelBegins, RefundBegins, ForceCheckoutBegins,
       ExtendBegins, VoidAdvances, AdminCancelAdvances, RefundAdvances,
       ForceCheckoutAdvances, ExtendAdvances DEF AdminStep
<1>3. ASSUME NEW s \in Sweepers, SweepWrite(s) \/ \E b \in Bookings : SweepRead(s, b)
      PROVE  Begins(s) \/ Finish(s)
  BY <1>3, SweepBegins DEF SweepWrite
<1>4. ASSUME NEW h \in Handlers \cup Sweepers, Crash(h)
      PROVE  Finish(h)
  BY <1>4 DEF Crash
<1>5. ASSUME NEW b \in Bookings, NEW kind \in Kinds, NEW price \in Prices,
             NEW checkIn \in 0 .. MaxTime, NEW stay \in StayLengths,
             CreateBooking(b, kind, price, checkIn, stay)
      PROVE  req' = req
  BY <1>5 DEF CreateBooking
<1>6. ASSUME NEW o \in Orders, SimulateCheckout(o)
      PROVE  req' = req
  BY <1>6 DEF SimulateCheckout
<1>7. CASE Tick
  BY <1>7 DEF Tick
<1>8. CASE UNCHANGED vars
  BY <1>8 DEF vars
<1> QED
  BY <1>1, <1>2, <1>3, <1>4, <1>5, <1>6, <1>7, <1>8 DEF Next, Actors

LEMMA FitsStep ==
  ASSUME IInv, [Next]_vars
  PROVE  \A g \in Actors : Fits(req[g])'
<1> SUFFICES ASSUME NEW g \in Actors
             PROVE  Fits(req[g])'
  OBVIOUS
<1>0. /\ req \in [Actors -> Request \cup {Idle}]
      /\ PaymentsKept
      /\ now' \in Nat
      /\ now' >= now
  BY PaymentsStep DEF IInv, TypeOK, Actors
<1>1. \A r : r = Idle => Fits(r)'
  BY DEF Fits, Idle, AdminOps
<1>2. CASE req'[g] = Idle
  BY <1>1, <1>2 DEF Fits
<1>3. CASE req'[g] = req[g] /\ req[g] # Idle
  <2>1. req[g] \in Request /\ Fits(req[g]) /\ req[g].id \in Bookings
    BY <1>3, Known
  <2>2. Evolves(req[g].id)
    BY <2>1, RowsStep
  <2>3. req[g].op = "order" => payment'[req[g].order] = NoPayment
    <3>1. SUFFICES ASSUME req[g].op = "order", payment'[req[g].order] # NoPayment
                   PROVE  FALSE
      OBVIOUS
    <3>2. req[g].order \in Orders /\ payment[req[g].order] = NoPayment
      BY <2>1, <3>1 DEF Fits
    <3>3. PICK h \in Handlers : req[h].op = "order" /\ req[h].order = req[g].order /\ Finish(h)
      BY <1>0, <3>1, <3>2 DEF PaymentsKept
    <3>4. g = h
      BY <3>1, <3>3 DEF IInv, OrdersApart, Actors
    <3>5. req'[g] = Idle
      BY <1>0, <3>3, <3>4 DEF Finish
    <3> QED
      BY <1>3, <3>5
  <2>4. \A r : r = req[g] => Fits(r)'
    BY <1>0, <2>1, <2>2, <2>3, FitsKept
  <2> QED
    BY <1>3, <2>4 DEF Fits
<1>4. CASE Begins(g)
  <2>1. PICK r \in Request : Begin(g, r) /\ Fits(r)
    BY <1>4 DEF Begins
  <2>2. req'[g] = r /\ UNCHANGED <<now, booking, payment>>
    BY <1>0, <2>1 DEF Begin
  <2> QED
    BY <2>1, <2>2 DEF Fits, Effective
<1>5. CASE Advances(g)
  <2>1. req[g] # Idle
    BY <1>5 DEF Advances, AdminOps, Idle
  <2>2. req[g] \in Request /\ Fits(req[g]) /\ req[g].id \in Bookings
    BY <2>1, Known
  <2>3. /\ req'[g].op = req[g].op
        /\ req'[g].stage = "audit"
        /\ req'[g].id = req[g].id
        /\ req'[g].at = req[g].at
    BY <1>0, <1>5, <2>2 DEF Advances, Request
  <2>4. /\ req[g].op \in AdminOps
        /\ Effective(req[g].op, booking[req[g].id])'
        /\ now \in Nat
    BY <1>5 DEF Advances, IInv, TypeOK
  <2>5. booking[req[g].id].status # "absent" /\ Evolves(req[g].id)
    BY <2>2, <2>4, RowsStep DEF Fits, AdminOps
  <2>6. /\ booking'[req[g].id].status # "absent"
        /\ req[g].op = "force_checkout" => req[g].at <= now'
    BY <1>0, <2>2, <2>4, <2>5 DEF Fits, Evolves, Request
  <2> QED
    BY <2>3, <2>4, <2>6 DEF Fits, AdminOps
<1>6. req'[g] = req[g] \/ req'[g] = Idle \/ Begins(g) \/ Advances(g)
  BY <1>0, RequestsStep DEF Begins, Begin, Finish, Advances
<1> QED
  BY <1>1, <1>2, <1>3, <1>4, <1>5, <1>6

LEMMA OrdersStep ==
  ASSUME IInv, [Next]_vars
  PROVE  OrdersApart'
<1>0. /\ req \in [Actors -> Request \cup {Idle}]
      /\ OrdersApart
  BY DEF IInv, TypeOK, Actors
<1>1. CASE req' = req
  BY <1>0, <1>1 DEF OrdersApart
<1>2. ASSUME NEW h \in Actors, Finish(h)
      PROVE  OrdersApart'
  BY <1>0, <1>2 DEF Finish, OrdersApart, Idle
<1>3. ASSUME NEW h \in Actors, Begins(h)
      PROVE  OrdersApart'
  <2>1. PICK r \in Request :
          /\ Begin(h, r)
          /\ r.op = "order" => \A g \in Actors : req[g] # Idle => req[g].order # r.order
    BY <1>3 DEF Begins
  <2>2. req'[h] = r /\ \A g \in Actors : g # h => req'[g] = req[g]
    BY <1>0, <2>1 DEF Begin
  <2>3. \A g \in Actors : req[g].op = "order" => req[g] # Idle
    BY DEF Idle
  <2> QED
    BY <1>0, <2>1, <2>2, <2>3 DEF OrdersApart
<1>4. ASSUME NEW h \in Actors, Advances(h)
      PROVE  OrdersApart'
  <2>1. req'[h].op = req[h].op /\ req[h].op \in AdminOps
    BY <1>0, <1>4 DEF Advances, Request, Idle, AdminOps
  <2>2. \A g \in Actors : g # h => req'[g] = req[g]
    BY <1>0, <1>4 DEF Advances
  <2> QED
    BY <1>0, <2>1, <2>2 DEF OrdersApart, AdminOps
<1> QED
  BY <1>1, <1>2, <1>3, <1>4, RequestsStep

-----------------------------------------------------------------------------
\* One capture for each paid booking.

\* Only a capture changes what a booking has paid.
LEMMA PaidStep ==
  ASSUME IInv, [Next]_vars, \A h \in Handlers : ~CaptureWrite(h)
  PROVE  \A b \in Bookings : Paid(b)' <=> Paid(b)
<1> SUFFICES ASSUME NEW b \in Bookings
             PROVE  Paid(b)' <=> Paid(b)
  OBVIOUS
<1>1. CASE UNCHANGED booking
  BY <1>1 DEF Paid
<1>2. ASSUME NEW c \in Bookings, RowStep(c)
      PROVE  Paid(b)' <=> Paid(b)
  <2>1. CASE b = c
    BY <1>2, <2>1 DEF RowStep
  <2>2. CASE b # c
    BY <1>2, <2>2 DEF RowStep, Paid
  <2> QED
    BY <2>1, <2>2
<1>3. ASSUME NEW c \in Bookings, NEW kind \in Kinds, NEW price \in Prices,
             NEW checkIn \in 0 .. MaxTime, NEW stay \in StayLengths,
             CreateBooking(c, kind, price, checkIn, stay)
      PROVE  Paid(b)' <=> Paid(b)
  <2>1. booking \in [Bookings -> Row] /\ RowSane(c)
    BY DEF IInv, TypeOK
  <2>2. CASE b # c
    BY <1>3, <2>1, <2>2 DEF CreateBooking, Paid
  <2>3. CASE b = c
    <3>1. booking[b].payStatus = "pending"
      BY <1>3, <2>1, <2>3 DEF CreateBooking, RowSane
    <3>2. booking'[b].payStatus = "pending"
      BY <1>3, <2>1, <2>3 DEF CreateBooking, NoRow
    <3> QED
      BY <3>1, <3>2 DEF Paid
  <2> QED
    BY <2>2, <2>3
<1>4. ASSUME NEW h \in Handlers, GuestStep(h) \/ AdminStep(h)
      PROVE  Paid(b)' <=> Paid(b)
  BY <1>1, <1>2, <1>4, GuestCases, AdminCases DEF Quiet, Audit
<1>5. ASSUME NEW s \in Sweepers, SweepWrite(s) \/ \E c \in Bookings : SweepRead(s, c)
      PROVE  Paid(b)' <=> Paid(b)
  BY <1>1, <1>2, <1>5, SweepCases DEF Quiet
<1>6. ASSUME NEW o \in Orders, SimulateCheckout(o)
      PROVE  UNCHANGED booking
  BY <1>6 DEF SimulateCheckout
<1>7. ASSUME NEW h \in Handlers \cup Sweepers, Crash(h)
      PROVE  UNCHANGED booking
  BY <1>7 DEF Crash
<1>8. Tick => UNCHANGED booking
  BY DEF Tick
<1>9. UNCHANGED vars => UNCHANGED booking
  BY DEF vars
<1> QED
  BY <1>1, <1>3, <1>4, <1>5, <1>6, <1>7, <1>8, <1>9 DEF Next

LEMMA CaptureStep ==
  ASSUME IInv, [Next]_vars
  PROVE  OneCapture'
<1>0. /\ OneCapture
      /\ PaymentsKept
      /\ booking \in [Bookings -> Row]
      /\ payment \in [Orders -> Payment \cup {NoPayment}]
  BY PaymentsStep DEF IInv, TypeOK
<1>1. ASSUME TakenKept, \A b \in Bookings : Paid(b)' <=> Paid(b)
      PROVE  OneCapture'
  <2>1. \A b \in Bookings : Captured(b)' = Captured(b)
    BY <1>0, <1>1 DEF Captured, TakenKept, Taken, PaymentsKept
  <2> QED
    BY <1>0, <1>1, <2>1 DEF OneCapture
<1>2. ASSUME NEW h \in Handlers, CaptureWrite(h)
      PROVE  OneCapture'
  <2>1. /\ req[h].order \in Orders
        /\ payment[req[h].order] \in Payment
        /\ payment[req[h].order] # NoPayment
        /\ payment[req[h].order].booking = req[h].id
        /\ req[h].id \in Bookings
        /\ RowSane(req[h].id)
    BY <1>0, <1>2, Known DEF CaptureWrite, Idle, Actors, Fits
  <2>2. CASE UNCHANGED <<booking, payment>>
    BY <1>1, <2>2 DEF TakenKept, Taken, Paid
  <2>3. CASE /\ booking[req[h].id].status = "pending_payment"
             /\ booking' = [booking EXCEPT ![req[h].id] = ConfirmedRow(booking[req[h].id])]
             /\ payment' = [payment EXCEPT ![req[h].order] = CapturedRow(payment[req[h].order])]
    <3>0. PICK d \in Bookings, p \in Orders : d = req[h].id /\ p = req[h].order
      BY <2>1
    <3>1. /\ payment'[p] # NoPayment
          /\ payment'[p].booking = d
          /\ payment'[p].capturedAt
      <4>1. /\ payment'[p].status = "captured"
            /\ payment'[p].booking = d
            /\ payment'[p].capturedAt
        BY <1>0, <2>1, <2>3, <3>0 DEF CapturedRow, Payment
      <4> QED
        BY <4>1 DEF NoPayment
    <3>2. \A o \in Orders : o # p => payment'[o] = payment[o]
      BY <1>0, <2>3, <3>0
    <3>3. ~Paid(d)
      BY <2>1, <2>3, <3>0 DEF RowSane, Paid
    <3>4. Captured(d) = {}
      BY <1>0, <2>1, <3>3 DEF OneCapture
    <3>5. Captured(d)' = {p}
      BY <2>1, <3>0, <3>1, <3>2, <3>4 DEF Captured
    <3>6. \A b \in Bookings : b # d => Captured(b)' = Captured(b)
      BY <2>1, <3>0, <3>1, <3>2 DEF Captured
    <3>7. /\ Paid(d)'
          /\ \A b \in Bookings : b # d => (Paid(b)' <=> Paid(b))
      BY <1>0, <2>1, <2>3, <3>0 DEF Paid, ConfirmedRow, Row
    <3> QED
      <4> SUFFICES ASSUME NEW b \in Bookings
                   PROVE  (Paid(b)' <=> Captured(b)' # {}) /\ \A o, q \in Captured(b)' : o = q
        BY DEF OneCapture
      <4>1. CASE b = d
        BY <3>5, <3>7, <4>1
      <4>2. CASE b # d
        BY <1>0, <3>6, <3>7, <4>2 DEF OneCapture
      <4> QED
        BY <4>1, <4>2
  <2> QED
    BY <1>2, <2>1, <2>2, <2>3, CaptureEffect
<1> QED
  BY <1>1, <1>2, PaidStep, PaymentsStep

-----------------------------------------------------------------------------
\* The theorems.

LEMMA InvInit == Init => IInv
<1> SUFFICES ASSUME Init
             PROVE  IInv
  OBVIOUS
<1>1. TypeOK
  BY NoRowType DEF Init, TypeOK, Unposted, Accounts
<1>2. ASSUME NEW b \in Bookings
      PROVE  RowSane(b)
  BY <1>2 DEF Init, RowSane, NoRow
<1>3. ASSUME NEW h \in Actors
      PROVE  Fits(req[h])
  BY <1>3 DEF Init, Fits, Idle, Actors, AdminOps
<1>4. OrdersApart
  BY DEF Init, OrdersApart, Idle, Actors
<1>5. OneCapture
  BY DEF Init, OneCapture, Captured, Paid, NoRow
<1> QED
  BY <1>1, <1>2, <1>3, <1>4, <1>5 DEF IInv

LEMMA InvStep == IInv /\ [Next]_vars => IInv'
<1> SUFFICES ASSUME IInv, [Next]_vars
             PROVE  IInv'
  OBVIOUS
<1>1. TypeOK' /\ OrdersApart' /\ OneCapture'
  BY TypeStep, OrdersStep, CaptureStep
<1>2. \A b \in Bookings : RowSane(b)'
  BY RowsStep
<1>3. \A h \in Actors : Fits(req[h])'
  BY FitsStep
<1> QED
  BY <1>1, <1>2, <1>3 DEF IInv

\* IInv holds in every reachable state: the rows agree with the journal and the
\* log, and every request in flight, however stale, still fits the row it will
\* write to.
THEOREM Invariance == Spec => []IInv
  BY InvInit, InvStep, PTL DEF Spec

\* Every column, journal account and request keeps its type, so no paise amount
\* the code computes goes below zero.
THEOREM TypeCorrect == Spec => []TypeOK
<1>1. IInv => TypeOK
  BY DEF IInv
<1> QED
  BY <1>1, Invariance, PTL

\* The journal of a booking is one capture of its quoted price if it was paid, and
\* empty otherwise, whatever verifyAndCapture, the jobs and the administrators
\* interleave.
THEOREM LedgerMatches == Spec => []LedgerMatchesBooking
<1>1. IInv => LedgerMatchesBooking
  BY DEF IInv, RowSane, LedgerMatchesBooking, Paid
<1> QED
  BY <1>1, Invariance, PTL

\* Of all the orders opened for a booking, one is captured if it is paid and none
\* if it is not.
THEOREM CapturedOnce == Spec => []OneCapture
<1>1. IInv => OneCapture
  BY DEF IInv
<1> QED
  BY <1>1, Invariance, PTL

\* Nothing is refunded, on the row or by an announcement, on a booking that was
\* never paid.
THEOREM RefundsBacked == Spec => []RefundBacked
<1>1. IInv => RefundBacked
  BY DEF IInv, RowSane, RefundBacked, Paid, TypeOK, Row
<1> QED
  BY <1>1, Invariance, PTL

\* What the administrators' log says of a booking is true of its row.
THEOREM AuditsTruthful == Spec => []AuditTruthful
<1>1. IInv => AuditTruthful
  <2> SUFFICES ASSUME IInv, NEW b \in Bookings
               PROVE  /\ "void" \in logged[b] =>
                           booking[b].status = "voided" /\ booking[b].refund = booking[b].total
                      /\ "admin_cancel" \in logged[b] => booking[b].status = "cancelled"
                      /\ "force_checkout" \in logged[b] => booking[b].status = "completed"
                      /\ "refund" \in logged[b] => booking[b].payStatus = "refunded"
                      /\ "extend" \in logged[b] =>
                           booking[b].status \in {"checked_in", "completed"}
    BY DEF AuditTruthful
  <2>1. \A op \in logged[b] : Effective(op, booking[b])
    BY DEF IInv, RowSane
  <2> QED
    BY <2>1 DEF Effective
<1> QED
  BY <1>1, Invariance, PTL

\* No job acts before its deadline, and no departure is recorded in the future.
THEOREM Deadlines == Spec => []DeadlinesHonoured
<1>1. IInv => DeadlinesHonoured
  BY DEF IInv, RowSane, DeadlinesHonoured, Paid
<1> QED
  BY <1>1, Invariance, PTL

-----------------------------------------------------------------------------
\* BookingLifecycle implements BookingStatus.

\* One row at most moves, and as BookingStatus lets it.
LEMMA MoveStep ==
  ASSUME IInv, booking' \in [Bookings -> Row], NEW b \in Bookings, Moved(b),
         \A c \in Bookings \ {b} : booking'[c] = booking[c]
  PROVE  [StatusMachine!Next]_Statuses
<1>1. CASE booking'[b].status = booking[b].status
  <2>1. Statuses' = Statuses
    BY <1>1 DEF Statuses
  <2> QED
    BY <2>1
<1>2. CASE <<booking[b].status, booking'[b].status>> \in StatusMachine!Moves
  <2>1. booking'[b].status \in StatusMachine!Status
    BY DEF Row, StatusMachine!Status, StatusMachine!Active, StatusMachine!Terminal,
           Active, Terminal
  <2>2. Statuses' = [Statuses EXCEPT ![b] = booking'[b].status]
    BY DEF Statuses
  <2>3. StatusMachine!Move(b)
    BY <1>2, <2>1, <2>2 DEF StatusMachine!Move, Statuses
  <2> QED
    BY <2>3 DEF StatusMachine!Next
<1> QED
  BY <1>1, <1>2 DEF Moved

LEMMA StatusStep ==
  ASSUME IInv, [Next]_vars
  PROVE  [StatusMachine!Next]_Statuses
<1>0. /\ booking' \in [Bookings -> Row]
      /\ booking \in [Bookings -> Row]
  BY TypeStep DEF TypeOK, IInv
<1>1. ASSUME UNCHANGED booking
      PROVE  [StatusMachine!Next]_Statuses
  BY <1>1 DEF Statuses
<1>2. ASSUME NEW b \in Bookings, RowStep(b)
      PROVE  [StatusMachine!Next]_Statuses
  BY <1>0, <1>2, MoveStep DEF RowStep
<1>3. ASSUME NEW b \in Bookings, NEW kind \in Kinds, NEW price \in Prices,
             NEW checkIn \in 0 .. MaxTime, NEW stay \in StayLengths,
             CreateBooking(b, kind, price, checkIn, stay)
      PROVE  [StatusMachine!Next]_Statuses
  <2>1. booking[b].status = "absent" /\ booking'[b].status = "pending_payment"
    BY <1>0, <1>3 DEF CreateBooking, NoRow
  <2>2. \A c \in Bookings \ {b} : booking'[c] = booking[c]
    BY <1>0, <1>3 DEF CreateBooking
  <2>3. Moved(b)
    BY <2>1 DEF Moved, StatusMachine!Moves
  <2> QED
    BY <1>0, <2>2, <2>3, MoveStep
<1>4. ASSUME NEW h \in Handlers, CaptureWrite(h)
      PROVE  [StatusMachine!Next]_Statuses
  <2>1. PICK b \in Bookings : req[h].id = b
    BY <1>4, Known DEF CaptureWrite, Idle, Actors
  <2>2. CASE /\ booking[b].status = "pending_payment"
             /\ booking' = [booking EXCEPT ![b] = ConfirmedRow(booking[b])]
    <3>1. booking'[b].status = "confirmed"
      BY <1>0, <2>2 DEF ConfirmedRow, Row
    <3>2. Moved(b)
      BY <2>2, <3>1 DEF Moved, StatusMachine!Moves
    <3>3. \A c \in Bookings \ {b} : booking'[c] = booking[c]
      BY <1>0, <2>2
    <3> QED
      BY <1>0, <3>2, <3>3, MoveStep
  <2> QED
    BY <1>1, <1>4, <2>1, <2>2, CaptureEffect
<1>5. ASSUME NEW h \in Handlers, GuestStep(h) \/ AdminStep(h)
      PROVE  [StatusMachine!Next]_Statuses
  BY <1>1, <1>2, <1>4, <1>5, GuestCases, AdminCases DEF Quiet, Audit
<1>6. ASSUME NEW s \in Sweepers, SweepWrite(s) \/ \E b \in Bookings : SweepRead(s, b)
      PROVE  [StatusMachine!Next]_Statuses
  BY <1>1, <1>2, <1>6, SweepCases DEF Quiet
<1>7. ASSUME NEW o \in Orders, SimulateCheckout(o)
      PROVE  UNCHANGED booking
  BY <1>7 DEF SimulateCheckout
<1>8. ASSUME NEW h \in Handlers \cup Sweepers, Crash(h)
      PROVE  UNCHANGED booking
  BY <1>8 DEF Crash
<1>9. Tick => UNCHANGED booking
  BY DEF Tick
<1>10. UNCHANGED vars => UNCHANGED booking
  BY DEF vars
<1> QED
  BY <1>1, <1>3, <1>5, <1>6, <1>7, <1>8, <1>9, <1>10 DEF Next

\* Guests, administrators, captures and jobs together implement the status
\* machine: no booking leaves a final status, and none is confirmed twice.
THEOREM ImplementsStatus == Spec => StatusSpec
<1>1. Init => StatusMachine!Init
  BY DEF Init, NoRow, StatusMachine!Init, Statuses
<1>2. IInv /\ [Next]_vars => [StatusMachine!Next]_Statuses
  BY StatusStep
<1> QED
  BY <1>1, <1>2, Invariance, PTL DEF Spec, StatusSpec, StatusMachine!Spec
=============================================================================
