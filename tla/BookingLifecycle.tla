-------------------------- MODULE BookingLifecycle --------------------------
(***************************************************************************)
(* The life of a booking row: payment, arrival, departure, cancellation,   *)
(* the administrators' actions and the three scheduled jobs, with the      *)
(* payment rows and the double-entry ledger the capture writes.            *)
(*                                                                         *)
(* Every operation of the code is two database round trips or more: it     *)
(* reads the row, decides, and later issues a conditional UPDATE that      *)
(* names only the status it expects.  Each operation is therefore a Read   *)
(* action, which leaves the row it saw in req, and a Write action, which   *)
(* uses that possibly stale row.  Anything may happen in between: other    *)
(* requests, the jobs, the clock, or the end of the process (Crash).       *)
(***************************************************************************)
EXTENDS Integers, FiniteSets

CONSTANTS
  Bookings,         \* booking ids
  Orders,           \* gateway order ids
  NoOrder,          \* not an order
  Handlers,         \* HTTP requests that can be in flight at once
  Sweepers,         \* scheduled-job invocations that can be in flight at once
  Prices,           \* quotes a new booking can carry: [base, fee, gst]
  Kinds,            \* booking types on offer
  StayLengths,      \* lengths a new booking can have
  RefundAmounts,    \* amounts an administrator refunds in one call
  ExtensionFees,    \* surcharges an administrator sets on an extension
  EarlyWindow,      \* CHECK_IN_EARLY_WINDOW_MINUTES
  NoShowGrace,      \* NO_SHOW_GRACE_MINUTES
  PaymentTimeout,   \* PAYMENT_TIMEOUT_MINUTES
  PastGrace,        \* BOOKING_PAST_GRACE_MINUTES
  Horizon,          \* BOOKING_HORIZON_DAYS
  HourlyNotice,     \* notice for a full refund of an hourly booking (2 h)
  FulldayNotice,    \* notice for a full refund of a full-day booking (24 h)
  MaxTime,          \* bound: the clock stops here
  RefundCap         \* bound: no refund is begun once this much was issued

Price == [base : Nat, fee : Nat, gst : Nat]

\* The commission is a percentage of the base, at most 30, and a rate is positive.
ASSUME PriceAssumption ==
  /\ Prices \subseteq Price
  /\ \A p \in Prices : p.base > 0 /\ p.fee <= p.base

\* A stay is an hour at least, longer than the half hour a guest may be late.
ASSUME TimeAssumption ==
  /\ {EarlyWindow, NoShowGrace, PaymentTimeout, PastGrace, Horizon,
      HourlyNotice, FulldayNotice, MaxTime, RefundCap} \subseteq Nat
  /\ StayLengths \subseteq Nat
  /\ \A n \in StayLengths : n > NoShowGrace
  /\ Kinds \subseteq {"hourly", "fullday"}

ASSUME AmountAssumption ==
  /\ RefundAmounts \subseteq Nat \ {0}
  /\ ExtensionFees \subseteq Nat \ {0}

ASSUME OrderAssumption == NoOrder \notin Orders

ASSUME ActorAssumption == Handlers \cap Sweepers = {}

VARIABLES
  now,        \* the clock
  booking,    \* booking[b]: the bookings table
  payment,    \* payment[o]: the finance.payments table
  signed,     \* orders whose hosted checkout handed the guest a valid signature
  ledger,     \* ledger[b][a]: credit minus debit of the entries that refer to b
  logged,     \* logged[b]: the kinds of booking_admin_actions rows b has
  issued,     \* issued[b]: refund paise announced by events for b
  req         \* req[h]: the request or job invocation h is in the middle of

vars == <<now, booking, payment, signed, ledger, logged, issued, req>>

-----------------------------------------------------------------------------
\* The tables.

Active == {"pending_payment", "confirmed", "checked_in"}
Terminal == {"completed", "cancelled", "no_show", "voided"}
Refundable == {"confirmed", "checked_in", "completed"}

Row ==
  [status : {"absent"} \cup Active \cup Terminal,
   kind : {"hourly", "fullday"},
   price : Price,
   createdAt : Nat, checkIn : Nat, checkOut : Nat,
   checkedInAt : Nat, checkedOutAt : Nat,
   total : Nat, refund : Nat,
   payStatus : {"pending", "success", "refunded"},
   qr : BOOLEAN]

NoRow ==
  [status |-> "absent", kind |-> "hourly",
   price |-> [base |-> 0, fee |-> 0, gst |-> 0],
   createdAt |-> 0, checkIn |-> 0, checkOut |-> 0,
   checkedInAt |-> 0, checkedOutAt |-> 0,
   total |-> 0, refund |-> 0, payStatus |-> "pending", qr |-> FALSE]

Payment ==
  [booking : Bookings, status : {"created", "captured", "failed"},
   capturedAt : BOOLEAN]

NoPayment == [status |-> "none"]

Accounts == {"guest_clearing", "owner_payable", "platform_commission", "gst_payable"}

\* The journal before anything is posted.
Unposted == [a \in Accounts |-> 0]

AdminOps == {"void", "admin_cancel", "refund", "force_checkout", "extend"}

HandlerOps ==
  {"order", "verify", "forged", "check_in", "check_out", "cancel"} \cup AdminOps

SweepOps == {"auto_checkout", "no_show", "payment_timeout"}

Request ==
  [op : HandlerOps \cup SweepOps, stage : {"write", "audit"},
   id : Bookings, row : Row, at : Nat,
   order : Orders \cup {NoOrder}, amount : Nat, until : Nat]

Idle == [op |-> "idle"]

-----------------------------------------------------------------------------
\* Helpers.

\* A handler that has just read the row of b.  It keeps what its write will use:
\* the row and the time of the read, where they matter, are added by the handler.
Seen(op, b) ==
  [op |-> op, stage |-> "write", id |-> b, row |-> NoRow, at |-> 0,
   order |-> NoOrder, amount |-> 0, until |-> 0]

SeenRow(op, b) == [Seen(op, b) EXCEPT !.row = booking[b]]

SeenNow(op, b) == [Seen(op, b) EXCEPT !.at = now]

Begin(h, r) ==
  /\ req[h] = Idle
  /\ req' = [req EXCEPT ![h] = r]
  /\ UNCHANGED <<now, booking, payment, signed, ledger, logged, issued>>

Finish(h) == req' = [req EXCEPT ![h] = Idle]

\* MUTANT: the UPDATE's WHERE clause names the row only.
UpdateIfStatusUnguarded(b, from, row) == booking' = [booking EXCEPT ![b] = row]

\* One UPDATE ... WHERE id = b AND status IN from; it matches no row otherwise.
UpdateIfStatus(b, from, row) ==
  booking' = IF booking[b].status \in from
               THEN [booking EXCEPT ![b] = row]
               ELSE booking

\* MUTANT: what was refunded before is taken off the refund due.
PolicyRefundRemaining(row, t) ==
  IF row.kind = "hourly"
    THEN (IF row.checkIn - t >= HourlyNotice THEN row.total ELSE 0) - row.refund
    ELSE (IF row.checkIn - t >= FulldayNotice THEN row.total ELSE row.total \div 2)
           - row.refund

\* calculateBookingRefund, at time t.
PolicyRefund(row, t) ==
  IF row.kind = "hourly"
    THEN IF row.checkIn - t >= HourlyNotice THEN row.total ELSE 0
    ELSE IF row.checkIn - t >= FulldayNotice THEN row.total ELSE row.total \div 2

\* A leg of zero paise (or less) is dropped.
Leg(amount) == IF amount > 0 THEN amount ELSE 0

\* The legs of a capture by account, debits negative.
CaptureLegs(row) ==
  [a \in Accounts |->
     CASE a = "guest_clearing" -> -Leg(row.total)
       [] a = "owner_payable" -> Leg(row.price.base - row.price.fee)
       [] a = "platform_commission" -> Leg(row.price.fee)
       [] a = "gst_payable" -> Leg(row.price.gst)]

\* assertBalanced: two legs at least, and debits equal to credits.
Balanced(legs) ==
  /\ \E a, c \in Accounts : a # c /\ legs[a] # 0 /\ legs[c] # 0
  /\ legs["guest_clearing"] + legs["owner_payable"]
       + legs["platform_commission"] + legs["gst_payable"] = 0

Post(b, legs) ==
  ledger' = [ledger EXCEPT ![b] = [a \in Accounts |-> ledger[b][a] + legs[a]]]

-----------------------------------------------------------------------------
\* A booking is created.

Init ==
  /\ now = 0
  /\ booking = [b \in Bookings |-> NoRow]
  /\ payment = [o \in Orders |-> NoPayment]
  /\ signed = {}
  /\ ledger = [b \in Bookings |-> Unposted]
  /\ logged = [b \in Bookings |-> {}]
  /\ issued = [b \in Bookings |-> 0]
  /\ req = [h \in Handlers \cup Sweepers |-> Idle]

\* POST /bookings.  Whether a room is free is RoomInventory's question; here the
\* INSERT either happens or does not.  The bounds: every deadline of the row
\* falls inside the clock.
CreateBooking(b, kind, price, checkIn, stay) ==
  /\ booking[b].status = "absent"
  /\ checkIn >= now - PastGrace
  /\ checkIn <= now + Horizon
  /\ now + PaymentTimeout < MaxTime
  /\ checkIn + NoShowGrace < MaxTime
  /\ checkIn + stay <= MaxTime
  /\ booking' = [booking EXCEPT ![b] =
       [NoRow EXCEPT !.status = "pending_payment", !.kind = kind, !.price = price,
                     !.createdAt = now, !.checkIn = checkIn,
                     !.checkOut = checkIn + stay, !.total = price.base + price.gst]]
  /\ UNCHANGED <<now, payment, signed, ledger, logged, issued, req>>

-----------------------------------------------------------------------------
\* Payment.  getPayableBooking is the guard of every step.

\* POST /bookings/:id/payment/order, up to the gateway's answer.
CreateOrderRead(h, b, o) ==
  /\ booking[b].status = "pending_payment"
  /\ payment[o] = NoPayment
  /\ \A g \in DOMAIN req : req[g] # Idle => req[g].order # o  \* an order id is fresh
  /\ Begin(h, [Seen("order", b) EXCEPT !.order = o])

\* ... and the payment row that records it.
CreateOrderWrite(h) ==
  /\ req[h].op = "order"
  /\ payment' = [payment EXCEPT ![req[h].order] =
       [booking |-> req[h].id, status |-> "created", capturedAt |-> FALSE]]
  /\ Finish(h)
  /\ UNCHANGED <<now, booking, signed, ledger, logged, issued>>

\* The hosted checkout takes the guest's money and signs the order.
SimulateCheckout(o) ==
  /\ payment[o] # NoPayment
  /\ booking[payment[o].booking].status = "pending_payment"
  /\ o \notin signed
  /\ signed' = signed \cup {o}
  /\ UNCHANGED <<now, booking, payment, ledger, logged, issued, req>>

\* POST /bookings/:id/payment/verify, the reads and the signature check.
VerifyRead(h, o) ==
  /\ payment[o] # NoPayment
  /\ booking[payment[o].booking].status = "pending_payment"
  /\ payment[o].status # "captured"
  /\ \E op \in {"verify", "forged"} :
       /\ op = "verify" => o \in signed
       /\ Begin(h, [SeenRow(op, payment[o].booking) EXCEPT !.order = o])

\* The signature does not match: the payment row is marked failed.
RejectWrite(h) ==
  /\ req[h].op = "forged"
  /\ payment' = [payment EXCEPT ![req[h].order].status = "failed"]
  /\ Finish(h)
  /\ UNCHANGED <<now, booking, signed, ledger, logged, issued>>

\* What the capture writes on the booking and on the payment.
ConfirmedRow(row) ==
  [row EXCEPT !.status = "confirmed", !.payStatus = "success", !.qr = TRUE]

CapturedRow(p) == [p EXCEPT !.status = "captured", !.capturedAt = TRUE]

\* MUTANT: the transaction does not check that the booking still awaits payment.
CaptureWriteUnguarded(h) ==
  LET r == req[h]
      legs == CaptureLegs(r.row)
  IN
  /\ r.op = "verify"
  /\ Balanced(legs)
  /\ booking' = [booking EXCEPT ![r.id] = ConfirmedRow(@)]
  /\ payment' = [payment EXCEPT ![r.order] = CapturedRow(@)]
  /\ Post(r.id, legs)
  /\ Finish(h)
  /\ UNCHANGED <<now, signed, logged, issued>>

\* MUTANT: the payment row is marked before the transaction and stays marked.
CaptureWritePaymentFirst(h) ==
  LET r == req[h]
      legs == CaptureLegs(r.row)
  IN
  /\ r.op = "verify"
  /\ payment' = [payment EXCEPT ![r.order] = CapturedRow(@)]
  /\ IF booking[r.id].status = "pending_payment" /\ Balanced(legs)
       THEN /\ booking' = [booking EXCEPT ![r.id] = ConfirmedRow(@)]
            /\ Post(r.id, legs)
       ELSE UNCHANGED <<booking, ledger>>
  /\ Finish(h)
  /\ UNCHANGED <<now, signed, logged, issued>>

\* The signature matches: one transaction confirms the booking, captures the
\* payment and posts the legs, or rolls everything back.
CaptureWrite(h) ==
  LET r == req[h]
      legs == CaptureLegs(r.row)
  IN
  /\ r.op = "verify"
  /\ IF booking[r.id].status = "pending_payment" /\ Balanced(legs)
       THEN /\ booking' = [booking EXCEPT ![r.id] = ConfirmedRow(@)]
            /\ payment' = [payment EXCEPT ![r.order] = CapturedRow(@)]
            /\ Post(r.id, legs)
       ELSE UNCHANGED <<booking, payment, ledger>>
  /\ Finish(h)
  /\ UNCHANGED <<now, signed, logged, issued>>

-----------------------------------------------------------------------------
\* Arrival, departure and cancellation by the guest.

CheckInRead(h, b) ==
  /\ booking[b].status = "confirmed"
  /\ booking[b].qr
  /\ now >= booking[b].checkIn - EarlyWindow
  /\ now <= booking[b].checkIn + NoShowGrace
  /\ Begin(h, SeenNow("check_in", b))

CheckInWrite(h) ==
  LET r == req[h] IN
  /\ r.op = "check_in"
  /\ UpdateIfStatus(r.id, {"confirmed"},
       [booking[r.id] EXCEPT !.status = "checked_in", !.checkedInAt = r.at, !.qr = FALSE])
  /\ Finish(h)
  /\ UNCHANGED <<now, payment, signed, ledger, logged, issued>>

CheckOutRead(h, b) ==
  /\ booking[b].status = "checked_in"
  /\ Begin(h, SeenNow("check_out", b))

CheckOutWrite(h) ==
  LET r == req[h] IN
  /\ r.op = "check_out"
  /\ UpdateIfStatus(r.id, {"checked_in"},
       [booking[r.id] EXCEPT !.status = "completed", !.checkedOutAt = r.at])
  /\ Finish(h)
  /\ UNCHANGED <<now, payment, signed, ledger, logged, issued>>

\* The refund is computed here, from the row and the clock of the read.
CancelRead(h, b) ==
  /\ booking[b].status = "confirmed"
  /\ Begin(h, [Seen("cancel", b) EXCEPT !.amount = PolicyRefund(booking[b], now)])

\* The event that announces the refund is emitted when the UPDATE has matched.
CancelWrite(h) ==
  LET r == req[h] IN
  /\ r.op = "cancel"
  /\ UpdateIfStatus(r.id, {"confirmed"},
       [booking[r.id] EXCEPT !.status = "cancelled", !.refund = r.amount])
  /\ issued' = IF booking[r.id].status = "confirmed"
                 THEN [issued EXCEPT ![r.id] = @ + r.amount]
                 ELSE issued
  /\ Finish(h)
  /\ UNCHANGED <<now, payment, signed, ledger, logged>>

-----------------------------------------------------------------------------
\* The administrators' actions.  A winner goes on to write its
\* booking_admin_actions row and to emit the event that announces the refund.

\* MUTANT: the audit row is written whether or not the UPDATE matched.
AdminUpdateUnchecked(h, op, from, row) ==
  /\ req[h].op = op
  /\ req[h].stage = "write"
  /\ UpdateIfStatus(req[h].id, from, row)
  /\ req' = [req EXCEPT ![h].stage = "audit", ![h].row = NoRow]
  /\ UNCHANGED <<now, payment, signed, ledger, logged, issued>>

AdminUpdate(h, op, from, row) ==
  /\ req[h].op = op
  /\ req[h].stage = "write"
  /\ UpdateIfStatus(req[h].id, from, row)
  /\ req' = [req EXCEPT ![h] = IF booking[req[h].id].status \in from
                                 THEN [req[h] EXCEPT !.stage = "audit", !.row = NoRow]
                                 ELSE Idle]
  /\ UNCHANGED <<now, payment, signed, ledger, logged, issued>>

\* createAdminAction, then the event.
Audit(h) ==
  LET r == req[h] IN
  /\ r.op \in AdminOps
  /\ r.stage = "audit"
  /\ logged' = [logged EXCEPT ![r.id] = @ \cup {r.op}]
  /\ issued' = [issued EXCEPT ![r.id] = @ + IF r.op = "extend" THEN 0 ELSE r.amount]
  /\ Finish(h)
  /\ UNCHANGED <<now, booking, payment, signed, ledger>>

VoidRead(h, b) ==
  /\ booking[b].status # "absent"
  /\ Begin(h, [Seen("void", b) EXCEPT !.amount = booking[b].total])

VoidWrite(h) ==
  AdminUpdate(h, "void", {"confirmed"},
    [booking[req[h].id] EXCEPT !.status = "voided", !.payStatus = "refunded",
                               !.refund = req[h].amount])

AdminCancelRead(h, b) ==
  /\ booking[b].status # "absent"
  /\ Begin(h, [Seen("admin_cancel", b) EXCEPT !.amount = PolicyRefund(booking[b], now)])

\* MUTANT: an administrator may also cancel a booking that was never paid for.
AdminCancelWriteUnpaid(h) ==
  AdminUpdate(h, "admin_cancel", {"pending_payment", "confirmed"},
    [booking[req[h].id] EXCEPT !.status = "cancelled", !.refund = req[h].amount])

AdminCancelWrite(h) ==
  AdminUpdate(h, "admin_cancel", {"confirmed"},
    [booking[req[h].id] EXCEPT !.status = "cancelled", !.refund = req[h].amount])

RefundRead(h, b, amount) ==
  /\ booking[b].status \in Refundable
  /\ amount <= booking[b].total - booking[b].refund
  /\ issued[b] < RefundCap                                         \* bound
  /\ Begin(h, [SeenRow("refund", b) EXCEPT !.amount = amount])

\* The new sum is the sum that was read plus this refund.
RefundWrite(h) ==
  AdminUpdate(h, "refund", {req[h].row.status},
    [booking[req[h].id] EXCEPT !.refund = req[h].row.refund + req[h].amount,
                               !.payStatus = "refunded"])

ForceCheckoutRead(h, b) ==
  /\ booking[b].status # "absent"
  /\ Begin(h, SeenNow("force_checkout", b))

ForceCheckoutWrite(h) ==
  AdminUpdate(h, "force_checkout", {"checked_in"},
    [booking[req[h].id] EXCEPT !.status = "completed", !.checkedOutAt = req[h].at])

\* hasOverlap may turn the extension down: see RoomInventory.
ExtendRead(h, b, until, fee) ==
  /\ booking[b].status = "checked_in"
  /\ until > booking[b].checkOut
  /\ until <= MaxTime                                              \* bound
  /\ Begin(h, [SeenRow("extend", b) EXCEPT !.until = until, !.amount = fee])

ExtendWrite(h) ==
  AdminUpdate(h, "extend", {"checked_in"},
    [booking[req[h].id] EXCEPT !.checkOut = req[h].until,
                               !.total = req[h].row.total + req[h].amount])

-----------------------------------------------------------------------------
\* The scheduled jobs: each reads the rows that are due, then updates them one
\* by one.  The rows are independent, so one invocation is modelled per row.

\* MUTANT: due from the planned arrival on.
AutoCheckoutDueEarly(b) ==
  /\ booking[b].status = "checked_in"
  /\ booking[b].checkIn <= now

AutoCheckoutDue(b) ==
  /\ booking[b].status = "checked_in"
  /\ booking[b].checkOut <= now

NoShowDue(b) ==
  /\ booking[b].status = "confirmed"
  /\ booking[b].checkIn < now - NoShowGrace

\* MUTANT: only bookings with a failed payment time out.
PaymentTimeoutDueFailed(b) ==
  /\ booking[b].status = "pending_payment"
  /\ booking[b].createdAt < now - PaymentTimeout
  /\ \E o \in Orders :
       payment[o] # NoPayment /\ payment[o].booking = b /\ payment[o].status = "failed"

PaymentTimeoutDue(b) ==
  /\ booking[b].status = "pending_payment"
  /\ booking[b].createdAt < now - PaymentTimeout

SweepRead(s, b) ==
  \/ AutoCheckoutDue(b) /\ Begin(s, SeenRow("auto_checkout", b))
  \/ NoShowDue(b) /\ Begin(s, Seen("no_show", b))
  \/ PaymentTimeoutDue(b) /\ Begin(s, Seen("payment_timeout", b))

\* The recorded departure is the check-out time that was read.
AutoCheckoutWrite(s) ==
  /\ req[s].op = "auto_checkout"
  /\ UpdateIfStatus(req[s].id, {"checked_in"},
       [booking[req[s].id] EXCEPT !.status = "completed",
                                  !.checkedOutAt = req[s].row.checkOut])

NoShowWrite(s) ==
  /\ req[s].op = "no_show"
  /\ UpdateIfStatus(req[s].id, {"confirmed"},
       [booking[req[s].id] EXCEPT !.status = "no_show"])

PaymentTimeoutWrite(s) ==
  /\ req[s].op = "payment_timeout"
  /\ UpdateIfStatus(req[s].id, {"pending_payment"},
       [booking[req[s].id] EXCEPT !.status = "cancelled", !.refund = 0])

SweepWrite(s) ==
  /\ AutoCheckoutWrite(s) \/ NoShowWrite(s) \/ PaymentTimeoutWrite(s)
  /\ Finish(s)
  /\ UNCHANGED <<now, payment, signed, ledger, logged, issued>>

-----------------------------------------------------------------------------
\* The clock, the loss of a request in flight, and the system.

Tick ==
  /\ now < MaxTime                                                 \* bound
  /\ now' = now + 1
  /\ UNCHANGED <<booking, payment, signed, ledger, logged, issued, req>>

\* The process ends, or a round trip fails: what was not written stays unwritten.
Crash(h) ==
  /\ req[h] # Idle
  /\ Finish(h)
  /\ UNCHANGED <<now, booking, payment, signed, ledger, logged, issued>>

GuestStep(h) ==
  \/ \E b \in Bookings, o \in Orders : CreateOrderRead(h, b, o)
  \/ CreateOrderWrite(h)
  \/ \E o \in Orders : VerifyRead(h, o)
  \/ RejectWrite(h)
  \/ CaptureWrite(h)
  \/ \E b \in Bookings : CheckInRead(h, b)
  \/ CheckInWrite(h)
  \/ \E b \in Bookings : CheckOutRead(h, b)
  \/ CheckOutWrite(h)
  \/ \E b \in Bookings : CancelRead(h, b)
  \/ CancelWrite(h)

AdminStep(h) ==
  \/ \E b \in Bookings : VoidRead(h, b)
  \/ VoidWrite(h)
  \/ \E b \in Bookings : AdminCancelRead(h, b)
  \/ AdminCancelWrite(h)
  \/ \E b \in Bookings, amount \in RefundAmounts : RefundRead(h, b, amount)
  \/ RefundWrite(h)
  \/ \E b \in Bookings : ForceCheckoutRead(h, b)
  \/ ForceCheckoutWrite(h)
  \/ \E b \in Bookings, until \in 1 .. MaxTime, fee \in ExtensionFees :
       ExtendRead(h, b, until, fee)
  \/ ExtendWrite(h)
  \/ Audit(h)

Next ==
  \/ \E b \in Bookings, kind \in Kinds, price \in Prices,
        checkIn \in 0 .. MaxTime, stay \in StayLengths :
       CreateBooking(b, kind, price, checkIn, stay)
  \/ \E o \in Orders : SimulateCheckout(o)
  \/ \E h \in Handlers : GuestStep(h) \/ AdminStep(h)
  \/ \E s \in Sweepers : (\E b \in Bookings : SweepRead(s, b)) \/ SweepWrite(s)
  \/ \E h \in Handlers \cup Sweepers : Crash(h)
  \/ Tick

Spec == Init /\ [][Next]_vars

\* The cron fires the three jobs every five minutes for as long as the server
\* runs, so a due row is read again and again (strong fairness), and not every
\* run of a job is cut off between its read and its write.  Nothing is assumed
\* of guests, administrators or the gateway.
Fairness ==
  /\ WF_vars(Tick)
  /\ \A s \in Sweepers :
       /\ \A b \in Bookings : SF_vars(SweepRead(s, b))
       /\ SF_vars(SweepWrite(s))

FairSpec == Spec /\ Fairness

-----------------------------------------------------------------------------
\* Properties.

\* Every column, journal account and in-flight request has the type the schema
\* gives it; paise amounts never go below zero.
TypeOK ==
  /\ now \in Nat
  /\ booking \in [Bookings -> Row]
  /\ payment \in [Orders -> Payment \cup {NoPayment}]
  /\ signed \subseteq Orders
  /\ ledger \in [Bookings -> [Accounts -> Int]]
  /\ logged \in [Bookings -> SUBSET AdminOps]
  /\ issued \in [Bookings -> Nat]
  /\ req \in [Handlers \cup Sweepers -> Request \cup {Idle}]

Paid(b) == booking[b].payStatus # "pending"

Captured(b) ==
  {o \in Orders : payment[o] # NoPayment /\ payment[o].booking = b /\ payment[o].capturedAt}

\* What one capture of the price leaves in the journal.
CaptureOf(price) ==
  [a \in Accounts |->
     CASE a = "guest_clearing" -> -(price.base + price.gst)
       [] a = "owner_payable" -> price.base - price.fee
       [] a = "platform_commission" -> price.fee
       [] a = "gst_payable" -> price.gst]

\* The journal says of a booking what its row says: one capture of the quoted
\* price if the guest has paid, and nothing otherwise, however captures, retries,
\* the payment timeout, cancellations and extensions interleave; and a row that
\* went past pending_payment without being cancelled is a paid one.
LedgerMatchesBooking ==
  \A b \in Bookings :
    /\ ledger[b] = IF Paid(b) THEN CaptureOf(booking[b].price) ELSE Unposted
    /\ booking[b].status \in {"absent", "pending_payment"} => ~Paid(b)
    /\ booking[b].status \notin {"absent", "pending_payment", "cancelled"} => Paid(b)

\* However many orders a guest opens for a booking, and however their
\* verifications race, exactly one payment row is captured if the booking is
\* paid, and none if it is not.
OneCapture ==
  \A b \in Bookings :
    /\ Paid(b) <=> Captured(b) # {}
    /\ \A o, p \in Captured(b) : o = p

\* No refund is recorded on, or announced for, a booking nobody paid for: not by
\* a policy refund, an administrator, or an announcement still in flight.
RefundBacked ==
  \A b \in Bookings :
    booking[b].refund > 0 \/ issued[b] > 0 => Paid(b)

\* A booking_admin_actions row is only ever written for an action that took
\* effect, and what it records is still true of the booking: a void is voided and
\* wholly refunded, a cancellation cancelled, a forced check-out completed.
AuditTruthful ==
  \A b \in Bookings :
    /\ "void" \in logged[b] =>
         booking[b].status = "voided" /\ booking[b].refund = booking[b].total
    /\ "admin_cancel" \in logged[b] => booking[b].status = "cancelled"
    /\ "force_checkout" \in logged[b] => booking[b].status = "completed"
    /\ "refund" \in logged[b] => booking[b].payStatus = "refunded"
    /\ "extend" \in logged[b] => booking[b].status \in {"checked_in", "completed"}

\* No job acts before its deadline, even on a row that is stale when it writes: a
\* guest is a no-show only after the grace period in which they may still check
\* in, an unpaid booking is dropped only after the payment window, a departure is
\* never recorded in the future, and an arrival lies in the check-in window.
DeadlinesHonoured ==
  \A b \in Bookings :
    LET row == booking[b] IN
    /\ row.status = "no_show" => row.checkIn + NoShowGrace < now
    /\ row.status = "cancelled" /\ ~Paid(b) => row.createdAt + PaymentTimeout < now
    /\ row.status = "completed" => row.checkedOutAt <= now
    /\ row.status \in {"checked_in", "completed"} =>
         /\ row.checkIn - EarlyWindow <= row.checkedInAt
         /\ row.checkedInAt <= row.checkIn + NoShowGrace

Statuses == [b \in Bookings |-> booking[b].status]

StatusMachine == INSTANCE BookingStatus WITH status <- Statuses

\* Guests, administrators and jobs together make only the moves BookingStatus
\* allows: no booking leaves a final status, none skips payment.
StatusSpec == StatusMachine!Spec

\* Whatever guests and administrators do or leave undone, the jobs bring every
\* booking to a final status: no room is held for ever.
EveryBookingEnds ==
  \A b \in Bookings :
    booking[b].status # "absent" ~> booking[b].status \in Terminal

\* "refundAmountPaise += amountPaise": a refund that takes effect adds its amount
\* to what the booking has refunded so far.
RefundsAccumulate ==
  [][\A h \in Handlers :
       /\ req[h].op = "refund"
       /\ req[h].stage = "write"
       /\ req'[h] # Idle
       /\ req'[h].stage = "audit"
       => booking'[req[h].id].refund = booking[req[h].id].refund + req[h].amount]_vars

\* The automatic check-out ends the stays whose check-out time has come, and no
\* other.
StayNotCutShort ==
  [][\A s \in Sweepers :
       LET b == req[s].id IN
       /\ req[s].op = "auto_checkout"
       /\ booking[b].status = "checked_in"
       /\ booking'[b].status = "completed"
       /\ req'[s] = Idle
       => booking[b].checkOut <= now]_vars
=============================================================================
