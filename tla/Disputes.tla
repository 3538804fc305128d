------------------------------ MODULE Disputes ------------------------------
(***************************************************************************)
(* A guest's dispute of a completed booking: filing it, the hotel's        *)
(* answer, the administrators' resolution and the job that closes a        *)
(* dispute in the guest's favour when nobody resolved it in time.  The job *)
(* runs on every instance of the server behind a lock in Redis that it may *)
(* outlive.  A refund ends in the booking's refundAmountPaise, which the   *)
(* administrators' refund also writes, each with a value it read before.   *)
(***************************************************************************)
EXTENDS Integers, FiniteSets

CONSTANTS
  Disputes,          \* ids of disputes
  Refunds,           \* requests of the administrators' refund
  Bookings,          \* completed bookings, all checked out at time 0
  BookingOf,         \* the booking a dispute or a refund is about
  Owners,            \* answers of the property that can be in flight
  Sweepers,          \* instances of the server that run the auto-close job
  FilingWindow, ResponseWindow, ResolutionWindow,  \* 48 h, 48 h and 7 days
  MaxNow,            \* bound: the clock stops here
  MaxStops           \* bound: auto-close runs that fail or crash

Grants == Disputes \cup Refunds      \* what a booking can be refunded for

ASSUME DisputesAssumption ==
  /\ BookingOf \in [Grants -> Bookings]
  /\ Disputes \cap Refunds = {}
  /\ FilingWindow \in Nat
  /\ ResponseWindow \in Nat
  /\ ResolutionWindow \in Nat
  /\ MaxNow \in Nat
  /\ MaxStops \in Nat

Nobody == "nobody"

ASSUME NobodyAssumption == Nobody \notin Sweepers

VARIABLES
  today,     \* the clock
  status,    \* status[d]: Dispute.status
  deadline,  \* deadline[d]: Dispute.resolutionDeadline
  answerBy,  \* answerBy[d]: Dispute.hotelResponseDeadline
  refunded,  \* refunded[g]: how often g is in its booking's refundAmountPaise
  credit,    \* credit[d]: wallet credits created for d
  filing,    \* disputes whose POST has found no other dispute of the booking
  crediting, \* disputes resolved with a credit that is still to be created
  answer,    \* answer[o]: the hotel response o
  grant,     \* grant[r]: the administrators' refund r
  sweep,     \* sweep[s]: the auto-close run of instance s
  lock,      \* who holds dispute:auto-close-lock
  stops      \* runs that failed or crashed so far

requestVars == <<filing, crediting, answer, grant>>
sweepVars == <<sweep, lock, stops>>
moneyVars == <<refunded, credit>>
disputesVars ==
  <<today, status, deadline, answerBy, moneyVars, requestVars, sweepVars>>

StatusMachine == INSTANCE DisputeStatus

Open == StatusMachine!Open

Dates == 0 .. (MaxNow + ResolutionWindow + ResponseWindow)

Idle == [stage |-> "idle"]

Refunded == [Grants -> Nat]

\* The read before the write of an answer: the dispute.
Answer == [stage : {"checked"}, id : Disputes]

\* What the administrators' refund has read of the booking.
Grant == [stage : {"read"}, seen : Refunded] \cup {[stage |-> "done"]}

\* scanning: the expired disputes are read.  closed: the dispute id was closed and
\* its refund is not booked.  booking: the booking is read again.
Sweep ==
  [stage : {"scanning"}, todo : SUBSET Disputes]
  \cup [stage : {"closed"}, todo : SUBSET Disputes, id : Disputes]
  \cup [stage : {"booking"}, todo : SUBSET Disputes, id : Disputes, seen : Refunded]

\* refundAmountPaise of a booking: the refunds it is the sum of.
RefundOf(b) == [g \in Grants |-> IF BookingOf[g] = b THEN refunded[g] ELSE 0]

\* The update of refundAmountPaise to the value read and the refund g.
BookRefund(seen, g) ==
  refunded' = [h \in Grants |->
    IF BookingOf[h] # BookingOf[g] THEN refunded[h]
    ELSE IF h = g THEN seen[h] + 1 ELSE seen[h]]

\* A full refund leaves nothing of the total: resolve and the auto-close refund
\* all of it, the administrators' refund only what remains.
FullyRefunded(seen) ==
  \E d \in Disputes :
    seen[d] > 0 /\ status[d] \in {"resolved_guest", "closed_no_response"}

\* MUTANT: the disputes somebody has looked at are not found.
ExpiredUnseen == {d \in Disputes : status[d] = "filed" /\ deadline[d] < today}

\* findExpired.
Expired == {d \in Disputes : status[d] \in Open /\ deadline[d] < today}
-----------------------------------------------------------------------------
DisputesInit ==
  /\ today = 0
  /\ status = [d \in Disputes |-> "absent"]
  /\ deadline = [d \in Disputes |-> 0]
  /\ answerBy = [d \in Disputes |-> 0]
  /\ refunded = [g \in Grants |-> 0]
  /\ credit = [d \in Disputes |-> 0]
  /\ filing = {}
  /\ crediting = {}
  /\ answer = [o \in Owners |-> Idle]
  /\ grant = [r \in Refunds |-> Idle]
  /\ sweep = [s \in Sweepers |-> Idle]
  /\ lock = Nobody
  /\ stops = 0

NewDay ==
  /\ today < MaxNow                                                  \* bound
  /\ today' = today + 1
  /\ UNCHANGED <<status, deadline, answerBy, moneyVars, requestVars, sweepVars>>

-----------------------------------------------------------------------------
\* fileDispute up to the search for another dispute of the booking.
FileCheck(d) ==
  /\ status[d] = "absent"
  /\ today <= FilingWindow
  /\ \A e \in Disputes : BookingOf[e] = BookingOf[d] => status[e] = "absent"
  /\ filing' = filing \cup {d}
  /\ UNCHANGED <<today, status, deadline, answerBy, moneyVars, crediting, answer,
                 grant, sweepVars>>

\* Its INSERT, which no unique index can turn down.
FileCreate(d) ==
  /\ d \in filing
  /\ today + ResolutionWindow < MaxNow              \* bound: the deadline will pass
  /\ filing' = filing \ {d}
  /\ status' = [status EXCEPT ![d] = "filed"]
  /\ deadline' = [deadline EXCEPT ![d] = today + ResolutionWindow]
  /\ UNCHANGED <<today, answerBy, moneyVars, crediting, answer, grant, sweepVars>>

\* getDetail: the first look of an administrator.
View(d) ==
  /\ status[d] = "filed"
  /\ status' = [status EXCEPT ![d] = "under_review"]
  /\ UNCHANGED <<today, deadline, answerBy, moneyVars, requestVars, sweepVars>>

RequestResponse(d) ==
  /\ status[d] \in {"filed", "under_review"}
  /\ status' = [status EXCEPT ![d] = "awaiting_hotel_response"]
  /\ answerBy' = [answerBy EXCEPT ![d] = today + ResponseWindow]
  /\ UNCHANGED <<today, deadline, moneyVars, requestVars, sweepVars>>

\* submitHotelResponse up to the check of the window.
AnswerCheck(o, d) ==
  /\ answer[o] = Idle
  /\ status[d] = "awaiting_hotel_response"
  /\ today <= answerBy[d]
  /\ answer' = [answer EXCEPT ![o] = [stage |-> "checked", id |-> d]]
  /\ UNCHANGED <<today, status, deadline, answerBy, moneyVars, filing, crediting,
                 grant, sweepVars>>

\* MUTANT: the answer is written whatever has become of the dispute.
AnswerWriteAnyStatus(o) ==
  /\ answer[o] # Idle
  /\ status' = [status EXCEPT ![answer[o].id] = "under_review"]
  /\ answer' = [answer EXCEPT ![o] = Idle]
  /\ UNCHANGED <<today, deadline, answerBy, moneyVars, filing, crediting, grant,
                 sweepVars>>

\* The conditional UPDATE; a 409 when the dispute no longer waits.
AnswerWrite(o) ==
  /\ answer[o] # Idle
  /\ LET d == answer[o].id IN
     status' = IF status[d] = "awaiting_hotel_response"
                 THEN [status EXCEPT ![d] = "under_review"]
                 ELSE status
  /\ answer' = [answer EXCEPT ![o] = Idle]
  /\ UNCHANGED <<today, deadline, answerBy, moneyVars, filing, crediting, grant,
                 sweepVars>>

-----------------------------------------------------------------------------
\* MUTANT: the refund of a resolution is left to a later statement that never runs.
ResolveRefundApart(d, outcome) ==
  /\ status[d] \in Open
  /\ outcome \in {"resolved_guest", "resolved_partial"}
  /\ status' = [status EXCEPT ![d] = outcome]
  /\ UNCHANGED <<today, deadline, answerBy, moneyVars, requestVars, sweepVars>>

\* resolve with a full or a partial refund: one serializable transaction.
ResolveRefund(d, outcome) ==
  /\ status[d] \in Open
  /\ outcome \in {"resolved_guest", "resolved_partial"}
  /\ status' = [status EXCEPT ![d] = outcome]
  /\ BookRefund(RefundOf(BookingOf[d]), d)
  /\ UNCHANGED <<today, deadline, answerBy, credit, requestVars, sweepVars>>

\* resolve without money: no_action and escalated.
ResolveOther(d, outcome) ==
  /\ status[d] \in Open
  /\ outcome \in {"resolved_hotel", "escalated"}
  /\ status' = [status EXCEPT ![d] = outcome]
  /\ UNCHANGED <<today, deadline, answerBy, moneyVars, requestVars, sweepVars>>

\* MUTANT: wallet_credit is given to a dispute whatever its status.
ResolveCreditAgain(d) ==
  /\ status[d] # "absent"
  /\ status' = [status EXCEPT ![d] = "resolved_wallet_credit"]
  /\ crediting' = crediting \cup {d}
  /\ UNCHANGED <<today, deadline, answerBy, moneyVars, filing, answer, grant,
                 sweepVars>>

\* resolve with wallet_credit: the status first ...
ResolveCredit(d) ==
  /\ status[d] \in Open
  /\ status' = [status EXCEPT ![d] = "resolved_wallet_credit"]
  /\ crediting' = crediting \cup {d}
  /\ UNCHANGED <<today, deadline, answerBy, moneyVars, filing, answer, grant,
                 sweepVars>>

\* ... and the credit in a statement of its own.
CreateCredit(d) ==
  /\ d \in crediting
  /\ crediting' = crediting \ {d}
  /\ credit' = [credit EXCEPT ![d] = @ + 1]
  /\ UNCHANGED <<today, status, deadline, answerBy, refunded, filing, answer, grant,
                 sweepVars>>

\* The process ends or the statement fails: nothing creates the credit later.
LoseCredit(d) ==
  /\ d \in crediting
  /\ crediting' = crediting \ {d}
  /\ UNCHANGED <<today, status, deadline, answerBy, moneyVars, filing, answer, grant,
                 sweepVars>>

\* The administrators' refund of the booking: what remains is read ...
GrantRead(r) ==
  LET seen == RefundOf(BookingOf[r]) IN
  /\ grant[r] = Idle
  /\ ~FullyRefunded(seen)
  /\ grant' = [grant EXCEPT ![r] = [stage |-> "read", seen |-> seen]]
  /\ UNCHANGED <<today, status, deadline, answerBy, moneyVars, filing, crediting,
                 answer, sweepVars>>

\* ... and the new sum written, conditional on the booking's status alone.
GrantWrite(r) ==
  /\ grant[r].stage = "read"
  /\ BookRefund(grant[r].seen, r)
  /\ grant' = [grant EXCEPT ![r] = [stage |-> "done"]]
  /\ UNCHANGED <<today, status, deadline, answerBy, credit, filing, crediting, answer,
                 sweepVars>>

-----------------------------------------------------------------------------
\* MUTANT: findExpired asks for open disputes only.
SweepStartAll(s) ==
  /\ sweep[s] = Idle
  /\ lock = Nobody
  /\ lock' = s
  /\ sweep' = [sweep EXCEPT ![s] = [stage |-> "scanning",
       todo |-> {d \in Disputes : status[d] \in Open}]]
  /\ UNCHANGED <<today, status, deadline, answerBy, moneyVars, requestVars, stops>>

\* runAutoClose: SET NX PX on the lock, then findExpired.
SweepStart(s) ==
  /\ sweep[s] = Idle
  /\ lock = Nobody
  /\ lock' = s
  /\ sweep' = [sweep EXCEPT ![s] = [stage |-> "scanning", todo |-> Expired]]
  /\ UNCHANGED <<today, status, deadline, answerBy, moneyVars, requestVars, stops>>

\* MUTANT: the dispute is closed by its id alone.
SweepCloseAnyStatus(s, d) ==
  LET r == sweep[s] IN
  /\ r.stage = "scanning"
  /\ d \in r.todo
  /\ status' = [status EXCEPT ![d] = "closed_no_response"]
  /\ sweep' = [sweep EXCEPT ![s] =
       [stage |-> "closed", todo |-> r.todo \ {d}, id |-> d]]
  /\ UNCHANGED <<today, deadline, answerBy, moneyVars, requestVars, lock, stops>>

\* The conditional UPDATE of one of the disputes found; a dispute that has been
\* decided since is passed over.
SweepClose(s, d) ==
  LET r == sweep[s] IN
  /\ r.stage = "scanning"
  /\ d \in r.todo
  /\ \/ /\ status[d] \in Open
        /\ status' = [status EXCEPT ![d] = "closed_no_response"]
        /\ sweep' = [sweep EXCEPT ![s] =
             [stage |-> "closed", todo |-> r.todo \ {d}, id |-> d]]
     \/ /\ status[d] \notin Open
        /\ sweep' = [sweep EXCEPT ![s].todo = @ \ {d}]
        /\ UNCHANGED status
  /\ UNCHANGED <<today, deadline, answerBy, moneyVars, requestVars, lock, stops>>

\* applyRefundBookkeeping reads the booking ...
SweepRead(s) ==
  LET r == sweep[s] IN
  /\ r.stage = "closed"
  /\ sweep' = [sweep EXCEPT ![s] =
       [stage |-> "booking", todo |-> r.todo, id |-> r.id,
        seen |-> RefundOf(BookingOf[r.id])]]
  /\ UNCHANGED <<today, status, deadline, answerBy, moneyVars, requestVars, lock,
                 stops>>

\* ... and writes the sum.  Its condition, the status the booking was read with,
\* holds: completed is a terminal status.
SweepBook(s) ==
  LET r == sweep[s] IN
  /\ r.stage = "booking"
  /\ BookRefund(r.seen, r.id)
  /\ sweep' = [sweep EXCEPT ![s] = [stage |-> "scanning", todo |-> r.todo]]
  /\ UNCHANGED <<today, status, deadline, answerBy, credit, requestVars, lock, stops>>

\* The lock is deleted only while it is still this run's.
Release(s) == lock' = IF lock = s THEN Nobody ELSE lock

SweepEnd(s) ==
  /\ sweep[s].stage = "scanning"
  /\ sweep[s].todo = {}
  /\ sweep' = [sweep EXCEPT ![s] = Idle]
  /\ Release(s)
  /\ UNCHANGED <<today, status, deadline, answerBy, moneyVars, requestVars, stops>>

\* A statement throws, and the finally block releases the lock, or the process
\* ends, and it does not.
SweepStop(s) ==
  /\ sweep[s] # Idle
  /\ stops < MaxStops                                                \* bound
  /\ stops' = stops + 1
  /\ sweep' = [sweep EXCEPT ![s] = Idle]
  /\ Release(s) \/ UNCHANGED lock
  /\ UNCHANGED <<today, status, deadline, answerBy, moneyVars, requestVars>>

\* The five minutes of the lock are over, whether or not its run is.
LockExpire ==
  /\ lock # Nobody
  /\ lock' = Nobody
  /\ UNCHANGED <<today, status, deadline, answerBy, moneyVars, requestVars, sweep,
                 stops>>

-----------------------------------------------------------------------------
SweepStep(s) ==
  \/ \E d \in Disputes : SweepClose(s, d)
  \/ SweepRead(s)
  \/ SweepBook(s)
  \/ SweepEnd(s)

DisputesNext ==
  \/ NewDay
  \/ \E d \in Disputes :
       \/ FileCheck(d)
       \/ FileCreate(d)
       \/ View(d)
       \/ RequestResponse(d)
       \/ \E o \in Owners : AnswerCheck(o, d)
       \/ \E outcome \in StatusMachine!Decided :
            ResolveRefund(d, outcome) \/ ResolveOther(d, outcome)
       \/ ResolveCredit(d)
       \/ CreateCredit(d)
       \/ LoseCredit(d)
  \/ \E o \in Owners : AnswerWrite(o)
  \/ \E r \in Refunds : GrantRead(r) \/ GrantWrite(r)
  \/ \E s \in Sweepers : SweepStart(s) \/ SweepStep(s) \/ SweepStop(s)
  \/ LockExpire

\* Days go by, the cron of some instance fires every five minutes, a run that is
\* not stopped goes on, and Redis drops an expired lock.
DisputesFairness ==
  /\ WF_disputesVars(NewDay)
  /\ WF_disputesVars(\E s \in Sweepers : SweepStart(s))
  /\ \A s \in Sweepers : WF_disputesVars(SweepStep(s))
  /\ WF_disputesVars(LockExpire)

DisputesSpec == DisputesInit /\ [][DisputesNext]_disputesVars

FairDisputesSpec == DisputesSpec /\ DisputesFairness

-----------------------------------------------------------------------------
\* Properties.

\* Every variable has its type.
DisputesTypeOK ==
  /\ today \in 0 .. MaxNow
  /\ status \in [Disputes -> StatusMachine!Status]
  /\ deadline \in [Disputes -> Dates]
  /\ answerBy \in [Disputes -> Dates]
  /\ refunded \in Refunded
  /\ credit \in [Disputes -> Nat]
  /\ filing \in SUBSET Disputes
  /\ crediting \in SUBSET Disputes
  /\ answer \in [Owners -> Answer \cup {Idle}]
  /\ grant \in [Refunds -> Grant \cup {Idle}]
  /\ sweep \in [Sweepers -> Sweep \cup {Idle}]
  /\ lock \in Sweepers \cup {Nobody}
  /\ stops \in 0 .. MaxStops

RefundStatuses == {"resolved_guest", "resolved_partial", "closed_no_response"}

\* However auto-close runs overlap each other, the administrators' refund and the
\* resolution, a dispute's refund is in the booking at most once, and only when
\* the dispute was decided by a refund.
RefundedOnce ==
  \A d \in Disputes :
    /\ refunded[d] <= 1
    /\ refunded[d] = 1 => status[d] \in RefundStatuses

\* A wallet credit is created at most once, for a dispute decided by one: no guest
\* gets the refund and the credit.
CreditedOnce ==
  \A d \in Disputes :
    /\ credit[d] <= 1
    /\ credit[d] = 1 => status[d] = "resolved_wallet_credit"

\* The job closes a dispute only when its seven days are over, with administrators
\* and late answers moving it while the job runs.
ClosedAfterDeadline ==
  \A d \in Disputes : status[d] = "closed_no_response" => deadline[d] < today

\* Another grant of the booking writes a sum it read before.
Overwriter(g) ==
  \/ g \in Refunds /\ grant[g].stage = "done"
  \/ g \in Disputes /\ status[g] = "closed_no_response"

\* The status of a resolution and its refund cannot diverge by a crash: the refund
\* of a resolved dispute is missing from the booking only if the auto-close of
\* another dispute, or an administrators' refund, of the booking overwrote it.
ResolutionBooked ==
  \A d \in Disputes :
    status[d] \in {"resolved_guest", "resolved_partial"} =>
      \/ refunded[d] = 1
      \/ \E g \in Grants \ {d} : BookingOf[g] = BookingOf[d] /\ Overwriter(g)

\* Each step is a move of the promised status machine: a late answer, a second
\* resolution or an overlapping run never reopens or redecides a dispute.
ImplementsDisputeStatus == StatusMachine!Spec

\* A dispute nobody decides is decided by the job, although runs fail and crash.
EveryDisputeDecided ==
  \A d \in Disputes : (status[d] \in Open) ~> (status[d] \in StatusMachine!Decided)
=============================================================================
