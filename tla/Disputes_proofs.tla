--------------------------- MODULE Disputes_proofs ---------------------------
(***************************************************************************)
(* Proofs about the disputes, for every number of disputes, refunds,       *)
(* bookings, answers and instances of the auto-close job: the type, the    *)
(* refinement of the promised status machine, and what an overlapping or a *)
(* stopped run can and cannot do to the money of a booking.                *)
(***************************************************************************)
EXTENDS Disputes, TLAPS

\* The machine's definitions, in the names of this module.
LEMMA Statuses ==
  /\ Open = {"filed", "under_review", "awaiting_hotel_response"}
  /\ StatusMachine!Decided = {"resolved_guest", "resolved_partial", "resolved_hotel",
                              "resolved_wallet_credit", "closed_no_response", "escalated"}
  /\ StatusMachine!Status = {"absent"} \cup Open \cup StatusMachine!Decided
BY DEF Open, StatusMachine!Open, StatusMachine!Decided, StatusMachine!Status

LEMMA NowDates ==
  /\ 0 .. MaxNow \subseteq Nat
  /\ Dates \subseteq Nat
  /\ 0 \in Dates
  /\ \A t \in 0 .. MaxNow : t + ResponseWindow \in Dates /\ t + ResolutionWindow \in Dates
BY DisputesAssumption DEF Dates

\* The fields a run of the job has at each of its stages.
LEMMA SweepFields ==
  ASSUME DisputesTypeOK, NEW s \in Sweepers
  PROVE  /\ sweep[s].stage = "scanning" =>
              /\ sweep[s] = [stage |-> "scanning", todo |-> sweep[s].todo]
              /\ sweep[s].todo \in SUBSET Disputes
         /\ sweep[s].stage \in {"closed", "booking"} =>
              sweep[s].todo \in SUBSET Disputes /\ sweep[s].id \in Disputes
         /\ sweep[s].stage = "booking" => sweep[s].seen \in Refunded
         /\ sweep[s].stage \in {"idle", "scanning", "closed", "booking"}
         /\ sweep[s].stage = "idle" => sweep[s] = Idle
<1>1. sweep[s] \in Sweep \cup {Idle}
  BY DEF DisputesTypeOK
<1> QED
  BY <1>1 DEF Sweep, Idle

LEMMA GrantFields ==
  ASSUME DisputesTypeOK, NEW r \in Refunds, grant[r].stage = "read"
  PROVE  grant[r].seen \in Refunded
<1>1. grant[r] \in Grant \cup {Idle}
  BY DEF DisputesTypeOK
<1> QED
  BY <1>1 DEF Grant, Idle

LEMMA RefundType ==
  ASSUME DisputesTypeOK
  PROVE  /\ \A b \in Bookings : RefundOf(b) \in Refunded
         /\ \A g \in Grants : BookingOf[g] \in Bookings
         /\ \A seen \in Refunded, g \in Grants : BookRefund(seen, g) => refunded' \in Refunded
         /\ Disputes \subseteq Grants /\ Refunds \subseteq Grants
BY DisputesAssumption DEF DisputesTypeOK, Refunded, RefundOf, BookRefund, Grants

LEMMA DisputesInitType == DisputesInit => DisputesTypeOK
BY DisputesAssumption, NobodyAssumption, Statuses, NowDates
   DEF DisputesInit, DisputesTypeOK, Refunded

\* Filing, the first look, the request for an answer and the answer.
LEMMA CaseType ==
  ASSUME DisputesTypeOK,
         \/ NewDay
         \/ \E d \in Disputes :
              \/ FileCheck(d) \/ FileCreate(d) \/ View(d) \/ RequestResponse(d)
              \/ \E o \in Owners : AnswerCheck(o, d)
         \/ \E o \in Owners : AnswerWrite(o)
  PROVE  DisputesTypeOK'
<1> USE DEF DisputesTypeOK, moneyVars, requestVars, sweepVars
<1>1. CASE NewDay
  BY <1>1, DisputesAssumption DEF NewDay
<1>2. ASSUME NEW d \in Disputes, FileCheck(d) PROVE DisputesTypeOK'
  BY <1>2 DEF FileCheck
<1>3. ASSUME NEW d \in Disputes, FileCreate(d) PROVE DisputesTypeOK'
  <2>1. today + ResolutionWindow \in Dates
    BY NowDates
  <2>2. filing' \in SUBSET Disputes /\ status' \in [Disputes -> StatusMachine!Status]
        /\ deadline' \in [Disputes -> Dates]
    BY <1>3, <2>1, Statuses DEF FileCreate
  <2> QED
    BY <1>3, <2>2 DEF FileCreate
<1>4. ASSUME NEW d \in Disputes, View(d) PROVE DisputesTypeOK'
  BY <1>4, Statuses DEF View
<1>5. ASSUME NEW d \in Disputes, RequestResponse(d) PROVE DisputesTypeOK'
  <2>1. today + ResponseWindow \in Dates
    BY NowDates
  <2>2. status' \in [Disputes -> StatusMachine!Status] /\ answerBy' \in [Disputes -> Dates]
    BY <1>5, <2>1, Statuses DEF RequestResponse
  <2> QED
    BY <1>5, <2>2 DEF RequestResponse
<1>6. ASSUME NEW d \in Disputes, NEW o \in Owners, AnswerCheck(o, d) PROVE DisputesTypeOK'
  <2>1. [stage |-> "checked", id |-> d] \in Answer
    BY DEF Answer
  <2> QED
    BY <1>6, <2>1 DEF AnswerCheck
<1>7. ASSUME NEW o \in Owners, AnswerWrite(o) PROVE DisputesTypeOK'
  BY <1>7, Statuses DEF AnswerWrite
<1> QED
  BY <1>1, <1>2, <1>3, <1>4, <1>5, <1>6, <1>7

\* The resolutions and the administrators' refund.
LEMMA ResolveType ==
  ASSUME DisputesTypeOK,
         \/ \E d \in Disputes :
              \/ \E outcome \in StatusMachine!Decided :
                   ResolveRefund(d, outcome) \/ ResolveOther(d, outcome)
              \/ ResolveCredit(d) \/ CreateCredit(d) \/ LoseCredit(d)
         \/ \E r \in Refunds : GrantRead(r) \/ GrantWrite(r)
  PROVE  DisputesTypeOK'
<1>1. ASSUME NEW d \in Disputes, NEW outcome \in StatusMachine!Decided,
             ResolveRefund(d, outcome)
      PROVE  DisputesTypeOK'
  <2>1. refunded' \in Refunded
    BY <1>1, RefundType DEF ResolveRefund
  <2>2. status' \in [Disputes -> StatusMachine!Status]
    BY <1>1, Statuses DEF ResolveRefund, DisputesTypeOK
  <2> QED
    BY <1>1, <2>1, <2>2 DEF ResolveRefund, DisputesTypeOK, requestVars, sweepVars
<1>2. ASSUME NEW d \in Disputes, NEW outcome \in StatusMachine!Decided,
             ResolveOther(d, outcome)
      PROVE  DisputesTypeOK'
  BY <1>2, Statuses DEF ResolveOther, DisputesTypeOK, moneyVars, requestVars, sweepVars
<1>3. ASSUME NEW d \in Disputes, ResolveCredit(d) PROVE DisputesTypeOK'
  BY <1>3, Statuses DEF ResolveCredit, DisputesTypeOK, moneyVars, sweepVars
<1>4. ASSUME NEW d \in Disputes, CreateCredit(d) PROVE DisputesTypeOK'
  BY <1>4 DEF CreateCredit, DisputesTypeOK, sweepVars
<1>5. ASSUME NEW d \in Disputes, LoseCredit(d) PROVE DisputesTypeOK'
  BY <1>5 DEF LoseCredit, DisputesTypeOK, moneyVars, sweepVars
<1>6. ASSUME NEW r \in Refunds, GrantRead(r) PROVE DisputesTypeOK'
  <2>1. RefundOf(BookingOf[r]) \in Refunded
    BY RefundType
  <2>2. [stage |-> "read", seen |-> RefundOf(BookingOf[r])] \in Grant
    BY <2>1 DEF Grant
  <2>3. grant' \in [Refunds -> Grant \cup {Idle}]
    BY <1>6, <2>2 DEF GrantRead, DisputesTypeOK
  <2> QED
    BY <1>6, <2>3 DEF GrantRead, DisputesTypeOK, moneyVars, sweepVars
<1>7. ASSUME NEW r \in Refunds, GrantWrite(r) PROVE DisputesTypeOK'
  <2>1. refunded' \in Refunded
    BY <1>7, RefundType, GrantFields DEF GrantWrite
  <2>2. grant' \in [Refunds -> Grant \cup {Idle}]
    BY <1>7 DEF GrantWrite, Grant, DisputesTypeOK
  <2> QED
    BY <1>7, <2>1, <2>2 DEF GrantWrite, DisputesTypeOK, sweepVars
<1> QED
  BY <1>1, <1>2, <1>3, <1>4, <1>5, <1>6, <1>7

\* The auto-close job.
LEMMA SweepType ==
  ASSUME DisputesTypeOK,
         \/ \E s \in Sweepers : SweepStart(s) \/ SweepStep(s) \/ SweepStop(s)
         \/ LockExpire
  PROVE  DisputesTypeOK'
<1>1. ASSUME NEW s \in Sweepers, SweepStart(s) PROVE DisputesTypeOK'
  <2>1. [stage |-> "scanning", todo |-> Expired] \in Sweep
    BY DEF Sweep, Expired
  <2> QED
    BY <1>1, <2>1 DEF SweepStart, DisputesTypeOK, moneyVars, requestVars
<1>2. ASSUME NEW s \in Sweepers, NEW d \in Disputes, SweepClose(s, d) PROVE DisputesTypeOK'
  <2>1. /\ sweep[s] = [stage |-> "scanning", todo |-> sweep[s].todo]
        /\ sweep[s].todo \in SUBSET Disputes
    BY <1>2, SweepFields DEF SweepClose
  <2>2. [stage |-> "closed", todo |-> sweep[s].todo \ {d}, id |-> d] \in Sweep
    BY <2>1 DEF Sweep
  <2>3. [stage |-> "scanning", todo |-> sweep[s].todo \ {d}] \in Sweep
    BY <2>1 DEF Sweep
  <2>4. [sweep[s] EXCEPT !.todo = @ \ {d}] =
           [stage |-> "scanning", todo |-> sweep[s].todo \ {d}]
    BY <2>1
  <2>5. sweep' \in [Sweepers -> Sweep \cup {Idle}]
    BY <1>2, <2>2, <2>3, <2>4 DEF SweepClose, DisputesTypeOK
  <2>6. status' \in [Disputes -> StatusMachine!Status]
    BY <1>2, Statuses DEF SweepClose, DisputesTypeOK
  <2> QED
    BY <1>2, <2>5, <2>6 DEF SweepClose, DisputesTypeOK, moneyVars, requestVars
<1>3. ASSUME NEW s \in Sweepers, SweepRead(s) PROVE DisputesTypeOK'
  <2>1. sweep[s].todo \in SUBSET Disputes /\ sweep[s].id \in Disputes
    BY <1>3, SweepFields DEF SweepRead
  <2>2. RefundOf(BookingOf[sweep[s].id]) \in Refunded
    BY <2>1, RefundType
  <2>3. [stage |-> "booking", todo |-> sweep[s].todo, id |-> sweep[s].id,
         seen |-> RefundOf(BookingOf[sweep[s].id])] \in Sweep
    BY <2>1, <2>2 DEF Sweep
  <2>4. sweep' \in [Sweepers -> Sweep \cup {Idle}]
    BY <1>3, <2>3 DEF SweepRead, DisputesTypeOK
  <2> QED
    BY <1>3, <2>4 DEF SweepRead, DisputesTypeOK, moneyVars, requestVars
<1>4. ASSUME NEW s \in Sweepers, SweepBook(s) PROVE DisputesTypeOK'
  <2>1. sweep[s].todo \in SUBSET Disputes /\ sweep[s].id \in Disputes
        /\ sweep[s].seen \in Refunded
    BY <1>4, SweepFields DEF SweepBook
  <2>2. refunded' \in Refunded
    BY <1>4, <2>1, RefundType DEF SweepBook
  <2>3. [stage |-> "scanning", todo |-> sweep[s].todo] \in Sweep
    BY <2>1 DEF Sweep
  <2>4. sweep' \in [Sweepers -> Sweep \cup {Idle}]
    BY <1>4, <2>3 DEF SweepBook, DisputesTypeOK
  <2> QED
    BY <1>4, <2>2, <2>4 DEF SweepBook, DisputesTypeOK, requestVars
<1>5. ASSUME NEW s \in Sweepers, SweepEnd(s) PROVE DisputesTypeOK'
  BY <1>5 DEF SweepEnd, Release, DisputesTypeOK, moneyVars, requestVars
<1>6. ASSUME NEW s \in Sweepers, SweepStop(s) PROVE DisputesTypeOK'
  BY <1>6, DisputesAssumption DEF SweepStop, Release, DisputesTypeOK, moneyVars, requestVars
<1>7. CASE LockExpire
  BY <1>7 DEF LockExpire, DisputesTypeOK, moneyVars, requestVars
<1> QED
  BY <1>1, <1>2, <1>3, <1>4, <1>5, <1>6, <1>7 DEF SweepStep

LEMMA DisputesTypeNext ==
  ASSUME DisputesTypeOK, [DisputesNext]_disputesVars
  PROVE  DisputesTypeOK'
<1>1. CASE UNCHANGED disputesVars
  BY <1>1 DEF disputesVars, moneyVars, requestVars, sweepVars, DisputesTypeOK
<1> QED
  BY <1>1, CaseType, ResolveType, SweepType, Zenon DEF DisputesNext

\* The state of the disputes keeps its type.
THEOREM DisputesTypeCorrect == DisputesSpec => []DisputesTypeOK
BY DisputesInitType, DisputesTypeNext, PTL DEF DisputesSpec

-----------------------------------------------------------------------------
\* The refinement.

\* What the code has read about a filing is true until it writes.
FilingAbsent == \A d \in filing : status[d] = "absent"

\* Every step moves the status as the promised machine does, or leaves it alone.
LEMMA StatusMoves ==
  ASSUME DisputesTypeOK, FilingAbsent, [DisputesNext]_disputesVars
  PROVE  StatusMachine!Next \/ UNCHANGED status
<1> DEFINE Moved == \E d \in Disputes : StatusMachine!Move(d)
<1>0. Moved => StatusMachine!Next
  BY DEF StatusMachine!Next
<1>1. status \in [Disputes -> StatusMachine!Status]
  BY DEF DisputesTypeOK
<1>2. ASSUME NEW d \in Disputes, NEW t \in StatusMachine!Status,
             <<status[d], t>> \in StatusMachine!Moves, status' = [status EXCEPT ![d] = t]
      PROVE  Moved
  <2>1. status'[d] = t
    BY <1>1, <1>2
  <2> QED
    BY <1>2, <2>1 DEF StatusMachine!Move
<1> HIDE DEF Moved
<1>3. ASSUME NEW d \in Disputes, NEW t \in StatusMachine!Decided,
             status[d] \in Open, status' = [status EXCEPT ![d] = t]
      PROVE  Moved
  BY <1>1, <1>2, <1>3, Statuses DEF StatusMachine!Moves, Open
<1>4. ASSUME NEW d \in Disputes, FileCreate(d) PROVE Moved
  BY <1>2, <1>4, Statuses DEF FileCreate, FilingAbsent, StatusMachine!Moves
<1>5. ASSUME NEW d \in Disputes, View(d) \/ RequestResponse(d) PROVE Moved
  BY <1>2, <1>5, Statuses DEF View, RequestResponse, StatusMachine!Moves
<1>6. ASSUME NEW o \in Owners, AnswerWrite(o) PROVE Moved \/ UNCHANGED status
  <2>1. answer[o].id \in Disputes
    BY <1>6 DEF AnswerWrite, DisputesTypeOK, Answer
  <2> QED
    BY <1>2, <1>6, <2>1, Statuses DEF AnswerWrite, StatusMachine!Moves
<1>7. ASSUME NEW d \in Disputes, NEW outcome \in StatusMachine!Decided,
             ResolveRefund(d, outcome) \/ ResolveOther(d, outcome)
      PROVE  Moved
  BY <1>3, <1>7 DEF ResolveRefund, ResolveOther
<1>8. ASSUME NEW d \in Disputes, ResolveCredit(d) PROVE Moved
  BY <1>3, <1>8, Statuses DEF ResolveCredit
<1>9. ASSUME NEW s \in Sweepers, NEW d \in Disputes, SweepClose(s, d)
      PROVE  Moved \/ UNCHANGED status
  BY <1>3, <1>9, Statuses DEF SweepClose
<1>10. ASSUME \/ NewDay
              \/ \E d \in Disputes : FileCheck(d) \/ CreateCredit(d) \/ LoseCredit(d)
              \/ \E d \in Disputes, o \in Owners : AnswerCheck(o, d)
              \/ \E r \in Refunds : GrantRead(r) \/ GrantWrite(r)
              \/ \E s \in Sweepers : SweepStart(s) \/ SweepRead(s) \/ SweepBook(s)
                                      \/ SweepEnd(s) \/ SweepStop(s)
              \/ LockExpire
              \/ UNCHANGED disputesVars
       PROVE UNCHANGED status
  BY <1>10, Zenon DEF NewDay, FileCheck, CreateCredit, LoseCredit, AnswerCheck, GrantRead,
     GrantWrite, SweepStart, SweepRead, SweepBook, SweepEnd, SweepStop, LockExpire,
     disputesVars
<1> QED
  BY <1>0, <1>4, <1>5, <1>6, <1>7, <1>8, <1>9, <1>10, Zenon DEF DisputesNext, SweepStep

\* What a move leaves alone: a decided dispute, and that a dispute was filed.
LEMMA MovesKeep ==
  ASSUME DisputesTypeOK, StatusMachine!Next \/ UNCHANGED status, NEW d \in Disputes
  PROVE  /\ status[d] \in StatusMachine!Decided => status'[d] = status[d]
         /\ status[d] # "absent" => status'[d] # "absent"
         /\ status'[d] = "absent" => status[d] = "absent"
<1>1. ASSUME NEW e \in Disputes, NEW t,
             <<status[e], t>> \in StatusMachine!Moves, status' = [status EXCEPT ![e] = t]
      PROVE  /\ status[d] \in StatusMachine!Decided => status'[d] = status[d]
             /\ status[d] # "absent" => status'[d] # "absent"
             /\ status'[d] = "absent" => status[d] = "absent"
  <2>1. status[e] \notin StatusMachine!Decided /\ t # "absent"
    BY <1>1 DEF StatusMachine!Moves, StatusMachine!Open, StatusMachine!Decided
  <2>2. status'[d] = IF d = e THEN t ELSE status[d]
    BY <1>1 DEF DisputesTypeOK
  <2> QED
    BY <2>1, <2>2
<1> QED
  BY <1>1 DEF StatusMachine!Next, StatusMachine!Move

LEMMA FilingAbsentNext ==
  ASSUME DisputesTypeOK, FilingAbsent, [DisputesNext]_disputesVars
  PROVE  FilingAbsent'
<1>1. ASSUME NEW d \in Disputes, FileCreate(d) PROVE FilingAbsent'
  BY <1>1 DEF FileCreate, FilingAbsent, DisputesTypeOK
<1>2. ASSUME NEW d \in Disputes, FileCheck(d) PROVE FilingAbsent'
  BY <1>2 DEF FileCheck, FilingAbsent
<1>3. ASSUME NEW d \in Disputes,
             \/ View(d) \/ RequestResponse(d) \/ ResolveCredit(d)
             \/ \E outcome \in StatusMachine!Decided :
                  ResolveRefund(d, outcome) \/ ResolveOther(d, outcome)
      PROVE  FilingAbsent'
  <2>1. status[d] # "absent" /\ filing' = filing
    BY <1>3 DEF View, RequestResponse, ResolveCredit, ResolveRefund, ResolveOther, Open,
       StatusMachine!Open, requestVars
  <2>2. \A e \in Disputes : e # d => status'[e] = status[e]
    BY <1>3 DEF View, RequestResponse, ResolveCredit, ResolveRefund, ResolveOther,
       DisputesTypeOK
  <2> QED
    BY <2>1, <2>2 DEF FilingAbsent, DisputesTypeOK
<1>4. ASSUME NEW o \in Owners, AnswerWrite(o) PROVE FilingAbsent'
  BY <1>4 DEF AnswerWrite, FilingAbsent, DisputesTypeOK
<1>5. ASSUME NEW s \in Sweepers, NEW d \in Disputes, SweepClose(s, d) PROVE FilingAbsent'
  BY <1>5 DEF SweepClose, FilingAbsent, DisputesTypeOK, Open, StatusMachine!Open, requestVars
<1>6. ASSUME \/ NewDay
             \/ \E d \in Disputes : CreateCredit(d) \/ LoseCredit(d)
             \/ \E d \in Disputes, o \in Owners : AnswerCheck(o, d)
             \/ \E r \in Refunds : GrantRead(r) \/ GrantWrite(r)
             \/ \E s \in Sweepers : SweepStart(s) \/ SweepRead(s) \/ SweepBook(s)
                                     \/ SweepEnd(s) \/ SweepStop(s)
             \/ LockExpire
             \/ UNCHANGED disputesVars
      PROVE UNCHANGED <<status, filing>>
  BY <1>6, Zenon DEF NewDay, CreateCredit, LoseCredit, AnswerCheck, GrantRead, GrantWrite,
     SweepStart, SweepRead, SweepBook, SweepEnd, SweepStop, LockExpire, disputesVars,
     requestVars
<1>7. CASE UNCHANGED <<status, filing>>
  BY <1>7 DEF FilingAbsent
<1> QED
  BY <1>1, <1>2, <1>3, <1>4, <1>5, <1>6, <1>7, Zenon DEF DisputesNext, SweepStep

LEMMA FilingInvariant == DisputesSpec => [](DisputesTypeOK /\ FilingAbsent)
<1>1. DisputesInit => DisputesTypeOK /\ FilingAbsent
  BY DisputesInitType DEF DisputesInit, FilingAbsent
<1> QED
  BY <1>1, DisputesTypeNext, FilingAbsentNext, PTL DEF DisputesSpec

\* The desk implements the status machine it promises: no late answer, second resolution,
\* double filing or overlapping auto-close makes a move that the machine has not.
THEOREM ImplementsStatusMachine == DisputesSpec => ImplementsDisputeStatus
<1>1. DisputesInit => StatusMachine!Init
  BY DEF DisputesInit, StatusMachine!Init
<1>2. DisputesTypeOK /\ FilingAbsent /\ [DisputesNext]_disputesVars =>
        [StatusMachine!Next]_status
  BY StatusMoves
<1> QED
  BY <1>1, <1>2, FilingInvariant, PTL
     DEF DisputesSpec, ImplementsDisputeStatus, StatusMachine!Spec

-----------------------------------------------------------------------------
\* The money.

\* What the booking holds of d's refund, and what every write in flight thinks it holds.
Sums(d) ==
  {refunded[d]}
  \cup {grant[r].seen[d] : r \in {x \in Refunds : grant[x].stage = "read"}}
  \cup {sweep[s].seen[d] : s \in {x \in Sweepers : sweep[x].stage = "booking"}}

\* The run s has closed a dispute and not yet booked its refund.
Booking(s) == sweep[s].stage \in {"closed", "booking"}

SumsOnce ==
  \A d \in Disputes :
    /\ Sums(d) \subseteq {0, 1}
    /\ 1 \in Sums(d) => status[d] \in RefundStatuses

\* A run is the only one to book the refund of the dispute it closed, and nobody has.
BookedByOne ==
  \A s \in Sweepers : Booking(s) =>
    /\ status[sweep[s].id] = "closed_no_response"
    /\ Sums(sweep[s].id) \subseteq {0}
    /\ \A t \in Sweepers \ {s} : Booking(t) => sweep[t].id # sweep[s].id

DisputesInv ==
  /\ DisputesTypeOK
  /\ FilingAbsent
  /\ SumsOnce
  /\ BookedByOne

\* A write of the booking changes d by what the writer thought, and by d's own refund.
LEMMA BookRefundSums ==
  ASSUME DisputesTypeOK, NEW seen \in Refunded, NEW g \in Grants, BookRefund(seen, g),
         NEW d \in Disputes
  PROVE  /\ refunded'[d] \in {refunded[d], seen[d], seen[d] + 1}
         /\ g # d => refunded'[d] \in {refunded[d], seen[d]}
BY RefundType DEF BookRefund, DisputesTypeOK, Refunded

LEMMA SumsOfUnchanged ==
  ASSUME DisputesTypeOK, UNCHANGED <<refunded, grant>>, NEW d \in Disputes,
         \A s \in Sweepers : sweep'[s].stage = "booking" =>
            \/ sweep'[s] = sweep[s]
            \/ sweep'[s].seen[d] \in {refunded[d], 0}
  PROVE  Sums(d)' \subseteq Sums(d) \cup {0}
BY DEF Sums

\* How the sums of a dispute change.
LEMMA SumsNext ==
  ASSUME DisputesTypeOK, [DisputesNext]_disputesVars, NEW d \in Disputes
  PROVE  \/ Sums(d)' \subseteq Sums(d) \cup {0}
         \/ /\ \E outcome \in {"resolved_guest", "resolved_partial"} :
                 status[d] \in Open /\ status' = [status EXCEPT ![d] = outcome]
            /\ Sums(d)' \subseteq Sums(d) \cup {0, refunded[d] + 1}
         \/ \E s \in Sweepers :
              /\ SweepBook(s)
              /\ sweep[s].id = d
              /\ Sums(d)' \subseteq Sums(d) \cup {0, sweep[s].seen[d] + 1}
<1> DEFINE Kept == Sums(d)' \subseteq Sums(d) \cup {0}
<1>1. ASSUME UNCHANGED <<refunded, grant, sweep>> PROVE Kept
  BY <1>1 DEF Sums
<1>2. ASSUME \/ NewDay
             \/ \E e \in Disputes :
                  \/ FileCheck(e) \/ FileCreate(e) \/ View(e) \/ RequestResponse(e)
                  \/ \E o \in Owners : AnswerCheck(o, e)
                  \/ \E outcome \in StatusMachine!Decided : ResolveOther(e, outcome)
                  \/ ResolveCredit(e) \/ CreateCredit(e) \/ LoseCredit(e)
             \/ \E o \in Owners : AnswerWrite(o)
             \/ LockExpire
             \/ UNCHANGED disputesVars
      PROVE  UNCHANGED <<refunded, grant, sweep>>
  BY <1>2, Zenon DEF NewDay, FileCheck, FileCreate, View, RequestResponse, AnswerCheck,
     ResolveOther, ResolveCredit, CreateCredit, LoseCredit, AnswerWrite, LockExpire,
     disputesVars, moneyVars, requestVars, sweepVars
<1>3. ASSUME NEW e \in Disputes, NEW outcome \in StatusMachine!Decided,
             ResolveRefund(e, outcome)
      PROVE  \/ Kept
             \/ /\ \E o \in {"resolved_guest", "resolved_partial"} :
                     status[d] \in Open /\ status' = [status EXCEPT ![d] = o]
                /\ Sums(d)' \subseteq Sums(d) \cup {0, refunded[d] + 1}
  <2>1. BookRefund(RefundOf(BookingOf[e]), e) /\ UNCHANGED <<grant, sweep>>
    BY <1>3 DEF ResolveRefund, requestVars, sweepVars
  <2>2. RefundOf(BookingOf[e])[d] \in {refunded[d], 0}
    BY RefundType DEF RefundOf
  <2>3. Sums(d)' \subseteq Sums(d) \cup {refunded'[d]}
    BY <2>1 DEF Sums
  <2>4. refunded[d] \in Sums(d)
    BY DEF Sums
  <2>5. CASE e # d
    <3>1. refunded'[d] \in {refunded[d], 0}
      BY <2>1, <2>2, <2>5, RefundType, BookRefundSums
    <3> QED
      BY <2>3, <2>4, <3>1
  <2>6. CASE e = d
    <3>1. RefundOf(BookingOf[d])[d] = refunded[d]
      BY RefundType DEF RefundOf
    <3>2. refunded'[d] \in {refunded[d], refunded[d] + 1}
      BY <2>1, <2>6, <3>1, RefundType, BookRefundSums
    <3> QED
      BY <1>3, <2>3, <2>4, <2>6, <3>2 DEF ResolveRefund
  <2> QED
    BY <2>5, <2>6
<1>4. ASSUME NEW r \in Refunds, GrantRead(r) PROVE Kept
  <2>1. UNCHANGED <<refunded, sweep>>
    BY <1>4 DEF GrantRead, moneyVars, sweepVars
  <2>2. grant' = [grant EXCEPT ![r] = [stage |-> "read", seen |-> RefundOf(BookingOf[r])]]
    BY <1>4 DEF GrantRead
  <2>3. RefundOf(BookingOf[r])[d] \in {refunded[d], 0}
    BY RefundType DEF RefundOf
  <2>4. \A x \in Refunds : x # r => grant'[x] = grant[x]
    BY <2>2 DEF DisputesTypeOK
  <2>5. grant'[r].seen[d] \in {refunded[d], 0}
    BY <2>2, <2>3 DEF DisputesTypeOK
  <2> QED
    BY <2>1, <2>4, <2>5 DEF Sums
<1>5. ASSUME NEW r \in Refunds, GrantWrite(r) PROVE Kept
  <2>1. grant[r].stage = "read" /\ BookRefund(grant[r].seen, r) /\ UNCHANGED sweep
    BY <1>5 DEF GrantWrite, sweepVars
  <2>2. grant[r].seen \in Refunded /\ r # d /\ r \in Grants
    BY <2>1, GrantFields, DisputesAssumption, RefundType
  <2>3. refunded'[d] \in {refunded[d], grant[r].seen[d]}
    BY <2>1, <2>2, BookRefundSums
  <2>4. \A x \in Refunds : grant'[x].stage = "read" => grant'[x] = grant[x]
    BY <1>5 DEF GrantWrite, DisputesTypeOK
  <2>5. {refunded[d], grant[r].seen[d]} \subseteq Sums(d)
    BY <2>1 DEF Sums
  <2>6. Sums(d)' \subseteq Sums(d) \cup {refunded'[d]}
    BY <2>1, <2>4 DEF Sums
  <2> QED
    BY <2>3, <2>5, <2>6
<1>6. ASSUME NEW s \in Sweepers, NEW e \in Disputes, SweepClose(s, e) PROVE Kept
  <2>1. UNCHANGED <<refunded, grant>>
    BY <1>6 DEF SweepClose, moneyVars, requestVars
  <2>2. sweep[s] = [stage |-> "scanning", todo |-> sweep[s].todo]
    BY <1>6, SweepFields DEF SweepClose
  <2>3. [sweep[s] EXCEPT !.todo = @ \ {e}] =
          [stage |-> "scanning", todo |-> sweep[s].todo \ {e}]
    BY <2>2
  <2>6. sweep'[s] \in {[stage |-> "closed", todo |-> sweep[s].todo \ {e}, id |-> e],
                       [stage |-> "scanning", todo |-> sweep[s].todo \ {e}]}
    BY <1>6, <2>3 DEF SweepClose, DisputesTypeOK
  <2>4. sweep'[s].stage # "booking"
    BY <2>6
  <2>5. \A t \in Sweepers : t # s => sweep'[t] = sweep[t]
    BY <1>6 DEF SweepClose, DisputesTypeOK
  <2> QED
    BY <2>1, <2>4, <2>5, SumsOfUnchanged
<1>7. ASSUME NEW s \in Sweepers, SweepRead(s) PROVE Kept
  <2>1. UNCHANGED <<refunded, grant>> /\ sweep[s].id \in Disputes
    BY <1>7, SweepFields DEF SweepRead, moneyVars, requestVars
  <2>2. sweep'[s].seen = RefundOf(BookingOf[sweep[s].id])
        /\ \A t \in Sweepers : t # s => sweep'[t] = sweep[t]
    BY <1>7 DEF SweepRead, DisputesTypeOK
  <2>3. sweep'[s].seen[d] \in {refunded[d], 0}
    BY <2>2, RefundType DEF RefundOf
  <2> QED
    BY <2>1, <2>2, <2>3, SumsOfUnchanged
<1>8. ASSUME NEW s \in Sweepers, SweepBook(s)
      PROVE  \/ Kept
             \/ /\ sweep[s].id = d
                /\ Sums(d)' \subseteq Sums(d) \cup {0, sweep[s].seen[d] + 1}
  <2>1. /\ sweep[s].stage = "booking" /\ BookRefund(sweep[s].seen, sweep[s].id)
        /\ UNCHANGED grant
    BY <1>8 DEF SweepBook, requestVars
  <2>2. sweep[s].seen \in Refunded /\ sweep[s].id \in Grants
    BY <2>1, SweepFields, RefundType
  <2>3. \A t \in Sweepers : sweep'[t].stage = "booking" => sweep'[t] = sweep[t]
    BY <1>8 DEF SweepBook, DisputesTypeOK
  <2>4. Sums(d)' \subseteq Sums(d) \cup {refunded'[d]}
    BY <2>1, <2>3 DEF Sums
  <2>5. {refunded[d], sweep[s].seen[d]} \subseteq Sums(d)
    BY <2>1 DEF Sums
  <2>6. CASE sweep[s].id # d
    <3>1. refunded'[d] \in {refunded[d], sweep[s].seen[d]}
      BY <2>1, <2>2, <2>6, BookRefundSums
    <3> QED
      BY <2>4, <2>5, <3>1
  <2>7. CASE sweep[s].id = d
    <3>1. refunded'[d] \in {refunded[d], sweep[s].seen[d], sweep[s].seen[d] + 1}
      BY <2>1, <2>2, BookRefundSums
    <3> QED
      BY <2>4, <2>5, <2>7, <3>1
  <2> QED
    BY <2>6, <2>7
<1>9. ASSUME NEW s \in Sweepers, SweepStart(s) \/ SweepEnd(s) \/ SweepStop(s) PROVE Kept
  <2>1. UNCHANGED <<refunded, grant>>
    BY <1>9, Zenon DEF SweepStart, SweepEnd, SweepStop, moneyVars, requestVars
  <2>2. \/ sweep' = [sweep EXCEPT ![s] = [stage |-> "scanning", todo |-> Expired]]
        \/ sweep' = [sweep EXCEPT ![s] = Idle]
    BY <1>9, Zenon DEF SweepStart, SweepEnd, SweepStop
  <2>3. sweep'[s].stage # "booking" /\ \A t \in Sweepers : t # s => sweep'[t] = sweep[t]
    BY <2>2 DEF DisputesTypeOK, Idle
  <2> QED
    BY <2>1, <2>3, SumsOfUnchanged
<1> QED
  BY <1>1, <1>2, <1>3, <1>4, <1>5, <1>6, <1>7, <1>8, <1>9, Zenon DEF DisputesNext, SweepStep

\* A run that books, after a step, did so before it and of the same dispute, or has just
\* closed an open one.
LEMMA BookingNext ==
  ASSUME DisputesTypeOK, [DisputesNext]_disputesVars, NEW s \in Sweepers, Booking(s)'
  PROVE  \/ /\ Booking(s)
            /\ sweep'[s].id = sweep[s].id
            /\ ~SweepBook(s)
         \/ /\ \E d \in Disputes :
                 /\ status[d] \in Open
                 /\ status' = [status EXCEPT ![d] = "closed_no_response"]
                 /\ sweep'[s].id = d
                 /\ \A t \in Sweepers : ~SweepBook(t)
            /\ \A t \in Sweepers \ {s} : sweep'[t] = sweep[t]
<1> USE DEF Booking
<1> DEFINE Kept == Booking(s) /\ sweep'[s].id = sweep[s].id /\ ~SweepBook(s)
<1>1. ASSUME sweep' = sweep PROVE Kept
  BY <1>1 DEF SweepBook, DisputesTypeOK
<1>2. ASSUME \/ NewDay
             \/ \E e \in Disputes :
                  \/ FileCheck(e) \/ FileCreate(e) \/ View(e) \/ RequestResponse(e)
                  \/ \E o \in Owners : AnswerCheck(o, e)
                  \/ \E outcome \in StatusMachine!Decided :
                       ResolveRefund(e, outcome) \/ ResolveOther(e, outcome)
                  \/ ResolveCredit(e) \/ CreateCredit(e) \/ LoseCredit(e)
             \/ \E o \in Owners : AnswerWrite(o)
             \/ \E r \in Refunds : GrantRead(r) \/ GrantWrite(r)
             \/ LockExpire
             \/ UNCHANGED disputesVars
      PROVE  sweep' = sweep
  BY <1>2, Zenon DEF NewDay, FileCheck, FileCreate, View, RequestResponse, AnswerCheck,
     ResolveRefund, ResolveOther, ResolveCredit, CreateCredit, LoseCredit, AnswerWrite,
     GrantRead, GrantWrite, LockExpire, disputesVars, sweepVars
<1>3. ASSUME NEW u \in Sweepers, NEW r, sweep' = [sweep EXCEPT ![u] = r],
             r.stage \notin {"closed", "booking"}
      PROVE  Kept
  <2>1. u # s
    BY <1>3 DEF DisputesTypeOK
  <2>2. sweep'[s] = sweep[s]
    BY <1>3, <2>1 DEF DisputesTypeOK
  <2>3. ~SweepBook(s)
    BY <2>2 DEF SweepBook, DisputesTypeOK
  <2> QED
    BY <2>2, <2>3
<1>4. ASSUME NEW u \in Sweepers, SweepStart(u) \/ SweepEnd(u) \/ SweepStop(u) PROVE Kept
  <2>1. \/ sweep' = [sweep EXCEPT ![u] = [stage |-> "scanning", todo |-> Expired]]
        \/ sweep' = [sweep EXCEPT ![u] = Idle]
    BY <1>4, Zenon DEF SweepStart, SweepEnd, SweepStop
  <2>2. Idle.stage \notin {"closed", "booking"}
    BY DEF Idle
  <2> QED
    BY <1>3, <2>1, <2>2
<1>5. ASSUME NEW u \in Sweepers, SweepBook(u) PROVE Kept
  BY <1>3, <1>5 DEF SweepBook
<1>6. ASSUME NEW u \in Sweepers, SweepRead(u) PROVE Kept
  BY <1>6 DEF SweepRead, SweepBook, DisputesTypeOK
<1>7. ASSUME NEW u \in Sweepers, NEW d \in Disputes, SweepClose(u, d)
      PROVE  \/ Kept
             \/ /\ u = s
                /\ status[d] \in Open
                /\ status' = [status EXCEPT ![d] = "closed_no_response"]
                /\ sweep'[s].id = d
                /\ \A t \in Sweepers : ~SweepBook(t)
                /\ \A t \in Sweepers \ {s} : sweep'[t] = sweep[t]
  <2>1. sweep[u] = [stage |-> "scanning", todo |-> sweep[u].todo]
    BY <1>7, SweepFields DEF SweepClose
  <2>2. [sweep[u] EXCEPT !.todo = @ \ {d}] =
          [stage |-> "scanning", todo |-> sweep[u].todo \ {d}]
    BY <2>1
  <2>3. CASE u # s
    <3>1. sweep'[s] = sweep[s]
      BY <1>7, <2>3 DEF SweepClose, DisputesTypeOK
    <3> QED
      BY <3>1 DEF SweepBook, DisputesTypeOK
  <2>4. CASE u = s
    <3>1. /\ status[d] \in Open
          /\ status' = [status EXCEPT ![d] = "closed_no_response"]
          /\ sweep' = [sweep EXCEPT ![s] =
               [stage |-> "closed", todo |-> sweep[s].todo \ {d}, id |-> d]]
      BY <1>7, <2>2, <2>4 DEF SweepClose, DisputesTypeOK
    <3>2. sweep'[s].id = d /\ sweep'[s].stage = "closed"
          /\ \A t \in Sweepers \ {s} : sweep'[t] = sweep[t]
      BY <3>1 DEF DisputesTypeOK
    <3>3. \A t \in Sweepers : ~SweepBook(t)
      BY <3>2 DEF SweepBook, DisputesTypeOK
    <3> QED
      BY <2>4, <3>1, <3>2, <3>3
  <2> QED
    BY <2>3, <2>4
<1> QED
  BY <1>1, <1>2, <1>4, <1>5, <1>6, <1>7, Zenon DEF DisputesNext, SweepStep

LEMMA SumsOnceNext ==
  ASSUME DisputesInv, [DisputesNext]_disputesVars
  PROVE  SumsOnce'
<1> SUFFICES ASSUME NEW d \in Disputes
             PROVE  /\ Sums(d)' \subseteq {0, 1}
                    /\ 1 \in Sums(d)' => status'[d] \in RefundStatuses
  BY DEF SumsOnce, RefundStatuses
<1>1. DisputesTypeOK /\ FilingAbsent
  BY DEF DisputesInv
<1>2. Sums(d) \subseteq {0, 1} /\ (1 \in Sums(d) => status[d] \in RefundStatuses)
  BY DEF DisputesInv, SumsOnce
<1>3. status[d] \in RefundStatuses => status'[d] \in RefundStatuses
  BY <1>1, StatusMoves, MovesKeep, Statuses DEF RefundStatuses
<1>4. CASE Sums(d)' \subseteq Sums(d) \cup {0}
  BY <1>2, <1>3, <1>4
<1>5. CASE /\ \E outcome \in {"resolved_guest", "resolved_partial"} :
                status[d] \in Open /\ status' = [status EXCEPT ![d] = outcome]
           /\ Sums(d)' \subseteq Sums(d) \cup {0, refunded[d] + 1}
  <2>1. status[d] \notin RefundStatuses /\ refunded[d] \in Sums(d)
    BY <1>5, Statuses DEF RefundStatuses, Sums
  <2>2. refunded[d] = 0
    BY <1>2, <2>1
  <2>3. status'[d] \in RefundStatuses
    BY <1>1, <1>5 DEF RefundStatuses, DisputesTypeOK
  <2> QED
    BY <1>2, <1>5, <2>2, <2>3
<1>6. ASSUME NEW s \in Sweepers, SweepBook(s), sweep[s].id = d,
             Sums(d)' \subseteq Sums(d) \cup {0, sweep[s].seen[d] + 1}
      PROVE  /\ Sums(d)' \subseteq {0, 1}
             /\ 1 \in Sums(d)' => status'[d] \in RefundStatuses
  <2>1. sweep[s].stage = "booking" /\ status' = status
    BY <1>6 DEF SweepBook
  <2>2. sweep[s].seen[d] \in Sums(d)
    BY <2>1 DEF Sums
  <2>3. status[d] = "closed_no_response" /\ Sums(d) \subseteq {0}
    BY <1>6, <2>1 DEF DisputesInv, BookedByOne, Booking
  <2>4. sweep[s].seen[d] = 0
    BY <2>2, <2>3
  <2> QED
    BY <1>2, <1>6, <2>1, <2>3, <2>4 DEF RefundStatuses
<1> QED
  BY <1>1, <1>4, <1>5, <1>6, SumsNext

LEMMA BookedByOneNext ==
  ASSUME DisputesInv, [DisputesNext]_disputesVars
  PROVE  BookedByOne'
<1> SUFFICES ASSUME NEW s \in Sweepers, Booking(s)'
             PROVE  /\ status'[sweep'[s].id] = "closed_no_response"
                    /\ Sums(sweep[s].id)' \subseteq {0}
                    /\ \A t \in Sweepers \ {s} : Booking(t)' => sweep'[t].id # sweep'[s].id
  BY DEF BookedByOne
<1>1. DisputesTypeOK /\ FilingAbsent
  BY DEF DisputesInv
<1>2. \A t \in Sweepers : Booking(t) =>
        /\ sweep[t].id \in Disputes
        /\ status[sweep[t].id] = "closed_no_response"
        /\ Sums(sweep[t].id) \subseteq {0}
        /\ \A u \in Sweepers \ {t} : Booking(u) => sweep[u].id # sweep[t].id
  BY <1>1, SweepFields DEF DisputesInv, BookedByOne, Booking
<1>3. CASE Booking(s) /\ sweep'[s].id = sweep[s].id /\ ~SweepBook(s)
  <2>6. PICK d \in Disputes : d = sweep[s].id
    BY <1>2, <1>3
  <2>1. /\ status[d] = "closed_no_response" /\ Sums(d) \subseteq {0}
        /\ \A t \in Sweepers \ {s} : Booking(t) => sweep[t].id # d
    BY <1>2, <1>3, <2>6
  <2>2. status'[d] = "closed_no_response"
    BY <1>1, <2>1, StatusMoves, MovesKeep, Statuses
  <2>3. \A t \in Sweepers : SweepBook(t) => sweep[t].id # d
    BY <1>3, <2>1, <2>6 DEF SweepBook, Booking
  <2>4. Sums(d)' \subseteq {0}
    BY <1>1, <2>1, <2>3, SumsNext, Statuses
  <2>5. ASSUME NEW t \in Sweepers \ {s}, Booking(t)' PROVE sweep'[t].id # d
    <3>1. CASE Booking(t) /\ sweep'[t].id = sweep[t].id
      BY <2>1, <3>1
    <3>2. CASE \E e \in Disputes : status[e] \in Open /\ sweep'[t].id = e
      BY <2>1, <3>2, Statuses
    <3> QED
      BY <1>1, <2>5, <3>1, <3>2, BookingNext
  <2> QED
    BY <1>3, <2>2, <2>4, <2>5, <2>6 DEF Sums
<1>4. ASSUME NEW d \in Disputes, status[d] \in Open,
             status' = [status EXCEPT ![d] = "closed_no_response"], sweep'[s].id = d,
             \A t \in Sweepers : ~SweepBook(t),
             \A t \in Sweepers \ {s} : sweep'[t] = sweep[t]
      PROVE  /\ status'[sweep'[s].id] = "closed_no_response"
             /\ Sums(sweep[s].id)' \subseteq {0}
             /\ \A t \in Sweepers \ {s} : Booking(t)' => sweep'[t].id # sweep'[s].id
  <2>1. status'[d] = "closed_no_response"
    BY <1>1, <1>4 DEF DisputesTypeOK
  <2>2. Sums(d) \subseteq {0}
    BY <1>4, Statuses DEF DisputesInv, SumsOnce, RefundStatuses
  <2>3. Sums(d)' \subseteq {0}
    <3>1. \A outcome \in {"resolved_guest", "resolved_partial"} :
            status' # [status EXCEPT ![d] = outcome]
      BY <1>1, <2>1 DEF DisputesTypeOK
    <3> QED
      BY <1>1, <1>4, <2>2, <3>1, SumsNext
  <2>4. \A t \in Sweepers \ {s} : Booking(t)' => sweep'[t].id # d
    BY <1>2, <1>4, Statuses DEF Booking
  <2> QED
    BY <1>4, <2>1, <2>3, <2>4 DEF Sums
<1> QED
  BY <1>1, <1>3, <1>4, BookingNext

LEMMA DisputesInvariant == DisputesSpec => []DisputesInv
<1>1. DisputesInit => DisputesInv
  <2> SUFFICES ASSUME DisputesInit PROVE DisputesInv
    OBVIOUS
  <2>1. \A d \in Disputes : Sums(d) = {0}
    BY RefundType, DisputesInitType DEF DisputesInit, Sums, Idle
  <2>2. \A s \in Sweepers : ~Booking(s)
    BY DEF DisputesInit, Booking, Idle
  <2> QED
    BY <2>1, <2>2, DisputesInitType DEF DisputesInv, SumsOnce, BookedByOne, FilingAbsent,
       DisputesInit
<1>2. DisputesInv /\ [DisputesNext]_disputesVars => DisputesInv'
  BY DisputesTypeNext, FilingAbsentNext, SumsOnceNext, BookedByOneNext DEF DisputesInv
<1> QED
  BY <1>1, <1>2, PTL DEF DisputesSpec

\* However the auto-close runs of several instances overlap, and whatever sum an
\* administrators' refund writes back, a dispute is refunded at most once, and only if its
\* decision was a refund.
THEOREM DisputesRefundedOnce == DisputesSpec => []RefundedOnce
<1>1. DisputesInv => RefundedOnce
  <2> SUFFICES ASSUME DisputesInv, NEW d \in Disputes
               PROVE  /\ refunded[d] <= 1
                      /\ refunded[d] = 1 => status[d] \in RefundStatuses
    BY DEF RefundedOnce
  <2>1. refunded[d] \in Sums(d)
    BY DEF Sums
  <2>2. Sums(d) \subseteq {0, 1} /\ (1 \in Sums(d) => status[d] \in RefundStatuses)
    BY DEF DisputesInv, SumsOnce
  <2> QED
    BY <2>1, <2>2
<1> QED
  BY <1>1, DisputesInvariant, PTL

-----------------------------------------------------------------------------
\* The credit, the deadline, and the refunds of resolutions.

\* A credit that is still to be created is the first of its dispute.
CreditInv ==
  /\ CreditedOnce
  /\ \A d \in crediting : credit[d] = 0 /\ status[d] = "resolved_wallet_credit"

LEMMA CreditNext ==
  ASSUME DisputesTypeOK, FilingAbsent, CreditInv, [DisputesNext]_disputesVars
  PROVE  CreditInv'
<1>1. \A d \in Disputes :
        /\ credit[d] \in Nat /\ credit[d] <= 1
        /\ credit[d] = 1 => status[d] = "resolved_wallet_credit"
        /\ d \in crediting => credit[d] = 0 /\ status[d] = "resolved_wallet_credit"
  BY DEF CreditInv, CreditedOnce, DisputesTypeOK
<1>2. \A d \in Disputes : status[d] = "resolved_wallet_credit" => status'[d] = status[d]
  BY StatusMoves, MovesKeep, Statuses
<1>3. crediting \subseteq Disputes
  BY DEF DisputesTypeOK
<1>4. CASE credit' = credit /\ crediting' \subseteq crediting
  BY <1>1, <1>2, <1>3, <1>4 DEF CreditInv, CreditedOnce
<1>5. ASSUME \/ NewDay
             \/ \E e \in Disputes :
                  \/ FileCheck(e) \/ FileCreate(e) \/ View(e) \/ RequestResponse(e)
                  \/ \E o \in Owners : AnswerCheck(o, e)
                  \/ \E outcome \in StatusMachine!Decided :
                       ResolveRefund(e, outcome) \/ ResolveOther(e, outcome)
             \/ \E o \in Owners : AnswerWrite(o)
             \/ \E r \in Refunds : GrantRead(r) \/ GrantWrite(r)
             \/ LockExpire
             \/ UNCHANGED disputesVars
      PROVE  UNCHANGED <<credit, crediting>>
  BY <1>5, Zenon DEF NewDay, FileCheck, FileCreate, View, RequestResponse, AnswerCheck,
     ResolveRefund, ResolveOther, AnswerWrite, GrantRead, GrantWrite, LockExpire,
     disputesVars, moneyVars, requestVars
<1>6. ASSUME NEW s \in Sweepers,
             \/ SweepStart(s) \/ SweepRead(s) \/ SweepBook(s) \/ SweepEnd(s) \/ SweepStop(s)
             \/ \E d \in Disputes : SweepClose(s, d)
      PROVE  UNCHANGED <<credit, crediting>>
  BY <1>6, Zenon DEF SweepStart, SweepRead, SweepBook, SweepEnd, SweepStop, SweepClose,
     moneyVars, requestVars
<1>7. ASSUME NEW d \in Disputes, LoseCredit(d)
      PROVE  credit' = credit /\ crediting' \subseteq crediting
  BY <1>7 DEF LoseCredit, moneyVars
<1>8. ASSUME NEW d \in Disputes, ResolveCredit(d) PROVE CreditInv'
  <2>1. credit[d] = 0
    BY <1>1, <1>8, Statuses DEF ResolveCredit
  <2>2. /\ credit' = credit /\ crediting' = crediting \cup {d}
        /\ status'[d] = "resolved_wallet_credit"
    BY <1>8 DEF ResolveCredit, moneyVars, DisputesTypeOK
  <2> QED
    BY <1>1, <1>2, <1>3, <2>1, <2>2 DEF CreditInv, CreditedOnce
<1>9. ASSUME NEW d \in Disputes, CreateCredit(d) PROVE CreditInv'
  <2>1. credit[d] = 0 /\ status[d] = "resolved_wallet_credit"
    BY <1>1, <1>9 DEF CreateCredit
  <2>2. /\ crediting' = crediting \ {d} /\ credit'[d] = 1 /\ status' = status
        /\ \A e \in Disputes : e # d => credit'[e] = credit[e]
    BY <1>9, <2>1 DEF CreateCredit, DisputesTypeOK
  <2> QED
    BY <1>1, <1>3, <2>1, <2>2 DEF CreditInv, CreditedOnce
<1> QED
  BY <1>4, <1>5, <1>6, <1>7, <1>8, <1>9, Zenon DEF DisputesNext, SweepStep

\* No guest is credited twice, nor credited for a dispute that was decided otherwise.
THEOREM DisputesCreditedOnce == DisputesSpec => []CreditedOnce
<1>1. DisputesInit => CreditInv
  BY DEF DisputesInit, CreditInv, CreditedOnce
<1>2. CreditInv => CreditedOnce
  BY DEF CreditInv
<1> QED
  BY <1>1, <1>2, FilingInvariant, CreditNext, PTL DEF DisputesSpec

\* d's seven days are over.
Due(d) == status[d] # "absent" /\ deadline[d] < today

\* What a run has found stays due, however old its scan.
DeadlineInv ==
  /\ ClosedAfterDeadline
  /\ \A s \in Sweepers : sweep[s].stage = "scanning" => \A d \in sweep[s].todo : Due(d)
  /\ \A s \in Sweepers : Booking(s) => \A d \in sweep[s].todo : Due(d)

LEMMA DueNext ==
  ASSUME DisputesTypeOK, FilingAbsent, [DisputesNext]_disputesVars, NEW d \in Disputes,
         Due(d)
  PROVE  Due(d)'
<1>1. status'[d] # "absent"
  BY StatusMoves, MovesKeep DEF Due
<1>2. today \in Nat /\ deadline[d] \in Nat
  BY NowDates DEF DisputesTypeOK
<1>3. CASE NewDay
  <2>1. today' = today + 1 /\ deadline' = deadline
    BY <1>3 DEF NewDay
  <2> QED
    BY <1>1, <1>2, <2>1 DEF Due
<1>4. ASSUME NEW e \in Disputes, FileCreate(e) PROVE Due(d)'
  <2>1. e # d /\ today' = today /\ deadline'[d] = deadline[d]
    BY <1>4 DEF FileCreate, FilingAbsent, Due, DisputesTypeOK
  <2> QED
    BY <1>1, <2>1 DEF Due
<1>5. ASSUME \/ \E e \in Disputes :
                  \/ FileCheck(e) \/ View(e) \/ RequestResponse(e)
                  \/ \E o \in Owners : AnswerCheck(o, e)
                  \/ \E outcome \in StatusMachine!Decided :
                       ResolveRefund(e, outcome) \/ ResolveOther(e, outcome)
                  \/ ResolveCredit(e) \/ CreateCredit(e) \/ LoseCredit(e)
             \/ \E o \in Owners : AnswerWrite(o)
             \/ \E r \in Refunds : GrantRead(r) \/ GrantWrite(r)
             \/ LockExpire
             \/ UNCHANGED disputesVars
      PROVE  UNCHANGED <<today, deadline>>
  BY <1>5, Zenon DEF FileCheck, View, RequestResponse, AnswerCheck, ResolveRefund,
     ResolveOther, ResolveCredit, CreateCredit, LoseCredit, AnswerWrite, GrantRead,
     GrantWrite, LockExpire, disputesVars
<1>6. ASSUME NEW s \in Sweepers,
             \/ SweepStart(s) \/ SweepRead(s) \/ SweepBook(s) \/ SweepEnd(s) \/ SweepStop(s)
             \/ \E e \in Disputes : SweepClose(s, e)
      PROVE  UNCHANGED <<today, deadline>>
  BY <1>6, Zenon DEF SweepStart, SweepRead, SweepBook, SweepEnd, SweepStop, SweepClose
<1>7. CASE UNCHANGED <<today, deadline>>
  BY <1>1, <1>7 DEF Due
<1> QED
  BY <1>3, <1>4, <1>5, <1>6, <1>7, Zenon DEF DisputesNext, SweepStep

\* What a run has left to do after a step, it had before it or has just found due.
LEMMA TodoNext ==
  ASSUME DisputesTypeOK, [DisputesNext]_disputesVars, NEW s \in Sweepers,
         sweep'[s].stage \in {"scanning", "closed", "booking"}
  PROVE  \/ /\ sweep[s].stage \in {"scanning", "closed", "booking"}
            /\ sweep'[s].todo \subseteq sweep[s].todo
         \/ sweep'[s].todo = Expired
<1> DEFINE Kept == /\ sweep[s].stage \in {"scanning", "closed", "booking"}
                   /\ sweep'[s].todo \subseteq sweep[s].todo
<1>1. ASSUME sweep'[s] = sweep[s] PROVE Kept
  BY <1>1
<1>2. ASSUME \/ NewDay
             \/ \E e \in Disputes :
                  \/ FileCheck(e) \/ FileCreate(e) \/ View(e) \/ RequestResponse(e)
                  \/ \E o \in Owners : AnswerCheck(o, e)
                  \/ \E outcome \in StatusMachine!Decided :
                       ResolveRefund(e, outcome) \/ ResolveOther(e, outcome)
                  \/ ResolveCredit(e) \/ CreateCredit(e) \/ LoseCredit(e)
             \/ \E o \in Owners : AnswerWrite(o)
             \/ \E r \in Refunds : GrantRead(r) \/ GrantWrite(r)
             \/ LockExpire
             \/ UNCHANGED disputesVars
      PROVE  sweep'[s] = sweep[s]
  BY <1>2, Zenon DEF NewDay, FileCheck, FileCreate, View, RequestResponse, AnswerCheck,
     ResolveRefund, ResolveOther, ResolveCredit, CreateCredit, LoseCredit, AnswerWrite,
     GrantRead, GrantWrite, LockExpire, disputesVars, sweepVars
<1>3. ASSUME NEW u \in Sweepers, u # s,
             \/ SweepStart(u) \/ SweepRead(u) \/ SweepBook(u) \/ SweepEnd(u) \/ SweepStop(u)
             \/ \E d \in Disputes : SweepClose(u, d)
      PROVE  sweep'[s] = sweep[s]
  BY <1>3 DEF SweepStart, SweepRead, SweepBook, SweepEnd, SweepStop, SweepClose,
     DisputesTypeOK
<1>4. CASE SweepStart(s)
  BY <1>4 DEF SweepStart, DisputesTypeOK
<1>5. CASE SweepRead(s) \/ SweepBook(s)
  BY <1>5 DEF SweepRead, SweepBook, DisputesTypeOK
<1>6. ASSUME SweepEnd(s) \/ SweepStop(s) PROVE FALSE
  <2>1. sweep' = [sweep EXCEPT ![s] = Idle]
    BY <1>6, Zenon DEF SweepEnd, SweepStop
  <2> QED
    BY <2>1 DEF Idle, DisputesTypeOK
<1>7. ASSUME NEW d \in Disputes, SweepClose(s, d) PROVE Kept
  <2>1. sweep[s] = [stage |-> "scanning", todo |-> sweep[s].todo]
    BY <1>7, SweepFields DEF SweepClose
  <2>2. [sweep[s] EXCEPT !.todo = @ \ {d}] =
          [stage |-> "scanning", todo |-> sweep[s].todo \ {d}]
    BY <2>1
  <2>3. sweep'[s] \in {[stage |-> "closed", todo |-> sweep[s].todo \ {d}, id |-> d],
                       [stage |-> "scanning", todo |-> sweep[s].todo \ {d}]}
    BY <1>7, <2>2 DEF SweepClose, DisputesTypeOK
  <2>4. sweep'[s].todo = sweep[s].todo \ {d}
    BY <2>3
  <2> QED
    BY <1>7, <2>4 DEF SweepClose
<1> QED
  BY <1>1, <1>2, <1>3, <1>4, <1>5, <1>6, <1>7, Zenon DEF DisputesNext, SweepStep

LEMMA DeadlineNext ==
  ASSUME DisputesTypeOK, FilingAbsent, DeadlineInv, [DisputesNext]_disputesVars
  PROVE  DeadlineInv'
<1> DEFINE Busy == {"scanning", "closed", "booking"}
<1>1. \A s \in Sweepers : sweep[s].stage \in Busy =>
        sweep[s].todo \subseteq Disputes /\ \A d \in sweep[s].todo : Due(d)
  BY SweepFields DEF DeadlineInv, Booking
<1>2. \A d \in Disputes : Due(d) => Due(d)'
  BY DueNext
<1>4. \A d \in Expired : Due(d)
  BY Statuses DEF Expired, Due
<1>5. ASSUME NEW s \in Sweepers, sweep'[s].stage \in Busy, NEW d \in sweep'[s].todo
      PROVE  Due(d)'
  BY <1>1, <1>2, <1>4, <1>5, TodoNext DEF Expired
<1>6. ASSUME NEW d \in Disputes, status'[d] = "closed_no_response" PROVE Due(d)'
  <2>1. CASE status[d] = "closed_no_response"
    <3>1. Due(d)
      BY <2>1 DEF DeadlineInv, ClosedAfterDeadline, Due
    <3> QED
      BY <1>2, <3>1
  <2>2. ASSUME NEW s \in Sweepers, SweepClose(s, d) PROVE Due(d)
    BY <1>1, <2>2 DEF SweepClose
  <2>3. CASE status[d] # "closed_no_response"
    <3>1. \E s \in Sweepers : SweepClose(s, d)
      <4>1. ASSUME UNCHANGED status PROVE FALSE
        BY <1>6, <2>3, <4>1
      <4>2. ASSUME NEW e \in Disputes,
                   \/ FileCreate(e) \/ View(e) \/ RequestResponse(e) \/ ResolveCredit(e)
                   \/ \E outcome \in StatusMachine!Decided :
                        ResolveRefund(e, outcome) \/ ResolveOther(e, outcome)
            PROVE  FALSE
        BY <1>6, <2>3, <4>2 DEF FileCreate, View, RequestResponse, ResolveCredit,
           ResolveRefund, ResolveOther, DisputesTypeOK
      <4>3. ASSUME NEW o \in Owners, AnswerWrite(o) PROVE FALSE
        BY <1>6, <2>3, <4>3 DEF AnswerWrite, DisputesTypeOK
      <4>4. ASSUME NEW s \in Sweepers, NEW e \in Disputes, e # d, SweepClose(s, e)
            PROVE  FALSE
        BY <1>6, <2>3, <4>4 DEF SweepClose, DisputesTypeOK
      <4>5. ASSUME \/ NewDay
                   \/ \E e \in Disputes : FileCheck(e) \/ CreateCredit(e) \/ LoseCredit(e)
                   \/ \E e \in Disputes, o \in Owners : AnswerCheck(o, e)
                   \/ \E r \in Refunds : GrantRead(r) \/ GrantWrite(r)
                   \/ \E s \in Sweepers : SweepStart(s) \/ SweepRead(s) \/ SweepBook(s)
                                           \/ SweepEnd(s) \/ SweepStop(s)
                   \/ LockExpire
                   \/ UNCHANGED disputesVars
            PROVE  UNCHANGED status
        BY <4>5, Zenon DEF NewDay, FileCheck, CreateCredit, LoseCredit, AnswerCheck,
           GrantRead, GrantWrite, SweepStart, SweepRead, SweepBook, SweepEnd, SweepStop,
           LockExpire, disputesVars
      <4> QED
        BY <4>1, <4>2, <4>3, <4>4, <4>5, Zenon DEF DisputesNext, SweepStep
    <3> QED
      BY <1>2, <2>2, <3>1
  <2> QED
    BY <2>1, <2>3
<1> QED
  BY <1>5, <1>6 DEF DeadlineInv, ClosedAfterDeadline, Due, Booking

\* No dispute is closed for want of a resolution before its seven days are over.
THEOREM DisputesClosedAfterDeadline == DisputesSpec => []ClosedAfterDeadline
<1>1. DisputesInit => DeadlineInv
  BY DEF DisputesInit, DeadlineInv, ClosedAfterDeadline, Booking, Idle
<1>2. DeadlineInv => ClosedAfterDeadline
  BY DEF DeadlineInv
<1> QED
  BY <1>1, <1>2, FilingInvariant, DeadlineNext, PTL DEF DisputesSpec

\* A write that has happened has happened.
LEMMA OverwriterStays ==
  ASSUME DisputesTypeOK, FilingAbsent, [DisputesNext]_disputesVars, NEW g \in Grants,
         Overwriter(g)
  PROVE  Overwriter(g)'
<1>1. CASE g \in Disputes /\ status[g] = "closed_no_response"
  BY <1>1, StatusMoves, MovesKeep, Statuses DEF Overwriter
<1>2. CASE g \in Refunds /\ grant[g].stage = "done"
  <2>1. ASSUME NEW r \in Refunds, GrantRead(r) \/ GrantWrite(r) PROVE grant'[g] = grant[g]
    BY <1>2, <2>1 DEF GrantRead, GrantWrite, Idle, DisputesTypeOK
  <2>2. ASSUME \/ NewDay
               \/ \E e \in Disputes :
                    \/ FileCheck(e) \/ FileCreate(e) \/ View(e) \/ RequestResponse(e)
                    \/ \E o \in Owners : AnswerCheck(o, e)
                    \/ \E outcome \in StatusMachine!Decided :
                         ResolveRefund(e, outcome) \/ ResolveOther(e, outcome)
                    \/ ResolveCredit(e) \/ CreateCredit(e) \/ LoseCredit(e)
               \/ \E o \in Owners : AnswerWrite(o)
               \/ LockExpire
               \/ UNCHANGED disputesVars
        PROVE  grant'[g] = grant[g]
    BY <2>2, Zenon DEF NewDay, FileCheck, FileCreate, View, RequestResponse, AnswerCheck,
       ResolveRefund, ResolveOther, ResolveCredit, CreateCredit, LoseCredit, AnswerWrite,
       LockExpire, disputesVars, requestVars
  <2>3. ASSUME NEW s \in Sweepers,
               \/ SweepStart(s) \/ SweepRead(s) \/ SweepBook(s) \/ SweepEnd(s)
               \/ SweepStop(s)
               \/ \E d \in Disputes : SweepClose(s, d)
        PROVE  grant'[g] = grant[g]
    BY <2>3, Zenon DEF SweepStart, SweepRead, SweepBook, SweepEnd, SweepStop, SweepClose,
       requestVars
  <2>4. grant'[g] = grant[g]
    BY <2>1, <2>2, <2>3, Zenon DEF DisputesNext, SweepStep
  <2> QED
    BY <1>2, <2>4 DEF Overwriter
<1> QED
  BY <1>1, <1>2 DEF Overwriter

\* A write of d's booking by another grant leaves d's refund where it found it, or the
\* grant counts as an overwriter.
LEMMA WriteKeeps ==
  ASSUME DisputesTypeOK, NEW seen \in Refunded, NEW g \in Grants, BookRefund(seen, g),
         NEW d \in Disputes, g # d, BookingOf[g] # BookingOf[d]
  PROVE  refunded'[d] = refunded[d]
BY RefundType DEF BookRefund

Resolved(d) == status[d] \in {"resolved_guest", "resolved_partial"}

Kept(d) ==
  refunded[d] = 1 \/ \E g \in Grants \ {d} : BookingOf[g] = BookingOf[d] /\ Overwriter(g)

LEMMA ResolutionNext ==
  ASSUME DisputesInv, ResolutionBooked, [DisputesNext]_disputesVars
  PROVE  ResolutionBooked'
<1> SUFFICES ASSUME NEW d \in Disputes, Resolved(d)' PROVE Kept(d)'
  BY DEF ResolutionBooked, Resolved, Kept
<1>0. DisputesTypeOK /\ FilingAbsent
  BY DEF DisputesInv
<1>1. Resolved(d) => Kept(d)
  BY DEF ResolutionBooked, Resolved, Kept
<1>2. ASSUME NEW g \in Grants \ {d}, BookingOf[g] = BookingOf[d], Overwriter(g)
      PROVE  Kept(d)'
  BY <1>0, <1>2, OverwriterStays DEF Kept
<1>3. ASSUME Resolved(d), refunded'[d] = refunded[d] PROVE Kept(d)'
  BY <1>1, <1>2, <1>3 DEF Kept
<1>4. ASSUME NEW g \in Grants \ {d}, NEW seen \in Refunded, BookRefund(seen, g),
             Resolved(d), Overwriter(g)'
      PROVE  Kept(d)'
  <2>1. CASE BookingOf[g] = BookingOf[d]
    BY <1>4, <2>1 DEF Kept
  <2>2. CASE BookingOf[g] # BookingOf[d]
    BY <1>0, <1>3, <1>4, <2>2, WriteKeeps
  <2> QED
    BY <2>1, <2>2
<1>5. ASSUME NEW e \in Disputes, NEW outcome \in StatusMachine!Decided,
             ResolveRefund(e, outcome)
      PROVE  Kept(d)'
  <2>1. BookRefund(RefundOf(BookingOf[e]), e) /\ status[e] \in Open
    BY <1>5 DEF ResolveRefund
  <2>2. CASE e = d
    <3>1. refunded[d] \in Sums(d)
      BY DEF Sums
    <3>2. refunded[d] = 0
      BY <2>1, <2>2, <3>1, Statuses DEF DisputesInv, SumsOnce, RefundStatuses
    <3>3. refunded'[d] = 1
      BY <2>1, <2>2, <3>2, RefundType, <1>0 DEF BookRefund, RefundOf
    <3> QED
      BY <3>3 DEF Kept
  <2>3. CASE e # d
    <3>1. status'[d] = status[d]
      BY <1>0, <1>5, <2>3 DEF ResolveRefund, DisputesTypeOK
    <3>2. refunded'[d] = refunded[d]
      BY <1>0, <2>1, <2>3, RefundType DEF BookRefund, RefundOf
    <3> QED
      BY <1>3, <3>1, <3>2 DEF Resolved
  <2> QED
    BY <2>2, <2>3
<1>6. ASSUME NEW r \in Refunds, GrantWrite(r) PROVE Kept(d)'
  <2>1. /\ grant[r].stage = "read" /\ BookRefund(grant[r].seen, r) /\ status' = status
        /\ grant'[r].stage = "done"
    BY <1>0, <1>6 DEF GrantWrite, DisputesTypeOK
  <2>2. grant[r].seen \in Refunded /\ r \in Grants \ {d}
    BY <1>0, <2>1, GrantFields, RefundType, DisputesAssumption
  <2>3. Resolved(d) /\ Overwriter(r)'
    BY <2>1 DEF Resolved, Overwriter
  <2> QED
    BY <1>4, <2>1, <2>2, <2>3
<1>7. ASSUME NEW s \in Sweepers, SweepBook(s) PROVE Kept(d)'
  <2>1. /\ sweep[s].stage = "booking" /\ BookRefund(sweep[s].seen, sweep[s].id)
        /\ status' = status
    BY <1>7 DEF SweepBook
  <2>2. sweep[s].seen \in Refunded /\ sweep[s].id \in Disputes
    BY <1>0, <2>1, SweepFields
  <2>3. status[sweep[s].id] = "closed_no_response"
    BY <2>1 DEF DisputesInv, BookedByOne, Booking
  <2>4. PICK g \in Disputes : g = sweep[s].id
    BY <2>2
  <2>5. Resolved(d) /\ g \in Grants \ {d} /\ Overwriter(g)'
    BY <1>0, <2>1, <2>3, <2>4, RefundType DEF Resolved, Overwriter
  <2> QED
    BY <1>4, <2>1, <2>2, <2>4, <2>5
<1>8. ASSUME NEW e \in Disputes,
             \/ FileCreate(e) \/ View(e) \/ RequestResponse(e) \/ ResolveCredit(e)
             \/ \E outcome \in StatusMachine!Decided : ResolveOther(e, outcome)
      PROVE  Resolved(d) /\ refunded'[d] = refunded[d]
  <2>1. refunded' = refunded
    BY <1>8, Zenon DEF FileCreate, View, RequestResponse, ResolveCredit, ResolveOther,
       moneyVars
  <2>2. Resolved(d)
    BY <1>0, <1>8 DEF FileCreate, View, RequestResponse, ResolveCredit, ResolveOther,
       Resolved, DisputesTypeOK
  <2> QED
    BY <2>1, <2>2
<1>9. ASSUME NEW o \in Owners, AnswerWrite(o)
      PROVE  Resolved(d) /\ refunded'[d] = refunded[d]
  BY <1>0, <1>9 DEF AnswerWrite, Resolved, DisputesTypeOK, moneyVars
<1>10. ASSUME NEW s \in Sweepers, NEW e \in Disputes, SweepClose(s, e)
       PROVE  Resolved(d) /\ refunded'[d] = refunded[d]
  BY <1>0, <1>10 DEF SweepClose, Resolved, DisputesTypeOK, moneyVars
<1>11. ASSUME \/ NewDay
              \/ \E e \in Disputes : FileCheck(e) \/ CreateCredit(e) \/ LoseCredit(e)
              \/ \E e \in Disputes, o \in Owners : AnswerCheck(o, e)
              \/ \E r \in Refunds : GrantRead(r)
              \/ \E s \in Sweepers : SweepStart(s) \/ SweepRead(s) \/ SweepEnd(s)
                                      \/ SweepStop(s)
              \/ LockExpire
              \/ UNCHANGED disputesVars
       PROVE  UNCHANGED <<status, refunded>>
  BY <1>11, Zenon DEF NewDay, FileCheck, CreateCredit, LoseCredit, AnswerCheck, GrantRead,
     SweepStart, SweepRead, SweepEnd, SweepStop, LockExpire, disputesVars, moneyVars
<1>12. CASE UNCHANGED <<status, refunded>>
  BY <1>3, <1>12 DEF Resolved
<1> QED
  BY <1>3, <1>5, <1>6, <1>7, <1>8, <1>9, <1>10, <1>11, <1>12, Zenon
     DEF DisputesNext, SweepStep

\* A resolution and its refund cannot be parted by a crash; what parts them is another
\* writer of the booking's sum.
THEOREM DisputesResolutionBooked == DisputesSpec => []ResolutionBooked
<1>1. DisputesInit => ResolutionBooked
  BY DEF DisputesInit, ResolutionBooked
<1> QED
  BY <1>1, DisputesInvariant, ResolutionNext, PTL DEF DisputesSpec
=============================================================================
