------------------------------- MODULE Payouts -------------------------------
(***************************************************************************)
(* Paying the owners.  A generation reads the completed bookings of a      *)
(* cycle that no payout item is linked to and then creates a batch with    *)
(* one item per property, in a transaction that read none of it.           *)
(* Administrators release a batch, hold an item and release a held item;   *)
(* each of these reads the item first and updates it by its id alone.      *)
(***************************************************************************)
EXTENDS Integers, FiniteSets

CONSTANTS
  Stays,        \* bookings
  Properties,
  PropertyOf,   \* the property of a booking
  CheckOut,     \* the day of its check-out
  Share,        \* its base amount less the platform's fee
  Days,         \* days a cycle may begin and end on
  Generators,   \* generations that can be in flight
  Clerks,       \* release and hold requests that can be in flight
  MaxPosts      \* bound: postings of one item

ASSUME PayoutsAssumption ==
  /\ PropertyOf \in [Stays -> Properties]
  /\ CheckOut \in [Stays -> Nat]
  /\ Share \in [Stays -> Nat]
  /\ Days \subseteq Nat
  /\ MaxPosts \in Nat

Nil == 0 - 1       \* no day

VARIABLES
  completed,  \* bookings whose status is completed
  refund,     \* refund[b]: refundAmountPaise
  batch,      \* batch[e]: PayoutBatch.status of the batch whose cycle ends on e
  counted,    \* counted[e][b]: what b adds to the gross of its item in batch e
  link,       \* link[b]: the batch whose item PayoutBookingLink names for b
  before,     \* before[e]: history: the batches there were when e's bookings were read
  item,       \* item[e][p]: PayoutItem.status of the item of property p
  posted,     \* posted[e][p]: ledger transactions of that item
  generate,   \* generate[g]: the generateBatch g
  clerk       \* clerk[c]: the release or hold request c

bookingVars == <<completed, refund>>
batchVars == <<counted, link, before>>
payoutsVars ==
  <<bookingVars, batch, batchVars, item, posted, generate, clerk>>

Free == [kind |-> "free"]

Amounts == [Stays -> Nat]

\* rows: what generateBatch adds for each booking, 0 for those it leaves out.
Generation ==
  [kind : {"read"}, end : Days, rows : Amounts, seen : SUBSET Days]

\* batch: releaseBatch with the items it read as pending and has not come to, and
\* whether it has released and skipped any.  hold, one: holdItem and releaseItem
\* after their check of the item's status.
Request ==
  [kind : {"batch"}, end : Days, todo : SUBSET Properties, paid : BOOLEAN,
   skipped : BOOLEAN]
  \cup [kind : {"hold", "one"}, end : Days, property : Properties]

\* Math.max(0, base - fee - refund); what is not positive is left out.
OwnerGross(b) == IF Share[b] > refund[b] THEN Share[b] - refund[b] ELSE 0

\* A batch's reference is the day its cycle ends on.
Referenced(e) == batch[e] # "absent"

HasItem(rows, p) == \E b \in Stays : PropertyOf[b] = p /\ rows[b] > 0
-----------------------------------------------------------------------------
PayoutsInit ==
  /\ completed = {}
  /\ refund = [b \in Stays |-> 0]
  /\ batch = [e \in Days |-> "absent"]
  /\ counted = [e \in Days |-> [b \in Stays |-> 0]]
  /\ link = [b \in Stays |-> Nil]
  /\ before = [e \in Days |-> {}]
  /\ item = [e \in Days |-> [p \in Properties |-> "absent"]]
  /\ posted = [e \in Days |-> [p \in Properties |-> 0]]
  /\ generate = [g \in Generators |-> Free]
  /\ clerk = [c \in Clerks |-> Free]

\* A check-out completes a booking.
Complete(b) ==
  /\ completed' = completed \cup {b}
  /\ UNCHANGED <<refund, batch, batchVars, item, posted, generate, clerk>>

\* A dispute or an administrator refunds part of a completed booking.
Refund(b) ==
  /\ b \in completed
  /\ refund[b] < Share[b]                                            \* bound
  /\ refund' = [refund EXCEPT ![b] = @ + 1]
  /\ UNCHANGED <<completed, batch, batchVars, item, posted, generate, clerk>>

-----------------------------------------------------------------------------
\* MUTANT: bookings that another item is linked to are read too.
GenerateReadLinked(g, start, end) ==
  /\ generate[g] = Free
  /\ generate' = [generate EXCEPT ![g] =
       [kind |-> "read", end |-> end,
        rows |-> [b \in Stays |->
          IF b \in completed /\ start <= CheckOut[b] /\ CheckOut[b] <= end
            THEN OwnerGross(b) ELSE 0],
        seen |-> {e \in Days : Referenced(e)}]]
  /\ UNCHANGED <<bookingVars, batch, batchVars, item, posted, clerk>>

\* generateBatch up to the transaction: the bookings of the cycle.
GenerateRead(g, start, end) ==
  LET InCycle(b) ==
        /\ b \in completed
        /\ start <= CheckOut[b] /\ CheckOut[b] <= end
        /\ link[b] = Nil
  IN
  /\ generate[g] = Free
  /\ generate' = [generate EXCEPT ![g] =
       [kind |-> "read", end |-> end,
        rows |-> [b \in Stays |-> IF InCycle(b) THEN OwnerGross(b) ELSE 0],
        seen |-> {e \in Days : Referenced(e)}]]
  /\ UNCHANGED <<bookingVars, batch, batchVars, item, posted, clerk>>

\* MUTANT: the batch and its items are committed before the links.
CreateBatchUnlinked(g) ==
  LET r == generate[g] IN
  /\ r.kind = "read"
  /\ ~Referenced(r.end)
  /\ batch' = [batch EXCEPT ![r.end] = "pending"]
  /\ counted' = [counted EXCEPT ![r.end] = r.rows]
  /\ before' = [before EXCEPT ![r.end] = r.seen]
  /\ item' = [item EXCEPT ![r.end] =
       [p \in Properties |-> IF HasItem(r.rows, p) THEN "pending" ELSE "absent"]]
  /\ generate' = [generate EXCEPT ![g] = Free]
  /\ UNCHANGED <<bookingVars, link, posted, clerk>>

\* createBatchAtomic: the batch, unless its reference exists, the items with the
\* sums of what was read, and a link for every booking that has none yet.
CreateBatch(g) ==
  LET r == generate[g] IN
  /\ r.kind = "read"
  /\ ~Referenced(r.end)
  /\ batch' = [batch EXCEPT ![r.end] = "pending"]
  /\ counted' = [counted EXCEPT ![r.end] = r.rows]
  /\ before' = [before EXCEPT ![r.end] = r.seen]
  /\ link' = [b \in Stays |-> IF r.rows[b] > 0 /\ link[b] = Nil THEN r.end ELSE link[b]]
  /\ item' = [item EXCEPT ![r.end] =
       [p \in Properties |-> IF HasItem(r.rows, p) THEN "pending" ELSE "absent"]]
  /\ generate' = [generate EXCEPT ![g] = Free]
  /\ UNCHANGED <<bookingVars, posted, clerk>>

\* The reference exists (a 500), or the process ends: the transaction leaves nothing.
GenerateFail(g) ==
  /\ generate[g] # Free
  /\ generate' = [generate EXCEPT ![g] = Free]
  /\ UNCHANGED <<bookingVars, batch, batchVars, item, posted, clerk>>

-----------------------------------------------------------------------------
Pending(e) == {p \in Properties : item[e][p] = "pending"}

Skipped(e) == {p \in Properties : item[e][p] \notin {"absent", "pending"}}

\* releaseBatch up to its loop.
ReleaseBatchRead(c, e) ==
  /\ clerk[c] = Free
  /\ batch[e] \notin {"absent", "released"}
  /\ clerk' = [clerk EXCEPT ![c] =
       [kind |-> "batch", end |-> e, todo |-> Pending(e), paid |-> FALSE,
        skipped |-> Skipped(e) # {}]]
  /\ UNCHANGED <<bookingVars, batch, batchVars, item, posted, generate>>

\* MUTANT: the status is updated and the ledger's transaction is not part of it.
ReleaseInternalUnposted(e, p) ==
  /\ item' = [item EXCEPT ![e][p] = "released"]
  /\ UNCHANGED posted

\* releaseItemInternal: the status, whatever it is by now, and the ledger in one
\* transaction; when that fails, the status failed.
ReleaseInternal(e, p) ==
  \/ /\ posted[e][p] < MaxPosts                                      \* bound
     /\ item' = [item EXCEPT ![e][p] = "released"]
     /\ posted' = [posted EXCEPT ![e][p] = @ + 1]
  \/ /\ item' = [item EXCEPT ![e][p] = "failed"]
     /\ UNCHANGED posted

\* One turn of the loop; a failed item counts as released.
ReleaseBatchItem(c, p) ==
  LET r == clerk[c] IN
  /\ r.kind = "batch"
  /\ p \in r.todo
  /\ ReleaseInternal(r.end, p)
  /\ clerk' = [clerk EXCEPT ![c].todo = @ \ {p}, ![c].paid = TRUE]
  /\ UNCHANGED <<bookingVars, batch, batchVars, generate>>

\* MUTANT: the batch is released once a single item was.
ReleaseBatchEndEarly(c) ==
  LET r == clerk[c] IN
  /\ r.kind = "batch"
  /\ batch' = [batch EXCEPT ![r.end] =
       IF ~r.skipped THEN "released" ELSE IF r.paid THEN "partial" ELSE "failed"]
  /\ clerk' = [clerk EXCEPT ![c] = Free]
  /\ UNCHANGED <<bookingVars, batchVars, item, posted, generate>>

\* The batch's status after the loop.
ReleaseBatchEnd(c) ==
  LET r == clerk[c] IN
  /\ r.kind = "batch"
  /\ r.todo = {}
  /\ batch' = [batch EXCEPT ![r.end] =
       IF ~r.skipped THEN "released" ELSE IF r.paid THEN "partial" ELSE "failed"]
  /\ clerk' = [clerk EXCEPT ![c] = Free]
  /\ UNCHANGED <<bookingVars, batchVars, item, posted, generate>>

\* holdItem reads the item ...
HoldRead(c, e, p) ==
  /\ clerk[c] = Free
  /\ item[e][p] = "pending"
  /\ clerk' = [clerk EXCEPT ![c] = [kind |-> "hold", end |-> e, property |-> p]]
  /\ UNCHANGED <<bookingVars, batch, batchVars, item, posted, generate>>

\* ... and updates it by its id.
HoldWrite(c) ==
  LET r == clerk[c] IN
  /\ r.kind = "hold"
  /\ item' = [item EXCEPT ![r.end][r.property] = "on_hold"]
  /\ clerk' = [clerk EXCEPT ![c] = Free]
  /\ UNCHANGED <<bookingVars, batch, batchVars, posted, generate>>

\* releaseItem reads a held item ...
ReleaseItemRead(c, e, p) ==
  /\ clerk[c] = Free
  /\ item[e][p] = "on_hold"
  /\ clerk' = [clerk EXCEPT ![c] = [kind |-> "one", end |-> e, property |-> p]]
  /\ UNCHANGED <<bookingVars, batch, batchVars, item, posted, generate>>

\* ... and pays it.
ReleaseItemWrite(c) ==
  LET r == clerk[c] IN
  /\ r.kind = "one"
  /\ ReleaseInternal(r.end, r.property)
  /\ clerk' = [clerk EXCEPT ![c] = Free]
  /\ UNCHANGED <<bookingVars, batch, batchVars, generate>>

\* The process ends in the middle of a request.
RequestStop(c) ==
  /\ clerk[c] # Free
  /\ clerk' = [clerk EXCEPT ![c] = Free]
  /\ UNCHANGED <<bookingVars, batch, batchVars, item, posted, generate>>

PayoutsNext ==
  \/ \E b \in Stays : Complete(b) \/ Refund(b)
  \/ \E g \in Generators :
       \/ \E start, end \in Days : GenerateRead(g, start, end)
       \/ CreateBatch(g)
       \/ GenerateFail(g)
  \/ \E c \in Clerks :
       \/ \E e \in Days :
            \/ ReleaseBatchRead(c, e)
            \/ \E p \in Properties : HoldRead(c, e, p) \/ ReleaseItemRead(c, e, p)
       \/ \E p \in Properties : ReleaseBatchItem(c, p)
       \/ ReleaseBatchEnd(c)
       \/ HoldWrite(c)
       \/ ReleaseItemWrite(c)
       \/ RequestStop(c)

PayoutsSpec == PayoutsInit /\ [][PayoutsNext]_payoutsVars

-----------------------------------------------------------------------------
\* Properties.

BatchStatus == {"absent", "pending", "released", "partial", "failed"}

ItemStatus == {"absent", "pending", "on_hold", "released", "failed"}

\* Every variable has its type.
PayoutsTypeOK ==
  /\ completed \in SUBSET Stays
  /\ refund \in Amounts
  /\ batch \in [Days -> BatchStatus]
  /\ counted \in [Days -> Amounts]
  /\ link \in [Stays -> Days \cup {Nil}]
  /\ before \in [Days -> SUBSET Days]
  /\ item \in [Days -> [Properties -> ItemStatus]]
  /\ posted \in [Days -> [Properties -> 0 .. MaxPosts]]
  /\ generate \in [Generators -> Generation \cup {Free}]
  /\ clerk \in [Clerks -> Request \cup {Free}]

\* Wherever a generation stops, a booking some item counts is linked to an item that
\* counts it, so that no later generation reads it.
CountedIsLinked ==
  \A e \in Days, b \in Stays :
    counted[e][b] > 0 => link[b] # Nil /\ counted[link[b]][b] > 0

\* A booking is counted in two batches only if each of the two generations read its
\* bookings before the other created its batch: the weekly job and administrators
\* who generate one after the other pay a booking once.
CountedTwiceOnlyIfConcurrent ==
  \A e, f \in Days, b \in Stays :
    e # f /\ counted[e][b] > 0 /\ counted[f][b] > 0 =>
      e \notin before[f] /\ f \notin before[e]

\* Requests that race each other leave the ledger behind every released item, and a
\* pending item, which the next release pays, was never paid.
PaidMatchesStatus ==
  \A e \in Days, p \in Properties :
    /\ item[e][p] = "released" => posted[e][p] > 0
    /\ item[e][p] = "pending" => posted[e][p] = 0

\* A released batch, which no request can release again, leaves no item waiting.
ReleasedBatchSettled ==
  \A e \in Days : batch[e] = "released" => Pending(e) = {}

\* What an owner is paid for a booking is net of the refunds there have been.
PaidNetOfRefunds ==
  [][\A e \in Days, b \in Stays :
       posted'[e][PropertyOf[b]] > posted[e][PropertyOf[b]] =>
         counted[e][b] <= OwnerGross(b)]_payoutsVars
=============================================================================
