--------------------------- MODULE Payouts_proofs ---------------------------
(***************************************************************************)
(* Proofs about the payouts, for every number of bookings, properties,     *)
(* cycles, generations and requests: the type, which bookings two batches  *)
(* can both count, and that the ledger and the status of an item agree     *)
(* whatever requests race each other.                                      *)
(***************************************************************************)
EXTENDS Payouts, TLAPS

LEMMA NilDays == Nil \notin Days /\ Days \subseteq Nat
BY PayoutsAssumption DEF Nil

\* The fields of a request and of a generation.
LEMMA RequestFields ==
  ASSUME PayoutsTypeOK, NEW c \in Clerks
  PROVE  /\ clerk[c].kind \in {"free", "batch", "hold", "one"}
         /\ clerk[c].kind = "batch" =>
              /\ clerk[c].end \in Days /\ clerk[c].todo \in SUBSET Properties
              /\ clerk[c] = [kind |-> "batch", end |-> clerk[c].end, todo |-> clerk[c].todo,
                             paid |-> clerk[c].paid, skipped |-> clerk[c].skipped]
         /\ clerk[c].kind \in {"hold", "one"} =>
              clerk[c].end \in Days /\ clerk[c].property \in Properties
<1>1. clerk[c] \in Request \cup {Free}
  BY DEF PayoutsTypeOK
<1> QED
  BY <1>1 DEF Request, Free

BatchRequest ==
  [kind : {"batch"}, end : Days, todo : SUBSET Properties, paid : BOOLEAN,
   skipped : BOOLEAN]

\* One turn of the loop over a batch, in the request.
LEMMA LoopRecord ==
  ASSUME NEW r \in BatchRequest, NEW p
  PROVE  LET q == [[r EXCEPT !.todo = r.todo \ {p}] EXCEPT !.paid = TRUE] IN
         /\ q \in BatchRequest
         /\ q.end = r.end
         /\ q.todo = r.todo \ {p}
<1> DEFINE t == [r EXCEPT !.todo = r.todo \ {p}]
<1>1. t \in BatchRequest /\ t.end = r.end /\ t.todo = r.todo \ {p}
  BY DEF BatchRequest
<1> HIDE DEF t
<1>2. /\ [t EXCEPT !.paid = TRUE] \in BatchRequest
      /\ [t EXCEPT !.paid = TRUE].end = t.end
      /\ [t EXCEPT !.paid = TRUE].todo = t.todo
  BY <1>1 DEF BatchRequest
<1> QED
  BY <1>1, <1>2, Zenon DEF t

LEMMA GenerationFields ==
  ASSUME PayoutsTypeOK, NEW g \in Generators
  PROVE  /\ generate[g].kind \in {"free", "read"}
         /\ generate[g].kind = "read" =>
              /\ generate[g].end \in Days
              /\ generate[g].rows \in Amounts
              /\ generate[g].seen \in SUBSET Days
<1>1. generate[g] \in Generation \cup {Free}
  BY DEF PayoutsTypeOK
<1> QED
  BY <1>1 DEF Generation, Free

LEMMA PayoutsInitType == PayoutsInit => PayoutsTypeOK
BY PayoutsAssumption DEF PayoutsInit, PayoutsTypeOK, Amounts, BatchStatus, ItemStatus

\* What a request that pays one item changes of the items.
LEMMA ReleaseInternalType ==
  ASSUME PayoutsTypeOK, NEW e \in Days, NEW p \in Properties, ReleaseInternal(e, p)
  PROVE  /\ item' \in [Days -> [Properties -> ItemStatus]]
         /\ posted' \in [Days -> [Properties -> 0 .. MaxPosts]]
<1>1. /\ item \in [Days -> [Properties -> ItemStatus]]
      /\ posted \in [Days -> [Properties -> 0 .. MaxPosts]]
      /\ "released" \in ItemStatus /\ "failed" \in ItemStatus
  BY DEF PayoutsTypeOK, ItemStatus
<1>2. CASE item' = [item EXCEPT ![e][p] = "failed"] /\ UNCHANGED posted
  BY <1>1, <1>2
<1>3. CASE /\ posted[e][p] < MaxPosts
           /\ item' = [item EXCEPT ![e][p] = "released"]
           /\ posted' = [posted EXCEPT ![e][p] = @ + 1]
  <2>1. posted[e][p] + 1 \in 0 .. MaxPosts
    BY <1>1, <1>3, PayoutsAssumption
  <2>2. posted' = [posted EXCEPT ![e] = [posted[e] EXCEPT ![p] = posted[e][p] + 1]]
    BY <1>1, <1>3
  <2>3. [posted[e] EXCEPT ![p] = posted[e][p] + 1] \in [Properties -> 0 .. MaxPosts]
    BY <1>1, <2>1
  <2> QED
    BY <1>1, <1>3, <2>2, <2>3
<1> QED
  BY <1>2, <1>3 DEF ReleaseInternal

\* The bookings and the generations.
LEMMA GenerationType ==
  ASSUME PayoutsTypeOK,
         \/ \E b \in Stays : Complete(b) \/ Refund(b)
         \/ \E g \in Generators :
              \/ \E start, end \in Days : GenerateRead(g, start, end)
              \/ CreateBatch(g)
              \/ GenerateFail(g)
  PROVE  PayoutsTypeOK'
<1>1. ASSUME NEW b \in Stays, Complete(b) PROVE PayoutsTypeOK'
  BY <1>1 DEF Complete, PayoutsTypeOK, batchVars
<1>2. ASSUME NEW b \in Stays, Refund(b) PROVE PayoutsTypeOK'
  <2>1. refund' \in Amounts
    BY <1>2 DEF Refund, PayoutsTypeOK, Amounts
  <2> QED
    BY <1>2, <2>1 DEF Refund, PayoutsTypeOK, batchVars
<1>3. ASSUME NEW g \in Generators, NEW start \in Days, NEW end \in Days,
             GenerateRead(g, start, end)
      PROVE  PayoutsTypeOK'
  <2> DEFINE rows == [b \in Stays |->
               IF b \in completed /\ start <= CheckOut[b] /\ CheckOut[b] <= end /\ link[b] = Nil
                 THEN OwnerGross(b) ELSE 0]
             r == [kind |-> "read", end |-> end, rows |-> rows,
                   seen |-> {e \in Days : Referenced(e)}]
  <2>1. \A b \in Stays : OwnerGross(b) \in Nat
    BY PayoutsAssumption DEF OwnerGross, PayoutsTypeOK, Amounts
  <2>2. rows \in Amounts
    BY <2>1 DEF Amounts
  <2>3. generate' = [generate EXCEPT ![g] = r]
    BY <1>3 DEF GenerateRead
  <2> HIDE DEF rows
  <2>4. r \in Generation
    BY <2>2 DEF Generation
  <2> HIDE DEF r
  <2>5. generate' \in [Generators -> Generation \cup {Free}]
    BY <2>3, <2>4 DEF PayoutsTypeOK
  <2> QED
    BY <1>3, <2>5 DEF GenerateRead, PayoutsTypeOK, bookingVars, batchVars
<1>4. ASSUME NEW g \in Generators, CreateBatch(g) PROVE PayoutsTypeOK'
  <2>1. /\ generate[g].end \in Days /\ generate[g].rows \in Amounts
        /\ generate[g].seen \in SUBSET Days
    BY <1>4, GenerationFields DEF CreateBatch
  <2>2. batch' \in [Days -> BatchStatus] /\ counted' \in [Days -> Amounts]
        /\ before' \in [Days -> SUBSET Days]
    BY <1>4, <2>1 DEF CreateBatch, PayoutsTypeOK, BatchStatus
  <2>3. link' \in [Stays -> Days \cup {Nil}]
    BY <1>4, <2>1 DEF CreateBatch, PayoutsTypeOK
  <2>4. item' \in [Days -> [Properties -> ItemStatus]]
    BY <1>4, <2>1 DEF CreateBatch, PayoutsTypeOK, ItemStatus
  <2>5. generate' \in [Generators -> Generation \cup {Free}]
    BY <1>4 DEF CreateBatch, PayoutsTypeOK
  <2> QED
    BY <1>4, <2>2, <2>3, <2>4, <2>5 DEF CreateBatch, PayoutsTypeOK, bookingVars
<1>5. ASSUME NEW g \in Generators, GenerateFail(g) PROVE PayoutsTypeOK'
  BY <1>5 DEF GenerateFail, PayoutsTypeOK, bookingVars, batchVars
<1> QED
  BY <1>1, <1>2, <1>3, <1>4, <1>5

\* The requests of administrators.
LEMMA RequestType ==
  ASSUME PayoutsTypeOK, NEW c \in Clerks,
         \/ \E e \in Days :
              \/ ReleaseBatchRead(c, e)
              \/ \E p \in Properties : HoldRead(c, e, p) \/ ReleaseItemRead(c, e, p)
         \/ \E p \in Properties : ReleaseBatchItem(c, p)
         \/ ReleaseBatchEnd(c)
         \/ HoldWrite(c)
         \/ ReleaseItemWrite(c)
         \/ RequestStop(c)
  PROVE  PayoutsTypeOK'
<1>1. ASSUME NEW e \in Days, ReleaseBatchRead(c, e) PROVE PayoutsTypeOK'
  <2>1. (Skipped(e) # {}) \in BOOLEAN /\ Pending(e) \in SUBSET Properties
    BY Zenon DEF Pending
  <2>2. [kind |-> "batch", end |-> e, todo |-> Pending(e), paid |-> FALSE,
         skipped |-> Skipped(e) # {}] \in Request
    BY <2>1, Zenon DEF Request
  <2>3. clerk' \in [Clerks -> Request \cup {Free}]
    BY <1>1, <2>2, Zenon DEF ReleaseBatchRead, PayoutsTypeOK
  <2> QED
    BY <1>1, <2>3 DEF ReleaseBatchRead, PayoutsTypeOK, bookingVars, batchVars
<1>2. ASSUME NEW e \in Days, NEW p \in Properties,
             HoldRead(c, e, p) \/ ReleaseItemRead(c, e, p)
      PROVE  PayoutsTypeOK'
  <2>1. /\ [kind |-> "hold", end |-> e, property |-> p] \in Request
        /\ [kind |-> "one", end |-> e, property |-> p] \in Request
    BY DEF Request
  <2>2. clerk' \in [Clerks -> Request \cup {Free}]
    BY <1>2, <2>1 DEF HoldRead, ReleaseItemRead, PayoutsTypeOK
  <2> QED
    BY <1>2, <2>2 DEF HoldRead, ReleaseItemRead, PayoutsTypeOK, bookingVars, batchVars
<1>3. ASSUME NEW p \in Properties, ReleaseBatchItem(c, p) PROVE PayoutsTypeOK'
  <2>1. clerk[c] \in BatchRequest /\ clerk[c].end \in Days
    <3>1. clerk[c].kind = "batch" /\ clerk[c] \in Request \cup {Free}
      BY <1>3 DEF ReleaseBatchItem, PayoutsTypeOK
    <3>2. Free.kind # "batch"
      BY DEF Free
    <3>3. clerk[c] \in BatchRequest
      BY <3>1, <3>2 DEF Request, BatchRequest
    <3> QED
      BY <3>3 DEF BatchRequest
  <2> DEFINE q == [[clerk[c] EXCEPT !.todo = clerk[c].todo \ {p}] EXCEPT !.paid = TRUE]
  <2>2. clerk' = [clerk EXCEPT ![c] = q]
    BY <1>3 DEF ReleaseBatchItem, PayoutsTypeOK
  <2>3. q \in BatchRequest
    BY <2>1, LoopRecord, Zenon
  <2> HIDE DEF q
  <2>5. clerk' \in [Clerks -> Request \cup {Free}]
    BY <2>2, <2>3, Zenon DEF PayoutsTypeOK, Request, BatchRequest
  <2>6. /\ item' \in [Days -> [Properties -> ItemStatus]]
        /\ posted' \in [Days -> [Properties -> 0 .. MaxPosts]]
    BY <1>3, <2>1, ReleaseInternalType DEF ReleaseBatchItem
  <2>9. UNCHANGED <<completed, refund, batch, counted, link, before, generate>>
    BY <1>3, Zenon DEF ReleaseBatchItem, bookingVars, batchVars
  <2> QED
    BY <2>5, <2>6, <2>9 DEF PayoutsTypeOK
<1>4. CASE ReleaseBatchEnd(c)
  <2>1. batch' \in [Days -> BatchStatus]
    BY <1>4 DEF ReleaseBatchEnd, PayoutsTypeOK, BatchStatus
  <2> QED
    BY <1>4, <2>1 DEF ReleaseBatchEnd, PayoutsTypeOK, bookingVars, batchVars
<1>5. CASE HoldWrite(c)
  BY <1>5, RequestFields DEF HoldWrite, PayoutsTypeOK, ItemStatus, bookingVars, batchVars
<1>6. CASE ReleaseItemWrite(c)
  <2>1. clerk[c].end \in Days /\ clerk[c].property \in Properties
    BY <1>6, RequestFields DEF ReleaseItemWrite
  <2> QED
    BY <1>6, <2>1, ReleaseInternalType
       DEF ReleaseItemWrite, PayoutsTypeOK, bookingVars, batchVars
<1>7. CASE RequestStop(c)
  BY <1>7 DEF RequestStop, PayoutsTypeOK, bookingVars, batchVars
<1> QED
  BY <1>1, <1>2, <1>3, <1>4, <1>5, <1>6, <1>7

LEMMA PayoutsTypeNext ==
  ASSUME PayoutsTypeOK, [PayoutsNext]_payoutsVars
  PROVE  PayoutsTypeOK'
<1>1. CASE UNCHANGED payoutsVars
  BY <1>1 DEF payoutsVars, bookingVars, batchVars, PayoutsTypeOK
<1> QED
  BY <1>1, GenerationType, RequestType, Zenon DEF PayoutsNext

\* The state of the payouts keeps its type.
THEOREM PayoutsTypeCorrect == PayoutsSpec => []PayoutsTypeOK
BY PayoutsInitType, PayoutsTypeNext, PTL DEF PayoutsSpec

-----------------------------------------------------------------------------
\* What is counted.

\* The generations in flight and those that are over, in what they know of each other.
CountInv ==
  /\ \A e \in Days, b \in Stays : ~Referenced(e) => counted[e][b] = 0
  /\ \A g \in Generators : generate[g].kind = "read" =>
       \A e \in generate[g].seen :
         Referenced(e) /\ \A b \in Stays : generate[g].rows[b] > 0 => counted[e][b] = 0
  /\ \A e \in Days : \A f \in before[e] : Referenced(f)
  /\ \A e \in Days, b \in Stays : counted[e][b] > 0 => link[b] # Nil
  /\ \A b \in Stays : link[b] # Nil => counted[link[b]][b] > 0
  /\ CountedTwiceOnlyIfConcurrent

\* A batch that exists goes on existing.
LEMMA ReferencedStays ==
  ASSUME PayoutsTypeOK, [PayoutsNext]_payoutsVars, NEW e \in Days, Referenced(e)
  PROVE  Referenced(e)'
<1>1. ASSUME NEW g \in Generators, CreateBatch(g) PROVE Referenced(e)'
  BY <1>1, GenerationFields DEF CreateBatch, Referenced, PayoutsTypeOK
<1>2. ASSUME NEW c \in Clerks, ReleaseBatchEnd(c) PROVE Referenced(e)'
  BY <1>2, RequestFields DEF ReleaseBatchEnd, Referenced, PayoutsTypeOK
<1>3. ASSUME \/ \E b \in Stays : Complete(b) \/ Refund(b)
             \/ \E g \in Generators :
                  (\E start, end \in Days : GenerateRead(g, start, end)) \/ GenerateFail(g)
             \/ \E c \in Clerks :
                  \/ \E f \in Days :
                       \/ ReleaseBatchRead(c, f)
                       \/ \E p \in Properties : HoldRead(c, f, p) \/ ReleaseItemRead(c, f, p)
                  \/ \E p \in Properties : ReleaseBatchItem(c, p)
                  \/ HoldWrite(c) \/ ReleaseItemWrite(c) \/ RequestStop(c)
             \/ UNCHANGED payoutsVars
      PROVE  batch' = batch
  BY <1>3, Zenon DEF Complete, Refund, GenerateRead, GenerateFail, ReleaseBatchRead, HoldRead,
     ReleaseItemRead, ReleaseBatchItem, HoldWrite, ReleaseItemWrite, RequestStop, payoutsVars
<1>4. CASE batch' = batch
  BY <1>4 DEF Referenced
<1> QED
  BY <1>1, <1>2, <1>3, <1>4, Zenon DEF PayoutsNext

LEMMA CountNext ==
  ASSUME PayoutsTypeOK, CountInv, [PayoutsNext]_payoutsVars
  PROVE  CountInv'
<1>1. \A e \in Days : Referenced(e) => Referenced(e)'
  BY ReferencedStays
<1>2. /\ \A e \in Days, b \in Stays : counted[e][b] \in Nat
      /\ \A e \in Days : before[e] \subseteq Days
      /\ \A g \in Generators : generate[g].kind = "read" => generate[g].seen \subseteq Days
  BY GenerationFields DEF PayoutsTypeOK, Amounts
<1>3. ASSUME UNCHANGED batchVars,
             \A g \in Generators : generate'[g].kind = "read" =>
               generate'[g] = generate[g] \/
               \A e \in generate'[g].seen :
                 /\ e \in Days /\ Referenced(e)
                 /\ \A b \in Stays : generate'[g].rows[b] > 0 => counted[e][b] = 0
      PROVE  CountInv'
  <2>1. counted' = counted /\ link' = link /\ before' = before
    BY <1>3 DEF batchVars
  <2> QED
    BY <1>1, <1>2, <1>3, <2>1 DEF CountInv, CountedTwiceOnlyIfConcurrent
<1>4. ASSUME \/ \E b \in Stays : Complete(b) \/ Refund(b)
             \/ \E c \in Clerks :
                  \/ \E f \in Days :
                       \/ ReleaseBatchRead(c, f)
                       \/ \E p \in Properties : HoldRead(c, f, p) \/ ReleaseItemRead(c, f, p)
                  \/ \E p \in Properties : ReleaseBatchItem(c, p)
                  \/ ReleaseBatchEnd(c)
                  \/ HoldWrite(c) \/ ReleaseItemWrite(c) \/ RequestStop(c)
             \/ UNCHANGED payoutsVars
      PROVE  UNCHANGED <<batchVars, generate>>
  BY <1>4, Zenon DEF Complete, Refund, ReleaseBatchRead, HoldRead, ReleaseItemRead,
     ReleaseBatchItem, ReleaseBatchEnd, HoldWrite, ReleaseItemWrite, RequestStop, payoutsVars
<1>5. CASE UNCHANGED <<batchVars, generate>>
  BY <1>3, <1>5
<1>6. ASSUME NEW g \in Generators, GenerateFail(g) PROVE CountInv'
  BY <1>3, <1>6 DEF GenerateFail, Free, PayoutsTypeOK
<1>7. ASSUME NEW g \in Generators, NEW start \in Days, NEW end \in Days,
             GenerateRead(g, start, end)
      PROVE  CountInv'
  <2>1. /\ generate'[g].seen = {e \in Days : Referenced(e)}
        /\ \A b \in Stays : generate'[g].rows[b] > 0 => link[b] = Nil
        /\ \A h \in Generators : h # g => generate'[h] = generate[h]
    BY <1>7 DEF GenerateRead, PayoutsTypeOK
  <2>2. \A b \in Stays, e \in Days : link[b] = Nil => counted[e][b] = 0
    BY <1>2 DEF CountInv
  <2>3. UNCHANGED batchVars
    BY <1>7 DEF GenerateRead
  <2> QED
    BY <1>3, <2>1, <2>2, <2>3
<1>8. ASSUME NEW g \in Generators, CreateBatch(g) PROVE CountInv'
  <2>1. PICK e0 \in Days, rows \in Amounts, seen \in SUBSET Days :
          e0 = generate[g].end /\ rows = generate[g].rows /\ seen = generate[g].seen
    BY <1>8, GenerationFields DEF CreateBatch
  <2>2. /\ ~Referenced(e0) /\ Referenced(e0)'
        /\ \A e \in Days : e # e0 => (Referenced(e)' <=> Referenced(e))
    BY <1>8, <2>1 DEF CreateBatch, Referenced, PayoutsTypeOK
  <2>3. /\ \A b \in Stays : counted'[e0][b] = rows[b] /\ rows[b] \in Nat
        /\ \A e \in Days : e # e0 => counted'[e] = counted[e] /\ before'[e] = before[e]
        /\ before'[e0] = seen
        /\ \A b \in Stays :
             link'[b] = IF rows[b] > 0 /\ link[b] = Nil THEN e0 ELSE link[b]
    BY <1>8, <2>1 DEF CreateBatch, PayoutsTypeOK, Amounts
  <2>4. \A h \in Generators : generate'[h].kind = "read" => generate'[h] = generate[h]
    BY <1>8 DEF CreateBatch, Free, PayoutsTypeOK
  <2>5. /\ \A e \in seen : Referenced(e) /\ e # e0
        /\ \A e \in seen, b \in Stays : rows[b] > 0 => counted[e][b] = 0
    BY <1>8, <2>1, <2>2 DEF CountInv, CreateBatch
  <2>6. /\ \A b \in Stays : counted[e0][b] = 0
        /\ \A b \in Stays : link[b] # Nil => link[b] \in Days /\ link[b] # e0
    BY <2>2, <1>2 DEF CountInv, PayoutsTypeOK
  <2>7. \A e \in Days, b \in Stays : ~Referenced(e)' => counted'[e][b] = 0
    BY <1>1, <2>2, <2>3 DEF CountInv
  <2>8. \A h \in Generators : generate'[h].kind = "read" =>
          \A e \in generate'[h].seen :
            /\ Referenced(e)'
            /\ \A b \in Stays : generate'[h].rows[b] > 0 => counted'[e][b] = 0
    BY <1>1, <1>2, <2>2, <2>3, <2>4 DEF CountInv
  <2>9. \A e \in Days : \A f \in before'[e] : Referenced(f)'
    BY <1>1, <1>2, <2>3, <2>5 DEF CountInv
  <2>10. \A e \in Days, b \in Stays : counted'[e][b] > 0 => link'[b] # Nil
    BY <2>3, NilDays DEF CountInv
  <2>11. \A b \in Stays : link'[b] # Nil => counted'[link'[b]][b] > 0
    BY <2>3, <2>6 DEF CountInv
  <2>12. CountedTwiceOnlyIfConcurrent'
    <3> SUFFICES ASSUME NEW e \in Days, NEW f \in Days, NEW b \in Stays,
                        e # f, counted'[e][b] > 0, counted'[f][b] > 0
                 PROVE  e \notin before'[f]
      BY DEF CountedTwiceOnlyIfConcurrent
    <3>1. CASE e = e0
      BY <2>2, <2>3, <3>1 DEF CountInv
    <3>2. CASE f = e0
      BY <2>3, <2>5, <3>2
    <3>3. CASE e # e0 /\ f # e0
      BY <2>3, <3>3 DEF CountInv, CountedTwiceOnlyIfConcurrent
    <3> QED
      BY <3>1, <3>2, <3>3
  <2> QED
    BY <2>7, <2>8, <2>9, <2>10, <2>11, <2>12 DEF CountInv
<1> QED
  BY <1>4, <1>5, <1>6, <1>7, <1>8, Zenon DEF PayoutsNext

LEMMA CountInvariant == PayoutsSpec => []CountInv
<1>1. PayoutsInit => CountInv
  BY DEF PayoutsInit, CountInv, CountedTwiceOnlyIfConcurrent, Free
<1> QED
  BY <1>1, PayoutsTypeCorrect, CountNext, PTL DEF PayoutsSpec

\* A booking that some item counts is linked to an item that counts it.
THEOREM CountedAreLinked == PayoutsSpec => []CountedIsLinked
<1>1. CountInv => CountedIsLinked
  BY DEF CountInv, CountedIsLinked
<1> QED
  BY <1>1, CountInvariant, PTL

\* Only generations that overlap each other count a booking twice: whoever reads after a
\* batch was created leaves its bookings out.
THEOREM CountedTwiceIfConcurrent == PayoutsSpec => []CountedTwiceOnlyIfConcurrent
<1>1. CountInv => CountedTwiceOnlyIfConcurrent
  BY DEF CountInv
<1> QED
  BY <1>1, CountInvariant, PTL

-----------------------------------------------------------------------------
\* What is paid.

\* No request is about a batch that does not exist, and a release of a batch has all of
\* its pending items still before it.
ItemInv ==
  /\ \A e \in Days, p \in Properties :
       ~Referenced(e) => item[e][p] = "absent" /\ posted[e][p] = 0
  /\ \A c \in Clerks :
       /\ clerk[c].kind \in {"batch", "hold", "one"} => Referenced(clerk[c].end)
       /\ clerk[c].kind = "batch" => Pending(clerk[c].end) \subseteq clerk[c].todo
  /\ PaidMatchesStatus
  /\ ReleasedBatchSettled

\* What a write of an item may do.
Written(e, p) ==
  /\ item'[e][p] \in {"on_hold", "released", "failed"}
  /\ \A f \in Days, q \in Properties :
       <<f, q>> # <<e, p>> => item'[f][q] = item[f][q] /\ posted'[f][q] = posted[f][q]
  /\ item'[e][p] = "released" => posted'[e][p] > 0

LEMMA ReleaseWritten ==
  ASSUME PayoutsTypeOK, NEW e \in Days, NEW p \in Properties, ReleaseInternal(e, p)
  PROVE  Written(e, p)
<1>1. /\ item \in [Days -> [Properties -> ItemStatus]]
      /\ posted \in [Days -> [Properties -> 0 .. MaxPosts]]
  BY DEF PayoutsTypeOK
<1>2. CASE item' = [item EXCEPT ![e][p] = "failed"] /\ UNCHANGED posted
  BY <1>1, <1>2 DEF Written
<1>3. CASE /\ item' = [item EXCEPT ![e][p] = "released"]
           /\ posted' = [posted EXCEPT ![e][p] = @ + 1]
  <2>1. posted[e][p] \in Nat /\ posted'[e][p] = posted[e][p] + 1
    BY <1>1, <1>3
  <2>2. \A f \in Days, q \in Properties :
          <<f, q>> # <<e, p>> => item'[f][q] = item[f][q] /\ posted'[f][q] = posted[f][q]
    BY <1>1, <1>3
  <2>3. item'[e][p] = "released"
    BY <1>1, <1>3
  <2> QED
    BY <2>1, <2>2, <2>3 DEF Written
<1> QED
  BY <1>2, <1>3 DEF ReleaseInternal

\* A write of an item of an existing batch keeps what holds of items and batches.
LEMMA WrittenKeeps ==
  ASSUME PayoutsTypeOK, ItemInv, NEW e \in Days, NEW p \in Properties, Referenced(e),
         Written(e, p), batch' = batch
  PROVE  /\ \A f \in Days, q \in Properties :
              ~Referenced(f)' => item'[f][q] = "absent" /\ posted'[f][q] = 0
         /\ PaidMatchesStatus' /\ ReleasedBatchSettled'
         /\ \A f \in Days : Pending(f)' \subseteq Pending(f)
         /\ p \notin Pending(e)'
<1>1. \A f \in Days, q \in Properties :
        (item'[f][q] = item[f][q] /\ posted'[f][q] = posted[f][q]) \/ (f = e /\ q = p)
  BY DEF Written
<1>2. \A f \in Days : Pending(f)' \subseteq Pending(f)
  BY <1>1 DEF Pending, Written
<1>3. PaidMatchesStatus'
  BY <1>1 DEF ItemInv, PaidMatchesStatus, Written
<1>4. ReleasedBatchSettled'
  BY <1>2 DEF ItemInv, ReleasedBatchSettled
<1>5. \A f \in Days, q \in Properties :
        ~Referenced(f)' => item'[f][q] = "absent" /\ posted'[f][q] = 0
  BY <1>1 DEF ItemInv, Referenced
<1> QED
  BY <1>2, <1>3, <1>4, <1>5 DEF Written, Pending

\* A request's first look, and its end before it has written anything.
LEMMA ClerkReadNext ==
  ASSUME PayoutsTypeOK, ItemInv, UNCHANGED <<batch, item, posted>>,
         NEW c \in Clerks, NEW r, clerk' = [clerk EXCEPT ![c] = r],
         r.kind \in {"batch", "hold", "one"} => Referenced(r.end),
         r.kind = "batch" => Pending(r.end) \subseteq r.todo
  PROVE  ItemInv'
<1>1. \A d \in Clerks : clerk'[d] = IF d = c THEN r ELSE clerk[d]
  BY DEF PayoutsTypeOK
<1>2. PaidMatchesStatus' /\ ReleasedBatchSettled'
  BY DEF ItemInv, PaidMatchesStatus, ReleasedBatchSettled, Pending
<1> QED
  BY <1>1, <1>2 DEF ItemInv, Referenced, Pending

LEMMA BatchRecord ==
  ASSUME NEW end, NEW todo, NEW paid, NEW skipped
  PROVE  LET r == [kind |-> "batch", end |-> end, todo |-> todo, paid |-> paid,
                   skipped |-> skipped]
         IN  r.kind = "batch" /\ r.end = end /\ r.todo = todo
OBVIOUS

LEMMA ItemNext ==
  ASSUME PayoutsTypeOK, ItemInv, [PayoutsNext]_payoutsVars
  PROVE  ItemInv'
<1>1. CASE UNCHANGED <<batch, item, posted, clerk>>
  BY <1>1 DEF ItemInv, PaidMatchesStatus, ReleasedBatchSettled, Referenced, Pending
<1>2. ASSUME \/ \E b \in Stays : Complete(b) \/ Refund(b)
             \/ \E g \in Generators :
                  (\E start, end \in Days : GenerateRead(g, start, end)) \/ GenerateFail(g)
             \/ UNCHANGED payoutsVars
      PROVE  UNCHANGED <<batch, item, posted, clerk>>
  BY <1>2, Zenon DEF Complete, Refund, GenerateRead, GenerateFail, payoutsVars
<1>3. ASSUME NEW g \in Generators, CreateBatch(g) PROVE ItemInv'
  <2>1. PICK e0 \in Days : e0 = generate[g].end
    BY <1>3, GenerationFields DEF CreateBatch
  <2>2. /\ ~Referenced(e0) /\ batch'[e0] = "pending"
        /\ \A e \in Days : e # e0 => batch'[e] = batch[e] /\ item'[e] = item[e]
        /\ \A p \in Properties : item'[e0][p] \in {"absent", "pending"}
        /\ posted' = posted /\ clerk' = clerk
    BY <1>3, <2>1 DEF CreateBatch, PayoutsTypeOK
  <2>3. \A p \in Properties : posted'[e0][p] = 0
    BY <2>2 DEF ItemInv
  <2>4. \A e \in Days : e # e0 => Pending(e)' = Pending(e)
    BY <2>2 DEF Pending
  <2>5. \A c \in Clerks : clerk[c].kind \in {"batch", "hold", "one"} =>
          clerk[c].end \in Days /\ clerk[c].end # e0
    BY <2>2, RequestFields DEF ItemInv
  <2>6. PaidMatchesStatus'
    BY <2>2, <2>3 DEF ItemInv, PaidMatchesStatus
  <2>7. ReleasedBatchSettled'
    BY <2>2, <2>4 DEF ItemInv, ReleasedBatchSettled
  <2>8. \A e \in Days, p \in Properties :
          ~Referenced(e)' => item'[e][p] = "absent" /\ posted'[e][p] = 0
    BY <2>2 DEF ItemInv, Referenced
  <2>9. \A c \in Clerks :
          /\ clerk'[c].kind \in {"batch", "hold", "one"} => Referenced(clerk[c].end)'
          /\ clerk'[c].kind = "batch" => Pending(clerk[c].end)' \subseteq clerk'[c].todo
    BY <2>2, <2>4, <2>5 DEF ItemInv, Referenced, Pending
  <2> QED
    BY <2>6, <2>7, <2>8, <2>9 DEF ItemInv
<1>4. ASSUME NEW c \in Clerks, NEW e \in Days, ReleaseBatchRead(c, e) PROVE ItemInv'
  <2> DEFINE r == [kind |-> "batch", end |-> e, todo |-> Pending(e), paid |-> FALSE,
                   skipped |-> Skipped(e) # {}]
  <2>1. r.kind = "batch" /\ r.end = e /\ r.todo = Pending(e)
    BY BatchRecord, Zenon
  <2>2. UNCHANGED <<batch, item, posted>> /\ clerk' = [clerk EXCEPT ![c] = r]
    BY <1>4, Zenon DEF ReleaseBatchRead
  <2>3. Referenced(e)
    BY <1>4, Zenon DEF ReleaseBatchRead, Referenced
  <2> HIDE DEF r
  <2> QED
    BY <2>1, <2>2, <2>3, ClerkReadNext
<1>5. ASSUME NEW c \in Clerks, NEW e \in Days, NEW p \in Properties,
             HoldRead(c, e, p) \/ ReleaseItemRead(c, e, p)
      PROVE  ItemInv'
  <2>1. Referenced(e)
    BY <1>5 DEF HoldRead, ReleaseItemRead, ItemInv
  <2> QED
    BY <1>5, <2>1, ClerkReadNext DEF HoldRead, ReleaseItemRead
<1>6. ASSUME NEW c \in Clerks, RequestStop(c) PROVE ItemInv'
  BY <1>6, ClerkReadNext DEF RequestStop, Free
<1>7. ASSUME NEW c \in Clerks, NEW e \in Days, NEW p \in Properties, Written(e, p),
             e = clerk[c].end, clerk[c].kind \in {"batch", "hold", "one"}, batch' = batch,
             \A d \in Clerks : d # c => clerk'[d] = clerk[d],
             clerk'[c].kind = "batch" =>
               /\ clerk[c].kind = "batch" /\ clerk'[c].end = e
               /\ clerk'[c].todo = clerk[c].todo \ {p},
             clerk'[c].kind \in {"batch", "free"}
      PROVE  ItemInv'
  <2>1. Referenced(e)
    BY <1>7 DEF ItemInv
  <2>2. /\ \A f \in Days, q \in Properties :
             ~Referenced(f)' => item'[f][q] = "absent" /\ posted'[f][q] = 0
        /\ PaidMatchesStatus' /\ ReleasedBatchSettled'
        /\ \A f \in Days : Pending(f)' \subseteq Pending(f)
        /\ p \notin Pending(e)'
    BY <1>7, <2>1, WrittenKeeps
  <2>3. \A f \in Days : Referenced(f)' <=> Referenced(f)
    BY <1>7 DEF Referenced
  <2>4. ASSUME NEW d \in Clerks
        PROVE  /\ clerk'[d].kind \in {"batch", "hold", "one"} => Referenced(clerk[d].end)'
               /\ clerk'[d].kind = "batch" => Pending(clerk[d].end)' \subseteq clerk'[d].todo
    <3>1. CASE d = c
      <4>1. CASE clerk'[c].kind = "batch"
        <5>1. Pending(e) \subseteq clerk[c].todo
          BY <1>7, <4>1 DEF ItemInv
        <5>2. Pending(e)' \subseteq clerk'[c].todo /\ Referenced(e)'
          BY <1>7, <2>1, <2>2, <2>3, <4>1, <5>1
        <5> QED
          BY <1>7, <3>1, <4>1, <5>2 DEF Pending, Referenced
      <4> QED
        BY <1>7, <3>1, <4>1
    <3>2. CASE d # c
      <4>1. clerk'[d] = clerk[d]
        BY <1>7, <3>2
      <4>2. clerk[d].kind \in {"batch", "hold", "one"} =>
              clerk[d].end \in Days /\ Referenced(clerk[d].end)
        BY RequestFields DEF ItemInv
      <4>3. clerk[d].kind = "batch" => Pending(clerk[d].end) \subseteq clerk[d].todo
        BY DEF ItemInv
      <4> QED
        BY <1>7, <2>2, <4>1, <4>2, <4>3 DEF Pending, Referenced
    <3> QED
      BY <3>1, <3>2
  <2> QED
    BY <2>2, <2>4 DEF ItemInv
<1>8. ASSUME NEW c \in Clerks, NEW p \in Properties, ReleaseBatchItem(c, p) PROVE ItemInv'
  <2>1. clerk[c].end \in Days /\ clerk[c].kind = "batch" /\ batch' = batch
    BY <1>8, RequestFields DEF ReleaseBatchItem
  <2>2. Written(clerk[c].end, p)
    BY <1>8, <2>1, ReleaseWritten DEF ReleaseBatchItem
  <2>3. clerk[c] \in BatchRequest
    BY <2>1 DEF PayoutsTypeOK, Request, BatchRequest, Free
  <2> DEFINE q == [[clerk[c] EXCEPT !.todo = clerk[c].todo \ {p}] EXCEPT !.paid = TRUE]
  <2>4. clerk' = [clerk EXCEPT ![c] = q]
    BY <1>8 DEF ReleaseBatchItem, PayoutsTypeOK
  <2>5. q.end = clerk[c].end /\ q.todo = clerk[c].todo \ {p} /\ q \in BatchRequest
    BY <2>3, LoopRecord, Zenon
  <2> HIDE DEF q
  <2>6. q.kind = "batch"
    BY <2>5 DEF BatchRequest
  <2>7. clerk'[c] = q /\ \A d \in Clerks : d # c => clerk'[d] = clerk[d]
    BY <2>4 DEF PayoutsTypeOK
  <2> QED
    BY <1>7, <2>1, <2>2, <2>5, <2>6, <2>7
<1>9. ASSUME NEW c \in Clerks, HoldWrite(c) PROVE ItemInv'
  <2>1. /\ clerk[c].end \in Days /\ clerk[c].property \in Properties
        /\ clerk[c].kind = "hold" /\ batch' = batch
    BY <1>9, RequestFields DEF HoldWrite
  <2>2. Written(clerk[c].end, clerk[c].property)
    BY <1>9, <2>1 DEF HoldWrite, Written, PayoutsTypeOK
  <2>3. clerk'[c].kind = "free" /\ \A d \in Clerks : d # c => clerk'[d] = clerk[d]
    BY <1>9 DEF HoldWrite, Free, PayoutsTypeOK
  <2> QED
    BY <1>7, <2>1, <2>2, <2>3
<1>10. ASSUME NEW c \in Clerks, ReleaseItemWrite(c) PROVE ItemInv'
  <2>1. /\ clerk[c].end \in Days /\ clerk[c].property \in Properties
        /\ clerk[c].kind = "one" /\ batch' = batch
    BY <1>10, RequestFields DEF ReleaseItemWrite
  <2>2. Written(clerk[c].end, clerk[c].property)
    BY <1>10, <2>1, ReleaseWritten DEF ReleaseItemWrite
  <2>3. clerk'[c].kind = "free" /\ \A d \in Clerks : d # c => clerk'[d] = clerk[d]
    BY <1>10 DEF ReleaseItemWrite, Free, PayoutsTypeOK
  <2> QED
    BY <1>7, <2>1, <2>2, <2>3
<1>11. ASSUME NEW c \in Clerks, ReleaseBatchEnd(c) PROVE ItemInv'
  <2>1. PICK e0 \in Days : e0 = clerk[c].end
    BY <1>11, RequestFields DEF ReleaseBatchEnd
  <2>2. /\ clerk[c].kind = "batch" /\ clerk[c].todo = {}
        /\ item' = item /\ posted' = posted
        /\ \A e \in Days : e # e0 => batch'[e] = batch[e]
        /\ batch'[e0] # "absent"
    BY <1>11, <2>1 DEF ReleaseBatchEnd, PayoutsTypeOK
  <2>3. Pending(e0) = {} /\ Referenced(e0)
    BY <2>1, <2>2 DEF ItemInv
  <2>4. \A d \in Clerks : clerk'[d].kind # "free" => clerk'[d] = clerk[d]
    BY <1>11 DEF ReleaseBatchEnd, Free, PayoutsTypeOK
  <2>5. \A f \in Days : Pending(f)' = Pending(f)
    BY <2>2 DEF Pending
  <2>6. PaidMatchesStatus'
    BY <2>2 DEF ItemInv, PaidMatchesStatus
  <2>7. ReleasedBatchSettled'
    BY <2>2, <2>3, <2>5 DEF ItemInv, ReleasedBatchSettled
  <2>8. \A e \in Days, p \in Properties :
          ~Referenced(e)' => item'[e][p] = "absent" /\ posted'[e][p] = 0
    BY <2>2 DEF ItemInv, Referenced
  <2>9. \A d \in Clerks :
          /\ clerk'[d].kind \in {"batch", "hold", "one"} => Referenced(clerk[d].end)'
          /\ clerk'[d].kind = "batch" => Pending(clerk[d].end)' \subseteq clerk'[d].todo
    <3> SUFFICES ASSUME NEW d \in Clerks, clerk'[d].kind \in {"batch", "hold", "one"}
                 PROVE  /\ Referenced(clerk[d].end)'
                        /\ clerk'[d].kind = "batch" =>
                             Pending(clerk[d].end)' \subseteq clerk'[d].todo
      OBVIOUS
    <3>1. clerk'[d] = clerk[d] /\ clerk[d].end \in Days
      BY <2>4, RequestFields
    <3>2. /\ Referenced(clerk[d].end)
          /\ clerk[d].kind = "batch" => Pending(clerk[d].end) \subseteq clerk[d].todo
      BY <3>1 DEF ItemInv
    <3> QED
      BY <2>2, <3>1, <3>2 DEF Referenced, Pending
  <2> QED
    BY <2>6, <2>7, <2>8, <2>9 DEF ItemInv
<1> QED
  BY <1>1, <1>2, <1>3, <1>4, <1>5, <1>6, <1>8, <1>9, <1>10, <1>11, Zenon DEF PayoutsNext

LEMMA ItemInvariant == PayoutsSpec => []ItemInv
<1>1. PayoutsInit => ItemInv
  BY DEF PayoutsInit, ItemInv, PaidMatchesStatus, ReleasedBatchSettled, Pending, Free
<1> QED
  BY <1>1, PayoutsTypeCorrect, ItemNext, PTL DEF PayoutsSpec

\* A released item is in the ledger and a pending one is not, whatever holds and releases
\* race each other.
THEOREM PaidMatches == PayoutsSpec => []PaidMatchesStatus
<1>1. ItemInv => PaidMatchesStatus
  BY DEF ItemInv
<1> QED
  BY <1>1, ItemInvariant, PTL

\* A batch that is released for good has no item left that waits to be paid.
THEOREM ReleasedBatchesSettled == PayoutsSpec => []ReleasedBatchSettled
<1>1. ItemInv => ReleasedBatchSettled
  BY DEF ItemInv
<1> QED
  BY <1>1, ItemInvariant, PTL
=============================================================================
