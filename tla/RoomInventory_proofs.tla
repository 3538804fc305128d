------------------------ MODULE RoomInventory_proofs ------------------------
(***************************************************************************)
(* No room is sold twice: proofs about RoomInventory for any bookings,     *)
(* room counts, stays and extensions.                                      *)
(***************************************************************************)
EXTENDS RoomInventory, FiniteSetTheorems, TLAPS

\* A request to insert b is in flight only while b is absent; it asks for a stay
\* that is not empty and was told a count the room type has had.
RequestsSane ==
  /\ rooms <= peak
  /\ \A b \in Bookings :
       create[b] # Idle =>
         /\ status[b] = "absent"
         /\ create[b].in < create[b].out
         /\ create[b].count <= peak

\* An extension in flight is of a booking that exists, and ends no earlier than
\* the stay that was sold.
ExtensionsSane ==
  \A a \in Admins :
    extend[a] # Idle =>
      /\ status[extend[a].id] # "absent"
      /\ extend[a].until >= stay[extend[a].id].sold

\* The bookings whose sold interval meets [in, out).
SoldIn(in, out) ==
  {c \in Bookings :
     status[c] \in ACTIVE_STATUSES /\ stay[c].in < out /\ stay[c].sold > in}

\* A transaction that can still commit has counted every sale that it competes
\* with, and found a room.
CountCovers ==
  \A b \in Bookings :
    create[b].stage = "counted" =>
      /\ Cardinality(create[b].seen) < create[b].count
      /\ ~create[b].dirty => SoldIn(create[b].in, create[b].out) \subseteq create[b].seen

IInv ==
  /\ TypeOK
  /\ SoldStayKept
  /\ RequestsSane
  /\ ExtensionsSane
  /\ CountCovers
  /\ NoDoubleSale

\* A step that sells nothing: whoever holds a room afterwards held it before, for
\* the same stay.
NoNewSale ==
  \A c \in Bookings :
    status'[c] \in ACTIVE_STATUSES =>
      /\ status[c] \in ACTIVE_STATUSES
      /\ stay'[c].in = stay[c].in
      /\ stay'[c].sold = stay[c].sold

-----------------------------------------------------------------------------
\* Facts about the operators.

\* Every set of bookings is finite, so its cardinality is a natural number that
\* only grows with the set.
LEMMA BookingSets ==
  ASSUME NEW S \in SUBSET Bookings, NEW T \in SUBSET S
  PROVE  /\ IsFiniteSet(S)
         /\ Cardinality(S) \in Nat
         /\ Cardinality(T) <= Cardinality(S)
<1>1. IsFiniteSet(S)
  BY BookingsAssumption, FS_Subset
<1>2. Cardinality(S) \in Nat
  BY <1>1, FS_CardinalityType
<1>3. Cardinality(T) <= Cardinality(S)
  BY <1>1, FS_Subset
<1> QED
  BY <1>1, <1>2, <1>3

\* The initial state satisfies the invariant: nothing is sold.
LEMMA InvInit == Init => IInv
<1> SUFFICES ASSUME Init
             PROVE  IInv
  OBVIOUS
<1>1. TypeOK
  BY RoomsAssumption
     DEF Init, TypeOK, Idle, NoStay, Stay, Slots, StatusMachine!Status
<1>2. SoldStayKept /\ RequestsSane /\ ExtensionsSane /\ CountCovers
  BY <1>1, RoomsAssumption
     DEF Init, TypeOK, SoldStayKept, RequestsSane, ExtensionsSane, CountCovers, Idle, NoStay
<1>3. NoDoubleSale
  <2> SUFFICES ASSUME NEW t \in Slots
               PROVE  Cardinality(SoldAt(t)) <= peak
    BY DEF NoDoubleSale
  <2>1. SoldAt(t) = {}
    BY DEF Init, SoldAt, ACTIVE_STATUSES
  <2>2. peak \in Nat
    BY <1>1, RoomsAssumption DEF TypeOK
  <2> QED
    BY <2>1, <2>2, FS_EmptySet
<1> QED
  BY <1>1, <1>2, <1>3 DEF IInv

\* A move leaves alone the bookings that do not exist, and makes none active that
\* was not.
LEMMA MoveFacts ==
  ASSUME TypeOK, NEW b \in Bookings, Move(b)
  PROVE  /\ status' \in [Bookings -> StatusMachine!Status]
         /\ \A c \in Bookings : c # b => status'[c] = status[c]
         /\ status[b] # "absent"
         /\ status'[b] # "absent"
         /\ status'[b] \in ACTIVE_STATUSES => status[b] \in ACTIVE_STATUSES
<1>1. PICK s \in StatusMachine!Status :
        /\ <<status[b], s>> \in StatusMachine!Moves
        /\ status' = [status EXCEPT ![b] = s]
  BY DEF Move, StatusMachine!Move
<1>2. s # "absent" /\ (s \in ACTIVE_STATUSES => status[b] \in ACTIVE_STATUSES)
  BY <1>1 DEF Move, StatusMachine!Moves, ACTIVE_STATUSES
<1> QED
  BY <1>1, <1>2 DEF TypeOK, Move

-----------------------------------------------------------------------------
\* Each conjunct is preserved by every step.

LEMMA TypeStep == IInv /\ [Next]_vars => TypeOK'
<1> SUFFICES ASSUME TypeOK, RequestsSane, [Next]_vars
             PROVE  TypeOK'
  BY DEF IInv
<1> USE DEF TypeOK
<1>1. ASSUME NEW b \in Bookings, NEW in \in Slots, NEW length \in StayLengths,
             CreateRead(b, in, length)
      PROVE  TypeOK'
  <2>1. in + length \in Slots
    BY <1>1, RoomsAssumption DEF CreateRead, Slots
  <2>2. create' \in [Bookings -> CreateRequest \cup {Idle}]
    BY <1>1, <2>1 DEF CreateRead, CreateRequest
  <2> QED
    BY <1>1, <2>2 DEF CreateRead
<1>2. ASSUME NEW b \in Bookings, CreateCount(b)
      PROVE  TypeOK'
  <2>1. create[b] \in CreateRequest
    BY <1>2 DEF CreateCount, Idle
  <2>2. Overlapping(create[b].in, create[b].out) \in SUBSET Bookings
    BY DEF Overlapping
  <2>3. create' \in [Bookings -> CreateRequest \cup {Idle}]
    BY <1>2, <2>1, <2>2 DEF CreateCount, CreateRequest
  <2> QED
    BY <1>2, <2>3 DEF CreateCount
<1>3. ASSUME NEW b \in Bookings, CreateCommit(b)
      PROVE  TypeOK'
  <2>1. create[b] \in CreateRequest /\ create[b].in < create[b].out
    BY <1>3 DEF CreateCommit, Idle, RequestsSane
  <2>2. create' \in [Bookings -> CreateRequest \cup {Idle}]
    BY <1>3, <2>1 DEF CreateCommit, CreateRequest, Idle
  <2>3. /\ stay' \in [Bookings -> Stay]
        /\ status' \in [Bookings -> StatusMachine!Status]
        /\ \A c \in Bookings : status'[c] # "absent" => stay'[c].in < stay'[c].sold
    BY <1>3, <2>1
       DEF CreateCommit, CreateRequest, Stay, StatusMachine!Status, StatusMachine!Active
  <2> QED
    BY <1>3, <2>2, <2>3 DEF CreateCommit
<1>4. ASSUME NEW b \in Bookings, CreateAbort(b)
      PROVE  TypeOK'
  BY <1>4 DEF CreateAbort
<1>5. ASSUME NEW b \in Bookings, Move(b)
      PROVE  TypeOK'
  BY <1>5, MoveFacts DEF Move
<1>6. ASSUME NEW a \in Admins, NEW b \in Bookings, NEW until \in Slots,
             ExtendRead(a, b, until)
      PROVE  TypeOK'
  BY <1>6 DEF ExtendRead, ExtendRequest, Stay
<1>11. ASSUME NEW a \in Admins, ExtendCheck(a)
       PROVE  TypeOK'
  <2>1. extend[a] \in ExtendRequest
    BY <1>11 DEF ExtendCheck, Idle
  <2>2. [extend[a] EXCEPT !.stage = "checked"] \in ExtendRequest
    BY <2>1 DEF ExtendRequest
  <2> QED
    BY <1>11, <2>2 DEF ExtendCheck
<1>7. ASSUME NEW a \in Admins, ExtendWrite(a)
      PROVE  TypeOK'
  <2>1. extend[a] \in ExtendRequest
    BY <1>7 DEF ExtendWrite, Idle
  <2>2. /\ stay' \in [Bookings -> Stay]
        /\ \A c \in Bookings : stay'[c].in = stay[c].in /\ stay'[c].sold = stay[c].sold
    BY <1>7, <2>1 DEF ExtendWrite, ExtendRequest, Stay
  <2> QED
    BY <1>7, <2>2 DEF ExtendWrite
<1>8. ASSUME NEW a \in Admins, ExtendAbort(a)
      PROVE  TypeOK'
  BY <1>8 DEF ExtendAbort
<1>9. ASSUME NEW n \in RoomCounts, UpdateRoom(n)
      PROVE  TypeOK'
  BY <1>9 DEF UpdateRoom
<1>10. CASE UNCHANGED vars
  BY <1>10 DEF vars
<1> QED
  BY <1>1, <1>2, <1>3, <1>4, <1>5, <1>6, <1>7, <1>8, <1>9, <1>10, <1>11 DEF Next

LEMMA RequestsStep == IInv /\ [Next]_vars => RequestsSane'
<1> SUFFICES ASSUME TypeOK, RequestsSane, [Next]_vars
             PROVE  RequestsSane'
  BY DEF IInv
<1> USE RoomsAssumption DEF TypeOK, RequestsSane
<1>1. ASSUME NEW b \in Bookings, NEW in \in Slots, NEW length \in StayLengths,
             CreateRead(b, in, length)
      PROVE  RequestsSane'
  <2>1. in < in + length
    BY DEF Slots
  <2> QED
    BY <1>1, <2>1 DEF CreateRead
<1>2. ASSUME NEW b \in Bookings, CreateCount(b)
      PROVE  RequestsSane'
  <2>1. create[b] \in CreateRequest
    BY <1>2 DEF CreateCount, Idle
  <2>2. \A c \in Bookings :
          create'[c] # Idle =>
            /\ create[c] # Idle
            /\ create'[c].in = create[c].in
            /\ create'[c].out = create[c].out
            /\ create'[c].count = create[c].count
    BY <1>2, <2>1 DEF CreateCount, CreateRequest, Idle
  <2> QED
    BY <1>2, <2>2 DEF CreateCount
<1>3. ASSUME NEW b \in Bookings, CreateCommit(b)
      PROVE  RequestsSane'
  <2>1. \A c \in Bookings :
          create'[c] # Idle =>
            /\ create[c] # Idle
            /\ c # b
            /\ create'[c].in = create[c].in
            /\ create'[c].out = create[c].out
            /\ create'[c].count = create[c].count
    <3> SUFFICES ASSUME NEW c \in Bookings, create'[c] # Idle
                 PROVE  /\ create[c] # Idle
                        /\ c # b
                        /\ create'[c].in = create[c].in
                        /\ create'[c].out = create[c].out
                        /\ create'[c].count = create[c].count
      OBVIOUS
    <3>1. c # b /\ create'[c] \in {create[c], [create[c] EXCEPT !.dirty = TRUE]}
      BY <1>3 DEF CreateCommit
    <3>2. create[c] # Idle
      BY <1>3, <3>1 DEF CreateCommit, Idle
    <3> QED
      BY <3>1, <3>2 DEF CreateRequest
  <2> QED
    BY <1>3, <2>1 DEF CreateCommit
<1>4. ASSUME NEW b \in Bookings, CreateAbort(b)
      PROVE  RequestsSane'
  BY <1>4 DEF CreateAbort
<1>5. ASSUME NEW b \in Bookings, Move(b)
      PROVE  RequestsSane'
  BY <1>5, MoveFacts DEF Move
<1>6. ASSUME NEW a \in Admins, ExtendWrite(a)
      PROVE  RequestsSane'
  BY <1>6 DEF ExtendWrite
<1>7. ASSUME NEW n \in RoomCounts, UpdateRoom(n)
      PROVE  RequestsSane'
  <2>1. peak \in Nat /\ rooms \in Nat /\ n \in Nat
    OBVIOUS
  <2>2. \A b \in Bookings : create[b] # Idle => create[b].count \in Nat
    BY DEF CreateRequest
  <2>3. rooms' <= peak' /\ peak <= peak' /\ peak' \in Nat
    BY <1>7, <2>1 DEF UpdateRoom
  <2> QED
    BY <1>7, <2>1, <2>2, <2>3 DEF UpdateRoom
<1>8. CASE UNCHANGED vars
  BY <1>8 DEF vars
<1>9. ASSUME NEW a \in Admins, NEW b \in Bookings, NEW until \in Slots,
             ExtendRead(a, b, until)
      PROVE  RequestsSane'
  BY <1>9 DEF ExtendRead
<1>10. ASSUME NEW a \in Admins, ExtendAbort(a) \/ ExtendCheck(a)
       PROVE  RequestsSane'
  BY <1>10 DEF ExtendAbort, ExtendCheck
<1> QED
  BY <1>1, <1>2, <1>3, <1>4, <1>5, <1>6, <1>7, <1>8, <1>9, <1>10 DEF Next

\* A stay is only ever lengthened beyond what was sold, also by an extension that
\* was checked against an older check-out time.
LEMMA StayStep == IInv /\ [Next]_vars => SoldStayKept' /\ ExtensionsSane'
<1> SUFFICES ASSUME TypeOK, SoldStayKept, RequestsSane, ExtensionsSane, [Next]_vars
             PROVE  SoldStayKept' /\ ExtensionsSane'
  BY DEF IInv
<1> USE DEF TypeOK, SoldStayKept, ExtensionsSane
<1>1. ASSUME NEW b \in Bookings, CreateCommit(b)
      PROVE  SoldStayKept' /\ ExtensionsSane'
  <2>1. create[b] \in CreateRequest /\ status[b] = "absent"
    BY <1>1 DEF CreateCommit, RequestsSane, Idle
  <2>2. SoldStayKept'
    BY <1>1, <2>1 DEF CreateCommit, CreateRequest, Slots
  <2>3. \A a \in Admins : extend[a] # Idle => extend[a].id # b
    BY <2>1
  <2>4. \A a \in Admins : extend[a] # Idle => extend[a].id \in Bookings
    BY DEF ExtendRequest
  <2>5. ExtensionsSane'
    BY <1>1, <2>3, <2>4 DEF CreateCommit
  <2> QED
    BY <2>2, <2>5
<1>2. ASSUME NEW b \in Bookings, Move(b)
      PROVE  SoldStayKept' /\ ExtensionsSane'
  <2>1. \A a \in Admins : extend[a] # Idle => extend[a].id \in Bookings
    BY DEF ExtendRequest
  <2> QED
    BY <1>2, <2>1, MoveFacts DEF Move
<1>3. ASSUME NEW a \in Admins, NEW b \in Bookings, NEW until \in Slots,
             ExtendRead(a, b, until)
      PROVE  SoldStayKept' /\ ExtensionsSane'
  <2>1. until >= stay[b].sold
    BY <1>3 DEF ExtendRead, Stay, Slots
  <2> QED
    BY <1>3, <2>1 DEF ExtendRead, ExtendRequest
<1>4. ASSUME NEW a \in Admins, ExtendWrite(a)
      PROVE  SoldStayKept' /\ ExtensionsSane'
  <2>1. extend[a] \in ExtendRequest /\ extend[a].until >= stay[extend[a].id].sold
    BY <1>4 DEF ExtendWrite, Idle
  <2>2. \A c \in Bookings :
          /\ stay'[c].sold = stay[c].sold
          /\ stay'[c].out \in {stay[c].out} \cup
               (IF c = extend[a].id THEN {extend[a].until} ELSE {})
    BY <1>4, <2>1 DEF ExtendWrite, ExtendRequest, Stay
  <2>3. \A d \in Admins : extend[d] # Idle => extend[d].id \in Bookings
    BY DEF ExtendRequest
  <2> QED
    BY <1>4, <2>1, <2>2, <2>3 DEF ExtendWrite
<1>5. ASSUME NEW a \in Admins, ExtendAbort(a)
      PROVE  SoldStayKept' /\ ExtensionsSane'
  BY <1>5 DEF ExtendAbort
<1>11. ASSUME NEW a \in Admins, ExtendCheck(a)
       PROVE  SoldStayKept' /\ ExtensionsSane'
  <2>1. extend[a] \in ExtendRequest /\ extend[a] # Idle
    BY <1>11 DEF ExtendCheck, Idle
  <2>2. /\ extend'[a] # Idle =>
             extend'[a].id = extend[a].id /\ extend'[a].until = extend[a].until
        /\ \A d \in Admins : d # a => extend'[d] = extend[d]
    BY <1>11, <2>1 DEF ExtendCheck, ExtendRequest
  <2> QED
    BY <1>11, <2>1, <2>2 DEF ExtendCheck
<1>6. CASE UNCHANGED <<status, stay, extend>>
  BY <1>6
<1>7. ASSUME NEW b \in Bookings, NEW in \in Slots, NEW length \in StayLengths,
             CreateRead(b, in, length)
      PROVE  UNCHANGED <<status, stay, extend>>
  BY <1>7 DEF CreateRead
<1>8. ASSUME NEW b \in Bookings, CreateCount(b) \/ CreateAbort(b)
      PROVE  UNCHANGED <<status, stay, extend>>
  BY <1>8 DEF CreateCount, CreateAbort
<1>9. ASSUME NEW n \in RoomCounts, UpdateRoom(n)
      PROVE  UNCHANGED <<status, stay, extend>>
  BY <1>9 DEF UpdateRoom
<1>10. CASE UNCHANGED vars
  BY <1>6, <1>10 DEF vars
<1> QED
  BY <1>1, <1>2, <1>3, <1>4, <1>5, <1>6, <1>7, <1>8, <1>9, <1>10, <1>11 DEF Next

-----------------------------------------------------------------------------
\* Every step but a commit sells nothing, and the peak never falls.
LEMMA OnlyCommitSells ==
  ASSUME IInv, [Next]_vars, \A b \in Bookings : ~CreateCommit(b)
  PROVE  NoNewSale /\ peak <= peak'
<1> USE RoomsAssumption DEF IInv, TypeOK
<1>1. ASSUME NEW b \in Bookings, NEW in \in Slots, NEW length \in StayLengths,
             CreateRead(b, in, length)
      PROVE  UNCHANGED <<status, stay, peak>>
  BY <1>1 DEF CreateRead
<1>2. ASSUME NEW b \in Bookings, CreateCount(b) \/ CreateAbort(b)
      PROVE  UNCHANGED <<status, stay, peak>>
  BY <1>2 DEF CreateCount, CreateAbort
<1>3. ASSUME NEW a \in Admins, NEW b \in Bookings, NEW until \in Slots,
             ExtendRead(a, b, until)
      PROVE  UNCHANGED <<status, stay, peak>>
  BY <1>3 DEF ExtendRead
<1>4. ASSUME NEW a \in Admins, ExtendAbort(a) \/ ExtendCheck(a)
      PROVE  UNCHANGED <<status, stay, peak>>
  BY <1>4 DEF ExtendAbort, ExtendCheck
<1>5. CASE UNCHANGED <<status, stay, peak>>
  BY <1>5 DEF NoNewSale
<1>6. ASSUME NEW b \in Bookings, Move(b)
      PROVE  NoNewSale /\ peak <= peak'
  <2>1. \A c \in Bookings :
          status'[c] \in ACTIVE_STATUSES => status[c] \in ACTIVE_STATUSES
    BY <1>6, MoveFacts
  <2> QED
    BY <1>6, <2>1 DEF Move, NoNewSale
<1>7. ASSUME NEW a \in Admins, ExtendWrite(a)
      PROVE  NoNewSale /\ peak <= peak'
  <2>1. extend[a] \in ExtendRequest
    BY <1>7 DEF ExtendWrite, Idle
  <2> QED
    BY <1>7, <2>1 DEF ExtendWrite, ExtendRequest, NoNewSale, Stay
<1>8. ASSUME NEW n \in RoomCounts, UpdateRoom(n)
      PROVE  NoNewSale /\ peak <= peak'
  BY <1>8 DEF UpdateRoom, NoNewSale
<1>9. CASE UNCHANGED vars
  BY <1>5, <1>9 DEF vars
<1> QED
  BY <1>1, <1>2, <1>3, <1>4, <1>5, <1>6, <1>7, <1>8, <1>9 DEF Next

\* A transaction that has counted keeps covering its competitors: sales that end
\* take from them, and a commit that adds one makes it dirty.
LEMMA CountStep == IInv /\ [Next]_vars => CountCovers'
<1> DEFINE Covered(b) ==
      /\ Cardinality(create'[b].seen) < create'[b].count
      /\ ~create'[b].dirty =>
           \A c \in Bookings :
             status'[c] \in ACTIVE_STATUSES /\ stay'[c].in < create'[b].out
               /\ stay'[c].sold > create'[b].in
             => c \in create'[b].seen
<1> SUFFICES ASSUME IInv, [Next]_vars,
                    NEW b \in Bookings, create'[b].stage = "counted"
             PROVE  Covered(b)
  BY DEF CountCovers, SoldIn
<1>1. CASE create'[b] = create[b] /\ \A c \in Bookings : ~CreateCommit(c)
  <2>1. NoNewSale
    BY <1>1, OnlyCommitSells
  <2> QED
    BY <1>1, <2>1 DEF IInv, CountCovers, SoldIn, NoNewSale
<1>2. CASE CreateCount(b)
  <2> DEFINE seen == Overlapping(create[b].in, create[b].out)
  <2>1. create[b] \in CreateRequest
    BY <1>2 DEF CreateCount, Idle, IInv, TypeOK
  <2>2. seen \in SUBSET Bookings
    BY DEF Overlapping
  <2>3. Cardinality(seen) \in Nat
    BY <2>2, BookingSets
  <2>4. create[b].count \in Nat
    BY <2>1, RoomsAssumption DEF CreateRequest
  <2>5. ~(Cardinality(seen) >= create[b].count)
    BY <1>2 DEF CreateCount, Idle, IInv, TypeOK
  <2>6. create'[b] = [create[b] EXCEPT !.stage = "counted", !.seen = seen]
    BY <1>2, <2>5 DEF CreateCount, IInv, TypeOK
  <2>7. /\ create'[b].seen = seen
        /\ create'[b].count = create[b].count
        /\ create'[b].in = create[b].in
        /\ create'[b].out = create[b].out
    BY <2>1, <2>6 DEF CreateRequest
  <2>8. \A c \in Bookings :
          status[c] \in ACTIVE_STATUSES /\ stay[c].in < create[b].out
            /\ stay[c].sold > create[b].in
          => c \in seen
    BY <2>1 DEF Overlapping, Overlaps, IInv, TypeOK, SoldStayKept, Stay, Slots, CreateRequest
  <2>9. UNCHANGED <<status, stay>>
    BY <1>2 DEF CreateCount
  <2> HIDE DEF seen
  <2> QED
    BY <2>3, <2>4, <2>5, <2>7, <2>8, <2>9
<1>3. ASSUME NEW d \in Bookings, CreateCommit(d)
      PROVE  Covered(b)
  <2>1. d # b
    BY <1>3 DEF CreateCommit, IInv, TypeOK, Idle
  <2>2. create'[b] = IF create[b].stage = "counted" /\ create[b].in < create[d].out
                          /\ create[d].in < create[b].out
                       THEN [create[b] EXCEPT !.dirty = TRUE]
                       ELSE create[b]
    BY <1>3, <2>1 DEF CreateCommit
  <2>3. create[b].stage = "counted"
    BY <2>2
  <2>4. create[b] \in CreateRequest /\ create[d] \in CreateRequest
    BY <1>3, <2>3 DEF CreateCommit, IInv, TypeOK, Idle
  <2>5. CASE create[b].in < create[d].out /\ create[d].in < create[b].out
    <3>1. /\ create'[b].seen = create[b].seen
          /\ create'[b].count = create[b].count
          /\ create'[b].dirty
      BY <2>2, <2>3, <2>4, <2>5 DEF CreateRequest
    <3> QED
      BY <2>3, <3>1 DEF IInv, CountCovers
  <2>6. CASE ~(create[b].in < create[d].out /\ create[d].in < create[b].out)
    <3>1. create'[b] = create[b]
      BY <2>2, <2>6
    <3>2. /\ stay'[d].in = create[d].in
          /\ stay'[d].sold = create[d].out
          /\ \A c \in Bookings \ {d} : status'[c] = status[c] /\ stay'[c] = stay[c]
      BY <1>3 DEF CreateCommit, IInv, TypeOK
    <3>3. ~(stay'[d].in < create[b].out /\ stay'[d].sold > create[b].in)
      BY <2>4, <2>6, <3>2 DEF CreateRequest, Slots
    <3> QED
      BY <2>3, <3>1, <3>2, <3>3 DEF IInv, CountCovers, SoldIn
  <2> QED
    BY <2>5, <2>6
<1>4. ASSUME ~CreateCount(b), \A d \in Bookings : ~CreateCommit(d)
      PROVE  create'[b] = create[b]
  <2>1. ASSUME NEW c \in Bookings, NEW in \in Slots, NEW length \in StayLengths,
               CreateRead(c, in, length)
        PROVE  create'[b] = create[b]
    BY <2>1 DEF CreateRead, IInv, TypeOK
  <2>2. ASSUME NEW c \in Bookings, CreateCount(c)
        PROVE  create'[b] = create[b]
    BY <1>4, <2>2 DEF CreateCount, IInv, TypeOK
  <2>3. ASSUME NEW c \in Bookings, CreateAbort(c)
        PROVE  create'[b] = create[b]
    BY <2>3 DEF CreateAbort, IInv, TypeOK, Idle
  <2>4. ASSUME NEW c \in Bookings, Move(c)
        PROVE  create'[b] = create[b]
    BY <2>4 DEF Move
  <2>5. ASSUME NEW a \in Admins, NEW c \in Bookings, NEW until \in Slots,
               ExtendRead(a, c, until)
        PROVE  create'[b] = create[b]
    BY <2>5 DEF ExtendRead
  <2>6. ASSUME NEW a \in Admins, ExtendWrite(a) \/ ExtendAbort(a) \/ ExtendCheck(a)
        PROVE  create'[b] = create[b]
    BY <2>6 DEF ExtendWrite, ExtendAbort, ExtendCheck
  <2>7. ASSUME NEW n \in RoomCounts, UpdateRoom(n)
        PROVE  create'[b] = create[b]
    BY <2>7 DEF UpdateRoom
  <2>8. CASE UNCHANGED vars
    BY <2>8 DEF vars
  <2> QED
    BY <1>4, <2>1, <2>2, <2>3, <2>4, <2>5, <2>6, <2>7, <2>8 DEF Next
<1>5. CASE CreateCount(b) /\ \A d \in Bookings : ~CreateCommit(d)
  BY <1>2, <1>5
<1> QED
  BY <1>1, <1>3, <1>4, <1>5

-----------------------------------------------------------------------------
\* A sale at an instant of the new stay adds one booking to those the transaction
\* counted; elsewhere nothing is added.
LEMMA SalesStep == IInv /\ [Next]_vars => NoDoubleSale'
<1> SUFFICES ASSUME IInv, [Next]_vars, TypeOK', NEW t \in Slots
             PROVE  Cardinality(SoldAt(t)') <= peak'
  BY TypeStep DEF NoDoubleSale
<1>1. peak \in Nat /\ peak' \in Nat
  BY RoomsAssumption DEF IInv, TypeOK
<1>2. SoldAt(t) \in SUBSET Bookings /\ SoldAt(t)' \in SUBSET Bookings
  BY DEF SoldAt
<1>3. Cardinality(SoldAt(t)) <= peak
  BY DEF IInv, NoDoubleSale
<1>4. ASSUME SoldAt(t)' \subseteq SoldAt(t), peak <= peak'
      PROVE  Cardinality(SoldAt(t)') <= peak'
  <2>1. /\ Cardinality(SoldAt(t)') <= Cardinality(SoldAt(t))
        /\ Cardinality(SoldAt(t)) \in Nat
        /\ Cardinality(SoldAt(t)') \in Nat
    BY <1>2, <1>4, BookingSets
  <2> QED
    BY <1>1, <1>3, <1>4, <2>1
<1>5. CASE \A b \in Bookings : ~CreateCommit(b)
  <2>1. NoNewSale /\ peak <= peak'
    BY <1>5, OnlyCommitSells
  <2>2. SoldAt(t)' \subseteq SoldAt(t)
    BY <2>1 DEF NoNewSale, SoldAt
  <2> QED
    BY <1>4, <2>1, <2>2
<1>6. ASSUME NEW b \in Bookings, CreateCommit(b)
      PROVE  Cardinality(SoldAt(t)') <= peak'
  <2>1. create[b] \in CreateRequest /\ create[b] # Idle
    BY <1>6 DEF CreateCommit, IInv, TypeOK, Idle
  <2>2. /\ peak' = peak
        /\ stay'[b].in = create[b].in
        /\ stay'[b].sold = create[b].out
        /\ \A c \in Bookings \ {b} : status'[c] = status[c] /\ stay'[c] = stay[c]
    BY <1>6 DEF CreateCommit, IInv, TypeOK
  <2>3. CASE create[b].in <= t /\ t < create[b].out
    <3> DEFINE seen == create[b].seen
    <3>1. /\ Cardinality(seen) < create[b].count
          /\ create[b].count <= peak
          /\ SoldIn(create[b].in, create[b].out) \subseteq seen
      BY <1>6, <2>1 DEF CreateCommit, IInv, CountCovers, RequestsSane
    <3>2. ASSUME NEW c \in Bookings, c # b, c \in SoldAt(t)'
          PROVE  c \in SoldIn(create[b].in, create[b].out)
      <4>1. status[c] \in ACTIVE_STATUSES /\ stay[c].in <= t /\ t < stay[c].sold
        BY <2>2, <3>2 DEF SoldAt
      <4> QED
        BY <2>1, <2>3, <4>1 DEF SoldIn, IInv, TypeOK, Stay, CreateRequest, Slots
    <3>3. SoldAt(t)' \subseteq seen \cup {b}
      BY <1>2, <3>1, <3>2
    <3>4. seen \in SUBSET Bookings /\ seen \cup {b} \in SUBSET Bookings
      BY <2>1 DEF CreateRequest
    <3>5. IsFiniteSet(seen) /\ Cardinality(seen) \in Nat
      BY <3>4, BookingSets
    <3>6. Cardinality(seen \cup {b}) <= Cardinality(seen) + 1
      <4> HIDE DEF seen
      <4>1. Cardinality(seen \cup {b}) =
              IF b \in seen THEN Cardinality(seen) ELSE Cardinality(seen) + 1
        BY <3>5, FS_AddElement
      <4> QED
        BY <3>5, <4>1
    <3>7. /\ Cardinality(SoldAt(t)') <= Cardinality(seen \cup {b})
          /\ Cardinality(seen \cup {b}) \in Nat
          /\ Cardinality(SoldAt(t)') \in Nat
      BY <1>2, <3>3, <3>4, BookingSets
    <3>8. create[b].count \in Nat
      BY <2>1, RoomsAssumption DEF CreateRequest
    <3> HIDE DEF seen
    <3> QED
      BY <1>1, <2>2, <3>1, <3>5, <3>6, <3>7, <3>8
  <2>4. CASE ~(create[b].in <= t /\ t < create[b].out)
    <3>1. SoldAt(t)' \subseteq SoldAt(t)
      BY <2>2, <2>4 DEF SoldAt
    <3> QED
      BY <1>1, <1>4, <2>2, <3>1
  <2> QED
    BY <2>3, <2>4
<1> QED
  BY <1>5, <1>6

\* IInv is inductive.
THEOREM Invariance == Spec => []IInv
<1>1. Init => IInv
  BY InvInit
<1>2. IInv /\ [Next]_vars => IInv'
  BY TypeStep, StayStep, RequestsStep, CountStep, SalesStep DEF IInv
<1> QED
  BY <1>1, <1>2, PTL DEF Spec

\* The variables of the room inventory keep their types, and no stored stay is
\* empty, however many requests are in flight.
THEOREM TypeCorrect == Spec => []TypeOK
<1>1. IInv => TypeOK
  BY DEF IInv
<1> QED
  BY <1>1, Invariance, PTL

\* createWithOverlapCheck never sells an instant more often than there were rooms,
\* for any number of bookings, rooms, racing requests and extensions.
THEOREM RoomsNeverSoldTwice == Spec => []NoDoubleSale
<1>1. IInv => NoDoubleSale
  BY DEF IInv
<1> QED
  BY <1>1, Invariance, PTL

\* No race of extensions takes from a guest the stay they bought.
THEOREM GuestKeepsStay == Spec => []SoldStayKept
<1>1. IInv => SoldStayKept
  BY DEF IInv
<1> QED
  BY <1>1, Invariance, PTL
=============================================================================
