--------------------------- MODULE RoomInventory ---------------------------
(***************************************************************************)
(* The rooms of one room type and the bookings that compete for them:      *)
(* POST /bookings, which counts and inserts in a serializable transaction, *)
(* the administrators' extension, which reads, checks and updates in three *)
(* statements outside any transaction, and the owner's change of the       *)
(* number of rooms.  What happens to a booking after its insertion is      *)
(* taken from BookingStatus, which BookingLifecycle implements.            *)
(***************************************************************************)
EXTENDS Integers, FiniteSets

CONSTANTS
  Bookings,      \* booking ids
  Admins,        \* extend requests that can be in flight at once
  RoomCounts,    \* values of RoomType.count (0..500 in the DTO)
  StayLengths,   \* lengths a new booking can have
  MaxSlot        \* bound: stays end here

ASSUME BookingsAssumption == IsFiniteSet(Bookings)

ASSUME RoomsAssumption ==
  /\ RoomCounts \subseteq Nat
  /\ RoomCounts # {}
  /\ StayLengths \subseteq Nat \ {0}
  /\ MaxSlot \in Nat

VARIABLES
  rooms,     \* RoomType.count
  peak,      \* history: the largest count there has been
  status,    \* status[b]
  stay,      \* stay[b]: check-in, check-out, and the check-out it was sold with
  create,    \* create[b]: the POST /bookings that would insert b
  extend     \* extend[a]: the extension request a

vars == <<rooms, peak, status, stay, create, extend>>

StatusMachine == INSTANCE BookingStatus

ACTIVE_STATUSES == {"pending_payment", "confirmed", "checked_in"}

Slots == 0 .. MaxSlot

Stay == [in : Slots, out : Slots, sold : Slots]

\* The interval of a booking that has not been inserted.
NoStay == [in |-> 0, out |-> 0, sold |-> 0]

Idle == [stage |-> "idle"]

\* read: the row of the room type has been read.  counted: the transaction has
\* counted the overlapping bookings in its snapshot and not committed; dirty
\* means that a transaction that ran at the same time has since inserted one.
CreateRequest ==
  [stage : {"read", "counted"}, in : Slots, out : Slots, count : RoomCounts,
   seen : SUBSET Bookings, dirty : BOOLEAN]

\* read: the booking has been read, checking out at from.  checked: hasOverlap has
\* found no other booking between from and until.
ExtendRequest ==
  [stage : {"read", "checked"}, id : Bookings, from : Slots, until : Slots]

\* Half-open intervals: a stay may begin when another ends.
Overlaps(b, in, out) == stay[b].in < out /\ stay[b].out > in

Overlapping(in, out) ==
  {b \in Bookings : status[b] \in ACTIVE_STATUSES /\ Overlaps(b, in, out)}

-----------------------------------------------------------------------------
Init ==
  /\ rooms \in RoomCounts
  /\ peak = rooms
  /\ status = [b \in Bookings |-> "absent"]
  /\ stay = [b \in Bookings |-> NoStay]
  /\ create = [b \in Bookings |-> Idle]
  /\ extend = [a \in Admins |-> Idle]

\* MUTANT: a full-day booking that takes its length from the request gets none.
CreateReadNoLength(b, in, length) ==
  /\ status[b] = "absent"
  /\ create[b] = Idle
  /\ in + length <= MaxSlot
  /\ create' = [create EXCEPT ![b] =
       [stage |-> "read", in |-> in, out |-> in, count |-> rooms,
        seen |-> {}, dirty |-> FALSE]]
  /\ UNCHANGED <<rooms, peak, status, stay, extend>>

\* createBooking up to the transaction: the room type is read here.
CreateRead(b, in, length) ==
  /\ status[b] = "absent"
  /\ create[b] = Idle
  /\ in + length <= MaxSlot                                        \* bound
  /\ create' = [create EXCEPT ![b] =
       [stage |-> "read", in |-> in, out |-> in + length, count |-> rooms,
        seen |-> {}, dirty |-> FALSE]]
  /\ UNCHANGED <<rooms, peak, status, stay, extend>>

\* The COUNT of the transaction; SlotUnavailableError if no room is left.
CreateCount(b) ==
  LET r == create[b]
      seen == Overlapping(r.in, r.out)
  IN
  /\ r.stage = "read"
  /\ create' = [create EXCEPT ![b] =
       IF Cardinality(seen) >= r.count
         THEN Idle
         ELSE [r EXCEPT !.stage = "counted", !.seen = seen]]
  /\ UNCHANGED <<rooms, peak, status, stay, extend>>

\* MUTANT: read committed: the insertion commits whatever happened meanwhile.
CreateCommitReadCommitted(b) ==
  LET r == create[b] IN
  /\ r.stage = "counted"
  /\ status' = [status EXCEPT ![b] = "pending_payment"]
  /\ stay' = [stay EXCEPT ![b] = [in |-> r.in, out |-> r.out, sold |-> r.out]]
  /\ create' = [create EXCEPT ![b] = Idle]
  /\ UNCHANGED <<rooms, peak, extend>>

\* The INSERT and the commit.  Serializable transactions that would each miss the
\* other's insertion cannot both commit; the extension's UPDATE is no such
\* transaction and goes unnoticed.
CreateCommit(b) ==
  LET r == create[b] IN
  /\ r.stage = "counted"
  /\ ~r.dirty
  /\ status' = [status EXCEPT ![b] = "pending_payment"]
  /\ stay' = [stay EXCEPT ![b] = [in |-> r.in, out |-> r.out, sold |-> r.out]]
  /\ create' = [c \in Bookings |->
       IF c = b THEN Idle
       ELSE IF create[c].stage = "counted" /\ create[c].in < r.out /\ r.in < create[c].out
              THEN [create[c] EXCEPT !.dirty = TRUE]
              ELSE create[c]]
  /\ UNCHANGED <<rooms, peak, extend>>

\* A serialization failure, a lost connection or the end of the process.
CreateAbort(b) ==
  /\ create[b] # Idle
  /\ create' = [create EXCEPT ![b] = Idle]
  /\ UNCHANGED <<rooms, peak, status, stay, extend>>

-----------------------------------------------------------------------------
\* MUTANT: the new check-out time is compared with nothing.
ExtendReadAnyTime(a, b, until) ==
  /\ extend[a] = Idle
  /\ status[b] = "checked_in"
  /\ extend' = [extend EXCEPT ![a] =
       [stage |-> "read", id |-> b, from |-> stay[b].out, until |-> until]]
  /\ UNCHANGED <<rooms, peak, status, stay, create>>

\* extend up to the parse of the new check-out time.
ExtendRead(a, b, until) ==
  /\ extend[a] = Idle
  /\ status[b] = "checked_in"
  /\ until > stay[b].out
  /\ extend' = [extend EXCEPT ![a] =
       [stage |-> "read", id |-> b, from |-> stay[b].out, until |-> until]]
  /\ UNCHANGED <<rooms, peak, status, stay, create>>

\* hasOverlap: any other booking in the added interval, however many rooms there
\* are, turns the request down.
ExtendCheck(a) ==
  LET r == extend[a] IN
  /\ r.stage = "read"
  /\ extend' = [extend EXCEPT ![a] =
       IF Overlapping(r.from, r.until) \ {r.id} = {}
         THEN [r EXCEPT !.stage = "checked"]
         ELSE Idle]
  /\ UNCHANGED <<rooms, peak, status, stay, create>>

\* The conditional UPDATE: the booking must still be checked in.
ExtendWrite(a) ==
  LET r == extend[a] IN
  /\ r.stage = "checked"
  /\ stay' = IF status[r.id] = "checked_in"
               THEN [stay EXCEPT ![r.id].out = r.until]
               ELSE stay
  /\ extend' = [extend EXCEPT ![a] = Idle]
  /\ UNCHANGED <<rooms, peak, status, create>>

ExtendAbort(a) ==
  /\ extend[a] # Idle
  /\ extend' = [extend EXCEPT ![a] = Idle]
  /\ UNCHANGED <<rooms, peak, status, stay, create>>

-----------------------------------------------------------------------------
\* PATCH /owner/.../rooms/:roomId: no look at the bookings there are.
UpdateRoom(n) ==
  /\ rooms' = n
  /\ peak' = IF n > peak THEN n ELSE peak
  /\ UNCHANGED <<status, stay, create, extend>>

\* Any later move of a booking.
Move(b) ==
  /\ status[b] # "absent"
  /\ StatusMachine!Move(b)
  /\ UNCHANGED <<rooms, peak, stay, create, extend>>

Next ==
  \/ \E b \in Bookings :
       \/ \E in \in Slots, length \in StayLengths : CreateRead(b, in, length)
       \/ CreateCount(b)
       \/ CreateCommit(b)
       \/ CreateAbort(b)
       \/ Move(b)
  \/ \E a \in Admins :
       \/ \E b \in Bookings, until \in Slots : ExtendRead(a, b, until)
       \/ ExtendCheck(a)
       \/ ExtendWrite(a)
       \/ ExtendAbort(a)
  \/ \E n \in RoomCounts : UpdateRoom(n)

Spec == Init /\ [][Next]_vars

-----------------------------------------------------------------------------
\* Properties.

\* Every variable has its type, and a stored stay is never empty: it begins
\* before the check-out it was sold with.
TypeOK ==
  /\ rooms \in RoomCounts
  /\ peak \in RoomCounts
  /\ status \in [Bookings -> StatusMachine!Status]
  /\ stay \in [Bookings -> Stay]
  /\ create \in [Bookings -> CreateRequest \cup {Idle}]
  /\ extend \in [Admins -> ExtendRequest \cup {Idle}]
  /\ \A b \in Bookings : status[b] # "absent" => stay[b].in < stay[b].sold

SoldAt(t) ==
  {b \in Bookings :
     status[b] \in ACTIVE_STATUSES /\ stay[b].in <= t /\ t < stay[b].sold}

HeldAt(t) ==
  {b \in Bookings :
     status[b] \in ACTIVE_STATUSES /\ stay[b].in <= t /\ t < stay[b].out}

\* However POST /bookings requests race each other, extensions and changes of the
\* room count, no instant is sold more often than there ever were rooms.
NoDoubleSale == \A t \in Slots : Cardinality(SoldAt(t)) <= peak

\* However extensions race, a guest keeps at least the stay they bought.
SoldStayKept == \A b \in Bookings : stay[b].out >= stay[b].sold

\* Extensions included, no instant is held by more bookings than there ever were
\* rooms: the extension takes an instant only if it is free.
NoOverbooking == \A t \in Slots : Cardinality(HeldAt(t)) <= peak
=============================================================================
