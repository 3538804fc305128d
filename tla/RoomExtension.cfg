\* Two bookings for one room, one extension in flight.
CONSTANTS
  b1 = b1  b2 = b2  b3 = b3  a1 = a1  a2 = a2
  Bookings = {b1, b2}
  Admins = {a1}
  RoomCounts = {1}
  StayLengths = {1, 2}
  MaxSlot = 3
SPECIFICATION Spec
INVARIANT NoOverbooking
SYMMETRY MCSymmetry
