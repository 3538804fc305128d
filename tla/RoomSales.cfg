\* Three bookings for none to two rooms, two extensions in flight.
CONSTANTS
  b1 = b1  b2 = b2  b3 = b3  a1 = a1  a2 = a2
  Bookings = {b1, b2, b3}
  Admins = {a1, a2}
  RoomCounts = {0, 1, 2}
  StayLengths = {1, 2}
  MaxSlot = 3
SPECIFICATION Spec
INVARIANTS TypeOK NoDoubleSale SoldStayKept
SYMMETRY MCSymmetry
