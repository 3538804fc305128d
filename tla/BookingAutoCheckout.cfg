\* An extension between the two steps of the automatic check-out.
CONSTANTS
  b1 = b1  o1 = o1  o2 = o2  h1 = h1  h2 = h2  s1 = s1
  Bookings = {b1}
  Orders = {o1}
  NoOrder = NoOrder
  Handlers = {h1, h2}
  Sweepers = {s1}
  Prices <- MCPrices
  Kinds = {"fullday"}
  StayLengths = {2}
  RefundAmounts = {1}
  ExtensionFees = {1}
  EarlyWindow = 1
  NoShowGrace = 1
  PaymentTimeout = 1
  PastGrace = 0
  Horizon = 1
  HourlyNotice = 1
  FulldayNotice = 2
  MaxTime = 3
  RefundCap = 1
SPECIFICATION Spec
PROPERTY StayNotCutShort
SYMMETRY MCSymmetry
\* The bounded clock stops, and with it a system whose bookings have not begun.
CHECK_DEADLOCK FALSE
