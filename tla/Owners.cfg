\* One property with two requests of its owner and two of administrators, and two
\* properties without administrators; two disputes and a refund of one booking, the
\* auto-close job on two instances; two generations over one booking, two release or
\* hold requests.
CONSTANTS
  x1 = x1  x2 = x2  y1 = y1  y2 = y2  r1 = r1  b1 = b1  o1 = o1  p1 = p1  p2 = p2
  Parts = {"review", "numbers", "disputes", "payouts"}
  Listings = {p1, p2}
  Steps = {1}
  LegalStep = 5
  OwnerRequests = {x1, x2}
  Moderations = {y1, y2}
  RevisionCap = 1
  MaxSubmissions = 2
  Disputes = {x1, x2}
  Refunds = {r1}
  Bookings = {b1}
  BookingOf <- MCBookingOf
  Owners = {o1}
  Sweepers = {y1, y2}
  FilingWindow = 0
  ResponseWindow = 0
  ResolutionWindow = 1
  MaxNow = 2
  MaxStops = 1
  Stays = {p1}
  Properties = {p1}
  PropertyOf <- MCPropertyOf
  CheckOut <- MCCheckOut
  Share <- MCShare
  Days = {1, 2}
  Generators = {x1, x2}
  Clerks = {y1, y2}
  MaxPosts = 2
SPECIFICATION Spec
INVARIANTS
  ListingIsOneSubmission RevisionsCapped ReferencesNumbered
  RefundedOnce CreditedOnce ClosedAfterDeadline ResolutionBooked
  CountedIsLinked CountedTwiceOnlyIfConcurrent PaidMatchesStatus ReleasedBatchSettled
PROPERTIES ImplementsPropertyStatus ImplementsDisputeStatus
SYMMETRY MCSymmetry
\* A property that is approved is no longer moved, the bounded clock stops, and a paid
\* batch is no longer moved.
CHECK_DEADLOCK FALSE
