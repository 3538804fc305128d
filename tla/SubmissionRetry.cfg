\* Two requests that submit one property, and another property.
CONSTANTS
  x1 = x1  x2 = x2  y1 = y1  y2 = y2  r1 = r1  b1 = b1  o1 = o1  p1 = p1  p2 = p2
  Parts = {"numbers"}
  Listings = {p1, p2}
  Steps = {1}
  LegalStep = 5
  OwnerRequests = {x1, x2}
  Moderations = {y1}
  RevisionCap = 1
  MaxSubmissions = 2
  Disputes = {x1}
  Refunds = {r1}
  Bookings = {b1}
  BookingOf <- MCBookingOf
  Owners = {o1}
  Sweepers = {y1}
  FilingWindow = 0
  ResponseWindow = 0
  ResolutionWindow = 1
  MaxNow = 2
  MaxStops = 1
  Stays = {p1, p2}
  Properties = {p1, p2}
  PropertyOf <- MCPropertyOf
  CheckOut <- MCCheckOut
  Share <- MCShare
  Days = {1}
  Generators = {x1}
  Clerks = {y1}
  MaxPosts = 1
SPECIFICATION Spec
INVARIANT NextReferenceFree
\* A property that is approved is no longer moved, and a paid batch neither.
CHECK_DEADLOCK FALSE
