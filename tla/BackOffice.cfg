\* One review, two requests and the expiry job; one dispute and one session with
\* their jobs.
CONSTANTS
  d1 = d1  b1 = b1  o1 = o1  s1 = s1  w1 = w1  w2 = w2
  c1 = c1  c2 = c2
  Trips = {1}
  Tasks = {1, 2}
  Expirers = {1}
  HideThreshold = 2
  MaxReports = 2
  Disputes = {d1}
  Refunds = {}
  Bookings = {b1}
  BookingOf <- MCBookingOf
  Owners = {o1}
  Sweepers = {w1, w2}
  FilingWindow = 0
  ResponseWindow = 0
  ResolutionWindow = 1
  MaxNow = 2
  MaxStops = 1
  SessionIds = {s1}
  Refreshes = {1}
  Logouts = {1}
  Cleaners = {c1, c2}
  Lifetime = 1
  BatchSize = 2
  MaxClock = 2
  MaxHash = 2
  MaxFailures = 1
SPECIFICATION FairSpec
INVARIANTS
  PublishedIsCounted WrittenIsKept PublishedWasWritten
PROPERTIES EveryDisputeDecided ExpiredIsRevoked
\* Removed reviews and the bounded clocks stop.
CHECK_DEADLOCK FALSE
