\* One session whose refreshes come one after the other; no logout and no cleanup.
CONSTANTS
  SessionIds = {s1}
  Refreshes = {r1}
  Logouts = {}
  Cleaners = {}
  Lifetime = 1
  BatchSize = 1
  MaxClock = 1
  MaxHash = 3
  MaxFailures = 0
SPECIFICATION SessionsSpec
INVARIANT RotatedOnce
\* The bounded clock stops, and the session with it.
CHECK_DEADLOCK FALSE
