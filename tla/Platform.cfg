\* One session and two refreshes; two codes, and their verifications on two
\* instances; two logins; two events; two reviews and two runs of the reminder job;
\* two runs of the rule engine.
CONSTANTS
  x1 = x1  x2 = x2  r1 = r1  r2 = r2  v1 = v1  v2 = v2  s1 = s1  i1 = i1  i2 = i2
  SessionIds = {s1}
  Refreshes = {r1, r2}
  Logouts = {s1}
  Cleaners = {s1}
  Lifetime = 1
  BatchSize = 1
  MaxClock = 2
  MaxHash = 3
  MaxFailures = 1
  Verifiers = {v1, v2}
  Senders = {s1}
  Registrations = {x1, x2}
  Connections = {i1, i2}
  ConnectionOf <- MCConnectionOf
  MaxAttempts = 2
  RequestLimit = 1
  Tries = 2
  MaxCodes = 2
  Logins = {x1, x2}
  MaxFails = 2
  Events = {x1, x2}
  Unanswered = {v1, v2}
  Reminders = {r1, r2}
  Entities = {1}
  Tallies <- MCTallies
  Detections = {1, 2}
  MaxAnomalies = 2
SPECIFICATION Spec
INVARIANTS
  PlatformTypeOK OneRefreshWins RevokedForReason CodeVerifiesOnce LiveCodeHasAttempts
  CountersEnd RegisteredOnce FailsBounded ToldOnce
  ReportedOnce
PROPERTY SessionEndsForGood
SYMMETRY MCSymmetry
\* The bounded clock stops, and sessions with it.
CHECK_DEADLOCK FALSE
