\* Liveness: no symmetry. Callers stop for good, and closed clients end.
SPECIFICATION MediaRunSpec
CONSTANTS
  c1 = c1
  c2 = c2
  a = a
  b = b
  f = f
  Callers = {c1, c2}
  Ops = {a, b, f}
  Foreign = {f}
  Unrecognised = {b}
  PendingLimit = 1
  SettledLimit = 1
  MaxCalls = 4
  r1 = r1
  f1 = f1
  RunwayTasks = {r1}
  FalJobs = {f1}
  MaxAttempts = 2
INVARIANTS
  SeenIsRecordedOnce
  SubmissionSettingsKept
  BackgroundRecordsReachMetering
PROPERTIES
  OnceSpec
  AbandonedIsRecorded
CHECK_DEADLOCK FALSE
