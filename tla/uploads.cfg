CONSTANTS
  d1 = d1 d2 = d2 d3 = d3
  r1 = r1 r2 = r2 r3 = r3
  j1 = j1 j2 = j2 j3 = j3
  report = report scan = scan junk = junk
  Docs = {d1, d2, d3}
  Contents = {report, scan, junk}
  Refused = {junk}
  Unreadable = {scan}
  Requests = {r1, r2, r3}
  JobIds = {j1}
  MaxTries = 1
  RetryRaised = FALSE
  HasProvider = {TRUE, FALSE}
  MaxReruns = 1
  MaxInterrupts = 0
  Faults = {"api", "queue", "surprise", "timeout", "delete"}
  MaxParser = 1
  Pieces <- OneParser
SPECIFICATION Spec
CHECK_DEADLOCK FALSE
SYMMETRY UploadSymmetry
INVARIANTS
  ObjectBeforeRow
  OneRowPerContent
