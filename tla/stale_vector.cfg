CONSTANTS
  d1 = d1 d2 = d2 d3 = d3
  r1 = r1 r2 = r2 r3 = r3
  j1 = j1 j2 = j2 j3 = j3
  report = report scan = scan junk = junk
  Docs = {d1}
  Contents = {report, scan, junk}
  Refused = {junk}
  Unreadable = {scan}
  Requests = {r1}
  JobIds = {j1, j2}
  MaxTries = 5
  RetryRaised = FALSE
  HasProvider = {TRUE}
  MaxReruns = 1
  MaxInterrupts = 0
  Faults = {}
  MaxParser = 2
  Pieces <- TwoParsers
SPECIFICATION Spec
CHECK_DEADLOCK FALSE
INVARIANT
  VectorsOfOwnText
