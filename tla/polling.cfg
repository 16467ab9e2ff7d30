SPECIFICATION FairSpec
CONSTANTS
  p1 = p1
  p2 = p2
  p3 = p3
  PRs = {p1, p2, p3}
  MaxComments = 3
  MaxFaults = 1
  MaxParallel = 0
  ScanLength = 2
  PageLength = 2
INVARIANTS OncePerNews ServedPerComment
PROPERTIES RequestServed
CHECK_DEADLOCK FALSE
