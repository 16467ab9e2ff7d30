SPECIFICATION HostSpec
CONSTANTS
  q1 = q1
  q2 = q2
  Providers = {"github", "gitlab"}
  PRs = {"p1", "p2"}
  Readers = {q1, q2}
  Org <- MCOrg
  Configs <- EitherBranch
  Length <- MCLength
  Ttl = 1
  MaxSize = 1
  MaxTicks = 1
  MaxHostEdits = 2
  MaxReads = 3
  MaxFaults = 1
SYMMETRY MCSymmetry
INVARIANTS FromTheBranchAsked
CHECK_DEADLOCK FALSE
