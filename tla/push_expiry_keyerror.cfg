SPECIFICATION Spec
CONSTANTS
  PRs = {p1, p2}
  Deliveries = {d1, d2, d3}
  Backlog = TRUE
  Ttl = 1
  RefreshInterval = 1
  Prompt = FALSE
INVARIANT IdleIsCovered
CHECK_DEADLOCK FALSE
