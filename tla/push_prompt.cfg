SPECIFICATION MCSpec
CONSTANTS
  PRs = {p1, p2}
  Deliveries = {d1, d2, d3, d4}
  Backlog = TRUE
  Ttl = 2
  RefreshInterval = 1
  Prompt = TRUE
CHECK_DEADLOCK FALSE
INVARIANTS OneReviewPerPR NoneImmortal
PROPERTIES PushIsCovered WaiterReviews KeepsPromise
