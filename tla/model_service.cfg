SPECIFICATION MCSpec
CONSTANTS
  Repos = {"repo"}
  Arrivals = {q1, q2}
  Features <- MCFeatures
  RowChoices <- MCRows
  Providers = {"p1", "p2", "p3"}
  Model <- MCModel
  Order <- MCOrder
  Ttl = 1
  MaxEdits = 1
  Requests = {q1, q2}
  Calls = {c1, c2}
  Configs <- MCConfigs
  Retries = 2
  Tasks = {"t1", "t2", "t3"}
  Timeouts = {0, 2, 4, 6}
  Workers = {TRUE, FALSE}
  ModelNames <- MCModels
  CallSettings <- MCSettings
  Thinking <- ThinkingModels
  TakesUser = {"gpt-5", "gpt-6", "gpt-6-sol", "o3", "claude"}
SYMMETRY MCSymmetry
INVARIANTS AsConfigured OwnKey SignedAsChosen CallAsMeant Drained
CHECK_DEADLOCK FALSE
