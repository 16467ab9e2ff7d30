SPECIFICATION MCSpec
CONSTANTS
  q1 = q1 q2 = q2
  r1 = r1 r2 = r2
  process = process
  Requests = {q1, q2}
  Repos = {r1, r2}
  Process = process
  Servers = {"github", "gitlab", "bitbucket", "mosaico", "kenny"}
  FileChoices <- MCFileChoices
  LayerChoices <- MCLayerChoices
  AutoCommands <- MCAutoCommands
  CommentArgs <- MCCommentArgs
  MaxEdits = 1
  Hosts = {"github", "azure"}
  Runs = {q1, q2}
  Config <- MCReviewing
  MaxCommits = 2
  MaxTime = 3
  MaxReviews = 2
  MaxUnread = 1
  Providers = {"github", "gitea"}
  PRs = {"p1", "p2"}
  Readers = {q1, q2}
  Org <- MCOrg
  Configs <- MCConfigs
  Length <- MCLength
  Ttl = 1
  MaxSize = 1
  MaxTicks = 1
  MaxHostEdits = 1
  MaxReads = 3
  MaxFaults = 1
  Repositories = {r1, r2}
  Stores = {"qdrant", "lancedb", "pinecone"}
  MaxIssues = 3
  MaxScan = 4
  TopK = 2
  TooLong = {2}
  Comments <- MCComments
SYMMETRY MCSymmetry
INVARIANTS OwnSettings AsAsked Layered HeldLately IndexIsSound NoneSkipped
CHECK_DEADLOCK FALSE
