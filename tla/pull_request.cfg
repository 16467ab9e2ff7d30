SPECIFICATION MCSpec
CONSTANTS
  f1 = f1 f2 = f2 f3 = f3 f4 = f4
  s1 = s1 s2 = s2 s3 = s3 s4 = s4 s5 = s5
  t1 = t1 t2 = t2
  PullRequests <- MCPullRequests
  Prompts = {1, 10}
  FilesPrompt = 2
  Limit = 10
  Soft = 3
  Hard = 2
  ListTokens = 1
  MaxCalls = 2
  Suggestions = {s1, s2, s3, s4, s5}
  Prose <- ProseOf
  Code <- CodeOf
  Short = {}
  Valid = {s1, s2, s5}
  Fixable = {s3}
  TryFix = TRUE
  Lists <- MCLists
  MaxRuns = 4
  MaxOverlooked = 1
  Changed <- MCChanged
  Kinds <- MCKinds
  Hosts = {"github", "gitlab", "gitea", "azure", "bitbucket", "bitbucket_server", "codecommit", "local"}
  Diffs <- MCDiffs
  Context = 1
  Befores = {0, 3}
  Afters = {0, 2}
  Dynamics = {0, 4}
  MaxFull = 4
  Tries = 2
  MaxTrouble = 2
  MaxAsked = 2
  Texts <- MCTexts
  MaxRedirects = 5
  Runs = {t1, t2}
  Requests <- MCRequests
  UserLabels = {"ours"}
  Offers <- MCOffers
  Providers = {"gitlab", "azure", "gitea", "codecommit", "bitbucket", "bitbucket_server", "gerrit"}
  MaxAccidents = 2
  MaxCommands = 3
  MaxHistory = 1
  MaxFiles = 3
  MaxChunks = 2
  MaxModels = 2
  MaxExtra = 1
  Threshold = 1
SYMMETRY MCSymmetry
INVARIANTS WithinLimit NothingDropped CallsFilled WholeOrFailed OwnFile NumbersAreTrue LinesAreFound WalkthroughIsTrue NothingRepeated NothingLost StandAlone Tidy OnlyAnswersStay FailuresAreTold OneOutcome FailuresAreReported LatestWins
PROPERTIES NothingForgotten LabelsStay
CHECK_DEADLOCK FALSE
