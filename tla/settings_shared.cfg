SPECIFICATION Spec
CONSTANTS
  r1 = r1
  r2 = r2
  q1 = q1
  q2 = q2
  process = process
  Requests = {q1, q2}
  Repos = {r1, r2}
  Process = process
  Servers = {"bitbucket_server"}
  FileChoices <- MCFileChoices
  LayerChoices <- MCLayerChoices
  AutoCommands <- MCAutoCommands
  CommentArgs <- MCCommentArgs
  MaxEdits = 1
INVARIANT AutoMarked
SYMMETRY MCSymmetry
CHECK_DEADLOCK FALSE
