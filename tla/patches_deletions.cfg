SPECIFICATION PatchSpec
CONSTANTS
  Diffs <- MCDiffs
  Context = 1
  Befores = {0, 3}
  Afters = {0, 1}
  Dynamics = {0, 4}
INVARIANT DeletionsOmitted
CHECK_DEADLOCK FALSE
