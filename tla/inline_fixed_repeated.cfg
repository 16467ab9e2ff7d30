SPECIFICATION PublishSpec
CONSTANTS
  s1 = s1
  s2 = s2
  s3 = s3
  s4 = s4
  Suggestions = {s1, s2, s3, s4}
  Prose <- ProseOf
  Code <- CodeOf
  Short = {s3}
  Valid = {s1, s2}
  Fixable = {s3}
  TryFix = TRUE
  Lists <- ShortLists
  MaxRuns = 2
  MaxOverlooked = 0
INVARIANT PostedOnce
CHECK_DEADLOCK FALSE
