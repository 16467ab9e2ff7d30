---------------------------- MODULE MCModelCalls ----------------------------
EXTENDS ModelCalls

CONSTANTS main, weak, fb1, fb2, dep, dep1, dep2

\* /describe: two chunks of a large pull request, then its headers.
\* /improve: one chunk, reflected on.  /review: one call.
Describe == [model |-> weak, chunks |-> 2, reflect |-> FALSE, final |-> TRUE]
Improve  == [model |-> main, chunks |-> 1, reflect |-> TRUE, final |-> FALSE]
Review   == [model |-> main, chunks |-> 1, reflect |-> FALSE, final |-> FALSE]

DescribeImprove == <<Describe, Improve>>
DescribeReview  == <<Describe, Review>>

Config(f, d, p) == [fallbacks |-> f, deployments |-> d, parallel |-> p]
\* One fallback in every mode, two without parallel calls, a list too short.
EveryConfig == {Config(<<fb1>>, d, p) : d \in {<<>>, <<dep1>>}, p \in BOOLEAN}
          \cup {Config(<<fb1, fb2>>, <<dep1, dep2>>, FALSE), Config(<<fb1, fb2>>, <<dep1>>, TRUE)}
OneEach     == {Config(<<fb1>>, <<dep1>>, FALSE)}
=============================================================================
