SPECIFICATION Spec
CONSTANTS
  main = main
  weak = weak
  fb1 = fb1
  fb2 = fb2
  dep = dep
  dep1 = dep1
  dep2 = dep2
  Deployment = dep
  Commands <- DescribeReview
  Configs <- OneEach
INVARIANT OwnDeployment
CHECK_DEADLOCK FALSE
