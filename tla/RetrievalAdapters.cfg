SPECIFICATION MCSpec
CONSTANTS
  t1 = t1
  o1 = o1
  p1 = p1
  m = m
  n = n
  near = near
  far = far
  other = other
  q1 = q1
  q2 = q2
  None = None
  Empty = Empty
  Kinds <- AllKinds
  MaxId = 2
  Docs <- SomeDocs
  Near <- Distances
  Words <- WordsOf
  Asks <- SomeAsks
  Fact <- OneFact
  Edited = other
  PrefilterMin = 1
  PoolFactor = 1
  MaxWrites = 2
  MaxFaults = 1
INVARIANT
  SearchKeepsFaith
PROPERTY
  AdaptersAgree
CHECK_DEADLOCK FALSE
