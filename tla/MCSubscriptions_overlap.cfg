SPECIFICATION ClientsSpec
CONSTANTS
  i1 = i1
  i2 = i2
  s1 = s1
  s2 = s2
  s3 = s3
  q1 = q1
  q2 = q2
  None = None
  Instances <- MCInstances
  Ids <- MCIds
  Requests <- MCRequests
  Topics = {"votes"}
  Endpoints = {"e1", "e2"}
  Unused = {}
  Clients = {TRUE, FALSE}
  MaxFailures = 1
SYMMETRY Symmetry
INVARIANTS
  InstanceIndexed
  TopicsWereAsked
  RowIsKnown
  AwaitedMemoryAgrees
PROPERTY
  OnlyFailuresEndProcess
CHECK_DEADLOCK FALSE
