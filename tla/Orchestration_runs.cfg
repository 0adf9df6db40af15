SPECIFICATION FairSpec
CONSTANTS
  NodeCount = 3
  Deps <- FlowDeps
  Kind <- FlowKind
  Conditional = {1}
  Retries <- FlowRetries
  MaxParallel = 2
  Runs = {r1, r2, r3}
  None = None
  Mortal = {r2}
  Stalled = {r1}
  MaxConfirms = 1
CHECK_DEADLOCK FALSE
INVARIANTS
  TypeOK
  RerunsConfirmed
  ReleasedAtEnd
  NodesAttended
PROPERTIES
  ResultFromStarter
  KeepsPromise
  RunsEnd
