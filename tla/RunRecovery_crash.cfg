\* One process that is started three times; one write and one command.
SPECIFICATION FairSpec
CONSTANTS
  h1 = h1
  h2 = h2
  r1 = r1
  read = read
  edit = edit
  bash = bash
  Hosts = {h1}
  Runs = {r1}
  Tools = {edit, bash}
  Class <- ToolClass
  Concurrent = {edit, bash}
  None = None
  MaxIterations = 1
  MaxSteps = 2
  Shared = FALSE
  MaxStarts = 3
CHECK_DEADLOCK FALSE
INVARIANTS
  TypeOK
  RunsAccounted
PROPERTIES
  NothingActsTwice
  TranscriptRepaired
  RunsSettle
