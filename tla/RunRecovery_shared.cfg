\* Two processes in one work directory.
SPECIFICATION Spec
CONSTANTS
  h1 = h1
  r1 = r1
  h2 = h2
  read = read
  edit = edit
  bash = bash
  Hosts = {h1, h2}
  Runs = {r1}
  Tools = {bash}
  Class <- ToolClass
  Concurrent = {}
  None = None
  MaxIterations = 1
  MaxSteps = 1
  Shared = TRUE
  MaxStarts = 2
CHECK_DEADLOCK FALSE
PROPERTIES
  OnlyLeftoversInterrupted
