SPECIFICATION Spec
CONSTANTS
  t1 = t1
  t2 = t2
  w1 = w1
  w2 = w2
  None = None
  Tasks = {t1}
  Workers = {w1, w2}
  Deps <- NoDeps
  MaxAttempts = 2
  Resumable = {t1}
  Scheduled = {}
  TeamTasks = {}
  Mortal = {w1}
  Stalls = FALSE
CHECK_DEADLOCK FALSE
PROPERTY CancelIsTerminal
