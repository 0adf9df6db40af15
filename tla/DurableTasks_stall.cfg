SPECIFICATION Spec
CONSTANTS
  t1 = t1
  t2 = t2
  w1 = w1
  w2 = w2
  None = None
  Tasks = {t1, t2}
  Workers = {w1, w2}
  Deps <- ChainDeps
  MaxAttempts = 2
  Resumable = {t1}
  Scheduled = {}
  TeamTasks = {t2}
  Mortal = {w1, w2}
  Stalls = TRUE
CHECK_DEADLOCK FALSE
INVARIANTS TypeOK QueueDiscipline
PROPERTY OutcomeIsFinal
