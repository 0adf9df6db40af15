SPECIFICATION FairSpec
CONSTANTS
  t1 = t1
  t2 = t2
  w1 = w1
  w2 = w2
  None = None
  Tasks = {t1, t2}
  Workers = {w1, w2}
  Deps <- ChainDeps
  MaxAttempts = 2
  Resumable = {t1, t2}
  Scheduled = {t1}
  TeamTasks = {}
  Mortal = {w1}
  Stalls = FALSE
CHECK_DEADLOCK FALSE
INVARIANTS SingleExecution RetriesBudgeted ScheduledRunsOnce OutcomeIsRecorded
PROPERTIES FencedCommit ImplementsLifecycle ResumableTasksFinish
