SPECIFICATION FairSpec
CONSTANTS
  once = once
  hourly = hourly
  daily = daily
  c1 = c1
  Schedules = {once, hourly, daily}
  Waiters = {c1}
  None = None
  Kind <- MCKind
  Every <- MCEvery
  Calendar <- MCCalendar
  Horizon = 2
  MaxActive = 2
  Limit = 1
  Waits <- MCWaits
CHECK_DEADLOCK FALSE
INVARIANTS
  TypeOK
  NoOverlap
  StatusAgreesWithTasks
PROPERTIES
  MissedAreCoalesced
  PlansMoveOn
