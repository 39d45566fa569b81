SPECIFICATION Spec
CONSTANTS
  User = {u1}
  OldUser = {}
  Task = {t1, t2}
  Job = {1, 2}
  NoUser = NoUser
  NoTask = NoTask
  NoJob = NoJob
  Retry = 0
  Period = 3
  Day = 5
  FirstHour = 0
  MaxDelay = 1
  MaxTime = 2
  MaxRequests = 1
  MaxCrashes = 1
  DbErrors = FALSE
PROPERTY SelfRemovalOnly
CHECK_DEADLOCK FALSE
