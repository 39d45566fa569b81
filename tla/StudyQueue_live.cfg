SPECIFICATION FairSpec
CONSTANTS
  User = {u1, u2}
  OldUser = {}
  Task = {t1, t2}
  Job = {1, 2, 3}
  NoUser = NoUser
  NoTask = NoTask
  NoJob = NoJob
  Retry = 0
  Period = 3
  Day = 5
  FirstHour = 0
  MaxDelay = 1
  MaxTime = 1
  MaxRequests = 2
  MaxCrashes = 0
  DbErrors = FALSE
PROPERTIES EligibleGetsStudied StudyEnds
ACTION_CONSTRAINT Quiet
CHECK_DEADLOCK FALSE
