SPECIFICATION Spec
CONSTANTS
  User = {u1}
  OldUser = {}
  Task = {t1, t2}
  Job = {1, 2}
  NoUser = NoUser
  NoTask = NoTask
  NoJob = NoJob
  Retry = 0
  Period = 2
  Day = 3
  FirstHour = 1
  MaxDelay = 1
  MaxTime = 3
  MaxRequests = 1
  MaxCrashes = 1
  DbErrors = TRUE
SYMMETRY Symmetry
INVARIANTS TypeOK MapEntryLive StudyNeverForgotten NoStrandedWait WaitsBounded
ACTION_CONSTRAINTS MarkedLast OneDisturbance
CHECK_DEADLOCK FALSE
