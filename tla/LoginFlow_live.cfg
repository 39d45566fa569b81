SPECIFICATION FairSpec
CONSTANTS
  Uid = {u1}
  Link = {c1, c2}
  Task = {t1, t2}
  Row = {r1, r2}
  NoUid = NoUid
  NoLink = NoLink
  NoRow = NoRow
  Tries = 1
  MaxCrashes = 0
  DbErrors = FALSE
PROPERTIES PollingEnds DeadLoginNoticed
CHECK_DEADLOCK FALSE
