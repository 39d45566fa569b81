SPECIFICATION FairSpec
CONSTANTS
  Go = {g1, g2}
  Question = {q1, q2}
  NoQuestion = NoQuestion
  Rounds = 2
  Stuck = 3
  Reads = 1
  MaxSessions = 3
  MaxLeaks = 2
INVARIANTS TypeOK ContextsAccounted OneAttemptPerSession
PROPERTIES SessionEnds SessionShrinks
CHECK_DEADLOCK FALSE
