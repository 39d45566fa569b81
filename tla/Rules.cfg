SPECIFICATION RulesSpec
CONSTANTS
  Paper <- AllQuestions
  MaxRounds = 3
  Fresh = Fresh
  Numbers = {0, 9, 10}
  NoVersion = NoVersion
  DayLength = 2
  MaxWait = 1
  LastTick = 2
INVARIANTS TypeOK ClickedOnce TickedRight BlanksRight NewerAnnounced StatTypeOK EveryoneReported NoContradiction
PROPERTY QuizSteps
CHECK_DEADLOCK FALSE
