SPECIFICATION Spec
CONSTANTS
  d1 = d1
  d2 = d2
  a1 = a1
  a2 = a2
  m1 = m1
  m2 = m2
  m3 = m3
  Ding = {d1, d2}
  Account = {a1, a2}
  Own <- Owners
  Message = {m1, m2, m3}
  Sender <- Senders
  Commands <- Listed
  BindName <- Names
  Unknown = Unknown
  AtPage = {}
  NoDing = NoDing
  NoName = NoName
  NoMessage = NoMessage
  MaxLosses = 0
  MaxStrays = 0
  MaxRestarts = 0
PROPERTY OnlyAskersMarked
CHECK_DEADLOCK FALSE
