SPECIFICATION OwnedSpec
CONSTANTS
  d1 = d1
  d2 = d2
  a1 = a1
  a2 = a2
  m1 = m1
  m2 = m2
  m3 = m3
  Ding = {d1, d2}
  Account = {a1, a2}
  Own <- Owners
  Message = {m1, m2, m3}
  Sender <- Senders
  Commands <- Mixed
  BindName <- Names
  Unknown = Unknown
  AtPage = {a1}
  NoDing = NoDing
  NoName = NoName
  NoMessage = NoMessage
  MaxLosses = 1
  MaxStrays = 1
  MaxRestarts = 1
INVARIANTS TypeOK LinksAstray BindToldTrue AccountsReachOwners
PROPERTIES LoginServed StatisticsReported KnownBindSettled
ACTION_CONSTRAINTS FewFailures LoginsBetween
CHECK_DEADLOCK FALSE
