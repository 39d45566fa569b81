SPECIFICATION DefaultCacheSpec
CONSTANTS
  Key = {k1}
  Value = {v1}
  Seconds = {2}
  None = None
  DelChannelCap = 1
  MaxTime = 4
PROPERTY DeletedLate
CHECK_DEADLOCK FALSE
