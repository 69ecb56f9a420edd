SPECIFICATION FairSpec
CONSTANTS
  tap1 = tap1  new1 = new1  new2 = new2  source = source  secret = secret
  Taps = {tap1}
  Key <- OneKey
  Checkpoint = {tap1}
  Provisions = {new1, new2}
  Jobs = {tap1, new1, new2}
  Files = {source, secret}
  Secret = secret
  MaxMoves = 1
  MaxRestarts = 0
  Nested = TRUE
PROPERTY ProvisionsEnd
CHECK_DEADLOCK FALSE
