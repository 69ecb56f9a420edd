SPECIFICATION Spec
CONSTANTS
  tap1 = tap1  new1 = new1  new2 = new2  source = source  secret = secret
  Taps = {tap1}
  Key <- OneKey
  Checkpoint = {tap1}
  Provisions = {}
  Jobs = {tap1}
  Files = {source, secret}
  Secret = secret
  MaxMoves = 3
  MaxRestarts = 0
  Nested = FALSE
INVARIANT ExactlyWhatWasListed
CHECK_DEADLOCK FALSE
