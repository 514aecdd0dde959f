SPECIFICATION PriceSpec
CONSTANTS
  btc = btc
  eth = eth
  u1 = u1
  u2 = u2
  Ticker = {btc, eth}
  Slot = {u1, u2}
  Idle = Idle
  Default = {btc, eth}
  Tries = 2
  MaxShots = 2
INVARIANTS
  PricesAreSound
PROPERTIES
  Converges
