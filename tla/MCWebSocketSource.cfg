SPECIFICATION Spec
CONSTANTS
  btc = btc
  eth = eth
  Symbol = {btc, eth}
  Default = {btc, eth}
  MaxAttempts = 3
  MaxShots = 3
INVARIANTS
  StoppedIsQuiet
  NeverForgotten
  ListIsSubscribed
  PricesAreOfThisList
PROPERTIES
  Reconnects
