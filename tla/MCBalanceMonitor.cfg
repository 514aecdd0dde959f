SPECIFICATION Spec
CONSTANTS
  w1 = w1
  w2 = w2
  a1 = a1
  a2 = a2
  a3 = a3
  btc1 = btc1
  btc2 = btc2
  sui1 = sui1
  bitcoin = bitcoin
  sui = sui
  None = None
  Wallet = {w1, w2}
  Address = {a1, a2, a3}
  Target = {btc1, btc2, sui1}
  Chain = {bitcoin, sui}
  Handled = {bitcoin}
  Bitcoin = bitcoin
  WalletOf <- MCWalletOf
  TargetOf <- MCTargetOf
  ChainOf <- MCChainOf
  Smart = {w1}
  Checked = {bitcoin}
  MaxFetches = 3
INVARIANTS
  MonitorFollowsCard
  TimerRunsWhileWatched
  OutdatedOnlyIfLost
PROPERTIES
  Settles
