SPECIFICATION FairSpec
CONSTANTS
  Wallets = {a, b}
  Funded = {a}
  NoWallet = NoWallet
  NoSig = NoSig
  NoView = NoView
  NoConn = NoConn
  MaxTroubles = 1
CHECK_DEADLOCK FALSE
INVARIANTS
  RoundForPaid
  NewsOnItsWay
PROPERTIES
  NeverBack
  CatchesUp
