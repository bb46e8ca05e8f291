\* Two wallets, a repeated request, a failed write and a restart at any time.
SPECIFICATION Spec
CONSTANTS
  Wallets = {alice, bob}
  NONCE_TTL = 1
  TOKEN_TTL = 1
  MaxNow = 2
  MaxNonces = 2
  MaxTroubles = 2
  Snapshots <- NonceMaps
  NoWallet = NoWallet
  NoFile = NoFile
  Torn = Torn
INVARIANTS
  SingleUse
  TokensEarned
  FileCatchesUp
  TokensSurvive
PROPERTIES
  ImplementsRegister
CHECK_DEADLOCK FALSE
