\* A paid player cannot block the lobby: one can who never tells the server.
SPECIFICATION FairSpec
CONSTANTS
  Accounts = {alice, bob}
  Conns = {c1}
  Size = 2
  EntryFee = 1
  OVERFLOW_SENTINEL <- MCOverflow
  U64_MAX <- MCU64Max
  Randomness <- MCRandomness
  Instants <- MCTwoDays
  Pours <- MCOnePour
  MaxFaults <- MCNoFaults
  NoLobby = NoLobby
PROPERTIES
  PaidPlayersFinish
CHECK_DEADLOCK FALSE
