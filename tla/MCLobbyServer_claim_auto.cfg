\* A complete lobby settles by itself: not when a report arrives while a settlement fails.
SPECIFICATION FairSpec
CONSTANTS
  Accounts = {alice, bob}
  Conns = {c1}
  Size = 2
  EntryFee = 1
  OVERFLOW_SENTINEL <- MCOverflow
  U64_MAX <- MCU64Max
  Randomness <- MCRandomness
  Instants <- MCFirstDay
  Pours <- MCOnePour
  MaxFaults <- MCNoFaults
  NoLobby = NoLobby
PROPERTIES
  SettlesAutomatically
CHECK_DEADLOCK FALSE
