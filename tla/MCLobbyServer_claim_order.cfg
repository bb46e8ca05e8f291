\* The winners are named in the on-chain order: not when they tie.
SPECIFICATION Spec
CONSTANTS
  Accounts = {alice, bob}
  Conns = {c1}
  Size = 2
  EntryFee = 1
  OVERFLOW_SENTINEL <- MCOverflow
  U64_MAX <- MCU64Max
  Randomness <- MCRandomness
  Instants <- MCFirstDay
  Pours <- MCTiePours
  MaxFaults <- MCNoFaults
  NoLobby = NoLobby
SYMMETRY MCSymmetry
INVARIANTS
  SettleNamesWinners
CHECK_DEADLOCK FALSE
