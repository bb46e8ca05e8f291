\* Two sockets and two days: joins, pours, timeouts, settlement and cancellation
\* racing each other, with a call and a save that fail.
SPECIFICATION Spec
CONSTANTS
  Accounts = {alice, bob}
  Conns = {c1, c2}
  Size = 2
  EntryFee = 1
  OVERFLOW_SENTINEL <- MCOverflow
  U64_MAX <- MCU64Max
  Randomness <- MCRandomness
  Instants <- MCTwoDays
  Pours <- MCOnePour
  MaxFaults <- MCCallSave
  NoLobby = NoLobby
SYMMETRY MCSymmetry
INVARIANTS
  TypeOK
  SeatsPaid
  TerminalAgrees
  OneSettler
PROPERTIES
  OneAttempt
CHECK_DEADLOCK FALSE
