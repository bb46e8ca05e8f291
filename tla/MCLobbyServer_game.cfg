\* A full game with a restart and a failing call: it stays consistent, and goes on.
SPECIFICATION FairSpec
CONSTANTS
  Accounts = {alice, bob}
  Conns = {c1}
  Size = 2
  EntryFee = 1
  OVERFLOW_SENTINEL <- MCOverflow
  U64_MAX <- MCU64Max
  Randomness <- MCRandomness
  Instants <- MCFirstDay
  Pours <- MCOnePour
  MaxFaults <- MCCrashCall
  NoLobby = NoLobby
INVARIANTS
  IndicesNumberResults
  SubmittedAgrees
  TimersCoverPlayers
PROPERTIES
  FileKeepsGame
  SeatedPlayersFinish
  SettlingEnds
CHECK_DEADLOCK FALSE
