\* Two guests, two bots, three seats; a crash, a dropped socket, a missed deadline.
SPECIFICATION FairSpec
CONSTANTS
  Guests = {alice, bob}
  Sepp = Sepp
  Resi = Resi
  BotNames <- MCBotNames
  BotCount = 2
  LobbySize = 2
  EntryFee = 35
  FEE_BPS = 400
  TargetMl = 1000
  PressureMilli = 1000
  OverflowMs = 2971
  Durations = {1923, 3100}
  BotErrors = {0}
  OVERFLOW_SENTINEL = 65535
  MaxCrashes = 1
  NoSettlement = NoSettlement
INVARIANTS
  SeatsFair
  SettlesAsProgram
  OneVerdict
PROPERTIES
  GuestsFinish
CHECK_DEADLOCK FALSE
