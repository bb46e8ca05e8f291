\* Two lobbies of two seats side by side: money, statistics and the refinement.
SPECIFICATION Spec
CONSTANTS
  admin = admin
  server = server
  treasury = treasury
  Players = {alice, bob}
  LobbyIds = {L1, L2}
  Sizes = {2}
  Accounts <- MCAccounts
  OVERFLOW_SENTINEL <- MCOverflow
  U64_MAX <- MCU64Max
  Deployments <- MCDeployments
  FeeBpsChoices <- MCFeeBps
  EntryFees <- MCEntryFees
  Randomness <- MCOneRandomness
  Pours <- MCPoursTwo
  AccountLists <- MCAccountLists
  Instants <- MCInstants
  InitialBalance <- MCBalance
  NotInitialized = NotInitialized
SYMMETRY PlayerSymmetry
INVARIANTS
  VaultHoldsStakes
  LamportsConserved
  StatsMatchLedger
PROPERTIES
  ImplementsEscrow
