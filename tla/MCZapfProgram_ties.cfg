\* One lobby of two or three seats: every order of joins and reports, every tie.
SPECIFICATION Spec
CONSTANTS
  admin = admin
  server = server
  treasury = treasury
  Players = {alice, bob, carol}
  LobbyIds = {L1}
  Sizes = {1, 2, 3}
  Accounts <- MCAccounts
  OVERFLOW_SENTINEL <- MCOverflow
  U64_MAX <- MCU64Max
  Deployments <- MCDeployments
  FeeBpsChoices <- MCFeeBps
  EntryFees <- MCEntryFees
  Randomness <- MCRandomness
  Pours <- MCPours
  AccountLists <- MCAccountLists
  Instants <- MCInstants
  InitialBalance <- MCBalance
  NotInitialized = NotInitialized
SYMMETRY PlayerSymmetry
INVARIANTS
  TypeOK
  RostersConsistent
  StakesReleasable
PROPERTIES
  StakedTermsFixed
  SettlementRewardsBest
