\* Lobbies of a process that dies, with calls and saves that fail, and a day that passes.
SPECIFICATION FairSpec
CONSTANTS
  IDS_PER_MS = 10
  MaxLobbies = 3
  MaxTroubles = 2
INVARIANTS
  TypeOK
  IdsFresh
  OfferedIsSaved
  EndsAgree
  LobbiesBounded
PROPERTIES
  ServesAgain
  OpensAgain
CHECK_DEADLOCK FALSE
