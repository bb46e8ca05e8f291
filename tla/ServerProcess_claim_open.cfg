\* At least one open lobby at all times: not after the sweep has cancelled one.
SPECIFICATION FairSpec
CONSTANTS
  IDS_PER_MS = 10
  MaxLobbies = 3
  MaxTroubles = 0
PROPERTIES
  KeepsOneOpen
CHECK_DEADLOCK FALSE
