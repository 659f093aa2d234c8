SPECIFICATION FairSittings
CONSTANTS
  NumCells = 4
  Workers = 2
  Share <- MCShare
  Budget = 6
  MaxFaults = 2
INVARIANTS
  ReturnAccountsForAll
  NothingTwiceNothingLost
PROPERTIES
  GridCompletes
