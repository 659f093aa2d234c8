SPECIFICATION FillSpec
CONSTANTS
  Players <- MCPlayers
  PositionOf <- MCPosition
  PositionOrder <- MCOrder
  Quota <- MCQuota
  Budget = 9
  MaxPerClub = 1
  Families <- MCFamilies
  NoValue = NoValue
INVARIANTS
  PicksCanComplete
  BestFirst
CHECK_DEADLOCK FALSE
