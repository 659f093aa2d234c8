SPECIFICATION Spec
CONSTANTS
  Players = {1, 2, 3, 4}
  Clubs = {"north", "south"}
  Positions = {"GK", "FWD"}
  Club <- MCClub
  Position <- MCPosition
  Weeks <- MCWeeks
  MaxGw = 4
  Warmup = 1
  Window = 2
  MinTrain <- MCMinTrain
  MinFit = 2
  MinCell = 2
  MinTeam = 2
  MinBonus = 2
  Zero = Zero
  KeeperPrior = KeeperPrior
INVARIANTS
  IgnoresTheWeekItself
  NoRegularLost
PROPERTIES
  ForecastsSettle
  ListsSettle
CHECK_DEADLOCK FALSE
