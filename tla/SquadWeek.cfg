SPECIFICATION Spec
CONSTANTS
  Squad <- FplSquad
  PositionOf <- FplPosition
  PositionOrder <- FplOrder
  XiMin <- FplMin
  XiMax <- FplMax
  XiSize = 11
  Unranked = Unranked
  Cases <- MCCases
  Weight <- MCWeight
INVARIANTS
  BestOnItsScores
  BestAndSecondBest
  SideStaysLegal
  CoversAllItCan
  PriorityRespected
  RegretNonNegative
  RightRankingHasNoRegret
CHECK_DEADLOCK FALSE
