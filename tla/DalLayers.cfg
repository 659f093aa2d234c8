SPECIFICATION BuildSpec
CONSTANTS
  Sources <- MCSources
  CutPoints = {0, 2, 3}
  Windows = {2, 3}
  Trend = 2
  Swing = 30
  Null = Null
  StatusOn <- MCStatusOn
INVARIANTS
  MinutesConserved
  ClubChangesByPlaying
  NoLookAhead
  CutIsHistory
CHECK_DEADLOCK FALSE
