SPECIFICATION MCSpec
CONSTANTS
  Settings <- MCSettings
  ProbeSettings <- MCProbeSettings
  Gameweeks <- MCGameweeks
  Corner = 2
  Shares = {53, 55}
  NullShare = 50
  HeadlineEdge = 55
  SecondaryEdge = 53
  SensitivityShare = 65
  Limit = 60
  PassMark = 80
  SensitivityMinPower = 99
  HolmInverse = 80
  InnerResamples = 10000
  ProbeShock = 9
  LargestSweptShock = 6
  Tallies <- MCTallies
  Pins = {"first", "second", "nameless", "short"}
  HasIdentity = {"first", "second", "short"}
  HasGameweeks = {"first", "second", "nameless"}
  Spread <- MCSpread
INVARIANTS
  NoPowerWhereInvalid
  AnswersAgree
  VerdictOnOnePin
  RefusedRunsLeaveNoTrace
  FilesAgreeOnLevels
CHECK_DEADLOCK FALSE
