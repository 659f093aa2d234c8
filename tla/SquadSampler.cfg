SPECIFICATION Spec
CONSTANTS
  Players <- MCPlayers
  PositionOf <- MCPosition
  PositionOrder <- MCOrder
  Quota <- MCQuota
  Budget = 4
  MaxPerClub = 2
  Weeks <- MCWeeks
  ReferenceWeek = 2
  Frames <- MCFrames
  Modes = {"uniform", "ownership"}
  NSquads = 2
  PilotProposals = 3
  Batch = 2
  Cap = 9
  RedLine = 1
INVARIANTS
  FirstAccepted
CHECK_DEADLOCK FALSE
