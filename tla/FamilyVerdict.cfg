SPECIFICATION VerdictSpec
CONSTANTS
  Sizes <- MCSizes
  Bootstraps <- MCBootstraps
  Rebootstraps <- MCRebootstraps
  AlphaNum = 2
  AlphaDen = 5
  NResamples = 59
INVARIANTS
  DecidesAsClosedTest
  SettledWithoutRerun
  MoreLegsNeverHelp
CHECK_DEADLOCK FALSE
