SPECIFICATION Spec
CONSTANTS
  Null = Null
  Currencies <- MCCurrencies
  Screens <- MCScreens
  Scenarios <- MCScenarios
  MaxRounds = 1
  StorageMayFail = FALSE
  Stake = 3
  Multipliers <- MCMultipliers
  StartBalance = 100
  Wordings <- MCWordings
INVARIANTS
  VerdictMatchesGame
  JustAccusations
CHECK_DEADLOCK FALSE
