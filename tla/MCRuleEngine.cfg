SPECIFICATION EngineSpec
CONSTANTS
  Null = Null
  Currencies <- MCCurrencies
  Contexts <- MCContexts
INVARIANTS
  VerdictIsEvaluate
  ErrOnlyOnCurrencyChangeDuringBet
  BalanceChangeReportedOnce
  PayoutTolerance
CHECK_DEADLOCK FALSE
