CONSTANTS
  None = None
  home = home
  away = away
  Addresses <- Both
  Marked <- HomeOnly
  HistoryLimit = 2
  StepBudgets <- OneAndThree
  CycleBudgets <- TwoOrNone
  MaxAccesses = 2
  MaxTotal = 3
  ConsoleBudget = 2
  StepCounts = {2}
SPECIFICATION ConsoleSpec
INVARIANTS ConsoleTypeOK RecordsOwnAccesses HistoryIsNewest BudgetsHold CommandsWithinBudget
PROPERTIES RunStopsOnTouch OverStopsOnTouch OverStopsAtBreakpoint CommandsReturn
