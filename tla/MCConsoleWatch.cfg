CONSTANTS
  None = None
  home = home
  away = away
  Addresses <- Both
  Marked <- HomeOnly
  HistoryLimit = 0
  StepBudgets = {}
  CycleBudgets <- NoCycleBudget
  MaxAccesses = 1
  MaxTotal = 3
  ConsoleBudget = 2
  StepCounts = {}
SPECIFICATION ConsoleSpec
PROPERTIES CommandsStopOnTouch
