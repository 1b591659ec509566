CONSTANT MaxRuns = 3
SPECIFICATION Spec
INVARIANTS CopySurvives FailureIsUndone SuccessIsClean
CHECK_DEADLOCK FALSE
