SPECIFICATION Spec
CONSTANTS
  N = 5
  Enabled <- Some
  TooLarge <- Third
  Limit = 2
  Attempts = 2
  Enriched = TRUE
  MaxCalls = 1
  TotalBudget = 2
  MaxAsked = 2
INVARIANTS IInv BudgetHolds AccountIsComplete
PROPERTIES BudgetSpec FanoutEnds
