SPECIFICATION Spec
CONSTANTS
  Funcs = {"f", "g"}
  LocalsOf <- MCLocalsOf
  Named <- MCNamed
  Recoverable <- MCRecoverable
  Watched = {3, 9}
  Budget = 3
  Filters = {"All", "Fresh", "Recoverable", "Arguments", "Named locals", "Unavailable"}
INVARIANTS TypeOK BudgetIsSpent
PROPERTIES RetainedAreAnalysed Rotation
