SPECIFICATION Spec
CONSTANTS
  Executors = {e1, e2}
  Queries = {q1}
  Budgets <- MCBudgets
INVARIANTS BroadcastReachesAll AnsweredOnce TablesInv
PROPERTIES RequestsTakeEffect
CHECK_DEADLOCK FALSE
