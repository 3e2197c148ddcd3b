SPECIFICATION Spec
CONSTANTS
  Kind <- CategoryKinds
  Uncategorized = "uncategorized"
  MerchantKey <- Keys
  Accounts = {1}
  Fixed <- FixedTypes
  FreeTypes = {"other"}
  Goals = {1}
  Days <- LastDays
  Amounts <- SignedAmounts
  Merchants = {"gym"}
  Descriptions = {"bank"}
  Legacy <- OldLedgers
  Limits = {4}
  Balances = {10}
  GoalInputs <- PlansWithin
  MaxFacts = 4
INVARIANTS DrillDownAgrees CashFlowsAgree BudgetsMatchSpending PlansReachGoal SeriesIsFound
PROPERTY ClosedYearsStand
CHECK_DEADLOCK FALSE
