SPECIFICATION Spec
CONSTANTS
  Kind <- CategoryKinds
  Uncategorized = "uncategorized"
  MerchantKey <- Keys
  Accounts = {}
  Fixed <- FixedTypes
  FreeTypes = {}
  Goals = {1}
  Days <- LastDays
  Amounts = {}
  Merchants = {}
  Descriptions = {}
  Legacy <- EmptyLedger
  Limits = {}
  Balances = {}
  GoalInputs <- PlanBeyond
  MaxFacts = 1
INVARIANT EveryPlanHasADate
CHECK_DEADLOCK FALSE
