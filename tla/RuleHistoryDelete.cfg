SPECIFICATION Spec
SYMMETRY Symmetry
CONSTANTS
  t1 = t1
  t2 = t2
  k = k
  provider = provider
  tag = tag
  plain = plain
  Txs = {t1}
  Previews = {n1}
  RuleIds = {1, 2}
  Conditions = {provider}
  Keys = {k}
  Actions = {tag, plain}
  Fallback = plain
  KeyOf <- OneKey
  Verdict <- OverHistory
  AtImport <- FromProvider
  Untagged <- DropTag
  FromKey = FromKey
  NoKey = NoKey
  NoRule = NoRule
  NoTx = NoTx
  NoReview = NoReview
  NoRun = NoRun
  MaxVersion = 2
  MaxBirths = 2
  MaxEvents = 3
INVARIANTS RulesCanBeDeleted
CHECK_DEADLOCK FALSE
