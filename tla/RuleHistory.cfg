SPECIFICATION Spec
SYMMETRY Symmetry
CONSTANTS
  t1 = t1
  t2 = t2
  k = k
  provider = provider
  tag = tag
  plain = plain
  Txs = {t1}
  Previews = {n1, n2}
  RuleIds = {1, 2}
  Conditions = {provider}
  Keys = {k}
  Actions = {tag, plain}
  Fallback = plain
  KeyOf <- OneKey
  Verdict <- OverHistory
  AtImport <- FromProvider
  Untagged <- DropTag
  FromKey = FromKey
  NoKey = NoKey
  NoRule = NoRule
  NoTx = NoTx
  NoReview = NoReview
  NoRun = NoRun
  MaxVersion = 2
  MaxBirths = 2
  MaxEvents = 4
INVARIANTS LinksAreLive AuditConnected
PROPERTIES ManualProtected HistoryAgreesWithImport DeletionAsPreviewed ImpactForetells SameAuditedResult
CHECK_DEADLOCK FALSE
