SPECIFICATION Spec
SYMMETRY MemberSymmetry
CONSTANTS
  m1 = m1
  m2 = m2
  Members = {m1, m2}
  RuleIds = {1, 2, 3}
  Conditions = {}
  Keys = {k}
  Actions = {a1, a2}
  FromKey = FromKey
  NoKey = NoKey
  NoRule = NoRule
  NoPage = NoPage
  MaxVersion = 2
  MaxBirths = 3
INVARIANTS StaleSubmissionRefused
CHECK_DEADLOCK FALSE
