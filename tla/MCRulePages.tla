---------------------------- MODULE MCRulePages ----------------------------
(***************************************************************************)
(* Small instances of RulePages: three rules, one merchant key, two        *)
(* members with stale pages.                                               *)
(***************************************************************************)
EXTENDS RulePages, TLC

CONSTANTS m1, m2

MemberSymmetry == Permutations(Members)
=============================================================================
