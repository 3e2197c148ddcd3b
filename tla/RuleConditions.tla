---------------------------- MODULE RuleConditions ----------------------------
(***************************************************************************)
(* The condition of a workspace rule: a tree of predicates, validated      *)
(* (app/rules/validation.py), evaluated at import                          *)
(* (app/rules/evaluation.py) and over history, where the provider of a row *)
(* is no longer known (_evaluate_historical_condition).  Texts are         *)
(* sequences, taken as normalized.                                         *)
(***************************************************************************)
EXTENDS Integers, SequencesExt

MaxTreeDepth == 4
MaxPredicates == 20

\* What a row is known by; account 0 and provider "none" stand for no value.
Row(description, key, amount, date, account, provider) ==
  [description |-> description, merchant_key |-> key, amount_cents |-> amount,
   transaction_date |-> date, account_id |-> account, provider_key |-> provider,
   direction |-> IF amount > 0 THEN "income" ELSE IF amount < 0 THEN "expense" ELSE "zero"]

Predicate(field, operator, value) ==
  [type |-> "predicate", field |-> field, operator |-> operator, value |-> value]
All(children) == [type |-> "all", children |-> children]
AnyOf(children) == [type |-> "any", children |-> children]
Not(child) == [type |-> "not", child |-> child]

TextOperators == {"exact", "contains", "starts_with", "ends_with"}

OperatorsOf(field) ==
  CASE field \in {"description", "merchant_key"} -> TextOperators
    [] field = "amount_cents" -> {"equal", "greater_than", "greater_or_equal",
                                  "less_than", "less_or_equal"}
    [] field = "transaction_date" -> {"on", "before", "after"}
    [] field \in {"direction", "account_id", "provider_key"} -> {"equal"}

ValidPredicate(p) ==
  /\ p.operator \in OperatorsOf(p.field)
  /\ p.field \in {"description", "merchant_key"} => p.value # <<>>
  /\ p.field = "direction" => p.value \in {"income", "expense", "zero"}
  /\ p.field = "account_id" => p.value > 0
  /\ p.field = "provider_key" => p.value # "none"

RECURSIVE Depth(_), Predicates(_), WellFormed(_)

Depth(node) ==
  CASE node.type = "predicate" -> 1
    [] node.type = "not" -> 1 + Depth(node.child)
    [] OTHER -> 1 + Max({0} \cup {Depth(node.children[i]) : i \in DOMAIN node.children})

\* The predicates of a tree, from left to right.
Predicates(node) ==
  CASE node.type = "predicate" -> <<node>>
    [] node.type = "not" -> Predicates(node.child)
    [] OTHER -> FlattenSeq([i \in DOMAIN node.children |-> Predicates(node.children[i])])

\* Groups have children, predicates an operator and a value of their field.
WellFormed(node) ==
  CASE node.type = "predicate" -> ValidPredicate(node)
    [] node.type = "not" -> WellFormed(node.child)
    [] OTHER -> /\ node.children # <<>>
                /\ \A i \in DOMAIN node.children : WellFormed(node.children[i])

\* parse_condition and _is_valid_tree.  Rules that fail it are not compiled.
ValidTree(node) ==
  /\ WellFormed(node)
  /\ Depth(node) <= MaxTreeDepth
  /\ Len(Predicates(node)) <= MaxPredicates

\* Accounts a rule needs: without one of them it is not compiled.
ReferencedAccounts(node) ==
  LET leaves == Predicates(node)
  IN {leaves[i].value : i \in {j \in DOMAIN leaves : leaves[j].field = "account_id"}}

-----------------------------------------------------------------------------
(* At import.                                                              *)

TextHolds(actual, operator, expected) ==
  CASE operator = "exact" -> actual = expected
    [] operator = "starts_with" -> IsPrefix(expected, actual)
    [] operator = "ends_with" -> IsSuffix(expected, actual)
    [] operator = "contains" ->
         \E i \in 0..(Len(actual) - Len(expected)) :
           SubSeq(actual, i + 1, i + Len(expected)) = expected

NumberHolds(actual, operator, expected) ==
  CASE operator \in {"equal", "on"} -> actual = expected
    [] operator \in {"greater_than", "after"} -> actual > expected
    [] operator = "greater_or_equal" -> actual >= expected
    [] operator \in {"less_than", "before"} -> actual < expected
    [] operator = "less_or_equal" -> actual <= expected

PredicateHolds(p, row) ==
  CASE p.field \in {"description", "merchant_key"} ->
         TextHolds(row[p.field], p.operator, p.value)
    [] p.field \in {"amount_cents", "transaction_date"} ->
         NumberHolds(row[p.field], p.operator, p.value)
    [] p.field \in {"direction", "account_id", "provider_key"} ->
         row[p.field] = p.value

RECURSIVE Evaluate(_, _)
Evaluate(node, row) ==
  CASE node.type = "predicate" -> PredicateHolds(node, row)
    [] node.type = "all" -> \A i \in DOMAIN node.children : Evaluate(node.children[i], row)
    [] node.type = "any" -> \E i \in DOMAIN node.children : Evaluate(node.children[i], row)
    [] node.type = "not" -> ~Evaluate(node.child, row)

\* evaluate_condition: an invalid tree matches nothing, negated or not.
EvaluateCondition(node, row) == ValidTree(node) /\ Evaluate(node, row)

-----------------------------------------------------------------------------
(* Over history, in three values.                                          *)

RECURSIVE EvaluateHistorical(_, _)
EvaluateHistorical(node, row) ==
  LET of == IF node.type \in {"all", "any"}
            THEN {EvaluateHistorical(node.children[i], row) : i \in DOMAIN node.children}
            ELSE {}
  IN CASE node.type = "predicate" ->
            IF node.field = "provider_key" THEN "unknown"
            ELSE IF EvaluateCondition(node, row) THEN "yes" ELSE "no"
       [] node.type = "all" ->
            IF "no" \in of THEN "no" ELSE IF "unknown" \in of THEN "unknown" ELSE "yes"
       [] node.type = "any" ->
            IF "yes" \in of THEN "yes" ELSE IF "unknown" \in of THEN "unknown" ELSE "no"
       [] node.type = "not" ->
            LET child == EvaluateHistorical(node.child, row)
            IN IF child = "unknown" THEN "unknown" ELSE IF child = "yes" THEN "no" ELSE "yes"
=============================================================================
