--------------------------- MODULE MCRuleHistory ---------------------------
(***************************************************************************)
(* Small instances of RuleHistory: one condition that asks for the         *)
(* provider, one merchant key, and an action with and without the custom   *)
(* tag; and conditions in general, over all small trees.                   *)
(***************************************************************************)
EXTENDS RuleImpact, RuleConditions

CONSTANTS t1, t2, k, provider, tag, plain

\* A row imported from one provider, and without a provider.
RowFrom(p) == Row(<<"a", "b">>, <<"A">>, -5, 20240229, 1, p)

\* It holds at import, and cannot be decided over history.
Charged == All(<<Predicate("direction", "equal", "expense"),
                 AnyOf(<<Predicate("provider_key", "equal", "bank"),
                         Predicate("amount_cents", "greater_than", 0)>>)>>)

OneKey == [t \in Txs |-> k]
OverHistory == [c \in Conditions |-> [t \in Txs |-> EvaluateHistorical(Charged, RowFrom("none"))]]
FromProvider == [c \in Conditions |-> [t \in Txs |-> EvaluateCondition(Charged, RowFrom("bank"))]]
DropTag == [a \in Actions |-> plain]

\* The rows have one key and one provider, so they are interchangeable.
Symmetry == Permutations(Txs) \cup Permutations(Previews)

-----------------------------------------------------------------------------
Leaves == {Predicate("provider_key", "equal", "bank"),
           Predicate("description", "contains", <<"b">>),
           Predicate("merchant_key", "starts_with", <<"B">>),
           Predicate("amount_cents", "less_or_equal", -5),
           Predicate("transaction_date", "before", 20240229),
           Predicate("account_id", "equal", 1)}

Grown(trees) ==
  trees \cup {Not(x) : x \in trees}
    \cup {All(<<x, y>>) : x, y \in trees} \cup {AnyOf(<<x, y>>) : x, y \in trees}

\* The verdict over history is that of the import, whatever the provider was,
\* and is withheld only from a tree that asks for the provider.
ASSUME HistoryIsSound ==
  \A tree \in Grown(Leaves) \cup {Not(x) : x \in Grown(Leaves)}
                \cup {All(<<x, Not(y)>>) : x, y \in Grown(Leaves)} :
    LET verdict == EvaluateHistorical(tree, RowFrom("none"))
        leaves == Predicates(tree)
    IN /\ ValidTree(tree)
       /\ \A p \in {"none", "bank", "other"} :
            verdict # "unknown" =>
              EvaluateCondition(tree, RowFrom(p)) = (verdict = "yes")
       /\ verdict = "unknown" =>
            \E i \in DOMAIN leaves : leaves[i].field = "provider_key"

\* Too deep, or empty: no match, and no match for its negation.
ASSUME InvalidMatchesNothing ==
  \A tree \in {Not(Not(Not(Not(x)))) : x \in Leaves} \cup {All(<<>>), AnyOf(<<>>)} :
    /\ ~EvaluateCondition(tree, RowFrom("bank"))
    /\ ~EvaluateCondition(Not(tree), RowFrom("bank"))
=============================================================================
