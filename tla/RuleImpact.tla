------------------------------ MODULE RuleImpact ------------------------------
(***************************************************************************)
(* What members are shown before they save or delete a rule                *)
(* (preview_rule_impact and preview_rule_deletion in app/rules/service.py) *)
(* against what the application of rules to history and the next import    *)
(* then do.  The previews write nothing; they have a code of their own for *)
(* the winning rule.                                                       *)
(***************************************************************************)
EXTENDS RuleHistory

Imported == {t \in Txs : tx[t] # NoTx}
NoWinner == 0
Undecided == -1

\* Mutant: undecided rules are passed over.
WinnerPassingOver(S, t) ==
  LET yes == {i \in S : Outcome(i, t) = "yes"}
  IN IF yes = {} THEN NoWinner ELSE CHOOSE i \in yes : \A j \in yes \ {i} : Before(i, j)

\* _historical_winner_index, _historical_conflict_winner: the first of the
\* rules S to match, unless one that cannot be decided comes before it.
HistoricalWinner(S, t) ==
  LET open == {i \in S : Outcome(i, t) # "no"}
      first == CHOOSE i \in open : \A j \in open \ {i} : Before(i, j)
  IN IF open = {} THEN NoWinner
     ELSE IF Outcome(first, t) = "unknown" THEN Undecided ELSE first

\* preview_rule_deletion; it counts nothing for a rule that is switched off.
DeletionOutcome(i, t) ==
  LET next == HistoricalWinner({j \in Enabled : Before(i, j)}, t)
  IN CASE HistoricalWinner(Enabled, t) = Undecided -> "unavailable"
       [] HistoricalWinner(Enabled, t) \notin {Undecided, i} -> "other winner"
       [] HistoricalWinner(Enabled, t) = i ->
            IF next = Undecided THEN "unavailable"
            ELSE IF next = NoWinner THEN "fallback" ELSE "next rule"

\* Mutant: an edited rule is taken to run last.
HigherThanAll(i) == Enabled \ {i}

\* _higher_priority_rule_ids: a new rule, of id NoWinner, runs last.
Higher(i) == IF i = NoWinner THEN Enabled ELSE {j \in Enabled \ {i} : Before(j, i)}

\* preview_rule_impact of a draft that replaces rule i, or is new.
Impact(i, condition, action, t) ==
  LET verdict == OutcomeOf(condition, t)
      winner == HistoricalWinner(Higher(i), t)
  IN CASE verdict = "unknown" -> "unavailable"
       [] verdict = "no" -> "not matched"
       [] verdict = "yes" ->
            IF tx[t].source = "manual" THEN "manual_protected"
            ELSE IF winner = Undecided THEN "unavailable"
            ELSE IF winner # NoWinner THEN "shadowed"
            ELSE IF tx[t].action = action THEN "unchanged" ELSE "would_change"

-----------------------------------------------------------------------------
\* A deletion does what its review page counted: where it said the fallback
\* or a next rule takes over, an import of that row was decided by this rule
\* and is then decided by none or by another one; where another rule wins the
\* decision stays.
DeletionAsPreviewed ==
  [][ \A i \in Live \ Live' :
        DeleteLinkedRule(i) =>
          \A t \in Imported :
            LET shown == DeletionOutcome(i, t) IN
            /\ i \in Enabled /\ shown \in {"fallback", "next rule"} =>
                 /\ Decision(t).link = i
                 /\ (Decision(t)').link = NoLink <=> shown = "fallback"
            /\ i \notin Enabled \/ shown = "other winner" =>
                 Decision(t)' = Decision(t) ]_vars

\* A saved rule does what its impact page counted: its application to history
\* offers every row that was to change, and besides these only rows it counted
\* as unchanged, whose action stays and whose attribution alone is new.
ImpactForetells ==
  [][ \A i \in {j \in Live' : rule'[j] # rule[j]} :
        LET c == rule'[i].condition
            a == rule'[i].action
            created == i \notin Live /\ CreateRule(c, a)
            edited == i \in Enabled /\ UpdateRule(i, rule[i].version, c, a)
            shown(t) == Impact(IF i \in Live THEN i ELSE NoWinner, c, a, t)
        IN tx' = tx /\ c # FromKey /\ (created \/ edited) =>
             /\ {t \in Imported : shown(t) = "would_change"} \subseteq Eligible(i)'
             /\ \A t \in Eligible(i)' :
                  \/ shown(t) = "would_change"
                  \/ shown(t) = "unchanged" /\ tx[t].action = a ]_vars
=============================================================================
