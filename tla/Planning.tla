------------------------------- MODULE Planning -------------------------------
(***************************************************************************)
(* Budgets and savings goals (app/planning/service.py).                    *)
(***************************************************************************)
EXTENDS Spending

CONSTANT Goals   \* ids

VARIABLES
  budgets,       \* <<category, first day of the month>> -> limit, where there is one
  goals          \* id -> target, current, date and monthly, or NoGoal

None == 0
NoGoal == [target |-> 0, current |-> 0, date |-> None, monthly |-> None]
Planned == {g \in Goals : goals[g] # NoGoal}

-----------------------------------------------------------------------------
(* Budgets.                                                                *)

\* _accessible_expense_categories.
Budgetable == {c \in DOMAIN Kind : Kind[c] = "expense" /\ c # Uncategorized}

\* _spending_by_category_and_month.
SpentIn(c, month) ==
  Spent({t \in Rows : /\ ledger[t].category = c /\ Amount(t) < 0
                      /\ MonthStart(ledger[t].date) = month})

\* Mutant: the selected month is one of the three.
SourceMonthsThrough(month) == <<ShiftMonth(month, -2), ShiftMonth(month, -1), month>>

SourceMonths(month) ==
  <<ShiftMonth(month, -3), ShiftMonth(month, -2), ShiftMonth(month, -1)>>

\* The second of the sorted three.
Median(s) ==
  CHOOSE x \in {s[i] : i \in 1..3} :
    /\ Cardinality({i \in 1..3 : s[i] < x}) <= 1
    /\ Cardinality({i \in 1..3 : s[i] > x}) <= 1

\* build_budget_month_report.  Next to the ends of the calendar a month that it
\* needs is not in it, and there is no page: the three before the selected one,
\* and the one after it.
BudgetReport(month) ==
  LET sources == SourceMonths(month)
      historical == {c \in Budgetable : \E i \in 1..3 : SpentIn(c, sources[i]) > 0}
      limited == {c \in Budgetable : <<c, month>> \in DOMAIN budgets}
      monthly(c) == [i \in 1..3 |-> SpentIn(c, sources[i])]
  IN [shown |-> InCalendar(sources[1]) /\ InCalendar(ShiftMonth(month, 1)),
      lines |->
        [c \in historical \cup limited |->
          [monthly |-> monthly(c),
           suggested |-> (Median(monthly(c)) * 110 + 50) \div 100,
           limited |-> c \in limited,
           spent |-> SpentIn(c, month),
           remaining |-> IF c \in limited THEN budgets[<<c, month>>] - SpentIn(c, month)
                         ELSE 0]]]

SaveBudget(c, month, cents) ==
  /\ c \in Budgetable
  /\ month = MonthStart(month)
  /\ cents >= 0
  /\ budgets' = [k \in DOMAIN budgets \cup {<<c, month>>} |->
                   IF k = <<c, month>> THEN cents ELSE budgets[k]]
  /\ UNCHANGED goals

-----------------------------------------------------------------------------
(* Goals.                                                                  *)

Remaining(g) == IF g.target > g.current THEN g.target - g.current ELSE 0

\* Rounded up.
CeilDiv(n, d) == (n + d - 1) \div d

\* Mutant: rounded down.
NeedDown(g, months) == Remaining(g) \div months

Need(g, months) == CeilDiv(Remaining(g), months)

\* project_goal: the missing value of a plan.  The last month of a plan may be
\* beyond the calendar: then date() raises, and so does the page.
Projection(g, today) ==
  LET months == CeilDiv(Remaining(g), g.monthly)
      last == ShiftMonth(today, months - 1)
      through == MonthsThrough(today, g.date)
  IN CASE Remaining(g) = 0 ->
            [status |-> "completed", date |-> today, monthly |-> 0, months |-> 0]
       [] Remaining(g) > 0 /\ g.date = None /\ InCalendar(last) ->
            [status |-> "on_track", months |-> months, monthly |-> g.monthly,
             date |-> MonthEnd(last)]
       [] Remaining(g) > 0 /\ g.date = None /\ ~InCalendar(last) ->
            [status |-> "error", date |-> None, monthly |-> 0, months |-> 0]
       [] Remaining(g) > 0 /\ g.date # None /\ g.date < today ->
            [status |-> "off_track", date |-> g.date, monthly |-> 0, months |-> 0]
       [] Remaining(g) > 0 /\ g.date # None /\ g.date >= today ->
            [status |-> "on_track", months |-> through, date |-> g.date,
             monthly |-> Need(g, through)]

\* _validated_goal_input: exactly one of date and contribution.
ValidGoal(g) ==
  /\ g.target > 0 /\ g.current >= 0 /\ g.monthly >= 0
  /\ (g.date = None) # (g.monthly = None)

\* A goal is not created with a deadline already missed.
CreateGoal(id, g, today) ==
  /\ id \notin Planned
  /\ ValidGoal(g)
  /\ g.date # None /\ g.date < today => g.current >= g.target
  /\ goals' = [goals EXCEPT ![id] = g]
  /\ UNCHANGED budgets

\* It may be kept with one.
UpdateGoal(id, g) ==
  /\ id \in Planned
  /\ ValidGoal(g)
  /\ goals' = [goals EXCEPT ![id] = g]
  /\ UNCHANGED budgets
=============================================================================
