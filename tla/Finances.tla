------------------------------- MODULE Finances -------------------------------
(***************************************************************************)
(* One workspace over time: transactions come in and are recategorized,    *)
(* accounts get balances, budgets and goals are saved, days pass.  What    *)
(* the dashboard, the planning page and the search show is computed from   *)
(* this state whenever they are opened.  Every action is a handler of      *)
(* app/accounts/routes.py or app/planning/routes.py, or the part of an     *)
(* import or of a manual categorization that the reports read.             *)
(***************************************************************************)
EXTENDS Positions, Planning, Recurrence

CONSTANTS
  Days,           \* dates at which something happens
  Amounts,        \* of transactions; never zero
  Merchants,      \* labels that a member or a rule gives
  Descriptions,   \* labels as the bank writes them
  Legacy,         \* ledgers from before rows were categorized, one to start with
  Limits,         \* of budgets
  Balances,       \* amounts of balances
  GoalInputs,     \* what the goal form may hold
  MaxFacts        \* bound of what is entered

\* A row of such a ledger: the columns may be empty, and the reports read them so.
OldRow == [date : Days, amount : Int \ {0}, category : {NoCategory},
           merchant : {NoMerchant}, description : Descriptions \cup Merchants]

\* What forms and files are checked for before it gets here.
ASSUME FinancesAssumption ==
  /\ Days # {} /\ \A d \in Days : IsDate(d)
  /\ Amounts \subseteq Int \ {0}
  /\ Balances \subseteq Int
  /\ Limits \subseteq Nat
  /\ \A c \in DOMAIN Kind : Kind[c] \in {"expense", "income", "transfer"}
  /\ Uncategorized \in DOMAIN Kind /\ Kind[Uncategorized] = "expense"
  /\ NoFilter \notin DOMAIN Kind \cup Merchants \cup Descriptions
  /\ NoCategory \notin DOMAIN Kind /\ NoMerchant \notin Merchants
  /\ \A old \in Legacy : old \in Seq(OldRow)
  /\ \A g \in GoalInputs :
       /\ DOMAIN g = {"target", "current", "date", "monthly"}
       /\ g.target \in Int /\ g.current \in Int /\ g.monthly \in Int
       /\ g.date = None \/ IsDate(g.date)

VARIABLE today

vars == <<today, ledger, account, balances, budgets, goals>>

Months == {MonthStart(d) : d \in Days}
\* Bound: what has been entered; a transaction has many forms and counts twice.
Facts == 2 * Len(ledger) + Cardinality(Known) + Len(balances)
           + Cardinality(DOMAIN budgets) + Cardinality(Planned)

Init ==
  /\ today = Min(Days)
  /\ ledger \in Legacy
  /\ account = [a \in Accounts |-> NoAccount]
  /\ balances = <<>>
  /\ budgets = [k \in {} |-> 0]
  /\ goals = [g \in Goals |-> NoGoal]

\* A committed row; its date may be any.
ImportTransaction(d, amount, c, m, x) ==
  /\ Facts + 1 < MaxFacts
  /\ ledger' = Append(ledger, [date |-> d, amount |-> amount, category |-> c,
                               merchant |-> m, description |-> x])
  /\ UNCHANGED <<today, account, balances, budgets, goals>>

Recategorize(t, c, m) ==
  /\ ledger' = [ledger EXCEPT ![t].category = c, ![t].merchant = m]
  /\ UNCHANGED <<today, account, balances, budgets, goals>>

EditAccount(a, type, liability) ==
  /\ \/ Facts < MaxFacts /\ CreateAccount(a, type, liability)
     \/ UpdateAccount(a, type, liability)
  /\ UNCHANGED <<today, ledger, budgets, goals>>

EnterBalance(a, cents, d) ==
  /\ Facts < MaxFacts
  /\ AddBalance(a, cents, d, today)
  /\ UNCHANGED <<today, ledger, budgets, goals>>

Budget(c, month, cents) ==
  /\ Facts < MaxFacts \/ <<c, month>> \in DOMAIN budgets
  /\ SaveBudget(c, month, cents)
  /\ UNCHANGED <<today, ledger, account, balances>>

EditGoal(id, g) ==
  /\ \/ Facts < MaxFacts /\ CreateGoal(id, g, today)
     \/ UpdateGoal(id, g)
  /\ UNCHANGED <<today, ledger, account, balances>>

PassTime ==
  /\ \E d \in Days : d > today /\ today' = d
  /\ UNCHANGED <<ledger, account, balances, budgets, goals>>

Next ==
  \/ \E d \in Days, amount \in Amounts, c \in DOMAIN Kind, m \in Merchants,
        x \in Descriptions : ImportTransaction(d, amount, c, m, x)
  \/ \E t \in Rows, c \in DOMAIN Kind, m \in Merchants : Recategorize(t, c, m)
  \/ \E a \in Accounts, type \in AccountTypes, l \in BOOLEAN : EditAccount(a, type, l)
  \/ \E a \in Accounts, cents \in Balances, d \in Days : EnterBalance(a, cents, d)
  \/ \E c \in DOMAIN Kind, month \in Months, cents \in Limits : Budget(c, month, cents)
  \/ \E id \in Goals, g \in GoalInputs : EditGoal(id, g)
  \/ PassTime

Spec == Init /\ [][Next]_vars

-----------------------------------------------------------------------------
(* Properties.  Reports are asked for as of any date of Days.              *)

\* Every number of the spending breakdown is that of the transactions its
\* link opens, wherever the search answers: of the whole, of each category, of
\* each merchant, and of the rows that need review.
DrillDownAgrees ==
  \A reference \in Days, key \in PeriodKeys :
    \A month \in IF key = "month" THEN {m \in Months : m <= reference}
                 ELSE {MonthStart(reference)} :
      LET period == Period(key, month, reference)
          report == Report(period)
          Agrees(line, found) ==
            found.answered =>
              line.count = Cardinality(found.rows) /\ line.cents = Spent(found.rows)
          review == Search(period, NoFilter, NoFilter, TRUE)
      IN /\ period.start <= period.end
         /\ Agrees(report.total, Search(period, NoFilter, NoFilter, FALSE))
         /\ \A c \in DOMAIN report.categories :
              Agrees(report.categories[c], Search(period, c, NoFilter, FALSE))
         /\ \A m \in DOMAIN report.merchants :
              Agrees(report.merchants[m], Search(period, NoFilter, m, FALSE))
         /\ review.answered => report.review = Cardinality(review.rows)
         /\ report.total.cents =
              SumOf(DOMAIN report.categories, LAMBDA c : report.categories[c].cents)

\* The income-versus-spending views and the custom range agree: the year so
\* far is the sum of its months and the range from its first day.  The rolling
\* windows of the breakdown leave out of it what is uncategorized, no more.
CashFlowsAgree ==
  \A cutoff \in Days :
    LET year == YearlyFlow(cutoff)[YearOf(cutoff)]
        monthly == MonthlyFlow(cutoff, 12)
        inYear == {m \in DOMAIN monthly : YearOf(m) = YearOf(cutoff)}
        recent == RecentFlow(cutoff, 12)
        rolling == Report(Period("last_1_year", MonthStart(cutoff), cutoff))
        uncategorized ==
          {t \in Within(PeriodStart("last_1_year", 0, cutoff), cutoff) :
             ledger[t].category = Uncategorized /\ Amount(t) < 0}
    IN /\ year = RangeFlow(Date(YearOf(cutoff), 1, 1), cutoff)
       /\ year.income = SumOf(inYear, LAMBDA m : monthly[m].income)
       /\ year.spending = SumOf(inYear, LAMBDA m : monthly[m].spending)
       /\ year.review = SumOf(inYear, LAMBDA m : monthly[m].review)
       /\ recent.spending = rolling.total.cents + Spent(uncategorized)

\* The three months and the selected month on the planning page, where there
\* is one, are what the breakdown shows for these calendar months, and every
\* category that it shows for one of the three is on the page.
BudgetsMatchSpending ==
  \A month \in Months :
    LET page == BudgetReport(month)
        lines == page.lines
        Shown(m) == Report(Period("month", m, MonthEnd(m))).categories
        Cents(c, m) == IF c \in DOMAIN Shown(m) THEN Shown(m)[c].cents ELSE 0
        before == {m \in {MonthStart(ledger[t].date) : t \in Rows} :
                     MonthsThrough(m, month) \in 2..4}
    IN page.shown =>
         /\ UNION {DOMAIN Shown(m) : m \in before} \subseteq DOMAIN lines
         /\ \A c \in DOMAIN lines :
              /\ lines[c].spent = Cents(c, month)
              /\ SumOf(1..3, LAMBDA i : lines[c].monthly[i])
                   = SumOf(before, LAMBDA m : Cents(c, m))
              /\ lines[c].limited =>
                   (lines[c].remaining < 0 <=> Cents(c, month) > budgets[<<c, month>>])

\* A plan that is shown on track reaches its goal: paid each month, this one counted, the amount
\* saved by its date is the target, one payment or one cent less is not; and
\* the date worked out from a contribution asks for no more than it.
PlansReachGoal ==
  \A id \in Planned :
    LET g == goals[id]
        p == Projection(g, today)
    IN p.status = "on_track" =>
         /\ p.date >= today
         /\ p.months = MonthsThrough(today, p.date)
         /\ g.current + p.monthly * p.months >= g.target
         /\ IF g.date = None
            THEN /\ g.current + p.monthly * (p.months - 1) < g.target
                 /\ Need(g, MonthsThrough(today, p.date)) <= g.monthly
            ELSE g.current + (p.monthly - 1) * p.months < g.target

\* A year that is over keeps its net worth: what happens later, and the
\* dashboard moving to a later date, changes the point of no year before,
\* unless a balance of that time is entered late or an account changed.
ClosedYearsStand ==
  [][ \A y \in {YearOf(d) : d \in Days} :
        LET late == {i \in DOMAIN balances' \ DOMAIN balances :
                       YearOf(balances'[i].date) <= y}
        IN (/\ account' = account
            /\ late = {}
            /\ y \in DOMAIN NetWorthSeries(AsOf) /\ y < YearOf(AsOf)
            /\ y \in DOMAIN NetWorthSeries(AsOf)')
             => NetWorthSeries(AsOf)[y] = (NetWorthSeries(AsOf)[y])' ]_vars

\* A charge repeated every 1, 3, 6 or 12 months, on the day it began or the
\* last day of a shorter month, is recognized from its third payment on, and so
\* for each payment of the batch that completes it, when what the ledger has of
\* it is payments of the series and nothing else like them: of this merchant,
\* about this much, in an expense category.
SeriesIsFound ==
  \A start \in Days, i \in DOMAIN Periods, n \in 2..3, m \in Merchants, cents \in Amounts :
    LET due == {ShiftClamped(start, k * Periods[i]) : k \in 0..n}
        alike == {t \in Rows : /\ KindOf(t) = "expense" /\ Amount(t) < 0
                               /\ MerchantKey[Label(t)] = MerchantKey[m]
                               /\ Abs(Amount(t) - cents) <= AmountTolerance(cents)}
        paid == {ledger[t].date : t \in alike}
    IN cents < 0 /\ MerchantKey[m] # NoKey /\ paid \subseteq due =>
         \A later \in {s \in SUBSET due : due = paid \cup s} :
           LET batch == {[date |-> d, merchant |-> m, cents |-> cents] : d \in later}
           IN \A payment \in batch : Suggestions(batch)[payment] = Periods[i]

\* Every goal that the form accepts can be shown: enter a monthly contribution
\* to calculate the target date.
EveryPlanHasADate ==
  \A id \in Planned : Projection(goals[id], today).status # "error"
=============================================================================
