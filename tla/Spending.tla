------------------------------- MODULE Spending -------------------------------
(***************************************************************************)
(* What a workspace spent and earned, as four parts of the program compute *)
(* it: the spending breakdown, the yearly and the monthly cash flow        *)
(* (app/dashboard/service.py), a custom range (app/analytics/service.py),  *)
(* and the transaction search the breakdown links to                       *)
(* (app/transactions/queries.py).  All read one ledger.                    *)
(***************************************************************************)
EXTENDS Calendar, Sequences, FiniteSets, FiniteSetsExt, Functions

CONSTANTS
  Kind,           \* category -> "expense", "income" or "transfer"
  Uncategorized   \* the built-in category of that name, of kind "expense"

VARIABLE
  ledger          \* the transactions by id: date, amount, category, merchant, description

\* The columns that may be empty, and what the reports make of a row without
\* a category, or with one that is not the workspace's.
NoCategory == "no category"
NoMerchant == ""
NoKind == "unknown"

Rows == DOMAIN ledger
Amount(t) == ledger[t].amount
KindOf(t) ==
  IF ledger[t].category = NoCategory THEN NoKind ELSE Kind[ledger[t].category]
SumOf(set, value(_)) == SumFunction([x \in set |-> value(x)])
Spent(set) == SumOf(set, LAMBDA t : -Amount(t))
Earned(set) == SumOf(set, Amount)

\* _period_datetime_predicates and _bounds: through the last instant of the
\* end, which is written without the day after it when there is none.
Within(start, end) == {t \in Rows : start <= ledger[t].date /\ ledger[t].date <= end}

-----------------------------------------------------------------------------
(* The spending breakdown.                                                 *)

\* resolve_spending_period.
PeriodKeys == {"month", "last_6_months", "year_to_date", "last_1_year",
               "last_3_years", "last_5_years"}

PeriodStart(key, month, reference) ==
  CASE key = "month" -> month
    [] key = "last_6_months" -> RollingStart(reference, 6)
    [] key = "year_to_date" -> Date(YearOf(reference), 1, 1)
    [] key = "last_1_year" -> RollingStart(reference, 12)
    [] key = "last_3_years" -> RollingStart(reference, 36)
    [] key = "last_5_years" -> RollingStart(reference, 60)

PeriodEnd(key, month, reference) ==
  IF key = "month" THEN Earlier(MonthEnd(month), reference) ELSE reference

\* A month after the reference date is refused.
Period(key, month, reference) ==
  [start |-> PeriodStart(key, month, reference),
   end |-> PeriodEnd(key, month, reference)]

IsSpending(t) ==
  KindOf(t) = "expense" /\ ledger[t].category # Uncategorized

\* The merchant of a line.  Merchants and descriptions are stored with single
\* spaces and none around them, so that strip() takes nothing away, and a
\* description is never blank.
Label(t) ==
  IF ledger[t].merchant # NoMerchant THEN ledger[t].merchant
  ELSE ledger[t].description

\* build_spending_report: one pass over the outgoing rows of the period.
Report(period) ==
  LET outgoing == {t \in Within(period.start, period.end) :
                     Amount(t) < 0 /\ KindOf(t) # "transfer"}
      counted == {t \in outgoing : IsSpending(t)}
      Line(rows) == [cents |-> Spent(rows), count |-> Cardinality(rows)]
      Of(rows, name(_)) ==
        [n \in {name(t) : t \in rows} |-> Line({t \in rows : name(t) = n})]
  IN [total |-> Line(counted),
      review |-> Cardinality(outgoing \ counted),
      categories |-> Of(counted, LAMBDA t : ledger[t].category),
      merchants |-> Of(counted, Label)]

-----------------------------------------------------------------------------
(* The transaction search behind the links of the breakdown.               *)

NoFilter == "any"

\* The two EXISTS conditions; a row without a category meets neither.
HasSpendingCategory(t) ==
  \E c \in DOMAIN Kind :
    c = ledger[t].category /\ Kind[c] = "expense" /\ c # Uncategorized

HasTransferCategory(t) ==
  \E c \in DOMAIN Kind : c = ledger[t].category /\ Kind[c] = "transfer"

\* Mutant: one condition on the joined category, which has to be there.
NeedsReviewJoined(t) ==
  /\ Amount(t) < 0
  /\ \E c \in DOMAIN Kind :
       /\ c = ledger[t].category /\ Kind[c] # "transfer"
       /\ Kind[c] # "expense" \/ c = Uncategorized

NeedsReview(t) ==
  Amount(t) < 0 /\ ~HasSpendingCategory(t) /\ ~HasTransferCategory(t)

\* merchant_identity = the filter.  SQL's trim takes nothing away either.
IsNamed(t, name) ==
  \/ ledger[t].merchant # NoMerchant /\ name = ledger[t].merchant
  \/ ledger[t].merchant = NoMerchant /\ name = ledger[t].description

\* list_transactions, all its pages, with the filters that links set:
\* review=needed, or direction=expense with spending=only.  The end date is
\* excluded one day later: after the last day of the calendar that day cannot
\* be computed and there is no answer.
Search(period, category, merchant, review) ==
  [answered |-> period.end # LastDay,
   rows |-> {t \in Rows :
              /\ period.start <= ledger[t].date
              /\ ledger[t].date < NextDay(period.end)
              /\ category \in {NoFilter, ledger[t].category}
              /\ merchant = NoFilter \/ IsNamed(t, merchant)
              /\ IF review THEN NeedsReview(t)
                 ELSE Amount(t) < 0 /\ HasSpendingCategory(t)}]

-----------------------------------------------------------------------------
(* Cash flow, three times.                                                 *)

Flow(rows) ==
  LET kept == {t \in rows : KindOf(t) # "transfer"}
      income == {t \in kept : KindOf(t) = "income" /\ Amount(t) > 0}
      spending == {t \in kept : KindOf(t) = "expense" /\ Amount(t) < 0}
  IN [income |-> Earned(income),
      spending |-> Spent(spending),
      review |-> Cardinality(kept \ (income \cup spending)),
      valid |-> income \cup spending # {}]

\* build_cash_flow_series: the years through the cutoff.
Years(cutoff, years) ==
  (IF YearOf(cutoff) - years + 1 < 1 THEN 1 ELSE YearOf(cutoff) - years + 1)
    .. YearOf(cutoff)

YearlyFlow(cutoff) ==
  [y \in Years(cutoff, 5) |->
    Flow({t \in Rows : /\ ledger[t].date <= cutoff
                       /\ YearOf(ledger[t].date) = y})]

\* build_monthly_cash_flow_series: the first days of the months through it.
MonthStarts(cutoff, months) ==
  {ShiftClamped(MonthStart(cutoff), -k) : k \in 0..(months - 1)}

MonthlyFlow(cutoff, months) ==
  [month \in MonthStarts(cutoff, months) |->
    Flow({t \in Rows : /\ ledger[t].date <= cutoff
                       /\ MonthStart(ledger[t].date) = month})]

\* summarize_cash_flow.
RangeFlow(start, end) == Flow(Within(start, end))

\* summarize_recent_cash_flow: where the window begins, worked out anew.
\* Mutant: the window begins on the day it should begin after.
RecentStartIncluded(end, months) ==
  LET index == MonthIndex(end) - months
  IN IF index < 0 THEN FirstDay
     ELSE Earlier(FirstOf(index) + DayOf(end) - 1, MonthEnd(FirstOf(index)))

RecentStart(end, months) ==
  LET index == MonthIndex(end) - months
      shifted == IF index < 0 THEN FirstDay
                 ELSE Earlier(FirstOf(index) + DayOf(end) - 1, MonthEnd(FirstOf(index)))
  IN IF shifted > FirstDay THEN NextDay(shifted) ELSE FirstDay

RecentFlow(end, months) == RangeFlow(RecentStart(end, months), end)
=============================================================================
