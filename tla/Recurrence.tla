------------------------------ MODULE Recurrence ------------------------------
(***************************************************************************)
(* The billing cadence that an import review suggests                      *)
(* (app/recurrence/service.py), from the rows that are reviewed and the    *)
(* charges in the ledger.  A payment is a date, a merchant label and an    *)
(* amount in cents; merchants and amounts of one series are alike.         *)
(***************************************************************************)
EXTENDS Spending

CONSTANT MerchantKey   \* label -> what it is compared by, or NoKey

NoKey == ""

NoPeriod == 0
Periods == <<1, 3, 6, 12>>

Abs(n) == IF n < 0 THEN -n ELSE n

\* One dollar or two per cent; which way a half rounds is left to floats.
AmountTolerance(cents) == Max({100, (Abs(cents) + 25) \div 50})

\* Mutant: days are compared more strictly.
StrictBillingDay(earlier, later) ==
  LET expected == Earlier(DayOf(earlier), DayOf(MonthEnd(later)))
  IN Abs(DayOf(later) - expected) <= 2

BillingDayMatches(earlier, later) ==
  LET expected == Earlier(DayOf(earlier), DayOf(MonthEnd(later)))
  IN Abs(DayOf(later) - expected) <= 5

PeriodMatches(dates, months) ==
  \A i \in 1..(Len(dates) - 1) :
    /\ MonthIndex(dates[i + 1]) - MonthIndex(dates[i]) = months
    /\ BillingDayMatches(dates[i], dates[i + 1])

\* sorted, of a set of dates: at place i the date with i - 1 before it.
Sorted(dates) ==
  [i \in 1..Cardinality(dates) |->
    CHOOSE d \in dates : Cardinality({e \in dates : e < d}) = i - 1]

\* detect_recurrence.
Detect(payment, observations) ==
  LET alike == {o \in observations \cup {payment} :
                  /\ o.cents < 0
                  /\ MerchantKey[o.merchant] = MerchantKey[payment.merchant]
                  /\ Abs(Abs(o.cents) - Abs(payment.cents))
                       <= AmountTolerance(payment.cents)}
      dates == Sorted({o.date : o \in alike})
      found == {i \in DOMAIN Periods : PeriodMatches(dates, Periods[i])}
  IN IF \/ payment.cents >= 0 \/ MerchantKey[payment.merchant] = NoKey
        \/ Len(dates) < 3 \/ found = {}
     THEN NoPeriod
     ELSE Periods[Min(found)]

Payment(t) == [date |-> ledger[t].date, merchant |-> Label(t), cents |-> Amount(t)]

\* Mutant: every outgoing row of the ledger.
HistoryOfAll == {Payment(t) : t \in {u \in Rows : Amount(u) < 0}}

\* The ledger's outgoing rows of an expense category, Uncategorized too; a
\* transfer, and a row without a category, are left out of the join.
History ==
  {Payment(t) : t \in {u \in Rows : Amount(u) < 0 /\ KindOf(u) = "expense"}}

\* suggest_recurrences: history and the rows of the batch itself.
Suggestions(batch) ==
  [payment \in batch |-> Detect(payment, History \cup batch)]
=============================================================================
