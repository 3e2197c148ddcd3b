------------------------------- MODULE Calendar -------------------------------
(***************************************************************************)
(* The dates of datetime.date, which the reports compute with.  A date is  *)
(* the number its ISO form reads as, 20240229, so that dates are compared  *)
(* as numbers; and the date arithmetic of app/dashboard/service.py and     *)
(* app/planning/service.py.                                                *)
(***************************************************************************)
EXTENDS Integers

MaxYear == 9999
FirstDay == 10101
LastDay == 99991231

Date(y, m, d) == y * 10000 + m * 100 + d
YearOf(date) == date \div 10000
MonthOf(date) == (date \div 100) % 100
DayOf(date) == date % 100

IsLeap(y) == y % 4 = 0 /\ (y % 100 # 0 \/ y % 400 = 0)

DaysIn(y, m) ==
  CASE m = 2 -> IF IsLeap(y) THEN 29 ELSE 28
    [] m \in {4, 6, 9, 11} -> 30
    [] OTHER -> 31

IsDate(date) ==
  /\ date \in Int
  /\ YearOf(date) \in 1..MaxYear /\ MonthOf(date) \in 1..12
  /\ DayOf(date) \in 1..DaysIn(YearOf(date), MonthOf(date))

Earlier(a, b) == IF a <= b THEN a ELSE b

MonthStart(date) == date - DayOf(date) + 1
MonthEnd(date) == date - DayOf(date) + DaysIn(YearOf(date), MonthOf(date))

\* date + timedelta(days=1).
NextDay(date) ==
  IF date < MonthEnd(date) THEN date + 1
  ELSE IF MonthOf(date) = 12 THEN Date(YearOf(date) + 1, 1, 1)
  ELSE MonthStart(date) + 100

\* Months since January of the year 1.
MonthIndex(date) == (YearOf(date) - 1) * 12 + MonthOf(date) - 1
FirstOf(index) == Date((index \div 12) + 1, (index % 12) + 1, 1)

\* The months from one date to another, both counted.
MonthsThrough(start, end) == MonthIndex(end) - MonthIndex(start) + 1

\* The first day of the month that many months away; beyond the last year
\* date() raises.
ShiftMonth(date, months) == FirstOf(MonthIndex(date) + months)
InCalendar(date) == FirstDay <= date /\ YearOf(date) <= MaxYear

\* The same day that many months away, or the last of its month.
ShiftClamped(date, months) ==
  LET first == FirstOf(IF MonthIndex(date) + months < 0 THEN 0
                       ELSE MonthIndex(date) + months)
  IN Earlier(first + DayOf(date) - 1, MonthEnd(first))

\* A window of so many months that ends with the given day.
RollingStart(date, months) ==
  LET shifted == ShiftClamped(date, -months)
  IN IF shifted > FirstDay THEN NextDay(shifted) ELSE FirstDay
=============================================================================
