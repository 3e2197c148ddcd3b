------------------------------ MODULE MCFinances ------------------------------
EXTENDS Finances

CategoryKinds ==
  [groceries |-> "expense", uncategorized |-> "expense",
   salary |-> "income", transfers |-> "transfer"]

SignedAmounts == {-5, 4}

FixedTypes == [checking |-> FALSE, mortgage |-> TRUE]

\* The ends of a February, of a year, of a leap February a year after the first,
\* and of the calendar.
LastDays == {20230228, 20231231, 20240229, LastDay}

\* No two labels have one key, and none has no key.
Keys == [x \in Merchants \cup Descriptions |-> x]

EmptyLedger == {<<>>}

OldCharge(amount, description) ==
  [date |-> 20230228, amount |-> amount, category |-> NoCategory,
   merchant |-> NoMerchant, description |-> description]

\* Nothing, or one charge from before there were categories: a payment of the
\* gym, another charge of it, more than a dollar apart, or the bank's.
OldLedgers ==
  {<<>>, <<OldCharge(-5, "gym")>>, <<OldCharge(-300, "gym")>>, <<OldCharge(-5, "bank")>>}

Plan(target, current, date, monthly) ==
  [target |-> target, current |-> current, date |-> date, monthly |-> monthly]

PlansWithin ==
  {Plan(7, c, d, None) : c \in {0, 7}, d \in {20240131, 20250228}}
    \cup {Plan(7, 0, None, m) : m \in {1, 3}}

\* A thousand dollars, a cent a month.
PlanBeyond == {Plan(100000, 0, None, 1)}
=============================================================================
