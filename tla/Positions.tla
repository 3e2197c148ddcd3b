------------------------------ MODULE Positions ------------------------------
(***************************************************************************)
(* Accounts, their balances (app/accounts/service.py) and the net worth    *)
(* that the dashboard makes of them (app/dashboard/service.py).  Balances  *)
(* are entered by hand, or recorded by the confirmation of a statement     *)
(* (Post in ReviewedDocuments); neither is ever changed.                   *)
(***************************************************************************)
EXTENDS Spending

CONSTANTS
  Accounts,    \* ids
  Fixed,       \* account type -> whether it is a liability, for fixed types
  FreeTypes    \* types that the member classifies: "other"

VARIABLES
  account,     \* id -> its type and classification, or NoAccount
  balances     \* the balance snapshots in the order of their ids

NoAccount == [type |-> "none", liability |-> FALSE]
CashTypes == {"checking", "savings"}
AccountTypes == DOMAIN Fixed \cup FreeTypes
Known == {a \in Accounts : account[a] # NoAccount}

\* _validated_account_values.
ValidAccount(type, liability) ==
  type \in FreeTypes \/ (type \in DOMAIN Fixed /\ liability = Fixed[type])

SetAccount(a, type, liability) ==
  /\ ValidAccount(type, liability)
  /\ account' = [account EXCEPT ![a] = [type |-> type, liability |-> liability]]
  /\ UNCHANGED balances

CreateAccount(a, type, liability) ==
  a \notin Known /\ SetAccount(a, type, liability)

UpdateAccount(a, type, liability) ==
  a \in Known /\ SetAccount(a, type, liability)

\* add_manual_balance: not for a date in the future.
AddBalance(a, cents, date, today) ==
  /\ a \in Known
  /\ date <= today
  /\ balances' = Append(balances, [account |-> a, cents |-> cents, date |-> date])
  /\ UNCHANGED account

-----------------------------------------------------------------------------
\* Mutant: the cutoff is forgotten.
EligibleEver(a, cutoff) == {i \in DOMAIN balances : balances[i].account = a}

Eligible(a, cutoff) ==
  {i \in DOMAIN balances : balances[i].account = a /\ balances[i].date <= cutoff}

\* _latest_snapshots: the latest date, and of one date the latest entry.
Latest(a, cutoff) ==
  CHOOSE i \in Eligible(a, cutoff) :
    \A j \in Eligible(a, cutoff) :
      \/ balances[j].date < balances[i].date
      \/ balances[j].date = balances[i].date /\ j <= i

\* _position_summary.
Position(cutoff) ==
  LET with == {a \in Known : Eligible(a, cutoff) # {}}
      Sum(set) == SumOf(set, LAMBDA a : balances[Latest(a, cutoff)].cents)
      assets == {a \in with : ~account[a].liability}
  IN [assets |-> Sum(assets),
      liabilities |-> Sum(with \ assets),
      cash |-> Sum({a \in assets : account[a].type \in CashTypes}),
      missing |-> Cardinality(Known \ with)]

\* build_net_worth_series: past years at their last day, this one at the cutoff.
NetWorthSeries(cutoff) ==
  [y \in Years(cutoff, 5) |->
    Position(IF y = YearOf(cutoff) THEN cutoff ELSE Date(y, 12, 31))]

\* resolve_as_of_date.
AsOf ==
  LET dates == {ledger[t].date : t \in Rows}
                 \cup {balances[i].date : i \in DOMAIN balances}
  IN IF dates = {} THEN FirstDay ELSE Max(dates)
=============================================================================
