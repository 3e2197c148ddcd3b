--------------------------- MODULE DocumentLedger ---------------------------
(***************************************************************************)
(* What reviewed documents promise: a document, however often it is        *)
(* submitted, is opened for review once and then recorded once (one income *)
(* per payslip, one balance snapshot per statement).                       *)
(***************************************************************************)
EXTENDS Naturals

CONSTANT Documents

VARIABLES
  opened,    \* document -> number of rows to review it
  recorded   \* document -> number of incomes or balances it has produced

vars == <<opened, recorded>>

Init ==
  /\ opened = [d \in Documents |-> 0]
  /\ recorded = [d \in Documents |-> 0]

Open(d) ==
  /\ opened[d] = 0
  /\ opened' = [opened EXCEPT ![d] = 1]
  /\ UNCHANGED recorded

Record(d) ==
  /\ opened[d] = 1
  /\ recorded[d] = 0
  /\ recorded' = [recorded EXCEPT ![d] = 1]
  /\ UNCHANGED opened

Next == \E d \in Documents : Open(d) \/ Record(d)

Spec == Init /\ [][Next]_vars
=============================================================================
