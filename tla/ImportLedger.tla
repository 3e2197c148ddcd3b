---------------------------- MODULE ImportLedger ----------------------------
(***************************************************************************)
(* What transaction imports promise, without requests, files or failures:  *)
(* an import is opened once, and then either posted, which adds all of its *)
(* new fingerprints in one step and never again, or withdrawn, which adds  *)
(* nothing.  Both ends are final.                                          *)
(***************************************************************************)
CONSTANT Imports
VARIABLES phase, ledger

ledgerVars == <<phase, ledger>>

KnownFingerprints == {entry.fp : entry \in ledger}

Init ==
  /\ phase = [i \in Imports |-> "absent"]
  /\ ledger = {}

Open(i) ==
  /\ phase[i] = "absent"
  /\ phase' = [phase EXCEPT ![i] = "open"]
  /\ UNCHANGED ledger

\* The set of new fingerprints is left open: any batch of unknown ones.
Post(i) ==
  /\ phase[i] = "open"
  /\ phase' = [phase EXCEPT ![i] = "posted"]
  /\ ledger \subseteq ledger'
  /\ ledger' # ledger
  /\ \A entry \in ledger' \ ledger :
       entry.job = i /\ entry.fp \notin KnownFingerprints

Withdraw(i) ==
  /\ phase[i] = "open"
  /\ phase' = [phase EXCEPT ![i] = "withdrawn"]
  /\ UNCHANGED ledger

Next == \E i \in Imports : Open(i) \/ Post(i) \/ Withdraw(i)

Spec == Init /\ [][Next]_ledgerVars
=============================================================================
