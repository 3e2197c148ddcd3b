---------------------------- MODULE Fingerprints ----------------------------
(***************************************************************************)
(* The duplicate fingerprints of app/imports/duplicates.py.  A charge      *)
(* stands for the triple (date, amount_cents, normalized_merchant); the    *)
(* SHA-256 of the versioned payload is taken to be injective, so a         *)
(* fingerprint is the pair <<charge, occurrence>>.  A row the member has   *)
(* unchecked is the value Excluded.                                        *)
(***************************************************************************)
EXTENDS Naturals, Sequences, FiniteSets

CONSTANTS Charges, Excluded

\* How many of the rows up to and including row i carry the charge of row i.
Occurrence(rows, i) == Cardinality({j \in 1..i : rows[j] = rows[i]})

\* Mutant: rows numbered by their place in the statement.
FingerprintByPlace(rows, i) == <<rows[i], i>>

Fingerprint(rows, i) == <<rows[i], Occurrence(rows, i)>>

Included(rows) == {i \in DOMAIN rows : rows[i] # Excluded}

\* Only the rows handed over are numbered: an excluded row takes no number.
FingerprintTransactions(rows) ==
  {Fingerprint(rows, i) : i \in Included(rows)}

\* The charges a form may post for a source with these rows: every row may be
\* kept, corrected to another charge, or unchecked.
RowEdits(rows) == [DOMAIN rows -> Charges \cup {Excluded}]

\* The untouched review page: rows whose fingerprint is known are unchecked.
Offered(rows, known) ==
  [i \in DOMAIN rows |->
     IF Fingerprint(rows, i) \in known THEN Excluded ELSE rows[i]]

Copies(known, charge) == Cardinality({f \in known : f[1] = charge})
=============================================================================
