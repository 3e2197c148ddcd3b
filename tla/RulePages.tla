----------------------------- MODULE RulePages -----------------------------
(***************************************************************************)
(* Members managing rules from web pages that go stale: app/rules/routes.py *)
(* over RuleSet.  A page shows one rule as it was when the page was loaded *)
(* and submits its lock_version; the list page computes "Move up" and      *)
(* "Move down" from the priority it shows.  A refused submission changes   *)
(* nothing.                                                                *)
(***************************************************************************)
EXTENDS RuleSet

CONSTANTS
  Members,   \* members with a page open
  NoPage

VARIABLES
  page,      \* member -> the rule the open page shows, or NoPage
  written    \* history: the last write from a page and the row it found

vars == <<rule, births, page, written>>

NoWrite == [id |-> 0, shown |-> NoRule, found |-> NoRule, asked |-> "nothing"]

Init ==
  /\ RuleSetInit
  /\ page = [m \in Members |-> NoPage]
  /\ written = NoWrite

\* Rendering the list or the form of rule i.
Open(m, i) ==
  /\ i \in Live
  /\ page' = [page EXCEPT ![m] =
                [id |-> i, row |-> rule[i],
                 isFirst |-> Place(i, Live) = 0,
                 isLast |-> Place(i, Live) = Cardinality(Live) - 1]]
  /\ written' = NoWrite
  /\ UNCHANGED <<rule, births>>

\* The page of m is submitted and the next page replaces it.
Submit(m, asked) ==
  /\ page[m] # NoPage
  /\ page' = [page EXCEPT ![m] = NoPage]
  /\ written' = [id |-> page[m].id, shown |-> page[m].row,
                 found |-> rule[page[m].id], asked |-> asked]

Edit(m, condition, action) ==
  /\ Submit(m, "edit")
  /\ UpdateRule(page[m].id, page[m].row.version, condition, action)

Toggle(m) ==
  /\ Submit(m, "enabled")
  /\ SetRuleEnabled(page[m].id, page[m].row.version, ~page[m].row.enabled)

MoveUp(m) ==
  /\ Submit(m, "up")
  /\ ~page[m].isFirst
  /\ MoveRule(page[m].id, page[m].row.version, page[m].row.priority - 1)

MoveDown(m) ==
  /\ Submit(m, "down")
  /\ ~page[m].isLast
  /\ MoveRule(page[m].id, page[m].row.version, page[m].row.priority + 1)

Delete(m) ==
  /\ Submit(m, "delete")
  /\ DeleteRule(page[m].id, page[m].row.version)

\* Writes that carry no lock_version.
Unversioned ==
  /\ \/ \E c \in Conditions \cup Keys, a \in Actions : CreateRule(c, a)
     \/ \E i \in Live : DuplicateRule(i)
     \/ \E k \in Keys, a \in Actions : UpsertRule(k, a)
  /\ written' = NoWrite
  /\ UNCHANGED page

FromPage(m) ==
  \/ \E i \in RuleIds : Open(m, i)
  \/ \E c \in Conditions \cup Keys, a \in Actions : Edit(m, c, a)
  \/ Toggle(m)
  \/ MoveUp(m)
  \/ MoveDown(m)
  \/ Delete(m)

Next == Unversioned \/ \E m \in Members : FromPage(m)

Spec == Init /\ [][Next]_vars

-----------------------------------------------------------------------------
(* Properties.                                                             *)

Pages == [id : RuleIds, row : Rows, isFirst : BOOLEAN, isLast : BOOLEAN]

\* Types of the rule rows, the open pages and the last write.
TypeOK ==
  /\ RuleSetOK
  /\ page \in [Members -> Pages \cup {NoPage}]
  /\ written.asked \in {"nothing", "edit", "enabled", "up", "down", "delete"}

\* A page that shows an earlier condition, action or switch of a rule that
\* still exists never edits, switches, moves or deletes it: what the write found
\* is what the page showed (the WHERE lock_version clauses,
\* service.py:1696-1798).  The place in the list is not part of it: see
\* StaleSubmissionRefused.
StaleContentRefused ==
  written.asked # "nothing" /\ written.found.born = written.shown.born =>
    Content(written.found) = Content(written.shown)

\* Two rules swap their order of execution only when one of them is moved:
\* inserting, copying, deleting and saving others keeps it.
OrderKept ==
  [][\A i, j \in Live :
       /\ i \in Live' /\ rule'[i].born = rule[i].born
       /\ j \in Live' /\ rule'[j].born = rule[j].born
       /\ Before(i, j) /\ ~Before(i, j)'
       => written'.asked \in {"up", "down"} /\ written'.id \in {i, j}]_vars

\* "Optimistic versions and one workspace-scoped mutation lock prevent a stale
\* edit, reorder, deletion, or historical confirmation from silently winning a
\* race" (src/README.md:464-467).  The rule written is the rule the page showed,
\* and it is moved up or down from the place at which the page showed it.
StaleSubmissionRefused ==
  written.asked # "nothing" =>
    /\ written.found.born = written.shown.born
    /\ written.asked \in {"up", "down"} =>
         written.found.priority = written.shown.priority
=============================================================================
