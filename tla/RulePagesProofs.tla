-------------------------- MODULE RulePagesProofs --------------------------
(***************************************************************************)
(* What TLAPS proves of RulePages, for any number of rules and members.    *)
(***************************************************************************)
EXTENDS RulePages, RuleSetProofs

-----------------------------------------------------------------------------
(* Pages.                                                                  *)

\* What page p shows is what its rule is, or the rule is of a later version,
\* or it is not that rule any more.
Truthful(p) ==
  /\ p.row.born <= births
  /\ (p.id \in Live /\ rule[p.id].born = p.row.born) =>
       \/ rule[p.id].version > p.row.version
       \/ rule[p.id].version = p.row.version /\ Content(rule[p.id]) = Content(p.row)

PagesTruthful == \A m \in Members : page[m] # NoPage => Truthful(page[m])

PageInv == TypeOK /\ RowsOK /\ PrioritiesDense /\ PagesTruthful /\ StaleContentRefused

LEMMA InitPages == Init => PageInv
<1> SUFFICES ASSUME Init
             PROVE  PageInv
  OBVIOUS
<1>1. RuleSetOK /\ Live = {}
  BY RuleAssumption DEF Init, RuleSetInit, RuleSetOK, Live
<1>2. page \in [Members -> Pages \cup {NoPage}] /\ PagesTruthful
  BY DEF Init, PagesTruthful
<1>3. written.asked = "nothing"
  BY DEF Init, NoWrite
<1>4. PrioritiesDense
  BY <1>1, FS_EmptySet DEF PrioritiesDense
<1> QED
  BY <1>1, <1>2, <1>3, <1>4 DEF PageInv, TypeOK, RowsOK, StaleContentRefused

LEMMA PageStaysTruthful ==
  ASSUME RuleSetOK, Evolves, NEW p \in Pages, Truthful(p)
  PROVE  /\ p.row.born <= births'
         /\ (p.id \in Live' /\ rule'[p.id].born = p.row.born) =>
              \/ rule'[p.id].version > p.row.version
              \/ rule'[p.id].version = p.row.version /\ Content(rule'[p.id]) = Content(p.row)
<1>1. p.row \in Rows
  BY DEF Pages
<1>2. \A r \in Rows : r.born \in Nat /\ r.version \in Nat
  BY DEF Rows
<1>3. births \in Nat /\ births' \in {births, births + 1}
  BY RuleAssumption DEF RuleSetOK, Evolves
<1>4. p.row.born <= births'
  BY <1>1, <1>2, <1>3 DEF Truthful
<1>5. ASSUME p.id \in Live', rule'[p.id].born = p.row.born
      PROVE  \/ rule'[p.id].version > p.row.version
             \/ rule'[p.id].version = p.row.version /\ Content(rule'[p.id]) = Content(p.row)
  <2>1. rule'[p.id] \in Rows
    BY <1>5 DEF Live, Evolves
  <2>2. ~(rule'[p.id].born = births + 1)
    BY <1>1, <1>2, <1>3, <1>5 DEF Truthful
  <2>3. p.id \in Live /\ Follows(rule'[p.id], rule[p.id])
    BY <1>5, <2>2 DEF Evolves
  <2>4. rule[p.id] \in Rows
    BY <2>3 DEF Live, RuleSetOK
  <2>5. /\ \/ rule[p.id].version > p.row.version
           \/ rule[p.id].version = p.row.version /\ Content(rule[p.id]) = Content(p.row)
        /\ \/ rule'[p.id].version > rule[p.id].version
           \/ rule'[p.id].version = rule[p.id].version /\ Content(rule'[p.id]) = Content(rule[p.id])
    BY <1>5, <2>3 DEF Truthful, Follows
  <2> QED
    BY <1>1, <1>2, <2>1, <2>4, <2>5
<1> QED
  BY <1>4, <1>5

\* The rules and the pages after any step that keeps or replaces the pages.
LEMMA PagesStayTruthful ==
  ASSUME TypeOK, PagesTruthful, Evolves,
         \A m \in Members : page'[m] # NoPage => page'[m] = page[m]
  PROVE  PagesTruthful'
<1> SUFFICES ASSUME NEW m \in Members, page'[m] # NoPage
             PROVE  Truthful(page[m])'
  BY DEF PagesTruthful
<1>1. page'[m] = page[m] /\ page[m] \in Pages /\ Truthful(page[m])
  BY DEF TypeOK, PagesTruthful
<1>2. /\ page[m].row.born <= births'
      /\ (page[m].id \in Live' /\ rule'[page[m].id].born = page[m].row.born) =>
           \/ rule'[page[m].id].version > page[m].row.version
           \/ /\ rule'[page[m].id].version = page[m].row.version
              /\ Content(rule'[page[m].id]) = Content(page[m].row)
  BY <1>1, PageStaysTruthful DEF TypeOK
<1> QED
  BY <1>1, <1>2 DEF Truthful

\* Every submission from a page.
LEMMA SubmitKeeps ==
  ASSUME PageInv, NEW m \in Members,
         NEW asked \in {"edit", "enabled", "up", "down", "delete"}, Submit(m, asked),
         NEW S, Evolves, Reorders(S), Current(page[m].id, page[m].row.version)
  PROVE  PageInv'
<1>1. page[m] \in Pages /\ page[m] # NoPage /\ page[m].row \in Rows
  BY DEF PageInv, TypeOK, Submit, Pages
<1>2. page' = [page EXCEPT ![m] = NoPage] /\ page \in [Members -> Pages \cup {NoPage}]
  BY DEF Submit, PageInv, TypeOK
<1>3. /\ written'.asked = asked /\ written'.shown = page[m].row
      /\ written'.found = rule[page[m].id]
  BY DEF Submit
<1>4. TypeOK'
  <2>1. RuleSetOK'
    BY EvolvesType
  <2>2. page' \in [Members -> Pages \cup {NoPage}]
    BY <1>2
  <2> QED
    BY <2>1, <2>2, <1>3 DEF TypeOK
<1>5. RowsOK'
  BY RowsEvolve DEF PageInv, TypeOK
<1>6. PagesTruthful'
  BY <1>2, PagesStayTruthful DEF PageInv
<1>7. StaleContentRefused'
  <2>1. Truthful(page[m])
    BY <1>1 DEF PageInv, PagesTruthful
  <2>2. page[m].row.version \in Nat
    BY <1>1 DEF Rows
  <2>3. page[m].id \in Live /\ rule[page[m].id].version = page[m].row.version
    BY DEF Current
  <2>4. rule[page[m].id].born = page[m].row.born =>
          Content(rule[page[m].id]) = Content(page[m].row)
    BY <2>1, <2>2, <2>3 DEF Truthful
  <2> QED
    BY <1>3, <2>4 DEF StaleContentRefused, Content
<1>8. PrioritiesDense'
  BY DEF PageInv, Reorders
<1> QED
  BY <1>4, <1>5, <1>6, <1>7, <1>8 DEF PageInv

LEMMA OpenKeeps ==
  ASSUME PageInv, NEW m \in Members, NEW i \in RuleIds, Open(m, i)
  PROVE  PageInv'
<1> DEFINE first == Place(i, Live) = 0
           last == Place(i, Live) = Cardinality(Live) - 1
<1>1. i \in Live /\ rule[i] \in Rows /\ rule' = rule /\ births' = births
  BY DEF Open, Live, PageInv, TypeOK, RuleSetOK
<1>2. PICK p \in Pages : p.id = i /\ p.row = rule[i] /\ page' = [page EXCEPT ![m] = p]
  <2>1. first \in BOOLEAN /\ last \in BOOLEAN
    OBVIOUS
  <2>2. page' = [page EXCEPT ![m] =
                   [id |-> i, row |-> rule[i], isFirst |-> first, isLast |-> last]]
    BY DEF Open
  <2> HIDE DEF first, last
  <2>3. [id |-> i, row |-> rule[i], isFirst |-> first, isLast |-> last] \in Pages
    BY <1>1, <2>1 DEF Pages
  <2> QED
    BY <2>2, <2>3
<1>3. page \in [Members -> Pages \cup {NoPage}]
  BY DEF PageInv, TypeOK
<1>4. RuleSetOK' /\ RowsOK' /\ Live' = Live
  BY <1>1 DEF PageInv, TypeOK, RuleSetOK, RowsOK, Live
<1>5. written'.asked = "nothing"
  BY DEF Open, NoWrite
<1>6. TypeOK'
  BY <1>2, <1>3, <1>4, <1>5 DEF TypeOK
<1>7. PagesTruthful'
  <2> SUFFICES ASSUME NEW n \in Members, page'[n] # NoPage
               PROVE  Truthful(page[n])'
    BY DEF PagesTruthful
  <2>1. CASE n = m
    <3>1. page'[n] = p
      BY <1>2, <1>3, <2>1
    <3>2. rule[i].born <= births /\ rule[i].version \in Nat
      BY <1>1 DEF PageInv, RowsOK, Rows
    <3> QED
      BY <1>1, <1>2, <1>4, <3>1, <3>2 DEF Truthful
  <2>2. CASE n # m
    <3>1. page'[n] = page[n]
      BY <1>2, <1>3, <2>2
    <3>2. Truthful(page[n])
      BY <3>1 DEF PageInv, PagesTruthful
    <3> QED
      BY <1>1, <1>4, <3>1, <3>2 DEF Truthful
  <2> QED
    BY <2>1, <2>2
<1>8. PrioritiesDense'
  BY <1>1, UnchangedReorders DEF PageInv, Reorders
<1> QED
  BY <1>4, <1>5, <1>6, <1>7, <1>8 DEF PageInv, StaleContentRefused

LEMMA UnversionedEvolves ==
  ASSUME RuleSetOK, RowsOK, Unversioned
  PROVE  Evolves /\ Reorders(Live)
BY CreateEvolves, DuplicateEvolves, UpsertEvolves DEF Unversioned

LEMMA UnversionedKeeps ==
  ASSUME PageInv, Unversioned
  PROVE  PageInv'
<1>1. Evolves /\ Reorders(Live)
  BY UnversionedEvolves DEF PageInv, TypeOK
<1>2. page' = page /\ written'.asked = "nothing"
  BY DEF Unversioned, NoWrite
<1>3. RuleSetOK' /\ RowsOK'
  BY <1>1, EvolvesType, RowsEvolve DEF PageInv, TypeOK
<1>4. TypeOK'
  BY <1>2, <1>3 DEF TypeOK, PageInv
<1>5. PagesTruthful'
  BY <1>1, <1>2, PagesStayTruthful DEF PageInv
<1>6. PrioritiesDense'
  BY <1>1 DEF PageInv, Reorders
<1> QED
  BY <1>2, <1>3, <1>4, <1>5, <1>6 DEF PageInv, StaleContentRefused

LEMMA NextKeeps == PageInv /\ [Next]_vars => PageInv'
<1> SUFFICES ASSUME PageInv, [Next]_vars
             PROVE  PageInv'
  OBVIOUS
<1>1. CASE Unversioned
  BY <1>1, UnversionedKeeps
<1>2. ASSUME NEW m \in Members, FromPage(m)
      PROVE  PageInv'
  <2>0. RuleSetOK /\ (page[m] # NoPage => page[m].row.enabled \in BOOLEAN)
    BY DEF PageInv, TypeOK, Pages, Rows
  <2>1. ASSUME NEW i \in RuleIds, Open(m, i)
        PROVE  PageInv'
    BY <2>1, OpenKeeps
  <2>2. ASSUME NEW c \in Conditions \cup Keys, NEW a \in Actions, Edit(m, c, a)
        PROVE  PageInv'
    <3>1. Evolves /\ Reorders(Live) /\ Current(page[m].id, page[m].row.version)
      BY <2>0, <2>2, UpdateEvolves DEF Edit, UpdateRule
    <3> QED
      BY <2>2, <3>1, SubmitKeeps DEF Edit
  <2>3. CASE Toggle(m)
    <3>1. (~page[m].row.enabled) \in BOOLEAN
      OBVIOUS
    <3>2. Evolves /\ Reorders(Live) /\ Current(page[m].id, page[m].row.version)
      BY <2>0, <2>3, <3>1, SwitchEvolves DEF Toggle, SetRuleEnabled
    <3> QED
      BY <2>3, <3>2, SubmitKeeps DEF Toggle
  <2>4. CASE MoveUp(m)
    <3>1. Evolves /\ Reorders(Live \ {page[m].id}) /\ Current(page[m].id, page[m].row.version)
      BY <2>0, <2>4, MoveEvolves DEF MoveUp, MoveRule
    <3> QED
      BY <2>4, <3>1, SubmitKeeps DEF MoveUp
  <2>5. CASE MoveDown(m)
    <3>1. Evolves /\ Reorders(Live \ {page[m].id}) /\ Current(page[m].id, page[m].row.version)
      BY <2>0, <2>5, MoveEvolves DEF MoveDown, MoveRule
    <3> QED
      BY <2>5, <3>1, SubmitKeeps DEF MoveDown
  <2>6. CASE Delete(m)
    <3>1. Evolves /\ Reorders(Live) /\ Current(page[m].id, page[m].row.version)
      BY <2>0, <2>6, DeleteEvolves DEF Delete, DeleteRule
    <3> QED
      BY <2>6, <3>1, SubmitKeeps DEF Delete
  <2> QED
    BY <1>2, <2>1, <2>2, <2>3, <2>4, <2>5, <2>6 DEF FromPage
<1>3. CASE UNCHANGED vars
  BY <1>3 DEF vars, PageInv, TypeOK, RuleSetOK, RowsOK, Live, PagesTruthful, Truthful,
              StaleContentRefused, PrioritiesDense
<1> QED
  BY <1>1, <1>2, <1>3 DEF Next

LEMMA PagesInvariant == Spec => []PageInv
<1> QED
  BY InitPages, NextKeeps, PTL DEF Spec

\* Types of the rules, the open pages and the last write of the routes of
\* app/rules/routes.py, for any number of rules and members.
THEOREM TypeCorrect == Spec => []TypeOK
<1>1. PageInv => TypeOK
  BY DEF PageInv
<1> QED
  BY <1>1, PagesInvariant, PTL

\* The lock_version clauses of app/rules/service.py:1696-1798 keep a page that
\* shows an earlier condition, action or switch of a rule that still exists from
\* writing it.  They say nothing of its place.
THEOREM NoStaleContentWins == Spec => []StaleContentRefused
<1>1. PageInv => StaleContentRefused
  BY DEF PageInv
<1> QED
  BY <1>1, PagesInvariant, PTL

\* The rules run in a strict order 0, 1, 2, ... after any sequence of creations,
\* copies, moves, deletions and saves for the future (_compact_priorities).
THEOREM OrderIsDense == Spec => []PrioritiesDense
<1>1. PageInv => PrioritiesDense
  BY DEF PageInv
<1> QED
  BY <1>1, PagesInvariant, PTL

OrderStep ==
  \A i, j \in Live :
    /\ i \in Live' /\ rule'[i].born = rule[i].born
    /\ j \in Live' /\ rule'[j].born = rule[j].born
    /\ Before(i, j) /\ ~Before(i, j)'
    => written'.asked \in {"up", "down"} /\ written'.id \in {i, j}

LEMMA KeptIsFine ==
  ASSUME KeepsOrder(Live)
  PROVE  OrderStep
BY DEF KeepsOrder, OrderStep

LEMMA MovedIsFine ==
  ASSUME NEW m \in Members, NEW asked \in {"up", "down"}, Submit(m, asked),
         KeepsOrder(Live \ {page[m].id})
  PROVE  OrderStep
<1>1. written'.asked = asked /\ written'.id = page[m].id
  BY DEF Submit
<1> QED
  BY <1>1 DEF KeepsOrder, OrderStep

LEMMA StepKeepsOrder == PageInv /\ [Next]_vars => [OrderStep]_vars
<1> SUFFICES ASSUME PageInv, Next
             PROVE  OrderStep
  OBVIOUS
<1>0. RuleSetOK /\ RowsOK
  BY DEF PageInv, TypeOK
<1>1. CASE Unversioned
  BY <1>0, <1>1, UnversionedEvolves, KeptIsFine DEF Reorders
<1>2. ASSUME NEW m \in Members, FromPage(m)
      PROVE  OrderStep
  <2>0. page[m] # NoPage => page[m].row.enabled \in BOOLEAN
    BY DEF PageInv, TypeOK, Pages, Rows
  <2>1. ASSUME NEW i \in RuleIds, Open(m, i)
        PROVE  OrderStep
    BY <2>1, UnchangedReorders, KeptIsFine DEF Open, Reorders
  <2>2. ASSUME NEW c \in Conditions \cup Keys, NEW a \in Actions, Edit(m, c, a)
        PROVE  OrderStep
    BY <1>0, <2>2, UpdateEvolves, KeptIsFine DEF Edit, Reorders
  <2>3. CASE Toggle(m)
    <3>1. (~page[m].row.enabled) \in BOOLEAN
      OBVIOUS
    <3> QED
      BY <1>0, <2>3, <3>1, SwitchEvolves, KeptIsFine DEF Toggle, Reorders
  <2>4. CASE MoveUp(m)
    BY <1>0, <2>4, MoveEvolves, MovedIsFine DEF MoveUp, Reorders
  <2>5. CASE MoveDown(m)
    BY <1>0, <2>5, MoveEvolves, MovedIsFine DEF MoveDown, Reorders
  <2>6. CASE Delete(m)
    BY <1>0, <2>6, DeleteEvolves, KeptIsFine DEF Delete, Reorders
  <2> QED
    BY <1>2, <2>1, <2>2, <2>3, <2>4, <2>5, <2>6 DEF FromPage
<1> QED
  BY <1>1, <1>2 DEF Next

\* Two rules swap their order of execution only when one of them is moved:
\* inserting, copying, deleting and saving others keeps it.
THEOREM OrderIsKept == Spec => OrderKept
<1>1. Spec => [][OrderStep]_vars
  BY PagesInvariant, StepKeepsOrder, PTL DEF Spec
<1> QED
  BY <1>1 DEF OrderKept, OrderStep
=============================================================================
