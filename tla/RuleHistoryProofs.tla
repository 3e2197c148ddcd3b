------------------------- MODULE RuleHistoryProofs -------------------------
(***************************************************************************)
(* What TLAPS proves of RuleHistory, for any number of transactions, rules *)
(* and previews, and any conditions and verdicts.                          *)
(***************************************************************************)
EXTENDS RuleImpact, RuleSetProofs

-----------------------------------------------------------------------------
(* Which rule decides.                                                     *)

\* Some rule of a set runs first.
LEMMA FirstRule ==
  ASSUME RuleSetOK, NEW S \in SUBSET Live, S # {}
  PROVE  \E i \in S : \A j \in S \ {i} : Before(i, j)
<1>1. IsFiniteSet(S) /\ Cardinality(S) \in Nat /\ Cardinality(S) # 0
  BY LiveIsFinite, FS_EmptySet
<1>2. 0 \in 0..(Cardinality(S) - 1)
  BY <1>1
<1>3. PICK i \in S : Place(i, S) = 0
  BY <1>2, PlacesDense
<1>4. {j \in S : Before(j, i)} = {}
  <2>1. IsFiniteSet({j \in S : Before(j, i)})
    BY <1>1, FS_Subset
  <2> QED
    BY <1>3, <2>1, FS_EmptySet DEF Place
<1> QED
  BY <1>4, BeforeIsOrder

LEMMA DecisionByNone ==
  ASSUME NEW t, \A i \in Enabled : ~MatchesAtImport(i, t)
  PROVE  Decision(t) = Categorized("uncategorized", Fallback, NoLink)
BY DEF Decision

LEMMA DecisionByFirst ==
  ASSUME RuleSetOK, NEW t, NEW i \in Enabled, MatchesAtImport(i, t),
         \A j \in Enabled : Before(j, i) => ~MatchesAtImport(j, t)
  PROVE  Decision(t) = Resulting(i)
<1> DEFINE matching == {j \in Enabled : MatchesAtImport(j, t)}
<1>1. i \in matching /\ matching \subseteq Live /\ matching # {}
  BY DEF Enabled
<1>2. \A j \in matching \ {i} : Before(i, j)
  BY <1>1, BeforeIsOrder
<1>3. ASSUME NEW j \in matching, \A l \in matching \ {j} : Before(j, l)
      PROVE  j = i
  BY <1>1, <1>2, <1>3, BeforeIsOrder
<1>4. (CHOOSE j \in matching : \A l \in matching \ {j} : Before(j, l)) = i
  BY <1>1, <1>2, <1>3
<1>5. Decision(t) = Resulting(CHOOSE j \in matching : \A l \in matching \ {j} : Before(j, l))
  BY <1>1 DEF Decision
<1> QED
  BY <1>4, <1>5

\* Rule i is the first enabled one that matches t at import; or none does.
DecidesAtImport(i, t) ==
  /\ i \in Enabled /\ MatchesAtImport(i, t)
  /\ \A j \in Enabled : Before(j, i) => ~MatchesAtImport(j, t)

NoneMatches(t) == \A i \in Enabled : ~MatchesAtImport(i, t)

LEMMA SomeoneDecides ==
  ASSUME RuleSetOK, NEW t
  PROVE  NoneMatches(t) \/ \E i \in Enabled : DecidesAtImport(i, t)
<1> DEFINE matching == {j \in Enabled : MatchesAtImport(j, t)}
<1> SUFFICES ASSUME matching # {}
             PROVE  \E i \in Enabled : DecidesAtImport(i, t)
  BY DEF NoneMatches
<1>1. matching \subseteq Live
  BY DEF Enabled
<1>2. PICK i \in matching : \A j \in matching \ {i} : Before(i, j)
  BY <1>1, FirstRule
<1>3. ASSUME NEW j \in matching, Before(j, i)
      PROVE  FALSE
  <2>1. i \in Live /\ j \in Live
    BY <1>1
  <2>2. j # i
    BY <1>3, <2>1, BeforeIsOrder
  <2>3. Before(i, j)
    BY <1>2, <2>2
  <2> QED
    BY <1>3, <2>1, <2>3, BeforeIsOrder
<1> QED
  BY <1>2, <1>3 DEF DecidesAtImport

\* Stated of any state, so that it can be used of the next one.
LEMMA DecisionFollows ==
  RuleSetOK =>
    \A s \in Txs :
      /\ NoneMatches(s) => Decision(s) = Categorized("uncategorized", Fallback, NoLink)
      /\ \A i \in RuleIds : DecidesAtImport(i, s) => Decision(s) = Resulting(i)
BY DecisionByNone, DecisionByFirst DEF NoneMatches, DecidesAtImport

\* And of the next state.
LEMMA NextDecision ==
  RuleSetOK' =>
    \A s \in Txs :
      /\ NoneMatches(s)' => Decision(s)' = Categorized("uncategorized", Fallback, NoLink)
      /\ \A i \in RuleIds : DecidesAtImport(i, s)' => Decision(s)' = Resulting(i)'
<1>1. (RuleSetOK =>
         \A s \in Txs :
           /\ NoneMatches(s) => Decision(s) = Categorized("uncategorized", Fallback, NoLink)
           /\ \A i \in RuleIds : DecidesAtImport(i, s) => Decision(s) = Resulting(i))'
  BY DecisionFollows, PTL
<1> QED
  BY <1>1

LEMMA DecisionIsOf ==
  ASSUME RuleSetOK, NEW t
  PROVE  \/ Decision(t) = Categorized("uncategorized", Fallback, NoLink)
         \/ \E i \in Enabled : MatchesAtImport(i, t) /\ Decision(t) = Resulting(i)
BY SomeoneDecides, DecisionByNone, DecisionByFirst DEF NoneMatches, DecidesAtImport

LEMMA DecisionType ==
  ASSUME RuleSetOK, NEW t
  PROVE  /\ Decision(t) \in Categorizations
         /\ Decision(t).link # NoLink =>
              Decision(t).link \in Live /\ Decision(t).source = "workspace_rule"
<1>1. Categorized("uncategorized", Fallback, NoLink) \in Categorizations
  BY HistoryAssumption DEF Categorized, Categorizations, Sources, Links
<1>2. ASSUME NEW i \in Enabled
      PROVE  Resulting(i) \in Categorizations /\ Resulting(i).link \in Live
  <2>1. i \in Live /\ i \in RuleIds /\ rule[i].action \in Actions
    BY LiveRows DEF Enabled, Rows
  <2> QED
    BY <2>1 DEF Resulting, Categorized, Categorizations, Sources, Links
<1>3. CASE Decision(t) = Categorized("uncategorized", Fallback, NoLink)
  BY <1>1, <1>3 DEF Categorized
<1>4. CASE \E i \in Enabled : Decision(t) = Resulting(i)
  BY <1>2, <1>4 DEF Resulting, Categorized
<1> QED
  BY <1>3, <1>4, DecisionIsOf

\* What history tells of a rule holds at import.
LEMMA OutcomeTells ==
  ASSUME RuleSetOK, RowsOK, NEW t \in Txs, NEW j \in Live
  PROVE  /\ Outcome(j, t) \in {"yes", "no", "unknown"}
         /\ Outcome(j, t) = "yes" => MatchesAtImport(j, t)
         /\ Outcome(j, t) = "no" => ~MatchesAtImport(j, t)
<1>1. rule[j] \in Rows
  BY LiveRows
<1>2. EffectiveCondition(rule[j]) \in Conditions \cup Keys
  BY <1>1 DEF EffectiveCondition, RowsOK, Rows
<1> QED
  BY <1>2, HistoryAssumption DEF Outcome, OutcomeOf, MatchesAtImport

\* The rule that wins over history is the one that decides at import.
LEMMA WinnerMatches ==
  ASSUME RuleSetOK, RowsOK, NEW t \in Txs, NEW i \in Enabled, WinsOverHistory(i, t)
  PROVE  DecidesAtImport(i, t)
BY OutcomeTells DEF DecidesAtImport, WinsOverHistory, Enabled

LEMMA WinnerDecides ==
  ASSUME RuleSetOK, RowsOK, NEW t \in Txs, NEW i \in Enabled, WinsOverHistory(i, t)
  PROVE  Decision(t) = Resulting(i)
BY WinnerMatches, DecisionByFirst DEF DecidesAtImport

-----------------------------------------------------------------------------
(* Audit events.                                                           *)

Events == [from : Attributions, to : Attributions]

\* The events s form a chain from no attribution to a.
Chain(s, a) ==
  \A e \in 1..(Len(s) + 1) :
    (IF e = 1 THEN Unattributed ELSE s[e - 1].to) = (IF e > Len(s) THEN a ELSE s[e].from)

LEMMA ChainStarts == Chain(<<>>, Unattributed)
BY DEF Chain

LEMMA ChainGrows ==
  ASSUME NEW s \in Seq(Events), NEW a, NEW b, Chain(s, a)
  PROVE  Chain(Append(s, [from |-> a, to |-> b]), b)
<1> DEFINE x == [from |-> a, to |-> b]
           w == Append(s, x)
<1>1. x.from = a /\ x.to = b
  OBVIOUS
<1> HIDE DEF x
<1>2. /\ Len(s) \in Nat /\ Len(w) = Len(s) + 1
      /\ w[Len(s) + 1] = x /\ \A e \in 1..Len(s) : w[e] = s[e]
  OBVIOUS
<1> HIDE DEF w
<1>3. ASSUME NEW e \in 1..(Len(w) + 1)
      PROVE  (IF e = 1 THEN Unattributed ELSE w[e - 1].to) = (IF e > Len(w) THEN b ELSE w[e].from)
  <2>1. CASE e <= Len(s)
    <3>1. w[e] = s[e] /\ (e # 1 => w[e - 1] = s[e - 1])
      BY <1>2, <2>1
    <3> QED
      BY <1>2, <2>1, <3>1 DEF Chain
  <2>2. CASE e = Len(s) + 1
    <3>1. w[e] = x /\ (e # 1 => w[e - 1] = s[e - 1])
      BY <1>2, <2>2
    <3>2. (IF e = 1 THEN Unattributed ELSE s[e - 1].to) = a
      BY <1>2, <2>2 DEF Chain
    <3> QED
      BY <1>1, <1>2, <2>2, <3>1, <3>2
  <2>3. CASE e = Len(s) + 2
    BY <1>1, <1>2, <2>3
  <2> QED
    BY <1>2, <2>1, <2>2, <2>3
<1> QED
  BY <1>3 DEF Chain, w, x

\* A new attribution is logged.
LEMMA LoggedChain ==
  ASSUME NEW t, trail[t] \in Seq(Events),
         NEW a \in Attributions, NEW b \in Attributions, Chain(trail[t], a)
  PROVE  Logged(t, a, b) \in Seq(Events) /\ Chain(Logged(t, a, b), b)
<1>1. CASE a = b
  BY <1>1 DEF Logged
<1>2. CASE a # b
  <2>1. [from |-> a, to |-> b] \in Events
    BY DEF Events
  <2> QED
    BY <1>2, <2>1, ChainGrows DEF Logged
<1> QED
  BY <1>1, <1>2

LEMMA AttributionType ==
  /\ Unattributed \in Attributions
  /\ \A c \in Categorizations : Attribution(c) \in Attributions
  /\ [source |-> "manual", link |-> NoLink] \in Attributions
BY DEF Attribution, Attributions, Categorizations, Unattributed, Sources, Links

LEMMA UnlinkedType ==
  ASSUME NEW i
  PROVE  /\ \A a \in Attributions : Unlinked(a, i) \in Attributions
         /\ \A c \in Categorizations :
              /\ Unlinked(c, i) \in Categorizations
              /\ Unlinked(c, i).source = c.source
              /\ Unlinked(c, i).link = IF c.link = i THEN NoLink ELSE c.link
              /\ Attribution(Unlinked(c, i)) = Unlinked(Attribution(c), i)
         /\ Unlinked(Unattributed, i) = Unattributed
BY DEF Unlinked, Attribution, Attributions, Categorizations, Unattributed, Links

\* Deleting a rule clears its links along the whole chain.
LEMMA UnlinkedChain ==
  ASSUME NEW t, NEW i, trail[t] \in Seq(Events), NEW a, Chain(trail[t], a)
  PROVE  UnlinkedTrail(t, i) \in Seq(Events) /\ Chain(UnlinkedTrail(t, i), Unlinked(a, i))
<1> DEFINE s == trail[t]
           w == UnlinkedTrail(t, i)
<1>1. \A e \in 1..Len(s) : s[e] \in Events
  OBVIOUS
<1>9. \A x \in Events : x.from \in Attributions /\ x.to \in Attributions
  BY DEF Events
<1>2. w = [e \in 1..Len(s) |-> [from |-> Unlinked(s[e].from, i), to |-> Unlinked(s[e].to, i)]]
  BY DEF UnlinkedTrail
<1>3. ASSUME NEW e \in 1..Len(s)
      PROVE  [from |-> Unlinked(s[e].from, i), to |-> Unlinked(s[e].to, i)] \in Events
  BY <1>1, <1>9, UnlinkedType DEF Events
<1>4. Len(s) \in Nat
  OBVIOUS
<1> HIDE DEF s, w
<1>5. w \in [1..Len(s) -> Events]
  BY <1>2, <1>3
<1>6. w \in Seq(Events) /\ Len(w) = Len(s)
  BY <1>4, <1>5
<1>7. \A e \in 1..Len(s) : w[e].from = Unlinked(s[e].from, i) /\ w[e].to = Unlinked(s[e].to, i)
  BY <1>2
<1>8. ASSUME NEW e \in 1..(Len(s) + 1)
      PROVE  (IF e = 1 THEN Unattributed ELSE w[e - 1].to)
               = (IF e > Len(s) THEN Unlinked(a, i) ELSE w[e].from)
  <2>1. (IF e = 1 THEN Unattributed ELSE s[e - 1].to) = (IF e > Len(s) THEN a ELSE s[e].from)
    BY DEF Chain, s
  <2>2. e # 1 => w[e - 1].to = Unlinked(s[e - 1].to, i)
    BY <1>4, <1>7
  <2>3. ~(e > Len(s)) => w[e].from = Unlinked(s[e].from, i)
    BY <1>4, <1>7
  <2> QED
    BY <2>1, <2>2, <2>3, UnlinkedType
<1> QED
  BY <1>6, <1>8 DEF Chain, w

-----------------------------------------------------------------------------
(* The invariant.                                                          *)

\* A row has no events before it is imported and a chain of them afterwards.
TrailsConnected ==
  \A t \in Txs :
    IF tx[t] = NoTx THEN trail[t] = <<>> ELSE Chain(trail[t], Attribution(tx[t]))

RecordsOK ==
  /\ tx \in [Txs -> Categorizations \cup {NoTx}]
  /\ trail \in [Txs -> Seq(Events)]
  /\ review \in [Txs -> Categorizations \cup {NoReview}]

RunsOK ==
  /\ DOMAIN run = Previews
  /\ \A n \in Previews : run[n] = NoRun \/ IsRun(run[n])

HistoryInv ==
  /\ RuleSetOK /\ RowsOK
  /\ RecordsOK /\ RunsOK
  /\ LinksAreLive /\ TrailsConnected
  /\ tagged \in BOOLEAN

LEMMA InitHistory == Init => HistoryInv
<1> SUFFICES ASSUME Init
             PROVE  HistoryInv
  OBVIOUS
<1>1. RuleSetOK /\ RowsOK
  BY RuleAssumption DEF Init, RuleSetInit, RuleSetOK, RowsOK, Live
<1>2. <<>> \in Seq(Events)
  OBVIOUS
<1>3. RecordsOK
  BY <1>2 DEF Init, RecordsOK
<1>4. RunsOK /\ LinksAreLive /\ TrailsConnected /\ tagged \in BOOLEAN
  BY DEF Init, RunsOK, LinksAreLive, TrailsConnected
<1> QED
  BY <1>1, <1>3, <1>4 DEF HistoryInv

\* The categorization c, with the trail w, is what a transaction may carry.
Sound(c, w) ==
  /\ c \in Categorizations
  /\ w \in Seq(Events) /\ Chain(w, Attribution(c))
  /\ c.link # NoLink => c.link \in Live' /\ c.source = "workspace_rule"

\* Every transaction keeps what it has or gets something sound.
LEMMA RecordsStep ==
  ASSUME HistoryInv, DOMAIN tx' = Txs, DOMAIN trail' = Txs,
         tx' = [t \in Txs |-> tx'[t]], trail' = [t \in Txs |-> trail'[t]],
         \A t \in Txs : \/ Sound(tx'[t], trail'[t])
                        \/ tx'[t] = NoTx /\ tx[t] = NoTx /\ trail'[t] = trail[t]
  PROVE  /\ tx' \in [Txs -> Categorizations \cup {NoTx}]
         /\ trail' \in [Txs -> Seq(Events)]
         /\ LinksAreLive' /\ TrailsConnected'
<1>1. \A t \in Txs : tx'[t] \in Categorizations \cup {NoTx} /\ trail'[t] \in Seq(Events)
  BY DEF Sound, HistoryInv, RecordsOK
<1>2. LinksAreLive'
  BY DEF Sound, LinksAreLive
<1>3. TrailsConnected'
  BY HistoryAssumption DEF Sound, TrailsConnected, HistoryInv
<1> QED
  BY <1>1, <1>2, <1>3

\* Nothing happens to the transactions and no rule goes.
LEMMA RecordsStay ==
  ASSUME HistoryInv, UNCHANGED <<tx, trail>>, Live \subseteq Live'
  PROVE  /\ tx' \in [Txs -> Categorizations \cup {NoTx}]
         /\ trail' \in [Txs -> Seq(Events)]
         /\ LinksAreLive' /\ TrailsConnected'
BY DEF HistoryInv, RecordsOK, LinksAreLive, TrailsConnected

\* A transaction that a step leaves alone is sound, or not imported yet.
LEMMA OthersSound ==
  ASSUME HistoryInv, NEW t \in Txs, Live \subseteq Live'
  PROVE  Sound(tx[t], trail[t]) \/ tx[t] = NoTx
BY DEF HistoryInv, RecordsOK, LinksAreLive, TrailsConnected, Sound

LEMMA RulesStay ==
  ASSUME HistoryInv, UNCHANGED ruleVars
  PROVE  RuleSetOK' /\ RowsOK' /\ Live' = Live
BY DEF HistoryInv, ruleVars, RuleSetOK, RowsOK, Live

LEMMA RulesEvolve ==
  ASSUME HistoryInv, Evolves
  PROVE  RuleSetOK' /\ RowsOK'
BY EvolvesType, RowsEvolve DEF HistoryInv

-----------------------------------------------------------------------------
(* The steps.                                                              *)

LEMMA ReviewKeeps ==
  ASSUME HistoryInv, NEW t \in Txs, ReviewRow(t)
  PROVE  HistoryInv'
<1>1. RuleSetOK' /\ RowsOK' /\ Live' = Live
  BY RulesStay DEF ReviewRow
<1>2. /\ tx' \in [Txs -> Categorizations \cup {NoTx}] /\ trail' \in [Txs -> Seq(Events)]
      /\ LinksAreLive' /\ TrailsConnected'
  BY <1>1, RecordsStay DEF ReviewRow
<1>3. Decision(t) \in Categorizations
  BY DecisionType DEF HistoryInv
<1>4. review' \in [Txs -> Categorizations \cup {NoReview}]
  BY <1>3 DEF ReviewRow, HistoryInv, RecordsOK
<1>5. RunsOK' /\ tagged' \in BOOLEAN
  BY DEF ReviewRow, HistoryInv, RunsOK
<1> QED
  BY <1>1, <1>2, <1>4, <1>5 DEF HistoryInv, RecordsOK

\* What a commit writes, it may: a link only of the rule that decides now.
LEMMA ReviewedType ==
  ASSUME HistoryInv, NEW t \in Txs, NEW a \in Actions, review[t] # NoReview
  PROVE  /\ ReviewedFields(t, a) \in Categorizations
         /\ ReviewedFields(t, a).link # NoLink =>
              /\ ReviewedFields(t, a).link \in Live
              /\ ReviewedFields(t, a).source = "workspace_rule"
<1>1. review[t] \in Categorizations
  BY DEF HistoryInv, RecordsOK
<1>2. CASE a # review[t].action
  BY <1>2 DEF ReviewedFields, Categorized, Categorizations, Sources, Links
<1>3. CASE a = review[t].action
  <2>1. ReviewedFields(t, a) =
          Categorized(review[t].source, a,
                      IF Decision(t) = review[t] THEN review[t].link ELSE NoLink)
    BY <1>3 DEF ReviewedFields
  <2>2. CASE Decision(t) = review[t]
    BY <1>1, <2>1, <2>2, DecisionType DEF HistoryInv, Categorized, Categorizations
  <2>3. CASE Decision(t) # review[t]
    BY <1>1, <2>1, <2>3 DEF Categorized, Categorizations, Links
  <2> QED
    BY <2>2, <2>3
<1> QED
  BY <1>2, <1>3

LEMMA CommitKeeps ==
  ASSUME HistoryInv, NEW t \in Txs, NEW a \in Actions, CommitRow(t, a)
  PROVE  HistoryInv'
<1> DEFINE new == ReviewedFields(t, a)
<1>1. RuleSetOK' /\ RowsOK' /\ Live' = Live
  BY RulesStay DEF CommitRow
<1>2. new \in Categorizations /\ (new.link # NoLink => new.link \in Live /\ new.source = "workspace_rule")
  BY ReviewedType DEF CommitRow
<1>3. /\ tx' = [tx EXCEPT ![t] = new]
      /\ trail' = [trail EXCEPT ![t] = Logged(t, Unattributed, Attribution(new))]
  BY DEF CommitRow
<1> HIDE DEF new
<1>4. trail[t] = <<>> /\ trail[t] \in Seq(Events)
  BY DEF CommitRow, HistoryInv, TrailsConnected, RecordsOK
<1>5. /\ Logged(t, Unattributed, Attribution(new)) \in Seq(Events)
      /\ Chain(Logged(t, Unattributed, Attribution(new)), Attribution(new))
  BY <1>2, <1>4, ChainStarts, LoggedChain, AttributionType
<1>6. Sound(new, Logged(t, Unattributed, Attribution(new)))
  BY <1>1, <1>2, <1>5 DEF Sound
<1>7. tx \in [Txs -> Categorizations \cup {NoTx}] /\ trail \in [Txs -> Seq(Events)]
  BY DEF HistoryInv, RecordsOK
<1>8. ASSUME NEW s \in Txs
      PROVE  \/ Sound(tx'[s], trail'[s])
             \/ tx'[s] = NoTx /\ tx[s] = NoTx /\ trail'[s] = trail[s]
  <2>1. CASE s = t
    BY <1>3, <1>6, <1>7, <2>1
  <2>2. CASE s # t
    <3>1. tx'[s] = tx[s] /\ trail'[s] = trail[s]
      BY <1>3, <1>7, <2>2
    <3> QED
      BY <1>1, <3>1, OthersSound
  <2> QED
    BY <2>1, <2>2
<1>9. /\ tx' \in [Txs -> Categorizations \cup {NoTx}] /\ trail' \in [Txs -> Seq(Events)]
      /\ LinksAreLive' /\ TrailsConnected'
  BY <1>3, <1>7, <1>8, RecordsStep
<1>10. review' \in [Txs -> Categorizations \cup {NoReview}]
  BY DEF CommitRow, HistoryInv, RecordsOK
<1>11. RunsOK' /\ tagged' \in BOOLEAN
  BY DEF CommitRow, HistoryInv, RunsOK
<1> QED
  BY <1>1, <1>9, <1>10, <1>11 DEF HistoryInv, RecordsOK

LEMMA ManualKeeps ==
  ASSUME HistoryInv, NEW t \in Txs, NEW a \in Actions, Manual(t, a)
  PROVE  HistoryInv'
<1> DEFINE new == Categorized("manual", a, NoLink)
<1>1. RuleSetOK' /\ RowsOK' /\ Live \subseteq Live'
  <2>1. CASE UNCHANGED ruleVars
    BY <2>1, RulesStay
  <2>2. CASE UpsertRule(KeyOf[t], a)
    <3>1. KeyOf[t] \in Keys
      BY HistoryAssumption
    <3> QED
      BY <2>2, <3>1, UpsertEvolves, RulesEvolve DEF HistoryInv
  <2> QED
    BY <2>1, <2>2 DEF Manual
<1>2. new \in Categorizations /\ new.link = NoLink
      /\ Attribution(new) = [source |-> "manual", link |-> NoLink]
  BY DEF Categorized, Categorizations, Sources, Links, Attribution
<1>3. /\ tx' = [tx EXCEPT ![t] = new]
      /\ trail' = [trail EXCEPT ![t] = Logged(t, Attribution(tx[t]), Attribution(new))]
  BY <1>2 DEF Manual, ManualTrail
<1> HIDE DEF new
<1>4. /\ trail[t] \in Seq(Events) /\ Chain(trail[t], Attribution(tx[t]))
      /\ tx[t] \in Categorizations
  BY DEF Manual, HistoryInv, TrailsConnected, RecordsOK
<1>5. /\ Logged(t, Attribution(tx[t]), Attribution(new)) \in Seq(Events)
      /\ Chain(Logged(t, Attribution(tx[t]), Attribution(new)), Attribution(new))
  BY <1>2, <1>4, LoggedChain, AttributionType
<1>6. Sound(new, Logged(t, Attribution(tx[t]), Attribution(new)))
  BY <1>2, <1>5 DEF Sound
<1>7. tx \in [Txs -> Categorizations \cup {NoTx}] /\ trail \in [Txs -> Seq(Events)]
  BY DEF HistoryInv, RecordsOK
<1>8. ASSUME NEW s \in Txs
      PROVE  \/ Sound(tx'[s], trail'[s])
             \/ tx'[s] = NoTx /\ tx[s] = NoTx /\ trail'[s] = trail[s]
  <2>1. CASE s = t
    BY <1>3, <1>6, <1>7, <2>1
  <2>2. CASE s # t
    <3>1. tx'[s] = tx[s] /\ trail'[s] = trail[s]
      BY <1>3, <1>7, <2>2
    <3> QED
      BY <1>1, <3>1, OthersSound
  <2> QED
    BY <2>1, <2>2
<1>9. /\ tx' \in [Txs -> Categorizations \cup {NoTx}] /\ trail' \in [Txs -> Seq(Events)]
      /\ LinksAreLive' /\ TrailsConnected'
  BY <1>3, <1>7, <1>8, RecordsStep
<1>10. review' = review /\ RunsOK' /\ tagged' \in BOOLEAN
  BY DEF Manual, HistoryInv, RunsOK
<1> QED
  BY <1>1, <1>9, <1>10 DEF HistoryInv, RecordsOK

LEMMA WriteKeeps ==
  ASSUME HistoryInv, WriteRule
  PROVE  HistoryInv'
<1>1. Usable \subseteq Actions
  BY DEF Usable
<1>2. RuleSetOK /\ RowsOK
  BY DEF HistoryInv
<1>3. Evolves /\ Live \subseteq Live'
  <2>1. ASSUME NEW c \in Conditions \cup Keys, NEW a \in Usable, CreateRule(c, a)
        PROVE  Evolves /\ Live \subseteq Live'
    BY <1>1, <1>2, <2>1, CreateEvolves
  <2>2. ASSUME NEW i \in Live, NEW c \in Conditions \cup Keys, NEW a \in Usable,
               UpdateRule(i, rule[i].version, c, a)
        PROVE  Evolves /\ Live \subseteq Live'
    BY <1>1, <1>2, <2>2, UpdateEvolves
  <2>3. ASSUME NEW i \in Live, SetRuleEnabled(i, rule[i].version, ~rule[i].enabled)
        PROVE  Evolves /\ Live \subseteq Live'
    <3>1. (~rule[i].enabled) \in BOOLEAN
      OBVIOUS
    <3> QED
      BY <1>2, <2>3, <3>1, SwitchEvolves
  <2>4. ASSUME NEW i \in Live, NEW k \in 0..(Cardinality(Live) - 1),
               MoveRule(i, rule[i].version, k)
        PROVE  Evolves /\ Live \subseteq Live'
    BY <1>2, <2>4, MoveEvolves
  <2>5. ASSUME NEW i \in Live, DuplicateRule(i)
        PROVE  Evolves /\ Live \subseteq Live'
    BY <1>2, <2>5, DuplicateEvolves
  <2> QED
    BY <2>1, <2>2, <2>3, <2>4, <2>5 DEF WriteRule
<1>4. RuleSetOK' /\ RowsOK'
  BY <1>3, RulesEvolve
<1>5. /\ tx' \in [Txs -> Categorizations \cup {NoTx}] /\ trail' \in [Txs -> Seq(Events)]
      /\ LinksAreLive' /\ TrailsConnected'
  BY <1>3, RecordsStay DEF WriteRule
<1>6. review' = review /\ RunsOK' /\ tagged' \in BOOLEAN
  BY DEF WriteRule, HistoryInv, RunsOK
<1> QED
  BY <1>4, <1>5, <1>6 DEF HistoryInv, RecordsOK

LEMMA DeleteKeeps ==
  ASSUME HistoryInv, NEW i, DeleteLinkedRule(i)
  PROVE  HistoryInv'
<1>1. Evolves /\ Live' = Live \ {i}
  BY DeleteEvolves DEF DeleteLinkedRule, HistoryInv
<1>2. RuleSetOK' /\ RowsOK'
  BY <1>1, RulesEvolve
<1>3. /\ tx' = [t \in Txs |-> IF tx[t] = NoTx THEN NoTx ELSE Unlinked(tx[t], i)]
      /\ trail' = [t \in Txs |-> UnlinkedTrail(t, i)]
  BY DEF DeleteLinkedRule
<1>4. ASSUME NEW t \in Txs
      PROVE  \/ Sound(tx'[t], trail'[t])
             \/ tx'[t] = NoTx /\ tx[t] = NoTx /\ trail'[t] = trail[t]
  <2>1. trail[t] \in Seq(Events)
    BY DEF HistoryInv, RecordsOK
  <2>2. CASE tx[t] = NoTx
    <3>1. trail[t] = <<>>
      BY <2>2 DEF HistoryInv, TrailsConnected
    <3>2. DOMAIN trail[t] = {}
      BY <3>1
    <3>3. UnlinkedTrail(t, i) = <<>>
      <4>1. UnlinkedTrail(t, i) \in Seq(Events) /\ Len(trail[t]) = 0
        BY <2>1, <3>1, UnlinkedChain, ChainStarts
      <4>2. DOMAIN UnlinkedTrail(t, i) = {}
        BY <3>2 DEF UnlinkedTrail
      <4> QED
        BY <4>1, <4>2
    <3> QED
      BY <1>3, <2>2, <3>1, <3>3
  <2>3. CASE tx[t] # NoTx
    <3>1. tx[t] \in Categorizations /\ Chain(trail[t], Attribution(tx[t]))
          /\ (tx[t].link # NoLink => tx[t].link \in Live /\ tx[t].source = "workspace_rule")
      BY <2>3 DEF HistoryInv, RecordsOK, TrailsConnected, LinksAreLive
    <3>2. /\ UnlinkedTrail(t, i) \in Seq(Events)
          /\ Chain(UnlinkedTrail(t, i), Unlinked(Attribution(tx[t]), i))
      BY <2>1, <3>1, UnlinkedChain
    <3> DEFINE c == Unlinked(tx[t], i)
    <3>4. /\ c \in Categorizations /\ c.source = tx[t].source
          /\ c.link = IF tx[t].link = i THEN NoLink ELSE tx[t].link
          /\ Attribution(c) = Unlinked(Attribution(tx[t]), i)
      BY <3>1, UnlinkedType
    <3> HIDE DEF c
    <3>3. Sound(c, UnlinkedTrail(t, i))
      BY <1>1, <3>1, <3>2, <3>4 DEF Sound
    <3> QED
      BY <1>3, <2>3, <3>3 DEF c
  <2> QED
    BY <2>2, <2>3
<1>5. /\ tx' \in [Txs -> Categorizations \cup {NoTx}] /\ trail' \in [Txs -> Seq(Events)]
      /\ LinksAreLive' /\ TrailsConnected'
  BY <1>3, <1>4, RecordsStep
<1>6. review' = review /\ RunsOK' /\ tagged' \in BOOLEAN
  BY DEF DeleteLinkedRule, HistoryInv, RunsOK
<1> QED
  BY <1>2, <1>5, <1>6 DEF HistoryInv, RecordsOK

LEMMA TagKeeps ==
  ASSUME HistoryInv, DeleteTag
  PROVE  HistoryInv'
<1>1. ASSUME NEW i \in Live
      PROVE  /\ [rule[i] EXCEPT !.action = Untagged[@]] \in Rows
             /\ rule'[i] = [rule[i] EXCEPT !.action = Untagged[@]]
             /\ rule'[i].key = rule[i].key /\ rule'[i].condition = rule[i].condition
             /\ rule'[i].born = rule[i].born
  <2>1. rule[i] \in Rows /\ i \in RuleIds /\ rule[i].action \in Actions
    BY LiveRows DEF HistoryInv, Rows
  <2>2. Untagged[rule[i].action] \in Actions
    BY <2>1, HistoryAssumption
  <2>3. rule'[i] = [rule[i] EXCEPT !.action = Untagged[@]]
    BY <2>1 DEF DeleteTag
  <2> QED
    BY <2>1, <2>2, <2>3 DEF Rows
<1>2. \A i \in RuleIds \ Live : rule'[i] = NoRule
  BY DEF DeleteTag
<1>3. rule' \in [RuleIds -> Rows \cup {NoRule}] /\ Live' = Live
  <2>1. rule' = [i \in RuleIds |-> rule'[i]]
    BY DEF DeleteTag
  <2>2. \A i \in Live : rule'[i] \in Rows
    BY <1>1
  <2>3. \A i \in RuleIds : rule'[i] \in Rows \cup {NoRule}
    BY <1>2, <2>2
  <2>4. Live' = Live
    BY <1>2, <2>2, RowAssumption DEF Live
  <2> QED
    BY <2>1, <2>3, <2>4
<1>4. RuleSetOK' /\ RowsOK'
  <2>1. RuleSetOK /\ RowsOK /\ births' = births
    BY DEF HistoryInv, DeleteTag
  <2>2. RuleSetOK'
    BY <1>3, <2>1 DEF RuleSetOK
  <2>3. RowsOK'
    BY <1>1, <1>3, <2>1 DEF RowsOK
  <2> QED
    BY <2>2, <2>3
<1>5. tx' = [t \in Txs |-> IF tx[t] = NoTx THEN NoTx ELSE [tx[t] EXCEPT !.action = Untagged[@]]]
      /\ trail' = trail
  BY DEF DeleteTag
<1>6. ASSUME NEW t \in Txs
      PROVE  \/ Sound(tx'[t], trail'[t])
             \/ tx'[t] = NoTx /\ tx[t] = NoTx /\ trail'[t] = trail[t]
  <2>1. CASE tx[t] = NoTx
    BY <1>5, <2>1
  <2>2. CASE tx[t] # NoTx
    <3>1. tx[t] \in Categorizations /\ tx[t].action \in Actions /\ trail[t] \in Seq(Events)
      BY <2>2 DEF HistoryInv, RecordsOK, Categorizations
    <3>2. Untagged[tx[t].action] \in Actions
      BY <3>1, HistoryAssumption
    <3> DEFINE c == [tx[t] EXCEPT !.action = Untagged[@]]
    <3>3. /\ c \in Categorizations /\ c.link = tx[t].link /\ c.source = tx[t].source
          /\ Attribution(c) = Attribution(tx[t])
      BY <3>1, <3>2 DEF Categorizations, Attribution
    <3>4. tx'[t] = c
      BY <1>5, <2>2
    <3> HIDE DEF c
    <3>5. Sound(c, trail[t])
      BY <1>3, <2>2, <3>1, <3>3 DEF Sound, HistoryInv, LinksAreLive, TrailsConnected
    <3> QED
      BY <1>5, <3>4, <3>5
  <2> QED
    BY <2>1, <2>2
<1>7. trail' = [t \in Txs |-> trail'[t]]
  BY <1>5 DEF HistoryInv, RecordsOK
<1>8. /\ tx' \in [Txs -> Categorizations \cup {NoTx}] /\ trail' \in [Txs -> Seq(Events)]
      /\ LinksAreLive' /\ TrailsConnected'
  BY <1>5, <1>6, <1>7, RecordsStep
<1>9. review' = review /\ RunsOK' /\ tagged' \in BOOLEAN
  BY DEF DeleteTag, HistoryInv, RunsOK
<1> QED
  BY <1>4, <1>8, <1>9 DEF HistoryInv, RecordsOK

LEMMA PreviewKeeps ==
  ASSUME HistoryInv, NEW n \in Previews, NEW i \in RuleIds, NEW S \in SUBSET Txs,
         Preview(n, i, S)
  PROVE  HistoryInv'
<1>1. RuleSetOK' /\ RowsOK' /\ Live' = Live
  BY RulesStay DEF Preview
<1>2. /\ tx' \in [Txs -> Categorizations \cup {NoTx}] /\ trail' \in [Txs -> Seq(Events)]
      /\ LinksAreLive' /\ TrailsConnected'
  BY <1>1, RecordsStay DEF Preview
<1> DEFINE r == [status |-> "previewed", rule |-> i, version |-> rule[i].version,
                 current |-> [t \in S |-> tx[t]], resulting |-> Resulting(i)]
<1>3. IsRun(r)
  <2>1. i \in Live /\ rule[i] \in Rows
    BY LiveRows DEF Preview, Enabled, HistoryInv
  <2>2. Resulting(i) \in Categorizations /\ rule[i].version \in 1..MaxVersion
    BY <2>1 DEF Resulting, Categorized, Categorizations, Sources, Links, Rows
  <2>3. \A t \in S : tx[t] \in Categorizations
    BY DEF Preview, Eligible, HistoryInv, RecordsOK
  <2> QED
    BY <2>2, <2>3 DEF IsRun
<1>4. RunsOK'
  BY <1>3 DEF Preview, HistoryInv, RunsOK
<1>5. review' = review /\ tagged' \in BOOLEAN
  BY DEF Preview, HistoryInv
<1> QED
  BY <1>1, <1>2, <1>4, <1>5 DEF HistoryInv, RecordsOK

\* The audit row of a preview that was answered.
LEMMA AnsweredRun ==
  ASSUME HistoryInv, NEW n \in Previews, run[n] # NoRun, NEW s \in {"confirmed", "stale"},
         run' = [run EXCEPT ![n].status = s]
  PROVE  RunsOK'
<1>1. IsRun(run[n])
  BY DEF HistoryInv, RunsOK
<1> DEFINE r == [run[n] EXCEPT !.status = s]
<1>2. /\ DOMAIN r = {"status", "rule", "version", "current", "resulting"}
      /\ r.status = s /\ r.rule = run[n].rule /\ r.version = run[n].version
      /\ r.current = run[n].current /\ r.resulting = run[n].resulting
  BY <1>1 DEF IsRun
<1>3. run' = [run EXCEPT ![n] = r]
  OBVIOUS
<1> HIDE DEF r
<1>4. IsRun(r)
  BY <1>1, <1>2 DEF IsRun
<1> QED
  BY <1>3, <1>4 DEF HistoryInv, RunsOK

LEMMA StaleKeeps ==
  ASSUME HistoryInv, NEW n \in Previews, ConfirmStale(n)
  PROVE  HistoryInv'
<1>1. RuleSetOK' /\ RowsOK' /\ Live' = Live
  BY RulesStay DEF ConfirmStale
<1>2. /\ tx' \in [Txs -> Categorizations \cup {NoTx}] /\ trail' \in [Txs -> Seq(Events)]
      /\ LinksAreLive' /\ TrailsConnected'
  BY <1>1, RecordsStay DEF ConfirmStale
<1>3. RunsOK'
  BY AnsweredRun DEF ConfirmStale, Confirmable
<1>4. review' = review /\ tagged' \in BOOLEAN
  BY DEF ConfirmStale, HistoryInv
<1> QED
  BY <1>1, <1>2, <1>3, <1>4 DEF HistoryInv, RecordsOK

LEMMA ApplyKeeps ==
  ASSUME HistoryInv, NEW n \in Previews, ConfirmApply(n)
  PROVE  HistoryInv'
<1> DEFINE i == run[n].rule
           new == Resulting(i)
<1>1. RuleSetOK' /\ RowsOK' /\ Live' = Live
  BY RulesStay DEF ConfirmApply
<1>2. i \in Live /\ rule[i].action \in Actions /\ i \in RuleIds
  BY LiveRows DEF ConfirmApply, StillStands, Enabled, HistoryInv, Rows
<1>3. new \in Categorizations /\ new.link = i /\ new.source = "workspace_rule"
  BY <1>2 DEF Resulting, Categorized, Categorizations, Sources, Links
<1>4. /\ tx' = [t \in Txs |-> IF t \in Selected(n) THEN new ELSE tx[t]]
      /\ trail' = [t \in Txs |-> IF t \in Selected(n)
                                   THEN Logged(t, Attribution(tx[t]), Attribution(new))
                                   ELSE trail[t]]
  BY DEF ConfirmApply
<1>5. \A t \in Selected(n) : tx[t] # NoTx
  BY DEF ConfirmApply, StillStands, Eligible
<1> HIDE DEF new, i
<1>6. ASSUME NEW t \in Txs
      PROVE  \/ Sound(tx'[t], trail'[t])
             \/ tx'[t] = NoTx /\ tx[t] = NoTx /\ trail'[t] = trail[t]
  <2>1. CASE t \in Selected(n)
    <3>1. /\ trail[t] \in Seq(Events) /\ Chain(trail[t], Attribution(tx[t]))
          /\ tx[t] \in Categorizations
      BY <1>5, <2>1 DEF HistoryInv, TrailsConnected, RecordsOK
    <3>2. /\ Logged(t, Attribution(tx[t]), Attribution(new)) \in Seq(Events)
          /\ Chain(Logged(t, Attribution(tx[t]), Attribution(new)), Attribution(new))
      BY <1>3, <3>1, LoggedChain, AttributionType
    <3>3. Sound(new, Logged(t, Attribution(tx[t]), Attribution(new)))
      BY <1>1, <1>2, <1>3, <3>2 DEF Sound
    <3> QED
      BY <1>4, <2>1, <3>3
  <2>2. CASE t \notin Selected(n)
    BY <1>1, <1>4, <2>2, OthersSound
  <2> QED
    BY <2>1, <2>2
<1>7. /\ tx' \in [Txs -> Categorizations \cup {NoTx}] /\ trail' \in [Txs -> Seq(Events)]
      /\ LinksAreLive' /\ TrailsConnected'
  BY <1>4, <1>6, RecordsStep
<1>8. RunsOK'
  BY AnsweredRun DEF ConfirmApply, Confirmable
<1>9. review' = review /\ tagged' \in BOOLEAN
  BY DEF ConfirmApply, HistoryInv
<1> QED
  BY <1>1, <1>7, <1>8, <1>9 DEF HistoryInv, RecordsOK

LEMMA NextKeeps == HistoryInv /\ [Next]_vars => HistoryInv'
<1> SUFFICES ASSUME HistoryInv, [Next]_vars
             PROVE  HistoryInv'
  OBVIOUS
<1>1. CASE UNCHANGED vars
  <2>1. RuleSetOK' /\ RowsOK' /\ Live' = Live
    BY <1>1, RulesStay DEF vars, ruleVars
  <2>2. /\ tx' \in [Txs -> Categorizations \cup {NoTx}] /\ trail' \in [Txs -> Seq(Events)]
        /\ LinksAreLive' /\ TrailsConnected'
    BY <1>1, <2>1, RecordsStay DEF vars
  <2> QED
    BY <1>1, <2>1, <2>2 DEF vars, HistoryInv, RecordsOK, RunsOK
<1>2. CASE Next
  BY <1>2, ReviewKeeps, CommitKeeps, ManualKeeps, WriteKeeps, DeleteKeeps, TagKeeps,
     PreviewKeeps, StaleKeeps, ApplyKeeps DEF Next
<1> QED
  BY <1>1, <1>2

LEMMA HistoryInvariant == Spec => []HistoryInv
BY InitHistory, NextKeeps, PTL DEF Spec

-----------------------------------------------------------------------------
(* The theorems.                                                           *)

\* Rules, transactions, events, review pages and tokens keep their types.
THEOREM TypeCorrect == Spec => []TypeOK
<1>1. HistoryInv => TypeOK
  BY DEF HistoryInv, TypeOK, RecordsOK, RunsOK, Events
<1> QED
  BY <1>1, HistoryInvariant, PTL

\* The link of a transaction names a rule that exists, however rules are
\* deleted and ids used again between a review and its commit.
THEOREM LinksNameRules == Spec => []LinksAreLive
<1>1. HistoryInv => LinksAreLive
  BY DEF HistoryInv
<1> QED
  BY <1>1, HistoryInvariant, PTL

\* The audit events of every transaction form a chain from uncategorized to
\* its present attribution, however many rules they name were deleted.
THEOREM AuditIsConnected == Spec => []AuditConnected
<1>1. HistoryInv => AuditConnected
  <2> SUFFICES ASSUME HistoryInv, NEW t \in Txs, tx[t] # NoTx
               PROVE  LET last == Len(trail[t])
                          before(e) == IF e = 1 THEN Unattributed ELSE trail[t][e - 1].to
                          after(e) == IF e > last THEN Attribution(tx[t]) ELSE trail[t][e].from
                      IN  \A e \in 1..(last + 1) : before(e) = after(e)
    BY DEF AuditConnected
  <2>1. Chain(trail[t], Attribution(tx[t]))
    BY DEF HistoryInv, TrailsConnected
  <2> QED
    BY <2>1 DEF Chain
<1> QED
  BY <1>1, HistoryInvariant, PTL

ManualStep ==
  \A t \in Txs :
    tx[t] # NoTx /\ tx[t].source = "manual" => tx'[t].source = "manual"

\* A manual decision is never taken back, by an application of a rule to
\* history, by the deletion of a rule or of a tag (README.md:479).
THEOREM ManualIsProtected == Spec => ManualProtected
<1>1. HistoryInv /\ [Next]_vars => [ManualStep]_vars
  <2> SUFFICES ASSUME HistoryInv, Next, NEW t \in Txs,
                      tx[t] # NoTx, tx[t].source = "manual"
               PROVE  tx'[t].source = "manual"
    BY DEF ManualStep
  <2>1. tx \in [Txs -> Categorizations \cup {NoTx}] /\ tx[t] \in Categorizations
    BY DEF HistoryInv, RecordsOK
  <2>2. CASE tx' = tx
    BY <2>2
  <2>3. ASSUME NEW s \in Txs, NEW a \in Actions, CommitRow(s, a)
        PROVE  tx'[t].source = "manual"
    BY <2>1, <2>3 DEF CommitRow
  <2>4. ASSUME NEW s \in Txs, NEW a \in Actions, Manual(s, a)
        PROVE  tx'[t].source = "manual"
    BY <2>1, <2>4 DEF Manual, Categorized
  <2>5. ASSUME NEW i \in RuleIds, DeleteLinkedRule(i)
        PROVE  tx'[t].source = "manual"
    BY <2>1, <2>5, UnlinkedType DEF DeleteLinkedRule
  <2>6. CASE DeleteTag
    <3>1. tx'[t] = [tx[t] EXCEPT !.action = Untagged[@]]
      BY <2>6 DEF DeleteTag
    <3> QED
      BY <2>1, <3>1 DEF Categorizations
  <2>7. ASSUME NEW n \in Previews, ConfirmApply(n)
        PROVE  tx'[t].source = "manual"
    <3>1. t \notin Selected(n)
      BY <2>7 DEF ConfirmApply, StillStands, Eligible
    <3> QED
      BY <2>7, <3>1 DEF ConfirmApply
  <2> QED
    BY <2>2, <2>3, <2>4, <2>5, <2>6, <2>7 DEF Next, ReviewRow, WriteRule, Preview, ConfirmStale
<1>2. Spec => [][ManualStep]_vars
  BY <1>1, HistoryInvariant, PTL DEF Spec
<1> QED
  BY <1>2 DEF ManualProtected, ManualStep

AgreeStep ==
  \A n \in Previews :
    ConfirmApply(n) => \A t \in Selected(n) : tx'[t] = Decision(t)

\* The rule a confirmation applies to a transaction is the one an import of
\* the same row would choose now, for all conditions that agree where history
\* can decide them.
THEOREM HistoryAgrees == Spec => HistoryAgreesWithImport
<1>1. HistoryInv => [AgreeStep]_vars
  <2> SUFFICES ASSUME HistoryInv, NEW n \in Previews, ConfirmApply(n), NEW t \in Selected(n)
               PROVE  tx'[t] = Decision(t)
    BY DEF AgreeStep
  <2>1. /\ run[n].rule \in Enabled /\ t \in Txs /\ WinsOverHistory(run[n].rule, t)
    BY DEF ConfirmApply, StillStands, Eligible
  <2>2. tx'[t] = Resulting(run[n].rule)
    BY <2>1 DEF ConfirmApply
  <2> QED
    BY <2>1, <2>2, WinnerDecides DEF HistoryInv
<1>2. Spec => [][AgreeStep]_vars
  BY <1>1, HistoryInvariant, PTL DEF Spec
<1> QED
  BY <1>2 DEF HistoryAgreesWithImport, AgreeStep

\* A step that neither hands out nor confirms nor refuses a token.
LEMMA RunsAnswerSame ==
  ASSUME UNCHANGED run, NEW n \in Previews
  PROVE  Answer(n)' = Answer(n)
BY DEF Answer, Twins, Digest

\* No token is confirmed while a run answers it, and the tokens that a run
\* answers are signed over the same state as the run.
LEMMA WrittenRunHasNoTwin ==
  ASSUME RunsOK, NEW m \in Previews, NEW n \in Previews, NEW s \in {"confirmed", "stale"},
         Confirmable(m), Answer(n) # {}, run' = [run EXCEPT ![m].status = s],
         DOMAIN run = Previews
  PROVE  Answer(n)' = Answer(n)
<1>1. /\ run[m] # NoRun /\ run[m].status = "previewed" /\ Twins(m) = {}
      /\ IsRun(run[m]) /\ run[n] # NoRun /\ IsRun(run[n])
  BY DEF Confirmable, Answer, RunsOK
<1>2. run' = [r \in Previews |-> IF r = m THEN [run[m] EXCEPT !.status = s] ELSE run[r]]
  OBVIOUS
<1>3. m # n
  BY DEF Confirmable
<1>4. run'[n] = run[n] /\ \A r \in Previews \ {m} : run'[r] = run[r]
  BY <1>2, <1>3
<1>5. CASE run[n].status = "confirmed"
  BY <1>1, <1>4, <1>5 DEF Answer
<1>6. CASE run[n].status = "previewed"
  <2>1. Answer(n) = Twins(n) /\ Answer(n)' = Twins(n)'
    BY <1>1, <1>4, <1>6 DEF Answer
  <2>2. PICK r \in Twins(n) : TRUE
    BY <2>1
  <2>3. /\ r \in Previews /\ run[r] # NoRun /\ run[r].status = "confirmed"
        /\ Digest(r) = Digest(n)
    BY <2>2 DEF Twins
  <2>4. r # m
    BY <1>1, <2>3
  <2>5. Digest(m) # Digest(n)
    BY <1>1, <2>3, <2>4 DEF Twins
  <2>6. \A q \in Previews : Digest(q)' = Digest(q)
    <3>1. /\ run'[m].rule = run[m].rule /\ run'[m].version = run[m].version
          /\ run'[m].current = run[m].current /\ run'[m].resulting = run[m].resulting
      BY <1>1, <1>2 DEF IsRun
    <3> QED
      BY <1>4, <3>1 DEF Digest
  <2>7. \A q \in Previews \ {n} : q \in Twins(n)' <=> q \in Twins(n)
    BY <1>1, <1>4, <2>5, <2>6 DEF Twins
  <2> QED
    BY <2>1, <2>7 DEF Twins
<1>7. CASE run[n].status = "stale"
  BY <1>1, <1>7 DEF Answer
<1> QED
  BY <1>1, <1>5, <1>6, <1>7 DEF IsRun

SameAnswerStep ==
  \A n \in Previews : Answer(n) # {} => Answer(n)' = Answer(n)

\* A token that was answered with a run is answered with the same run for
\* ever, whatever rules, transactions and other tokens become (README.md:482).
THEOREM ResultIsFinal == Spec => SameAuditedResult
<1>1. HistoryInv /\ [Next]_vars => [SameAnswerStep]_vars
  <2> SUFFICES ASSUME HistoryInv, Next, NEW n \in Previews, Answer(n) # {}
               PROVE  Answer(n)' = Answer(n)
    BY DEF SameAnswerStep
  <2>1. CASE UNCHANGED run
    BY <2>1, RunsAnswerSame
  <2>2. ASSUME NEW m \in Previews, NEW i \in RuleIds, NEW S \in SUBSET Txs, Preview(m, i, S)
        PROVE  Answer(n)' = Answer(n)
    <3>1. run[m] = NoRun /\ m # n
      BY <2>2 DEF Preview, Answer
    <3>2. /\ run'[m].status = "previewed"
          /\ \A r \in Previews \ {m} : run'[r] = run[r]
      BY <2>2 DEF Preview, HistoryInv, RunsOK
    <3>3. run'[n] = run[n] /\ run[n] # NoRun /\ IsRun(run[n])
      BY <3>1, <3>2 DEF Answer, HistoryInv, RunsOK
    <3>4. \A q \in Previews \ {m} : Digest(q)' = Digest(q)
      BY <3>2 DEF Digest
    <3>5. Twins(n)' = Twins(n)
      BY <3>1, <3>2, <3>4 DEF Twins
    <3> QED
      BY <3>3, <3>5 DEF Answer, IsRun
  <2>3. ASSUME NEW m \in Previews, ConfirmStale(m)
        PROVE  Answer(n)' = Answer(n)
    BY <2>3, WrittenRunHasNoTwin DEF ConfirmStale, HistoryInv, RunsOK
  <2>4. ASSUME NEW m \in Previews, ConfirmApply(m)
        PROVE  Answer(n)' = Answer(n)
    BY <2>4, WrittenRunHasNoTwin DEF ConfirmApply, HistoryInv, RunsOK
  <2> QED
    BY <2>1, <2>2, <2>3, <2>4
      DEF Next, ReviewRow, CommitRow, Manual, WriteRule, DeleteLinkedRule, DeleteTag
<1>2. Spec => [][SameAnswerStep]_vars
  BY <1>1, HistoryInvariant, PTL DEF Spec
<1> QED
  BY <1>2 DEF SameAuditedResult, SameAnswerStep

-----------------------------------------------------------------------------
(* The pages shown before a rule is saved or deleted (RuleImpact).         *)

LEMMA NoSuchRules == NoWinner \notin RuleIds /\ Undecided \notin RuleIds /\ NoLink \notin RuleIds
BY RuleAssumption DEF NoWinner, Undecided, NoLink

\* The rule f is the first of S that history does not rule out.
FirstOpen(f, S, t) ==
  /\ f \in S /\ Outcome(f, t) # "no"
  /\ \A j \in S : Before(j, f) => Outcome(j, t) = "no"

\* The page finds the first rule that is not ruled out.
LEMMA HistoricalWinnerIs ==
  ASSUME RuleSetOK, NEW S \in SUBSET Live, NEW t
  PROVE  \/ /\ \A j \in S : Outcome(j, t) = "no"
            /\ HistoricalWinner(S, t) = NoWinner
         \/ \E f \in S :
              /\ FirstOpen(f, S, t)
              /\ HistoricalWinner(S, t) = IF Outcome(f, t) = "unknown" THEN Undecided ELSE f
<1> DEFINE open == {j \in S : Outcome(j, t) # "no"}
           first == CHOOSE j \in open : \A l \in open \ {j} : Before(j, l)
<1>1. CASE open = {}
  BY <1>1 DEF HistoricalWinner
<1>2. CASE open # {}
  <2>1. open \in SUBSET Live
    OBVIOUS
  <2>2. \E j \in open : \A l \in open \ {j} : Before(j, l)
    BY <1>2, <2>1, FirstRule
  <2>3. first \in open /\ \A l \in open \ {first} : Before(first, l)
    BY <2>2
  <2>4. HistoricalWinner(S, t) = IF Outcome(first, t) = "unknown" THEN Undecided ELSE first
    BY <1>2 DEF HistoricalWinner
  <2> HIDE DEF first
  <2>5. FirstOpen(first, S, t)
    <3> SUFFICES ASSUME NEW j \in open, Before(j, first)
                 PROVE  FALSE
      BY <2>3 DEF FirstOpen
    <3> QED
      BY <2>3, BeforeIsOrder
  <2> QED
    BY <2>3, <2>4, <2>5
<1> QED
  BY <1>1, <1>2

\* No winner is shown exactly when all are ruled out.
LEMMA NoWinnerIs ==
  ASSUME RuleSetOK, NEW S \in SUBSET Live, NEW t
  PROVE  HistoricalWinner(S, t) = NoWinner <=> \A j \in S : Outcome(j, t) = "no"
BY HistoricalWinnerIs, NoSuchRules DEF FirstOpen, NoWinner, Undecided, Live

\* Rules that say the same match the same rows and set the same.
LEMMA SameRuleMatches ==
  ASSUME NEW j, NEW t, SaysSame(rule'[j], rule[j])
  PROVE  /\ MatchesAtImport(j, t)' <=> MatchesAtImport(j, t)
         /\ Outcome(j, t)' = Outcome(j, t)
         /\ Resulting(j)' = Resulting(j)
BY DEF SaysSame, MatchesAtImport, Outcome, EffectiveCondition, Resulting

\* The rules that are left after a deletion.
LEMMA DeletionLeaves ==
  ASSUME HistoryInv, NEW i, DeleteLinkedRule(i)
  PROVE  /\ RuleSetOK' /\ Enabled' = Enabled \ {i}
         /\ \A j, k \in Enabled' : Before(j, k)' <=> Before(j, k)
         /\ \A j \in Enabled', t \in Txs :
              /\ MatchesAtImport(j, t)' <=> MatchesAtImport(j, t)
              /\ Resulting(j)' = Resulting(j)
<1>1. /\ Live' = Live \ {i} /\ RuleSetOK'
      /\ \A j \in Live' : SaysSame(rule'[j], rule[j])
      /\ \A j, k \in Live' : Before(j, k)' <=> Before(j, k)
  BY DeleteLeavesOthers DEF DeleteLinkedRule, HistoryInv
<1>2. Enabled' = Enabled \ {i}
  BY <1>1 DEF Enabled, SaysSame
<1>3. Enabled' \subseteq Live'
  BY DEF Enabled
<1> QED
  BY <1>1, <1>2, <1>3, SameRuleMatches

\* A rule that is the first to match without the deleted one decides then.
LEMMA DecidesWithout ==
  ASSUME HistoryInv, NEW i, DeleteLinkedRule(i), NEW t \in Txs,
         NEW j \in Enabled \ {i}, MatchesAtImport(j, t),
         \A k \in Enabled \ {i} : Before(k, j) => ~MatchesAtImport(k, t)
  PROVE  Decision(t)' = Resulting(j)
<1>1. j \in RuleIds
  BY DEF Enabled, Live
<1>2. DecidesAtImport(j, t)'
  BY DeletionLeaves DEF DecidesAtImport
<1> QED
  BY <1>1, <1>2, DeletionLeaves, NextDecision

\* When no other rule matches, none decides.
LEMMA NoneDecidesWithout ==
  ASSUME HistoryInv, NEW i, DeleteLinkedRule(i), NEW t \in Txs,
         \A k \in Enabled \ {i} : ~MatchesAtImport(k, t)
  PROVE  Decision(t)' = Categorized("uncategorized", Fallback, NoLink)
<1>1. NoneMatches(t)'
  BY DeletionLeaves DEF NoneMatches
<1> QED
  BY <1>1, DeletionLeaves, NextDecision

\* What the page shows of a rule that is switched on, by what history says:
\* the rule wins and what comes after it is found; or another one wins.
LEMMA ShownWins ==
  ASSUME HistoryInv, NEW i \in Enabled, NEW t \in Txs,
         DeletionOutcome(i, t) \in {"fallback", "next rule"}
  PROVE  /\ WinsOverHistory(i, t)
         /\ \/ /\ DeletionOutcome(i, t) = "fallback"
               /\ \A k \in Enabled \ {i} : Outcome(k, t) = "no"
            \/ /\ DeletionOutcome(i, t) = "next rule"
               /\ \E f \in Enabled \ {i} :
                    /\ Outcome(f, t) = "yes"
                    /\ \A k \in Enabled \ {i} : Before(k, f) => Outcome(k, t) = "no"
<1> DEFINE after == {j \in Enabled : Before(i, j)}
<1>1. RuleSetOK /\ RowsOK /\ Enabled \subseteq Live /\ after \subseteq Live /\ i \in RuleIds
  BY DEF HistoryInv, Enabled, Live
<1>2. HistoricalWinner(Enabled, t) = i
  BY DEF DeletionOutcome
<1>3. WinsOverHistory(i, t)
  <2>1. PICK f \in Enabled : /\ FirstOpen(f, Enabled, t)
                             /\ i = IF Outcome(f, t) = "unknown" THEN Undecided ELSE f
    BY <1>1, <1>2, HistoricalWinnerIs, NoSuchRules
  <2>2. f = i /\ Outcome(i, t) # "unknown"
    BY <1>1, <2>1, NoSuchRules
  <2>3. Outcome(i, t) \in {"yes", "no", "unknown"}
    BY <1>1, OutcomeTells
  <2> QED
    BY <2>1, <2>2, <2>3 DEF FirstOpen, WinsOverHistory
<1>4. ASSUME NEW k \in Enabled \ {i}, k \notin after
      PROVE  Outcome(k, t) = "no"
  BY <1>1, <1>3, <1>4, BeforeIsOrder DEF WinsOverHistory
<1>5. CASE \A k \in after : Outcome(k, t) = "no"
  <2>1. HistoricalWinner(after, t) = NoWinner
    BY <1>1, <1>5, NoWinnerIs
  <2>2. DeletionOutcome(i, t) = "fallback"
    BY <1>1, <1>2, <2>1, NoSuchRules DEF DeletionOutcome, NoWinner, Undecided
  <2> QED
    BY <1>3, <1>4, <1>5, <2>2
<1>6. CASE ~ \A k \in after : Outcome(k, t) = "no"
  <2>1. PICK f \in after :
          /\ FirstOpen(f, after, t)
          /\ HistoricalWinner(after, t) = IF Outcome(f, t) = "unknown" THEN Undecided ELSE f
    BY <1>1, <1>6, HistoricalWinnerIs
  <2>2. Outcome(f, t) # "unknown"
    BY <1>1, <1>2, <2>1, NoSuchRules DEF DeletionOutcome
  <2>3. HistoricalWinner(after, t) \notin {Undecided, NoWinner}
    BY <1>1, <2>1, <2>2, NoSuchRules DEF Live
  <2>4. DeletionOutcome(i, t) = "next rule"
    BY <1>1, <1>2, <2>3, NoSuchRules DEF DeletionOutcome
  <2>5. Outcome(f, t) = "yes"
    BY <1>1, <2>1, <2>2, OutcomeTells DEF FirstOpen
  <2>6. \A k \in Enabled \ {i} : Before(k, f) => Outcome(k, t) = "no"
    BY <1>4, <2>1 DEF FirstOpen
  <2>7. f \in Enabled \ {i}
    BY <1>1, BeforeIsOrder
  <2> QED
    BY <1>3, <2>4, <2>5, <2>6, <2>7
<1> QED
  BY <1>5, <1>6

LEMMA ShownOther ==
  ASSUME HistoryInv, NEW i, NEW t \in Txs, DeletionOutcome(i, t) = "other winner"
  PROVE  \/ \A k \in Enabled : Outcome(k, t) = "no"
         \/ \E f \in Enabled \ {i} : WinsOverHistory(f, t)
<1>1. RuleSetOK /\ RowsOK /\ Enabled \subseteq Live
  BY DEF HistoryInv, Enabled
<1>2. HistoricalWinner(Enabled, t) \notin {Undecided, i}
  BY DEF DeletionOutcome
<1> SUFFICES ASSUME ~ \A k \in Enabled : Outcome(k, t) = "no"
             PROVE  \E f \in Enabled \ {i} : WinsOverHistory(f, t)
  OBVIOUS
<1>3. PICK f \in Enabled :
        /\ FirstOpen(f, Enabled, t)
        /\ HistoricalWinner(Enabled, t) = IF Outcome(f, t) = "unknown" THEN Undecided ELSE f
  BY <1>1, HistoricalWinnerIs
<1>4. f # i /\ Outcome(f, t) # "unknown"
  BY <1>2, <1>3
<1>5. Outcome(f, t) \in {"yes", "no", "unknown"}
  BY <1>1, OutcomeTells
<1> QED
  BY <1>3, <1>4, <1>5 DEF FirstOpen, WinsOverHistory

DeletionShown(i, t) ==
  /\ i \in Enabled /\ DeletionOutcome(i, t) \in {"fallback", "next rule"} =>
       /\ Decision(t).link = i
       /\ (Decision(t)').link = NoLink <=> DeletionOutcome(i, t) = "fallback"
  /\ i \notin Enabled \/ DeletionOutcome(i, t) = "other winner" =>
       Decision(t)' = Decision(t)

LEMMA DeletionDoesAsShown ==
  ASSUME HistoryInv, NEW i \in Live, DeleteLinkedRule(i), NEW t \in Txs
  PROVE  DeletionShown(i, t)
<1> DEFINE fallback == Categorized("uncategorized", Fallback, NoLink)
<1>1. RuleSetOK /\ RowsOK /\ Enabled \subseteq Live /\ Live \subseteq RuleIds
  BY DEF HistoryInv, Enabled, Live
<1>2. fallback.link = NoLink /\ \A j : Resulting(j).link = j
  BY DEF Categorized, Resulting
<1>3. ASSUME i \in Enabled, DeletionOutcome(i, t) \in {"fallback", "next rule"}
      PROVE  /\ Decision(t).link = i
             /\ (Decision(t)').link = NoLink <=> DeletionOutcome(i, t) = "fallback"
  <2>1. /\ WinsOverHistory(i, t)
        /\ \/ /\ DeletionOutcome(i, t) = "fallback"
              /\ \A k \in Enabled \ {i} : Outcome(k, t) = "no"
           \/ /\ DeletionOutcome(i, t) = "next rule"
              /\ \E f \in Enabled \ {i} :
                   /\ Outcome(f, t) = "yes"
                   /\ \A k \in Enabled \ {i} : Before(k, f) => Outcome(k, t) = "no"
    BY <1>3, ShownWins
  <2>2. Decision(t) = Resulting(i)
    BY <1>1, <1>3, <2>1, WinnerDecides
  <2>3. CASE /\ DeletionOutcome(i, t) = "fallback"
             /\ \A k \in Enabled \ {i} : Outcome(k, t) = "no"
    <3>1. \A k \in Enabled \ {i} : ~MatchesAtImport(k, t)
      BY <1>1, <2>3, OutcomeTells
    <3>2. Decision(t)' = fallback
      BY <3>1, NoneDecidesWithout
    <3> QED
      BY <1>2, <2>2, <2>3, <3>2
  <2>4. ASSUME DeletionOutcome(i, t) = "next rule",
               NEW f \in Enabled \ {i}, Outcome(f, t) = "yes",
               \A k \in Enabled \ {i} : Before(k, f) => Outcome(k, t) = "no"
        PROVE  /\ Decision(t).link = i
               /\ (Decision(t)').link = NoLink <=> DeletionOutcome(i, t) = "fallback"
    <3>1. /\ MatchesAtImport(f, t)
          /\ \A k \in Enabled \ {i} : Before(k, f) => ~MatchesAtImport(k, t)
      BY <1>1, <2>4, OutcomeTells
    <3>2. Decision(t)' = Resulting(f)
      BY <3>1, DecidesWithout
    <3>3. (Decision(t)').link = f /\ f # NoLink
      BY <1>1, <1>2, <3>2, NoSuchRules
    <3> QED
      BY <1>2, <2>2, <2>4, <3>3
  <2> QED
    BY <2>3, <2>4, <2>1
<1>4. ASSUME i \notin Enabled
      PROVE  Decision(t)' = Decision(t)
  <2>1. CASE NoneMatches(t)
    BY <1>1, <2>1, NoneDecidesWithout, DecisionByNone DEF NoneMatches
  <2>2. ASSUME NEW f \in Enabled, DecidesAtImport(f, t)
        PROVE  Decision(t)' = Decision(t)
    <3>1. Decision(t) = Resulting(f)
      BY <1>1, <2>2, DecisionByFirst DEF DecidesAtImport
    <3>2. Decision(t)' = Resulting(f)
      BY <1>4, <2>2, DecidesWithout DEF DecidesAtImport
    <3> QED
      BY <3>1, <3>2
  <2> QED
    BY <1>1, <2>1, <2>2, SomeoneDecides
<1>5. ASSUME DeletionOutcome(i, t) = "other winner"
      PROVE  Decision(t)' = Decision(t)
  <2>1. CASE \A k \in Enabled : Outcome(k, t) = "no"
    <3>1. NoneMatches(t)
      BY <1>1, <2>1, OutcomeTells DEF NoneMatches
    <3> QED
      BY <3>1, NoneDecidesWithout, DecisionByNone DEF NoneMatches
  <2>2. ASSUME NEW f \in Enabled \ {i}, WinsOverHistory(f, t)
        PROVE  Decision(t)' = Decision(t)
    <3>1. DecidesAtImport(f, t) /\ Decision(t) = Resulting(f)
      BY <1>1, <2>2, WinnerMatches, WinnerDecides
    <3>2. Decision(t)' = Resulting(f)
      BY <3>1, DecidesWithout DEF DecidesAtImport
    <3> QED
      BY <3>1, <3>2
  <2> QED
    BY <1>5, <2>1, <2>2, ShownOther
<1> QED
  BY <1>3, <1>4, <1>5 DEF DeletionShown

DeletionStep ==
  \A i \in Live \ Live' :
    DeleteLinkedRule(i) => \A t \in Imported : DeletionShown(i, t)

\* The review page of a deletion tells what the deletion does, for any rules,
\* conditions and rows: where it says the fallback or a next rule takes over,
\* the rule decided and then none or another one does; where another rule
\* wins, or the rule is switched off, the decision stays.
THEOREM DeletionDoesAsPreviewed == Spec => DeletionAsPreviewed
<1>1. HistoryInv => [DeletionStep]_vars
  BY DeletionDoesAsShown DEF DeletionStep, Imported
<1>2. Spec => [][DeletionStep]_vars
  BY <1>1, HistoryInvariant, PTL DEF Spec
<1> QED
  BY <1>2 DEF DeletionAsPreviewed, DeletionStep, DeletionShown

\* A saved rule that has the condition c and the action a, and the rules that
\* the impact page took to run before it.
LEMMA CreatedAfter ==
  ASSUME HistoryInv, NEW c \in Conditions \cup Keys, NEW a \in Actions,
         NEW i \in Live' \ Live, CreateRule(c, a)
  PROVE  /\ Enabled' = Enabled \cup {i}
         /\ {j \in Enabled' : Before(j, i)'} = Higher(NoWinner)
         /\ \A j \in Higher(NoWinner), t \in Txs : Outcome(j, t)' = Outcome(j, t)
<1>1. /\ RuleSetOK' /\ Live' = Live \cup {i} /\ rule'[i].enabled
      /\ \A j \in Live : SaysSame(rule'[j], rule[j]) /\ Before(j, i)'
  BY CreateLeavesOthers DEF HistoryInv
<1>2. Enabled' = Enabled \cup {i} /\ Enabled \subseteq Live
  BY <1>1 DEF Enabled, SaysSame
<1>3. ~Before(i, i)'
  <2>1. i \in Nat /\ rule'[i].priority \in Nat
    BY <1>1, RuleAssumption DEF RuleSetOK, Live, Rows
  <2> QED
    BY <2>1 DEF Before
<1>4. Higher(NoWinner) = Enabled
  BY DEF Higher
<1> QED
  BY <1>1, <1>2, <1>3, <1>4, SameRuleMatches

LEMMA EditedAfter ==
  ASSUME HistoryInv, NEW c \in Conditions \cup Keys, NEW a \in Actions,
         NEW i \in Enabled, NEW v, UpdateRule(i, v, c, a)
  PROVE  /\ Enabled' = Enabled
         /\ {j \in Enabled' : Before(j, i)'} = Higher(i)
         /\ \A j \in Higher(i), t \in Txs : Outcome(j, t)' = Outcome(j, t)
<1>1. /\ RuleSetOK' /\ Live' = Live /\ i \in Live
      /\ rule'[i].enabled = rule[i].enabled
      /\ \A j \in Live \ {i} : rule'[j] = rule[j]
      /\ \A j, k \in Live : Before(j, k)' <=> Before(j, k)
  BY UpdateLeavesOthers DEF HistoryInv
<1>2. Enabled' = Enabled /\ Enabled \subseteq Live
  BY <1>1 DEF Enabled
<1>3. i # NoWinner /\ ~Before(i, i)
  BY <1>1, BeforeIsOrder, NoSuchRules DEF HistoryInv, Live
<1>4. Higher(i) = {j \in Enabled \ {i} : Before(j, i)}
  BY <1>3 DEF Higher
<1>5. \A j \in Live \ {i} : SaysSame(rule'[j], rule[j])
  BY <1>1 DEF SaysSame
<1> QED
  BY <1>1, <1>2, <1>3, <1>4, <1>5, SameRuleMatches

\* What the page shows of a transaction, given the rules before the draft.
LEMMA ShownImpact ==
  ASSUME HistoryInv, NEW i \in RuleIds \cup {NoWinner}, NEW c \in Conditions \cup Keys,
         NEW a, NEW t \in Txs
  PROVE  /\ Impact(i, c, a, t) = "would_change" =>
              /\ OutcomeOf(c, t) = "yes" /\ tx[t].source # "manual"
              /\ \A j \in Higher(i) : Outcome(j, t) = "no"
              /\ tx[t].action # a
         /\ /\ OutcomeOf(c, t) = "yes" /\ tx[t].source # "manual"
            /\ \A j \in Higher(i) : Outcome(j, t) = "no"
            => \/ Impact(i, c, a, t) = "would_change"
               \/ Impact(i, c, a, t) = "unchanged" /\ tx[t].action = a
<1>1. OutcomeOf(c, t) \in {"yes", "no", "unknown"}
  BY HistoryAssumption DEF OutcomeOf
<1>2. RuleSetOK /\ Higher(i) \in SUBSET Live
  BY DEF HistoryInv, Higher, Enabled
<1>3. HistoricalWinner(Higher(i), t) = NoWinner <=> \A j \in Higher(i) : Outcome(j, t) = "no"
  BY <1>2, NoWinnerIs
<1>4. Undecided # NoWinner
  BY DEF Undecided, NoWinner
<1> QED
  BY <1>1, <1>3, <1>4 DEF Impact

\* The rule i that was saved, as the draft d that the page was shown for.
SavedAs(i, d) ==
  LET c == rule'[i].condition
      a == rule'[i].action
      shown(t) == Impact(d, c, a, t)
  IN  /\ {t \in Imported : shown(t) = "would_change"} \subseteq Eligible(i)'
      /\ \A t \in Eligible(i)' :
           \/ shown(t) = "would_change"
           \/ shown(t) = "unchanged" /\ tx[t].action = a

LEMMA SavedDoesAsShown ==
  ASSUME HistoryInv, tx' = tx, NEW i \in Live', NEW d \in RuleIds \cup {NoWinner},
         rule'[i].condition \in Conditions \cup Keys, i \in Enabled',
         {j \in Enabled' : Before(j, i)'} = Higher(d),
         \A j \in Higher(d), t \in Txs : Outcome(j, t)' = Outcome(j, t)
  PROVE  SavedAs(i, d)
<1> DEFINE c == rule'[i].condition
           a == rule'[i].action
<1>1. c # FromKey
  BY RuleAssumption
<1>2. \A t \in Txs : Outcome(i, t)' = OutcomeOf(c, t)
  BY <1>1 DEF Outcome, EffectiveCondition
<1>3. (Resulting(i)').action = a
  BY DEF Resulting, Categorized
<1>4. ASSUME NEW t \in Txs
      PROVE  WinsOverHistory(i, t)' <=>
               OutcomeOf(c, t) = "yes" /\ \A j \in Higher(d) : Outcome(j, t) = "no"
  <2>1. WinsOverHistory(i, t)' <=>
          /\ Outcome(i, t)' = "yes"
          /\ \A j \in {k \in Enabled' : Before(k, i)'} : Outcome(j, t)' = "no"
    BY DEF WinsOverHistory
  <2> QED
    BY <1>2, <2>1
<1>5. ASSUME NEW t \in Imported, Impact(d, c, a, t) = "would_change"
      PROVE  t \in Eligible(i)'
  <2>1. t \in Txs /\ tx[t] # NoTx
    BY DEF Imported
  <2>2. /\ OutcomeOf(c, t) = "yes" /\ tx[t].source # "manual"
        /\ \A j \in Higher(d) : Outcome(j, t) = "no"
        /\ tx[t].action # a
    BY <1>5, <2>1, ShownImpact
  <2>3. tx[t] # Resulting(i)'
    BY <1>3, <2>2
  <2> QED
    BY <1>4, <2>1, <2>2, <2>3 DEF Eligible
<1>6. ASSUME NEW t \in Eligible(i)'
      PROVE  \/ Impact(d, c, a, t) = "would_change"
             \/ Impact(d, c, a, t) = "unchanged" /\ tx[t].action = a
  <2>1. t \in Txs /\ tx[t].source # "manual" /\ WinsOverHistory(i, t)'
    BY DEF Eligible
  <2>2. OutcomeOf(c, t) = "yes" /\ \A j \in Higher(d) : Outcome(j, t) = "no"
    BY <1>4, <2>1
  <2> QED
    BY <2>1, <2>2, ShownImpact
<1> QED
  BY <1>5, <1>6 DEF SavedAs

ImpactStep ==
  \A i \in {j \in Live' : rule'[j] # rule[j]} :
    LET c == rule'[i].condition
        a == rule'[i].action
        created == i \notin Live /\ CreateRule(c, a)
        edited == i \in Enabled /\ UpdateRule(i, rule[i].version, c, a)
        shown(t) == Impact(IF i \in Live THEN i ELSE NoWinner, c, a, t)
    IN tx' = tx /\ c # FromKey /\ (created \/ edited) =>
         /\ {t \in Imported : shown(t) = "would_change"} \subseteq Eligible(i)'
         /\ \A t \in Eligible(i)' :
              \/ shown(t) = "would_change"
              \/ shown(t) = "unchanged" /\ tx[t].action = a

LEMMA SaveDoesAsShown == HistoryInv /\ HistoryInv' => ImpactStep
<1> SUFFICES ASSUME HistoryInv, HistoryInv', NEW i \in Live', tx' = tx,
                    NEW c, c = rule'[i].condition, NEW a, a = rule'[i].action, c # FromKey,
                    \/ i \notin Live /\ CreateRule(c, a)
                    \/ i \in Enabled /\ UpdateRule(i, rule[i].version, c, a)
             PROVE  SavedAs(i, IF i \in Live THEN i ELSE NoWinner)
  BY DEF ImpactStep, SavedAs
<1>1. c \in Conditions \cup Keys /\ a \in Actions /\ i \in RuleIds
  BY DEF HistoryInv, RuleSetOK, Live, Rows
<1>2. CASE i \notin Live /\ CreateRule(c, a)
  BY <1>1, <1>2, CreatedAfter, SavedDoesAsShown
<1>3. CASE i \in Enabled /\ UpdateRule(i, rule[i].version, c, a)
  <2>1. i \in Live
    BY <1>3 DEF Enabled
  <2> QED
    BY <1>1, <1>3, <2>1, EditedAfter, SavedDoesAsShown
<1> QED
  BY <1>2, <1>3

\* The impact page of a rule tells what its application to history offers,
\* for a new rule and for an edited one: all it said would change, and besides
\* only rows whose action stays and whose attribution alone is new.
THEOREM SavingDoesAsPreviewed == Spec => ImpactForetells
<1>1. HistoryInv /\ HistoryInv' => [ImpactStep]_vars
  BY SaveDoesAsShown
<1>2. Spec => [][ImpactStep]_vars
  BY <1>1, HistoryInvariant, PTL DEF Spec
<1> QED
  BY <1>2, PTL DEF ImpactForetells, ImpactStep
=============================================================================
