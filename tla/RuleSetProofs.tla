-------------------------- MODULE RuleSetProofs ---------------------------
(***************************************************************************)
(* Lemmas on the rules of RuleSet, for any number of them: the places of a *)
(* set of rules are 0, 1, 2, ..., MakeRoom leaves one place free and keeps *)
(* the order of the others, and every write leaves rows that follow the    *)
(* ones it found.                                                          *)
(***************************************************************************)
EXTENDS RuleSet, FiniteSetTheorems, TLAPS

LEMMA LiveIsFinite ==
  ASSUME NEW S \in SUBSET Live
  PROVE  IsFiniteSet(S) /\ Cardinality(S) \in Nat
<1>1. IsFiniteSet(S)
  BY RuleAssumption, FS_Subset DEF Live
<1> QED
  BY <1>1, FS_CardinalityType

LEMMA LiveRows ==
  ASSUME RuleSetOK, NEW i \in Live
  PROVE  /\ i \in RuleIds /\ i \in Nat
         /\ rule[i] \in Rows /\ rule[i].priority \in Nat
BY RuleAssumption DEF Live, RuleSetOK, Rows

LEMMA BeforeIsOrder ==
  ASSUME RuleSetOK, NEW i \in Live, NEW j \in Live
  PROVE  /\ ~Before(i, i)
         /\ i # j => Before(i, j) \/ Before(j, i)
         /\ \A k \in Live : Before(i, j) /\ Before(j, k) => Before(i, k)
BY LiveRows DEF Before

-----------------------------------------------------------------------------
(* Places.                                                                 *)

LEMMA PlaceType ==
  ASSUME NEW S \in SUBSET RuleIds, NEW i
  PROVE  Place(i, S) \in Nat
<1>1. IsFiniteSet({j \in S : Before(j, i)})
  BY RuleAssumption, FS_Subset
<1> QED
  BY <1>1, FS_CardinalityType DEF Place

LEMMA PlaceGrows ==
  ASSUME RuleSetOK, NEW S \in SUBSET Live, NEW i \in S, NEW j \in S, Before(i, j)
  PROVE  Place(i, S) < Place(j, S)
<1> DEFINE A == {k \in S : Before(k, i)}
           B == {k \in S : Before(k, j)}
<1>1. A \subseteq B /\ i \in B /\ i \notin A
  BY BeforeIsOrder
<1>2. IsFiniteSet(B) /\ Cardinality(B) \in Nat /\ Cardinality(A) \in Nat
  BY LiveIsFinite
<1>3. Cardinality(A) <= Cardinality(B) /\ (Cardinality(B) = Cardinality(A) => B = A)
  BY <1>1, <1>2, FS_Subset
<1>4. Place(i, S) = Cardinality(A) /\ Place(j, S) = Cardinality(B)
  BY DEF Place
<1> QED
  BY <1>1, <1>2, <1>3, <1>4

LEMMA PlaceBound ==
  ASSUME RuleSetOK, NEW S \in SUBSET Live, NEW i \in S
  PROVE  Place(i, S) \in 0..(Cardinality(S) - 1)
<1> DEFINE A == {k \in S : Before(k, i)}
<1>1. A \subseteq S /\ i \notin A
  BY BeforeIsOrder
<1>2. IsFiniteSet(S) /\ Cardinality(S) \in Nat /\ Cardinality(A) \in Nat
  BY LiveIsFinite
<1>3. Cardinality(A) <= Cardinality(S) /\ (Cardinality(S) = Cardinality(A) => S = A)
  BY <1>1, <1>2, FS_Subset
<1>4. Place(i, S) = Cardinality(A)
  BY DEF Place
<1> QED
  BY <1>1, <1>2, <1>3, <1>4

LEMMA PlacesDense ==
  ASSUME RuleSetOK, NEW S \in SUBSET Live
  PROVE  {Place(i, S) : i \in S} = 0..(Cardinality(S) - 1)
<1> DEFINE T == 0..(Cardinality(S) - 1)
           f == [i \in S |-> Place(i, S)]
<1>1. IsFiniteSet(S) /\ Cardinality(S) \in Nat
  BY LiveIsFinite
<1>2. IsFiniteSet(T) /\ Cardinality(T) = Cardinality(S)
  <2>1. PICK n \in Nat : n = Cardinality(S)
    BY <1>1
  <2>2. IsFiniteSet(0..(n - 1)) /\ Cardinality(0..(n - 1)) = n
    <3>1. 0 \in Int /\ n - 1 \in Int
      OBVIOUS
    <3>2. /\ IsFiniteSet(0..(n - 1))
          /\ Cardinality(0..(n - 1)) = IF 0 > n - 1 THEN 0 ELSE (n - 1) - 0 + 1
      BY ONLY <3>1, FS_Interval
    <3> QED
      BY <3>2
  <2> QED
    BY <2>1, <2>2
<1>3. f \in [S -> T]
  BY PlaceBound
<1>4. ASSUME NEW i \in S, NEW j \in S, f[i] = f[j]
      PROVE  i = j
  <2>1. i \in Live /\ j \in Live
    OBVIOUS
  <2>2. f[i] \in Int /\ f[j] \in Int
    BY <1>3
  <2> QED
    BY <1>4, <2>1, <2>2, BeforeIsOrder, PlaceGrows
<1>5. f \in Injection(S, T)
  BY <1>3, <1>4 DEF Injection, IsInjective
<1>6. f \in Surjection(S, T)
  BY <1>2, <1>5, FS_Injection
<1>7. \A t \in T : \E i \in S : f[i] = t
  BY <1>6 DEF Surjection
<1> QED
  BY <1>3, <1>7

-----------------------------------------------------------------------------
(* MakeRoom.                                                               *)

LEMMA RoomPriority ==
  ASSUME RuleSetOK, NEW S \in SUBSET Live, NEW k, NEW i \in S
  PROVE  /\ MakeRoom(S, k)[i] \in Rows
         /\ MakeRoom(S, k)[i].priority =
              IF Place(i, S) < k THEN Place(i, S) ELSE Place(i, S) + 1
<1>1. rule[i] \in Rows /\ i \in RuleIds
  BY LiveRows
<1>2. Place(i, S) \in Nat
  BY PlaceType DEF Live
<1>3. PICK p \in Nat : p = IF Place(i, S) < k THEN Place(i, S) ELSE Place(i, S) + 1
  BY <1>2
<1>4. MakeRoom(S, k)[i] = [rule[i] EXCEPT !.priority = p]
  BY <1>1, <1>3 DEF MakeRoom
<1> QED
  BY <1>1, <1>3, <1>4 DEF Rows

LEMMA RoomLeavesOneFree ==
  ASSUME RuleSetOK, NEW S \in SUBSET Live, NEW k \in 0..Cardinality(S)
  PROVE  {MakeRoom(S, k)[i].priority : i \in S} = (0..Cardinality(S)) \ {k}
<1> DEFINE n == Cardinality(S)
<1>1. n \in Nat /\ k \in Nat
  BY LiveIsFinite
<1>2. \A i \in S : Place(i, S) \in 0..(n - 1)
  BY PlaceBound
<1>3. \A p \in 0..(n - 1) : \E i \in S : Place(i, S) = p
  BY PlacesDense
<1>4. \A i \in S : MakeRoom(S, k)[i].priority =
                     IF Place(i, S) < k THEN Place(i, S) ELSE Place(i, S) + 1
  BY RoomPriority
<1>5. ASSUME NEW i \in S
      PROVE  MakeRoom(S, k)[i].priority \in (0..n) \ {k}
  BY <1>1, <1>2, <1>4
<1>6. ASSUME NEW p \in (0..n) \ {k}
      PROVE  \E i \in S : MakeRoom(S, k)[i].priority = p
  <2>1. CASE p < k
    <3>1. PICK i \in S : Place(i, S) = p
      BY <1>1, <1>3, <2>1
    <3> QED
      BY <1>4, <2>1, <3>1
  <2>2. CASE p > k
    <3>1. PICK i \in S : Place(i, S) = p - 1
      BY <1>1, <1>3, <2>2
    <3> QED
      BY <1>1, <1>4, <2>2, <3>1
  <2> QED
    BY <1>1, <2>1, <2>2
<1> QED
  BY <1>5, <1>6

LEMMA NoRoomIsDense ==
  ASSUME RuleSetOK, NEW S \in SUBSET Live, NEW k \in Nat, k >= Cardinality(S)
  PROVE  {MakeRoom(S, k)[i].priority : i \in S} = 0..(Cardinality(S) - 1)
<1>1. Cardinality(S) \in Nat
  BY LiveIsFinite
<1>2. \A i \in S : Place(i, S) \in 0..(Cardinality(S) - 1)
  BY PlaceBound
<1>3. \A i \in S : MakeRoom(S, k)[i].priority = Place(i, S)
  BY <1>1, <1>2, RoomPriority
<1> QED
  BY <1>3, PlacesDense

\* Making room keeps the order.
LEMMA RoomKeepsOrder ==
  ASSUME RuleSetOK, NEW S \in SUBSET Live, NEW k \in Nat,
         NEW i \in S, NEW j \in S, Before(i, j)
  PROVE  MakeRoom(S, k)[i].priority < MakeRoom(S, k)[j].priority
<1>1. Place(i, S) \in Nat /\ Place(j, S) \in Nat /\ Place(i, S) < Place(j, S)
  BY PlaceType, PlaceGrows DEF Live
<1> QED
  BY <1>1, RoomPriority

-----------------------------------------------------------------------------
(* The writes.                                                             *)

\* The rules S are closed up around the place k and a row fills it.
Placed(S, k, n, w) ==
  /\ S \in SUBSET Live /\ n \in RuleIds \ S
  /\ k \in 0..Cardinality(S)
  /\ w \in Rows /\ w.priority = k
  /\ rule' = [MakeRoom(S, k) EXCEPT ![n] = w]

LEMMA PlacedLive ==
  ASSUME RuleSetOK, NEW S, NEW k, NEW n, NEW w, Placed(S, k, n, w)
  PROVE  /\ Live' = S \cup {n}
         /\ rule'[n] = w
         /\ \A i \in S : rule'[i] = MakeRoom(S, k)[i]
<1>1. S \subseteq RuleIds /\ n \in RuleIds /\ n \notin S
  BY DEF Live, Placed
<1>2. rule'[n] = w /\ \A i \in RuleIds \ {n} : rule'[i] = MakeRoom(S, k)[i]
  BY <1>1 DEF Placed, MakeRoom
<1>3. \A i \in S : MakeRoom(S, k)[i] # NoRule
  BY RoomPriority, RowAssumption DEF Placed
<1>4. \A i \in RuleIds \ S : MakeRoom(S, k)[i] = NoRule
  BY DEF MakeRoom
<1>5. w # NoRule
  BY RowAssumption DEF Placed
<1> QED
  BY <1>1, <1>2, <1>3, <1>4, <1>5 DEF Live

LEMMA PlacedIsDense ==
  ASSUME RuleSetOK, NEW S, NEW k, NEW n, NEW w, Placed(S, k, n, w)
  PROVE  PrioritiesDense'
<1>1. /\ Live' = S \cup {n} /\ rule'[n].priority = k
      /\ \A i \in S : rule'[i].priority = MakeRoom(S, k)[i].priority
  <2>1. Live' = S \cup {n} /\ rule'[n] = w
    BY PlacedLive
  <2>3. w.priority = k
    BY DEF Placed
  <2>2. \A i \in S : rule'[i] = MakeRoom(S, k)[i]
    BY PlacedLive
  <2> QED
    BY <2>1, <2>2, <2>3
<1>2. {MakeRoom(S, k)[i].priority : i \in S} = (0..Cardinality(S)) \ {k}
  BY RoomLeavesOneFree DEF Placed
<1>3. {rule'[i].priority : i \in Live'} = 0..Cardinality(S)
  BY <1>1, <1>2 DEF Placed
<1>4. Cardinality(S) \in Nat /\ Cardinality(Live') = Cardinality(S) + 1
  BY <1>1, LiveIsFinite, FS_AddElement DEF Placed
<1>5. Cardinality(Live') - 1 = Cardinality(S)
  BY <1>4
<1> QED
  BY <1>3, <1>5 DEF PrioritiesDense

\* One row is written anew where it is.
Rewritten(i, w) ==
  /\ i \in Live
  /\ w \in Rows /\ w.priority = rule[i].priority
  /\ rule' = [rule EXCEPT ![i] = w]

LEMMA RewrittenIsDense ==
  ASSUME RuleSetOK, PrioritiesDense, NEW i, NEW w, Rewritten(i, w)
  PROVE  PrioritiesDense'
<1>1. Live' = Live
  BY RowAssumption DEF Live, RuleSetOK, Rewritten
<1>2. \A j \in Live : rule'[j].priority = rule[j].priority
  BY DEF Live, RuleSetOK, Rewritten
<1> QED
  BY <1>1, <1>2 DEF PrioritiesDense

\* A rule is deleted and the others close up.
ClosedUp(i) ==
  /\ i \in Live
  /\ rule' = MakeRoom(Live \ {i}, Cardinality(Live))

LEMMA ClosedUpLive ==
  ASSUME RuleSetOK, NEW i, ClosedUp(i)
  PROVE  Live' = Live \ {i}
<1>1. \A j \in Live \ {i} : rule'[j] # NoRule
  BY RoomPriority, RowAssumption DEF ClosedUp
<1>2. \A j \in RuleIds \ (Live \ {i}) : rule'[j] = NoRule
  BY DEF ClosedUp, MakeRoom
<1> QED
  BY <1>1, <1>2 DEF Live

LEMMA ClosedUpIsDense ==
  ASSUME RuleSetOK, NEW i, ClosedUp(i)
  PROVE  PrioritiesDense'
<1>1. Live' = Live \ {i}
  BY ClosedUpLive
<1>2. /\ Cardinality(Live) \in Nat /\ Cardinality(Live \ {i}) \in Nat
      /\ Cardinality(Live) >= Cardinality(Live \ {i})
  BY LiveIsFinite, FS_Subset
<1>3. {rule'[j].priority : j \in Live \ {i}} = 0..(Cardinality(Live \ {i}) - 1)
  BY <1>2, NoRoomIsDense DEF ClosedUp
<1> QED
  BY <1>1, <1>3 DEF PrioritiesDense

\* Two rules that are not placed anew keep their order.
KeepsOrder(S) ==
  \A i, j \in S \cap Live : i \in Live' /\ j \in Live' /\ Before(i, j) => Before(i, j)'

LEMMA PlacedKeepsOrder ==
  ASSUME RuleSetOK, NEW S, NEW k, NEW n, NEW w, Placed(S, k, n, w)
  PROVE  KeepsOrder(S)
<1>1. ASSUME NEW i \in S, NEW j \in S, Before(i, j)
      PROVE  rule'[i].priority < rule'[j].priority
  <2>1. k \in Nat
    BY LiveIsFinite DEF Placed
  <2>2. rule'[i] = MakeRoom(S, k)[i] /\ rule'[j] = MakeRoom(S, k)[j]
    BY PlacedLive
  <2> QED
    BY <1>1, <2>1, <2>2, RoomKeepsOrder DEF Placed
<1> QED
  BY <1>1 DEF KeepsOrder, Before

LEMMA RewrittenKeepsOrder ==
  ASSUME RuleSetOK, NEW i, NEW w, Rewritten(i, w)
  PROVE  KeepsOrder(Live)
<1>1. \A j \in Live : rule'[j].priority = rule[j].priority
  BY DEF Live, RuleSetOK, Rewritten
<1> QED
  BY <1>1 DEF KeepsOrder, Before

LEMMA ClosedUpKeepsOrder ==
  ASSUME RuleSetOK, NEW i, ClosedUp(i)
  PROVE  KeepsOrder(Live)
<1>1. Live' = Live \ {i} /\ Cardinality(Live) \in Nat
  BY ClosedUpLive, LiveIsFinite
<1>2. ASSUME NEW a \in Live \ {i}, NEW b \in Live \ {i}, Before(a, b)
      PROVE  rule'[a].priority < rule'[b].priority
  BY <1>1, <1>2, RoomKeepsOrder DEF ClosedUp
<1> QED
  BY <1>1, <1>2 DEF KeepsOrder, Before

-----------------------------------------------------------------------------
(* Rows.                                                                   *)

LEMMA Replaced ==
  ASSUME NEW r \in Rows, NEW p \in Nat
  PROVE  /\ [r EXCEPT !.priority = p] \in Rows
         /\ [r EXCEPT !.priority = p].born = r.born
         /\ [r EXCEPT !.priority = p].version = r.version
         /\ Content([r EXCEPT !.priority = p]) = Content(r)
BY DEF Rows, Content

LEMMA NextVersion ==
  ASSUME NEW r \in Rows, r.version < MaxVersion
  PROVE  r.version + 1 \in 1..MaxVersion /\ r.version \in Nat
BY RuleAssumption DEF Rows

-----------------------------------------------------------------------------
(* What a write may do to the rules.                                       *)

\* A rule read from its merchant pattern has one, and nothing is older than
\* the count of births says.
RowsOK ==
  \A i \in Live :
    /\ rule[i].condition = FromKey => rule[i].key \in Keys
    /\ rule[i].born <= births

\* The row w comes from the row r by a write, or its content is the same.
Follows(w, r) ==
  /\ w.born = r.born
  /\ w.condition = FromKey => r.condition = FromKey
  /\ w.key = r.key
  /\ \/ w.version > r.version
     \/ w.version = r.version /\ Content(w) = Content(r)

\* Every row left by a step follows the one before it or is newly born.
Evolves ==
  /\ births' \in {births, births + 1} /\ births' \in 0..MaxBirths
  /\ rule' \in [RuleIds -> Rows \cup {NoRule}]
  /\ \A i \in Live' :
       \/ i \in Live /\ Follows(rule'[i], rule[i])
       \/ /\ rule'[i].born = births' /\ births' = births + 1
          /\ rule'[i].condition = FromKey => rule'[i].key \in Keys

\* The rules stay dense and those of S keep their order.
Reorders(S) ==
  /\ PrioritiesDense => PrioritiesDense'
  /\ KeepsOrder(S)

\* A row of a later version follows, whatever it says.
LEMMA Later ==
  ASSUME NEW r \in Rows, NEW w, w.born = r.born, w.key = r.key,
         w.condition = FromKey => r.condition = FromKey,
         w.version = r.version + 1, r.version < MaxVersion
  PROVE  Follows(w, r)
BY NextVersion DEF Follows

LEMMA Unmoved ==
  ASSUME NEW r \in Rows
  PROVE  Follows(r, r)
BY DEF Follows

LEMMA RoomType ==
  ASSUME RuleSetOK, NEW S \in SUBSET Live, NEW k
  PROVE  /\ MakeRoom(S, k) \in [RuleIds -> Rows \cup {NoRule}]
         /\ \A i \in RuleIds \ S : MakeRoom(S, k)[i] = NoRule
         /\ \A i \in S : MakeRoom(S, k)[i] \in Rows /\ Follows(MakeRoom(S, k)[i], rule[i])
<1>1. ASSUME NEW i \in S
      PROVE  /\ MakeRoom(S, k)[i] \in Rows
             /\ Follows(MakeRoom(S, k)[i], rule[i])
  <2>1. i \in RuleIds /\ rule[i] \in Rows
    BY DEF Live, RuleSetOK
  <2>2. PICK p \in Nat : MakeRoom(S, k)[i] = [rule[i] EXCEPT !.priority = p]
    <3>1. Place(i, S) \in Nat /\ Place(i, S) + 1 \in Nat
      BY PlaceType DEF Live
    <3> QED
      BY <2>1, <3>1 DEF MakeRoom
  <2>3. /\ [rule[i] EXCEPT !.priority = p].key = rule[i].key
        /\ [rule[i] EXCEPT !.priority = p].condition = rule[i].condition
    BY <2>1 DEF Rows
  <2> QED
    BY <2>1, <2>2, <2>3, Replaced DEF Follows
<1>2. \A i \in RuleIds \ S : MakeRoom(S, k)[i] = NoRule
  BY DEF MakeRoom
<1>3. MakeRoom(S, k) = [i \in RuleIds |-> MakeRoom(S, k)[i]]
  BY DEF MakeRoom
<1>4. S \subseteq RuleIds
  BY DEF Live
<1>5. \A i \in RuleIds : MakeRoom(S, k)[i] \in Rows \cup {NoRule}
  BY <1>1, <1>2
<1> QED
  BY <1>1, <1>2, <1>3, <1>5

LEMMA InsertEvolves ==
  ASSUME RuleSetOK, NEW row \in Rows, Insert(row), row.born = births + 1,
         row.condition = FromKey => row.key \in Keys,
         row.priority \in 0..Cardinality(Live)
  PROVE  Evolves /\ Reorders(Live) /\ Live \subseteq Live'
<1> DEFINE room == MakeRoom(Live, row.priority)
<1>1. /\ room \in [RuleIds -> Rows \cup {NoRule}]
      /\ \A i \in RuleIds \ Live : room[i] = NoRule
      /\ \A i \in Live : room[i] \in Rows /\ Follows(room[i], rule[i])
  BY RoomType
<1>2. /\ births' = births + 1 /\ births' \in 0..MaxBirths
  BY RuleAssumption DEF Insert, RuleSetOK
<1>5. PICK n \in RuleIds \ Live : rule' = [room EXCEPT ![n] = row]
  BY RuleAssumption DEF Insert, NextIds
<1> HIDE DEF room
<1>3. rule' \in [RuleIds -> Rows \cup {NoRule}]
  BY <1>1, <1>5
<1>4. ASSUME NEW i \in Live'
      PROVE  \/ i \in Live /\ Follows(rule'[i], rule[i])
             \/ /\ rule'[i].born = births' /\ births' = births + 1
                /\ rule'[i].condition = FromKey => rule'[i].key \in Keys
  BY <1>1, <1>2, <1>5 DEF Live
<1>6. Placed(Live, row.priority, n, row)
  BY <1>5 DEF Placed, room
<1>7. Reorders(Live)
  BY <1>6, PlacedIsDense, PlacedKeepsOrder DEF Reorders
<1>8. Live \subseteq Live'
  BY <1>6, PlacedLive
<1> QED
  BY <1>2, <1>3, <1>4, <1>7, <1>8 DEF Evolves

\* One row is written anew and the others keep what they are.
LEMMA OneChanges ==
  ASSUME RuleSetOK, NEW i \in Live, NEW w \in Rows, Follows(w, rule[i]),
         w.priority = rule[i].priority,
         rule' = [rule EXCEPT ![i] = w], births' = births
  PROVE  Evolves /\ Reorders(Live) /\ Live \subseteq Live'
<1>1. \A j \in Live : rule[j] \in Rows
  BY DEF Live, RuleSetOK
<1>2. ASSUME NEW j \in Live'
      PROVE  j \in Live /\ Follows(rule'[j], rule[j])
  BY <1>1, Unmoved DEF Live, RuleSetOK
<1>3. Rewritten(i, w)
  BY DEF Rewritten
<1>4. Reorders(Live)
  BY <1>3, RewrittenIsDense, RewrittenKeepsOrder DEF Reorders
<1>5. Live \subseteq Live'
  BY RowAssumption DEF Live, RuleSetOK
<1> QED
  BY <1>2, <1>4, <1>5 DEF Evolves, RuleSetOK

LEMMA NewRowType ==
  ASSUME RuleSetOK, births < MaxBirths, NEW p \in Nat, NEW k \in Keys \cup {NoKey},
         NEW c \in Conditions \cup Keys \cup {FromKey}, NEW a \in Actions
  PROVE  /\ NewRow(p, k, c, a) \in Rows
         /\ NewRow(p, k, c, a).born = births + 1
         /\ NewRow(p, k, c, a).condition = c
         /\ NewRow(p, k, c, a).key = k
         /\ NewRow(p, k, c, a).priority = p
BY RuleAssumption DEF NewRow, Rows, RuleSetOK

LEMMA UnchangedReorders ==
  ASSUME UNCHANGED rule
  PROVE  Reorders(Live) /\ Live = Live'
BY DEF Reorders, PrioritiesDense, KeepsOrder, Live, Before

LEMMA CreateEvolves ==
  ASSUME RuleSetOK, RowsOK, NEW c \in Conditions \cup Keys, NEW a \in Actions,
         CreateRule(c, a)
  PROVE  Evolves /\ Reorders(Live) /\ Live \subseteq Live'
<1>1. c # FromKey /\ births < MaxBirths
  BY RuleAssumption DEF CreateRule, Insert
<1>2. Cardinality(Live) \in Nat /\ Cardinality(Live) \in 0..Cardinality(Live)
  BY LiveIsFinite
<1> QED
  BY <1>1, <1>2, NewRowType, InsertEvolves DEF CreateRule

LEMMA DuplicateEvolves ==
  ASSUME RuleSetOK, RowsOK, NEW i \in Live, DuplicateRule(i)
  PROVE  Evolves /\ Reorders(Live) /\ Live \subseteq Live'
<1>1. rule[i] \in Rows /\ i \in RuleIds /\ births < MaxBirths
  BY DEF Live, RuleSetOK, DuplicateRule, Insert
<1>2. EffectiveCondition(rule[i]) \in Conditions \cup Keys /\ rule[i].action \in Actions
      /\ rule[i].enabled \in BOOLEAN
  BY <1>1 DEF EffectiveCondition, RowsOK, Rows
<1>3. Place(i, Live) + 1 \in Nat /\ Place(i, Live) + 1 \in 0..Cardinality(Live)
  BY PlaceBound, LiveIsFinite
<1> DEFINE row == NewRow(Place(i, Live) + 1, NoKey, EffectiveCondition(rule[i]), rule[i].action)
           copy == [row EXCEPT !.enabled = rule[i].enabled]
<1>4. row \in Rows /\ row.born = births + 1 /\ row.condition = EffectiveCondition(rule[i])
      /\ row.priority = Place(i, Live) + 1
  BY <1>1, <1>2, <1>3, NewRowType
<1>5. Insert(copy)
  BY DEF DuplicateRule
<1> HIDE DEF row
<1>6. copy \in Rows /\ copy.born = row.born /\ copy.condition = row.condition
      /\ copy.priority = row.priority
  BY <1>2, <1>4 DEF Rows
<1>7. copy.condition # FromKey
  BY <1>2, <1>4, <1>6, RuleAssumption
<1> HIDE DEF copy
<1> QED
  BY <1>3, <1>4, <1>5, <1>6, <1>7, InsertEvolves

LEMMA UpsertEvolves ==
  ASSUME RuleSetOK, RowsOK, NEW k \in Keys, NEW a \in Actions, UpsertRule(k, a)
  PROVE  Evolves /\ Reorders(Live) /\ Live \subseteq Live'
<1>1. CASE Insert(NewRow(Cardinality(Live), k, FromKey, a))
  <2>1. births < MaxBirths
    BY <1>1 DEF Insert
  <2>2. Cardinality(Live) \in Nat /\ Cardinality(Live) \in 0..Cardinality(Live)
    BY LiveIsFinite
  <2> QED
    BY <1>1, <2>1, <2>2, NewRowType, InsertEvolves
<1>2. CASE UNCHANGED <<rule, births>>
  <2>1. Evolves
    BY <1>2, Unmoved DEF Evolves, RuleSetOK, Live
  <2>2. Reorders(Live) /\ Live \subseteq Live'
    BY <1>2, UnchangedReorders
  <2> QED
    BY <2>1, <2>2
<1>3. ASSUME NEW i \in Live, Bump(i),
             rule' = [rule EXCEPT ![i].action = a, ![i].version = @ + 1]
      PROVE  Evolves /\ Reorders(Live) /\ Live \subseteq Live'
  <2>1. rule[i] \in Rows /\ rule[i].version < MaxVersion
    BY <1>3 DEF Live, RuleSetOK, Bump
  <2>5. PICK next \in 1..MaxVersion : next = rule[i].version + 1
    BY <2>1, NextVersion
  <2> DEFINE w == [rule[i] EXCEPT !.action = a, !.version = next]
  <2>2. /\ w \in Rows /\ w.born = rule[i].born /\ w.key = rule[i].key
        /\ w.condition = rule[i].condition /\ w.version = rule[i].version + 1
        /\ w.priority = rule[i].priority
    BY <2>1, <2>5 DEF Rows
  <2>3. rule' = [rule EXCEPT ![i] = w]
    BY <1>3, <2>5 DEF RuleSetOK, Live
  <2> HIDE DEF w
  <2>4. Follows(w, rule[i])
    BY <2>1, <2>2, Later
  <2> QED
    BY <1>3, <2>2, <2>3, <2>4, OneChanges DEF Bump
<1> QED
  BY <1>1, <1>2, <1>3 DEF UpsertRule

\* The writes that name a version.
LEMMA UpdateEvolves ==
  ASSUME RuleSetOK, NEW i, NEW v, NEW c \in Conditions \cup Keys, NEW a \in Actions,
         UpdateRule(i, v, c, a)
  PROVE  Evolves /\ Reorders(Live) /\ Live \subseteq Live'
<1>1. i \in Live /\ i \in RuleIds /\ rule[i] \in Rows /\ rule[i].version < MaxVersion
  BY DEF UpdateRule, Current, Bump, Live, RuleSetOK
<1>5. PICK next \in 1..MaxVersion : next = rule[i].version + 1
  BY <1>1, NextVersion
<1> DEFINE w == [rule[i] EXCEPT !.condition = c, !.action = a, !.version = next]
<1>2. /\ w \in Rows /\ w.born = rule[i].born /\ w.key = rule[i].key
      /\ w.condition = c /\ w.version = rule[i].version + 1
      /\ w.priority = rule[i].priority
  BY <1>1, <1>5 DEF Rows
<1>3. rule' = [rule EXCEPT ![i] = w] /\ births' = births
  BY <1>1, <1>5 DEF UpdateRule, RuleSetOK, Bump
<1> HIDE DEF w
<1>4. Follows(w, rule[i])
  BY <1>1, <1>2, Later, RuleAssumption
<1> QED
  BY <1>1, <1>2, <1>3, <1>4, OneChanges

LEMMA SwitchEvolves ==
  ASSUME RuleSetOK, NEW i, NEW v, NEW e \in BOOLEAN, SetRuleEnabled(i, v, e)
  PROVE  Evolves /\ Reorders(Live) /\ Live \subseteq Live'
<1>1. i \in Live /\ i \in RuleIds /\ rule[i] \in Rows /\ rule[i].version < MaxVersion
  BY DEF SetRuleEnabled, Current, Bump, Live, RuleSetOK
<1>5. PICK next \in 1..MaxVersion : next = rule[i].version + 1
  BY <1>1, NextVersion
<1> DEFINE w == [rule[i] EXCEPT !.enabled = e, !.version = next]
<1>2. /\ w \in Rows /\ w.born = rule[i].born /\ w.key = rule[i].key
      /\ w.condition = rule[i].condition /\ w.version = rule[i].version + 1
      /\ w.priority = rule[i].priority
  BY <1>1, <1>5 DEF Rows
<1>3. rule' = [rule EXCEPT ![i] = w] /\ births' = births
  BY <1>1, <1>5 DEF SetRuleEnabled, RuleSetOK, Bump
<1> HIDE DEF w
<1>4. Follows(w, rule[i])
  BY <1>1, <1>2, Later
<1> QED
  BY <1>1, <1>2, <1>3, <1>4, OneChanges

LEMMA MoveEvolves ==
  ASSUME RuleSetOK, NEW i, NEW v, NEW n, MoveRule(i, v, n)
  PROVE  Evolves /\ Reorders(Live \ {i}) /\ Live \subseteq Live'
<1>1. i \in Live /\ i \in RuleIds /\ rule[i] \in Rows /\ rule[i].version < MaxVersion
  BY DEF MoveRule, Current, Bump, Live, RuleSetOK
<1>2. n \in Nat
  BY LiveIsFinite DEF MoveRule
<1>9. PICK next \in 1..MaxVersion : next = rule[i].version + 1
  BY <1>1, NextVersion
<1> DEFINE w == [rule[i] EXCEPT !.priority = n, !.version = next]
           room == MakeRoom(Live \ {i}, n)
<1>3. /\ w \in Rows /\ w.born = rule[i].born /\ w.key = rule[i].key
      /\ w.condition = rule[i].condition /\ w.version = rule[i].version + 1
      /\ w.priority = n
  BY <1>1, <1>2, <1>9 DEF Rows
<1>4. /\ room \in [RuleIds -> Rows \cup {NoRule}]
      /\ \A j \in RuleIds \ (Live \ {i}) : room[j] = NoRule
      /\ \A j \in Live \ {i} : room[j] \in Rows /\ Follows(room[j], rule[j])
  BY RoomType
<1>5. rule' = [room EXCEPT ![i] = w] /\ births' = births
  BY <1>1, <1>9 DEF MoveRule, Bump
<1> HIDE DEF w, room
<1>6. Follows(w, rule[i])
  BY <1>1, <1>3, Later
<1>7. rule' \in [RuleIds -> Rows \cup {NoRule}]
  BY <1>3, <1>4, <1>5
<1>8. ASSUME NEW j \in Live'
      PROVE  j \in Live /\ Follows(rule'[j], rule[j])
  BY <1>1, <1>4, <1>5, <1>6 DEF Live
<1>10. Cardinality(Live \ {i}) = Cardinality(Live) - 1 /\ Cardinality(Live) \in Nat
  BY <1>1, LiveIsFinite, FS_RemoveElement
<1>11. Placed(Live \ {i}, n, i, w)
  BY <1>1, <1>3, <1>5, <1>10 DEF Placed, MoveRule, room
<1>12. Reorders(Live \ {i})
  BY <1>11, PlacedIsDense, PlacedKeepsOrder DEF Reorders
<1>13. Live \subseteq Live'
  BY <1>11, PlacedLive
<1> QED
  BY <1>5, <1>7, <1>8, <1>12, <1>13 DEF Evolves, RuleSetOK

LEMMA DeleteEvolves ==
  ASSUME RuleSetOK, NEW i, NEW v, DeleteRule(i, v)
  PROVE  Evolves /\ Reorders(Live) /\ Live' = Live \ {i}
<1> DEFINE room == MakeRoom(Live \ {i}, Cardinality(Live))
<1>1. /\ room \in [RuleIds -> Rows \cup {NoRule}]
      /\ \A j \in RuleIds \ (Live \ {i}) : room[j] = NoRule
      /\ \A j \in Live \ {i} : room[j] \in Rows /\ Follows(room[j], rule[j])
  BY RoomType
<1>2. rule' = room /\ births' = births
  BY DEF DeleteRule
<1> HIDE DEF room
<1>3. ASSUME NEW j \in Live'
      PROVE  j \in Live /\ Follows(rule'[j], rule[j])
  BY <1>1, <1>2 DEF Live
<1>4. ClosedUp(i)
  BY DEF ClosedUp, DeleteRule, Current
<1>5. Reorders(Live)
  BY <1>4, ClosedUpIsDense, ClosedUpKeepsOrder DEF Reorders
<1>6. Live' = Live \ {i}
  BY <1>4, ClosedUpLive
<1> QED
  BY <1>1, <1>2, <1>3, <1>5, <1>6 DEF Evolves, RuleSetOK

\* A write keeps the rows in order and the pages truthful.
LEMMA RowsEvolve ==
  ASSUME RuleSetOK, RowsOK, Evolves
  PROVE  RowsOK'
<1>1. \A i \in Live' : i \in RuleIds /\ rule'[i] \in Rows
  BY DEF Live, Evolves
<1>2. \A i \in Live : rule[i] \in Rows
  BY DEF Live, RuleSetOK
<1>3. \A r \in Rows : r.born \in Nat
  BY DEF Rows
<1>4. births \in Nat
  BY RuleAssumption DEF RuleSetOK
<1> SUFFICES ASSUME NEW i \in Live'
             PROVE  /\ rule'[i].condition = FromKey => rule'[i].key \in Keys
                    /\ rule'[i].born <= births'
  BY DEF RowsOK
<1>5. CASE i \in Live /\ Follows(rule'[i], rule[i])
  BY <1>2, <1>3, <1>4, <1>5 DEF Evolves, RowsOK, Follows
<1>6. CASE /\ rule'[i].born = births' /\ births' = births + 1
           /\ rule'[i].condition = FromKey => rule'[i].key \in Keys
  BY <1>4, <1>6
<1> QED
  BY <1>5, <1>6 DEF Evolves

LEMMA EvolvesType ==
  ASSUME Evolves
  PROVE  RuleSetOK'
BY DEF Evolves, RuleSetOK

-----------------------------------------------------------------------------
(* What a write leaves of the other rules.                                 *)

\* What decides about a transaction: the content of a rule but for its birth
\* and version.
SaysSame(w, r) ==
  /\ w.enabled = r.enabled /\ w.action = r.action
  /\ w.condition = r.condition /\ w.key = r.key

LEMMA RoomSaysSame ==
  ASSUME RuleSetOK, NEW S \in SUBSET Live, NEW k, NEW i \in S
  PROVE  SaysSame(MakeRoom(S, k)[i], rule[i])
<1>1. i \in RuleIds /\ rule[i] \in Rows
  BY LiveRows
<1>2. PICK p \in Nat : MakeRoom(S, k)[i] = [rule[i] EXCEPT !.priority = p]
  <2>1. Place(i, S) \in Nat /\ Place(i, S) + 1 \in Nat
    BY PlaceType DEF Live
  <2> QED
    BY <1>1, <2>1 DEF MakeRoom
<1> QED
  BY <1>1, <1>2 DEF SaysSame, Rows

\* Of rules that keep their order, the one that runs first still does.
LEMMA OrderStays ==
  ASSUME RuleSetOK, RuleSetOK', KeepsOrder(Live),
         NEW i \in Live \cap Live', NEW j \in Live \cap Live'
  PROVE  Before(i, j)' <=> Before(i, j)
<1>1. Before(i, j) => Before(i, j)'
  BY DEF KeepsOrder
<1>2. Before(j, i) => Before(j, i)'
  BY DEF KeepsOrder
<1>3. i # j => Before(i, j) \/ Before(j, i)
  BY BeforeIsOrder
<1>4. rule'[i] \in Rows /\ rule'[j] \in Rows /\ i \in Nat /\ j \in Nat
  BY RuleAssumption DEF RuleSetOK, Live
<1>5. ~(Before(i, j)' /\ Before(j, i)') /\ (i = j => ~Before(i, j)')
  BY <1>4 DEF Before, Rows
<1> QED
  BY <1>1, <1>2, <1>3, <1>5

\* A deletion leaves the other rules what they say, in their order.
LEMMA DeleteLeavesOthers ==
  ASSUME RuleSetOK, NEW i, NEW v, DeleteRule(i, v)
  PROVE  /\ Live' = Live \ {i} /\ RuleSetOK'
         /\ \A j \in Live' : SaysSame(rule'[j], rule[j])
         /\ \A j, k \in Live' : Before(j, k)' <=> Before(j, k)
<1>1. Evolves /\ KeepsOrder(Live) /\ Live' = Live \ {i}
  BY DeleteEvolves DEF Reorders
<1>2. RuleSetOK'
  BY <1>1, EvolvesType
<1>3. \A j \in Live' : SaysSame(rule'[j], rule[j])
  BY <1>1, RoomSaysSame DEF DeleteRule
<1> QED
  BY <1>1, <1>2, <1>3, OrderStays

\* A new rule runs last and leaves the others what they say, in their order.
LEMMA CreateLeavesOthers ==
  ASSUME RuleSetOK, RowsOK, NEW c \in Conditions \cup Keys, NEW a \in Actions,
         CreateRule(c, a), NEW i \in Live' \ Live
  PROVE  /\ RuleSetOK' /\ Live' = Live \cup {i}
         /\ rule'[i].enabled /\ rule'[i].condition = c /\ rule'[i].action = a
         /\ \A j \in Live : SaysSame(rule'[j], rule[j]) /\ Before(j, i)'
<1> DEFINE n == Cardinality(Live)
           row == NewRow(n, NoKey, c, a)
<1>1. n \in Nat
  BY LiveIsFinite
<1>2. births < MaxBirths
  BY DEF CreateRule, Insert
<1>3. /\ row \in Rows /\ row.priority = n /\ row.condition = c
      /\ row.enabled /\ row.action = a
  BY <1>1, <1>2, NewRowType DEF NewRow
<1>4. Insert(row)
  BY DEF CreateRule
<1> HIDE DEF n, row
<1>5. PICK l \in RuleIds \ Live : rule' = [MakeRoom(Live, row.priority) EXCEPT ![l] = row]
  BY <1>4, RuleAssumption DEF Insert, NextIds
<1>6. rule' = [MakeRoom(Live, n) EXCEPT ![l] = row]
  BY <1>3, <1>5
<1>7. Placed(Live, n, l, row)
  BY <1>1, <1>3, <1>6 DEF Placed, n
<1>8. /\ Live' = Live \cup {l} /\ rule'[l] = row
      /\ \A j \in Live : rule'[j] = MakeRoom(Live, n)[j]
  BY <1>7, PlacedLive
<1>9. l = i
  BY <1>8
<1>10. RuleSetOK'
  BY CreateEvolves, EvolvesType
<1>11. ASSUME NEW j \in Live
       PROVE  SaysSame(rule'[j], rule[j]) /\ Before(j, i)'
  <2>1. SaysSame(rule'[j], rule[j])
    BY <1>8, RoomSaysSame
  <2>2. Place(j, Live) \in 0..(n - 1)
    BY PlaceBound DEF n
  <2>3. rule'[j].priority = Place(j, Live)
    BY <1>1, <1>8, <2>2, RoomPriority
  <2> QED
    BY <1>1, <1>3, <1>8, <1>9, <2>1, <2>2, <2>3 DEF Before
<1> QED
  BY <1>3, <1>8, <1>9, <1>10, <1>11

\* An edited rule keeps its place and leaves the others alone.
LEMMA UpdateLeavesOthers ==
  ASSUME RuleSetOK, NEW i, NEW v, NEW c \in Conditions \cup Keys, NEW a \in Actions,
         UpdateRule(i, v, c, a)
  PROVE  /\ RuleSetOK' /\ Live' = Live /\ i \in Live
         /\ rule'[i].enabled = rule[i].enabled
         /\ rule'[i].condition = c /\ rule'[i].action = a
         /\ \A j \in Live \ {i} : rule'[j] = rule[j]
         /\ \A j, k \in Live : Before(j, k)' <=> Before(j, k)
<1>1. i \in Live /\ i \in RuleIds /\ rule[i] \in Rows
  BY DEF UpdateRule, Current, Live, RuleSetOK
<1>2. Evolves /\ Live \subseteq Live'
  BY UpdateEvolves
<1>3. /\ rule'[i].enabled = rule[i].enabled /\ rule'[i].priority = rule[i].priority
      /\ rule'[i].condition = c /\ rule'[i].action = a
      /\ \A j \in RuleIds \ {i} : rule'[j] = rule[j]
  BY <1>1 DEF UpdateRule, RuleSetOK, Rows
<1>4. Live' = Live
  BY <1>1, <1>2, <1>3 DEF Live
<1>5. \A j \in Live : rule'[j].priority = rule[j].priority
  BY <1>3 DEF Live
<1> QED
  BY <1>1, <1>2, <1>3, <1>4, <1>5, EvolvesType DEF Live, Before
=============================================================================
