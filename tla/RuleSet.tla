------------------------------ MODULE RuleSet ------------------------------
(***************************************************************************)
(* The merchant_rules rows of one workspace and the operations that write  *)
(* them: app/rules/service.py and upsert_workspace_rule.  Every operation  *)
(* begins by writing the workspace row (serialize_workspace_mutation), so  *)
(* it holds the only write lock before it reads and is one step here.      *)
(*                                                                         *)
(* The condition of a rule is a member of Conditions, a merchant key (the  *)
(* exact-key predicate), or FromKey: the empty JSON of a rule made by a    *)
(* transaction edit, read as its merchant_pattern.                         *)
(***************************************************************************)
EXTENDS Integers, FiniteSets

CONSTANTS
  RuleIds,       \* 1..n, the primary keys that can be given out
  Conditions,    \* conditions other than exact keys
  Keys,          \* merchant keys
  Actions,       \* what a rule sets: merchant, category, tags, ...
  FromKey, NoKey, NoRule,
  MaxVersion,    \* bound on lock_version
  MaxBirths      \* bound on the number of rules ever created

ASSUME RuleAssumption ==
  /\ RuleIds \subseteq Nat \ {0}
  /\ IsFiniteSet(RuleIds)
  /\ FromKey \notin Conditions \cup Keys
  /\ NoKey \notin Keys
  /\ MaxVersion \in Nat \ {0}
  /\ MaxBirths \in Nat

VARIABLES
  rule,    \* rule id -> its row, or NoRule
  births   \* history: how many rules were created

\* born tells apart the rules that were given one primary key in succession.
Rows == [born : 1..MaxBirths, priority : Nat, version : 1..MaxVersion,
         enabled : BOOLEAN, key : Keys \cup {NoKey},
         condition : Conditions \cup Keys \cup {FromKey}, action : Actions]

\* A row is no missing row.
ASSUME RowAssumption == NoRule \notin Rows

RuleSetOK ==
  /\ rule \in [RuleIds -> Rows \cup {NoRule}]
  /\ births \in 0..MaxBirths

RuleSetInit ==
  /\ rule = [i \in RuleIds |-> NoRule]
  /\ births = 0

Live == {i \in RuleIds : rule[i] # NoRule}

\* Execution order: by priority, ties by id.
Before(i, j) ==
  \/ rule[i].priority < rule[j].priority
  \/ rule[i].priority = rule[j].priority /\ i < j

\* Mutant: rules are listed by id alone.
PlaceById(i, S) == Cardinality({j \in S : j < i})

\* The place of rule i when the rules S are listed.
Place(i, S) == Cardinality({j \in S : Before(j, i)})

\* The rows of S with the place k left free.
MakeRoom(S, k) ==
  [i \in RuleIds |->
     IF i \in S
       THEN [rule[i] EXCEPT !.priority =
               IF Place(i, S) < k THEN Place(i, S) ELSE Place(i, S) + 1]
       ELSE NoRule]

\* SQLite gives an INTEGER PRIMARY KEY the largest one in use plus one.
NextIds == {n \in RuleIds : n - 1 \in Live \cup {0} /\ \A i \in Live : i < n}

EffectiveCondition(row) ==
  IF row.condition = FromKey THEN row.key ELSE row.condition

NewRow(place, key, condition, action) ==
  [born |-> births + 1, priority |-> place, version |-> 1, enabled |-> TRUE,
   key |-> key, condition |-> condition, action |-> action]

\* A row of the given place and content is added.
Insert(row) ==
  /\ births < MaxBirths
  /\ births' = births + 1
  /\ \E n \in NextIds : rule' = [MakeRoom(Live, row.priority) EXCEPT ![n] = row]

CreateRule(condition, action) ==
  Insert(NewRow(Cardinality(Live), NoKey, condition, action))

DuplicateRule(i) ==
  /\ i \in Live
  /\ Insert([NewRow(Place(i, Live) + 1, NoKey, EffectiveCondition(rule[i]), rule[i].action)
               EXCEPT !.enabled = rule[i].enabled])

\* Mutant: any submitted lock_version is taken.
IsLive(i, version) == i \in Live

\* The WHERE clause of the optimistic updates.
Current(i, version) ==
  /\ i \in Live
  /\ rule[i].version = version

Bump(i) ==
  /\ rule[i].version < MaxVersion
  /\ UNCHANGED births

UpdateRule(i, version, condition, action) ==
  /\ Current(i, version)
  /\ Bump(i)
  /\ rule' = [rule EXCEPT ![i].condition = condition, ![i].action = action,
                          ![i].version = @ + 1]

SetRuleEnabled(i, version, enabled) ==
  /\ Current(i, version)
  /\ Bump(i)
  /\ rule' = [rule EXCEPT ![i].enabled = enabled, ![i].version = @ + 1]

MoveRule(i, version, newIndex) ==
  /\ Current(i, version)
  /\ newIndex \in 0..(Cardinality(Live) - 1)
  /\ Bump(i)
  /\ rule' = [MakeRoom(Live \ {i}, newIndex) EXCEPT ![i] =
                [rule[i] EXCEPT !.priority = newIndex, !.version = @ + 1]]

\* Mutant: the remaining priorities are not compacted.
DeleteAndLeaveGap(i, version) ==
  /\ Current(i, version)
  /\ UNCHANGED births
  /\ rule' = [rule EXCEPT ![i] = NoRule]

DeleteRule(i, version) ==
  /\ Current(i, version)
  /\ UNCHANGED births
  /\ rule' = MakeRoom(Live \ {i}, Cardinality(Live))

\* A transaction edit saved for the future: replace the action of the rule
\* made for this key, whatever its condition is by now, or append one.
UpsertRule(key, action) ==
  \/ /\ \A i \in Live : rule[i].key # key
     /\ Insert(NewRow(Cardinality(Live), key, FromKey, action))
  \/ \E i \in Live :
       /\ rule[i].key = key
       /\ \/ rule[i].action = action /\ UNCHANGED <<rule, births>>
          \/ /\ rule[i].action # action
             /\ Bump(i)
             /\ rule' = [rule EXCEPT ![i].action = action, ![i].version = @ + 1]

\* What a rule says, its place aside.
Content(row) == [row EXCEPT !.priority = 0]

\* The rules run in a strict order with priorities 0, 1, 2, ...: creating,
\* copying, moving, deleting and saving for the future all compact them.
PrioritiesDense ==
  {rule[i].priority : i \in Live} = 0..(Cardinality(Live) - 1)
=============================================================================
