---------------------------- MODULE RuleHistory ----------------------------
(***************************************************************************)
(* Workspace rules and the transactions they categorize: the decision a    *)
(* review row shows and its commit (app/imports/service.py), manual        *)
(* categorization (app/transactions/service.py), deletion of a custom tag, *)
(* and the previewed and confirmed application of a rule to history        *)
(* (app/rules/service.py), with the audit events all of these record.      *)
(*                                                                         *)
(* Handlers take the workspace lock or run on the event loop without       *)
(* yielding, so each is one step.  What is stale is what a member holds:   *)
(* the decisions of a review page and the tokens of previews.              *)
(***************************************************************************)
EXTENDS RuleSet, Sequences

CONSTANTS
  Txs,         \* rows of statements, imported or not
  KeyOf,       \* tx -> its merchant key
  Verdict,     \* condition -> tx -> "yes", "no" or "unknown", over history
  AtImport,    \* condition -> tx -> whether it matches at import
  Untagged,    \* action -> the action without the custom tag
  Fallback,    \* what is chosen when no workspace rule matches
  Previews,    \* application runs
  MaxEvents,   \* bound on the audit events of one transaction
  NoTx, NoReview, NoRun

NoLink == 0
Links == RuleIds \cup {NoLink}
Sources == {"uncategorized", "workspace_rule", "manual"}

\* What a transaction or a review row can carry.
Categorizations == [source : Sources, action : Actions, link : Links]

\* Only the provider of a row is lost after its import: a condition that can
\* be decided over history is decided as it was at import.
\* RuleConditions evaluates both.
ASSUME HistoryAssumption ==
  /\ KeyOf \in [Txs -> Keys]
  /\ Verdict \in [Conditions -> [Txs -> {"yes", "no", "unknown"}]]
  /\ AtImport \in [Conditions -> [Txs -> BOOLEAN]]
  /\ \A c \in Conditions, t \in Txs :
       Verdict[c][t] # "unknown" => AtImport[c][t] = (Verdict[c][t] = "yes")
  /\ Untagged \in [Actions -> Actions]
  /\ \A a \in Actions : Untagged[Untagged[a]] = Untagged[a]
  /\ Fallback \in Actions
  /\ Untagged[Fallback] = Fallback
  /\ Conditions \cap Keys = {}
  /\ MaxEvents \in Nat
  /\ {NoTx, NoReview} \cap Categorizations = {}

VARIABLES
  tx,      \* tx -> its categorization, or NoTx before it is imported
  trail,   \* tx -> its audit events, oldest first
  review,  \* tx -> the decision an open review page shows for it
  run,     \* preview -> its audit row and the token that was handed out
  tagged   \* whether the custom tag still exists

vars == <<rule, births, tx, trail, review, run, tagged>>
ruleVars == <<rule, births>>

Categorized(source, action, link) ==
  [source |-> source, action |-> action, link |-> link]

\* What an audit event says of a categorization.
Attribution(c) == [source |-> c.source, link |-> c.link]

Unattributed == [source |-> "uncategorized", link |-> NoLink]

Init ==
  /\ RuleSetInit
  /\ tx = [t \in Txs |-> NoTx]
  /\ trail = [t \in Txs |-> <<>>]
  /\ review = [t \in Txs |-> NoReview]
  /\ run = [n \in Previews |-> NoRun]
  /\ tagged = TRUE

-----------------------------------------------------------------------------
(* Which rule decides.                                                     *)

\* The three-valued verdict over history.
OutcomeOf(c, t) ==
  IF c \in Conditions THEN Verdict[c][t]
  ELSE IF c = KeyOf[t] THEN "yes" ELSE "no"

Outcome(i, t) == OutcomeOf(EffectiveCondition(rule[i]), t)

MatchesAtImport(i, t) ==
  LET c == EffectiveCondition(rule[i]) IN
  IF c \in Conditions THEN AtImport[c][t] ELSE c = KeyOf[t]

Enabled == {i \in Live : rule[i].enabled}

Resulting(i) == Categorized("workspace_rule", rule[i].action, i)

\* categorize_candidate: the first enabled rule that matches, else whatever
\* the provider, built-in and fallback rules say.
Decision(t) ==
  LET matching == {i \in Enabled : MatchesAtImport(i, t)} IN
  IF matching = {} THEN Categorized("uncategorized", Fallback, NoLink)
  ELSE Resulting(CHOOSE i \in matching : \A j \in matching \ {i} : Before(i, j))

\* Mutant: an earlier rule that cannot be decided does not stand in the way.
WinsUnlessBeaten(i, t) ==
  /\ Outcome(i, t) = "yes"
  /\ \A j \in Enabled : Before(j, i) => Outcome(j, t) # "yes"

\* No earlier rule matches, and none is undecided.
WinsOverHistory(i, t) ==
  /\ Outcome(i, t) = "yes"
  /\ \A j \in Enabled : Before(j, i) => Outcome(j, t) = "no"

\* Mutant: manual decisions are taken like any other.
EligibleIfManual(i) ==
  {t \in Txs : /\ tx[t] # NoTx
               /\ WinsOverHistory(i, t)
               /\ tx[t] # Resulting(i)}

\* The transactions a preview of rule i offers.
Eligible(i) ==
  {t \in Txs : /\ tx[t] # NoTx
               /\ tx[t].source # "manual"
               /\ WinsOverHistory(i, t)
               /\ tx[t] # Resulting(i)}

-----------------------------------------------------------------------------
(* Audit events: one for every change of the attribution.                  *)

\* The trail of t after its attribution went from old to new.
Logged(t, old, new) ==
  IF old = new THEN trail[t]
  ELSE Append(trail[t], [from |-> old, to |-> new])

RoomFor(S) == \A t \in S : Len(trail[t]) < MaxEvents

\* What actions may set once a tag is gone.
Usable == IF tagged THEN Actions ELSE {a \in Actions : Untagged[a] = a}

-----------------------------------------------------------------------------
(* Import: the review page shows a decision, signed, and the commit keeps  *)
(* it.                                                                     *)

ReviewRow(t) ==
  /\ tx[t] = NoTx
  /\ review' = [review EXCEPT ![t] = Decision(t)]
  /\ UNCHANGED <<ruleVars, tx, trail, run, tagged>>

\* An edited row is a manual decision.  An untouched one keeps what was
\* shown; its link only if the same rule still decides the same.
ReviewedFields(t, action) ==
  IF action # review[t].action THEN Categorized("manual", action, NoLink)
  ELSE Categorized(review[t].source, action,
                   IF Decision(t) = review[t] THEN review[t].link ELSE NoLink)

\* A decision that names a deleted tag is refused.
CommitRow(t, action) ==
  /\ tx[t] = NoTx
  /\ review[t] # NoReview
  /\ {review[t].action, action} \subseteq Usable
  /\ RoomFor({t})
  /\ LET new == ReviewedFields(t, action) IN
       /\ tx' = [tx EXCEPT ![t] = new]
       /\ trail' = [trail EXCEPT ![t] = Logged(t, Unattributed, Attribution(new))]
  /\ review' = [review EXCEPT ![t] = NoReview]
  /\ UNCHANGED <<ruleVars, run, tagged>>

-----------------------------------------------------------------------------
(* Manual categorization, possibly saved for the future.                   *)

\* Mutant: the previous rule is read after the link was cleared.
ManualTrailAfterClearing(t) ==
  Logged(t, [source |-> tx[t].source, link |-> NoLink],
         [source |-> "manual", link |-> NoLink])

ManualTrail(t) ==
  Logged(t, Attribution(tx[t]), [source |-> "manual", link |-> NoLink])

Manual(t, action) ==
  /\ tx[t] # NoTx
  /\ action \in Usable
  /\ RoomFor({t})
  /\ tx' = [tx EXCEPT ![t] = Categorized("manual", action, NoLink)]
  /\ trail' = [trail EXCEPT ![t] = ManualTrail(t)]
  /\ \/ UNCHANGED ruleVars
     \/ UpsertRule(KeyOf[t], action)
  /\ UNCHANGED <<review, run, tagged>>

-----------------------------------------------------------------------------
(* Rules and tags.                                                         *)

\* Stale pages are the subject of RulePages; here versions are current.
WriteRule ==
  /\ \/ \E c \in Conditions \cup Keys, a \in Usable :
          CreateRule(c, a)
     \/ \E i \in Live, c \in Conditions \cup Keys, a \in Usable :
          UpdateRule(i, rule[i].version, c, a)
     \/ \E i \in Live : SetRuleEnabled(i, rule[i].version, ~rule[i].enabled)
     \/ \E i \in Live, k \in 0..(Cardinality(Live) - 1) : MoveRule(i, rule[i].version, k)
     \/ \E i \in Live : DuplicateRule(i)
  /\ UNCHANGED <<tx, trail, review, run, tagged>>

\* ON DELETE SET NULL.
Unlinked(c, i) == IF c.link = i THEN [c EXCEPT !.link = NoLink] ELSE c

UnlinkedTrail(t, i) ==
  [e \in DOMAIN trail[t] |-> [from |-> Unlinked(trail[t][e].from, i),
                              to |-> Unlinked(trail[t][e].to, i)]]

\* The CHECK constraint of transaction_categorization_events: every event
\* records a change.  SQLite checks it when a link is set to null, too.
EventsStayDistinct(i) ==
  \A t \in Txs : \A e \in DOMAIN trail[t] :
    UnlinkedTrail(t, i)[e].from # UnlinkedTrail(t, i)[e].to

\* Mutant: the foreign key of the transactions is left alone.
DeleteRuleKeepingLinks(i) ==
  /\ i \in Live
  /\ EventsStayDistinct(i)
  /\ DeleteRule(i, rule[i].version)
  /\ trail' = [t \in Txs |-> UnlinkedTrail(t, i)]
  /\ UNCHANGED <<tx, review, run, tagged>>

\* The rule goes and every link to it is cleared; or the constraint refuses
\* and nothing happens.
DeleteLinkedRule(i) ==
  /\ i \in Live
  /\ EventsStayDistinct(i)
  /\ DeleteRule(i, rule[i].version)
  /\ tx' = [t \in Txs |-> IF tx[t] = NoTx THEN NoTx ELSE Unlinked(tx[t], i)]
  /\ trail' = [t \in Txs |-> UnlinkedTrail(t, i)]
  /\ UNCHANGED <<review, run, tagged>>

\* Rules and transactions lose the tag; no lock_version changes.
DeleteTag ==
  /\ tagged
  /\ tagged' = FALSE
  /\ rule' = [i \in RuleIds |->
                IF i \in Live THEN [rule[i] EXCEPT !.action = Untagged[@]]
                ELSE NoRule]
  /\ tx' = [t \in Txs |->
              IF tx[t] = NoTx THEN NoTx ELSE [tx[t] EXCEPT !.action = Untagged[@]]]
  /\ UNCHANGED <<births, trail, review, run>>

-----------------------------------------------------------------------------
(* Application to history.  A token is signed over the whole of its run.   *)

Preview(n, i, S) ==
  /\ run[n] = NoRun
  /\ i \in Enabled
  /\ S \subseteq Eligible(i)
  /\ S # {}
  /\ run' = [run EXCEPT ![n] =
               [status |-> "previewed", rule |-> i, version |-> rule[i].version,
                current |-> [t \in S |-> tx[t]], resulting |-> Resulting(i)]]
  /\ UNCHANGED <<ruleVars, tx, trail, review, tagged>>

Selected(n) == DOMAIN run[n].current

\* Everything the digest is computed from.
Digest(n) == <<run[n].rule, run[n].version, run[n].current, run[n].resulting>>

\* The confirmed runs of other previews of the same state.
Twins(n) ==
  {m \in Previews \ {n} : /\ run[m] # NoRun
                          /\ run[m].status = "confirmed"
                          /\ Digest(m) = Digest(n)}

\* The runs whose stored result answers the token, with nothing changed: its
\* own if it was confirmed, else a twin's unless it went stale.
Answer(n) ==
  IF run[n] = NoRun THEN {}
  ELSE CASE run[n].status = "confirmed" -> {n}
         [] run[n].status = "previewed" -> Twins(n)
         [] run[n].status = "stale" -> {}

\* Mutant: the run of the token is found whatever its status is.
ConfirmableInAnyStatus(n) ==
  /\ run[n] # NoRun
  /\ Twins(n) = {}

\* The token is neither answered nor refused without looking further.
Confirmable(n) ==
  /\ run[n] # NoRun
  /\ run[n].status = "previewed"
  /\ Answer(n) = {}

\* The selection recomputed under the locks has the signed digest.
StillStands(n) ==
  LET i == run[n].rule IN
  /\ i \in Enabled
  /\ rule[i].version = run[n].version
  /\ Selected(n) \subseteq Eligible(i)
  /\ \A t \in Selected(n) : run[n].current[t] = tx[t]
  /\ run[n].resulting = Resulting(i)

ConfirmStale(n) ==
  /\ Confirmable(n)
  /\ ~StillStands(n)
  /\ run' = [run EXCEPT ![n].status = "stale"]
  /\ UNCHANGED <<ruleVars, tx, trail, review, tagged>>

ConfirmApply(n) ==
  /\ Confirmable(n)
  /\ StillStands(n)
  /\ RoomFor(Selected(n))
  /\ LET new == Resulting(run[n].rule) IN
       /\ tx' = [t \in Txs |-> IF t \in Selected(n) THEN new ELSE tx[t]]
       /\ trail' = [t \in Txs |->
                      IF t \in Selected(n)
                        THEN Logged(t, Attribution(tx[t]), Attribution(new))
                        ELSE trail[t]]
  /\ run' = [run EXCEPT ![n].status = "confirmed"]
  /\ UNCHANGED <<ruleVars, review, tagged>>

-----------------------------------------------------------------------------
Next ==
  \/ \E t \in Txs : ReviewRow(t)
  \/ \E t \in Txs, a \in Actions : CommitRow(t, a)
  \/ \E t \in Txs, a \in Actions : Manual(t, a)
  \/ WriteRule
  \/ \E i \in RuleIds : DeleteLinkedRule(i)
  \/ DeleteTag
  \/ \E n \in Previews, i \in RuleIds, S \in SUBSET Txs : Preview(n, i, S)
  \/ \E n \in Previews : ConfirmStale(n)
  \/ \E n \in Previews : ConfirmApply(n)

Spec == Init /\ [][Next]_vars

-----------------------------------------------------------------------------
(* Properties.                                                             *)

Attributions == [source : Sources, link : Links]

\* A token: what it is signed over, and the status of its audit row.
IsRun(r) ==
  /\ DOMAIN r = {"status", "rule", "version", "current", "resulting"}
  /\ r.status \in {"previewed", "confirmed", "stale"}
  /\ r.rule \in RuleIds
  /\ r.version \in 1..MaxVersion
  /\ DOMAIN r.current \subseteq Txs
  /\ \A t \in DOMAIN r.current : r.current[t] \in Categorizations
  /\ r.resulting \in Categorizations

\* Types of rules, transactions, events, pages and tokens.
TypeOK ==
  /\ RuleSetOK
  /\ tx \in [Txs -> Categorizations \cup {NoTx}]
  /\ trail \in [Txs -> Seq([from : Attributions, to : Attributions])]
  /\ review \in [Txs -> Categorizations \cup {NoReview}]
  /\ DOMAIN run = Previews
  /\ \A n \in Previews : run[n] = NoRun \/ IsRun(run[n])
  /\ tagged \in BOOLEAN

\* A link names a rule that exists, and only a rule's decision has one, in
\* spite of rules deleted between review and commit and ids used again.
LinksAreLive ==
  \A t \in Txs :
    tx[t] # NoTx /\ tx[t].link # NoLink =>
      tx[t].link \in Live /\ tx[t].source = "workspace_rule"

\* The audit events of a transaction form a chain from uncategorized to its
\* present attribution, also after the rules they name were deleted.
AuditConnected ==
  \A t \in Txs :
    tx[t] # NoTx =>
      LET last == Len(trail[t])
          before(e) == IF e = 1 THEN Unattributed ELSE trail[t][e - 1].to
          after(e) == IF e > last THEN Attribution(tx[t]) ELSE trail[t][e].from
      IN  \A e \in 1..(last + 1) : before(e) = after(e)

\* A manual decision stays one: no confirmation, tag or rule operation takes
\* it back (README.md:479, "Manual categorizations are protected").
ManualProtected ==
  [][\A t \in Txs :
       tx[t] # NoTx /\ tx[t].source = "manual" => tx'[t].source = "manual"]_vars

\* README.md:482, "Reusing a confirmed token returns the same audited result":
\* once a token was answered with a run, it is answered with that run for
\* ever.  No second run of the same state is confirmed beside it, and no rule
\* or transaction that changes, goes or comes back makes the answer stale.
SameAuditedResult ==
  [][\A n \in Previews : Answer(n) # {} => Answer(n)' = Answer(n)]_vars

\* History agrees with imports: the rule that a confirmation applies is the
\* one an import of the same row would choose now.
HistoryAgreesWithImport ==
  [][\A n \in Previews :
       ConfirmApply(n) => \A t \in Selected(n) : tx'[t] = Decision(t)]_vars

\* README.md:474-476 and docs/architecture.md:72-75: a rule can be deleted
\* and its links become null.
RulesCanBeDeleted == \A i \in Live : EventsStayDistinct(i)
=============================================================================
