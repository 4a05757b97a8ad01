----------------------------- MODULE PlanLedger -----------------------------
(***************************************************************************)
(* The plan (src/server/plan_ops.ts, plan_decisions.ts, plan_promote.ts,   *)
(* plan_store.ts): items that an agent proposes and a person agrees to,    *)
(* the questions they rest on, the ledger of decisions, and the planned    *)
(* rules that are promoted into constraints.json (constraint_store.ts).    *)
(* An operation reads the plan, applies itself to a copy and writes it     *)
(* whole if the result is valid; all in one step.  The items are policies, *)
(* the one section whose items can be promoted; an item is followed under  *)
(* whatever name it is given.                                              *)
(***************************************************************************)
EXTENDS Naturals, Sequences, FiniteSets, Functions

CONSTANTS
  PlanItem, Question,
  Wording,        \* what an item may say
  Renamings,      \* what giving a function another name makes of each wording
  Nobody,         \* no version, no rule, no source, no item
  StatusEdits,    \* the statuses a person sets by hand in an update
  Decisions,      \* bound on the ledger
  Rules           \* bound on the constraints

ASSUME PlanAssumption ==
  /\ IsFiniteSet(PlanItem) /\ IsFiniteSet(Question) /\ Nobody \notin PlanItem
  /\ Renamings \subseteq [Wording -> Wording]
  /\ StatusEdits \subseteq {"proposed", "agreed", "dropped"}
  /\ Decisions \in Nat /\ Rules \in Nat

Actor == {"agent", "human"}

\* What an item says and the questions it assumes.
ItemVersion == [says : Wording, assumes : SUBSET Question]

VARIABLES
  plan,      \* .vibegraph/plan.json: [item, open, resolved, confirmed, ledger]
  rules,     \* .vibegraph/constraints.json: records [id, of, says]
  stands,    \* history: the version of an item a person last agreed to, the
             \* functions in it renamed since with it, until it is dropped
  lapse      \* history: the items that were agreed when an agent renamed them
             \* and are proposed since (unheld); that were promoted when a
             \* function in them was renamed (respelt), or when their constraint
             \* was removed and the plan could not be saved (orphaned)

planVars == <<plan, rules, stands, lapse>>

NoItemYet == [status |-> "absent", is |-> Nobody, agreedAs |-> Nobody, rule |-> Nobody]

PlanInit ==
  /\ plan = [item |-> [i \in PlanItem |-> NoItemYet], open |-> Question, resolved |-> {},
             confirmed |-> {}, ledger |-> <<>>]
  /\ rules = {} /\ stands = [i \in PlanItem |-> Nobody]
  /\ lapse = [unheld |-> {}, respelt |-> {}, orphaned |-> {}]

\* validateArchRefs: an assumption is an open question the plan holds.
ValidPlan(p) ==
  \A i \in PlanItem : p.item[i].status # "absent" => p.item[i].is.assumes \subseteq p.open

\* The versions that stand after a person made p of the plan: what reads
\* agreed is what this person agrees to.
StandingIn(p) ==
  [i \in PlanItem |->
     CASE p.item[i].status = "dropped" -> Nobody
       [] p.item[i].status \in {"agreed", "promoted"} /\ p.item[i] # plan.item[i] -> p.item[i].is
       [] OTHER -> stands[i]]

\* Of the lapses l, those that p has not made good.
LapseIn(p, l) ==
  [unheld |-> {i \in l.unheld : p.item[i].status = "proposed"},
   respelt |-> {i \in l.respelt : p.item[i].status = "promoted"},
   orphaned |-> {i \in l.orphaned : p.item[i].status = "promoted"}]

\* applyAndSave: refused, nothing written, when the result is not valid.
SaveLapsing(by, p, l) ==
  /\ ValidPlan(p) /\ plan' = p /\ lapse' = LapseIn(p, l)
  /\ stands' = IF by = "human" THEN StandingIn(p)
               ELSE [i \in PlanItem |-> IF p.item[i].status = "dropped" THEN Nobody ELSE stands[i]]

SaveAs(by, p) == SaveLapsing(by, p, lapse)

PutItem(p, i, it) == [p EXCEPT !.item[i] = it]

-----------------------------------------------------------------------------
(* applyOne, on items                                                      *)

\* An agent proposes; a person may add what is already agreed.
AddItem(by, i, v) ==
  /\ plan.item[i].status = "absent"
  /\ \E s \in IF by = "human" THEN {"proposed", "agreed"} ELSE {"proposed"} :
       SaveAs(by, PutItem(plan, i, [NoItemYet EXCEPT !.status = s, !.is = v]))
  /\ UNCHANGED rules

\* Mutant: every change of an agent keeps the version before it.
UpdatedKeepingLast(by, it, v) ==
  IF by = "agent" /\ it.status \in {"agreed", "proposed"}
  THEN [it EXCEPT !.status = "proposed", !.is = v, !.agreedAs = it.is]
  ELSE [it EXCEPT !.is = v]

\* An agent's change to an agreed item puts it back to proposed and keeps the
\* agreed version.
Updated(by, it, v) ==
  IF by = "agent" /\ it.status = "agreed"
  THEN [it EXCEPT !.status = "proposed", !.is = v, !.agreedAs = it.is]
  ELSE [it EXCEPT !.is = v]

Changeable(it) == it.status \notin {"absent", "promoted"}

UpdateItem(by, i, v) ==
  /\ Changeable(plan.item[i])
  /\ \/ SaveAs(by, PutItem(plan, i, Updated(by, plan.item[i], v)))
     \/ /\ by = "human"
        /\ \E s \in StatusEdits :
             SaveAs(by, PutItem(plan, i, [Updated(by, plan.item[i], v) EXCEPT !.status = s]))
  /\ UNCHANGED rules

\* Not a person's alone: an agent may drop what was agreed.
DropItem(by, i) ==
  /\ Changeable(plan.item[i])
  /\ SaveAs(by, PutItem(plan, i, [plan.item[i] EXCEPT !.status = "dropped"]))
  /\ UNCHANGED rules

AgreeItem(i) ==
  /\ Changeable(plan.item[i])
  /\ SaveAs("human", PutItem(plan, i, [plan.item[i] EXCEPT !.status = "agreed", !.agreedAs = Nobody]))
  /\ UNCHANGED rules

\* A change to an agreed item goes back to the agreed version, a new item is
\* dropped.
RejectItem(i) ==
  LET it == plan.item[i]
  IN /\ it.status = "proposed"
     /\ SaveAs("human", PutItem(plan, i,
          IF it.agreedAs = Nobody THEN [it EXCEPT !.status = "dropped"]
          ELSE [it EXCEPT !.status = "agreed", !.is = it.agreedAs, !.agreedAs = Nobody]))
     /\ UNCHANGED rules

\* An item under another name: an agent's puts what is agreed back to proposed,
\* and no agreed version is kept.  What names it by the old one, a decision's
\* effect, finds nothing.
Rename(by, i) ==
  LET demoted == by = "agent" /\ plan.item[i].status = "agreed"
      p == [plan EXCEPT !.item[i].status = IF demoted THEN "proposed" ELSE @,
                        !.ledger = [k \in DOMAIN @ |->
                           IF @[k].effect.on = i THEN [@[k] EXCEPT !.effect.on = Nobody] ELSE @[k]]]
  IN /\ plan.item[i].status # "absent"
     /\ SaveLapsing(by, p, IF demoted THEN [lapse EXCEPT !.unheld = @ \cup {i}] ELSE lapse)
     /\ UNCHANGED rules

\* renameSymbolRefs: a function under another name in what every item says,
\* agreed and promoted ones too, whoever asks; not in the agreed versions that
\* proposals keep, and not in the constraints.
Respelt(v, r) == IF v = Nobody THEN v ELSE [v EXCEPT !.says = r[@]]

RenameSymbol(r) ==
  LET p == [plan EXCEPT !.item =
               [i \in PlanItem |-> [plan.item[i] EXCEPT !.is = Respelt(plan.item[i].is, r)]]]
  IN /\ p # plan /\ plan' = p
     /\ stands' = [i \in PlanItem |->
                     IF plan.item[i].status \in {"agreed", "promoted"} THEN Respelt(stands[i], r)
                     ELSE stands[i]]
     /\ lapse' = [lapse EXCEPT !.respelt = @ \cup
                    {i \in PlanItem : plan.item[i].status = "promoted" /\ p.item[i] # plan.item[i]}]
     /\ UNCHANGED rules

-----------------------------------------------------------------------------
(* Questions                                                               *)

\* What is run for a question confirms it, or it does not; the latest counts.
RecordEvidence(by, q) ==
  /\ q \in plan.open
  /\ \E now \in {plan.confirmed \cup {q}, plan.confirmed \ {q}} :
       SaveAs(by, [plan EXCEPT !.confirmed = now])
  /\ UNCHANGED rules

\* resolveQuestion: what items rest on is closed only when its latest evidence
\* confirms it.
MayResolve(p, q, state) ==
  /\ q \in p.open
  /\ \/ \A i \in PlanItem : p.item[i].status # "absent" => q \notin p.item[i].is.assumes
     \/ state = "closed" /\ q \in p.confirmed

\* They no longer assume it then.
Rests(it, q) == IF it.status = "absent" THEN it ELSE [it EXCEPT !.is.assumes = @ \ {q}]

Resolve(p, q) ==
  [p EXCEPT !.open = @ \ {q}, !.resolved = @ \cup {q},
            !.item = [i \in PlanItem |-> Rests(p.item[i], q)]]

ResolveQuestion(q, state) ==
  /\ MayResolve(plan, q, state)
  /\ SaveAs("human", Resolve(plan, q))
  /\ UNCHANGED rules

ReopenQuestion(q) ==
  /\ q \in plan.resolved
  /\ SaveAs("human", [plan EXCEPT !.open = @ \cup {q}, !.resolved = @ \ {q}])
  /\ UNCHANGED rules

-----------------------------------------------------------------------------
(* The ledger.  A decision has an effect on the plan, applied as a person. *)

\* To Nobody's version: the item is superseded, or dropped.
Effect == [on : PlanItem, to : ItemVersion \cup {Nobody}]

EffectOn(p, e) ==
  PutItem(p, e.on, IF e.to = Nobody THEN [p.item[e.on] EXCEPT !.status = "dropped"]
                   ELSE Updated("human", p.item[e.on], e.to))

\* agree: the effect, and the question it answers, closed with it.
Agreed(p, d) ==
  LET q == EffectOn(p, d.effect) IN IF d.from \in p.open THEN Resolve(q, d.from) ELSE q

MayAgree(p, d) ==
  /\ d.effect.on # Nobody /\ Changeable(p.item[d.effect.on])
  /\ d.from \in p.open => MayResolve(EffectOn(p, d.effect), d.from, "closed")

\* An entry of the ledger.  What the effect was of one that is settled is left
\* out: it is applied once, and nothing the plan does reads it again.
Entry(from, e, s) ==
  [from |-> from, status |-> s,
   effect |-> IF s = "proposed" THEN e ELSE [on |-> Nobody, to |-> Nobody]]

\* One decision per source; a rejected one may be repeated.  A person's own is
\* agreed, or recorded as rejected, at once.
Decide(by, from, e) ==
  /\ Len(plan.ledger) < Decisions
  /\ from # Nobody => \A k \in DOMAIN plan.ledger :
                         plan.ledger[k].from = from => plan.ledger[k].status = "rejected"
  /\ Changeable(plan.item[e.on])
  /\ \E s \in IF by = "human" THEN {"agreed", "rejected"} ELSE {"proposed"} :
       LET d == [from |-> from, effect |-> e, status |-> s]
           p == [plan EXCEPT !.ledger = Append(@, Entry(from, e, s))]
       IN IF s = "agreed" THEN MayAgree(plan, d) /\ SaveAs(by, Agreed(p, d)) ELSE SaveAs(by, p)
  /\ UNCHANGED rules

Settled(k, s) ==
  [plan EXCEPT !.ledger[k] = Entry(plan.ledger[k].from, plan.ledger[k].effect, s)]

AgreeDecision(k) ==
  /\ plan.ledger[k].status = "proposed" /\ MayAgree(plan, plan.ledger[k])
  /\ SaveAs("human", Agreed(Settled(k, "agreed"), plan.ledger[k]))
  /\ UNCHANGED rules

RejectDecision(k) ==
  /\ plan.ledger[k].status = "proposed"
  /\ SaveAs("human", Settled(k, "rejected"))
  /\ UNCHANGED rules

-----------------------------------------------------------------------------
(* Promotion.  A constraint has the least number above all others' as id.  *)

Ids == {r.id : r \in rules}
NextRuleId == CHOOSE n \in 1..(Rules + 1) : n \notin Ids /\ \A m \in Ids : m < n

AddRule(of, says) ==
  /\ Cardinality(rules) < Rules /\ NextRuleId <= Rules
  /\ rules' = rules \cup {[id |-> NextRuleId, of |-> of, says |-> says]}

\* The rule is stated first; the plan may then fail to record it.
Promote(i) ==
  /\ plan.item[i].status \in {"proposed", "agreed"}
  /\ ~\E r \in rules : r.says = plan.item[i].is.says
  /\ AddRule(i, plan.item[i].is.says)
  /\ \/ SaveAs("human", PutItem(plan, i, [plan.item[i] EXCEPT !.status = "promoted", !.rule = NextRuleId]))
     \/ UNCHANGED <<plan, stands, lapse>>

\* Stated on its own, by a person, an agent or a brief.
StateRule == AddRule(Nobody, Nobody) /\ UNCHANGED <<plan, stands, lapse>>

\* Mutant: the planned rule still reads promoted.
DemotedNever(ids) == plan

\* demoteOrphanedPromotions: a planned rule whose constraint is gone is agreed.
Orphans(ids) == {i \in PlanItem : plan.item[i].status = "promoted" /\ plan.item[i].rule \notin ids}

Demoted(ids) ==
  [plan EXCEPT !.item = [i \in PlanItem |->
     IF i \in Orphans(ids) THEN [@[i] EXCEPT !.status = "agreed", !.rule = Nobody] ELSE @[i]]]

\* Two files: the constraints are saved, then the plan, which may fail, and is
\* then left as it is (demoteOrphanedPromotions returns []).
RemoveRule(r) ==
  LET ids == Ids \ {r.id}
  IN /\ rules' = rules \ {r} /\ UNCHANGED stands
     /\ \/ plan' = Demoted(ids) /\ lapse' = LapseIn(plan', lapse)
        \/ UNCHANGED plan /\ lapse' = [lapse EXCEPT !.orphaned = @ \cup Orphans(ids)]

\* stateOf: whoever reads the plan has the orphans demoted first.
ReadPlan ==
  /\ plan' = Demoted(Ids) /\ lapse' = LapseIn(plan', lapse)
  /\ UNCHANGED <<rules, stands>>

-----------------------------------------------------------------------------

PlanNext ==
  \/ \E by \in Actor, i \in PlanItem :
       \/ \E v \in ItemVersion : AddItem(by, i, v) \/ UpdateItem(by, i, v)
       \/ DropItem(by, i) \/ Rename(by, i)
  \/ \E i \in PlanItem : AgreeItem(i) \/ RejectItem(i) \/ Promote(i)
  \/ \E by \in Actor, q \in Question : RecordEvidence(by, q)
  \/ \E q \in Question : ReopenQuestion(q) \/ \E state \in {"closed", "dropped"} : ResolveQuestion(q, state)
  \/ \E by \in Actor, from \in Question \cup {Nobody}, e \in Effect : Decide(by, from, e)
  \/ \E k \in DOMAIN plan.ledger : AgreeDecision(k) \/ RejectDecision(k)
  \/ \E r \in Renamings : RenameSymbol(r)
  \/ StateRule \/ ReadPlan
  \/ \E r \in rules : RemoveRule(r)

PlanSpec == PlanInit /\ [][PlanNext]_planVars

-----------------------------------------------------------------------------

\* The types: an item that is there says something, and names one of the rules
\* at most.
PlannedStatus == {"absent", "proposed", "agreed", "dropped", "promoted"}

PlannedItem ==
  {it \in [status : PlannedStatus, is : ItemVersion \cup {Nobody},
           agreedAs : ItemVersion \cup {Nobody}, rule : 1..Rules \cup {Nobody}] :
     it.status # "absent" => it.is \in ItemVersion}

Decision ==
  [from : Question \cup {Nobody}, effect : [on : PlanItem \cup {Nobody}, to : ItemVersion \cup {Nobody}],
   status : {"proposed", "agreed", "rejected"}]

Plan ==
  [item : [PlanItem -> PlannedItem], open : SUBSET Question, resolved : SUBSET Question,
   confirmed : SUBSET Question, ledger : Seq(Decision)]

PlanTypeOK ==
  /\ plan \in Plan
  /\ rules \subseteq [id : 1..Rules, of : PlanItem \cup {Nobody}, says : Wording \cup {Nobody}]
  /\ stands \in [PlanItem -> ItemVersion \cup {Nobody}]
  /\ lapse \in [unheld : SUBSET PlanItem, respelt : SUBSET PlanItem, orphaned : SUBSET PlanItem]

\* What reads agreed is what a person last agreed to, the functions in it
\* renamed since, however agents' changes, decisions, questions settled,
\* promotions and removals of rules follow each other; and a proposal holds the
\* version that stands, if one does, for a rejection to give back (plan_ops.ts
\* 6-10 and 38-39: "an agreement a model can quietly edit is not one").
\* Excepted are the two operations of an agent that do edit one: rename-symbol
\* rewrites what is agreed in place, and a rename puts it back to proposed
\* without the agreed version, so that rejecting the new name drops the item.
AgreementHolds ==
  \A i \in PlanItem :
    LET it == plan.item[i]
    IN /\ it.status \in {"agreed", "promoted"} => stands[i] = it.is
       /\ it.status = "proposed" /\ i \notin lapse.unheld => it.agreedAs = stands[i]

\* A planned rule that reads promoted names a constraint that was stated from
\* it and says the same, unless a function was renamed in the plan since,
\* though ids of removed constraints are given out again (plan_store.ts 258:
\* "Never left reading 'promoted as c2' with no c2").  Excepted is a rule whose
\* constraint was removed while the plan could not be saved: it does read so
\* until the plan is read again, and longer if its id was given out before.
PromotedIsEnforced ==
  \A i \in PlanItem : plan.item[i].status = "promoted" /\ i \notin lapse.orphaned =>
    \E r \in rules : /\ r.id = plan.item[i].rule /\ r.of = i
                     /\ i \in lapse.respelt \/ r.says = plan.item[i].is.says
=============================================================================
