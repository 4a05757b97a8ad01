---------------------------- MODULE ThreadSkills ----------------------------
(***************************************************************************)
(* Thread skills (src/server/thread_skill_store.ts, thread_skill_stamp.ts, *)
(* skill_sweep.ts and their handlers in server.ts): a model drafts what an *)
(* agent should know of a thread, a person ratifies it, and it is given to *)
(* agents while its stamp matches the thread's code and its rules.         *)
(* A draft takes minutes: what it was drafted from, what it is stamped     *)
(* with when it lands, and what the person's card shows may differ.  Other *)
(* clients and agents (over MCP) draft and sweep as well: what they asked  *)
(* for lands in the store, and the card is not told of it.                 *)
(***************************************************************************)
EXTENDS Naturals, FiniteSets, SequencesExt

CONSTANTS
  SkillThread,    \* the entry points
  None,           \* no skill, no text, no sweep
  SkillVersions,       \* bound on the changes to code and rules
  SkillDrafts,    \* bound on the drafts
  Careful         \* nobody ratifies while a sweep runs, nor in the inbox what
                  \* the card does not show; no rule changes under a draft

ASSUME SkillAssumption ==
  /\ IsFiniteSet(SkillThread) /\ SkillVersions \in Nat /\ SkillDrafts \in Nat
  /\ Careful \in BOOLEAN /\ None \notin Seq(SkillThread)

VARIABLES
  now,        \* the version of each thread's code and of the rules routed to it
  skill,      \* the stored skill of each thread
  card,       \* what the client's card shows of it
  drafting,   \* the drafts in flight, each with what it was prompted with
  sweep,      \* the targets a sweep has still to draft
  drafts,     \* the drafts so far
  agreed      \* history: what the person agreed to, of which text, and which
              \* texts another's draft put under a card that showed older ones

skillVars == <<now, skill, card, drafting, sweep, drafts, agreed>>

NoSkill == [status |-> "none", body |-> None, stamp |-> None, auto |-> FALSE]

\* threadSkillWireRecord: the card shows the skill as it is, and nothing in
\* flight.
Shown(s, t) == [skill |-> s, stale |-> s.stamp # now[t], busy |-> FALSE]

SkillsInit ==
  /\ now = [t \in SkillThread |-> [code |-> 0, rules |-> 0]]
  /\ skill = [t \in SkillThread |-> NoSkill]
  /\ card = [t \in SkillThread |-> Shown(NoSkill, t)]
  /\ drafting = {} /\ sweep = None /\ drafts = 0 /\ agreed = {}

StaleSkill(t) == skill[t].stamp # now[t]
Authoritative(t) == skill[t].status = "ratified" /\ ~StaleSkill(t)

\* injectableSkillText: an agent is given the text, with a caveat when stale.
Injectable(t) == skill[t].status = "ratified" /\ (~StaleSkill(t) \/ skill[t].auto)

ChangesMade == MapThenSumSet(LAMBDA t : now[t].code + now[t].rules, SkillThread)

ChangeCode(t) ==
  /\ ChangesMade < SkillVersions
  /\ now' = [now EXCEPT ![t].code = @ + 1]
  /\ UNCHANGED <<skill, card, drafting, sweep, drafts, agreed>>

ChangeRules(t) ==
  /\ ChangesMade < SkillVersions
  /\ Careful => \A d \in drafting : d.t # t
  /\ now' = [now EXCEPT ![t].rules = @ + 1]
  /\ UNCHANGED <<skill, card, drafting, sweep, drafts, agreed>>

\* get-thread-skills, sent when a parse has changed the entry points.
RefreshCards ==
  /\ card' = [t \in SkillThread |-> Shown(skill[t], t)]
  /\ UNCHANGED <<now, skill, drafting, sweep, drafts, agreed>>

-----------------------------------------------------------------------------
(* Drafts: runGenerateThreadSkill, up to its await and after it.           *)

\* What a draft of t is prompted with, and whether the card's client asked for
\* it, is its text's identity.
NewDraft(t, by, ours) ==
  [t |-> t, by |-> by, body |-> [from |-> now[t], n |-> drafts, ours |-> ours]]

Redraft(t) ==
  /\ drafts < SkillDrafts /\ ~card[t].busy
  /\ drafts' = drafts + 1
  /\ drafting' = drafting \cup {NewDraft(t, "request", TRUE)}
  /\ card' = [card EXCEPT ![t].busy = TRUE]
  /\ UNCHANGED <<now, skill, sweep, agreed>>

\* An agent over MCP, or another client, asks for a draft.
RedraftElsewhere(t) ==
  /\ drafts < SkillDrafts
  /\ drafts' = drafts + 1
  /\ drafting' = drafting \cup {NewDraft(t, "request", FALSE)}
  /\ UNCHANGED <<now, skill, card, sweep, agreed>>

\* Mutant: the stamp is of the code as it is when the draft lands.
StampAtLanding(d) == now[d.t]

\* The thread as it was prompted with, the rules as they are now.
LandingStamp(d) == [code |-> d.body.from.code, rules |-> now[d.t].rules]

\* writeThreadSkill: a fresh draft, without the consents of the last one.
Written(d) == [status |-> "draft", body |-> d.body, stamp |-> LandingStamp(d), auto |-> FALSE]

\* Whoever asked is answered, nobody else.
RedraftLands(d) ==
  /\ d \in drafting /\ d.by = "request"
  /\ skill' = [skill EXCEPT ![d.t] = Written(d)]
  /\ card' = IF d.body.ours THEN [card EXCEPT ![d.t] = Shown(Written(d), d.t)] ELSE card
  /\ drafting' = drafting \ {d}
  /\ UNCHANGED <<now, sweep, drafts, agreed>>

RedraftFails(d) ==
  /\ d \in drafting /\ d.by = "request"
  /\ card' = IF d.body.ours THEN [card EXCEPT ![d.t].busy = FALSE] ELSE card
  /\ drafting' = drafting \ {d}
  /\ UNCHANGED <<now, skill, sweep, drafts, agreed>>

\* runSweep: one target after the other, those it had when it began.
SweepOn(targets, others, ours) ==
  IF targets = <<>>
  THEN sweep' = None /\ drafting' = others /\ UNCHANGED drafts
  ELSE /\ sweep' = Tail(targets)
       /\ drafting' = others \cup {NewDraft(Head(targets), "sweep", ours)}
       /\ drafts' = drafts + 1

\* One sweep at a time, whoever asks for it.
SweepStart(ours) ==
  /\ sweep = None
  /\ LET targets == {t \in SkillThread : ~Authoritative(t)}
     IN /\ targets # {} /\ drafts + Cardinality(targets) <= SkillDrafts
        /\ SweepOn(SetToSeq(targets), drafting, ours)
  /\ UNCHANGED <<now, skill, card, agreed>>

\* skill-sweep-progress tells every client there is a draft, not what it says.
Told(d) == [card EXCEPT ![d.t] =
             [skill |-> [NoSkill EXCEPT !.status = "draft"], stale |-> FALSE, busy |-> FALSE]]

\* A draft of a sweep ends, well or not; the end of the sweep repaints every
\* card of the client that asked for it, and of no other.
SweepStep(d) ==
  /\ d \in drafting /\ d.by = "sweep"
  /\ \E lands \in BOOLEAN :
       /\ skill' = IF lands THEN [skill EXCEPT ![d.t] = Written(d)] ELSE skill
       /\ card' = IF sweep = <<>> /\ d.body.ours
                  THEN [t \in SkillThread |-> Shown(skill'[t], t)]
                  ELSE IF lands THEN Told(d) ELSE card
  /\ SweepOn(sweep, drafting \ {d}, d.body.ours)
  /\ UNCHANGED <<now, agreed>>

-----------------------------------------------------------------------------
(* The person, on what the card shows.                                     *)

Answered(t, s) ==
  /\ skill' = [skill EXCEPT ![t] = s]
  /\ card' = [card EXCEPT ![t] = Shown(s, t)]
  /\ UNCHANGED <<now, drafting, sweep, drafts>>

\* A text that another's draft put behind the card, which shows an older one.
Behind(t) == IF skill[t].body = card[t].skill.body \/ skill[t].body.ours
             THEN {} ELSE {<<"unread", skill[t].body>>}

\* What is ratified is the stored text, what the person read is the card's.
RatifySkill(t) ==
  /\ card[t].skill.status = "draft" /\ skill[t].status = "draft"
  /\ Careful => sweep = None
  /\ Answered(t, [skill[t] EXCEPT !.status = "ratified"])
  /\ agreed' = agreed \cup {<<"read", card[t].skill.body>>} \cup Behind(t)

ReaffirmSkill(t) ==
  /\ card[t].skill.status = "ratified" /\ card[t].stale
  /\ skill[t].status = "ratified" /\ StaleSkill(t)
  /\ Answered(t, [skill[t] EXCEPT !.stamp = now[t]])
  /\ agreed' = agreed \cup {<<"holds", skill[t].body, now[t]>>}

SetAuto(t, value) ==
  /\ card[t].skill.status = "ratified" /\ card[t].skill.auto # value
  /\ skill[t].status = "ratified"
  /\ Answered(t, [skill[t] EXCEPT !.auto = value])
  /\ agreed' = IF value THEN agreed \cup {<<"auto", card[t].skill.body>>} ELSE agreed

\* decideInbox: the inbox lists the drafts, not what they say.
InboxRatifies(t) ==
  /\ skill[t].status = "draft"
  /\ Careful => sweep = None /\ card[t].skill.body = skill[t].body
  /\ skill' = [skill EXCEPT ![t].status = "ratified"]
  /\ agreed' = agreed \cup {<<"read", card[t].skill.body>>}
  /\ UNCHANGED <<now, card, drafting, sweep, drafts>>

\* The inbox drops a draft; the card is not told.
RejectDraft(t) ==
  /\ skill[t].status = "draft"
  /\ skill' = [skill EXCEPT ![t] = NoSkill]
  /\ UNCHANGED <<now, card, drafting, sweep, drafts, agreed>>

SkillsNext ==
  \/ RefreshCards \/ \E ours \in BOOLEAN : SweepStart(ours)
  \/ \E t \in SkillThread :
       \/ ChangeCode(t) \/ ChangeRules(t) \/ Redraft(t) \/ RedraftElsewhere(t)
       \/ RatifySkill(t) \/ ReaffirmSkill(t) \/ InboxRatifies(t) \/ RejectDraft(t)
       \/ \E value \in BOOLEAN : SetAuto(t, value)
  \/ \E d \in drafting : RedraftLands(d) \/ RedraftFails(d) \/ SweepStep(d)

SkillsSpec == SkillsInit /\ [][SkillsNext]_skillVars

-----------------------------------------------------------------------------

SkillVersion == [code : Nat, rules : Nat]
Body == [from : SkillVersion, n : Nat, ours : BOOLEAN]

SkillRecord ==
  [status : {"none", "draft", "ratified"}, body : Body \cup {None},
   stamp : SkillVersion \cup {None}, auto : BOOLEAN]

CardRecord == [skill : SkillRecord, stale : BOOLEAN, busy : BOOLEAN]

DraftRecord == [t : SkillThread, by : {"request", "sweep"}, body : Body]

\* The types of the store, the cards and the drafts in flight.
SkillsTypeOK ==
  /\ now \in [SkillThread -> SkillVersion]
  /\ skill \in [SkillThread -> SkillRecord]
  /\ card \in [SkillThread -> CardRecord]
  /\ drafting \subseteq DraftRecord
  /\ sweep \in Seq(SkillThread) \cup {None}
  /\ drafts \in Nat

\* What agents are given was read by the person who ratified it, unless another
\* client's or an agent's draft took the place of the text on the card without
\* a word to it; it was drafted from the code and the rules it is stamped with,
\* or the person said since that it holds for them; and it is given past a
\* change only where the person asked for that, of this text
\* (thread_skill_store.ts 1-20, 208-217, 318-323; server.ts 7301-7311, 7371).
SkillIsEarned ==
  \A t \in SkillThread : Injectable(t) =>
    LET s == skill[t]
    IN /\ <<"read", s.body>> \in agreed \/ <<"unread", s.body>> \in agreed
       /\ s.stamp = s.body.from \/ <<"holds", s.body, s.stamp>> \in agreed
       /\ s.auto => <<"auto", s.body>> \in agreed
=============================================================================
