----------------------------- MODULE BriefStore -----------------------------
(***************************************************************************)
(* The Brief (src/server/brief_store.ts, brief_server.ts, brief_sync.ts):  *)
(* lines about the project, each with citations, which a model proposes    *)
(* and a person ratifies.  A ratified line is stale when what it cites is  *)
(* no longer what it was.  Stale lines are re-drafted at the person's word *)
(* or, with sync on, on the server's; or the person says they still hold.  *)
(* The record is one file, read and written whole; a draft reads it before *)
(* its model call and writes it after.                                     *)
(***************************************************************************)
EXTENDS Naturals, FiniteSets, Functions

CONSTANTS
  BriefLine, Cite,     \* what a model may write, and what can be cited
  Cites,          \* Cites[l]: the citations of a line
  NoBrief,        \* nothing ratified, proposed or asked
  Edits,          \* bound on the changes to what is cited
  BriefDrafts,    \* bound on the model calls
  Alone           \* the person decides nothing while a draft is in flight

ASSUME BriefAssumption ==
  /\ IsFiniteSet(BriefLine) /\ Cites \in [BriefLine -> SUBSET Cite]
  /\ Edits \in Nat /\ BriefDrafts \in Nat /\ Alone \in BOOLEAN

Asker == {"card", "sync"}

VARIABLES
  content,    \* the version of what each citation names
  brief,      \* .vibegraph/brief.json: [spec, hashes, proposed, sync]
  asked,      \* the model calls in flight, one of the card and one of sync
  calls,      \* the model calls so far
  known,      \* history: <<l, c, v>> when l was written from, or said to hold
              \* for, version v of c
  wanted      \* history: the spec as the person's last decision left it

briefVars == <<content, brief, asked, calls, known, wanted>>

CitesOf(lines) == UNION {Cites[l] : l \in lines}

BriefInit ==
  /\ content = [c \in Cite |-> 0]
  /\ brief = [spec |-> {}, hashes |-> [c \in {} |-> 0], proposed |-> NoBrief, sync |-> FALSE]
  /\ asked = [a \in Asker |-> NoBrief]
  /\ calls = 0 /\ known = {} /\ wanted = {}

\* staleBriefLineList: what a line cites is not what its hash was taken from.
StaleLines(b) == {l \in b.spec : \E c \in Cites[l] : b.hashes[c] # content[c]}

EditCited(c) ==
  /\ FoldFunction(+, 0, content) < Edits
  /\ content' = [content EXCEPT ![c] = @ + 1]
  /\ UNCHANGED <<brief, asked, calls, known, wanted>>

-----------------------------------------------------------------------------
(* briefDraft: up to the model call, and after it.                         *)

\* The record and the facts are read here; `restate` is what is re-drafted.
Ask(who, kind, restate) ==
  /\ calls < BriefDrafts /\ asked[who] = NoBrief
  /\ asked' = [asked EXCEPT ![who] = [rec |-> brief, facts |-> content,
                                      kind |-> kind, restate |-> restate]]
  /\ calls' = calls + 1
  /\ UNCHANGED <<content, brief, known, wanted>>

\* "Draft it", offered when nothing is proposed.
AskAll == brief.proposed = NoBrief /\ Ask("card", "all", {})

\* "Brief again" with notes: the spec alone.
AskWithNotes ==
  /\ brief.spec # {} \/ brief.proposed # NoBrief
  /\ Ask("card", "notes", {})

AskStale ==
  /\ brief.proposed = NoBrief /\ StaleLines(brief) # {}
  /\ Ask("card", "stale", StaleLines(brief))

\* briefSyncTick, once the code has been quiet and the last run is long ago.
SyncTick ==
  /\ brief.sync /\ brief.proposed = NoBrief /\ StaleLines(brief) # {}
  /\ Ask("sync", "stale", StaleLines(brief))

\* Mutant: the citations are hashed when the reply arrives.
HashedAtLanding(call, lines) == [c \in CitesOf(lines) |-> content[c]]

\* parseBrief: from the facts the model was shown.
Hashed(call, lines) == [c \in CitesOf(lines) |-> call.facts[c]]

Over(f, g) == [c \in DOMAIN f \cup DOMAIN g |-> IF c \in DOMAIN f THEN f[c] ELSE g[c]]

\* proposeBrief: a section asked alone goes into the pending proposal, where
\* what that restates stays.
Proposal(call, lines) ==
  LET old == call.rec.proposed
  IN IF call.kind # "all" /\ old # NoBrief
     THEN [lines |-> lines, hashes |-> Over(Hashed(call, lines), old.hashes),
           restates |-> IF call.kind = "stale" THEN call.restate ELSE old.restates]
     ELSE [lines |-> lines, hashes |-> Hashed(call, lines), restates |-> call.restate]

\* The draft is written over the record as it was before the call.
DraftLands(who) ==
  /\ asked[who] # NoBrief
  /\ \E lines \in (SUBSET BriefLine) \ {{}} :
       /\ brief' = [asked[who].rec EXCEPT !.proposed = Proposal(asked[who], lines)]
       /\ known' = known \cup {<<l, c, asked[who].facts[c]>> : l \in lines, c \in Cite}
  /\ asked' = [asked EXCEPT ![who] = NoBrief]
  /\ UNCHANGED <<content, calls, wanted>>

DraftFails(who) ==
  /\ asked[who] # NoBrief
  /\ asked' = [asked EXCEPT ![who] = NoBrief]
  /\ UNCHANGED <<content, brief, calls, known, wanted>>

-----------------------------------------------------------------------------
(* The person.  The card's own call disables its buttons, all but the one  *)
(* beside each stale line; a call of sync's disables none, and nothing     *)
(* disables the inbox's.                                                   *)

MayPress(always) ==
  /\ always \/ asked["card"] = NoBrief
  /\ Alone => \A a \in Asker : asked[a] = NoBrief

\* decideBrief, from the card or the inbox: a re-draft replaces what it restates, any other the spec.
RatifyBrief ==
  /\ brief.proposed # NoBrief /\ MayPress(TRUE)
  /\ LET p == brief.proposed
         kept == IF p.restates # {} /\ brief.spec # {} THEN brief.spec \ p.restates ELSE {}
     IN /\ brief' = [brief EXCEPT !.spec = kept \cup p.lines, !.proposed = NoBrief,
                       !.hashes = [c \in DOMAIN @ \cup CitesOf(p.lines) |->
                                     IF c \in CitesOf(p.lines) THEN p.hashes[c] ELSE @[c]]]
        /\ wanted' = kept \cup p.lines
  /\ UNCHANGED <<content, asked, calls, known>>

RejectBrief ==
  /\ brief.proposed # NoBrief /\ MayPress(TRUE)
  /\ brief' = [brief EXCEPT !.proposed = NoBrief]
  /\ UNCHANGED <<content, asked, calls, known, wanted>>

\* reaffirmBrief: the lines' citations are stamped as they are now.
Stamped(lines) ==
  [brief EXCEPT !.hashes = [c \in DOMAIN @ |-> IF c \in CitesOf(lines) THEN content[c] ELSE @[c]]]

\* "Still true" beside a stale line, or of all of them at once.
ReaffirmBrief(lines) ==
  /\ lines # {}
  /\ \/ Cardinality(lines) = 1 /\ MayPress(TRUE)
     \/ lines = StaleLines(brief) /\ brief.proposed = NoBrief /\ MayPress(FALSE)
  /\ brief' = Stamped(lines)
  /\ known' = known \cup {<<l, c, content[c]>> : l \in lines, c \in Cite}
  /\ UNCHANGED <<content, asked, calls, wanted>>

SetSync ==
  /\ brief.spec # {} /\ MayPress(FALSE)
  /\ brief' = [brief EXCEPT !.sync = ~@]
  /\ UNCHANGED <<content, asked, calls, known, wanted>>

BriefNext ==
  \/ AskAll \/ AskWithNotes \/ AskStale \/ SyncTick
  \/ RatifyBrief \/ RejectBrief \/ SetSync
  \/ \E c \in Cite : EditCited(c)
  \/ \E who \in Asker : DraftLands(who) \/ DraftFails(who)
  \/ \E lines \in SUBSET StaleLines(brief) : ReaffirmBrief(lines)

BriefSpec == BriefInit /\ [][BriefNext]_briefVars

-----------------------------------------------------------------------------

IsHashes(h) == DOMAIN h \subseteq Cite /\ h \in [DOMAIN h -> Nat]

IsProposal(p) ==
  /\ p \in [lines : SUBSET BriefLine, hashes : {p.hashes}, restates : SUBSET BriefLine]
  /\ IsHashes(p.hashes)

IsBrief(b) ==
  /\ b \in [spec : SUBSET BriefLine, hashes : {b.hashes}, proposed : {b.proposed}, sync : BOOLEAN]
  /\ IsHashes(b.hashes)
  /\ b.proposed # NoBrief => IsProposal(b.proposed)

IsCall(call) ==
  /\ call \in [rec : {call.rec}, facts : [Cite -> Nat], kind : {"all", "notes", "stale"},
               restate : SUBSET BriefLine]
  /\ IsBrief(call.rec)

\* The types of the record and of the calls in flight.
BriefTypeOK ==
  /\ content \in [Cite -> Nat] /\ IsBrief(brief)
  /\ DOMAIN asked = Asker /\ \A a \in Asker : asked[a] # NoBrief => IsCall(asked[a])

\* A ratified line that does not read stale was written from what it cites, as
\* that is now, or a person said since that it still holds; and the ratified
\* lines are those a person's decisions made (brief_store.ts 1-18).
BriefIsHonest ==
  /\ \A l \in brief.spec \ StaleLines(brief) : \A c \in Cites[l] :
       <<l, c, content[c]>> \in known
  /\ brief.spec = wanted
=============================================================================
