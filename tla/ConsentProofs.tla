----------------------------- MODULE ConsentProofs -----------------------------
(***************************************************************************)
(* What a person's word stands for, in the four components that act on it: *)
(* code runs with consent to what it does (ThreadRun), a line of the Brief *)
(* that reads fresh is vouched for (BriefStore), a skill an agent is given *)
(* was read by the person who ratified it (ThreadSkills), and an agreement *)
(* of the plan is changed by the person who made it (PlanLedger).  The     *)
(* first three follow the token, the draft or the text from where it was   *)
(* made, across the call or the scan that was awaited, to where it is      *)
(* used.  Every operation on the plan writes it once, so each is judged    *)
(* item by item.                                                           *)
(***************************************************************************)
EXTENDS ThreadRun, BriefStore, ThreadSkills, PlanLedger, FiniteSetTheorems, SequenceTheorems, TLAPS

------------------------------------------------------------------------------
(* Runs of a thread.                                                        *)

\* The offenses nobody is asked about, once the session trusts.
Waived(trust) == IF trust THEN Offense \ Proven ELSE {}

\* A token stands for what the person has seen.
Covers(token, offenses) == token # Missing => token.offenses \subseteq offenses

\* One panel and its run: the gate's token is of what it lists, the token held
\* of what was agreed to; a run belongs to a busy panel and the code it scanned
\* is the code on disk; what is ready to execute is agreed to or waived.
Consented(j, p, c, trust, s) ==
  /\ p.stage = "gate" => p.token \in Token /\ p.token.offenses = p.effects
  /\ Covers(p.held, p.agreed)
  /\ j.stage # "none" => p.stage = "busy" /\ c.known = c.disk
  /\ j.stage = "scan" => /\ j.finds = OffensesOf[c.disk]
                         /\ Covers(j.consent, p.agreed)
                         /\ j.trust # Missing => s
  /\ j.stage \in {"ready", "exec"} => OffensesOf[c.disk] \ Waived(trust) \subseteq p.agreed
  /\ j.stage = "exec" => j.executes = c.disk

Consents == \A k \in Panel : Consented(job[k], panel[k], code, process.trust, said)

TrustIsSaid == /\ process.trust \in BOOLEAN /\ said \in BOOLEAN
               /\ process.trust => said

\* The inductive invariant of the runs.
RunsInv == RunsTypeOK /\ TrustIsSaid /\ Consents

\* A token is minted for the offenses shown (mintEffectConsent).
LEMMA MintedIsToken ==
  ASSUME RunsTypeOK, NEW kind \in {"effects", "trust"}, NEW k \in Panel, NEW o \in SUBSET Offense
  PROVE  Minted(kind, k, o) \in Token /\ Minted(kind, k, o).offenses = o
  BY DEF RunsTypeOK, Minted, Token

\* The gate shows every offense the session's trust does not waive.
LEMMA GatedAreOffenses ==
  ASSUME NEW o \in SUBSET Offense, NEW trust \in BOOLEAN
  PROVE  /\ GatedOffenses(o, trust) \in SUBSET Offense
         /\ o \ Waived(trust) \subseteq GatedOffenses(o, trust)
  BY DEF GatedOffenses, Waived

\* A step that touches neither a panel nor the code, and only adds trust,
\* leaves what that panel consented to.
LEMMA ConsentsGrow ==
  ASSUME NEW j, NEW p, NEW c, NEW t \in BOOLEAN, NEW t1 \in BOOLEAN,
         NEW s \in BOOLEAN, NEW s1 \in BOOLEAN,
         t => t1, s => s1, Consented(j, p, c, t, s)
  PROVE  Consented(j, p, c, t1, s1)
  BY DEF Consented, Waived

\* The first state: nothing was asked for, nothing is trusted.
LEMMA RunsInitially ==
  RunsInit => RunsInv
<1> SUFFICES ASSUME RunsInit PROVE RunsInv
  OBVIOUS
<1>1. AtRest \in PanelState /\ NoJob \in JobState
  BY DEF AtRest, NoJob, PanelState, JobState, MaybeToken
<1>2. RunsTypeOK
  BY <1>1 DEF RunsInit, RunsTypeOK
<1>3. TrustIsSaid
  BY DEF RunsInit, TrustIsSaid
<1>4. \A k \in Panel : Consented(NoJob, AtRest, code, FALSE, FALSE)
  BY DEF Consented, NoJob, AtRest, Covers
<1>5. Consents
  BY <1>4 DEF Consents, RunsInit
<1> QED BY <1>2, <1>3, <1>5 DEF RunsInv

\* One panel's step: its panel and its run change, the code does not, and trust
\* and what was said only grow.
LEMMA OnePanelMoves ==
  ASSUME RunsInv, NEW k \in Panel, NEW j \in JobState, NEW p \in PanelState,
         NEW t \in BOOLEAN,
         job' = [job EXCEPT ![k] = j], panel' = [panel EXCEPT ![k] = p],
         code' = code, unscanned' \in Nat,
         process' = [process EXCEPT !.trust = t], process.trust => t,
         said' \in BOOLEAN, said => said', t => said',
         Consented(j, p, code, t, said')
  PROVE  RunsInv'
<1>1. process'.trust = t /\ process' \in [boot : Nat, trust : BOOLEAN]
  BY DEF RunsInv, RunsTypeOK
<1>2. RunsTypeOK'
  BY <1>1 DEF RunsInv, RunsTypeOK
<1>3. TrustIsSaid'
  BY <1>1 DEF TrustIsSaid
<1>4. ASSUME NEW i \in Panel
      PROVE  Consented(job'[i], panel'[i], code', process'.trust, said')
  <2>1. CASE i = k
    <3>1. job'[k] = j /\ panel'[k] = p
      BY DEF RunsInv, RunsTypeOK
    <3> QED BY <1>1, <2>1, <3>1
  <2>2. CASE i # k
    <3>1. job'[i] = job[i] /\ panel'[i] = panel[i]
      BY <2>2 DEF RunsInv, RunsTypeOK
    <3>2. Consented(job[i], panel[i], code, process.trust, said)
      BY DEF RunsInv, Consents
    <3>3. process.trust \in BOOLEAN /\ said \in BOOLEAN
      BY DEF RunsInv, TrustIsSaid
    <3>4. Consented(job[i], panel[i], code, t, said')
      BY <3>2, <3>3, ConsentsGrow
    <3> QED BY <1>1, <3>1, <3>4
  <2> QED BY <2>1, <2>2
<1> QED BY <1>2, <1>3, <1>4 DEF RunsInv, Consents

\* A press that starts a scan: the map is the code on disk when it does (Still).
LEMMA ScanBegins ==
  ASSUME RunsInv, Still, NEW k \in Panel,
         NEW c \in MaybeToken, NEW t \in MaybeToken, NEW inputs \in BOOLEAN,
         Scan(k, c, t, inputs),
         NEW p \in PanelState, p.stage = "busy", Covers(p.held, p.agreed), Covers(c, p.agreed),
         panel' = [panel EXCEPT ![k] = p], UNCHANGED <<code, process, unscanned>>,
         said' \in BOOLEAN, said => said', t # Missing => said'
  PROVE  RunsInv'
<1> DEFINE j == [NoJob EXCEPT !.stage = "scan", !.finds = OffensesOf[code.known],
                              !.consent = c, !.trust = t, !.inputs = inputs]
<1>1. code.known = code.disk /\ job' = [job EXCEPT ![k] = j]
  BY DEF Scan
<1>2. code.known \in CodeText /\ OffensesOf[code.known] \in SUBSET Offense
  BY ThreadRunAssumption DEF RunsInv, RunsTypeOK
<1>3. /\ j \in JobState
      /\ j.stage = "scan" /\ j.finds = OffensesOf[code.disk] /\ j.consent = c /\ j.trust = t
  BY <1>1, <1>2 DEF NoJob, JobState, MaybeToken
<1> HIDE DEF j
<1>4. Consented(j, p, code, process.trust, said')
  BY <1>1, <1>3 DEF Consented
<1> DEFINE tr == process.trust
<1>5. /\ tr \in BOOLEAN /\ (process.trust => tr) /\ (tr => said')
      /\ Consented(j, p, code, tr, said')
  BY <1>4 DEF RunsInv, TrustIsSaid
<1>6. process' = [process EXCEPT !.trust = tr] /\ unscanned' \in Nat /\ code' = code
  BY DEF RunsInv, RunsTypeOK
<1>7. job' = [job EXCEPT ![k] = j] /\ panel' = [panel EXCEPT ![k] = p] /\ j \in JobState
  BY <1>1, <1>3
<1> HIDE DEF tr
<1> QED BY ONLY RunsInv, k \in Panel, p \in PanelState, said' \in BOOLEAN, said => said',
               <1>5, <1>6, <1>7, OnePanelMoves

\* The four presses of a person that start a scan (startRun, startTrace,
\* confirmEffectConsent, confirmTrustUnverified, confirmSynthRun).
LEMMA PressesConsent ==
  ASSUME RunsInv, Still, NEW k \in Panel,
         StartRun(k) \/ ConfirmEffects(k) \/ ConfirmTrust(k) \/ ConfirmInputs(k)
  PROVE  RunsInv'
<1>1. /\ panel[k] \in PanelState /\ said \in BOOLEAN /\ Missing \in MaybeToken
      /\ Consented(job[k], panel[k], code, process.trust, said)
  BY DEF RunsInv, RunsTypeOK, Consents, TrustIsSaid, MaybeToken
<1>2. CASE StartRun(k)
  <2> DEFINE p == [AtRest EXCEPT !.stage = "busy"]
             c == Missing
             t == Missing
  <2>1. /\ p \in PanelState /\ p.stage = "busy" /\ Covers(p.held, p.agreed) /\ Covers(c, p.agreed)
        /\ c \in MaybeToken /\ t \in MaybeToken
    BY DEF AtRest, PanelState, MaybeToken, Covers
  <2>2. Scan(k, c, t, FALSE) /\ panel' = [panel EXCEPT ![k] = p]
        /\ UNCHANGED <<code, process, unscanned>> /\ said' = said
    BY <1>2 DEF StartRun
  <2>3. t # Missing => said'
    OBVIOUS
  <2> HIDE DEF p, c, t
  <2> QED BY <1>1, <2>1, <2>2, <2>3, ScanBegins
<1>3. CASE ConfirmEffects(k)
  <2> DEFINE p == [AtRest EXCEPT !.stage = "busy",
                     !.held = IF k = "run" THEN panel[k].token ELSE Missing,
                     !.agreed = panel[k].agreed \cup panel[k].effects]
             c == panel[k].token
  <2>1. c \in Token /\ c.offenses = panel[k].effects
    BY <1>1, <1>3 DEF ConfirmEffects, Consented
  <2>2. /\ p \in PanelState /\ p.stage = "busy"
        /\ p.held \in {c, Missing} /\ p.agreed = panel[k].agreed \cup panel[k].effects
    BY <1>1, <2>1 DEF AtRest, PanelState, MaybeToken
  <2>3. Covers(p.held, p.agreed) /\ Covers(c, p.agreed)
    BY <2>1, <2>2 DEF Covers
  <2>4. Scan(k, c, Missing, FALSE) /\ panel' = [panel EXCEPT ![k] = p]
        /\ UNCHANGED <<code, process, unscanned>> /\ said' = said
    BY <1>3 DEF ConfirmEffects
  <2>5. c \in MaybeToken
    BY <2>1 DEF MaybeToken
  <2> HIDE DEF p, c
  <2> QED BY <1>1, <2>2, <2>3, <2>4, <2>5, ScanBegins
<1>4. CASE ConfirmTrust(k)
  <2> DEFINE p == [AtRest EXCEPT !.stage = "busy",
                     !.held = panel[k].held, !.agreed = panel[k].agreed]
             t == panel[k].trust
  <2>1. /\ p \in PanelState /\ p.stage = "busy" /\ t \in MaybeToken
        /\ p.held = panel[k].held /\ p.agreed = panel[k].agreed
    BY <1>1 DEF AtRest, PanelState
  <2>2. Covers(p.held, p.agreed) /\ Covers(Missing, p.agreed)
    BY <1>1, <2>1 DEF Covers, Consented
  <2>3. Scan(k, Missing, t, FALSE) /\ panel' = [panel EXCEPT ![k] = p]
        /\ UNCHANGED <<code, process, unscanned>> /\ said' = TRUE
    BY <1>4 DEF ConfirmTrust
  <2> HIDE DEF p, t
  <2> QED BY <1>1, <2>1, <2>2, <2>3, ScanBegins
<1>5. CASE ConfirmInputs(k)
  <2> DEFINE p == [panel[k] EXCEPT !.stage = "busy"]
             c == panel[k].held
  <2>1. /\ p \in PanelState /\ p.stage = "busy" /\ c \in MaybeToken
        /\ p.held = c /\ p.agreed = panel[k].agreed
    BY <1>1 DEF PanelState
  <2>2. Covers(p.held, p.agreed) /\ Covers(c, p.agreed)
    BY <1>1, <2>1 DEF Consented
  <2>3. Scan(k, c, Missing, TRUE) /\ panel' = [panel EXCEPT ![k] = p]
        /\ UNCHANGED <<code, process, unscanned>> /\ said' = said
    BY <1>5 DEF ConfirmInputs
  <2> HIDE DEF p, c
  <2> QED BY <1>1, <2>1, <2>2, <2>3, ScanBegins
<1> QED BY <1>2, <1>3, <1>4, <1>5

\* A scan that ends lets a run pass only for what the token it came with, or
\* the session's trust, covers (runThreadToNodeCore, runTraceEntryPoint).
LEMMA ScanEndsConsent ==
  ASSUME RunsInv, ScanFailures = 0, NEW k \in Panel, NEW ok \in BOOLEAN, ScanEnds(k, ok)
  PROVE  RunsInv'
<1>1. /\ panel[k] \in PanelState /\ job[k] \in JobState /\ unscanned \in Nat
      /\ said \in BOOLEAN /\ process.trust \in BOOLEAN /\ (process.trust => said)
      /\ Consented(job[k], panel[k], code, process.trust, said)
      /\ code.disk \in CodeText
  BY DEF RunsInv, RunsTypeOK, Consents, TrustIsSaid
<1>2. ok /\ job[k].stage = "scan" /\ unscanned' = unscanned
  BY <1>1 DEF ScanEnds
<1> DEFINE found == job[k].finds
           trust == process.trust \/ Grants(k, found, job[k].trust)
           gated == GatedOffenses(found, trust)
           refused == gated # {} /\ ~VerifyEffectConsent(k, gated, job[k].consent)
           proposes == ~refused /\ k = "run" /\ TakesInputs /\ ~job[k].inputs
<1>3. found = OffensesOf[code.disk] /\ found \in SUBSET Offense
  BY <1>1, <1>2, ThreadRunAssumption DEF Consented
<1>4. panel[k].stage = "busy" /\ code.known = code.disk /\ Covers(panel[k].held, panel[k].agreed)
      /\ Covers(job[k].consent, panel[k].agreed)
  BY <1>1, <1>2 DEF Consented
<1>5. trust \in BOOLEAN /\ (process.trust => trust) /\ (trust => said)
  <2>1. CASE process.trust
    BY <1>1, <2>1
  <2>2. CASE ~process.trust /\ Grants(k, found, job[k].trust)
    <3> DEFINE g == GatedOffenses(found, process.trust)
    <3>1. g \in SUBSET Offense
      BY <1>1, <1>3, GatedAreOffenses
    <3>2. job[k].trust = Minted("trust", k, g)
      BY <2>2 DEF Grants
    <3>3. job[k].trust # Missing
      BY <3>1, <3>2, MintedIsToken, ThreadRunAssumption DEF RunsInv
    <3> QED BY <1>1, <1>2, <2>2, <3>3 DEF Consented
  <2>3. CASE ~process.trust /\ ~Grants(k, found, job[k].trust)
    BY <2>3
  <2> QED BY <1>1, <2>1, <2>2, <2>3
<1>6. gated \in SUBSET Offense /\ found \ Waived(trust) \subseteq gated
  <2> HIDE DEF found, trust
  <2> QED BY <1>3, <1>5, GatedAreOffenses
<1>7. process' = [process EXCEPT !.trust = trust] /\ code' = code /\ said' = said
  BY <1>2 DEF ScanEnds
<1>8. job' = [job EXCEPT ![k] = IF refused \/ proposes THEN NoJob
                                ELSE [job[k] EXCEPT !.stage = "ready", !.scanned = ok]]
  BY <1>2 DEF ScanEnds, RunsInv, RunsTypeOK
<1>9. panel' = [panel EXCEPT ![k] =
             CASE refused -> [panel[k] EXCEPT !.stage = "gate", !.effects = gated,
                    !.token = Minted("effects", k, gated),
                    !.trust = IF k = "run" /\ gated \ Proven # {}
                              THEN Minted("trust", k, gated) ELSE Missing]
               [] proposes -> [panel[k] EXCEPT !.stage = "inputs"]
               [] OTHER -> panel[k]]
  BY <1>2 DEF ScanEnds, RunsInv, RunsTypeOK
<1>10. Minted("effects", k, gated) \in Token /\ Minted("effects", k, gated).offenses = gated
       /\ Minted("trust", k, gated) \in Token
  BY <1>6, MintedIsToken DEF RunsInv
<1>11. ~refused => OffensesOf[code.disk] \ Waived(trust) \subseteq panel[k].agreed
  <2>1. CASE gated = {}
    BY <1>3, <1>6, <2>1
  <2>2. CASE VerifyEffectConsent(k, gated, job[k].consent)
    <3>1. job[k].consent # Missing /\ job[k].consent.offenses = gated
      BY <1>10, <2>2, ThreadRunAssumption DEF VerifyEffectConsent
    <3> QED BY <1>3, <1>4, <1>6, <3>1 DEF Covers
  <2> QED BY <2>1, <2>2
<1>12. proposes => ~refused
  OBVIOUS
<1> HIDE DEF found, trust, gated, refused, proposes
<1>13. NoJob \in JobState /\ NoJob.stage = "none"
  BY DEF NoJob, JobState, MaybeToken
<1>14. CASE refused
  <2> DEFINE p == [panel[k] EXCEPT !.stage = "gate", !.effects = gated,
                    !.token = Minted("effects", k, gated),
                    !.trust = IF k = "run" /\ gated \ Proven # {}
                              THEN Minted("trust", k, gated) ELSE Missing]
  <2>1. /\ p \in PanelState /\ p.stage = "gate" /\ p.effects = gated
        /\ p.token = Minted("effects", k, gated)
        /\ p.held = panel[k].held /\ p.agreed = panel[k].agreed
    BY <1>1, <1>6, <1>10 DEF PanelState, MaybeToken
  <2>2. panel' = [panel EXCEPT ![k] = p] /\ job' = [job EXCEPT ![k] = NoJob]
    BY <1>8, <1>9, <1>14, <1>12
  <2> HIDE DEF p
  <2>3. Consented(NoJob, p, code, trust, said)
    BY <1>4, <1>10, <1>13, <2>1 DEF Consented
  <2> QED BY <1>1, <1>2, <1>5, <1>7, <1>13, <2>1, <2>2, <2>3, OnePanelMoves
<1>15. CASE ~refused /\ proposes
  <2> DEFINE p == [panel[k] EXCEPT !.stage = "inputs"]
  <2>1. /\ p \in PanelState /\ p.stage = "inputs"
        /\ p.held = panel[k].held /\ p.agreed = panel[k].agreed
    BY <1>1 DEF PanelState
  <2>2. panel' = [panel EXCEPT ![k] = p] /\ job' = [job EXCEPT ![k] = NoJob]
    BY <1>8, <1>9, <1>15
  <2> HIDE DEF p
  <2>3. Consented(NoJob, p, code, trust, said)
    BY <1>4, <1>13, <2>1 DEF Consented
  <2> QED BY <1>1, <1>2, <1>5, <1>7, <1>13, <2>1, <2>2, <2>3, OnePanelMoves
<1>16. CASE ~refused /\ ~proposes
  <2> DEFINE j == [job[k] EXCEPT !.stage = "ready", !.scanned = ok]
  <2>1. j \in JobState /\ j.stage = "ready"
    BY <1>1 DEF JobState
  <2>2. panel' = [panel EXCEPT ![k] = panel[k]] /\ job' = [job EXCEPT ![k] = j]
    BY <1>8, <1>9, <1>16
  <2> HIDE DEF j
  <2>3. Consented(j, panel[k], code, trust, said)
    BY <1>4, <1>11, <1>16, <2>1 DEF Consented
  <2> QED BY <1>1, <1>2, <1>5, <1>7, <2>1, <2>2, <2>3, OnePanelMoves
<1> QED BY <1>14, <1>15, <1>16

\* A run executes the code that is on disk, which is the code it scanned
\* (executeTraceRun), and ends (RunEnds).
LEMMA ExecutesConsents ==
  ASSUME RunsInv, NEW k \in Panel, Executes(k) \/ RunEnds(k)
  PROVE  RunsInv'
<1> DEFINE tr == process.trust
<1>1. /\ panel[k] \in PanelState /\ job[k] \in JobState
      /\ said' = said /\ said \in BOOLEAN /\ tr \in BOOLEAN /\ (process.trust => tr) /\ (tr => said')
      /\ Consented(job[k], panel[k], code, tr, said)
      /\ process' = [process EXCEPT !.trust = tr] /\ unscanned' \in Nat /\ code' = code
      /\ code.disk \in CodeText
  BY DEF RunsInv, RunsTypeOK, Consents, TrustIsSaid, Executes, RunEnds
<1> HIDE DEF tr
<1>2. CASE Executes(k)
  <2> DEFINE j == [job[k] EXCEPT !.stage = "exec", !.executes = code.disk]
             p == panel[k]
  <2>1. j \in JobState /\ j.stage = "exec" /\ j.executes = code.disk /\ p \in PanelState
    BY <1>1 DEF JobState
  <2>2. job' = [job EXCEPT ![k] = j] /\ panel' = [panel EXCEPT ![k] = p]
    BY <1>2 DEF Executes, RunsInv, RunsTypeOK, JobState
  <2>3. job[k].stage = "ready" /\ said' \in BOOLEAN /\ (said => said')
    BY <1>1, <1>2 DEF Executes
  <2>4. Consented(job[k], p, code, tr, said')
    BY <1>1
  <2> HIDE DEF j, p
  <2>5. Consented(j, p, code, tr, said')
    BY <2>1, <2>3, <2>4 DEF Consented
  <2> QED BY ONLY RunsInv, k \in Panel, <1>1, <2>1, <2>2, <2>3, <2>5, OnePanelMoves
<1>3. CASE RunEnds(k)
  <2> DEFINE j == NoJob
             p == AtRest
  <2>1. job' = [job EXCEPT ![k] = j] /\ panel' = [panel EXCEPT ![k] = p]
    BY <1>3 DEF RunEnds
  <2>2. p \in PanelState /\ j \in JobState
    BY DEF AtRest, NoJob, PanelState, JobState, MaybeToken
  <2>3. Consented(j, p, code, tr, said')
    BY DEF Consented, NoJob, AtRest, Covers
  <2> HIDE DEF j, p
  <2>4. said' \in BOOLEAN /\ (said => said')
    BY <1>1
  <2> QED BY ONLY RunsInv, k \in Panel, <1>1, <2>1, <2>2, <2>3, <2>4, OnePanelMoves
<1> QED BY <1>2, <1>3

\* The code changes under no run (Still).
LEMMA CodeChangesConsents ==
  ASSUME RunsInv, Still, ParseCode \/ \E t \in CodeText : EditCode(t)
  PROVE  RunsInv'
<1>1. UNCHANGED <<process, panel, job, said, unscanned>>
  BY DEF ParseCode, EditCode
<1>2. code' \in [disk : CodeText, known : CodeText, edits : Nat]
  <2>1. code \in [disk : CodeText, known : CodeText, edits : Nat]
    BY DEF RunsInv, RunsTypeOK
  <2>2. CASE ParseCode
    BY <2>1, <2>2 DEF ParseCode
  <2>3. ASSUME NEW t \in CodeText, EditCode(t)
        PROVE  code' \in [disk : CodeText, known : CodeText, edits : Nat]
    <3>1. code' = [code EXCEPT !.disk = t, !.edits = code.edits + 1]
      BY <2>3, <2>1 DEF EditCode
    <3> DEFINE n == code.edits + 1
    <3>2. n \in Nat
      BY <2>1
    <3> HIDE DEF n
    <3> QED BY <2>1, <2>3, <3>1, <3>2 DEF n
  <2> QED BY <2>2, <2>3
<1>3. ASSUME NEW k \in Panel
      PROVE  Consented(job[k], panel[k], code', process.trust, said)
  <2>1. Consented(job[k], panel[k], code, process.trust, said) /\ job[k] \in JobState
    BY DEF RunsInv, RunsTypeOK, Consents
  <2>2. job[k].stage = "none"
    BY <2>1 DEF ParseCode, EditCode, Consented
  <2> QED BY <2>1, <2>2 DEF Consented
<1>4. RunsTypeOK' /\ TrustIsSaid'
  BY <1>1, <1>2 DEF RunsInv, RunsTypeOK, TrustIsSaid
<1> QED BY <1>1, <1>3, <1>4 DEF RunsInv, Consents

\* A restart forgets the trust and who it was that gave it, and no run outlives
\* it.
LEMMA RestartConsents ==
  ASSUME RunsInv, TRestart
  PROVE  RunsInv'
<1>1. AtRest \in PanelState /\ NoJob \in JobState
  BY DEF AtRest, NoJob, PanelState, JobState, MaybeToken
<1>2. RunsTypeOK' /\ TrustIsSaid'
  <2>1. process' = [boot |-> process.boot + 1, trust |-> FALSE] /\ process.boot + 1 \in Nat
    BY DEF TRestart, RunsInv, RunsTypeOK
  <2>2. process' \in [boot : Nat, trust : BOOLEAN] /\ process'.trust = FALSE /\ said' = FALSE
    BY <2>1 DEF TRestart
  <2>3. panel' \in [Panel -> PanelState] /\ job' \in [Panel -> JobState]
    BY <1>1 DEF TRestart, RunsInv, RunsTypeOK
  <2>4. UNCHANGED <<code, unscanned>>
    BY DEF TRestart
  <2> QED BY <2>2, <2>3, <2>4 DEF RunsInv, RunsTypeOK, TrustIsSaid
<1>3. ASSUME NEW k \in Panel
      PROVE  Consented(job'[k], panel'[k], code', process'.trust, said')
  <2>1. /\ job'[k] = NoJob /\ code' = code /\ process'.trust = FALSE /\ said' = FALSE
        /\ panel'[k] = IF panel[k].stage = "busy" THEN AtRest ELSE panel[k]
    BY DEF TRestart
  <2>2. Consented(job[k], panel[k], code, process.trust, said)
    BY DEF RunsInv, Consents
  <2>3. Consented(NoJob, AtRest, code, FALSE, FALSE)
    BY DEF Consented, NoJob, AtRest, Covers
  <2>4. Consented(NoJob, panel[k], code, FALSE, FALSE)
    BY <2>2 DEF Consented, NoJob, Covers
  <2> QED BY <2>1, <2>3, <2>4
<1> QED BY <1>2, <1>3 DEF RunsInv, Consents

\* Whatever is executed, a person agreed to each of its effects since the run
\* was started, or told this session not to ask about calls that cannot be
\* proved, for every code, every set of offenses and any number of runs, edits
\* and restarts (effect_consent.ts; runThreadToNodeCore).  It is of code that
\* is parsed and not edited while a run is in progress, and of scans that do
\* not fail: one that fails finds nothing, and the run executes unscanned.
THEOREM RunsAreAlwaysConsented ==
  ASSUME Still, ScanFailures = 0
  PROVE  RunsSpec => []RunsAreConsented
<1>1. RunsInv /\ [RunsNext]_runsVars => RunsInv'
  <2> SUFFICES ASSUME RunsInv, [RunsNext]_runsVars PROVE RunsInv'
    OBVIOUS
  <2>1. ASSUME NEW k \in Panel,
               StartRun(k) \/ ConfirmEffects(k) \/ ConfirmTrust(k) \/ ConfirmInputs(k)
        PROVE  RunsInv'
    BY <2>1, PressesConsent
  <2>2. ASSUME NEW k \in Panel, NEW ok \in BOOLEAN, ScanEnds(k, ok) PROVE RunsInv'
    BY <2>2, ScanEndsConsent
  <2>3. ASSUME NEW k \in Panel, Executes(k) \/ RunEnds(k) PROVE RunsInv'
    BY <2>3, ExecutesConsents
  <2>4. CASE ParseCode \/ \E t \in CodeText : EditCode(t)
    BY <2>4, CodeChangesConsents
  <2>5. CASE TRestart
    BY <2>5, RestartConsents
  <2>6. CASE UNCHANGED runsVars
    BY <2>6 DEF runsVars, RunsInv, RunsTypeOK, TrustIsSaid, Consents
  <2> QED BY <2>1, <2>2, <2>3, <2>4, <2>5, <2>6 DEF RunsNext
<1>2. RunsInv => RunsAreConsented
  <2>1. ASSUME RunsInv, NEW k \in Panel, job[k].stage = "exec"
        PROVE  OffensesOf[job[k].executes] \ Waived(process.trust) \subseteq panel[k].agreed
    BY <2>1 DEF RunsInv, Consents, Consented
  <2> QED BY <2>1 DEF RunsAreConsented, Waived, RunsInv, TrustIsSaid
<1> QED BY <1>1, <1>2, RunsInitially, PTL DEF RunsSpec

\* The types of the runs hold whatever is edited, trusted or refused, and
\* whichever scan fails.
LEMMA RunsStayTyped ==
  ASSUME RunsTypeOK, [RunsNext]_runsVars
  PROVE  RunsTypeOK'
<1>1. /\ AtRest \in PanelState /\ NoJob \in JobState /\ Missing \in MaybeToken
      /\ \A k \in Panel : panel[k] \in PanelState /\ job[k] \in JobState
      /\ code \in [disk : CodeText, known : CodeText, edits : Nat]
      /\ process \in [boot : Nat, trust : BOOLEAN] /\ unscanned \in Nat
  BY DEF AtRest, NoJob, PanelState, JobState, MaybeToken, RunsTypeOK
<1>2. ASSUME NEW k \in Panel, NEW j \in JobState, NEW p \in PanelState,
             job' = [job EXCEPT ![k] = j], panel' = [panel EXCEPT ![k] = p],
             process' \in [boot : Nat, trust : BOOLEAN], code' = code, unscanned' \in Nat
      PROVE  RunsTypeOK'
  BY <1>2 DEF RunsTypeOK
<1>3. ASSUME NEW k \in Panel, NEW c \in MaybeToken, NEW t \in MaybeToken, NEW inputs \in BOOLEAN,
             Scan(k, c, t, inputs), NEW p \in PanelState, panel' = [panel EXCEPT ![k] = p],
             UNCHANGED <<code, process, unscanned>>
      PROVE  RunsTypeOK'
  <2> DEFINE j == [NoJob EXCEPT !.stage = "scan", !.finds = OffensesOf[code.known],
                                !.consent = c, !.trust = t, !.inputs = inputs]
  <2>1. OffensesOf[code.known] \in SUBSET Offense
    BY <1>1, ThreadRunAssumption
  <2>2. j \in JobState
    BY <2>1 DEF NoJob, JobState, MaybeToken
  <2>3. job' = [job EXCEPT ![k] = j]
    BY <1>3 DEF Scan
  <2> HIDE DEF j
  <2> QED BY <1>1, <1>2, <1>3, <2>2, <2>3
<1>4. ASSUME NEW k \in Panel,
             StartRun(k) \/ ConfirmEffects(k) \/ ConfirmTrust(k) \/ ConfirmInputs(k)
      PROVE  RunsTypeOK'
  <2> DEFINE p0 == [AtRest EXCEPT !.stage = "busy"]
             p1 == [AtRest EXCEPT !.stage = "busy",
                      !.held = IF k = "run" THEN panel[k].token ELSE Missing,
                      !.agreed = panel[k].agreed \cup panel[k].effects]
             p2 == [AtRest EXCEPT !.stage = "busy", !.held = panel[k].held, !.agreed = panel[k].agreed]
             p3 == [panel[k] EXCEPT !.stage = "busy"]
  <2>1. p0 \in PanelState /\ p1 \in PanelState /\ p2 \in PanelState /\ p3 \in PanelState
    BY <1>1 DEF AtRest, PanelState
  <2>2. panel[k].token \in MaybeToken /\ panel[k].trust \in MaybeToken /\ panel[k].held \in MaybeToken
    BY <1>1 DEF PanelState
  <2>3. StartRun(k) => /\ Scan(k, Missing, Missing, FALSE) /\ panel' = [panel EXCEPT ![k] = p0]
                       /\ UNCHANGED <<code, process, unscanned>>
    BY DEF StartRun
  <2>4. ConfirmEffects(k) => /\ Scan(k, panel[k].token, Missing, FALSE)
                             /\ panel' = [panel EXCEPT ![k] = p1]
                             /\ UNCHANGED <<code, process, unscanned>>
    BY DEF ConfirmEffects
  <2>5. ConfirmTrust(k) => /\ Scan(k, Missing, panel[k].trust, FALSE)
                           /\ panel' = [panel EXCEPT ![k] = p2]
                           /\ UNCHANGED <<code, process, unscanned>>
    BY DEF ConfirmTrust
  <2>6. ConfirmInputs(k) => /\ Scan(k, panel[k].held, Missing, TRUE)
                            /\ panel' = [panel EXCEPT ![k] = p3]
                            /\ UNCHANGED <<code, process, unscanned>>
    BY DEF ConfirmInputs, RunsTypeOK
  <2> HIDE DEF p0, p1, p2, p3
  <2> QED BY <1>1, <1>3, <1>4, <2>1, <2>2, <2>3, <2>4, <2>5, <2>6
<1>5. ASSUME NEW k \in Panel, NEW ok \in BOOLEAN, ScanEnds(k, ok) PROVE RunsTypeOK'
  <2> DEFINE found == IF ok THEN job[k].finds ELSE {}
             trust == process.trust \/ Grants(k, found, job[k].trust)
             gated == GatedOffenses(found, trust)
             refused == gated # {} /\ ~VerifyEffectConsent(k, gated, job[k].consent)
             proposes == ~refused /\ k = "run" /\ TakesInputs /\ ~job[k].inputs
             j == IF refused \/ proposes THEN NoJob ELSE [job[k] EXCEPT !.stage = "ready", !.scanned = ok]
             p == CASE refused -> [panel[k] EXCEPT !.stage = "gate", !.effects = gated,
                    !.token = Minted("effects", k, gated),
                    !.trust = IF k = "run" /\ gated \ Proven # {}
                              THEN Minted("trust", k, gated) ELSE Missing]
               [] proposes -> [panel[k] EXCEPT !.stage = "inputs"]
               [] OTHER -> panel[k]
  <2>1. found \in SUBSET Offense /\ trust \in BOOLEAN
    BY <1>1 DEF JobState, Grants
  <2>2. job' = [job EXCEPT ![k] = j] /\ panel' = [panel EXCEPT ![k] = p]
    BY <1>5 DEF ScanEnds, RunsTypeOK
  <2>3. process' = [process EXCEPT !.trust = trust] /\ code' = code
        /\ unscanned' = IF ok THEN unscanned ELSE unscanned + 1
    BY <1>5 DEF ScanEnds
  <2> HIDE DEF found, trust
  <2>4. gated \in SUBSET Offense
    BY <2>1, GatedAreOffenses
  <2> HIDE DEF gated
  <2>5. Minted("effects", k, gated) \in Token /\ Minted("trust", k, gated) \in Token
    BY <2>4, MintedIsToken
  <2> HIDE DEF refused, proposes
  <2>6. j \in JobState /\ p \in PanelState
    BY <1>1, <2>4, <2>5 DEF JobState, PanelState, MaybeToken
  <2> HIDE DEF j, p
  <2>7. process' \in [boot : Nat, trust : BOOLEAN] /\ unscanned' \in Nat
    BY <1>1, <2>1, <2>3
  <2> QED BY <1>2, <2>2, <2>3, <2>6, <2>7
<1>6. ASSUME NEW k \in Panel, Executes(k) \/ RunEnds(k) PROVE RunsTypeOK'
  <2> DEFINE j == [job[k] EXCEPT !.stage = "exec", !.executes = code.disk]
  <2>1. j \in JobState
    BY <1>1 DEF JobState
  <2>2. Executes(k) => job' = [job EXCEPT ![k] = j] /\ panel' = [panel EXCEPT ![k] = panel[k]]
    BY DEF Executes, RunsTypeOK, JobState
  <2>3. RunEnds(k) => job' = [job EXCEPT ![k] = NoJob] /\ panel' = [panel EXCEPT ![k] = AtRest]
    BY DEF RunEnds
  <2>4. UNCHANGED <<code, process, unscanned>>
    BY <1>6 DEF Executes, RunEnds
  <2> HIDE DEF j
  <2> QED BY <1>1, <1>2, <1>6, <2>1, <2>2, <2>3, <2>4
<1>7. ASSUME ParseCode \/ \E t \in CodeText : EditCode(t) PROVE RunsTypeOK'
  <2>1. code' \in [disk : CodeText, known : CodeText, edits : Nat]
    <3>1. CASE ParseCode
      BY <1>1, <3>1 DEF ParseCode
    <3>2. ASSUME NEW t \in CodeText, EditCode(t)
          PROVE  code' \in [disk : CodeText, known : CodeText, edits : Nat]
      <4> DEFINE n == code.edits + 1
      <4>1. code' = [code EXCEPT !.disk = t, !.edits = n] /\ n \in Nat
        BY <1>1, <3>2 DEF EditCode
      <4> HIDE DEF n
      <4> QED BY <1>1, <4>1
    <3> QED BY <1>7, <3>1, <3>2
  <2> QED BY <1>7, <2>1 DEF ParseCode, EditCode, RunsTypeOK
<1>8. ASSUME TRestart PROVE RunsTypeOK'
  <2>1. process' = [boot |-> process.boot + 1, trust |-> FALSE] /\ process.boot + 1 \in Nat
    BY <1>1, <1>8 DEF TRestart
  <2>2. panel' \in [Panel -> PanelState] /\ job' \in [Panel -> JobState]
    BY <1>1, <1>8 DEF TRestart
  <2> QED BY <1>8, <2>1, <2>2 DEF TRestart, RunsTypeOK
<1>9. UNCHANGED runsVars => RunsTypeOK'
  BY DEF runsVars, RunsTypeOK
<1> QED BY <1>4, <1>5, <1>6, <1>7, <1>8, <1>9 DEF RunsNext

------------------------------------------------------------------------------
(* The Brief.                                                               *)

Hashes == UNION {[d -> Nat] : d \in SUBSET Cite}

Proposals == [lines : SUBSET BriefLine, hashes : Hashes, restates : SUBSET BriefLine]

BriefRecord ==
  [spec : SUBSET BriefLine, hashes : Hashes, proposed : Proposals \cup {NoBrief}, sync : BOOLEAN]

CallRecord ==
  [rec : BriefRecord, facts : [Cite -> Nat], kind : {"all", "notes", "stale"},
   restate : SUBSET BriefLine]

BriefTyped ==
  /\ content \in [Cite -> Nat]
  /\ brief \in BriefRecord
  /\ asked \in [Asker -> CallRecord \cup {NoBrief}]

\* These are the types of BriefTypeOK, as sets.
LEMMA TypedIsTypeOK ==
  BriefTyped => BriefTypeOK
<1>1. ASSUME NEW h \in Hashes PROVE IsHashes(h)
  BY <1>1 DEF Hashes, IsHashes
<1>2. ASSUME NEW p \in Proposals PROVE IsProposal(p)
  <2>1. IsHashes(p.hashes)
    BY <1>1 DEF Proposals
  <2> QED BY <2>1 DEF Proposals, IsProposal
<1>3. ASSUME NEW b \in BriefRecord PROVE IsBrief(b)
  <2>1. IsHashes(b.hashes) /\ (b.proposed # NoBrief => IsProposal(b.proposed))
    BY <1>1, <1>2 DEF BriefRecord
  <2> QED BY <2>1 DEF BriefRecord, IsBrief
<1>4. ASSUME NEW call \in CallRecord PROVE IsCall(call)
  <2>1. IsBrief(call.rec)
    BY <1>3 DEF CallRecord
  <2> QED BY <2>1 DEF CallRecord, IsCall
<1> QED BY <1>3, <1>4 DEF BriefTyped, BriefTypeOK

\* The hash of all that these lines cite is of what they were written from, or
\* were said to hold for.
VouchedFor(lines, hashes, k) ==
  \A l \in lines : \A c \in Cites[l] : c \in DOMAIN hashes /\ <<l, c, hashes[c]>> \in k

\* A draft in flight read what is ratified as it is: nobody decides meanwhile.
ReadAsRatified(call, b) == call.rec.spec = b.spec /\ call.rec.hashes = b.hashes

\* The inductive invariant of the Brief.
BriefInv ==
  /\ BriefTyped
  /\ VouchedFor(brief.spec, brief.hashes, known)
  /\ brief.proposed # NoBrief => VouchedFor(brief.proposed.lines, brief.proposed.hashes, known)
  /\ \A a \in Asker : asked[a] # NoBrief => ReadAsRatified(asked[a], brief)
  /\ brief.spec = wanted

\* Two lines of the Brief cite different things.
CitesApart == \A l, m \in BriefLine : l # m => Cites[l] \cap Cites[m] = {}

\* Lines cite citations, and lines apart cite nothing of each other's.
LEMMA CitesAreCites ==
  ASSUME NEW lines \in SUBSET BriefLine
  PROVE  /\ CitesOf(lines) \in SUBSET Cite
         /\ \A l \in lines : Cites[l] \subseteq CitesOf(lines)
         /\ CitesApart => \A l \in BriefLine \ lines : Cites[l] \cap CitesOf(lines) = {}
  BY BriefAssumption DEF CitesOf, CitesApart

\* Hashes are of citations, each a version.
LEMMA HashesAreOfCites ==
  ASSUME NEW h \in Hashes
  PROVE  DOMAIN h \in SUBSET Cite /\ h \in [DOMAIN h -> Nat]
  BY DEF Hashes

\* A version for each of some citations is a set of hashes.
LEMMA HashesOf ==
  ASSUME NEW d \in SUBSET Cite, NEW h \in [d -> Nat]
  PROVE  h \in Hashes
  BY DEF Hashes

\* Hashes laid over others are hashes, and are themselves where they are.
LEMMA OverIsHashes ==
  ASSUME NEW f \in Hashes, NEW g \in Hashes
  PROVE  /\ Over(f, g) \in Hashes
         /\ \A c \in DOMAIN f : c \in DOMAIN Over(f, g) /\ Over(f, g)[c] = f[c]
<1> DEFINE d == DOMAIN f \cup DOMAIN g
<1>1. /\ DOMAIN f \in SUBSET Cite /\ f \in [DOMAIN f -> Nat]
      /\ DOMAIN g \in SUBSET Cite /\ g \in [DOMAIN g -> Nat]
  BY HashesAreOfCites
<1>2. d \in SUBSET Cite /\ Over(f, g) \in [d -> Nat]
  BY <1>1 DEF Over
<1>3. Over(f, g) \in Hashes
  BY <1>2, HashesOf
<1> QED BY <1>3 DEF Over

\* What was vouched for stays so.
LEMMA VouchedStays ==
  ASSUME NEW lines, NEW h, NEW k, NEW k1, k \subseteq k1, VouchedFor(lines, h, k)
  PROVE  VouchedFor(lines, h, k1)
  BY DEF VouchedFor

\* A proposal is hashed from the facts its model was shown (parseBrief,
\* proposeBrief), and its lines were written from them.
LEMMA ProposalIsVouched ==
  ASSUME NEW call \in CallRecord, NEW lines \in SUBSET BriefLine, NEW k,
         \A l \in lines : \A c \in Cite : <<l, c, call.facts[c]>> \in k
  PROVE  /\ Proposal(call, lines) \in Proposals
         /\ VouchedFor(Proposal(call, lines).lines, Proposal(call, lines).hashes, k)
<1> DEFINE h == Hashed(call, lines)
           old == call.rec.proposed
           p == Proposal(call, lines)
<1>1. /\ CitesOf(lines) \in SUBSET Cite /\ \A l \in lines : Cites[l] \subseteq CitesOf(lines)
      /\ call.facts \in [Cite -> Nat] /\ call.restate \in SUBSET BriefLine
      /\ old \in Proposals \cup {NoBrief}
  BY CitesAreCites DEF CallRecord, BriefRecord
<1>2. h \in [CitesOf(lines) -> Nat]
  BY <1>1 DEF Hashed
<1>3. h \in Hashes /\ DOMAIN h = CitesOf(lines)
  BY <1>1, <1>2, HashesOf
<1>4. \A c \in CitesOf(lines) : h[c] = call.facts[c]
  BY DEF Hashed
<1> HIDE DEF h
<1>5. CASE call.kind # "all" /\ old # NoBrief
  <2>1. old \in Proposals /\ old.hashes \in Hashes /\ old.restates \in SUBSET BriefLine
    BY <1>1, <1>5 DEF Proposals
  <2>2. /\ Over(h, old.hashes) \in Hashes
        /\ \A c \in CitesOf(lines) : c \in DOMAIN Over(h, old.hashes)
                                     /\ Over(h, old.hashes)[c] = h[c]
    BY <1>3, <2>1, OverIsHashes
  <2>3. p = [lines |-> lines, hashes |-> Over(h, old.hashes),
             restates |-> IF call.kind = "stale" THEN call.restate ELSE old.restates]
    BY <1>5 DEF Proposal, h
  <2>4. p \in Proposals /\ p.lines = lines /\ p.hashes = Over(h, old.hashes)
    BY <1>1, <2>1, <2>2, <2>3 DEF Proposals
  <2> QED BY <1>1, <1>4, <2>2, <2>4 DEF VouchedFor
<1>6. CASE ~(call.kind # "all" /\ old # NoBrief)
  <2>1. p = [lines |-> lines, hashes |-> h, restates |-> call.restate]
    BY <1>6 DEF Proposal, h
  <2>2. p \in Proposals /\ p.lines = lines /\ p.hashes = h
    BY <1>1, <1>3, <2>1 DEF Proposals
  <2> QED BY <1>1, <1>3, <1>4, <2>2 DEF VouchedFor
<1> QED BY <1>5, <1>6

\* The first state: a project without a Brief.
LEMMA BriefInitially ==
  BriefInit => BriefInv
<1> SUFFICES ASSUME BriefInit PROVE BriefInv
  OBVIOUS
<1> DEFINE h == [c \in {} |-> 0]
<1>1. h \in [{} -> Nat]
  OBVIOUS
<1>2. h \in Hashes
  BY <1>1, HashesOf
<1> HIDE DEF h
<1>3. brief = [spec |-> {}, hashes |-> h, proposed |-> NoBrief, sync |-> FALSE]
  BY DEF BriefInit, h
<1>4. brief \in BriefRecord /\ brief.spec = {} /\ brief.proposed = NoBrief
  BY <1>2, <1>3 DEF BriefRecord
<1> QED BY <1>4 DEF BriefInit, BriefInv, BriefTyped, VouchedFor

\* What is cited changes, and what the hashes were taken from does not.
LEMMA CitedChanges ==
  ASSUME BriefInv, NEW c \in Cite, EditCited(c)
  PROVE  BriefInv'
<1>1. content' \in [Cite -> Nat]
  <2>1. content' = [content EXCEPT ![c] = content[c] + 1]
    BY DEF EditCited
  <2>2. content \in [Cite -> Nat]
    BY DEF BriefInv, BriefTyped
  <2>3. content[c] + 1 \in Nat
    BY <2>2
  <2> QED BY <2>1, <2>2, <2>3
<1> QED BY <1>1 DEF EditCited, BriefInv, BriefTyped

\* A model call begins with the record as it is (briefDraft, before its await).
LEMMA AskReads ==
  ASSUME BriefInv, NEW who \in Asker, NEW kind \in {"all", "notes", "stale"},
         NEW restate \in SUBSET BriefLine, Ask(who, kind, restate)
  PROVE  BriefInv'
<1> DEFINE call == [rec |-> brief, facts |-> content, kind |-> kind, restate |-> restate]
<1>1. call \in CallRecord /\ call.rec = brief
  BY DEF BriefInv, BriefTyped, CallRecord
<1>2. asked' = [asked EXCEPT ![who] = call] /\ UNCHANGED <<content, brief, known, wanted>>
  BY DEF Ask
<1> HIDE DEF call
<1>3. asked' \in [Asker -> CallRecord \cup {NoBrief}]
  BY <1>1, <1>2 DEF BriefInv, BriefTyped
<1>4. ASSUME NEW a \in Asker, asked'[a] # NoBrief
      PROVE  ReadAsRatified(asked'[a], brief)
  BY <1>1, <1>2, <1>4 DEF BriefInv, BriefTyped, ReadAsRatified
<1> QED BY <1>2, <1>3, <1>4 DEF BriefInv, BriefTyped

\* A draft that fails leaves the record (briefDraft).
LEMMA DraftFailsKeeps ==
  ASSUME BriefInv, NEW who \in Asker, DraftFails(who)
  PROVE  BriefInv'
<1>1. asked' = [asked EXCEPT ![who] = NoBrief] /\ UNCHANGED <<content, brief, known, wanted>>
  BY DEF DraftFails
<1>2. asked' \in [Asker -> CallRecord \cup {NoBrief}]
  BY <1>1 DEF BriefInv, BriefTyped
<1>3. ASSUME NEW a \in Asker, asked'[a] # NoBrief
      PROVE  ReadAsRatified(asked'[a], brief)
  BY <1>1, <1>3 DEF BriefInv, BriefTyped
<1> QED BY <1>1, <1>2, <1>3 DEF BriefInv, BriefTyped

\* A draft that lands writes the record it read: what is ratified there is what
\* is ratified now (briefDraft, after its await).
LEMMA DraftLandsVouched ==
  ASSUME BriefInv, NEW who \in Asker, DraftLands(who)
  PROVE  BriefInv'
<1>1. asked[who] # NoBrief /\ asked[who] \in CallRecord /\ ReadAsRatified(asked[who], brief)
  BY DEF DraftLands, BriefInv, BriefTyped
<1>2. PICK lines \in (SUBSET BriefLine) \ {{}} :
        /\ brief' = [asked[who].rec EXCEPT !.proposed = Proposal(asked[who], lines)]
        /\ known' = known \cup {<<l, c, asked[who].facts[c]>> : l \in lines, c \in Cite}
  BY DEF DraftLands
<1> DEFINE call == asked[who]
           p == Proposal(call, lines)
<1>3. p \in Proposals /\ VouchedFor(p.lines, p.hashes, known')
  <2>1. lines \in SUBSET BriefLine
    OBVIOUS
  <2>2. \A l \in lines : \A c \in Cite : <<l, c, call.facts[c]>> \in known'
    BY <1>2
  <2>3. call \in CallRecord
    BY <1>1
  <2> HIDE DEF call
  <2> QED BY <2>1, <2>2, <2>3, ProposalIsVouched
<1> HIDE DEF p
<1>4. /\ brief' \in BriefRecord /\ brief'.proposed = p
      /\ brief'.spec = brief.spec /\ brief'.hashes = brief.hashes
  <2>1. call.rec \in BriefRecord /\ brief' = [call.rec EXCEPT !.proposed = p]
    BY <1>1, <1>2 DEF CallRecord, p
  <2> QED BY <1>1, <1>3, <2>1 DEF BriefRecord, ReadAsRatified
<1>5. asked' = [asked EXCEPT ![who] = NoBrief] /\ UNCHANGED <<content, wanted>>
  BY DEF DraftLands
<1>6. BriefTyped'
  BY <1>4, <1>5 DEF BriefInv, BriefTyped
<1>7. VouchedFor(brief'.spec, brief'.hashes, known')
  <2>1. known \subseteq known' /\ VouchedFor(brief.spec, brief.hashes, known)
    BY <1>2 DEF BriefInv
  <2> QED BY <1>4, <2>1, VouchedStays
<1>8. ASSUME NEW a \in Asker, asked'[a] # NoBrief
      PROVE  ReadAsRatified(asked'[a], brief')
  <2>1. asked'[a] = asked[a] /\ asked[a] # NoBrief
    BY <1>5, <1>8 DEF BriefInv, BriefTyped
  <2> QED BY <1>4, <2>1 DEF BriefInv, ReadAsRatified
<1>9. brief'.spec = wanted'
  BY <1>4, <1>5 DEF BriefInv
<1> QED BY <1>3, <1>4, <1>6, <1>7, <1>8, <1>9 DEF BriefInv

\* A person decides while no draft is in flight (Alone).
LEMMA DecidedAlone ==
  ASSUME BriefInv, \A a \in Asker : asked[a] = NoBrief, UNCHANGED <<content, asked>>,
         brief' \in BriefRecord, VouchedFor(brief'.spec, brief'.hashes, known'),
         brief'.proposed # NoBrief =>
           VouchedFor(brief'.proposed.lines, brief'.proposed.hashes, known'),
         brief'.spec = wanted'
  PROVE  BriefInv'
  BY DEF BriefInv, BriefTyped

\* A ratified proposal brings its hashes; the lines that stay cite other things
\* (decideBrief).
LEMMA RatifyVouches ==
  ASSUME BriefInv, Alone, CitesApart, RatifyBrief
  PROVE  BriefInv'
<1> DEFINE p == brief.proposed
           kept == IF p.restates # {} /\ brief.spec # {} THEN brief.spec \ p.restates ELSE {}
           spec == kept \cup p.lines
           d == DOMAIN brief.hashes \cup CitesOf(p.lines)
           h == [c \in d |-> IF c \in CitesOf(p.lines) THEN p.hashes[c] ELSE brief.hashes[c]]
<1>1. p \in Proposals /\ p.lines \in SUBSET BriefLine /\ p.hashes \in Hashes
      /\ brief \in BriefRecord /\ brief.spec \in SUBSET BriefLine /\ brief.hashes \in Hashes
  BY DEF RatifyBrief, BriefInv, BriefTyped, BriefRecord, Proposals
<1>2. VouchedFor(p.lines, p.hashes, known) /\ VouchedFor(brief.spec, brief.hashes, known)
  BY DEF RatifyBrief, BriefInv
<1>3. brief' = [brief EXCEPT !.spec = spec, !.proposed = NoBrief, !.hashes = h]
      /\ wanted' = spec /\ UNCHANGED <<content, asked, known>>
  BY DEF RatifyBrief
<1>4. \A a \in Asker : asked[a] = NoBrief
  BY DEF RatifyBrief, MayPress
<1>5. /\ CitesOf(p.lines) \in SUBSET Cite
      /\ \A l \in p.lines : Cites[l] \subseteq CitesOf(p.lines)
      /\ \A l \in BriefLine \ p.lines : Cites[l] \cap CitesOf(p.lines) = {}
  BY <1>1, CitesAreCites
<1>6. \A c \in CitesOf(p.lines) : c \in DOMAIN p.hashes
  BY <1>2 DEF VouchedFor, CitesOf
<1>7. /\ DOMAIN brief.hashes \in SUBSET Cite /\ brief.hashes \in [DOMAIN brief.hashes -> Nat]
      /\ p.hashes \in [DOMAIN p.hashes -> Nat]
  BY <1>1, HashesAreOfCites
<1>8. h \in Hashes
  <2>1. d \in SUBSET Cite /\ h \in [d -> Nat]
    BY <1>5, <1>6, <1>7
  <2> QED BY <2>1, HashesOf
<1>9. \A c \in d : h[c] = IF c \in CitesOf(p.lines) THEN p.hashes[c] ELSE brief.hashes[c]
  OBVIOUS
<1>10. spec \in SUBSET BriefLine /\ spec \subseteq brief.spec \cup p.lines /\ DOMAIN h = d
  BY <1>1
<1> HIDE DEF p, kept, spec, h
<1>11. VouchedFor(spec, h, known)
  <2>1. ASSUME NEW l \in spec, NEW c \in Cites[l] PROVE c \in d /\ <<l, c, h[c]>> \in known
    <3>1. CASE l \in p.lines
      BY <1>2, <1>5, <1>9, <2>1, <3>1 DEF VouchedFor
    <3>2. CASE l \notin p.lines
      <4>1. l \in brief.spec /\ c \notin CitesOf(p.lines)
        BY <1>1, <1>5, <1>10, <2>1, <3>2
      <4> QED BY <1>2, <1>9, <2>1, <4>1 DEF VouchedFor
    <3> QED BY <3>1, <3>2
  <2> QED BY <1>10, <2>1 DEF VouchedFor
<1>12. brief' \in BriefRecord /\ brief'.spec = spec /\ brief'.hashes = h /\ brief'.proposed = NoBrief
  BY <1>1, <1>3, <1>8, <1>10 DEF BriefRecord
<1> QED BY <1>3, <1>4, <1>11, <1>12, DecidedAlone

\* "Still true" stamps what these lines cite as it is now, which no other line
\* cites (reaffirmBrief).
LEMMA ReaffirmVouches ==
  ASSUME BriefInv, Alone, CitesApart, NEW lines \in SUBSET StaleLines(brief), ReaffirmBrief(lines)
  PROVE  BriefInv'
<1> DEFINE h == [c \in DOMAIN brief.hashes |->
                   IF c \in CitesOf(lines) THEN content[c] ELSE brief.hashes[c]]
<1>1. /\ brief \in BriefRecord /\ brief.spec \in SUBSET BriefLine /\ brief.hashes \in Hashes
      /\ content \in [Cite -> Nat] /\ lines \in SUBSET brief.spec /\ lines \in SUBSET BriefLine
  BY DEF BriefInv, BriefTyped, BriefRecord, StaleLines
<1>2. /\ brief' = [brief EXCEPT !.hashes = h] /\ UNCHANGED <<content, asked, wanted>>
      /\ known' = known \cup {<<l, c, content[c]>> : l \in lines, c \in Cite}
  BY DEF ReaffirmBrief, Stamped
<1>3. \A a \in Asker : asked[a] = NoBrief
  BY DEF ReaffirmBrief, MayPress
<1>4. DOMAIN brief.hashes \in SUBSET Cite /\ brief.hashes \in [DOMAIN brief.hashes -> Nat]
  BY <1>1, HashesAreOfCites
<1>5. h \in Hashes
  <2>1. h \in [DOMAIN brief.hashes -> Nat]
    BY <1>1, <1>4
  <2> QED BY <1>4, <2>1, HashesOf
<1>6. DOMAIN h = DOMAIN brief.hashes
      /\ \A c \in DOMAIN h : h[c] = IF c \in CitesOf(lines) THEN content[c] ELSE brief.hashes[c]
  OBVIOUS
<1> HIDE DEF h
<1>7. brief' \in BriefRecord /\ brief'.spec = brief.spec /\ brief'.hashes = h
      /\ brief'.proposed = brief.proposed
  BY <1>1, <1>2, <1>5 DEF BriefRecord
<1>8. VouchedFor(brief.spec, brief.hashes, known)
  BY DEF BriefInv
<1>9. VouchedFor(brief.spec, h, known')
  <2>1. ASSUME NEW l \in brief.spec, NEW c \in Cites[l]
        PROVE  c \in DOMAIN h /\ <<l, c, h[c]>> \in known'
    <3>1. c \in DOMAIN h /\ <<l, c, brief.hashes[c]>> \in known /\ c \in Cite
      BY <1>4, <1>6, <1>8, <2>1 DEF VouchedFor
    <3>2. CASE l \in lines
      BY <1>1, <1>2, <1>6, <3>1, <3>2, CitesAreCites, <2>1
    <3>3. CASE l \notin lines
      <4>1. c \notin CitesOf(lines)
        BY <1>1, <2>1, <3>3, CitesAreCites
      <4> QED BY <1>2, <1>6, <3>1, <4>1
    <3> QED BY <3>2, <3>3
  <2> QED BY <2>1 DEF VouchedFor
<1>10. brief'.proposed # NoBrief => VouchedFor(brief'.proposed.lines, brief'.proposed.hashes, known')
  <2>1. known \subseteq known'
    BY <1>2
  <2>2. brief.proposed # NoBrief => VouchedFor(brief.proposed.lines, brief.proposed.hashes, known)
    BY DEF BriefInv
  <2> QED BY <1>7, <2>1, <2>2, VouchedStays
<1>11. brief'.spec = wanted'
  BY <1>2, <1>7 DEF BriefInv
<1> QED BY <1>2, <1>3, <1>7, <1>9, <1>10, <1>11, DecidedAlone

\* A rejection drops the proposal; the switch is not about the lines.
LEMMA OtherPressesVouch ==
  ASSUME BriefInv, Alone, RejectBrief \/ SetSync
  PROVE  BriefInv'
<1>1. \A a \in Asker : asked[a] = NoBrief
  BY DEF RejectBrief, SetSync, MayPress
<1>2. brief \in BriefRecord
  BY DEF BriefInv, BriefTyped
<1>3. /\ brief' \in BriefRecord /\ brief'.spec = brief.spec /\ brief'.hashes = brief.hashes
      /\ brief'.proposed \in {NoBrief, brief.proposed}
  <2>1. CASE RejectBrief
    <3>1. brief' = [brief EXCEPT !.proposed = NoBrief]
      BY <2>1 DEF RejectBrief
    <3> QED BY <1>2, <3>1 DEF BriefRecord
  <2>2. CASE SetSync
    <3>1. brief' = [brief EXCEPT !.sync = ~brief.sync]
      BY <1>2, <2>2 DEF SetSync
    <3> QED BY <1>2, <3>1 DEF BriefRecord
  <2> QED BY <2>1, <2>2
<1>4. UNCHANGED <<content, asked, known, wanted>>
  BY DEF RejectBrief, SetSync
<1> QED BY <1>1, <1>3, <1>4, DecidedAlone DEF BriefInv

\* A ratified line that does not read stale was written from what it cites, as
\* that is now, or a person said since that it still holds, and what is
\* ratified is what the person's decisions made, for every set of lines and
\* citations and any number of drafts and edits (brief_store.ts, brief_sync.ts).
\* It is of lines that cite different things: a hash is kept per citation, so
\* saying of one line that it still holds clears another that cites the same.
THEOREM BriefIsAlwaysHonest ==
  ASSUME Alone, CitesApart
  PROVE  BriefSpec => []BriefIsHonest
<1>1. BriefInv /\ [BriefNext]_briefVars => BriefInv'
  <2> SUFFICES ASSUME BriefInv, [BriefNext]_briefVars PROVE BriefInv'
    OBVIOUS
  <2>1. CASE AskAll \/ AskWithNotes \/ AskStale \/ SyncTick
    <3>1. PICK who \in Asker, kind \in {"all", "notes", "stale"}, restate \in SUBSET BriefLine :
            Ask(who, kind, restate)
      <4>1. StaleLines(brief) \in SUBSET BriefLine
        BY DEF StaleLines, BriefInv, BriefTyped, BriefRecord
      <4> QED BY <2>1, <4>1 DEF AskAll, AskWithNotes, AskStale, SyncTick, Asker
    <3> QED BY <3>1, AskReads
  <2>2. CASE RatifyBrief
    BY <2>2, RatifyVouches
  <2>3. CASE RejectBrief \/ SetSync
    BY <2>3, OtherPressesVouch
  <2>4. ASSUME NEW c \in Cite, EditCited(c) PROVE BriefInv'
    BY <2>4, CitedChanges
  <2>5. ASSUME NEW who \in Asker, DraftLands(who) \/ DraftFails(who) PROVE BriefInv'
    BY <2>5, DraftLandsVouched, DraftFailsKeeps
  <2>6. ASSUME NEW lines \in SUBSET StaleLines(brief), ReaffirmBrief(lines) PROVE BriefInv'
    BY <2>6, ReaffirmVouches
  <2>7. CASE UNCHANGED briefVars
    BY <2>7 DEF briefVars, BriefInv, BriefTyped
  <2> QED BY <2>1, <2>2, <2>3, <2>4, <2>5, <2>6, <2>7 DEF BriefNext
<1>2. BriefInv => BriefIsHonest
  <2>1. ASSUME BriefInv, NEW l \in brief.spec \ StaleLines(brief), NEW c \in Cites[l]
        PROVE  <<l, c, content[c]>> \in known
    BY <2>1 DEF BriefInv, VouchedFor, StaleLines
  <2> QED BY <2>1 DEF BriefIsHonest, BriefInv
<1> QED BY <1>1, <1>2, BriefInitially, PTL DEF BriefSpec

\* What is needed for the types to hold whoever decides while a draft is in
\* flight: a proposal has a hash for all that its lines cite.
Covered(b) == b.proposed # NoBrief => CitesOf(b.proposed.lines) \subseteq DOMAIN b.proposed.hashes

LEMMA BriefStaysTyped ==
  ASSUME BriefTyped, Covered(brief), [BriefNext]_briefVars
  PROVE  BriefTyped' /\ Covered(brief')
<1>1. /\ brief \in BriefRecord /\ brief.spec \in SUBSET BriefLine /\ brief.hashes \in Hashes
      /\ content \in [Cite -> Nat] /\ asked \in [Asker -> CallRecord \cup {NoBrief}]
      /\ DOMAIN brief.hashes \in SUBSET Cite /\ brief.hashes \in [DOMAIN brief.hashes -> Nat]
      /\ brief.proposed \in Proposals \cup {NoBrief}
  <2>1. brief \in BriefRecord /\ brief.hashes \in Hashes
    BY DEF BriefTyped, BriefRecord
  <2> QED BY <2>1, HashesAreOfCites DEF BriefTyped, BriefRecord
<1>2. ASSUME NEW who \in Asker, NEW kind \in {"all", "notes", "stale"},
             NEW restate \in SUBSET BriefLine, Ask(who, kind, restate)
      PROVE  BriefTyped' /\ Covered(brief')
  <2> DEFINE call == [rec |-> brief, facts |-> content, kind |-> kind, restate |-> restate]
  <2>1. call \in CallRecord /\ asked' = [asked EXCEPT ![who] = call] /\ UNCHANGED <<content, brief>>
    BY <1>1, <1>2 DEF Ask, CallRecord
  <2> HIDE DEF call
  <2> QED BY <1>1, <2>1 DEF BriefTyped
<1>3. ASSUME AskAll \/ AskWithNotes \/ AskStale \/ SyncTick PROVE BriefTyped' /\ Covered(brief')
  <2>1. PICK who \in Asker, kind \in {"all", "notes", "stale"}, restate \in SUBSET BriefLine :
          Ask(who, kind, restate)
    <3>1. StaleLines(brief) \in SUBSET BriefLine
      BY <1>1 DEF StaleLines
    <3> QED BY <1>3, <3>1 DEF AskAll, AskWithNotes, AskStale, SyncTick, Asker
  <2> QED BY <1>2, <2>1
<1>4. ASSUME NEW who \in Asker, DraftLands(who) PROVE BriefTyped' /\ Covered(brief')
  <2> DEFINE call == asked[who]
  <2>1. call \in CallRecord /\ call.rec \in BriefRecord
    BY <1>1, <1>4 DEF DraftLands, CallRecord
  <2>2. PICK lines \in (SUBSET BriefLine) \ {{}} : brief' = [call.rec EXCEPT !.proposed = Proposal(call, lines)]
    BY <1>4 DEF DraftLands
  <2>3. asked' = [asked EXCEPT ![who] = NoBrief] /\ content' = content
    BY <1>4 DEF DraftLands
  <2> HIDE DEF call
  <2> DEFINE p == Proposal(call, lines)
             every == {<<l, c, call.facts[c]>> : l \in lines, c \in Cite}
  <2>4. lines \in SUBSET BriefLine /\ \A l \in lines : \A c \in Cite : <<l, c, call.facts[c]>> \in every
    OBVIOUS
  <2> HIDE DEF every
  <2>5. p \in Proposals /\ VouchedFor(p.lines, p.hashes, every)
    BY <2>1, <2>4, ProposalIsVouched
  <2> HIDE DEF p
  <2>6. brief' \in BriefRecord /\ brief'.proposed = p
    BY <2>1, <2>2, <2>5 DEF BriefRecord, p
  <2>7. CitesOf(p.lines) \subseteq DOMAIN p.hashes
    BY <2>5 DEF VouchedFor, CitesOf
  <2> QED BY <1>1, <2>3, <2>6, <2>7 DEF BriefTyped, Covered
<1>5. ASSUME NEW who \in Asker, DraftFails(who) PROVE BriefTyped' /\ Covered(brief')
  BY <1>1, <1>5 DEF DraftFails, BriefTyped
<1>6. ASSUME brief' \in BriefRecord, brief'.proposed \in {NoBrief, brief.proposed},
             UNCHANGED <<content, asked>>
      PROVE  BriefTyped' /\ Covered(brief')
  BY <1>1, <1>6 DEF BriefTyped, Covered
<1>7. CASE RatifyBrief
  <2> DEFINE p == brief.proposed
             kept == IF p.restates # {} /\ brief.spec # {} THEN brief.spec \ p.restates ELSE {}
             spec == kept \cup p.lines
             d == DOMAIN brief.hashes \cup CitesOf(p.lines)
             h == [c \in d |-> IF c \in CitesOf(p.lines) THEN p.hashes[c] ELSE brief.hashes[c]]
  <2>1. p \in Proposals /\ p.lines \in SUBSET BriefLine /\ p.hashes \in Hashes
        /\ CitesOf(p.lines) \subseteq DOMAIN p.hashes
    BY <1>1, <1>7 DEF RatifyBrief, Proposals, Covered
  <2>2. p.hashes \in [DOMAIN p.hashes -> Nat] /\ CitesOf(p.lines) \in SUBSET Cite
    BY <2>1, HashesAreOfCites, CitesAreCites
  <2>3. d \in SUBSET Cite /\ h \in [d -> Nat]
    BY <1>1, <2>1, <2>2
  <2>4. h \in Hashes
    BY <2>3, HashesOf
  <2>5. spec \in SUBSET BriefLine
    BY <1>1, <2>1
  <2>6. brief' = [brief EXCEPT !.spec = spec, !.proposed = NoBrief, !.hashes = h]
        /\ UNCHANGED <<content, asked>>
    BY <1>7 DEF RatifyBrief
  <2> HIDE DEF h, spec
  <2>7. brief' \in BriefRecord /\ brief'.proposed = NoBrief
    BY <1>1, <2>4, <2>5, <2>6 DEF BriefRecord
  <2> QED BY <1>6, <2>6, <2>7
<1>8. ASSUME NEW lines \in SUBSET StaleLines(brief), ReaffirmBrief(lines)
      PROVE  BriefTyped' /\ Covered(brief')
  <2> DEFINE h == [c \in DOMAIN brief.hashes |->
                     IF c \in CitesOf(lines) THEN content[c] ELSE brief.hashes[c]]
  <2>1. h \in [DOMAIN brief.hashes -> Nat]
    BY <1>1
  <2>2. h \in Hashes
    BY <1>1, <2>1, HashesOf
  <2>3. brief' = [brief EXCEPT !.hashes = h] /\ UNCHANGED <<content, asked>>
    BY <1>8 DEF ReaffirmBrief, Stamped
  <2> HIDE DEF h
  <2>4. brief' \in BriefRecord /\ brief'.proposed = brief.proposed
    BY <1>1, <2>2, <2>3 DEF BriefRecord
  <2> QED BY <1>6, <2>3, <2>4
<1>9. CASE RejectBrief
  <2>1. brief' = [brief EXCEPT !.proposed = NoBrief] /\ UNCHANGED <<content, asked>>
    BY <1>9 DEF RejectBrief
  <2>2. brief' \in BriefRecord /\ brief'.proposed = NoBrief
    BY <1>1, <2>1 DEF BriefRecord
  <2> QED BY <1>6, <2>1, <2>2
<1>10. CASE SetSync
  <2>1. brief' = [brief EXCEPT !.sync = ~brief.sync] /\ UNCHANGED <<content, asked>>
    BY <1>10 DEF SetSync
  <2>2. brief' \in BriefRecord /\ brief'.proposed = brief.proposed
    BY <1>1, <2>1 DEF BriefRecord
  <2> QED BY <1>6, <2>1, <2>2
<1>11. ASSUME NEW c \in Cite, EditCited(c) PROVE BriefTyped' /\ Covered(brief')
  <2>1. content' = [content EXCEPT ![c] = content[c] + 1] /\ UNCHANGED <<brief, asked>>
    BY <1>11 DEF EditCited
  <2>2. content[c] + 1 \in Nat
    BY <1>1
  <2>3. content' \in [Cite -> Nat]
    BY <1>1, <2>1, <2>2
  <2> QED BY <1>1, <2>1, <2>3 DEF BriefTyped
<1>12. CASE UNCHANGED briefVars
  BY <1>12 DEF briefVars, BriefTyped
<1> QED BY <1>3, <1>4, <1>5, <1>7, <1>8, <1>9, <1>10, <1>11, <1>12 DEF BriefNext

------------------------------------------------------------------------------
(* Thread skills.                                                           *)

\* A draft is stamped with what it was drafted from and has no consents; a
\* ratified skill has the person's, of its own text, unless another's draft put
\* that text behind the card.
Earned(s, a) ==
  /\ s.status = "draft" => s.stamp = s.body.from /\ ~s.auto /\ s.body \in Body
  /\ s.status = "ratified" =>
       /\ <<"read", s.body>> \in a \/ <<"unread", s.body>> \in a
       /\ s.stamp = s.body.from \/ <<"holds", s.body, s.stamp>> \in a
       /\ s.auto => <<"auto", s.body>> \in a

\* A sweep the card's client asked for is under way.
OurSweep(dr) == \E d \in dr : d.by = "sweep" /\ d.body.ours

\* What the card shows is the skill that is decided about: always when both are
\* ratified, and of a draft its client asked for once no sweep of its runs.
Faces(c, s, sweeping) ==
  /\ c.skill.status = "ratified" /\ s.status = "ratified" => c.skill.body = s.body
  /\ ~sweeping /\ c.skill.status = "draft" /\ s.status = "draft" /\ s.body.ours
       => c.skill.body = s.body

\* The rules of a thread that is being drafted are those it was prompted with,
\* and a sweep drafts one target at a time.
Prompted(dr, nw, sw) ==
  /\ \A d \in dr : d.body.from.rules = nw[d.t].rules
  /\ sw = None => \A d \in dr : d.by = "request"
  /\ \A d, e \in dr : d.by = "sweep" /\ e.by = "sweep" => d = e

\* The inductive invariant of the skills.
SkillsInv ==
  /\ SkillsTypeOK
  /\ Prompted(drafting, now, sweep)
  /\ \A t \in SkillThread :
       Earned(skill[t], agreed) /\ Faces(card[t], skill[t], OurSweep(drafting))

\* The targets of a sweep, in some order.
LEMMA TargetsAreSeq ==
  ASSUME NEW targets \in SUBSET SkillThread
  PROVE  SetToSeq(targets) \in Seq(SkillThread)
<1>1. IsFiniteSet(targets)
  BY SkillAssumption, FS_Subset
<1>2. Cardinality(targets) \in Nat /\ ExistsBijection(1..Cardinality(targets), targets)
  BY <1>1, FS_CardinalityType
<1>3. \E f \in [1..Cardinality(targets) -> targets] : IsInjective(f)
  BY <1>2 DEF ExistsBijection, Bijection, Injection, IsInjective
<1>4. SetToSeq(targets) \in [1..Cardinality(targets) -> targets]
  BY <1>3 DEF SetToSeq
<1> QED BY <1>2, <1>4

\* What was agreed once stays agreed.
LEMMA EarnedStays ==
  ASSUME NEW s, NEW a, NEW a1, a \subseteq a1, Earned(s, a)
  PROVE  Earned(s, a1)
  BY DEF Earned

\* The card shows the skill as it is stored, with its text.
LEMMA ShownFaces ==
  ASSUME NEW s \in SkillRecord, NEW t \in SkillThread, SkillsTypeOK, NEW sw
  PROVE  Shown(s, t) \in CardRecord /\ Faces(Shown(s, t), s, sw)
  BY DEF Shown, CardRecord, Faces

\* Having no skill claims nothing.
LEMMA NoSkillIsSkill ==
  NoSkill \in SkillRecord /\ \A a : Earned(NoSkill, a)
  BY DEF NoSkill, SkillRecord, Earned

\* A draft that lands is stamped with the code it was prompted with, and with
\* the rules as they are, which are those it was prompted with.
LEMMA WrittenIsEarned ==
  ASSUME SkillsInv, NEW d \in drafting
  PROVE  Written(d) \in SkillRecord /\ Written(d).status = "draft" /\ \A a : Earned(Written(d), a)
<1>1. /\ d \in DraftRecord /\ d.body \in Body /\ d.body.from \in SkillVersion
      /\ d.body.from.rules = now[d.t].rules /\ now[d.t] \in SkillVersion
  BY DEF SkillsInv, SkillsTypeOK, Prompted, DraftRecord, Body
<1>2. LandingStamp(d) = d.body.from
  BY <1>1 DEF LandingStamp, SkillVersion
<1> QED BY <1>1, <1>2 DEF Written, SkillRecord, Earned

\* No sweep of the card's client is under way when no sweep is.
LEMMA NoSweepIsOurs ==
  ASSUME SkillsInv, sweep = None
  PROVE  ~OurSweep(drafting)
  BY DEF SkillsInv, Prompted, OurSweep

\* The first state: no skill, no draft, no sweep.
LEMMA SkillsInitially ==
  SkillsInit => SkillsInv
<1> SUFFICES ASSUME SkillsInit PROVE SkillsInv
  OBVIOUS
<1>1. SkillsTypeOK
  <2>1. now \in [SkillThread -> SkillVersion] /\ skill \in [SkillThread -> SkillRecord]
    BY NoSkillIsSkill DEF SkillsInit, SkillVersion
  <2>2. card \in [SkillThread -> CardRecord]
    BY NoSkillIsSkill DEF SkillsInit, Shown, CardRecord
  <2> QED BY <2>1, <2>2 DEF SkillsInit, SkillsTypeOK
<1>2. Prompted(drafting, now, sweep)
  BY DEF SkillsInit, Prompted
<1>3. ASSUME NEW t \in SkillThread
      PROVE  Earned(skill[t], agreed) /\ Faces(card[t], skill[t], OurSweep(drafting))
  <2>1. skill[t] = NoSkill /\ card[t] = Shown(NoSkill, t)
    BY DEF SkillsInit
  <2> QED BY <1>1, <2>1, NoSkillIsSkill, ShownFaces
<1> QED BY <1>1, <1>2, <1>3 DEF SkillsInv

\* A change of a thread's code or rules gives it the next version of them.
LEMMA VersionsGrow ==
  ASSUME now \in [SkillThread -> SkillVersion], NEW t \in SkillThread,
         ChangeCode(t) \/ ChangeRules(t)
  PROVE  /\ \/ /\ ChangeCode(t)
               /\ now' = [now EXCEPT ![t] = [code |-> now[t].code + 1, rules |-> now[t].rules]]
            \/ /\ ChangeRules(t)
               /\ now' = [now EXCEPT ![t] = [code |-> now[t].code, rules |-> now[t].rules + 1]]
         /\ now' \in [SkillThread -> SkillVersion]
<1>1. now[t] \in SkillVersion /\ now[t].code + 1 \in Nat /\ now[t].rules + 1 \in Nat
  BY DEF SkillVersion
<1>2. \/ /\ ChangeCode(t)
         /\ now' = [now EXCEPT ![t] = [code |-> now[t].code + 1, rules |-> now[t].rules]]
      \/ /\ ChangeRules(t)
         /\ now' = [now EXCEPT ![t] = [code |-> now[t].code, rules |-> now[t].rules + 1]]
  <2>1. CASE ChangeCode(t)
    <3>1. now' = [now EXCEPT ![t].code = now[t].code + 1]
      BY <2>1 DEF ChangeCode
    <3>2. [now[t] EXCEPT !.code = now[t].code + 1] = [code |-> now[t].code + 1, rules |-> now[t].rules]
      BY <1>1 DEF SkillVersion
    <3>3. now' = [now EXCEPT ![t] = [now[t] EXCEPT !.code = now[t].code + 1]]
      BY <3>1
    <3> QED BY <2>1, <3>2, <3>3
  <2>2. CASE ChangeRules(t)
    <3>1. now' = [now EXCEPT ![t].rules = now[t].rules + 1]
      BY <2>2 DEF ChangeRules
    <3>2. [now[t] EXCEPT !.rules = now[t].rules + 1] = [code |-> now[t].code, rules |-> now[t].rules + 1]
      BY <1>1 DEF SkillVersion
    <3>3. now' = [now EXCEPT ![t] = [now[t] EXCEPT !.rules = now[t].rules + 1]]
      BY <3>1
    <3> QED BY <2>2, <3>2, <3>3
  <2> QED BY <2>1, <2>2
<1>3. now' \in [SkillThread -> SkillVersion]
  <2>1. /\ [code |-> now[t].code + 1, rules |-> now[t].rules] \in SkillVersion
        /\ [code |-> now[t].code, rules |-> now[t].rules + 1] \in SkillVersion
    BY <1>1 DEF SkillVersion
  <2> QED BY <1>2, <2>1
<1> QED BY <1>2, <1>3

\* The code or the rules of a thread change: no draft of it is in flight when
\* its rules do (Careful).
LEMMA ChangesKeepEarned ==
  ASSUME SkillsInv, Careful, NEW t \in SkillThread, ChangeCode(t) \/ ChangeRules(t)
  PROVE  SkillsInv'
<1>1. UNCHANGED <<skill, card, drafting, sweep, drafts, agreed>>
  BY DEF ChangeCode, ChangeRules
<1>2. now \in [SkillThread -> SkillVersion] /\ drafting \subseteq DraftRecord
  BY DEF SkillsInv, SkillsTypeOK
<1>4. /\ \/ /\ ChangeCode(t)
            /\ now' = [now EXCEPT ![t] = [code |-> now[t].code + 1, rules |-> now[t].rules]]
         \/ /\ ChangeRules(t)
            /\ now' = [now EXCEPT ![t] = [code |-> now[t].code, rules |-> now[t].rules + 1]]
      /\ now' \in [SkillThread -> SkillVersion]
  BY <1>2, VersionsGrow
<1>6. ASSUME NEW d \in drafting PROVE d.body.from.rules = now'[d.t].rules
  <2>1. d.body.from.rules = now[d.t].rules /\ d.t \in SkillThread
    BY <1>2 DEF SkillsInv, Prompted, DraftRecord
  <2>2. ChangeRules(t) => d.t # t
    BY DEF ChangeRules
  <2> QED BY <1>2, <1>4, <2>1, <2>2
<1>7. Prompted(drafting, now', sweep)
  BY <1>6 DEF SkillsInv, Prompted
<1> QED BY <1>1, <1>4, <1>7 DEF SkillsInv, SkillsTypeOK

\* One skill and its card change, and a draft of it may have ended.
LEMMA OneSkillMoves ==
  ASSUME SkillsInv, NEW t \in SkillThread, NEW s \in SkillRecord, NEW c \in CardRecord,
         skill' = [skill EXCEPT ![t] = s], card' = [card EXCEPT ![t] = c],
         UNCHANGED <<now, sweep, drafts>>, drafting' \subseteq drafting, agreed \subseteq agreed',
         OurSweep(drafting') = OurSweep(drafting), Earned(s, agreed'),
         Faces(c, s, OurSweep(drafting))
  PROVE  SkillsInv'
<1>1. SkillsTypeOK'
  BY DEF SkillsInv, SkillsTypeOK
<1>2. Prompted(drafting', now', sweep')
  BY DEF SkillsInv, Prompted
<1>3. ASSUME NEW i \in SkillThread
      PROVE  Earned(skill'[i], agreed') /\ Faces(card'[i], skill'[i], OurSweep(drafting'))
  <2>1. CASE i = t
    <3>1. skill'[i] = s /\ card'[i] = c
      BY <2>1 DEF SkillsInv, SkillsTypeOK
    <3> QED BY <3>1
  <2>2. CASE i # t
    <3>1. skill'[i] = skill[i] /\ card'[i] = card[i]
      BY <2>2 DEF SkillsInv, SkillsTypeOK
    <3>2. Earned(skill[i], agreed) /\ Faces(card[i], skill[i], OurSweep(drafting))
      BY DEF SkillsInv
    <3> QED BY <3>1, <3>2, EarnedStays
  <2> QED BY <2>1, <2>2
<1> QED BY <1>1, <1>2, <1>3 DEF SkillsInv

\* The cards change in what they show of skills that are as they were.
LEMMA CardsMove ==
  ASSUME SkillsInv, card' \in [SkillThread -> CardRecord], UNCHANGED <<now, skill, sweep, agreed>>,
         drafts' \in Nat, drafting' \subseteq DraftRecord, Prompted(drafting', now, sweep),
         OurSweep(drafting') = OurSweep(drafting),
         \A t \in SkillThread :
           card'[t].skill = card[t].skill \/ Faces(card'[t], skill[t], OurSweep(drafting))
  PROVE  SkillsInv'
<1>1. SkillsTypeOK'
  BY DEF SkillsInv, SkillsTypeOK
<1>2. ASSUME NEW t \in SkillThread PROVE Faces(card'[t], skill[t], OurSweep(drafting))
  BY DEF SkillsInv, Faces
<1> QED BY <1>1, <1>2 DEF SkillsInv

\* A draft is asked for, fails, or the cards are read again (handleGetThreadSkills).
LEMMA RequestsKeepEarned ==
  ASSUME SkillsInv,
         \/ RefreshCards
         \/ \E t \in SkillThread : Redraft(t) \/ RedraftElsewhere(t)
         \/ \E d \in drafting : RedraftFails(d)
  PROVE  SkillsInv'
<1>1. SkillsTypeOK /\ Prompted(drafting, now, sweep)
  BY DEF SkillsInv
<1>2. CASE RefreshCards
  <2>1. \A t \in SkillThread : card'[t] = Shown(skill[t], t)
    BY <1>2 DEF RefreshCards
  <2>2. ASSUME NEW t \in SkillThread
        PROVE  /\ Shown(skill[t], t) \in CardRecord
               /\ Faces(Shown(skill[t], t), skill[t], OurSweep(drafting))
    BY <1>1, ShownFaces DEF SkillsTypeOK
  <2>3. card' \in [SkillThread -> CardRecord]
    BY <1>2, <2>2 DEF RefreshCards
  <2>4. UNCHANGED <<now, skill, drafting, sweep, drafts, agreed>>
    BY <1>2 DEF RefreshCards
  <2> QED BY <1>1, <2>1, <2>2, <2>3, <2>4, CardsMove DEF SkillsTypeOK
<1>3. ASSUME NEW t \in SkillThread, NEW ours \in BOOLEAN, NEW c \in CardRecord,
             c.skill = card[t].skill, card' = [card EXCEPT ![t] = c],
             drafting' = drafting \cup {NewDraft(t, "request", ours)}, drafts' = drafts + 1,
             UNCHANGED <<now, skill, sweep, agreed>>
      PROVE  SkillsInv'
  <2> DEFINE n == NewDraft(t, "request", ours)
  <2>1. n \in DraftRecord /\ n.by = "request" /\ n.body.from = now[n.t]
    BY <1>1 DEF NewDraft, DraftRecord, Body, SkillsTypeOK
  <2>2. drafting' = drafting \cup {n}
    BY <1>3
  <2> HIDE DEF n
  <2>3. card' \in [SkillThread -> CardRecord] /\ \A i \in SkillThread : card'[i].skill = card[i].skill
    BY <1>1, <1>3 DEF SkillsTypeOK
  <2>4. Prompted(drafting', now, sweep) /\ OurSweep(drafting') = OurSweep(drafting)
    <3>1. Prompted(drafting', now, sweep)
      BY <1>1, <2>1, <2>2 DEF Prompted
    <3>2. \A d : d.by = "sweep" => (d \in drafting' <=> d \in drafting)
      BY <2>1, <2>2
    <3> QED BY <3>1, <3>2 DEF OurSweep
  <2>5. drafts' \in Nat /\ drafting' \subseteq DraftRecord
    BY <1>1, <1>3, <2>1, <2>2 DEF SkillsTypeOK
  <2> QED BY <1>3, <2>3, <2>4, <2>5, CardsMove
<1>4. ASSUME NEW t \in SkillThread, Redraft(t) PROVE SkillsInv'
  <2> DEFINE c == [card[t] EXCEPT !.busy = TRUE]
  <2>1. c \in CardRecord /\ c.skill = card[t].skill
    BY <1>1 DEF CardRecord, SkillsTypeOK
  <2>2. card' = [card EXCEPT ![t] = c]
    BY <1>1, <1>4 DEF Redraft, SkillsTypeOK, CardRecord
  <2>3. /\ drafting' = drafting \cup {NewDraft(t, "request", TRUE)} /\ drafts' = drafts + 1
        /\ UNCHANGED <<now, skill, sweep, agreed>>
    BY <1>4 DEF Redraft
  <2> HIDE DEF c
  <2> QED BY <1>3, <2>1, <2>2, <2>3
<1>5. ASSUME NEW t \in SkillThread, RedraftElsewhere(t) PROVE SkillsInv'
  <2>1. card[t] \in CardRecord /\ card' = [card EXCEPT ![t] = card[t]]
    BY <1>1, <1>5 DEF RedraftElsewhere, SkillsTypeOK
  <2>2. /\ drafting' = drafting \cup {NewDraft(t, "request", FALSE)} /\ drafts' = drafts + 1
        /\ UNCHANGED <<now, skill, sweep, agreed>>
    BY <1>5 DEF RedraftElsewhere
  <2> QED BY <1>3, <2>1, <2>2
<1>6. ASSUME NEW d \in drafting, RedraftFails(d) PROVE SkillsInv'
  <2> DEFINE c == [card[d.t] EXCEPT !.busy = FALSE]
  <2>1. d.t \in SkillThread
    BY <1>1 DEF SkillsTypeOK, DraftRecord
  <2>2. c \in CardRecord /\ c.skill = card[d.t].skill
    BY <1>1, <2>1 DEF CardRecord, SkillsTypeOK
  <2>3. drafting' = drafting \ {d} /\ UNCHANGED <<now, skill, sweep, drafts, agreed>>
        /\ d.by = "request"
    BY <1>6 DEF RedraftFails
  <2>4. card' = [card EXCEPT ![d.t] = c] \/ card' = card
    BY <1>1, <1>6, <2>1 DEF RedraftFails, SkillsTypeOK, CardRecord
  <2> HIDE DEF c
  <2>5. card' \in [SkillThread -> CardRecord] /\ \A i \in SkillThread : card'[i].skill = card[i].skill
    BY <1>1, <2>1, <2>2, <2>4 DEF SkillsTypeOK
  <2>6. Prompted(drafting', now, sweep) /\ drafting' \subseteq DraftRecord /\ drafts' \in Nat
    BY <1>1, <2>3 DEF Prompted, SkillsTypeOK
  <2>7. OurSweep(drafting') = OurSweep(drafting)
    BY <2>3 DEF OurSweep
  <2> QED BY <2>3, <2>5, <2>6, <2>7, CardsMove
<1> QED BY <1>2, <1>4, <1>5, <1>6

\* What a person decides of a skill is decided of the text the card shows, the
\* inbox's decisions with care (Careful).
LEMMA AnswersAreEarned ==
  ASSUME SkillsInv, Careful, NEW t \in SkillThread,
         \/ RatifySkill(t) \/ ReaffirmSkill(t) \/ InboxRatifies(t) \/ RejectDraft(t)
         \/ \E value \in BOOLEAN : SetAuto(t, value)
  PROVE  SkillsInv'
<1> DEFINE was == skill[t]
<1>1. /\ SkillsTypeOK /\ was \in SkillRecord /\ card[t] \in CardRecord /\ now[t] \in SkillVersion
      /\ Earned(was, agreed) /\ Faces(card[t], was, OurSweep(drafting))
      /\ sweep = None => ~OurSweep(drafting)
  BY NoSweepIsOurs DEF SkillsInv, SkillsTypeOK
<1>2. ASSUME NEW s \in SkillRecord, NEW seen, Answered(t, s), agreed' = agreed \cup seen,
             Earned(s, agreed \cup seen)
      PROVE  SkillsInv'
  <2>1. Shown(s, t) \in CardRecord /\ Faces(Shown(s, t), s, OurSweep(drafting))
    BY <1>1, ShownFaces
  <2>2. /\ skill' = [skill EXCEPT ![t] = s] /\ card' = [card EXCEPT ![t] = Shown(s, t)]
        /\ UNCHANGED <<now, sweep, drafts>> /\ drafting' = drafting
        /\ agreed \subseteq agreed' /\ Earned(s, agreed')
    BY <1>2 DEF Answered
  <2> QED BY <2>1, <2>2, OneSkillMoves
<1>3. CASE RatifySkill(t)
  <2> DEFINE s == [was EXCEPT !.status = "ratified"]
             seen == {<<"read", card[t].skill.body>>} \cup Behind(t)
  <2>1. s \in SkillRecord /\ s.status = "ratified" /\ s.body = was.body /\ s.stamp = was.stamp
        /\ s.auto = was.auto
    BY <1>1 DEF SkillRecord
  <2>2. was.status = "draft" /\ (card[t].skill.body = was.body \/ <<"unread", was.body>> \in Behind(t))
    <3>1. was.status = "draft" /\ card[t].skill.status = "draft" /\ sweep = None
      BY <1>3 DEF RatifySkill
    <3>2. was.body \in Body
      BY <1>1, <3>1 DEF Earned
    <3>3. was.body.ours \in BOOLEAN
      BY <3>2 DEF Body
    <3>4. was.body.ours => card[t].skill.body = was.body
      BY <1>1, <3>1 DEF Faces
    <3>5. ~was.body.ours /\ card[t].skill.body # was.body => <<"unread", was.body>> \in Behind(t)
      BY DEF Behind
    <3> HIDE DEF was
    <3> QED BY <3>1, <3>3, <3>4, <3>5
  <2>3. Answered(t, s) /\ agreed' = agreed \cup seen
    BY <1>3 DEF RatifySkill
  <2>4. Earned(s, agreed \cup seen)
    BY <1>1, <2>1, <2>2 DEF Earned
  <2> HIDE DEF s, seen
  <2> QED BY <1>2, <2>1, <2>3, <2>4
<1>4. CASE ReaffirmSkill(t)
  <2> DEFINE s == [was EXCEPT !.stamp = now[t]]
             seen == {<<"holds", was.body, now[t]>>}
  <2>1. s \in SkillRecord /\ s.status = was.status /\ s.body = was.body /\ s.stamp = now[t]
        /\ s.auto = was.auto
    BY <1>1 DEF SkillRecord
  <2>2. was.status = "ratified"
    BY <1>4 DEF ReaffirmSkill
  <2>3. Answered(t, s) /\ agreed' = agreed \cup seen
    BY <1>4 DEF ReaffirmSkill
  <2>4. Earned(s, agreed \cup seen)
    BY <1>1, <2>1, <2>2 DEF Earned
  <2> HIDE DEF s, seen
  <2> QED BY <1>2, <2>1, <2>3, <2>4
<1>5. ASSUME NEW value \in BOOLEAN, SetAuto(t, value) PROVE SkillsInv'
  <2> DEFINE s == [was EXCEPT !.auto = value]
             seen == IF value THEN {<<"auto", card[t].skill.body>>} ELSE {}
  <2>1. s \in SkillRecord /\ s.status = was.status /\ s.body = was.body /\ s.stamp = was.stamp
        /\ s.auto = value
    BY <1>1 DEF SkillRecord
  <2>2. was.status = "ratified" /\ card[t].skill.body = was.body
    BY <1>1, <1>5 DEF SetAuto, Faces
  <2>3. Answered(t, s) /\ agreed' = agreed \cup seen
    BY <1>5 DEF SetAuto
  <2>4. Earned(s, agreed \cup seen)
    BY <1>1, <2>1, <2>2 DEF Earned
  <2> HIDE DEF s, seen
  <2> QED BY <1>2, <2>1, <2>3, <2>4
<1>6. CASE InboxRatifies(t)
  <2> DEFINE s == [was EXCEPT !.status = "ratified"]
             c == card[t]
  <2>1. s \in SkillRecord /\ s.status = "ratified" /\ s.body = was.body /\ s.stamp = was.stamp
        /\ s.auto = was.auto
    BY <1>1 DEF SkillRecord
  <2>2. was.status = "draft" /\ c.skill.body = was.body
    BY <1>1, <1>6 DEF InboxRatifies
  <2>3. /\ skill' = [skill EXCEPT ![t] = s] /\ agreed' = agreed \cup {<<"read", c.skill.body>>}
        /\ UNCHANGED <<now, card, drafting, sweep, drafts>>
    BY <1>1, <1>6 DEF InboxRatifies, SkillsTypeOK
  <2>4. Earned(s, agreed')
    BY <1>1, <2>1, <2>2, <2>3 DEF Earned
  <2>5. Faces(c, s, OurSweep(drafting)) /\ card' = [card EXCEPT ![t] = c] /\ c \in CardRecord
    BY <1>1, <2>1, <2>2, <2>3 DEF Faces, SkillsTypeOK
  <2>6. UNCHANGED <<now, sweep, drafts>> /\ drafting' = drafting /\ agreed \subseteq agreed'
        /\ skill' = [skill EXCEPT ![t] = s]
    BY <2>3
  <2> HIDE DEF s, c
  <2> QED BY <2>1, <2>4, <2>5, <2>6, OneSkillMoves
<1>7. CASE RejectDraft(t)
  <2> DEFINE c == card[t]
             s == NoSkill
  <2>1. was.status = "draft" /\ skill' = [skill EXCEPT ![t] = s]
        /\ UNCHANGED <<now, card, drafting, sweep, drafts, agreed>>
    BY <1>7 DEF RejectDraft
  <2>2. s \in SkillRecord /\ Earned(s, agreed) /\ s.status = "none"
    BY NoSkillIsSkill DEF NoSkill
  <2>3. Faces(c, s, OurSweep(drafting)) /\ card' = [card EXCEPT ![t] = c] /\ c \in CardRecord
    BY <1>1, <2>1, <2>2 DEF Faces, SkillsTypeOK
  <2>4. UNCHANGED <<now, sweep, drafts>> /\ drafting' = drafting /\ agreed \subseteq agreed'
        /\ skill' = [skill EXCEPT ![t] = s] /\ Earned(s, agreed')
    BY <2>1, <2>2
  <2> HIDE DEF s, c
  <2> QED BY <2>2, <2>3, <2>4, OneSkillMoves
<1> QED BY <1>3, <1>4, <1>5, <1>6, <1>7

\* A draft that was asked for lands, and is shown to the client that asked
\* (runGenerateThreadSkill).
LEMMA RedraftLandsEarned ==
  ASSUME SkillsInv, NEW d \in drafting, RedraftLands(d)
  PROVE  SkillsInv'
<1> DEFINE s == Written(d)
           c == IF d.body.ours THEN Shown(s, d.t) ELSE card[d.t]
<1>1. SkillsTypeOK /\ d.t \in SkillThread /\ d.by = "request" /\ card[d.t] \in CardRecord
  BY DEF SkillsInv, SkillsTypeOK, DraftRecord, RedraftLands
<1>2. s \in SkillRecord /\ s.status = "draft" /\ Earned(s, agreed) /\ s.body = d.body
  BY WrittenIsEarned DEF Written
<1>3. c \in CardRecord /\ Faces(c, s, OurSweep(drafting))
  <2>1. Shown(s, d.t) \in CardRecord /\ Faces(Shown(s, d.t), s, OurSweep(drafting))
    BY <1>1, <1>2, ShownFaces
  <2>2. ~d.body.ours => Faces(card[d.t], s, OurSweep(drafting))
    BY <1>2 DEF Faces
  <2> HIDE DEF s
  <2> QED BY <1>1, <2>1, <2>2
<1>4. /\ skill' = [skill EXCEPT ![d.t] = s] /\ card' = [card EXCEPT ![d.t] = c]
      /\ UNCHANGED <<now, sweep, drafts>> /\ drafting' = drafting \ {d}
      /\ agreed \subseteq agreed' /\ agreed' = agreed
  BY <1>1 DEF RedraftLands, SkillsTypeOK
<1>5. OurSweep(drafting') = OurSweep(drafting) /\ drafting' \subseteq drafting
  BY <1>1, <1>4 DEF OurSweep
<1> HIDE DEF s, c
<1> QED BY <1>1, <1>2, <1>3, <1>4, <1>5, OneSkillMoves

\* A sweep drafts its next target, or is over (runSweep).
LEMMA SweepOnIsPrompted ==
  ASSUME SkillsTypeOK, NEW targets \in Seq(SkillThread), NEW others \in SUBSET drafting,
         NEW ours \in BOOLEAN,
         \A d \in others : d.by = "request" /\ d.body.from.rules = now[d.t].rules,
         SweepOn(targets, others, ours)
  PROVE  /\ sweep' \in Seq(SkillThread) \cup {None} /\ drafts' \in Nat
         /\ drafting' \subseteq DraftRecord /\ Prompted(drafting', now, sweep')
         /\ targets = <<>> <=> sweep' = None
         /\ OurSweep(drafting') <=> targets # <<>> /\ ours
<1>1. CASE targets = <<>>
  <2>1. sweep' = None /\ drafting' = others /\ drafts' = drafts
    BY <1>1 DEF SweepOn
  <2>2. Prompted(drafting', now, sweep') /\ ~OurSweep(drafting')
    BY <2>1 DEF Prompted, OurSweep
  <2> QED BY <1>1, <2>1, <2>2 DEF SkillsTypeOK
<1>2. CASE targets # <<>>
  <2> DEFINE n == NewDraft(Head(targets), "sweep", ours)
  <2>1. Tail(targets) \in Seq(SkillThread) /\ Head(targets) \in SkillThread
    BY <1>2
  <2>2. /\ sweep' = Tail(targets) /\ drafting' = others \cup {n} /\ drafts' = drafts + 1
    BY <1>2 DEF SweepOn
  <2>3. sweep' # None
    BY <2>1, <2>2, SkillAssumption
  <2>4. n \in DraftRecord /\ n.by = "sweep" /\ n.body.from.rules = now[n.t].rules /\ n.body.ours = ours
    BY <2>1 DEF NewDraft, DraftRecord, Body, SkillsTypeOK
  <2> HIDE DEF n
  <2>5. Prompted(drafting', now, sweep') /\ (OurSweep(drafting') <=> ours)
    <3>1. Prompted(drafting', now, sweep')
      BY <2>2, <2>3, <2>4 DEF Prompted
    <3>2. \A d \in drafting' : d.by = "sweep" <=> d = n
      BY <2>2, <2>4
    <3>3. OurSweep(drafting') <=> ours
      BY <2>2, <2>4, <3>2 DEF OurSweep
    <3> QED BY <3>1, <3>3
  <2>6. drafts' \in Nat /\ drafting' \subseteq DraftRecord
    BY <2>2, <2>4 DEF SkillsTypeOK
  <2> QED BY <1>2, <2>1, <2>2, <2>3, <2>5, <2>6
<1> QED BY <1>1, <1>2

\* A sweep takes on the threads without an authoritative skill (runSkillSweep).
LEMMA SweepStartKeepsEarned ==
  ASSUME SkillsInv, NEW ours \in BOOLEAN, SweepStart(ours)
  PROVE  SkillsInv'
<1> DEFINE targets == {t \in SkillThread : ~Authoritative(t)}
           order == SetToSeq(targets)
<1>1. /\ sweep = None /\ SweepOn(order, drafting, ours) /\ UNCHANGED <<now, skill, card, agreed>>
      /\ targets # {}
  BY DEF SweepStart
<1>2. order \in Seq(SkillThread)
  BY TargetsAreSeq
<1> HIDE DEF order
<1>3. SkillsTypeOK /\ \A d \in drafting : d.by = "request" /\ d.body.from.rules = now[d.t].rules
  BY <1>1 DEF SkillsInv, Prompted
<1>4. /\ sweep' \in Seq(SkillThread) \cup {None} /\ drafts' \in Nat
      /\ drafting' \subseteq DraftRecord /\ Prompted(drafting', now, sweep')
  BY <1>1, <1>2, <1>3, SweepOnIsPrompted
<1>5. SkillsTypeOK'
  BY <1>1, <1>3, <1>4 DEF SkillsTypeOK
<1>6. ASSUME NEW t \in SkillThread
      PROVE  Earned(skill'[t], agreed') /\ Faces(card'[t], skill'[t], OurSweep(drafting'))
  <2>1. Earned(skill[t], agreed) /\ Faces(card[t], skill[t], OurSweep(drafting))
    BY DEF SkillsInv
  <2> QED BY <1>1, <2>1, NoSweepIsOurs DEF Faces
<1> QED BY <1>1, <1>4, <1>5, <1>6 DEF SkillsInv

\* The end of a sweep's draft: every card shows that there is a draft, and the
\* last one repaints the cards of the client that asked for the sweep.
LEMMA SweepStepKeepsEarned ==
  ASSUME SkillsInv, NEW d \in drafting, SweepStep(d)
  PROVE  SkillsInv'
<1>1. /\ SkillsTypeOK /\ Prompted(drafting, now, sweep)
      /\ d \in DraftRecord /\ d.t \in SkillThread /\ d.by = "sweep" /\ d.body.ours \in BOOLEAN
  BY DEF SkillsInv, SkillsTypeOK, DraftRecord, SweepStep, Body
<1>2. sweep \in Seq(SkillThread) /\ sweep # None
  BY <1>1 DEF SkillsTypeOK, Prompted
<1>3. ASSUME NEW e \in drafting \ {d} PROVE e.by = "request" /\ e.body.from.rules = now[e.t].rules
  <2>1. e \in DraftRecord /\ e.by \in {"request", "sweep"}
    BY <1>1 DEF SkillsTypeOK, DraftRecord
  <2> QED BY <1>1, <2>1 DEF Prompted
<1>4. SweepOn(sweep, drafting \ {d}, d.body.ours) /\ UNCHANGED <<now, agreed>>
  BY DEF SweepStep
<1>5. /\ sweep' \in Seq(SkillThread) \cup {None} /\ drafts' \in Nat
      /\ drafting' \subseteq DraftRecord /\ Prompted(drafting', now, sweep')
      /\ sweep = <<>> <=> sweep' = None
      /\ OurSweep(drafting') <=> sweep # <<>> /\ d.body.ours
  BY <1>1, <1>2, <1>3, <1>4, SweepOnIsPrompted
<1>6. OurSweep(drafting) <=> d.body.ours
  BY <1>1 DEF OurSweep, Prompted
<1>7. PICK lands \in BOOLEAN :
        /\ skill' = IF lands THEN [skill EXCEPT ![d.t] = Written(d)] ELSE skill
        /\ card' = IF sweep = <<>> /\ d.body.ours
                   THEN [t \in SkillThread |-> Shown(skill'[t], t)]
                   ELSE IF lands THEN Told(d) ELSE card
  BY DEF SweepStep
<1>8. /\ skill' \in [SkillThread -> SkillRecord]
      /\ \A t \in SkillThread : Earned(skill'[t], agreed)
      /\ lands => skill'[d.t].status = "draft" /\ skill'[d.t].body = d.body
      /\ \A t \in SkillThread : ~lands \/ t # d.t => skill'[t] = skill[t]
  <2>1. /\ Written(d) \in SkillRecord /\ Earned(Written(d), agreed)
        /\ Written(d).status = "draft" /\ Written(d).body = d.body
    BY WrittenIsEarned DEF Written
  <2>2. \A t \in SkillThread : Earned(skill[t], agreed)
    BY DEF SkillsInv
  <2> QED BY <1>1, <1>7, <2>1, <2>2 DEF SkillsTypeOK
<1>9. CASE sweep = <<>> /\ d.body.ours
  <2>1. card' = [i \in SkillThread |-> Shown(skill'[i], i)]
    BY <1>7, <1>9
  <2>2. ASSUME NEW t \in SkillThread
        PROVE  card'[t] \in CardRecord /\ Faces(card'[t], skill'[t], OurSweep(drafting'))
    <3> DEFINE s == skill'[t]
    <3>1. s \in SkillRecord
      BY <1>8
    <3> HIDE DEF s
    <3>2. Shown(s, t) \in CardRecord /\ \A sw : Faces(Shown(s, t), s, sw)
      BY <1>1, <3>1, ShownFaces
    <3> QED BY <2>1, <3>2 DEF s
  <2>3. card' \in [SkillThread -> CardRecord]
    BY <2>1, <2>2
  <2>4. SkillsTypeOK'
    BY <1>1, <1>4, <1>5, <1>8, <2>3 DEF SkillsTypeOK
  <2> QED BY <1>4, <1>5, <1>8, <2>2, <2>4 DEF SkillsInv
<1>10. CASE ~(sweep = <<>> /\ d.body.ours)
  <2> DEFINE c == [skill |-> [NoSkill EXCEPT !.status = "draft"], stale |-> FALSE, busy |-> FALSE]
  <2>1. c \in CardRecord /\ c.skill.status = "draft"
    BY DEF CardRecord, SkillRecord, NoSkill
  <2>2. card' = IF lands THEN [card EXCEPT ![d.t] = c] ELSE card
    BY <1>7, <1>10 DEF Told
  <2> HIDE DEF c
  <2>3. OurSweep(drafting') <=> OurSweep(drafting)
    BY <1>5, <1>6, <1>10
  <2>4. card' \in [SkillThread -> CardRecord]
    BY <1>1, <2>1, <2>2 DEF SkillsTypeOK
  <2>5. SkillsTypeOK'
    BY <1>1, <1>4, <1>5, <1>8, <2>4 DEF SkillsTypeOK
  <2>6. ASSUME NEW t \in SkillThread PROVE Faces(card'[t], skill'[t], OurSweep(drafting'))
    <3>1. Faces(card[t], skill[t], OurSweep(drafting))
      BY DEF SkillsInv
    <3>2. CASE lands /\ t = d.t
      <4>1. card'[t] = c /\ skill'[t].status = "draft" /\ skill'[t].body = d.body
        BY <1>1, <1>8, <2>2, <3>2 DEF SkillsTypeOK
      <4>2. d.body.ours => OurSweep(drafting')
        BY <1>6, <2>3
      <4> QED BY <2>1, <4>1, <4>2 DEF Faces
    <3>3. CASE ~lands \/ t # d.t
      <4>1. card'[t] = card[t] /\ skill'[t] = skill[t]
        BY <1>1, <1>8, <2>2, <3>3 DEF SkillsTypeOK
      <4> QED BY <2>3, <3>1, <4>1 DEF Faces
    <3> QED BY <3>2, <3>3
  <2> QED BY <1>4, <1>5, <1>8, <2>5, <2>6 DEF SkillsInv
<1> QED BY <1>9, <1>10

\* Every operation on the skills, by whomever, keeps their invariant.
LEMMA SkillsStep ==
  ASSUME Careful, SkillsInv, [SkillsNext]_skillVars
  PROVE  SkillsInv'
<1>1. ASSUME NEW t \in SkillThread, ChangeCode(t) \/ ChangeRules(t) PROVE SkillsInv'
  BY <1>1, ChangesKeepEarned
<1>2. CASE \/ RefreshCards
           \/ \E t \in SkillThread : Redraft(t) \/ RedraftElsewhere(t)
           \/ \E d \in drafting : RedraftFails(d)
  BY <1>2, RequestsKeepEarned
<1>3. ASSUME NEW t \in SkillThread,
             \/ RatifySkill(t) \/ ReaffirmSkill(t) \/ InboxRatifies(t) \/ RejectDraft(t)
             \/ \E value \in BOOLEAN : SetAuto(t, value)
      PROVE  SkillsInv'
  BY <1>3, AnswersAreEarned
<1>4. ASSUME NEW ours \in BOOLEAN, SweepStart(ours) PROVE SkillsInv'
  BY <1>4, SweepStartKeepsEarned
<1>5. ASSUME NEW d \in drafting, RedraftLands(d) \/ SweepStep(d) PROVE SkillsInv'
  BY <1>5, RedraftLandsEarned, SweepStepKeepsEarned
<1>6. CASE UNCHANGED skillVars
  BY <1>6 DEF skillVars, SkillsInv, SkillsTypeOK
<1> QED BY <1>1, <1>2, <1>3, <1>4, <1>5, <1>6 DEF SkillsNext

\* The types of the skills hold however rules change under a draft, and whoever
\* ratifies while a sweep runs: a sweep has one draft in flight at most.
OneSweep(dr, sw) ==
  /\ sw = None => \A d \in dr : d.by = "request"
  /\ \A d, e \in dr : d.by = "sweep" /\ e.by = "sweep" => d = e

LEMMA SkillsStayTyped ==
  ASSUME SkillsTypeOK, OneSweep(drafting, sweep), [SkillsNext]_skillVars
  PROVE  SkillsTypeOK' /\ OneSweep(drafting', sweep')
<1>1. /\ now \in [SkillThread -> SkillVersion] /\ skill \in [SkillThread -> SkillRecord]
      /\ card \in [SkillThread -> CardRecord] /\ drafting \subseteq DraftRecord
      /\ sweep \in Seq(SkillThread) \cup {None} /\ drafts \in Nat
  BY DEF SkillsTypeOK
<1>2. ASSUME NEW t \in SkillThread, NEW s \in SkillRecord, NEW sw
      PROVE  Shown(s, t) \in CardRecord
  BY ShownFaces
<1>3. ASSUME NEW d \in drafting PROVE Written(d) \in SkillRecord /\ d.t \in SkillThread
  <2>1. d \in DraftRecord /\ d.body \in Body /\ d.body.from \in SkillVersion /\ now[d.t] \in SkillVersion
    BY <1>1 DEF DraftRecord, Body
  <2>2. LandingStamp(d) \in SkillVersion
    BY <2>1 DEF LandingStamp, SkillVersion
  <2> QED BY <2>1, <2>2 DEF Written, SkillRecord, DraftRecord
<1>4. ASSUME NEW t \in SkillThread, NEW by \in {"request", "sweep"}, NEW ours \in BOOLEAN
      PROVE  NewDraft(t, by, ours) \in DraftRecord /\ NewDraft(t, by, ours).by = by
  BY <1>1 DEF NewDraft, DraftRecord, Body
<1>5. ASSUME skill' \in [SkillThread -> SkillRecord], card' \in [SkillThread -> CardRecord],
             drafting' \subseteq DraftRecord, drafts' \in Nat, UNCHANGED <<now, sweep>>,
             \A d \in drafting' : d \in drafting \/ d.by = "request"
      PROVE  SkillsTypeOK' /\ OneSweep(drafting', sweep')
  BY <1>1, <1>5 DEF SkillsTypeOK, OneSweep
<1>6. ASSUME NEW t \in SkillThread, ChangeCode(t) \/ ChangeRules(t) PROVE SkillsTypeOK' /\ OneSweep(drafting', sweep')
  <2>1. now' \in [SkillThread -> SkillVersion]
    BY <1>1, <1>6, VersionsGrow
  <2>2. UNCHANGED <<skill, card, drafting, sweep, drafts>>
    BY <1>6 DEF ChangeCode, ChangeRules
  <2> QED BY <1>1, <2>1, <2>2 DEF SkillsTypeOK, OneSweep
<1>7. CASE RefreshCards
  <2>1. \A t \in SkillThread : Shown(skill[t], t) \in CardRecord
    BY <1>1, <1>2
  <2> QED BY <1>1, <1>5, <1>7, <2>1 DEF RefreshCards
<1>8. ASSUME NEW t \in SkillThread, Redraft(t) \/ RedraftElsewhere(t) PROVE SkillsTypeOK' /\ OneSweep(drafting', sweep')
  <2>1. card' \in [SkillThread -> CardRecord]
    BY <1>1, <1>8 DEF Redraft, RedraftElsewhere, CardRecord
  <2>2. /\ \/ drafting' = drafting \cup {NewDraft(t, "request", TRUE)}
           \/ drafting' = drafting \cup {NewDraft(t, "request", FALSE)}
        /\ drafts' = drafts + 1 /\ UNCHANGED <<now, skill, sweep>>
    BY <1>8 DEF Redraft, RedraftElsewhere
  <2>3. /\ drafting' \subseteq DraftRecord /\ drafts' \in Nat
        /\ \A d \in drafting' : d \in drafting \/ d.by = "request"
    <3> DEFINE n(ours) == NewDraft(t, "request", ours)
    <3>1. \A ours \in BOOLEAN : n(ours) \in DraftRecord /\ n(ours).by = "request"
      BY <1>4
    <3>2. PICK ours \in BOOLEAN : drafting' = drafting \cup {n(ours)}
      BY <2>2
    <3> HIDE DEF n
    <3>3. drafts' \in Nat
      BY <1>1, <2>2
    <3> QED BY <1>1, <3>1, <3>2, <3>3
  <2> QED BY <1>1, <1>5, <2>1, <2>2, <2>3
<1>9. ASSUME NEW d \in drafting, RedraftLands(d) \/ RedraftFails(d) PROVE SkillsTypeOK' /\ OneSweep(drafting', sweep')
  <2>1. Shown(Written(d), d.t) \in CardRecord
    BY <1>2, <1>3
  <2>2. /\ skill' \in [SkillThread -> SkillRecord] /\ drafting' \subseteq DraftRecord
        /\ drafting' \subseteq drafting /\ UNCHANGED <<now, sweep, drafts>>
    BY <1>1, <1>3, <1>9 DEF RedraftLands, RedraftFails
  <2>3. card' \in [SkillThread -> CardRecord]
    <3>1. [card[d.t] EXCEPT !.busy = FALSE] \in CardRecord
      BY <1>1, <1>3 DEF CardRecord
    <3> QED BY <1>1, <1>9, <2>1, <3>1 DEF RedraftLands, RedraftFails
  <2> QED BY <1>1, <1>5, <2>2, <2>3
<1>10. ASSUME NEW targets \in Seq(SkillThread), NEW others \in SUBSET drafting, NEW ours \in BOOLEAN,
              \A d \in others : d.by = "request", SweepOn(targets, others, ours)
       PROVE  /\ sweep' \in Seq(SkillThread) \cup {None} /\ drafts' \in Nat
              /\ drafting' \subseteq DraftRecord /\ OneSweep(drafting', sweep')
  <2>1. CASE targets = <<>>
    BY <1>1, <1>10, <2>1 DEF SweepOn, OneSweep
  <2>2. CASE targets # <<>>
    <3>1. Tail(targets) \in Seq(SkillThread) /\ Head(targets) \in SkillThread
      BY <2>2
    <3> DEFINE n == NewDraft(Head(targets), "sweep", ours)
    <3>2. n \in DraftRecord /\ n.by = "sweep"
      BY <1>4, <3>1
    <3>3. sweep' = Tail(targets) /\ drafting' = others \cup {n} /\ drafts' = drafts + 1
      BY <1>10, <2>2 DEF SweepOn
    <3> HIDE DEF n
    <3>4. OneSweep(drafting', sweep')
      BY <1>10, <3>1, <3>2, <3>3, SkillAssumption DEF OneSweep
    <3> QED BY <1>1, <3>1, <3>2, <3>3, <3>4
  <2> QED BY <2>1, <2>2
<1>11. ASSUME NEW ours \in BOOLEAN, SweepStart(ours) PROVE SkillsTypeOK' /\ OneSweep(drafting', sweep')
  <2> DEFINE order == SetToSeq({t \in SkillThread : ~Authoritative(t)})
  <2>1. order \in Seq(SkillThread)
    BY TargetsAreSeq
  <2>2. /\ SweepOn(order, drafting, ours) /\ UNCHANGED <<now, skill, card>>
        /\ \A d \in drafting : d.by = "request"
    BY <1>11 DEF SweepStart, OneSweep
  <2> HIDE DEF order
  <2> QED BY <1>1, <1>10, <2>1, <2>2 DEF SkillsTypeOK
<1>12. ASSUME NEW d \in drafting, SweepStep(d) PROVE SkillsTypeOK' /\ OneSweep(drafting', sweep')
  <2>1. /\ SweepOn(sweep, drafting \ {d}, d.body.ours) /\ now' = now
        /\ d.by = "sweep" /\ sweep # None
    BY <1>12 DEF SweepStep, OneSweep
  <2>2. d.body.ours \in BOOLEAN /\ \A e \in drafting \ {d} : e.by = "request"
    BY <1>1, <2>1 DEF DraftRecord, Body, OneSweep
  <2>3. /\ sweep' \in Seq(SkillThread) \cup {None} /\ drafts' \in Nat
        /\ drafting' \subseteq DraftRecord /\ OneSweep(drafting', sweep')
    BY <1>1, <1>10, <2>1, <2>2
  <2>4. skill' \in [SkillThread -> SkillRecord]
    BY <1>1, <1>3, <1>12 DEF SweepStep
  <2>5. \A t \in SkillThread : Shown(skill'[t], t) \in CardRecord
    BY <1>2, <2>4
  <2>6. Told(d) \in [SkillThread -> CardRecord]
    <3> DEFINE c == [skill |-> [NoSkill EXCEPT !.status = "draft"], stale |-> FALSE, busy |-> FALSE]
    <3>1. c \in CardRecord
      BY DEF CardRecord, SkillRecord, NoSkill
    <3> QED BY <1>1, <3>1 DEF Told
  <2>7. card' \in [SkillThread -> CardRecord]
    BY <1>1, <1>12, <2>5, <2>6 DEF SweepStep
  <2> QED BY <1>1, <2>1, <2>3, <2>4, <2>7 DEF SkillsTypeOK
<1>13. ASSUME NEW t \in SkillThread, NEW s \in SkillRecord, Answered(t, s) PROVE SkillsTypeOK' /\ OneSweep(drafting', sweep')
  <2>1. Shown(s, t) \in CardRecord
    BY <1>2
  <2> QED BY <1>1, <1>13, <2>1 DEF Answered, SkillsTypeOK, OneSweep
<1>14. ASSUME NEW t \in SkillThread, RatifySkill(t) \/ ReaffirmSkill(t) PROVE SkillsTypeOK' /\ OneSweep(drafting', sweep')
  <2>1. [skill[t] EXCEPT !.status = "ratified"] \in SkillRecord /\ [skill[t] EXCEPT !.stamp = now[t]] \in SkillRecord
    BY <1>1 DEF SkillRecord
  <2> QED BY <1>13, <1>14, <2>1 DEF RatifySkill, ReaffirmSkill
<1>15. ASSUME NEW t \in SkillThread, NEW value \in BOOLEAN, SetAuto(t, value) PROVE SkillsTypeOK' /\ OneSweep(drafting', sweep')
  <2>1. [skill[t] EXCEPT !.auto = value] \in SkillRecord
    BY <1>1 DEF SkillRecord
  <2> QED BY <1>13, <1>15, <2>1 DEF SetAuto
<1>16. ASSUME NEW t \in SkillThread, InboxRatifies(t) \/ RejectDraft(t) PROVE SkillsTypeOK' /\ OneSweep(drafting', sweep')
  <2>1. [skill[t] EXCEPT !.status = "ratified"] \in SkillRecord /\ NoSkill \in SkillRecord
    BY <1>1, NoSkillIsSkill DEF SkillRecord
  <2>2. skill' \in [SkillThread -> SkillRecord]
    BY <1>1, <1>16, <2>1 DEF InboxRatifies, RejectDraft
  <2> QED BY <1>1, <1>5, <1>16, <2>2 DEF InboxRatifies, RejectDraft
<1>17. CASE UNCHANGED skillVars
  BY <1>17 DEF skillVars, SkillsTypeOK, OneSweep
<1> QED BY <1>6, <1>7, <1>8, <1>9, <1>11, <1>12, <1>14, <1>15, <1>16, <1>17 DEF SkillsNext

\* What agents are given was read by the person who ratified it, unless another
\* client's or an agent's draft took its place behind the card; it was drafted
\* from what it is stamped with or said since to hold for it, and is given past
\* a change only where the person asked for that of this text, for every set of
\* threads and any number of drafts, sweeps and changes (thread_skill_store.ts,
\* skill_sweep.ts).  It is of a person who waits for a sweep to end, and of
\* rules that do not change under a draft.
THEOREM SkillIsAlwaysEarned ==
  ASSUME Careful
  PROVE  SkillsSpec => []SkillIsEarned
<1>1. SkillsInv /\ [SkillsNext]_skillVars => SkillsInv'
  BY SkillsStep
<1>2. SkillsInv => SkillIsEarned
  <2>1. ASSUME SkillsInv, NEW t \in SkillThread, Injectable(t)
        PROVE  skill[t].status = "ratified" /\ Earned(skill[t], agreed)
    BY <2>1 DEF SkillsInv, Injectable
  <2> QED BY <2>1 DEF SkillIsEarned, Earned
<1> QED BY <1>1, <1>2, SkillsInitially, PTL DEF SkillsSpec

------------------------------------------------------------------------------
(* The plan.                                                                *)

\* Where the agreed version of an item is; a proposal that is unheld keeps none.
AgreementIn(it, stood, unheld) ==
  /\ it.status = "absent" => stood = Nobody
  /\ it.status \in {"agreed", "promoted"} => stood = it.is
  /\ it.status = "proposed" /\ ~unheld => it.agreedAs = stood

\* What a promoted item names among the rules rs, given what lapsed.
EnforcedIn(i, it, rs, l) ==
  it.status = "promoted" /\ i \notin l.orphaned =>
    \E r \in rs : /\ r.id = it.rule /\ r.of = i
                  /\ i \in l.respelt \/ r.says = it.is.says

Lapses == [unheld : SUBSET PlanItem, respelt : SUBSET PlanItem, orphaned : SUBSET PlanItem]

Agreements ==
  \A i \in PlanItem : AgreementIn(plan.item[i], stands[i], i \in lapse.unheld)
Enforcements == \A i \in PlanItem : EnforcedIn(i, plan.item[i], rules, lapse)

------------------------------------------------------------------------------
(* One item before and after an operation of by.                            *)

\* The item may become it without an agreement being edited by an agent.
MayBecome(by, it0, it, stood) ==
  \/ it = it0
  \/ it.status = "dropped"
  \/ by = "human" /\ it.status \in {"agreed", "promoted"}
  \/ it.status = "proposed" /\ it.agreedAs = stood
  \/ it.status = "proposed" /\ it0.status = "proposed" /\ it.agreedAs = it0.agreedAs

\* It does not claim a constraint it did not name before.
ClaimsNoRule(it0, it) ==
  it.status = "promoted" =>
    it0.status = "promoted" /\ it.rule = it0.rule /\ it.is.says = it0.is.says

\* A plan that is saved keeps every agreement (applyAndSave), but for items
\* that lapse with it.
LEMMA SaveKeepsAgreements ==
  ASSUME PlanTypeOK, Agreements, NEW by \in Actor, NEW p, NEW l \in Lapses,
         SaveLapsing(by, p, l), lapse.unheld \subseteq l.unheld,
         \A i \in PlanItem : \/ MayBecome(by, plan.item[i], p.item[i], stands[i])
                             \/ i \in l.unheld /\ p.item[i].status = "proposed"
  PROVE  Agreements'
<1> SUFFICES ASSUME NEW i \in PlanItem
             PROVE  AgreementIn(plan'.item[i], stands'[i], i \in lapse'.unheld)
  BY DEF Agreements
<1>1. /\ plan' = p /\ AgreementIn(plan.item[i], stands[i], i \in lapse.unheld)
      /\ \/ MayBecome(by, plan.item[i], p.item[i], stands[i])
         \/ i \in l.unheld /\ p.item[i].status = "proposed"
  BY DEF SaveLapsing, Agreements
<1>2. stands'[i] = IF p.item[i].status = "dropped" THEN Nobody
                   ELSE IF /\ by = "human" /\ p.item[i].status \in {"agreed", "promoted"}
                           /\ p.item[i] # plan.item[i]
                        THEN p.item[i].is ELSE stands[i]
  BY DEF SaveLapsing, StandingIn, Actor
<1>3. i \in lapse'.unheld <=> i \in l.unheld /\ p.item[i].status = "proposed"
  BY DEF SaveLapsing, LapseIn
<1>4. i \in lapse.unheld => i \in l.unheld
  OBVIOUS
<1> QED BY <1>1, <1>2, <1>3, <1>4 DEF MayBecome, AgreementIn

\* A plan that is saved claims no more rules than it did.
LEMMA SaveKeepsEnforcements ==
  ASSUME Enforcements, NEW by, NEW p, NEW l, SaveLapsing(by, p, l), rules \subseteq rules',
         lapse.orphaned \subseteq l.orphaned, lapse.respelt \subseteq l.respelt,
         \A i \in PlanItem : ClaimsNoRule(plan.item[i], p.item[i])
  PROVE  Enforcements'
<1> SUFFICES ASSUME NEW i \in PlanItem, p.item[i].status = "promoted", i \notin lapse'.orphaned
             PROVE  \E r \in rules : /\ r.id = p.item[i].rule /\ r.of = i
                                     /\ i \in lapse'.respelt \/ r.says = p.item[i].is.says
  BY DEF Enforcements, EnforcedIn, SaveLapsing
<1>1. /\ i \in lapse.orphaned => i \in lapse'.orphaned
      /\ i \in lapse.respelt => i \in lapse'.respelt
  BY DEF SaveLapsing, LapseIn
<1>2. EnforcedIn(i, plan.item[i], rules, lapse) /\ ClaimsNoRule(plan.item[i], p.item[i])
  BY DEF Enforcements
<1> QED BY <1>1, <1>2 DEF EnforcedIn, ClaimsNoRule

\* A plan that is saved is one, and what stands in it is versions.
LEMMA SaveKeepsTypes ==
  ASSUME PlanTypeOK, NEW by, NEW p \in Plan, NEW l \in Lapses, SaveLapsing(by, p, l)
  PROVE  /\ plan' \in Plan /\ lapse' \in Lapses
         /\ stands' \in [PlanItem -> ItemVersion \cup {Nobody}]
<1>1. plan' = p /\ lapse' \in Lapses
  BY DEF SaveLapsing, LapseIn, Lapses
<1>2. \A i \in PlanItem : /\ stands[i] \in ItemVersion \cup {Nobody}
                          /\ p.item[i].is \in ItemVersion \cup {Nobody}
  BY DEF PlanTypeOK, Plan, PlannedItem
<1>3. StandingIn(p) \in [PlanItem -> ItemVersion \cup {Nobody}]
  BY <1>2 DEF StandingIn
<1>4. [i \in PlanItem |-> IF p.item[i].status = "dropped" THEN Nobody ELSE stands[i]]
        \in [PlanItem -> ItemVersion \cup {Nobody}]
  BY <1>2
<1> QED BY <1>1, <1>3, <1>4 DEF SaveLapsing

\* What an operation makes of the plan: one item changes, to it.
LEMMA PutItemPuts ==
  ASSUME NEW p \in Plan, NEW i \in PlanItem, NEW it \in PlannedItem
  PROVE  /\ PutItem(p, i, it) \in Plan
         /\ \A j \in PlanItem : PutItem(p, i, it).item[j] = IF j = i THEN it ELSE p.item[j]
         /\ PutItem(p, i, it).open = p.open /\ PutItem(p, i, it).ledger = p.ledger
BY DEF PutItem, Plan

\* A question settled: items rest on less, and say the same.
LEMMA RestsSaysTheSame ==
  ASSUME NEW it \in PlannedItem, NEW q
  PROVE  /\ Rests(it, q) \in PlannedItem /\ Rests(it, q).status = it.status
         /\ Rests(it, q).rule = it.rule /\ Rests(it, q).agreedAs = it.agreedAs
         /\ it.status # "absent" => Rests(it, q).is.says = it.is.says
BY DEF Rests, PlannedItem, ItemVersion

\* Resolving a question touches the items that rest on it and no other field of
\* them (resolveQuestion).
LEMMA ResolveRests ==
  ASSUME NEW p \in Plan, NEW q \in Question
  PROVE  /\ Resolve(p, q) \in Plan
         /\ \A i \in PlanItem : Resolve(p, q).item[i] = Rests(p.item[i], q)
<1> DEFINE items == [i \in PlanItem |-> Rests(p.item[i], q)]
<1>1. Resolve(p, q) = [p EXCEPT !.open = @ \ {q}, !.resolved = @ \cup {q}, !.item = items]
  BY DEF Resolve
<1>2. \A i \in PlanItem : items[i] = Rests(p.item[i], q) /\ items[i] \in PlannedItem
  BY RestsSaysTheSame DEF Plan
<1>3. items \in [PlanItem -> PlannedItem]
  BY <1>2
<1> HIDE DEF items
<1> QED BY <1>1, <1>2, <1>3 DEF Plan

------------------------------------------------------------------------------
(* The operations.                                                          *)

PlanInv == PlanTypeOK /\ Enforcements

\* What each operation is to the invariants, when it is one on items.
Edit(by) ==
  /\ rules' = rules
  /\ \E p \in Plan : SaveAs(by, p) /\ \A i \in PlanItem : ClaimsNoRule(plan.item[i], p.item[i])

Heedful(by) ==
  \A i \in PlanItem : MayBecome(by, plan.item[i], plan'.item[i], stands[i])

\* A person who sets an item back to proposed by hand loses the agreed version
\* (applyOne, "update").
HandHyp == "proposed" \notin StatusEdits

\* What a change makes of an item (applyOne, "update").
LEMMA UpdatedIsItem ==
  ASSUME NEW by \in Actor, NEW it \in PlannedItem, Changeable(it), NEW v \in ItemVersion,
         NEW stood, NEW unheld
  PROVE  /\ Updated(by, it, v) \in PlannedItem
         /\ Updated(by, it, v).status # "promoted"
         /\ AgreementIn(it, stood, unheld) => MayBecome(by, it, Updated(by, it, v), stood)
         /\ \A s \in PlannedStatus \ {"absent"} :
              [Updated(by, it, v) EXCEPT !.status = s] \in PlannedItem
<1>1. CASE by = "agent" /\ it.status = "agreed"
  <2>1. Updated(by, it, v) = [it EXCEPT !.status = "proposed", !.is = v, !.agreedAs = it.is]
    BY <1>1 DEF Updated
  <2> QED BY <1>1, <2>1 DEF PlannedItem, PlannedStatus, MayBecome, AgreementIn
<1>2. CASE ~(by = "agent" /\ it.status = "agreed")
  <2>1. Updated(by, it, v) = [it EXCEPT !.is = v]
    BY <1>2 DEF Updated
  <2> QED BY <1>2, <2>1 DEF PlannedItem, PlannedStatus, MayBecome, AgreementIn, Changeable, Actor
<1> QED BY <1>1, <1>2

\* Putting one item into the plan.
LEMMA PutIsEdit ==
  ASSUME PlanInv, NEW by \in Actor, NEW i \in PlanItem, NEW it \in PlannedItem,
         SaveAs(by, PutItem(plan, i, it)), rules' = rules, it.status # "promoted"
  PROVE  /\ Edit(by)
         /\ MayBecome(by, plan.item[i], it, stands[i]) => Heedful(by)
<1> DEFINE p == PutItem(plan, i, it)
<1>1. /\ p \in Plan /\ plan' = p
      /\ \A j \in PlanItem : p.item[j] = IF j = i THEN it ELSE plan.item[j]
  BY PutItemPuts DEF PlanInv, PlanTypeOK, SaveAs, SaveLapsing
<1>2. SaveAs(by, p)
  OBVIOUS
<1> HIDE DEF p
<1> QED BY <1>1, <1>2 DEF Edit, Heedful, ClaimsNoRule, MayBecome

\* An item added (applyOne, "add").
LEMMA AddIsEdit ==
  ASSUME PlanInv, NEW by \in Actor, NEW i \in PlanItem, NEW v \in ItemVersion, AddItem(by, i, v)
  PROVE  Edit(by) /\ (Agreements => Heedful(by))
<1>1. PICK s \in {"proposed", "agreed"} :
        /\ s = "agreed" => by = "human"
        /\ SaveAs(by, PutItem(plan, i, [NoItemYet EXCEPT !.status = s, !.is = v]))
  BY DEF AddItem
<1> DEFINE it == [NoItemYet EXCEPT !.status = s, !.is = v]
<1>2. /\ it \in PlannedItem /\ it.status = s /\ it.agreedAs = Nobody
  BY DEF NoItemYet, PlannedItem, PlannedStatus
<1>3. Agreements => MayBecome(by, plan.item[i], it, stands[i])
  BY <1>1, <1>2 DEF Agreements, AgreementIn, MayBecome, AddItem
<1> HIDE DEF it
<1> QED BY <1>1, <1>2, <1>3, PutIsEdit DEF AddItem, it


\* An item changed (applyOne, "update").
LEMMA UpdateIsEdit ==
  ASSUME PlanInv, NEW by \in Actor, NEW i \in PlanItem, NEW v \in ItemVersion,
         UpdateItem(by, i, v)
  PROVE  Edit(by) /\ (Agreements /\ HandHyp => Heedful(by))
<1> DEFINE it == Updated(by, plan.item[i], v)
<1>1. /\ Changeable(plan.item[i]) /\ plan.item[i] \in PlannedItem
      /\ rules' = rules /\ (Agreements => AgreementIn(plan.item[i], stands[i], i \in lapse.unheld))
  BY DEF UpdateItem, PlanInv, PlanTypeOK, Plan, Agreements
<1>2. /\ it \in PlannedItem /\ it.status # "promoted"
      /\ Agreements => MayBecome(by, plan.item[i], it, stands[i])
      /\ \A s \in PlannedStatus \ {"absent"} : [it EXCEPT !.status = s] \in PlannedItem
  BY <1>1, UpdatedIsItem
<1> HIDE DEF it
<1>3. CASE SaveAs(by, PutItem(plan, i, it))
  BY <1>1, <1>2, <1>3, PutIsEdit
<1>4. CASE by = "human" /\ \E s \in StatusEdits :
             SaveAs(by, PutItem(plan, i, [it EXCEPT !.status = s]))
  <2>1. PICK s \in {"proposed", "agreed", "dropped"} :
          s \in StatusEdits /\ SaveAs(by, PutItem(plan, i, [it EXCEPT !.status = s]))
    BY <1>4, PlanAssumption
  <2>2. [it EXCEPT !.status = s] \in PlannedItem /\ [it EXCEPT !.status = s].status = s
    BY <1>2 DEF PlannedItem, PlannedStatus
  <2>3. HandHyp => MayBecome(by, plan.item[i], [it EXCEPT !.status = s], stands[i])
    BY <1>4, <2>1, <2>2 DEF HandHyp, MayBecome
  <2> QED BY <1>1, <2>1, <2>2, <2>3, PutIsEdit
<1> QED BY <1>3, <1>4 DEF UpdateItem, it

\* An item dropped, agreed to or rejected (applyOne).
LEMMA VerdictIsEdit ==
  ASSUME PlanInv, NEW by \in Actor, NEW i \in PlanItem,
         DropItem(by, i) \/ (by = "human" /\ (AgreeItem(i) \/ RejectItem(i)))
  PROVE  Edit(by) /\ Heedful(by)
<1> DEFINE it == plan.item[i]
<1>1. it \in PlannedItem
  BY DEF PlanInv, PlanTypeOK, Plan
<1>2. PICK x : /\ SaveAs(by, PutItem(plan, i, x)) /\ rules' = rules
               /\ \/ Changeable(it) /\ x = [it EXCEPT !.status = "dropped"]
                  \/ /\ by = "human" /\ Changeable(it)
                     /\ x = [it EXCEPT !.status = "agreed", !.agreedAs = Nobody]
                  \/ it.status = "proposed" /\ x = [it EXCEPT !.status = "dropped"]
                  \/ /\ by = "human" /\ it.status = "proposed" /\ it.agreedAs # Nobody
                     /\ x = [it EXCEPT !.status = "agreed", !.is = it.agreedAs, !.agreedAs = Nobody]
  BY DEF DropItem, AgreeItem, RejectItem
<1> HIDE DEF it
<1>3. /\ x \in PlannedItem /\ x.status # "promoted" /\ MayBecome(by, it, x, stands[i])
  BY <1>1, <1>2 DEF PlannedItem, PlannedStatus, Changeable, MayBecome
<1> QED BY <1>2, <1>3, PutIsEdit DEF it

\* What is done to the questions and the ledger alone.
LEMMA AsideIsEdit ==
  ASSUME PlanInv, NEW by \in Actor, NEW p \in Plan, p.item = plan.item, SaveAs(by, p),
         rules' = rules
  PROVE  Edit(by) /\ Heedful(by)
BY DEF Edit, Heedful, ClaimsNoRule, MayBecome, SaveAs, SaveLapsing

\* Evidence for a question, and a question reopened (plan_ops.ts).
LEMMA QuestionIsEdit ==
  ASSUME PlanInv, NEW by \in Actor, NEW q \in Question,
         RecordEvidence(by, q) \/ (by = "human" /\ ReopenQuestion(q))
  PROVE  Edit(by) /\ Heedful(by)
<1>1. PICK p : /\ SaveAs(by, p) /\ rules' = rules
               /\ \/ \E cs \in SUBSET Question : p = [plan EXCEPT !.confirmed = cs]
                  \/ p = [plan EXCEPT !.open = @ \cup {q}, !.resolved = @ \ {q}]
  <2>1. plan.confirmed \cup {q} \in SUBSET Question /\ plan.confirmed \ {q} \in SUBSET Question
    BY DEF PlanInv, PlanTypeOK, Plan
  <2> QED BY <2>1 DEF RecordEvidence, ReopenQuestion
<1>2. p \in Plan /\ p.item = plan.item
  <2>1. plan \in Plan
    BY DEF PlanInv, PlanTypeOK
  <2>2. CASE \E cs \in SUBSET Question : p = [plan EXCEPT !.confirmed = cs]
    BY <2>1, <2>2 DEF Plan
  <2>3. CASE p = [plan EXCEPT !.open = @ \cup {q}, !.resolved = @ \ {q}]
    <3>1. plan.open \cup {q} \in SUBSET Question /\ plan.resolved \ {q} \in SUBSET Question
      BY <2>1 DEF Plan
    <3> QED BY <2>1, <2>3, <3>1 DEF Plan
  <2> QED BY <1>1, <2>2, <2>3
<1> QED BY <1>1, <1>2, AsideIsEdit

\* A decision's effect, and the question it settles, on one plan.
Settles(p, p1) ==
  /\ p1 \in Plan
  /\ \A i \in PlanItem :
       /\ ClaimsNoRule(p.item[i], p1.item[i])
       /\ p1.item[i].status = p.item[i].status \/ p1.item[i].status = "dropped"
       /\ p1.item[i].agreedAs = p.item[i].agreedAs
       /\ p.item[i].status = "absent" => p1.item[i] = p.item[i]

\* A question settled (resolveQuestion).
LEMMA ResolveSettles ==
  ASSUME NEW p \in Plan, NEW q \in Question
  PROVE  Settles(p, Resolve(p, q))
<1>1. \A i \in PlanItem : p.item[i] \in PlannedItem
  BY DEF Plan
<1>2. \A i \in PlanItem : p.item[i].status = "absent" => Rests(p.item[i], q) = p.item[i]
  BY DEF Rests
<1> QED BY <1>1, <1>2, ResolveRests, RestsSaysTheSame DEF Settles, ClaimsNoRule

\* What a person's decision settles keeps every agreement.
LEMMA SettlesIsEdit ==
  ASSUME PlanInv, NEW p \in Plan, p.item = plan.item, NEW p1, Settles(p, p1),
         SaveAs("human", p1), rules' = rules
  PROVE  Edit("human") /\ (Agreements => Heedful("human"))
<1>1. ASSUME Agreements, NEW i \in PlanItem
      PROVE  MayBecome("human", plan.item[i], p1.item[i], stands[i])
  <2>1. p1.item[i] \in PlannedItem /\ AgreementIn(plan.item[i], stands[i], i \in lapse.unheld)
    BY <1>1 DEF Settles, Plan, Agreements
  <2> QED BY <2>1 DEF Settles, MayBecome, PlannedItem, PlannedStatus, AgreementIn
<1> QED BY <1>1 DEF Edit, Heedful, Settles, SaveAs, SaveLapsing

\* A question closed or dropped by a person (applyOne, "close-question").
LEMMA ResolveIsEdit ==
  ASSUME PlanInv, NEW q \in Question, NEW state, ResolveQuestion(q, state)
  PROVE  Edit("human") /\ (Agreements => Heedful("human"))
BY ResolveSettles, SettlesIsEdit DEF ResolveQuestion, PlanInv, PlanTypeOK

\* A decision agreed to (agree).
LEMMA AgreedSettles ==
  ASSUME NEW p \in Plan, NEW d \in Decision, d.effect.on # Nobody,
         Changeable(p.item[d.effect.on])
  PROVE  Settles(p, Agreed(p, d))
<1> DEFINE i == d.effect.on
           e == EffectOn(p, d.effect)
<1>1. i \in PlanItem /\ d.effect.to \in ItemVersion \cup {Nobody} /\ p.item[i] \in PlannedItem
  BY DEF Decision, Plan
<1>2. PICK x \in PlannedItem : /\ e = PutItem(p, i, x) /\ x.agreedAs = p.item[i].agreedAs
                               /\ x.status \in {p.item[i].status, "dropped"}
  <2>1. CASE d.effect.to = Nobody
    <3>1. [p.item[i] EXCEPT !.status = "dropped"] \in PlannedItem
      BY <1>1 DEF PlannedItem, PlannedStatus, Changeable
    <3> QED BY <1>1, <2>1, <3>1 DEF EffectOn, PlannedItem
  <2>2. CASE d.effect.to # Nobody
    <3>1. Updated("human", p.item[i], d.effect.to) = [p.item[i] EXCEPT !.is = d.effect.to]
      BY DEF Updated
    <3>2. [p.item[i] EXCEPT !.is = d.effect.to] \in PlannedItem
      BY <1>1, <2>2 DEF PlannedItem
    <3> QED BY <1>1, <2>2, <3>1, <3>2 DEF EffectOn, PlannedItem
  <2> QED BY <2>1, <2>2
<1>3. /\ e \in Plan /\ e.open = p.open
      /\ \A j \in PlanItem : e.item[j] = IF j = i THEN x ELSE p.item[j]
  BY <1>1, <1>2, PutItemPuts
<1> HIDE DEF e, i
<1>4. Settles(p, e)
  BY <1>2, <1>3 DEF Settles, ClaimsNoRule, Changeable, i
<1>5. CASE d.from \in p.open
  <2>1. d.from \in Question /\ Agreed(p, d) = Resolve(e, d.from)
    BY <1>3, <1>5 DEF Agreed, e, Plan
  <2>2. Settles(e, Resolve(e, d.from))
    BY <1>3, <2>1, ResolveSettles
  <2> QED BY <1>4, <2>1, <2>2 DEF Settles, ClaimsNoRule
<1>6. CASE d.from \notin p.open
  BY <1>4, <1>6 DEF Agreed, e
<1> QED BY <1>5, <1>6

\* A decision recorded, agreed to or rejected (applyDecisionOp).
LEMMA DecisionIsEdit ==
  ASSUME PlanInv, NEW by \in Actor,
         \/ \E from \in Question \cup {Nobody}, e \in Effect : Decide(by, from, e)
         \/ by = "human" /\ \E k \in DOMAIN plan.ledger : AgreeDecision(k) \/ RejectDecision(k)
  PROVE  Edit(by) /\ (Agreements => Heedful(by))
<1>0. plan \in Plan
  BY DEF PlanInv, PlanTypeOK
<1>1. PICK p \in Plan, d \in Decision :
        /\ p.item = plan.item /\ rules' = rules
        /\ \/ SaveAs(by, p)
           \/ by = "human" /\ MayAgree(plan, d) /\ SaveAs(by, Agreed(p, d))
  <2>1. CASE \E from \in Question \cup {Nobody}, e \in Effect : Decide(by, from, e)
    <3>1. PICK from \in Question \cup {Nobody}, e \in Effect : Decide(by, from, e)
      BY <2>1
    <3>2. PICK s \in {"proposed", "agreed", "rejected"} :
            LET d == [from |-> from, effect |-> e, status |-> s]
                p == [plan EXCEPT !.ledger = Append(@, Entry(from, e, s))]
            IN /\ s = "agreed" => by = "human"
               /\ IF s = "agreed" THEN MayAgree(plan, d) /\ SaveAs(by, Agreed(p, d))
                  ELSE SaveAs(by, p)
      BY <3>1 DEF Decide
    <3> DEFINE d == [from |-> from, effect |-> e, status |-> s]
               r == Entry(from, e, s)
               p == [plan EXCEPT !.ledger = Append(@, r)]
    <3>3. d \in Decision /\ d.effect = e /\ r \in Decision
      BY DEF Decision, Effect, Entry
    <3>4. p \in Plan /\ p.item = plan.item
      <4>1. plan.ledger \in Seq(Decision)
        BY <1>0 DEF Plan
      <4> HIDE DEF r
      <4>2. Append(plan.ledger, r) \in Seq(Decision)
        BY <4>1, <3>3
      <4>3. p = [plan EXCEPT !.ledger = Append(plan.ledger, r)]
        BY <1>0 DEF Plan
      <4> DEFINE l == Append(plan.ledger, r)
      <4> HIDE DEF l
      <4>4. [plan EXCEPT !.ledger = l] \in Plan /\ [plan EXCEPT !.ledger = l].item = plan.item
        BY <1>0, <4>2 DEF Plan, l
      <4> QED BY <4>3, <4>4 DEF l
    <3>5. Changeable(plan.item[e.on]) /\ rules' = rules
      BY <3>1 DEF Decide
    <3> QED BY <3>2, <3>3, <3>4, <3>5
  <2>2. CASE by = "human" /\ \E k \in DOMAIN plan.ledger : AgreeDecision(k) \/ RejectDecision(k)
    <3>1. PICK k \in DOMAIN plan.ledger : AgreeDecision(k) \/ RejectDecision(k)
      BY <2>2
    <3> DEFINE d == plan.ledger[k]
    <3>2. PICK s \in {"agreed", "rejected"} :
            LET p == [plan EXCEPT !.ledger[k] = Entry(d.from, d.effect, s)]
            IN /\ rules' = rules
               /\ SaveAs("human", p) \/ (MayAgree(plan, d) /\ SaveAs("human", Agreed(p, d)))
      BY <3>1 DEF AgreeDecision, RejectDecision, Settled
    <3> DEFINE r == Entry(d.from, d.effect, s)
               p == [plan EXCEPT !.ledger[k] = r]
    <3>3. d \in Decision
      BY <1>0 DEF Plan
    <3>4. p \in Plan /\ p.item = plan.item
      <4>1. r \in Decision
        BY <3>3 DEF Decision, Entry
      <4> HIDE DEF r
      <4>2. [plan.ledger EXCEPT ![k] = r] \in Seq(Decision)
        BY <1>0, <4>1 DEF Plan
      <4>3. p = [plan EXCEPT !.ledger = [plan.ledger EXCEPT ![k] = r]]
        BY <1>0 DEF Plan
      <4> QED BY <1>0, <4>2, <4>3 DEF Plan
    <3> QED BY <2>2, <3>2, <3>3, <3>4
  <2> QED BY <2>1, <2>2
<1>2. CASE SaveAs(by, p)
  BY <1>1, <1>2, AsideIsEdit
<1>3. CASE by = "human" /\ MayAgree(plan, d) /\ SaveAs(by, Agreed(p, d))
  BY <1>1, <1>3, AgreedSettles, SettlesIsEdit DEF MayAgree
<1> QED BY <1>1, <1>2, <1>3

------------------------------------------------------------------------------
(* Names.                                                                   *)

\* An item under another name (applyOne, "rename"): what an agent puts back to
\* proposed holds no agreed version, and is unheld.
LEMMA RenameKeeps ==
  ASSUME PlanInv, NEW by \in Actor, NEW i \in PlanItem, Rename(by, i)
  PROVE  PlanInv' /\ (Agreements => Agreements')
<1> DEFINE demoted == by = "agent" /\ plan.item[i].status = "agreed"
           it == [plan.item[i] EXCEPT !.status = IF demoted THEN "proposed" ELSE @]
           items == [plan.item EXCEPT ![i] = it]
           Unnamed(k) == IF plan.ledger[k].effect.on = i
                         THEN [plan.ledger[k] EXCEPT !.effect.on = Nobody] ELSE plan.ledger[k]
           ledger == [k \in DOMAIN plan.ledger |-> Unnamed(k)]
           p == [plan EXCEPT !.item = items, !.ledger = ledger]
           l == IF demoted THEN [lapse EXCEPT !.unheld = @ \cup {i}] ELSE lapse
<1>0. plan \in Plan /\ plan.item[i] \in PlannedItem /\ plan.ledger \in Seq(Decision)
      /\ lapse \in Lapses
  BY DEF PlanInv, PlanTypeOK, Plan, Lapses
<1>1. /\ it \in PlannedItem /\ it.status = IF demoted THEN "proposed" ELSE plan.item[i].status
      /\ ~demoted => it = plan.item[i]
  BY <1>0 DEF PlannedItem, PlannedStatus
<1>2. ledger \in Seq(Decision)
  <2>1. \A k \in 1..Len(plan.ledger) : plan.ledger[k] \in Decision
    BY <1>0
  <2>2. \A k \in 1..Len(plan.ledger) : Unnamed(k) \in Decision
    BY <2>1 DEF Decision
  <2>3. DOMAIN plan.ledger = 1..Len(plan.ledger) /\ Len(plan.ledger) \in Nat
    BY <1>0
  <2> QED BY <2>2, <2>3, IsASeq
<1>3. SaveLapsing(by, p, l) /\ rules' = rules
  BY <1>0 DEF Rename, Plan
<1> HIDE DEF ledger, it
<1>4. /\ p \in Plan
      /\ \A j \in PlanItem : p.item[j] = IF j = i THEN it ELSE plan.item[j]
  BY <1>0, <1>1, <1>2 DEF Plan
<1>5. /\ l \in Lapses /\ lapse.unheld \subseteq l.unheld
      /\ lapse.orphaned \subseteq l.orphaned /\ lapse.respelt \subseteq l.respelt
      /\ demoted => i \in l.unheld
  BY <1>0 DEF Lapses
<1> HIDE DEF p, l
<1>6. \A j \in PlanItem : ClaimsNoRule(plan.item[j], p.item[j])
  BY <1>1, <1>4 DEF ClaimsNoRule
<1>7. Enforcements'
  BY <1>3, <1>5, <1>6, SaveKeepsEnforcements DEF PlanInv
<1>8. \A j \in PlanItem : \/ MayBecome(by, plan.item[j], p.item[j], stands[j])
                          \/ j \in l.unheld /\ p.item[j].status = "proposed"
  BY <1>1, <1>4, <1>5 DEF MayBecome
<1>9. Agreements => Agreements'
  BY <1>3, <1>5, <1>8, SaveKeepsAgreements DEF PlanInv
<1> QED BY <1>3, <1>4, <1>5, <1>7, <1>9, SaveKeepsTypes DEF PlanInv, PlanTypeOK, Lapses

\* A function under another name (renameSymbolRefs): what stands is respelt with
\* what is agreed, and a promoted item is respelt without its constraint.
LEMMA RenameSymbolKeeps ==
  ASSUME PlanInv, NEW r \in Renamings, RenameSymbol(r)
  PROVE  PlanInv' /\ (Agreements => Agreements')
<1> DEFINE It(j) == [plan.item[j] EXCEPT !.is = Respelt(plan.item[j].is, r)]
           items == [j \in PlanItem |-> It(j)]
<1>0. plan \in Plan /\ (\A j \in PlanItem : plan.item[j] \in PlannedItem)
      /\ stands \in [PlanItem -> ItemVersion \cup {Nobody}] /\ lapse \in Lapses
      /\ r \in [Wording -> Wording]
  BY PlanAssumption DEF PlanInv, PlanTypeOK, Plan, Lapses
<1>1. \A v \in ItemVersion \cup {Nobody} : Respelt(v, r) \in ItemVersion \cup {Nobody}
  BY <1>0 DEF Respelt, ItemVersion
<1>2. \A v \in ItemVersion : v # Nobody => Respelt(v, r) \in ItemVersion
  BY <1>0 DEF Respelt, ItemVersion
<1>3. ASSUME NEW j \in PlanItem
      PROVE  /\ items[j] \in PlannedItem /\ items[j].status = plan.item[j].status
             /\ items[j].is = Respelt(plan.item[j].is, r)
             /\ items[j].agreedAs = plan.item[j].agreedAs /\ items[j].rule = plan.item[j].rule
  <2>1. plan.item[j] \in PlannedItem /\ items[j] = [plan.item[j] EXCEPT !.is = Respelt(plan.item[j].is, r)]
    BY <1>0
  <2>2. /\ Respelt(plan.item[j].is, r) \in ItemVersion \cup {Nobody}
        /\ plan.item[j].status # "absent" => Respelt(plan.item[j].is, r) \in ItemVersion
    BY <1>1, <1>2, <2>1 DEF PlannedItem, Respelt
  <2> DEFINE v == Respelt(plan.item[j].is, r)
  <2>3. items[j] = [plan.item[j] EXCEPT !.is = v]
    BY <2>1
  <2> HIDE DEF v, items
  <2> QED BY <2>1, <2>2, <2>3 DEF PlannedItem, v
<1>4. /\ plan' = [plan EXCEPT !.item = items] /\ rules' = rules
      /\ stands' = [j \in PlanItem |->
                      IF plan.item[j].status \in {"agreed", "promoted"} THEN Respelt(stands[j], r)
                      ELSE stands[j]]
      /\ lapse' = [lapse EXCEPT !.respelt = @ \cup
                     {j \in PlanItem : plan.item[j].status = "promoted"
                                        /\ plan'.item[j] # plan.item[j]}]
  BY DEF RenameSymbol
<1> HIDE DEF items
<1>5. items \in [PlanItem -> PlannedItem]
  <2>1. items = [j \in PlanItem |-> items[j]]
    BY DEF items
  <2> QED BY <1>3, <2>1
<1>6. plan' \in Plan /\ plan'.item = items
  BY <1>0, <1>4, <1>5 DEF Plan
<1>7. stands' \in [PlanItem -> ItemVersion \cup {Nobody}]
  BY <1>0, <1>1, <1>4
<1>8. /\ lapse' \in Lapses /\ lapse'.unheld = lapse.unheld /\ lapse'.orphaned = lapse.orphaned
      /\ \A j \in PlanItem : /\ j \in lapse.respelt => j \in lapse'.respelt
                             /\ plan.item[j].status = "promoted" /\ items[j] # plan.item[j]
                                => j \in lapse'.respelt
  BY <1>0, <1>4, <1>6 DEF Lapses
<1>9. ASSUME NEW j \in PlanItem
      PROVE  EnforcedIn(j, items[j], rules', lapse')
  <2>1. EnforcedIn(j, plan.item[j], rules, lapse)
    BY DEF PlanInv, Enforcements
  <2> QED BY <1>3, <1>4, <1>8, <2>1 DEF EnforcedIn
<1>10. Agreements => Agreements'
  BY <1>3, <1>4, <1>6, <1>8 DEF Agreements, AgreementIn
<1> QED BY <1>4, <1>6, <1>7, <1>8, <1>9, <1>10 DEF PlanInv, PlanTypeOK, Enforcements, Lapses

------------------------------------------------------------------------------
(* Rules, and the theorems.                                                 *)

\* The number given to a constraint (nextId).
LEMMA NextRuleIdIsNext ==
  ASSUME PlanInv
  PROVE  NextRuleId \in 1..(Rules + 1)
<1>1. Rules \in Nat /\ \A m \in Ids : m \in 1..Rules
  BY PlanAssumption DEF PlanInv, PlanTypeOK, Ids
<1>2. Rules + 1 \in 1..(Rules + 1) /\ Rules + 1 \notin Ids /\ \A m \in Ids : m < Rules + 1
  BY <1>1
<1> QED BY <1>2 DEF NextRuleId

\* A constraint stated, on its own or from a planned rule (addConstraint).
LEMMA AddedRules ==
  ASSUME PlanInv, NEW of \in PlanItem \cup {Nobody}, NEW says \in Wording \cup {Nobody},
         AddRule(of, says)
  PROVE  /\ rules \subseteq rules'
         /\ rules' \subseteq [id : 1..Rules, of : PlanItem \cup {Nobody}, says : Wording \cup {Nobody}]
         /\ [id |-> NextRuleId, of |-> of, says |-> says] \in rules'
         /\ NextRuleId \in 1..Rules
BY NextRuleIdIsNext, PlanAssumption DEF AddRule, PlanInv, PlanTypeOK

\* A planned rule promoted (promotePolicy): stated, and recorded or not.
LEMMA PromoteKeeps ==
  ASSUME PlanInv, NEW i \in PlanItem, Promote(i)
  PROVE  PlanInv' /\ (Agreements => Agreements')
<1> DEFINE it == plan.item[i]
           x == [it EXCEPT !.status = "promoted", !.rule = NextRuleId]
           r == [id |-> NextRuleId, of |-> i, says |-> it.is.says]
<1>1. it \in PlannedItem /\ it.is \in ItemVersion /\ it.is.says \in Wording /\ plan \in Plan
  BY DEF PlanInv, PlanTypeOK, Plan, PlannedItem, ItemVersion, Promote
<1>2. /\ rules \subseteq rules' /\ r \in rules' /\ NextRuleId \in 1..Rules
      /\ rules' \subseteq [id : 1..Rules, of : PlanItem \cup {Nobody}, says : Wording \cup {Nobody}]
  BY <1>1, AddedRules DEF Promote
<1>3. /\ x \in PlannedItem /\ x.status = "promoted" /\ x.rule = NextRuleId /\ x.is = it.is
  BY <1>1, <1>2 DEF PlannedItem, PlannedStatus
<1>4. r.id = NextRuleId /\ r.of = i /\ r.says = it.is.says
  OBVIOUS
<1>5. CASE SaveAs("human", PutItem(plan, i, x))
  <2> DEFINE p == PutItem(plan, i, x)
  <2>1. /\ p \in Plan /\ plan' = p
        /\ \A j \in PlanItem : p.item[j] = IF j = i THEN x ELSE plan.item[j]
    BY <1>1, <1>3, <1>5, PutItemPuts DEF SaveAs, SaveLapsing
  <2>2. SaveLapsing("human", p, lapse) /\ lapse \in Lapses
    BY <1>5 DEF SaveAs, PlanInv, PlanTypeOK, Lapses
  <2> HIDE DEF p, x, r
  <2>3. Enforcements'
    <3> SUFFICES ASSUME NEW j \in PlanItem PROVE EnforcedIn(j, p.item[j], rules', lapse')
      BY <2>1 DEF Enforcements
    <3>1. CASE j = i
      BY <1>2, <1>3, <1>4, <2>1, <3>1 DEF EnforcedIn
    <3>2. CASE j # i
      <4>1. p.item[j] = plan.item[j] /\ EnforcedIn(j, plan.item[j], rules, lapse)
        BY <2>1, <3>2 DEF PlanInv, Enforcements
      <4>2. plan.item[j].status = "promoted" =>
              (j \in lapse.orphaned => j \in lapse'.orphaned)
              /\ (j \in lapse.respelt => j \in lapse'.respelt)
        BY <2>2, <4>1 DEF SaveLapsing, LapseIn
      <4> QED BY <1>2, <4>1, <4>2 DEF EnforcedIn
    <3> QED BY <3>1, <3>2
  <2>4. \A j \in PlanItem : MayBecome("human", plan.item[j], p.item[j], stands[j])
    BY <1>3, <2>1 DEF MayBecome
  <2>5. Agreements => Agreements'
    BY <2>2, <2>4, SaveKeepsAgreements DEF PlanInv, Actor
  <2> QED BY <1>2, <2>1, <2>2, <2>3, <2>5, SaveKeepsTypes DEF PlanInv, PlanTypeOK, Lapses
<1>6. CASE UNCHANGED <<plan, stands, lapse>>
  BY <1>2, <1>6 DEF PlanInv, PlanTypeOK, Enforcements, EnforcedIn, Agreements
<1> QED BY <1>5, <1>6 DEF Promote

\* A constraint stated by itself.
LEMMA StateRuleKeeps ==
  ASSUME PlanInv, StateRule
  PROVE  PlanInv' /\ (Agreements => Agreements')
BY AddedRules DEF StateRule, PlanInv, PlanTypeOK, Enforcements, EnforcedIn, Agreements

\* What the demotion of the orphans makes of the plan
\* (demoteOrphanedPromotions): what stands stands, and who still reads promoted
\* names a rule that is left.
LEMMA DemotedKeeps ==
  ASSUME PlanInv, NEW ids, plan' = Demoted(ids), lapse' = LapseIn(plan', lapse),
         UNCHANGED stands, rules' \subseteq rules, \A r \in rules : r.id \in ids => r \in rules'
  PROVE  PlanInv' /\ (Agreements => Agreements')
<1> DEFINE Back(i) == IF i \in Orphans(ids)
                      THEN [plan.item[i] EXCEPT !.status = "agreed", !.rule = Nobody]
                      ELSE plan.item[i]
           items == [i \in PlanItem |-> Back(i)]
<1>2. plan \in Plan /\ (\A i \in PlanItem : plan.item[i] \in PlannedItem) /\ lapse \in Lapses
  BY DEF PlanInv, PlanTypeOK, Plan, Lapses
<1>1. plan' = [plan EXCEPT !.item = items]
  BY <1>2 DEF Demoted, Plan
<1>3. ASSUME NEW i \in PlanItem
      PROVE  /\ items[i] \in PlannedItem
             /\ \/ items[i] = plan.item[i]
                   /\ (items[i].status = "promoted" => items[i].rule \in ids)
                \/ /\ items[i].status = "agreed" /\ plan.item[i].status = "promoted"
                   /\ items[i].is = plan.item[i].is
  BY <1>2 DEF PlannedItem, PlannedStatus, Orphans
<1>4. items \in [PlanItem -> PlannedItem]
  BY <1>3
<1> HIDE DEF items
<1>5. plan' \in Plan /\ plan'.item = items
  BY <1>1, <1>2, <1>4 DEF Plan
<1>6. /\ lapse' \in Lapses
      /\ \A i \in PlanItem : items[i].status = "promoted" =>
           (i \in lapse.orphaned => i \in lapse'.orphaned)
           /\ (i \in lapse.respelt => i \in lapse'.respelt)
      /\ \A i \in PlanItem : i \in lapse.unheld /\ items[i].status = "proposed"
                              => i \in lapse'.unheld
  BY <1>2, <1>5 DEF LapseIn, Lapses
<1>7. ASSUME NEW i \in PlanItem PROVE EnforcedIn(i, items[i], rules', lapse')
  <2>1. EnforcedIn(i, plan.item[i], rules, lapse)
    BY DEF PlanInv, Enforcements
  <2> QED BY <1>3, <1>6, <2>1 DEF EnforcedIn
<1>8. Agreements => Agreements'
  BY <1>3, <1>5, <1>6 DEF Agreements, AgreementIn
<1> QED BY <1>5, <1>6, <1>7, <1>8 DEF PlanInv, PlanTypeOK, Enforcements, Lapses

\* A constraint removed, and the plan demoted after it or not
\* (removeConstraint, demoteOrphanedPromotions).
LEMMA RemoveRuleKeeps ==
  ASSUME PlanInv, NEW r \in rules, RemoveRule(r)
  PROVE  PlanInv' /\ (Agreements => Agreements')
<1> DEFINE ids == Ids \ {r.id}
<1>1. rules' = rules \ {r} /\ \A s \in rules : s.id \in ids => s \in rules'
  BY DEF RemoveRule
<1>2. CASE plan' = Demoted(ids) /\ lapse' = LapseIn(plan', lapse)
  BY <1>1, <1>2, DemotedKeeps DEF RemoveRule
<1>3. CASE UNCHANGED plan /\ lapse' = [lapse EXCEPT !.orphaned = @ \cup Orphans(ids)]
  <2>1. /\ lapse' \in Lapses /\ lapse'.unheld = lapse.unheld /\ lapse'.respelt = lapse.respelt
        /\ lapse'.orphaned = lapse.orphaned \cup Orphans(ids)
    BY <1>3 DEF PlanInv, PlanTypeOK, Lapses, Orphans
  <2>2. ASSUME NEW i \in PlanItem, i \notin lapse'.orphaned, plan.item[i].status = "promoted"
        PROVE  \E s \in rules' : /\ s.id = plan.item[i].rule /\ s.of = i
                                 /\ i \in lapse'.respelt \/ s.says = plan.item[i].is.says
    <3>1. plan.item[i].rule \in ids /\ i \notin lapse.orphaned
      BY <2>1, <2>2 DEF Orphans
    <3>2. PICK s \in rules : /\ s.id = plan.item[i].rule /\ s.of = i
                             /\ i \in lapse.respelt \/ s.says = plan.item[i].is.says
      BY <2>2, <3>1 DEF PlanInv, Enforcements, EnforcedIn
    <3> QED BY <1>1, <2>1, <3>1, <3>2
  <2>3. Enforcements'
    BY <1>3, <2>2 DEF Enforcements, EnforcedIn
  <2>4. Agreements => Agreements'
    BY <1>3, <2>1 DEF Agreements, RemoveRule
  <2> QED BY <1>1, <1>3, <2>1, <2>3, <2>4 DEF PlanInv, PlanTypeOK, Lapses, RemoveRule
<1> QED BY <1>2, <1>3 DEF RemoveRule

\* The plan read (stateOf).
LEMMA ReadPlanKeeps ==
  ASSUME PlanInv, ReadPlan
  PROVE  PlanInv' /\ (Agreements => Agreements')
BY DemotedKeeps DEF ReadPlan

\* Every step keeps what the two theorems state.
LEMMA PlanStep ==
  ASSUME PlanInv, [PlanNext]_planVars
  PROVE  PlanInv' /\ (Agreements /\ HandHyp => Agreements')
<1>1. CASE \E by \in Actor : Edit(by) /\ (Agreements /\ HandHyp => Heedful(by))
  <2>1. PICK by \in Actor : Edit(by) /\ (Agreements /\ HandHyp => Heedful(by))
    BY <1>1
  <2>2. PICK p \in Plan : /\ SaveLapsing(by, p, lapse)
                          /\ \A i \in PlanItem : ClaimsNoRule(plan.item[i], p.item[i])
    BY <2>1 DEF Edit, SaveAs
  <2>3. plan' = p /\ rules' = rules /\ lapse \in Lapses
    BY <2>1, <2>2 DEF Edit, SaveLapsing, PlanInv, PlanTypeOK, Lapses
  <2>4. Enforcements'
    BY <2>2, <2>3, SaveKeepsEnforcements DEF PlanInv
  <2>5. Agreements /\ HandHyp => Agreements'
    BY <2>1, <2>2, <2>3, SaveKeepsAgreements DEF PlanInv, Heedful
  <2> QED BY <2>2, <2>3, <2>4, <2>5, SaveKeepsTypes DEF PlanInv, PlanTypeOK, Lapses
<1>2. CASE UNCHANGED planVars
  BY <1>2 DEF planVars, PlanInv, PlanTypeOK, Enforcements, Agreements
<1>3. CASE \/ (\E i \in PlanItem : Promote(i)) \/ StateRule \/ ReadPlan
           \/ \E r \in rules : RemoveRule(r)
  BY <1>3, PromoteKeeps, StateRuleKeeps, RemoveRuleKeeps, ReadPlanKeeps
<1>9. CASE \/ \E by \in Actor, i \in PlanItem : Rename(by, i)
           \/ \E r \in Renamings : RenameSymbol(r)
  BY <1>9, RenameKeeps, RenameSymbolKeeps
<1>4. "human" \in Actor
  BY DEF Actor
<1>5. CASE \E by \in Actor, i \in PlanItem :
             (\E v \in ItemVersion : AddItem(by, i, v) \/ UpdateItem(by, i, v)) \/ DropItem(by, i)
  BY <1>1, <1>5, AddIsEdit, UpdateIsEdit, VerdictIsEdit
<1>6. CASE \E i \in PlanItem : AgreeItem(i) \/ RejectItem(i)
  BY <1>1, <1>4, <1>6, VerdictIsEdit
<1>7. CASE \/ \E by \in Actor, q \in Question : RecordEvidence(by, q)
           \/ \E q \in Question : \/ ReopenQuestion(q)
                                  \/ \E state \in {"closed", "dropped"} : ResolveQuestion(q, state)
  BY <1>1, <1>4, <1>7, QuestionIsEdit, ResolveIsEdit
<1>8. CASE \/ \E by \in Actor, from \in Question \cup {Nobody}, e \in Effect : Decide(by, from, e)
           \/ \E k \in DOMAIN plan.ledger : AgreeDecision(k) \/ RejectDecision(k)
  BY <1>1, <1>4, <1>8, DecisionIsEdit
<1> QED BY <1>2, <1>3, <1>5, <1>6, <1>7, <1>8, <1>9 DEF PlanNext

\* The plan as it starts.
LEMMA InitPlan == PlanInit => PlanInv /\ Agreements
<1> SUFFICES ASSUME PlanInit PROVE PlanInv /\ Agreements
  OBVIOUS
<1>1. NoItemYet \in PlannedItem /\ NoItemYet.status = "absent"
  BY DEF NoItemYet, PlannedItem, PlannedStatus
<1>2. plan \in Plan /\ \A i \in PlanItem : plan.item[i] = NoItemYet
  BY <1>1 DEF PlanInit, Plan
<1> QED BY <1>1, <1>2
        DEF PlanInit, PlanInv, PlanTypeOK, Enforcements, EnforcedIn, Agreements, AgreementIn

\* A planned rule that reads promoted is a constraint that says the same, in
\* whatever order rules are stated, promoted and removed and their ids given
\* out again (promotePolicy, demoteOrphanedPromotions), but for what the plan
\* could not be saved of and for functions renamed in the plan since.
THEOREM PromotedIsAlwaysEnforced == PlanSpec => []PromotedIsEnforced
<1>1. PlanInv /\ [PlanNext]_planVars => PlanInv'
  BY PlanStep
<1>2. PlanInv => PromotedIsEnforced
  BY DEF PlanInv, Enforcements, EnforcedIn, PromotedIsEnforced
<1> QED BY <1>1, <1>2, InitPlan, PTL DEF PlanSpec

\* What reads agreed is what a person last agreed to, the functions in it
\* renamed since, and a proposal that was not renamed holds the version a
\* rejection gives back, as long as nobody sets "proposed" by hand (applyOne,
\* applyDecisionOp, resolveQuestion, renameSymbolRefs).
THEOREM AgreementAlwaysHolds == ASSUME HandHyp PROVE PlanSpec => []AgreementHolds
<1>1. (PlanInv /\ Agreements) /\ [PlanNext]_planVars => (PlanInv /\ Agreements)'
  BY PlanStep
<1>2. Agreements => AgreementHolds
  BY DEF Agreements, AgreementIn, AgreementHolds
<1> QED BY <1>1, <1>2, InitPlan, PTL DEF PlanSpec
=============================================================================
