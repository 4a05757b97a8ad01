----------------------------- MODULE ThreadRun -----------------------------
(***************************************************************************)
(* Runs of a thread (server.ts "M-RUN", src/server/run/effect_consent.ts): *)
(* "run to this node" and "trace this thread" execute the project's code.  *)
(* Before they do, the effects on the path are scanned in the live map,    *)
(* and what is found is run only with a person's consent to exactly that;  *)
(* a session may be told not to ask about calls whose effects cannot be    *)
(* proved.  A scan takes a while, and it reads the map; what is executed   *)
(* is on disk.                                                             *)
(*                                                                         *)
(* The path of either panel is the whole code; a token is what it is       *)
(* computed from.                                                          *)
(***************************************************************************)
EXTENDS Naturals, FiniteSets

CONSTANTS
  CodeText,       \* what the code may be
  Offense,        \* what a scan may find on a path
  Proven,         \* those that are effects, not merely calls that cannot be proved pure
  OffensesOf,     \* OffensesOf[t]: those of code t
  TakesInputs,    \* TRUE: the function to run takes arguments
  Missing,        \* no token, no code
  CodeEdits,      \* bound: how often the code is edited
  ScanFailures,   \* bound: how many scans fail
  TRestarts,      \* bound: how often the server restarts
  Still           \* TRUE: nobody edits under a run, nor runs what is not parsed yet

Panel == {"run", "trace"}

\* A token: an HMAC, as what it is computed from.
Token == [boot : Nat, kind : {"effects", "trust"}, node : Panel, offenses : SUBSET Offense]

ASSUME ThreadRunAssumption ==
  /\ Proven \subseteq Offense /\ OffensesOf \in [CodeText -> SUBSET Offense]
  /\ {CodeEdits, ScanFailures, TRestarts} \subseteq Nat
  /\ {TakesInputs, Still} \subseteq BOOLEAN
  /\ Missing \notin CodeText /\ Missing \notin Token

VARIABLES
  code,        \* the code on disk and in projectParse; edits made
  process,     \* the server: boot, which its secret is of, and _unverifiedTrust
  panel,       \* the tooltip and the trace button of one client
  job,         \* the runs in progress, by panel
  said,        \* history: a person said not to ask about unprovable calls
  unscanned    \* scans that failed

runsVars == <<code, process, panel, job, said, unscanned>>

\* stage, what the gate lists and its tokens, the consent the tooltip holds,
\* and (history) the offenses the person agreed to since the run was started.
AtRest == [stage |-> "idle", effects |-> {}, token |-> Missing, trust |-> Missing,
           held |-> Missing, agreed |-> {}]
NoJob == [stage |-> "none", finds |-> {}, scanned |-> FALSE, consent |-> Missing,
          trust |-> Missing, inputs |-> FALSE, executes |-> Missing]

RunsInit ==
  /\ code \in [disk : CodeText, known : CodeText, edits : {0}]
  /\ code.known = code.disk
  /\ process = [boot |-> 0, trust |-> FALSE]
  /\ panel = [k \in Panel |-> AtRest]
  /\ job = [k \in Panel |-> NoJob]
  /\ said = FALSE /\ unscanned = 0

-----------------------------------------------------------------------------
\* mintEffectConsent, mintUnverifiedTrust: an HMAC under the secret of this
\* process, of the node and the offenses in canonical order.
Minted(kind, k, offenses) ==
  [boot |-> process.boot, kind |-> kind, node |-> k, offenses |-> offenses]

\* mutant: the token is of the node alone
VerifiedForNode(k, offenses, token) ==
  token # Missing /\ token.boot = process.boot /\ token.node = k

VerifyEffectConsent(k, offenses, token) == token = Minted("effects", k, offenses)

GatedOffenses(offenses, trust) == IF trust THEN offenses \cap Proven ELSE offenses

\* grantUnverifiedTrust, against what the fresh scan still gates.
Grants(k, offenses, token) ==
  offenses # {} /\ token = Minted("trust", k, GatedOffenses(offenses, process.trust))

-----------------------------------------------------------------------------
\* The scan is given the map as it is when the request arrives.
Scan(k, consent, trust, inputs) ==
  /\ Still => code.known = code.disk
  /\ job' = [job EXCEPT ![k] =
       [NoJob EXCEPT !.stage = "scan", !.finds = OffensesOf[code.known],
                     !.consent = consent, !.trust = trust, !.inputs = inputs]]

\* startRun, startTrace: the button, disabled while a run is in progress.
StartRun(k) ==
  /\ panel[k].stage # "busy"
  /\ Scan(k, Missing, Missing, FALSE)
  /\ panel' = [panel EXCEPT ![k] = [AtRest EXCEPT !.stage = "busy"]]
  /\ UNCHANGED <<code, process, said, unscanned>>

\* confirmEffectConsent: the tooltip keeps the token for the run that follows
\* the inputs; the trace has no second step.
ConfirmEffects(k) ==
  /\ panel[k].stage = "gate"
  /\ Scan(k, panel[k].token, Missing, FALSE)
  /\ panel' = [panel EXCEPT ![k] = [AtRest EXCEPT !.stage = "busy",
                 !.held = IF k = "run" THEN panel[k].token ELSE Missing,
                 !.agreed = panel[k].agreed \cup panel[k].effects]]
  /\ UNCHANGED <<code, process, said, unscanned>>

\* confirmTrustUnverified: offered at the tooltip's gate only.
ConfirmTrust(k) ==
  /\ panel[k].stage = "gate" /\ panel[k].trust # Missing
  /\ Scan(k, Missing, panel[k].trust, FALSE)
  /\ panel' = [panel EXCEPT ![k] = [AtRest EXCEPT !.stage = "busy",
                 !.held = panel[k].held, !.agreed = panel[k].agreed]]
  /\ said' = TRUE
  /\ UNCHANGED <<code, process, unscanned>>

\* confirmSynthRun: the person runs with the inputs proposed.
ConfirmInputs(k) ==
  /\ panel[k].stage = "inputs"
  /\ Scan(k, panel[k].held, Missing, TRUE)
  /\ panel' = [panel EXCEPT ![k].stage = "busy"]
  /\ UNCHANGED <<code, process, said, unscanned>>

\* The end of a scan, in runThreadToNodeCore, handleSynthThreadArgs or
\* runTraceEntryPoint; one that failed has found nothing.  What is still gated
\* and not consented to is refused, with a gate that lists it.
ScanEnds(k, ok) ==
  /\ job[k].stage = "scan"
  /\ ok \/ unscanned < ScanFailures
  /\ unscanned' = IF ok THEN unscanned ELSE unscanned + 1
  /\ LET found == IF ok THEN job[k].finds ELSE {}
         trust == process.trust \/ Grants(k, found, job[k].trust)
         gated == GatedOffenses(found, trust)
         refused == gated # {} /\ ~VerifyEffectConsent(k, gated, job[k].consent)
         proposes == ~refused /\ k = "run" /\ TakesInputs /\ ~job[k].inputs
     IN /\ process' = [process EXCEPT !.trust = trust]
        /\ job' = [job EXCEPT ![k] = IF refused \/ proposes THEN NoJob
                                     ELSE [@ EXCEPT !.stage = "ready", !.scanned = ok]]
        /\ panel' = [panel EXCEPT ![k] =
             CASE refused -> [@ EXCEPT !.stage = "gate", !.effects = gated,
                    !.token = Minted("effects", k, gated),
                    !.trust = IF k = "run" /\ gated \ Proven # {}
                              THEN Minted("trust", k, gated) ELSE Missing]
               [] proposes -> [@ EXCEPT !.stage = "inputs"]
               [] OTHER -> @]
  /\ UNCHANGED <<code, said>>

\* The probe is put into a copy of the file as it is on disk, and the copy, or
\* the traced module itself, is executed in the project.
Executes(k) ==
  /\ job[k].stage = "ready"
  /\ job' = [job EXCEPT ![k].stage = "exec", ![k].executes = code.disk]
  /\ UNCHANGED <<code, process, panel, said, unscanned>>

\* The result comes back; arguments that do not validate and a probe that
\* cannot be placed end the run before it executes anything.
RunEnds(k) ==
  /\ job[k].stage \in {"ready", "exec"}
  /\ job' = [job EXCEPT ![k] = NoJob]
  /\ panel' = [panel EXCEPT ![k] = AtRest]
  /\ UNCHANGED <<code, process, said, unscanned>>

-----------------------------------------------------------------------------
EditCode(t) ==
  /\ code.edits < CodeEdits /\ t # code.disk
  /\ Still => \A k \in Panel : job[k].stage = "none"
  /\ code' = [code EXCEPT !.disk = t, !.edits = @ + 1]
  /\ UNCHANGED <<process, panel, job, said, unscanned>>

\* The live map takes the edit in.
ParseCode ==
  /\ code.known # code.disk /\ code' = [code EXCEPT !.known = code.disk]
  /\ UNCHANGED <<process, panel, job, said, unscanned>>

\* The secret and the trust are of the process; runs in progress are lost, and
\* a tooltip that waited for one is opened anew.
TRestart ==
  /\ process.boot < TRestarts
  /\ process' = [boot |-> process.boot + 1, trust |-> FALSE]
  /\ said' = FALSE
  /\ job' = [k \in Panel |-> NoJob]
  /\ panel' = [k \in Panel |-> IF panel[k].stage = "busy" THEN AtRest ELSE panel[k]]
  /\ UNCHANGED <<code, unscanned>>

RunsNext ==
  \/ \E k \in Panel :
       \/ StartRun(k) \/ ConfirmEffects(k) \/ ConfirmTrust(k) \/ ConfirmInputs(k)
       \/ \E ok \in BOOLEAN : ScanEnds(k, ok)
       \/ Executes(k) \/ RunEnds(k)
  \/ ParseCode \/ TRestart
  \/ \E t \in CodeText : EditCode(t)

RunsSpec == RunsInit /\ [][RunsNext]_runsVars

-----------------------------------------------------------------------------
MaybeToken == Token \cup {Missing}

PanelState ==
  [stage : {"idle", "busy", "gate", "inputs"}, effects : SUBSET Offense, token : MaybeToken,
   trust : MaybeToken, held : MaybeToken, agreed : SUBSET Offense]

JobState ==
  [stage : {"none", "scan", "ready", "exec"}, finds : SUBSET Offense, scanned : BOOLEAN,
   consent : MaybeToken, trust : MaybeToken, inputs : BOOLEAN, executes : CodeText \cup {Missing}]

\* The types of the code, the panels and the runs.
RunsTypeOK ==
  /\ code \in [disk : CodeText, known : CodeText, edits : Nat]
  /\ process \in [boot : Nat, trust : BOOLEAN]
  /\ panel \in [Panel -> PanelState]
  /\ job \in [Panel -> JobState]
  /\ unscanned \in Nat

\* Whatever is executed, a person agreed to each of its effects since the run
\* was started, or said in this session not to be asked about calls that
\* cannot be proved; proven effects are always asked about ("it
\* self-invalidates: if the code changed between propose and confirm ... the
\* user must re-consent", effect_consent.ts 6-14, 62-75).
RunsAreConsented ==
  /\ process.trust => said
  /\ \A k \in Panel : job[k].stage = "exec" =>
       OffensesOf[job[k].executes] \ (IF process.trust THEN Offense \ Proven ELSE {})
         \subseteq panel[k].agreed

\* Nothing is executed that could not be scanned: "A scan failure stays
\* fail-safe (refuse, empty list)".
ScannedFirst == \A k \in Panel : job[k].stage \in {"ready", "exec"} => job[k].scanned
=============================================================================
