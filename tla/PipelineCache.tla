--------------------------- MODULE PipelineCache ---------------------------
(***************************************************************************)
(* The server's pipeline cache (pipeline_cache.ts) through the full passes *)
(* of server.ts that use it: which parses and which threads a pass keeps,  *)
(* and what a restart finds on disk.  A cold pass, which keeps nothing, is *)
(* the specification of a warm one.                                        *)
(*                                                                         *)
(* What a pass asks of its subprocesses may fail, and so may the save,     *)
(* which writes three files one after the other.  Passes here do not       *)
(* overlap, and a file is parsed as it was hashed.                         *)
(* Hashes are the values they are computed from.                           *)
(***************************************************************************)
EXTENDS Naturals, Functions

CONSTANTS
  CFile,       \* the source files; each seeds one thread
  Text,        \* what a file may hold
  StartTexts,  \* the texts the server may first find
  Calls,       \* Calls[f][t]: the files a file f that holds t calls
  Methods,     \* Methods[t]: the module path and methods of a file that holds t
  Context,     \* what the parse-context files may hold
  NoText,      \* the content of a file that is not there
  Changes,     \* bound: how many changes are made on disk
  CRestarts,   \* bound: how often the server restarts
  Failures,    \* bound: how many extractions fail
  Troubles     \* bound: how many parses, links, discoveries or saves fail

ASSUME CacheAssumption ==
  /\ NoText \notin Text /\ StartTexts \subseteq [CFile -> Text]
  /\ Calls \in [CFile -> [Text -> SUBSET CFile]] /\ DOMAIN Methods = Text
  /\ {Changes, CRestarts, Failures, Troubles} \subseteq Nat

VARIABLES
  source,      \* the project: texts and ctx
  cache,       \* the PipelineCache in memory
  saved,       \* its files under ~/.cache
  warm,        \* the full pass: its step, and what beginParse decided
  pmap,        \* projectParse: the linked files
  shown,       \* latestThreads and whether passFailures names a failure
  spent,       \* what was used of the bounds
  faults       \* history: what went wrong and was not told

cacheVars == <<source, cache, saved, warm, pmap, shown, spent, faults>>

Present == {f \in CFile : source.texts[f] # NoText}
Empty == [f \in {} |-> 0]
NoCache == [meta |-> <<>>, parsed |-> Empty, threads |-> Empty]
NoPass == [at |-> "idle", reuse |-> Empty, key |-> <<>>, sources |-> Empty]

\* The first start: no cache, and the boot pass to run.
CacheInit ==
  /\ source \in [texts : StartTexts, ctx : Context]
  /\ cache = NoCache /\ saved = NoCache
  /\ warm = [NoPass EXCEPT !.at = "due"]
  /\ pmap = Empty
  /\ shown = [threads |-> Empty, failed |-> FALSE]
  /\ spent = [changes |-> 0, restarts |-> 0, failures |-> 0, troubles |-> 0]
  /\ faults = [whole |-> TRUE, misfiled |-> FALSE, torn |-> FALSE, mixed |-> FALSE]

-----------------------------------------------------------------------------
\* The parser (external): a file's IR follows from its text, the context and
\* which paths exist.
Parse(f) == [text |-> source.texts[f], ctx |-> source.ctx, paths |-> Present]

\* The linker (external) adds edges to the files a file calls and that exist;
\* a file whose linker failed goes through as it was parsed (runCrossFileLink).
Link(irs, unlinked) ==
  [f \in DOMAIN irs |->
     [ir |-> irs[f],
      edges |-> IF f \in unlinked THEN {} ELSE Calls[f][irs[f].text] \cap DOMAIN irs]]

\* The extractor (external): a thread walks its seed and the files it calls,
\* and reads the methods of every file.
Reached(map, f) == {f} \cup map[f].edges
Extract(map, f) ==
  [walked |-> Restrict(map, Reached(map, f)),
   methods |-> [g \in DOMAIN map |-> Methods[map[g].ir.text]]]

ExtractAll(map, seeds) == [f \in seeds |-> Extract(map, f)]

\* What a pass that keeps nothing computes of the disk as it is.
ColdMap == Link([f \in Present |-> Parse(f)], {})
ColdThreads == ExtractAll(ColdMap, Present)

-----------------------------------------------------------------------------
\* The key: the path set and the context (the tool does not change in a run).
Key == [paths |-> Present, ctx |-> source.ctx]

HasMeta(c) == c.meta # <<>>

\* beginParse: a parse is kept when the key of the last save is today's and
\* the file hashes as it did.
Reuse ==
  IF HasMeta(cache) /\ cache.meta.key = Key
  THEN {f \in Present \cap DOMAIN cache.parsed : cache.parsed[f].hash = source.texts[f]}
  ELSE {}

PassBegins ==
  /\ warm.at = "due"
  /\ warm' = [at |-> "parse", reuse |-> Restrict([f \in DOMAIN cache.parsed |-> cache.parsed[f].ir], Reuse),
              key |-> Key, sources |-> Restrict(source.texts, Present)]
  /\ faults' = [faults EXCEPT !.whole = TRUE]
  /\ UNCHANGED <<source, cache, saved, pmap, shown, spent>>

Count(one, two) == (IF one THEN 1 ELSE 0) + (IF two THEN 1 ELSE 0)

\* storeParsed: the fresh parses, and the old ones whose hash is today's.
Matching == {f \in DOMAIN warm.sources \cap DOMAIN cache.parsed :
               cache.parsed[f].hash = warm.sources[f]}

StoreParsed(fresh) ==
  [f \in fresh \cup Matching |->
     IF f \in fresh THEN [hash |-> warm.sources[f], ir |-> Parse(f)] ELSE cache.parsed[f]]

\* The batch parse of the rest, of which some files come out without an IR,
\* storeParsed, and the link into projectParse.  When nothing at all is there
\* to link the files are parsed one by one: `again' succeed, and are not stored.
PassParses(lost, again, unlinked) ==
  /\ warm.at = "parse"
  /\ lost \subseteq DOMAIN warm.sources \ DOMAIN warm.reuse
  /\ again \subseteq lost /\ (again # {} => lost = DOMAIN warm.sources)
  /\ unlinked \subseteq DOMAIN warm.sources \ (lost \ again)
  /\ LET troubles == Count(lost # {}, unlinked # {})
     IN /\ spent.troubles + troubles <= Troubles
        /\ spent' = [spent EXCEPT !.troubles = @ + troubles]
  /\ LET there == DOMAIN warm.sources \ (lost \ again)
         irs == [f \in there |-> IF f \in DOMAIN warm.reuse THEN warm.reuse[f] ELSE Parse(f)]
     IN /\ cache' = [cache EXCEPT !.parsed =
                       StoreParsed((DOMAIN warm.sources \ DOMAIN warm.reuse) \ lost)]
        /\ pmap' = Link(irs, unlinked)
  /\ faults' = [faults EXCEPT !.whole = lost \ again = {} /\ unlinked = {},
                              !.misfiled = @ \/ lost \cap Matching # {}]
  /\ warm' = [warm EXCEPT !.at = "extract"]
  /\ UNCHANGED <<source, saved, shown>>

\* Files whose linked IR is not what it was at the last save.
Changed(before) ==
  {f \in DOMAIN pmap \cup DOMAIN before :
     ~(f \in DOMAIN pmap \cap DOMAIN before /\ pmap[f] = before[f])}

MethodsMoved(before) ==
  \E f \in Changed(before) :
    ~(f \in DOMAIN pmap \cap DOMAIN before
        /\ Methods[pmap[f].ir.text] = Methods[before[f].ir.text])

\* mutant: a thread is kept when its seed's file did not change
KeptBySeed(c) ==
  IF ~HasMeta(c) \/ MethodsMoved(c.meta.linked) THEN {}
  ELSE (DOMAIN c.threads \cap DOMAIN pmap) \ Changed(c.meta.linked)

\* selectThreads: a thread is kept when neither its seed nor a file it walked
\* changed, and no file's methods moved.
Kept(c) ==
  IF ~HasMeta(c) \/ MethodsMoved(c.meta.linked) THEN {}
  ELSE {f \in DOMAIN c.threads \cap DOMAIN pmap :
          DOMAIN c.threads[f].walked \cap Changed(c.meta.linked) = {}}

\* mergeThreads: the kept and the fresh threads, in the seeds' order.
MergeThreads(c, seeds, fresh) ==
  [f \in (Kept(c) \cap seeds) \cup DOMAIN fresh |->
     IF f \in Kept(c) THEN c.threads[f] ELSE fresh[f]]

\* save: the hashes of this pass become the meta the next one compares with.
Saved(c) == [c EXCEPT !.meta = [key |-> warm.key, linked |-> pmap]]

\* What is on disk after the first n of parsed.json, threads.json and meta.json
\* were renamed: the disk is full, or the server is killed, before the next.
SavedUpTo(n, c) ==
  [parsed |-> IF n >= 1 THEN c.parsed ELSE saved.parsed,
   threads |-> IF n >= 2 THEN c.threads ELSE saved.threads,
   meta |-> IF n >= 3 THEN c.meta ELSE saved.meta]

\* The discovery, which finds the seeds or, failing, only some of them; the
\* extraction; and the end of the pass, which saves n of the three files.  A
\* failed extraction keeps the previous threads and says so; with none, the
\* kept ones are all there is.
PassThreads(seeds, fails, n) ==
  /\ warm.at = "extract"
  /\ seeds \subseteq DOMAIN pmap
  /\ fails => spent.failures < Failures /\ seeds \ Kept(cache) # {}    \* none is spawned for no seed
  /\ LET troubles == Count(seeds # DOMAIN pmap, n # 3)
     IN /\ spent.troubles + troubles <= Troubles
        /\ spent' = [spent EXCEPT !.failures = IF fails THEN @ + 1 ELSE @,
                                  !.troubles = @ + troubles]
  /\ LET fresh == IF fails THEN Empty ELSE ExtractAll(pmap, seeds \ Kept(cache))
         merged == MergeThreads(cache, seeds, fresh)
         keep == fails /\ DOMAIN shown.threads # {}
     IN /\ cache' = Saved([cache EXCEPT !.threads = IF keep THEN @ ELSE merged])
        /\ shown' = [threads |-> IF keep THEN shown.threads ELSE merged, failed |-> fails]
  /\ saved' = SavedUpTo(n, cache')
  /\ faults' = [faults EXCEPT !.whole = @ /\ seeds = DOMAIN pmap,
                              !.torn = n \in {1, 2} \/ (n = 0 /\ @)]
  /\ warm' = NoPass
  /\ UNCHANGED <<source, pmap>>

\* A file is written, created or deleted, or the context changes; the watcher
\* starts a pass.  Not between a file's hash and its parse, nor after it in
\* the same pass: see the header.
DiskChanges ==
  /\ warm.at \in {"idle", "due"} /\ spent.changes < Changes
  /\ \/ \E f \in CFile, t \in Text \cup {NoText} :
          /\ source.texts[f] # t
          /\ source' = [source EXCEPT !.texts[f] = t]
     \/ \E x \in Context : source.ctx # x /\ source' = [source EXCEPT !.ctx = x]
  /\ warm' = [NoPass EXCEPT !.at = "due"]
  /\ spent' = [spent EXCEPT !.changes = @ + 1]
  /\ UNCHANGED <<cache, saved, pmap, shown, faults>>

\* The server restarts, in a pass or between two: the constructor reads the
\* saved files, all three or none, and the boot pass runs.
CacheRestart ==
  /\ spent.restarts < CRestarts
  /\ spent' = [spent EXCEPT !.restarts = @ + 1]
  /\ cache' = (IF HasMeta(saved) THEN saved ELSE NoCache)
  /\ pmap' = Empty /\ shown' = [threads |-> Empty, failed |-> FALSE]
  /\ warm' = [NoPass EXCEPT !.at = "due"]
  /\ faults' = [faults EXCEPT !.mixed = @ \/ (faults.torn /\ HasMeta(saved))]
  /\ UNCHANGED <<source, saved>>

CacheNext ==
  \/ PassBegins \/ DiskChanges \/ CacheRestart
  \/ \E lost, again, unlinked \in SUBSET CFile : PassParses(lost, again, unlinked)
  \/ \E seeds \in SUBSET CFile, fails \in BOOLEAN, n \in 0..3 : PassThreads(seeds, fails, n)

CacheSpec == CacheInit /\ [][CacheNext]_cacheVars

-----------------------------------------------------------------------------
\* The types: what is kept, in memory and on disk, is of the project's files.
IRs == [text : Text, ctx : Context, paths : SUBSET CFile]

IsLinked(lm) ==
  DOMAIN lm \subseteq CFile /\ \A f \in DOMAIN lm : lm[f].ir \in IRs /\ lm[f].edges \subseteq CFile

IsThreads(ts) ==
  DOMAIN ts \subseteq CFile
    /\ \A f \in DOMAIN ts : IsLinked(ts[f].walked) /\ DOMAIN ts[f].methods \subseteq CFile

IsCache(c) ==
  /\ DOMAIN c.parsed \subseteq CFile
  /\ \A f \in DOMAIN c.parsed : c.parsed[f].hash \in Text /\ c.parsed[f].ir \in IRs
  /\ IsThreads(c.threads) /\ (HasMeta(c) => IsLinked(c.meta.linked))

CacheTypeOK ==
  /\ source \in [texts : [CFile -> Text \cup {NoText}], ctx : Context]
  /\ IsCache(cache) /\ IsCache(saved)
  /\ warm.at \in {"idle", "due", "parse", "extract"}
  /\ DOMAIN warm.reuse \subseteq CFile /\ \A f \in DOMAIN warm.reuse : warm.reuse[f] \in IRs
  /\ DOMAIN warm.sources \subseteq CFile
  /\ IsLinked(pmap) /\ IsThreads(shown.threads) /\ shown.failed \in BOOLEAN
  /\ spent \in [changes : Nat, restarts : Nat, failures : Nat, troubles : Nat]
  /\ faults \in [whole : BOOLEAN, misfiled : BOOLEAN, torn : BOOLEAN, mixed : BOOLEAN]

\* A warm pass shows what a cold one would: the same linked files and the same
\* threads, whatever was kept, changed back and forth, saved only in part, or
\* reloaded after a restart.  Excepted are
\*   a pass that lost a parse, a link or a seed itself, as a cold one may;
\*   misfiled: a file that failed to parse while an old parse of the same text
\*     was kept, which storeParsed files under the new key;
\*   mixed: a restart found parsed.json or threads.json of a later pass than
\*     meta.json;
\*   the threads, after a failed extraction: save records the linked files of
\*     that pass beside the threads of the one before it, so a later pass may
\*     keep an old thread and no longer say so.
WarmIsCold ==
  warm.at = "idle" /\ faults.whole /\ ~faults.misfiled /\ ~faults.mixed =>
    /\ pmap = ColdMap
    /\ spent.failures = 0 => shown.threads = ColdThreads
=============================================================================
