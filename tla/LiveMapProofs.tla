---------------------------- MODULE LiveMapProofs ----------------------------
(***************************************************************************)
(* What the map keeps from one pass to the next may be kept: the pipeline  *)
(* cache (PipelineCache), whose warm passes show what cold ones would.     *)
(* And the map itself (LiveMap): VibeGraph's own writes start no pass, the *)
(* map follows the tree through whatever overlaps, and evidence is read    *)
(* from threads of the map.                                                *)
(***************************************************************************)
EXTENDS LiveMap, PipelineCache, TLAPS

------------------------------------------------------------------------------
(* The pipeline cache.                                                      *)

\* A record with the fields of PipelineCache, and one with those of a pass.
CacheShaped(c) == c = [meta |-> c.meta, parsed |-> c.parsed, threads |-> c.threads]
PassShaped(w) == w = [at |-> w.at, reuse |-> w.reuse, key |-> w.key, sources |-> w.sources]

\* Every parse the cache holds is the parse of the text it is hashed by, under
\* the context and the paths of a key.
ParsedUnder(parsed, key) ==
  \A f \in DOMAIN parsed :
    parsed[f].ir = [text |-> parsed[f].hash, ctx |-> key.ctx, paths |-> key.paths]

StoredUnderKey(c) == HasMeta(c) => ParsedUnder(c.parsed, c.meta.key)

\* The linker's edges stay within the files it linked.
EdgesWithin(lm) == \A f \in DOMAIN lm : lm[f].edges \subseteq DOMAIN lm

\* The threads the cache holds were extracted from the files it was saved with.
ThreadsOfLinked(c, failures) ==
  HasMeta(c) /\ failures = 0 =>
    /\ EdgesWithin(c.meta.linked) /\ DOMAIN c.threads \subseteq DOMAIN c.meta.linked
    /\ c.threads = ExtractAll(c.meta.linked, DOMAIN c.threads)

\* A pass under way works on the disk as it is.
PassOfDisk(w) ==
  w.at \in {"parse", "extract"} => w.key = Key /\ w.sources = Restrict(source.texts, Present)

\* What a pass reuses is what it would parse, and is kept under today's key.
ReuseOfDisk(w) ==
  w.at = "parse" =>
    \A f \in DOMAIN w.reuse :
      w.reuse[f] = Parse(f) /\ HasMeta(cache) /\ cache.meta.key = Key

CacheTyped ==
  /\ source \in [texts : [CFile -> Text \cup {NoText}], ctx : Context]
  /\ CacheShaped(cache) /\ CacheShaped(saved) /\ PassShaped(warm)
  /\ warm.at \in {"idle", "due", "parse", "extract"}
  /\ spent \in [changes : Nat, restarts : Nat, failures : Nat, troubles : Nat]
  /\ faults \in [whole : BOOLEAN, misfiled : BOOLEAN, torn : BOOLEAN, mixed : BOOLEAN]

\* No parse was filed under another key than its own, and no files of two saves
\* were read together.
Clean == ~faults.misfiled /\ ~faults.mixed

\* While that is so, what is kept is under the key it was saved with, except
\* between the parse and the save of a pass, when the parses are of this pass
\* and the threads of the one before; and so is what is on disk, unless the
\* last save to touch it stopped half way.
KeptInv ==
  /\ ~faults.torn => StoredUnderKey(saved) /\ ThreadsOfLinked(saved, spent.failures)
  /\ ThreadsOfLinked(cache, spent.failures)
  /\ IF warm.at = "extract" THEN ParsedUnder(cache.parsed, Key) ELSE StoredUnderKey(cache)
  /\ ReuseOfDisk(warm)
  /\ warm.at \in {"extract", "idle"} /\ faults.whole => pmap = ColdMap

\* The inductive invariant of the cache.
CacheInv ==
  /\ CacheTyped /\ EdgesWithin(pmap) /\ PassOfDisk(warm)
  /\ Clean => KeptInv
  /\ WarmIsCold

\* A thread that is kept is the thread the extractor would give: what it walked
\* is as it was, and so are the methods of every file (selectThreads).
LEMMA KeptIsExtracted ==
  ASSUME NEW c, HasMeta(c), ThreadsOfLinked(c, 0), NEW f \in Kept(c)
  PROVE  f \in DOMAIN pmap /\ c.threads[f] = Extract(pmap, f)
<1> DEFINE b == c.meta.linked
<1>1. f \in DOMAIN c.threads /\ f \in DOMAIN pmap
      /\ DOMAIN c.threads[f].walked \cap Changed(b) = {} /\ ~MethodsMoved(b)
      /\ EdgesWithin(b)
  BY DEF Kept, ThreadsOfLinked
<1>2. f \in DOMAIN b /\ c.threads[f] = Extract(b, f)
  BY <1>1 DEF ExtractAll, ThreadsOfLinked
<1>3. DOMAIN c.threads[f].walked = Reached(b, f)
  BY <1>2 DEF Extract, Restrict
<1> HIDE DEF b
<1>4. \A g \in DOMAIN pmap \cup DOMAIN b :
        g \notin Changed(b) => g \in DOMAIN pmap \cap DOMAIN b /\ pmap[g] = b[g]
  BY DEF Changed
<1>5. f \in Reached(b, f) /\ pmap[f] = b[f]
  <2>1. f \in Reached(b, f)
    BY DEF Reached
  <2> QED BY <1>1, <1>2, <1>3, <1>4, <2>1
<1>6. Reached(pmap, f) = Reached(b, f)
  BY <1>5 DEF Reached
<1>7. DOMAIN pmap = DOMAIN b
  <2>1. \A g \in Changed(b) : g \in DOMAIN pmap \cap DOMAIN b
    BY <1>1 DEF MethodsMoved
  <2> QED BY <1>4, <2>1
<1>8. \A g \in DOMAIN pmap : Methods[pmap[g].ir.text] = Methods[b[g].ir.text]
  BY <1>1, <1>4, <1>7 DEF MethodsMoved
<1>9. Restrict(pmap, Reached(pmap, f)) = Restrict(b, Reached(b, f))
  <2>1. Reached(b, f) \subseteq DOMAIN b
    BY <1>1, <1>2 DEF Reached, EdgesWithin
  <2>2. \A g \in Reached(b, f) : pmap[g] = b[g]
    BY <1>1, <1>3, <1>4, <2>1
  <2> QED BY <1>6, <2>2 DEF Restrict
<1>10. Extract(pmap, f) = Extract(b, f)
  BY <1>7, <1>8, <1>9 DEF Extract
<1> QED BY <1>1, <1>2, <1>10

\* The kept threads and the fresh ones are all the threads of the seeds.
LEMMA MergedIsExtracted ==
  ASSUME NEW c, ThreadsOfLinked(c, 0), NEW seeds, seeds \subseteq DOMAIN pmap
  PROVE  MergeThreads(c, seeds, ExtractAll(pmap, seeds \ Kept(c))) = ExtractAll(pmap, seeds)
<1>1. Kept(c) \subseteq DOMAIN pmap /\ \A f \in Kept(c) : c.threads[f] = Extract(pmap, f)
  <2>1. CASE HasMeta(c)
    BY <2>1, KeptIsExtracted
  <2>2. CASE ~HasMeta(c)
    BY <2>2 DEF Kept
  <2> QED BY <2>1, <2>2
<1> DEFINE fresh == ExtractAll(pmap, seeds \ Kept(c))
<1>2. DOMAIN fresh = seeds \ Kept(c) /\ \A f \in DOMAIN fresh : fresh[f] = Extract(pmap, f)
  BY DEF ExtractAll
<1> HIDE DEF fresh
<1>3. (Kept(c) \cap seeds) \cup DOMAIN fresh = seeds
  BY <1>1, <1>2
<1>4. \A f \in seeds : (IF f \in Kept(c) THEN c.threads[f] ELSE fresh[f]) = Extract(pmap, f)
  BY <1>1, <1>2
<1>5. MergeThreads(c, seeds, fresh) = ExtractAll(pmap, seeds)
  BY <1>3, <1>4 DEF MergeThreads, ExtractAll
<1> QED BY <1>5 DEF fresh

\* A linked map has the files it was linked from and edges within them.
LEMMA LinkIsClosed ==
  ASSUME NEW irs, NEW unlinked
  PROVE  DOMAIN Link(irs, unlinked) = DOMAIN irs /\ EdgesWithin(Link(irs, unlinked))
  BY DEF Link, EdgesWithin

LEMMA ColdMapIsClosed ==
  DOMAIN ColdMap = Present /\ EdgesWithin(ColdMap)
  BY LinkIsClosed DEF ColdMap

\* The first start: nothing is kept.
LEMMA NothingKept ==
  ASSUME NEW failures
  PROVE  /\ CacheShaped(NoCache) /\ ~HasMeta(NoCache)
         /\ StoredUnderKey(NoCache) /\ ThreadsOfLinked(NoCache, failures)
  BY DEF NoCache, CacheShaped, HasMeta, StoredUnderKey, ThreadsOfLinked

\* What is kept stays sound while it is not written and no more fails.
LEMMA KeptStays ==
  /\ (StoredUnderKey(saved) /\ UNCHANGED saved => StoredUnderKey(saved)')
  /\ (StoredUnderKey(cache) /\ UNCHANGED cache => StoredUnderKey(cache)')
  /\ (ThreadsOfLinked(saved, spent.failures) /\ UNCHANGED saved /\ spent'.failures = spent.failures
        => ThreadsOfLinked(saved, spent.failures)')
  /\ (ThreadsOfLinked(cache, spent.failures) /\ UNCHANGED cache /\ spent'.failures = spent.failures
        => ThreadsOfLinked(cache, spent.failures)')
<1>1. (StoredUnderKey(saved) /\ UNCHANGED saved => StoredUnderKey(saved)')
      /\ (StoredUnderKey(cache) /\ UNCHANGED cache => StoredUnderKey(cache)')
  BY DEF StoredUnderKey, ParsedUnder, HasMeta
<1>2. ThreadsOfLinked(saved, spent.failures) /\ UNCHANGED saved /\ spent'.failures = spent.failures
        => ThreadsOfLinked(saved, spent.failures)'
  BY DEF ThreadsOfLinked, HasMeta, ExtractAll, Extract, EdgesWithin
<1>3. ThreadsOfLinked(cache, spent.failures) /\ UNCHANGED cache /\ spent'.failures = spent.failures
        => ThreadsOfLinked(cache, spent.failures)'
  BY DEF ThreadsOfLinked, HasMeta, ExtractAll, Extract, EdgesWithin
<1> QED BY <1>1, <1>2, <1>3

LEMMA CacheInitially ==
  CacheInit => CacheInv
<1> SUFFICES ASSUME CacheInit PROVE CacheInv
  OBVIOUS
<1>1. CacheTyped /\ warm.at = "due" /\ cache = NoCache /\ saved = NoCache /\ pmap = Empty
  BY CacheAssumption DEF CacheInit, CacheTyped, CacheShaped, PassShaped, NoCache, NoPass
<1>2. EdgesWithin(Empty)
  BY DEF EdgesWithin, Empty
<1> QED
  BY <1>1, <1>2, NothingKept DEF CacheInv, KeptInv, PassOfDisk, ReuseOfDisk, WarmIsCold

\* A pass begins: what it keeps was parsed of what is on disk (beginParse).
LEMMA BeginningIsCold ==
  ASSUME CacheInv, PassBegins
  PROVE  CacheInv'
<1>1. CacheTyped /\ EdgesWithin(pmap) /\ (Clean => KeptInv) /\ warm.at = "due"
  BY DEF CacheInv, PassBegins
<1> DEFINE reuse == Restrict([f \in DOMAIN cache.parsed |-> cache.parsed[f].ir], Reuse)
           w == [at |-> "parse", reuse |-> reuse, key |-> Key,
                 sources |-> Restrict(source.texts, Present)]
<1>2. /\ warm' = w /\ UNCHANGED <<source, cache, saved, pmap, shown, spent>>
      /\ faults' = [faults EXCEPT !.whole = TRUE]
  BY DEF PassBegins
<1>3. ASSUME StoredUnderKey(cache)
      PROVE  \A f \in DOMAIN reuse : reuse[f] = Parse(f) /\ HasMeta(cache) /\ cache.meta.key = Key
  <2>1. DOMAIN reuse = Reuse /\ \A f \in Reuse : f \in DOMAIN cache.parsed => reuse[f] = cache.parsed[f].ir
    BY DEF Restrict
  <2>2. ASSUME NEW f \in Reuse
        PROVE  /\ f \in DOMAIN cache.parsed /\ cache.parsed[f].ir = Parse(f)
               /\ HasMeta(cache) /\ cache.meta.key = Key
    <3>1. HasMeta(cache) /\ cache.meta.key = Key /\ f \in DOMAIN cache.parsed
          /\ cache.parsed[f].hash = source.texts[f]
      BY DEF Reuse
    <3> QED BY <1>3, <3>1 DEF StoredUnderKey, ParsedUnder, Parse, Key
  <2> QED BY <2>1, <2>2
<1> HIDE DEF reuse
<1>4. PassShaped(w) /\ w.at = "parse" /\ PassOfDisk(w) /\ (StoredUnderKey(cache) => ReuseOfDisk(w))
  BY <1>3 DEF PassShaped, PassOfDisk, ReuseOfDisk
<1> HIDE DEF w
<1>5. CacheTyped' /\ (Clean' <=> Clean) /\ (faults'.torn <=> faults.torn)
  BY <1>1, <1>2, <1>4 DEF CacheTyped, Clean
<1>6. EdgesWithin(pmap)' /\ PassOfDisk(warm)'
  BY <1>1, <1>2, <1>4 DEF EdgesWithin, PassOfDisk, Key, Present
<1>7. ASSUME Clean' PROVE KeptInv'
  <2>1. KeptInv /\ StoredUnderKey(cache) /\ ReuseOfDisk(w)
    BY <1>1, <1>4, <1>5, <1>7 DEF KeptInv
  <2>2. ReuseOfDisk(warm)'
    BY <1>2, <2>1 DEF ReuseOfDisk, Parse, Present, Key, HasMeta
  <2> QED BY <1>2, <1>4, <1>5, <2>1, <2>2, KeptStays DEF KeptInv
<1> QED BY <1>2, <1>4, <1>5, <1>6, <1>7 DEF CacheInv, WarmIsCold

\* The rest is parsed and everything linked: when nothing is lost the map is a
\* cold pass' map, and what is kept is of this pass unless a lost file's old
\* parse is kept.
LEMMA ParsingIsCold ==
  ASSUME CacheInv, NEW lost \in SUBSET CFile, NEW again \in SUBSET CFile,
         NEW unlinked \in SUBSET CFile, PassParses(lost, again, unlinked)
  PROVE  CacheInv'
<1>1. CacheTyped /\ PassOfDisk(warm) /\ (Clean => KeptInv) /\ warm.at = "parse"
  BY DEF CacheInv, PassParses
<1> DEFINE there == DOMAIN warm.sources \ (lost \ again)
           irs == [f \in there |-> IF f \in DOMAIN warm.reuse THEN warm.reuse[f] ELSE Parse(f)]
           parsed == StoreParsed((DOMAIN warm.sources \ DOMAIN warm.reuse) \ lost)
           c == [meta |-> cache.meta, parsed |-> parsed, threads |-> cache.threads]
           w == [at |-> "extract", reuse |-> warm.reuse, key |-> warm.key, sources |-> warm.sources]
           n == Count(lost # {}, unlinked # {})
<1>2. /\ cache' = [cache EXCEPT !.parsed = parsed] /\ pmap' = Link(irs, unlinked)
      /\ warm' = [warm EXCEPT !.at = "extract"] /\ UNCHANGED <<source, saved, shown>>
      /\ spent' = [spent EXCEPT !.troubles = spent.troubles + n]
      /\ faults' = [faults EXCEPT !.whole = (lost \ again = {} /\ unlinked = {}),
                                 !.misfiled = faults.misfiled \/ lost \cap Matching # {}]
  BY DEF PassParses
<1>3. /\ warm.key = Key /\ warm.sources = Restrict(source.texts, Present)
      /\ DOMAIN warm.sources = Present
      /\ \A f \in Present : warm.sources[f] = source.texts[f]
  BY <1>1 DEF PassOfDisk, Restrict
<1>4. ASSUME Clean, faults'.whole PROVE irs = [f \in Present |-> Parse(f)] /\ unlinked = {}
  <2>1. lost \ again = {} /\ unlinked = {}
    BY <1>1, <1>2, <1>4 DEF CacheTyped
  <2>2. there = Present /\ \A f \in DOMAIN warm.reuse : warm.reuse[f] = Parse(f)
    BY <1>1, <1>3, <1>4, <2>1 DEF KeptInv, ReuseOfDisk
  <2> QED BY <2>1, <2>2
<1>5. ASSUME Clean, lost \cap Matching = {} PROVE ParsedUnder(parsed, Key)
  <2> SUFFICES ASSUME NEW f \in DOMAIN parsed
               PROVE  parsed[f].ir = [text |-> parsed[f].hash, ctx |-> Key.ctx, paths |-> Key.paths]
    BY DEF ParsedUnder
  <2> DEFINE fresh == (DOMAIN warm.sources \ DOMAIN warm.reuse) \ lost
  <2>1. f \in fresh \cup Matching
    BY DEF StoreParsed
  <2>2. CASE f \in fresh
    <3>1. parsed[f] = [hash |-> warm.sources[f], ir |-> Parse(f)]
      BY <2>2 DEF StoreParsed
    <3>2. f \in Present /\ warm.sources[f] = source.texts[f]
      BY <1>3, <2>2
    <3> QED BY <3>1, <3>2 DEF Parse, Key
  <2>3. CASE f \notin fresh
    <3>1. f \in Matching /\ parsed[f] = cache.parsed[f]
      BY <2>1, <2>3 DEF StoreParsed
    <3>2. f \in DOMAIN warm.reuse /\ f \in Present /\ cache.parsed[f].hash = source.texts[f]
      BY <1>3, <1>5, <2>3, <3>1 DEF Matching
    <3>3. f \in DOMAIN cache.parsed /\ StoredUnderKey(cache)
      BY <1>1, <1>5, <3>1 DEF Matching, KeptInv
    <3>4. HasMeta(cache) /\ cache.meta.key = Key
      BY <1>1, <1>5, <3>2 DEF KeptInv, ReuseOfDisk
    <3> QED BY <3>1, <3>3, <3>4 DEF StoredUnderKey, ParsedUnder
  <2> QED BY <2>2, <2>3
<1>6. Link([f \in Present |-> Parse(f)], {}) = ColdMap
  BY DEF ColdMap
<1>7. EdgesWithin(Link(irs, unlinked))
  BY LinkIsClosed
<1> HIDE DEF irs, parsed
<1>8. cache' = c /\ warm' = w
  BY <1>1, <1>2 DEF CacheTyped, CacheShaped, PassShaped
<1>9. CacheShaped(c) /\ c.meta = cache.meta /\ c.parsed = parsed /\ c.threads = cache.threads
  BY DEF CacheShaped
<1>10. PassShaped(w) /\ w.at = "extract" /\ w.key = Key /\ w.sources = Restrict(source.texts, Present)
  BY <1>3 DEF PassShaped
<1> HIDE DEF c, w
<1>11. n \in Nat
  BY DEF Count
<1> HIDE DEF n
<1>12. CacheTyped' /\ spent'.failures = spent.failures /\ (faults'.torn <=> faults.torn)
       /\ (Clean' => Clean /\ lost \cap Matching = {})
  <2>1. spent' \in [changes : Nat, restarts : Nat, failures : Nat, troubles : Nat]
        /\ spent'.failures = spent.failures
    BY <1>1, <1>2, <1>11 DEF CacheTyped
  <2>2. faults' \in [whole : BOOLEAN, misfiled : BOOLEAN, torn : BOOLEAN, mixed : BOOLEAN]
        /\ (faults'.torn <=> faults.torn) /\ (Clean' => Clean /\ lost \cap Matching = {})
    BY <1>1, <1>2 DEF CacheTyped, Clean
  <2> QED BY <1>1, <1>2, <1>8, <1>9, <1>10, <2>1, <2>2 DEF CacheTyped
<1>13. EdgesWithin(pmap)' /\ PassOfDisk(warm)'
  BY <1>2, <1>7, <1>8, <1>10 DEF EdgesWithin, PassOfDisk, Key, Present
<1>14. ASSUME Clean' PROVE KeptInv'
  <2>1. KeptInv /\ ParsedUnder(parsed, Key)
    BY <1>1, <1>5, <1>12, <1>14
  <2>2. faults'.whole => pmap' = ColdMap'
    <3>1. faults'.whole => pmap' = ColdMap
      BY <1>2, <1>4, <1>6, <1>12, <1>14
    <3>2. ColdMap' = ColdMap
      BY <1>2 DEF ColdMap, Present, Parse
    <3> QED BY <3>1, <3>2
  <2>3. ParsedUnder(cache.parsed, Key)'
    BY <1>2, <1>8, <1>9, <2>1 DEF ParsedUnder, Key, Present
  <2>4. (~faults.torn => StoredUnderKey(saved) /\ ThreadsOfLinked(saved, spent.failures))'
    BY <1>2, <1>12, <2>1, KeptStays DEF KeptInv
  <2>5. ThreadsOfLinked(cache, spent.failures)'
    BY <1>8, <1>9, <1>12, <2>1 DEF KeptInv, ThreadsOfLinked, HasMeta, EdgesWithin, ExtractAll, Extract
  <2> QED BY <1>8, <1>10, <2>2, <2>3, <2>4, <2>5 DEF KeptInv, ReuseOfDisk
<1> QED BY <1>8, <1>10, <1>12, <1>13, <1>14 DEF CacheInv, WarmIsCold

\* The threads are extracted and as much of the pass is saved as can be: what
\* is shown is what a cold pass shows, unless an answer failed.
LEMMA ExtractingIsCold ==
  ASSUME CacheInv, NEW seeds \in SUBSET CFile, NEW fails \in BOOLEAN, NEW n \in 0..3,
         PassThreads(seeds, fails, n)
  PROVE  CacheInv'
<1>1. /\ CacheTyped /\ EdgesWithin(pmap) /\ PassOfDisk(warm) /\ (Clean => KeptInv)
      /\ warm.at = "extract" /\ seeds \subseteq DOMAIN pmap
  BY DEF CacheInv, PassThreads
<1> DEFINE fresh == IF fails THEN Empty ELSE ExtractAll(pmap, seeds \ Kept(cache))
           merged == MergeThreads(cache, seeds, fresh)
           keep == fails /\ DOMAIN shown.threads # {}
           kept == IF keep THEN cache.threads ELSE merged
           meta == [key |-> warm.key, linked |-> pmap]
           c == [meta |-> meta, parsed |-> cache.parsed, threads |-> kept]
           troubles == Count(seeds # DOMAIN pmap, n # 3)
<1>2. /\ spent' = [spent EXCEPT !.failures = IF fails THEN spent.failures + 1 ELSE spent.failures,
                                !.troubles = spent.troubles + troubles]
      /\ cache' = Saved([cache EXCEPT !.threads = kept])
      /\ shown' = [threads |-> IF keep THEN shown.threads ELSE merged, failed |-> fails]
      /\ saved' = SavedUpTo(n, cache') /\ warm' = NoPass /\ UNCHANGED <<source, pmap>>
      /\ faults' = [faults EXCEPT !.whole = faults.whole /\ seeds = DOMAIN pmap,
                                 !.torn = n \in {1, 2} \/ (n = 0 /\ faults.torn)]
  BY <1>1 DEF PassThreads, CacheTyped
<1>3. warm.key = Key
  BY <1>1 DEF PassOfDisk
<1>4. /\ spent' \in [changes : Nat, restarts : Nat, failures : Nat, troubles : Nat]
      /\ spent'.failures = 0 => ~fails /\ spent.failures = 0
  <2>1. spent \in [changes : Nat, restarts : Nat, failures : Nat, troubles : Nat] /\ troubles \in Nat
    BY <1>1 DEF CacheTyped, Count
  <2> HIDE DEF troubles
  <2> DEFINE fs == IF fails THEN spent.failures + 1 ELSE spent.failures
  <2> DEFINE ts == spent.troubles + troubles
  <2>2. fs \in Nat /\ (fs = 0 => ~fails /\ spent.failures = 0) /\ ts \in Nat
    BY <2>1
  <2>3. spent' = [spent EXCEPT !.failures = fs, !.troubles = ts]
    BY <1>2
  <2> HIDE DEF fs, ts
  <2> QED BY <2>1, <2>2, <2>3
<1>5. faults' \in [whole : BOOLEAN, misfiled : BOOLEAN, torn : BOOLEAN, mixed : BOOLEAN]
      /\ (Clean' <=> Clean) /\ (faults'.whole => faults.whole /\ seeds = DOMAIN pmap)
      /\ (faults'.torn <=> n \in {1, 2} \/ (n = 0 /\ faults.torn))
  BY <1>1, <1>2 DEF CacheTyped, Clean
<1>6. Clean /\ spent'.failures = 0 => merged = ExtractAll(pmap, seeds) /\ ~keep
  <2> SUFFICES ASSUME Clean, spent'.failures = 0
               PROVE  merged = ExtractAll(pmap, seeds) /\ ~keep
    OBVIOUS
  <2>1. ~fails /\ ThreadsOfLinked(cache, 0)
    BY <1>1, <1>4 DEF KeptInv
  <2> QED BY <1>1, <2>1, MergedIsExtracted
<1> HIDE DEF merged, keep
<1>7. Clean /\ spent'.failures = 0 =>
        kept = ExtractAll(pmap, seeds) /\ shown'.threads = ExtractAll(pmap, seeds)
  BY <1>2, <1>6
<1> HIDE DEF kept
<1>8. cache' = c
  BY <1>1, <1>2 DEF Saved, CacheTyped, CacheShaped
<1>9. c.meta = meta /\ meta.key = Key /\ meta.linked = pmap /\ c.parsed = cache.parsed
      /\ c.threads = kept /\ CacheShaped(c) /\ HasMeta(c)
  BY <1>3 DEF CacheShaped, HasMeta
<1> HIDE DEF c, meta
<1>10. NoPass.at = "idle" /\ PassShaped(NoPass) /\ PassOfDisk(NoPass)' /\ ReuseOfDisk(NoPass)'
  BY DEF NoPass, PassShaped, PassOfDisk, ReuseOfDisk
<1>11. CacheShaped(saved') /\ (n = 3 => saved' = c) /\ (n = 0 => saved' = saved)
  BY <1>1, <1>2, <1>8, <1>9 DEF SavedUpTo, CacheShaped, CacheTyped
<1>12. CacheTyped'
  BY <1>1, <1>2, <1>4, <1>5, <1>8, <1>9, <1>10, <1>11 DEF CacheTyped
<1>13. ASSUME Clean PROVE StoredUnderKey(c) /\ ThreadsOfLinked(c, spent'.failures)
  <2>1. ParsedUnder(cache.parsed, Key)
    BY <1>1, <1>13 DEF KeptInv
  <2>2. DOMAIN ExtractAll(pmap, seeds) = seeds
    BY DEF ExtractAll
  <2> QED BY <1>1, <1>7, <1>9, <1>13, <2>1, <2>2 DEF StoredUnderKey, ThreadsOfLinked
<1>14. ASSUME Clean' PROVE KeptInv'
  <2>1. KeptInv /\ StoredUnderKey(c) /\ ThreadsOfLinked(c, spent'.failures)
    BY <1>1, <1>5, <1>13, <1>14
  <2>2. StoredUnderKey(cache)' /\ ThreadsOfLinked(cache, spent.failures)'
    BY <1>8, <2>1
    DEF StoredUnderKey, ThreadsOfLinked, ParsedUnder, HasMeta, ExtractAll, Extract, EdgesWithin
  <2>3. ASSUME ~faults'.torn PROVE StoredUnderKey(saved)' /\ ThreadsOfLinked(saved, spent.failures)'
    <3>1. CASE n = 3
      BY <1>8, <1>11, <2>1, <3>1
      DEF StoredUnderKey, ThreadsOfLinked, ParsedUnder, HasMeta, ExtractAll, Extract, EdgesWithin
    <3>2. CASE n = 0
      <4>1. StoredUnderKey(saved) /\ ThreadsOfLinked(saved, spent.failures) /\ saved' = saved
        BY <1>5, <1>11, <2>1, <2>3, <3>2 DEF KeptInv
      <4>2. spent'.failures = 0 => spent.failures = 0
        BY <1>4
      <4> QED BY <4>1, <4>2
          DEF StoredUnderKey, ThreadsOfLinked, ParsedUnder, HasMeta, ExtractAll, Extract, EdgesWithin
    <3> QED BY <1>5, <2>3, <3>1, <3>2
  <2>4. faults'.whole => pmap' = ColdMap'
    BY <1>1, <1>2, <1>5, <2>1 DEF KeptInv, ColdMap, Present, Parse
  <2> QED BY <1>2, <1>10, <2>2, <2>3, <2>4 DEF KeptInv
<1>15. WarmIsCold'
  <2> SUFFICES ASSUME Clean', faults'.whole
               PROVE  pmap' = ColdMap' /\ (spent'.failures = 0 => shown'.threads = ColdThreads')
    BY DEF WarmIsCold, Clean
  <2>1. pmap' = ColdMap' /\ pmap' = pmap /\ ColdMap' = ColdMap /\ Present' = Present
    BY <1>2, <1>5, <1>10, <1>14 DEF KeptInv, ColdMap, Present, Parse
  <2>2. seeds = Present
    BY <1>5, <2>1, ColdMapIsClosed
  <2> QED BY <1>5, <1>7, <2>1, <2>2 DEF ColdThreads
<1>16. EdgesWithin(pmap)' /\ PassOfDisk(warm)'
  BY <1>1, <1>2, <1>10 DEF EdgesWithin
<1> QED BY <1>12, <1>14, <1>15, <1>16 DEF CacheInv

\* The disk changes between two passes, or the server restarts with what was
\* saved, if that is all of one save: a pass is due.
LEMMA DueIsCold ==
  ASSUME CacheInv, DiskChanges \/ CacheRestart
  PROVE  CacheInv'
<1>1. CacheTyped /\ EdgesWithin(pmap) /\ (Clean => KeptInv)
  BY DEF CacheInv
<1> DEFINE w == [at |-> "due", reuse |-> Empty, key |-> <<>>, sources |-> Empty]
<1>2. warm' = w
  BY DEF DiskChanges, CacheRestart, NoPass
<1>3. PassShaped(w) /\ w.at = "due"
  BY DEF PassShaped
<1> HIDE DEF w
<1>4. source' \in [texts : [CFile -> Text \cup {NoText}], ctx : Context]
  <2>1. source \in [texts : [CFile -> Text \cup {NoText}], ctx : Context]
    BY <1>1 DEF CacheTyped
  <2>2. ASSUME NEW f \in CFile, NEW t \in Text \cup {NoText}, source' = [source EXCEPT !.texts[f] = t]
        PROVE  source' \in [texts : [CFile -> Text \cup {NoText}], ctx : Context]
    <3> DEFINE texts == [source.texts EXCEPT ![f] = t]
    <3>1. texts \in [CFile -> Text \cup {NoText}]
      BY <2>1
    <3>2. source' = [source EXCEPT !.texts = texts]
      BY <2>1, <2>2
    <3> HIDE DEF texts
    <3> QED BY <2>1, <3>1, <3>2
  <2>3. ASSUME NEW x \in Context, source' = [source EXCEPT !.ctx = x]
        PROVE  source' \in [texts : [CFile -> Text \cup {NoText}], ctx : Context]
    BY <2>1, <2>3
  <2>4. CASE source' = source
    BY <2>1, <2>4
  <2> QED BY <2>2, <2>3, <2>4 DEF DiskChanges, CacheRestart
<1>5. /\ spent' \in [changes : Nat, restarts : Nat, failures : Nat, troubles : Nat]
      /\ spent'.failures = spent.failures
  <2>1. spent \in [changes : Nat, restarts : Nat, failures : Nat, troubles : Nat]
    BY <1>1 DEF CacheTyped
  <2>2. spent' \in {[spent EXCEPT !.changes = spent.changes + 1],
                    [spent EXCEPT !.restarts = spent.restarts + 1]}
    BY <2>1 DEF DiskChanges, CacheRestart
  <2> QED BY <2>1, <2>2
<1>6. CASE DiskChanges
  <2>1. /\ UNCHANGED <<cache, saved, pmap, shown, faults>> /\ warm.at # "extract"
        /\ (Clean' <=> Clean)
    BY <1>6 DEF DiskChanges, Clean
  <2>2. CacheTyped' /\ EdgesWithin(pmap)'
    BY <1>1, <1>2, <1>3, <1>4, <1>5, <2>1 DEF CacheTyped, EdgesWithin
  <2>3. PassOfDisk(warm)'
    BY <1>2, <1>3 DEF PassOfDisk
  <2>4. ASSUME Clean' PROVE KeptInv'
    <3>1. KeptInv
      BY <1>1, <2>1, <2>4
    <3>2. StoredUnderKey(cache)
      BY <2>1, <3>1 DEF KeptInv
    <3> QED BY <1>2, <1>3, <1>5, <2>1, <3>1, <3>2, KeptStays DEF KeptInv, ReuseOfDisk
  <2> QED BY <1>2, <1>3, <2>2, <2>3, <2>4 DEF CacheInv, WarmIsCold
<1>7. CASE CacheRestart
  <2>1. /\ cache' = (IF HasMeta(saved) THEN saved ELSE NoCache) /\ saved' = saved
        /\ pmap' = Empty
        /\ faults' = [faults EXCEPT !.mixed = faults.mixed \/ (faults.torn /\ HasMeta(saved))]
    BY <1>7 DEF CacheRestart
  <2>2. faults' \in [whole : BOOLEAN, misfiled : BOOLEAN, torn : BOOLEAN, mixed : BOOLEAN]
        /\ (Clean' => Clean /\ ~(faults.torn /\ HasMeta(saved))) /\ (faults'.torn <=> faults.torn)
    BY <1>1, <2>1 DEF CacheTyped, Clean
  <2>3. CacheShaped(cache')
    BY <1>1, <2>1, NothingKept DEF CacheTyped
  <2>4. CacheTyped' /\ EdgesWithin(pmap)'
    BY <1>1, <1>2, <1>3, <1>4, <1>5, <2>1, <2>2, <2>3 DEF CacheTyped, EdgesWithin, Empty
  <2>5. PassOfDisk(warm)'
    BY <1>2, <1>3 DEF PassOfDisk
  <2>6. ASSUME Clean' PROVE KeptInv'
    <3>1. KeptInv /\ ~(faults.torn /\ HasMeta(saved))
      BY <1>1, <2>2, <2>6
    <3>2. StoredUnderKey(cache') /\ ThreadsOfLinked(cache', spent.failures)
      BY <2>1, <3>1, NothingKept DEF KeptInv
    <3>3. StoredUnderKey(cache)' /\ ThreadsOfLinked(cache, spent.failures)'
      BY <1>5, <3>2
      DEF StoredUnderKey, ThreadsOfLinked, ParsedUnder, HasMeta, ExtractAll, Extract, EdgesWithin
    <3>4. (~faults.torn => StoredUnderKey(saved) /\ ThreadsOfLinked(saved, spent.failures))'
      BY <1>5, <2>1, <2>2, <3>1, KeptStays DEF KeptInv
    <3> QED BY <1>2, <1>3, <3>3, <3>4 DEF KeptInv, ReuseOfDisk
  <2> QED BY <1>2, <1>3, <2>4, <2>5, <2>6 DEF CacheInv, WarmIsCold
<1> QED BY <1>6, <1>7

\* What every behaviour of the cache keeps.
LEMMA CacheHolds ==
  CacheSpec => []CacheInv
<1>1. CacheInv /\ [CacheNext]_cacheVars => CacheInv'
  <2> SUFFICES ASSUME CacheInv, [CacheNext]_cacheVars PROVE CacheInv'
    OBVIOUS
  <2>1. CASE PassBegins
    BY <2>1, BeginningIsCold
  <2>2. ASSUME NEW lost \in SUBSET CFile, NEW again \in SUBSET CFile, NEW unlinked \in SUBSET CFile,
               PassParses(lost, again, unlinked)
        PROVE  CacheInv'
    BY <2>2, ParsingIsCold
  <2>3. ASSUME NEW seeds \in SUBSET CFile, NEW fails \in BOOLEAN, NEW n \in 0..3,
               PassThreads(seeds, fails, n)
        PROVE  CacheInv'
    BY <2>3, ExtractingIsCold
  <2>4. CASE DiskChanges \/ CacheRestart
    BY <2>4, DueIsCold
  <2>5. CASE UNCHANGED cacheVars
    <3>1. UNCHANGED <<source, cache, saved, warm, pmap, shown, spent, faults>>
      BY <2>5 DEF cacheVars
    <3>2. UNCHANGED <<Present, Key, ColdMap, ColdThreads>>
      BY <3>1 DEF Present, Key, ColdMap, ColdThreads, Parse
    <3>3. CacheTyped' /\ PassOfDisk(warm)' /\ EdgesWithin(pmap)' /\ (Clean' <=> Clean)
      BY <3>1, <3>2 DEF CacheInv, CacheTyped, PassOfDisk, EdgesWithin, Clean
    <3>4. KeptInv => KeptInv'
      <4>1. (ReuseOfDisk(warm) => ReuseOfDisk(warm)')
            /\ (ParsedUnder(cache.parsed, Key) => ParsedUnder(cache.parsed, Key)')
        BY <3>1, <3>2 DEF ReuseOfDisk, ParsedUnder, Parse, HasMeta
      <4> QED BY <3>1, <3>2, <4>1, KeptStays DEF KeptInv
    <3> QED BY <3>1, <3>2, <3>3, <3>4 DEF CacheInv, WarmIsCold
  <2> QED BY <2>1, <2>2, <2>3, <2>4, <2>5 DEF CacheNext
<1> QED BY <1>1, CacheInitially, PTL DEF CacheSpec

\* A warm pass that lost nothing itself shows the linked files a cold pass
\* would, and the threads too while no extraction has failed, for every project
\* and calls between its files, and any number of changes, restarts, passes and
\* failures: whatever parses, links, seeds and saves failed before it, unless an
\* old parse was filed under a new key or a restart read the files of two saves
\* together (beginParse, storeParsed, selectThreads, mergeThreads, save).
THEOREM WarmIsAlwaysCold ==
  CacheSpec => []WarmIsCold
<1>1. CacheInv => WarmIsCold
  BY DEF CacheInv
<1> QED BY <1>1, CacheHolds, PTL

\* The parser, the linker, the extractor and the merge give values of the types.
LEMMA ParseTyped ==
  ASSUME CacheTyped, NEW f \in Present
  PROVE  f \in CFile /\ source.texts[f] \in Text /\ Parse(f) \in IRs
<1>1. f \in CFile /\ source.texts[f] \in Text /\ source.ctx \in Context /\ Present \subseteq CFile
  BY DEF CacheTyped, Present
<1> QED BY <1>1 DEF Parse, IRs

LEMMA LinkTyped ==
  ASSUME NEW irs, DOMAIN irs \subseteq CFile, \A f \in DOMAIN irs : irs[f] \in IRs, NEW unlinked
  PROVE  IsLinked(Link(irs, unlinked))
  BY DEF IsLinked, Link

LEMMA ExtractTyped ==
  ASSUME NEW lm, IsLinked(lm), EdgesWithin(lm), NEW seeds, seeds \subseteq DOMAIN lm
  PROVE  IsThreads(ExtractAll(lm, seeds))
<1> SUFFICES ASSUME NEW f \in seeds
             PROVE  IsLinked(Extract(lm, f).walked) /\ DOMAIN Extract(lm, f).methods \subseteq CFile
  BY DEF IsThreads, ExtractAll, IsLinked
<1>1. Reached(lm, f) \subseteq DOMAIN lm /\ DOMAIN lm \subseteq CFile
  BY DEF Reached, EdgesWithin, IsLinked
<1> QED BY <1>1 DEF Extract, Restrict, IsLinked

LEMMA MergeTyped ==
  ASSUME IsCache(cache), NEW seeds, NEW fresh, IsThreads(fresh)
  PROVE  IsThreads(MergeThreads(cache, seeds, fresh))
<1>1. IsThreads(cache.threads) /\ Kept(cache) \subseteq DOMAIN cache.threads
  BY DEF IsCache, Kept
<1> QED BY <1>1 DEF MergeThreads, IsThreads

LEMMA EmptyTyped ==
  IsCache(NoCache) /\ IsThreads(Empty) /\ IsLinked(Empty) /\ DOMAIN Empty = {}
  BY DEF IsCache, NoCache, Empty, IsThreads, IsLinked, HasMeta

\* A whole pass keeps the types.
LEMMA ParsesAreTyped ==
  ASSUME CacheAssumption, CacheInv, CacheTypeOK, NEW lost, NEW again, NEW unlinked,
         PassParses(lost, again, unlinked)
  PROVE  IsCache(cache') /\ IsLinked(pmap')
<1>1. CacheTyped /\ PassOfDisk(warm) /\ warm.at = "parse" /\ IsCache(cache)
      /\ DOMAIN warm.reuse \subseteq CFile /\ \A f \in DOMAIN warm.reuse : warm.reuse[f] \in IRs
  BY DEF CacheInv, PassParses, CacheTypeOK
<1>2. warm.sources = Restrict(source.texts, Present)
  BY <1>1 DEF PassOfDisk
<1>3. DOMAIN warm.sources = Present /\ \A f \in Present : warm.sources[f] = source.texts[f]
  BY <1>2 DEF Restrict
<1> DEFINE there == DOMAIN warm.sources \ (lost \ again)
           irs == [f \in there |-> IF f \in DOMAIN warm.reuse THEN warm.reuse[f] ELSE Parse(f)]
           fresh == (DOMAIN warm.sources \ DOMAIN warm.reuse) \ lost
           parsed == StoreParsed(fresh)
           c == [meta |-> cache.meta, parsed |-> parsed, threads |-> cache.threads]
<1>4. cache' = c /\ pmap' = Link(irs, unlinked)
  BY <1>1 DEF PassParses, CacheTyped, CacheShaped
<1>5. \A f \in DOMAIN irs : f \in CFile /\ irs[f] \in IRs
  BY <1>1, <1>3, ParseTyped
<1>6. IsLinked(Link(irs, unlinked))
  BY <1>5, LinkTyped
<1>7. \A f \in DOMAIN parsed : f \in CFile /\ parsed[f].hash \in Text /\ parsed[f].ir \in IRs
  <2> SUFFICES ASSUME NEW f \in DOMAIN parsed
               PROVE  f \in CFile /\ parsed[f].hash \in Text /\ parsed[f].ir \in IRs
    OBVIOUS
  <2>1. CASE f \in fresh
    <3>1. parsed[f] = [hash |-> warm.sources[f], ir |-> Parse(f)] /\ f \in Present
      BY <1>3, <2>1 DEF StoreParsed
    <3> QED BY <1>1, <1>3, <3>1, ParseTyped
  <2>2. CASE f \notin fresh
    <3>1. f \in DOMAIN cache.parsed /\ parsed[f] = cache.parsed[f]
      BY <2>2 DEF StoreParsed, Matching
    <3> QED BY <1>1, <3>1 DEF IsCache
  <2> QED BY <2>1, <2>2
<1> HIDE DEF parsed
<1>8. IsCache(c)
  BY <1>1, <1>7 DEF IsCache, HasMeta
<1> QED BY <1>4, <1>6, <1>8

LEMMA ThreadsAreTyped ==
  ASSUME CacheInv, CacheTypeOK, NEW seeds, NEW fails, NEW n,
         PassThreads(seeds, fails, n)
  PROVE  IsCache(cache') /\ IsCache(saved') /\ IsThreads(shown'.threads)
<1>1. /\ CacheTyped /\ EdgesWithin(pmap) /\ IsCache(cache) /\ IsCache(saved) /\ IsLinked(pmap)
      /\ IsThreads(shown.threads) /\ seeds \subseteq DOMAIN pmap
  BY DEF CacheInv, PassThreads, CacheTypeOK
<1> DEFINE fresh == IF fails THEN Empty ELSE ExtractAll(pmap, seeds \ Kept(cache))
           merged == MergeThreads(cache, seeds, fresh)
           keep == fails /\ DOMAIN shown.threads # {}
           kept == IF keep THEN cache.threads ELSE merged
           meta == [key |-> warm.key, linked |-> pmap]
           c == [meta |-> meta, parsed |-> cache.parsed, threads |-> kept]
<1>2. /\ cache' = Saved([cache EXCEPT !.threads = kept]) /\ saved' = SavedUpTo(n, cache')
      /\ shown' = [threads |-> IF keep THEN shown.threads ELSE merged, failed |-> fails]
  BY <1>1 DEF PassThreads, CacheTyped, CacheShaped
<1>3. cache' = c
  BY <1>1, <1>2 DEF Saved, CacheTyped, CacheShaped
<1>4. IsThreads(fresh)
  BY <1>1, ExtractTyped, EmptyTyped
<1> HIDE DEF fresh
<1>5. IsThreads(merged)
  BY <1>1, <1>4, MergeTyped
<1> HIDE DEF merged
<1>6. IsThreads(kept) /\ IsThreads(shown'.threads)
  BY <1>1, <1>2, <1>5 DEF IsCache
<1> HIDE DEF kept
<1>7. IsCache(c)
  BY <1>1, <1>6 DEF IsCache
<1> HIDE DEF c
<1>8. IsCache(SavedUpTo(n, c))
  BY <1>1, <1>7 DEF IsCache, SavedUpTo, HasMeta
<1> QED BY <1>2, <1>3, <1>6, <1>7, <1>8

LEMMA CacheStepIsTyped ==
  ASSUME CacheAssumption, CacheInv, CacheTypeOK, CacheInv', [CacheNext]_cacheVars
  PROVE  CacheTypeOK'
<1>1. /\ source' \in [texts : [CFile -> Text \cup {NoText}], ctx : Context]
      /\ warm'.at \in {"idle", "due", "parse", "extract"}
      /\ spent' \in [changes : Nat, restarts : Nat, failures : Nat, troubles : Nat]
      /\ faults' \in [whole : BOOLEAN, misfiled : BOOLEAN, torn : BOOLEAN, mixed : BOOLEAN]
  BY DEF CacheInv, CacheTyped
<1> DEFINE Rest == /\ IsCache(cache') /\ IsCache(saved')
                   /\ DOMAIN warm'.reuse \subseteq CFile /\ \A f \in DOMAIN warm'.reuse : warm'.reuse[f] \in IRs
                   /\ DOMAIN warm'.sources \subseteq CFile
                   /\ IsLinked(pmap') /\ IsThreads(shown'.threads) /\ shown'.failed \in BOOLEAN
<1>2. /\ IsCache(cache) /\ IsCache(saved) /\ IsLinked(pmap) /\ IsThreads(shown.threads)
      /\ DOMAIN warm.reuse \subseteq CFile /\ \A f \in DOMAIN warm.reuse : warm.reuse[f] \in IRs
      /\ DOMAIN warm.sources \subseteq CFile /\ shown.failed \in BOOLEAN
  BY DEF CacheTypeOK
<1>3. PassShaped(warm) /\ CacheTyped
  BY DEF CacheInv, CacheTyped
<1>4. ASSUME PassBegins PROVE Rest
  <2> DEFINE reuse == Restrict([f \in DOMAIN cache.parsed |-> cache.parsed[f].ir], Reuse)
  <2>1. warm'.reuse = reuse /\ warm'.sources = Restrict(source.texts, Present)
        /\ UNCHANGED <<cache, saved, pmap, shown>>
    BY <1>4 DEF PassBegins
  <2>2. DOMAIN reuse \subseteq CFile /\ \A f \in DOMAIN reuse : reuse[f] \in IRs
    BY <1>2 DEF Restrict, Reuse, IsCache
  <2>3. DOMAIN Restrict(source.texts, Present) \subseteq CFile
    BY DEF Restrict, Present
  <2> HIDE DEF reuse
  <2> QED BY <1>2, <2>1, <2>2, <2>3
<1>5. ASSUME NEW lost \in SUBSET CFile, NEW again \in SUBSET CFile, NEW unlinked \in SUBSET CFile,
             PassParses(lost, again, unlinked)
      PROVE  Rest
  <2>1. /\ UNCHANGED <<saved, shown>> /\ warm'.reuse = warm.reuse /\ warm'.sources = warm.sources
    BY <1>3, <1>5 DEF PassParses, PassShaped
  <2>2. IsCache(cache') /\ IsLinked(pmap')
    BY <1>5, ParsesAreTyped
  <2> QED BY <1>2, <2>1, <2>2
<1>6. ASSUME NEW seeds \in SUBSET CFile, NEW fails \in BOOLEAN, NEW n \in 0..3,
             PassThreads(seeds, fails, n)
      PROVE  Rest
  <2>1. pmap' = pmap /\ warm' = NoPass /\ shown'.failed = fails
    BY <1>6 DEF PassThreads
  <2>2. NoPass.reuse = Empty /\ NoPass.sources = Empty
    BY DEF NoPass
  <2>3. IsCache(cache') /\ IsCache(saved') /\ IsThreads(shown'.threads)
    BY <1>6, ThreadsAreTyped
  <2> QED BY <1>2, <2>1, <2>2, <2>3, EmptyTyped
<1>7. ASSUME DiskChanges \/ CacheRestart PROVE Rest
  <2>1. warm'.reuse = Empty /\ warm'.sources = Empty /\ saved' = saved
        /\ (cache' = cache \/ cache' = saved \/ cache' = NoCache)
        /\ (pmap' = pmap \/ pmap' = Empty)
        /\ (shown' = shown \/ (shown'.threads = Empty /\ shown'.failed = FALSE))
    BY <1>7 DEF DiskChanges, CacheRestart, NoPass
  <2>2. IsCache(cache') /\ IsCache(saved') /\ IsLinked(pmap') /\ IsThreads(shown'.threads)
        /\ shown'.failed \in BOOLEAN
    BY <1>2, <2>1, EmptyTyped
  <2> QED BY <2>1, <2>2, EmptyTyped
<1>8. ASSUME UNCHANGED cacheVars PROVE Rest
  BY <1>2, <1>8 DEF cacheVars
<1>9. Rest
  BY <1>4, <1>5, <1>6, <1>7, <1>8 DEF CacheNext
<1>10. IsCache(cache)' /\ IsCache(saved)' /\ IsLinked(pmap)' /\ IsThreads(shown.threads)'
  BY <1>9 DEF IsCache, IsLinked, IsThreads, HasMeta
<1> QED BY <1>1, <1>9, <1>10 DEF CacheTypeOK

\* The types of the cache, for every project and any number of failures.
LEMMA CacheIsTyped ==
  CacheSpec => []CacheTypeOK
<1>1. CacheInit => CacheTypeOK
  <2> SUFFICES ASSUME CacheInit PROVE CacheTypeOK
    OBVIOUS
  <2>1. /\ cache = NoCache /\ saved = NoCache /\ pmap = Empty
        /\ shown = [threads |-> Empty, failed |-> FALSE]
        /\ warm.at = "due" /\ warm.reuse = Empty /\ warm.sources = Empty
    BY DEF CacheInit, NoPass
  <2>2. CacheTyped
    BY CacheInitially DEF CacheInv
  <2> QED BY <2>1, <2>2, EmptyTyped DEF CacheTypeOK, CacheTyped
<1>2. CacheInv /\ CacheTypeOK /\ CacheInv' /\ [CacheNext]_cacheVars => CacheTypeOK'
  BY CacheStepIsTyped, CacheAssumption
<1> QED BY <1>1, <1>2, CacheHolds, PTL DEF CacheSpec

------------------------------------------------------------------------------
(* The live map's own edits.                                                *)

\* A patch is at a step of its kind, and a restore is within its files.
PatchStages == {"idle", "done", "writing", "written", "parsing", "restoring", "reading", "linking"}

PatchAtStep(p, job) ==
  /\ "at" \in DOMAIN job /\ job.at \in PatchStages
  /\ job.at \in {"writing", "written", "parsing"} =>
       Kind[p] # "restore" /\ "backup" \in DOMAIN job /\ job.backup \in [Touches[p] -> Nat]
  /\ job.at \in {"restoring", "reading"} => "left" \in DOMAIN job /\ job.left \subseteq Touches[p]

\* A file has one patch at a time.
OnePatch(pa) ==
  \A p, q \in Patch : p # q /\ Busy(pa[p]) /\ Busy(pa[q]) => Touches[p] \cap Touches[q] = {}

\* A patch that wrote finds what it wrote, or an external edit of it.
WrittenIsThere(d, pa) ==
  \A p \in Patch : pa[p].at \in {"written", "parsing"} => \A f \in Touches[p] : d[f] # 0

\* Somebody else changed the tree, or a rollback did.
Foreign(t, br) == br # {} \/ \E f \in External : t[f] > Started(f)

InFlight(pa, f) == \E p \in Patch : f \in Touches[p] /\ pa[p].at \in {"writing", "written"}

\* A notification on its way is of a stamped file, or of a foreign change.
EventsAreStamped(t, br, pa, st, ev) ==
  ev \subseteq File /\ \A f \in ev : f \in st \/ InFlight(pa, f) \/ Foreign(t, br)

\* Versions only grow, from the one a file begins with.
TreeGrows(d, t) ==
  d \in Version /\ t \in Version /\ \A f \in File : t[f] >= Started(f)

Patches(d, pa) ==
  /\ DOMAIN pa = Patch /\ \A p \in Patch : PatchAtStep(p, pa[p])
  /\ OnePatch(pa) /\ WrittenIsThere(d, pa)

\* The inductive invariant of the self-edit stamps.
StampInv ==
  /\ TreeGrows(disk, top) /\ Patches(disk, patch)
  /\ EventsAreStamped(top, broken, patch, stamped, events)
  /\ reparse \/ passing => Foreign(top, broken)

\* One patch moves on: it is another's turn with none of its files, and what it
\* wrote is there.
LEMMA PatchMoves ==
  ASSUME StampInv, NEW p \in Patch, NEW job, patch' = [patch EXCEPT ![p] = job],
         PatchAtStep(p, job),
         Busy(job) => \/ Busy(patch[p])
                      \/ \A q \in Patch : Busy(patch[q]) => Touches[q] \cap Touches[p] = {},
         NEW d, \A f \in File : d[f] # 0 \/ d[f] = disk[f] \/ (f \in Touches[p] /\ Busy(patch[p])),
         job.at \in {"written", "parsing"} => \A f \in Touches[p] : d[f] # 0
  PROVE  Patches(d, patch')
<1>1. DOMAIN patch = Patch /\ OnePatch(patch) /\ WrittenIsThere(disk, patch)
      /\ \A q \in Patch : PatchAtStep(q, patch[q])
  BY DEF StampInv, Patches
<1>2. DOMAIN patch' = Patch /\ patch'[p] = job /\ \A q \in Patch : q # p => patch'[q] = patch[q]
  BY <1>1
<1>3. \A q \in Patch : Touches[q] \subseteq File
  BY LiveMapAssumption
<1>4. \A q \in Patch : PatchAtStep(q, patch'[q])
  BY <1>1, <1>2
<1>5. OnePatch(patch')
  BY <1>1, <1>2 DEF OnePatch
<1>6. WrittenIsThere(d, patch')
  <2> SUFFICES ASSUME NEW q \in Patch, patch'[q].at \in {"written", "parsing"}, NEW f \in Touches[q]
               PROVE  d[f] # 0
    BY DEF WrittenIsThere
  <2>1. CASE q = p
    BY <1>2, <2>1
  <2>2. CASE q # p
    <3>1. patch[q].at \in {"written", "parsing"} /\ disk[f] # 0 /\ f \in File
      BY <1>1, <1>2, <1>3, <2>2 DEF WrittenIsThere
    <3>2. ~(f \in Touches[p] /\ Busy(patch[p]))
      BY <1>1, <2>2, <3>1 DEF OnePatch, Busy
    <3> QED BY <3>1, <3>2
  <2> QED BY <2>1, <2>2
<1> QED BY <1>2, <1>4, <1>5, <1>6 DEF Patches

\* The stamps, the notifications and what may set a pass off after a step.
LEMMA StampsMove ==
  ASSUME StampInv, TreeGrows(disk', top'), Patches(disk', patch'),
         Foreign(top, broken) => Foreign(top', broken'),
         \A f \in stamped : f \in stamped' \/ f \notin events',
         \A f \in events' : \/ f \in events \/ f \in stamped'
                            \/ InFlight(patch', f) \/ Foreign(top', broken'),
         \A f \in File : InFlight(patch, f) => InFlight(patch', f) \/ f \in stamped',
         events' \subseteq File,
         reparse' \/ passing' => reparse \/ passing \/ Foreign(top', broken')
  PROVE  StampInv'
<1>1. EventsAreStamped(top', broken', patch', stamped', events')
  BY DEF StampInv, EventsAreStamped
<1>2. reparse' \/ passing' => Foreign(top', broken')
  BY DEF StampInv
<1> QED BY <1>1, <1>2 DEF StampInv

\* The types and parts of the invariant that a step of a patch needs.
LEMMA StampFacts ==
  ASSUME StampInv
  PROVE  /\ disk \in Version /\ top \in Version /\ \A f \in File : top[f] >= Started(f)
         /\ TreeGrows(disk, top) /\ events \subseteq File
         /\ DOMAIN patch = Patch /\ \A p \in Patch : PatchAtStep(p, patch[p])
         /\ \A p \in Patch : Touches[p] \subseteq File
         /\ \A p \in Patch : Kind[p] # "restore" =>
              \A f, g \in Touches[p] : f = g
         /\ RestoreTo \in [Patch -> [File -> Nat]]
<1>1. \A p \in Patch : Touches[p] \subseteq File
  BY LiveMapAssumption
<1>2. \A p \in Patch : Kind[p] # "restore" => \A f, g \in Touches[p] : f = g
  <2> SUFFICES ASSUME NEW p \in Patch, Kind[p] # "restore" PROVE \A f, g \in Touches[p] : f = g
    OBVIOUS
  <2>1. PICK f \in File : Touches[p] = {f}
    BY LiveMapAssumption
  <2> QED BY <2>1
<1> QED
  BY <1>1, <1>2, LiveMapAssumption DEF StampInv, TreeGrows, Patches, EventsAreStamped

\* A patch that writes nothing in this step: it starts, its rewriter returns, its
\* parse lands, it links or ends.
LEMMA QuietStepOfPatch ==
  ASSUME StampInv, NEW p \in Patch, NEW job, patch' = [patch EXCEPT ![p] = job],
         PatchAtStep(p, job), job.at # "written",
         Busy(job) => \/ Busy(patch[p])
                      \/ \A q \in Patch : Busy(patch[q]) => Touches[q] \cap Touches[p] = {},
         job.at = "parsing" => patch[p].at = "written",
         stamped \subseteq stamped',
         patch[p].at \in {"writing", "written"} => Touches[p] \subseteq stamped',
         UNCHANGED <<disk, top, broken, events, reparse, passing>>
  PROVE  StampInv'
<1>1. /\ TreeGrows(disk, top) /\ events \subseteq File
      /\ DOMAIN patch = Patch /\ WrittenIsThere(disk, patch)
      /\ \A q \in Patch : PatchAtStep(q, patch[q])
  BY StampFacts DEF StampInv, Patches
<1>2. Patches(disk, patch')
  <2>1. job.at \in {"written", "parsing"} => \A f \in Touches[p] : disk[f] # 0
    BY <1>1 DEF WrittenIsThere
  <2> QED BY <2>1, PatchMoves
<1>3. \A f \in File : InFlight(patch, f) => InFlight(patch', f) \/ f \in stamped'
  <2>1. \A q \in Patch : q # p => patch'[q] = patch[q]
    BY <1>1
  <2> QED BY <2>1 DEF InFlight
<1>4. UNCHANGED <<disk, top, broken, events>>
  OBVIOUS
<1> QED BY <1>1, <1>2, <1>3, <1>4, StampsMove DEF TreeGrows, Foreign

\* Files are edited, created and restored under a stamp.
LEMMA PatchesAreStamped ==
  ASSUME StampInv, NEW p \in Patch, BeginEdit(p) \/ BeginRestore(p) \/ PatchStep(p)
  PROVE  StampInv'
<1>1. /\ disk \in Version /\ top \in Version /\ \A f \in File : top[f] >= Started(f)
      /\ TreeGrows(disk, top) /\ events \subseteq File
      /\ DOMAIN patch = Patch /\ PatchAtStep(p, patch[p])
      /\ Touches[p] \subseteq File /\ WrittenIsThere(disk, patch)
      /\ Kind[p] # "restore" => \A f, g \in Touches[p] : f = g
      /\ RestoreTo \in [Patch -> [File -> Nat]]
  BY StampFacts DEF StampInv, Patches
<1>2. "at" \in DOMAIN patch[p]
  BY <1>1 DEF PatchAtStep
<1>3. PatchAtStep(p, Done) /\ ~Busy(Done) /\ Done.at = "done"
  BY DEF PatchAtStep, PatchStages, Done, Busy
<1>4. CASE BeginEdit(p)
  <2> DEFINE job == [at |-> "writing", backup |-> [f \in Touches[p] |-> disk[f]]]
  <2>1. /\ Kind[p] # "restore" /\ patch' = [patch EXCEPT ![p] = job]
        /\ stamped \subseteq stamped' /\ UNCHANGED <<disk, top, broken, events, reparse, passing>>
        /\ \A q \in Patch : Busy(patch[q]) => Touches[q] \cap Touches[p] = {}
        /\ patch[p] = Idle
    BY <1>4 DEF BeginEdit, MayBegin, tree, passes
  <2>2. [f \in Touches[p] |-> disk[f]] \in [Touches[p] -> Nat]
    BY <1>1 DEF Version
  <2>3. PatchAtStep(p, job) /\ job.at = "writing" /\ patch[p].at = "idle"
    BY <2>1, <2>2 DEF PatchAtStep, PatchStages, Idle
  <2> HIDE DEF job
  <2> QED BY <2>1, <2>3, QuietStepOfPatch
<1>5. CASE BeginRestore(p)
  <2> DEFINE job == [at |-> "restoring", left |-> Touches[p], any |-> FALSE]
  <2>1. /\ patch' = [patch EXCEPT ![p] = job]
        /\ UNCHANGED <<disk, top, broken, stamped, events, reparse, passing>>
        /\ \A q \in Patch : Busy(patch[q]) => Touches[q] \cap Touches[p] = {}
        /\ patch[p] = Idle
    BY <1>5 DEF BeginRestore, MayBegin, tree, passes, watcher
  <2>2. PatchAtStep(p, job) /\ job.at = "restoring" /\ patch[p].at = "idle"
    BY <2>1 DEF PatchAtStep, PatchStages, Idle
  <2> HIDE DEF job
  <2> QED BY <2>1, <2>2, QuietStepOfPatch
<1>6. CASE RewriterReturns(p)
  <2>1. stamped' = stamped \cup Touches[p] /\ UNCHANGED <<disk, top, broken, events, reparse,
                                                          passing>>
    BY <1>6 DEF RewriterReturns, tree, passes
  <2>2. CASE patch[p].at = "writing" /\ patch' = [patch EXCEPT ![p] = Done]
    BY <1>3, <2>1, <2>2, QuietStepOfPatch
  <2>3. CASE patch[p].at = "written" /\ patch' = [patch EXCEPT ![p].at = "parsing"]
    <3> DEFINE job == [patch[p] EXCEPT !.at = "parsing"]
    <3>1. patch' = [patch EXCEPT ![p] = job]
      BY <2>3
    <3>2. PatchAtStep(p, job) /\ job.at = "parsing"
      BY <1>1, <2>3 DEF PatchAtStep, PatchStages
    <3> HIDE DEF job
    <3> QED BY <2>1, <2>3, <3>1, <3>2, QuietStepOfPatch DEF Busy
  <2> QED BY <1>6, <2>2, <2>3 DEF RewriterReturns
<1>7. ASSUME NEW f \in File, ParseLands(p, f) PROVE StampInv'
  <2> DEFINE job == [at |-> "linking", link |-> LinkOf(map', gens')]
  <2>1. /\ patch[p].at = "parsing" /\ patch' = [patch EXCEPT ![p] = job]
        /\ stamped \subseteq stamped' /\ UNCHANGED <<disk, top, broken, events, reparse, passing>>
    BY <1>7 DEF ParseLands, tree, passes
  <2>2. PatchAtStep(p, job) /\ job.at = "linking"
    BY DEF PatchAtStep, PatchStages
  <2> HIDE DEF job
  <2> QED BY <2>1, <2>2, QuietStepOfPatch DEF Busy
<1>8. CASE RestoredParseLands(p)
  <2> DEFINE job == [at |-> "restoring", left |-> patch[p].left, any |-> TRUE]
  <2>1. /\ patch[p].at = "reading" /\ patch' = [patch EXCEPT ![p] = job]
        /\ UNCHANGED <<disk, top, broken, stamped, events, reparse, passing>>
    BY <1>1, <1>8 DEF RestoredParseLands, tree, watcher, passes
  <2>2. PatchAtStep(p, job) /\ job.at = "restoring"
    BY <1>1, <2>1 DEF PatchAtStep, PatchStages
  <2> HIDE DEF job
  <2> QED BY <2>1, <2>2, QuietStepOfPatch DEF Busy
<1>9. CASE RestoreLinks(p)
  <2>1. PICK job \in {[at |-> "linking", link |-> LinkOf(map, gens)], Done} :
          patch' = [patch EXCEPT ![p] = job]
    BY <1>1, <1>9 DEF RestoreLinks
  <2>2. /\ patch[p].at = "restoring"
        /\ UNCHANGED <<disk, top, broken, stamped, events, reparse, passing>>
    BY <1>9 DEF RestoreLinks, tree, watcher, passes
  <2>3. PatchAtStep(p, job) /\ job.at \in {"linking", "done"}
    BY <1>3 DEF PatchAtStep, PatchStages
  <2> QED BY <2>1, <2>2, <2>3, QuietStepOfPatch DEF Busy
<1>10. CASE \E ok \in BOOLEAN : PatchEnds(p, ok)
  <2>1. /\ patch[p].at = "linking" /\ patch' = [patch EXCEPT ![p] = Done]
        /\ UNCHANGED <<disk, top, broken, stamped, events, reparse, passing>>
    BY <1>10 DEF PatchEnds, tree, watcher, passes
  <2> QED BY <1>3, <2>1, QuietStepOfPatch
\* The steps that write a file.
<1>11. ASSUME NEW f \in Touches[p], Busy(patch[p]), NEW v \in Nat, NEW job,
              patch' = [patch EXCEPT ![p] = job], PatchAtStep(p, job),
              disk' = [disk EXCEPT ![f] = v], events' = events \cup {f},
              top' \in Version, \A g \in File : top'[g] >= top[g], broken \subseteq broken',
              stamped \subseteq stamped',
              job.at # "parsing", job.at = "written" => \A g \in Touches[p] : disk'[g] # 0,
              f \in stamped' \/ job.at = "written" \/ broken # {},
              patch[p].at \in {"writing", "written"} => job.at = "written",
              UNCHANGED <<reparse, passing>>
       PROVE  StampInv'
  <2>1. f \in File
    BY <1>1, <1>11
  <2>2. disk' \in Version /\ \A g \in File : g # f => disk'[g] = disk[g]
    BY <1>1, <1>11, <2>1 DEF Version
  <2>3. TreeGrows(disk', top')
    <3>1. \A g \in File : Started(g) \in Nat /\ top[g] \in Nat /\ top'[g] \in Nat
      BY <1>1, <1>11 DEF Started, Version
    <3>2. \A g \in File : top'[g] >= Started(g)
      BY <1>1, <1>11, <3>1
    <3> QED BY <1>11, <2>2, <3>2 DEF TreeGrows
  <2>4. Patches(disk', patch')
    <3>1. \A g \in File : disk'[g] # 0 \/ disk'[g] = disk[g] \/ (g \in Touches[p] /\ Busy(patch[p]))
      BY <1>11, <2>2
    <3> QED BY <1>11, <3>1, PatchMoves
  <2>5. Foreign(top, broken) => Foreign(top', broken')
    <3>1. \A g \in File : Started(g) \in Nat /\ top[g] \in Nat /\ top'[g] \in Nat
      BY <1>1, <1>11 DEF Started, Version
    <3>2. \A g \in File : top[g] > Started(g) => top'[g] > Started(g)
      BY <1>11, <3>1
    <3> QED BY <1>11, <3>2, LiveMapAssumption DEF Foreign
  <2>6. patch'[p] = job /\ \A q \in Patch : q # p => patch'[q] = patch[q]
    BY <1>1, <1>11
  <2>7. \A g \in File : InFlight(patch, g) => InFlight(patch', g)
    BY <1>11, <2>6 DEF InFlight
  <2>8. f \in stamped' \/ InFlight(patch', f) \/ Foreign(top', broken')
    BY <1>11, <2>6 DEF InFlight, Foreign
  <2>9. events' \subseteq File /\ \A g \in events' : g \in events \/ g = f
    BY <1>1, <1>11, <2>1
  <2> QED BY <1>11, <2>3, <2>4, <2>5, <2>7, <2>8, <2>9, StampsMove
<1>12. ASSUME NEW f \in File, RewriterWrites(p, f) PROVE StampInv'
  <2> DEFINE job == [patch[p] EXCEPT !.at = "written"]
  <2>1. /\ f \in Touches[p] /\ patch[p].at = "writing" /\ patch' = [patch EXCEPT ![p] = job]
        /\ disk' = [disk EXCEPT ![f] = top[f] + 1] /\ events' = events \cup {f}
        /\ top' = [top EXCEPT ![f] = top[f] + 1] /\ broken \subseteq broken'
        /\ UNCHANGED <<stamped, reparse, passing>>
    BY <1>1, <1>12 DEF RewriterWrites, Write, passes, Version
  <2>2. PatchAtStep(p, job) /\ job.at = "written" /\ Kind[p] # "restore"
    BY <1>1, <2>1 DEF PatchAtStep, PatchStages
  <2>3. top[f] + 1 \in Nat /\ top[f] + 1 # 0 /\ top[f] \in Nat
    BY <1>1 DEF Version
  <2>4. top' \in Version /\ \A g \in File : top'[g] >= top[g]
    BY <1>1, <2>1, <2>3 DEF Version
  <2>5. \A g \in Touches[p] : disk'[g] # 0
    BY <1>1, <2>1, <2>2, <2>3 DEF Version
  <2> HIDE DEF job
  <2>6. Busy(patch[p])
    BY <2>1 DEF Busy
  <2> QED BY <1>11, <2>1, <2>2, <2>3, <2>4, <2>5, <2>6
<1>13. ASSUME NEW f \in File, RollBack(p, f) PROVE StampInv'
  <2>1. /\ f \in Touches[p] /\ patch[p].at = "parsing" /\ patch' = [patch EXCEPT ![p] = Done]
        /\ ParseOf(f, disk[f]) = 0
        /\ disk' = [disk EXCEPT ![f] = patch[p].backup[f]] /\ events' = events \cup {f}
        /\ UNCHANGED <<top, broken, stamped, reparse, passing>>
    BY <1>13 DEF RollBack, Write, passes
  <2>2. broken # {}
    BY <1>1, <2>1 DEF ParseOf, WrittenIsThere
  <2>3. patch[p].backup[f] \in Nat
    BY <1>1, <2>1 DEF PatchAtStep
  <2>4. top' \in Version /\ \A g \in File : top'[g] >= top[g]
    BY <1>1, <2>1 DEF Version
  <2>5. Busy(patch[p]) /\ Done.at # "parsing" /\ Done.at # "written"
        /\ patch[p].at \notin {"writing", "written"}
    BY <1>3, <2>1 DEF Busy
  <2>6. stamped \subseteq stamped' /\ broken \subseteq broken' /\ UNCHANGED <<reparse, passing>>
    BY <2>1
  <2> QED BY <1>3, <1>11, <2>1, <2>2, <2>3, <2>4, <2>5, <2>6
<1>14. ASSUME NEW f \in File, RestoreOne(p, f) PROVE StampInv'
  <2>1. /\ patch[p].at = "restoring" /\ f \in patch[p].left /\ f \in Touches[p]
        /\ "left" \in DOMAIN patch[p] /\ patch[p].left \subseteq Touches[p]
        /\ UNCHANGED <<top, broken, reparse, passing>>
    BY <1>1, <1>14 DEF RestoreOne, PatchAtStep, passes
  <2>2. top' \in Version /\ \A g \in File : top'[g] >= top[g]
    BY <1>1, <2>1 DEF Version
  <2>3. Busy(patch[p]) /\ patch[p].at \notin {"writing", "written"}
    BY <2>1 DEF Busy
  <2> DEFINE left == patch[p].left \ {f}
             one == [patch[p] EXCEPT !.left = left]
             any == [patch[p] EXCEPT !.left = left, !.any = TRUE]
             reading == [at |-> "reading", file |-> f, left |-> left]
  <2>4. PatchAtStep(p, one) /\ one.at = "restoring" /\ PatchAtStep(p, any) /\ any.at = "restoring"
    BY <1>1, <2>1 DEF PatchAtStep
  <2>5. PatchAtStep(p, reading) /\ reading.at = "reading"
    BY <2>1 DEF PatchAtStep, PatchStages
  <2>6. \/ /\ patch' = [patch EXCEPT ![p] = one]
           /\ UNCHANGED <<disk, stamped, events>>
        \/ /\ patch' \in {[patch EXCEPT ![p] = any], [patch EXCEPT ![p] = reading]}
           /\ disk' = [disk EXCEPT ![f] = RestoreTo[p][f]] /\ events' = events \cup {f}
           /\ stamped' = stamped \cup {f}
    BY <1>1, <1>14, <2>1 DEF RestoreOne, Write
  <2>7. RestoreTo[p][f] \in Nat
    BY <1>1
  <2> HIDE DEF one, any, reading
  <2>8. CASE /\ patch' = [patch EXCEPT ![p] = one]
             /\ UNCHANGED <<disk, stamped, events>>
    BY <2>1, <2>3, <2>4, <2>8, QuietStepOfPatch
  <2>9. ASSUME NEW job \in {any, reading}, patch' = [patch EXCEPT ![p] = job],
               disk' = [disk EXCEPT ![f] = RestoreTo[p][f]], events' = events \cup {f},
               stamped' = stamped \cup {f}
        PROVE  StampInv'
    <3>1. PatchAtStep(p, job) /\ job.at \in {"restoring", "reading"}
      BY <2>4, <2>5, <2>9
    <3>2. stamped \subseteq stamped' /\ f \in stamped' /\ broken \subseteq broken'
          /\ UNCHANGED <<reparse, passing>>
      BY <2>1, <2>9
    <3>3. job.at # "parsing" /\ job.at # "written"
      BY <3>1
    <3> QED BY <1>11, <2>1, <2>2, <2>3, <2>7, <2>9, <3>1, <3>2, <3>3
  <2> QED BY <2>6, <2>8, <2>9
<1> QED
  BY <1>4, <1>5, <1>6, <1>7, <1>8, <1>9, <1>10, <1>12, <1>13, <1>14 DEF PatchStep

\* The first state: no patch, no notification, no pass.
LEMMA StampsInitially ==
  Init => StampInv
<1> SUFFICES ASSUME Init PROVE StampInv
  OBVIOUS
<1>1. TreeGrows(disk, top)
  BY DEF Init, TreeGrows, Version, Started
<1>2. Patches(disk, patch)
  <2>1. (\A p \in Patch : PatchAtStep(p, Idle)) /\ Idle.at = "idle" /\ ~Busy(Idle)
    BY DEF PatchAtStep, PatchStages, Idle, Busy
  <2> QED BY <2>1 DEF Init, Patches, OnePatch, WrittenIsThere
<1> QED BY <1>1, <1>2 DEF Init, StampInv, EventsAreStamped

\* A file changes from outside, notifications arrive and stamps expire, each
\* after its notification (watchProject, isRecentSelfEdit).
LEMMA WatcherIsStamped ==
  ASSUME StampInv, NEW f \in File, ExternalEdit(f) \/ EventArrives(f) \/ StampExpires(f)
  PROVE  StampInv'
<1>1. /\ disk \in Version /\ top \in Version /\ \A g \in File : top[g] >= Started(g)
      /\ TreeGrows(disk, top) /\ events \subseteq File
      /\ DOMAIN patch = Patch /\ \A q \in Patch : PatchAtStep(q, patch[q])
  BY StampFacts
<1>2. patch' = patch /\ OnePatch(patch) /\ WrittenIsThere(disk, patch) /\ Patches(disk, patch)
  BY DEF StampInv, Patches, ExternalEdit, EventArrives, StampExpires
<1>3. \A g \in File : InFlight(patch, g) => InFlight(patch', g)
  BY <1>2
<1>4. CASE ExternalEdit(f)
  <2>1. /\ f \in External /\ disk' = [disk EXCEPT ![f] = top[f] + 1]
        /\ top' = [top EXCEPT ![f] = top[f] + 1] /\ events' = events \cup {f}
        /\ UNCHANGED <<broken, stamped, reparse, passing>>
    BY <1>1, <1>4 DEF ExternalEdit, Write, passes
  <2>2. /\ top[f] \in Nat /\ top[f] + 1 \in Nat /\ top[f] + 1 # 0
        /\ \A g \in File : Started(g) \in Nat /\ top[g] \in Nat
    BY <1>1 DEF Version, Started
  <2>3. top' \in Version /\ disk' \in Version
        /\ \A g \in File : g # f => disk'[g] = disk[g] /\ top'[g] = top[g]
    BY <1>1, <2>1, <2>2 DEF Version
  <2>4. disk'[f] = top[f] + 1 /\ top'[f] = top[f] + 1
    BY <1>1, <2>1 DEF Version
  <2>5. TreeGrows(disk', top') /\ top'[f] > Started(f)
    BY <1>1, <2>2, <2>3, <2>4 DEF TreeGrows
  <2>6. Patches(disk', patch')
    <3>1. \A p \in Patch : Touches[p] \subseteq File
      BY StampFacts
    <3>2. WrittenIsThere(disk', patch)
      BY <1>2, <2>2, <2>3, <2>4, <3>1 DEF WrittenIsThere
    <3> QED BY <1>1, <1>2, <3>2 DEF Patches
  <2>7. Foreign(top', broken')
    BY <2>1, <2>5 DEF Foreign
  <2>8. events' \subseteq File
    BY <1>1, <2>1
  <2> QED BY <1>3, <2>1, <2>5, <2>6, <2>7, <2>8, StampsMove
<1>5. CASE EventArrives(f) \/ StampExpires(f)
  <2>1. UNCHANGED <<disk, top, broken, passing>>
    BY <1>5 DEF EventArrives, StampExpires, tree, passes
  <2>2. TreeGrows(disk', top') /\ Patches(disk', patch') /\ Foreign(top', broken') = Foreign(top, broken)
    BY <1>1, <1>2, <2>1 DEF TreeGrows, Foreign
  <2>3. CASE EventArrives(f)
    <3>1. f \in events /\ events' = events \ {f} /\ stamped' = stamped
          /\ reparse' = (reparse \/ ~IsRecentSelfEdit(f))
      BY <2>3 DEF EventArrives
    <3>2. ~IsRecentSelfEdit(f) => Foreign(top, broken)
      BY <3>1 DEF IsRecentSelfEdit, SelfEditInFlight, InFlight, StampInv, EventsAreStamped
    <3>3. reparse' => reparse \/ Foreign(top, broken)
      BY <3>1, <3>2
    <3> QED BY <1>1, <1>3, <2>1, <2>2, <3>1, <3>3, StampsMove
  <2>4. CASE StampExpires(f)
    <3>1. f \notin events /\ events' = events /\ stamped' = stamped \ {f} /\ reparse' = reparse
      BY <2>4 DEF StampExpires
    <3>2. \A g \in stamped : g \in stamped' \/ g \notin events'
      BY <3>1
    <3>3. EventsAreStamped(top', broken', patch', stamped', events')
      BY <1>2, <2>1, <3>1 DEF StampInv, EventsAreStamped, Foreign
    <3> QED BY <1>1, <2>1, <2>2, <3>1, <3>3 DEF StampInv
  <2> QED BY <1>5, <2>3, <2>4
<1> QED BY <1>4, <1>5

\* Whatever happens, what has been written stays stamped.
LEMMA StampsHold ==
  StampInv /\ [MapNext]_mapVars => StampInv'
<1> SUFFICES ASSUME StampInv, [MapNext]_mapVars PROVE StampInv'
  OBVIOUS
<1>1. ASSUME NEW p \in Patch, BeginEdit(p) \/ BeginRestore(p) \/ PatchStep(p) PROVE StampInv'
  BY <1>1, PatchesAreStamped
<1>2. ASSUME NEW f \in File, ExternalEdit(f) \/ EventArrives(f) \/ StampExpires(f)
      PROVE  StampInv'
  BY <1>2, WatcherIsStamped
\* Everything else reads the tree and the stamps, if at all.
<1>3. ASSUME UNCHANGED <<disk, top, broken, patch, stamped, events>>,
             reparse' \/ passing' => reparse \/ passing
      PROVE  StampInv'
  BY <1>3 DEF StampInv, TreeGrows, Patches, OnePatch, WrittenIsThere, EventsAreStamped, Foreign,
     InFlight
<1>4. ASSUME NEW i \in Pass, PassStep(i) PROVE StampInv'
  <2>1. UNCHANGED <<disk, top, broken, patch, stamped, events>>
    BY <1>4 DEF PassStep, BeginPass, PassMerges, PassDiscovers, PassExtracts, PassEnds, PassReads,
       tree, watcher
  <2>2. reparse' \/ passing' => reparse \/ passing
    BY <1>4 DEF PassStep, BeginPass, PassMerges, PassDiscovers, PassExtracts, PassEnds, PassReads,
       passes, watcher
  <2> QED BY <1>3, <2>1, <2>2
<1>5. CASE RefreshStep \/ SettleLooks \/ BeginSettle \/ SettleTimesOut
  <2>1. UNCHANGED <<disk, top, broken, patch, stamped, events, reparse, passing>>
    BY <1>5 DEF RefreshStep, TimerFires, RefreshMerges, RefreshDiscovers, RefreshExtracts,
       RefreshEnds, SettleLooks, BeginSettle, SettleTimesOut, tree, watcher, passes
  <2> QED BY <1>3, <2>1
<1>6. CASE UNCHANGED mapVars
  BY <1>3, <1>6 DEF mapVars, tree, watcher, passes
<1> QED
  BY <1>1, <1>2, <1>4, <1>5, <1>6 DEF MapNext, MapServerStep, MapEnvironment

\* VibeGraph's own writes never start a full pass, however late their
\* notifications arrive within the two seconds and whatever they overlap, for
\* any files and any number of patches, restores and passes (beginSelfEdit,
\* endSelfEdit, isRecentSelfEdit): a pass that is due or runs comes after an edit
\* from outside, or after a write that did not parse.
THEOREM OwnEditsNeverStartAPass ==
  MapSpec => []OwnEditsStartNoPass
<1>1. StampInv => OwnEditsStartNoPass
  BY DEF StampInv, Foreign, OwnEditsStartNoPass
<1> QED BY <1>1, StampsHold, StampsInitially, PTL DEF MapSpec

------------------------------------------------------------------------------
(* The map follows the tree.                                                *)

\* What the code leaves to people and to git: a restore puts back what the
\* project began with, and nobody changes the files of a packet from outside
\* (its notification would be taken for the packet's own, within two seconds).
PatchHyp ==
  \A p \in Patch : /\ Touches[p] \cap External = {}
                   /\ \A f \in Touches[p] : RestoreTo[p][f] <= Started(f)

\* A map, and a link that started from one when the generations were at most g.
MapIs(m) == m \in Map /\ \A f \in File : m[f].ver = 0 => m[f] = Gone

LinkIs(link, g) ==
  /\ link.since \in Version /\ MapIs(link.of)
  /\ \A f \in File : link.since[f] <= g[f]

PatchIs(p, job, g) ==
  /\ job.at = "restoring" => "any" \in DOMAIN job /\ job.any \in BOOLEAN
  /\ job.at = "reading" => job.file \in Touches[p]
  /\ job.at = "linking" => LinkIs(job.link, g)

Deriving == {"discovering", "extracting", "rolling"}

RefreshIs(job, g) ==
  /\ job.at \in {"idle", "linking"} \cup Deriving
  /\ job.at = "linking" => LinkIs(job.link, g)

PassIs(job, g) ==
  /\ job.at \in {"idle", "done", "parsing"} \cup Deriving
  /\ job.at = "parsing" =>
       /\ {"at", "since", "left", "read"} \subseteq DOMAIN job
       /\ job.since \in Version /\ job.read \in Version
       /\ \A f \in File : job.since[f] <= g[f]

ShapeInv ==
  /\ MapIs(map) /\ gens \in Version
  /\ DOMAIN patch = Patch /\ \A p \in Patch : PatchIs(p, patch[p], gens)
  /\ RefreshIs(refresh, gens)
  /\ DOMAIN pass = Pass /\ \A i \in Pass : PassIs(pass[i], gens)

\* What does not parse stands nowhere but in the hands of the patch that wrote it.
TreeInv ==
  /\ \A f \in File : disk[f] <= top[f]
  /\ broken \subseteq (File \ External) \X Nat
  /\ \A f \in File : \A v \in Nat : <<f, v>> \in broken => Started(f) < v /\ v <= top[f]
  /\ \A f \in File : \/ <<f, disk[f]>> \notin broken
                     \/ \E p \in Patch : f \in Touches[p] /\ patch[p].at \in {"written", "parsing"}
  /\ \A p \in Patch : \A f \in Touches[p] :
       /\ patch[p].at \in {"writing", "written", "parsing"} =>
            patch[p].backup[f] <= top[f] /\ <<f, patch[p].backup[f]>> \notin broken
       /\ patch[p].at = "writing" => patch[p].backup[f] = disk[f]

\* The flags tell what is under way, and no stamp is of a file changed from outside.
RaceInv ==
  /\ raced \in BOOLEAN /\ (Racing => raced)
  /\ ~raced => \A i \in Pass : Busy(pass[i]) => passing
  /\ queued => Busy(refresh)
  /\ stamped \cap External = {}

\* The versions of a file that may stand in the map: the one on disk, the one a
\* patch replaced until its parse lands, any at all where the code fails.
Standing ==
  [f \in File |-> {v \in Nat :
     \/ raced /\ \E b \in broken : b[1] = f
     \/ v = disk[f] /\ <<f, v>> \notin broken
     \/ \E p \in Patch : /\ f \in Touches[p]
                         /\ \/ patch[p].at \in {"written", "parsing"} /\ v = patch[p].backup[f]
                            \/ patch[p].at = "reading" /\ patch[p].file = f}]

\* A link under way puts such versions into the map, but for files parsed since.
LinkStands(link, g, S) ==
  \A f \in File \ External : link.since[f] = g[f] => link.of[f].ver \in S[f]

PassStands(job, g, S) ==
  \A f \in File \ External :
    f \notin job.left /\ job.since[f] = g[f] => job.read[f] \in S[f]

CopiesInv ==
  /\ \A f \in File \ External : map[f].ver \in Standing[f]
  /\ \A p \in Patch : patch[p].at = "linking" => LinkStands(patch[p].link, gens, Standing)
  /\ refresh.at = "linking" => LinkStands(refresh.link, gens, Standing)
  /\ \A i \in Pass : pass[i].at = "parsing" => PassStands(pass[i], gens, Standing)

\* Without a race a link changes no version, and a pass is the only one to work.
LinkTrue(link, g, m) == \A f \in File : link.since[f] = g[f] => link.of[f].ver = m[f].ver

TrueInv == ~raced =>
  /\ \A p \in Patch : patch[p].at = "linking" => LinkTrue(patch[p].link, gens, map)
  /\ refresh.at = "linking" => LinkTrue(refresh.link, gens, map)
  /\ \A i \in Pass : pass[i].at = "parsing" => pass[i].since = gens

\* The files of patches that are in the map and not linked yet.
Unlinked(job) == job.at \in {"linking", "reading"} \/ (job.at = "restoring" /\ job.any)
Loose == UNION {Touches[p] : p \in {q \in Patch : Unlinked(patch[q])}}
Due == timer \/ queued

\* A view is the map but for those files, and all of it once there are none; it is
\* linked then, if the linker did not fail.
ViewIs(view, m, L, lf) ==
  /\ \A f \in File \ L : view[f].ver = m[f].ver
  /\ L = {} => view = m /\ (Linked(m) = m \/ lf)

LinkCurrent(link, g, L) == \A f \in File \ L : link.since[f] = g[f]

JobDerives(job) ==
  /\ ~Due => ViewIs(job.view, map, Loose, linkerFailed)
  /\ job.at # "discovering" => entries = Found(job.view, overlooked)
  /\ job.at = "extracting" => job.found = entries
  /\ job.at = "rolling" => job.threads = threads /\ (threads = entries \/ failed)

\* The entry points and the threads are of a view, and the system is, or there is none.
AllOf(view) ==
  /\ entries = Found(view, overlooked) /\ (threads = entries \/ failed)
  /\ system \in {[files |-> view, threads |-> threads], NoSystem}

\* What was derived is of a view of the map, unless a refresh is due or links.
AllDerived ==
  \E view : /\ AllOf(view)
            /\ refresh.at # "linking" /\ ~Due => ViewIs(view, map, Loose, linkerFailed)

\* What is derived is of one view, and a refresh that is due, or the link under way,
\* or nothing at all, parts that view from the map.
DerivedInv == ~raced =>
  /\ refresh.at = "linking" /\ ~Due => LinkCurrent(refresh.link, gens, Loose)
  /\ refresh.at \in Deriving => JobDerives(refresh)
  /\ \A i \in Pass : pass[i].at \in Deriving => JobDerives(pass[i])
  /\ refresh.at \notin Deriving /\ (\A i \in Pass : pass[i].at \notin Deriving) => AllDerived

\* A change from outside is in the map, read by a pass, or still to be noticed.
ExternalInv == ~raced => \A f \in External :
  \/ f \in events \/ reparse
  \/ /\ \A i \in Pass : pass[i].at = "parsing" => f \in pass[i].left \/ pass[i].read[f] = disk[f]
     /\ (\A i \in Pass : pass[i].at # "parsing") => map[f].ver = disk[f]

MapInv ==
  ShapeInv /\ TreeInv /\ RaceInv /\ CopiesInv /\ TrueInv /\ DerivedInv /\ ExternalInv

\* Linking keeps the versions of a map, and is idempotent.
LEMMA LinkedIsMap ==
  ASSUME NEW m \in Map
  PROVE  /\ MapIs(Linked(m)) /\ Linked(Linked(m)) = Linked(m)
         /\ \A f \in File : Linked(m)[f].ver = m[f].ver
<1>1. \A f \in File : m[f].ver \in Nat
  BY DEF Map
<1>2. Versions(m) \in Version
  BY <1>1 DEF Versions, Version
<1>3. Gone \in [ver : Nat, seen : Version] /\ Gone.ver = 0
  BY DEF Gone, Solo, Version
<1>4. \A f \in File : Linked(m)[f] = IF m[f].ver = 0 THEN Gone
                                     ELSE [ver |-> m[f].ver, seen |-> Versions(m)]
  BY DEF Linked
<1>5. \A f \in File : Linked(m)[f] \in [ver : Nat, seen : Version]
                      /\ Linked(m)[f].ver = m[f].ver
  <2> SUFFICES ASSUME NEW f \in File
               PROVE  Linked(m)[f] \in [ver : Nat, seen : Version] /\ Linked(m)[f].ver = m[f].ver
    OBVIOUS
  <2>1. CASE m[f].ver = 0
    BY <1>3, <1>4, <2>1
  <2>2. CASE m[f].ver # 0
    <3>1. Linked(m)[f] = [ver |-> m[f].ver, seen |-> Versions(m)]
      BY <1>4, <2>2
    <3>2. m[f].ver \in Nat
      BY <1>1
    <3>3. \A n \in Nat : \A v \in Version :
            [ver |-> n, seen |-> v] \in [ver : Nat, seen : Version] /\ [ver |-> n, seen |-> v].ver = n
      OBVIOUS
    <3> QED BY <1>2, <3>1, <3>2, <3>3
  <2> QED BY <2>1, <2>2
<1>6. Linked(m) \in Map
  BY <1>5 DEF Linked, Map
<1>7. \A f \in File : Linked(m)[f].ver = 0 => Linked(m)[f] = Gone
  BY <1>4, <1>5
<1>8. Versions(Linked(m)) = Versions(m)
  BY <1>5 DEF Versions
<1>9. Linked(Linked(m)) = Linked(m)
  BY <1>5, <1>8 DEF Linked
<1> QED BY <1>5, <1>6, <1>7, <1>9 DEF MapIs

\* A link starts from the map as it is.
LEMMA LinksStart ==
  ASSUME NEW m, MapIs(m), NEW g \in Version
  PROVE  /\ LinkIs(LinkOf(m, g), g) /\ LinkOf(m, g).since = g
         /\ \A f \in File : LinkOf(m, g).of[f].ver = m[f].ver
<1>1. \A f \in File : g[f] <= g[f]
  BY DEF Version
<1>2. LinkOf(m, g).since = g /\ LinkOf(m, g).of = m
  BY DEF LinkOf
<1> QED BY <1>1, <1>2 DEF LinkIs

\* The linker hands back a map of the same versions, linked if it does not fail.
LEMMA OutputIsMap ==
  ASSUME NEW link, MapIs(link.of), NEW ok \in BOOLEAN
  PROVE  /\ MapIs(Output(link, ok)) /\ (ok => Linked(Output(link, ok)) = Output(link, ok))
         /\ \A f \in File : Output(link, ok)[f].ver = link.of[f].ver
<1>1. link.of \in Map
  BY DEF MapIs
<1>2. CASE ok
  BY <1>1, <1>2, LinkedIsMap DEF Output
<1>3. CASE ~ok
  BY <1>3 DEF Output
<1> QED BY <1>2, <1>3

\* A link that ends puts entries of a map into a map.
LEMMA MergedIsMap ==
  ASSUME MapIs(map), gens \in Version, NEW link, MapIs(link.of), NEW ok \in BOOLEAN
  PROVE  /\ MapIs(MergeRelinked(link, ok))
         /\ \A f \in File : \/ MergeRelinked(link, ok)[f] = map[f]
                            \/ /\ MergeRelinked(link, ok)[f] = Output(link, ok)[f]
                               /\ MergeRelinked(link, ok)[f].ver = link.of[f].ver
                               /\ link.since[f] = gens[f] /\ map[f].ver # 0 /\ link.of[f].ver # 0
<1> DEFINE out == Output(link, ok)
           m == MergeRelinked(link, ok)
<1>1. MapIs(out) /\ \A f \in File : out[f].ver = link.of[f].ver
  BY OutputIsMap
<1>2. m = [f \in File |-> IF map[f].ver # 0 /\ gens[f] = link.since[f] /\ link.of[f].ver # 0
                          THEN out[f] ELSE map[f]]
  BY DEF MergeRelinked
<1> HIDE DEF out, m
<1>3. \A f \in File : \/ m[f] = map[f]
                      \/ /\ m[f] = out[f]
                         /\ link.since[f] = gens[f] /\ map[f].ver # 0 /\ link.of[f].ver # 0
  BY <1>2
<1>4. \A f \in File : m[f] \in [ver : Nat, seen : Version]
  BY <1>1, <1>3 DEF MapIs, Map
<1>5. m \in Map
  BY <1>2, <1>4 DEF Map
<1>6. MapIs(m)
  BY <1>1, <1>3, <1>5 DEF MapIs
<1> QED BY <1>1, <1>3, <1>6 DEF out, m

\* A pass puts in what it read, of files nobody parsed since.
LEMMA PassMergedIsMap ==
  ASSUME MapIs(map), NEW read \in Version, NEW since \in Version, NEW ok \in BOOLEAN, NEW m,
         m = MergePass(LinkOf([f \in File |-> Solo(read[f])], since), ok)
  PROVE  /\ MapIs(m)
         /\ \A f \in File : IF gens[f] = since[f] THEN m[f].ver = read[f] ELSE m[f] = map[f]
         /\ since = gens /\ ok => Linked(m) = m
<1> DEFINE r == [f \in File |-> Solo(read[f])]
           link == LinkOf(r, since)
           out == Output(link, ok)
<1>1. MapIs(r) /\ \A f \in File : r[f].ver = read[f]
  BY DEF Solo, Gone, Map, Version, MapIs
<1> HIDE DEF r
<1>2. LinkIs(link, since) /\ link.since = since /\ \A f \in File : link.of[f].ver = r[f].ver
  BY <1>1, LinksStart
<1> HIDE DEF link
<1>3. m = [f \in File |-> IF gens[f] = since[f] THEN out[f] ELSE map[f]]
  BY <1>2 DEF MergePass, link, r
<1>4. /\ MapIs(out) /\ (ok => Linked(out) = out)
      /\ \A f \in File : out[f].ver = link.of[f].ver
  BY <1>2, OutputIsMap DEF LinkIs
<1> HIDE DEF out
<1>5. MapIs(m)
  <2>1. \A f \in File : m[f] \in [ver : Nat, seen : Version]
    BY <1>3, <1>4 DEF MapIs, Map
  <2>2. \A f \in File : m[f].ver = 0 => m[f] = Gone
    BY <1>3, <1>4 DEF MapIs
  <2>3. m \in Map
    BY <1>3, <2>1 DEF Map
  <2> QED BY <2>2, <2>3 DEF MapIs
<1>6. \A f \in File : IF gens[f] = since[f] THEN m[f].ver = read[f] ELSE m[f] = map[f]
  BY <1>1, <1>2, <1>3, <1>4
<1>7. ASSUME since = gens, ok PROVE Linked(m) = m
  <2>1. m = out
    BY <1>3, <1>4, <1>7 DEF MapIs, Map
  <2> QED BY <1>4, <1>7, <2>1
<1> QED BY <1>5, <1>6, <1>7

\* The generations only grow, and with them what a link or a pass knows.
LEMMA ShapesKeep ==
  ASSUME NEW g \in Version, NEW h \in Version, \A f \in File : g[f] <= h[f], NEW job
  PROVE  /\ \A p \in Patch : PatchIs(p, job, g) => PatchIs(p, job, h)
         /\ RefreshIs(job, g) => RefreshIs(job, h)
         /\ PassIs(job, g) => PassIs(job, h)
<1>1. ASSUME NEW since \in Version, \A f \in File : since[f] <= g[f]
      PROVE  \A f \in File : since[f] <= h[f]
  BY <1>1 DEF Version
<1>2. \A link : LinkIs(link, g) => LinkIs(link, h)
  BY <1>1 DEF LinkIs
<1>3. \A p \in Patch : PatchIs(p, job, g) => PatchIs(p, job, h)
  BY <1>2 DEF PatchIs
<1>4. RefreshIs(job, g) => RefreshIs(job, h)
  BY <1>2 DEF RefreshIs
<1>5. PassIs(job, g) => PassIs(job, h)
  BY <1>1 DEF PassIs
<1> QED BY <1>3, <1>4, <1>5

\* A link goes on standing while what stands only grows, but for files parsed.
LEMMA LinksKeep ==
  ASSUME NEW g \in Version, NEW h \in Version, \A f \in File : g[f] <= h[f],
         NEW S, NEW T, \A f \in File \ External : g[f] = h[f] => S[f] \subseteq T[f],
         NEW since \in Version, \A f \in File : since[f] <= g[f]
  PROVE  \A f \in File \ External : \A v :
           (since[f] = g[f] => v \in S[f]) => (since[f] = h[f] => v \in T[f])
BY DEF Version

\* A race lasts, and without one whoever works, works alone.
LEMMA NoRace ==
  ASSUME RaceInv, raced' = (raced \/ Racing')
  PROVE  /\ raced' \in BOOLEAN /\ (raced => raced')
         /\ ~raced' => \A i \in Pass : Busy(pass[i]) =>
              /\ ~Busy(refresh) /\ \A p \in Patch : ~Busy(patch[p])
              /\ \A j \in Pass : j # i => ~Busy(pass[j])
         /\ ~raced' => \A i \in Pass : Busy(pass'[i]) =>
              /\ ~Busy(refresh') /\ \A p \in Patch : ~Busy(patch'[p])
              /\ \A j \in Pass : j # i => ~Busy(pass'[j])
         /\ Racing' => raced'
<1>1. Racing' \in BOOLEAN
  BY DEF Racing
<1>2. raced' \in BOOLEAN /\ (raced => raced') /\ (Racing => raced) /\ (Racing' => raced')
  BY <1>1 DEF RaceInv
<1>3. ~raced' => \A i \in Pass : Busy(pass[i]) =>
              /\ ~Busy(refresh) /\ \A p \in Patch : ~Busy(patch[p])
              /\ \A j \in Pass : j # i => ~Busy(pass[j])
  BY <1>2 DEF Racing
<1>4. ~raced' => \A i \in Pass : Busy(pass'[i]) =>
              /\ ~Busy(refresh') /\ \A p \in Patch : ~Busy(patch'[p])
              /\ \A j \in Pass : j # i => ~Busy(pass'[j])
  BY <1>2 DEF Racing, Busy
<1> QED BY <1>2, <1>3, <1>4

\* A view goes on being the map, whose loose files only grow in number.
LEMMA ViewsKeep ==
  ASSUME NEW view, NEW m, NEW n, NEW L, NEW M, NEW lf, ViewIs(view, m, L, lf), L \subseteq M,
         \A f \in File \ M : n[f].ver = m[f].ver, M = {} => n = m
  PROVE  ViewIs(view, n, M, lf)
<1>1. \A f \in File \ M : view[f].ver = n[f].ver
  BY DEF ViewIs
<1>2. M = {} => view = n /\ (Linked(n) = n \/ lf)
  BY DEF ViewIs
<1> QED BY <1>1, <1>2 DEF ViewIs

\* What was derived of a view goes on being derived of it.
LEMMA AllDerivedStays ==
  ASSUME AllDerived, UNCHANGED <<entries, overlooked, threads, system, failed>>,
         refresh'.at # "linking" /\ ~Due' => refresh.at # "linking" /\ ~Due,
         ~Due' => \A view : ViewIs(view, map, Loose, linkerFailed)
                              => ViewIs(view, map', Loose', linkerFailed')
  PROVE  AllDerived'
<1>1. PICK view : /\ AllOf(view)
                  /\ refresh.at # "linking" /\ ~Due => ViewIs(view, map, Loose, linkerFailed)
  BY DEF AllDerived
<1>2. AllOf(view)'
  BY <1>1 DEF AllOf
<1>3. refresh'.at # "linking" /\ ~Due' => ViewIs(view, map', Loose', linkerFailed')
  BY <1>1
<1> QED BY <1>2, <1>3 DEF AllDerived

\* A step of one patch keeps the invariant.
LEMMA PatchStepKeeps ==
  ASSUME MapInv, raced' = (raced \/ Racing'), NEW p \in Patch, NEW job,
         patch' = [patch EXCEPT ![p] = job], PatchIs(p, job, gens'), Busy(patch[p]) \/ Busy(job),
         MapIs(map'), gens' \in Version, \A f \in File : gens[f] <= gens'[f],
         TreeInv',
         \A f \in File \ External : gens[f] = gens'[f] => Standing[f] \subseteq Standing'[f],
         \A f \in File \ External : map'[f].ver \in Standing'[f],
         job.at = "linking" => LinkStands(job.link, gens', Standing') /\ LinkTrue(job.link, gens', map'),
         ~raced' => \A f \in File : gens'[f] = gens[f] => map'[f].ver = map[f].ver,
         \A f \in External : disk'[f] = disk[f] /\ gens'[f] = gens[f],
         UNCHANGED <<pass, passing, refresh, queued, entries, threads, system, failed, overlooked,
                     linkerFailed, reparse>>,
         events \subseteq events', stamped' \cap External = {},
         timer' \/ /\ timer' = timer /\ Loose \subseteq Loose'
                   /\ \A f \in File \ Loose' : gens'[f] = gens[f]
                   /\ Loose' = {} => map' = map
  PROVE  MapInv'
<1>1. /\ MapIs(map) /\ gens \in Version /\ DOMAIN patch = Patch /\ DOMAIN pass = Pass
      /\ \A q \in Patch : PatchIs(q, patch[q], gens)
      /\ RefreshIs(refresh, gens) /\ \A i \in Pass : PassIs(pass[i], gens)
  BY DEF MapInv, ShapeInv
<1>2. DOMAIN patch' = Patch /\ patch'[p] = job /\ \A q \in Patch : q # p => patch'[q] = patch[q]
  BY <1>1
<1>3. ShapeInv'
  <2>1. \A q \in Patch : PatchIs(q, patch'[q], gens')
    BY <1>1, <1>2, ShapesKeep
  <2>2. RefreshIs(refresh', gens') /\ \A i \in Pass : PassIs(pass'[i], gens')
    BY <1>1, ShapesKeep
  <2> QED BY <1>1, <1>2, <2>1, <2>2 DEF ShapeInv
<1>4. /\ raced' \in BOOLEAN /\ (raced => raced') /\ (Racing' => raced')
      /\ ~raced' => \A i \in Pass : ~Busy(pass[i])
  <2>1. RaceInv
    BY DEF MapInv
  <2>2. (raced' \in BOOLEAN) /\ (raced => raced') /\ (Racing' => raced')
    BY <2>1, NoRace
  <2>3. ASSUME ~raced', NEW i \in Pass, Busy(pass[i]) PROVE FALSE
    <3>1. \A q \in Patch : ~Busy(patch[q])
      BY <2>1, <2>3, NoRace
    <3>2. \A q \in Patch : ~Busy(patch'[q])
      BY <2>1, <2>3, NoRace
    <3> QED BY <1>2, <3>1, <3>2
  <2> QED BY <2>2, <2>3
<1>5. RaceInv'
  BY <1>4 DEF MapInv, RaceInv
<1>6. CopiesInv'
  <2>1. ASSUME NEW link, LinkIs(link, gens), LinkStands(link, gens, Standing)
        PROVE  LinkStands(link, gens', Standing')
    BY <1>1, <2>1, LinksKeep DEF LinkIs, LinkStands
  <2>2. \A q \in Patch : patch'[q].at = "linking" => LinkStands(patch'[q].link, gens', Standing')
    BY <1>1, <1>2, <2>1 DEF PatchIs, MapInv, CopiesInv
  <2>3. refresh'.at = "linking" => LinkStands(refresh'.link, gens', Standing')
    BY <1>1, <2>1 DEF RefreshIs, MapInv, CopiesInv
  <2>4. \A i \in Pass : pass'[i].at = "parsing" => PassStands(pass'[i], gens', Standing')
    <3> SUFFICES ASSUME NEW i \in Pass, pass[i].at = "parsing"
                 PROVE  PassStands(pass[i], gens', Standing')
      OBVIOUS
    <3>1. pass[i].since \in Version /\ \A f \in File : pass[i].since[f] <= gens[f]
      BY <1>1 DEF PassIs
    <3>2. PassStands(pass[i], gens, Standing)
      BY DEF MapInv, CopiesInv
    <3> QED BY <1>1, <3>1, <3>2, LinksKeep DEF PassStands
  <2> QED BY <2>2, <2>3, <2>4 DEF CopiesInv
<1>7. TrueInv'
  <2> SUFFICES ASSUME ~raced' PROVE TrueInv'
    BY DEF TrueInv
  <2>1. ~raced /\ \A i \in Pass : ~Busy(pass[i])
    BY <1>4
  <2>2. ASSUME NEW link, LinkIs(link, gens), LinkTrue(link, gens, map)
        PROVE  LinkTrue(link, gens', map')
    <3> SUFFICES ASSUME NEW f \in File, link.since[f] = gens'[f]
                 PROVE  link.of[f].ver = map'[f].ver
      BY DEF LinkTrue
    <3>1. gens'[f] = gens[f]
      BY <1>1, <2>2 DEF LinkIs, Version
    <3> QED BY <2>2, <3>1 DEF LinkTrue
  <2>3. \A q \in Patch : patch'[q].at = "linking" => LinkTrue(patch'[q].link, gens', map')
    BY <1>1, <1>2, <2>1, <2>2 DEF PatchIs, MapInv, TrueInv
  <2>4. refresh'.at = "linking" => LinkTrue(refresh'.link, gens', map')
    BY <1>1, <2>1, <2>2 DEF RefreshIs, MapInv, TrueInv
  <2>5. \A i \in Pass : pass'[i].at # "parsing"
    BY <2>1 DEF Busy
  <2> QED BY <2>3, <2>4, <2>5 DEF TrueInv
<1>8. DerivedInv'
  <2> SUFFICES ASSUME ~raced' PROVE DerivedInv'
    BY DEF DerivedInv
  <2>1. ~raced /\ \A i \in Pass : ~Busy(pass[i]) /\ pass[i].at \notin Deriving
    BY <1>4 DEF Busy, Deriving
  <2>2. DerivedInv
    BY DEF MapInv
  <2>3. ASSUME ~Due', NEW view, ViewIs(view, map, Loose, linkerFailed)
        PROVE  ViewIs(view, map', Loose', linkerFailed')
    <3>1. Loose \subseteq Loose' /\ (Loose' = {} => map' = map)
          /\ \A f \in File \ Loose' : map'[f].ver = map[f].ver
      BY <2>3 DEF Due
    <3> QED BY <2>3, <3>1, ViewsKeep
  <2>4. ~Due' => ~Due
    BY DEF Due
  <2>5. ASSUME refresh.at = "linking", ~Due' PROVE LinkCurrent(refresh.link, gens', Loose')
    <3>1. LinkCurrent(refresh.link, gens, Loose)
      BY <2>1, <2>2, <2>4, <2>5 DEF DerivedInv
    <3>2. Loose \subseteq Loose' /\ \A f \in File \ Loose' : gens'[f] = gens[f]
      BY <2>5 DEF Due
    <3> QED BY <3>1, <3>2 DEF LinkCurrent
  <2>6. ASSUME refresh.at \in Deriving PROVE JobDerives(refresh)'
    <3>1. JobDerives(refresh)
      BY <2>1, <2>2, <2>6 DEF DerivedInv
    <3>2. ~Due' => ViewIs(refresh.view, map', Loose', linkerFailed')
      BY <2>3, <2>4, <3>1 DEF JobDerives
    <3> QED BY <3>1, <3>2 DEF JobDerives
  <2>7. ASSUME refresh.at \notin Deriving
        PROVE  AllDerived'
    <3>1. AllDerived
      BY <2>1, <2>2, <2>7 DEF DerivedInv
    <3> QED BY <2>3, <2>4, <3>1, AllDerivedStays
  <2> QED BY <2>1, <2>5, <2>6, <2>7 DEF DerivedInv
<1>9. ExternalInv'
  <2> SUFFICES ASSUME ~raced', NEW f \in External, ~(f \in events' \/ reparse')
               PROVE  /\ \A i \in Pass : pass'[i].at # "parsing"
                      /\ map'[f].ver = disk'[f]
    BY DEF ExternalInv
  <2>1. ~raced /\ \A i \in Pass : pass[i].at # "parsing"
    BY <1>4 DEF Busy
  <2>2. f \notin events /\ ~reparse /\ f \in File
    BY LiveMapAssumption
  <2>3. map[f].ver = disk[f]
    BY <2>1, <2>2 DEF MapInv, ExternalInv
  <2> QED BY <2>1, <2>2, <2>3
<1> QED BY <1>3, <1>5, <1>6, <1>7, <1>8, <1>9 DEF MapInv

\* What a step of one patch leaves of its files decides about the whole tree.
LEMMA TreeOfPatch ==
  ASSUME TreeInv, StampInv, StampInv', NEW p \in Patch, NEW job,
         patch' = [patch EXCEPT ![p] = job], Busy(patch[p]) \/ Busy(job),
         broken' \subseteq (File \ External) \X Nat,
         \A f \in File \ Touches[p] :
           /\ disk'[f] = disk[f] /\ top'[f] = top[f]
           /\ \A v \in Nat : <<f, v>> \in broken' => <<f, v>> \in broken,
         \A f \in Touches[p] :
           /\ disk'[f] <= top'[f]
           /\ \A v \in Nat : <<f, v>> \in broken' => Started(f) < v /\ v <= top'[f]
           /\ <<f, disk'[f]>> \notin broken' \/ job.at \in {"written", "parsing"}
           /\ job.at \in {"writing", "written", "parsing"} =>
                job.backup[f] <= top'[f] /\ <<f, job.backup[f]>> \notin broken'
           /\ job.at = "writing" => job.backup[f] = disk'[f]
  PROVE  TreeInv'
<1>1. /\ DOMAIN patch = Patch /\ \A q \in Patch : Touches[q] \subseteq File
      /\ disk \in Version /\ \A q \in Patch : PatchAtStep(q, patch[q])
  BY StampFacts
<1>2. patch'[p] = job /\ \A q \in Patch : q # p => patch'[q] = patch[q]
  BY <1>1
<1>3. \A f \in File : disk[f] \in Nat
  BY <1>1 DEF Version
<1>4. \A q \in Patch : q # p /\ Busy(patch[q]) => Touches[q] \cap Touches[p] = {}
  <2>1. OnePatch(patch) /\ OnePatch(patch')
    BY DEF StampInv, Patches
  <2> QED BY <1>2, <2>1 DEF OnePatch
<1>5. \A f \in File : disk'[f] <= top'[f]
  BY DEF TreeInv
<1>6. \A f \in File : \A v \in Nat : <<f, v>> \in broken' => Started(f) < v /\ v <= top'[f]
  BY DEF TreeInv
<1>7. ASSUME NEW f \in File
      PROVE  \/ <<f, disk'[f]>> \notin broken'
             \/ \E q \in Patch : f \in Touches[q] /\ patch'[q].at \in {"written", "parsing"}
  <2>1. CASE f \in Touches[p]
    BY <1>2, <2>1
  <2>2. CASE f \notin Touches[p]
    <3>1. disk'[f] = disk[f] /\ (<<f, disk[f]>> \in broken' => <<f, disk[f]>> \in broken)
      BY <1>3, <2>2
    <3>2. \/ <<f, disk[f]>> \notin broken
          \/ \E q \in Patch : f \in Touches[q] /\ patch[q].at \in {"written", "parsing"}
      BY DEF TreeInv
    <3> QED BY <1>2, <2>2, <3>1, <3>2
  <2> QED BY <2>1, <2>2
<1>8. ASSUME NEW q \in Patch, NEW f \in Touches[q]
      PROVE  /\ patch'[q].at \in {"writing", "written", "parsing"} =>
                  patch'[q].backup[f] <= top'[f] /\ <<f, patch'[q].backup[f]>> \notin broken'
             /\ patch'[q].at = "writing" => patch'[q].backup[f] = disk'[f]
  <2>1. CASE q = p
    BY <1>2, <2>1
  <2>2. ASSUME q # p, patch[q].at \in {"writing", "written", "parsing"}
        PROVE  /\ patch[q].backup[f] <= top'[f] /\ <<f, patch[q].backup[f]>> \notin broken'
               /\ patch[q].at = "writing" => patch[q].backup[f] = disk'[f]
    <3>1. f \in File \ Touches[p]
      BY <1>1, <1>4, <2>2 DEF Busy
    <3>2. patch[q].backup[f] \in Nat
      BY <1>1, <2>2 DEF PatchAtStep
    <3>3. /\ patch[q].backup[f] <= top[f] /\ <<f, patch[q].backup[f]>> \notin broken
          /\ patch[q].at = "writing" => patch[q].backup[f] = disk[f]
      BY <2>2 DEF TreeInv
    <3> QED BY <3>1, <3>2, <3>3
  <2> QED BY <1>2, <2>1, <2>2
<1> QED BY <1>5, <1>6, <1>7, <1>8 DEF TreeInv

\* The tree stays as it is when a patch writes nothing and keeps its backup.
LEMMA TreeStays ==
  ASSUME TreeInv, StampInv, StampInv', NEW p \in Patch, NEW job,
         patch' = [patch EXCEPT ![p] = job], Busy(patch[p]) \/ Busy(job),
         UNCHANGED <<disk, top, broken>>,
         job.at \in {"writing", "written", "parsing"} =>
           \/ patch[p].at \in {"written", "parsing"} /\ job.at # "writing" /\ job.backup = patch[p].backup
           \/ \A f \in Touches[p] : job.backup[f] = disk[f] /\ <<f, disk[f]>> \notin broken,
         job.at \notin {"written", "parsing"} =>
           \A f \in Touches[p] : <<f, disk[f]>> \notin broken
  PROVE  TreeInv'
<1>1. Touches[p] \subseteq File
  BY StampFacts
<1>2. \A f \in Touches[p] :
        /\ disk[f] <= top[f]
        /\ \A v \in Nat : <<f, v>> \in broken => Started(f) < v /\ v <= top[f]
        /\ patch[p].at \in {"written", "parsing"} =>
             patch[p].backup[f] <= top[f] /\ <<f, patch[p].backup[f]>> \notin broken
  BY <1>1 DEF TreeInv
<1>3. broken \subseteq (File \ External) \X Nat
  BY DEF TreeInv
<1>4. \A f \in Touches[p] : job.at \in {"writing", "written", "parsing"} =>
        /\ job.backup[f] <= top[f] /\ <<f, job.backup[f]>> \notin broken
        /\ job.at = "writing" => job.backup[f] = disk[f]
  BY <1>2
<1>5. \A f \in Touches[p] : <<f, disk'[f]>> \notin broken' \/ job.at \in {"written", "parsing"}
  OBVIOUS
<1> QED BY <1>1, <1>2, <1>3, <1>4, <1>5, TreeOfPatch

\* While no patch has written it, or one is restoring it, the file on disk parses.
LEMMA WholeOutside ==
  ASSUME TreeInv, StampInv, NEW p \in Patch,
         \/ Busy(patch[p]) /\ patch[p].at \notin {"written", "parsing"}
         \/ \A q \in Patch : Busy(patch[q]) => Touches[q] \cap Touches[p] = {}
  PROVE  \A f \in Touches[p] : <<f, disk[f]>> \notin broken
<1> SUFFICES ASSUME NEW f \in Touches[p], <<f, disk[f]>> \in broken PROVE FALSE
  OBVIOUS
<1>1. f \in File
  BY StampFacts
<1>2. PICK q \in Patch : f \in Touches[q] /\ patch[q].at \in {"written", "parsing"}
  BY <1>1 DEF TreeInv
<1>3. Busy(patch[q]) /\ OnePatch(patch)
  BY <1>2 DEF Busy, StampInv, Patches
<1> QED BY <1>2, <1>3 DEF OnePatch

\* What stands does so after a step of one patch: it stood by the hand of another,
\* or for another file, or this patch still vouches for it.
LEMMA StandingGrows ==
  ASSUME MapInv, NEW p \in Patch, NEW job, patch' = [patch EXCEPT ![p] = job],
         raced => raced', broken \subseteq broken', NEW f \in File,
         f \notin Touches[p] \/ ~Busy(patch[p]) => disk'[f] = disk[f]
           /\ (<<f, disk[f]>> \in broken' => <<f, disk[f]>> \in broken),
         f \in Touches[p] =>
           /\ \A v \in Nat : v = disk[f] /\ <<f, v>> \notin broken => v \in Standing'[f]
           /\ patch[p].at \in {"written", "parsing"} => patch[p].backup[f] \in Standing'[f]
           /\ patch[p].at = "reading" => f # patch[p].file
  PROVE  Standing[f] \subseteq Standing'[f]
<1>1. DOMAIN patch = Patch
  BY DEF MapInv, ShapeInv
<1>2. \A q \in Patch : q # p => patch'[q] = patch[q]
  BY <1>1
<1> SUFFICES ASSUME NEW v \in Standing[f] PROVE v \in Standing'[f]
  OBVIOUS
<1>3. /\ v \in Nat
      /\ \/ raced /\ \E b \in broken : b[1] = f
         \/ v = disk[f] /\ <<f, v>> \notin broken
         \/ \E q \in Patch : /\ f \in Touches[q]
                             /\ \/ patch[q].at \in {"written", "parsing"} /\ v = patch[q].backup[f]
                                \/ patch[q].at = "reading" /\ patch[q].file = f
  BY DEF Standing
<1>4. Standing'[f] = {w \in Nat :
        \/ raced' /\ \E b \in broken' : b[1] = f
        \/ w = disk'[f] /\ <<f, w>> \notin broken'
        \/ \E q \in Patch : /\ f \in Touches[q]
                            /\ \/ patch'[q].at \in {"written", "parsing"} /\ w = patch'[q].backup[f]
                               \/ patch'[q].at = "reading" /\ patch'[q].file = f}
  BY DEF Standing
<1>5. CASE raced /\ \E b \in broken : b[1] = f
  BY <1>3, <1>4, <1>5
<1>6. CASE v = disk[f] /\ <<f, v>> \notin broken
  BY <1>3, <1>4, <1>6
<1>7. ASSUME NEW q \in Patch, f \in Touches[q],
             \/ patch[q].at \in {"written", "parsing"} /\ v = patch[q].backup[f]
             \/ patch[q].at = "reading" /\ patch[q].file = f
      PROVE  v \in Standing'[f]
  <2>1. CASE q = p
    BY <1>7, <2>1
  <2>2. CASE q # p
    BY <1>2, <1>3, <1>4, <1>7, <2>2
  <2> QED BY <2>1, <2>2
<1> QED BY <1>3, <1>5, <1>6, <1>7

\* The version on disk stands, if it parses.
LEMMA DiskStands ==
  ASSUME MapInv, StampInv
  PROVE  /\ \A f \in File : <<f, disk[f]>> \notin broken => disk[f] \in Standing[f]
         /\ \A f \in File \ External : map[f].ver \in Standing[f]
         /\ \A p \in Patch : Touches[p] \subseteq File /\ Touches[p] # {}
<1>1. \A f \in File : disk[f] \in Nat
  BY StampFacts DEF Version
<1>2. \A p \in Patch : Touches[p] \subseteq File /\ Touches[p] # {}
  BY LiveMapAssumption
<1> QED BY <1>1, <1>2 DEF Standing, MapInv, CopiesInv

\* A patch that goes on to link keeps its files among the loose ones.
LEMMA LooseMoves ==
  ASSUME DOMAIN patch = Patch, NEW p \in Patch, NEW job, patch' = [patch EXCEPT ![p] = job],
         Unlinked(patch[p]) => Unlinked(job)
  PROVE  /\ Loose \subseteq Loose' /\ (Unlinked(job) => Touches[p] \subseteq Loose')
         /\ Unlinked(job) => Loose' # {}
<1>1. patch'[p] = job /\ \A q \in Patch : q # p => patch'[q] = patch[q]
  OBVIOUS
<1>2. \A q \in Patch : Unlinked(patch[q]) => Unlinked(patch'[q])
  BY <1>1
<1>3. Loose' = UNION {Touches[q] : q \in {r \in Patch : Unlinked(patch'[r])}}
  BY DEF Loose, Unlinked
<1>4. Loose \subseteq Loose'
  BY <1>2, <1>3 DEF Loose
<1>5. Unlinked(job) => Touches[p] \subseteq Loose'
  BY <1>1, <1>3
<1>6. Touches[p] # {}
  BY LiveMapAssumption
<1> QED BY <1>4, <1>5, <1>6

\* A patch moves on without touching the tree or the map.
LEMMA QuietPatchKeeps ==
  ASSUME MapInv, StampInv, StampInv', PatchHyp, raced' = (raced \/ Racing'), NEW p \in Patch,
         NEW job, patch' = [patch EXCEPT ![p] = job], PatchIs(p, job, gens),
         Busy(patch[p]) \/ Busy(job), Unlinked(patch[p]) => Unlinked(job),
         job.at = "linking" => job.link = LinkOf(map, gens),
         patch[p].at # "reading",
         job.at \in {"writing", "written", "parsing"} =>
           \/ patch[p].at = "written" /\ job.at = "parsing" /\ job.backup = patch[p].backup
           \/ \A f \in Touches[p] : job.backup[f] = disk[f] /\ <<f, disk[f]>> \notin broken,
         patch[p].at \in {"written", "parsing"} => job.at = "parsing" /\ job.backup = patch[p].backup,
         job.at \notin {"written", "parsing"} => \A f \in Touches[p] : <<f, disk[f]>> \notin broken,
         stamped' \subseteq stamped \cup Touches[p],
         UNCHANGED <<disk, top, broken, map, gens, pass, passing, refresh, queued, timer, entries,
                     threads, system, failed, overlooked, linkerFailed, reparse, events>>
  PROVE  MapInv'
<1>1. /\ MapIs(map) /\ map \in Map /\ gens \in Version /\ DOMAIN patch = Patch
      /\ \A q \in Patch : PatchIs(q, patch[q], gens)
  BY DEF MapInv, ShapeInv, MapIs
<1>2. patch'[p] = job /\ \A q \in Patch : q # p => patch'[q] = patch[q]
  BY <1>1
<1>3. TreeInv /\ RaceInv /\ (raced => raced')
  BY NoRace DEF MapInv
<1>4. TreeInv'
  BY <1>3, TreeStays
<1>5. \A f \in File : Standing[f] \subseteq Standing'[f]
  <2> SUFFICES ASSUME NEW f \in File PROVE Standing[f] \subseteq Standing'[f]
    OBVIOUS
  <2>1. ASSUME f \in Touches[p], NEW v \in Nat, v = disk[f], <<f, v>> \notin broken
        PROVE  v \in Standing'[f]
    BY <2>1 DEF Standing
  <2>2. ASSUME f \in Touches[p], patch[p].at \in {"written", "parsing"}
        PROVE  patch[p].backup[f] \in Standing'[f]
    <3>1. patch[p].backup[f] \in Nat
      BY <2>2, StampFacts DEF PatchAtStep
    <3>2. patch'[p].at = "parsing" /\ patch'[p].backup = patch[p].backup
      BY <1>2, <2>2
    <3> QED BY <2>2, <3>1, <3>2 DEF Standing
  <2>3. broken \subseteq broken' /\ disk'[f] = disk[f] /\ broken' = broken
    OBVIOUS
  <2> QED BY <1>3, <2>1, <2>2, <2>3, StandingGrows
<1>6. \A f \in File \ External : map'[f].ver \in Standing'[f]
  BY <1>5, DiskStands
<1>7. job.at = "linking" => LinkStands(job.link, gens', Standing') /\ LinkTrue(job.link, gens', map')
  <2>1. job.at = "linking" => \A f \in File : job.link.of[f].ver = map[f].ver
    BY <1>1, LinksStart
  <2> QED BY <1>6, <2>1 DEF LinkStands, LinkTrue
<1>8. Loose \subseteq Loose'
  BY <1>1, LooseMoves
<1>9. stamped' \cap External = {}
  BY <1>3 DEF RaceInv, PatchHyp
<1>10. /\ MapIs(map') /\ gens' \in Version /\ PatchIs(p, job, gens')
       /\ \A f \in File : gens[f] <= gens'[f]
  BY <1>1 DEF Version
<1>11. \A f \in External : disk'[f] = disk[f] /\ gens'[f] = gens[f]
  OBVIOUS
<1>12. /\ \A f \in File : gens'[f] = gens[f] => map'[f].ver = map[f].ver
       /\ timer' = timer /\ Loose \subseteq Loose' /\ (\A f \in File \ Loose' : gens'[f] = gens[f])
       /\ (Loose' = {} => map' = map) /\ events \subseteq events'
  BY <1>8
<1>13. UNCHANGED <<pass, passing, refresh, queued, entries, threads, system, failed, overlooked,
                   linkerFailed, reparse>>
  OBVIOUS
<1> QED BY <1>4, <1>5, <1>6, <1>7, <1>9, <1>10, <1>11, <1>12, <1>13, PatchStepKeeps

\* The steps of a patch that write nothing: it begins, its rewriter returns, it
\* starts its link.
LEMMA PatchesMove ==
  ASSUME MapInv, StampInv, StampInv', PatchHyp, raced' = (raced \/ Racing'), NEW p \in Patch,
         BeginEdit(p) \/ RewriterReturns(p) \/ BeginRestore(p) \/ RestoreLinks(p)
  PROVE  MapInv'
<1>1. /\ map \in Map /\ gens \in Version /\ DOMAIN patch = Patch
      /\ PatchIs(p, patch[p], gens) /\ PatchAtStep(p, patch[p])
      /\ TreeInv /\ Touches[p] \subseteq File
  BY StampFacts DEF MapInv, ShapeInv, MapIs
<1>2. PatchIs(p, Done, gens) /\ Done.at = "done" /\ Idle.at = "idle" /\ ~Busy(Idle)
      /\ ~Unlinked(Idle) /\ ~Unlinked(Done)
  BY DEF PatchIs, Done, Idle, Busy, Unlinked
<1>3. UNCHANGED <<disk, top, broken, map, gens, pass, passing, refresh, queued, timer, entries,
                  threads, system, failed, overlooked, linkerFailed, reparse, events>>
  BY DEF BeginEdit, RewriterReturns, BeginRestore, RestoreLinks, tree, parse, watcher, passes,
     refreshing, derived
<1>4. CASE BeginEdit(p)
  <2> DEFINE job == [at |-> "writing", backup |-> [f \in Touches[p] |-> disk[f]]]
  <2>1. /\ patch' = [patch EXCEPT ![p] = job] /\ patch[p] = Idle
        /\ \A q \in Patch : Busy(patch[q]) => Touches[q] \cap Touches[p] = {}
        /\ stamped' \subseteq stamped \cup Touches[p]
    BY <1>4 DEF BeginEdit, MayBegin
  <2>2. /\ job.at = "writing" /\ \A f \in Touches[p] : job.backup[f] = disk[f]
        /\ PatchIs(p, job, gens) /\ Busy(job) /\ ~Unlinked(patch[p])
    BY <1>2, <2>1 DEF PatchIs, Busy
  <2>3. \A f \in Touches[p] : <<f, disk[f]>> \notin broken
    BY <1>1, <2>1, WholeOutside
  <2> HIDE DEF job
  <2> QED BY <1>2, <1>3, <2>1, <2>2, <2>3, QuietPatchKeeps
<1>5. CASE RewriterReturns(p)
  <2>1. stamped' \subseteq stamped \cup Touches[p]
    BY <1>5 DEF RewriterReturns
  <2>2. CASE patch[p].at = "writing" /\ patch' = [patch EXCEPT ![p] = Done]
    <3>1. Busy(patch[p]) /\ ~Unlinked(patch[p])
      BY <2>2 DEF Busy, Unlinked
    <3>2. \A f \in Touches[p] : <<f, disk[f]>> \notin broken
      BY <1>1, <2>2, <3>1, WholeOutside
    <3> QED BY <1>2, <1>3, <2>1, <2>2, <3>1, <3>2, QuietPatchKeeps
  <2>3. CASE patch[p].at = "written" /\ patch' = [patch EXCEPT ![p].at = "parsing"]
    <3> DEFINE job == [patch[p] EXCEPT !.at = "parsing"]
    <3>1. patch' = [patch EXCEPT ![p] = job]
      BY <2>3
    <3>2. job.at = "parsing" /\ job.backup = patch[p].backup /\ Busy(patch[p]) /\ ~Unlinked(patch[p])
      BY <1>1, <2>3 DEF PatchAtStep, Busy, Unlinked
    <3> HIDE DEF job
    <3>3. PatchIs(p, job, gens)
      BY <3>2 DEF PatchIs
    <3> QED BY <1>3, <2>1, <2>3, <3>1, <3>2, <3>3, QuietPatchKeeps
  <2> QED BY <1>5, <2>2, <2>3 DEF RewriterReturns
<1>6. CASE BeginRestore(p)
  <2> DEFINE job == [at |-> "restoring", left |-> Touches[p], any |-> FALSE]
  <2>1. /\ patch' = [patch EXCEPT ![p] = job] /\ patch[p] = Idle /\ stamped' = stamped
        /\ \A q \in Patch : Busy(patch[q]) => Touches[q] \cap Touches[p] = {}
    BY <1>6 DEF BeginRestore, MayBegin, watcher
  <2>2. job.at = "restoring" /\ PatchIs(p, job, gens) /\ Busy(job)
    BY DEF PatchIs, Busy
  <2>3. \A f \in Touches[p] : <<f, disk[f]>> \notin broken
    BY <1>1, <2>1, WholeOutside
  <2> HIDE DEF job
  <2> QED BY <1>2, <1>3, <2>1, <2>2, <2>3, QuietPatchKeeps
<1>7. CASE RestoreLinks(p)
  <2> DEFINE link == [at |-> "linking", link |-> LinkOf(map, gens)]
  <2>1. /\ patch[p].at = "restoring" /\ stamped' = stamped
        /\ patch' = [patch EXCEPT ![p] = IF patch[p].any THEN link ELSE Done]
    BY <1>1, <1>7 DEF RestoreLinks, watcher
  <2>2. \A f \in Touches[p] : <<f, disk[f]>> \notin broken
    BY <1>1, <2>1, WholeOutside DEF Busy
  <2>3. Busy(patch[p]) /\ (Unlinked(patch[p]) => patch[p].any)
    BY <2>1 DEF Busy, Unlinked
  <2>4. PatchIs(p, link, gens) /\ link.at = "linking" /\ link.link = LinkOf(map, gens) /\ Unlinked(link)
    BY <1>1, LinksStart DEF PatchIs, Unlinked, MapInv, ShapeInv
  <2> HIDE DEF link
  <2>5. CASE patch[p].any
    BY <1>3, <2>1, <2>2, <2>3, <2>4, <2>5, QuietPatchKeeps
  <2>6. CASE ~patch[p].any
    BY <1>2, <1>3, <2>1, <2>2, <2>3, <2>6, QuietPatchKeeps
  <2> QED BY <2>5, <2>6
<1> QED BY <1>4, <1>5, <1>6, <1>7

\* A parse lands in the map under a new generation, or a file leaves it under one.
LEMMA ParseKeeps ==
  ASSUME MapInv, StampInv, StampInv', PatchHyp, raced' = (raced \/ Racing'), NEW p \in Patch,
         NEW f \in Touches[p], NEW job, patch' = [patch EXCEPT ![p] = job], Busy(patch[p]),
         Unlinked(job), MapIs(map') /\ gens' \in Version => PatchIs(p, job, gens'),
         job.at = "linking" => job.link = LinkOf(map', gens'),
         map' = [map EXCEPT ![f] = Solo(disk'[f])], gens' = [gens EXCEPT ![f] = @ + 1],
         TreeInv', broken' = broken, \A g \in File \ {f} : disk'[g] = disk[g],
         <<f, disk'[f]>> \notin broken',
         \A g \in Touches[p] \ {f} : /\ patch[p].at \notin {"written", "parsing"}
                                     /\ patch[p].at = "reading" => g # patch[p].file,
         stamped' \subseteq stamped \cup Touches[p], events \subseteq events',
         UNCHANGED <<pass, passing, refresh, queued, timer, entries, threads, system, failed, overlooked, linkerFailed,
                     reparse>>
  PROVE  MapInv'
<1>1. /\ map \in Map /\ MapIs(map) /\ gens \in Version /\ DOMAIN patch = Patch
      /\ RaceInv /\ (raced => raced') /\ Touches[p] \subseteq File
  BY StampFacts, NoRace DEF MapInv, ShapeInv, MapIs
<1>2. f \in File /\ disk' \in Version /\ disk'[f] \in Nat
  BY <1>1 DEF StampInv, TreeGrows, Version
<1>3. Solo(disk'[f]) \in [ver : Nat, seen : Version] /\ Solo(disk'[f]).ver = disk'[f]
      /\ (disk'[f] = 0 => Solo(disk'[f]) = Gone)
  BY <1>2 DEF Solo, Version, Gone
<1>4. /\ map' \in Map /\ map'[f] = Solo(disk'[f])
      /\ \A g \in File : g # f => map'[g] = map[g]
  BY <1>1, <1>2, <1>3 DEF Map
<1>5. MapIs(map')
  BY <1>1, <1>3, <1>4 DEF MapIs
<1>6. /\ gens' \in Version /\ \A g \in File : gens[g] <= gens'[g]
      /\ gens'[f] # gens[f] /\ \A g \in File : g # f => gens'[g] = gens[g]
  BY <1>1, <1>2 DEF Version
<1>7. \A g \in File : gens[g] = gens'[g] => Standing[g] \subseteq Standing'[g]
  <2> SUFFICES ASSUME NEW g \in File, g # f PROVE Standing[g] \subseteq Standing'[g]
    BY <1>6
  <2>1. broken \subseteq broken' /\ disk'[g] = disk[g] /\ broken' = broken
    OBVIOUS
  <2>2. \A v \in Nat : v = disk[g] /\ <<g, v>> \notin broken => v \in Standing'[g]
    BY <2>1 DEF Standing
  <2>3. g \in Touches[p] => patch[p].at \notin {"written", "parsing"}
                            /\ (patch[p].at = "reading" => g # patch[p].file)
    OBVIOUS
  <2> QED BY <1>1, <2>1, <2>2, <2>3, StandingGrows
<1>8. \A g \in File \ External : map'[g].ver \in Standing'[g]
  <2>1. disk'[f] \in Standing'[f]
    BY <1>2 DEF Standing
  <2>2. \A g \in File \ External : map[g].ver \in Standing[g]
    BY DiskStands
  <2>3. \A g \in File \ External : g # f => map'[g].ver \in Standing'[g]
    BY <1>4, <1>6, <1>7, <2>2
  <2> QED BY <1>3, <1>4, <2>1, <2>3
<1>9. job.at = "linking" => LinkStands(job.link, gens', Standing') /\ LinkTrue(job.link, gens', map')
  <2>1. job.at = "linking" => \A g \in File : job.link.of[g].ver = map'[g].ver
    <3>1. LinkOf(map', gens').of = map'
      BY DEF LinkOf
    <3> QED BY <3>1
  <2> QED BY <1>8, <2>1 DEF LinkStands, LinkTrue
<1>10. Loose \subseteq Loose' /\ Touches[p] \subseteq Loose' /\ Loose' # {}
  BY <1>1, LooseMoves
<1>11. timer' = timer /\ Loose \subseteq Loose' /\ (\A g \in File \ Loose' : gens'[g] = gens[g])
       /\ (Loose' = {} => map' = map)
  BY <1>6, <1>10
<1>12. stamped' \cap External = {} /\ f \notin External
  BY <1>1 DEF RaceInv, PatchHyp
<1>13. \A g \in External : disk'[g] = disk[g] /\ gens'[g] = gens[g]
  BY <1>6, <1>12, LiveMapAssumption
<1>14. \A g \in File : gens'[g] = gens[g] => map'[g].ver = map[g].ver
  BY <1>4, <1>6
<1>15. PatchIs(p, job, gens')
  BY <1>5, <1>6
<1>16. UNCHANGED <<pass, passing, refresh, queued, entries, threads, system, failed, overlooked,
                   linkerFailed, reparse>>
  OBVIOUS
<1> QED BY <1>5, <1>6, <1>7, <1>8, <1>9, <1>11, <1>12, <1>13, <1>14, <1>15, <1>16, PatchStepKeeps

\* Files are parsed and restored.
LEMMA ParsesLand ==
  ASSUME MapInv, StampInv, StampInv', PatchHyp, raced' = (raced \/ Racing'), NEW p \in Patch,
         RestoredParseLands(p) \/ \E f \in File : ParseLands(p, f)
  PROVE  MapInv'
<1>1. /\ map \in Map /\ gens \in Version /\ DOMAIN patch = Patch
      /\ PatchIs(p, patch[p], gens) /\ PatchAtStep(p, patch[p])
      /\ TreeInv /\ Touches[p] \subseteq File
  BY StampFacts DEF MapInv, ShapeInv, MapIs
<1>2. ASSUME NEW f \in File, ParseLands(p, f) PROVE MapInv'
  <2> DEFINE job == [at |-> "linking", link |-> LinkOf(map', gens')]
  <2>1. /\ patch[p].at = "parsing" /\ f \in Touches[p] /\ ParseOf(f, disk[f]) # 0
        /\ map' = [map EXCEPT ![f] = Solo(disk[f])] /\ gens' = [gens EXCEPT ![f] = @ + 1]
        /\ patch' = [patch EXCEPT ![p] = job] /\ stamped' = stamped \cup {f}
    BY <1>2 DEF ParseLands
  <2>2. UNCHANGED <<disk, top, broken, pass, passing, refresh, queued, timer, entries, threads,
                    system, failed, overlooked, linkerFailed, reparse, events>>
    BY <1>2 DEF ParseLands, tree, passes, refreshing, derived
  <2>3. Busy(patch[p]) /\ <<f, disk[f]>> \notin broken /\ \A g \in Touches[p] : g = f
    BY <1>1, <2>1, StampFacts DEF Busy, ParseOf, PatchAtStep
  <2>4. job.at = "linking" /\ job.link = LinkOf(map', gens') /\ Unlinked(job)
    BY DEF Unlinked
  <2>5. MapIs(map') /\ gens' \in Version => PatchIs(p, job, gens')
    BY LinksStart DEF PatchIs
  <2> HIDE DEF job
  <2>6. TreeInv'
    BY <1>1, <2>1, <2>2, <2>3, <2>4, TreeStays
  <2>7. disk' = disk /\ broken' = broken /\ events \subseteq events'
        /\ stamped' \subseteq stamped \cup Touches[p]
    BY <2>1, <2>2
  <2> QED BY <2>1, <2>2, <2>3, <2>4, <2>5, <2>6, <2>7, ParseKeeps
<1>3. CASE RestoredParseLands(p)
  <2> DEFINE job == [at |-> "restoring", left |-> patch[p].left, any |-> TRUE]
             f == patch[p].file
  <2>1. /\ patch[p].at = "reading" /\ f \in Touches[p]
        /\ map' = [map EXCEPT ![f] = Solo(disk[f])] /\ gens' = [gens EXCEPT ![f] = @ + 1]
        /\ patch' = [patch EXCEPT ![p] = job] /\ stamped' = stamped
    BY <1>1, <1>3 DEF RestoredParseLands, PatchIs, watcher
  <2>2. UNCHANGED <<disk, top, broken, pass, passing, refresh, queued, timer, entries, threads,
                    system, failed, overlooked, linkerFailed, reparse, events>>
    BY <1>3 DEF RestoredParseLands, tree, watcher, passes, refreshing, derived
  <2>3. Busy(patch[p]) /\ \A g \in Touches[p] : <<g, disk[g]>> \notin broken
    BY <1>1, <2>1, WholeOutside DEF Busy
  <2>4. job.at = "restoring" /\ Unlinked(job) /\ PatchIs(p, job, gens')
    BY DEF Unlinked, PatchIs
  <2> HIDE DEF job
  <2>5. TreeInv'
    BY <1>1, <2>1, <2>2, <2>3, <2>4, TreeStays
  <2>6. disk' = disk /\ broken' = broken /\ events \subseteq events'
        /\ stamped' \subseteq stamped \cup Touches[p]
        /\ \A g \in Touches[p] \ {f} : g # patch[p].file
    BY <2>1, <2>2
  <2> HIDE DEF f
  <2> QED BY <2>1, <2>2, <2>3, <2>4, <2>5, <2>6, ParseKeeps
<1> QED BY <1>2, <1>3

\* The re-link of a patch ends.
LEMMA PatchLinksEnd ==
  ASSUME MapInv, StampInv, StampInv', PatchHyp, raced' = (raced \/ Racing'), NEW p \in Patch,
         NEW ok \in BOOLEAN, PatchEnds(p, ok)
  PROVE  MapInv'
<1>1. /\ MapIs(map) /\ gens \in Version /\ DOMAIN patch = Patch
      /\ PatchIs(p, patch[p], gens)
      /\ TreeInv /\ RaceInv /\ (raced => raced')
  BY StampFacts, NoRace DEF MapInv, ShapeInv
<1>2. PatchIs(p, Done, gens) /\ Done.at = "done"
  BY DEF PatchIs, Done
<1>3. /\ patch[p].at = "linking" /\ patch' = [patch EXCEPT ![p] = Done]
      /\ map' = MergeRelinked(patch[p].link, ok) /\ timer' = TRUE
      /\ UNCHANGED <<disk, top, broken, gens, pass, passing, refresh, queued, entries, threads,
                     system, failed, overlooked, linkerFailed, reparse, events, stamped>>
  BY DEF PatchEnds, tree, watcher, passes, derived
<1>4. LinkIs(patch[p].link, gens) /\ LinkStands(patch[p].link, gens, Standing)
      /\ (~raced => LinkTrue(patch[p].link, gens, map)) /\ Busy(patch[p])
  BY <1>1, <1>3 DEF PatchIs, MapInv, CopiesInv, TrueInv, Busy
<1>5. /\ MapIs(map')
      /\ \A f \in File : \/ map'[f] = map[f]
                         \/ /\ map'[f].ver = patch[p].link.of[f].ver
                            /\ patch[p].link.since[f] = gens[f]
  BY <1>1, <1>3, <1>4, MergedIsMap DEF LinkIs
<1>6. \A f \in Touches[p] : <<f, disk[f]>> \notin broken
  BY <1>1, <1>3, <1>4, WholeOutside
<1>7. TreeInv'
  BY <1>1, <1>2, <1>3, <1>4, <1>6, TreeStays
<1>8. \A f \in File : Standing[f] \subseteq Standing'[f]
  <2> SUFFICES ASSUME NEW f \in File PROVE Standing[f] \subseteq Standing'[f]
    OBVIOUS
  <2>1. broken \subseteq broken' /\ disk'[f] = disk[f] /\ broken' = broken
    BY <1>3
  <2>2. \A v \in Nat : v = disk[f] /\ <<f, v>> \notin broken => v \in Standing'[f]
    BY <2>1 DEF Standing
  <2> QED BY <1>1, <1>3, <2>1, <2>2, StandingGrows
<1>9. \A f \in File \ External : map'[f].ver \in Standing'[f]
  <2>1. \A f \in File \ External : map[f].ver \in Standing[f]
    BY DiskStands
  <2> QED BY <1>4, <1>5, <1>8, <2>1 DEF LinkStands
<1>10. ~raced' => \A f \in File : map'[f].ver = map[f].ver
  BY <1>1, <1>4, <1>5 DEF LinkTrue
<1>11. stamped' \cap External = {} /\ gens' \in Version /\ (\A f \in File : gens[f] <= gens'[f])
       /\ PatchIs(p, Done, gens')
  BY <1>1, <1>2, <1>3 DEF RaceInv, Version
<1> QED BY <1>2, <1>3, <1>4, <1>5, <1>7, <1>8, <1>9, <1>10, <1>11, PatchStepKeeps

\* A patch writes one of its files: the map is as it was, and what stood in it
\* still may.
LEMMA WriteKeeps ==
  ASSUME MapInv, StampInv, StampInv', PatchHyp, raced' = (raced \/ Racing'), NEW p \in Patch,
         NEW f \in Touches[p], NEW job, patch' = [patch EXCEPT ![p] = job], Busy(patch[p]),
         PatchIs(p, job, gens), job.at # "linking", Unlinked(patch[p]) => Unlinked(job),
         patch[p].at # "reading", NEW v \in Nat, disk' = [disk EXCEPT ![f] = v],
         TreeInv', broken \subseteq broken',
         \A g \in File \ {f} : \A u \in Nat : <<g, u>> \in broken' => <<g, u>> \in broken,
         \A g \in Touches[p] \ {f} : patch[p].at \notin {"written", "parsing"},
         \A u \in Nat : u = disk[f] /\ <<f, u>> \notin broken => u \in Standing'[f],
         patch[p].at \in {"written", "parsing"} => patch[p].backup[f] \in Standing'[f],
         stamped' \subseteq stamped \cup Touches[p], events \subseteq events',
         UNCHANGED <<map, gens, pass, passing, refresh, queued, timer, entries, threads, system,
                     failed, overlooked, linkerFailed, reparse>>
  PROVE  MapInv'
<1>1. /\ MapIs(map) /\ gens \in Version /\ DOMAIN patch = Patch /\ disk \in Version
      /\ RaceInv /\ (raced => raced') /\ Touches[p] \subseteq File
  BY StampFacts, NoRace DEF MapInv, ShapeInv
<1>2. \A g \in File \ {f} : disk'[g] = disk[g] /\ disk[g] \in Nat
  BY <1>1 DEF Version
<1>3. \A g \in File : Standing[g] \subseteq Standing'[g]
  <2> SUFFICES ASSUME NEW g \in File PROVE Standing[g] \subseteq Standing'[g]
    OBVIOUS
  <2>1. CASE g = f
    <3>1. ~(f \notin Touches[p] \/ ~Busy(patch[p]))
      OBVIOUS
    <3> QED BY <1>1, <2>1, <3>1, StandingGrows
  <2>2. CASE g # f
    <3>1. disk'[g] = disk[g] /\ (<<g, disk[g]>> \in broken' => <<g, disk[g]>> \in broken)
      BY <1>2, <2>2
    <3>2. \A u \in Nat : u = disk[g] /\ <<g, u>> \notin broken => u \in Standing'[g]
      BY <2>2, <3>1 DEF Standing
    <3>3. g \in Touches[p] => patch[p].at \notin {"written", "parsing"}
      BY <2>2
    <3> QED BY <1>1, <3>1, <3>2, <3>3, StandingGrows
  <2> QED BY <2>1, <2>2
<1>4. \A g \in File \ External : map'[g].ver \in Standing'[g]
  BY <1>3, DiskStands
<1>5. Loose \subseteq Loose'
  BY <1>1, LooseMoves
<1>6. stamped' \cap External = {} /\ f \notin External
  BY <1>1 DEF RaceInv, PatchHyp
<1>7. \A g \in External : disk'[g] = disk[g] /\ gens'[g] = gens[g]
  BY <1>2, <1>6, LiveMapAssumption
<1>8. /\ MapIs(map') /\ gens' \in Version /\ PatchIs(p, job, gens')
      /\ \A g \in File : gens[g] <= gens'[g]
  BY <1>1 DEF Version
<1>9. /\ \A g \in File : gens'[g] = gens[g] => map'[g].ver = map[g].ver
      /\ timer' = timer /\ Loose \subseteq Loose' /\ (\A g \in File \ Loose' : gens'[g] = gens[g])
      /\ (Loose' = {} => map' = map)
  BY <1>5
<1>10. UNCHANGED <<pass, passing, refresh, queued, entries, threads, system, failed, overlooked,
                   linkerFailed, reparse>>
  OBVIOUS
<1> QED BY <1>3, <1>4, <1>6, <1>7, <1>8, <1>9, <1>10, PatchStepKeeps

\* The rewriter writes a new version, which may not parse.
LEMMA RewriterKeeps ==
  ASSUME MapInv, StampInv, StampInv', PatchHyp, raced' = (raced \/ Racing'), NEW p \in Patch,
         NEW f \in File, RewriterWrites(p, f)
  PROVE  MapInv'
<1> DEFINE job == [patch[p] EXCEPT !.at = "written"]
           v == top[f] + 1
<1>1. /\ DOMAIN patch = Patch /\ PatchAtStep(p, patch[p]) /\ TreeInv /\ Touches[p] \subseteq File
      /\ disk \in Version /\ top \in Version /\ \A g \in File : top[g] >= Started(g)
      /\ Kind[p] # "restore" => \A g, h \in Touches[p] : g = h
  BY StampFacts DEF MapInv, ShapeInv
<1>2. /\ patch[p].at = "writing" /\ f \in Touches[p] /\ patch' = [patch EXCEPT ![p] = job]
      /\ disk' = [disk EXCEPT ![f] = v] /\ top' = [top EXCEPT ![f] = v]
      /\ events' = events \cup {f} /\ stamped' = stamped
      /\ broken' = broken \/ broken' = broken \cup {<<f, v>>}
  BY <1>1 DEF RewriterWrites, Write, Version
<1>3. UNCHANGED <<map, gens, pass, passing, refresh, queued, timer, entries, threads, system,
                  failed, overlooked, linkerFailed, reparse>>
  BY DEF RewriterWrites, parse, passes, refreshing, derived
<1>4. job.at = "written" /\ job.backup = patch[p].backup
  BY <1>1, <1>2 DEF PatchAtStep
<1> HIDE DEF job
<1>5. Busy(patch[p]) /\ PatchIs(p, job, gens) /\ ~Unlinked(patch[p]) /\ \A g \in Touches[p] : g = f
  BY <1>1, <1>2, <1>4 DEF Busy, PatchIs, Unlinked, PatchAtStep
<1>6. /\ v \in Nat /\ top[f] \in Nat /\ Started(f) \in Nat /\ Started(f) < v /\ top[f] < v
      /\ patch[p].backup[f] = disk[f] /\ disk[f] \in Nat /\ disk[f] <= top[f]
      /\ <<f, disk[f]>> \notin broken
  <2>1. Started(f) \in Nat /\ top[f] \in Nat /\ top[f] >= Started(f) /\ disk[f] \in Nat
    BY <1>1 DEF Started, Version
  <2>2. /\ patch[p].backup[f] = disk[f] /\ disk[f] <= top[f]
        /\ <<f, patch[p].backup[f]>> \notin broken
    BY <1>1, <1>2 DEF TreeInv
  <2> QED BY <2>1, <2>2
<1> HIDE DEF v
<1>7. f \in File \ External
  BY <1>2 DEF PatchHyp
<1>8. /\ disk'[f] = v /\ top'[f] = v
      /\ \A g \in File \ {f} : disk'[g] = disk[g] /\ top'[g] = top[g]
  BY <1>1, <1>2, <1>6, <1>7 DEF Version
<1>9. /\ broken' \subseteq (File \ External) \X Nat /\ broken \subseteq broken'
      /\ \A g \in File \ {f} : \A u \in Nat : <<g, u>> \in broken' => <<g, u>> \in broken
      /\ \A u \in Nat : <<f, u>> \in broken' => <<f, u>> \in broken \/ u = v
  BY <1>1, <1>2, <1>6, <1>7 DEF TreeInv
<1>10. \A u \in Nat : <<f, u>> \in broken => Started(f) < u /\ u <= top[f]
  BY <1>7, <1>1 DEF TreeInv
<1>11. TreeInv'
  <2>1. \A u \in Nat : <<f, u>> \in broken' => Started(f) < u /\ u <= top'[f]
    BY <1>6, <1>8, <1>9, <1>10
  <2>2. job.backup[f] <= top'[f] /\ <<f, job.backup[f]>> \notin broken'
    BY <1>4, <1>6, <1>8, <1>9
  <2>3. disk'[f] <= top'[f]
    BY <1>6, <1>8
  <2>4. \A g \in Touches[p] :
           /\ disk'[g] <= top'[g]
           /\ \A u \in Nat : <<g, u>> \in broken' => Started(g) < u /\ u <= top'[g]
           /\ job.backup[g] <= top'[g] /\ <<g, job.backup[g]>> \notin broken'
    BY <1>5, <2>1, <2>2, <2>3
  <2>5. \A g \in File \ Touches[p] :
           /\ disk'[g] = disk[g] /\ top'[g] = top[g]
           /\ \A u \in Nat : <<g, u>> \in broken' => <<g, u>> \in broken
    BY <1>2, <1>8, <1>9
  <2>6. \A g \in Touches[p] :
           /\ disk'[g] <= top'[g]
           /\ \A u \in Nat : <<g, u>> \in broken' => Started(g) < u /\ u <= top'[g]
           /\ <<g, disk'[g]>> \notin broken' \/ job.at \in {"written", "parsing"}
           /\ job.at \in {"writing", "written", "parsing"} =>
                job.backup[g] <= top'[g] /\ <<g, job.backup[g]>> \notin broken'
           /\ job.at = "writing" => job.backup[g] = disk'[g]
    BY <1>4, <2>4
  <2>7. broken' \subseteq (File \ External) \X Nat /\ TreeInv
    BY <1>1, <1>9
  <2> QED BY <1>2, <1>5, <2>5, <2>6, <2>7, TreeOfPatch
<1>12. patch'[p] = job
  BY <1>1, <1>2
<1>13. \A u \in Nat : u = disk[f] /\ <<f, u>> \notin broken => u \in Standing'[f]
  <2> SUFFICES ASSUME NEW u \in Nat, u = disk[f] PROVE u \in Standing'[f]
    OBVIOUS
  <2>1. f \in Touches[p] /\ patch'[p].at \in {"written", "parsing"} /\ u = patch'[p].backup[f]
    BY <1>2, <1>4, <1>6, <1>12
  <2> QED BY <1>7, <2>1 DEF Standing
<1>14. stamped' \subseteq stamped \cup Touches[p] /\ events \subseteq events'
       /\ patch[p].at # "reading" /\ patch[p].at \notin {"written", "parsing"} /\ job.at # "linking"
  BY <1>2, <1>4
<1> QED BY <1>2, <1>3, <1>5, <1>6, <1>9, <1>11, <1>13, <1>14, WriteKeeps

\* What does not parse is rolled back.
LEMMA RollBackKeeps ==
  ASSUME MapInv, StampInv, StampInv', PatchHyp, raced' = (raced \/ Racing'), NEW p \in Patch,
         NEW f \in File, RollBack(p, f)
  PROVE  MapInv'
<1> DEFINE v == patch[p].backup[f]
<1>1. /\ DOMAIN patch = Patch /\ PatchAtStep(p, patch[p]) /\ TreeInv /\ Touches[p] \subseteq File
      /\ disk \in Version
      /\ Kind[p] # "restore" => \A g, h \in Touches[p] : g = h
  BY StampFacts DEF MapInv, ShapeInv
<1>2. /\ patch[p].at = "parsing" /\ f \in Touches[p] /\ patch' = [patch EXCEPT ![p] = Done]
      /\ ParseOf(f, disk[f]) = 0
      /\ disk' = [disk EXCEPT ![f] = v] /\ events' = events \cup {f} /\ stamped' = stamped
      /\ broken' = broken /\ top' = top
  BY DEF RollBack, Write
<1>3. UNCHANGED <<map, gens, pass, passing, refresh, queued, timer, entries, threads, system,
                  failed, overlooked, linkerFailed, reparse>>
  BY DEF RollBack, parse, passes, refreshing, derived
<1>4. PatchIs(p, Done, gens) /\ Done.at = "done" /\ Busy(patch[p]) /\ ~Unlinked(patch[p])
      /\ \A g \in Touches[p] : g = f
  BY <1>1, <1>2 DEF PatchIs, Done, Busy, Unlinked, PatchAtStep
<1>5. v \in Nat /\ v <= top[f] /\ <<f, v>> \notin broken
  BY <1>1, <1>2 DEF PatchAtStep, TreeInv
<1>6. <<f, disk[f]>> \in broken
  BY <1>2 DEF ParseOf, StampInv, Patches, WrittenIsThere
<1> HIDE DEF v
<1>7. disk'[f] = v /\ \A g \in File \ {f} : disk'[g] = disk[g]
  BY <1>1, <1>2 DEF Version
<1>8. TreeInv'
  <2>1. broken' \subseteq (File \ External) \X Nat
    BY <1>1, <1>2 DEF TreeInv
  <2>2. \A g \in File \ Touches[p] :
           /\ disk'[g] = disk[g] /\ top'[g] = top[g]
           /\ \A u \in Nat : <<g, u>> \in broken' => <<g, u>> \in broken
    BY <1>2, <1>7
  <2>3. \A g \in Touches[p] :
           /\ disk'[g] <= top'[g] /\ <<g, disk'[g]>> \notin broken'
           /\ \A u \in Nat : <<g, u>> \in broken' => Started(g) < u /\ u <= top'[g]
    BY <1>1, <1>2, <1>4, <1>5, <1>7 DEF TreeInv
  <2> QED BY <1>1, <1>2, <1>4, <2>1, <2>2, <2>3, TreeOfPatch
<1>9. patch[p].backup[f] \in Standing'[f]
  BY <1>2, <1>5, <1>7 DEF Standing, v
<1>10. stamped' \subseteq stamped \cup Touches[p] /\ events \subseteq events'
       /\ patch[p].at # "reading" /\ Done.at # "linking" /\ broken \subseteq broken'
       /\ \A u \in Nat : u = disk[f] /\ <<f, u>> \notin broken => u \in Standing'[f]
  BY <1>2, <1>4, <1>6
<1> QED BY <1>2, <1>3, <1>4, <1>5, <1>8, <1>9, <1>10, WriteKeeps

\* A restore comes to one of its files: it leaves it, deletes it or writes it.
LEMMA RestoreKeeps ==
  ASSUME MapInv, StampInv, StampInv', PatchHyp, raced' = (raced \/ Racing'), NEW p \in Patch,
         NEW f \in File, RestoreOne(p, f)
  PROVE  MapInv'
<1> DEFINE left == patch[p].left \ {f}
           one == [patch[p] EXCEPT !.left = left]
           any == [patch[p] EXCEPT !.left = left, !.any = TRUE]
           reading == [at |-> "reading", file |-> f, left |-> left]
           v == RestoreTo[p][f]
<1>1. /\ DOMAIN patch = Patch /\ PatchAtStep(p, patch[p]) /\ PatchIs(p, patch[p], gens)
      /\ TreeInv /\ Touches[p] \subseteq File
      /\ disk \in Version /\ top \in Version /\ \A g \in File : top[g] >= Started(g)
      /\ RestoreTo \in [Patch -> [File -> Nat]]
  BY StampFacts DEF MapInv, ShapeInv
<1>2. /\ patch[p].at = "restoring" /\ f \in patch[p].left /\ f \in Touches[p] /\ Busy(patch[p])
  BY <1>1 DEF RestoreOne, PatchAtStep, PatchIs, Busy
<1>3. /\ one.at = "restoring" /\ PatchIs(p, one, gens) /\ (Unlinked(patch[p]) => Unlinked(one))
  BY <1>1, <1>2 DEF PatchIs, PatchAtStep, Unlinked
<1>4. any.at = "restoring" /\ (\A g : PatchIs(p, any, g)) /\ Unlinked(any)
  BY <1>1, <1>2 DEF PatchIs, PatchAtStep, Unlinked
<1>5. /\ reading.at = "reading" /\ reading.file = f /\ PatchIs(p, reading, gens) /\ Unlinked(reading)
  BY <1>2 DEF PatchIs, Unlinked
<1>6. UNCHANGED <<top, broken, pass, passing, refresh, queued, timer, entries, threads, system,
                  failed, overlooked, linkerFailed, reparse>>
  BY DEF RestoreOne, parse, passes, refreshing, derived
<1>7. \A g \in Touches[p] : <<g, disk[g]>> \notin broken
  BY <1>1, <1>2, WholeOutside
<1>8. /\ v \in Nat /\ v <= top[f] /\ <<f, v>> \notin broken
  <2>1. v \in Nat /\ v <= Started(f) /\ Started(f) \in Nat /\ top[f] \in Nat /\ top[f] >= Started(f)
    BY <1>1, <1>2 DEF PatchHyp, Started, Version
  <2>2. <<f, v>> \in broken => Started(f) < v
    BY <1>1, <2>1 DEF TreeInv
  <2> QED BY <2>1, <2>2
<1>9. \/ /\ patch' = [patch EXCEPT ![p] = one]
         /\ UNCHANGED <<disk, map, gens, stamped, events>>
      \/ /\ v = 0 /\ patch' = [patch EXCEPT ![p] = any]
         /\ map' = [map EXCEPT ![f] = Solo(0)] /\ gens' = [gens EXCEPT ![f] = @ + 1]
         /\ disk' = [disk EXCEPT ![f] = v] /\ events' = events \cup {f}
         /\ stamped' = stamped \cup {f}
      \/ /\ patch' = [patch EXCEPT ![p] = reading] /\ UNCHANGED <<map, gens>>
         /\ disk' = [disk EXCEPT ![f] = v] /\ events' = events \cup {f}
         /\ stamped' = stamped \cup {f}
  BY <1>1, <1>2 DEF RestoreOne, Write, parse, Gone
<1> HIDE DEF one, any, reading, v
<1>10. CASE /\ patch' = [patch EXCEPT ![p] = one]
            /\ UNCHANGED <<disk, map, gens, stamped, events>>
  <2>1. one.at # "linking" /\ one.at \notin {"writing", "written", "parsing"}
        /\ patch[p].at # "reading" /\ patch[p].at \notin {"written", "parsing"}
        /\ stamped' \subseteq stamped \cup Touches[p]
    BY <1>2, <1>3, <1>10
  <2> QED BY <1>2, <1>3, <1>6, <1>7, <1>10, <2>1, QuietPatchKeeps
\* What a write leaves of the tree.
<1>11. ASSUME NEW job \in {any, reading}, patch' = [patch EXCEPT ![p] = job],
              disk' = [disk EXCEPT ![f] = v]
       PROVE  TreeInv'
  <2>1. disk'[f] = v /\ \A g \in File \ {f} : disk'[g] = disk[g]
    BY <1>1, <1>2, <1>11 DEF Version
  <2>2. job.at \in {"restoring", "reading"}
    BY <1>4, <1>5
  <2>3. \A g \in Touches[p] :
           /\ disk'[g] <= top'[g]
           /\ \A u \in Nat : <<g, u>> \in broken' => Started(g) < u /\ u <= top'[g]
           /\ <<g, disk'[g]>> \notin broken'
    BY <1>1, <1>6, <1>7, <1>8, <2>1 DEF TreeInv
  <2>4. \A g \in File \ Touches[p] :
           /\ disk'[g] = disk[g] /\ top'[g] = top[g]
           /\ \A u \in Nat : <<g, u>> \in broken' => <<g, u>> \in broken
    BY <1>2, <1>6, <2>1
  <2>5. broken' \subseteq (File \ External) \X Nat
    BY <1>1, <1>6 DEF TreeInv
  <2>6. \A g \in Touches[p] :
           /\ disk'[g] <= top'[g]
           /\ \A u \in Nat : <<g, u>> \in broken' => Started(g) < u /\ u <= top'[g]
           /\ <<g, disk'[g]>> \notin broken' \/ job.at \in {"written", "parsing"}
           /\ job.at \in {"writing", "written", "parsing"} =>
                job.backup[g] <= top'[g] /\ <<g, job.backup[g]>> \notin broken'
           /\ job.at = "writing" => job.backup[g] = disk'[g]
    BY <2>2, <2>3
  <2> QED BY <1>1, <1>2, <1>11, <2>4, <2>5, <2>6, TreeOfPatch
<1>12. CASE /\ v = 0 /\ patch' = [patch EXCEPT ![p] = any]
            /\ map' = [map EXCEPT ![f] = Solo(0)] /\ gens' = [gens EXCEPT ![f] = @ + 1]
            /\ disk' = [disk EXCEPT ![f] = v] /\ events' = events \cup {f}
            /\ stamped' = stamped \cup {f}
  <2>1. disk'[f] = 0 /\ \A g \in File \ {f} : disk'[g] = disk[g]
    BY <1>1, <1>2, <1>12 DEF Version
  <2>2. map' = [map EXCEPT ![f] = Solo(disk'[f])] /\ <<f, disk'[f]>> \notin broken'
    <3>1. Solo(disk'[f]) = Solo(0)
      BY <2>1
    <3>2. map' = [map EXCEPT ![f] = Solo(disk'[f])]
      BY <1>12, <3>1, Zenon
    <3>3. disk'[f] = v
      BY <1>12, <2>1
    <3>4. <<f, disk'[f]>> \notin broken'
      BY <1>6, <1>8, <3>3
    <3> QED BY <3>2, <3>4
  <2>3. TreeInv'
    BY <1>11, <1>12
  <2>4. any.at # "linking" /\ PatchIs(p, any, gens') /\ broken' = broken
        /\ patch[p].at # "reading" /\ patch[p].at \notin {"written", "parsing"}
        /\ stamped' \subseteq stamped \cup Touches[p] /\ events \subseteq events'
    BY <1>2, <1>4, <1>6, <1>12
  <2> QED BY <1>2, <1>4, <1>6, <1>12, <2>1, <2>2, <2>3, <2>4, ParseKeeps
<1>13. CASE /\ patch' = [patch EXCEPT ![p] = reading] /\ UNCHANGED <<map, gens>>
            /\ disk' = [disk EXCEPT ![f] = v] /\ events' = events \cup {f}
            /\ stamped' = stamped \cup {f}
  <2>1. TreeInv'
    BY <1>11, <1>13
  <2>2. \A u \in Nat : u \in Standing'[f]
    <3>1. patch'[p] = reading
      BY <1>1, <1>13
    <3> QED BY <1>2, <1>5, <3>1 DEF Standing
  <2>3. reading.at # "linking" /\ broken \subseteq broken'
        /\ patch[p].at # "reading" /\ patch[p].at \notin {"written", "parsing"}
        /\ stamped' \subseteq stamped \cup Touches[p] /\ events \subseteq events'
        /\ \A g \in File \ {f} : \A u \in Nat : <<g, u>> \in broken' => <<g, u>> \in broken
    BY <1>2, <1>5, <1>6, <1>13
  <2> QED BY <1>2, <1>5, <1>6, <1>8, <1>13, <2>1, <2>2, <2>3, WriteKeeps
<1> QED BY <1>9, <1>10, <1>12, <1>13

\* Whatever a patch does, the map follows.
LEMMA PatchesKeep ==
  ASSUME MapInv, StampInv, StampInv', PatchHyp, raced' = (raced \/ Racing'), NEW p \in Patch,
         BeginEdit(p) \/ BeginRestore(p) \/ PatchStep(p)
  PROVE  MapInv'
BY PatchesMove, ParsesLand, PatchLinksEnd, RewriterKeeps, RollBackKeeps, RestoreKeeps DEF PatchStep

\* What stands outside patches is as it was.
LEMMA StandingStays ==
  ASSUME raced => raced', UNCHANGED <<broken, patch>>, NEW f \in File, disk'[f] = disk[f]
  PROVE  Standing[f] \subseteq Standing'[f]
BY DEF Standing

\* The steps that leave the tree, the map and the patches alone keep what is said of
\* them.
LEMMA DerivingKeeps ==
  ASSUME MapInv, raced' = (raced \/ Racing'),
         UNCHANGED <<disk, top, broken, map, gens, patch, events, reparse>>,
         RefreshIs(refresh', gens), refresh'.at = "linking" => refresh' = refresh,
         DOMAIN pass' = Pass,
         \A i \in Pass : /\ PassIs(pass'[i], gens)
                         /\ pass'[i].at = "parsing" \/ pass[i].at = "parsing" => pass'[i] = pass[i],
         RaceInv', DerivedInv'
  PROVE  MapInv'
<1>1. RaceInv /\ (raced => raced') /\ raced \in BOOLEAN
  BY NoRace DEF MapInv, RaceInv
<1>2. ShapeInv'
  BY DEF MapInv, ShapeInv
<1>3. TreeInv'
  BY DEF MapInv, TreeInv
<1>4. CopiesInv'
  <2>1. \A f \in File : Standing[f] \subseteq Standing'[f]
    BY <1>1, StandingStays
  <2>2. \A link : LinkStands(link, gens, Standing) => LinkStands(link, gens', Standing')
    BY <2>1 DEF LinkStands
  <2>3. \A job : PassStands(job, gens, Standing) => PassStands(job, gens', Standing')
    BY <2>1 DEF PassStands
  <2>4. CopiesInv
    BY DEF MapInv
  <2>5. \A f \in File \ External : map'[f].ver \in Standing'[f]
    BY <2>1, <2>4 DEF CopiesInv
  <2>6. \A p \in Patch : patch'[p].at = "linking" => LinkStands(patch'[p].link, gens', Standing')
    BY <2>2, <2>4 DEF CopiesInv
  <2>7. refresh'.at = "linking" => LinkStands(refresh'.link, gens', Standing')
    BY <2>2, <2>4 DEF CopiesInv
  <2>8. \A i \in Pass : pass'[i].at = "parsing" => PassStands(pass'[i], gens', Standing')
    BY <2>3, <2>4 DEF CopiesInv
  <2> QED BY <2>5, <2>6, <2>7, <2>8 DEF CopiesInv
<1>5. TrueInv'
  BY <1>1 DEF MapInv, TrueInv
<1>6. ExternalInv'
  BY <1>1 DEF MapInv, ExternalInv
<1> QED BY <1>2, <1>3, <1>4, <1>5, <1>6 DEF MapInv

\* A file changes from outside, a notification arrives, a stamp expires.
LEMMA OutsideKeeps ==
  ASSUME MapInv, StampInv, StampInv', PatchHyp, raced' = (raced \/ Racing'), NEW f \in File,
         ExternalEdit(f) \/ EventArrives(f) \/ StampExpires(f)
  PROVE  MapInv'
<1>1. UNCHANGED <<broken, map, gens, patch, pass, passing, refresh, timer, queued, entries, threads,
                  system, failed, overlooked, linkerFailed>>
  BY DEF ExternalEdit, EventArrives, StampExpires, tree, parse, passes, refreshing, derived
<1>2. /\ RaceInv /\ (raced => raced') /\ raced \in BOOLEAN /\ disk \in Version /\ top \in Version
      /\ raced' = raced
  <2>1. RaceInv /\ disk \in Version /\ top \in Version
    BY StampFacts DEF MapInv
  <2>2. Racing' => Racing
    BY <1>1 DEF Racing
  <2> QED BY <2>1, <2>2 DEF RaceInv
<1>3. \/ /\ f \in External /\ disk' = [disk EXCEPT ![f] = top[f] + 1]
         /\ top' = [top EXCEPT ![f] = top[f] + 1] /\ events' = events \cup {f}
         /\ UNCHANGED <<stamped, reparse>>
      \/ /\ f \in events /\ events' = events \ {f} /\ reparse' = (reparse \/ ~IsRecentSelfEdit(f))
         /\ UNCHANGED <<disk, top, stamped>>
      \/ /\ f \in stamped \ events /\ stamped' = stamped \ {f}
         /\ UNCHANGED <<disk, top, events, reparse>>
  BY <1>2 DEF ExternalEdit, EventArrives, StampExpires, Write, tree, Version
<1>4. \A g \in File \ External : disk'[g] = disk[g] /\ top'[g] = top[g]
  BY <1>2, <1>3 DEF Version
<1>5. ShapeInv'
  BY <1>1 DEF MapInv, ShapeInv
<1>6. TreeInv'
  <2> SUFFICES ASSUME f \in External, disk' = [disk EXCEPT ![f] = top[f] + 1],
                      top' = [top EXCEPT ![f] = top[f] + 1]
               PROVE  TreeInv'
    <3>1. UNCHANGED <<disk, top>> => TreeInv'
      BY <1>1 DEF MapInv, TreeInv
    <3> QED BY <1>3, <3>1
  <2>1. TreeInv /\ top[f] + 1 \in Nat
    BY <1>2 DEF MapInv, Version
  <2>2. /\ disk'[f] = top[f] + 1 /\ top'[f] = top[f] + 1
        /\ \A g \in File \ {f} : disk'[g] = disk[g] /\ top'[g] = top[g]
    BY <1>2 DEF Version
  <2>3. \A g \in File : disk'[g] <= top'[g]
    BY <2>1, <2>2 DEF TreeInv
  <2>4. \A v : <<f, v>> \notin broken
    BY <2>1 DEF TreeInv
  <2>5. broken' \subseteq (File \ External) \X Nat
    BY <1>1, <2>1 DEF TreeInv
  <2>6. \A g \in File : \A v \in Nat : <<g, v>> \in broken' => Started(g) < v /\ v <= top'[g]
    BY <1>1, <2>1, <2>2, <2>4 DEF TreeInv
  <2>7. \A g \in File : \/ <<g, disk'[g]>> \notin broken'
                        \/ \E p \in Patch : g \in Touches[p] /\ patch'[p].at \in {"written", "parsing"}
    BY <1>1, <2>1, <2>2, <2>4 DEF TreeInv
  <2>8. \A p \in Patch : f \notin Touches[p] /\ Touches[p] \subseteq File
    BY StampFacts DEF PatchHyp
  <2>9. \A p \in Patch : \A g \in Touches[p] :
          /\ patch'[p].at \in {"writing", "written", "parsing"} =>
               patch'[p].backup[g] <= top'[g] /\ <<g, patch'[p].backup[g]>> \notin broken'
          /\ patch'[p].at = "writing" => patch'[p].backup[g] = disk'[g]
    BY <1>1, <2>1, <2>2, <2>8 DEF TreeInv
  <2> QED BY <2>3, <2>5, <2>6, <2>7, <2>9 DEF TreeInv
<1>7. RaceInv'
  <2>1. stamped' \cap External = {}
    BY <1>2, <1>3 DEF RaceInv
  <2>2. Racing' = Racing
    BY <1>1 DEF Racing
  <2> QED BY <1>1, <1>2, <2>1, <2>2 DEF RaceInv
<1>8. CopiesInv'
  <2>1. \A g \in File \ External : Standing[g] \subseteq Standing'[g]
    BY <1>1, <1>2, <1>4, StandingStays
  <2>2. CopiesInv
    BY DEF MapInv
  <2>3. \A g \in File \ External : map'[g].ver \in Standing'[g]
    BY <1>1, <2>1, <2>2 DEF CopiesInv
  <2>4. \A link : LinkStands(link, gens, Standing) => LinkStands(link, gens', Standing')
    BY <1>1, <2>1 DEF LinkStands
  <2>5. \A job : PassStands(job, gens, Standing) => PassStands(job, gens', Standing')
    BY <1>1, <2>1 DEF PassStands
  <2>6. (\A p \in Patch : patch'[p].at = "linking" => LinkStands(patch'[p].link, gens', Standing'))
        /\ (refresh'.at = "linking" => LinkStands(refresh'.link, gens', Standing'))
    BY <1>1, <2>2, <2>4 DEF CopiesInv
  <2>7. \A i \in Pass : pass'[i].at = "parsing" => PassStands(pass'[i], gens', Standing')
    BY <1>1, <2>2, <2>5 DEF CopiesInv
  <2> QED BY <2>3, <2>6, <2>7 DEF CopiesInv
<1>9. TrueInv'
  BY <1>1, <1>2 DEF MapInv, TrueInv
<1>10. DerivedInv'
  <2>1. Loose' = Loose /\ Due' = Due
    BY <1>1 DEF Loose, Unlinked, Due
  <2>2. \A job : JobDerives(job) => JobDerives(job)'
    BY <1>1, <2>1 DEF JobDerives
  <2>3. AllDerived => AllDerived'
    BY <1>1, <2>1, AllDerivedStays
  <2> QED BY <1>1, <1>2, <2>1, <2>2, <2>3 DEF MapInv, DerivedInv, JobDerives
<1>11. ExternalInv'
  <2> SUFFICES ASSUME ~raced', NEW g \in External, ~(g \in events' \/ reparse')
               PROVE  /\ \A i \in Pass : pass[i].at = "parsing" =>
                           g \in pass[i].left \/ pass[i].read[g] = disk'[g]
                      /\ (\A i \in Pass : pass[i].at # "parsing") => map[g].ver = disk'[g]
    BY <1>1 DEF ExternalInv
  <2>1. g \in File
    BY LiveMapAssumption
  <2>2. ~(g \in events \/ reparse)
    <3>1. ASSUME g = f, f \in events, reparse' = (reparse \/ ~IsRecentSelfEdit(f)) PROVE FALSE
      <4>1. f \notin stamped /\ ~SelfEditInFlight(f)
        BY <1>2, <3>1 DEF RaceInv, SelfEditInFlight, PatchHyp
      <4> QED BY <3>1, <4>1 DEF IsRecentSelfEdit
    <3> QED BY <1>3, <3>1
  <2>3. disk'[g] = disk[g]
    BY <1>2, <1>3, <2>1 DEF Version
  <2> QED BY <1>2, <2>2, <2>3 DEF MapInv, ExternalInv
<1> QED BY <1>5, <1>6, <1>7, <1>8, <1>9, <1>10, <1>11 DEF MapInv

\* refreshDerived is called: one link starts, or one more is queued.
LEMMA CallsKeep ==
  ASSUME MapInv, raced' = (raced \/ Racing'), timer, timer' = FALSE, RefreshDerived,
         UNCHANGED <<disk, top, broken, map, gens, patch, pass, passing, stamped, events, reparse,
                     entries, threads, system, failed, overlooked, linkerFailed>>
  PROVE  MapInv'
<1>1. /\ map \in Map /\ gens \in Version /\ RefreshIs(refresh, gens)
      /\ DOMAIN pass = Pass /\ \A i \in Pass : PassIs(pass[i], gens)
      /\ RaceInv /\ (raced => raced') /\ raced' \in BOOLEAN /\ (Racing' => raced')
  BY NoRace DEF MapInv, ShapeInv, MapIs
<1>2. Loose' = Loose
  BY DEF Loose, Unlinked
<1>3. CASE Busy(refresh)
  <2>1. queued' = TRUE /\ refresh' = refresh /\ Due'
    BY <1>3 DEF RefreshDerived, Due
  <2>2. RaceInv'
    BY <1>1, <1>3, <2>1 DEF RaceInv, Busy
  <2>3. \A job : JobDerives(job) => JobDerives(job)'
    BY <2>1 DEF JobDerives
  <2>4. DerivedInv'
    <3>1. AllDerived => AllDerived'
      BY <2>1, AllDerivedStays
    <3> QED BY <1>1, <2>1, <2>3, <3>1 DEF MapInv, DerivedInv, JobDerives
  <2> QED BY <1>1, <2>1, <2>2, <2>4, DerivingKeeps
<1>4. CASE ~Busy(refresh)
  <2> DEFINE link == LinkOf(map, gens)
             job == [at |-> "linking", link |-> link]
  <2>1. queued' = queued /\ refresh' = job /\ refresh.at = "idle" /\ ~queued
    BY <1>1, <1>4 DEF RefreshDerived, RefreshIs, Busy, Deriving, RaceInv
  <2>2. LinkIs(link, gens) /\ link.since = gens /\ \A f \in File : link.of[f].ver = map[f].ver
    BY <1>1, LinksStart DEF MapInv, ShapeInv
  <2>3. job.at = "linking" /\ job.link = link /\ RefreshIs(job, gens) /\ Busy(job)
        /\ job.at \notin Deriving
    BY <2>2 DEF RefreshIs, Busy, Deriving
  <2> HIDE DEF job, link
  <2>4. ShapeInv'
    BY <2>1, <2>3 DEF MapInv, ShapeInv
  <2>5. TreeInv'
    BY DEF MapInv, TreeInv
  <2>6. RaceInv'
    BY <1>1, <2>1 DEF RaceInv
  <2>7. CopiesInv'
    <3>1. \A f \in File : Standing[f] \subseteq Standing'[f]
      BY <1>1, StandingStays
    <3>2. CopiesInv
      BY DEF MapInv
    <3>3. \A f \in File \ External : map'[f].ver \in Standing'[f]
      BY <3>1, <3>2 DEF CopiesInv
    <3>4. \A p \in Patch : patch'[p].at = "linking" => LinkStands(patch'[p].link, gens', Standing')
      BY <3>1, <3>2 DEF CopiesInv, LinkStands
    <3>5. LinkStands(link, gens', Standing')
      BY <2>2, <3>3 DEF LinkStands
    <3>6. \A i \in Pass : pass'[i].at = "parsing" => PassStands(pass'[i], gens', Standing')
      BY <3>1, <3>2 DEF CopiesInv, PassStands
    <3> QED BY <2>1, <2>3, <3>3, <3>4, <3>5, <3>6 DEF CopiesInv
  <2>8. TrueInv'
    BY <1>1, <2>1, <2>2, <2>3 DEF MapInv, TrueInv, LinkTrue
  <2>9. DerivedInv'
    <3> SUFFICES ASSUME ~raced' PROVE DerivedInv'
      BY DEF DerivedInv
    <3>1. \A i \in Pass : pass'[i].at \notin Deriving
      BY <1>1, <2>1, <2>3 DEF Racing, Busy, Deriving
    <3>2. LinkCurrent(link, gens', Loose')
      BY <2>2 DEF LinkCurrent
    <3>3. PICK view : AllOf(view)
      BY <1>1, <2>1, <3>1 DEF MapInv, DerivedInv, Deriving, AllDerived
    <3>4. AllDerived'
      BY <2>1, <2>3, <3>3 DEF AllOf, AllDerived
    <3> QED BY <2>1, <2>3, <3>1, <3>2, <3>4 DEF DerivedInv
  <2>10. ExternalInv'
    BY <1>1 DEF MapInv, ExternalInv
  <2> QED BY <2>4, <2>5, <2>6, <2>7, <2>8, <2>9, <2>10 DEF MapInv
<1> QED BY <1>3, <1>4

\* The refresh's link ends.
LEMMA RefreshLinkEnds ==
  ASSUME MapInv, raced' = (raced \/ Racing'), NEW ok \in BOOLEAN, RefreshMerges(ok)
  PROVE  MapInv'
<1> DEFINE link == refresh.link
           job == [at |-> "discovering", view |-> map']
<1>1. /\ MapIs(map) /\ gens \in Version /\ RefreshIs(refresh, gens)
      /\ DOMAIN pass = Pass /\ \A i \in Pass : PassIs(pass[i], gens)
      /\ RaceInv /\ (raced => raced') /\ raced' \in BOOLEAN /\ (Racing' => raced')
  BY NoRace DEF MapInv, ShapeInv
<1>2. /\ refresh.at = "linking" /\ map' = MergeRelinked(link, ok) /\ refresh' = job
      /\ linkerFailed' = ~ok
      /\ UNCHANGED <<disk, top, broken, gens, patch, pass, passing, stamped, events, reparse, timer,
                     queued, entries, threads, system>>
  BY DEF RefreshMerges, tree, watcher, passes
<1>3. /\ LinkIs(link, gens) /\ LinkStands(link, gens, Standing)
      /\ (~raced => LinkTrue(link, gens, map)) /\ Busy(refresh)
  BY <1>1, <1>2 DEF RefreshIs, MapInv, CopiesInv, TrueInv, Busy
<1>4. /\ MapIs(map')
      /\ \A f \in File : \/ map'[f] = map[f]
                         \/ map'[f].ver = link.of[f].ver /\ link.since[f] = gens[f]
  BY <1>1, <1>2, <1>3, MergedIsMap DEF LinkIs
<1>5. job.at = "discovering" /\ job.view = map' /\ RefreshIs(job, gens') /\ Busy(job)
      /\ job.at \in Deriving
  BY DEF RefreshIs, Busy, Deriving
<1> HIDE DEF job, link
<1>6. ~raced' => \A i \in Pass : ~Busy(pass[i]) /\ ~Busy(pass'[i])
  BY <1>1, <1>2, <1>3, NoRace
<1>7. ~raced' => \A f \in File : map'[f].ver = map[f].ver
  BY <1>1, <1>3, <1>4 DEF LinkTrue
<1>8. ShapeInv'
  BY <1>1, <1>2, <1>4, <1>5 DEF MapInv, ShapeInv
<1>9. TreeInv'
  BY <1>2 DEF MapInv, TreeInv
<1>10. RaceInv'
  BY <1>1, <1>2, <1>5 DEF RaceInv
<1>11. CopiesInv'
  <2>1. \A f \in File : Standing[f] \subseteq Standing'[f]
    BY <1>1, <1>2, StandingStays
  <2>2. CopiesInv
    BY DEF MapInv
  <2>3. \A f \in File \ External : map'[f].ver \in Standing'[f]
    BY <1>3, <1>4, <2>1, <2>2 DEF CopiesInv, LinkStands
  <2>4. \A p \in Patch : patch'[p].at = "linking" => LinkStands(patch'[p].link, gens', Standing')
    BY <1>2, <2>1, <2>2 DEF CopiesInv, LinkStands
  <2>5. \A i \in Pass : pass'[i].at = "parsing" => PassStands(pass'[i], gens', Standing')
    BY <1>2, <2>1, <2>2 DEF CopiesInv, PassStands
  <2> QED BY <1>2, <1>5, <2>3, <2>4, <2>5 DEF CopiesInv
<1>12. TrueInv'
  <2> SUFFICES ASSUME ~raced' PROVE TrueInv'
    BY DEF TrueInv
  <2>1. ~raced /\ \A i \in Pass : pass'[i].at # "parsing"
    BY <1>1, <1>6 DEF Busy
  <2>2. \A p \in Patch : patch'[p].at = "linking" => LinkTrue(patch'[p].link, gens', map')
    BY <1>2, <1>7, <2>1 DEF MapInv, TrueInv, LinkTrue
  <2> QED BY <1>2, <1>5, <2>1, <2>2 DEF TrueInv
<1>13. DerivedInv'
  <2> SUFFICES ASSUME ~raced' PROVE DerivedInv'
    BY DEF DerivedInv
  <2>1. ~raced /\ \A i \in Pass : pass'[i].at \notin Deriving
    BY <1>1, <1>6 DEF Busy, Deriving
  <2>2. Loose' = Loose /\ Due' = Due
    BY <1>2 DEF Loose, Unlinked, Due
  <2>3. ASSUME ~Due', Loose' = {}, ok PROVE Linked(map') = map'
    <3> DEFINE out == Output(link, ok)
    <3>1. \A f \in File : link.since[f] = gens[f]
      BY <1>2, <2>1, <2>2, <2>3 DEF MapInv, DerivedInv, LinkCurrent, link
    <3>2. \A f \in File : link.of[f].ver = map[f].ver
      BY <1>3, <2>1, <3>1 DEF LinkTrue
    <3>3. /\ MapIs(out) /\ Linked(out) = out
          /\ \A f \in File : out[f].ver = link.of[f].ver
      BY <1>3, <2>3, OutputIsMap DEF LinkIs
    <3>4. map' = [f \in File |-> IF map[f].ver # 0 /\ gens[f] = link.since[f] /\ link.of[f].ver # 0
                                THEN out[f] ELSE map[f]]
      BY <1>2 DEF MergeRelinked
    <3> HIDE DEF out
    <3>5. \A f \in File : map'[f] = out[f]
      BY <1>1, <3>1, <3>2, <3>3, <3>4 DEF MapIs
    <3>6. map' = out
      BY <1>4, <3>3, <3>5 DEF MapIs, Map
    <3> QED BY <3>3, <3>6
  <2>4. ~Due' => ViewIs(job.view, map', Loose', linkerFailed')
    BY <1>2, <1>5, <2>3 DEF ViewIs
  <2>5. JobDerives(refresh)'
    BY <1>2, <1>5, <2>4 DEF JobDerives
  <2> QED BY <1>2, <1>5, <2>1, <2>5 DEF DerivedInv
<1>14. ExternalInv'
  <2> SUFFICES ASSUME ~raced', NEW f \in External, ~(f \in events' \/ reparse')
               PROVE  /\ \A i \in Pass : pass'[i].at # "parsing"
                      /\ map'[f].ver = disk'[f]
    BY DEF ExternalInv
  <2>1. \A i \in Pass : pass[i].at # "parsing" /\ pass'[i].at # "parsing"
    BY <1>6 DEF Busy
  <2>2. map[f].ver = disk[f] /\ f \in File
    BY <1>1, <1>2, <2>1, LiveMapAssumption DEF MapInv, ExternalInv
  <2> QED BY <1>2, <1>7, <2>1, <2>2
<1> QED BY <1>8, <1>9, <1>10, <1>11, <1>12, <1>13, <1>14 DEF MapInv

\* The refresh finds the entry points, extracts the threads, or fails to, and rolls
\* the system up.
LEMMA RefreshesKeep ==
  ASSUME MapInv, raced' = (raced \/ Racing'), NEW ok \in BOOLEAN, NEW l \in SUBSET File,
         RefreshDiscovers(l) \/ RefreshExtracts(ok) \/ RefreshEnds(ok)
  PROVE  MapInv'
<1>1. /\ gens \in Version /\ RefreshIs(refresh, gens)
      /\ DOMAIN pass = Pass /\ \A i \in Pass : PassIs(pass[i], gens)
      /\ RaceInv /\ (raced => raced') /\ raced' \in BOOLEAN /\ (Racing' => raced')
  BY NoRace DEF MapInv, ShapeInv
<1>2. UNCHANGED <<disk, top, broken, map, gens, linkerFailed, patch, pass, passing, stamped, events,
                  reparse>>
  BY DEF RefreshDiscovers, RefreshExtracts, RefreshEnds, tree, parse, watcher, passes
<1>3. refresh.at \in Deriving /\ Busy(refresh)
  BY DEF RefreshDiscovers, RefreshExtracts, RefreshEnds, Deriving, Busy
<1>4. ~raced' => /\ ~raced /\ JobDerives(refresh)
                 /\ \A i \in Pass : pass'[i].at \notin Deriving
  <2>1. ~raced' => ~raced /\ \A i \in Pass : ~Busy(pass[i])
    BY <1>1, <1>3, NoRace
  <2> QED BY <1>2, <1>3, <2>1 DEF MapInv, DerivedInv, Busy, Deriving
<1>5. Loose' = Loose /\ (Due' <=> Due)
  <2>1. Loose' = Loose
    BY <1>2 DEF Loose, Unlinked
  <2>2. \/ timer' = timer /\ queued' = queued
        \/ timer' = (timer \/ queued) /\ queued' = FALSE
    BY DEF RefreshDiscovers, RefreshExtracts, RefreshEnds
  <2>3. Due' <=> Due
    <3>1. CASE timer' = timer /\ queued' = queued
      BY <3>1, Zenon DEF Due
    <3>2. CASE timer' = (timer \/ queued) /\ queued' = FALSE
      BY <3>2, Zenon DEF Due
    <3> QED BY <2>2, <3>1, <3>2
  <2> QED BY <2>1, <2>3
<1>6. CASE RefreshDiscovers(l)
  <2> DEFINE job == Extracting(refresh, entries')
  <2>1. /\ refresh.at = "discovering" /\ refresh' = job
        /\ overlooked' = l /\ entries' = Found(refresh.view, l)
        /\ UNCHANGED <<timer, queued, threads, system, failed>>
    BY <1>6 DEF RefreshDiscovers, Discovers
  <2>2. job.at = "extracting" /\ job.view = refresh.view /\ job.found = entries'
    BY DEF Extracting
  <2> HIDE DEF job
  <2>3. RaceInv' /\ RefreshIs(refresh', gens) /\ refresh'.at # "linking" /\ refresh'.at \in Deriving
    BY <1>1, <1>2, <2>1, <2>2 DEF RaceInv, RefreshIs, Busy, Deriving
  <2>4. DerivedInv'
    <3> SUFFICES ASSUME ~raced' PROVE JobDerives(refresh)'
      BY <1>4, <2>3 DEF DerivedInv
    <3>1. ~Due' => ViewIs(job.view, map', Loose', linkerFailed')
      BY <1>2, <1>4, <1>5, <2>2 DEF JobDerives
    <3> QED BY <2>1, <2>2, <3>1 DEF JobDerives
  <2> QED BY <1>1, <1>2, <2>3, <2>4, DerivingKeeps
<1>7. CASE RefreshExtracts(ok)
  <2> DEFINE job == [at |-> "rolling", view |-> refresh.view, threads |-> threads']
  <2>1. /\ refresh.at = "extracting" /\ refresh' = job
        /\ (threads' = refresh.found \/ failed' = TRUE)
        /\ UNCHANGED <<timer, queued, entries, overlooked, system>>
    BY <1>7 DEF RefreshExtracts, Extracts
  <2>2. job.at = "rolling" /\ job.view = refresh.view /\ job.threads = threads'
    OBVIOUS
  <2> HIDE DEF job
  <2>3. RaceInv' /\ RefreshIs(refresh', gens) /\ refresh'.at # "linking" /\ refresh'.at \in Deriving
    BY <1>1, <1>2, <2>1, <2>2 DEF RaceInv, RefreshIs, Busy, Deriving
  <2>4. DerivedInv'
    <3> SUFFICES ASSUME ~raced' PROVE JobDerives(refresh)'
      BY <1>4, <2>3 DEF DerivedInv
    <3>1. ~Due' => ViewIs(job.view, map', Loose', linkerFailed')
      BY <1>2, <1>4, <1>5, <2>2 DEF JobDerives
    <3> QED BY <1>4, <2>1, <2>2, <3>1 DEF JobDerives
  <2> QED BY <1>1, <1>2, <2>3, <2>4, DerivingKeeps
<1>8. CASE RefreshEnds(ok)
  <2>1. /\ refresh.at = "rolling" /\ refresh' = Idle /\ queued' = FALSE
        /\ system' \in {[files |-> refresh.view, threads |-> refresh.threads], NoSystem}
        /\ UNCHANGED <<entries, overlooked, threads, failed>>
    BY <1>8 DEF RefreshEnds, RollsUp
  <2>2. RaceInv' /\ RefreshIs(refresh', gens) /\ refresh'.at = "idle"
    BY <1>1, <1>2, <2>1 DEF RaceInv, RefreshIs, Idle, Deriving
  <2>3. DerivedInv'
    <3> SUFFICES ASSUME ~raced' PROVE AllDerived'
      BY <1>4, <2>2 DEF DerivedInv, Deriving
    <3>1. PICK view : view = refresh.view
      OBVIOUS
    <3>2. AllOf(view)'
      BY <1>4, <2>1, <3>1 DEF JobDerives, AllOf
    <3>3. ~Due' => ViewIs(view, map', Loose', linkerFailed')
      BY <1>2, <1>4, <1>5, <3>1 DEF JobDerives
    <3> QED BY <3>2, <3>3 DEF AllDerived
  <2> QED BY <1>1, <1>2, <2>2, <2>3, DerivingKeeps
<1> QED BY <1>6, <1>7, <1>8

\* Nothing that the invariant tells of moves.
LEMMA StillKeeps ==
  ASSUME MapInv, raced' = raced \/ raced' = (raced \/ Racing'),
         UNCHANGED <<disk, top, broken, map, gens, patch, pass, passing, refresh, timer, queued,
                     stamped, events, reparse, entries, threads, system, failed, overlooked, linkerFailed>>
  PROVE  MapInv'
<1>1. RaceInv
  BY DEF MapInv
<1>2. Racing' = Racing
  BY DEF Racing
<1>3. raced' = raced
  BY <1>1, <1>2 DEF RaceInv
<1>4. ShapeInv' /\ TreeInv'
  BY DEF MapInv, ShapeInv, TreeInv
<1>5. RaceInv'
  BY <1>1, <1>2, <1>3 DEF RaceInv
<1>6. Standing' = Standing
  BY <1>3 DEF Standing
<1>7. CopiesInv'
  BY <1>6 DEF MapInv, CopiesInv, LinkStands, PassStands
<1>8. TrueInv'
  BY <1>3 DEF MapInv, TrueInv
<1>9. DerivedInv'
  <2>1. Loose' = Loose /\ Due' = Due
    BY DEF Loose, Unlinked, Due
  <2>2. \A job : JobDerives(job) => JobDerives(job)'
    BY <2>1 DEF JobDerives
  <2>3. AllDerived => AllDerived'
    BY <2>1, AllDerivedStays
  <2> QED BY <1>3, <2>1, <2>2, <2>3 DEF MapInv, DerivedInv, JobDerives
<1>10. ExternalInv'
  BY <1>3 DEF MapInv, ExternalInv
<1> QED BY <1>4, <1>5, <1>7, <1>8, <1>9, <1>10 DEF MapInv

\* The timer fires, or a reader of evidence comes, looks, and goes.
LEMMA WaitsKeep ==
  ASSUME MapInv, raced' = (raced \/ Racing'),
         TimerFires \/ SettleLooks \/ BeginSettle \/ SettleTimesOut
  PROVE  MapInv'
<1>1. UNCHANGED <<disk, top, broken, map, gens, patch, pass, passing, stamped, events, reparse,
                  entries, threads, system, failed, overlooked, linkerFailed>>
  BY DEF TimerFires, SettleLooks, BeginSettle, SettleTimesOut, tree, parse, watcher, passes, derived
<1>2. CASE timer /\ timer' = FALSE /\ RefreshDerived
  BY <1>1, <1>2, CallsKeep
<1>3. CASE UNCHANGED refreshing
  BY <1>1, <1>3, StillKeeps DEF refreshing
<1> QED BY <1>2, <1>3 DEF TimerFires, SettleLooks, BeginSettle, SettleTimesOut

\* A pass begins: it is to read all that is there.
LEMMA PassBeginKeeps ==
  ASSUME MapInv, StampInv, raced' = (raced \/ Racing'), NEW i \in Pass, BeginPass(i)
  PROVE  MapInv'
<1> DEFINE job == [at |-> "parsing", since |-> gens, left |-> {f \in File : disk[f] # 0},
                   read |-> [f \in File |-> 0]]
<1>1. /\ MapIs(map) /\ gens \in Version /\ DOMAIN pass = Pass
      /\ \A j \in Pass : PassIs(pass[j], gens)
      /\ RaceInv /\ (raced => raced') /\ raced' \in BOOLEAN /\ (Racing' => raced')
      /\ disk \in Version
  BY NoRace, StampFacts DEF MapInv, ShapeInv
<1>2. /\ pass' = [pass EXCEPT ![i] = job] /\ passing' = TRUE /\ reparse
      /\ UNCHANGED <<disk, top, broken, map, gens, patch, refresh, timer, queued, stamped, events,
                     entries, threads, system, failed, overlooked, linkerFailed>>
  BY DEF BeginPass, tree, parse, refreshing, derived
<1>3. /\ job.at = "parsing" /\ job.since = gens /\ job.left = {f \in File : disk[f] # 0}
      /\ job.read = [f \in File |-> 0] /\ PassIs(job, gens) /\ Busy(job) /\ job.at \notin Deriving
  <2>1. [f \in File |-> 0] \in Version /\ \A f \in File : gens[f] <= gens[f]
    BY <1>1 DEF Version
  <2> QED BY <1>1, <2>1 DEF PassIs, Busy, Deriving
<1> HIDE DEF job
<1>4. pass'[i] = job /\ pass[i].at = "idle" /\ \A j \in Pass : j # i => pass'[j] = pass[j]
  BY <1>1, <1>2 DEF BeginPass, Idle
<1>5. ~raced' => /\ ~raced /\ ~Busy(refresh) /\ \A p \in Patch : ~Busy(patch[p])
                 /\ \A j \in Pass : j # i => ~Busy(pass[j])
  BY <1>1, <1>2, <1>3, <1>4, NoRace
<1>6. ShapeInv' /\ TreeInv'
  BY <1>1, <1>2, <1>3, <1>4 DEF MapInv, ShapeInv, TreeInv
<1>7. RaceInv'
  BY <1>1, <1>2 DEF RaceInv
<1>8. CopiesInv'
  <2>1. \A f \in File : Standing[f] \subseteq Standing'[f]
    BY <1>1, <1>2, StandingStays
  <2>2. CopiesInv
    BY DEF MapInv
  <2>3. PassStands(job, gens', Standing')
    <3> SUFFICES ASSUME NEW f \in File \ External, f \notin job.left PROVE job.read[f] \in Standing'[f]
      BY DEF PassStands
    <3>1. disk[f] = 0 /\ job.read[f] = 0
      BY <1>1, <1>3 DEF Version
    <3>2. <<f, 0>> \notin broken
      BY <1>1 DEF MapInv, TreeInv, Started
    <3> QED BY <1>2, <3>1, <3>2 DEF Standing
  <2>4. \A f \in File \ External : map'[f].ver \in Standing'[f]
    BY <1>2, <2>1, <2>2 DEF CopiesInv
  <2>5. \A p \in Patch : patch'[p].at = "linking" => LinkStands(patch'[p].link, gens', Standing')
    BY <1>2, <2>1, <2>2 DEF CopiesInv, LinkStands
  <2>6. refresh'.at = "linking" => LinkStands(refresh'.link, gens', Standing')
    BY <1>2, <2>1, <2>2 DEF CopiesInv, LinkStands
  <2>7. \A j \in Pass : pass'[j].at = "parsing" => PassStands(pass'[j], gens', Standing')
    BY <1>2, <1>4, <2>1, <2>2, <2>3 DEF CopiesInv, PassStands
  <2> QED BY <2>4, <2>5, <2>6, <2>7 DEF CopiesInv
<1>9. TrueInv'
  BY <1>1, <1>2, <1>3, <1>4, <1>5 DEF MapInv, TrueInv
<1>10. DerivedInv'
  <2> SUFFICES ASSUME ~raced' PROVE DerivedInv'
    BY DEF DerivedInv
  <2>1. refresh.at \notin Deriving /\ refresh.at # "linking" /\ \A j \in Pass : pass[j].at \notin Deriving
        /\ pass'[j].at \notin Deriving
    BY <1>3, <1>4, <1>5 DEF Busy, Deriving
  <2>2. Loose' = Loose /\ Due' = Due
    BY <1>2 DEF Loose, Unlinked, Due
  <2>3. AllDerived => AllDerived'
    BY <1>2, <2>2, AllDerivedStays
  <2> QED BY <1>2, <1>5, <2>1, <2>2, <2>3 DEF MapInv, DerivedInv
<1>11. ExternalInv'
  <2> SUFFICES ASSUME ~raced', NEW f \in External PROVE f \in job.left \/ job.read[f] = disk'[f]
    BY <1>3, <1>4, <1>5 DEF ExternalInv, Busy
  <2>1. f \in File
    BY LiveMapAssumption
  <2> QED BY <1>1, <1>2, <1>3, <2>1 DEF Version
<1> QED BY <1>6, <1>7, <1>8, <1>9, <1>10, <1>11 DEF MapInv

\* A pass reads a file as it is: whole, or in the hands of the patch it races.
LEMMA PassReadKeeps ==
  ASSUME MapInv, StampInv, raced' = (raced \/ Racing'), NEW i \in Pass, NEW f \in File,
         PassReads(i, f)
  PROVE  MapInv'
<1> DEFINE v == ParseOf(f, disk[f])
           job == [pass[i] EXCEPT !.left = @ \ {f}, !.read[f] = v]
<1>1. /\ gens \in Version /\ DOMAIN pass = Pass /\ \A j \in Pass : PassIs(pass[j], gens)
      /\ RaceInv /\ TreeInv /\ CopiesInv /\ (Racing => raced) /\ raced \in BOOLEAN /\ disk \in Version
  BY StampFacts DEF MapInv, ShapeInv, RaceInv
<1>2. /\ pass' = [pass EXCEPT ![i] = job] /\ pass[i].at = "parsing"
      /\ UNCHANGED <<disk, top, broken, map, gens, patch, passing, refresh, timer, queued, stamped,
                     events, reparse, entries, threads, system, failed, overlooked, linkerFailed>>
  BY <1>1 DEF PassReads, tree, parse, watcher, refreshing, derived
<1>3. v \in Nat
  BY <1>1 DEF ParseOf, Version
<1> HIDE DEF v
<1>4. /\ job.at = "parsing" /\ job.since = pass[i].since /\ job.left = pass[i].left \ {f}
      /\ job.read \in Version /\ job.read[f] = v /\ \A g \in File : g # f => job.read[g] = pass[i].read[g]
      /\ PassIs(job, gens)
  BY <1>1, <1>2, <1>3 DEF PassIs, Version
<1> HIDE DEF job
<1>5. pass'[i] = job /\ \A j \in Pass : j # i => pass'[j] = pass[j]
  BY <1>1, <1>2
<1>6. (\A j \in Pass : pass'[j].at = pass[j].at) /\ Racing' = Racing /\ raced' = raced
  <2>1. \A j \in Pass : pass'[j].at = pass[j].at
    BY <1>2, <1>4, <1>5
  <2>2. Racing' = Racing
    BY <1>2, <2>1 DEF Racing, Busy
  <2> QED BY <1>1, <2>1, <2>2
<1>7. ShapeInv' /\ TreeInv'
  BY <1>1, <1>2, <1>4, <1>5 DEF MapInv, ShapeInv, TreeInv
<1>8. RaceInv'
  BY <1>1, <1>2, <1>6 DEF RaceInv, Busy
<1>9. Standing' = Standing
  BY <1>2, <1>6 DEF Standing
<1>10. f \notin External => v \in Standing[f]
  <2>1. CASE <<f, disk[f]>> \notin broken
    BY <1>1, <2>1 DEF v, ParseOf, Standing, Version
  <2>2. CASE <<f, disk[f]>> \in broken
    <3>1. \E p \in Patch : f \in Touches[p] /\ patch[p].at \in {"written", "parsing"}
      BY <1>1, <2>2 DEF TreeInv
    <3>2. raced
      BY <1>1, <1>2, <3>1 DEF Racing, Busy
    <3>3. \E b \in broken : b[1] = f
      BY <2>2
    <3> QED BY <1>3, <3>2, <3>3 DEF Standing
  <2> QED BY <2>1, <2>2
<1>11. CopiesInv'
  <2>1. PassStands(job, gens, Standing)
    BY <1>1, <1>2, <1>4, <1>10 DEF CopiesInv, PassStands
  <2>2. \A j \in Pass : pass'[j].at = "parsing" => PassStands(pass'[j], gens', Standing')
    BY <1>1, <1>2, <1>5, <1>9, <2>1 DEF CopiesInv
  <2> QED BY <1>1, <1>2, <1>9, <2>2 DEF CopiesInv
<1>12. TrueInv'
  BY <1>2, <1>4, <1>5, <1>6 DEF MapInv, TrueInv
<1>13. DerivedInv'
  <2>1. Loose' = Loose /\ Due' = Due
    BY <1>2 DEF Loose, Unlinked, Due
  <2>2. \A w : JobDerives(w) => JobDerives(w)'
    BY <1>2, <2>1 DEF JobDerives
  <2>3. DerivedInv /\ job.at \notin Deriving
    BY <1>4 DEF MapInv, Deriving
  <2>4. AllDerived => AllDerived'
    BY <1>2, <2>1, AllDerivedStays
  <2> QED BY <1>2, <1>5, <1>6, <2>1, <2>2, <2>3, <2>4 DEF DerivedInv, JobDerives
<1>14. ExternalInv'
  <2> SUFFICES ASSUME ~raced', NEW g \in External, ~(g \in events' \/ reparse')
               PROVE  \A j \in Pass : pass'[j].at = "parsing" => g \in pass'[j].left \/ pass'[j].read[g] = disk'[g]
    BY <1>2, <1>4, <1>5 DEF ExternalInv
  <2>1. \A j \in Pass : pass[j].at = "parsing" => g \in pass[j].left \/ pass[j].read[g] = disk[g]
    BY <1>2, <1>6 DEF MapInv, ExternalInv
  <2>2. g = f => v = disk[f]
    BY <1>1 DEF v, ParseOf, TreeInv
  <2>3. g \in File
    BY LiveMapAssumption
  <2>4. g \in job.left \/ job.read[g] = disk[g]
    BY <1>2, <1>4, <2>1, <2>2, <2>3
  <2> QED BY <1>2, <1>5, <2>1, <2>4
<1> QED BY <1>7, <1>8, <1>11, <1>12, <1>13, <1>14 DEF MapInv

\* What a pass read is merged into the map, but for files parsed since.
LEMMA PassMergeKeeps ==
  ASSUME MapInv, raced' = (raced \/ Racing'), NEW i \in Pass, NEW ok \in BOOLEAN, PassMerges(i, ok)
  PROVE  MapInv'
<1> DEFINE read == pass[i].read
           since == pass[i].since
           job == [at |-> "discovering", view |-> map']
<1>1. /\ MapIs(map) /\ gens \in Version /\ DOMAIN pass = Pass /\ \A j \in Pass : PassIs(pass[j], gens)
      /\ RaceInv /\ CopiesInv /\ (raced => raced') /\ raced' \in BOOLEAN /\ (Racing' => raced')
  BY NoRace DEF MapInv, ShapeInv
<1>2. /\ pass[i].at = "parsing" /\ pass[i].left = {}
      /\ map' = MergePass(LinkOf([f \in File |-> Solo(read[f])], since), ok)
      /\ linkerFailed' = ~ok /\ pass' = [pass EXCEPT ![i] = job]
      /\ UNCHANGED <<disk, top, broken, gens, patch, passing, refresh, timer, queued, stamped, events,
                     reparse, entries, threads, system>>
  BY DEF PassMerges, tree, watcher, refreshing
<1>3. /\ read \in Version /\ since \in Version
      /\ PassStands(pass[i], gens, Standing) /\ Busy(pass[i])
  BY <1>1, <1>2 DEF PassIs, CopiesInv, Busy
<1>4. /\ MapIs(map')
      /\ \A f \in File : IF gens[f] = since[f] THEN map'[f].ver = read[f] ELSE map'[f] = map[f]
      /\ since = gens /\ ok => Linked(map') = map'
  BY <1>1, <1>2, <1>3, PassMergedIsMap
<1>5. job.at = "discovering" /\ job.view = map' /\ PassIs(job, gens) /\ Busy(job) /\ job.at \in Deriving
  BY DEF PassIs, Busy, Deriving
<1> HIDE DEF job
<1>6. pass'[i] = job /\ \A j \in Pass : j # i => pass'[j] = pass[j]
  BY <1>1, <1>2
<1>7. ~raced' => /\ ~raced /\ ~Busy(refresh) /\ \A p \in Patch : ~Busy(patch[p])
                 /\ \A j \in Pass : j # i => ~Busy(pass[j])
  BY <1>1, <1>3, NoRace
<1>8. ShapeInv' /\ TreeInv'
  BY <1>1, <1>2, <1>4, <1>5, <1>6 DEF MapInv, ShapeInv, TreeInv
<1>9. RaceInv'
  <2>1. \A j \in Pass : Busy(pass'[j]) => Busy(pass[j])
    BY <1>3, <1>6
  <2> QED BY <1>1, <1>2, <2>1 DEF RaceInv
<1>10. CopiesInv'
  <2>1. \A f \in File : Standing[f] \subseteq Standing'[f]
    BY <1>1, <1>2, StandingStays
  <2>2. \A f \in File \ External : map'[f].ver \in Standing'[f]
    BY <1>1, <1>2, <1>3, <1>4, <2>1 DEF CopiesInv, PassStands
  <2>3. \A p \in Patch : patch'[p].at = "linking" => LinkStands(patch'[p].link, gens', Standing')
    BY <1>1, <1>2, <2>1 DEF CopiesInv, LinkStands
  <2>4. refresh'.at = "linking" => LinkStands(refresh'.link, gens', Standing')
    BY <1>1, <1>2, <2>1 DEF CopiesInv, LinkStands
  <2>5. \A j \in Pass : pass'[j].at = "parsing" => PassStands(pass'[j], gens', Standing')
    BY <1>1, <1>2, <1>5, <1>6, <2>1 DEF CopiesInv, PassStands
  <2> QED BY <2>2, <2>3, <2>4, <2>5 DEF CopiesInv
<1>11. TrueInv'
  BY <1>2, <1>5, <1>6, <1>7 DEF TrueInv, Busy
<1>12. ~raced' => since = gens
  BY <1>2, <1>7 DEF MapInv, TrueInv
<1>13. DerivedInv'
  <2> SUFFICES ASSUME ~raced' PROVE JobDerives(pass[i])' /\ refresh.at \notin Deriving \cup {"linking"}
                                    /\ \A j \in Pass : j # i => pass'[j].at \notin Deriving
    BY <1>2, <1>5, <1>6 DEF DerivedInv
  <2>1. JobDerives(pass[i])'
    BY <1>2, <1>4, <1>5, <1>6, <1>12 DEF JobDerives, ViewIs
  <2> QED BY <1>6, <1>7, <2>1 DEF Busy, Deriving
<1>14. ExternalInv'
  <2> SUFFICES ASSUME ~raced', NEW f \in External, ~(f \in events' \/ reparse')
               PROVE  map'[f].ver = disk'[f] /\ \A j \in Pass : pass'[j].at # "parsing"
    BY DEF ExternalInv
  <2>1. f \in File
    BY LiveMapAssumption
  <2>2. read[f] = disk[f]
    BY <1>2, <1>7 DEF MapInv, ExternalInv
  <2> QED BY <1>2, <1>4, <1>5, <1>6, <1>7, <1>12, <2>1, <2>2 DEF Busy
<1> QED BY <1>8, <1>9, <1>10, <1>11, <1>13, <1>14 DEF MapInv

\* A pass finds the entry points, extracts the threads, or fails to, and rolls the
\* system up.
LEMMA PassDerivesKeep ==
  ASSUME MapInv, raced' = (raced \/ Racing'), NEW i \in Pass, NEW ok \in BOOLEAN,
         NEW l \in SUBSET File, PassDiscovers(i, l) \/ PassExtracts(i, ok) \/ PassEnds(i, ok)
  PROVE  MapInv'
<1>1. /\ gens \in Version /\ RefreshIs(refresh, gens)
      /\ DOMAIN pass = Pass /\ \A j \in Pass : PassIs(pass[j], gens)
      /\ RaceInv /\ (raced => raced') /\ raced' \in BOOLEAN /\ (Racing' => raced')
  BY NoRace DEF MapInv, ShapeInv
<1>2. UNCHANGED <<disk, top, broken, map, gens, linkerFailed, patch, refresh, timer, queued, stamped,
                  events, reparse>>
  BY DEF PassDiscovers, PassExtracts, PassEnds, tree, parse, watcher, refreshing
<1>3. pass[i].at \in Deriving /\ Busy(pass[i]) /\ pass[i].at # "parsing"
  BY DEF PassDiscovers, PassExtracts, PassEnds, Deriving, Busy
<1>4. ~raced' => /\ ~raced /\ JobDerives(pass[i]) /\ ~Busy(refresh)
                 /\ refresh.at # "linking" /\ refresh.at \notin Deriving
                 /\ \A j \in Pass : j # i => ~Busy(pass[j]) /\ pass[j].at \notin Deriving
  <2>1. ~raced' => ~raced /\ ~Busy(refresh) /\ \A j \in Pass : j # i => ~Busy(pass[j])
    BY <1>1, <1>3, NoRace
  <2> QED BY <1>3, <2>1 DEF MapInv, DerivedInv, Busy, Deriving
<1>5. Loose' = Loose /\ Due' = Due
  BY <1>2 DEF Loose, Unlinked, Due
<1>6. CASE PassDiscovers(i, l)
  <2> DEFINE job == Extracting(pass[i], entries')
  <2>1. /\ pass[i].at = "discovering" /\ pass' = [pass EXCEPT ![i] = job]
        /\ overlooked' = l /\ entries' = Found(pass[i].view, l)
        /\ UNCHANGED <<passing, threads, system, failed>>
    BY <1>1, <1>6 DEF PassDiscovers, Discovers
  <2>2. job.at = "extracting" /\ job.view = pass[i].view /\ job.found = entries'
    BY DEF Extracting
  <2> HIDE DEF job
  <2>3. pass'[i] = job /\ (\A j \in Pass : j # i => pass'[j] = pass[j]) /\ DOMAIN pass' = Pass
        /\ PassIs(job, gens) /\ job.at \in Deriving /\ job.at # "parsing"
    BY <1>1, <2>1, <2>2 DEF PassIs, Deriving
  <2>4. RaceInv'
    <3>1. \A j \in Pass : Busy(pass'[j]) => Busy(pass[j])
      BY <1>3, <2>3
    <3> QED BY <1>1, <1>2, <2>1, <3>1 DEF RaceInv
  <2>5. DerivedInv'
    <3> SUFFICES ASSUME ~raced' PROVE JobDerives(pass[i])'
      BY <1>2, <1>4, <2>3 DEF DerivedInv
    <3>1. ~Due' => ViewIs(job.view, map', Loose', linkerFailed')
      BY <1>2, <1>4, <1>5, <2>2 DEF JobDerives
    <3> QED BY <2>1, <2>2, <2>3, <3>1 DEF JobDerives
  <2> QED BY <1>1, <1>2, <1>3, <2>3, <2>4, <2>5, DerivingKeeps
<1>7. CASE PassExtracts(i, ok)
  <2> DEFINE job == [at |-> "rolling", view |-> pass[i].view, threads |-> threads']
  <2>1. /\ pass[i].at = "extracting" /\ pass' = [pass EXCEPT ![i] = job]
        /\ (threads' = pass[i].found \/ failed' = TRUE)
        /\ UNCHANGED <<passing, entries, overlooked, system>>
    BY <1>1, <1>7 DEF PassExtracts, Extracts
  <2>2. job.at = "rolling" /\ job.view = pass[i].view /\ job.threads = threads'
    OBVIOUS
  <2> HIDE DEF job
  <2>3. pass'[i] = job /\ (\A j \in Pass : j # i => pass'[j] = pass[j]) /\ DOMAIN pass' = Pass
        /\ PassIs(job, gens) /\ job.at \in Deriving /\ job.at # "parsing"
    BY <1>1, <2>1, <2>2 DEF PassIs, Deriving
  <2>4. RaceInv'
    <3>1. \A j \in Pass : Busy(pass'[j]) => Busy(pass[j])
      BY <1>3, <2>3
    <3> QED BY <1>1, <1>2, <2>1, <3>1 DEF RaceInv
  <2>5. DerivedInv'
    <3> SUFFICES ASSUME ~raced' PROVE JobDerives(pass[i])'
      BY <1>2, <1>4, <2>3 DEF DerivedInv
    <3>1. ~Due' => ViewIs(job.view, map', Loose', linkerFailed')
      BY <1>2, <1>4, <1>5, <2>2 DEF JobDerives
    <3> QED BY <1>4, <2>1, <2>2, <2>3, <3>1 DEF JobDerives
  <2> QED BY <1>1, <1>2, <1>3, <2>3, <2>4, <2>5, DerivingKeeps
<1>8. CASE PassEnds(i, ok)
  <2>1. /\ pass[i].at = "rolling" /\ pass' = [pass EXCEPT ![i] = Done]
        /\ system' \in {[files |-> pass[i].view, threads |-> pass[i].threads], NoSystem}
        /\ UNCHANGED <<entries, overlooked, threads, failed>>
    BY <1>8 DEF PassEnds, RollsUp
  <2>2. /\ pass'[i].at = "done" /\ (\A j \in Pass : j # i => pass'[j] = pass[j]) /\ DOMAIN pass' = Pass
        /\ PassIs(pass'[i], gens) /\ ~Busy(pass'[i])
    BY <1>1, <2>1 DEF PassIs, Done, Busy, Deriving
  <2>3. RaceInv'
    <3>1. ~raced' => \A j \in Pass : ~Busy(pass'[j])
      BY <1>4, <2>2
    <3> QED BY <1>1, <1>2, <3>1 DEF RaceInv
  <2>4. DerivedInv'
    <3> SUFFICES ASSUME ~raced' PROVE AllDerived'
      BY <1>2, <1>4, <2>2 DEF DerivedInv, Deriving
    <3>1. PICK view : view = pass[i].view
      OBVIOUS
    <3>2. AllOf(view)'
      BY <1>4, <2>1, <3>1 DEF JobDerives, AllOf
    <3>3. ~Due' => ViewIs(view, map', Loose', linkerFailed')
      BY <1>2, <1>4, <1>5, <3>1 DEF JobDerives
    <3> QED BY <3>2, <3>3 DEF AllDerived
  <2> QED BY <1>1, <1>2, <1>3, <2>2, <2>3, <2>4, DerivingKeeps
<1> QED BY <1>6, <1>7, <1>8

\* The first state: the map of the files as they are, linked, and all that is derived
\* of it.
LEMMA MapsInitially ==
  Init => MapInv
<1> SUFFICES ASSUME Init PROVE MapInv
  OBVIOUS
<1> DEFINE parsed == [f \in File |-> Solo(disk[f])]
<1>1. parsed \in Map /\ gens \in Version /\ \A f \in File : parsed[f].ver = disk[f]
  BY DEF Init, Solo, Map, Version, Started
<1>2. map = Linked(parsed)
  BY DEF Init
<1> HIDE DEF parsed
<1>3. MapIs(map) /\ Linked(map) = map /\ \A f \in File : map[f].ver = disk[f]
  BY <1>1, <1>2, LinkedIsMap
<1>4. map \in Map /\ Linked(map) = map /\ \A f \in File : map[f].ver = disk[f]
  BY <1>3 DEF MapIs
<1>5. \A f \in File : map[f].ver = 0 => map[f] = Gone
  BY <1>3 DEF MapIs
<1>6. /\ Idle.at = "idle" /\ ~Busy(Idle) /\ ~Unlinked(Idle)
      /\ patch = [p \in Patch |-> Idle] /\ pass = [i \in Pass |-> Idle] /\ refresh = Idle
  BY DEF Init, Idle, Busy, Unlinked
<1>7. ShapeInv
  BY <1>1, <1>4, <1>5, <1>6 DEF ShapeInv, MapIs, PatchIs, RefreshIs, PassIs
<1>8. TreeInv
  <2>1. \A f \in File : disk[f] <= top[f]
    BY DEF Init, Started
  <2> QED BY <1>6, <2>1 DEF Init, TreeInv
<1>9. RaceInv
  BY <1>6 DEF Init, RaceInv, Racing
<1>10. CopiesInv
  <2>1. \A f \in File : disk[f] \in Standing[f]
    BY DEF Init, Standing, Started
  <2> QED BY <1>4, <1>6, <2>1 DEF CopiesInv
<1>11. TrueInv
  BY <1>6 DEF TrueInv
<1>12. DerivedInv
  <2>1. /\ entries = map /\ overlooked = {} /\ threads = entries
        /\ system = [files |-> map, threads |-> threads]
    BY DEF Init
  <2>2. ViewIs(map, map, Loose, linkerFailed)
    BY <1>4 DEF ViewIs
  <2>3. Found(map, {}) = map
    BY <1>4 DEF Found, Map
  <2>4. AllOf(map)
    BY <2>1, <2>3 DEF AllOf
  <2> QED BY <1>6, <2>2, <2>4 DEF DerivedInv, Deriving, AllDerived
<1>13. ExternalInv
  BY <1>4, <1>6, LiveMapAssumption DEF ExternalInv
<1> QED BY <1>7, <1>8, <1>9, <1>10, <1>11, <1>12, <1>13 DEF MapInv

\* Every step keeps the invariant.
LEMMA MapsHold ==
  ASSUME PatchHyp, MapInv, StampInv, StampInv', [MapNext]_mapVars
  PROVE  MapInv'
<1>1. CASE UNCHANGED mapVars
  BY <1>1, StillKeeps
     DEF mapVars, tree, parse, watcher, passes, refreshing, derived
<1>2. CASE raced' = (raced \/ Racing') /\ MapServerStep
  <2>1. ASSUME NEW p \in Patch, PatchStep(p) PROVE MapInv'
    BY <1>2, <2>1, PatchesKeep
  <2>2. ASSUME NEW i \in Pass, PassStep(i) PROVE MapInv'
    BY <1>2, <2>2, PassBeginKeeps, PassReadKeeps, PassMergeKeeps, PassDerivesKeep DEF PassStep
  <2>3. CASE RefreshStep \/ SettleLooks
    BY <1>2, <2>3, WaitsKeep, RefreshLinkEnds, RefreshesKeep DEF RefreshStep
  <2>4. ASSUME NEW f \in File, EventArrives(f) PROVE MapInv'
    BY <1>2, <2>4, OutsideKeeps
  <2> QED BY <1>2, <2>1, <2>2, <2>3, <2>4 DEF MapServerStep
<1>3. CASE raced' = (raced \/ Racing') /\ MapEnvironment
  <2>1. ASSUME NEW p \in Patch, BeginEdit(p) \/ BeginRestore(p) PROVE MapInv'
    BY <1>3, <2>1, PatchesKeep
  <2>2. ASSUME NEW f \in File, ExternalEdit(f) \/ StampExpires(f) PROVE MapInv'
    BY <1>3, <2>2, OutsideKeeps
  <2>3. CASE BeginSettle \/ SettleTimesOut
    BY <1>3, <2>3, WaitsKeep
  <2> QED BY <1>3, <2>1, <2>2, <2>3 DEF MapEnvironment
<1> QED BY <1>1, <1>2, <1>3 DEF MapNext

\* Without a race, whatever is derived is of the map but for its loose files, as soon
\* as no refresh is due and nothing works on it.
LEMMA DerivedIsOfMap ==
  ASSUME MapInv, ~raced, ~timer, ~queued, ~Busy(refresh), \A i \in Pass : ~Busy(pass[i])
  PROVE  \E view : AllOf(view) /\ ViewIs(view, map, Loose, linkerFailed)
<1>1. refresh.at \notin Deriving /\ refresh.at # "linking" /\ \A i \in Pass : pass[i].at \notin Deriving
  BY DEF Busy, Deriving
<1> QED BY <1>1 DEF MapInv, DerivedInv, Due, AllDerived

\* A file that nothing changes is in the map as it is, or linked into it later.
LEMMA MapFollows ==
  ASSUME MapInv
  PROVE  MapFollowsTree
<1>1. EditsStayVisible
  <2> SUFFICES ASSUME NEW f \in File \ External
               PROVE  \/ \E p \in Patch : f \in Touches[p] /\ Busy(patch[p]) /\ patch[p].at # "linking"
                      \/ raced /\ \E b \in broken : b[1] = f
                      \/ map[f].ver = disk[f]
    BY DEF EditsStayVisible
  <2>1. map[f].ver \in Standing[f]
    BY DEF MapInv, CopiesInv
  <2> QED BY <2>1 DEF Standing, Busy
<1>2. QuietIsCurrent
  <2> SUFFICES ASSUME Quiet, ~raced
               PROVE  /\ \A f \in File : map[f].ver = disk[f]
                      /\ map = Linked(map) \/ linkerFailed
                      /\ AllOf(map)
    BY DEF QuietIsCurrent, AllOf
  <2>1. /\ \A p \in Patch : ~Busy(patch[p])
        /\ \A i \in Pass : ~Busy(pass[i])
        /\ events = {} /\ ~reparse /\ ~timer /\ ~Busy(refresh)
    BY DEF Quiet
  <2>2. ~queued /\ Loose = {}
    BY <2>1 DEF MapInv, RaceInv, Loose, Unlinked, Busy
  <2>3. AllOf(map) /\ (map = Linked(map) \/ linkerFailed)
    BY <2>1, <2>2, DerivedIsOfMap DEF ViewIs
  <2>4. \A f \in File : map[f].ver = disk[f]
    <3>1. \A f \in File \ External : map[f].ver = disk[f]
      BY <1>1, <2>1 DEF EditsStayVisible
    <3>2. \A f \in External : map[f].ver = disk[f]
      BY <2>1 DEF MapInv, ExternalInv, Busy
    <3> QED BY <3>1, <3>2
  <2> QED BY <2>3, <2>4
<1> QED BY <1>1, <1>2 DEF MapFollowsTree

\* From its parse on an edit is in the map until its file is written again, and when
\* nothing is pending the map is the tree and all that is derived is derived of it,
\* but for what the linker, the discovery, the extraction or the roll-up failed to do,
\* whatever links, refreshes and full passes overlap, for any files and any number of
\* patches, restores and passes (mergeRelinked, refreshDerived, parseAllFiles): where
\* files of packets are changed through VibeGraph only, and restores put back what
\* the project began with.
THEOREM MapAlwaysFollowsTree ==
  ASSUME PatchHyp
  PROVE  MapSpec => []MapFollowsTree
<1>1. MapInv /\ StampInv /\ StampInv' /\ [MapNext]_mapVars => MapInv'
  BY MapsHold
<1>2. MapInv => MapFollowsTree
  BY MapFollows
<1> QED BY <1>1, <1>2, MapsInitially, StampsInitially, StampsHold, PTL DEF MapSpec

\* Only settleDerived moves its readers.
LEMMA StepsLeaveReaders ==
  /\ \A p \in Patch : BeginEdit(p) \/ BeginRestore(p) \/ PatchStep(p) => settle' = settle
  /\ \A i \in Pass : PassStep(i) => settle' = settle
  /\ RefreshStep \/ UNCHANGED mapVars => settle' = settle
  /\ \A f \in File : ExternalEdit(f) \/ EventArrives(f) \/ StampExpires(f) => settle' = settle
<1>1. ASSUME NEW p \in Patch, BeginEdit(p) \/ BeginRestore(p) \/ PatchStep(p) PROVE settle' = settle
  BY <1>1 DEF BeginEdit, BeginRestore, PatchStep, RewriterReturns, RestoredParseLands, RestoreLinks,
     PatchEnds, RewriterWrites, ParseLands, RollBack, RestoreOne
<1>2. ASSUME NEW i \in Pass, PassStep(i) PROVE settle' = settle
  BY <1>2 DEF PassStep, BeginPass, PassMerges, PassDiscovers, PassExtracts, PassEnds, PassReads
<1>3. RefreshStep \/ UNCHANGED mapVars => settle' = settle
  BY DEF RefreshStep, TimerFires, RefreshMerges, RefreshDiscovers, RefreshExtracts, RefreshEnds, mapVars
<1>4. ASSUME NEW f \in File, ExternalEdit(f) \/ EventArrives(f) \/ StampExpires(f)
      PROVE  settle' = settle
  BY <1>4 DEF ExternalEdit, EventArrives, StampExpires
<1> QED BY <1>1, <1>2, <1>3, <1>4

\* A reader of evidence waits for files of the project.
Waiting == settle.at = "waiting" => settle.left \subseteq File

\* It keeps to them while it waits.
LEMMA ReadersWait ==
  Waiting /\ [MapNext]_mapVars => Waiting'
<1> SUFFICES ASSUME Waiting, [MapNext]_mapVars PROVE Waiting'
  OBVIOUS
<1>1. CASE settle' = settle
  BY <1>1 DEF Waiting
<1>2. CASE BeginSettle
  BY <1>2 DEF BeginSettle, Waiting
<1>3. CASE SettleLooks \/ SettleTimesOut
  BY <1>3 DEF SettleLooks, SettleTimesOut, Done, Idle, Waiting
<1> QED BY <1>1, <1>2, <1>3, StepsLeaveReaders DEF MapNext, MapServerStep, MapEnvironment

\* Whoever reads evidence after settleDerived reads threads that hold what the map
\* does of every file its worker is through with, unless a pass raced a patch, an
\* extraction failed, which the warnings tell, or a discovery that failed overlooked
\* the file (settleDerived).
THEOREM EvidenceIsAlwaysFresh ==
  ASSUME PatchHyp
  PROVE  MapSpec => SettledIsFresh
<1> DEFINE Fresh == settle.at = "waiting" /\ settle'.at = "done" /\ ~raced /\ ~failed =>
             \A f \in settle.left \ overlooked : Changing(f) \/ threads[f].ver = map[f].ver
<1>1. MapInv /\ StampInv /\ StampInv' /\ [MapNext]_mapVars => MapInv'
  BY MapsHold
<1>2. Init => Waiting
  BY DEF Init, Idle, Waiting
<1>3. MapInv /\ Waiting /\ [MapNext]_mapVars => [Fresh]_mapVars
  <2> SUFFICES ASSUME MapInv, Waiting, MapNext, settle.at = "waiting", settle'.at = "done", ~raced,
                      ~failed, NEW f \in settle.left \ overlooked, ~Changing(f)
               PROVE  threads[f].ver = map[f].ver
    OBVIOUS
  <2>1. SettleReady /\ f \in File
    <3>1. settle' # settle
      OBVIOUS
    <3>2. ~BeginSettle /\ ~SettleTimesOut
      BY DEF BeginSettle, SettleTimesOut, Busy, Idle
    <3>3. CASE SettleLooks
      BY <3>1, <3>3 DEF SettleLooks, Waiting
    <3> QED BY <3>1, <3>2, <3>3, StepsLeaveReaders DEF MapNext, MapServerStep, MapEnvironment
  <2>2. \A i \in Pass : ~Busy(pass[i])
    BY <2>1 DEF SettleReady, MapInv, RaceInv
  <2>3. PICK view : AllOf(view) /\ ViewIs(view, map, Loose, linkerFailed)
    BY <2>1, <2>2, DerivedIsOfMap DEF SettleReady
  <2>4. f \notin Loose
    BY DEF Loose, Unlinked, Changing, Busy
  <2>5. threads[f] = view[f]
    BY <2>1, <2>3 DEF AllOf, Found
  <2> QED BY <2>1, <2>3, <2>4, <2>5 DEF ViewIs
<1> QED BY <1>1, <1>2, <1>3, ReadersWait, MapsInitially, StampsInitially, StampsHold, PTL
        DEF MapSpec, SettledIsFresh

------------------------------------------------------------------------------
(* The types of the map.                                                    *)

\* What is handed from step to step: the map a link started from, what a pass has
\* read, the map that a pass or a refresh derives from and what it found in it.
Carrying(job) ==
  /\ job.at \in Deriving => job.view \in Map
  /\ job.at = "extracting" => job.found \in Map
  /\ job.at = "rolling" => job.threads \in Map

PatchCarries(p, job) ==
  /\ job.at = "reading" => job.file \in Touches[p]
  /\ job.at = "linking" => MapIs(job.link.of)

RefreshCarries(job) == Carrying(job) /\ (job.at = "linking" => MapIs(job.link.of))

PassCarries(job) ==
  /\ Carrying(job)
  /\ job.at = "parsing" => /\ {"at", "since", "left", "read"} \subseteq DOMAIN job
                           /\ job.since \in Version /\ job.read \in Version

Carries ==
  /\ \A p \in Patch : PatchCarries(p, patch[p])
  /\ RefreshCarries(refresh) /\ \A i \in Pass : PassCarries(pass[i])

Flags == {linkerFailed, reparse, passing, timer, queued, failed, raced} \subseteq BOOLEAN

\* The inductive invariant of the types, beside that of the stamps, which types the
\* tree and the patches.
TypeInv ==
  /\ MapIs(map) /\ gens \in Version /\ broken \subseteq File \X Nat /\ stamped \subseteq File
  /\ entries \in Map /\ threads \in Map /\ system \in [files : Map, threads : Map]
  /\ overlooked \subseteq File /\ DOMAIN pass = Pass /\ Flags /\ Carries

\* What is found in a map is a map, and so is nothing.
LEMMA FoundIsMap ==
  /\ NoMap \in Map /\ NoSystem \in [files : Map, threads : Map]
  /\ \A view \in Map : \A l : Found(view, l) \in Map
<1>1. Gone \in [ver : Nat, seen : Version]
  BY DEF Gone, Solo, Version
<1>2. NoMap \in Map
  BY <1>1 DEF NoMap, Map
<1>3. ASSUME NEW view \in Map, NEW l PROVE Found(view, l) \in Map
  BY <1>1 DEF Found, Map
<1> QED BY <1>2, <1>3 DEF NoSystem

\* An entry that is parsed, or is gone, is an entry of a map.
LEMMA ParsedIsMap ==
  ASSUME MapIs(map), NEW f \in File, NEW v \in Nat, NEW m, m = [map EXCEPT ![f] = Solo(v)]
  PROVE  MapIs(m)
<1>1. Solo(v) \in [ver : Nat, seen : Version] /\ Solo(v).ver = v /\ (v = 0 => Solo(v) = Gone)
  BY DEF Solo, Gone, Version
<1> HIDE DEF Solo
<1>2. m \in Map
  BY <1>1 DEF MapIs, Map
<1>3. \A g \in File : m[g].ver = 0 => m[g] = Gone
  BY <1>1 DEF MapIs, Map
<1> QED BY <1>2, <1>3 DEF MapIs

\* A job that carries nothing.
LEMMA EmptyHanded ==
  \A job : job.at \in {"idle", "done"} =>
    (\A p \in Patch : PatchCarries(p, job)) /\ RefreshCarries(job) /\ PassCarries(job)
BY DEF PatchCarries, RefreshCarries, PassCarries, Carrying, Deriving

\* A step of one patch that changes no flag but the timer.
LEMMA PatchTyped ==
  ASSUME TypeInv, NEW p \in Patch, NEW job, PatchCarries(p, job), DOMAIN patch = Patch,
         patch' = [patch EXCEPT ![p] = job], MapIs(map'), gens' \in Version,
         broken' \subseteq File \X Nat, stamped' \subseteq File, timer' \in BOOLEAN,
         raced' = (raced \/ Racing'),
         UNCHANGED <<reparse, pass, passing, queued, refresh, entries, overlooked, threads, system,
                     failed, linkerFailed>>
  PROVE  TypeInv'
<1>1. \A q \in Patch : PatchCarries(q, patch'[q])
  BY DEF TypeInv, Carries
<1>2. raced' \in BOOLEAN
  BY DEF Racing
<1>3. Flags'
  BY <1>2 DEF TypeInv, Flags
<1> QED BY <1>1, <1>3 DEF TypeInv, Carries

\* The steps of patches keep the types.
LEMMA PatchesAreTyped ==
  ASSUME TypeInv, StampInv, raced' = (raced \/ Racing'), NEW p \in Patch,
         BeginEdit(p) \/ BeginRestore(p) \/ PatchStep(p)
  PROVE  TypeInv'
<1>1. /\ disk \in Version /\ top \in Version /\ DOMAIN patch = Patch
      /\ PatchAtStep(p, patch[p]) /\ Touches[p] \subseteq File /\ PatchCarries(p, patch[p])
      /\ MapIs(map) /\ gens \in Version /\ broken \subseteq File \X Nat /\ stamped \subseteq File
      /\ timer \in BOOLEAN
  BY StampFacts DEF TypeInv, Carries, Flags
<1>2. \A job : job.at \in {"idle", "done", "writing", "written", "parsing", "restoring"} =>
        PatchCarries(p, job)
  BY DEF PatchCarries
<1>3. \A m : LinkOf(m, gens).of = m
  BY DEF LinkOf
<1>4. "at" \in DOMAIN patch[p]
  BY <1>1 DEF PatchAtStep
<1>5. CASE \/ BeginEdit(p) \/ BeginRestore(p) \/ RewriterReturns(p)
           \/ \E f \in File : RewriterWrites(p, f) \/ RollBack(p, f)
  <2>1. \E job : /\ patch' = [patch EXCEPT ![p] = job]
                 /\ job.at \in {"idle", "done", "writing", "written", "parsing", "restoring"}
    <3>1. CASE BeginEdit(p)
      <4> DEFINE job == [at |-> "writing", backup |-> [f \in Touches[p] |-> disk[f]]]
      <4>1. patch' = [patch EXCEPT ![p] = job] /\ job.at = "writing"
        BY <3>1 DEF BeginEdit
      <4> QED BY <4>1
    <3>2. CASE BeginRestore(p)
      <4> DEFINE job == [at |-> "restoring", left |-> Touches[p], any |-> FALSE]
      <4>1. patch' = [patch EXCEPT ![p] = job] /\ job.at = "restoring"
        BY <3>2 DEF BeginRestore
      <4> QED BY <4>1
    <3>3. CASE RewriterReturns(p)
      <4>1. [patch[p] EXCEPT !.at = "parsing"].at = "parsing"
        BY <1>4
      <4>2. \/ patch' = [patch EXCEPT ![p] = Done]
            \/ patch' = [patch EXCEPT ![p] = [patch[p] EXCEPT !.at = "parsing"]]
        BY <1>1, <3>3 DEF RewriterReturns
      <4>3. Done.at = "done"
        BY DEF Done
      <4> QED BY <4>1, <4>2, <4>3
    <3>4. CASE \E f \in File : RewriterWrites(p, f)
      <4>1. [patch[p] EXCEPT !.at = "written"].at = "written"
        BY <1>4
      <4>2. patch' = [patch EXCEPT ![p] = [patch[p] EXCEPT !.at = "written"]]
        BY <1>1, <3>4 DEF RewriterWrites
      <4> QED BY <4>1, <4>2
    <3>5. CASE \E f \in File : RollBack(p, f)
      BY <3>5 DEF RollBack, Done
    <3> QED BY <1>5, <3>1, <3>2, <3>3, <3>4, <3>5
  <2>2. broken' \subseteq File \X Nat
    <3>1. ASSUME NEW f \in File, RewriterWrites(p, f) PROVE broken' \subseteq File \X Nat
      <4>1. top'[f] = top[f] + 1 /\ top[f] \in Nat
        BY <1>1, <3>1 DEF RewriterWrites, Version
      <4> QED BY <1>1, <3>1, <4>1 DEF RewriterWrites
    <3> QED BY <1>1, <1>5, <3>1 DEF BeginEdit, BeginRestore, RewriterReturns, RollBack, tree
  <2>3. stamped' \subseteq File
    BY <1>1, <1>5 DEF BeginEdit, BeginRestore, RewriterReturns, RewriterWrites, RollBack, watcher
  <2>4. UNCHANGED <<map, gens, reparse, pass, passing, timer, queued, refresh, entries, threads,
                    system, failed, overlooked, linkerFailed>>
    BY <1>5 DEF BeginEdit, BeginRestore, RewriterReturns, RewriterWrites, RollBack, tree, parse,
       watcher, passes, refreshing, derived
  <2>5. PICK job : /\ patch' = [patch EXCEPT ![p] = job]
                   /\ job.at \in {"idle", "done", "writing", "written", "parsing", "restoring"}
    BY <2>1
  <2>6. PatchCarries(p, job)
    BY <1>2, <2>5
  <2> QED BY <1>1, <2>2, <2>3, <2>4, <2>5, <2>6, PatchTyped
<1>6. ASSUME NEW f \in File, ParseLands(p, f) PROVE TypeInv'
  <2> DEFINE job == [at |-> "linking", link |-> LinkOf(map', gens')]
  <2>1. /\ map' = [map EXCEPT ![f] = Solo(disk[f])] /\ gens' = [gens EXCEPT ![f] = @ + 1]
        /\ patch' = [patch EXCEPT ![p] = job] /\ stamped' = stamped \cup {f}
        /\ UNCHANGED <<broken, reparse, pass, passing, timer, queued, refresh, entries, threads,
                       system, failed, overlooked, linkerFailed>>
    BY <1>6 DEF ParseLands, tree, passes, refreshing, derived
  <2>2. disk[f] \in Nat /\ gens' \in Version
    BY <1>1, <2>1 DEF Version
  <2>3. MapIs(map')
    BY <1>1, <2>1, <2>2, ParsedIsMap
  <2>4. LinkOf(map', gens').of = map'
    BY DEF LinkOf
  <2>5. PatchCarries(p, job)
    BY <2>3, <2>4 DEF PatchCarries
  <2> HIDE DEF job
  <2> QED BY <1>1, <2>1, <2>2, <2>3, <2>5, PatchTyped
<1>7. ASSUME NEW f \in File, RestoreOne(p, f) PROVE TypeInv'
  <2> DEFINE left == patch[p].left \ {f}
             reading == [at |-> "reading", file |-> f, left |-> left]
  <2>1. /\ patch[p].at = "restoring" /\ f \in patch[p].left /\ f \in Touches[p]
        /\ UNCHANGED <<broken, reparse, pass, passing, timer, queued, refresh, entries, threads,
                       system, failed, overlooked, linkerFailed>>
    BY <1>1, <1>7 DEF RestoreOne, PatchAtStep, parse, passes, refreshing, derived
  <2>2. \/ /\ patch' = [patch EXCEPT ![p] = [patch[p] EXCEPT !.left = left]]
           /\ UNCHANGED <<map, gens, stamped>>
        \/ /\ patch' = [patch EXCEPT ![p] = [patch[p] EXCEPT !.left = left, !.any = TRUE]]
           /\ map' = [map EXCEPT ![f] = Solo(0)] /\ gens' = [gens EXCEPT ![f] = @ + 1]
           /\ stamped' = stamped \cup {f}
        \/ /\ patch' = [patch EXCEPT ![p] = reading]
           /\ UNCHANGED <<map, gens>> /\ stamped' = stamped \cup {f}
    BY <1>1, <1>7 DEF RestoreOne, parse, Gone
  <2>3. stamped' \subseteq File /\ gens' \in Version
    BY <1>1, <2>2 DEF Version
  <2>4. MapIs(map')
    BY <1>1, <2>2, ParsedIsMap
  <2>5. /\ PatchCarries(p, [patch[p] EXCEPT !.left = left])
        /\ PatchCarries(p, [patch[p] EXCEPT !.left = left, !.any = TRUE])
        /\ PatchCarries(p, reading)
    <3>1. /\ [patch[p] EXCEPT !.left = left].at = "restoring"
          /\ [patch[p] EXCEPT !.left = left, !.any = TRUE].at = "restoring"
      BY <1>4, <2>1
    <3>2. reading.at = "reading" /\ reading.file = f
      OBVIOUS
    <3> QED BY <2>1, <3>1, <3>2 DEF PatchCarries
  <2> HIDE DEF left, reading
  <2> QED BY <1>1, <2>1, <2>2, <2>3, <2>4, <2>5, PatchTyped
<1>8. CASE RestoredParseLands(p)
  <2> DEFINE f == patch[p].file
             job == [at |-> "restoring", left |-> patch[p].left, any |-> TRUE]
  <2>1. /\ patch[p].at = "reading" /\ map' = [map EXCEPT ![f] = Solo(disk[f])]
        /\ gens' = [gens EXCEPT ![f] = @ + 1] /\ patch' = [patch EXCEPT ![p] = job]
        /\ UNCHANGED <<broken, stamped, reparse, pass, passing, timer, queued, refresh, entries,
                       threads, system, failed, overlooked, linkerFailed>>
    BY <1>1, <1>8 DEF RestoredParseLands, tree, watcher, passes, refreshing, derived
  <2>2. f \in File
    BY <1>1, <2>1 DEF PatchCarries
  <2>3. disk[f] \in Nat /\ gens' \in Version
    BY <1>1, <2>1, <2>2 DEF Version
  <2>4. MapIs(map')
    BY <1>1, <2>1, <2>2, <2>3, ParsedIsMap
  <2>5. PatchCarries(p, job)
    <3>1. job.at = "restoring"
      OBVIOUS
    <3> QED BY <3>1 DEF PatchCarries
  <2> HIDE DEF f, job
  <2> QED BY <1>1, <2>1, <2>3, <2>4, <2>5, PatchTyped
<1>9. CASE RestoreLinks(p)
  <2> DEFINE job == [at |-> "linking", link |-> LinkOf(map, gens)]
  <2>1. /\ patch' = [patch EXCEPT ![p] = job] \/ patch' = [patch EXCEPT ![p] = Done]
        /\ UNCHANGED <<map, gens, broken, stamped, reparse, pass, passing, timer, queued, refresh,
                       entries, threads, system, failed, overlooked, linkerFailed>>
    BY <1>1, <1>9 DEF RestoreLinks, tree, parse, watcher, passes, refreshing, derived
  <2>2. PatchCarries(p, job) /\ PatchCarries(p, Done)
    BY <1>1, <1>3 DEF PatchCarries, Done, MapIs
  <2> HIDE DEF job
  <2> QED BY <1>1, <2>1, <2>2, PatchTyped
<1>10. ASSUME NEW ok \in BOOLEAN, PatchEnds(p, ok) PROVE TypeInv'
  <2>1. /\ patch[p].at = "linking" /\ map' = MergeRelinked(patch[p].link, ok)
        /\ patch' = [patch EXCEPT ![p] = Done] /\ timer' = TRUE
        /\ UNCHANGED <<gens, broken, stamped, reparse, pass, passing, queued, refresh, entries,
                       threads, system, failed, overlooked, linkerFailed>>
    BY <1>10 DEF PatchEnds, tree, watcher, passes, derived
  <2>2. MapIs(map')
    BY <1>1, <2>1, MergedIsMap DEF PatchCarries
  <2>3. PatchCarries(p, Done)
    BY <1>2 DEF Done
  <2> QED BY <1>1, <2>1, <2>2, <2>3, PatchTyped
<1> QED BY <1>5, <1>6, <1>7, <1>8, <1>9, <1>10 DEF PatchStep

\* A step of a pass.
LEMMA PassTyped ==
  ASSUME TypeInv, NEW i \in Pass, NEW job, PassCarries(job), pass' = [pass EXCEPT ![i] = job],
         MapIs(map'), {linkerFailed', reparse', passing', failed'} \subseteq BOOLEAN,
         entries' \in Map, overlooked' \subseteq File, threads' \in Map,
         system' \in [files : Map, threads : Map], raced' = (raced \/ Racing'),
         UNCHANGED <<broken, gens, patch, stamped, timer, queued, refresh>>
  PROVE  TypeInv'
<1>1. DOMAIN pass' = Pass /\ \A j \in Pass : PassCarries(pass'[j])
  BY DEF TypeInv, Carries
<1>2. raced' \in BOOLEAN
  BY DEF Racing
<1>3. Flags'
  BY <1>2 DEF TypeInv, Flags
<1> QED BY <1>1, <1>3 DEF TypeInv, Carries

\* The steps of full passes keep the types.
LEMMA PassesAreTyped ==
  ASSUME TypeInv, StampInv, raced' = (raced \/ Racing'), NEW i \in Pass, PassStep(i)
  PROVE  TypeInv'
<1>1. /\ disk \in Version /\ MapIs(map) /\ gens \in Version /\ entries \in Map /\ threads \in Map
      /\ system \in [files : Map, threads : Map] /\ DOMAIN pass = Pass /\ PassCarries(pass[i])
      /\ {linkerFailed, reparse, passing, failed} \subseteq BOOLEAN /\ overlooked \subseteq File
  BY StampFacts DEF TypeInv, Carries, Flags
<1>2. PassCarries(Done)
  BY EmptyHanded DEF Done
<1>3. CASE BeginPass(i)
  <2> DEFINE job == [at |-> "parsing", since |-> gens, left |-> {f \in File : disk[f] # 0},
                     read |-> [f \in File |-> 0]]
  <2>1. /\ reparse' = FALSE /\ passing' = TRUE /\ pass' = [pass EXCEPT ![i] = job]
        /\ UNCHANGED <<map, linkerFailed, failed, entries, overlooked, threads, system, broken, gens,
                       patch, stamped, timer, queued, refresh>>
    BY <1>3 DEF BeginPass, tree, parse, refreshing, derived
  <2>2. [f \in File |-> 0] \in Version
    BY DEF Version
  <2>3. PassCarries(job)
    <3>1. job.at = "parsing" /\ job.since = gens /\ job.read = [f \in File |-> 0]
      OBVIOUS
    <3>2. {"at", "since", "left", "read"} \subseteq DOMAIN job
      OBVIOUS
    <3> QED BY <1>1, <2>2, <3>1, <3>2 DEF PassCarries, Carrying, Deriving
  <2> HIDE DEF job
  <2> QED BY <1>1, <2>1, <2>3, PassTyped
<1>4. ASSUME NEW f \in File, PassReads(i, f) PROVE TypeInv'
  <2> DEFINE read == [pass[i].read EXCEPT ![f] = ParseOf(f, disk[f])]
             job == [pass[i] EXCEPT !.left = @ \ {f}, !.read = read]
  <2>1. /\ pass[i].at = "parsing" /\ pass' = [pass EXCEPT ![i] = job]
        /\ UNCHANGED <<map, linkerFailed, reparse, passing, failed, entries, overlooked, threads,
                       system, broken, gens, patch, stamped, timer, queued, refresh>>
    <3>1. pass' = [pass EXCEPT ![i].left = @ \ {f}, ![i].read[f] = ParseOf(f, disk[f])]
      BY <1>4 DEF PassReads
    <3>2. DOMAIN pass[i] # {} /\ {"at", "left", "read"} \subseteq DOMAIN pass[i]
      BY <1>1, <1>4 DEF PassReads, PassCarries
    <3>3. pass' = [pass EXCEPT ![i] = job]
      BY <1>1, <3>1, <3>2
    <3> QED BY <1>4, <3>3 DEF PassReads, tree, parse, watcher, refreshing, derived
  <2>2. ParseOf(f, disk[f]) \in Nat
    BY <1>1 DEF ParseOf, Version
  <2>3. PassCarries(job)
    <3>1. {"at", "since", "left", "read"} \subseteq DOMAIN pass[i] /\ pass[i].since \in Version
          /\ pass[i].read \in Version
      BY <1>1, <2>1 DEF PassCarries
    <3>2. read \in Version
      BY <2>2, <3>1 DEF Version
    <3>3. job.at = "parsing" /\ job.since = pass[i].since /\ job.read = read
          /\ DOMAIN job = DOMAIN pass[i]
      BY <2>1, <3>1
    <3> QED BY <3>1, <3>2, <3>3 DEF PassCarries, Carrying, Deriving
  <2> HIDE DEF job
  <2> QED BY <1>1, <2>1, <2>3, PassTyped
<1>5. ASSUME NEW ok \in BOOLEAN, PassMerges(i, ok) PROVE TypeInv'
  <2> DEFINE job == [at |-> "discovering", view |-> map']
  <2>1. /\ pass[i].at = "parsing" /\ failed' = FALSE /\ pass' = [pass EXCEPT ![i] = job]
        /\ map' = MergePass(LinkOf([f \in File |-> Solo(pass[i].read[f])], pass[i].since), ok)
        /\ linkerFailed' = ~ok
        /\ UNCHANGED <<reparse, passing, entries, overlooked, threads, system, broken, gens, patch,
                       stamped, timer, queued, refresh>>
    BY <1>5 DEF PassMerges, tree, watcher, refreshing
  <2>2. pass[i].read \in Version /\ pass[i].since \in Version
    BY <1>1, <2>1 DEF PassCarries
  <2>3. MapIs(map')
    BY <1>1, <2>1, <2>2, PassMergedIsMap
  <2>4. PassCarries(job)
    <3>1. job.at = "discovering" /\ job.view = map'
      OBVIOUS
    <3> QED BY <2>3, <3>1 DEF PassCarries, Carrying, Deriving, MapIs
  <2> HIDE DEF job
  <2> QED BY <1>1, <2>1, <2>3, <2>4, PassTyped
<1>6. ASSUME NEW l \in SUBSET File, PassDiscovers(i, l) PROVE TypeInv'
  <2> DEFINE job == Extracting(pass[i], entries')
  <2>1. /\ pass[i].at = "discovering" /\ pass' = [pass EXCEPT ![i] = job]
        /\ entries' = Found(pass[i].view, l) /\ overlooked' = l
        /\ UNCHANGED <<map, linkerFailed, reparse, passing, failed, threads, system, broken, gens,
                       patch, stamped, timer, queued, refresh>>
    BY <1>1, <1>6 DEF PassDiscovers, Discovers, tree, parse, watcher, refreshing
  <2>2. pass[i].view \in Map /\ entries' \in Map
    BY <1>1, <2>1, FoundIsMap DEF PassCarries, Carrying, Deriving
  <2>3. PassCarries(job)
    <3>1. job.at = "extracting" /\ job.view = pass[i].view /\ job.found = entries'
      BY DEF Extracting
    <3> QED BY <2>2, <3>1 DEF PassCarries, Carrying
  <2> HIDE DEF job
  <2> QED BY <1>1, <2>1, <2>2, <2>3, PassTyped
<1>7. ASSUME NEW ok \in BOOLEAN, PassExtracts(i, ok) PROVE TypeInv'
  <2> DEFINE job == [at |-> "rolling", view |-> pass[i].view, threads |-> threads']
  <2>1. /\ pass[i].at = "extracting" /\ pass' = [pass EXCEPT ![i] = job]
        /\ UNCHANGED <<map, linkerFailed, reparse, passing, entries, overlooked, system, broken, gens,
                       patch, stamped, timer, queued, refresh>>
    BY <1>1, <1>7 DEF PassExtracts, tree, parse, watcher, refreshing
  <2>2. pass[i].view \in Map /\ pass[i].found \in Map
    BY <1>1, <2>1 DEF PassCarries, Carrying, Deriving
  <2>3. threads' \in Map /\ failed' \in BOOLEAN
    BY <1>1, <1>7, <2>2 DEF PassExtracts, Extracts
  <2>4. PassCarries(job)
    <3>1. job.at = "rolling" /\ job.view = pass[i].view /\ job.threads = threads'
      OBVIOUS
    <3> QED BY <2>2, <2>3, <3>1 DEF PassCarries, Carrying
  <2> HIDE DEF job
  <2> QED BY <1>1, <2>1, <2>3, <2>4, PassTyped
<1>8. ASSUME NEW ok \in BOOLEAN, PassEnds(i, ok) PROVE TypeInv'
  <2>1. /\ pass[i].at = "rolling"
        /\ system' \in {[files |-> pass[i].view, threads |-> pass[i].threads], NoSystem}
        /\ pass' = [pass EXCEPT ![i] = Done] /\ passing' = FALSE
        /\ UNCHANGED <<map, linkerFailed, reparse, failed, entries, overlooked, threads, broken,
                       gens, patch, stamped, timer, queued, refresh>>
    BY <1>8 DEF PassEnds, RollsUp, tree, parse, watcher, refreshing
  <2>2. pass[i].view \in Map /\ pass[i].threads \in Map
    BY <1>1, <2>1 DEF PassCarries, Carrying, Deriving
  <2>3. system' \in [files : Map, threads : Map]
    BY <2>1, <2>2, FoundIsMap
  <2> QED BY <1>1, <1>2, <2>1, <2>3, PassTyped
<1> QED BY <1>3, <1>4, <1>5, <1>6, <1>7, <1>8 DEF PassStep

\* A step of the refresh, or of a reader that calls it.
LEMMA RefreshTyped ==
  ASSUME TypeInv, RefreshCarries(refresh'), MapIs(map'),
         {linkerFailed', timer', queued', failed'} \subseteq BOOLEAN,
         entries' \in Map, overlooked' \subseteq File, threads' \in Map, system' \in [files : Map, threads : Map],
         raced' = (raced \/ Racing'),
         UNCHANGED <<broken, gens, patch, stamped, reparse, pass, passing>>
  PROVE  TypeInv'
<1>1. raced' \in BOOLEAN
  BY DEF Racing
<1>2. Flags'
  BY <1>1 DEF TypeInv, Flags
<1> QED BY <1>2 DEF TypeInv, Carries

\* The steps of the refresh and of its readers keep the types.
LEMMA RefreshesAreTyped ==
  ASSUME TypeInv, raced' = (raced \/ Racing'),
         RefreshStep \/ SettleLooks \/ BeginSettle \/ SettleTimesOut
  PROVE  TypeInv'
<1>1. /\ MapIs(map) /\ gens \in Version /\ entries \in Map /\ threads \in Map
      /\ system \in [files : Map, threads : Map] /\ RefreshCarries(refresh)
      /\ {linkerFailed, timer, queued, failed} \subseteq BOOLEAN /\ overlooked \subseteq File
  BY DEF TypeInv, Carries, Flags
<1>2. CASE \/ TimerFires \/ BeginSettle \/ SettleTimesOut
           \/ SettleLooks
  <2>1. ASSUME RefreshDerived PROVE RefreshCarries(refresh') /\ queued' \in BOOLEAN
    <3> DEFINE job == [at |-> "linking", link |-> LinkOf(map, gens)]
    <3>1. LinkOf(map, gens).of = map
      BY DEF LinkOf
    <3>2. job.at = "linking" /\ job.link = LinkOf(map, gens)
      OBVIOUS
    <3>3. RefreshCarries(job)
      BY <1>1, <3>1, <3>2 DEF RefreshCarries, Carrying, Deriving
    <3> HIDE DEF job
    <3>4. refresh' = refresh \/ refresh' = job
      BY <2>1 DEF RefreshDerived, job
    <3>5. queued' \in BOOLEAN
      BY <1>1, <2>1 DEF RefreshDerived
    <3> QED BY <1>1, <3>3, <3>4, <3>5
  <2>2. RefreshCarries(refresh') /\ {timer', queued'} \subseteq BOOLEAN
    BY <1>1, <1>2, <2>1 DEF TimerFires, BeginSettle, SettleTimesOut, SettleLooks, refreshing
  <2>3. UNCHANGED <<map, linkerFailed, failed, entries, overlooked, threads, system, broken, gens, patch,
                    stamped, reparse, pass, passing>>
    BY <1>2 DEF TimerFires, BeginSettle, SettleTimesOut, SettleLooks, tree, parse, watcher, passes,
       derived
  <2> QED BY <1>1, <2>2, <2>3, RefreshTyped
<1>3. ASSUME NEW ok \in BOOLEAN, RefreshMerges(ok) PROVE TypeInv'
  <2> DEFINE job == [at |-> "discovering", view |-> map']
  <2>1. /\ refresh.at = "linking" /\ map' = MergeRelinked(refresh.link, ok) /\ refresh' = job
        /\ failed' = FALSE /\ linkerFailed' = ~ok
        /\ UNCHANGED <<timer, queued, entries, overlooked, threads, system, broken, gens, patch,
                       stamped, reparse, pass, passing>>
    BY <1>3 DEF RefreshMerges, tree, watcher, passes
  <2>2. MapIs(map')
    BY <1>1, <2>1, MergedIsMap DEF RefreshCarries
  <2>3. RefreshCarries(job)
    <3>1. job.at = "discovering" /\ job.view = map'
      OBVIOUS
    <3> QED BY <2>2, <3>1 DEF RefreshCarries, Carrying, Deriving, MapIs
  <2> HIDE DEF job
  <2> QED BY <1>1, <2>1, <2>2, <2>3, RefreshTyped
<1>4. ASSUME NEW l \in SUBSET File, RefreshDiscovers(l) PROVE TypeInv'
  <2>1. /\ refresh.at = "discovering" /\ refresh' = Extracting(refresh, entries')
        /\ entries' = Found(refresh.view, l) /\ overlooked' = l
        /\ UNCHANGED <<map, linkerFailed, failed, timer, queued, threads, system, broken, gens, patch,
                       stamped, reparse, pass, passing>>
    BY <1>4 DEF RefreshDiscovers, Discovers, tree, parse, watcher, passes
  <2>2. refresh.view \in Map /\ entries' \in Map
    BY <1>1, <2>1, FoundIsMap DEF RefreshCarries, Carrying, Deriving
  <2>3. RefreshCarries(refresh')
    <3>1. refresh'.at = "extracting" /\ refresh'.view = refresh.view /\ refresh'.found = entries'
      BY <2>1 DEF Extracting
    <3> QED BY <2>2, <3>1 DEF RefreshCarries, Carrying
  <2> QED BY <1>1, <2>1, <2>2, <2>3, RefreshTyped
<1>5. ASSUME NEW ok \in BOOLEAN, RefreshExtracts(ok) PROVE TypeInv'
  <2> DEFINE job == [at |-> "rolling", view |-> refresh.view, threads |-> threads']
  <2>1. /\ refresh.at = "extracting" /\ refresh' = job
        /\ UNCHANGED <<map, linkerFailed, timer, queued, entries, overlooked, system, broken, gens,
                       patch, stamped, reparse, pass, passing>>
    BY <1>5 DEF RefreshExtracts, tree, parse, watcher, passes
  <2>2. refresh.view \in Map /\ refresh.found \in Map
    BY <1>1, <2>1 DEF RefreshCarries, Carrying, Deriving
  <2>3. threads' \in Map /\ failed' \in BOOLEAN
    BY <1>1, <1>5, <2>2 DEF RefreshExtracts, Extracts
  <2>4. RefreshCarries(job)
    <3>1. job.at = "rolling" /\ job.view = refresh.view /\ job.threads = threads'
      OBVIOUS
    <3> QED BY <2>2, <2>3, <3>1 DEF RefreshCarries, Carrying
  <2> HIDE DEF job
  <2> QED BY <1>1, <2>1, <2>3, <2>4, RefreshTyped
<1>6. ASSUME NEW ok \in BOOLEAN, RefreshEnds(ok) PROVE TypeInv'
  <2>1. /\ refresh.at = "rolling"
        /\ system' \in {[files |-> refresh.view, threads |-> refresh.threads], NoSystem}
        /\ refresh' = Idle /\ timer' = (timer \/ queued) /\ queued' = FALSE
        /\ UNCHANGED <<map, linkerFailed, failed, entries, overlooked, threads, broken, gens, patch,
                       stamped, reparse, pass, passing>>
    BY <1>6 DEF RefreshEnds, RollsUp, tree, parse, watcher, passes
  <2>2. refresh.view \in Map /\ refresh.threads \in Map
    BY <1>1, <2>1 DEF RefreshCarries, Carrying, Deriving
  <2>3. RefreshCarries(refresh')
    BY <2>1, EmptyHanded DEF Idle
  <2>4. system' \in [files : Map, threads : Map]
    BY <2>1, <2>2, FoundIsMap
  <2> QED BY <1>1, <2>1, <2>3, <2>4, RefreshTyped
<1> QED BY <1>2, <1>3, <1>4, <1>5, <1>6 DEF RefreshStep

\* The steps of the watcher, and the stuttering.
LEMMA WatcherIsTyped ==
  ASSUME TypeInv,
         \/ UNCHANGED mapVars
         \/ /\ raced' = (raced \/ Racing')
            /\ \E f \in File : ExternalEdit(f) \/ EventArrives(f) \/ StampExpires(f)
  PROVE  TypeInv'
<1>1. UNCHANGED <<map, gens, patch, pass, passing, timer, queued, refresh, entries, threads, system,
                  failed, overlooked, linkerFailed, broken>>
  BY DEF ExternalEdit, EventArrives, StampExpires, mapVars, tree, parse, passes, refreshing, derived
<1>2. stamped' \subseteq stamped /\ {reparse', raced'} \subseteq BOOLEAN
  <2>1. reparse \in BOOLEAN /\ raced \in BOOLEAN
    BY DEF TypeInv, Flags
  <2>2. CASE UNCHANGED mapVars
    BY <2>1, <2>2 DEF mapVars, watcher
  <2>3. CASE raced' = (raced \/ Racing')
             /\ \E f \in File : ExternalEdit(f) \/ EventArrives(f) \/ StampExpires(f)
    <3>1. raced' \in BOOLEAN
      BY <2>3 DEF Racing
    <3> QED BY <2>1, <2>3, <3>1 DEF ExternalEdit, EventArrives, StampExpires
  <2> QED BY <2>2, <2>3
<1>3. Flags'
  BY <1>1, <1>2 DEF TypeInv, Flags
<1> QED BY <1>1, <1>2, <1>3 DEF TypeInv, Carries

LEMMA TypesInitially ==
  Init => TypeInv
<1> SUFFICES ASSUME Init PROVE TypeInv
  OBVIOUS
<1> DEFINE solo == [f \in File |-> Solo(disk[f])]
<1>1. disk \in Version
  BY DEF Init, Started, Version
<1>2. solo \in Map
  BY <1>1 DEF Solo, Map, Version
<1>3. MapIs(map)
  BY <1>2, LinkedIsMap DEF Init
<1>4. gens \in Version /\ broken = {} /\ stamped = {} /\ DOMAIN pass = Pass /\ Flags
  BY DEF Init, Version, Flags
<1>5. /\ entries \in Map /\ threads \in Map /\ system \in [files : Map, threads : Map]
      /\ overlooked \subseteq File
  BY <1>3 DEF Init, MapIs
<1>6. Carries
  BY EmptyHanded DEF Init, Idle, Carries
<1> QED BY <1>3, <1>4, <1>5, <1>6 DEF TypeInv

\* Every step keeps the types.
LEMMA TypesHold ==
  TypeInv /\ StampInv /\ [MapNext]_mapVars => TypeInv'
<1> SUFFICES ASSUME TypeInv, StampInv, [MapNext]_mapVars PROVE TypeInv'
  OBVIOUS
<1>1. CASE UNCHANGED mapVars
  BY <1>1, WatcherIsTyped
<1>2. CASE MapNext
  BY <1>2, PatchesAreTyped, PassesAreTyped, RefreshesAreTyped, WatcherIsTyped
     DEF MapNext, MapServerStep, MapEnvironment
<1> QED BY <1>1, <1>2

\* Whatever overlaps, the map holds parses and links of versions, what is gone is gone
\* with its links, and all that is derived is derived from such a map.  Unlike the other
\* theorems about the map it leaves nothing to people: files of packets may be changed
\* from outside and restores may put back anything.
THEOREM MapIsAlwaysAMap ==
  MapSpec => []TypeOK
<1>1. TypeInv /\ StampInv => TypeOK
  BY DEF TypeInv, MapIs, Flags, StampInv, TreeGrows, Patches, EventsAreStamped, TypeOK
<1> QED BY <1>1, TypesInitially, TypesHold, StampsInitially, StampsHold, PTL DEF MapSpec
=============================================================================
