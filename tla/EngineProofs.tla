---------------------------- MODULE EngineProofs ----------------------------
(***************************************************************************)
(* What the runs of CachedEngine and Watch check on small instances,       *)
(* proved: of the engine for every set of files, contents, configurations  *)
(* and processes, every set of deterministic analyzers and every injective *)
(* hash; of the loop that repeats its runs for every debounce interval and *)
(* number of edits.                                                        *)
(***************************************************************************)
EXTENDS CachedEngine, Watch, TLAPS

-----------------------------------------------------------------------------
(* The operators on caches.                                                *)

\* Analysing bytes yields an outcome, which remembers the bytes (engine.rs, the
\* closure of the parallel pass).
LEMMA AnalysedType ==
  ASSUME NEW c \in Cache, NEW f \in File, NEW b \in Bytes, NEW k \in Config
  PROVE  /\ Analysed(c, f, b, k) \in Outcome
         /\ Analysed(c, f, b, k).bytes = b
<1>1. CASE b \notin Content \/ ~Parses(f, b)
  BY <1>1 DEF Analysed, Outcome
<1>2. CASE b \in Content /\ Parses(f, b) /\ IsHit(c, f, b, k)
  <2>1. c[f] \in Entry
    BY <1>2 DEF IsHit, Cache
  <2>2. c[f].findings \in Findings
    BY <2>1 DEF Entry
  <2>. QED  BY <1>2, <2>2 DEF Analysed, Outcome
<1>3. CASE b \in Content /\ Parses(f, b) /\ ~IsHit(c, f, b, k)
  <2>1. FileFindings(f, b, k) \in Findings
    BY <1>3 DEF Findings
  <2>. QED  BY <1>3, <2>1 DEF Analysed, Outcome
<1>. QED  BY <1>1, <1>2, <1>3

\* An entry is an entry whatever findings of the right type it is given.
LEMMA CacheEntryType ==
  ASSUME NEW b \in Content, NEW k \in Config, NEW x \in Findings
  PROVE  CacheEntry(b, k, x) \in Entry
BY DEF CacheEntry, Entry

\* Inserting the misses of a pass and pruning leave a cache.
LEMMA UpdateType ==
  ASSUME NEW c \in Cache, NEW fs \in SUBSET File, NEW k \in Config,
         NEW res \in [File -> Outcome \cup {NotRead}],
         \A f \in fs : res[f] # NotRead
  PROVE  Prune(Insert(c, fs, res, k), fs) \in Cache
<1>1. ASSUME NEW f \in File, f \in fs, res[f].kind = "miss"
      PROVE  CacheEntry(res[f].bytes, k, res[f].findings) \in Entry
  <2>1. res[f] \in Outcome
    BY <1>1
  <2>2. res[f].bytes \in Content /\ res[f].findings \in Findings
    BY <1>1, <2>1 DEF Outcome
  <2>. QED  BY <2>2, CacheEntryType
<1>2. Insert(c, fs, res, k) \in Cache
  BY <1>1 DEF Insert, Cache
<1>. QED  BY <1>2 DEF Prune, Cache

\* load yields a cache whatever v1.json holds.
LEMMA LoadedType == ASSUME target \in CacheFile PROVE Loaded \in Cache
BY DEF CacheFile, Loaded, EmptyCache, Cache

-----------------------------------------------------------------------------
(* Type correctness.                                                       *)

\* Every variable keeps its type in every behaviour of the engine.
LEMMA InitType == Init => TypeOK
<1> SUFFICES ASSUME Init PROVE TypeOK
  OBVIOUS
<1>1. cache \in [Run -> Cache]
  BY DEF Init, EmptyCache, Cache
<1>2. /\ pc \in [Run -> PC]
      /\ at \in [Run -> {"closed", "tmp", "target", "unlinked"}]
  BY DEF Init, PC
<1>3. /\ scope \in [Run -> SUBSET File]
      /\ paths \in [Run -> SUBSET File]
  BY DEF Init
<1>. QED  BY <1>1, <1>2, <1>3 DEF Init, TypeOK, CacheFile

LEMMA NextType == TypeOK /\ [Next]_vars => TypeOK'
<1> SUFFICES ASSUME TypeOK, [Next]_vars PROVE TypeOK'
  OBVIOUS
<1> USE DEF TypeOK, tree, files, local
<1>1. ASSUME NEW f \in File, NEW b \in Bytes, EditFile(f, b) PROVE TypeOK'
  BY <1>1 DEF EditFile
<1>2. ASSUME NEW k \in Config, EditConfig(k) PROVE TypeOK'
  BY <1>2 DEF EditConfig
<1>3. ASSUME NEW r \in Run, NEW s \in Scope, NEW c \in BOOLEAN, Start(r, s, c)
      PROVE  TypeOK'
  BY <1>3, ScopeAssumption DEF Start, Fresh, PC, EmptyCache, Cache
<1>4. ASSUME NEW r \in Run, Load(r) PROVE TypeOK'
  BY <1>4, LoadedType DEF Load, PC
<1>5. ASSUME NEW r \in Run, Walk(r) PROVE TypeOK'
  BY <1>5 DEF Walk, PC
<1>6. ASSUME NEW r \in Run, NEW f \in File, ScanFile(r, f) PROVE TypeOK'
  <2>1. Analysed(cache[r], f, disk[f], cfg[r]) \in Outcome
    BY AnalysedType
  <2>. QED  BY <1>6, <2>1 DEF ScanFile
<1>7. ASSUME NEW r \in Run, Collect(r) PROVE TypeOK'
  <2>1. Prune(Insert(cache[r], paths[r], result[r], cfg[r]), paths[r]) \in Cache
    BY <1>7, UpdateType DEF Collect
  <2>. QED  BY <1>7, <2>1 DEF Collect, PC
<1>8. ASSUME NEW r \in Run, CreateTmp(r) PROVE TypeOK'
  BY <1>8 DEF CreateTmp, PC, CacheFile, Saving
<1>9. ASSUME NEW r \in Run, WriteTmp(r) PROVE TypeOK'
  BY <1>9 DEF WriteTmp, Put, PC, CacheFile, Saving
<1>10. ASSUME NEW r \in Run, FlushTmp(r) PROVE TypeOK'
  BY <1>10 DEF FlushTmp, Put, PC, CacheFile, Saving
<1>11. ASSUME NEW r \in Run, Rename(r) PROVE TypeOK'
  BY <1>11 DEF Rename, EndSave, PC, CacheFile
<1>12. ASSUME NEW r \in Run, SaveFails(r) PROVE TypeOK'
  BY <1>12 DEF SaveFails, EndSave, PC
<1>13. ASSUME NEW r \in Run, Output(r) PROVE TypeOK'
  BY <1>13 DEF Output, PC
<1>14. ASSUME NEW r \in Run, Abort(r) PROVE TypeOK'
  BY <1>14 DEF Abort, Fresh, EndSave, PC, EmptyCache, Cache
<1>15. CASE UNCHANGED vars
  BY <1>15 DEF vars
<1>. QED  BY <1>1, <1>2, <1>3, <1>4, <1>5, <1>6, <1>7, <1>8, <1>9, <1>10, <1>11,
             <1>12, <1>13, <1>14, <1>15 DEF Next, RunStep

\* The variables of concurrent cached and uncached runs keep their types.
THEOREM TypeCorrect == Spec => []TypeOK
BY InitType, NextType, PTL DEF Spec

-----------------------------------------------------------------------------
(* Soundness of the caches.                                                *)

\* What a finished file of a run must be for the caches to stay sound: its
\* findings are those of its bytes, which parse, under the run's configuration.
SoundOutcome(f, k, o) ==
  o.kind \in {"hit", "miss"} =>
    Parses(f, o.bytes) /\ o.findings = FileFindings(f, o.bytes, k)

ResultSound ==
  \A r \in Run, f \in File :
    result[r][f] # NotRead => SoundOutcome(f, cfg[r], result[r][f])

SoundInv == TypeOK /\ CacheSound /\ ResultSound

\* From a sound cache a hit yields the findings that a fresh analysis would:
\* equal hashes mean equal bytes and equal configurations.
LEMMA AnalysedSound ==
  ASSUME NEW c \in Cache, SoundCache(c),
         NEW f \in File, NEW b \in Bytes, NEW k \in Config
  PROVE  SoundOutcome(f, k, Analysed(c, f, b, k))
<1>1. CASE b \notin Content \/ ~Parses(f, b)
  BY <1>1 DEF Analysed, SoundOutcome
<1>2. CASE b \in Content /\ Parses(f, b) /\ IsHit(c, f, b, k)
  <2>1. c[f] \in SoundEntries(f)
    BY <1>2 DEF SoundCache, IsHit
  <2>2. PICK x \in Content, j \in Config :
          c[f] = CacheEntry(x, j, FileFindings(f, x, j))
    BY <2>1 DEF SoundEntries
  <2>3. x = b /\ j = k
    BY <1>2, <2>2, NoCollisions DEF IsHit, CacheEntry
  <2>. QED  BY <1>2, <2>2, <2>3 DEF Analysed, SoundOutcome, CacheEntry
<1>3. CASE b \in Content /\ Parses(f, b) /\ ~IsHit(c, f, b, k)
  BY <1>3 DEF Analysed, SoundOutcome
<1>. QED  BY <1>1, <1>2, <1>3

\* Inserting sound misses into a sound cache and pruning leave it sound.
LEMMA UpdateSound ==
  ASSUME NEW c \in Cache, SoundCache(c), NEW fs \in SUBSET File,
         NEW k \in Config, NEW res \in [File -> Outcome \cup {NotRead}],
         \A f \in fs : res[f] # NotRead /\ SoundOutcome(f, k, res[f])
  PROVE  SoundCache(Prune(Insert(c, fs, res, k), fs))
<1> SUFFICES ASSUME NEW f \in File, f \in fs,
                    Insert(c, fs, res, k)[f] # NoEntry
             PROVE  Insert(c, fs, res, k)[f] \in SoundEntries(f)
  BY DEF SoundCache, Prune
<1>1. CASE res[f].kind = "miss"
  <2>1. res[f] \in Outcome /\ SoundOutcome(f, k, res[f])
    OBVIOUS
  <2>2. /\ res[f].bytes \in Content
        /\ Parses(f, res[f].bytes)
        /\ res[f].findings = FileFindings(f, res[f].bytes, k)
    BY <1>1, <2>1 DEF Outcome, SoundOutcome
  <2>3. Insert(c, fs, res, k)[f] =
          CacheEntry(res[f].bytes, k, res[f].findings)
    BY <1>1 DEF Insert
  <2>. QED  BY <2>2, <2>3 DEF SoundEntries
<1>2. CASE res[f].kind # "miss"
  <2>1. Insert(c, fs, res, k)[f] = c[f]
    BY <1>2 DEF Insert
  <2>. QED  BY <2>1 DEF SoundCache
<1>. QED  BY <1>1, <1>2

LEMMA EmptySound == EmptyCache \in Cache /\ SoundCache(EmptyCache)
BY DEF EmptyCache, Cache, SoundCache

LEMMA InitSound == Init => SoundInv
<1> SUFFICES ASSUME Init PROVE CacheSound /\ ResultSound
  BY InitType DEF SoundInv
<1>1. CacheSound
  BY EmptySound DEF Init, CacheSound
<1>2. ResultSound
  BY DEF Init, ResultSound
<1>. QED  BY <1>1, <1>2

LEMMA NextSound == SoundInv /\ [Next]_vars => SoundInv'
<1> SUFFICES ASSUME SoundInv, [Next]_vars PROVE CacheSound' /\ ResultSound'
  BY NextType DEF SoundInv
<1>0. TypeOK /\ CacheSound /\ ResultSound /\ TypeOK'
  BY NextType DEF SoundInv
<1>1. ASSUME UNCHANGED <<target, tmp, cache, cfg, result>>
      PROVE  CacheSound' /\ ResultSound'
  BY <1>0, <1>1 DEF CacheSound, ResultSound
<1>2. ASSUME NEW f \in File, NEW b \in Bytes, EditFile(f, b)
      PROVE  CacheSound' /\ ResultSound'
  BY <1>1, <1>2 DEF EditFile, files, local
<1>3. ASSUME NEW k \in Config, EditConfig(k)
      PROVE  CacheSound' /\ ResultSound'
  BY <1>1, <1>3 DEF EditConfig, files, local
<1>4. ASSUME NEW r \in Run, NEW s \in Scope, NEW c \in BOOLEAN, Start(r, s, c)
      PROVE  CacheSound' /\ ResultSound'
  <2>1. CacheSound'
    BY <1>0, <1>4, EmptySound DEF Start, Fresh, files, CacheSound, TypeOK
  <2>2. ResultSound'
    BY <1>0, <1>4 DEF Start, Fresh, ResultSound, TypeOK
  <2>. QED  BY <2>1, <2>2
<1>5. ASSUME NEW r \in Run, Load(r) PROVE CacheSound' /\ ResultSound'
  <2>1. SoundCache(Loaded)
    BY <1>0, EmptySound DEF Loaded, CacheSound
  <2>2. CacheSound'
    BY <1>0, <1>5, <2>1 DEF Load, files, CacheSound, TypeOK
  <2>3. ResultSound'
    BY <1>0, <1>5 DEF Load, ResultSound
  <2>. QED  BY <2>2, <2>3
<1>6. ASSUME NEW r \in Run, Walk(r) PROVE CacheSound' /\ ResultSound'
  BY <1>1, <1>6 DEF Walk, files
<1>7. ASSUME NEW r \in Run, NEW f \in File, ScanFile(r, f)
      PROVE  CacheSound' /\ ResultSound'
  <2>1. CacheSound'
    BY <1>0, <1>7 DEF ScanFile, files, CacheSound
  <2>2. SoundOutcome(f, cfg[r], Analysed(cache[r], f, disk[f], cfg[r]))
    BY <1>0, AnalysedSound DEF CacheSound, TypeOK
  <2>3. ResultSound'
    BY <1>0, <1>7, <2>2 DEF ScanFile, ResultSound, TypeOK
  <2>. QED  BY <2>1, <2>3
<1>8. ASSUME NEW r \in Run, Collect(r) PROVE CacheSound' /\ ResultSound'
  <2>1. SoundCache(Prune(Insert(cache[r], paths[r], result[r], cfg[r]),
                         paths[r]))
    <3>1. \A f \in paths[r] : /\ result[r][f] # NotRead
                              /\ SoundOutcome(f, cfg[r], result[r][f])
      BY <1>0, <1>8 DEF Collect, ResultSound, TypeOK
    <3>2. /\ cache[r] \in Cache /\ SoundCache(cache[r]) /\ cfg[r] \in Config
          /\ paths[r] \in SUBSET File
          /\ result[r] \in [File -> Outcome \cup {NotRead}]
      BY <1>0 DEF CacheSound, TypeOK
    <3>. QED  BY <3>1, <3>2, UpdateSound
  <2>2. CacheSound'
    BY <1>0, <1>8, <2>1 DEF Collect, files, CacheSound, TypeOK
  <2>3. ResultSound'
    BY <1>0, <1>8 DEF Collect, ResultSound
  <2>. QED  BY <2>2, <2>3
<1>9. ASSUME NEW r \in Run, CreateTmp(r) PROVE CacheSound' /\ ResultSound'
  BY <1>0, <1>9 DEF CreateTmp, CacheSound, ResultSound
<1>10. ASSUME NEW r \in Run, WriteTmp(r) PROVE CacheSound' /\ ResultSound'
  BY <1>0, <1>10 DEF WriteTmp, Put, CacheSound, ResultSound
<1>11. ASSUME NEW r \in Run, FlushTmp(r) PROVE CacheSound' /\ ResultSound'
  BY <1>0, <1>11 DEF FlushTmp, Put, CacheSound, ResultSound
<1>12. ASSUME NEW r \in Run, Rename(r) PROVE CacheSound' /\ ResultSound'
  BY <1>0, <1>12 DEF Rename, CacheSound, ResultSound
<1>13. ASSUME NEW r \in Run, SaveFails(r) PROVE CacheSound' /\ ResultSound'
  BY <1>1, <1>13 DEF SaveFails
<1>14. ASSUME NEW r \in Run, Output(r) PROVE CacheSound' /\ ResultSound'
  BY <1>1, <1>14 DEF Output, files
<1>15. ASSUME NEW r \in Run, Abort(r) PROVE CacheSound' /\ ResultSound'
  <2>1. CacheSound'
    BY <1>0, <1>15, EmptySound DEF Abort, Fresh, CacheSound, TypeOK
  <2>2. ResultSound'
    BY <1>0, <1>15 DEF Abort, Fresh, ResultSound, TypeOK
  <2>. QED  BY <2>1, <2>2
<1>16. CASE UNCHANGED vars
  BY <1>1, <1>16 DEF vars, files, local
<1>. QED  BY <1>2, <1>3, <1>4, <1>5, <1>6, <1>7, <1>8, <1>9, <1>10, <1>11,
             <1>12, <1>13, <1>14, <1>15, <1>16 DEF Next, RunStep

\* No cache, in memory, in v1.json or in v1.tmp, ever pairs hashes with
\* findings of other bytes or of another configuration, however concurrent
\* runs, edits, kills and failed saves interleave.
THEOREM CachesSound == Spec => []CacheSound
<1>1. SoundInv => CacheSound
  BY DEF SoundInv
<1>. QED  BY <1>1, InitSound, NextSound, PTL DEF Spec

-----------------------------------------------------------------------------
(* The uncached engine is implemented.                                     *)

\* A finished pass over the same files yields the uncached report.
LEMMA ReportsAgree ==
  ASSUME NEW fs \in SUBSET File, NEW k \in Config,
         NEW res \in [File -> Outcome \cup {NotRead}],
         NEW bytes \in [File -> Bytes \cup {NotRead}],
         \A f \in fs : /\ res[f] # NotRead
                       /\ SoundOutcome(f, k, res[f])
                       /\ res[f].kind = "failed" =>
                            res[f].bytes \notin Content \/ ~Parses(f, res[f].bytes)
                       /\ bytes[f] = res[f].bytes
  PROVE  ReportOfResults(fs, res, k) = Uncached!Report(fs, bytes, k)
<1>1. \A f \in fs : /\ res[f].kind \in {"failed", "hit", "miss"}
                    /\ res[f].kind \in {"hit", "miss"} => res[f].bytes \in Content
  BY DEF Outcome
<1>2. ScannedOf(fs, res) = Uncached!Scanned(fs, bytes)
  BY <1>1 DEF ScannedOf, Uncached!Scanned, SoundOutcome
<1> DEFINE scanned == ScannedOf(fs, res)
<1>3. [f \in scanned |-> res[f].findings] =
      [f \in scanned |-> FileFindings(f, bytes[f], k)]
  BY DEF ScannedOf, SoundOutcome
<1>4. [f \in scanned |-> res[f].bytes] = [f \in scanned |-> bytes[f]]
  BY DEF ScannedOf
<1>. QED  BY <1>2, <1>3, <1>4 DEF ReportOfResults, Uncached!Report

\* The bytes that a run has read, and why it could not scan those it gave up.
FailedOutcome(f, o) ==
  o.kind = "failed" => o.bytes \notin Content \/ ~Parses(f, o.bytes)

FailedInv ==
  \A r \in Run, f \in File :
    result[r][f] # NotRead => FailedOutcome(f, result[r][f])

RefineInv == SoundInv /\ FailedInv

LEMMA AnalysedFailed ==
  ASSUME NEW c \in Cache, NEW f \in File, NEW b \in Bytes, NEW k \in Config
  PROVE  FailedOutcome(f, Analysed(c, f, b, k))
BY DEF FailedOutcome, Analysed

LEMMA InitFailed == Init => RefineInv
BY InitSound DEF Init, FailedInv, RefineInv

LEMMA NextFailed == RefineInv /\ [Next]_vars => RefineInv'
<1> SUFFICES ASSUME RefineInv, [Next]_vars PROVE FailedInv'
  BY NextSound DEF RefineInv
<1>0. TypeOK /\ FailedInv
  BY DEF RefineInv, SoundInv
<1>1. ASSUME UNCHANGED result PROVE FailedInv'
  BY <1>0, <1>1 DEF FailedInv
<1>2. ASSUME NEW r \in Run, NEW s, NEW c, NEW p, Fresh(r, s, c, p)
      PROVE  FailedInv'
  BY <1>0, <1>2 DEF Fresh, FailedInv, TypeOK
<1>3. ASSUME NEW r \in Run, NEW f \in File, ScanFile(r, f) PROVE FailedInv'
  <2>1. FailedOutcome(f, Analysed(cache[r], f, disk[f], cfg[r]))
    BY <1>0, AnalysedFailed DEF TypeOK
  <2>. QED  BY <1>0, <1>3, <2>1 DEF ScanFile, FailedInv, TypeOK
<1>4. ASSUME NEW r \in Run, RunStep(r) PROVE FailedInv'
  BY <1>1, <1>2, <1>3, <1>4 DEF RunStep, Start, Load, Walk, Collect, CreateTmp,
     WriteTmp, FlushTmp, Rename, SaveFails, Output, Abort
<1>5. ASSUME NEW f \in File, NEW b \in Bytes, EditFile(f, b) PROVE FailedInv'
  BY <1>1, <1>5 DEF EditFile, local
<1>6. ASSUME NEW k \in Config, EditConfig(k) PROVE FailedInv'
  BY <1>1, <1>6 DEF EditConfig, local
<1>7. CASE UNCHANGED vars
  BY <1>1, <1>7 DEF vars, local
<1>. QED  BY <1>4, <1>5, <1>6, <1>7 DEF Next

\* What the refinement mapping sees of a run.
LEMMA BytesReadType ==
  ASSUME TypeOK
  PROVE  /\ BytesRead \in [Run -> [File -> Bytes \cup {NotRead}]]
         /\ \A r \in Run, f \in File :
              BytesRead[r][f] = NotRead <=> result[r][f] = NotRead
<1>1. \A r \in Run, f \in File :
        result[r][f] # NotRead => result[r][f].bytes \in Bytes
  BY DEF TypeOK, Outcome, Bytes
<1>. QED  BY <1>1, SpecialValues DEF BytesRead

\* The initial states of the cached engine are initial states of the uncached
\* one.
LEMMA InitRefines == Init => Uncached!Init
<1> SUFFICES ASSUME Init PROVE Uncached!Init
  OBVIOUS
<1>1. Phase = [r \in Run |-> "idle"]
  BY DEF Init, Phase, PhaseOf
<1>2. BytesRead = [r \in Run |-> [f \in File |-> NotRead]]
  BY DEF Init, BytesRead
<1>. QED  BY <1>1, <1>2 DEF Init, Uncached!Init, Uncached!Bytes, Bytes

LEMMA PhaseStep ==
  ASSUME TypeOK, NEW r \in Run, NEW p, pc' = [pc EXCEPT ![r] = p]
  PROVE  Phase' = [Phase EXCEPT ![r] = PhaseOf(p)]
BY DEF Phase, TypeOK

LEMMA FreshRefines ==
  ASSUME TypeOK, NEW r \in Run, NEW s, NEW c, NEW p, Fresh(r, s, c, p),
         UNCHANGED <<disk, config>>
  PROVE  Uncached!Fresh(r, s, PhaseOf(p))
<1>1. Phase' = [Phase EXCEPT ![r] = PhaseOf(p)]
  BY PhaseStep DEF Fresh
<1>2. BytesRead' = [BytesRead EXCEPT ![r] = [f \in File |-> NotRead]]
  BY DEF Fresh, BytesRead, TypeOK
<1>. QED  BY <1>1, <1>2 DEF Fresh, Uncached!Fresh

\* Loading and saving the cache are invisible: the bytes read, the phase, the
\* report and the tree stay as they are.
LEMMA CacheStepStutters ==
  ASSUME TypeOK, NEW r \in Run,
         Load(r) \/ CreateTmp(r) \/ WriteTmp(r) \/ FlushTmp(r) \/ Rename(r)
                 \/ SaveFails(r)
  PROVE  UNCHANGED Uncached!vars
<1>1. UNCHANGED <<tree, cfg, scope, paths, result, report>>
  BY DEF Load, CreateTmp, WriteTmp, FlushTmp, Rename, SaveFails
<1>2. Phase' = Phase
  <2>1. ASSUME NEW p, pc' = [pc EXCEPT ![r] = p], PhaseOf(p) = PhaseOf(pc[r])
        PROVE  Phase' = Phase
    <3>1. Phase' = [Phase EXCEPT ![r] = PhaseOf(pc[r])]
      BY <2>1, PhaseStep
    <3>. QED  BY <3>1 DEF Phase
  <2>2. /\ PhaseOf("load") = "walk" /\ PhaseOf("walk") = "walk"
        /\ \A p \in {"create", "write", "flush", "rename", "output"} :
             PhaseOf(p) = "output"
    BY DEF PhaseOf
  <2>. QED
    BY <2>1, <2>2 DEF Load, CreateTmp, WriteTmp, FlushTmp, Rename, SaveFails
<1>3. BytesRead' = BytesRead
  BY <1>1 DEF BytesRead
<1>. QED  BY <1>1, <1>2, <1>3 DEF Uncached!vars, tree

\* Every step of the cached engine is a step of the uncached one or a stutter.
LEMMA NextRefines ==
  RefineInv /\ [Next]_vars => [Uncached!Next]_(Uncached!vars)
<1> SUFFICES ASSUME RefineInv, [Next]_vars
             PROVE  Uncached!Next \/ UNCHANGED Uncached!vars
  OBVIOUS
<1>0. TypeOK /\ ResultSound /\ FailedInv
  BY DEF RefineInv, SoundInv
<1>1. ASSUME UNCHANGED local PROVE UNCHANGED <<Phase, BytesRead>>
  BY <1>1 DEF local, Phase, BytesRead
<1>2. ASSUME NEW f \in File, NEW b \in Bytes, EditFile(f, b)
      PROVE  Uncached!EditFile(f, b)
  BY <1>1, <1>2 DEF EditFile, Uncached!EditFile, local
<1>3. ASSUME NEW k \in Config, EditConfig(k) PROVE Uncached!EditConfig(k)
  BY <1>1, <1>3 DEF EditConfig, Uncached!EditConfig, local
<1>4. ASSUME NEW r \in Run, NEW s \in Scope, NEW c \in BOOLEAN, Start(r, s, c)
      PROVE  Uncached!Start(r, s)
  <2>1. PhaseOf(IF c THEN "load" ELSE "walk") = "walk"
    BY DEF PhaseOf
  <2>2. Uncached!Fresh(r, s, "walk")
    BY <1>0, <1>4, <2>1, FreshRefines DEF Start, tree
  <2>3. Phase[r] \in {"idle", "done"}
    BY <1>4 DEF Start, Phase, PhaseOf
  <2>. QED  BY <1>4, <2>2, <2>3 DEF Start, Uncached!Start
<1>5. ASSUME NEW r \in Run, Walk(r) PROVE Uncached!Walk(r)
  <2>1. Phase' = [Phase EXCEPT ![r] = "scan"]
    BY <1>0, <1>5, PhaseStep, PhaseOf("scan") = "scan" DEF Walk, PhaseOf
  <2>2. Phase[r] = "walk"
    BY <1>5 DEF Walk, Phase, PhaseOf
  <2>3. BytesRead' = BytesRead
    BY <1>5 DEF Walk, BytesRead
  <2>. QED  BY <1>5, <2>1, <2>2, <2>3 DEF Walk, Uncached!Walk, tree
<1>6. ASSUME NEW r \in Run, NEW f \in File, ScanFile(r, f)
      PROVE  Uncached!ReadFile(r, f)
  <2>1. disk[f] \in Bytes /\ disk[f] # NotRead
    BY <1>0, SpecialValues DEF TypeOK
  <2>2. /\ Analysed(cache[r], f, disk[f], cfg[r]) # NotRead
        /\ Analysed(cache[r], f, disk[f], cfg[r]).bytes = disk[f]
    BY <1>0, <2>1, AnalysedType, SpecialValues DEF TypeOK
  <2>3. BytesRead' = [BytesRead EXCEPT ![r][f] = disk[f]]
    BY <1>0, <1>6, <2>2 DEF ScanFile, BytesRead, TypeOK
  <2>4. Phase[r] = "scan" /\ Phase' = Phase
    BY <1>6 DEF ScanFile, Phase, PhaseOf
  <2>5. BytesRead[r][f] = NotRead
    BY <1>6 DEF ScanFile, BytesRead
  <2>. QED  BY <1>6, <2>3, <2>4, <2>5 DEF ScanFile, Uncached!ReadFile, tree
<1>7. ASSUME NEW r \in Run, Collect(r) PROVE Uncached!Analyse(r)
  <2>1. /\ BytesRead[r] \in [File -> Bytes \cup {NotRead}]
        /\ \A f \in File : BytesRead[r][f] = NotRead <=> result[r][f] = NotRead
    BY <1>0, BytesReadType
  <2>2. /\ paths[r] \in SUBSET File /\ cfg[r] \in Config
        /\ result[r] \in [File -> Outcome \cup {NotRead}]
    BY <1>0 DEF TypeOK
  <2>3. \A f \in paths[r] : /\ result[r][f] # NotRead
                            /\ SoundOutcome(f, cfg[r], result[r][f])
                            /\ FailedOutcome(f, result[r][f])
                            /\ BytesRead[r][f] = result[r][f].bytes
    BY <1>0, <1>7, <2>2 DEF Collect, ResultSound, FailedInv, BytesRead
  <2>4. ReportOfResults(paths[r], result[r], cfg[r]) =
          Uncached!Report(paths[r], BytesRead[r], cfg[r])
    BY <2>1, <2>2, <2>3, ReportsAgree DEF FailedOutcome
  <2>5. Phase' = [Phase EXCEPT ![r] = "output"]
    <3>1. /\ PhaseOf("create") = "output" /\ PhaseOf("output") = "output"
      BY DEF PhaseOf
    <3>2. PICK p \in {"create", "output"} : pc' = [pc EXCEPT ![r] = p]
      BY <1>7 DEF Collect
    <3>. QED  BY <1>0, <3>1, <3>2, PhaseStep
  <2>6. Phase[r] = "scan" /\ BytesRead' = BytesRead
    BY <1>7 DEF Collect, Phase, PhaseOf, BytesRead
  <2>7. \A f \in paths[r] : BytesRead[r][f] # NotRead
    BY <2>1, <2>2, <2>3
  <2>. QED
    BY <1>7, <2>4, <2>5, <2>6, <2>7 DEF Collect, Uncached!Analyse, tree
<1>8. ASSUME NEW r \in Run, Output(r) PROVE Uncached!Output(r)
  <2>1. Phase' = [Phase EXCEPT ![r] = "done"]
    BY <1>0, <1>8, PhaseStep, PhaseOf("done") = "done" DEF Output, PhaseOf
  <2>2. Phase[r] = "output" /\ BytesRead' = BytesRead
    BY <1>8 DEF Output, Phase, PhaseOf, BytesRead
  <2>. QED  BY <1>8, <2>1, <2>2 DEF Output, Uncached!Output, tree
<1>9. ASSUME NEW r \in Run, Abort(r) PROVE Uncached!Abort(r)
  <2>1. Uncached!Fresh(r, {}, "idle")
    BY <1>0, <1>9, FreshRefines, PhaseOf("idle") = "idle"
       DEF Abort, tree, PhaseOf
  <2>2. Phase[r] \notin {"idle", "done"}
    BY <1>9 DEF Abort, Phase, PhaseOf
  <2>. QED  BY <1>9, <2>1, <2>2 DEF Abort, Uncached!Abort
<1>10. ASSUME UNCHANGED vars PROVE UNCHANGED Uncached!vars
  BY <1>1, <1>10 DEF vars, tree, local, Uncached!vars
<1>11. ASSUME NEW r \in Run, RunStep(r)
       PROVE  Uncached!RunStep(r) \/ UNCHANGED Uncached!vars
  BY <1>0, <1>4, <1>5, <1>6, <1>7, <1>8, <1>9, <1>11, CacheStepStutters
     DEF RunStep, Uncached!RunStep
<1>. QED  BY <1>2, <1>3, <1>10, <1>11 DEF Next, Uncached!Next, Bytes, Uncached!Bytes

\* A run that uses the cache is indistinguishable from one that does not: every
\* behaviour of analyze_path_cached, its loads and saves hidden, is a behaviour
\* of analyze_path.
THEOREM CachedImplementsUncached == Spec => ImplementsUncached
BY InitFailed, NextFailed, InitRefines, NextRefines, PTL
   DEF Spec, ImplementsUncached, Uncached!Spec

-----------------------------------------------------------------------------
(* What an undisturbed save publishes.                                     *)

\* While a save is alone it is the only one, its file is v1.tmp, nobody else
\* has written to that file, and before the rename it holds the run's cache.
AloneSave(r) ==
  /\ Saving = {r}
  /\ at[r] = "tmp"
  /\ r \notin soiled
  /\ pc[r] = "rename" => tmp = cache[r]

\* Nobody holds a v1.json open that an undisturbed save has published.
TrustedTarget ==
  trusted => target \in Cache /\ \A q \in Saving : at[q] # "target"

AloneInv ==
  /\ soiled \subseteq Saving
  /\ \A r \in alone : AloneSave(r)
  /\ TrustedTarget

LEMMA InitAlone == Init => AloneInv
BY DEF Init, AloneInv, TrustedTarget

\* Only the steps of a save change who is saving.
LEMMA SavingStep ==
  ASSUME TypeOK, NEW r \in Run, NEW p, pc' = [pc EXCEPT ![r] = p]
  PROVE  Saving' = IF p \in {"write", "flush", "rename"} THEN Saving \cup {r}
                                                        ELSE Saving \ {r}
BY DEF Saving, TypeOK

LEMMA NextAlone == TypeOK /\ AloneInv /\ [Next]_vars => AloneInv'
<1> SUFFICES ASSUME TypeOK, AloneInv, [Next]_vars PROVE AloneInv'
  OBVIOUS
<1> USE DEF AloneInv
<1>1. ASSUME UNCHANGED <<files, Saving>>,
             \A r \in Saving : pc'[r] = pc[r] /\ cache'[r] = cache[r]
      PROVE  AloneInv'
  BY <1>1 DEF files, AloneSave, TrustedTarget
<1>2. ASSUME NEW f \in File, NEW b \in Bytes, EditFile(f, b) PROVE AloneInv'
  BY <1>1, <1>2 DEF EditFile, local, Saving
<1>3. ASSUME NEW k \in Config, EditConfig(k) PROVE AloneInv'
  BY <1>1, <1>3 DEF EditConfig, local, Saving
<1>4. ASSUME NEW r \in Run,
             \/ \E s \in Scope, c \in BOOLEAN : Start(r, s, c)
             \/ Load(r) \/ Walk(r) \/ Collect(r) \/ Output(r)
      PROVE  AloneInv'
  <2>1. PICK p \in {"load", "walk", "scan", "create", "output", "done"} :
          pc' = [pc EXCEPT ![r] = p]
    BY <1>4 DEF Start, Fresh, Load, Walk, Collect, Output
  <2>2. pc[r] \notin {"write", "flush", "rename"}
    BY <1>4 DEF Start, Load, Walk, Collect, Output
  <2>3. r \notin Saving /\ Saving' = Saving
    BY <2>1, <2>2, SavingStep DEF Saving
  <2>4. \A q \in Saving : pc'[q] = pc[q] /\ cache'[q] = cache[q]
    <3>1. PICK c : cache' = [cache EXCEPT ![r] = c]
      <4>1. cache = [cache EXCEPT ![r] = cache[r]]
        BY DEF TypeOK
      <4>. QED  BY <1>4, <4>1 DEF Start, Fresh, Load, Walk, Collect, Output
    <3>. QED  BY <2>1, <2>3, <3>1 DEF Saving, TypeOK
  <2>. QED
    BY <1>1, <1>4, <2>3, <2>4 DEF Start, Load, Walk, Collect, Output
<1>5. ASSUME NEW r \in Run, NEW f \in File, ScanFile(r, f) PROVE AloneInv'
  BY <1>1, <1>5 DEF ScanFile, Saving
<1>6. ASSUME NEW r \in Run, CreateTmp(r) PROVE AloneInv'
  <2>1. r \notin Saving /\ Saving' = Saving \cup {r}
    BY <1>6, SavingStep DEF CreateTmp, Saving
  <2>2. soiled' \subseteq Saving'
    BY <1>6, <2>1 DEF CreateTmp
  <2>3. ASSUME NEW q \in alone' PROVE AloneSave(q)'
    <3>1. q = r /\ Saving = {}
      BY <1>6, <2>3 DEF CreateTmp, AloneSave
    <3>2. at'[r] = "tmp" /\ pc'[r] = "write" /\ r \notin soiled'
      BY <1>6, <2>1 DEF CreateTmp, TypeOK
    <3>. QED  BY <2>1, <3>1, <3>2 DEF AloneSave
  <2>4. TrustedTarget'
    BY <1>6, <2>1 DEF CreateTmp, TrustedTarget, TypeOK
  <2>. QED  BY <2>2, <2>3, <2>4
<1>7. ASSUME NEW r \in Run, NEW x, Put(r, x), r \in Saving,
             NEW p \in {"flush", "rename"}, pc' = [pc EXCEPT ![r] = p],
             r \in alone /\ p = "rename" => x = cache[r],
             UNCHANGED <<at, alone, trusted, cache>>
      PROVE  AloneInv'
  <2>1. Saving' = Saving
    BY <1>7, SavingStep
  <2>2. soiled' \subseteq Saving'
    BY <1>7, <2>1 DEF Put
  <2>3. ASSUME NEW q \in alone' PROVE AloneSave(q)'
    <3>1. q = r /\ AloneSave(r)
      BY <1>7, <2>3 DEF AloneSave
    <3>. QED  BY <1>7, <2>1, <3>1 DEF AloneSave, Put, TypeOK
  <2>4. TrustedTarget'
    BY <1>7, <2>1 DEF TrustedTarget, Put
  <2>. QED  BY <2>2, <2>3, <2>4
<1>8. ASSUME NEW r \in Run, WriteTmp(r) PROVE AloneInv'
  BY <1>7, <1>8 DEF WriteTmp, Saving
<1>9. ASSUME NEW r \in Run, FlushTmp(r) PROVE AloneInv'
  <2>1. PICK x \in {cache[r]} \cup (IF r \in soiled THEN {Torn} ELSE {}) :
          Put(r, x)
    BY <1>9 DEF FlushTmp
  <2>2. r \in alone => x = cache[r]
    BY <2>1 DEF AloneSave
  <2>. QED  BY <1>7, <1>9, <2>1, <2>2 DEF FlushTmp, Saving
<1>10. ASSUME NEW r \in Run, EndSave(r), NEW p, pc' = [pc EXCEPT ![r] = p],
              p \notin {"write", "flush", "rename"}
       PROVE  /\ Saving' = Saving \ {r}
              /\ soiled' \subseteq Saving'
              /\ r \in Saving => alone' = {}
  <2>1. Saving' = Saving \ {r}
    BY <1>10, SavingStep
  <2>2. soiled' \subseteq Saving'
    BY <1>10, <2>1 DEF EndSave
  <2>3. ASSUME r \in Saving, NEW q \in alone PROVE q = r
    <3>1. Saving = {q}
      BY <2>3 DEF AloneSave
    <3>. QED  BY <2>3, <3>1
  <2>4. r \in Saving => alone' = {}
    BY <1>10, <2>3 DEF EndSave
  <2>. QED  BY <2>1, <2>2, <2>4
<1>11. ASSUME NEW r \in Run, Rename(r) PROVE AloneInv'
  <2>1. Saving' = Saving \ {r} /\ soiled' \subseteq Saving' /\ alone' = {}
    BY <1>10, <1>11 DEF Rename, Saving
  <2>2. ASSUME r \in alone
        PROVE  target' \in Cache /\ \A q \in Saving' : at'[q] # "target"
    <3>1. AloneSave(r)
      BY <2>2
    <3>2. Saving' = {} /\ target' = cache[r]
      BY <1>11, <2>1, <3>1 DEF AloneSave, Rename
    <3>. QED  BY <3>2 DEF TypeOK
  <2>3. TrustedTarget'
    BY <1>11, <2>2 DEF Rename, TrustedTarget
  <2>. QED  BY <2>1, <2>3
<1>12. ASSUME NEW r \in Run, NEW p, pc' = [pc EXCEPT ![r] = p], EndSave(r),
              p \notin {"write", "flush", "rename"},
              UNCHANGED <<target, tmp, trusted>>,
              at' = [at EXCEPT ![r] = "closed"],
              \A q \in Run \ {r} : cache'[q] = cache[q]
       PROVE  AloneInv'
  <2>1. Saving' = Saving \ {r} /\ soiled' \subseteq Saving'
    BY <1>10, <1>12
  <2>2. ASSUME NEW q \in alone' PROVE AloneSave(q)'
    <3>1. q # r /\ AloneSave(q)
      BY <1>12, <2>2 DEF EndSave
    <3>. QED  BY <1>12, <2>1, <3>1 DEF AloneSave, EndSave, TypeOK
  <2>3. TrustedTarget'
    BY <1>12, <2>1 DEF TrustedTarget, TypeOK
  <2>. QED  BY <2>1, <2>2, <2>3
<1>13. ASSUME NEW r \in Run, SaveFails(r) PROVE AloneInv'
  BY <1>12, <1>13 DEF SaveFails
<1>14. ASSUME NEW r \in Run, Abort(r) PROVE AloneInv'
  BY <1>12, <1>14 DEF Abort, Fresh, TypeOK
<1>15. CASE UNCHANGED vars
  BY <1>1, <1>15 DEF vars, local, Saving
<1>. QED  BY <1>2, <1>3, <1>4, <1>5, <1>6, <1>8, <1>9, <1>11, <1>13, <1>14,
             <1>15 DEF Next, RunStep

\* Once published by a save that met no other, v1.json stays a whole cache:
\* later kills and failures of saves leave it in place.
THEOREM WholeWhilePublishedAlone == Spec => []WholeIfPublishedAlone
<1>1. TypeOK /\ AloneInv => WholeIfPublishedAlone
  BY SpecialValues DEF AloneInv, TrustedTarget, WholeIfPublishedAlone
<1>. QED
  BY <1>1, InitType, NextType, InitAlone, NextAlone, PTL DEF Spec

\* While a run scans, its hits are hits in the cache it loaded; before, it has
\* no results.
ScanInv ==
  \A r \in Run :
    /\ pc[r] \in {"load", "walk"} => \A f \in File : result[r][f] = NotRead
    /\ pc[r] = "scan" =>
         \A f \in File :
           result[r][f] # NotRead /\ result[r][f].kind = "hit" =>
             IsHit(cache[r], f, result[r][f].bytes, cfg[r])

\* The cache c is what a run that scanned fs with these results publishes.
Complete(c, fs, res, k) ==
  \A f \in File :
    IF f \in fs
      THEN f \in ScannedOf(fs, res) =>
             c[f] = CacheEntry(res[f].bytes, k, FileFindings(f, res[f].bytes, k))
      ELSE c[f] = NoEntry

SavedInv ==
  \A r \in Run :
    pc[r] \in {"create", "write", "flush", "rename"} =>
      Complete(cache[r], paths[r], result[r], cfg[r])

PublishInv == SoundInv /\ AloneInv /\ ScanInv /\ SavedInv

\* A hit leaves its entry as the analysis of its file would have made it.
LEMMA HitEntry ==
  ASSUME NEW c \in Cache, SoundCache(c), NEW f \in File, NEW b \in Content,
         NEW k \in Config, IsHit(c, f, b, k)
  PROVE  c[f] = CacheEntry(b, k, FileFindings(f, b, k))
<1>1. PICK x \in Content, j \in Config :
        c[f] = CacheEntry(x, j, FileFindings(f, x, j))
  BY DEF SoundCache, SoundEntries, IsHit
<1>. QED  BY <1>1, NoCollisions DEF IsHit, CacheEntry

\* Inserting the misses of a finished pass and pruning complete the cache.
LEMMA UpdateComplete ==
  ASSUME NEW c \in Cache, SoundCache(c), NEW fs \in SUBSET File,
         NEW k \in Config, NEW res \in [File -> Outcome \cup {NotRead}],
         \A f \in fs : /\ res[f] # NotRead
                       /\ SoundOutcome(f, k, res[f])
                       /\ res[f].kind = "hit" => IsHit(c, f, res[f].bytes, k)
  PROVE  Complete(Prune(Insert(c, fs, res, k), fs), fs, res, k)
<1> SUFFICES ASSUME NEW f \in File, f \in ScannedOf(fs, res)
             PROVE  Insert(c, fs, res, k)[f] =
                      CacheEntry(res[f].bytes, k, FileFindings(f, res[f].bytes, k))
  BY DEF Complete, Prune, ScannedOf
<1>1. f \in fs /\ res[f].kind \in {"hit", "miss"} /\ res[f].bytes \in Content
  BY DEF ScannedOf, Outcome
<1>2. CASE res[f].kind = "miss"
  BY <1>1, <1>2 DEF Insert, SoundOutcome
<1>3. CASE res[f].kind = "hit"
  BY <1>1, <1>3, HitEntry DEF Insert
<1>. QED  BY <1>1, <1>2, <1>3

LEMMA InitPublish == Init => PublishInv
BY InitSound, InitAlone DEF Init, PublishInv, ScanInv, SavedInv

LEMMA NextPublish == PublishInv /\ [Next]_vars => PublishInv'
<1> SUFFICES ASSUME PublishInv, [Next]_vars PROVE ScanInv' /\ SavedInv'
  BY NextSound, NextAlone DEF PublishInv, SoundInv
<1>0. TypeOK /\ CacheSound /\ ResultSound /\ ScanInv /\ SavedInv
  BY DEF PublishInv, SoundInv
<1>1. ASSUME UNCHANGED <<pc, cfg, paths, cache, result>>
      PROVE  ScanInv' /\ SavedInv'
  BY <1>0, <1>1 DEF ScanInv, SavedInv
<1>2. ASSUME NEW r \in Run, NEW p, pc' = [pc EXCEPT ![r] = p],
             UNCHANGED <<cfg, paths, cache, result>>,
             p \notin {"load", "walk", "scan", "create"},
             p \in {"write", "flush", "rename"} =>
               pc[r] \in {"create", "write", "flush", "rename"}
      PROVE  ScanInv' /\ SavedInv'
  BY <1>0, <1>2 DEF ScanInv, SavedInv, TypeOK
<1>3. ASSUME NEW r \in Run, NEW s, NEW c, NEW p, Fresh(r, s, c, p),
             p \in {"idle", "load", "walk"},
             \A q \in Run \ {r} : cfg'[q] = cfg[q]
      PROVE  ScanInv' /\ SavedInv'
  <2>1. \A q \in Run \ {r} : /\ pc'[q] = pc[q] /\ paths'[q] = paths[q]
                             /\ cache'[q] = cache[q] /\ result'[q] = result[q]
    BY <1>0, <1>3 DEF Fresh, TypeOK
  <2>2. pc'[r] = p /\ \A f \in File : result'[r][f] = NotRead
    BY <1>0, <1>3 DEF Fresh, TypeOK
  <2>3. ScanInv'
    BY <1>0, <1>3, <2>1, <2>2 DEF ScanInv
  <2>4. SavedInv'
    BY <1>0, <1>3, <2>1, <2>2 DEF SavedInv
  <2>. QED  BY <2>3, <2>4
<1>4. ASSUME NEW f \in File, NEW b \in Bytes, EditFile(f, b)
      PROVE  ScanInv' /\ SavedInv'
  BY <1>1, <1>4 DEF EditFile, local
<1>5. ASSUME NEW k \in Config, EditConfig(k) PROVE ScanInv' /\ SavedInv'
  BY <1>1, <1>5 DEF EditConfig, local
<1>6. ASSUME NEW r \in Run, NEW s \in Scope, NEW c \in BOOLEAN, Start(r, s, c)
      PROVE  ScanInv' /\ SavedInv'
  <2>1. \A q \in Run \ {r} : cfg'[q] = cfg[q]
    BY <1>0, <1>6 DEF Start, TypeOK
  <2>. QED  BY <1>3, <1>6, <2>1 DEF Start
<1>7. ASSUME NEW r \in Run, Load(r) PROVE ScanInv' /\ SavedInv'
  <2>1. ScanInv'
    BY <1>0, <1>7 DEF Load, ScanInv, TypeOK
  <2>2. SavedInv'
    BY <1>0, <1>7 DEF Load, SavedInv, TypeOK
  <2>. QED  BY <2>1, <2>2
<1>8. ASSUME NEW r \in Run, Walk(r) PROVE ScanInv' /\ SavedInv'
  <2>1. ScanInv'
    BY <1>0, <1>8 DEF Walk, ScanInv, TypeOK
  <2>2. SavedInv'
    BY <1>0, <1>8 DEF Walk, SavedInv, TypeOK
  <2>. QED  BY <2>1, <2>2
<1>9. ASSUME NEW r \in Run, NEW f \in File, ScanFile(r, f)
      PROVE  ScanInv' /\ SavedInv'
  <2>1. /\ Analysed(cache[r], f, disk[f], cfg[r]).bytes = disk[f]
        /\ Analysed(cache[r], f, disk[f], cfg[r]).kind = "hit" =>
             IsHit(cache[r], f, disk[f], cfg[r])
    BY <1>0, AnalysedType DEF Analysed, TypeOK
  <2>2. ScanInv'
    BY <1>0, <1>9, <2>1 DEF ScanFile, ScanInv, TypeOK
  <2>3. SavedInv'
    BY <1>0, <1>9 DEF ScanFile, SavedInv, TypeOK
  <2>. QED  BY <2>2, <2>3
<1>10. ASSUME NEW r \in Run, Collect(r) PROVE ScanInv' /\ SavedInv'
  <2>1. ScanInv'
    BY <1>0, <1>10 DEF Collect, ScanInv, TypeOK
  <2>2. ASSUME caching[r]
        PROVE  Complete(cache'[r], paths[r], result[r], cfg[r])
    <3>1. \A f \in paths[r] :
            /\ result[r][f] # NotRead
            /\ SoundOutcome(f, cfg[r], result[r][f])
            /\ result[r][f].kind = "hit" =>
                 IsHit(cache[r], f, result[r][f].bytes, cfg[r])
      BY <1>0, <1>10 DEF Collect, ResultSound, ScanInv, TypeOK
    <3>2. /\ cache[r] \in Cache /\ SoundCache(cache[r]) /\ cfg[r] \in Config
          /\ paths[r] \in SUBSET File
          /\ result[r] \in [File -> Outcome \cup {NotRead}]
      BY <1>0 DEF CacheSound, TypeOK
    <3>3. cache'[r] =
            Prune(Insert(cache[r], paths[r], result[r], cfg[r]), paths[r])
      BY <1>0, <1>10, <2>2 DEF Collect, TypeOK
    <3>. QED  BY <3>1, <3>2, <3>3, UpdateComplete
  <2>3. SavedInv'
    BY <1>0, <1>10, <2>2 DEF Collect, SavedInv, TypeOK
  <2>. QED  BY <2>1, <2>3
<1>11. ASSUME NEW r \in Run,
              CreateTmp(r) \/ WriteTmp(r) \/ FlushTmp(r) \/ Rename(r)
                \/ SaveFails(r) \/ Output(r)
       PROVE  ScanInv' /\ SavedInv'
  BY <1>2, <1>11 DEF CreateTmp, WriteTmp, FlushTmp, Rename, SaveFails, Output
<1>12. ASSUME NEW r \in Run, Abort(r) PROVE ScanInv' /\ SavedInv'
  BY <1>3, <1>12 DEF Abort
<1>13. CASE UNCHANGED vars
  BY <1>1, <1>13 DEF vars, local
<1>. QED  BY <1>4, <1>5, <1>6, <1>7, <1>8, <1>9, <1>10, <1>11, <1>12, <1>13
          DEF Next, RunStep

\* An undisturbed save publishes an entry for every file that its run scanned,
\* made from the bytes and the configuration of that run, and no other entry.
THEOREM UndisturbedSavesPublish == Spec => PublishesWhatItScanned
<1>1. ASSUME PublishInv, NEW r \in Run, Rename(r), r \in alone
      PROVE  Complete(target', paths[r], result[r], cfg[r])
  <2>1. tmp = cache[r] /\ pc[r] = "rename" /\ target' = tmp
    BY <1>1 DEF PublishInv, AloneInv, AloneSave, Rename
  <2>. QED  BY <1>1, <2>1 DEF PublishInv, SavedInv
<1>2. PublishInv /\ [Next]_vars =>
        [\A r \in Run :
           Rename(r) /\ r \in alone =>
             \A f \in File :
               IF f \in paths[r]
                 THEN f \in ScannedOf(paths[r], result[r]) =>
                        target'[f] = CacheEntry(result[r][f].bytes, cfg[r],
                                       FileFindings(f, result[r][f].bytes, cfg[r]))
                 ELSE target'[f] = NoEntry]_vars
  BY <1>1 DEF Complete
<1>. QED
  BY <1>2, InitPublish, NextPublish, PTL DEF Spec, PublishesWhatItScanned

-----------------------------------------------------------------------------
(* The cache spares what has been analysed.                                *)

\* A run whose pass is over has looked at every file; one that is over has kept
\* a complete cache, whether or not it was saved; and what a run has made of a
\* file follows from the cache it loaded.
ReuseInv ==
  \A r \in Run :
    /\ pc[r] \in {"create", "write", "flush", "rename", "output", "done"} =>
         \A f \in paths[r] : result[r][f] # NotRead
    /\ pc[r] \in {"output", "done"} /\ caching[r] =>
         Complete(cache[r], paths[r], result[r], cfg[r])
    /\ pc[r] = "scan" =>
         \A f \in File :
           result[r][f] # NotRead =>
             result[r][f] = Analysed(cache[r], f, result[r][f].bytes, cfg[r])

LEMMA InitReuse == Init => PublishInv /\ ReuseInv
BY InitPublish DEF Init, ReuseInv

LEMMA NextReuse == PublishInv /\ ReuseInv /\ [Next]_vars => PublishInv' /\ ReuseInv'
<1> SUFFICES ASSUME PublishInv, ReuseInv, [Next]_vars PROVE ReuseInv'
  BY NextPublish
<1>0. TypeOK /\ ScanInv /\ SavedInv
  BY DEF PublishInv, SoundInv
<1>1. ASSUME UNCHANGED <<pc, cfg, paths, caching, cache, result>>
      PROVE  ReuseInv'
  BY <1>1 DEF ReuseInv
<1>2. ASSUME NEW r \in Run, NEW p, pc' = [pc EXCEPT ![r] = p],
             UNCHANGED <<cfg, paths, caching, cache, result>>,
             p \in {"write", "flush", "rename", "output", "done"},
             pc[r] \in {"create", "write", "flush", "rename", "output"}
      PROVE  ReuseInv'
  BY <1>0, <1>2 DEF ReuseInv, SavedInv, TypeOK
<1>3. ASSUME NEW r \in Run, NEW s, NEW c, NEW p, Fresh(r, s, c, p),
             p \in {"idle", "load", "walk"},
             \A q \in Run \ {r} : cfg'[q] = cfg[q]
      PROVE  ReuseInv'
  <2>1. \A q \in Run \ {r} :
          /\ pc'[q] = pc[q] /\ paths'[q] = paths[q] /\ caching'[q] = caching[q]
          /\ cache'[q] = cache[q] /\ result'[q] = result[q]
    BY <1>0, <1>3 DEF Fresh, TypeOK
  <2>2. pc'[r] = p
    BY <1>0, <1>3 DEF Fresh, TypeOK
  <2>. QED  BY <1>3, <2>1, <2>2 DEF ReuseInv
<1>4. ASSUME NEW f \in File, NEW b \in Bytes, EditFile(f, b) PROVE ReuseInv'
  BY <1>1, <1>4 DEF EditFile, local
<1>5. ASSUME NEW k \in Config, EditConfig(k) PROVE ReuseInv'
  BY <1>1, <1>5 DEF EditConfig, local
<1>6. ASSUME NEW r \in Run, NEW s \in Scope, NEW c \in BOOLEAN, Start(r, s, c)
      PROVE  ReuseInv'
  <2>1. \A q \in Run \ {r} : cfg'[q] = cfg[q]
    BY <1>0, <1>6 DEF Start, TypeOK
  <2>. QED  BY <1>3, <1>6, <2>1 DEF Start
<1>7. ASSUME NEW r \in Run, Load(r) PROVE ReuseInv'
  BY <1>0, <1>7 DEF Load, ReuseInv, TypeOK
<1>8. ASSUME NEW r \in Run, Walk(r) PROVE ReuseInv'
  BY <1>0, <1>8 DEF Walk, ReuseInv, ScanInv, TypeOK
<1>9. ASSUME NEW r \in Run, NEW f \in File, ScanFile(r, f) PROVE ReuseInv'
  <2>1. PICK o : o = Analysed(cache[r], f, disk[f], cfg[r])
    OBVIOUS
  <2>2. o.bytes = disk[f]
    BY <1>0, <2>1, AnalysedType DEF TypeOK
  <2>3. result' = [result EXCEPT ![r][f] = o]
        /\ UNCHANGED <<pc, cfg, paths, caching, cache>>
    BY <1>9, <2>1 DEF ScanFile
  <2>4. \A q \in Run, g \in File :
          result'[q][g] = IF q = r /\ g = f THEN o ELSE result[q][g]
    BY <1>0, <2>3 DEF TypeOK
  <2>. QED  BY <1>9, <2>1, <2>2, <2>3, <2>4 DEF ReuseInv, ScanFile
<1>10. ASSUME NEW r \in Run, Collect(r) PROVE ReuseInv'
  BY <1>0, <1>10 DEF Collect, ReuseInv, TypeOK
<1>11. ASSUME NEW r \in Run,
              CreateTmp(r) \/ WriteTmp(r) \/ FlushTmp(r) \/ Rename(r)
                \/ SaveFails(r) \/ Output(r)
       PROVE  ReuseInv'
  BY <1>2, <1>11 DEF CreateTmp, WriteTmp, FlushTmp, Rename, SaveFails, Output
<1>12. ASSUME NEW r \in Run, Abort(r) PROVE ReuseInv'
  BY <1>3, <1>12 DEF Abort
<1>13. CASE UNCHANGED vars
  BY <1>1, <1>13 DEF vars, local
<1>. QED  BY <1>4, <1>5, <1>6, <1>7, <1>8, <1>9, <1>10, <1>11, <1>12, <1>13
          DEF Next, RunStep

\* An entry made of these bytes under this configuration is a hit for them.
LEMMA EntryHits ==
  ASSUME NEW c, NEW f \in File, NEW b \in Content, NEW k \in Config, Parses(f, b),
         c[f] = CacheEntry(b, k, FileFindings(f, b, k))
  PROVE  Analysed(c, f, b, k).kind = "hit"
<1>1. CacheEntry(b, k, FileFindings(f, b, k)) \in Entry
  BY CacheEntryType DEF Findings
<1>2. IsHit(c, f, b, k)
  BY <1>1, SpecialValues DEF IsHit, CacheEntry
<1>. QED  BY <1>2 DEF Analysed

\* A run that loaded what an earlier one left, under the same configuration,
\* analyses again no file whose bytes that one had scanned (engine.rs, full
\* hits), however many runs there are and whatever happened to their saves.
THEOREM UnchangedAreHit == Spec => []UnchangedFilesHit
<1>1. PublishInv /\ ReuseInv => UnchangedFilesHit
  <2> SUFFICES ASSUME PublishInv, ReuseInv, NEW q \in Run, NEW r \in Run,
                      pc[q] = "done", caching[q], pc[r] = "scan",
                      cache[r] = cache[q], cfg[r] = cfg[q],
                      NEW f \in paths[r] \cap ScannedOf(paths[q], result[q]),
                      result[r][f] # NotRead, result[r][f].bytes = result[q][f].bytes
               PROVE  result[r][f].kind = "hit"
    BY DEF UnchangedFilesHit
  <2>0. TypeOK /\ ResultSound
    BY DEF PublishInv, SoundInv
  <2> DEFINE b == result[q][f].bytes
  <2>1. f \in File /\ f \in paths[q] /\ result[q][f].kind \in {"hit", "miss"}
    BY <2>0 DEF ScannedOf, TypeOK
  <2>2. f \in DOMAIN result[q] /\ result[q][f] \in Outcome \cup {NotRead}
    BY <2>0, <2>1 DEF TypeOK
  <2>3. result[q][f] # NotRead
    BY <2>1 DEF ReuseInv
  <2>4. b \in Content /\ Parses(f, b)
    BY <2>0, <2>1, <2>2, <2>3 DEF Outcome, ResultSound, SoundOutcome
  <2>5. cache[r][f] = CacheEntry(b, cfg[r], FileFindings(f, b, cfg[r]))
    BY <2>1 DEF ReuseInv, Complete
  <2>6. result[r][f] = Analysed(cache[r], f, b, cfg[r])
    BY <2>1 DEF ReuseInv
  <2>. QED  BY <2>0, <2>1, <2>4, <2>5, <2>6, EntryHits DEF TypeOK
<1>. QED  BY <1>1, InitReuse, NextReuse, PTL DEF Spec
-----------------------------------------------------------------------------
(* watch, which repeats the engine's run.                                  *)

\* The loop's state stays of its type, and so do the counters of edits.
THEOREM WatchTypeCorrect == WatchSpec => []WatchTypeOK
<1>1. WatchInit => WatchTypeOK
  <2> SUFFICES ASSUME WatchInit PROVE WatchTypeOK
    OBVIOUS
  <2>1. 0 \in 0 .. MaxSaves /\ 0 \in 0 .. 0
    BY WatchConstants
  <2>2. since \in 0 .. Debounce \cup {None}
    BY DEF WatchInit
  <2> QED BY <2>1, <2>2 DEF WatchInit, WatchTypeOK
<1>2. WatchTypeOK /\ [WatchNext]_watchVars => WatchTypeOK'
  <2> SUFFICES ASSUME WatchTypeOK, [WatchNext]_watchVars PROVE WatchTypeOK'
    OBVIOUS
  <2> USE WatchConstants DEF WatchTypeOK
  <2>1. CASE Edit
    BY <2>1 DEF Edit
  <2>2. CASE Read
    BY <2>2 DEF Read
  <2>3. CASE Save
    BY <2>3 DEF Save
  <2>4. CASE Install
    BY <2>4 DEF Install
  <2>5. CASE Drain
    <3>1. since' \in 0 .. Debounce \cup {None}
      <4>1. 0 \in 0 .. Debounce
        OBVIOUS
      <4> QED BY <2>5, <4>1 DEF Drain
    <3> QED BY <2>5, <3>1 DEF Drain
  <2>6. CASE Check
    BY <2>6 DEF Check, Followed
  <2>7. CASE Sleep
    BY <2>7 DEF Sleep
  <2>8. CASE UNCHANGED watchVars
    BY <2>8 DEF watchVars
  <2> QED BY <2>1, <2>2, <2>3, <2>4, <2>5, <2>6, <2>7, <2>8 DEF WatchNext, Loop
<1> QED BY <1>1, <1>2, PTL DEF WatchSpec

\* Whatever the platform reports and wherever the cache is, no edit is lost
\* (debounce_loop): an edit that no run has read is on its way to one.
THEOREM NoEditLost == WatchSpec => []EditsPending
<1>1. WatchInit => EditsPending
  BY DEF WatchInit, EditsPending
<1>2. WatchTypeOK /\ EditsPending /\ [WatchNext]_watchVars => EditsPending'
  <2> SUFFICES ASSUME WatchTypeOK, EditsPending, [WatchNext]_watchVars,
                      announced' > seen'
               PROVE  (pending \/ since # None \/ place = "read")'
    BY DEF EditsPending
  <2>1. CASE Edit
    <3>1. CASE installed
      BY <2>1, <3>1 DEF Edit
    <3>2. CASE ~installed
      BY <2>1, <3>2 DEF Edit, EditsPending
    <3> QED BY <3>1, <3>2
  <2>2. CASE Read  \* What has been announced has been made, and is read.
    <3>1. announced \in Nat /\ version \in Nat /\ announced <= version
      BY WatchConstants DEF WatchTypeOK
    <3> QED BY <2>2, <3>1 DEF Read
  <2>3. CASE Save
    BY <2>3 DEF Save, EditsPending
  <2>4. CASE Install
    BY <2>4 DEF Install, EditsPending
  <2>5. CASE Drain
    BY <2>5, WatchConstants DEF Drain, EditsPending
  <2>6. CASE Check
    BY <2>6 DEF Check, EditsPending
  <2>7. CASE Sleep
    BY <2>7, WatchConstants DEF Sleep, EditsPending, WatchTypeOK
  <2>8. CASE UNCHANGED watchVars
    BY <2>8 DEF watchVars, EditsPending
  <2> QED BY <2>1, <2>2, <2>3, <2>4, <2>5, <2>6, <2>7, <2>8 DEF WatchNext, Loop
<1> QED BY <1>1, <1>2, WatchTypeCorrect, PTL DEF WatchSpec

\* The events that a run causes itself are not watched: the cache is elsewhere,
\* and the platform does not report files being opened.
OwnUnwatched == ~(UseCache /\ CacheWatched) /\ ~OpensReported

\* Events are then of edits only: what is in the channel is of an edit that no
\* run has followed, and so is what the deadline runs for.
EventsOfEdits ==
  /\ pending => edited = "channel"
  /\ since # None => edited # "none"

\* If its own events are not watched, a run that the loop starts follows an edit
\* that no run has followed (debounce_loop): one run per burst.
THEOREM RunsFollowEdits ==
  ASSUME OwnUnwatched
  PROVE  WatchSpec => OneScanPerBurst
<1>1. WatchInit => EventsOfEdits
  BY DEF WatchInit, EventsOfEdits
<1>2. WatchTypeOK /\ EventsOfEdits /\ [WatchNext]_watchVars => EventsOfEdits'
  <2> SUFFICES ASSUME WatchTypeOK, EventsOfEdits, [WatchNext]_watchVars
               PROVE  EventsOfEdits'
    OBVIOUS
  <2> USE DEF EventsOfEdits
  <2>0. pending \in BOOLEAN /\ installed \in BOOLEAN
    BY DEF WatchTypeOK
  <2>1. CASE Edit
    BY <2>1 DEF Edit
  <2>2. CASE Read
    BY <2>0, <2>2, WatchConstants, OwnUnwatched DEF Read, OwnUnwatched
  <2>3. CASE Save
    BY <2>0, <2>3, WatchConstants, OwnUnwatched DEF Save, OwnUnwatched
  <2>4. CASE Install
    BY <2>4 DEF Install
  <2>5. CASE Drain
    BY <2>5 DEF Drain
  <2>6. CASE Check
    BY <2>6 DEF Check, Followed
  <2>7. CASE Sleep
    BY <2>7, WatchConstants DEF Sleep
  <2>8. CASE UNCHANGED watchVars
    BY <2>8 DEF watchVars
  <2> QED BY <2>1, <2>2, <2>3, <2>4, <2>5, <2>6, <2>7, <2>8 DEF WatchNext, Loop
<1>3. EventsOfEdits /\ [WatchNext]_watchVars
        => (place = "check" /\ place' = "read" => edited # "none")
  <2> SUFFICES ASSUME EventsOfEdits, [WatchNext]_watchVars, place = "check", place' = "read"
               PROVE  edited # "none"
    OBVIOUS
  <2>1. Check
    BY DEF WatchNext, Loop, Edit, Read, Save, Install, Drain, Sleep, watchVars
  <2>2. since = Debounce
    BY <2>1 DEF Check
  <2> QED BY <2>2, WatchConstants DEF EventsOfEdits
<1>4. EventsOfEdits /\ EventsOfEdits' /\ [WatchNext]_watchVars
        => [place = "check" /\ place' = "read" => edited # "none"]_watchVars
  BY <1>3
<1> QED BY <1>1, <1>2, <1>4, WatchTypeCorrect, PTL DEF WatchSpec, OneScanPerBurst
=============================================================================
