---------------------------- MODULE CachedEngine ----------------------------
(***************************************************************************)
(* `zuit analyze` with the incremental cache: zuit-core's engine.rs and    *)
(* cache.rs as zuit-cli's analyze.rs drives them.                          *)
(*                                                                         *)
(* Several processes may run zuit on one project at once.  They share the  *)
(* source tree, zuit.toml and the cache directory <project>/.zuit-cache,   *)
(* which holds v1.json (the cache) and v1.tmp, the one temporary name that *)
(* every save writes and then renames to v1.json.  Nothing locks it.  A    *)
(* process that has opened v1.tmp goes on writing to the file it opened,   *)
(* whatever name that file has by now.                                     *)
(***************************************************************************)
EXTENDS Naturals

CONSTANTS
  File, Content, Config, Run, Scope,          \* as in UncachedEngine
  Absent, NotRead, NoReport,
  Parses(_, _), FileFindings(_, _, _), ReportOf(_, _, _), Included(_),
  HashBytes(_),   \* BLAKE3 of a file's bytes
  HashConfig(_),  \* BLAKE3 of the canonical JSON of a Config
  NoEntry,        \* the cache has no entry for the path
  Torn,           \* what a cache file holds that is not a whole JSON document
  NoFile,         \* no such directory entry
  MaxEdits,       \* bound: how often the user edits the tree or zuit.toml
  MaxStarts       \* bound: how many invocations of zuit there are

VARIABLES
  disk, config,       \* the source tree and zuit.toml
  target, tmp,        \* v1.json and v1.tmp: a whole cache, Torn or NoFile
  at,                 \* the name now borne by the file a run opened as v1.tmp
  soiled,             \* the runs whose v1.tmp another run has truncated or
                      \* written since they opened it
  alone, trusted,     \* history: runs whose save has met no other so far;
                      \* whether v1.json was published by such a save
  pc, cfg, scope, paths,
  caching,            \* the run uses the cache (history.cache, --no-cache)
  cache,              \* the run's in-memory AnalysisCache
  result,             \* what the parallel pass made of each file
  report,
  edits, starts       \* counters for the bounds

tree  == <<disk, config, edits>>
files == <<target, tmp, at, soiled, alone, trusted>>
local == <<pc, cfg, scope, paths, caching, cache, result, report, starts>>
vars  == <<tree, files, local>>

Bytes == Content \cup {Absent}

-----------------------------------------------------------------------------
(* AnalysisCache: a map from path to entry.  An entry's parse_failed is    *)
(* always false and is left out.                                           *)

Findings == {FileFindings(f, b, k) : f \in File, b \in Content, k \in Config}

Entry == [ content_hash : {HashBytes(b) : b \in Content},
           config_hash  : {HashConfig(k) : k \in Config},
           findings     : Findings ]

Cache == [File -> Entry \cup {NoEntry}]

EmptyCache == [f \in File |-> NoEntry]

CacheEntry(b, k, findings) ==
  [ content_hash |-> HashBytes(b),
    config_hash  |-> HashConfig(k),
    findings     |-> findings ]

\* Mutant: the version-1 contract, content hash only.
IsHitContentOnly(c, f, b, k) ==
  c[f] # NoEntry /\ c[f].content_hash = HashBytes(b)

\* A full hit: the path is known and both hashes match.
IsHit(c, f, b, k) ==
  /\ c[f] # NoEntry
  /\ c[f].content_hash = HashBytes(b)
  /\ c[f].config_hash = HashConfig(k)

\* JsonCacheStore::load, whose error the caller replaces by an empty cache.
Loaded == IF target \in {NoFile, Torn} THEN EmptyCache ELSE target

\* What the parallel pass can make of a file.
Outcome ==
       [kind : {"failed"}, bytes : Bytes]
  \cup [kind : {"hit", "miss"}, bytes : Content, findings : Findings]

\* One file of the parallel pass.  The bytes are read once; a hit still parses.
Analysed(c, f, b, k) ==
  IF b \notin Content \/ ~Parses(f, b) THEN
    [kind |-> "failed", bytes |-> b]
  ELSE IF IsHit(c, f, b, k) THEN
    [kind |-> "hit", bytes |-> b, findings |-> c[f].findings]
  ELSE
    [kind |-> "miss", bytes |-> b, findings |-> FileFindings(f, b, k)]

\* Mutants: an entry that is there keeps its findings, or stays as it is.
InsertKeepsFindings(c, fs, res, k) ==
  [f \in File |->
     IF f \in fs /\ res[f].kind = "miss"
       THEN CacheEntry(res[f].bytes, k,
              IF c[f] = NoEntry THEN res[f].findings ELSE c[f].findings)
       ELSE c[f]]

InsertOnlyNew(c, fs, res, k) ==
  [f \in File |->
     IF f \in fs /\ res[f].kind = "miss" /\ c[f] = NoEntry
       THEN CacheEntry(res[f].bytes, k, res[f].findings)
       ELSE c[f]]

\* The sequential pass after it: insert the misses ...
Insert(c, fs, res, k) ==
  [f \in File |->
     IF f \in fs /\ res[f].kind = "miss"
       THEN CacheEntry(res[f].bytes, k, res[f].findings)
       ELSE c[f]]

\* Mutant: entries of paths that are gone stay.
PruneNothing(c, live) == c

\* ... and drop every path that this walk did not return.
Prune(c, live) == [f \in File |-> IF f \in live THEN c[f] ELSE NoEntry]

ScannedOf(fs, res) == {f \in fs : res[f].kind \in {"hit", "miss"}}

\* Project analyzers, finalize_findings and scores, from the collected results.
ReportOfResults(fs, res, k) ==
  LET scanned == ScannedOf(fs, res) IN
  [ body     |-> ReportOf([f \in scanned |-> res[f].findings],
                          [f \in scanned |-> res[f].bytes], k),
    scanned  |-> scanned,
    failures |-> fs \ scanned ]

-----------------------------------------------------------------------------

\* BLAKE3 collisions are left out.  The canonical JSON holds every field of
\* Config, its maps in sorted order, so equal JSON means equal configurations.
ASSUME NoCollisions ==
  /\ \A b, c \in Content : HashBytes(b) = HashBytes(c) => b = c
  /\ \A j, k \in Config : HashConfig(j) = HashConfig(k) => j = k

ASSUME SpecialValues ==
  /\ Absent \notin Content
  /\ NotRead \notin Bytes
  /\ NoEntry \notin Entry
  /\ NotRead \notin Outcome
  /\ NoFile \notin Cache /\ Torn \notin Cache /\ NoFile # Torn

ASSUME ScopeAssumption == Scope \subseteq SUBSET File

ASSUME BoundsAssumption == MaxEdits \in Nat /\ MaxStarts \in Nat

-----------------------------------------------------------------------------

Init ==
  /\ disk \in [File -> Bytes]
  /\ config \in Config
  /\ edits = 0
  /\ target = NoFile
  /\ tmp = NoFile
  /\ at = [r \in Run |-> "closed"]
  /\ soiled = {}
  /\ alone = {}
  /\ trusted = FALSE
  /\ pc = [r \in Run |-> "idle"]
  /\ cfg = [r \in Run |-> config]
  /\ scope = [r \in Run |-> {}]
  /\ paths = [r \in Run |-> {}]
  /\ caching = [r \in Run |-> FALSE]
  /\ cache = [r \in Run |-> EmptyCache]
  /\ result = [r \in Run |-> [f \in File |-> NotRead]]
  /\ report = [r \in Run |-> NoReport]
  /\ starts = 0

\* The user writes or deletes a source file, or edits zuit.toml.
EditFile(f, b) ==
  /\ edits < MaxEdits
  /\ edits' = edits + 1
  /\ disk' = [disk EXCEPT ![f] = b]
  /\ UNCHANGED <<config, files, local>>

EditConfig(k) ==
  /\ edits < MaxEdits
  /\ edits' = edits + 1
  /\ config' = k
  /\ UNCHANGED <<disk, files, local>>

\* A new process has an empty memory; a process that is gone has none.
Fresh(r, s, c, p) ==
  /\ pc' = [pc EXCEPT ![r] = p]
  /\ scope' = [scope EXCEPT ![r] = s]
  /\ caching' = [caching EXCEPT ![r] = c]
  /\ paths' = [paths EXCEPT ![r] = {}]
  /\ cache' = [cache EXCEPT ![r] = EmptyCache]
  /\ result' = [result EXCEPT ![r] = [f \in File |-> NotRead]]
  /\ report' = [report EXCEPT ![r] = NoReport]

\* resolve_config, then the choice of analyze_path or analyze_path_cached.
Start(r, s, c) ==
  /\ pc[r] \in {"idle", "done"}
  /\ starts < MaxStarts
  /\ starts' = starts + 1
  /\ Fresh(r, s, c, IF c THEN "load" ELSE "walk")
  /\ cfg' = [cfg EXCEPT ![r] = config]
  /\ UNCHANGED <<tree, files>>

Load(r) ==
  /\ pc[r] = "load"
  /\ pc' = [pc EXCEPT ![r] = "walk"]
  /\ cache' = [cache EXCEPT ![r] = Loaded]
  /\ UNCHANGED <<tree, files, cfg, scope, paths, caching, result, report,
                 starts>>

Walk(r) ==
  /\ pc[r] = "walk"
  /\ pc' = [pc EXCEPT ![r] = "scan"]
  /\ paths' = [paths EXCEPT ![r] =
                 {f \in scope[r] \cap Included(cfg[r]) : disk[f] # Absent}]
  /\ UNCHANGED <<tree, files, cfg, scope, caching, cache, result, report,
                 starts>>

ScanFile(r, f) ==
  /\ pc[r] = "scan"
  /\ f \in paths[r]
  /\ result[r][f] = NotRead
  /\ result' = [result EXCEPT ![r][f] = Analysed(cache[r], f, disk[f], cfg[r])]
  /\ UNCHANGED <<tree, files, pc, cfg, scope, paths, caching, cache, report,
                 starts>>

\* The parallel pass has joined: update the cache, run the project analyzers.
Collect(r) ==
  /\ pc[r] = "scan"
  /\ \A f \in paths[r] : result[r][f] # NotRead
  /\ report' = [report EXCEPT ![r] =
                  ReportOfResults(paths[r], result[r], cfg[r])]
  /\ IF caching[r]
       THEN /\ cache' = [cache EXCEPT ![r] =
                           Prune(Insert(cache[r], paths[r], result[r], cfg[r]),
                                 paths[r])]
            /\ pc' = [pc EXCEPT ![r] = "create"]
       ELSE /\ pc' = [pc EXCEPT ![r] = "output"]
            /\ UNCHANGED cache
  /\ UNCHANGED <<tree, files, cfg, scope, paths, caching, result, starts>>

-----------------------------------------------------------------------------
(* JsonCacheStore::save: create v1.tmp, or truncate the one that is there; *)
(* write; flush and fsync; rename.                                         *)

Saving  == {r \in Run : pc[r] \in {"write", "flush", "rename"}}

\* The file that r opened, whatever its name, now holds these bytes; other
\* runs that have it open will not find what they wrote.
Put(r, bytes) ==
  /\ tmp' = IF at[r] = "tmp" THEN bytes ELSE tmp
  /\ target' = IF at[r] = "target" THEN bytes ELSE target
  /\ soiled' = soiled \cup
       {q \in Saving \ {r} : at[q] = at[r] /\ at[r] # "unlinked"}

CreateTmp(r) ==
  /\ pc[r] = "create"
  /\ pc' = [pc EXCEPT ![r] = "write"]
  /\ tmp' = Torn
  /\ at' = [at EXCEPT ![r] = "tmp"]
  /\ soiled' = soiled \cup {q \in Saving : at[q] = "tmp"}
  /\ alone' = IF Saving = {} THEN alone \cup {r} ELSE alone \ Saving
  /\ UNCHANGED <<tree, target, trusted, cfg, scope, paths, caching, cache,
                 result, report, starts>>

\* BufWriter passes on what does not fit its buffer: part of the document.
WriteTmp(r) ==
  /\ pc[r] = "write"
  /\ pc' = [pc EXCEPT ![r] = "flush"]
  /\ Put(r, Torn)
  /\ UNCHANGED <<tree, at, alone, trusted, cfg, scope, paths, caching, cache,
                 result, report, starts>>

\* flush and sync_all.  If another run has truncated or written the same file
\* in the meantime, it may hold this cache or a mixture.
FlushTmp(r) ==
  /\ pc[r] = "flush"
  /\ pc' = [pc EXCEPT ![r] = "rename"]
  /\ \E bytes \in {cache[r]} \cup (IF r \in soiled THEN {Torn} ELSE {}) :
       Put(r, bytes)
  /\ UNCHANGED <<tree, at, alone, trusted, cfg, scope, paths, caching, cache,
                 result, report, starts>>

\* The save of r is over, in whatever way.
EndSave(r) ==
  /\ soiled' = soiled \ {r}
  /\ alone' = alone \ {r}

\* Mutant: rename without waiting for flush and fsync.
RenameUnflushed(r) ==
  /\ pc[r] \in {"flush", "rename"}
  /\ tmp # NoFile
  /\ pc' = [pc EXCEPT ![r] = "output"]
  /\ target' = tmp
  /\ tmp' = NoFile
  /\ trusted' = (r \in alone)
  /\ at' = [at EXCEPT ![r] = "closed"]
  /\ EndSave(r)
  /\ UNCHANGED <<tree, cfg, scope, paths, caching, cache, result, report,
                 starts>>

\* rename takes whatever v1.tmp is now; what was v1.json has no name any more.
Rename(r) ==
  /\ pc[r] = "rename"
  /\ tmp # NoFile
  /\ pc' = [pc EXCEPT ![r] = "output"]
  /\ target' = tmp
  /\ tmp' = NoFile
  /\ trusted' = (r \in alone)
  /\ at' = [q \in Run |-> CASE q = r             -> "closed"
                            [] q # r /\ at[q] = "tmp"    -> "target"
                            [] q # r /\ at[q] = "target" -> "unlinked"
                            [] OTHER             -> at[q]]
  /\ EndSave(r)
  /\ UNCHANGED <<tree, cfg, scope, paths, caching, cache, result, report,
                 starts>>

\* Any I/O error of save (for rename: v1.tmp is gone, too) is only logged.
SaveFails(r) ==
  /\ pc[r] \in {"create", "write", "flush", "rename"}
  /\ pc' = [pc EXCEPT ![r] = "output"]
  /\ at' = [at EXCEPT ![r] = "closed"]
  /\ EndSave(r)
  /\ UNCHANGED <<tree, target, tmp, trusted, cfg, scope, paths, caching,
                 cache, result, report, starts>>

\* Baseline, filters, exit code and rendering are functions of the report.
Output(r) ==
  /\ pc[r] = "output"
  /\ pc' = [pc EXCEPT ![r] = "done"]
  /\ UNCHANGED <<tree, files, cfg, scope, paths, caching, cache, result,
                 report, starts>>

\* An error of the walk, which leaves `run` before the save, or a kill at any
\* point: the process is gone, the files stay as they are.
Abort(r) ==
  /\ pc[r] \notin {"idle", "done"}
  /\ Fresh(r, {}, FALSE, "idle")
  /\ at' = [at EXCEPT ![r] = "closed"]
  /\ EndSave(r)
  /\ UNCHANGED <<tree, target, tmp, trusted, cfg, starts>>

RunStep(r) ==
  \/ \E s \in Scope, c \in BOOLEAN : Start(r, s, c)
  \/ Load(r)
  \/ Walk(r)
  \/ \E f \in File : ScanFile(r, f)
  \/ Collect(r)
  \/ CreateTmp(r)
  \/ WriteTmp(r)
  \/ FlushTmp(r)
  \/ Rename(r)
  \/ SaveFails(r)
  \/ Output(r)
  \/ Abort(r)

Next ==
  \/ \E f \in File, b \in Bytes : EditFile(f, b)
  \/ \E k \in Config : EditConfig(k)
  \/ \E r \in Run : RunStep(r)

Spec == Init /\ [][Next]_vars

-----------------------------------------------------------------------------
(* Properties.                                                             *)

PC == {"idle", "load", "walk", "scan", "create", "write", "flush", "rename",
       "output", "done"}

CacheFile == Cache \cup {Torn, NoFile}

TypeOK ==
  /\ disk \in [File -> Bytes]
  /\ config \in Config
  /\ target \in CacheFile
  /\ tmp \in CacheFile
  /\ at \in [Run -> {"closed", "tmp", "target", "unlinked"}]
  /\ soiled \subseteq Run
  /\ alone \subseteq Run
  /\ trusted \in BOOLEAN
  /\ pc \in [Run -> PC]
  /\ cfg \in [Run -> Config]
  /\ scope \in [Run -> SUBSET File]
  /\ paths \in [Run -> SUBSET File]
  /\ caching \in [Run -> BOOLEAN]
  /\ cache \in [Run -> Cache]
  /\ result \in [Run -> [File -> Outcome \cup {NotRead}]]
  /\ edits \in Nat
  /\ starts \in Nat

\* The entries that analysing f produces: the findings belong to the bytes and
\* the configuration whose hashes the entry carries, and the bytes parse.
SoundEntries(f) ==
  {CacheEntry(b, k, FileFindings(f, b, k)) :
     b \in {x \in Content : Parses(f, x)}, k \in Config}

SoundCache(c) == \A f \in File : c[f] # NoEntry => c[f] \in SoundEntries(f)

\* However runs, edits, kills and failed saves interleave, no cache, in memory
\* or on disk, pairs hashes with findings of other bytes or of another
\* configuration (engine.rs: the insertion of misses, the reuse of hits).
CacheSound ==
  /\ \A r \in Run : SoundCache(cache[r])
  /\ \A c \in {target, tmp} \ {NoFile, Torn} : SoundCache(c)

\* If the save that published v1.json met no other, v1.json stays a whole
\* document: kills and failures of later saves, at any point, leave it in
\* place (cache.rs, JsonCacheStore::save).
WholeIfPublishedAlone == trusted => target \notin {NoFile, Torn}

\* What such a save publishes is what its run analysed: an entry for every
\* file it scanned, of the bytes it read and of its configuration, and none
\* for a path that its walk did not return.
PublishesWhatItScanned ==
  [][\A r \in Run :
       Rename(r) /\ r \in alone =>
         \A f \in File :
           IF f \in paths[r]
             THEN f \in ScannedOf(paths[r], result[r]) =>
                    target'[f] = CacheEntry(result[r][f].bytes, cfg[r],
                                   FileFindings(f, result[r][f].bytes, cfg[r]))
             ELSE target'[f] = NoEntry]_vars

\* The point of the cache: a run that loaded exactly what an earlier run left,
\* under the same configuration, analyses again no file whose bytes that run
\* had scanned (architecture.md, "Incremental cache").
UnchangedFilesHit ==
  \A q, r \in Run :
    /\ pc[q] = "done" /\ caching[q]
    /\ pc[r] = "scan" /\ caching[r]
    /\ cache[r] = cache[q] /\ cfg[r] = cfg[q]
    => \A f \in paths[r] \cap ScannedOf(paths[q], result[q]) :
         result[r][f] # NotRead /\ result[r][f].bytes = result[q][f].bytes
           => result[r][f].kind = "hit"

\* A run that uses the cache is indistinguishable from one that does not: its
\* report is the uncached report of the bytes it read (engine.rs,
\* analyze_path_cached against analyze_path).  That goes for changes of zuit.toml,
\* too, although the comment on history.cache says that these do not invalidate
\* cached results (config.rs 210): the hash of the configuration is compared.
BytesRead ==
  [r \in Run |->
     [f \in File |-> IF result[r][f] = NotRead THEN NotRead
                                               ELSE result[r][f].bytes]]

PhaseOf(p) ==
  CASE p = "load"                                   -> "walk"
    [] p \in {"create", "write", "flush", "rename"} -> "output"
    [] OTHER                                        -> p

Phase == [r \in Run |-> PhaseOf(pc[r])]

Uncached == INSTANCE UncachedEngine WITH pc <- Phase, read <- BytesRead

ImplementsUncached == Uncached!Spec
=============================================================================
