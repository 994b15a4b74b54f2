--------------------------- MODULE UncachedEngine ---------------------------
(***************************************************************************)
(* What one `zuit analyze` promises about the source tree it is pointed    *)
(* at: Engine::analyze_path of zuit-core, without the incremental cache.   *)
(*                                                                         *)
(* A run loads the configuration, walks its path argument, reads every     *)
(* file it found (rayon: in any order, while the user keeps editing) and   *)
(* reports a function of the bytes it read.  CachedEngine implements this  *)
(* specification: a cached run must be indistinguishable from this one.    *)
(***************************************************************************)

CONSTANTS
  File,               \* source paths a run can meet
  Content,            \* byte strings a source file can hold
  Config,             \* configurations zuit.toml can describe
  Run,                \* processes that run zuit, one invocation after another
  Scope,              \* path arguments: each is the set of files under it
  Absent,             \* no such file (or it cannot be read)
  NotRead,            \* this run has not read the file yet
  NoReport,           \* this run has not produced a report
  Parses(_, _),       \* Language::parse succeeds on these bytes of this file
  FileFindings(_, _, _),\* the FileLevel analyzers on a file, bytes and config
  ReportOf(_, _, _),  \* project analyzers, finalize_findings and scores
  Included(_)         \* files that registered extensions and excludes leave

VARIABLES
  disk,    \* the source tree: File -> bytes
  config,  \* what zuit.toml says
  pc, cfg, scope, paths, read, report   \* per run

vars == <<disk, config, pc, cfg, scope, paths, read, report>>

Bytes == Content \cup {Absent}

\* The files whose bytes a frontend accepts become the ParsedFiles of the run;
\* all others count as parse failures (engine.rs, parse_files_parallel).
Scanned(fs, bytes) ==
  {f \in fs : bytes[f] \in Content /\ Parses(f, bytes[f])}

\* The Report of analyze_path, from nothing but the bytes read and the config.
Report(fs, bytes, k) ==
  LET scanned == Scanned(fs, bytes) IN
  [ body     |-> ReportOf([f \in scanned |-> FileFindings(f, bytes[f], k)],
                          [f \in scanned |-> bytes[f]], k),
    scanned  |-> scanned,
    failures |-> fs \ scanned ]

-----------------------------------------------------------------------------

Init ==
  /\ disk \in [File -> Bytes]
  /\ config \in Config
  /\ pc = [r \in Run |-> "idle"]
  /\ cfg = [r \in Run |-> config]
  /\ scope = [r \in Run |-> {}]
  /\ paths = [r \in Run |-> {}]
  /\ read = [r \in Run |-> [f \in File |-> NotRead]]
  /\ report = [r \in Run |-> NoReport]

\* The user writes or deletes a file, or edits zuit.toml, at any time.
EditFile(f, b) ==
  /\ disk' = [disk EXCEPT ![f] = b]
  /\ UNCHANGED <<config, pc, cfg, scope, paths, read, report>>

EditConfig(k) ==
  /\ config' = k
  /\ UNCHANGED <<disk, pc, cfg, scope, paths, read, report>>

\* An invocation starts with nothing read and nothing reported, on path
\* argument s; it ends with nothing either when it fails or is killed.
Fresh(r, s, p) ==
  /\ pc' = [pc EXCEPT ![r] = p]
  /\ scope' = [scope EXCEPT ![r] = s]
  /\ paths' = [paths EXCEPT ![r] = {}]
  /\ read' = [read EXCEPT ![r] = [f \in File |-> NotRead]]
  /\ report' = [report EXCEPT ![r] = NoReport]
  /\ UNCHANGED <<disk, config>>

Start(r, s) ==
  /\ pc[r] \in {"idle", "done"}
  /\ Fresh(r, s, "walk")
  /\ cfg' = [cfg EXCEPT ![r] = config]

Walk(r) ==
  /\ pc[r] = "walk"
  /\ pc' = [pc EXCEPT ![r] = "scan"]
  /\ paths' = [paths EXCEPT ![r] =
                 {f \in scope[r] \cap Included(cfg[r]) : disk[f] # Absent}]
  /\ UNCHANGED <<disk, config, cfg, scope, read, report>>

ReadFile(r, f) ==
  /\ pc[r] = "scan"
  /\ f \in paths[r]
  /\ read[r][f] = NotRead
  /\ read' = [read EXCEPT ![r][f] = disk[f]]
  /\ UNCHANGED <<disk, config, pc, cfg, scope, paths, report>>

Analyse(r) ==
  /\ pc[r] = "scan"
  /\ \A f \in paths[r] : read[r][f] # NotRead
  /\ report' = [report EXCEPT ![r] = Report(paths[r], read[r], cfg[r])]
  /\ pc' = [pc EXCEPT ![r] = "output"]
  /\ UNCHANGED <<disk, config, cfg, scope, paths, read>>

Output(r) ==
  /\ pc[r] = "output"
  /\ pc' = [pc EXCEPT ![r] = "done"]
  /\ UNCHANGED <<disk, config, cfg, scope, paths, read, report>>

\* The walk meets an unreadable directory entry (EngineError::Io), or the
\* process is killed.
Abort(r) ==
  /\ pc[r] \notin {"idle", "done"}
  /\ Fresh(r, {}, "idle")
  /\ UNCHANGED cfg

RunStep(r) ==
  \/ \E s \in Scope : Start(r, s)
  \/ Walk(r)
  \/ \E f \in File : ReadFile(r, f)
  \/ Analyse(r)
  \/ Output(r)
  \/ Abort(r)

Next ==
  \/ \E f \in File, b \in Bytes : EditFile(f, b)
  \/ \E k \in Config : EditConfig(k)
  \/ \E r \in Run : RunStep(r)

Spec == Init /\ [][Next]_vars
=============================================================================
