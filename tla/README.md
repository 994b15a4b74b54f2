# zuit in TLA+

TLA+ modules, TLC runs and TLAPS proofs for zuit, a static-analysis command
line tool written in Rust. zuit analyses a source tree with about forty
analyzers plus plugins, gates CI with a baseline and a severity threshold,
keeps an incremental cache beside the project and a scan history in `~/.zuit`,
serves the history from a background daemon, and watches a tree. Paths below
are relative to `src/crates/` unless they start with `docs/`.

What analyzers find in a file is left abstract. The modules are about what
happens around the analyzers: caches that must not change results, files that
several processes write, processes that die between two steps, and time.

## The system and its parts

| Part | State it keeps | Operations | Talks to |
|---|---|---|---|
| Engine (`zuit-core/src/engine.rs`) | none between calls | `analyze_path`, `analyze_path_cached` | analyzers, cache, configuration |
| Cache (`zuit-core/src/cache.rs`) | `.zuit-cache/v1.json`, `v1.tmp`; entries of content hash, configuration hash, findings | `load`, `get`, `insert`, `prune`, `save` | every cached run on the project, without a lock |
| Configuration, suppression, overrides (`config.rs`, `index.rs`, `engine.rs` 410-594) | `zuit.toml`, directives in comments | `load`, `filter_suppressed`, `apply_per_glob_overrides` | engine |
| Baseline and gate (`zuit-cli/src/baseline.rs`, `analyze.rs`) | the baseline file | `baseline save`, `analyze --baseline --fail-on --owasp --cwe` | engine, CI by the exit code |
| History store (`zuit-show/src/history.rs`) | per project `meta.json`, `meta.lock`, config snapshots, scan envelopes, label and analytics sidecars | `record`, `set_label`, `write_scan_analytics`, `delete_scan`, `delete_project`, reads | `analyze` processes and the dashboard server |
| Router and server (`router.rs`, `server.rs`) | one worker thread | REST requests, one at a time | history store |
| Analytics (`analytics.rs`), `zuit diff` (`zuit-cli/src/diff.rs`) | none | scan analytics, scan diff, summary, trends, heatmap | router, history store |
| Daemon (`zuit-show/src/daemon/unix.rs`, `zuit-cli/src/show.rs`, `stop.rs`) | `~/.zuit/daemon.json`, a process, a port | `show`, `stop`, `status` | signals, `/api/healthz`, the server |
| Watch (`zuit-cli/src/watch.rs`) | event channel, `last_event`, cache in memory | initial run, debounce loop | `notify` crate, engine, cache |
| External tool runner (`zuit-core/src/external.rs`) | a child process and its pipe | `run_with_limits` | every external adapter and plugin |
| Plugins (`zuit-plugins`) | plugin directories, source sidecars, `.lock` | install, update, remove, list, analyze | git, the runner |
| Language server (`zuit-lsp`) | the input stream | framing, document events | engine |
| Core analyzers (`zuit-analyzers`) | none; Tarjan's stacks while it looks for import cycles | `analyze_file`, `analyze_project` | engine |
| Front ends, registry, renderers, hook, bindings | none | pure functions, I/O | |

What is hard in each: **engine and cache** - any number of runs at once on one
cache file, edits in between, kills; **gate** - the tree, `zuit.toml` and the
baseline change between `baseline save` and `analyze`; **history** - writers
with and without the lock, `flock` on a file that may be unlinked, I/O errors
and kills at every step; **router** - requests of many steps over files that
are pruned, rewritten, torn or of an older format meanwhile; **daemon** - a registration file without a lock, a
double fork, a port chosen and released, probes that time out; **watch** - edits
during runs, events caused by the tool itself; **runner** - a child, its helper,
a pipe of bounded size, a clock; **plugins** - several file operations and git
under a lock that readers do not take; **language server** - malformed and
truncated input, editors that leave; **import cycles** - any graph. `PROJECT.json` lists the hazards at their lines with the
properties that watch them.

## Modules

### UncachedEngine, CachedEngine, EngineProofs

`UncachedEngine` is the promise: a run walks the tree, reads each file at some
moment, and reports what a fresh analysis of those bytes under that
configuration gives. `CachedEngine` is the code: `Load`, `Walk`, `ScanFile`
(hash, hit or analyse), `Collect` (insert, prune, report), then the save in its
steps `CreateTmp`, `WriteTmp`, `FlushTmp`, `Rename`. Several runs, cached or
not, are interleaved with `EditFile`, `EditConfig`, failed saves and kills
(`Abort`). The one name `v1.tmp` is modelled as a file that several processes
may have open, so that truncation and rename act on what is there.
`CachedEngine` instantiates `UncachedEngine` with the same variables minus the
caches and checks it as the property `ImplementsUncached`.

### HistoryStore, HistoryStoreProofs

One project in `~/.zuit`: any number of `record` calls and one server thread.
Each step of `record` is an action in the order of the code (snapshot if
missing, id, envelope, sidecar, open lock, lock, read meta, write meta, list,
prune envelope by envelope, unlock), and `atomic_write` is open, write, rename
for the two paths that processes share (`meta.json`, snapshots); `shared` records
which of their temporary names two processes ever had open at once. A `flock`
belongs to a file and not to a name: `gen` counts the deletions of the project
and `holder` maps each generation of `meta.lock` to its holder. `Fail` is what
the code returns as an error, `Abort` any other I/O error or a kill.

### Analytics, Dashboard, DashboardProofs

`Analytics` has the functions of `analytics.rs` over reports whose findings are
records: the analytics of a scan, the scan diff (which `zuit diff` prints, too),
summary, trends and heatmap, the last three once over envelopes and once over
sidecars, as in the code. `Dashboard` is the worker thread that answers requests
with them. A request is taken apart where files are read or written: `ReadDir`
and one `ReadEntry` per scan (`list_scans`), `ReadSidecar`, `LoadEnvelope`, and
the regeneration of a sidecar in `RegenOpens`, `RegenWrites`, `RegenRenames`.
Meanwhile `analyze` processes of the current or of an older version record scans
(`WriteEnvelope`, `RecorderOpens`, `RecorderWrites`, `RecorderRenames`) and
prune them (`PruneEnvelope`, `PruneSidecar`), may fail or be killed at each of
these steps (`RecorderEnds`), and so may the server (`ServerDies`). Recorder and
server write a sidecar through one temporary name; `at` is the name under which
the file that a process has open can be found by now. A sidecar is `NoFile`,
`Torn` or its format, the set of those fields that sidecars did not always have:
version, counts and weights per file, and statistics such as the failures. What a
format lacks is read as the code's `#[serde(default)]` has it (`Deserialised`).
`HistoryStore` has the lock and `meta.json`, `Dashboard` the reads; the project is
one that the store knows.

### Daemon, DaemonProofs

`show` is `Inspect`, `Probe`, `KillStale`, `Unlink`, `Spawn`, `Poll`, `Health`,
`Cleanup`; `stop` is `Stop`, `StopUnlink`; the daemon is `BindPort` (choose and
release), `OpenTmp`, `WriteTmp`, `RenameTmp`, `Serve`, with `Die` at any moment.
`Healthz` may always be `FALSE`: the server has one worker and the probe one
second. `raced` records whether a command was ever run while another one, or a
daemon that had not yet registered, was under way; the code has no lock, and
the properties say what it guarantees without such overlap.

### Watch, EngineProofs

The main thread of `watch`, which is at a `place`: a run (`Read`, `Save`), `Install`, then `Drain`,
`Check`, `Sleep` of the debounce loop. Time is counted in polls. `Save` writes
into the watched tree when `CacheWatched`.

### RunLimits, AnalyzeProofs

`run_with_limits` as a thread with a program counter (`CheckTimeout`,
`TryWait`, `Read`, `Drain`, `Wait`), the tool as a child that may write, start
a helper that inherits the pipe, close its output, exit or do nothing, and a
pipe of `PipeSize` blocks. `CallFails` is an error of `try_wait` or of a read: the
loop tries again, but a drain returns what it has as `Ok`, which `cut` records.
`Silent` names the states in which the caller waits
for someone who does nothing. Names such as `RunInit` let one module of proofs
extend this one and `Gate`, as `WatchInit` does for `Watch` and `CachedEngine`.

### Gate, AnalyzeProofs

Defects of a tree with their lines and offsets, suppression directives,
`zuit.toml`, the baseline file, and the two commands. `SaveBaseline` truncates
the file and `WriteBaseline` fills it; `Analyze` computes the engine's report
and `Judge` reads the baseline and sets the exit code. Edits introduce, fix and
move defects, add and remove directives, change overrides, at any moment.
Overrides are applied as the code does it, by the position of the match among
the patterns that compile.

### PluginRegistry, PluginStore, PluginStoreProofs

`PluginRegistry` is the promise: a map from names to what is installed, changed
by `Install` into a free name, `Update`, `Remove`, or broken by a command that
is killed. `PluginStore` is the code: writers that run `add-analyzer` (local
directory or git repository), `update` and `remove` under a lock that is tried
once (`Busy`), and listers that take none. A local install is `Place` and
`WriteSidecar` (`Copy` on Windows); a git install `Clone`, `Cloned`, `Resolve`,
`WriteSidecar`; an update `ReadSource`, `Pull`, `Pulled` or `Clear`; a remove
`RemoveDir`, `RemoveSidecar`. `Kill` may strike between any two, `Push` moves
the repository, `Vanish` removes a local source. Its refinement maps a name to
the sidecar's record if the directory agrees with it, else to `Broken`.

### LspSession, LspServer, LspServerProofs

`LspSession` is the promise: messages are handled in order, once, and answered
as their method demands; only from a badly framed one on may messages be passed
over, or the server end of itself. `LspServer` is the code, with the stream between editor and server unit by
unit: `ReadHeader` up to a blank line, `ReadBody` of the length the headers
said, `Handle`, then for document events `Analyse` and `Publish`. A line that a
badly framed message leaves in the stream may be no UTF-8 (`Garbled`), which ends
the server or not. `Publish` sends diagnostics, or an empty list where there is no
file to analyse: it has been removed (`Missing`), or its URI has percent escapes
(`Escaped`), which the server does not decode. The editor
sends messages in eight shapes of framing (with and without other headers,
`Content-Length` missing, not a number, over the cap, too small, too large),
edits the file and leaves at any moment, within a message as well.

### CyclicDeps, CyclicDepsProofs

The analyzer of import cycles. `Resolve` and `Graph` turn imports into edges as
`build_node_keys` and `build_adjacency` do, by module keys of which the first
file in path order wins. The recursive `tarjan_visit` is a stack of calls:
`Start`, `Descend`, `Skim` (a neighbour that has been visited), `Return` (which
pops a component). `Cycles` is the reference definition, by reachability; a
file's import of itself is dropped with the edges, as in the code, and is none.

## Runs

| Run | Module, configuration | What it shows |
|---|---|---|
| `cached_engine` | MCCachedEngine | `ImplementsUncached`; `CacheSound` (no cache pairs hashes with findings of other bytes or another configuration); `WholeIfPublishedAlone`, `PublishesWhatItScanned` (a save that met no other is whole and complete); `UnchangedFilesHit` |
| `history_store` | MCHistoryStore | `MetaWhole`, `FirstSeenKept`, `Retention`, `KeepsNewest`, `SnapshotPresent` (there, and torn only if two recorders wrote it at once), `HeldWhileWorking` |
| `daemon` | MCDaemon | `OnlyRegisteredRun`, `StopStops`, `ShowServes` |
| `watch` | Watch | `EditsPending`, `EditsRead`, `OneScanPerBurst`, `Quiesces` with the cache outside the watched tree, so that no run causes another |
| `watch_loop` | WatchLoop | violated: `OneScanPerBurst` with the cache inside it |
| `run_limits` | RunLimits | `OkIsWhole` (what was written but for what is still in the pipe, and everything unless a read failed in the drain), `CapExact`, `ChildReaped`, `ReturnsUnlessSilent` |
| `gate` | MCGate | `OverridesAsAsked`, `FailsForACause`, `PassesOnlyKnown` |
| `gate_globs` | MCGateGlobs | violated: the first matching glob wins |
| `plugin_store` | MCPluginStore | `ImplementsRegistry`; `ListsWhatIsInstalled` (a listing during which nobody held the lock); `RefusedChangesNothing`; `RemoveFrees` |
| `lsp_server` | MCLspServer | `ImplementsSession`; `DiagnosticsOfLastEvent` (what was published last is of the file as it was when last announced or later, and empty only if it was gone; not for URIs with percent escapes); `WellFramedAreHandled` |
| `dashboard` | MCDashboard | `AnswersOfEnvelopes` (whatever became of the sidecars: a heatmap in all, other answers but for the fields an older sidecar lacks); `ListsWhatIsThere`; `DiffAccounts` (new less resolved findings is the change of the totals); `HeatmapHeals` (a heatmap leaves current sidecars) |
| `cyclic_deps` | MCCyclicDeps | `ReportsCycles` (whole cycles of two files or more from the start, all of them in the end); `Terminates` |

`Watch` and `LspServer` check their type invariants, too; all type invariants are
proved.

The violated runs are recorded under `findings`, each with the sentence of the
code or the documentation that says otherwise.

### Bounds and why they are enough

- `cached_engine`: two runs at a time, three in all, two files, two contents,
  two configurations, one edit. A third start lets a run read what two racing
  ones have published; one edit gives every order of edit, hash and save.
- `history_store`: two recorders and the server, two recordings, one request,
  one deletion of the project, two seconds and two suffixes (ids of one second
  in either order), at most one scan kept, so that every second recording
  prunes.
- `daemon`: two commands at a time, three in all, two daemons, two ports, two
  versions, two polls of the budget. Three commands cover show, show or stop
  against its result, and one that overtakes either.
- `watch`: see `Watch.cfg`; edits before, during and after a run and between
  drain and fire.
- `run_limits`: a cap, a buffer and a pipe small enough that output is under,
  at and over the cap, and that the pipe fills.
- `gate`: one file with a located and a project-level defect of one rule, two
  lines, three offsets, two edits, two commands; three globs of which the middle
  one does not compile. Two edits between the two commands move a finding and
  change its severity or its suppression.
- `plugin_store`: two writers and one lister, two names, a repository and a
  directory whose manifest names another name than the first, one push, three
  commands, one listing: enough for a command against another, and for a third
  that finds what a killed one left.
- `lsp_server`: bodies of two units, three messages, two documents, the URI of one
  of which has percent escapes, and one edit, which removes the file of the other.
  A message that the server loses its place in, one that is swallowed and one on
  which it finds its place again.
- `dashboard`: two recordings of one of two reports, one scan kept, so that the
  second is pruned against the first; two requests; a heatmap of one line, so
  that weights decide what it shows. Older sidecars have the counts per file and
  lack version, weights and failures. The reports differ in a message alone, in
  severities and in a finding about no file.
- `cyclic_deps`: all 4096 import graphs on four files (an import of itself by one
  of them is among the inputs, and dropped), two of the same name, and all orders in which a file may list
  its imports. Four files have components of one, two, three and four, and one
  that is entered from another before or after it is finished.

Symmetry is used for runs, recorders, commands, daemons, ports and versions,
only in runs whose properties are invariants or say what a single step may do.

### Fairness

`Watch` assumes that the main thread runs (`WF` of the loop); the user need not
edit. `RunLimits` assumes that the caller's thread is scheduled and that time
passes, and nothing of the tool. `LspServer` assumes that the server, a process
of its own, takes its next step if there is one (`WF` of `ServerStep`), and
nothing of the editor. `CyclicDeps` is a sequential computation that goes on
(`WF` of `Next`). All other runs are about safety and assume
nothing.

## Proofs

| Module | Theorems |
|---|---|
| `EngineProofs` | of `CachedEngine` `TypeCorrect`, `CachesSound`, `CachedImplementsUncached`, `WholeWhilePublishedAlone`, `UndisturbedSavesPublish`, `UnchangedAreHit`; of `Watch` `WatchTypeCorrect`, `NoEditLost`, `RunsFollowEdits` |
| `CyclicDepsProofs` | `CyclesReported`, `StepsAreBounded`, `FinishedWhenNothingLeft` |
| `DaemonProofs` | `TypeCorrect`, `OneRegistered`, `NoneAfterStop`, `ShownServes` |
| `DashboardProofs` | `ListingsShowWhatIsThere`, `HeatmapsHeal`, `AnswersAreOfEnvelopes`, `DiffsAccount` |
| `AnalyzeProofs` | of `RunLimits` `RunTypeCorrect`, `OkWhole`, `CapIsExact`, `NoZombies`; of `Gate` `TypeCorrect`, `AppliesOverrides`, `FailsOnlyForACause`, `PassesOnlyWhatIsKnown` |
| `HistoryStoreProofs` | `TypeCorrect`, `LocksHeldWhileWorking`, `RetentionHolds`, `NewestKept`, `MetaStaysWhole`, `FirstSeenStays`, `SnapshotsPresent` |
| `LspServerProofs` | `TypeCorrect`, `DiagnosticsAreOfLastEvent`, `NothingWaits`, `Implements` |
| `PluginStoreProofs` | `TypeCorrect`, `Implements`, `RefusedIsClean`, `RemoveFreesName`, `ListingIsRight` |

The assumptions are those the modules name: constants of the right kind,
special values that differ from proper ones, hash functions that are injective
(`CachedEngine`). Two theorems have a hypothesis of their own: `RunsFollowEdits`
that a run's own events are not watched, without which it is false (`watch_loop`),
and `StepsAreBounded` that there are finitely many files.

- *Cached engine.* `CacheSound` is not inductive: entries travel through
  results, the in-memory cache, open temporary files and the disk, so the
  invariant says of each of those places that the findings beside two hashes
  are those of the content and configuration with these hashes. From it a hit
  equals a fresh analysis, and every step of `CachedEngine` maps to a step of
  `UncachedEngine` or to a stutter. The two theorems about saves rest on an
  invariant of who has which temporary file open. `UnchangedAreHit` adds
  `ReuseInv`: a run whose pass is over has looked at every file, and its cache
  has an entry of each, whether or not it was saved; and what a run has made of
  a file so far follows from the cache it loaded.
- *Watch.* `NoEditLost` is inductive on its own, given the types: it is what
  `EditsRead` says without its liveness, for any cache and any platform.
  `RunsFollowEdits` needs that the run's own events are not watched, which is
  what `watch_loop` lacks; then events and deadline are of edits that no run has
  followed (`EventsOfEdits`).
- *Daemon.* `OnlyRegisteredRun` speaks of daemons that have registered. What
  carries it is what holds in between (`Quiet`): one command and one daemon at
  most; which places of a command imply that no daemon is starting or none is
  left; a daemon that has yet to register finds no registration and owns the
  temporary file; what a command has read is still registered. A command that
  begins keeps this because, without overlap, nothing is under way.
- *Dashboard.* A finite set of numbers has an ascending listing with all of them
  (`AscendingIs`, by pigeonhole). `Asks` says that an envelope the request began
  with is still there or was pruned, and the same of the listing; `Proceeds`
  that what has been read and what is left to read are the listing, and that a
  heatmap has read the current format only; `Heals` that an undisturbed heatmap
  has left what it read as current, and owns the temporary file it writes. That
  answers are right is then a fact about functions: a heatmap over current sidecars
  equals that over envelopes (`HeatmapsAgree`), and trends and summary over
  sidecars of any format equal those over envelopes but for the fields that these
  lack (`TrendsAgree`, `SummariesAgree`), whatever the reports. For diffs, different fingerprints of
  a scan are as many as its findings (`FingerprintsCount`).
- *Runner.* Unless output was refused, what was written is what was captured
  plus what is in the pipe. Unless a read failed in the drain (`cut`), `Ok` is
  returned only with the pipe empty and closed on all sides; a refusal only with
  more written than the cap.
- *Gate.* The position of a pattern among finitely many is the number of those
  that sort before it; different patterns have different positions, and the
  positions are all the numbers below the count (by pigeonhole), so that the
  code's index always finds an override, and reports are well typed whatever
  `zuit.toml` says. With the invalid patterns last, the position of the first
  match is the same among the valid ones as among all, which gives
  `AppliesOverrides`. The theorems about the exit code follow from how `Judge`
  compares keys.
- *History store.* `Locking` says who holds which generation of `meta.lock` and
  where it is in the code; from it a holder is at work, and two recorders never
  work under one generation. `Pruning` relates what a recorder has listed and
  removed to the scans that have been there since its listing; with a lemma that
  counts a linear order by initial segments (`KeptAreFew`, by pigeonhole) it
  gives `Retention`. As long as the project has not been deleted there is one
  generation, so that `MetaUpdate` (who has `meta.tmp` open, and what is in it),
  `Snapshots` and `Newest` are inductive (and `Intact`: a snapshot whose temporary
  name nobody shared is filled before it is renamed): they fail after `delete_project`, and
  so do the theorems' conclusions, which all speak of that time.
- *Language server.* What the server parses has to be what the editor framed,
  and the state alone does not show where in the stream the server is. `Located`
  says that the messages sent can be laid out one behind the other so that what
  is on the wire is the rest of them (`Layout`), the server being at one unit of
  one message (`Within`). `Where` says what it holds there: the length that the
  headers read so far have given, and that every earlier message it has not
  handled follows a badly framed one; between two headers it may have lost the
  length, but only from a badly framed message on. A step that reads moves the
  place by the units it takes, a message that is sent extends the layout
  (`SendLaidOut`), an editor that leaves in the middle of one cuts it off
  (`LeaveLaidOut`), and a body that begins at its place and has the length of
  the headers is the message whole, so that what is handled is in turn
  (`Reading`). A line that is no UTF-8 begins with a unit of a message that was
  badly framed or cut off (`Misframed`), so that the session may end there, too.
  `History` relates the answers to the events and to the editions
  of the files, which gives `DiagnosticsAreOfLastEvent`. From the place follows,
  too, that a server that waits for input has handled all messages up to the
  first badly framed one (`NothingWaits`). With the messages that
  are still unhandled as those pending in `LspSession`, every step maps to a
  step of it or to a stutter.
- *Plugins.* `Holder` (the lock belongs to the one writer that is past
  `Lock`), `Origins` (what directories and sidecars hold comes from a source),
  `Settled` (with the lock free, a name is as it was when the lock was last
  released), `AtWork` (what the holder has made of its name at each step) and
  `Listing` (what a lister that nobody disturbed has yet to read). Each step
  then maps to a step of `PluginRegistry` or to a stutter.
- *Import cycles.* Reachability is defined by closed sets, so that no induction
  over paths is needed. The invariant is that of Tarjan's algorithm: files on
  the stack reach those discovered after them (`Connected`) and an active one
  discovered before them (`Rooted`); nothing leads out of finished components
  (`Explored`); a low link is the number of a file on the stack that is reached
  (`LowReached`), and no file that has been looked at from those discovered
  since, and whose calls have returned, is lower (`LowBounds`). If a call
  returns with its own number as low link, what was discovered since is closed
  but for finished components and strongly connected: a cycle, or one file
  alone. Else a lower active file is reached, and the invariant passes to the
  caller. `Todo` has the files to discover, the calls to return from and the
  imports to look at; every step takes something from this finite set and adds
  nothing (`StepsAreBounded`), and at the end it is empty
  (`FinishedWhenNothingLeft`).

Only model-checked: the liveness properties (`EditsRead`, `Quiesces`,
`ReturnsUnlessSilent`, `WellFramedAreHandled`, `Terminates`), which need
fairness and are beyond the prover, and the two properties that are violated.
Every safety property that a run shows to hold is stated by a theorem, and of
three of the liveness properties the part that is one of safety: `NoEditLost` of
`EditsRead`, `NothingWaits` of `WellFramedAreHandled`, `StepsAreBounded` of
`Terminates`.

## Abstractions and assumptions

- Hashes do not collide; analyzers are deterministic functions of bytes and
  configuration; a JSON document that was cut off never parses.
- A file that cannot be read is treated as a deleted one, as the engine does.
- Scan ids do not collide; the clock does not go back (it may stand still);
  `remove_dir_all` is one step; file operations other than the shared temporary
  files are atomic.
- Pids are not recycled and a signalled daemon dies at once, so that the SIGKILL
  fallback of `stop` is never needed. Only `spawn`, which `show` uses, is
  modelled; `spawn_with_listener` has no caller in the command line.
- `notify` delivers an event before the next step of the loop and one event per
  save. On backends that also report files being opened, each run's own reads
  retrigger it (`OpensReported`, not instantiated).
- Reads and `try_wait` may fail at any time; `kill` and `wait` on one's own child
  do not. The subprocesses of the tool are one helper.
- Both commands of `Gate` are given the same path; offsets are kept only as far
  as order and shifts go. What changes between the analysis of `baseline save`
  and its truncation of the file may as well change before the analysis.
- An interrupt reaches git as well as the command that waits for it; a
  repository's manifest keeps its name from commit to commit; a sidecar of a
  plugin is written and renamed in one step, under the lock.
- The editor writes bodies without a line end, reads answers, and does not
  resume after it has left; JSON or UTF-8 that is bad is a message of its own
  method, and a unit of a body may end within a character. A line of units that are
  a whole body of good text is text; any other that begins in a body may be none.
- In `Dashboard` ids come in the order of the recordings; a
  sidecar with more fields is longer than one with fewer; label sidecars
  are left out. `failures` stands for all statistics that old sidecars lack. Scores are integers. Top rules and the tallies by dimension, CWE
  and OWASP are counted as severities are and are left out.
- A module key is a sequence of path components. What a front end writes with
  other separators (`a.b` in Python) is a key of one component. The stack of calls
  is unbounded: that `tarjan_visit` may exhaust the native one in a very large
  tree, as its comment says (`cyclic_deps.rs` 115), is out of the model's reach.

## Known divergences without a run

- A cached run on a subdirectory prunes the entries of all files outside it
  (`engine.rs` 371), although the comment at 234 speaks of files that no longer
  exist on disk. Results are unaffected; later runs miss.
- Scans of one second are ordered by random digits, so that pruning "oldest
  scans" (`history.rs` 310, 323) may remove the later one of two.
- A run publishes a cache that is cut off or empty when another one opens
  `v1.tmp` before its rename (`cache.rs` 255), although the comment at 254 says
  that the file is never partially written. `load` then starts from nothing.
- `delete_project` unlinks `meta.lock` with the rest (`history.rs` 698), so that
  a waiting recorder and a later one hold locks of different files and update
  `meta.json` at once, which the comment at 188 rules out.
- `show` probes the health of a registered daemon once and kills it if there is
  no answer (`show.rs` 14, `unix.rs` 316, 366): one that has registered and not
  yet begun to listen is killed, whatever is left of the startup budget.
- The timeout of `run_with_limits` is looked at between blocking reads
  (`external.rs` 110): a tool that writes nothing and does not exit is waited
  for without end, although the comment at 22 says that it protects against
  hung processes.
- The comments of `analytics.rs` (87, 139, 147) say that sidecars without a field
  trigger a regeneration on the next request. Only the heatmap does so (`router.rs`
  598); `analytics`, `summary` and `trends` go on serving them (434, 481, 556), with
  the default of each field they lack: a scan with failures is then shown with none,
  and without counts and weights per file. `AnswersOfEnvelopes` excepts these
  fields.
- The comment on `history.cache` (`config.rs` 210) says that the cache is keyed on
  the content hash only and that a change of `zuit.toml` does not invalidate cached
  results. An entry also has the hash of the configuration (`cache.rs` 92), and one
  of another configuration is a miss (`engine.rs` 296), which `ImplementsUncached`
  needs.
- The documentation of baselines says that "pre-existing findings are silenced" and
  "Any new finding at `high` or above fails CI"
  (`docs/docs/configuration/baselines-and-fail-on.md` 107), that only new findings
  trigger `--fail-on` (`docs/docs/cli/baseline.md` 16). The key of a finding is its
  rule, file and byte offset (`analyze.rs` 161): an old finding that an edit above
  it has moved fails the gate (which `FailsForACause` allows), and a new one of the
  same rule at the offset of an old one passes (which `PassesOnlyKnown` allows).
- Two recorders may write one config snapshot through the same temporary name, and
  one publish what the other has just truncated (`history.rs` 223), although every
  write is said to be atomic (187). The other one then fills the file in place,
  unless it is killed before: as later recorders find the file there, it stays
  torn.
- If a read fails while the output of a tool that has exited is drained,
  `run_with_limits` returns what it has as `Ok` (`external.rs` 96), which the
  comment on `Outcome::Ok` (33) has as captured successfully. An adapter cannot
  tell it from the whole output.
- `uri_to_path` does not decode percent escapes (`zuit-lsp/src/lib.rs` 253): for
  `file:///a%20b.rs` the server analyses a path that is not the document's, and
  publishes an empty list for it (197) whatever the document holds.
- A header line that is not UTF-8 is an I/O error (`protocol.rs` 75) and ends the
  language server (`lib.rs` 91), although `lib.rs` 63 says that errors of
  individual messages are logged and skipped. What a badly framed message leaves in
  the stream may be such a line.
- A file that imports itself is no finding: the edge is dropped (`cyclic_deps.rs`
  304, 313), although the header of that file (24) and
  `docs/docs/rules/CPLX002-cyclic-deps.md` (58) call a component of size 1 with a
  self-loop a cycle, and the latter says that any cycle is always flagged (75).
- `GET .../analytics` of a deleted scan still answers from the sidecar that
  `delete_scan` leaves.
- The process that records a scan and the server may write one
  `<id>.analytics.tmp` and publish it unfinished. Readers treat it as missing.
- `discover` identifies a plugin by its manifest's name instead of the install
  name, although the documentation of `add-analyzer` says that `--name` wins;
  and `PLUGIN/<name>-manifest-error` (`docs/rules/PLUGIN.md`) is never emitted.
- A `remove` that is killed between directory and sidecar, followed by a local
  install that is killed before its sidecar, leaves a link beside the sidecar of
  something else, and `list` shows it so (`Broken` in `PluginRegistry`).
- After an error in a header the language server leaves the body in the stream
  (`protocol.rs` 109) and reads it as headers, swallowing the messages that
  follow until it finds a usable length, although `zuit-lsp/src/lib.rs` 63 says
  that errors of individual messages are logged and skipped.
- `textDocument/didChange` analyses the file on the disk and not the editor's
  text, although the server advertises full synchronisation.
- Import cycles of Python files in packages, and of Rust files by `crate::`
  paths, are not found: their imports (`a.b`, `crate::a`) never equal a key of
  a file (`cyclic_deps.rs` 303).
- `PUT .../label` never sees its body: the documented request clears the label.
- `history.rs` list reads fail as a whole when a scan is pruned meanwhile.
- The language server never leaves its loop after the end of its input
  (`zuit-lsp/src/lib.rs` 89).
- `baseline save --ref` writes keys of a temporary directory, which no later
  `analyze --baseline` matches.
- Findings silenced by `--baseline` are also missing from the history, although
  `docs/docs/workflows/adopt-legacy.md` says that debt stays visible in the
  dashboard.

Where a property leaves out a case of this list, its comment says so, and the
hazard in `PROJECT.json` that is about the case has a note. The hazards of
overlapping saves, of a deleted project, of ids within a second, of overlapping
`show` and `stop`, of a silent tool, of a listing beside a writer, and of two
writers of one sidecar are of this kind: the properties about these files exclude
the case, or say only what is left of the promise. That a watched cache lets the
loop run on is shown by `watch_loop` alone.

## Not modelled, and why

- Analyzers other than import cycles, front ends and manifest parsing: string
  and syntax-tree processing without state; their results are parameters. They
  are most of the code by lines (the parsers, symbol indices and some hundred
  rules of the three front ends and of `zuit-analyzers`), and a module of theirs
  would be a copy of the syntax-tree traversal it models.
- Duplicate code: a rolling hash over token streams, whose result depends on
  the tokens alone.
- Renderers, HTTP parsing, static assets, argument parsing, the git hook,
  bindings, build tasks, site: wording, layout and I/O.
- Scores: floating point, which TLA+'s tools do not have; an integer version
  would be another computation.
- `baseline save --ref`, `spawn_with_listener`, the Windows stub of the daemon:
  see the components in `PROJECT.json`.

## Plan

Done: the engine's cache, history, daemon, watch, runner, gate; then plugins,
language server, dashboard and analytics, import cycles, and the proofs of all of
them but liveness. Left:

1. The running of plugins over `RunLimits`, and what a changed set of plugins
   means for cached findings.
2. Duplicate code against a reference definition over short token streams.
