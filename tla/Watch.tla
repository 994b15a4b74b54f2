------------------------------- MODULE Watch --------------------------------
(***************************************************************************)
(* `zuit watch` (zuit-cli, watch.rs): analyse once, install a recursive    *)
(* watcher of the path, then poll its channel, and analyse again when      *)
(* events have come and DEBOUNCE_MS have passed since the last was drained.*)
(*                                                                         *)
(* Time passes in polls: the loop sleeps one between two iterations, and a *)
(* run takes any number of them.  Every run that uses the cache saves it   *)
(* in <project root>/.zuit-cache, which the watcher may be watching too.   *)
(***************************************************************************)
EXTENDS Naturals

CONSTANTS
  UseCache,      \* history.cache, and no --no-cache
  CacheWatched,  \* the project root is the watched path, or below it
  OpensReported, \* the platform's notify backend reports files being opened
  Debounce,      \* DEBOUNCE_MS in polls
  None,          \* last_event is None
  MaxSaves       \* bound: how often the user saves a file

ASSUME WatchConstants ==
  /\ UseCache \in BOOLEAN /\ CacheWatched \in BOOLEAN /\ OpensReported \in BOOLEAN
  /\ Debounce \in Nat \ {0} /\ None \notin Nat /\ MaxSaves \in Nat

VARIABLES
  place,      \* where the main thread is
  version,    \* the tree: how often it was edited
  installed,  \* the watcher has been installed
  pending,    \* the channel holds events
  since,      \* polls since last_event, up to Debounce; or None
  seen,       \* the version that the last run read
  announced,  \* history: the last edit that the watcher reported
  edited      \* history: the user's edits that no run has followed are "none",
              \* "drained" or, the last of them, in the "channel"

watchVars == <<place, version, installed, pending, since, seen, announced, edited>>

-----------------------------------------------------------------------------

WatchInit ==
  /\ place = "read"
  /\ version = 0
  /\ installed = FALSE
  /\ pending = FALSE
  /\ since = None
  /\ seen = 0
  /\ announced = 0
  /\ edited = "none"

\* A save in the editor, at any moment; the watcher reports it once it is
\* installed.
Edit ==
  /\ version < MaxSaves
  /\ version' = version + 1
  /\ pending' = (pending \/ installed)
  /\ edited' = IF installed THEN "channel" ELSE edited
  /\ announced' = IF installed THEN version + 1 ELSE announced
  /\ UNCHANGED <<place, installed, since, seen>>

\* analyze_path or analyze_path_cached, from start to finish ...
Read ==
  /\ place = "read"
  /\ place' = "save"
  /\ seen' = version
  /\ pending' = (pending \/ (installed /\ OpensReported))
  /\ UNCHANGED <<version, installed, since, announced, edited>>

\* Mutant: the channel emptied after a run, to ignore the events of its save.
SaveDrains ==
  /\ place = "save"
  /\ place' = IF installed THEN "sleep" ELSE "install"
  /\ pending' = FALSE
  /\ UNCHANGED <<version, installed, since, seen, announced, edited>>

\* ... and the save of the cache, unless the analysis failed: it creates,
\* writes and renames files.
Save ==
  /\ place = "save"
  /\ place' = IF installed THEN "sleep" ELSE "install"
  /\ \/ pending' = (pending \/ (installed /\ UseCache /\ CacheWatched))
     \/ UNCHANGED pending
  /\ UNCHANGED <<version, installed, since, seen, announced, edited>>

\* After the initial run.
Install ==
  /\ place = "install"
  /\ place' = "drain"
  /\ installed' = TRUE
  /\ UNCHANGED <<version, pending, since, seen, announced, edited>>

\* One iteration of debounce_loop: drain the channel ...
Drain ==
  /\ place = "drain"
  /\ place' = "check"
  /\ pending' = FALSE
  /\ since' = IF pending THEN 0 ELSE since
  /\ edited' = IF edited = "channel" THEN "drained" ELSE edited
  /\ UNCHANGED <<version, installed, seen, announced>>

\* A run begins: it follows the edits whose events have been drained.
Followed == edited' = IF edited = "drained" THEN "none" ELSE edited

\* Mutant: last_event not reset.
CheckKeeps ==
  /\ place = "check"
  /\ IF since = Debounce
       THEN /\ place' = "read" /\ Followed
       ELSE /\ place' = "sleep" /\ UNCHANGED edited
  /\ UNCHANGED <<version, installed, pending, since, seen, announced>>

\* ... fire if the events have been quiet for long enough ...
Check ==
  /\ place = "check"
  /\ IF since = Debounce
       THEN /\ place' = "read" /\ since' = None /\ Followed
       ELSE /\ place' = "sleep" /\ UNCHANGED <<since, edited>>
  /\ UNCHANGED <<version, installed, pending, seen, announced>>

\* Mutant: two polls slept.
SleepTwice ==
  /\ place = "sleep"
  /\ place' = "drain"
  /\ since' = IF since \in 0 .. Debounce - 1 THEN since + 2 ELSE since
  /\ UNCHANGED <<version, installed, pending, seen, announced, edited>>

\* ... and sleep one poll.
Sleep ==
  /\ place = "sleep"
  /\ place' = "drain"
  /\ since' = IF since \in 0 .. Debounce - 1 THEN since + 1 ELSE since
  /\ UNCHANGED <<version, installed, pending, seen, announced, edited>>

Loop == Read \/ Save \/ Install \/ Drain \/ Check \/ Sleep

WatchNext == Edit \/ Loop

\* The main thread runs; nobody has to edit.
WatchSpec == WatchInit /\ [][WatchNext]_watchVars /\ WF_watchVars(Loop)

-----------------------------------------------------------------------------

WatchTypeOK ==
  /\ place \in {"read", "save", "install", "drain", "check", "sleep"}
  /\ version \in 0 .. MaxSaves /\ seen \in 0 .. version
  /\ installed \in BOOLEAN /\ pending \in BOOLEAN
  /\ edited \in {"none", "drained", "channel"}
  /\ since \in 0 .. Debounce \cup {None}
  /\ announced \in 0 .. version

\* No edit is lost: while a reported edit has not been read, its event is in the
\* channel, or the deadline that it started runs, or a run is about to read
\* (watch.rs, debounce_loop: last_event is reset before the run, so that an edit
\* during the run, or after the drain that let it start, gets a run of its own).
EditsPending ==
  announced > seen => pending \/ since # None \/ place = "read"

\* Every edit made since the watcher was installed is read by some later run,
\* however edits, runs and polls interleave (watch.rs, debounce_loop: events
\* that come during a run, or between drain and fire).
EditsRead == \A v \in 1 .. MaxSaves : announced >= v ~> seen >= v

\* Once the user stops editing, so do the runs.
Quiesces == <>[](place \notin {"read", "save"})

\* docs/docs/cli/watch.md: "Rapid saves [...] are grouped together so only one
\* re-scan fires per burst": no run but the first begins when every edit that
\* the watcher reported has been followed by a run already.
OneScanPerBurst ==
  [][place = "check" /\ place' = "read" => edited # "none"]_watchVars
=============================================================================
