---------------------------- MODULE HistoryStore ----------------------------
(***************************************************************************)
(* One project of the scan history in ~/.zuit (zuit-show, history.rs).     *)
(*                                                                         *)
(* `zuit analyze` processes record scans in it while the dashboard server, *)
(* whose one worker thread handles one request at a time, labels, deletes  *)
(* and reads them.  The project's directory holds meta.json, a config      *)
(* snapshot per distinct zuit.toml, and per scan an envelope and up to two *)
(* sidecars (label, analytics).  Only meta.lock is a lock: recording takes *)
(* it for meta.json and for pruning, deleting takes it too; envelopes,     *)
(* snapshots and sidecars are written without it.                          *)
(*                                                                         *)
(* A flock belongs to the file that was opened, not to its name: deleting  *)
(* the project unlinks meta.lock, and the next process to open that name   *)
(* creates, and locks, another file.                                       *)
(***************************************************************************)
EXTENDS Naturals, FiniteSets

CONSTANTS
  Recorder,    \* processes that run `zuit analyze`
  Server,      \* the dashboard server's worker thread
  Config,      \* zuit.toml texts, a snapshot file for each
  Second,      \* what the clock can show
  Suffix,      \* the six hex digits of a scan id, as numbers
  MaxScans,    \* history.max_scans_per_project
  NoFile,      \* no such file
  Torn,        \* a file that is not a whole document
  Whole,       \* a config snapshot: it is named for its text, so a whole one
               \* can only hold that text
  NoProc,      \* nobody holds the lock
  NoScan,      \* no scan id has been assigned
  MaxRecords,  \* bound: how many scans are recorded
  MaxRequests, \* bound: how many requests the server handles
  MaxDeletes   \* bound: how often the project is deleted

Proc == Recorder \cup {Server}

ScanId == Second \X Suffix

Path == {"meta"} \cup Config

VARIABLES
  now,               \* the clock
  file, tmp,         \* meta.json and the snapshots; their temporary names
  envelope, label, analytics,   \* the scans that have these files
  projDir, scansDir, \* the directories exist
  gen,               \* which meta.lock: how often the project was deleted
  holder,            \* who holds the flock of each generation's meta.lock
  pc, op,            \* per process: where it is, in which operation
  scan,              \* per process: the scan it records or was asked about
  fd,                \* per process: the generation of the lock it opened
  path, value, at,   \* per process: the atomic_write in progress, and the
                     \* name now borne by the temporary file it opened
  doomed,            \* per process: what its pruning has yet to remove
  taken,             \* history: the ids assigned so far, each with its
                     \* config
  overdue,           \* history: scans that no completed pruning has counted
  shared,            \* history: files whose temporary name was opened while
                     \* another process had it open
  records, requests  \* counters for the bounds

store == <<file, tmp, envelope, label, analytics, projDir, scansDir>>
lock  == <<gen, holder, fd>>
write == <<path, value, at>>
proc  == <<op, scan>>
ghost == <<taken, overdue, shared>>
count == <<records, requests>>
vars  == <<now, store, lock, pc, write, proc, doomed, ghost, count>>

ASSUME Processes == Server \notin Recorder /\ NoProc \notin Proc

ASSUME SpecialFiles ==
  /\ NoFile # Torn /\ NoFile # Whole /\ Torn # Whole
  /\ {NoFile, Torn, Whole} \cap Second = {}
  /\ "meta" \notin Config

ASSUME ScanIds == Second \subseteq Nat /\ Suffix \subseteq Nat /\ NoScan \notin ScanId

ASSUME Bounds ==
  /\ MaxScans \in Nat
  /\ MaxRecords \in Nat /\ MaxRequests \in Nat /\ MaxDeletes \in Nat

-----------------------------------------------------------------------------

\* Scan ids are compared as file names: by second, then by the random digits.
Older(s, t) == s[1] < t[1] \/ (s[1] = t[1] /\ s[2] < t[2])

\* Mutant: the listing sorted the other way round.
ExcessNewest(scans) ==
  {s \in scans : Cardinality({t \in scans : Older(t, s)}) >= MaxScans}

\* Mutant: one too many kept.
ExcessOffByOne(scans) ==
  {s \in scans : Cardinality({t \in scans : Older(s, t)}) > MaxScans}

\* The first len - max names of the sorted listing.
Excess(scans) ==
  {s \in scans : Cardinality({t \in scans : Older(s, t)}) >= MaxScans}

\* Mutant: whoever dies leaves the lock taken.
ReleaseNever(p) == UNCHANGED holder

\* unlock, or the kernel closing the descriptor of a process that fails.
Release(p) ==
  holder' = [g \in DOMAIN holder |-> IF holder[g] = p THEN NoProc ELSE holder[g]]

Goto(p, there) == pc' = [pc EXCEPT ![p] = there]

-----------------------------------------------------------------------------

Init ==
  /\ now \in Second
  /\ \A s \in Second : now <= s
  /\ file = [x \in Path |-> NoFile]
  /\ tmp = [x \in Path |-> NoFile]
  /\ envelope = {} /\ label = {} /\ analytics = {}
  /\ projDir = FALSE /\ scansDir = FALSE
  /\ gen = 0
  /\ holder = [g \in 0 .. MaxDeletes |-> NoProc]
  /\ pc = [p \in Proc |-> "idle"]
  /\ op = [p \in Proc |-> "none"]
  /\ scan = [p \in Proc |-> NoScan]
  /\ fd = [p \in Proc |-> 0]
  /\ path = [p \in Proc |-> "meta"]
  /\ value = [p \in Proc |-> Whole]
  /\ at = [p \in Proc |-> "closed"]
  /\ doomed = [p \in Proc |-> {}]
  /\ taken = [s \in {} |-> 0]
  /\ overdue = {} /\ shared = {}
  /\ records = 0 /\ requests = 0

Tick ==
  /\ now + 1 \in Second
  /\ now' = now + 1
  /\ UNCHANGED <<store, lock, pc, write, proc, doomed, ghost, count>>

-----------------------------------------------------------------------------
(* atomic_write, of a path that two processes may write at once: create    *)
(* the parent directories and open or truncate the temporary name, write   *)
(* and fsync, rename.  Envelopes and labels, which have one writer, become *)
(* visible in one step, and so do analytics sidecars here: what the two    *)
(* writers of one sidecar do to each other is in Dashboard.                *)

OpenTmp(p) ==
  /\ pc[p] = "open"
  /\ Goto(p, "write")
  /\ projDir' = TRUE
  /\ tmp' = [tmp EXCEPT ![path[p]] = Torn]
  /\ at' = [at EXCEPT ![p] = "tmp"]
  /\ shared' = IF \E q \in Proc \ {p} : path[q] = path[p] /\ at[q] = "tmp"
                 THEN shared \cup {path[p]} ELSE shared
  /\ UNCHANGED <<now, file, envelope, label, analytics, scansDir, lock, path,
                 value, proc, doomed, taken, overdue, count>>

\* Mutant: the temporary file is renamed before it is filled.
WriteTmpAfterRename(p) ==
  /\ pc[p] = "write"
  /\ Goto(p, "rename")
  /\ UNCHANGED <<now, store, lock, write, proc, doomed, ghost, count>>

WriteTmp(p) ==
  /\ pc[p] = "write"
  /\ Goto(p, "rename")
  /\ tmp' = [tmp EXCEPT ![path[p]] = IF at[p] = "tmp" THEN value[p] ELSE @]
  /\ file' = [file EXCEPT ![path[p]] = IF at[p] = "file" THEN value[p] ELSE @]
  /\ UNCHANGED <<now, envelope, label, analytics, projDir, scansDir, lock,
                 write, proc, doomed, ghost, count>>

\* rename takes the file of the temporary name as it is, and fails if there is
\* none; whoever else had that file open now has the renamed one open.
RenameTmp(p) ==
  /\ pc[p] = "rename"
  /\ tmp[path[p]] # NoFile
  /\ Goto(p, IF path[p] = "meta" THEN "list" ELSE "id")
  /\ file' = [file EXCEPT ![path[p]] = tmp[path[p]]]
  /\ tmp' = [tmp EXCEPT ![path[p]] = NoFile]
  /\ at' = [q \in Proc |->
              CASE q = p -> "closed"
                [] q # p /\ path[q] = path[p] /\ at[q] = "tmp"  -> "file"
                [] q # p /\ path[q] = path[p] /\ at[q] = "file" -> "unlinked"
                [] OTHER -> at[q]]
  /\ UNCHANGED <<now, envelope, label, analytics, projDir, scansDir, lock,
                 path, value, proc, doomed, ghost, count>>

-----------------------------------------------------------------------------
(* HistoryStore::record.                                                   *)

\* The directories, and whether the snapshot is missing.
Record(p, c) ==
  /\ pc[p] = "idle"
  /\ records < MaxRecords
  /\ records' = records + 1
  /\ projDir' = TRUE /\ scansDir' = TRUE
  /\ op' = [op EXCEPT ![p] = "record"]
  /\ scan' = [scan EXCEPT ![p] = NoScan]
  /\ path' = [path EXCEPT ![p] = c]
  /\ value' = [value EXCEPT ![p] = Whole]
  /\ Goto(p, IF file[c] = NoFile THEN "open" ELSE "id")
  /\ UNCHANGED <<now, file, tmp, envelope, label, analytics, lock, at, doomed,
                 ghost, requests>>

\* The clock and the random digits make the scan id; ids do not collide.
TakeId(p, h) ==
  /\ pc[p] = "id"
  /\ <<now, h>> \notin DOMAIN taken
  /\ Goto(p, "envelope")
  /\ scan' = [scan EXCEPT ![p] = <<now, h>>]
  /\ taken' = [s \in DOMAIN taken \cup {<<now, h>>} |->
                 IF s = <<now, h>> THEN path[p] ELSE taken[s]]
  /\ UNCHANGED <<now, store, lock, write, op, doomed, overdue, shared,
                 count>>

WriteEnvelope(p) ==
  /\ pc[p] = "envelope"
  /\ Goto(p, "analytics")
  /\ envelope' = envelope \cup {scan[p]}
  /\ overdue' = overdue \cup {scan[p]}
  /\ projDir' = TRUE /\ scansDir' = TRUE
  /\ UNCHANGED <<now, file, tmp, label, analytics, lock, write, proc, doomed,
                 taken, shared, count>>

\* The sidecar is best effort.
WriteSidecar(p) ==
  /\ pc[p] = "analytics"
  /\ Goto(p, "lock")
  /\ \/ /\ analytics' = analytics \cup {scan[p]}
        /\ projDir' = TRUE /\ scansDir' = TRUE
     \/ UNCHANGED <<analytics, projDir, scansDir>>
  /\ UNCHANGED <<now, file, tmp, envelope, label, lock, write, proc, doomed,
                 ghost, count>>

\* Opening meta.lock creates it, but not its directory.
OpenLock(p) ==
  /\ pc[p] = "lock"
  /\ projDir
  /\ Goto(p, "wait")
  /\ fd' = [fd EXCEPT ![p] = gen]
  /\ UNCHANGED <<now, store, gen, holder, write, proc, doomed, ghost, count>>

\* Mutant: no lock at all.
LockIgnored(p) ==
  /\ pc[p] = "wait"
  /\ holder' = [holder EXCEPT ![fd[p]] = p]
  /\ Goto(p, CASE op[p] = "record"         -> "read"
               [] op[p] = "delete_scan"    -> "remove"
               [] op[p] = "delete_project" -> "clear")
  /\ UNCHANGED <<now, store, gen, fd, write, proc, doomed, ghost, count>>

Lock(p) ==
  /\ pc[p] = "wait"
  /\ holder[fd[p]] = NoProc
  /\ holder' = [holder EXCEPT ![fd[p]] = p]
  /\ Goto(p, CASE op[p] = "record"         -> "read"
               [] op[p] = "delete_scan"    -> "remove"
               [] op[p] = "delete_project" -> "clear")
  /\ UNCHANGED <<now, store, gen, fd, write, proc, doomed, ghost, count>>

\* Mutant: meta.json always made anew.
ReadMetaAnew(p) ==
  /\ pc[p] = "read"
  /\ file["meta"] # Torn
  /\ Goto(p, "open")
  /\ path' = [path EXCEPT ![p] = "meta"]
  /\ value' = [value EXCEPT ![p] = scan[p][1]]
  /\ UNCHANGED <<now, store, lock, at, proc, doomed, ghost, count>>

\* Read meta.json, or make one first seen by this scan.  One that does not
\* parse makes record fail.
ReadMeta(p) ==
  /\ pc[p] = "read"
  /\ file["meta"] # Torn
  /\ Goto(p, "open")
  /\ path' = [path EXCEPT ![p] = "meta"]
  /\ value' = [value EXCEPT ![p] =
                 IF file["meta"] = NoFile THEN scan[p][1] ELSE file["meta"]]
  /\ UNCHANGED <<now, store, lock, at, proc, doomed, ghost, count>>

ListScans(p) ==
  /\ pc[p] = "list"
  /\ scansDir
  /\ Goto(p, IF Excess(envelope) = {} THEN "unlock" ELSE "prune")
  /\ doomed' = [doomed EXCEPT ![p] = Excess(envelope)]
  /\ overdue' = {}
  /\ UNCHANGED <<now, store, lock, write, proc, taken, shared, count>>

IsOldest(s, scans) == s \in scans /\ \A t \in scans \ {s} : Older(s, t)

\* Remove the next envelope of the listing, then its sidecars; what is gone
\* already does not matter.
PruneEnvelope(p) ==
  /\ pc[p] = "prune"
  /\ Goto(p, "sidecars")
  /\ \E s \in doomed[p] :
       IsOldest(s, doomed[p]) /\ envelope' = envelope \ {s}
  /\ UNCHANGED <<now, file, tmp, label, analytics, projDir, scansDir, lock,
                 write, proc, doomed, ghost, count>>

PruneSidecars(p) ==
  /\ pc[p] = "sidecars"
  /\ \E s \in doomed[p] :
       /\ IsOldest(s, doomed[p])
       /\ label' = label \ {s}
       /\ analytics' = analytics \ {s}
       /\ doomed' = [doomed EXCEPT ![p] = @ \ {s}]
       /\ Goto(p, IF doomed[p] = {s} THEN "unlock" ELSE "prune")
  /\ UNCHANGED <<now, file, tmp, envelope, projDir, scansDir, lock, write,
                 proc, ghost, count>>

\* Unlock and return.
Unlock(p) ==
  /\ pc[p] = "unlock"
  /\ Goto(p, "idle")
  /\ op' = [op EXCEPT ![p] = "none"]
  /\ Release(p)
  /\ UNCHANGED <<now, store, gen, fd, write, scan, doomed, ghost,
                 count>>

\* An operation is over, with an error or because its process is killed.
End(p) ==
  /\ Goto(p, "idle")
  /\ op' = [op EXCEPT ![p] = "none"]
  /\ at' = [at EXCEPT ![p] = "closed"]
  /\ doomed' = [doomed EXCEPT ![p] = {}]
  /\ overdue' = overdue \cup doomed[p]
  /\ Release(p)
  /\ UNCHANGED <<now, store, gen, fd, path, value, scan, taken, shared, count>>

\* What an operation needs is not there, or meta.json does not parse.
Fail(p) ==
  /\ \/ pc[p] = "rename" /\ tmp[path[p]] = NoFile
     \/ pc[p] = "lock" /\ ~projDir
     \/ pc[p] = "read" /\ file["meta"] = Torn
     \/ pc[p] = "list" /\ ~scansDir
  /\ End(p)

\* Any other I/O error, or a kill.
Abort(p) == pc[p] # "idle" /\ End(p)

-----------------------------------------------------------------------------
(* The dashboard server (router.rs), one request after another.            *)

Request(name, there) ==
  /\ pc[Server] = "idle"
  /\ requests < MaxRequests
  /\ requests' = requests + 1
  /\ op' = [op EXCEPT ![Server] = name]
  /\ Goto(Server, there)

\* PUT label: nothing checks that there is such a scan.
SetLabel(s) ==
  /\ Request("none", "idle")
  /\ label' = label \cup {s}
  /\ projDir' = TRUE /\ scansDir' = TRUE
  /\ UNCHANGED <<now, file, tmp, envelope, analytics, lock, write, scan,
                 doomed, ghost, records>>

ClearLabel(s) ==
  /\ Request("none", "idle")
  /\ label' = label \ {s}
  /\ UNCHANGED <<now, file, tmp, envelope, analytics, projDir, scansDir, lock,
                 write, scan, doomed, ghost, records>>

\* GET analytics, summary, trends, heatmap: a scan without a sidecar has its
\* envelope read, and then its sidecar written.
ReadUnanalysed(s) ==
  /\ s \in envelope \ analytics
  /\ Request("analytics", "regenerate")
  /\ scan' = [scan EXCEPT ![Server] = s]
  /\ UNCHANGED <<now, store, lock, write, doomed, ghost, records>>

Regenerate ==
  /\ pc[Server] = "regenerate"
  /\ Goto(Server, "idle")
  /\ op' = [op EXCEPT ![Server] = "none"]
  /\ analytics' = analytics \cup {scan[Server]}
  /\ projDir' = TRUE /\ scansDir' = TRUE
  /\ UNCHANGED <<now, file, tmp, envelope, label, lock, write, scan,
                 doomed, ghost, count>>

DeleteScan(s) ==
  /\ Request("delete_scan", "lock")
  /\ scan' = [scan EXCEPT ![Server] = s]
  /\ UNCHANGED <<now, store, lock, write, doomed, ghost, records>>

\* Its sidecars stay.
RemoveScan ==
  /\ pc[Server] = "remove"
  /\ Goto(Server, "unlock")
  /\ envelope' = envelope \ {scan[Server]}
  /\ UNCHANGED <<now, file, tmp, label, analytics, projDir, scansDir, lock,
                 write, proc, doomed, ghost, count>>

DeleteProject ==
  /\ projDir
  /\ gen < MaxDeletes
  /\ Request("delete_project", "lock")
  /\ UNCHANGED <<now, store, lock, write, scan, doomed, ghost, records>>

\* remove_dir_all, meta.lock included: the next one to open it creates a new
\* one.  The descriptor is closed on return.
RemoveProject ==
  /\ pc[Server] = "clear"
  /\ Goto(Server, "idle")
  /\ op' = [op EXCEPT ![Server] = "none"]
  /\ file' = [x \in Path |-> NoFile]
  /\ tmp' = [x \in Path |-> NoFile]
  /\ at' = [q \in Proc |-> IF at[q] = "closed" THEN "closed" ELSE "unlinked"]
  /\ envelope' = {} /\ label' = {} /\ analytics' = {}
  /\ projDir' = FALSE /\ scansDir' = FALSE
  /\ gen' = gen + 1
  /\ Release(Server)
  /\ UNCHANGED <<now, fd, path, value, scan, doomed, ghost, count>>

-----------------------------------------------------------------------------

\* What a process does once it has begun an operation.
Step(p) ==
  \/ OpenTmp(p) \/ WriteTmp(p) \/ RenameTmp(p)
  \/ \E h \in Suffix : TakeId(p, h)
  \/ WriteEnvelope(p) \/ WriteSidecar(p)
  \/ OpenLock(p) \/ Lock(p)
  \/ ReadMeta(p) \/ ListScans(p) \/ PruneEnvelope(p) \/ PruneSidecars(p)
  \/ Unlock(p) \/ Fail(p)

ServerStep == Step(Server) \/ Regenerate \/ RemoveScan \/ RemoveProject

Requested(s) ==
  SetLabel(s) \/ ClearLabel(s) \/ ReadUnanalysed(s) \/ DeleteScan(s)

Next ==
  \/ Tick
  \/ \E p \in Recorder, c \in Config : Record(p, c)
  \/ \E p \in Recorder : Step(p)
  \/ ServerStep
  \/ \E s \in DOMAIN taken : Requested(s)
  \/ DeleteProject
  \/ \E p \in Proc : Abort(p)

Spec == Init /\ [][Next]_vars

-----------------------------------------------------------------------------
(* Properties.                                                             *)

File == {NoFile, Torn, Whole} \cup Second

PC == {"idle", "open", "write", "rename", "id", "envelope", "analytics", "lock",
       "wait", "read", "list", "prune", "sidecars", "unlock", "regenerate",
       "remove", "clear"}

TypeOK ==
  /\ now \in Second
  /\ file \in [Path -> File] /\ tmp \in [Path -> File]
  /\ envelope \subseteq DOMAIN taken
  /\ label \subseteq DOMAIN taken
  /\ analytics \subseteq DOMAIN taken
  /\ DOMAIN taken \subseteq ScanId
  /\ projDir \in BOOLEAN /\ scansDir \in BOOLEAN
  /\ gen \in 0 .. MaxDeletes
  /\ holder \in [0 .. MaxDeletes -> Proc \cup {NoProc}]
  /\ pc \in [Proc -> PC]
  /\ op \in [Proc -> {"none", "record", "analytics", "delete_scan",
                      "delete_project"}]
  /\ scan \in [Proc -> DOMAIN taken \cup {NoScan}]
  /\ fd \in [Proc -> 0 .. MaxDeletes]
  /\ path \in [Proc -> Path]
  /\ value \in [Proc -> File \ {NoFile, Torn}]
  /\ at \in [Proc -> {"closed", "tmp", "file", "unlinked"}]
  /\ doomed \in [Proc -> SUBSET DOMAIN taken]
  /\ overdue \subseteq DOMAIN taken
  /\ shared \subseteq Path

\* Until the project is first deleted, meta.json is never torn, whoever dies
\* while writing it (history.rs, record, steps 5 and 6).
MetaWhole == gen = 0 => file["meta"] # Torn

\* Until then, too, when the project was first seen never changes: two first
\* scans at once do not each make a meta.json.
FirstSeenKept ==
  [][gen' = 0 /\ file["meta"] # NoFile => file'["meta"] = file["meta"]]_vars

\* Retention: apart from scans written since the last pruning read the
\* directory, and from those a pruning has still to remove or was kept from
\* removing, there are never more than MaxScans (history.rs, record, step 7).
Retention ==
  Cardinality(envelope \ (overdue \cup UNION {doomed[p] : p \in Proc}))
    <= MaxScans

\* And never fewer: pruning removes a scan only while MaxScans newer ones are
\* there, although scans are being recorded and deleted all the time.
KeepsNewest ==
  [][\A p \in Recorder :
       gen = 0 /\ PruneEnvelope(p) =>
         \A s \in envelope \ envelope' :
           Cardinality({t \in envelope : Older(s, t)}) >= MaxScans]_vars

\* Every scan in the store has its config snapshot, until the project is first
\* deleted under a running `zuit analyze`; and no snapshot is published torn,
\* whoever fails or is killed while writing it, but one whose temporary name two
\* recorders had open at once (history.rs, record, step 3, without the lock).
SnapshotPresent ==
  gen = 0 =>
    /\ \A s \in envelope : file[taken[s]] # NoFile
    /\ \A c \in Config : file[c] = Torn => c \in shared

\* A lock is held only by a process that is still at work under it: whoever
\* fails or is killed at any point leaves none behind for others to wait for.
HeldWhileWorking ==
  \A g \in 0 .. MaxDeletes, p \in Proc : holder[g] = p =>
    /\ fd[p] = g
    /\ pc[p] \in {"read", "open", "write", "rename", "list", "prune", "sidecars",
                 "unlock", "remove", "clear"}
    /\ pc[p] \in {"open", "write", "rename"} => path[p] = "meta"
=============================================================================
