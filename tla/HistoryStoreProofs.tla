-------------------------- MODULE HistoryStoreProofs --------------------------
(***************************************************************************)
(* Proofs about the scan history: its types, who holds a lock, that        *)
(* meta.json is neither torn nor given another first_seen, that scans have *)
(* their snapshots, and that pruning keeps exactly the newest scans.       *)
(***************************************************************************)
EXTENDS HistoryStore, FiniteSetTheorems, TLAPS

USE DEF store, lock, write, proc, ghost, count

-----------------------------------------------------------------------------
(* The inductive invariant.                                                *)

\* What an operation is about, by where it is.
Shape ==
  /\ taken \in [DOMAIN taken -> Config]
  /\ \A p \in Proc :
       /\ pc[p] \in {"open", "write", "rename", "id", "envelope", "analytics", "read"}
            => op[p] = "record"
       /\ pc[p] \in {"lock", "wait"} => op[p] \in {"record", "delete_scan", "delete_project"}
       /\ op[p] \in {"analytics", "delete_scan", "delete_project"} => p = Server
       /\ pc[p] \in {"envelope", "analytics", "lock", "wait", "read"} /\ op[p] = "record"
            => scan[p] \in DOMAIN taken
       /\ pc[p] = "regenerate" => scan[p] \in DOMAIN taken
       /\ pc[p] = "id" => path[p] \in Config
       /\ pc[p] = "clear" => op[p] = "delete_project"
       /\ op[p] = "delete_project" => gen < MaxDeletes
       /\ fd[p] <= gen

\* Where an operation is between lock and unlock.
InLock(p) ==
  \/ pc[p] \in {"read", "list", "prune", "sidecars", "unlock", "remove", "clear"}
  \/ pc[p] \in {"open", "write", "rename"} /\ path[p] = "meta"

\* A lock is held by who is there, with the lock file it has opened.
Locking ==
  \A g \in 0 .. MaxDeletes, p \in Proc :
    holder[g] = p <=> fd[p] = g /\ InLock(p)

\* A scan that is about to be written is in nobody's way.
Fresh ==
  \A p \in Proc : pc[p] = "envelope" =>
    /\ scan[p] \notin envelope
    /\ \A q \in Proc : scan[p] \notin doomed[q]
    /\ \A q \in Proc : pc[q] = "envelope" /\ scan[q] = scan[p] => q = p

\* Of a scan whose sidecars are removed next, the envelope is gone.
Removed ==
  \A p \in Proc : pc[p] = "sidecars" =>
    \A s \in doomed[p] : IsOldest(s, doomed[p]) => s \notin envelope

-----------------------------------------------------------------------------
(* Types.                                                                  *)

LEMMA TypedInit == Init => TypeOK /\ Shape
  <1> SUFFICES ASSUME Init PROVE TypeOK /\ Shape
    OBVIOUS
  <1>1. DOMAIN taken = {} /\ taken \in [{} -> Config]
    BY DEF Init
  <1>2. Whole \in File \ {NoFile, Torn} /\ NoFile \in File
    BY SpecialFiles DEF File
  <1>3. 0 \in 0 .. MaxDeletes
    BY Bounds
  <1>4. TypeOK
    BY <1>1, <1>2, <1>3, Processes DEF Init, TypeOK, Proc, PC, Path
  <1> QED
    BY <1>1, <1>4 DEF Init, Shape, Proc

LEMMA EndTyped ==
  ASSUME TypeOK, Shape, NEW p \in Proc, End(p)
  PROVE  TypeOK' /\ Shape'
  <1>1. holder' \in [0 .. MaxDeletes -> Proc \cup {NoProc}]
    BY DEF End, Release, TypeOK
  <1>2. TypeOK'
    BY <1>1 DEF End, TypeOK, Goto, PC
  <1>3. /\ pc'[p] = "idle" /\ op'[p] = "none"
        /\ \A q \in Proc : q # p => pc'[q] = pc[q] /\ op'[q] = op[q]
    BY DEF End, TypeOK, Goto
  <1>4. UNCHANGED <<gen, fd, path, scan, taken>>
    BY DEF End
  <1> QED
    BY <1>2, <1>3, <1>4 DEF Shape

\* Writing a file that two processes may write at once.
LEMMA WritesTyped ==
  ASSUME TypeOK, Shape, NEW p \in Proc, OpenTmp(p) \/ WriteTmp(p) \/ RenameTmp(p)
  PROVE  TypeOK' /\ Shape'
  <1>1. CASE OpenTmp(p)
    <2>1. Torn \in File
      BY DEF File
    <2>2. TypeOK'
      BY <1>1, <2>1 DEF OpenTmp, TypeOK, Goto, PC
    <2> QED
      BY <1>1, <2>2 DEF OpenTmp, TypeOK, Shape, Goto
  <1>2. CASE WriteTmp(p)
    <2>1. value[p] \in File
      BY DEF TypeOK
    <2>2. TypeOK'
      BY <1>2, <2>1 DEF WriteTmp, TypeOK, Goto, PC
    <2> QED
      BY <1>2, <2>2 DEF WriteTmp, TypeOK, Shape, Goto
  <1>3. CASE RenameTmp(p)
    <2>1. NoFile \in File /\ tmp[path[p]] \in File
      BY DEF File, TypeOK
    <2>2. at' \in [Proc -> {"closed", "tmp", "file", "unlinked"}]
      BY <1>3 DEF RenameTmp, TypeOK
    <2>3. TypeOK'
      BY <1>3, <2>1, <2>2 DEF RenameTmp, TypeOK, Goto, PC
    <2>4. path[p] # "meta" => path[p] \in Config
      BY DEF TypeOK, Path
    <2> QED
      BY <1>3, <2>3, <2>4 DEF RenameTmp, TypeOK, Shape, Goto
  <1> QED
    BY <1>1, <1>2, <1>3

LEMMA RecordTyped ==
  ASSUME TypeOK, Shape, NEW p \in Recorder, NEW c \in Config, Record(p, c)
  PROVE  TypeOK' /\ Shape'
  <1>1. p \in Proc /\ c \in Path /\ Whole \in File \ {NoFile, Torn}
    BY SpecialFiles DEF Proc, Path, File
  <1>2. TypeOK'
    BY <1>1 DEF Record, TypeOK, Goto, PC
  <1> QED
    BY <1>1, <1>2 DEF Record, TypeOK, Shape, Goto

LEMMA TakeIdTyped ==
  ASSUME TypeOK, Shape, NEW p \in Proc, NEW h \in Suffix, TakeId(p, h)
  PROVE  TypeOK' /\ Shape'
  <1> DEFINE s == <<now, h>>
  <1>1. s \in ScanId
    BY DEF TypeOK, ScanId
  <1>2. DOMAIN taken' = DOMAIN taken \cup {s}
    BY DEF TakeId
  <1>3. path[p] \in Config
    BY DEF TakeId, Shape
  <1>4. taken' \in [DOMAIN taken' -> Config]
    BY <1>2, <1>3 DEF TakeId, Shape
  <1>5. scan' \in [Proc -> DOMAIN taken' \cup {NoScan}] /\ scan'[p] \in DOMAIN taken'
    BY <1>2 DEF TakeId, TypeOK
  <1>6. DOMAIN taken \subseteq DOMAIN taken'
    BY <1>2
  <1> HIDE DEF s
  <1>7. TypeOK'
    BY <1>1, <1>2, <1>5, <1>6 DEF TakeId, TypeOK, Goto, PC
  <1>8. \A q \in Proc : q # p => scan'[q] = scan[q]
    BY DEF TakeId, TypeOK
  <1>9. op[p] = "record"
    BY DEF TakeId, Shape
  <1> QED
    BY <1>4, <1>5, <1>6, <1>7, <1>8, <1>9 DEF TakeId, TypeOK, Shape, Goto

LEMMA ExcessIn == \A scans : Excess(scans) \subseteq scans
  BY DEF Excess

\* The other steps of an operation.
LEMMA StepsTyped ==
  ASSUME TypeOK, Shape, NEW p \in Proc,
         \/ WriteEnvelope(p) \/ WriteSidecar(p) \/ OpenLock(p) \/ Lock(p)
         \/ ReadMeta(p) \/ ListScans(p) \/ PruneEnvelope(p) \/ PruneSidecars(p)
         \/ Unlock(p)
  PROVE  TypeOK' /\ Shape'
  <1>1. CASE WriteEnvelope(p)
    <2>1. scan[p] \in DOMAIN taken
      BY <1>1 DEF WriteEnvelope, Shape
    <2>2. TypeOK'
      BY <1>1, <2>1 DEF WriteEnvelope, TypeOK, Goto, PC
    <2> QED
      BY <1>1, <2>2 DEF WriteEnvelope, TypeOK, Shape, Goto
  <1>2. CASE WriteSidecar(p)
    <2>1. scan[p] \in DOMAIN taken
      BY <1>2 DEF WriteSidecar, Shape
    <2>2. TypeOK'
      BY <1>2, <2>1 DEF WriteSidecar, TypeOK, Goto, PC
    <2> QED
      BY <1>2, <2>2 DEF WriteSidecar, TypeOK, Shape, Goto
  <1>3. CASE OpenLock(p)
    <2>1. TypeOK'
      BY <1>3 DEF OpenLock, TypeOK, Goto, PC
    <2> QED
      BY <1>3, <2>1 DEF OpenLock, TypeOK, Shape, Goto
  <1>4. CASE Lock(p)
    <2>1. op[p] \in {"record", "delete_scan", "delete_project"}
      BY <1>4 DEF Lock, Shape
    <2>2. pc' = [pc EXCEPT ![p] = CASE op[p] = "record"         -> "read"
                                    [] op[p] = "delete_scan"    -> "remove"
                                    [] op[p] = "delete_project" -> "clear"]
      BY <1>4 DEF Lock, Goto
    <2>3. /\ pc' \in [Proc -> PC]
          /\ pc'[p] \in {"read", "remove", "clear"}
          /\ pc'[p] = "read" => op[p] = "record"
          /\ pc'[p] = "clear" => op[p] = "delete_project"
          /\ \A q \in Proc : q # p => pc'[q] = pc[q]
      BY <2>1, <2>2 DEF TypeOK, PC
    <2>4. TypeOK'
      BY <1>4, <2>3 DEF Lock, TypeOK
    <2> QED
      BY <1>4, <2>3, <2>4 DEF Lock, TypeOK, Shape
  <1>5. CASE ReadMeta(p)
    <2>1. scan[p] \in DOMAIN taken /\ DOMAIN taken \subseteq Second \X Suffix
      BY <1>5 DEF ReadMeta, Shape, TypeOK, ScanId
    <2>2. scan[p][1] \in Second
      BY <2>1
    <2>3. scan[p][1] \in File \ {NoFile, Torn}
      BY <2>2, SpecialFiles DEF File
    <2>4. "meta" \in Path
      BY DEF Path
    <2>5. file["meta"] \in File /\ file["meta"] # Torn
      BY <1>5, <2>4 DEF ReadMeta, TypeOK
    <2>6. TypeOK'
      BY <1>5, <2>3, <2>4, <2>5 DEF ReadMeta, TypeOK, Goto, PC
    <2> QED
      BY <1>5, <2>6 DEF ReadMeta, TypeOK, Shape, Goto
  <1>6. CASE ListScans(p)
    <2>1. Excess(envelope) \subseteq DOMAIN taken
      BY ExcessIn DEF TypeOK
    <2>2. TypeOK'
      BY <1>6, <2>1 DEF ListScans, TypeOK, Goto, PC
    <2> QED
      BY <1>6, <2>2 DEF ListScans, TypeOK, Shape, Goto
  <1>7. CASE PruneEnvelope(p)
    <2>1. TypeOK'
      BY <1>7 DEF PruneEnvelope, TypeOK, Goto, PC
    <2> QED
      BY <1>7, <2>1 DEF PruneEnvelope, TypeOK, Shape, Goto
  <1>8. CASE PruneSidecars(p)
    <2>1. TypeOK'
      BY <1>8 DEF PruneSidecars, TypeOK, Goto, PC
    <2> QED
      BY <1>8, <2>1 DEF PruneSidecars, TypeOK, Shape, Goto
  <1>9. CASE Unlock(p)
    <2>1. holder' \in [0 .. MaxDeletes -> Proc \cup {NoProc}]
      BY <1>9 DEF Unlock, Release, TypeOK
    <2>2. TypeOK'
      BY <1>9, <2>1 DEF Unlock, TypeOK, Goto, PC
    <2> QED
      BY <1>9, <2>2 DEF Unlock, TypeOK, Shape, Goto
  <1> QED
    BY <1>1, <1>2, <1>3, <1>4, <1>5, <1>6, <1>7, <1>8, <1>9

LEMMA ServerIn == Server \in Proc
  BY DEF Proc

\* The requests of the server.
LEMMA RequestsTyped ==
  ASSUME TypeOK, Shape, (\E s \in DOMAIN taken : Requested(s)) \/ DeleteProject
  PROVE  TypeOK' /\ Shape'
  <1> USE ServerIn
  <1>1. CASE DeleteProject
    <2>1. TypeOK'
      BY <1>1 DEF DeleteProject, Request, TypeOK, Goto, PC
    <2> QED
      BY <1>1, <2>1 DEF DeleteProject, Request, TypeOK, Shape, Goto
  <1>2. ASSUME NEW s \in DOMAIN taken, SetLabel(s) \/ ClearLabel(s)
        PROVE  TypeOK' /\ Shape'
    <2>1. TypeOK'
      BY <1>2 DEF SetLabel, ClearLabel, Request, TypeOK, Goto, PC
    <2> QED
      BY <1>2, <2>1 DEF SetLabel, ClearLabel, Request, TypeOK, Shape, Goto
  <1>3. ASSUME NEW s \in DOMAIN taken, ReadUnanalysed(s) \/ DeleteScan(s)
        PROVE  TypeOK' /\ Shape'
    <2>1. UNCHANGED <<now, file, tmp, envelope, label, analytics, projDir, scansDir, gen,
                      holder, fd, path, value, at, doomed, taken, overdue, shared>>
      BY <1>3 DEF ReadUnanalysed, DeleteScan
    <2>2. scan' = [scan EXCEPT ![Server] = s]
      BY <1>3 DEF ReadUnanalysed, DeleteScan
    <2>3. \/ /\ pc' = [pc EXCEPT ![Server] = "lock"]
             /\ op' = [op EXCEPT ![Server] = "delete_scan"]
          \/ /\ pc' = [pc EXCEPT ![Server] = "regenerate"]
             /\ op' = [op EXCEPT ![Server] = "analytics"]
      BY <1>3 DEF ReadUnanalysed, DeleteScan, Request, Goto
    <2>4. TypeOK'
      BY <2>1, <2>2, <2>3 DEF TypeOK, PC
    <2> QED
      BY <2>1, <2>2, <2>3, <2>4 DEF TypeOK, Shape
  <1> QED
    BY <1>1, <1>2, <1>3 DEF Requested

\* What the server does under way.
LEMMA ServesTyped ==
  ASSUME TypeOK, Shape, Regenerate \/ RemoveScan \/ RemoveProject
  PROVE  TypeOK' /\ Shape'
  <1> USE ServerIn
  <1>1. CASE Regenerate
    <2>1. scan[Server] \in DOMAIN taken
      BY <1>1 DEF Regenerate, Shape
    <2>2. TypeOK'
      BY <1>1, <2>1 DEF Regenerate, TypeOK, Goto, PC
    <2> QED
      BY <1>1, <2>2 DEF Regenerate, TypeOK, Shape, Goto
  <1>2. CASE RemoveScan
    <2>1. TypeOK'
      BY <1>2 DEF RemoveScan, TypeOK, Goto, PC
    <2> QED
      BY <1>2, <2>1 DEF RemoveScan, TypeOK, Shape, Goto
  <1>3. CASE RemoveProject
    <2>1. gen < MaxDeletes
      BY <1>3 DEF RemoveProject, Shape
    <2>2. gen' \in 0 .. MaxDeletes /\ gen <= gen'
      BY <1>3, <2>1, Bounds DEF RemoveProject, TypeOK
    <2>3. holder' \in [0 .. MaxDeletes -> Proc \cup {NoProc}]
      BY <1>3 DEF RemoveProject, Release, TypeOK
    <2>4. /\ at' \in [Proc -> {"closed", "tmp", "file", "unlinked"}]
          /\ file' \in [Path -> File] /\ tmp' \in [Path -> File]
      BY <1>3 DEF RemoveProject, TypeOK, File
    <2>5. TypeOK'
      BY <1>3, <2>2, <2>3, <2>4 DEF RemoveProject, TypeOK, Goto, PC
    <2>6. \A p \in Proc : fd'[p] <= gen'
      BY <1>3, <2>2 DEF RemoveProject, TypeOK, Shape
    <2>7. \A p \in Proc : op'[p] # "delete_project"
      BY <1>3 DEF RemoveProject, TypeOK, Shape
    <2> QED
      BY <1>3, <2>5, <2>6, <2>7 DEF RemoveProject, TypeOK, Shape, Goto
  <1> QED
    BY <1>1, <1>2, <1>3

\* The cases of a step.
LEMMA Cases ==
  ASSUME Next
  PROVE  \/ Tick
         \/ \E p \in Recorder, c \in Config : Record(p, c)
         \/ \E p \in Proc : OpenTmp(p) \/ WriteTmp(p) \/ RenameTmp(p)
         \/ \E p \in Proc, h \in Suffix : TakeId(p, h)
         \/ \E p \in Proc :
              \/ WriteEnvelope(p) \/ WriteSidecar(p) \/ OpenLock(p) \/ Lock(p)
              \/ ReadMeta(p) \/ ListScans(p) \/ PruneEnvelope(p) \/ PruneSidecars(p)
              \/ Unlock(p)
         \/ \E p \in Proc : pc[p] # "idle" /\ End(p)
         \/ (\E s \in DOMAIN taken : Requested(s)) \/ DeleteProject
         \/ Regenerate \/ RemoveScan \/ RemoveProject
  BY DEF Next, Step, ServerStep, Proc, Fail, Abort

LEMMA TypedNext ==
  ASSUME TypeOK, Shape, [Next]_vars
  PROVE  TypeOK' /\ Shape'
  <1>1. CASE UNCHANGED vars
    BY <1>1 DEF vars, TypeOK, Shape
  <1>2. CASE Tick
    <2>1. TypeOK'
      BY <1>2 DEF Tick, TypeOK
    <2> QED
      BY <1>2, <2>1 DEF Tick, Shape
  <1>3. ASSUME NEW p \in Proc, pc[p] # "idle", End(p)
        PROVE  TypeOK' /\ Shape'
    BY <1>3, EndTyped
  <1> QED
    BY <1>1, <1>2, <1>3, Cases, RecordTyped, WritesTyped, TakeIdTyped, StepsTyped,
       RequestsTyped, ServesTyped

\* The variables keep their types.
THEOREM TypeCorrect == Spec => []TypeOK
  <1>1. TypeOK /\ Shape /\ [Next]_vars => TypeOK' /\ Shape'
    BY TypedNext
  <1> QED
    BY <1>1, TypedInit, PTL DEF Spec
-----------------------------------------------------------------------------
(* Locks.                                                                  *)

LEMMA LockingInit == Init => Locking
  BY Processes DEF Init, Locking, InLock, Proc

LEMMA QuietLocks ==
  ASSUME Locking, UNCHANGED <<holder, fd>>, \A p \in Proc : InLock(p)' <=> InLock(p)
  PROVE  Locking'
  BY DEF Locking

LEMMA ReleaseLocks ==
  ASSUME TypeOK, Locking, NEW p \in Proc, Release(p), UNCHANGED fd, pc'[p] = "idle",
         \A q \in Proc : q # p => (InLock(q)' <=> InLock(q))
  PROVE  Locking'
  <1> SUFFICES ASSUME NEW g \in 0 .. MaxDeletes, NEW q \in Proc
               PROVE  holder'[g] = q <=> fd'[q] = g /\ InLock(q)'
    BY DEF Locking
  <1>1. holder'[g] = IF holder[g] = p THEN NoProc ELSE holder[g]
    BY DEF Release, TypeOK
  <1>2. NoProc # q
    BY Processes
  <1>3. ~InLock(p)'
    BY DEF InLock
  <1>4. holder[g] = q <=> fd[q] = g /\ InLock(q)
    BY DEF Locking
  <1> QED
    BY <1>1, <1>2, <1>3, <1>4

LEMMA LocksStep ==
  ASSUME TypeOK, Shape, Locking, NEW p \in Proc,
         \/ \E c \in Config : Record(p, c)
         \/ OpenTmp(p) \/ WriteTmp(p) \/ RenameTmp(p)
         \/ \E h \in Suffix : TakeId(p, h)
         \/ WriteEnvelope(p) \/ WriteSidecar(p)
         \/ ReadMeta(p) \/ ListScans(p) \/ PruneEnvelope(p) \/ PruneSidecars(p)
  PROVE  Locking'
  <1>1. UNCHANGED <<holder, fd>>
    BY DEF Record, OpenTmp, WriteTmp, RenameTmp, TakeId, WriteEnvelope, WriteSidecar,
           ReadMeta, ListScans, PruneEnvelope, PruneSidecars
  <1>2. SUFFICES ASSUME NEW q \in Proc PROVE InLock(q)' <=> InLock(q)
    BY <1>1, QuietLocks
  <1>3. q # p => pc'[q] = pc[q] /\ path'[q] = path[q]
    BY DEF Record, OpenTmp, WriteTmp, RenameTmp, TakeId, WriteEnvelope, WriteSidecar,
           ReadMeta, ListScans, PruneEnvelope, PruneSidecars, TypeOK, Goto
  <1>4. q = p => (InLock(q)' <=> InLock(q))
    <2>1. CASE \E c \in Config : Record(p, c)
      <3>1. PICK c \in Config : Record(p, c)
        BY <2>1
      <3>2. c # "meta" /\ path'[p] = c /\ pc[p] = "idle" /\ pc'[p] \in {"open", "id"}
        BY <3>1, SpecialFiles DEF Record, TypeOK, Goto
      <3> QED
        BY <3>2 DEF InLock
    <2>2. CASE OpenTmp(p) \/ WriteTmp(p) \/ RenameTmp(p)
      BY <2>2 DEF OpenTmp, WriteTmp, RenameTmp, TypeOK, Goto, InLock
    <2>3. CASE (\E h \in Suffix : TakeId(p, h)) \/ WriteEnvelope(p) \/ WriteSidecar(p)
      BY <2>3 DEF TakeId, WriteEnvelope, WriteSidecar, TypeOK, Goto, InLock
    <2>4. CASE ReadMeta(p) \/ ListScans(p) \/ PruneEnvelope(p) \/ PruneSidecars(p)
      BY <2>4 DEF ReadMeta, ListScans, PruneEnvelope, PruneSidecars, TypeOK, Goto, InLock
    <2> QED
      BY <2>1, <2>2, <2>3, <2>4
  <1> QED
    BY <1>3, <1>4 DEF InLock

LEMMA LocksNext ==
  ASSUME TypeOK, Shape, Locking, [Next]_vars
  PROVE  Locking'
  <1> USE ServerIn
  <1>1. CASE UNCHANGED vars
    BY <1>1 DEF vars, Locking, InLock
  <1>2. CASE Tick
    BY <1>2 DEF Tick, Locking, InLock
  <1>3. ASSUME NEW p \in Proc, OpenLock(p)
        PROVE  Locking'
    <2>1. /\ ~InLock(p) /\ ~InLock(p)'
          /\ \A q \in Proc : q # p => (InLock(q)' <=> InLock(q)) /\ fd'[q] = fd[q]
          /\ holder' = holder
      BY <1>3 DEF OpenLock, TypeOK, Goto, InLock
    <2> QED
      BY <2>1 DEF Locking
  <1>4. ASSUME NEW p \in Proc, Lock(p)
        PROVE  Locking'
    <2>1. op[p] \in {"record", "delete_scan", "delete_project"}
      BY <1>4 DEF Lock, Shape
    <2>2. ~InLock(p) /\ InLock(p)'
      BY <1>4, <2>1 DEF Lock, Goto, TypeOK, InLock
    <2>3. \A q \in Proc : q # p => (InLock(q)' <=> InLock(q))
      BY <1>4 DEF Lock, Goto, TypeOK, InLock
    <2>4. /\ fd' = fd /\ fd[p] \in 0 .. MaxDeletes
          /\ holder[fd[p]] = NoProc
          /\ holder' = [holder EXCEPT ![fd[p]] = p]
      BY <1>4 DEF Lock, TypeOK
    <2>5. holder'[fd[p]] = p /\ \A g \in 0 .. MaxDeletes : g # fd[p] => holder'[g] = holder[g]
      BY <2>4 DEF TypeOK
    <2> QED
      BY <2>2, <2>3, <2>4, <2>5, Processes DEF Locking
  <1>5. ASSUME NEW p \in Proc, Unlock(p) \/ End(p)
        PROVE  Locking'
    <2>1. Release(p) /\ fd' = fd /\ path' = path
      BY <1>5 DEF Unlock, End
    <2>2. pc'[p] = "idle" /\ \A q \in Proc : q # p => pc'[q] = pc[q]
      BY <1>5 DEF Unlock, End, Goto, TypeOK
    <2> QED
      BY <2>1, <2>2, ReleaseLocks DEF InLock
  <1>6. ASSUME \/ \E s \in DOMAIN taken : Requested(s)
               \/ DeleteProject \/ Regenerate \/ RemoveScan
        PROVE  Locking'
    <2>1. UNCHANGED <<holder, fd, path>>
      BY <1>6 DEF Requested, SetLabel, ClearLabel, ReadUnanalysed, DeleteScan, DeleteProject,
                  Regenerate, RemoveScan
    <2>2. \A q \in Proc : q # Server => pc'[q] = pc[q]
      BY <1>6 DEF Requested, SetLabel, ClearLabel, ReadUnanalysed, DeleteScan, DeleteProject,
                  Regenerate, RemoveScan, Request, Goto, TypeOK
    <2>3. InLock(Server)' <=> InLock(Server)
      BY <1>6 DEF Requested, SetLabel, ClearLabel, ReadUnanalysed, DeleteScan, DeleteProject,
                  Regenerate, RemoveScan, Request, Goto, TypeOK, InLock
    <2> QED
      BY <2>1, <2>2, <2>3, QuietLocks DEF InLock
  <1>7. CASE RemoveProject
    <2>1. Release(Server) /\ fd' = fd /\ path' = path
      BY <1>7 DEF RemoveProject
    <2>2. pc'[Server] = "idle" /\ \A q \in Proc : q # Server => pc'[q] = pc[q]
      BY <1>7 DEF RemoveProject, Goto, TypeOK
    <2> QED
      BY <2>1, <2>2, ReleaseLocks DEF InLock
  <1>8. ASSUME NEW p \in Recorder, NEW c \in Config, Record(p, c)
        PROVE  Locking'
    BY <1>8, LocksStep DEF Proc
  <1> QED
    BY <1>1, <1>2, <1>3, <1>4, <1>5, <1>6, <1>7, <1>8, Cases, LocksStep

LEMMA LockingHeld == TypeOK /\ Locking => HeldWhileWorking
  BY DEF Locking, InLock, HeldWhileWorking, TypeOK

\* While the project has not been deleted there is one lock.
LEMMA OneInLock ==
  ASSUME TypeOK, Shape, Locking, gen = 0,
         NEW p \in Proc, NEW q \in Proc, InLock(p), InLock(q)
  PROVE  p = q
  <1>1. fd[p] = 0 /\ fd[q] = 0 /\ 0 \in 0 .. MaxDeletes
    BY DEF TypeOK, Shape
  <1> QED
    BY <1>1 DEF Locking

\* A lock is held only by a process still at work under it.
THEOREM LocksHeldWhileWorking == Spec => []HeldWhileWorking
  <1>1. TypeOK /\ Shape /\ Locking /\ [Next]_vars => TypeOK' /\ Shape' /\ Locking'
    BY TypedNext, LocksNext
  <1> QED
    BY <1>1, TypedInit, LockingInit, LockingHeld, PTL DEF Spec
-----------------------------------------------------------------------------
(* Retention.                                                              *)

LEMMA OlderOrder ==
  ASSUME NEW s \in ScanId, NEW t \in ScanId
  PROVE  /\ ~Older(s, s)
         /\ Older(s, t) => ~Older(t, s)
         /\ s # t => Older(s, t) \/ Older(t, s)
         /\ \A u \in ScanId : Older(s, t) /\ Older(t, u) => Older(s, u)
  <1>1. \A u \in ScanId : u[1] \in Nat /\ u[2] \in Nat
    BY ScanIds DEF ScanId
  <1>2. s = <<s[1], s[2]>> /\ t = <<t[1], t[2]>>
    BY DEF ScanId
  <1>3. s # t => s[1] # t[1] \/ s[2] # t[2]
    BY <1>2
  <1>4. ~Older(s, s) /\ (Older(s, t) => ~Older(t, s))
    BY <1>1 DEF Older
  <1>5. s # t => Older(s, t) \/ Older(t, s)
    BY <1>1, <1>3 DEF Older
  <1>6. \A u \in ScanId : Older(s, t) /\ Older(t, u) => Older(s, u)
    BY <1>1 DEF Older
  <1> QED
    BY <1>4, <1>5, <1>6

\* Who has fewer than MaxScans newer ones are at most MaxScans: the number of
\* newer ones tells them apart.
LEMMA KeptAreFew ==
  ASSUME NEW S, IsFiniteSet(S), S \subseteq ScanId
  PROVE  Cardinality(S \ Excess(S)) <= MaxScans
  <1> DEFINE Newer(s) == {t \in S : Older(s, t)}
             K == S \ Excess(S)
             f == [s \in K |-> Cardinality(Newer(s))]
  <1>1. IsFiniteSet(K) /\ Cardinality(K) \in Nat
    BY FS_Subset, FS_CardinalityType
  <1>2. \A s \in S : IsFiniteSet(Newer(s)) /\ Cardinality(Newer(s)) \in Nat
    BY FS_Subset, FS_CardinalityType
  <1>3. \A s \in K : s \in S /\ Cardinality(Newer(s)) < MaxScans
    <2>1. SUFFICES ASSUME NEW s \in K PROVE Cardinality(Newer(s)) < MaxScans
      OBVIOUS
    <2>2. s \in S /\ ~(Cardinality(Newer(s)) >= MaxScans)
      BY <2>1 DEF Excess
    <2> QED
      BY <1>2, <2>2, Bounds
  <1>4. ASSUME NEW s \in K, NEW t \in K, Older(s, t)
        PROVE  f[s] # f[t]
    <2>1. s \in ScanId /\ t \in ScanId /\ s \in S /\ t \in S
      OBVIOUS
    <2>2. Newer(t) \subseteq Newer(s)
      BY <1>4, <2>1, OlderOrder
    <2>3. t \in Newer(s) /\ t \notin Newer(t)
      BY <1>4, <2>1, OlderOrder
    <2>4. f[s] = Cardinality(Newer(s)) /\ f[t] = Cardinality(Newer(t))
      OBVIOUS
    <2> HIDE DEF Newer, f
    <2>5. Newer(t) \in SUBSET Newer(s) /\ IsFiniteSet(Newer(s)) /\ Newer(s) # Newer(t)
      BY <1>2, <2>1, <2>2, <2>3
    <2>6. Cardinality(Newer(s)) # Cardinality(Newer(t))
      BY <2>5, FS_Subset
    <2> QED
      BY <2>4, <2>6
  <1>5. \A s, t \in K : s # t => f[s] # f[t]
    <2>1. \A s, t \in K : s # t => Older(s, t) \/ Older(t, s)
      BY OlderOrder
    <2> HIDE DEF K, f
    <2> QED
      BY <1>4, <2>1
  <1>6. CASE MaxScans = 0
    <2> HIDE DEF Newer, K
    <2>1. \A n \in Nat : ~(n < 0)
      OBVIOUS
    <2>2. K = {}
      BY <1>2, <1>3, <1>6, <2>1
    <2> QED
      BY <2>2, <1>6, FS_EmptySet DEF K
  <1>7. CASE MaxScans > 0
    <2>1. f \in [K -> 0 .. MaxScans - 1]
      <3> HIDE DEF Newer, K
      <3> QED
        BY <1>2, <1>3, Bounds
    <2>2. IsFiniteSet(0 .. MaxScans - 1) /\ Cardinality(0 .. MaxScans - 1) = MaxScans
      BY <1>7, FS_Interval, Bounds
    <2> HIDE DEF K, f
    <2>3. ~(Cardinality(0 .. MaxScans - 1) < Cardinality(K))
      BY <1>1, <1>5, <2>1, <2>2, FS_PigeonHole
    <2> QED
      BY <1>1, <2>2, <2>3, Bounds DEF K
  <1> QED
    BY <1>6, <1>7, Bounds

Doomed == UNION {doomed[p] : p \in Proc}

\* What retention has settled on.
Retained == envelope \ (overdue \cup Doomed)

Pruning ==
  /\ IsFiniteSet(envelope)
  /\ Fresh /\ Removed
  /\ Cardinality(Retained) <= MaxScans

LEMMA PruningInit == Init => Pruning
  <1> SUFFICES ASSUME Init PROVE Pruning
    OBVIOUS
  <1>1. envelope = {} /\ Retained = {}
    BY DEF Init, Retained
  <1>2. \A p \in Proc : pc[p] = "idle"
    BY DEF Init
  <1> QED
    BY <1>1, <1>2, FS_EmptySet, Bounds DEF Pruning, Fresh, Removed

LEMMA FewerRetained ==
  ASSUME Pruning, Retained' \subseteq Retained
  PROVE  Cardinality(Retained') <= MaxScans
  <1>1. IsFiniteSet(Retained) /\ Cardinality(Retained) \in Nat
    BY FS_Subset, FS_CardinalityType DEF Pruning, Retained
  <1>2. IsFiniteSet(Retained') /\ Cardinality(Retained') \in Nat
        /\ Cardinality(Retained') <= Cardinality(Retained)
    BY <1>1, FS_Subset, FS_CardinalityType
  <1> QED
    BY <1>1, <1>2, Bounds DEF Pruning

\* Steps that leave the scans alone, or only remove some.
LEMMA QuietPruning ==
  ASSUME TypeOK, Pruning, envelope' \subseteq envelope, UNCHANGED <<overdue, doomed>>,
         \A p \in Proc : pc'[p] = "envelope" => pc[p] = "envelope" /\ scan'[p] = scan[p],
         \A p \in Proc : pc'[p] = "sidecars" => pc[p] = "sidecars"
  PROVE  Pruning'
  <1>1. IsFiniteSet(envelope')
    BY FS_Subset DEF Pruning
  <1>2. Retained' \subseteq Retained
    BY DEF Retained, Doomed
  <1>3. Fresh' /\ Removed'
    BY DEF Pruning, Fresh, Removed, IsOldest
  <1> QED
    BY <1>1, <1>2, <1>3, FewerRetained DEF Pruning

\* Who ends with something left to remove leaves it to the next pruning.
LEMMA EndPruning ==
  ASSUME TypeOK, Pruning, NEW p \in Proc, End(p)
  PROVE  Pruning'
  <1>1. /\ envelope' = envelope /\ scan' = scan
        /\ doomed'[p] = {} /\ \A q \in Proc : q # p => doomed'[q] = doomed[q]
        /\ overdue' = overdue \cup doomed[p]
        /\ pc'[p] = "idle" /\ \A q \in Proc : q # p => pc'[q] = pc[q]
    BY DEF End, Goto, TypeOK
  <1>2. Retained' \subseteq Retained
    BY <1>1 DEF Retained, Doomed
  <1>3. Fresh' /\ Removed'
    BY <1>1 DEF Pruning, Fresh, Removed, IsOldest
  <1> QED
    BY <1>1, <1>2, <1>3, FewerRetained DEF Pruning

LEMMA TakeIdPruning ==
  ASSUME TypeOK, Shape, Pruning, NEW p \in Proc, NEW h \in Suffix, TakeId(p, h)
  PROVE  Pruning'
  <1> DEFINE s == <<now, h>>
  <1>1. /\ s \notin DOMAIN taken /\ scan'[p] = s
        /\ pc'[p] = "envelope"
        /\ UNCHANGED <<envelope, overdue, doomed>>
        /\ \A q \in Proc : q # p => scan'[q] = scan[q] /\ pc'[q] = pc[q]
    BY DEF TakeId, Goto, TypeOK
  <1> HIDE DEF s
  <1>2. s \notin envelope /\ \A q \in Proc : s \notin doomed[q]
    BY <1>1 DEF TypeOK
  <1>3. \A q \in Proc : q # p /\ pc[q] = "envelope" => scan[q] # s
    BY <1>1 DEF Shape
  <1>4. Fresh'
    BY <1>1, <1>2, <1>3 DEF Pruning, Fresh
  <1>5. Removed'
    BY <1>1 DEF Pruning, Removed, IsOldest
  <1>6. Retained' = Retained
    BY <1>1 DEF Retained, Doomed
  <1> QED
    BY <1>1, <1>4, <1>5, <1>6 DEF Pruning

LEMMA WriteEnvelopePruning ==
  ASSUME TypeOK, Shape, Pruning, NEW p \in Proc, WriteEnvelope(p)
  PROVE  Pruning'
  <1>1. /\ envelope' = envelope \cup {scan[p]} /\ overdue' = overdue \cup {scan[p]}
        /\ UNCHANGED <<doomed, scan>>
        /\ pc[p] = "envelope" /\ pc'[p] = "analytics"
        /\ \A q \in Proc : q # p => pc'[q] = pc[q]
    BY DEF WriteEnvelope, Goto, TypeOK
  <1>2. IsFiniteSet(envelope')
    BY <1>1, FS_AddElement DEF Pruning
  <1>3. Fresh'
    BY <1>1 DEF Pruning, Fresh
  <1>4. Removed'
    BY <1>1 DEF Pruning, Fresh, Removed, IsOldest
  <1>5. Retained' \subseteq Retained
    BY <1>1 DEF Retained, Doomed
  <1> QED
    BY <1>2, <1>3, <1>4, <1>5, FewerRetained DEF Pruning

LEMMA ListScansPruning ==
  ASSUME TypeOK, Pruning, NEW p \in Proc, ListScans(p)
  PROVE  Pruning'
  <1>1. /\ doomed'[p] = Excess(envelope) /\ \A q \in Proc : q # p => doomed'[q] = doomed[q]
        /\ overdue' = {} /\ UNCHANGED <<envelope, scan>>
        /\ pc'[p] \in {"unlock", "prune"} /\ \A q \in Proc : q # p => pc'[q] = pc[q]
    BY DEF ListScans, Goto, TypeOK
  <1>2. Excess(envelope) \subseteq envelope
    BY ExcessIn
  <1>3. Fresh'
    <2>1. SUFFICES ASSUME NEW q \in Proc, pc'[q] = "envelope"
                   PROVE  /\ scan[q] \notin envelope
                          /\ \A r \in Proc : scan[q] \notin doomed'[r]
                          /\ \A r \in Proc : pc'[r] = "envelope" /\ scan[r] = scan[q] => r = q
      BY <1>1 DEF Fresh
    <2>2. q # p /\ pc[q] = "envelope"
      BY <1>1, <2>1
    <2>3. scan[q] \notin envelope /\ \A r \in Proc : scan[q] \notin doomed[r]
      BY <2>2 DEF Pruning, Fresh
    <2>4. \A r \in Proc : pc'[r] = "envelope" => pc[r] = "envelope"
      BY <1>1
    <2> QED
      BY <1>1, <1>2, <2>2, <2>3, <2>4 DEF Pruning, Fresh
  <1>4. Removed'
    BY <1>1 DEF Pruning, Removed, IsOldest
  <1>5. Retained' \subseteq envelope \ Excess(envelope)
    BY <1>1 DEF Retained, Doomed
  <1>6. envelope \subseteq ScanId
    BY DEF TypeOK
  <1>7. IsFiniteSet(envelope \ Excess(envelope)) /\ IsFiniteSet(envelope)
    BY FS_Subset DEF Pruning
  <1>8. /\ Cardinality(Retained') <= Cardinality(envelope \ Excess(envelope))
        /\ Cardinality(Retained') \in Nat
        /\ Cardinality(envelope \ Excess(envelope)) \in Nat
    BY <1>5, <1>7, FS_Subset, FS_CardinalityType
  <1>9. Cardinality(Retained') <= MaxScans
    BY <1>6, <1>7, <1>8, KeptAreFew, Bounds
  <1> QED
    BY <1>1, <1>3, <1>4, <1>7, <1>9 DEF Pruning

LEMMA OneOldest ==
  ASSUME NEW S \in SUBSET ScanId, NEW s, NEW t, IsOldest(s, S), IsOldest(t, S)
  PROVE  s = t
  <1>1. s \in ScanId /\ t \in ScanId
    BY DEF IsOldest
  <1> QED
    BY <1>1, OlderOrder DEF IsOldest

LEMMA PrunesPruning ==
  ASSUME TypeOK, Pruning, NEW p \in Proc, PruneEnvelope(p) \/ PruneSidecars(p)
  PROVE  Pruning'
  <1>1. doomed[p] \subseteq ScanId
    BY DEF TypeOK
  <1>2. CASE PruneEnvelope(p)
    <2>1. PICK s \in doomed[p] : IsOldest(s, doomed[p]) /\ envelope' = envelope \ {s}
      BY <1>2 DEF PruneEnvelope
    <2>2. /\ UNCHANGED <<doomed, overdue, scan>>
          /\ pc'[p] = "sidecars" /\ \A q \in Proc : q # p => pc'[q] = pc[q]
      BY <1>2 DEF PruneEnvelope, Goto, TypeOK
    <2>3. IsFiniteSet(envelope')
      BY <2>1, FS_Subset DEF Pruning
    <2>4. Retained' \subseteq Retained
      BY <2>1, <2>2 DEF Retained, Doomed
    <2>5. Fresh'
      BY <2>1, <2>2 DEF Pruning, Fresh
    <2>6. \A t \in doomed[p] : IsOldest(t, doomed[p]) => t \notin envelope'
      BY <1>1, <2>1, OneOldest
    <2>7. Removed'
      BY <2>1, <2>2, <2>6 DEF Pruning, Removed, IsOldest
    <2> QED
      BY <2>3, <2>4, <2>5, <2>7, FewerRetained DEF Pruning
  <1>3. CASE PruneSidecars(p)
    <2>1. PICK s \in doomed[p] : /\ IsOldest(s, doomed[p])
                                 /\ doomed' = [doomed EXCEPT ![p] = @ \ {s}]
      BY <1>3 DEF PruneSidecars
    <2>2. /\ UNCHANGED <<envelope, overdue, scan>>
          /\ pc[p] = "sidecars" /\ pc'[p] \in {"unlock", "prune"}
          /\ \A q \in Proc : q # p => pc'[q] = pc[q]
      BY <1>3 DEF PruneSidecars, Goto, TypeOK
    <2>3. /\ doomed'[p] = doomed[p] \ {s}
          /\ \A q \in Proc : q # p => doomed'[q] = doomed[q]
      BY <2>1 DEF TypeOK
    <2>4. s \notin envelope
      BY <2>1, <2>2 DEF Pruning, Removed
    <2>5. Retained' \subseteq Retained
      BY <2>2, <2>3, <2>4 DEF Retained, Doomed
    <2>6. Fresh'
      BY <2>2, <2>3 DEF Pruning, Fresh
    <2>7. Removed'
      BY <2>2, <2>3 DEF Pruning, Removed, IsOldest
    <2> QED
      BY <2>2, <2>5, <2>6, <2>7, FewerRetained DEF Pruning
  <1> QED
    BY <1>2, <1>3

LEMMA PruningNext ==
  ASSUME TypeOK, Shape, Pruning, [Next]_vars
  PROVE  Pruning'
  <1> USE ServerIn
  <1>1. CASE UNCHANGED vars \/ Tick
    BY <1>1, QuietPruning DEF vars, Tick
  <1>2. ASSUME NEW p \in Recorder, NEW c \in Config, Record(p, c)
        PROVE  Pruning'
    <2>1. p \in Proc
      BY DEF Proc
    <2>2. /\ UNCHANGED <<envelope, overdue, doomed>>
          /\ pc'[p] \in {"open", "id"}
          /\ \A q \in Proc : q # p => pc'[q] = pc[q] /\ scan'[q] = scan[q]
      BY <1>2, <2>1 DEF Record, Goto, TypeOK
    <2> QED
      BY <2>2, QuietPruning
  <1>3. ASSUME NEW p \in Proc,
               \/ OpenTmp(p) \/ WriteTmp(p) \/ RenameTmp(p) \/ WriteSidecar(p)
               \/ OpenLock(p) \/ ReadMeta(p) \/ Unlock(p)
        PROVE  Pruning'
    <2>1. /\ UNCHANGED <<envelope, overdue, doomed, scan>>
          /\ pc'[p] \notin {"envelope", "sidecars"}
          /\ \A q \in Proc : q # p => pc'[q] = pc[q]
      BY <1>3 DEF OpenTmp, WriteTmp, RenameTmp, WriteSidecar, OpenLock, ReadMeta, Unlock,
                  Goto, TypeOK
    <2> QED
      BY <2>1, QuietPruning
  <1>4. ASSUME NEW p \in Proc, Lock(p)
        PROVE  Pruning'
    <2>1. op[p] \in {"record", "delete_scan", "delete_project"}
      BY <1>4 DEF Lock, Shape
    <2>2. /\ UNCHANGED <<envelope, overdue, doomed, scan>>
          /\ pc'[p] \notin {"envelope", "sidecars"}
          /\ \A q \in Proc : q # p => pc'[q] = pc[q]
      BY <1>4, <2>1 DEF Lock, Goto, TypeOK
    <2> QED
      BY <2>2, QuietPruning
  <1>5. ASSUME \/ \E s \in DOMAIN taken : Requested(s)
               \/ DeleteProject \/ Regenerate
        PROVE  Pruning'
    <2>1. /\ UNCHANGED <<envelope, overdue, doomed>>
          /\ pc'[Server] \notin {"envelope", "sidecars"}
      BY <1>5 DEF Requested, SetLabel, ClearLabel, ReadUnanalysed, DeleteScan, DeleteProject,
                  Regenerate, Request, Goto, TypeOK
    <2>2. \A q \in Proc : q # Server => pc'[q] = pc[q] /\ scan'[q] = scan[q]
      BY <1>5 DEF Requested, SetLabel, ClearLabel, ReadUnanalysed, DeleteScan, DeleteProject,
                  Regenerate, Request, Goto, TypeOK
    <2> QED
      BY <2>1, <2>2, QuietPruning
  <1>6. CASE RemoveScan \/ RemoveProject
    <2>1. /\ envelope' \subseteq envelope /\ UNCHANGED <<overdue, doomed, scan>>
          /\ pc'[Server] \notin {"envelope", "sidecars"}
          /\ \A q \in Proc : q # Server => pc'[q] = pc[q]
      BY <1>6 DEF RemoveScan, RemoveProject, Goto, TypeOK
    <2> QED
      BY <2>1, QuietPruning
  <1> QED
    BY <1>1, <1>2, <1>3, <1>4, <1>5, <1>6, Cases, EndPruning, TakeIdPruning,
       WriteEnvelopePruning, ListScansPruning, PrunesPruning

\* Apart from what no pruning has counted or has still to remove, at most
\* MaxScans scans are kept.
THEOREM RetentionHolds == Spec => []Retention
  <1>1. /\ Init => TypeOK /\ Shape /\ Pruning
        /\ TypeOK /\ Shape /\ Pruning /\ [Next]_vars => TypeOK' /\ Shape' /\ Pruning'
    BY TypedInit, PruningInit, TypedNext, PruningNext
  <1>2. Pruning => Retention
    BY DEF Pruning, Retention, Retained, Doomed
  <1> QED
    BY <1>1, <1>2, PTL DEF Spec
-----------------------------------------------------------------------------
(* Until the project is first deleted.                                     *)

\* Who writes meta.json writes what is there, into a file of its own.
Updating(p) == pc[p] \in {"open", "write", "rename"} /\ path[p] = "meta"

Update(p) ==
  /\ pc[p] \in {"write", "rename"} => at[p] = "tmp"
  /\ pc[p] = "rename" => tmp["meta"] = value[p]
  /\ file["meta"] # NoFile => value[p] = file["meta"]

MetaUpdate ==
  /\ file["meta"] # Torn
  /\ \A p \in Proc : Updating(p) => Update(p)

\* A snapshot that was there stays.
Snapshots ==
  /\ \A s \in envelope : file[taken[s]] # NoFile
  /\ \A p \in Proc :
       /\ pc[p] = "id" => file[path[p]] # NoFile
       /\ pc[p] = "envelope" => file[taken[scan[p]]] # NoFile

Filling(p, c) == pc[p] \in {"write", "rename"} /\ path[p] = c

\* The temporary name of a snapshot that was never shared has one writer, which
\* renames what it has written.
Alone(p, c) ==
  /\ at[p] = "tmp"
  /\ pc[p] = "rename" => tmp[c] # Torn
  /\ \A q \in Proc : Filling(q, c) => q = p

Intact ==
  \A c \in Config : c \notin shared =>
    /\ file[c] # Torn
    /\ \A p \in Proc : Filling(p, c) => Alone(p, c)

NewerThan(s, scans) == {t \in scans : Older(s, t)}

\* What is to be pruned is not among the newest.
Newest ==
  \A p \in Proc : pc[p] \in {"prune", "sidecars"} =>
    \A s \in doomed[p] : Cardinality(NewerThan(s, envelope)) >= MaxScans

FirstLife == MetaUpdate /\ Snapshots /\ Intact /\ Newest

LEMMA FirstLifeInit == Init => FirstLife
  <1> SUFFICES ASSUME Init PROVE FirstLife
    OBVIOUS
  <1>1. "meta" \in Path /\ NoFile # Torn
    BY SpecialFiles DEF Path
  <1>2. Intact
    BY SpecialFiles DEF Init, Intact, Filling, Path
  <1> QED
    BY <1>1, <1>2 DEF Init, FirstLife, MetaUpdate, Snapshots, Newest, Updating

\* The project is deleted once and for all.
LEMMA GenGrows ==
  ASSUME TypeOK, [Next]_vars, gen' = 0
  PROVE  gen = 0 /\ ~RemoveProject
  <1>1. gen \in Nat
    BY DEF TypeOK
  <1>2. CASE RemoveProject
    BY <1>1, <1>2 DEF RemoveProject
  <1>3. CASE ~RemoveProject /\ Next
    <2>1. gen' = gen
      BY <1>3 DEF Next, Step, ServerStep, Requested, Tick, Record, OpenTmp, WriteTmp,
                  RenameTmp, TakeId, WriteEnvelope, WriteSidecar, OpenLock, Lock, ReadMeta,
                  ListScans, PruneEnvelope, PruneSidecars, Unlock, Fail, Abort, End,
                  SetLabel, ClearLabel, ReadUnanalysed, DeleteScan, DeleteProject,
                  Regenerate, RemoveScan
    <2> QED
      BY <1>3, <2>1
  <1>4. CASE UNCHANGED vars
    BY <1>1, <1>4 DEF vars, RemoveProject
  <1> QED
    BY <1>2, <1>3, <1>4

LEMMA QuietMeta ==
  ASSUME MetaUpdate, file'["meta"] = file["meta"], tmp'["meta"] = tmp["meta"],
         \A p \in Proc : Updating(p)' =>
           Updating(p) /\ pc'[p] = pc[p] /\ at'[p] = at[p] /\ value'[p] = value[p]
  PROVE  MetaUpdate'
  BY DEF MetaUpdate, Update

LEMMA MetaWrites ==
  ASSUME TypeOK, Shape, Locking, gen = 0, MetaUpdate, NEW p \in Proc,
         OpenTmp(p) \/ WriteTmp(p) \/ RenameTmp(p)
  PROVE  MetaUpdate'
  <1>1. /\ UNCHANGED <<path, value>> /\ "meta" \in Path
        /\ \A q \in Proc : q # p => pc'[q] = pc[q]
    BY DEF OpenTmp, WriteTmp, RenameTmp, Goto, TypeOK, Path
  <1>2. CASE path[p] # "meta"
    <2>1. file'["meta"] = file["meta"] /\ tmp'["meta"] = tmp["meta"]
      BY <1>1, <1>2 DEF OpenTmp, WriteTmp, RenameTmp, TypeOK
    <2>2. \A q \in Proc : path[q] = "meta" => at'[q] = at[q]
      BY <1>2 DEF OpenTmp, WriteTmp, RenameTmp, TypeOK
    <2> QED
      BY <1>1, <1>2, <2>1, <2>2, QuietMeta DEF Updating
  <1>3. CASE path[p] = "meta"
    <2>1. Updating(p) /\ Update(p) /\ pc[p] \in {"open", "write", "rename"}
      BY <1>3 DEF OpenTmp, WriteTmp, RenameTmp, Updating, MetaUpdate
    <2>2. \A q \in Proc : q # p => ~Updating(q) /\ ~Updating(q)'
      BY <1>1, <2>1, OneInLock DEF Updating, InLock
    <2>3. CASE OpenTmp(p)
      <3>1. pc'[p] = "write" /\ at'[p] = "tmp" /\ file' = file
        BY <2>3 DEF OpenTmp, Goto, TypeOK
      <3> QED
        BY <1>1, <2>1, <2>2, <3>1 DEF MetaUpdate, Update
    <2>4. CASE WriteTmp(p)
      <3>1. pc[p] = "write" /\ at[p] = "tmp"
        BY <2>1, <2>4 DEF WriteTmp, Update
      <3>2. /\ pc'[p] = "rename" /\ at' = at /\ tmp'["meta"] = value[p]
            /\ file'["meta"] = file["meta"]
        BY <1>1, <1>3, <2>4, <3>1 DEF WriteTmp, Goto, TypeOK
      <3> QED
        BY <1>1, <2>1, <2>2, <3>1, <3>2 DEF MetaUpdate, Update
    <2>5. CASE RenameTmp(p)
      <3>1. tmp["meta"] = value[p] /\ value[p] # Torn
        BY <2>1, <2>5 DEF RenameTmp, Update, TypeOK
      <3>2. file'["meta"] = tmp["meta"] /\ pc'[p] = "list"
        BY <1>1, <1>3, <2>5 DEF RenameTmp, Goto, TypeOK
      <3>3. ~Updating(p)'
        BY <3>2 DEF Updating
      <3> QED
        BY <2>2, <3>1, <3>2, <3>3 DEF MetaUpdate
    <2> QED
      BY <2>3, <2>4, <2>5
  <1> QED
    BY <1>2, <1>3

LEMMA MetaNext ==
  ASSUME TypeOK, Shape, Locking, MetaUpdate, [Next]_vars, gen' = 0
  PROVE  MetaUpdate'
  <1> USE ServerIn
  <1>1. gen = 0 /\ ~RemoveProject
    BY GenGrows
  <1>2. CASE UNCHANGED vars \/ Tick
    BY <1>2, QuietMeta DEF vars, Tick, Updating
  <1>3. ASSUME NEW p \in Recorder, NEW c \in Config, Record(p, c)
        PROVE  MetaUpdate'
    <2>1. p \in Proc /\ c # "meta"
      BY SpecialFiles DEF Proc
    <2>2. /\ UNCHANGED <<file, tmp, at>> /\ path'[p] = c
          /\ \A q \in Proc : q # p => /\ pc'[q] = pc[q] /\ path'[q] = path[q]
                                      /\ value'[q] = value[q]
      BY <1>3, <2>1 DEF Record, Goto, TypeOK
    <2> QED
      BY <2>1, <2>2, QuietMeta DEF Updating
  <1>4. ASSUME NEW p \in Proc, ReadMeta(p)
        PROVE  MetaUpdate'
    <2>1. /\ pc[p] = "read" /\ UNCHANGED <<file, tmp, at>>
          /\ file["meta"] # NoFile => value'[p] = file["meta"]
          /\ pc'[p] = "open"
          /\ \A q \in Proc : q # p => pc'[q] = pc[q] /\ path'[q] = path[q]
      BY <1>4 DEF ReadMeta, Goto, TypeOK
    <2>2. InLock(p)
      BY <2>1 DEF InLock
    <2>3. \A q \in Proc : q # p => ~Updating(q)'
      BY <1>1, <2>1, <2>2, OneInLock DEF Updating, InLock
    <2> QED
      BY <2>1, <2>3 DEF MetaUpdate, Update
  <1>5. ASSUME NEW p \in Proc,
               \/ \E h \in Suffix : TakeId(p, h)
               \/ WriteEnvelope(p) \/ WriteSidecar(p) \/ OpenLock(p) \/ ListScans(p)
               \/ PruneEnvelope(p) \/ PruneSidecars(p) \/ Unlock(p)
        PROVE  MetaUpdate'
    <2>1. UNCHANGED <<file, tmp, path, value, at>>
      BY <1>5 DEF TakeId, WriteEnvelope, WriteSidecar, OpenLock, ListScans, PruneEnvelope,
                  PruneSidecars, Unlock
    <2>2. /\ pc'[p] \notin {"open", "write", "rename"}
          /\ \A q \in Proc : q # p => pc'[q] = pc[q]
      BY <1>5 DEF TakeId, WriteEnvelope, WriteSidecar, OpenLock, ListScans, PruneEnvelope,
                  PruneSidecars, Unlock, Goto, TypeOK
    <2> QED
      BY <2>1, <2>2, QuietMeta DEF Updating
  <1>6. ASSUME NEW p \in Proc, Lock(p)
        PROVE  MetaUpdate'
    <2>1. op[p] \in {"record", "delete_scan", "delete_project"}
      BY <1>6 DEF Lock, Shape
    <2>2. /\ UNCHANGED <<file, tmp, path, value, at>>
          /\ pc'[p] \notin {"open", "write", "rename"}
          /\ \A q \in Proc : q # p => pc'[q] = pc[q]
      BY <1>6, <2>1 DEF Lock, Goto, TypeOK
    <2> QED
      BY <2>2, QuietMeta DEF Updating
  <1>7. ASSUME NEW p \in Proc, End(p)
        PROVE  MetaUpdate'
    <2>1. /\ UNCHANGED <<file, tmp, path, value>>
          /\ pc'[p] = "idle"
          /\ \A q \in Proc : q # p => pc'[q] = pc[q] /\ at'[q] = at[q]
      BY <1>7 DEF End, Goto, TypeOK
    <2> QED
      BY <2>1, QuietMeta DEF Updating
  <1>8. ASSUME \/ \E s \in DOMAIN taken : Requested(s)
               \/ DeleteProject \/ Regenerate \/ RemoveScan
        PROVE  MetaUpdate'
    <2>1. UNCHANGED <<file, tmp, path, value, at>>
      BY <1>8 DEF Requested, SetLabel, ClearLabel, ReadUnanalysed, DeleteScan, DeleteProject,
                  Regenerate, RemoveScan
    <2>2. /\ pc'[Server] \notin {"open", "write", "rename"}
          /\ \A q \in Proc : q # Server => pc'[q] = pc[q]
      BY <1>8 DEF Requested, SetLabel, ClearLabel, ReadUnanalysed, DeleteScan, DeleteProject,
                  Regenerate, RemoveScan, Request, Goto, TypeOK
    <2> QED
      BY <2>1, <2>2, QuietMeta DEF Updating
  <1> QED
    BY <1>1, <1>2, <1>3, <1>4, <1>5, <1>6, <1>7, <1>8, Cases, MetaWrites

\* Files appear and stay.
LEMMA QuietSnapshots ==
  ASSUME TypeOK, Shape, Snapshots,
         \A x \in Path : file[x] # NoFile => file'[x] # NoFile,
         taken' = taken, envelope' \subseteq envelope,
         \A p \in Proc : pc'[p] = "id" => pc[p] = "id" /\ path'[p] = path[p],
         \A p \in Proc : pc'[p] = "envelope" => pc[p] = "envelope" /\ scan'[p] = scan[p]
  PROVE  Snapshots'
  <1>1. Config \subseteq Path
    BY DEF Path
  <1>2. \A s \in envelope : taken[s] \in Path
    BY <1>1 DEF TypeOK, Shape
  <1>3. \A p \in Proc : pc[p] = "envelope" => scan[p] \in DOMAIN taken
    BY DEF Shape
  <1>4. \A p \in Proc : pc[p] = "envelope" => taken[scan[p]] \in Path
    BY <1>1, <1>3 DEF Shape
  <1>5. \A p \in Proc : path[p] \in Path
    BY DEF TypeOK
  <1> QED
    BY <1>2, <1>4, <1>5 DEF Snapshots

LEMMA SnapshotsNext ==
  ASSUME TypeOK, Shape, Snapshots, [Next]_vars, gen' = 0
  PROVE  Snapshots'
  <1> USE ServerIn
  <1>1. gen = 0 /\ ~RemoveProject
    BY GenGrows
  <1>2. CASE UNCHANGED vars \/ Tick
    BY <1>2, QuietSnapshots DEF vars, Tick
  <1>3. ASSUME NEW p \in Recorder, NEW c \in Config, Record(p, c)
        PROVE  Snapshots'
    <2>1. p \in Proc
      BY DEF Proc
    <2>2. /\ UNCHANGED <<file, taken, envelope>> /\ path'[p] = c
          /\ pc'[p] \in {"open", "id"} /\ (pc'[p] = "id" => file[c] # NoFile)
          /\ \A q \in Proc : q # p =>
               pc'[q] = pc[q] /\ path'[q] = path[q] /\ scan'[q] = scan[q]
      BY <1>3, <2>1 DEF Record, Goto, TypeOK
    <2> QED
      BY <2>1, <2>2 DEF Snapshots
  <1>4. ASSUME NEW p \in Proc, OpenTmp(p) \/ WriteTmp(p)
        PROVE  Snapshots'
    <2>1. value[p] # NoFile /\ path[p] \in Path
      BY DEF TypeOK
    <2>2. \A x \in Path : file[x] # NoFile => file'[x] # NoFile
      BY <1>4, <2>1 DEF OpenTmp, WriteTmp, TypeOK
    <2>3. /\ UNCHANGED <<taken, envelope, path, scan>>
          /\ pc'[p] \in {"write", "rename"}
          /\ \A q \in Proc : q # p => pc'[q] = pc[q]
      BY <1>4 DEF OpenTmp, WriteTmp, Goto, TypeOK
    <2> QED
      BY <2>2, <2>3, QuietSnapshots
  <1>5. ASSUME NEW p \in Proc, RenameTmp(p)
        PROVE  Snapshots'
    <2>1. path[p] \in Path /\ tmp[path[p]] # NoFile
      BY <1>5 DEF RenameTmp, TypeOK
    <2>2. file'[path[p]] # NoFile /\ \A x \in Path : file[x] # NoFile => file'[x] # NoFile
      BY <1>5, <2>1 DEF RenameTmp, TypeOK
    <2>3. /\ UNCHANGED <<taken, envelope, path, scan>>
          /\ pc'[p] \in {"list", "id"}
          /\ \A q \in Proc : q # p => pc'[q] = pc[q]
      BY <1>5 DEF RenameTmp, Goto, TypeOK
    <2>4. /\ \A s \in envelope : file'[taken[s]] # NoFile
          /\ \A q \in Proc : pc'[q] = "envelope" => file'[taken[scan[q]]] # NoFile
      <3>1. /\ \A s \in envelope : taken[s] \in Path
            /\ \A q \in Proc : pc[q] = "envelope" => taken[scan[q]] \in Path
        BY DEF TypeOK, Shape, Path
      <3> QED
        BY <2>2, <2>3, <3>1 DEF Snapshots
    <2>5. \A q \in Proc : pc'[q] = "id" => file'[path[q]] # NoFile
      BY <2>2, <2>3 DEF Snapshots, TypeOK
    <2> QED
      BY <2>3, <2>4, <2>5 DEF Snapshots
  <1>6. ASSUME NEW p \in Proc, NEW h \in Suffix, TakeId(p, h)
        PROVE  Snapshots'
    <2> DEFINE s == <<now, h>>
    <2>1. /\ s \notin DOMAIN taken /\ scan'[p] = s /\ taken'[s] = path[p]
          /\ \A t \in DOMAIN taken : taken'[t] = taken[t]
          /\ UNCHANGED <<file, path, envelope>>
          /\ pc[p] = "id" /\ pc'[p] = "envelope"
          /\ \A q \in Proc : q # p => pc'[q] = pc[q] /\ scan'[q] = scan[q]
      BY <1>6 DEF TakeId, Goto, TypeOK
    <2> HIDE DEF s
    <2>2. \A t \in envelope : t \in DOMAIN taken
      BY DEF TypeOK
    <2>3. \A q \in Proc : pc[q] = "envelope" => scan[q] \in DOMAIN taken
      BY DEF Shape
    <2> QED
      BY <2>1, <2>2, <2>3 DEF Snapshots
  <1>7. ASSUME NEW p \in Proc, WriteEnvelope(p)
        PROVE  Snapshots'
    <2>1. /\ UNCHANGED <<file, taken, path, scan>> /\ envelope' = envelope \cup {scan[p]}
          /\ pc[p] = "envelope" /\ pc'[p] = "analytics"
          /\ \A q \in Proc : q # p => pc'[q] = pc[q]
      BY <1>7 DEF WriteEnvelope, Goto, TypeOK
    <2> QED
      BY <2>1 DEF Snapshots
  <1>8. ASSUME NEW p \in Proc,
               \/ WriteSidecar(p) \/ OpenLock(p) \/ ReadMeta(p) \/ ListScans(p)
               \/ PruneEnvelope(p) \/ PruneSidecars(p) \/ Unlock(p) \/ End(p)
        PROVE  Snapshots'
    <2>1. UNCHANGED <<file, taken, scan>> /\ envelope' \subseteq envelope
      BY <1>8 DEF WriteSidecar, OpenLock, ReadMeta, ListScans, PruneEnvelope,
                  PruneSidecars, Unlock, End
    <2>2. /\ pc'[p] \notin {"id", "envelope"}
          /\ \A q \in Proc : q # p => pc'[q] = pc[q] /\ path'[q] = path[q]
      BY <1>8 DEF WriteSidecar, OpenLock, ReadMeta, ListScans, PruneEnvelope,
                  PruneSidecars, Unlock, End, Goto, TypeOK
    <2> QED
      BY <2>1, <2>2, QuietSnapshots
  <1>9. ASSUME NEW p \in Proc, Lock(p)
        PROVE  Snapshots'
    <2>1. op[p] \in {"record", "delete_scan", "delete_project"}
      BY <1>9 DEF Lock, Shape
    <2>2. /\ UNCHANGED <<file, taken, envelope, path, scan>>
          /\ pc'[p] \notin {"id", "envelope"}
          /\ \A q \in Proc : q # p => pc'[q] = pc[q]
      BY <1>9, <2>1 DEF Lock, Goto, TypeOK
    <2> QED
      BY <2>2, QuietSnapshots
  <1>10. ASSUME \/ \E s \in DOMAIN taken : Requested(s)
                \/ DeleteProject \/ Regenerate \/ RemoveScan
         PROVE  Snapshots'
    <2>1. UNCHANGED <<file, taken, path>> /\ envelope' \subseteq envelope
      BY <1>10 DEF Requested, SetLabel, ClearLabel, ReadUnanalysed, DeleteScan, DeleteProject,
                   Regenerate, RemoveScan
    <2>2. /\ pc'[Server] \notin {"id", "envelope"}
          /\ \A q \in Proc : q # Server => pc'[q] = pc[q] /\ scan'[q] = scan[q]
      BY <1>10 DEF Requested, SetLabel, ClearLabel, ReadUnanalysed, DeleteScan, DeleteProject,
                   Regenerate, RemoveScan, Request, Goto, TypeOK
    <2> QED
      BY <2>1, <2>2, QuietSnapshots
  <1> QED
    BY <1>1, <1>2, <1>3, <1>4, <1>5, <1>6, <1>7, <1>8, <1>9, <1>10, Cases

\* Nobody begins to write a snapshot.
LEMMA QuietIntact ==
  ASSUME Intact, UNCHANGED <<file, tmp, shared>>,
         \A p \in Proc : pc'[p] \in {"write", "rename"} =>
           pc'[p] = pc[p] /\ path'[p] = path[p] /\ at'[p] = at[p]
  PROVE  Intact'
  <1>1. \A p \in Proc, c \in Config : Filling(p, c)' => Filling(p, c)
    BY DEF Filling
  <1>2. ASSUME NEW c \in Config, c \notin shared, NEW p \in Proc, Filling(p, c)'
        PROVE  Alone(p, c)'
    <2>1. Filling(p, c) /\ Alone(p, c)
      BY <1>1, <1>2 DEF Intact
    <2>2. pc'[p] = pc[p] /\ at'[p] = at[p]
      BY <1>2 DEF Filling
    <2> QED
      BY <1>1, <2>1, <2>2 DEF Alone
  <1> QED
    BY <1>2 DEF Intact

\* Opening, filling and renaming a temporary file.
LEMMA WritesIntact ==
  ASSUME TypeOK, Intact, NEW p \in Proc, OpenTmp(p) \/ WriteTmp(p) \/ RenameTmp(p),
         NEW c \in Config, c \notin shared'
  PROVE  /\ file'[c] # Torn
         /\ \A q \in Proc : Filling(q, c)' => Alone(q, c)'
  <1>1. c \in Path /\ path[p] \in Path /\ UNCHANGED path
    BY DEF TypeOK, Path, OpenTmp, WriteTmp, RenameTmp
  <1>2. c \notin shared /\ file[c] # Torn /\ \A q \in Proc : Filling(q, c) => Alone(q, c)
    BY DEF Intact, OpenTmp, WriteTmp, RenameTmp
  <1>3. \A q \in Proc : q # p => pc'[q] = pc[q]
    BY DEF OpenTmp, WriteTmp, RenameTmp, Goto, TypeOK
  <1>4. CASE path[p] # c
    <2>1. file'[c] = file[c] /\ tmp'[c] = tmp[c]
      BY <1>1, <1>4 DEF OpenTmp, WriteTmp, RenameTmp, TypeOK
    <2>2. \A q \in Proc : path[q] = c => at'[q] = at[q]
      BY <1>4 DEF OpenTmp, WriteTmp, RenameTmp, TypeOK
    <2>3. \A q \in Proc : Filling(q, c)' => q # p /\ Filling(q, c)
      BY <1>1, <1>3, <1>4 DEF Filling
    <2>4. ASSUME NEW q \in Proc, Filling(q, c)'
          PROVE  Alone(q, c)'
      <3>1. Alone(q, c) /\ pc'[q] = pc[q] /\ at'[q] = at[q]
        BY <1>2, <1>3, <2>2, <2>3, <2>4 DEF Filling
      <3> QED
        BY <2>1, <2>3, <3>1 DEF Alone
    <2> QED
      BY <1>2, <2>1, <2>4
  <1>5. CASE path[p] = c /\ OpenTmp(p)
    <2>1. \A q \in Proc : q # p => ~(path[q] = c /\ at[q] = "tmp")
      BY <1>5 DEF OpenTmp
    <2>2. \A q \in Proc : q # p => ~Filling(q, c)
      BY <1>2, <2>1 DEF Alone, Filling
    <2>3. \A q \in Proc : q # p => ~Filling(q, c)'
      BY <1>1, <1>3, <2>2 DEF Filling
    <2>4. pc'[p] = "write" /\ at'[p] = "tmp" /\ file' = file
      BY <1>5 DEF OpenTmp, Goto, TypeOK
    <2>5. Alone(p, c)'
      BY <2>3, <2>4 DEF Alone
    <2> QED
      BY <1>2, <2>3, <2>4, <2>5
  <1>6. CASE path[p] = c /\ WriteTmp(p)
    <2>1. Filling(p, c) /\ Alone(p, c)
      BY <1>2, <1>6 DEF WriteTmp, Filling
    <2>2. /\ pc'[p] = "rename" /\ at' = at
          /\ tmp'[c] = value[p] /\ value[p] # Torn /\ file'[c] = file[c]
      BY <1>1, <1>6, <2>1 DEF WriteTmp, Alone, Goto, TypeOK
    <2>3. \A q \in Proc : q # p => ~Filling(q, c)'
      BY <1>1, <1>3, <2>1 DEF Alone, Filling
    <2>4. Alone(p, c)'
      BY <2>1, <2>2, <2>3 DEF Alone
    <2> QED
      BY <1>2, <2>2, <2>3, <2>4
  <1>7. CASE path[p] = c /\ RenameTmp(p)
    <2>1. pc[p] = "rename" /\ Alone(p, c)
      BY <1>2, <1>7 DEF RenameTmp, Filling
    <2>2. pc'[p] \in {"list", "id"} /\ file'[c] = tmp[c]
      BY <1>1, <1>7 DEF RenameTmp, Goto, TypeOK
    <2>3. \A q \in Proc : ~Filling(q, c)'
      BY <1>1, <1>3, <2>1, <2>2 DEF Alone, Filling
    <2> QED
      BY <2>1, <2>2, <2>3 DEF Alone
  <1> QED
    BY <1>4, <1>5, <1>6, <1>7

LEMMA IntactNext ==
  ASSUME TypeOK, Shape, Intact, [Next]_vars, gen' = 0
  PROVE  Intact'
  <1> USE ServerIn
  <1>1. ~RemoveProject
    BY GenGrows
  <1>2. CASE UNCHANGED vars \/ Tick
    BY <1>2, QuietIntact DEF vars, Tick
  <1>3. ASSUME NEW p \in Recorder, NEW c \in Config, Record(p, c)
        PROVE  Intact'
    <2>1. p \in Proc
      BY DEF Proc
    <2>2. /\ UNCHANGED <<file, tmp, shared, at>>
          /\ pc'[p] \in {"open", "id"}
          /\ \A q \in Proc : q # p => pc'[q] = pc[q] /\ path'[q] = path[q]
      BY <1>3, <2>1 DEF Record, Goto, TypeOK
    <2> QED
      BY <2>2, QuietIntact
  <1>4. ASSUME NEW p \in Proc, OpenTmp(p) \/ WriteTmp(p) \/ RenameTmp(p)
        PROVE  Intact'
    BY <1>4, WritesIntact DEF Intact
  <1>5. ASSUME NEW p \in Proc,
               \/ \E h \in Suffix : TakeId(p, h)
               \/ WriteEnvelope(p) \/ WriteSidecar(p) \/ OpenLock(p) \/ ReadMeta(p)
               \/ ListScans(p) \/ PruneEnvelope(p) \/ PruneSidecars(p) \/ Unlock(p)
        PROVE  Intact'
    <2>1. UNCHANGED <<file, tmp, shared, at>>
      BY <1>5 DEF TakeId, WriteEnvelope, WriteSidecar, OpenLock, ReadMeta, ListScans,
                  PruneEnvelope, PruneSidecars, Unlock
    <2>2. /\ pc'[p] \notin {"write", "rename"}
          /\ \A q \in Proc : q # p => pc'[q] = pc[q] /\ path'[q] = path[q]
      BY <1>5 DEF TakeId, WriteEnvelope, WriteSidecar, OpenLock, ReadMeta, ListScans,
                  PruneEnvelope, PruneSidecars, Unlock, Goto, TypeOK
    <2> QED
      BY <2>1, <2>2, QuietIntact
  <1>6. ASSUME NEW p \in Proc, Lock(p)
        PROVE  Intact'
    <2>1. op[p] \in {"record", "delete_scan", "delete_project"}
      BY <1>6 DEF Lock, Shape
    <2>2. /\ UNCHANGED <<file, tmp, shared, path, at>>
          /\ pc'[p] \notin {"write", "rename"}
          /\ \A q \in Proc : q # p => pc'[q] = pc[q]
      BY <1>6, <2>1 DEF Lock, Goto, TypeOK
    <2> QED
      BY <2>2, QuietIntact
  <1>7. ASSUME NEW p \in Proc, End(p)
        PROVE  Intact'
    <2>1. /\ UNCHANGED <<file, tmp, shared, path>>
          /\ pc'[p] = "idle"
          /\ \A q \in Proc : q # p => pc'[q] = pc[q] /\ at'[q] = at[q]
      BY <1>7 DEF End, Goto, TypeOK
    <2> QED
      BY <2>1, QuietIntact
  <1>8. ASSUME \/ \E s \in DOMAIN taken : Requested(s)
               \/ DeleteProject \/ Regenerate \/ RemoveScan
        PROVE  Intact'
    <2>1. UNCHANGED <<file, tmp, shared, path, at>>
      BY <1>8 DEF Requested, SetLabel, ClearLabel, ReadUnanalysed, DeleteScan, DeleteProject,
                  Regenerate, RemoveScan
    <2>2. /\ pc'[Server] \notin {"write", "rename"}
          /\ \A q \in Proc : q # Server => pc'[q] = pc[q]
      BY <1>8 DEF Requested, SetLabel, ClearLabel, ReadUnanalysed, DeleteScan, DeleteProject,
                  Regenerate, RemoveScan, Request, Goto, TypeOK
    <2> QED
      BY <2>1, <2>2, QuietIntact
  <1> QED
    BY <1>1, <1>2, <1>3, <1>4, <1>5, <1>6, <1>7, <1>8, Cases

\* More scans only make a scan older.
LEMMA MoreNewer ==
  ASSUME NEW S, NEW T, IsFiniteSet(T), S \subseteq T, NEW s,
         Cardinality(NewerThan(s, S)) >= MaxScans
  PROVE  Cardinality(NewerThan(s, T)) >= MaxScans
  <1>1. NewerThan(s, S) \subseteq NewerThan(s, T) /\ NewerThan(s, T) \subseteq T
    BY DEF NewerThan
  <1>2. IsFiniteSet(NewerThan(s, T))
    BY <1>1, FS_Subset
  <1>3. /\ Cardinality(NewerThan(s, S)) <= Cardinality(NewerThan(s, T))
        /\ Cardinality(NewerThan(s, S)) \in Nat /\ Cardinality(NewerThan(s, T)) \in Nat
    BY <1>1, <1>2, FS_Subset, FS_CardinalityType
  <1> QED
    BY <1>3, Bounds

LEMMA QuietNewest ==
  ASSUME Pruning', Newest, envelope \subseteq envelope',
         \A p \in Proc : pc'[p] \in {"prune", "sidecars"} =>
           pc[p] \in {"prune", "sidecars"} /\ doomed'[p] \subseteq doomed[p]
  PROVE  Newest'
  <1>1. IsFiniteSet(envelope')
    BY DEF Pruning
  <1> QED
    BY <1>1, MoreNewer DEF Newest

\* While one process is under the lock nobody else is pruning.
LEMMA PrunesAlone ==
  ASSUME TypeOK, Shape, Locking, gen = 0, NEW p \in Proc, InLock(p)
  PROVE  \A q \in Proc : q # p => pc[q] \notin {"prune", "sidecars"}
  BY OneInLock DEF InLock

LEMMA NewestNext ==
  ASSUME TypeOK, Shape, Locking, Pruning', Newest, [Next]_vars, gen' = 0
  PROVE  Newest'
  <1> USE ServerIn
  <1>1. gen = 0 /\ ~RemoveProject
    BY GenGrows
  <1>2. CASE UNCHANGED vars \/ Tick
    BY <1>2, QuietNewest DEF vars, Tick
  <1>3. ASSUME NEW p \in Recorder, NEW c \in Config, Record(p, c)
        PROVE  Newest'
    <2>1. p \in Proc
      BY DEF Proc
    <2>2. /\ UNCHANGED <<envelope, doomed>> /\ pc'[p] \in {"open", "id"}
          /\ \A q \in Proc : q # p => pc'[q] = pc[q]
      BY <1>3, <2>1 DEF Record, Goto, TypeOK
    <2> QED
      BY <2>2, QuietNewest
  <1>4. ASSUME NEW p \in Proc,
               \/ OpenTmp(p) \/ WriteTmp(p) \/ RenameTmp(p)
               \/ \E h \in Suffix : TakeId(p, h)
               \/ WriteEnvelope(p) \/ WriteSidecar(p) \/ OpenLock(p)
               \/ ReadMeta(p) \/ Unlock(p) \/ End(p)
        PROVE  Newest'
    <2>1. envelope \subseteq envelope'
      BY <1>4 DEF OpenTmp, WriteTmp, RenameTmp, TakeId, WriteEnvelope, WriteSidecar,
                  OpenLock, ReadMeta, Unlock, End
    <2>2. /\ pc'[p] \notin {"prune", "sidecars"}
          /\ \A q \in Proc : q # p => pc'[q] = pc[q] /\ doomed'[q] = doomed[q]
      BY <1>4 DEF OpenTmp, WriteTmp, RenameTmp, TakeId, WriteEnvelope, WriteSidecar,
                  OpenLock, ReadMeta, Unlock, End, Goto, TypeOK
    <2> QED
      BY <2>1, <2>2, QuietNewest
  <1>5. ASSUME NEW p \in Proc, Lock(p)
        PROVE  Newest'
    <2>1. op[p] \in {"record", "delete_scan", "delete_project"}
      BY <1>5 DEF Lock, Shape
    <2>2. /\ UNCHANGED <<envelope, doomed>>
          /\ pc'[p] \notin {"prune", "sidecars"}
          /\ \A q \in Proc : q # p => pc'[q] = pc[q]
      BY <1>5, <2>1 DEF Lock, Goto, TypeOK
    <2> QED
      BY <2>2, QuietNewest
  <1>6. ASSUME NEW p \in Proc, ListScans(p)
        PROVE  Newest'
    <2>1. /\ envelope' = envelope /\ doomed'[p] = Excess(envelope)
          /\ \A q \in Proc : q # p => pc'[q] = pc[q] /\ doomed'[q] = doomed[q]
      BY <1>6 DEF ListScans, Goto, TypeOK
    <2>2. \A s \in Excess(envelope) : Cardinality(NewerThan(s, envelope)) >= MaxScans
      BY DEF Excess, NewerThan
    <2> QED
      BY <2>1, <2>2 DEF Newest
  <1>7. ASSUME NEW p \in Proc, PruneEnvelope(p)
        PROVE  Newest'
    <2>1. PICK s \in doomed[p] : IsOldest(s, doomed[p]) /\ envelope' = envelope \ {s}
      BY <1>7 DEF PruneEnvelope
    <2>2. /\ pc[p] = "prune" /\ doomed' = doomed
          /\ \A q \in Proc : q # p => pc'[q] = pc[q]
      BY <1>7 DEF PruneEnvelope, Goto, TypeOK
    <2>3. \A q \in Proc : q # p => pc[q] \notin {"prune", "sidecars"}
      BY <1>1, <2>2, PrunesAlone DEF InLock
    <2>4. ASSUME NEW t \in doomed[p]
          PROVE  NewerThan(t, envelope') = NewerThan(t, envelope)
      <3>1. s \in ScanId /\ t \in ScanId
        BY DEF TypeOK
      <3>2. ~Older(t, s)
        BY <2>1, <3>1, OlderOrder DEF IsOldest
      <3> QED
        BY <2>1, <3>2 DEF NewerThan
    <2>5. \A t \in doomed[p] : Cardinality(NewerThan(t, envelope)) >= MaxScans
      BY <2>2 DEF Newest
    <2> QED
      BY <2>2, <2>3, <2>4, <2>5 DEF Newest
  <1>8. ASSUME NEW p \in Proc, PruneSidecars(p)
        PROVE  Newest'
    <2>1. /\ envelope' = envelope /\ pc[p] = "sidecars" /\ doomed'[p] \subseteq doomed[p]
          /\ \A q \in Proc : q # p => pc'[q] = pc[q] /\ doomed'[q] = doomed[q]
      BY <1>8 DEF PruneSidecars, Goto, TypeOK
    <2> QED
      BY <2>1, QuietNewest
  <1>9. ASSUME \/ \E s \in DOMAIN taken : Requested(s)
               \/ DeleteProject \/ Regenerate
        PROVE  Newest'
    <2>1. UNCHANGED <<envelope, doomed>>
      BY <1>9 DEF Requested, SetLabel, ClearLabel, ReadUnanalysed, DeleteScan, DeleteProject,
                  Regenerate
    <2>2. /\ pc'[Server] \notin {"prune", "sidecars"}
          /\ \A q \in Proc : q # Server => pc'[q] = pc[q]
      BY <1>9 DEF Requested, SetLabel, ClearLabel, ReadUnanalysed, DeleteScan, DeleteProject,
                  Regenerate, Request, Goto, TypeOK
    <2> QED
      BY <2>1, <2>2, QuietNewest
  <1>10. CASE RemoveScan
    <2>1. /\ pc[Server] = "remove" /\ pc'[Server] = "unlock"
          /\ \A q \in Proc : q # Server => pc'[q] = pc[q]
      BY <1>10 DEF RemoveScan, Goto, TypeOK
    <2>2. \A q \in Proc : q # Server => pc[q] \notin {"prune", "sidecars"}
      BY <1>1, <2>1, PrunesAlone DEF InLock
    <2>3. \A q \in Proc : pc'[q] \notin {"prune", "sidecars"}
      BY <2>1, <2>2
    <2> QED
      BY <2>3 DEF Newest
  <1> QED
    BY <1>1, <1>2, <1>3, <1>4, <1>5, <1>6, <1>7, <1>8, <1>9, <1>10, Cases

IInv ==
  /\ TypeOK /\ Shape /\ Locking /\ Pruning
  /\ gen = 0 => FirstLife

LEMMA Inductive == Spec => []IInv
  <1>1. Init => IInv
    BY TypedInit, LockingInit, PruningInit, FirstLifeInit DEF IInv
  <1>2. ASSUME IInv, [Next]_vars
        PROVE  IInv'
    <2>1. TypeOK' /\ Shape' /\ Locking' /\ Pruning'
      BY <1>2, TypedNext, LocksNext, PruningNext DEF IInv
    <2>2. ASSUME gen' = 0
          PROVE  FirstLife'
      <3>1. gen = 0
        BY <1>2, <2>2, GenGrows DEF IInv
      <3> QED
        BY <1>2, <2>1, <2>2, <3>1, MetaNext, SnapshotsNext, IntactNext, NewestNext
           DEF IInv, FirstLife
    <2> QED
      BY <2>1, <2>2 DEF IInv
  <1> QED
    BY <1>1, <1>2, PTL DEF Spec

\* Until the project is first deleted meta.json is never torn.
THEOREM MetaStaysWhole == Spec => []MetaWhole
  <1>1. IInv => MetaWhole
    BY DEF IInv, FirstLife, MetaUpdate, MetaWhole
  <1> QED
    BY <1>1, Inductive, PTL

\* Until then every scan has its config snapshot, and a snapshot is torn only if
\* two recorders had its temporary name open at once.
THEOREM SnapshotsPresent == Spec => []SnapshotPresent
  <1>1. IInv => SnapshotPresent
    BY DEF IInv, FirstLife, Snapshots, Intact, SnapshotPresent
  <1> QED
    BY <1>1, Inductive, PTL

\* Until then, too, first_seen never changes.
THEOREM FirstSeenStays == Spec => FirstSeenKept
  <1>1. ASSUME IInv, [Next]_vars, gen' = 0, file["meta"] # NoFile
        PROVE  file'["meta"] = file["meta"]
    <2>1. gen = 0 /\ ~RemoveProject /\ TypeOK /\ MetaUpdate /\ "meta" \in Path
      BY <1>1, GenGrows DEF IInv, FirstLife, Path
    <2>2. ASSUME NEW p \in Proc, WriteTmp(p)
          PROVE  file'["meta"] = file["meta"]
      <3>1. path[p] = "meta" => at[p] = "tmp"
        BY <2>1, <2>2 DEF WriteTmp, MetaUpdate, Updating, Update
      <3> QED
        BY <2>1, <2>2, <3>1 DEF WriteTmp, TypeOK
    <2>3. ASSUME NEW p \in Proc, RenameTmp(p)
          PROVE  file'["meta"] = file["meta"]
      <3>1. path[p] = "meta" => tmp["meta"] = file["meta"]
        BY <1>1, <2>1, <2>3 DEF RenameTmp, MetaUpdate, Updating, Update
      <3> QED
        BY <2>1, <2>3, <3>1 DEF RenameTmp, TypeOK
    <2>4. ASSUME Next, ~RemoveProject, \A p \in Proc : ~WriteTmp(p) /\ ~RenameTmp(p)
          PROVE  file' = file
      BY <2>4, ServerIn
         DEF Next, Step, ServerStep, Proc, Requested, Tick, Record, OpenTmp, TakeId,
             WriteEnvelope, WriteSidecar, OpenLock, Lock, ReadMeta, ListScans,
             PruneEnvelope, PruneSidecars, Unlock, Fail, Abort, End, SetLabel, ClearLabel,
             ReadUnanalysed, DeleteScan, DeleteProject, Regenerate, RemoveScan
    <2> QED
      BY <1>1, <2>1, <2>2, <2>3, <2>4 DEF vars
  <1> QED
    BY <1>1, Inductive, PTL DEF Spec, FirstSeenKept

\* Pruning removes a scan only while MaxScans newer ones are there.
THEOREM NewestKept == Spec => KeepsNewest
  <1>1. ASSUME IInv
        PROVE  \A p \in Recorder :
                 gen = 0 /\ PruneEnvelope(p) =>
                   \A s \in envelope \ envelope' :
                     Cardinality({t \in envelope : Older(s, t)}) >= MaxScans
    <2>1. SUFFICES ASSUME NEW p \in Recorder, gen = 0, PruneEnvelope(p),
                          NEW s \in envelope \ envelope'
                   PROVE  Cardinality({t \in envelope : Older(s, t)}) >= MaxScans
      OBVIOUS
    <2>2. s \in doomed[p] /\ pc[p] = "prune" /\ p \in Proc
      BY <2>1 DEF PruneEnvelope, Proc
    <2>3. Newest
      BY <1>1, <2>1 DEF IInv, FirstLife
    <2> QED
      BY <2>2, <2>3 DEF Newest, NewerThan
  <1> QED
    BY <1>1, Inductive, PTL DEF KeepsNewest
===============================================================================
