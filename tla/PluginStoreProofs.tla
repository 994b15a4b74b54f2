-------------------------- MODULE PluginStoreProofs ---------------------------
(***************************************************************************)
(* Proofs about the plugin store: its types, that it implements the map    *)
(* from names to sources of PluginRegistry, and what commands that are     *)
(* refused, removals and undisturbed listings do.                          *)
(***************************************************************************)
EXTENDS PluginStore, TLAPS

USE PluginConstants

-----------------------------------------------------------------------------
(* The inductive invariant.                                                *)

\* Who is in the middle of a command holds the lock, and nobody else does.
Holder == \A w \in Writer : lock = w <=> pc[w] \notin {"idle", "lock"}

\* Clones come from repositories and are no newer than these; all else comes
\* from local sources, which have no commits.
Original(d) ==
  IF d.kind = "clone"
    THEN d.of \in Git /\ d.head <= head[d.of]
    ELSE d.of \in Path /\ d.head = 0 /\ d.state # "pull"

Origins ==
  /\ \A n \in Name : dir[n] # NoDir => Original(dir[n])
  /\ \A n \in Name : sidecar[n] # NoSource /\ sidecar[n].of \in Path => sidecar[n].sha = 0

Now(n) == Installed(dir[n], sidecar[n])

\* Away from the name that the holder of the lock works on, the store is what
\* it was when the lock was last released.
Settled ==
  \A n \in Name :
    (\A w \in Writer : lock = w => job[w].name # n) =>
      kept[n] = Now(n) /\ (dir[n] # NoDir => dir[n].state # "pull")

\* What the holder knows of the name it works on.
Untouched(n) == kept[n] = Now(n) /\ (dir[n] # NoDir => dir[n].state # "pull")

Renews(n, s) ==
  /\ sidecar[n] # NoSource /\ sidecar[n].of = s
  /\ kept[n] \in Record => kept[n] = sidecar[n]

AtWork(w) ==
  LET n == job[w].name
      s == job[w].of
      k == job[w].kind
      at == pc[w]
  IN /\ at \in {"local", "git", "update", "remove"} => k = at
     /\ at \in {"lock", "local", "git", "update", "remove"} =>
          /\ k = "git" \/ n \in Name
          /\ k = "local" => s \in Path
          /\ k = "git" => s \in Git
     /\ at \in {"local", "git", "update", "remove"} /\ n \in Name => Untouched(n)
     /\ at = "copy" =>
          /\ n \in Name /\ s \in Path
          /\ dir[n] = [kind |-> "copy", of |-> s, head |-> 0, state |-> "part"]
          /\ (k = "local" /\ kept[n] = Absent) \/ (k = "update" /\ Renews(n, s))
     /\ at = "cloning" =>
          /\ n \in Name /\ s \in Git /\ k = "git" /\ kept[n] = Absent
          /\ dir[n] = [kind |-> "clone", of |-> s, head |-> 0, state |-> "part"]
     /\ at = "resolve" =>
          /\ n \in Name /\ s \in Git /\ k = "git" /\ kept[n] = Absent
          /\ dir[n] # NoDir /\ dir[n].kind = "clone" /\ dir[n].of = s
          /\ dir[n].state = "whole"
     /\ at = "sidecar" =>
          /\ n \in Name /\ s \in Source /\ dir[n] # NoDir /\ dir[n].state # "pull"
          /\ s \in Path => dir[n].head = 0
          /\ \/ k \in {"local", "git"} /\ kept[n] = Absent
             \/ /\ k = "update" /\ Renews(n, s)
                /\ kept[n] \in Record => dir[n].head >= kept[n].sha
     /\ at = "pull" =>
          /\ n \in Name /\ s \in Git /\ k = "update" /\ dir[n] # NoDir
          /\ Renews(n, s) /\ Untouched(n)
     /\ at = "pulling" =>
          /\ n \in Name /\ s \in Git /\ k = "update" /\ dir[n] # NoDir /\ Renews(n, s)
          /\ kept[n] = Installed(Unpulled(dir[n]), sidecar[n])
     /\ at = "clear" =>
          /\ n \in Name /\ s \in Path /\ k = "update" /\ dir[n] # NoDir
          /\ Renews(n, s) /\ Untouched(n)
     /\ at = "removing" =>
          n \in Name /\ k = "remove" /\ dir[n] # NoDir /\ dir[n].state = "part"
     /\ at = "removed" => n \in Name /\ k = "remove" /\ dir[n] = NoDir

\* A listing that has met no command has seen the store as it still is.
Listing ==
  \A l \in Lister : undisturbed[l] =>
    /\ lock = Nobody
    /\ found[l] # NoName =>
         dir[found[l].name] # NoDir /\ found[l].manifest = dir[found[l].name].of
    /\ \A e \in listed[l] :
         /\ dir[e.name] # NoDir /\ e.manifest = dir[e.name].of
         /\ sidecar[e.name] # NoSource /\ e.source = sidecar[e.name]
    /\ \A n \in Name : kept[n] \in Record /\ Exists(n) =>
         \/ n \in todo[l]
         \/ found[l] # NoName /\ found[l].name = n
         \/ [name |-> n, manifest |-> kept[n].of, source |-> kept[n]] \in listed[l]

IInv == Holder /\ Origins /\ Settled /\ (\A w \in Writer : AtWork(w)) /\ Listing

-----------------------------------------------------------------------------
(* Types.                                                                  *)

LEMMA TypedInit == Init => TypeOK
  BY DEF Init, TypeOK, NoJob, Job, Locals

LEMMA InstalledType ==
  ASSUME NEW d \in Dir \cup {NoDir}, NEW s \in Record \cup {NoSource}
  PROVE  Installed(d, s) \in Record \cup {Absent, Broken}
  BY DEF Installed

LEMMA ReturnTyped ==
  ASSUME TypeOK, NEW w \in Writer, NEW how \in {"ok", "refused", "failed", "killed"},
         dir' \in [Name -> Dir \cup {NoDir}],
         sidecar' \in [Name -> Record \cup {NoSource}], Return(w, how)
  PROVE  TypeOK'
  <1>1. kept' \in [Name -> Record \cup {Absent, Broken}]
    BY InstalledType DEF Return
  <1>2. NoJob \in Job
    BY DEF NoJob, Job
  <1> QED
    BY <1>1, <1>2 DEF Return, TypeOK, Locals, world, listers

LEMMA GoTyped ==
  ASSUME TypeOK, NEW w \in Writer, NEW there \in Locals,
         dir' \in [Name -> Dir \cup {NoDir}],
         sidecar' \in [Name -> Record \cup {NoSource}], Go(w, there)
  PROVE  TypeOK'
  BY DEF Go, TypeOK, world, listers

\* A directory with another commit or in another state.
LEMMA DirTypes ==
  ASSUME NEW d \in Dir, NEW h \in 0..MaxHead, NEW st \in {"whole", "part", "pull"}
  PROVE  /\ [d EXCEPT !.state = st] \in Dir
         /\ [d EXCEPT !.state = st, !.head = h] \in Dir
  BY DEF Dir

LEMMA HeadType ==
  ASSUME TypeOK, NEW s
  PROVE  HeadOf(s) \in 0..MaxHead /\ 0 \in 0..MaxHead
  BY DEF TypeOK, HeadOf

LEMMA PullTypes ==
  ASSUME TypeOK, NEW d \in Dir
  PROVE  /\ Unpulled(d) \in Dir /\ Pulled(d) \in Dir
         /\ [d EXCEPT !.state = IF @ = "pull" THEN "part" ELSE @] \in Dir
  <1>1. d.state \in {"whole", "part", "pull"} /\ d.head \in 0..MaxHead
    BY DEF Dir
  <1>2. Unpulled(d) \in Dir
    BY <1>1 DEF Dir, Unpulled
  <1>3. Unpulled(d).head \in 0..MaxHead
    BY <1>2 DEF Dir
  <1>4. Pulled(d) \in Dir
    BY <1>2, <1>3, HeadType DEF Dir, Pulled
  <1>5. [d EXCEPT !.state = IF @ = "pull" THEN "part" ELSE @] \in Dir
    BY <1>1 DEF Dir
  <1> QED
    BY <1>2, <1>4, <1>5

\* Whoever is past taking the lock works on an install name, except for a
\* repository that has no slug and for which no name was asked.
LEMMA WorksOn ==
  ASSUME TypeOK, IInv, NEW w \in Writer, pc[w] \notin {"idle", "lock"}
  PROVE  /\ lock = w
         /\ pc[w] # "git" => job[w].name \in Name
         /\ pc[w] = "local" => job[w].of \in Path
         /\ pc[w] \in {"git", "cloning", "resolve", "pull", "pulling"} => job[w].of \in Git
         /\ pc[w] \in {"copy", "clear"} => job[w].of \in Path
         /\ pc[w] \in {"cloning", "copy", "resolve", "sidecar", "pull", "pulling",
                       "clear", "removing"} => dir[job[w].name] \in Dir
  <1> USE DEF TypeOK
  <1>1. lock = w /\ AtWork(w) /\ pc[w] \in Locals
    BY DEF IInv, Holder
  <1>2. pc[w] # "git" => job[w].name \in Name
    BY <1>1 DEF AtWork, Locals
  <1>3. pc[w] \in {"cloning", "copy", "resolve", "sidecar", "pull", "pulling",
                   "clear", "removing"} => dir[job[w].name] # NoDir
    <2>1. CASE pc[w] \in {"cloning", "copy"}
      <3>1. dir[job[w].name].of = job[w].of
        BY <1>1, <2>1 DEF AtWork
      <3>2. \A k, st : [kind |-> k, of |-> job[w].of, head |-> 0, state |-> st] \in Dir
               => [kind |-> k, of |-> job[w].of, head |-> 0, state |-> st] # NoDir
        OBVIOUS
      <3>3. 0 \in 0..MaxHead
        OBVIOUS
      <3> QED
        BY <1>1, <2>1, <3>2, <3>3 DEF AtWork, Dir, Source
    <2> QED
      BY <1>1, <2>1 DEF AtWork
  <1> QED
    BY <1>1, <1>2, <1>3 DEF AtWork

\* An action of a writer that holds the lock.
Works(w) ==
  \/ Place(w) \/ Copy(w) \/ Clone(w) \/ Cloned(w) \/ Resolve(w)
  \/ WriteSidecar(w) \/ ReadSource(w) \/ Pull(w) \/ PullEnds(w)
  \/ Clear(w) \/ RemoveDir(w) \/ Removing(w) \/ RemoveSidecar(w) \/ Kill(w)

LEMMA StoreTyped ==
  ASSUME TypeOK, IInv, NEW w \in Writer, Works(w)
  PROVE  /\ dir' \in [Name -> Dir \cup {NoDir}]
         /\ sidecar' \in [Name -> Record \cup {NoSource}]
  <1> DEFINE n == job[w].name
             s == job[w].of
  <1> USE DEF Holds
  <1>0. /\ 0 \in 0..MaxHead
        /\ dir \in [Name -> Dir \cup {NoDir}]
        /\ sidecar \in [Name -> Record \cup {NoSource}]
    BY DEF TypeOK
  <1>1. CASE Place(w)
    <2>1. /\ s \in Source
          /\ [kind |-> "link", of |-> s, head |-> 0, state |-> "whole"] \in Dir
          /\ [kind |-> "copy", of |-> s, head |-> 0, state |-> "part"] \in Dir
      BY <1>0, <1>1, WorksOn DEF Place, Dir, Source
    <2> QED
      BY <1>0, <1>1, <2>1 DEF Place, Refuse, store
  <1>2. CASE Copy(w)
    <2>1. [dir[n] EXCEPT !.state = "whole"] \in Dir
      <3>1. dir[n] \in Dir
        BY <1>2, WorksOn DEF Copy
      <3> QED
        BY <1>0, <3>1, DirTypes
    <2> QED
      BY <1>0, <1>2, <2>1 DEF Copy, store
  <1>3. CASE Clone(w)
    <2>1. [kind |-> "clone", of |-> s, head |-> 0, state |-> "part"] \in Dir
      BY <1>0, <1>3, WorksOn DEF Clone, Dir, Source
    <2> QED
      BY <1>0, <1>3, <2>1 DEF Clone, Refuse, store
  <1>4. CASE Cloned(w)
    <2>1. [dir[n] EXCEPT !.state = "whole", !.head = HeadOf(s)] \in Dir
      <3>1. dir[n] \in Dir
        BY <1>4, WorksOn DEF Cloned
      <3> QED
        BY <3>1, DirTypes, HeadType
    <2>2. n \in Name
      BY <1>4, WorksOn DEF Cloned
    <2>3. CASE dir' = [dir EXCEPT ![n].state = "whole", ![n].head = HeadOf(s)]
      <3>1. dir' = [dir EXCEPT ![n] = [dir[n] EXCEPT !.state = "whole", !.head = HeadOf(s)]]
        BY <1>0, <2>2, <2>3
      <3> QED
        BY <1>0, <2>1, <3>1, <1>4 DEF Cloned
    <2> QED
      BY <1>0, <1>4, <2>3 DEF Cloned
  <1>5. CASE Resolve(w)
    <2>1. n \in Name /\ dir[n] \in Dir
      BY <1>5, WorksOn DEF Resolve
    <2> QED
      BY <1>0, <1>5, <2>1 DEF Resolve
  <1>6. CASE WriteSidecar(w)
    <2>1. [of |-> s, sha |-> dir[n].head] \in Record
      <3>1. dir[n] \in Dir /\ AtWork(w)
        BY <1>6, WorksOn DEF WriteSidecar, IInv
      <3> QED
        BY <3>1, <1>6 DEF Dir, Record, AtWork, WriteSidecar
    <2> QED
      BY <1>0, <1>6, <2>1 DEF WriteSidecar, store
  <1>7. CASE ReadSource(w)
    BY <1>0, <1>7 DEF ReadSource, Refuse, store
  <1>8. CASE Pull(w)
    <2>1. /\ n \in Name /\ dir[n] \in Dir
          /\ [dir[n] EXCEPT !.state = "pull"] \in Dir
          /\ [dir[n] EXCEPT !.state = dir[n].state] \in Dir
      BY <1>8, WorksOn DEF Pull, Dir
    <2> QED
      BY <1>0, <1>8, <2>1 DEF Pull
  <1>9. CASE PullEnds(w)
    <2>1. n \in Name /\ Unpulled(dir[n]) \in Dir /\ Pulled(dir[n]) \in Dir
      BY <1>9, WorksOn, PullTypes DEF PullEnds
    <2> QED
      BY <1>0, <1>9, <2>1 DEF PullEnds
  <1>10. CASE Clear(w)
    <2>1. /\ n \in Name /\ [dir[n] EXCEPT !.state = "part"] \in Dir
          /\ [kind |-> "copy", of |-> s, head |-> 0, state |-> "part"] \in Dir
      BY <1>0, <1>10, WorksOn DEF Clear, Dir, Source
    <2> QED
      BY <1>0, <1>10, <2>1 DEF Clear
  <1>11. CASE RemoveDir(w)
    <2>1. dir[n] # NoDir => [dir[n] EXCEPT !.state = "part"] \in Dir
      <3>1. n \in Name
        BY <1>11, WorksOn DEF RemoveDir
      <3> QED
        BY <1>0, <3>1, DirTypes
    <2> QED
      BY <1>0, <1>11, <2>1, WorksOn DEF RemoveDir
  <1>12. CASE Removing(w)
    BY <1>0, <1>12 DEF Removing
  <1>13. CASE RemoveSidecar(w)
    BY <1>0, <1>13 DEF RemoveSidecar
  <1>14. CASE Kill(w)
    <2>1. CASE dir' = dir \/ dir' = [dir EXCEPT ![n] = NoDir]
      BY <1>0, <1>14, <2>1 DEF Kill
    <2>2. CASE pc[w] = "pulling"
      <3>1. dir[n] \in Dir
        BY <2>2, WorksOn
      <3> QED
        BY <1>0, <1>14, <2>2, <3>1, PullTypes DEF Kill
    <2> QED
      BY <1>14, <2>1, <2>2 DEF Kill
  <1> QED
    BY <1>1, <1>2, <1>3, <1>4, <1>5, <1>6, <1>7, <1>8, <1>9, <1>10, <1>11,
       <1>12, <1>13, <1>14 DEF Works

\* How it goes on: it goes to a place, returns, or has learnt a name or source.
LEMMA WorksHow ==
  ASSUME TypeOK, IInv, NEW w \in Writer, Works(w)
  PROVE  \/ \E there \in Locals \ {"idle", "lock"} : Go(w, there)
         \/ \E how \in {"ok", "refused", "failed", "killed"} : Return(w, how)
         \/ /\ job' \in [Writer -> Job]
            /\ \E there \in Locals \ {"idle", "lock"} : pc' = [pc EXCEPT ![w] = there]
            /\ UNCHANGED <<world, lock, result, kept, listers, begins>>
  <1> USE DEF Locals
  <1>1. CASE Resolve(w)
    <2>1. job[w].of \in Git /\ job[w] \in Job
      BY <1>1, WorksOn DEF Resolve, TypeOK, Holds
    <2>2. Final(w) \in Name \cup {NoName}
      BY <2>1 DEF Final, Job, Source
    <2>3. [job[w] EXCEPT !.name = Final(w)] \in Job
      BY <2>1, <2>2 DEF Job
    <2>4. [job EXCEPT ![w].name = Final(w)] \in [Writer -> Job]
      BY <2>3 DEF TypeOK
    <2> QED
      BY <1>1, <2>4 DEF Resolve
  <1>2. CASE ReadSource(w)
    <2>1. CASE job' = [job EXCEPT ![w].of = sidecar[job[w].name].of]
               /\ sidecar[job[w].name] # NoSource
      <3>1. job[w].name \in Name
        BY <1>2, WorksOn DEF ReadSource, Holds
      <3>2. sidecar[job[w].name].of \in Source
        BY <2>1, <3>1 DEF TypeOK, Record
      <3>3. [job[w] EXCEPT !.of = sidecar[job[w].name].of] \in Job
        <4>1. job[w] \in Job
          BY DEF TypeOK
        <4> QED
          BY <3>2, <4>1 DEF Job
      <3>4. job' \in [Writer -> Job]
        BY <2>1, <3>3 DEF TypeOK
      <3> QED
        BY <1>2, <3>4 DEF ReadSource, Refuse
    <2> QED
      BY <1>2, <2>1 DEF ReadSource, Refuse
  <1>3. CASE Place(w) \/ Copy(w) \/ Clone(w) \/ Cloned(w) \/ WriteSidecar(w)
    BY <1>3 DEF Place, Copy, Clone, Cloned, WriteSidecar, Refuse
  <1>4. CASE Pull(w) \/ PullEnds(w) \/ Clear(w) \/ RemoveDir(w) \/ Removing(w)
             \/ RemoveSidecar(w) \/ Kill(w)
    BY <1>4 DEF Pull, PullEnds, Clear, RemoveDir, Removing, RemoveSidecar, Kill
  <1> QED
    BY <1>1, <1>2, <1>3, <1>4 DEF Works

LEMMA BeginTyped ==
  ASSUME TypeOK, NEW w \in Writer, NEW j \in Job, Begin(w, j)
  PROVE  TypeOK'
  BY DEF Begin, TypeOK, Locals, world, store, listers

LEMMA TypedNext ==
  ASSUME TypeOK, IInv, [Next]_vars
  PROVE  TypeOK'
  <1>1. ASSUME NEW w \in Writer, NEW s \in Path, NEW asked \in Name \cup {NoName},
               BeginLocal(w, s, asked)
        PROVE  TypeOK'
    <2>1. [kind |-> "local", of |-> s, asked |-> asked,
           name |-> IF asked # NoName THEN asked ELSE Manifest[s]] \in Job
      BY DEF Job, Source
    <2> QED
      BY <1>1, <2>1, BeginTyped DEF BeginLocal
  <1>2. ASSUME NEW w \in Writer, NEW s \in Git, NEW asked \in Name \cup {NoName},
               BeginGit(w, s, asked)
        PROVE  TypeOK'
    <2>1. [kind |-> "git", of |-> s, asked |-> asked,
           name |-> IF asked # NoName THEN asked ELSE Slug[s]] \in Job
      BY DEF Job, Source
    <2> QED
      BY <1>2, <2>1, BeginTyped DEF BeginGit
  <1>3. ASSUME NEW w \in Writer, NEW n \in Name, BeginUpdate(w, n) \/ BeginRemove(w, n)
        PROVE  TypeOK'
    <2>1. \A k \in {"update", "remove"} :
            [kind |-> k, of |-> NoSource, asked |-> NoName, name |-> n] \in Job
      BY DEF Job
    <2> QED
      BY <1>3, <2>1, BeginTyped DEF BeginUpdate, BeginRemove
  <1>4. ASSUME NEW w \in Writer, Lock(w)
        PROVE  TypeOK'
    <2>1. job[w].kind \in Locals
      BY DEF Job, Locals, TypeOK
    <2> QED
      BY <1>4, <2>1 DEF Lock, TypeOK, world, store
  <1>5. ASSUME NEW w \in Writer, Busy(w)
        PROVE  TypeOK'
    <2>1. NoJob \in Job
      BY DEF NoJob, Job
    <2> QED
      BY <1>5, <2>1 DEF Busy, TypeOK, Locals, world, store, listers
  <1>6. ASSUME NEW w \in Writer, Works(w)
        PROVE  TypeOK'
    <2>1. /\ dir' \in [Name -> Dir \cup {NoDir}]
          /\ sidecar' \in [Name -> Record \cup {NoSource}]
      BY <1>6, StoreTyped
    <2>2. CASE /\ job' \in [Writer -> Job]
               /\ \E there \in Locals \ {"idle", "lock"} : pc' = [pc EXCEPT ![w] = there]
               /\ UNCHANGED <<world, lock, result, kept, listers, begins>>
      BY <2>1, <2>2 DEF TypeOK, world, listers
    <2> QED
      BY <1>6, <2>1, <2>2, WorksHow, GoTyped, ReturnTyped
  <1>7. ASSUME NEW l \in Lister, StartList(l)
        PROVE  TypeOK'
    BY <1>7 DEF StartList, TypeOK, world, store, writers
  <1>8. ASSUME NEW l \in Lister, NEW n \in Name, ReadManifest(l, n)
        PROVE  TypeOK'
    <2>1. Exists(n) => dir[n].of \in Source
      BY DEF Exists, TypeOK, Dir
    <2> QED
      BY <1>8, <2>1 DEF ReadManifest, TypeOK, world, store, writers
  <1>9. ASSUME NEW l \in Lister, ReadSidecar(l)
        PROVE  TypeOK'
    <2> DEFINE n == found[l].name
    <2>1. n \in Name /\ found[l].manifest \in Source
      BY <1>9 DEF ReadSidecar, TypeOK
    <2>2. sidecar[n] # NoSource =>
            [name |-> n, manifest |-> found[l].manifest, source |-> sidecar[n]] \in Entry
      BY <2>1 DEF Entry, TypeOK
    <2>3. listed' \in [Lister -> SUBSET Entry]
      BY <1>9, <2>1, <2>2 DEF ReadSidecar, TypeOK
    <2> QED
      BY <1>9, <2>3 DEF ReadSidecar, TypeOK, world, store, writers
  <1>10. ASSUME NEW s \in Git, Push(s)
         PROVE  TypeOK'
    BY <1>10 DEF Push, TypeOK, store, writers, listers
  <1>11. ASSUME NEW s \in Path, Vanish(s)
         PROVE  TypeOK'
    BY <1>11 DEF Vanish, TypeOK, store, writers, listers
  <1>12. CASE UNCHANGED vars
    BY <1>12 DEF vars, TypeOK, store, world, writers, listers
  <1> QED
    BY <1>1, <1>2, <1>3, <1>4, <1>5, <1>6, <1>7, <1>8, <1>9, <1>10, <1>11, <1>12
       DEF Next, Works

-----------------------------------------------------------------------------
(* The invariant holds.                                                    *)

LEMMA InvInit == Init => IInv
  BY DEF Init, IInv, Holder, Origins, Settled, Now, Installed, AtWork, NoJob, Listing

\* What is installed is what the sidecar says, of a directory that is whole.
LEMMA InstalledIs ==
  ASSUME NEW d \in Dir \cup {NoDir}, NEW s \in Record \cup {NoSource}
  PROVE  /\ Installed(d, s) = Absent <=> d = NoDir
         /\ Installed(d, s) \in Record =>
              /\ Installed(d, s) = s /\ s \in Record
              /\ d \in Dir /\ d.state = "whole" /\ s.of = d.of /\ s.sha = d.head
  BY DEF Installed

\* The command of w ends.
LEMMA ReturnInv ==
  ASSUME TypeOK, IInv, NEW w \in Writer, lock = w, NEW how, Return(w, how), Origins',
         \A n \in Name : dir'[n] # NoDir => dir'[n].state # "pull"
  PROVE  IInv'
  <1>1. lock' = Nobody /\ Nobody \notin Writer
    BY DEF Return
  <1>2. \A v \in Writer : pc'[v] \in {"idle", "lock"} /\ (v # w => pc'[v] = pc[v] /\ job'[v] = job[v])
    BY DEF Return, IInv, Holder, TypeOK
  <1>3. Holder'
    BY <1>1, <1>2 DEF Holder
  <1>4. Settled'
    BY DEF Return, Settled, Now
  <1>5. ASSUME NEW v \in Writer
        PROVE  AtWork(v)'
    <2>1. AtWork(v)
      BY DEF IInv
    <2> QED
      BY <1>2, <2>1 DEF AtWork, Return, TypeOK
  <1>6. Listing'
    BY <1>1 DEF IInv, Listing, Return, listers
  <1> QED
    BY <1>3, <1>4, <1>5, <1>6 DEF IInv

\* The command of w goes on.
LEMMA GoesOnInv ==
  ASSUME TypeOK, IInv, NEW w \in Writer, lock = w, UNCHANGED <<lock, kept, listers>>,
         NEW there \in Locals \ {"idle", "lock"}, pc' = [pc EXCEPT ![w] = there],
         \A v \in Writer \ {w} : job'[v] = job[v],
         Origins', AtWork(w)', \A m \in Name : m # job'[w].name => Untouched(m)'
  PROVE  IInv'
  <1>1. lock' = w /\ Nobody \notin Writer
    OBVIOUS
  <1>2. \A v \in Writer \ {w} : pc'[v] = pc[v] /\ pc[v] \in {"idle", "lock"}
    BY DEF IInv, Holder, TypeOK
  <1>3. Holder'
    BY <1>1, <1>2 DEF Holder, TypeOK
  <1>4. Settled'
    BY <1>1 DEF Settled, Untouched
  <1>5. ASSUME NEW v \in Writer \ {w}
        PROVE  AtWork(v)'
    <2>1. AtWork(v)
      BY DEF IInv
    <2> QED
      BY <1>2, <2>1 DEF AtWork
  <1>6. Listing'
    BY <1>1 DEF IInv, Listing, listers
  <1> QED
    BY <1>3, <1>4, <1>5, <1>6 DEF IInv

LEMMA OthersUntouched ==
  ASSUME IInv, NEW w \in Writer, lock = w, NEW m \in Name, m # job[w].name
  PROVE  Untouched(m)
  BY DEF IInv, Settled, Untouched

\* Only under a pull is a directory in the middle of one.
LEMMA QuietStore ==
  ASSUME TypeOK, IInv, NEW w \in Writer, pc[w] \notin {"idle", "lock", "pulling"},
         NEW n \in Name, dir[n] # NoDir
  PROVE  dir[n].state # "pull"
  <1>1. lock = w /\ AtWork(w)
    BY DEF IInv, Holder
  <1>2. CASE n # job[w].name
    BY <1>1, <1>2, OthersUntouched DEF Untouched
  <1>3. CASE n = job[w].name
    BY <1>1, <1>3 DEF AtWork, Untouched, TypeOK, Locals
  <1> QED
    BY <1>2, <1>3

\* Every command changes the store only under the name it works on, except
\* that a clone is renamed to a free name.
LEMMA WorksWhere ==
  ASSUME TypeOK, IInv, NEW w \in Writer, Works(w)
  PROVE  /\ lock = w
         /\ \A m \in Name : m # job[w].name => sidecar'[m] = sidecar[m]
         /\ \/ \A m \in Name : m # job[w].name => dir'[m] = dir[m]
            \/ /\ Resolve(w) /\ lock' = w
               /\ job[w].name \in Name /\ Final(w) \in Name
               /\ Final(w) # job[w].name /\ dir[Final(w)] = NoDir
               /\ dir' = [dir EXCEPT ![Final(w)] = dir[job[w].name], ![job[w].name] = NoDir]
               /\ job' = [job EXCEPT ![w].name = Final(w)]
               /\ pc' = [pc EXCEPT ![w] = "sidecar"]
               /\ kept' = kept
  <1> DEFINE n == job[w].name
  <1> USE DEF Holds, TypeOK
  <1>1. lock = w
    BY DEF Works, Place, Copy, Clone, Cloned, Resolve, WriteSidecar, ReadSource, Pull,
           PullEnds, Clear, RemoveDir, Removing, RemoveSidecar, Kill
  <1>2. CASE Place(w) \/ Copy(w) \/ Clone(w) \/ Cloned(w)
    BY <1>1, <1>2 DEF Place, Copy, Clone, Cloned, Refuse, store
  <1>3. CASE Resolve(w)
    <2>1. n \in Name /\ job[w].of \in Git /\ job[w] \in Job
      BY <1>3, WorksOn DEF Resolve
    <2>2. Manifest[job[w].of] # NoName => Final(w) \in Name
      BY <2>1 DEF Final, Job, Source
    <2> QED
      BY <1>1, <1>3, <2>1, <2>2 DEF Resolve
  <1>4. CASE WriteSidecar(w) \/ ReadSource(w) \/ Pull(w) \/ PullEnds(w)
    BY <1>1, <1>4 DEF WriteSidecar, ReadSource, Refuse, Pull, PullEnds, store
  <1>5. CASE Clear(w) \/ RemoveDir(w) \/ Removing(w) \/ RemoveSidecar(w) \/ Kill(w)
    BY <1>1, <1>5 DEF Clear, RemoveDir, Removing, RemoveSidecar, Kill
  <1> QED
    BY <1>1, <1>2, <1>3, <1>4, <1>5 DEF Works

LEMMA WorksOrigins ==
  ASSUME TypeOK, IInv, NEW w \in Writer, Works(w)
  PROVE  Origins'
  <1> DEFINE n == job[w].name
             s == job[w].of
  <1> USE DEF Holds, TypeOK
  <1>1. AtWork(w) /\ Origins /\ UNCHANGED head
    BY DEF IInv, Works, Place, Copy, Clone, Cloned, Resolve, WriteSidecar, ReadSource,
           Pull, PullEnds, Clear, RemoveDir, Removing, RemoveSidecar, Kill, Refuse, Go,
           Return, world
  <1>2. \A m \in Name : sidecar'[m] # NoSource /\ sidecar'[m].of \in Path => sidecar'[m].sha = 0
    <2>1. CASE sidecar' = [sidecar EXCEPT ![n] = [of |-> s, sha |-> dir[n].head]]
               /\ pc[w] = "sidecar"
      BY <1>1, <2>1 DEF Origins, AtWork
    <2>2. CASE sidecar' = [sidecar EXCEPT ![n] = NoSource] \/ UNCHANGED sidecar
      BY <1>1, <2>2 DEF Origins
    <2> QED
      BY <2>1, <2>2
         DEF Works, Place, Copy, Clone, Cloned, Resolve, WriteSidecar, ReadSource,
             Pull, PullEnds, Clear, RemoveDir, Removing, RemoveSidecar, Kill, Refuse, store
  <1>3. SUFFICES ASSUME NEW m \in Name, dir'[m] # NoDir PROVE Original(dir'[m])
    BY <1>1, <1>2 DEF Origins, Original
  <1>6. dir[m] # NoDir => Original(dir[m])
    BY <1>1 DEF Origins
  <1>7. CASE dir'[m] = dir[m]
    BY <1>3, <1>6, <1>7
  <1>8. CASE dir' = [dir EXCEPT ![Final(w)] = dir[n], ![n] = NoDir] /\ n \in Name
    BY <1>1, <1>3, <1>8 DEF Origins
  <1>9. CASE m = n /\ dir'[m] # dir[m]
    <2>1. CASE Place(w)
      BY <1>1, <1>9, <2>1, WorksOn DEF Place, Refuse, store, Original
    <2>2. CASE Copy(w)
      BY <1>1, <1>9, <2>2, WorksOn DEF Copy, store, Original, AtWork
    <2>3. CASE Clone(w)
      BY <1>1, <1>9, <2>3, WorksOn DEF Clone, Refuse, store, Original
    <2>4. CASE Cloned(w)
      <3>1. dir[n] \in Dir /\ dir[n].kind = "clone" /\ s \in Git
        BY <1>1, <2>4, WorksOn DEF Cloned, AtWork
      <3>2. dir'[n] = NoDir \/ dir'[n] = [dir[n] EXCEPT !.state = "whole", !.head = head[s]]
        BY <1>9, <2>4, <3>1 DEF Cloned, HeadOf
      <3>3. dir[n].of = s
        BY <1>1, <2>4 DEF Cloned, AtWork
      <3>4. head[s] <= head[s]
        BY <3>1
      <3>5. Original([dir[n] EXCEPT !.state = "whole", !.head = head[s]])
        BY <3>1, <3>3, <3>4 DEF Original, Dir
      <3> QED
        BY <1>3, <1>9, <3>2, <3>5
    <2>5. CASE Resolve(w)
      BY <1>3, <1>9, <2>5, <1>8, WorksOn DEF Resolve
    <2>6. CASE WriteSidecar(w)
      BY <1>3, <1>9, <2>6 DEF WriteSidecar, store
    <2>7. CASE ReadSource(w)
      BY <1>9, <2>7 DEF ReadSource, Refuse, store
    <2>8. CASE Pull(w)
      <3>1. dir[n] \in Dir
        BY <2>8, WorksOn DEF Pull
      <3> QED
        BY <1>6, <1>9, <2>8, <3>1 DEF Pull, Original, Dir
    <2>9. ASSUME NEW d \in Dir, Original(d)
          PROVE  /\ Original(Unpulled(d)) /\ Original(Pulled(d))
                 /\ Original([d EXCEPT !.state = IF @ = "pull" THEN "part" ELSE @])
      BY <2>9, Z3 DEF Original, Unpulled, Pulled, HeadOf, Dir
    <2>10. CASE PullEnds(w)
      <3>1. n \in Name /\ dir[n] \in Dir /\ Original(dir[n])
        BY <1>6, <1>9, <2>10, WorksOn DEF PullEnds
      <3>2. dir'[n] = Pulled(dir[n]) \/ dir'[n] = Unpulled(dir[n])
        BY <2>10, <3>1 DEF PullEnds
      <3>3. Original(Pulled(dir[n])) /\ Original(Unpulled(dir[n]))
        BY <2>9, <3>1
      <3> QED
        BY <1>9, <3>2, <3>3
    <2>11. CASE Clear(w)
      BY <1>6, <1>9, <2>11, WorksOn DEF Clear, Original, Dir
    <2>12. CASE RemoveDir(w)
      BY <1>3, <1>6, <1>9, <2>12 DEF RemoveDir, Original, Dir
    <2>13. CASE Removing(w) \/ RemoveSidecar(w)
      BY <1>3, <1>9, <2>13 DEF Removing, RemoveSidecar
    <2>14. CASE Kill(w)
      <3>1. pc[w] = "pulling" => n \in Name /\ dir[n] \in Dir /\ Original(dir[n])
        BY <1>6, <1>9, <2>14, WorksOn DEF Kill
      <3> QED
        BY <1>3, <1>9, <2>9, <2>14, <3>1 DEF Kill
    <2> QED
      BY <2>1, <2>2, <2>3, <2>4, <2>5, <2>6, <2>7, <2>8, <2>10, <2>11, <2>12, <2>13,
         <2>14 DEF Works
  <1> QED
    BY <1>7, <1>8, <1>9, WorksWhere

LEMMA ReturnShapes ==
  ASSUME NEW w \in Writer, Works(w), lock' # lock, pc[w] # "pulling"
  PROVE  \/ dir' = dir \/ dir' = [dir EXCEPT ![job[w].name] = NoDir]
         \/ pc[w] = "clear" /\ dir' = [dir EXCEPT ![job[w].name].state = "part"]
  <1> USE DEF Go, Holds, store
  <1>1. CASE Place(w) \/ Copy(w)
    BY <1>1 DEF Place, Copy, Refuse
  <1>2. CASE Clone(w) \/ Cloned(w)
    BY <1>2 DEF Clone, Cloned, Refuse
  <1>3. CASE Resolve(w)
    BY <1>3 DEF Resolve
  <1>4. CASE WriteSidecar(w) \/ ReadSource(w)
    BY <1>4 DEF WriteSidecar, ReadSource, Refuse
  <1>5. CASE Pull(w) \/ PullEnds(w)
    BY <1>5 DEF Pull, PullEnds
  <1>6. CASE Clear(w) \/ RemoveDir(w)
    BY <1>6 DEF Clear, RemoveDir
  <1>7. CASE Removing(w) \/ RemoveSidecar(w)
    BY <1>7 DEF Removing, RemoveSidecar
  <1>8. CASE Kill(w)
    BY <1>8 DEF Kill
  <1> QED
    BY <1>1, <1>2, <1>3, <1>4, <1>5, <1>6, <1>7, <1>8 DEF Works

\* At the end of a command no directory is in the middle of a pull.
LEMMA WorksReturns ==
  ASSUME TypeOK, IInv, NEW w \in Writer, Works(w), lock' = Nobody
  PROVE  /\ \E how \in {"ok", "refused", "failed", "killed"} : Return(w, how)
         /\ \A m \in Name : m # job[w].name => dir'[m] = dir[m] /\ sidecar'[m] = sidecar[m]
         /\ \A m \in Name : dir'[m] # NoDir => dir'[m].state # "pull"
  <1> DEFINE n == job[w].name
  <1> USE DEF Holds, TypeOK
  <1>0. lock = w /\ lock' # lock
    BY WorksWhere
  <1>1. \E how \in {"ok", "refused", "failed", "killed"} : Return(w, how)
    BY <1>0, WorksHow DEF Go
  <1>2. \A m \in Name : m # job[w].name => dir'[m] = dir[m] /\ sidecar'[m] = sidecar[m]
    BY <1>0, WorksWhere
  <1>3. SUFFICES ASSUME NEW m \in Name, dir'[m] # NoDir, m = n
                 PROVE  dir'[m].state # "pull"
    BY <1>0, <1>1, <1>2, OthersUntouched DEF Untouched
  <1>4. CASE pc[w] # "pulling"
    <2>1. pc[w] \notin {"idle", "lock"}
      BY <1>0 DEF IInv, Holder
    <2>2. dir[n] # NoDir => dir[n].state # "pull"
      BY <1>3, <1>4, <2>1, QuietStore
    <2>3. \/ dir' = dir \/ dir' = [dir EXCEPT ![job[w].name] = NoDir]
          \/ pc[w] = "clear" /\ dir' = [dir EXCEPT ![job[w].name].state = "part"]
      BY <1>0, <1>4, ReturnShapes
    <2>4. CASE pc[w] = "clear" /\ dir' = [dir EXCEPT ![job[w].name].state = "part"]
      <3>1. dir[n] \in Dir
        BY <2>4, WorksOn
      <3> QED
        BY <1>3, <2>4, <3>1 DEF Dir
    <2> QED
      BY <1>3, <2>2, <2>3, <2>4
  <1>5. CASE pc[w] = "pulling"
    <2>1. n \in Name /\ dir[n] \in Dir
      BY <1>5, WorksOn
    <2>2. \/ dir' = [dir EXCEPT ![n] = Unpulled(dir[n])]
          \/ dir' = [dir EXCEPT ![n] = Pulled(dir[n])]
          \/ dir' = [dir EXCEPT ![n] =
               [dir[n] EXCEPT !.state = IF @ = "pull" THEN "part" ELSE @]]
      BY <1>0, <1>5
         DEF Works, Place, Copy, Clone, Cloned, Resolve, WriteSidecar, ReadSource,
             Pull, PullEnds, Clear, RemoveDir, Removing, RemoveSidecar, Kill, Go
    <2>3. /\ Unpulled(dir[n]).state # "pull"
          /\ [dir[n] EXCEPT !.state = IF @ = "pull" THEN "part" ELSE @].state # "pull"
      BY <2>1 DEF Unpulled, Dir
    <2>4. Pulled(dir[n]).state # "pull"
      <3>1. Unpulled(dir[n]) \in Dir
        BY <2>1, PullTypes
      <3> QED
        BY <2>3, <3>1 DEF Pulled, Dir
    <2> QED
      BY <1>3, <2>1, <2>2, <2>3, <2>4
  <1> QED
    BY <1>4, <1>5

LEMMA PullBack ==
  ASSUME NEW d \in Dir, d.state # "pull"
  PROVE  Unpulled(d) = d /\ (d.state = "whole" => Unpulled([d EXCEPT !.state = "pull"]) = d)
  BY DEF Dir, Unpulled

\* While a command goes on, the invariant says where it is.
LEMMA WorksAtWork ==
  ASSUME TypeOK, IInv, NEW w \in Writer, Works(w), lock' = lock
  PROVE  AtWork(w)'
  <1> DEFINE n == job[w].name
             s == job[w].of
  <1> USE DEF Holds, TypeOK
  <1>0. lock = w /\ lock' # Nobody /\ AtWork(w)
    BY WorksWhere DEF IInv
  <1>1. CASE Place(w)
    <2>1. /\ n \in Name /\ s \in Path /\ kept[n] = Absent /\ job[w].kind = "local"
          /\ Go(w, IF unix THEN "sidecar" ELSE "copy")
      BY <1>0, <1>1, WorksOn DEF Place, Refuse, Return, AtWork, Untouched, Now, Installed
    <2>2. /\ dir[n] = NoDir /\ ~(lock' = Nobody)
          /\ dir'[n] = [kind |-> IF unix THEN "link" ELSE "copy", of |-> s,
                        head |-> 0, state |-> IF unix THEN "whole" ELSE "part"]
      BY <1>0, <1>1, <2>1 DEF Place, Refuse, Return
    <2>3. dir'[n] # NoDir
      BY <2>1, <2>2 DEF Dir, Source
    <2> QED
      BY <2>1, <2>2, <2>3 DEF AtWork, Go, Source
  <1>2. CASE Copy(w)
    <2>1. /\ n \in Name /\ s \in Path /\ dir[n] \in Dir /\ Go(w, "sidecar")
          /\ dir' = [dir EXCEPT ![n].state = "whole"] /\ sidecar' = sidecar
      BY <1>0, <1>2, WorksOn DEF Copy, Return
    <2>2. /\ dir'[n] # NoDir /\ dir'[n].state = "whole" /\ dir'[n].head = 0
      BY <1>0, <1>2, <2>1 DEF AtWork, Copy, Dir
    <2>3. CASE job[w].kind = "local" /\ kept[n] = Absent
      BY <2>1, <2>2, <2>3 DEF AtWork, Go, Source
    <2>4. CASE job[w].kind = "update" /\ Renews(n, s)
      <3>1. kept[n] \in Record => kept[n].sha = 0
        BY <2>1, <2>4 DEF Renews, IInv, Origins
      <3> QED
        BY <2>1, <2>2, <2>4, <3>1 DEF AtWork, Go, Source, Renews
    <2> QED
      BY <1>0, <1>2, <2>3, <2>4 DEF AtWork, Copy
  <1>3. CASE Clone(w)
    <2>1. /\ n \in Name /\ s \in Git /\ dir[n] = NoDir /\ Go(w, "cloning")
          /\ job[w].kind = "git" /\ kept[n] = Absent
          /\ dir'[n] = [kind |-> "clone", of |-> s, head |-> 0, state |-> "part"]
      BY <1>0, <1>3, WorksOn
         DEF Clone, Refuse, Return, AtWork, Untouched, Now, Installed, Job
    <2> QED
      BY <2>1 DEF AtWork, Go
  <1>4. CASE Cloned(w)
    <2>1. /\ n \in Name /\ s \in Git /\ Go(w, "resolve")
          /\ job[w].kind = "git" /\ kept[n] = Absent
          /\ dir[n] \in Dir /\ dir[n].kind = "clone" /\ dir[n].of = s
          /\ dir' = [dir EXCEPT ![n].state = "whole", ![n].head = HeadOf(s)]
      BY <1>0, <1>4, WorksOn DEF Cloned, Return, AtWork
    <2>2. dir'[n] = [dir[n] EXCEPT !.state = "whole", !.head = HeadOf(s)]
      BY <2>1
    <2>3. dir'[n] \in Dir
      BY <2>1, <2>2, DirTypes, HeadType
    <2>4. dir'[n].kind = "clone" /\ dir'[n].of = s /\ dir'[n].state = "whole"
      BY <2>1, <2>2 DEF Dir
    <2> QED
      BY <2>1, <2>3, <2>4 DEF AtWork, Go
  <1>5. CASE Resolve(w)
    <2>1. /\ n \in Name /\ s \in Git /\ job[w].kind = "git" /\ kept[n] = Absent
          /\ dir[n] # NoDir /\ dir[n].state = "whole" /\ job[w] \in Job
      BY <1>0, <1>5 DEF Resolve, AtWork
    <2>2. CASE Go(w, "sidecar") /\ UNCHANGED dir
      BY <2>1, <2>2 DEF AtWork, Go, Source
    <2>3. CASE /\ Final(w) # n /\ dir[Final(w)] = NoDir /\ Final(w) \in Name
               /\ dir' = [dir EXCEPT ![Final(w)] = dir[n], ![n] = NoDir]
               /\ job' = [job EXCEPT ![w].name = Final(w)]
               /\ pc' = [pc EXCEPT ![w] = "sidecar"] /\ kept' = kept
      <3>1. kept[Final(w)] = Absent
        BY <1>0, <2>3, OthersUntouched DEF Untouched, Now, Installed
      <3>2. job'[w] = [job[w] EXCEPT !.name = Final(w)]
        BY <2>3
      <3>3. job'[w].name = Final(w) /\ job'[w].of = s /\ job'[w].kind = "git"
        BY <2>1, <3>2 DEF Job
      <3>4. dir'[Final(w)] = dir[n]
        BY <2>1, <2>3
      <3> QED
        BY <2>1, <2>3, <3>1, <3>3, <3>4 DEF AtWork, Source
    <2>4. Manifest[s] # NoName => Final(w) \in Name
      BY <2>1 DEF Final, Job, Source
    <2> QED
      BY <1>0, <1>5, <2>2, <2>3, <2>4 DEF Resolve, Return
  <1>6. CASE WriteSidecar(w)
    BY <1>0, <1>6 DEF WriteSidecar, Return
  <1>7. CASE ReadSource(w)
    <2>1. /\ n \in Name /\ dir[n] # NoDir /\ sidecar[n] # NoSource /\ sidecar[n].of \in Source
          /\ job' = [job EXCEPT ![w].of = sidecar[n].of]
          /\ pc' = [pc EXCEPT ![w] = IF sidecar[n].of \in Git THEN "pull" ELSE "clear"]
          /\ UNCHANGED <<dir, sidecar, kept>>
      <3>1. n \in Name
        BY <1>7, WorksOn DEF ReadSource
      <3>2. sidecar[n] # NoSource => sidecar[n].of \in Source
        BY <3>1 DEF Record
      <3>3. UNCHANGED <<dir, sidecar>>
        BY <1>7 DEF ReadSource, Refuse, store
      <3> QED
        BY <1>0, <1>7, <3>1, <3>2, <3>3 DEF ReadSource, Refuse, Return
    <2>2. Untouched(n) /\ job[w].kind = "update"
      BY <1>0, <1>7, <2>1 DEF ReadSource, AtWork
    <2>3. job'[w] = [job[w] EXCEPT !.of = sidecar[n].of] /\ job[w] \in Job
      BY <2>1
    <2>4. job'[w].of = sidecar[n].of /\ job'[w].name = n /\ job'[w].kind = "update"
      BY <2>2, <2>3 DEF Job
    <2>5. kept[n] \in Record => kept[n] = sidecar[n]
      BY <2>1, <2>2, InstalledIs DEF Untouched, Now
    <2>6. /\ kept'[n] = Installed(dir'[n], sidecar'[n])
          /\ dir'[n] # NoDir => dir'[n].state # "pull"
      BY <2>1, <2>2 DEF Untouched, Now, Installed
    <2>7. CASE sidecar[n].of \in Git
      BY <2>1, <2>4, <2>5, <2>6, <2>7 DEF AtWork, Renews, Untouched, Now
    <2>8. CASE sidecar[n].of \notin Git
      BY <2>1, <2>4, <2>5, <2>6, <2>8 DEF AtWork, Renews, Untouched, Now, Source
    <2> QED
      BY <2>7, <2>8
  <1>8. CASE Pull(w)
    <2>1. /\ n \in Name /\ s \in Git /\ dir[n] \in Dir /\ Renews(n, s) /\ Untouched(n)
          /\ job[w].kind = "update" /\ Go(w, "pulling") /\ sidecar' = sidecar
      BY <1>0, <1>8, WorksOn DEF Pull, AtWork
    <2>2. \/ dir'[n] = [dir[n] EXCEPT !.state = "pull"] /\ dir[n].state = "whole"
          \/ dir'[n] = [dir[n] EXCEPT !.state = dir[n].state]
      BY <1>8, <2>1 DEF Pull
    <2>3. dir'[n] \in Dir
      BY <2>1, <2>2 DEF Dir
    <2>4. [dir[n] EXCEPT !.state = dir[n].state] = dir[n]
      BY <2>1 DEF Dir
    <2>5. Unpulled(dir'[n]) = dir[n]
      BY <2>1, <2>2, <2>4, PullBack DEF Untouched
    <2>6. kept[n] = Installed(Unpulled(dir'[n]), sidecar[n])
      BY <2>1, <2>5 DEF Untouched, Now
    <2> QED
      BY <2>1, <2>3, <2>6 DEF AtWork, Go, Renews, Installed, Unpulled
  <1>9. CASE PullEnds(w)
    <2>1. /\ n \in Name /\ s \in Git /\ dir[n] \in Dir /\ Renews(n, s)
          /\ job[w].kind = "update" /\ Go(w, "sidecar") /\ sidecar' = sidecar
          /\ dir'[n] = Pulled(dir[n])
          /\ kept[n] = Installed(Unpulled(dir[n]), sidecar[n])
      BY <1>0, <1>9, WorksOn DEF PullEnds, AtWork, Return
    <2>2. Unpulled(dir[n]) \in Dir /\ Pulled(dir[n]) \in Dir
      BY <2>1, PullTypes
    <2>3. Pulled(dir[n]).state # "pull" /\ Unpulled(dir[n]).head = dir[n].head
      BY <2>1, <2>2 DEF Pulled, Unpulled, Dir
    <2>4. Pulled(dir[n]).head >= dir[n].head
      <3>1. Original(dir[n])
        BY <2>1 DEF IInv, Origins
      <3>2. dir[n].kind = "clone" => dir[n].of \in Git /\ HeadOf(dir[n].of) >= dir[n].head
        BY <2>1, <3>1 DEF Original, HeadOf, Dir
      <3>3. dir[n].head >= dir[n].head
        BY <2>1 DEF Dir
      <3> QED
        BY <2>1, <2>2, <2>3, <3>2, <3>3 DEF Pulled, Dir
    <2>5. kept[n] \in Record => dir'[n].head >= kept[n].sha
      BY <2>1, <2>2, <2>3, <2>4, InstalledIs
    <2> QED
      BY <2>1, <2>2, <2>3, <2>5 DEF AtWork, Go, Source, Renews
  <1>10. CASE Clear(w)
    <2>1. /\ n \in Name /\ s \in Path /\ job[w].kind = "update" /\ Renews(n, s)
          /\ Go(w, "copy") /\ sidecar' = sidecar
          /\ dir'[n] = [kind |-> "copy", of |-> s, head |-> 0, state |-> "part"]
      BY <1>0, <1>10, WorksOn DEF Clear, AtWork, Return
    <2> QED
      BY <2>1 DEF AtWork, Go, Renews
  <1>11. CASE RemoveDir(w)
    <2>1. n \in Name /\ job[w].kind = "remove"
      BY <1>0, <1>11 DEF RemoveDir, AtWork
    <2>2. CASE Go(w, "removed") /\ dir' = [dir EXCEPT ![n] = NoDir]
      BY <2>1, <2>2 DEF AtWork, Go
    <2>3. CASE Go(w, "removing") /\ dir[n] # NoDir /\ dir' = [dir EXCEPT ![n].state = "part"]
      <3>1. dir'[n] \in Dir /\ dir'[n].state = "part"
        BY <2>1, <2>3 DEF Dir
      <3> QED
        BY <2>1, <2>3, <3>1 DEF AtWork, Go
    <2> QED
      BY <1>11, <2>2, <2>3 DEF RemoveDir
  <1>12. CASE Removing(w)
    <2>1. /\ n \in Name /\ job[w].kind = "remove" /\ Go(w, "removed")
          /\ dir' = [dir EXCEPT ![n] = NoDir]
      BY <1>0, <1>12 DEF Removing, AtWork, Return
    <2> QED
      BY <2>1 DEF AtWork, Go
  <1>13. CASE RemoveSidecar(w) \/ Kill(w)
    BY <1>0, <1>13 DEF RemoveSidecar, Kill, Return
  <1> QED
    BY <1>1, <1>2, <1>3, <1>4, <1>5, <1>6, <1>7, <1>8, <1>9, <1>10, <1>11, <1>12,
       <1>13 DEF Works

LEMMA BeginInv ==
  ASSUME TypeOK, IInv, NEW w \in Writer, NEW j \in Job, Begin(w, j),
         j.kind = "git" \/ j.name \in Name,
         j.kind = "local" => j.of \in Path, j.kind = "git" => j.of \in Git
  PROVE  IInv'
  <1> USE DEF Begin, store, world, listers, TypeOK
  <1>1. lock # w /\ pc'[w] = "lock" /\ job'[w] = j
    BY DEF IInv, Holder
  <1>2. \A v \in Writer \ {w} : pc'[v] = pc[v] /\ job'[v] = job[v]
    OBVIOUS
  <1>3. Holder'
    BY <1>1, <1>2 DEF IInv, Holder
  <1>4. Origins'
    BY DEF IInv, Origins, Original
  <1>5. Settled'
    BY <1>1, <1>2 DEF IInv, Settled, Now
  <1>6. ASSUME NEW v \in Writer \ {w}
        PROVE  AtWork(v)'
    <2>1. AtWork(v)
      BY DEF IInv
    <2> QED
      BY <1>2, <2>1 DEF AtWork, Renews, Untouched, Now
  <1>7. AtWork(w)'
    BY <1>1 DEF AtWork
  <1>8. Listing'
    BY DEF IInv, Listing, Exists
  <1> QED
    BY <1>3, <1>4, <1>5, <1>6, <1>7, <1>8 DEF IInv

LEMMA LockInv ==
  ASSUME TypeOK, IInv, NEW w \in Writer, Lock(w)
  PROVE  IInv'
  <1> USE DEF Lock, store, world, TypeOK
  <1>1. /\ lock = Nobody /\ lock' = w /\ Nobody \notin Writer
        /\ pc'[w] = job[w].kind /\ job[w].kind \in {"local", "git", "update", "remove"}
    BY DEF Job
  <1>2. \A v \in Writer \ {w} : pc'[v] = pc[v] /\ pc[v] \in {"idle", "lock"}
    BY <1>1 DEF IInv, Holder
  <1>3. \A n \in Name : Untouched(n)
    BY <1>1 DEF IInv, Settled, Untouched
  <1>4. Holder'
    BY <1>1, <1>2 DEF Holder
  <1>5. Origins'
    BY DEF IInv, Origins, Original
  <1>6. Settled'
    BY <1>3 DEF Settled, Untouched, Now
  <1>7. ASSUME NEW v \in Writer \ {w}
        PROVE  AtWork(v)'
    <2>1. AtWork(v)
      BY DEF IInv
    <2> QED
      BY <1>2, <2>1 DEF AtWork
  <1>8. AtWork(w)'
    <2>1. AtWork(w)
      BY DEF IInv
    <2> QED
      BY <1>1, <1>3, <2>1 DEF AtWork, Untouched, Now
  <1>9. Listing'
    BY DEF Listing
  <1> QED
    BY <1>4, <1>5, <1>6, <1>7, <1>8, <1>9 DEF IInv

LEMMA BusyInv ==
  ASSUME TypeOK, IInv, NEW w \in Writer, Busy(w)
  PROVE  IInv'
  <1> USE DEF Busy, store, world, listers, TypeOK
  <1>1. lock # w /\ pc'[w] = "idle"
    BY DEF IInv, Holder
  <1>2. \A v \in Writer \ {w} : pc'[v] = pc[v] /\ job'[v] = job[v]
    OBVIOUS
  <1>3. Holder'
    BY <1>1, <1>2 DEF IInv, Holder
  <1>4. Origins'
    BY DEF IInv, Origins, Original
  <1>5. Settled'
    BY <1>1, <1>2 DEF IInv, Settled, Now
  <1>6. ASSUME NEW v \in Writer \ {w}
        PROVE  AtWork(v)'
    <2>1. AtWork(v)
      BY DEF IInv
    <2> QED
      BY <1>2, <2>1 DEF AtWork, Renews, Untouched, Now
  <1>7. AtWork(w)'
    BY <1>1 DEF AtWork
  <1>8. Listing'
    BY DEF IInv, Listing, Exists
  <1> QED
    BY <1>3, <1>4, <1>5, <1>6, <1>7, <1>8 DEF IInv

LEMMA WorksInv ==
  ASSUME TypeOK, IInv, NEW w \in Writer, Works(w)
  PROVE  IInv'
  <1>1. lock = w /\ Nobody \notin Writer
    BY WorksWhere
  <1>2. CASE lock' = Nobody
    BY <1>1, <1>2, WorksReturns, WorksOrigins, ReturnInv
  <1>3. CASE lock' # Nobody
    <2>1. /\ UNCHANGED <<lock, kept, listers>>
          /\ \E there \in Locals \ {"idle", "lock"} : pc' = [pc EXCEPT ![w] = there]
      BY <1>3, WorksHow DEF Go, Return
    <2>2. \A v \in Writer \ {w} : job'[v] = job[v]
      <3>1. CASE UNCHANGED job
        BY <3>1
      <3>2. CASE Resolve(w) \/ ReadSource(w)
        BY <3>2 DEF Resolve, ReadSource, Refuse, Go, Return, TypeOK
      <3> QED
        BY <1>3, <3>1, <3>2
           DEF Works, Place, Copy, Clone, Cloned, WriteSidecar, Pull, PullEnds, Clear,
               RemoveDir, Removing, RemoveSidecar, Kill, Refuse, Go, Return
    <2>3. ASSUME NEW m \in Name, m # job'[w].name
          PROVE  Untouched(m)'
      <3>1. CASE Resolve(w) /\ dir' # dir
        <4>1. /\ job[w].name \in Name /\ job[w] \in Job /\ kept[job[w].name] = Absent
          <5>1. AtWork(w)
            BY DEF IInv
          <5> QED
            BY <3>1, <5>1 DEF Resolve, AtWork, TypeOK, Holds
        <4>2. /\ dir' = [dir EXCEPT ![Final(w)] = dir[job[w].name], ![job[w].name] = NoDir]
              /\ job' = [job EXCEPT ![w].name = Final(w)]
              /\ Final(w) # job[w].name /\ UNCHANGED <<sidecar, kept>>
          BY <1>3, <3>1 DEF Resolve, Return
        <4>3. job'[w].name = Final(w)
          BY <4>1, <4>2 DEF TypeOK, Job
        <4>4. CASE m = job[w].name
          BY <4>1, <4>2, <4>4 DEF Untouched, Now, Installed, TypeOK
        <4>5. CASE m # job[w].name
          <5>1. Untouched(m)
            BY <1>1, <4>5, OthersUntouched
          <5>2. dir'[m] = dir[m]
            BY <2>3, <4>2, <4>3, <4>5 DEF TypeOK
          <5> QED
            BY <4>2, <5>1, <5>2 DEF Untouched, Now
        <4> QED
          BY <4>4, <4>5
      <3>2. CASE ~(Resolve(w) /\ dir' # dir)
        <4>1. job'[w].name = job[w].name
          <5>1. job[w] \in Job
            BY DEF TypeOK
          <5>2. CASE Resolve(w)
            <6>1. UNCHANGED job
                  \/ /\ dir' = [dir EXCEPT ![Final(w)] = dir[job[w].name], ![job[w].name] = NoDir]
                     /\ Final(w) # job[w].name
              BY <1>3, <5>2 DEF Resolve, Go, Return
            <6>4. job[w].name \in Name /\ dir[job[w].name] # NoDir
              <7>1. AtWork(w)
                BY DEF IInv
              <7> QED
                BY <5>2, <7>1 DEF Resolve, AtWork, Holds
            <6>2. CASE UNCHANGED job
              BY <6>2
            <6>3. CASE dir' # dir
              BY <3>2, <5>2, <6>3
            <6> QED
              BY <6>1, <6>2, <6>3, <6>4 DEF TypeOK
          <5>3. CASE ReadSource(w)
            <6>1. UNCHANGED job \/ job' = [job EXCEPT ![w].of = sidecar[job[w].name].of]
              BY <1>3, <5>3 DEF ReadSource, Refuse, Return
            <6> QED
              BY <5>1, <6>1 DEF TypeOK, Job
          <5> QED
            BY <1>3, <5>2, <5>3
               DEF Works, Place, Copy, Clone, Cloned, WriteSidecar, Pull, PullEnds, Clear,
                   RemoveDir, Removing, RemoveSidecar, Kill, Refuse, Go, Return
        <4>2. dir'[m] = dir[m] /\ sidecar'[m] = sidecar[m]
          BY <2>3, <4>1, <3>2, WorksWhere
        <4> QED
          BY <1>1, <2>1, <2>3, <4>1, <4>2, OthersUntouched DEF Untouched, Now
      <3> QED
        BY <3>1, <3>2
    <2> QED
      BY <1>1, <2>1, <2>2, <2>3, WorksOrigins, WorksAtWork, GoesOnInv
  <1> QED
    BY <1>2, <1>3

LEMMA InvNext ==
  ASSUME TypeOK, IInv, [Next]_vars
  PROVE  IInv'
  <1>1. ASSUME NEW w \in Writer, NEW s \in Path, NEW asked \in Name \cup {NoName},
               BeginLocal(w, s, asked)
        PROVE  IInv'
    <2> DEFINE j == [kind |-> "local", of |-> s, asked |-> asked,
                     name |-> IF asked # NoName THEN asked ELSE Manifest[s]]
    <2>1. j \in Job /\ j.name \in Name /\ j.kind = "local" /\ j.of \in Path
      BY <1>1 DEF BeginLocal, Job, Source
    <2> QED
      BY <1>1, <2>1, BeginInv DEF BeginLocal
  <1>2. ASSUME NEW w \in Writer, NEW s \in Git, NEW asked \in Name \cup {NoName},
               BeginGit(w, s, asked)
        PROVE  IInv'
    <2> DEFINE j == [kind |-> "git", of |-> s, asked |-> asked,
                     name |-> IF asked # NoName THEN asked ELSE Slug[s]]
    <2>1. j \in Job /\ j.kind = "git" /\ j.of \in Git
      BY DEF Job, Source
    <2> QED
      BY <1>2, <2>1, BeginInv DEF BeginGit
  <1>3. ASSUME NEW w \in Writer, NEW n \in Name, BeginUpdate(w, n) \/ BeginRemove(w, n)
        PROVE  IInv'
    <2>1. ASSUME NEW k \in {"update", "remove"},
                 Begin(w, [kind |-> k, of |-> NoSource, asked |-> NoName, name |-> n])
          PROVE  IInv'
      <3> DEFINE j == [kind |-> k, of |-> NoSource, asked |-> NoName, name |-> n]
      <3>1. j \in Job /\ j.kind \notin {"local", "git"} /\ j.name \in Name
        BY DEF Job
      <3> QED
        BY <2>1, <3>1, BeginInv
    <2> QED
      BY <1>3, <2>1 DEF BeginUpdate, BeginRemove
  <1>4. ASSUME NEW w \in Writer, Lock(w) \/ Busy(w) \/ Works(w)
        PROVE  IInv'
    BY <1>4, LockInv, BusyInv, WorksInv
  <1>5. ASSUME NEW l \in Lister, StartList(l)
        PROVE  IInv'
    <2> USE <1>5 DEF StartList, store, world, writers, TypeOK
    <2>1. Holder' /\ Origins' /\ Settled'
      BY DEF IInv, Holder, Origins, Original, Settled, Now
    <2>2. \A w \in Writer : AtWork(w)'
      BY DEF IInv, AtWork, Renews, Untouched, Now
    <2>3. Listing'
      BY DEF IInv, Listing, Exists
    <2> QED
      BY <2>1, <2>2, <2>3 DEF IInv
  <1>6. ASSUME NEW l \in Lister, NEW n \in Name, ReadManifest(l, n)
        PROVE  IInv'
    <2> USE <1>6 DEF ReadManifest, store, world, writers, TypeOK
    <2>1. Holder' /\ Origins' /\ Settled'
      BY DEF IInv, Holder, Origins, Original, Settled, Now
    <2>2. \A w \in Writer : AtWork(w)'
      BY DEF IInv, AtWork, Renews, Untouched, Now
    <2>3. undisturbed[l] /\ kept[n] \in Record =>
            dir[n] # NoDir /\ dir[n].state = "whole"
      BY InstalledIs DEF IInv, Listing, Settled, Now
    <2>4. \/ Exists(n) /\ found'[l] = [name |-> n, manifest |-> dir[n].of]
          \/ (Exists(n) => dir[n].state # "whole") /\ found'[l] = NoName
      OBVIOUS
    <2>5. todo'[l] = todo[l] \ {n}
      OBVIOUS
    <2>6. \A k \in Lister \ {l} : todo'[k] = todo[k] /\ found'[k] = found[k]
      OBVIOUS
    <2>7. Exists(n) => dir[n] # NoDir
      BY DEF Exists
    <2>8. Listing'
      <3>1. SUFFICES ASSUME NEW k \in Lister, undisturbed[k]
                     PROVE  /\ lock = Nobody
                            /\ found'[k] # NoName =>
                                 /\ dir[found'[k].name] # NoDir
                                 /\ found'[k].manifest = dir[found'[k].name].of
                            /\ \A i \in listed[k] :
                                 /\ dir[i.name] # NoDir /\ i.manifest = dir[i.name].of
                                 /\ sidecar[i.name] # NoSource /\ i.source = sidecar[i.name]
                            /\ \A m \in Name : kept[m] \in Record /\ Exists(m) =>
                                 \/ m \in todo'[k]
                                 \/ found'[k] # NoName /\ found'[k].name = m
                                 \/ [name |-> m, manifest |-> kept[m].of, source |-> kept[m]]
                                      \in listed[k]
        BY DEF Listing, Exists
      <3>2. CASE k # l
        BY <2>6, <3>1, <3>2 DEF IInv, Listing
      <3>3. CASE k = l
        <4>1. found[l] = NoName
          OBVIOUS
        <4>2. CASE Exists(n) /\ found'[l] = [name |-> n, manifest |-> dir[n].of]
          <5>1. /\ found'[l].name = n /\ found'[l].manifest = dir[n].of
                /\ found'[l] \in [name : Name, manifest : Source]
            BY <2>7, <4>2 DEF Dir
          <5>2. found'[l] # NoName
            BY <5>1
          <5> QED
            BY <2>5, <2>7, <3>1, <3>3, <4>1, <5>1, <5>2 DEF IInv, Listing
        <4>3. CASE (Exists(n) => dir[n].state # "whole") /\ found'[l] = NoName
          BY <2>3, <2>5, <3>1, <3>3, <4>1, <4>3 DEF IInv, Listing
        <4> QED
          BY <2>4, <4>2, <4>3
      <3> QED
        BY <3>2, <3>3
    <2> QED
      BY <2>1, <2>2, <2>8 DEF IInv
  <1>7. ASSUME NEW l \in Lister, ReadSidecar(l)
        PROVE  IInv'
    <2> DEFINE n == found[l].name
               e == [name |-> n, manifest |-> found[l].manifest, source |-> sidecar[n]]
    <2> USE <1>7 DEF ReadSidecar, store, world, writers, TypeOK
    <2>1. Holder' /\ Origins' /\ Settled'
      BY DEF IInv, Holder, Origins, Original, Settled, Now
    <2>2. \A w \in Writer : AtWork(w)'
      BY DEF IInv, AtWork, Renews, Untouched, Now
    <2>3. n \in Name
      OBVIOUS
    <2>4. undisturbed[l] /\ kept[n] \in Record =>
            sidecar[n] # NoSource /\ kept[n] = sidecar[n] /\ kept[n].of = dir[n].of
      BY <2>3, InstalledIs DEF IInv, Listing, Settled, Now
    <2>5. undisturbed[l] => dir[n] # NoDir /\ found[l].manifest = dir[n].of
      BY DEF IInv, Listing
    <2>6. listed'[l] = IF sidecar[n] = NoSource THEN listed[l] ELSE listed[l] \cup {e}
      OBVIOUS
    <2>7. \A k \in Lister \ {l} : listed'[k] = listed[k] /\ found'[k] = found[k]
      OBVIOUS
    <2>8. Listing'
      <3>1. SUFFICES ASSUME NEW k \in Lister, undisturbed[k]
                     PROVE  /\ lock = Nobody
                            /\ found'[k] # NoName =>
                                 /\ dir[found'[k].name] # NoDir
                                 /\ found'[k].manifest = dir[found'[k].name].of
                            /\ \A i \in listed'[k] :
                                 /\ dir[i.name] # NoDir /\ i.manifest = dir[i.name].of
                                 /\ sidecar[i.name] # NoSource /\ i.source = sidecar[i.name]
                            /\ \A m \in Name : kept[m] \in Record /\ Exists(m) =>
                                 \/ m \in todo[k]
                                 \/ found'[k] # NoName /\ found'[k].name = m
                                 \/ [name |-> m, manifest |-> kept[m].of, source |-> kept[m]]
                                      \in listed'[k]
        BY DEF Listing, Exists
      <3>2. CASE k # l
        BY <2>7, <3>1, <3>2 DEF IInv, Listing
      <3>3. CASE k = l
        <4>1. lock = Nobody /\ found'[l] = NoName
          BY <3>1, <3>3 DEF IInv, Listing
        <4>2. ASSUME NEW i \in listed'[l]
              PROVE  /\ dir[i.name] # NoDir /\ i.manifest = dir[i.name].of
                     /\ sidecar[i.name] # NoSource /\ i.source = sidecar[i.name]
          <5>1. CASE i \in listed[l]
            BY <3>1, <3>3, <5>1 DEF IInv, Listing
          <5>2. CASE i = e /\ sidecar[n] # NoSource
            BY <2>5, <3>1, <3>3, <5>2
          <5> QED
            BY <2>6, <4>2, <5>1, <5>2
        <4>3. ASSUME NEW m \in Name, kept[m] \in Record, Exists(m)
              PROVE  m \in todo[l] \/ [name |-> m, manifest |-> kept[m].of,
                                       source |-> kept[m]] \in listed'[l]
          <5>1. CASE m = n
            BY <2>4, <2>5, <2>6, <3>1, <3>3, <4>3, <5>1
          <5>2. CASE m # n
            BY <2>6, <3>1, <3>3, <4>3, <5>2 DEF IInv, Listing
          <5> QED
            BY <5>1, <5>2
        <4> QED
          BY <3>3, <4>1, <4>2, <4>3
      <3> QED
        BY <3>2, <3>3
    <2> QED
      BY <2>1, <2>2, <2>8 DEF IInv
  <1>8. ASSUME NEW s \in Git, Push(s)
        PROVE  IInv'
    <2> USE <1>8 DEF Push, store, writers, listers, TypeOK
    <2>1. ASSUME NEW d \in Dir, Original(d)
          PROVE  Original(d)'
      BY <2>1 DEF Original, Dir
    <2>2. Origins'
      BY <2>1 DEF IInv, Origins
    <2>3. Holder' /\ Settled' /\ Listing'
      BY DEF IInv, Holder, Settled, Now, Listing, Exists
    <2>4. \A w \in Writer : AtWork(w)'
      BY DEF IInv, AtWork, Renews, Untouched, Now
    <2> QED
      BY <2>2, <2>3, <2>4 DEF IInv
  <1>9. ASSUME NEW s \in Path, Vanish(s)
        PROVE  IInv'
    <2> USE <1>9 DEF Vanish, store, writers, listers, TypeOK
    <2>1. \A n \in Name : Exists(n)' => Exists(n)
      BY DEF Exists
    <2>2. Holder' /\ Settled' /\ Origins' /\ Listing'
      BY <2>1 DEF IInv, Holder, Settled, Now, Origins, Original, Listing
    <2>3. \A w \in Writer : AtWork(w)'
      BY DEF IInv, AtWork, Renews, Untouched, Now
    <2> QED
      BY <2>2, <2>3 DEF IInv
  <1>10. CASE UNCHANGED vars
    <2> USE <1>10 DEF vars, store, world, writers, listers
    <2>1. Holder' /\ Origins' /\ Settled' /\ Listing'
      BY DEF IInv, Holder, Origins, Original, Settled, Now, Listing, Exists
    <2>2. \A w \in Writer : AtWork(w)'
      BY DEF IInv, AtWork, Renews, Untouched, Now
    <2> QED
      BY <2>1, <2>2 DEF IInv
  <1> QED
    BY <1>1, <1>2, <1>3, <1>4, <1>5, <1>6, <1>7, <1>8, <1>9, <1>10 DEF Next, Works

LEMMA Inductive == Spec => [](TypeOK /\ IInv)
  <1>1. Init => TypeOK /\ IInv
    BY TypedInit, InvInit
  <1>2. TypeOK /\ IInv /\ [Next]_vars => (TypeOK /\ IInv)'
    BY TypedNext, InvNext
  <1> QED
    BY <1>1, <1>2, PTL DEF Spec

\* Types.
THEOREM TypeCorrect == Spec => []TypeOK
  BY Inductive, PTL

-----------------------------------------------------------------------------
(* What a command has done when it returns.                                *)

\* While a command goes on, nothing is kept of what it does.
LEMMA WorksKeeps ==
  ASSUME TypeOK, IInv, NEW w \in Writer, Works(w), lock' # Nobody
  PROVE  kept' = kept /\ lock' = lock
  BY WorksHow DEF Go, Return

\* When it returns, what it has worked on is kept; a name that was installed
\* has kept its source and has no older commit, is free, or is unusable.
LEMMA ReturnKeeps ==
  ASSUME TypeOK, TypeOK', IInv, NEW w \in Writer, Works(w), lock' = Nobody
  PROVE  LET n == job[w].name
         IN /\ \A m \in Name \ {n} : kept'[m] = kept[m]
            /\ \A m \in Name : kept'[m] = Installed(dir'[m], sidecar'[m])
            /\ n \in Name /\ kept[n] \in Record /\ kept'[n] \in Record =>
                 kept'[n].of = kept[n].of /\ kept'[n].sha >= kept[n].sha
            /\ result'[w] = "refused" /\ n \in Name => kept'[n] = kept[n]
  <1> DEFINE n == job[w].name
             s == job[w].of
  <1> USE DEF Holds, TypeOK
  <1>0. lock = w /\ AtWork(w) /\ UNCHANGED head
    BY WorksWhere, WorksReturns DEF IInv, Return, world
  <1>1. \A m \in Name : kept'[m] = Installed(dir'[m], sidecar'[m])
    BY WorksReturns DEF Return
  <1>2. \A m \in Name \ {n} : kept'[m] = kept[m]
    BY <1>0, <1>1, WorksReturns, OthersUntouched DEF Untouched, Now
  <1>3. SUFFICES ASSUME n \in Name
                 PROVE  /\ kept[n] \in Record /\ kept'[n] \in Record =>
                             kept'[n].of = kept[n].of /\ kept'[n].sha >= kept[n].sha
                        /\ result'[w] = "refused" => kept'[n] = kept[n]
    BY <1>1, <1>2
  <1>18. /\ kept'[n] = Absent <=> dir'[n] = NoDir
         /\ kept'[n] \in Record =>
              kept'[n] = sidecar'[n] /\ dir'[n] # NoDir /\ dir'[n].state = "whole"
    BY <1>1, <1>3, InstalledIs
  <1>4. kept[n] \in Record => kept[n].sha >= kept[n].sha
    BY DEF Record
  <1>5. CASE UNCHANGED store /\ (result'[w] = "refused" => Untouched(n))
    <2>1. /\ dir'[n] = dir[n] /\ sidecar'[n] = sidecar[n]
          /\ kept'[n] = Installed(dir[n], sidecar[n])
      BY <1>1, <1>3, <1>5 DEF store
    <2>2. CASE pc[w] = "pulling"
      <3>1. \E d \in Dir : kept[n] = Installed(d, sidecar[n])
        BY <1>0, <2>2, WorksOn, PullTypes DEF AtWork
      <3>2. kept[n] \in Record => kept[n] = sidecar[n]
        BY <1>3, <3>1, InstalledIs
      <3>3. kept'[n] \in Record => kept'[n] = sidecar[n]
        BY <1>18, <2>1
      <3> QED
        BY <1>4, <1>5, <2>1, <3>2, <3>3 DEF Untouched, Now
    <2>3. CASE Untouched(n)
      BY <1>4, <2>1, <2>3 DEF Untouched, Now
    <2>4. CASE kept[n] = Absent
      BY <1>5, <2>1, <2>4 DEF Untouched, Now
    <2>5. CASE kept[n] \in Record => kept[n] = sidecar[n]
      <3>1. kept'[n] \in Record => kept'[n] = sidecar[n]
        BY <1>18, <2>1
      <3> QED
        BY <1>4, <1>5, <2>1, <2>5, <3>1 DEF Untouched, Now
    <2>6. CASE pc[w] \in {"removing", "removed"}
      <3>1. dir[n] = NoDir \/ dir[n].state = "part"
        BY <1>0, <2>6 DEF AtWork
      <3>2. kept'[n] \notin Record
        BY <1>18, <2>1, <3>1
      <3> QED
        BY <1>5, <2>1, <3>2 DEF Untouched, Now
    <2> QED
      BY <1>0, <1>3, <2>2, <2>3, <2>4, <2>5, <2>6
         DEF AtWork, Renews, Locals, IInv, Holder
  <1>6. CASE dir'[n] = NoDir /\ (result'[w] = "refused" => kept[n] = Absent)
    BY <1>1, <1>3, <1>6 DEF Installed
  <1>7. CASE dir'[n].state = "part" /\ dir'[n] # NoDir /\ result'[w] # "refused"
    <2>1. kept'[n] \notin Record
      BY <1>18, <1>7
    <2> QED
      BY <1>7, <2>1
  <1>8. CASE Place(w) \/ Clone(w)
    <2>1. UNCHANGED store
      BY <1>0, <1>8 DEF Place, Clone, Refuse, Go
    <2>2. Untouched(n)
      BY <1>0, <1>3, <1>8 DEF Place, Clone, AtWork
    <2> QED
      BY <1>5, <2>1, <2>2
  <1>9. CASE Copy(w)
    BY <1>0, <1>5, <1>9 DEF Copy, Go, Return
  <1>10. CASE Cloned(w) \/ Resolve(w)
    <2>1. kept[n] = Absent
      BY <1>0, <1>10 DEF Cloned, Resolve, AtWork
    <2>2. \/ dir' = [dir EXCEPT ![n] = NoDir]
          \/ UNCHANGED store /\ result'[w] = "failed"
      BY <1>0, <1>10 DEF Cloned, Resolve, Go, Return, store
    <2> QED
      BY <1>3, <1>5, <1>6, <2>1, <2>2
  <1>11. CASE WriteSidecar(w)
    <2>1. CASE sidecar' = [sidecar EXCEPT ![n] = [of |-> s, sha |-> dir[n].head]]
               /\ UNCHANGED dir /\ result'[w] = "ok"
      <3>1. kept'[n] \in Record => kept'[n].of = s /\ kept'[n].sha = dir[n].head
        <4>1. sidecar'[n] = [of |-> s, sha |-> dir[n].head]
          BY <1>3, <2>1
        <4> QED
          BY <1>18, <4>1
      <3>2. kept[n] \in Record => kept[n].of = s /\ dir[n].head >= kept[n].sha
        BY <1>0, <1>11 DEF WriteSidecar, AtWork, Renews
      <3> QED
        BY <2>1, <3>1, <3>2
    <2>2. CASE job[w].kind = "git" /\ dir' = [dir EXCEPT ![n] = NoDir]
      BY <1>0, <1>3, <1>6, <1>11, <2>2 DEF WriteSidecar, AtWork
    <2> QED
      BY <1>0, <1>5, <1>11, <2>1, <2>2 DEF WriteSidecar, Return
  <1>12. CASE ReadSource(w)
    <2>1. UNCHANGED store
      BY <1>0, <1>12 DEF ReadSource, Refuse
    <2>2. Untouched(n)
      BY <1>0, <1>3, <1>12 DEF ReadSource, AtWork
    <2> QED
      BY <1>5, <2>1, <2>2
  <1>13. CASE pc[w] = "pulling" /\ ~UNCHANGED dir
    <2>1. /\ dir[n] \in Dir /\ Renews(n, s) /\ sidecar' = sidecar
          /\ kept[n] = Installed(Unpulled(dir[n]), sidecar[n])
      BY <1>0, <1>13, WorksOn
         DEF AtWork, Works, Place, Copy, Clone, Cloned, Resolve, WriteSidecar, ReadSource,
             Pull, PullEnds, Clear, RemoveDir, Removing, RemoveSidecar, Kill
    <2>2. kept'[n] \in Record => kept'[n] = sidecar[n]
      <3>1. sidecar'[n] = sidecar[n]
        BY <2>1
      <3> QED
        BY <1>18, <3>1
    <2>3. result'[w] = "refused" => dir'[n] = Unpulled(dir[n])
      BY <1>0, <1>13, <2>1
         DEF Works, Place, Copy, Clone, Cloned, Resolve, WriteSidecar, ReadSource,
             Pull, PullEnds, Clear, RemoveDir, Removing, RemoveSidecar, Kill, Go, Return
    <2>4. result'[w] = "refused" => kept'[n] = kept[n]
      BY <1>1, <1>3, <2>1, <2>3
    <2> QED
      BY <1>4, <2>1, <2>2, <2>4 DEF Renews
  <1>14. CASE PullEnds(w)
    <2>1. pc[w] = "pulling" /\ sidecar' = sidecar
      BY <1>14 DEF PullEnds
    <2>2. CASE UNCHANGED dir
      <3>1. dir'[n] = Unpulled(dir[n])
        BY <1>0, <1>3, <1>14 DEF PullEnds, Go
      <3>2. kept'[n] = kept[n]
        BY <1>0, <1>1, <1>3, <2>1, <3>1 DEF AtWork
      <3> QED
        BY <1>4, <3>2
    <2> QED
      BY <1>13, <2>1, <2>2
  <1>15. CASE Clear(w)
    <2>1. dir[n] \in Dir /\ dir' = [dir EXCEPT ![n].state = "part"] /\ result'[w] = "failed"
      BY <1>0, <1>15, WorksOn DEF Clear, Go, Return
    <2>2. dir'[n].state = "part"
      BY <1>3, <2>1 DEF Dir
    <2>3. dir'[n] # NoDir
      BY <1>3, <2>1 DEF Dir
    <2> QED
      BY <1>7, <2>1, <2>2, <2>3
  <1>16. CASE Pull(w) \/ RemoveDir(w)
    BY <1>0, <1>16 DEF Pull, RemoveDir, Go
  <1>17. CASE Removing(w) \/ RemoveSidecar(w)
    <2>1. /\ pc[w] \in {"removing", "removed"} /\ result'[w] # "refused"
          /\ UNCHANGED dir
      BY <1>0, <1>17 DEF Removing, RemoveSidecar, Go, Return
    <2>2. dir'[n] = NoDir \/ (dir'[n] # NoDir /\ dir'[n].state = "part")
      BY <1>0, <2>1 DEF AtWork
    <2> QED
      BY <1>6, <1>7, <2>1, <2>2
  <1>19. CASE Kill(w)
    <2>1. result'[w] = "killed" /\ sidecar' = sidecar
      BY <1>19 DEF Kill, Return
    <2>2. CASE UNCHANGED dir
      BY <1>5, <2>1, <2>2 DEF store
    <2>3. CASE dir' = [dir EXCEPT ![n] = NoDir]
      BY <1>3, <1>6, <2>1, <2>3
    <2> QED
      BY <1>13, <1>19, <2>2, <2>3 DEF Kill
  <1> QED
    BY <1>8, <1>9, <1>10, <1>11, <1>12, <1>14, <1>15, <1>16, <1>17, <1>19 DEF Works

LEMMA OthersKeep ==
  ASSUME [Next]_vars
  PROVE  \/ \E w \in Writer : Works(w)
         \/ /\ kept' = kept
            /\ \A w \in Writer : lock = w /\ w # Nobody => lock' = lock
  BY Zenon DEF Next, Works, vars, BeginLocal, BeginGit, BeginUpdate, BeginRemove, Begin, Lock,
         Busy, StartList, ReadManifest, ReadSidecar, Push, Vanish

\* What the commands do to the store, from lock to unlock, is what the map from
\* names to sources does: no plugin is replaced by another one, none goes back
\* to an older commit, and none is paired with the sidecar of another one.
THEOREM Implements == Spec => ImplementsRegistry
  <1>1. Init => Registry!Init
    BY DEF Init, Registry!Init
  <1>2. ASSUME TypeOK, IInv, TypeOK', [Next]_vars
        PROVE  [Registry!Next]_kept
    <2>1. ASSUME NEW w \in Writer, Works(w)
          PROVE  [Registry!Next]_kept
      <3> DEFINE n == job[w].name
      <3>1. CASE lock' # Nobody
        BY <1>2, <2>1, <3>1, WorksKeeps
      <3>2. CASE kept' = kept
        BY <3>2
      <3>3. CASE lock' = Nobody /\ kept' # kept
        <4>1. /\ \A m \in Name \ {n} : kept'[m] = kept[m]
              /\ n \in Name /\ kept[n] \in Record /\ kept'[n] \in Record =>
                   kept'[n].of = kept[n].of /\ kept'[n].sha >= kept[n].sha
          BY <1>2, <2>1, <3>3, ReturnKeeps
        <4>2. n \in Name /\ kept' = [kept EXCEPT ![n] = kept'[n]]
          BY <1>2, <3>3, <4>1 DEF TypeOK
        <4>3. kept[n] \in Record \cup {Absent, Broken} /\ kept'[n] \in Record \cup {Absent, Broken}
          BY <1>2, <4>2 DEF TypeOK
        <4>4. CASE kept'[n] = Absent
          BY <4>2, <4>4 DEF Registry!Next, Registry!Remove
        <4>5. CASE kept'[n] = Broken
          BY <4>2, <4>5 DEF Registry!Next, Registry!Break
        <4>6. CASE kept'[n] \in Record
          <5>1. Registry!Install(n, kept'[n]) \/ Registry!Update(n, kept'[n])
            BY <4>1, <4>2, <4>3, <4>6 DEF Registry!Install, Registry!Update
          <5> QED
            BY <4>2, <4>6, <5>1 DEF Registry!Next
        <4> QED
          BY <4>3, <4>4, <4>5, <4>6
      <3> QED
        BY <3>1, <3>2, <3>3
    <2> QED
      BY <1>2, <2>1, OthersKeep
  <1> QED
    BY <1>1, <1>2, Inductive, PTL DEF Spec, ImplementsRegistry, Registry!Spec

\* A command that is refused leaves what is installed as it was.
THEOREM RefusedIsClean == Spec => RefusedChangesNothing
  <1>1. ASSUME TypeOK, IInv, TypeOK', [Next]_vars
        PROVE  \A w \in Writer :
                 lock = w /\ lock' = Nobody /\ result'[w] = "refused" => kept' = kept
    <2>1. SUFFICES ASSUME NEW w \in Writer, lock = w, lock' = Nobody, result'[w] = "refused"
                   PROVE  kept' = kept
      OBVIOUS
    <2>2. CASE Works(w)
      <3>1. \A m \in Name : kept'[m] = kept[m]
        BY <1>1, <2>1, <2>2, ReturnKeeps
      <3> QED
        BY <1>1, <3>1 DEF TypeOK
    <2>3. \A v \in Writer : Works(v) => v = w
      BY <1>1, <2>1, WorksWhere
    <2>4. CASE kept' = kept
      BY <2>4
    <2> QED
      BY <1>1, <2>1, <2>2, <2>3, <2>4, OthersKeep
  <1> QED
    BY <1>1, Inductive, PTL DEF Spec, RefusedChangesNothing

\* A removal that reports no error has left neither a directory nor a sidecar.
THEOREM RemoveFreesName == Spec => RemoveFrees
  <1>1. ASSUME TypeOK, IInv, TypeOK', [Next]_vars
        PROVE  \A w \in Writer :
                 lock = w /\ lock' = Nobody /\ result'[w] = "ok" /\ job[w].kind = "remove"
                   => dir'[job[w].name] = NoDir /\ sidecar'[job[w].name] = NoSource
    <2>1. SUFFICES ASSUME NEW w \in Writer, lock = w, lock' = Nobody, result'[w] = "ok",
                          job[w].kind = "remove"
                   PROVE  dir'[job[w].name] = NoDir /\ sidecar'[job[w].name] = NoSource
      OBVIOUS
    <2>2. Works(w)
      <3>1. \A v \in Writer : Works(v) => v = w
        BY <1>1, <2>1, WorksWhere
      <3>2. Nobody # w
        OBVIOUS
      <3> QED
        BY <1>1, <2>1, <3>1, <3>2, OthersKeep
    <2>3. AtWork(w) /\ pc[w] \in Locals
      BY <1>1 DEF IInv, TypeOK
    <2>4. CASE RemoveSidecar(w)
      <3>1. job[w].name \in Name /\ dir[job[w].name] = NoDir
        BY <2>3, <2>4 DEF RemoveSidecar, AtWork, Holds
      <3>2. sidecar' = [sidecar EXCEPT ![job[w].name] = NoSource] /\ dir' = dir
        BY <1>1, <2>1, <2>4 DEF RemoveSidecar, Return, TypeOK
      <3> QED
        BY <1>1, <3>1, <3>2 DEF TypeOK
    <2>5. ~(Place(w) \/ Clone(w) \/ Cloned(w) \/ Resolve(w) \/ WriteSidecar(w)
            \/ ReadSource(w))
      BY <2>1, <2>3 DEF Place, Clone, Cloned, Resolve, WriteSidecar, ReadSource, AtWork, Holds
    <2>6. ~(Copy(w) \/ Pull(w) \/ PullEnds(w) \/ Clear(w))
      BY <2>1, <2>3 DEF Copy, Pull, PullEnds, Clear, AtWork, Holds
    <2>7. ~(RemoveDir(w) \/ Removing(w) \/ Kill(w))
      BY <1>1, <2>1 DEF RemoveDir, Removing, Kill, Go, Return, TypeOK
    <2> QED
      BY <2>2, <2>4, <2>5, <2>6, <2>7 DEF Works
  <1> QED
    BY <1>1, Inductive, PTL DEF Spec, RemoveFrees

\* A listing during which nobody held the lock is right.
THEOREM ListingIsRight == Spec => []ListsWhatIsInstalled
  <1>1. ASSUME TypeOK, IInv
        PROVE  ListsWhatIsInstalled
    <2>1. SUFFICES ASSUME NEW l \in Lister, undisturbed[l], todo[l] = {}, found[l] = NoName,
                          NEW n \in Name
                   PROVE  /\ kept[n] \in Record /\ Exists(n) =>
                               [name |-> n, manifest |-> kept[n].of, source |-> kept[n]]
                                 \in listed[l]
                          /\ \A e \in listed[l] : e.name = n =>
                               /\ kept[n] # Absent
                               /\ kept[n] \in Record =>
                                    e.source = kept[n] /\ e.manifest = kept[n].of
      BY DEF ListsWhatIsInstalled
    <2>2. kept[n] = Installed(dir[n], sidecar[n])
      BY <1>1, <2>1 DEF IInv, Listing, Settled, Now
    <2>3. /\ kept[n] = Absent <=> dir[n] = NoDir
          /\ kept[n] \in Record =>
               kept[n] = sidecar[n] /\ kept[n].of = dir[n].of
      BY <1>1, <2>2, InstalledIs DEF TypeOK
    <2> QED
      BY <1>1, <2>1, <2>3 DEF IInv, Listing
  <1> QED
    BY <1>1, Inductive, PTL
===============================================================================
