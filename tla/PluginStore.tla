----------------------------- MODULE PluginStore ------------------------------
(***************************************************************************)
(* The plugin store ~/.zuit/plugins (zuit-plugins: install.rs, update.rs,  *)
(* remove.rs, store.rs).  An installed plugin is a directory, link or git  *)
(* clone <name> and beside it a sidecar <name>.source.json that says where *)
(* it came from.  Commands that change the store try to take one lock and  *)
(* give up if it is held; listings, and with them every analysis, do not   *)
(* take it.  Any command may be killed between two steps, or fail.         *)
(*                                                                         *)
(* The lock is a flock, freed by the death of its holder; the lock file is *)
(* never removed.  The temporary file of a sidecar is used under the lock  *)
(* only and read by nobody, so write and rename are one step.  An          *)
(* interrupt reaches git, too.                                             *)
(***************************************************************************)
EXTENDS Naturals

CONSTANTS
  Writer,     \* processes that run add-, update- or remove-analyzer
  Lister,     \* processes that list plugins, for the user or for an analysis
  Name,       \* install names
  Git, Path,  \* sources: repositories and local directories
  Manifest,   \* per source, the name its manifest gives; NoName: not valid
  Slug,       \* per repository, the name its URL ends in; NoName: none
  NoName,     \* no --name given, or no such name
  NoDir,      \* nothing under this name
  NoSource,   \* no such sidecar
  Nobody,     \* the lock is free
  Absent, Broken,  \* what is installed under a name that is free or unusable
  MaxHead,    \* bound: commits of a repository
  MaxBegins,  \* bound: commands run
  MaxLists    \* bound: listings

VARIABLES
  unix,       \* whether local plugins are linked or, on Windows, copied
  dir,        \* per name: the directory, link or clone
  sidecar,    \* per name: the sidecar
  lock,       \* the holder of .lock
  head,       \* per repository: its newest commit
  exists,     \* per local source: whether the user has kept it
  pc, job,    \* per writer: where it is, what it was asked to do
  result,     \* per writer: how its last command ended
  kept,       \* history: what was installed when the lock was last released
  todo, found, listed, \* per lister: names to look at, the one whose manifest
              \* it has read, and what it lists
  undisturbed, \* history, per lister: nobody has held the lock meanwhile
  begins, lists  \* counters for the bounds

store   == <<dir, sidecar>>
world   == <<unix, head, exists>>
writers == <<pc, job, result>>
listers == <<todo, found, listed, undisturbed, lists>>
vars    == <<world, store, lock, writers, kept, listers, begins>>

Source == Git \cup Path
Job    == [kind : {"local", "git", "update", "remove"},
           of : Source \cup {NoSource}, asked : Name \cup {NoName},
           name : Name \cup {NoName}]
Dir    == [kind : {"link", "clone", "copy"}, of : Source, head : 0..MaxHead,
           state : {"whole", "part", "pull"}]
Record == [of : Source, sha : 0..MaxHead]
Entry  == [name : Name, manifest : Source, source : Record]

ASSUME PluginConstants ==
  /\ Git \cap Path = {}
  /\ Manifest \in [Source -> Name \cup {NoName}]
  /\ Slug \in [Git -> Name \cup {NoName}]
  /\ NoName \notin Name \cup [name : Name, manifest : Source]
  /\ NoDir \notin Dir /\ NoSource \notin Record \cup Source
  /\ Nobody \notin Writer
  /\ Absent # Broken /\ {Absent, Broken} \cap Record = {}
  /\ {MaxHead, MaxBegins, MaxLists} \subseteq Nat

NoJob == [kind |-> "remove", of |-> NoSource, asked |-> NoName, name |-> NoName]

HeadOf(s) == IF s \in Git THEN head[s] ELSE 0

\* Path::exists follows links: a link to a directory that is gone is nothing.
Exists(n) == dir[n] # NoDir /\ (dir[n].kind = "link" => exists[dir[n].of])

Installed(d, s) ==
  IF d = NoDir THEN Absent
  ELSE IF s # NoSource /\ d.state = "whole" /\ s = [of |-> d.of, sha |-> d.head] THEN s
  ELSE Broken

-----------------------------------------------------------------------------

Init ==
  /\ unix \in BOOLEAN
  /\ dir = [n \in Name |-> NoDir]
  /\ sidecar = [n \in Name |-> NoSource]
  /\ lock = Nobody
  /\ head = [s \in Git |-> 0]
  /\ exists = [s \in Path |-> TRUE]
  /\ pc = [w \in Writer |-> "idle"]
  /\ job = [w \in Writer |-> NoJob]
  /\ result = [w \in Writer |-> "none"]
  /\ kept = [n \in Name |-> Absent]
  /\ todo = [l \in Lister |-> {}]
  /\ found = [l \in Lister |-> NoName]
  /\ listed = [l \in Lister |-> {}]
  /\ undisturbed = [l \in Lister |-> FALSE]
  /\ begins = 0 /\ lists = 0

-----------------------------------------------------------------------------
(* Commands that change the store.                                         *)

Holds(w, there) == lock = w /\ pc[w] = there

Go(w, there) ==
  /\ pc' = [pc EXCEPT ![w] = there]
  /\ UNCHANGED <<world, lock, job, result, kept, listers, begins>>

\* The command returns and drops the lock.
Return(w, how) ==
  /\ lock' = Nobody
  /\ pc' = [pc EXCEPT ![w] = "idle"]
  /\ job' = [job EXCEPT ![w] = NoJob]
  /\ result' = [result EXCEPT ![w] = how]
  /\ kept' = [n \in Name |-> Installed(dir'[n], sidecar'[n])]
  /\ UNCHANGED <<world, listers, begins>>

\* An error before anything was changed.
Refuse(w) == UNCHANGED store /\ Return(w, "refused")

Begin(w, j) ==
  /\ pc[w] = "idle" /\ begins < MaxBegins
  /\ begins' = begins + 1
  /\ job' = [job EXCEPT ![w] = j]
  /\ pc' = [pc EXCEPT ![w] = "lock"]
  /\ result' = [result EXCEPT ![w] = "none"]
  /\ UNCHANGED <<world, store, lock, kept, listers>>

\* A local source must be there and its manifest valid before the lock is taken.
BeginLocal(w, s, asked) ==
  /\ exists[s] /\ Manifest[s] # NoName
  /\ Begin(w, [kind |-> "local", of |-> s, asked |-> asked,
               name |-> IF asked # NoName THEN asked ELSE Manifest[s]])

\* The tentative name of a repository is the one asked for or its slug.
BeginGit(w, s, asked) ==
  Begin(w, [kind |-> "git", of |-> s, asked |-> asked,
            name |-> IF asked # NoName THEN asked ELSE Slug[s]])

BeginUpdate(w, n) ==
  Begin(w, [kind |-> "update", of |-> NoSource, asked |-> NoName, name |-> n])

BeginRemove(w, n) ==
  Begin(w, [kind |-> "remove", of |-> NoSource, asked |-> NoName, name |-> n])

\* acquire_install_lock: try_lock_exclusive does not wait.
Lock(w) ==
  /\ pc[w] = "lock"
  /\ lock = Nobody
  /\ lock' = w
  /\ pc' = [pc EXCEPT ![w] = job[w].kind]
  /\ undisturbed' = [l \in Lister |-> FALSE]
  /\ UNCHANGED <<world, store, job, result, kept, todo, found, listed, lists, begins>>

Busy(w) ==
  /\ pc[w] = "lock"
  /\ lock # Nobody
  /\ pc' = [pc EXCEPT ![w] = "idle"]
  /\ job' = [job EXCEPT ![w] = NoJob]
  /\ result' = [result EXCEPT ![w] = "refused"]
  /\ UNCHANGED <<world, store, lock, kept, listers, begins>>

\* Mutant: what has the name already is replaced.
PlaceOver(w) ==
  /\ Holds(w, "local") /\ exists[job[w].of]
  /\ dir' = [dir EXCEPT ![job[w].name] =
       [kind |-> IF unix THEN "link" ELSE "copy", of |-> job[w].of,
        head |-> 0, state |-> IF unix THEN "whole" ELSE "part"]]
  /\ Go(w, IF unix THEN "sidecar" ELSE "copy")
  /\ UNCHANGED sidecar

\* install_local: link, or begin to copy, unless the name is taken; a link
\* whose target is gone does not exist, but symlink refuses to replace it.
Place(w) ==
  /\ Holds(w, "local")
  /\ LET n == job[w].name
         s == job[w].of
     IN IF dir[n] # NoDir \/ ~exists[s]
          THEN Refuse(w)
          ELSE /\ dir' = [dir EXCEPT ![n] =
                    [kind |-> IF unix THEN "link" ELSE "copy", of |-> s,
                     head |-> 0, state |-> IF unix THEN "whole" ELSE "part"]]
               /\ Go(w, IF unix THEN "sidecar" ELSE "copy")
               /\ UNCHANGED sidecar

\* copy_dir_recursive, to its end or to an error.
Copy(w) ==
  /\ Holds(w, "copy")
  /\ \/ /\ dir' = [dir EXCEPT ![job[w].name].state = "whole"]
        /\ Go(w, "sidecar")
        /\ UNCHANGED sidecar
     \/ UNCHANGED store /\ Return(w, "failed")

\* install_git: git clones into a directory it creates.
Clone(w) ==
  /\ Holds(w, "git")
  /\ LET n == job[w].name
     IN IF n = NoName \/ dir[n] # NoDir
          THEN Refuse(w)
          ELSE /\ dir' = [dir EXCEPT ![n] =
                    [kind |-> "clone", of |-> job[w].of, head |-> 0,
                     state |-> "part"]]
               /\ Go(w, "cloning")
               /\ UNCHANGED sidecar

\* A clone that fails takes its directory with it.
Cloned(w) ==
  /\ Holds(w, "cloning")
  /\ LET n == job[w].name
     IN \/ /\ dir' = [dir EXCEPT ![n].state = "whole", ![n].head = HeadOf(job[w].of)]
           /\ Go(w, "resolve")
           /\ UNCHANGED sidecar
        \/ /\ dir' = [dir EXCEPT ![n] = NoDir]
           /\ UNCHANGED sidecar
           /\ Return(w, "refused")

\* Mutant: a clone with an invalid manifest stays.
ResolveKeeps(w) == Holds(w, "resolve") /\ UNCHANGED store /\ Return(w, "refused")

\* The final name is the one asked for or the manifest's.  rev-parse may fail,
\* the manifest be invalid or the final name taken: the clone is removed.
Final(w) == IF job[w].asked # NoName THEN job[w].asked ELSE Manifest[job[w].of]

Resolve(w) ==
  /\ Holds(w, "resolve")
  /\ UNCHANGED sidecar
  /\ LET n == job[w].name
         f == Final(w)
     IN \/ /\ dir' = [dir EXCEPT ![n] = NoDir]
           /\ Return(w, "refused")
        \/ /\ Manifest[job[w].of] # NoName /\ f = n
           /\ Go(w, "sidecar")
           /\ UNCHANGED dir
        \/ /\ Manifest[job[w].of] # NoName /\ f # n /\ dir[f] = NoDir
           /\ dir' = [dir EXCEPT ![f] = dir[n], ![n] = NoDir]
           /\ job' = [job EXCEPT ![w].name = f]
           /\ pc' = [pc EXCEPT ![w] = "sidecar"]
           /\ UNCHANGED <<world, lock, result, kept, listers, begins>>
        \/ /\ Manifest[job[w].of] # NoName /\ f # n /\ ~Exists(f)
           /\ UNCHANGED dir    \* the rename fails: the clone stays
           /\ Return(w, "failed")

\* write_source_sidecar ends an installation or an update.  If it fails, a
\* clone just installed is removed; a link, a copy and an update stay.
WriteSidecar(w) ==
  /\ Holds(w, "sidecar")
  /\ LET n == job[w].name
     IN \/ /\ sidecar' = [sidecar EXCEPT ![n] =
                [of |-> job[w].of, sha |-> dir[n].head]]
           /\ UNCHANGED dir
           /\ Return(w, "ok")
        \/ /\ job[w].kind = "git"
           /\ dir' = [dir EXCEPT ![n] = NoDir]
           /\ UNCHANGED sidecar
           /\ Return(w, "refused")
        \/ /\ job[w].kind # "git"
           /\ UNCHANGED store
           /\ Return(w, "failed")

\* update: the directory and the sidecar must be there.  What is pulled is the
\* origin of the directory, what is recorded the repository of the sidecar.
ReadSource(w) ==
  /\ Holds(w, "update")
  /\ LET n == job[w].name
         s == sidecar[n]
     IN IF dir[n] = NoDir \/ s = NoSource
          THEN Refuse(w)
        ELSE IF s.of \in Path /\ (dir[n].kind = "link" \/ ~exists[s.of])
          THEN UNCHANGED store
               /\ Return(w, IF dir[n].kind = "link" THEN "ok" ELSE "refused")
        ELSE /\ job' = [job EXCEPT ![w].of = s.of]
             /\ pc' = [pc EXCEPT ![w] = IF s.of \in Git THEN "pull" ELSE "clear"]
             /\ UNCHANGED <<world, store, lock, result, kept, listers, begins>>

\* git pull --ff-only replaces files one by one.
Pull(w) ==
  /\ Holds(w, "pull")
  /\ LET n == job[w].name
         d == dir[n]
     IN dir' = [dir EXCEPT ![n].state =
          IF d.kind = "clone" /\ d.state = "whole" /\ d.head < HeadOf(d.of)
            THEN "pull" ELSE @]
  /\ Go(w, "pulling")
  /\ UNCHANGED sidecar

Unpulled(d) == [d EXCEPT !.state = IF @ = "pull" THEN "whole" ELSE @]

Pulled(d) ==
  [Unpulled(d) EXCEPT !.head = IF d.kind = "clone" THEN HeadOf(d.of) ELSE @]

PullEnds(w) ==
  /\ Holds(w, "pulling")
  /\ UNCHANGED sidecar
  /\ LET n == job[w].name
     IN \/ /\ dir' = [dir EXCEPT ![n] = Pulled(dir[n])]
           /\ Go(w, "sidecar")
        \/ /\ dir' = [dir EXCEPT ![n] = Unpulled(dir[n])]
           /\ Return(w, "refused")

\* update_local, where the plugin is not a link: it is removed and copied anew.
Clear(w) ==
  /\ Holds(w, "clear")
  /\ UNCHANGED sidecar
  /\ LET n == job[w].name
     IN \/ /\ dir' = [dir EXCEPT ![n] =
                [kind |-> "copy", of |-> job[w].of, head |-> 0, state |-> "part"]]
           /\ Go(w, "copy")
        \/ /\ dir' = [dir EXCEPT ![n].state = "part"]
           /\ Return(w, "failed")

\* Mutant: exists() follows the link, so that a dangling one is not removed.
RemoveDirFollows(w) ==
  /\ Holds(w, "remove")
  /\ dir' = IF Exists(job[w].name) THEN [dir EXCEPT ![job[w].name] = NoDir] ELSE dir
  /\ Go(w, "removed")
  /\ UNCHANGED sidecar

\* remove: the link at once, a directory file by file, then the sidecar.
RemoveDir(w) ==
  /\ Holds(w, "remove")
  /\ LET n == job[w].name
     IN IF dir[n] = NoDir \/ dir[n].kind = "link"
          THEN dir' = [dir EXCEPT ![n] = NoDir] /\ Go(w, "removed")
          ELSE dir' = [dir EXCEPT ![n].state = "part"] /\ Go(w, "removing")
  /\ UNCHANGED sidecar

Removing(w) ==
  /\ Holds(w, "removing")
  /\ UNCHANGED sidecar
  /\ \/ dir' = [dir EXCEPT ![job[w].name] = NoDir] /\ Go(w, "removed")
     \/ UNCHANGED dir /\ Return(w, "failed")

RemoveSidecar(w) ==
  /\ Holds(w, "removed")
  /\ UNCHANGED dir
  /\ \/ sidecar' = [sidecar EXCEPT ![job[w].name] = NoSource] /\ Return(w, "ok")
     \/ UNCHANGED sidecar /\ Return(w, "failed")

\* A command is killed, and git with it: a clone is removed by git or stays, a
\* pull leaves the old files, the new ones or a mixture.
Kill(w) ==
  /\ lock = w
  /\ LET n == job[w].name
     IN \/ pc[w] # "pulling" /\ UNCHANGED dir
        \/ pc[w] = "cloning" /\ dir' = [dir EXCEPT ![n] = NoDir]
        \/ /\ pc[w] = "pulling"
           /\ \E d \in {Pulled(dir[n]), Unpulled(dir[n]),
                        [dir[n] EXCEPT !.state = IF @ = "pull" THEN "part" ELSE @]} :
                dir' = [dir EXCEPT ![n] = d]
  /\ UNCHANGED sidecar
  /\ Return(w, "killed")

-----------------------------------------------------------------------------
(* Listings: read_dir, then per entry the manifest and the sidecar.        *)

\* Mutant: links taken for files and passed over.
StartListDirs(l) ==
  /\ lists < MaxLists /\ todo[l] = {} /\ found[l] = NoName
  /\ lists' = lists + 1
  /\ todo' = [todo EXCEPT ![l] = {n \in Name : dir[n] # NoDir /\ dir[n].kind # "link"}]
  /\ listed' = [listed EXCEPT ![l] = {}]
  /\ undisturbed' = [undisturbed EXCEPT ![l] = lock = Nobody]
  /\ UNCHANGED <<world, store, lock, writers, kept, found, begins>>

StartList(l) ==
  /\ lists < MaxLists /\ todo[l] = {} /\ found[l] = NoName
  /\ lists' = lists + 1
  /\ todo' = [todo EXCEPT ![l] = {n \in Name : dir[n] # NoDir}]
  /\ listed' = [listed EXCEPT ![l] = {}]
  /\ undisturbed' = [undisturbed EXCEPT ![l] = lock = Nobody]
  /\ UNCHANGED <<world, store, lock, writers, kept, found, begins>>

\* An entry that does not exist any more, or whose manifest cannot be read, is
\* skipped; of a directory that is not whole the manifest may be there or not.
ReadManifest(l, n) ==
  /\ n \in todo[l] /\ found[l] = NoName
  /\ todo' = [todo EXCEPT ![l] = @ \ {n}]
  /\ \/ /\ Exists(n)
        /\ found' = [found EXCEPT ![l] = [name |-> n, manifest |-> dir[n].of]]
     \/ /\ Exists(n) => dir[n].state # "whole"
        /\ UNCHANGED found
  /\ UNCHANGED <<world, store, lock, writers, kept, listed, undisturbed, lists, begins>>

ReadSidecar(l) ==
  /\ found[l] # NoName
  /\ found' = [found EXCEPT ![l] = NoName]
  /\ LET n == found[l].name
     IN listed' = IF sidecar[n] = NoSource THEN listed
                  ELSE [listed EXCEPT ![l] = @ \cup
                    {[name |-> n, manifest |-> found[l].manifest,
                      source |-> sidecar[n]]}]
  /\ UNCHANGED <<world, store, lock, writers, kept, todo, undisturbed, lists, begins>>

-----------------------------------------------------------------------------
(* The repositories and the user's directories.                            *)

Push(s) ==
  /\ head[s] < MaxHead
  /\ head' = [head EXCEPT ![s] = @ + 1]
  /\ UNCHANGED <<unix, exists, store, lock, writers, kept, listers, begins>>

Vanish(s) ==
  /\ exists[s]
  /\ exists' = [exists EXCEPT ![s] = FALSE]
  /\ UNCHANGED <<unix, head, store, lock, writers, kept, listers, begins>>

-----------------------------------------------------------------------------

Next ==
  \/ \E w \in Writer :
       \/ \E s \in Path, asked \in Name \cup {NoName} : BeginLocal(w, s, asked)
       \/ \E s \in Git, asked \in Name \cup {NoName} : BeginGit(w, s, asked)
       \/ \E n \in Name : BeginUpdate(w, n) \/ BeginRemove(w, n)
       \/ Lock(w) \/ Busy(w)
       \/ Place(w) \/ Copy(w)
       \/ Clone(w) \/ Cloned(w) \/ Resolve(w)
       \/ WriteSidecar(w)
       \/ ReadSource(w) \/ Pull(w) \/ PullEnds(w) \/ Clear(w)
       \/ RemoveDir(w) \/ Removing(w) \/ RemoveSidecar(w)
       \/ Kill(w)
  \/ \E l \in Lister :
       \/ StartList(l)
       \/ \E n \in Name : ReadManifest(l, n)
       \/ ReadSidecar(l)
  \/ \E s \in Git : Push(s)
  \/ \E s \in Path : Vanish(s)

Spec == Init /\ [][Next]_vars

-----------------------------------------------------------------------------
(* Properties.                                                             *)

Locals == {"idle", "lock", "local", "git", "update", "remove", "copy", "cloning",
           "resolve", "sidecar", "pull", "pulling", "clear", "removing", "removed"}

\* Types.
TypeOK ==
  /\ unix \in BOOLEAN
  /\ dir \in [Name -> Dir \cup {NoDir}]
  /\ sidecar \in [Name -> Record \cup {NoSource}]
  /\ lock \in Writer \cup {Nobody}
  /\ head \in [Git -> 0..MaxHead]
  /\ exists \in [Path -> BOOLEAN]
  /\ pc \in [Writer -> Locals]
  /\ job \in [Writer -> Job]
  /\ result \in [Writer -> {"none", "ok", "refused", "failed", "killed"}]
  /\ kept \in [Name -> Record \cup {Absent, Broken}]
  /\ todo \in [Lister -> SUBSET Name]
  /\ found \in [Lister -> [name : Name, manifest : Source] \cup {NoName}]
  /\ listed \in [Lister -> SUBSET Entry]
  /\ undisturbed \in [Lister -> BOOLEAN]
  /\ begins \in Nat /\ lists \in Nat

\* What the commands do to the store, each taken as a whole from lock to
\* unlock, is what the abstract map from names to sources does (install.rs,
\* update.rs, remove.rs under store.rs 341): one name at a time, never another
\* source under a name that is installed, never an older commit, and no
\* plugin paired with the sidecar of another one.
Registry == INSTANCE PluginRegistry WITH installed <- kept
ImplementsRegistry == Registry!Spec

\* A command that reports an error it can undo (the name is taken, the clone,
\* the manifest, the pull or the sidecar of a clone failed: install.rs 114,
\* 202-294, update.rs 92) leaves everything as it was when it took the lock.
RefusedChangesNothing ==
  [][\A w \in Writer :
       lock = w /\ lock' = Nobody /\ result'[w] = "refused" => kept' = kept]_vars

\* remove-analyzer that returns without an error has freed the name, whatever
\* an earlier command has left there (remove.rs 31): no directory, no sidecar.
RemoveFrees ==
  [][\A w \in Writer :
       lock = w /\ lock' = Nobody /\ result'[w] = "ok" /\ job[w].kind = "remove"
         => dir'[job[w].name] = NoDir /\ sidecar'[job[w].name] = NoSource]_vars

\* list_installed_in (store.rs 191) does not take the lock, but if nobody holds
\* it meanwhile it lists every plugin that is installed, with its own source,
\* and no name that is free.
ListsWhatIsInstalled ==
  \A l \in Lister :
    undisturbed[l] /\ todo[l] = {} /\ found[l] = NoName =>
      \A n \in Name :
        /\ kept[n] \in Record /\ Exists(n) =>
             [name |-> n, manifest |-> kept[n].of, source |-> kept[n]] \in listed[l]
        /\ \A e \in listed[l] : e.name = n =>
             /\ kept[n] # Absent
             /\ kept[n] \in Record => e.source = kept[n] /\ e.manifest = kept[n].of

===============================================================================
