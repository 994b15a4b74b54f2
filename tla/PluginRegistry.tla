---------------------------- MODULE PluginRegistry ----------------------------
(***************************************************************************)
(* What the plugin store promises (zuit-plugins, src/store.rs): a map from *)
(* install names to the source a plugin came from, which one command at a  *)
(* time changes at one name.  A command that is cut short may leave its    *)
(* name Broken, which `remove` or a later command clears; it never leaves  *)
(* a name that looks installed with the source of something else, and      *)
(* nothing but `remove` or such an accident gives up what is installed.    *)
(***************************************************************************)
EXTENDS Naturals

CONSTANTS
  Name,     \* install names
  Record,   \* what a source sidecar can say: [of, sha]
  Absent,   \* nothing is installed under the name
  Broken    \* the name is taken, but not by a usable plugin

VARIABLE installed

Init == installed = [n \in Name |-> Absent]

\* add-analyzer: a free name, or what an accident left of one, gets a plugin.
Install(n, r) ==
  /\ installed[n] \in {Absent, Broken}
  /\ installed' = [installed EXCEPT ![n] = r]

\* update-analyzer: the same source, no older commit.
Update(n, r) ==
  /\ installed[n] \in Record
  /\ r.of = installed[n].of /\ r.sha >= installed[n].sha
  /\ installed' = [installed EXCEPT ![n] = r]

\* remove-analyzer.
Remove(n) == installed' = [installed EXCEPT ![n] = Absent]

\* A command is killed, or fails where it cannot undo what it did.
Break(n) == installed' = [installed EXCEPT ![n] = Broken]

Next == \E n \in Name :
  \/ Remove(n) \/ Break(n)
  \/ \E r \in Record : Install(n, r) \/ Update(n, r)

Spec == Init /\ [][Next]_installed

===============================================================================
