------------------------------ MODULE CyclicDeps ------------------------------
(***************************************************************************)
(* CPLX002-cyclic-deps (zuit-analyzers, cyclic_deps.rs): which files of a  *)
(* project import each other in a cycle.  Imports are resolved to files by *)
(* their module keys, and Tarjan's algorithm, recursive in the code, finds *)
(* the strongly connected components of the graph.  Here a call of         *)
(* tarjan_visit is a frame on a stack of calls.                            *)
(*                                                                         *)
(* A file is its place in the sorted list of paths; a path or a module key *)
(* is the sequence of its components.  In what order a file imports is left*)
(* open.                                                                   *)
(***************************************************************************)
EXTENDS Naturals, Sequences, SequencesExt, FiniteSets

CONSTANTS
  Paths,    \* the files' paths without extension, sorted
  Inputs,   \* what each file may import: keys and relative specifiers
  None      \* no index yet

ASSUME NoneIsNoIndex == None \notin Nat

Node == DOMAIN Paths

VARIABLES
  adj,              \* the import graph
  index, low_link,  \* per file: when it was discovered, and the low link
  stack,            \* files not yet assigned to a component
  calls,            \* the calls of tarjan_visit under way: the file, and the
                    \* neighbours it has yet to look at
  counter,          \* the next index
  sccs              \* the components found

vars == <<adj, index, low_link, stack, calls, counter, sccs>>

-----------------------------------------------------------------------------

\* The file that a key names: those whose path ends in the key have it as an
\* alias, and the first of them wins.
Named(key) ==
  LET alias == {n \in Node : key # <<>> /\ IsSuffix(key, Paths[n])}
  IN  {n \in alias : \A m \in alias : n <= m}

\* A key as it is; a relative import by its last component, whatever
\* directory it leads to.  (No key has the form of a relative import.)
Resolve(import) ==
  Named(IF import.relative THEN <<Last(import.key)>> ELSE import.key)

\* Resolved imports; that of a file by itself is dropped.
Graph(imports) == [n \in Node |-> (UNION {Resolve(i) : i \in imports[n]}) \ {n}]

Init ==
  /\ adj \in {Graph(imports) : imports \in Inputs}
  /\ index = [n \in Node |-> None]
  /\ low_link = [n \in Node |-> 0]
  /\ stack = <<>> /\ calls = <<>>
  /\ counter = 0
  /\ sccs = {}

-----------------------------------------------------------------------------

Top == Head(calls)

\* A call begins.
Enter(v, callers) ==
  /\ index' = [index EXCEPT ![v] = counter]
  /\ low_link' = [low_link EXCEPT ![v] = counter]
  /\ counter' = counter + 1
  /\ stack' = <<v>> \o stack
  /\ calls' = <<[node |-> v, rest |-> adj[v]]>> \o callers

\* Mutant: the search begins once.
StartOnce ==
  /\ calls = <<>> /\ counter = 0
  /\ \E v \in Node :
       /\ index[v] = None
       /\ \A u \in Node : u < v => index[u] # None
       /\ Enter(v, <<>>)
  /\ UNCHANGED <<adj, sccs>>

\* The outer loop: the first file that has not been discovered.
Start ==
  /\ calls = <<>>
  /\ \E v \in Node :
       /\ index[v] = None
       /\ \A u \in Node : u < v => index[u] # None
       /\ Enter(v, <<>>)
  /\ UNCHANGED <<adj, sccs>>

Least(a, b) == IF a < b THEN a ELSE b

\* A neighbour that has not been discovered is visited; the caller has dealt
\* with it when that call returns.
Descend(w) ==
  /\ calls # <<>> /\ w \in Top.rest
  /\ index[w] = None
  /\ Enter(w, <<[node |-> Top.node, rest |-> Top.rest \ {w}]>> \o Tail(calls))
  /\ UNCHANGED <<adj, sccs>>

\* Mutant: neighbours in finished components are not told apart.
SkimAny(w) ==
  /\ calls # <<>> /\ w \in Top.rest
  /\ index[w] # None
  /\ calls' = <<[node |-> Top.node, rest |-> Top.rest \ {w}]>> \o Tail(calls)
  /\ low_link' = [low_link EXCEPT ![Top.node] = Least(@, index[w])]
  /\ UNCHANGED <<adj, index, stack, counter, sccs>>

\* One that has been discovered counts if it is on the stack.
Skim(w) ==
  /\ calls # <<>> /\ w \in Top.rest
  /\ index[w] # None
  /\ calls' = <<[node |-> Top.node, rest |-> Top.rest \ {w}]>> \o Tail(calls)
  /\ low_link' = [low_link EXCEPT ![Top.node] =
                    IF w \in ToSet(stack) THEN Least(@, index[w]) ELSE @]
  /\ UNCHANGED <<adj, index, stack, counter, sccs>>

\* The files of the component whose root is v: those above it on the stack.
Component(v) == {stack[i] : i \in 1 .. CHOOSE j \in DOMAIN stack : stack[j] = v}

NonTrivial(scc) == Cardinality(scc) > 1 \/ \E u \in scc : u \in adj[u]

\* A call that has looked at all its neighbours pops its component, if it is
\* the root of one, and returns its low link to the caller.
Return ==
  /\ calls # <<>> /\ Top.rest = {}
  /\ LET v      == Top.node
         scc    == Component(v)
         isRoot == low_link[v] = index[v]
     IN  /\ stack' = IF isRoot
                       THEN SubSeq(stack, Cardinality(scc) + 1, Len(stack)) ELSE stack
         /\ sccs' = IF isRoot /\ NonTrivial(scc) THEN sccs \cup {scc} ELSE sccs
         /\ calls' = Tail(calls)
         /\ low_link' = IF calls' = <<>> THEN low_link
                        ELSE [low_link EXCEPT ![Head(calls').node] =
                                Least(@, low_link[v])]
  /\ UNCHANGED <<adj, index, counter>>

Next == Start \/ Return \/ \E w \in Node : Descend(w) \/ Skim(w)

Spec == Init /\ [][Next]_vars /\ WF_vars(Next)

-----------------------------------------------------------------------------

Finished == calls = <<>> /\ \A n \in Node : index[n] # None

\* Files that import each other, directly or through others: the definition
\* that the algorithm has to meet.
Closed(S) == \A u \in S : adj[u] \subseteq S

Reach(n) == {m \in Node : \A S \in SUBSET Node : n \in S /\ Closed(S) => m \in S}

Cycle(n) == {m \in Reach(n) : n \in Reach(m)}

Cycles == {Cycle(n) : n \in Node} \ {{n} : n \in Node}

\* What is reported are cycles of two files or more, whole from the start, and in
\* the end all of them: one finding for the files of each.  A file that imports
\* itself is not reported: build_adjacency drops the import (cyclic_deps.rs 304,
\* 313), although the header of that file (24) calls it a cycle.
ReportsCycles ==
  /\ \A scc \in sccs : scc \in Cycles
  /\ Finished => sccs = Cycles

\* The analysis ends, whatever imports what.
Terminates == <>[]Finished
=============================================================================
