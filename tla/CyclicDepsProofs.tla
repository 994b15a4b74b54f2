--------------------------- MODULE CyclicDepsProofs ---------------------------
(***************************************************************************)
(* Proofs that the analyzer reports import cycles, all of them, whatever   *)
(* the import graph and in whatever order a file lists its imports, and    *)
(* that it takes no more steps than there are files to discover, calls to  *)
(* return from and imports to look at.                                     *)
(*                                                                         *)
(* Reachability is defined by closed sets, so that what is proved about it *)
(* needs no induction: it is reflexive, transitive, contains every edge,   *)
(* and never leaves a closed set.                                          *)
(***************************************************************************)
EXTENDS CyclicDeps, SequenceTheorems, FiniteSetTheorems, TLAPS

-----------------------------------------------------------------------------
(* The inductive invariant.                                                *)

Frame == [node : Node, rest : SUBSET Node]

Typed ==
  /\ adj \in [Node -> SUBSET Node]
  /\ \A n \in Node : n \notin adj[n]
  /\ index \in [Node -> Nat \cup {None}]
  /\ low_link \in [Node -> Nat]
  /\ stack \in Seq(Node)
  /\ calls \in Seq(Frame)
  /\ counter \in Nat
  /\ sccs \subseteq SUBSET Node

Visited == {n \in Node : index[n] # None}

\* Files on the stack, in finished components, and in calls under way.
On     == ToSet(stack)
Done   == Visited \ On
Frames == ToSet(calls)
Active == {f.node : f \in Frames}

\* The neighbours that a file on the stack has looked at.
Seen(u) == {w \in adj[u] : \A f \in Frames : f.node = u => w \notin f.rest}

\* Files are numbered as they are discovered.
Numbered ==
  /\ \A n \in Visited : index[n] < counter
  /\ \A m, n \in Visited : index[m] = index[n] => m = n

\* The stack, and the calls, are in the order of discovery.
Stacked ==
  /\ \A f \in Frames : f.rest \subseteq adj[f.node]
  /\ On \subseteq Visited
  /\ Active \subseteq On
  /\ \A i, j \in 1 .. Len(stack) : i < j => index[stack[j]] < index[stack[i]]
  /\ \A i, j \in 1 .. Len(calls) : i < j => index[calls[j].node] < index[calls[i].node]

\* What has been looked at has been discovered; nothing leads out of the
\* finished components.
Explored ==
  /\ \A u \in On : Seen(u) \subseteq Visited
  /\ \A u \in Done : adj[u] \subseteq Done

\* On the stack, a file reaches all that were discovered after it ...
Connected ==
  \A u, w \in On : index[u] <= index[w] => w \in Reach(u)

\* ... and one whose call is under way and that was discovered before it.
Rooted ==
  \A u \in On : \E a \in Active : index[a] <= index[u] /\ a \in Reach(u)

\* A low link is the number of a file on the stack that is reached ...
LowReached ==
  \A a \in Active :
    /\ low_link[a] <= index[a]
    /\ \E w \in On : w \in Reach(a) /\ index[w] = low_link[a]

\* Discovered by the call of a itself, or by one that has returned to it.
Owns(a, u) ==
  /\ index[a] <= index[u]
  /\ \A b \in Active : index[a] < index[b] => index[u] < index[b]

\* ... and no file that those discovered from here have looked at is lower.
LowBounds ==
  \A a \in Active : \A u \in On : Owns(a, u) =>
    \A w \in Seen(u) \cap On : low_link[a] <= index[w]

Reported ==
  /\ sccs \subseteq Cycles
  /\ \A n \in Done : Cycle(n) \in sccs \/ Cycle(n) = {n}

IInv ==
  /\ Typed /\ Numbered /\ Stacked /\ Explored /\ Connected /\ Rooted
  /\ LowReached /\ LowBounds /\ Reported

-----------------------------------------------------------------------------
(* Reachability.                                                           *)

LEMMA ReachSelf ==
  ASSUME NEW n \in Node
  PROVE  n \in Reach(n)
  BY DEF Reach

LEMMA ReachTrans ==
  ASSUME NEW n, NEW m \in Reach(n), NEW k \in Reach(m)
  PROVE  k \in Reach(n)
  BY DEF Reach

LEMMA ReachEdge ==
  ASSUME Typed, NEW n \in Node, NEW m \in adj[n]
  PROVE  m \in Reach(n)
  BY DEF Reach, Closed, Typed

LEMMA ReachWithin ==
  ASSUME NEW S \in SUBSET Node, Closed(S), NEW n \in S, NEW m \in Reach(n)
  PROVE  m \in S
  BY DEF Reach

\* Nothing of this changes while the graph does not.
LEMMA ReachFixed ==
  ASSUME adj' = adj
  PROVE  /\ \A S : Closed(S)' = Closed(S)
         /\ \A n : Reach(n)' = Reach(n)
         /\ \A n : Cycle(n)' = Cycle(n)
         /\ Cycles' = Cycles
  <1>1. \A S : Closed(S)' = Closed(S)
    BY DEF Closed
  <1>2. \A n : Reach(n)' = Reach(n)
    BY <1>1 DEF Reach
  <1>3. \A n : Cycle(n)' = Cycle(n)
    BY <1>2 DEF Cycle
  <1>4. Cycles' = Cycles
    BY <1>3 DEF Cycles
  <1> QED
    BY <1>1, <1>2, <1>3, <1>4

-----------------------------------------------------------------------------
(* Sequences that are used as stacks.                                      *)

LEMMA Push ==
  ASSUME NEW S, NEW s \in Seq(S), NEW e \in S
  PROVE  LET t == <<e>> \o s
         IN  /\ t \in Seq(S) /\ t # <<>>
             /\ Len(t) = Len(s) + 1
             /\ t[1] = e /\ \A i \in 2 .. Len(t) : t[i] = s[i - 1]
             /\ ToSet(t) = ToSet(s) \cup {e}
             /\ Head(t) = e /\ Tail(t) = s
  <1> DEFINE t == <<e>> \o s
  <1>1. <<e>> \in Seq(S) /\ Len(<<e>>) = 1 /\ <<e>>[1] = e
    OBVIOUS
  <1>2. /\ t \in Seq(S) /\ Len(t) = 1 + Len(s)
        /\ \A i \in 1 .. 1 + Len(s) : t[i] = IF i <= 1 THEN e ELSE s[i - 1]
    BY <1>1, ConcatProperties
  <1>3. Len(s) \in Nat /\ DOMAIN s = 1 .. Len(s) /\ DOMAIN t = 1 .. Len(t)
    BY <1>2, LenProperties
  <1>4. t # <<>> /\ t[1] = e /\ \A i \in 2 .. Len(t) : t[i] = s[i - 1]
    BY <1>2, <1>3
  <1>5. ToSet(t) = ToSet(s) \cup {e}
    <2>1. \A i \in DOMAIN s : i + 1 \in DOMAIN t /\ t[i + 1] = s[i]
      BY <1>2, <1>3
    <2>2. \A i \in DOMAIN t : i = 1 \/ (i - 1 \in DOMAIN s /\ t[i] = s[i - 1])
      BY <1>2, <1>3
    <2>3. 1 \in DOMAIN t /\ t[1] = e
      BY <1>2, <1>3
    <2> HIDE DEF t
    <2> QED
      BY <2>1, <2>2, <2>3 DEF ToSet
  <1>6. Head(t) = e
    BY <1>2, <1>4
  <1>7. Tail(t) = s
    <2>1. Tail(t) \in Seq(S) /\ Len(Tail(t)) = Len(s)
      BY <1>2, <1>3, <1>4, HeadTailProperties
    <2>2. \A i \in 1 .. Len(s) : Tail(t)[i] = s[i]
      BY <1>2, <1>3, <1>4, <2>1, HeadTailProperties
    <2> QED
      BY <2>1, <2>2, SeqEqual
  <1> QED
    BY <1>2, <1>4, <1>5, <1>6, <1>7

LEMMA Pop ==
  ASSUME NEW S, NEW s \in Seq(S), s # <<>>
  PROVE  /\ Head(s) = s[1] /\ Head(s) \in S /\ Len(s) \in Nat \ {0}
         /\ Tail(s) \in Seq(S) /\ Len(Tail(s)) = Len(s) - 1
         /\ \A i \in 1 .. Len(Tail(s)) : Tail(s)[i] = s[i + 1]
         /\ ToSet(s) = ToSet(Tail(s)) \cup {Head(s)}
  <1>1. /\ Head(s) \in S /\ Len(s) \in Nat \ {0} /\ Head(s) = s[1]
        /\ Tail(s) \in Seq(S) /\ Len(Tail(s)) = Len(s) - 1
        /\ \A i \in 1 .. Len(Tail(s)) : Tail(s)[i] = s[i + 1]
    BY HeadTailProperties, EmptySeq
  <1>2. DOMAIN s = 1 .. Len(s) /\ DOMAIN Tail(s) = 1 .. Len(Tail(s))
    BY <1>1, LenProperties
  <1>3. /\ \A i \in DOMAIN Tail(s) : i + 1 \in DOMAIN s
        /\ \A i \in DOMAIN s : i = 1 \/ (i - 1 \in DOMAIN Tail(s) /\ Tail(s)[i - 1] = s[i])
    BY <1>1, <1>2
  <1> QED
    BY <1>1, <1>2, <1>3 DEF ToSet

LEMMA InSeq ==
  ASSUME NEW S, NEW s \in Seq(S)
  PROVE  /\ ToSet(s) = {s[i] : i \in 1 .. Len(s)}
         /\ ToSet(s) \subseteq S
         /\ s = <<>> <=> ToSet(s) = {}
  <1>1. Len(s) \in Nat /\ DOMAIN s = 1 .. Len(s)
    BY LenProperties
  <1>2. \A i \in 1 .. Len(s) : s[i] \in S
    BY ElementOfSeq
  <1>3. s # <<>> => 1 \in DOMAIN s
    BY <1>1, EmptySeq
  <1>4. s = <<>> => ToSet(s) = {}
    BY DEF ToSet
  <1> QED
    BY <1>1, <1>2, <1>3, <1>4 DEF ToSet

-----------------------------------------------------------------------------
(* What the invariant says of stack and calls.                             *)

LEMMA OnStack ==
  ASSUME Typed, Numbered, Stacked
  PROVE  /\ \A u \in On : u \in Node /\ u \in Visited /\ index[u] \in Nat /\ index[u] < counter
         /\ \A u, w \in On : index[u] = index[w] => u = w
         /\ \A a \in Active : a \in On /\ low_link[a] \in Nat
         /\ On \subseteq Node /\ Active \subseteq On
  <1>1. On \subseteq Node
    BY InSeq DEF Typed, On
  <1>2. On \subseteq Visited /\ Active \subseteq On
    BY DEF Stacked
  <1> QED
    BY <1>1, <1>2 DEF Typed, Numbered, Visited

\* The call that goes on is the one of the file discovered last.
LEMMA OnTop ==
  ASSUME Typed, Numbered, Stacked, calls # <<>>
  PROVE  /\ Top \in Frame /\ Top \in Frames /\ Top.node \in Active
         /\ Top.rest \subseteq adj[Top.node]
         /\ Tail(calls) \in Seq(Frame)
         /\ Frames = ToSet(Tail(calls)) \cup {Top}
         /\ \A a \in Active : index[a] <= index[Top.node]
         /\ \A f \in ToSet(Tail(calls)) : index[f.node] < index[Top.node]
         /\ \A i, j \in 1 .. Len(Tail(calls)) :
              i < j => index[Tail(calls)[j].node] < index[Tail(calls)[i].node]
  <1>1. calls \in Seq(Frame)
    BY DEF Typed
  <1>2. /\ Top = calls[1] /\ Top \in Frame /\ Len(calls) \in Nat \ {0}
        /\ Tail(calls) \in Seq(Frame) /\ Len(Tail(calls)) = Len(calls) - 1
        /\ \A i \in 1 .. Len(Tail(calls)) : Tail(calls)[i] = calls[i + 1]
        /\ Frames = ToSet(Tail(calls)) \cup {Top}
    BY <1>1, Pop DEF Top, Frames
  <1>3. \A i, j \in 1 .. Len(calls) : i < j => index[calls[j].node] < index[calls[i].node]
    BY DEF Stacked
  <1>4. ASSUME NEW f \in ToSet(Tail(calls))
        PROVE  index[f.node] < index[Top.node]
    <2> DEFINE t == Tail(calls)
    <2>0. t \in Seq(Frame)
      BY <1>2
    <2> HIDE DEF t
    <2>3. ToSet(t) = {t[i] : i \in 1 .. Len(t)}
      BY <2>0, InSeq
    <2>1. PICK i \in 1 .. Len(Tail(calls)) : f = Tail(calls)[i]
      BY <2>3 DEF t
    <2>2. 1 \in 1 .. Len(calls) /\ i + 1 \in 1 .. Len(calls) /\ 1 < i + 1 /\ f = calls[i + 1]
      BY <1>2, <2>1
    <2> QED
      BY <1>2, <1>3, <2>2
  <1>5. \A i, j \in 1 .. Len(Tail(calls)) :
          i < j => index[Tail(calls)[j].node] < index[Tail(calls)[i].node]
    <2> SUFFICES ASSUME NEW i \in 1 .. Len(Tail(calls)), NEW j \in 1 .. Len(Tail(calls)), i < j
                 PROVE  index[Tail(calls)[j].node] < index[Tail(calls)[i].node]
      OBVIOUS
    <2>1. i + 1 \in 1 .. Len(calls) /\ j + 1 \in 1 .. Len(calls) /\ i + 1 < j + 1
      BY <1>2
    <2> QED
      BY <1>2, <1>3, <2>1
  <1>6. Top.rest \subseteq adj[Top.node] /\ Top.node \in Active
    BY <1>2 DEF Stacked, Active
  <1>7. ASSUME NEW a \in Active
        PROVE  index[a] <= index[Top.node]
    <2>1. PICK f \in Frames : a = f.node
      BY DEF Active
    <2>2. index[a] \in Nat /\ index[Top.node] \in Nat
      BY <1>6, OnStack
    <2> QED
      BY <1>2, <1>4, <2>1, <2>2
  <1> QED
    BY <1>2, <1>4, <1>5, <1>6, <1>7

-----------------------------------------------------------------------------
(* A file is discovered.                                                   *)

\* What becomes of the graph part of the invariant.
LEMMA Discovered ==
  ASSUME IInv, NEW v \in Node, index[v] = None,
         adj' = adj, sccs' = sccs, counter' = counter + 1,
         index' = [index EXCEPT ![v] = counter],
         low_link' = [low_link EXCEPT ![v] = counter],
         On' = On \cup {v}, Active' = Active \cup {v},
         \A u \in On : Seen(u)' \subseteq Seen(u) \cup {v}, Seen(v)' = {},
         \A u \in On : v \in Reach(u)
  PROVE  /\ Numbered' /\ Explored' /\ Connected' /\ Rooted'
         /\ LowReached' /\ LowBounds' /\ Reported'
  <1> USE DEF IInv
  <1>1. /\ \A u \in On : u \in Node /\ u \in Visited /\ index[u] \in Nat /\ index[u] < counter
        /\ \A a \in Active : a \in On /\ low_link[a] \in Nat
        /\ On \subseteq Node /\ Active \subseteq On
    BY OnStack
  <1>2. counter \in Nat /\ counter # None /\ v \notin Visited /\ v \notin On /\ v \notin Active
    BY <1>1, NoneIsNoIndex DEF Typed, Visited
  <1>3. /\ index'[v] = counter /\ low_link'[v] = counter
        /\ \A u \in Node : u # v => index'[u] = index[u] /\ low_link'[u] = low_link[u]
        /\ \A u \in On : index'[u] = index[u] /\ low_link'[u] = low_link[u]
    BY <1>1, <1>2 DEF Typed
  <1>4. Visited' = Visited \cup {v}
    BY <1>2, <1>3 DEF Visited
  <1>5. Done' = Done
    BY <1>2, <1>4 DEF Done
  <1>6. /\ \A S : Closed(S)' = Closed(S)
        /\ \A n : Reach(n)' = Reach(n)
        /\ \A n : Cycle(n)' = Cycle(n)
        /\ Cycles' = Cycles
    BY ReachFixed
  <1>7. Numbered'
    <2>1. \A n \in Visited : n \in Node /\ index[n] \in Nat
      BY DEF Typed, Visited
    <2>2. \A n \in Visited : index'[n] = index[n]
      BY <1>2, <1>3, <2>1
    <2> QED
      BY <1>2, <1>3, <1>4, <2>1, <2>2 DEF Numbered
  <1>8. Explored'
    <2>1. \A u \in Done' : adj'[u] \subseteq Done'
      BY <1>5 DEF Explored
    <2>2. \A u \in On' : Seen(u)' \subseteq Visited'
      BY <1>4 DEF Explored
    <2> QED
      BY <2>1, <2>2 DEF Explored
  <1>9. Connected'
    <2> SUFFICES ASSUME NEW u \in On', NEW w \in On', index'[u] <= index'[w]
                 PROVE  w \in Reach(u)
      BY <1>6 DEF Connected
    <2>1. CASE w = v
      BY <1>2, <2>1, ReachSelf
    <2>2. CASE w # v /\ u = v
      BY <1>1, <1>2, <1>3, <2>2
    <2>3. CASE w # v /\ u # v
      BY <1>3, <2>3 DEF Connected
    <2> QED
      BY <2>1, <2>2, <2>3
  <1>10. Rooted'
    <2> SUFFICES ASSUME NEW u \in On'
                 PROVE  \E a \in Active' : index'[a] <= index'[u] /\ a \in Reach(u)
      BY <1>6 DEF Rooted
    <2>1. CASE u = v
      BY <1>2, <1>3, <2>1, ReachSelf
    <2>2. CASE u # v
      <3>1. PICK a \in Active : index[a] <= index[u] /\ a \in Reach(u)
        BY <2>2 DEF Rooted
      <3> QED
        BY <1>1, <1>3, <2>2, <3>1
    <2> QED
      BY <2>1, <2>2
  <1>11. LowReached'
    <2> SUFFICES ASSUME NEW a \in Active'
                 PROVE  /\ low_link'[a] <= index'[a]
                        /\ \E w \in On' : w \in Reach(a) /\ index'[w] = low_link'[a]
      BY <1>6 DEF LowReached
    <2>1. CASE a = v
      BY <1>2, <1>3, <2>1, ReachSelf
    <2>2. CASE a # v
      <3>1. a \in Active /\ low_link[a] <= index[a]
        BY <2>2 DEF LowReached
      <3>2. PICK w \in On : w \in Reach(a) /\ index[w] = low_link[a]
        BY <3>1 DEF LowReached
      <3> QED
        BY <1>1, <1>3, <3>1, <3>2
    <2> QED
      BY <2>1, <2>2
  <1>12. LowBounds'
    <2> SUFFICES ASSUME NEW a \in Active', NEW u \in On', Owns(a, u)',
                        NEW w \in Seen(u)', w \in On'
                 PROVE  low_link'[a] <= index'[w]
      BY DEF LowBounds
    <2>1. u # v /\ u \in On
      OBVIOUS
    <2>2. a # v /\ a \in Active
      BY <1>1, <1>2, <1>3, <2>1 DEF Owns
    <2>3. low_link'[a] = low_link[a] /\ low_link[a] \in Nat /\ low_link[a] <= index[a]
          /\ index[a] \in Nat /\ index[a] < counter
      BY <1>1, <1>3, <2>2 DEF LowReached
    <2>4. CASE w = v
      BY <1>2, <1>3, <2>3, <2>4
    <2>5. CASE w # v
      <3>1. w \in Seen(u) /\ w \in On
        BY <2>1, <2>5
      <3>2. Owns(a, u)
        BY <1>1, <1>3, <2>1, <2>2 DEF Owns
      <3> QED
        BY <1>3, <2>1, <2>2, <2>3, <3>1, <3>2 DEF LowBounds
    <2> QED
      BY <2>4, <2>5
  <1>13. Reported'
    BY <1>5, <1>6 DEF Reported
  <1> QED
    BY <1>7, <1>8, <1>9, <1>10, <1>11, <1>12, <1>13

\* A call of v begins: callers are the calls under way, of which the last has
\* looked at v.
LEMMA Entered ==
  ASSUME IInv, NEW v \in Node, index[v] = None,
         NEW callers \in Seq(Frame), Enter(v, callers), adj' = adj, sccs' = sccs,
         {f.node : f \in ToSet(callers)} = Active,
         \A f \in ToSet(callers) : f.rest \subseteq adj[f.node],
         \A i, j \in 1 .. Len(callers) :
           i < j => index[callers[j].node] < index[callers[i].node],
         \A u \in On : \A w \in adj[u] :
           (\A f \in ToSet(callers) : f.node = u => w \notin f.rest) => w \in Seen(u) \cup {v},
         \A u \in On : v \in Reach(u)
  PROVE  IInv'
  <1> USE DEF IInv
  <1> DEFINE call == [node |-> v, rest |-> adj[v]]
  <1>1. /\ \A u \in On : u \in Node /\ u \in Visited /\ index[u] \in Nat /\ index[u] < counter
        /\ \A a \in Active : a \in On
        /\ v \notin On /\ counter \in Nat
    BY OnStack DEF Typed, Visited
  <1>2. call \in Frame /\ call.node = v /\ call.rest = adj[v]
    BY DEF Typed, Frame
  <1>3. /\ index' = [index EXCEPT ![v] = counter]
        /\ low_link' = [low_link EXCEPT ![v] = counter]
        /\ counter' = counter + 1
        /\ stack' = <<v>> \o stack /\ calls' = <<call>> \o callers
    BY DEF Enter
  <1> HIDE DEF call
  <1>4. /\ stack' \in Seq(Node) /\ Len(stack') = Len(stack) + 1
        /\ stack'[1] = v /\ \A i \in 2 .. Len(stack') : stack'[i] = stack[i - 1]
        /\ ToSet(stack') = ToSet(stack) \cup {v}
    BY <1>3, Push DEF Typed
  <1>5. /\ calls' \in Seq(Frame) /\ Len(calls') = Len(callers) + 1
        /\ calls'[1] = call /\ \A i \in 2 .. Len(calls') : calls'[i] = callers[i - 1]
        /\ ToSet(calls') = ToSet(callers) \cup {call}
    BY <1>2, <1>3, Push
  <1>6. On' = On \cup {v}
    BY <1>4 DEF On
  <1>7. Frames' = ToSet(callers) \cup {call}
    BY <1>5 DEF Frames
  <1>8. Active' = Active \cup {v}
    BY <1>2, <1>7 DEF Active
  <1>9. \A u \in On : Seen(u)' \subseteq Seen(u) \cup {v}
    BY <1>7 DEF Seen
  <1>10. Seen(v)' = {}
    BY <1>2, <1>7 DEF Seen
  <1>11. /\ Numbered' /\ Explored' /\ Connected' /\ Rooted'
         /\ LowReached' /\ LowBounds' /\ Reported'
    BY <1>3, <1>6, <1>8, <1>9, <1>10, Discovered
  <1>12. Typed'
    BY <1>1, <1>3, <1>4, <1>5 DEF Typed
  <1>13. Stacked'
    <2>1. \A f \in Frames' : f.rest \subseteq adj'[f.node]
      BY <1>2, <1>7
    <2>2. On' \subseteq Visited'
      BY <1>1, <1>3, <1>6, NoneIsNoIndex DEF Typed, Visited
    <2>3. Active' \subseteq On'
      BY <1>1, <1>6, <1>8
    <2>4. /\ \A u \in On : index'[u] = index[u]
          /\ index'[v] = counter
      BY <1>1, <1>3 DEF Typed
    <2>5. ASSUME NEW i \in 1 .. Len(stack'), NEW j \in 1 .. Len(stack'), i < j
          PROVE  index'[stack'[j]] < index'[stack'[i]]
      <3>1. Len(stack) \in Nat /\ \A k \in 1 .. Len(stack) : stack[k] \in On
        BY InSeq, LenProperties DEF Typed, On
      <3>2. j - 1 \in 1 .. Len(stack) /\ stack'[j] = stack[j - 1] /\ stack[j - 1] \in On
        BY <1>4, <2>5, <3>1
      <3>3. CASE i = 1
        BY <1>1, <1>4, <2>4, <3>2, <3>3
      <3>4. CASE i # 1
        <4>1. i - 1 \in 1 .. Len(stack) /\ stack'[i] = stack[i - 1] /\ stack[i - 1] \in On
          BY <1>4, <2>5, <3>1, <3>4
        <4>2. index[stack[j - 1]] < index[stack[i - 1]]
          BY <2>5, <3>2, <4>1 DEF Stacked
        <4> QED
          BY <2>4, <3>2, <4>1, <4>2
      <3> QED
        BY <3>3, <3>4
    <2>6. ASSUME NEW i \in 1 .. Len(calls'), NEW j \in 1 .. Len(calls'), i < j
          PROVE  index'[calls'[j].node] < index'[calls'[i].node]
      <3>1. Len(callers) \in Nat /\ \A k \in 1 .. Len(callers) : callers[k].node \in On
        BY <1>1, InSeq, LenProperties
      <3>2. j - 1 \in 1 .. Len(callers) /\ calls'[j] = callers[j - 1]
        BY <1>5, <2>6, <3>1
      <3>3. CASE i = 1
        BY <1>1, <1>2, <1>5, <2>4, <3>1, <3>2, <3>3
      <3>4. CASE i # 1
        <4>1. i - 1 \in 1 .. Len(callers) /\ calls'[i] = callers[i - 1]
          BY <1>5, <2>6, <3>1, <3>4
        <4>2. index[callers[j - 1].node] < index[callers[i - 1].node]
          BY <2>6, <3>2, <4>1
        <4> QED
          BY <2>4, <3>1, <3>2, <4>1, <4>2
      <3> QED
        BY <3>3, <3>4
    <2> QED
      BY <2>1, <2>2, <2>3, <2>5, <2>6 DEF Stacked
  <1> QED
    BY <1>11, <1>12, <1>13

LEMMA InitKeeps ==
  ASSUME Init
  PROVE  IInv
  <1>1. PICK imports \in Inputs : adj = Graph(imports)
    BY DEF Init
  <1>2. adj \in [Node -> SUBSET Node] /\ \A n \in Node : n \notin adj[n]
    <2>1. \A i : Resolve(i) \subseteq Node
      BY DEF Resolve, Named
    <2> DEFINE others(n) == (UNION {Resolve(i) : i \in imports[n]}) \ {n}
    <2>2. \A n \in Node : others(n) \subseteq Node /\ n \notin others(n)
      BY <2>1
    <2>3. adj = [n \in Node |-> others(n)]
      BY <1>1 DEF Graph
    <2> HIDE DEF others
    <2> QED
      BY <2>2, <2>3
  <1>3. On = {} /\ Frames = {} /\ Active = {} /\ Visited = {} /\ Done = {}
    BY NoneIsNoIndex, EmptySeq, InSeq DEF Init, On, Frames, Active, Visited, Done, ToSet
  <1>4. Typed
    BY <1>2 DEF Init, Typed
  <1>5. Numbered /\ Explored /\ Connected /\ Rooted /\ LowReached /\ LowBounds
    BY <1>3 DEF Numbered, Explored, Connected, Rooted, LowReached, LowBounds
  <1>6. Stacked
    BY <1>3 DEF Init, Stacked
  <1>7. Reported
    BY <1>3 DEF Init, Reported
  <1> QED
    BY <1>4, <1>5, <1>6, <1>7 DEF IInv

LEMMA StartKeeps ==
  ASSUME IInv, Start
  PROVE  IInv'
  <1>1. PICK v \in Node : index[v] = None /\ Enter(v, <<>>)
    BY DEF Start
  <1>2. calls = <<>> /\ adj' = adj /\ sccs' = sccs
    BY DEF Start
  <1>3. <<>> \in Seq(Frame) /\ Len(<<>>) = 0
    BY EmptySeq
  <1>4. ToSet(<<>>) = {}
    BY DEF ToSet
  <1>5. Active = {}
    BY <1>2, <1>4 DEF Active, Frames
  <1>6. On = {}
    BY <1>5 DEF IInv, Rooted
  <1>7. {f.node : f \in ToSet(<<>>)} = Active
    BY <1>4, <1>5
  <1>8. \A i, j \in 1 .. Len(<<>>) : i < j => index[<<>>[j].node] < index[<<>>[i].node]
    BY <1>3
  <1> QED
    BY <1>1, <1>2, <1>3, <1>4, <1>6, <1>7, <1>8, Entered

LEMMA DescendKeeps ==
  ASSUME IInv, NEW v \in Node, Descend(v)
  PROVE  IInv'
  <1> DEFINE waits   == [node |-> Top.node, rest |-> Top.rest \ {v}]
             callers == <<waits>> \o Tail(calls)
  <1>1. /\ calls # <<>> /\ v \in Top.rest /\ index[v] = None
        /\ Enter(v, callers) /\ adj' = adj /\ sccs' = sccs
    BY DEF Descend
  <1>2. Typed /\ Numbered /\ Stacked /\ Connected /\ Rooted
    BY DEF IInv
  <1>3. /\ Top \in Frame /\ Top \in Frames /\ Top.node \in Active
        /\ Top.rest \subseteq adj[Top.node]
        /\ Tail(calls) \in Seq(Frame)
        /\ Frames = ToSet(Tail(calls)) \cup {Top}
        /\ \A a \in Active : index[a] <= index[Top.node]
        /\ \A f \in ToSet(Tail(calls)) : index[f.node] < index[Top.node]
        /\ \A i, j \in 1 .. Len(Tail(calls)) :
             i < j => index[Tail(calls)[j].node] < index[Tail(calls)[i].node]
    BY <1>1, <1>2, OnTop
  <1>4. waits \in Frame /\ waits.node = Top.node /\ waits.rest = Top.rest \ {v}
    BY <1>3 DEF Frame
  <1> HIDE DEF waits
  <1>5. /\ callers \in Seq(Frame) /\ Len(callers) = Len(Tail(calls)) + 1
        /\ callers[1] = waits /\ \A i \in 2 .. Len(callers) : callers[i] = Tail(calls)[i - 1]
        /\ ToSet(callers) = ToSet(Tail(calls)) \cup {waits}
    <2> DEFINE t == Tail(calls)
    <2>1. t \in Seq(Frame)
      BY <1>3
    <2> HIDE DEF t
    <2>2. LET c == <<waits>> \o t
          IN  /\ c \in Seq(Frame) /\ Len(c) = Len(t) + 1
              /\ c[1] = waits /\ \A i \in 2 .. Len(c) : c[i] = t[i - 1]
              /\ ToSet(c) = ToSet(t) \cup {waits}
      BY <1>4, <2>1, Push
    <2> QED
      BY <2>2 DEF t
  <1> HIDE DEF callers
  <1>6. {f.node : f \in ToSet(callers)} = Active
    BY <1>3, <1>4, <1>5 DEF Active
  <1>7. \A f \in ToSet(callers) : f.rest \subseteq adj[f.node]
    BY <1>2, <1>3, <1>4, <1>5 DEF Stacked
  <1>8. ASSUME NEW i \in 1 .. Len(callers), NEW j \in 1 .. Len(callers), i < j
        PROVE  index[callers[j].node] < index[callers[i].node]
    <2> DEFINE t == Tail(calls)
    <2>1. Len(t) \in Nat /\ t \in Seq(Frame)
      BY <1>3, LenProperties
    <2>2. j - 1 \in 1 .. Len(t) /\ callers[j] = t[j - 1]
      BY <1>5, <1>8, <2>1
    <2>3. CASE i = 1
      <3> HIDE DEF t
      <3>1. t[j - 1] \in ToSet(t)
        BY <2>1, <2>2, InSeq
      <3> QED
        BY <1>3, <1>4, <1>5, <2>2, <2>3, <3>1 DEF t
    <2>4. CASE i # 1
      <3>1. i - 1 \in 1 .. Len(t) /\ callers[i] = t[i - 1]
        BY <1>5, <1>8, <2>1, <2>4
      <3>2. \A k, l \in 1 .. Len(t) : k < l => index[t[l].node] < index[t[k].node]
        BY <1>3
      <3>3. i - 1 < j - 1
        BY <1>8
      <3> HIDE DEF t
      <3> QED
        BY <2>2, <3>1, <3>2, <3>3
    <2> QED
      BY <2>3, <2>4
  <1>9. \A u \in On : \A w \in adj[u] :
          (\A f \in ToSet(callers) : f.node = u => w \notin f.rest) => w \in Seen(u) \cup {v}
    BY <1>3, <1>4, <1>5 DEF Seen
  <1>10. ASSUME NEW u \in On
         PROVE  v \in Reach(u)
    <2>1. Top.node \in On /\ Top.node \in Node
      BY <1>2, <1>3, OnStack
    <2>2. PICK a \in Active : index[a] <= index[u] /\ a \in Reach(u)
      BY <1>2 DEF Rooted
    <2>3. a \in On /\ index[a] <= index[Top.node]
      BY <1>2, <1>3, <2>2, OnStack
    <2>4. Top.node \in Reach(a)
      BY <1>2, <2>1, <2>3 DEF Connected
    <2>5. v \in Reach(Top.node)
      BY <1>1, <1>2, <1>3, <2>1, ReachEdge
    <2> QED
      BY <2>2, <2>4, <2>5, ReachTrans
  <1> QED
    BY <1>1, <1>5, <1>6, <1>7, <1>8, <1>9, <1>10, Entered

-----------------------------------------------------------------------------
(* A neighbour that has been discovered is looked at.                      *)

LEMMA SkimKeeps ==
  ASSUME IInv, NEW w \in Node, Skim(w)
  PROVE  IInv'
  <1> DEFINE looked == [node |-> Top.node, rest |-> Top.rest \ {w}]
             t      == Tail(calls)
  <1>0. PICK v \in Node : v = Top.node
    <2>1. calls # <<>> /\ Typed /\ Numbered /\ Stacked
      BY DEF Skim, IInv
    <2> QED
      BY <2>1, OnTop, OnStack
  <1>1. /\ calls # <<>> /\ w \in Top.rest /\ w \in Visited
        /\ calls' = <<looked>> \o t
        /\ low_link' = [low_link EXCEPT ![v] = IF w \in On THEN Least(@, index[w]) ELSE @]
        /\ adj' = adj /\ index' = index /\ stack' = stack /\ counter' = counter /\ sccs' = sccs
    BY <1>0 DEF Skim, Visited, On
  <1>2. /\ Typed /\ Numbered /\ Stacked /\ Explored /\ Connected /\ Rooted
        /\ LowReached /\ LowBounds /\ Reported
    BY DEF IInv
  <1>3. /\ Top \in Frame /\ v \in Active
        /\ Top.rest \subseteq adj[v]
        /\ t \in Seq(Frame)
        /\ Frames = ToSet(t) \cup {Top}
        /\ \A a \in Active : index[a] <= index[v]
        /\ \A f \in ToSet(t) : index[f.node] < index[v]
        /\ \A i, j \in 1 .. Len(t) : i < j => index[t[j].node] < index[t[i].node]
    BY <1>0, <1>1, <1>2, OnTop
  <1>4. looked \in Frame /\ looked.node = v /\ looked.rest = Top.rest \ {w}
    BY <1>0, <1>3 DEF Frame
  <1> HIDE DEF looked, t
  <1>5. /\ calls' \in Seq(Frame) /\ Len(calls') = Len(t) + 1
        /\ calls'[1] = looked /\ \A i \in 2 .. Len(calls') : calls'[i] = t[i - 1]
        /\ ToSet(calls') = ToSet(t) \cup {looked}
    BY <1>1, <1>3, <1>4, Push
  <1>6. Frames' = ToSet(t) \cup {looked}
    BY <1>5 DEF Frames
  <1>7. /\ Active' = Active /\ On' = On /\ Visited' = Visited /\ Done' = Done
    BY <1>0, <1>1, <1>3, <1>4, <1>6 DEF Active, On, Visited, Done
  <1>8. /\ \A u \in Node : u # v => Seen(u)' \subseteq Seen(u)
        /\ Seen(v)' \subseteq Seen(v) \cup {w}
    BY <1>0, <1>1, <1>3, <1>4, <1>6 DEF Seen
  <1>9. /\ \A u \in On : u \in Node /\ index[u] \in Nat
        /\ \A a \in Active : a \in On /\ low_link[a] \in Nat
        /\ v \in On /\ v \in Node
    BY <1>2, <1>3, OnStack
  <1>10. /\ \A a \in Active : a # v => low_link'[a] = low_link[a]
         /\ low_link'[v] = IF w \in On /\ index[w] <= low_link[v] THEN index[w] ELSE low_link[v]
         /\ low_link' \in [Node -> Nat]
    BY <1>1, <1>2, <1>9 DEF Typed, Least
  <1>11. \A n : Reach(n)' = Reach(n) /\ Cycle(n)' = Cycle(n) /\ Cycles' = Cycles
    BY <1>1, ReachFixed
  <1>12. Typed'
    BY <1>1, <1>2, <1>5, <1>10 DEF Typed
  <1>13. Numbered' /\ Connected' /\ Rooted' /\ Reported'
    BY <1>1, <1>2, <1>7, <1>11 DEF Numbered, Connected, Rooted, Reported
  <1>14. Explored'
    BY <1>1, <1>2, <1>7, <1>8, <1>9 DEF Explored
  <1>15. LowReached'
    <2> SUFFICES ASSUME NEW a \in Active
                 PROVE  /\ low_link'[a] <= index[a]
                        /\ \E x \in On : x \in Reach(a) /\ index[x] = low_link'[a]
      BY <1>1, <1>7, <1>11 DEF LowReached
    <2>1. low_link[a] <= index[a] /\ \E x \in On : x \in Reach(a) /\ index[x] = low_link[a]
      BY <1>2 DEF LowReached
    <2>2. CASE low_link'[a] = low_link[a]
      BY <2>1, <2>2
    <2>3. CASE low_link'[a] # low_link[a]
      <3>1. a = v /\ w \in On /\ index[w] <= low_link[v] /\ low_link'[a] = index[w]
        BY <1>10, <2>3
      <3>2. w \in Reach(v)
        BY <1>1, <1>2, <1>3, <1>9, ReachEdge
      <3> QED
        BY <1>9, <2>1, <3>1, <3>2
    <2> QED
      BY <2>2, <2>3
  <1>16. LowBounds'
    <2> SUFFICES ASSUME NEW a \in Active, NEW u \in On, Owns(a, u),
                        NEW x \in Seen(u)', x \in On
                 PROVE  low_link'[a] <= index[x]
      BY <1>1, <1>7 DEF LowBounds, Owns
    <2>1. low_link'[a] \in Nat /\ low_link'[a] <= low_link[a]
      BY <1>9, <1>10
    <2>2. CASE x \in Seen(u)
      BY <1>2, <1>9, <2>1, <2>2 DEF LowBounds
    <2>3. CASE x \notin Seen(u)
      <3>1. u = v /\ x = w
        BY <1>8, <1>9, <2>3
      <3>2. a = v
        BY <1>2, <1>3, <1>9, <3>1, OnStack DEF Owns
      <3> QED
        BY <1>9, <1>10, <3>1, <3>2
    <2> QED
      BY <2>2, <2>3
  <1>17. Stacked'
    <2>1. \A f \in Frames' : f.rest \subseteq adj[f.node]
      BY <1>0, <1>1, <1>2, <1>3, <1>4, <1>6 DEF Stacked
    <2>2. ASSUME NEW i \in 1 .. Len(calls'), NEW j \in 1 .. Len(calls'), i < j
          PROVE  index[calls'[j].node] < index[calls'[i].node]
      <3>1. Len(t) \in Nat /\ \A k \in 1 .. Len(t) : t[k] \in ToSet(t)
        BY <1>3, InSeq, LenProperties
      <3>2. j - 1 \in 1 .. Len(t) /\ calls'[j] = t[j - 1]
        BY <1>5, <2>2, <3>1
      <3>3. CASE i = 1
        BY <1>3, <1>4, <1>5, <3>1, <3>2, <3>3
      <3>4. CASE i # 1
        <4>1. i - 1 \in 1 .. Len(t) /\ calls'[i] = t[i - 1]
          BY <1>5, <2>2, <3>1, <3>4
        <4> QED
          BY <1>3, <2>2, <3>2, <4>1
      <3> QED
        BY <3>3, <3>4
    <2> QED
      BY <1>1, <1>2, <1>7, <2>1, <2>2 DEF Stacked
  <1> QED
    BY <1>12, <1>13, <1>14, <1>15, <1>16, <1>17 DEF IInv

-----------------------------------------------------------------------------
(* A call returns.                                                         *)

\* The files discovered since v.
Since(v) == {u \in On : index[v] <= index[u]}

\* They are those above v on the stack, and are popped with it.
LEMMA Popped ==
  ASSUME Typed, Numbered, Stacked, NEW v \in On
  PROVE  /\ Component(v) = Since(v)
         /\ IsFiniteSet(Since(v))
         /\ LET rest == SubSeq(stack, Cardinality(Since(v)) + 1, Len(stack))
            IN  /\ rest \in Seq(Node)
                /\ ToSet(rest) = On \ Since(v)
                /\ \A i, j \in 1 .. Len(rest) : i < j => index[rest[j]] < index[rest[i]]
  <1> DEFINE n == Len(stack)
             k == CHOOSE j \in DOMAIN stack : stack[j] = v
  <1>1. /\ n \in Nat /\ DOMAIN stack = 1 .. n
        /\ On = {stack[i] : i \in 1 .. n}
        /\ \A i \in 1 .. n : stack[i] \in On /\ stack[i] \in Node
    BY InSeq, LenProperties, ElementOfSeq DEF Typed, On
  <1>2. k \in 1 .. n /\ stack[k] = v
    <2>1. \E j \in DOMAIN stack : stack[j] = v
      BY <1>1
    <2> QED
      BY <1>1, <2>1
  <1>3. Component(v) = {stack[i] : i \in 1 .. k}
    BY DEF Component
  <1> HIDE DEF k, n
  <1>n. n \in Nat
    BY <1>1
  <1>k. k \in Nat /\ 1 <= k /\ k <= n
    BY <1>2, <1>n
  <1>4. \A i \in 1 .. n : index[stack[i]] \in Nat
    BY <1>1, OnStack
  <1>5. \A i, j \in 1 .. n : i < j => index[stack[j]] < index[stack[i]]
    BY DEF Stacked, n
  <1>6. \A i \in 1 .. n : i <= k <=> index[v] <= index[stack[i]]
    <2> TAKE i \in 1 .. n
    <2>1. i < k => index[v] < index[stack[i]]
      BY <1>2, <1>5
    <2>2. k < i => index[stack[i]] < index[v]
      BY <1>2, <1>5
    <2>3. k \in Int /\ i \in Int
      BY <1>n, <1>k
    <2>4. index[v] \in Nat /\ index[stack[i]] \in Nat
      BY <1>2, <1>4
    <2> QED
      BY <1>2, <2>1, <2>2, <2>3, <2>4
  <1>7. Since(v) = {stack[i] : i \in 1 .. k}
    <2>1. \A i \in 1 .. k : i \in 1 .. n /\ i <= k
      BY <1>n, <1>k
    <2>2. \A i \in 1 .. n : i <= k => i \in 1 .. k
      BY <1>n, <1>k
    <2>3. \A u \in Since(v) : \E i \in 1 .. n : u = stack[i] /\ i <= k
      BY <1>1, <1>6 DEF Since
    <2>4. \A i \in 1 .. k : stack[i] \in Since(v)
      BY <1>1, <1>6, <2>1 DEF Since
    <2> QED
      BY <2>2, <2>3, <2>4
  <1>8. Cardinality(Since(v)) = k /\ IsFiniteSet(Since(v))
    <2> DEFINE f == [i \in 1 .. k |-> stack[i]]
    <2>1. f \in [1 .. k -> Since(v)] /\ \A u \in Since(v) : \E i \in 1 .. k : f[i] = u
      BY <1>7
    <2>2. \A i, j \in 1 .. k : f[i] = f[j] => i = j
      <3> TAKE i, j \in 1 .. k
      <3>1. i \in 1 .. n /\ j \in 1 .. n
        BY <1>n, <1>k
      <3>2. (i < j => index[stack[j]] < index[stack[i]]) /\ (j < i => index[stack[i]] < index[stack[j]])
        BY <1>5, <3>1
      <3>3. index[stack[i]] \in Nat
        BY <1>4, <3>1
      <3> QED
        BY <3>1, <3>2, <3>3
    <2>3. ExistsBijection(1 .. k, Since(v))
      BY <2>1, <2>2 DEF ExistsBijection, Bijection, Injection, IsInjective, Surjection
    <2> QED
      BY <1>k, <2>3, FS_CountingElements, FS_NatBijection
  <1> DEFINE rest == SubSeq(stack, k + 1, n)
  <1>9. /\ rest \in Seq(Node) /\ Len(rest) = n - k
        /\ \A i \in 1 .. n - k : rest[i] = stack[k + i]
    <2>0. \A i \in k + 1 .. n : i \in 1 .. n
      BY <1>n, <1>k
    <2>1. k + 1 \in Int /\ n \in Int /\ \A i \in k + 1 .. n : stack[i] \in Node
      BY <1>n, <1>k, <1>1, <2>0
    <2>2. /\ rest \in Seq(Node) /\ Len(rest) = IF k + 1 <= n THEN n - (k + 1) + 1 ELSE 0
          /\ \A i \in 1 .. n - (k + 1) + 1 : rest[i] = stack[(k + 1) + i - 1]
      BY <2>1, SubSeqProperties
    <2>3. (k + 1) \in Nat /\ n - k \in Nat
      BY <1>n, <1>k
    <2>4. Len(rest) = n - k
      BY <1>n, <1>k, <2>2
    <2>5. ASSUME NEW i \in 1 .. n - k
          PROVE  rest[i] = stack[k + i]
      <3>1. i \in 1 .. n - (k + 1) + 1 /\ (k + 1) + i - 1 = k + i
        BY <1>n, <1>k
      <3> HIDE DEF rest
      <3> QED
        BY <2>2, <3>1
    <2> QED
      BY <2>2, <2>4, <2>5
  <1> HIDE DEF rest
  <1>10. ToSet(rest) = On \ Since(v)
    <2>1. ToSet(rest) = {rest[i] : i \in 1 .. n - k}
      BY <1>9, InSeq
    <2>2. \A i \in 1 .. n - k : k + i \in 1 .. n /\ ~(k + i <= k)
      BY <1>n, <1>k
    <2>3. \A i \in 1 .. n : ~(i <= k) => i - k \in 1 .. n - k /\ k + (i - k) = i
      BY <1>n, <1>k
    <2>4. \A i \in 1 .. n - k : rest[i] \in On \ Since(v)
      BY <1>1, <1>6, <1>9, <2>2 DEF Since
    <2>5. ASSUME NEW u \in On, u \notin Since(v)
          PROVE  \E i \in 1 .. n - k : rest[i] = u
      <3>1. PICK i \in 1 .. n : u = stack[i]
        BY <1>1
      <3>2. ~(i <= k)
        BY <1>6, <2>5, <3>1 DEF Since
      <3>3. i - k \in 1 .. n - k /\ k + (i - k) = i
        BY <2>3, <3>2
      <3>4. rest[i - k] = stack[k + (i - k)]
        BY <1>9, <3>3
      <3> QED
        BY <3>1, <3>3, <3>4
    <2> QED
      BY <2>1, <2>4, <2>5
  <1>11. ASSUME NEW i \in 1 .. Len(rest), NEW j \in 1 .. Len(rest), i < j
         PROVE  index[rest[j]] < index[rest[i]]
    <2>1. k + i \in 1 .. n /\ k + j \in 1 .. n /\ k + i < k + j
      BY <1>n, <1>k, <1>9, <1>11
    <2> QED
      BY <1>5, <1>9, <2>1
  <1> QED
    BY <1>3, <1>7, <1>8, <1>9, <1>10, <1>11 DEF rest, n

\* What a return does to calls and low links, whether or not it pops: the
\* caller is the one of the calls left that was discovered last.
LEMMA Returning ==
  ASSUME IInv, Return, NEW v \in Node, v = Top.node
  PROVE  /\ v \in Active /\ Seen(v) = adj[v]
         /\ \A a \in Active : index[a] <= index[v]
         /\ Active' = Active \ {v}
         /\ \A f \in Frames' : f \in Frames
         /\ \A u \in Node : Seen(u)' \subseteq Seen(u)
         /\ calls' \in Seq(Frame)
         /\ \A i, j \in 1 .. Len(calls') :
              i < j => index[calls'[j].node] < index[calls'[i].node]
         /\ low_link' \in [Node -> Nat]
         /\ \A a \in Active' :
              /\ low_link'[a] <= low_link[a]
              /\ low_link'[a] = low_link[a] \/ low_link'[a] = low_link[v]
              /\ (\A b \in Active' : index[b] <= index[a]) => low_link'[a] <= low_link[v]
  <1> DEFINE t == Tail(calls)
  <1>1. /\ calls # <<>> /\ Top.rest = {} /\ calls' = t /\ adj' = adj /\ index' = index
        /\ low_link' = IF t = <<>> THEN low_link
                       ELSE [low_link EXCEPT ![Head(t).node] = Least(@, low_link[v])]
    BY DEF Return
  <1>2. Typed /\ Numbered /\ Stacked
    BY DEF IInv
  <1>3. /\ Top \in Frame /\ v \in Active
        /\ t \in Seq(Frame)
        /\ Frames = ToSet(t) \cup {Top}
        /\ \A a \in Active : index[a] <= index[v]
        /\ \A f \in ToSet(t) : index[f.node] < index[v]
        /\ \A i, j \in 1 .. Len(t) : i < j => index[t[j].node] < index[t[i].node]
    BY <1>1, <1>2, OnTop
  <1> HIDE DEF t
  <1>4. Frames' = ToSet(t)
    BY <1>1 DEF Frames
  <1>5. /\ \A u \in On : index[u] \in Nat /\ u \in Node
        /\ \A a \in Active : a \in On
        /\ \A u, w \in On : index[u] = index[w] => u = w
    BY <1>2, OnStack
  <1>6. \A f \in ToSet(t) : f.node # v
    BY <1>3, <1>5
  <1>7. Active' = Active \ {v}
    BY <1>3, <1>4, <1>6 DEF Active
  <1>8. \A u \in Node : Seen(u)' \subseteq Seen(u)
    BY <1>1, <1>3, <1>4, <1>6 DEF Seen
  <1>9. Seen(v) = adj[v]
    BY <1>1, <1>3, <1>6 DEF Seen
  <1>10. /\ low_link' \in [Node -> Nat]
         /\ \A a \in Active' :
              /\ low_link'[a] <= low_link[a]
              /\ low_link'[a] = low_link[a] \/ low_link'[a] = low_link[v]
              /\ (\A b \in Active' : index[b] <= index[a]) => low_link'[a] <= low_link[v]
    <2>0. low_link \in [Node -> Nat]
      BY <1>2 DEF Typed
    <2>1. CASE t = <<>>
      <3>1. Active' = {}
        <4>1. ToSet(t) = {}
          BY <2>1 DEF ToSet
        <4> QED
          BY <1>4, <4>1 DEF Active
      <3> QED
        BY <1>1, <2>0, <2>1, <3>1
    <2>2. CASE t # <<>>
      <3>1. Head(t) = t[1] /\ Head(t) \in Frame /\ Len(t) \in Nat \ {0}
        BY <1>3, <2>2, Pop
      <3>2. /\ ToSet(t) = {t[i] : i \in 1 .. Len(t)}
            /\ 1 \in 1 .. Len(t)
        BY <1>3, <3>1, InSeq
      <3>3. PICK p \in Node : p = Head(t).node
        BY <3>1 DEF Frame
      <3>4. p \in Active'
        BY <1>4, <3>1, <3>2, <3>3 DEF Active
      <3>5. \A a \in Active' : a # p => index[a] < index[p]
        <4> SUFFICES ASSUME NEW a \in Active', a # p
                     PROVE  index[a] < index[p]
          OBVIOUS
        <4>1. PICK f \in ToSet(t) : a = f.node
          BY <1>4 DEF Active
        <4>2. PICK i \in 1 .. Len(t) : f = t[i]
          BY <3>2
        <4>3. i # 1
          BY <3>1, <3>3, <4>1, <4>2
        <4>4. 1 < i
          BY <3>1, <4>3
        <4> QED
          BY <1>3, <3>1, <3>2, <3>3, <4>1, <4>2, <4>4
      <3>6. /\ low_link' = [low_link EXCEPT ![p] = Least(@, low_link[v])]
            /\ low_link[p] \in Nat /\ low_link[v] \in Nat
        BY <1>1, <2>0, <2>2, <3>3
      <3>7. /\ low_link'[p] = Least(low_link[p], low_link[v])
            /\ \A a \in Node : a # p => low_link'[a] = low_link[a] /\ low_link[a] \in Nat
        BY <2>0, <3>6
      <3>8. /\ Least(low_link[p], low_link[v]) \in Nat
            /\ Least(low_link[p], low_link[v]) <= low_link[p]
            /\ Least(low_link[p], low_link[v]) <= low_link[v]
            /\ Least(low_link[p], low_link[v]) \in {low_link[p], low_link[v]}
        BY <3>6 DEF Least
      <3>9. low_link' \in [Node -> Nat]
        BY <2>0, <3>6, <3>8
      <3>10. ASSUME NEW a \in Active'
             PROVE  /\ low_link'[a] <= low_link[a]
                    /\ low_link'[a] = low_link[a] \/ low_link'[a] = low_link[v]
                    /\ (\A b \in Active' : index[b] <= index[a]) => low_link'[a] <= low_link[v]
        <4>1. CASE a = p
          BY <3>7, <3>8, <4>1
        <4>2. CASE a # p
          <5>1. a \in Node /\ index[a] \in Nat /\ index[p] \in Nat /\ index[a] < index[p]
            BY <1>5, <1>7, <3>4, <3>5, <4>2
          <5>2. low_link'[a] = low_link[a] /\ low_link[a] \in Nat
            BY <3>7, <4>2, <5>1
          <5> QED
            BY <3>4, <5>1, <5>2
        <4> QED
          BY <4>1, <4>2
      <3> QED
        BY <3>9, <3>10
    <2> QED
      BY <2>1, <2>2
  <1> QED
    BY <1>1, <1>3, <1>4, <1>7, <1>8, <1>9, <1>10

\* The call of a file that is not the root of its component: an active file
\* below it is reached.
LEMMA ReturnInside ==
  ASSUME IInv, Return, NEW v \in Node, v = Top.node, low_link[v] # index[v]
  PROVE  IInv'
  <1>1. /\ adj' = adj /\ index' = index /\ stack' = stack /\ counter' = counter /\ sccs' = sccs
    BY DEF Return
  <1>2. /\ Typed /\ Numbered /\ Stacked /\ Explored /\ Connected /\ Rooted
        /\ LowReached /\ LowBounds /\ Reported
    BY DEF IInv
  <1>3. /\ v \in Active /\ Seen(v) = adj[v]
        /\ \A a \in Active : index[a] <= index[v]
        /\ Active' = Active \ {v}
        /\ \A f \in Frames' : f \in Frames
        /\ \A u \in Node : Seen(u)' \subseteq Seen(u)
        /\ calls' \in Seq(Frame)
        /\ \A i, j \in 1 .. Len(calls') :
             i < j => index[calls'[j].node] < index[calls'[i].node]
        /\ low_link' \in [Node -> Nat]
        /\ \A a \in Active' :
             /\ low_link'[a] <= low_link[a]
             /\ low_link'[a] = low_link[a] \/ low_link'[a] = low_link[v]
             /\ (\A b \in Active' : index[b] <= index[a]) => low_link'[a] <= low_link[v]
    BY Returning
  <1>4. /\ \A u \in On : u \in Node /\ index[u] \in Nat
        /\ \A a \in Active : a \in On /\ low_link[a] \in Nat
    BY <1>2, OnStack
  <1>5. /\ On' = On /\ Visited' = Visited /\ Done' = Done
    BY <1>1 DEF On, Visited, Done
  <1>6. /\ \A n : Reach(n)' = Reach(n)
        /\ \A n : Cycle(n)' = Cycle(n)
        /\ Cycles' = Cycles
    BY <1>1, ReachFixed
  <1>7. PICK x \in On : x \in Reach(v) /\ index[x] = low_link[v]
    BY <1>2, <1>3 DEF LowReached
  <1>8. low_link[v] < index[v]
    BY <1>2, <1>3, <1>4 DEF LowReached
  <1>9. PICK r \in Active : index[r] <= index[x] /\ r \in Reach(x)
    BY <1>2, <1>7 DEF Rooted
  <1>10. r \in Active' /\ r \in Reach(v) /\ index[r] < index[v]
    BY <1>3, <1>4, <1>7, <1>8, <1>9, ReachTrans
  <1>11. Typed'
    BY <1>1, <1>2, <1>3 DEF Typed
  <1>12. Numbered' /\ Connected' /\ Reported'
    BY <1>1, <1>2, <1>5, <1>6 DEF Numbered, Connected, Reported
  <1>13. Stacked'
    BY <1>1, <1>2, <1>3, <1>5 DEF Stacked
  <1>14. Explored'
    BY <1>1, <1>2, <1>3, <1>4, <1>5 DEF Explored
  <1>15. Rooted'
    <2> SUFFICES ASSUME NEW u \in On
                 PROVE  \E a \in Active' : index[a] <= index[u] /\ a \in Reach(u)
      BY <1>1, <1>5, <1>6 DEF Rooted
    <2>1. PICK a \in Active : index[a] <= index[u] /\ a \in Reach(u)
      BY <1>2 DEF Rooted
    <2>2. CASE a # v
      BY <1>3, <2>1, <2>2
    <2>3. CASE a = v
      BY <1>4, <1>9, <1>10, <2>1, <2>3, ReachTrans
    <2> QED
      BY <2>2, <2>3
  <1>16. LowReached'
    <2> SUFFICES ASSUME NEW a \in Active'
                 PROVE  /\ low_link'[a] <= index[a]
                        /\ \E w \in On : w \in Reach(a) /\ index[w] = low_link'[a]
      BY <1>1, <1>5, <1>6 DEF LowReached
    <2>1. a \in Active /\ a \in On /\ v \in On /\ a \in Node
      BY <1>3, <1>4
    <2>2. /\ low_link[a] <= index[a] /\ low_link'[a] <= low_link[a]
          /\ \E w \in On : w \in Reach(a) /\ index[w] = low_link[a]
      BY <1>2, <1>3, <2>1 DEF LowReached
    <2>3. low_link'[a] \in Nat /\ low_link[a] \in Nat /\ index[a] \in Nat
      BY <1>3, <1>4, <2>1
    <2>4. v \in Reach(a)
      BY <1>2, <1>3, <2>1 DEF Connected
    <2>5. x \in Reach(a)
      BY <1>7, <2>4, ReachTrans
    <2> QED
      BY <1>3, <1>7, <2>2, <2>3, <2>5
  <1>17. LowBounds'
    <2> SUFFICES ASSUME NEW a \in Active', NEW u \in On, Owns(a, u)',
                        NEW w \in Seen(u)', w \in On
                 PROVE  low_link'[a] <= index[w]
      BY <1>1, <1>5 DEF LowBounds
    <2>1. /\ w \in Seen(u) /\ a \in Active /\ a # v
          /\ index[a] <= index[u] /\ \A b \in Active' : index[a] < index[b] => index[u] < index[b]
      BY <1>1, <1>3, <1>4 DEF Owns
    <2>2. low_link'[a] \in Nat /\ low_link[a] \in Nat /\ low_link[v] \in Nat /\ index[w] \in Nat
      BY <1>3, <1>4, <2>1
    <2>3. CASE Owns(a, u)
      <3>1. low_link[a] <= index[w]
        BY <1>2, <2>1, <2>3 DEF LowBounds
      <3> QED
        BY <1>3, <2>2, <3>1
    <2>4. CASE ~Owns(a, u)
      <3>1. index[a] < index[v] /\ ~(index[u] < index[v])
        BY <1>3, <2>1, <2>4 DEF Owns
      <3>2. index[v] <= index[u]
        BY <1>3, <1>4, <3>1
      <3>3. \A b \in Active' : index[b] <= index[a]
        BY <1>3, <1>4, <2>1, <3>2
      <3>4. Owns(v, u)
        BY <1>3, <1>4, <3>2 DEF Owns
      <3>5. low_link[v] <= index[w]
        BY <1>2, <1>3, <2>1, <3>4 DEF LowBounds
      <3> QED
        BY <1>3, <2>2, <3>3, <3>5
    <2> QED
      BY <2>3, <2>4
  <1> QED
    BY <1>11, <1>12, <1>13, <1>14, <1>15, <1>16, <1>17 DEF IInv

\* The call of the root of a component: nothing reaches below it, so that what
\* has been discovered since is a cycle of its own.
LEMMA RootIsCycle ==
  ASSUME IInv, NEW v \in Active, Seen(v) = adj[v],
         \A a \in Active : index[a] <= index[v], low_link[v] = index[v]
  PROVE  /\ \A u \in Since(v) : adj[u] \subseteq Since(v) \cup Done
         /\ \A u \in Since(v) : Cycle(u) = Since(v)
  <1>2. /\ Typed /\ Numbered /\ Stacked /\ Explored /\ Connected /\ Rooted /\ LowBounds
    BY DEF IInv
  <1>3. /\ \A u \in On : u \in Node /\ index[u] \in Nat
        /\ \A u, w \in On : index[u] = index[w] => u = w
        /\ \A a \in Active : a \in On
        /\ On \subseteq Node
    BY <1>2, OnStack
  <1>4. ASSUME NEW u \in Since(v), NEW w \in adj[u]
        PROVE  w \in Since(v) \cup Done
    <2>1. u \in On /\ index[v] <= index[u] /\ u \in Node
      BY <1>3 DEF Since
    <2>2. u # v => u \notin Active
      BY <1>3, <2>1
    <2>3. w \in Seen(u)
      <3>1. CASE u = v
        BY <1>4, <3>1
      <3>2. CASE u # v
        BY <1>4, <2>2, <3>2 DEF Seen, Active
      <3> QED
        BY <3>1, <3>2
    <2>4. w \in Visited
      BY <1>2, <2>1, <2>3 DEF Explored
    <2>5. CASE w \in On
      <3>1. Owns(v, u)
        BY <1>3, <2>1 DEF Owns
      <3>2. index[v] <= index[w]
        BY <1>2, <2>1, <2>3, <2>5, <3>1 DEF LowBounds
      <3> QED
        BY <2>5, <3>2 DEF Since
    <2>6. CASE w \notin On
      BY <2>4, <2>6 DEF Done
    <2> QED
      BY <2>5, <2>6
  <1>5. Since(v) \cup Done \subseteq Node /\ Done \subseteq Node /\ Since(v) \cap Done = {}
    BY <1>3 DEF Since, Done, Visited
  <1>6. Closed(Since(v) \cup Done) /\ Closed(Done)
    BY <1>2, <1>4 DEF Closed, Explored
  <1>7. ASSUME NEW w \in Since(v)
        PROVE  w \in Reach(v) /\ v \in Reach(w)
    <2>1. PICK a \in Active : index[a] <= index[w] /\ a \in Reach(w)
      BY <1>2, <1>7 DEF Rooted, Since
    <2>2. a \in Since(v)
      BY <1>3, <1>5, <1>6, <1>7, <2>1, ReachWithin DEF Done
    <2>3. a = v
      BY <1>3, <2>2 DEF Since
    <2> QED
      BY <1>2, <1>3, <1>7, <2>1, <2>3 DEF Since, Connected
  <1>8. ASSUME NEW u \in Since(v)
        PROVE  Cycle(u) = Since(v)
    <2>1. \A w \in Since(v) : w \in Reach(u) /\ u \in Reach(w)
      BY <1>7, <1>8, ReachTrans
    <2>2. ASSUME NEW w \in Reach(u), u \in Reach(w)
          PROVE  w \in Since(v)
      <3>1. w \in Since(v) \cup Done
        BY <1>5, <1>6, <1>8, ReachWithin
      <3>2. w \notin Done
        BY <1>5, <1>6, <1>8, <2>2, ReachWithin
      <3> QED
        BY <3>1, <3>2
    <2> QED
      BY <2>1, <2>2 DEF Cycle
  <1> QED
    BY <1>4, <1>8

LEMMA ReturnFromRoot ==
  ASSUME IInv, Return, NEW v \in Node, v = Top.node, low_link[v] = index[v]
  PROVE  IInv'
  <1>1. /\ adj' = adj /\ index' = index /\ counter' = counter
        /\ stack' = SubSeq(stack, Cardinality(Component(v)) + 1, Len(stack))
        /\ sccs' = IF NonTrivial(Component(v)) THEN sccs \cup {Component(v)} ELSE sccs
    BY DEF Return
  <1>2. /\ Typed /\ Numbered /\ Stacked /\ Explored /\ Connected /\ Rooted
        /\ LowReached /\ LowBounds /\ Reported
    BY DEF IInv
  <1>3. /\ v \in Active /\ Seen(v) = adj[v]
        /\ \A a \in Active : index[a] <= index[v]
        /\ Active' = Active \ {v}
        /\ \A f \in Frames' : f \in Frames
        /\ \A u \in Node : Seen(u)' \subseteq Seen(u)
        /\ calls' \in Seq(Frame)
        /\ \A i, j \in 1 .. Len(calls') :
             i < j => index[calls'[j].node] < index[calls'[i].node]
        /\ low_link' \in [Node -> Nat]
        /\ \A a \in Active' :
             /\ low_link'[a] <= low_link[a]
             /\ low_link'[a] = low_link[a] \/ low_link'[a] = low_link[v]
             /\ (\A b \in Active' : index[b] <= index[a]) => low_link'[a] <= low_link[v]
    BY Returning
  <1>4. /\ \A u \in On : u \in Node /\ u \in Visited /\ index[u] \in Nat
        /\ \A u, w \in On : index[u] = index[w] => u = w
        /\ \A a \in Active : a \in On /\ low_link[a] \in Nat
    BY <1>2, OnStack
  <1> DEFINE C == Since(v)
  <1>5. /\ Component(v) = C /\ IsFiniteSet(C)
        /\ stack' \in Seq(Node) /\ ToSet(stack') = On \ C
        /\ \A i, j \in 1 .. Len(stack') : i < j => index[stack'[j]] < index[stack'[i]]
    BY <1>1, <1>2, <1>3, <1>4, Popped
  <1>6. /\ \A u \in C : adj[u] \subseteq C \cup Done
        /\ \A u \in C : Cycle(u) = C
    BY <1>3, RootIsCycle
  <1>7. /\ v \in C /\ C \subseteq On
        /\ \A u \in On : u \notin C => index[u] < index[v]
        /\ \A a \in Active : a # v => a \notin C
    BY <1>3, <1>4 DEF Since
  <1> HIDE DEF C
  <1>8. /\ On' = On \ C /\ Visited' = Visited /\ Done' = Done \cup C
    BY <1>1, <1>4, <1>5, <1>7 DEF On, Visited, Done
  <1>9. /\ \A n : Reach(n)' = Reach(n)
        /\ \A n : Cycle(n)' = Cycle(n)
        /\ Cycles' = Cycles
    BY <1>1, ReachFixed
  <1>10. \A a \in Active' : low_link'[a] = low_link[a] /\ a \in Active /\ index[a] < index[v]
    <2> SUFFICES ASSUME NEW a \in Active'
                 PROVE  low_link'[a] = low_link[a] /\ a \in Active /\ index[a] < index[v]
      OBVIOUS
    <2>1. a \in Active /\ index[a] < index[v]
      BY <1>3, <1>4, <1>7
    <2>2. low_link[a] <= index[a] /\ low_link[a] \in Nat /\ index[a] \in Nat /\ index[v] \in Nat
      BY <1>2, <1>3, <1>4, <2>1 DEF LowReached
    <2> QED
      BY <1>3, <2>1, <2>2
  <1>11. Numbered' /\ Connected'
    BY <1>1, <1>2, <1>8, <1>9 DEF Numbered, Connected
  <1>12. Explored'
    BY <1>1, <1>2, <1>3, <1>4, <1>6, <1>8 DEF Explored
  <1>13. Stacked'
    <2>1. Active' \subseteq On'
      BY <1>3, <1>4, <1>7, <1>8
    <2>2. On' \subseteq Visited'
      BY <1>4, <1>8
    <2> QED
      BY <1>1, <1>2, <1>3, <1>5, <2>1, <2>2 DEF Stacked
  <1>14. Rooted'
    <2> SUFFICES ASSUME NEW u \in On', u \in On, u \notin C
                 PROVE  \E a \in Active' : index[a] <= index[u] /\ a \in Reach(u)
      BY <1>1, <1>8, <1>9 DEF Rooted
    <2>1. PICK a \in Active : index[a] <= index[u] /\ a \in Reach(u)
      BY <1>2 DEF Rooted
    <2>2. a # v
      BY <1>4, <1>7, <2>1
    <2> QED
      BY <1>3, <2>1, <2>2
  <1>15. LowReached'
    <2> SUFFICES ASSUME NEW a \in Active'
                 PROVE  /\ low_link'[a] <= index[a]
                        /\ \E w \in On' : w \in Reach(a) /\ index[w] = low_link'[a]
      BY <1>1, <1>9 DEF LowReached
    <2>1. low_link[a] <= index[a] /\ low_link'[a] = low_link[a] /\ index[a] < index[v]
      BY <1>2, <1>10 DEF LowReached
    <2>2. PICK w \in On : w \in Reach(a) /\ index[w] = low_link[a]
      BY <1>2, <1>10 DEF LowReached
    <2>3. index[w] < index[v]
      BY <1>3, <1>4, <1>10, <2>1, <2>2
    <2>4. w \notin C
      BY <1>3, <1>4, <2>3 DEF C, Since
    <2> QED
      BY <1>8, <2>1, <2>2, <2>4
  <1>16. LowBounds'
    <2> SUFFICES ASSUME NEW a \in Active', NEW u \in On', u \in On, u \notin C, Owns(a, u)',
                        NEW w \in Seen(u)', w \in On
                 PROVE  low_link'[a] <= index[w]
      BY <1>1, <1>8 DEF LowBounds
    <2>1. w \in Seen(u) /\ a \in Active /\ low_link'[a] = low_link[a]
      BY <1>3, <1>4, <1>10
    <2>2. Owns(a, u)
      BY <1>1, <1>3, <1>7 DEF Owns
    <2> QED
      BY <1>2, <2>1, <2>2 DEF LowBounds
  <1>17. Typed' /\ Reported'
    <2>1. NonTrivial(C) <=> C # {v}
      <3>1. \A u \in C : u \notin adj[u]
        BY <1>2, <1>4, <1>7 DEF Typed
      <3>2. Cardinality(C) \in Nat /\ Cardinality(C) # 0
        BY <1>5, <1>7, FS_CardinalityType, FS_EmptySet
      <3>3. Cardinality(C) = 1 <=> C = {v}
        <4>1. Cardinality({v}) = 1
          BY FS_Singleton
        <4>2. Cardinality(C) = 1 => \E x : C = {x}
          BY <1>5, FS_Singleton
        <4> QED
          BY <1>7, <4>1, <4>2
      <3> QED
        BY <3>1, <3>2, <3>3 DEF NonTrivial
    <2>2. C = Cycle(v) /\ C \subseteq Node /\ v \in Node
      BY <1>4, <1>6, <1>7
    <2>3. C # {v} => C \in Cycles
      BY <1>7, <2>2 DEF Cycles
    <2>4. sccs' = IF C # {v} THEN sccs \cup {C} ELSE sccs
      BY <1>1, <1>5, <2>1
    <2>5. Typed'
      BY <1>1, <1>2, <1>3, <1>5, <2>2, <2>4 DEF Typed
    <2>6. sccs' \subseteq Cycles'
      BY <1>2, <1>9, <2>3, <2>4 DEF Reported
    <2>7. \A n \in Done' : Cycle(n) \in sccs' \/ Cycle(n) = {n}
      <3> SUFFICES ASSUME NEW n \in Done \cup C
                   PROVE  Cycle(n) \in sccs' \/ Cycle(n) = {n}
        BY <1>8
      <3>1. CASE n \in Done
        BY <1>2, <2>4, <3>1 DEF Reported
      <3>2. CASE n \in C
        BY <1>6, <2>4, <3>2
      <3> QED
        BY <3>1, <3>2
    <2> QED
      BY <1>9, <2>5, <2>6, <2>7 DEF Reported
  <1> QED
    BY <1>11, <1>12, <1>13, <1>14, <1>15, <1>16, <1>17 DEF IInv

-----------------------------------------------------------------------------

LEMMA NextKeeps ==
  ASSUME IInv, [Next]_vars
  PROVE  IInv'
  <1>1. CASE Start
    BY <1>1, StartKeeps
  <1>2. CASE Return
    <2>1. calls # <<>> /\ Typed /\ Numbered /\ Stacked
      BY <1>2 DEF Return, IInv
    <2>2. PICK v \in Node : v = Top.node
      BY <2>1, OnTop, OnStack
    <2> QED
      BY <1>2, <2>2, ReturnInside, ReturnFromRoot
  <1>3. CASE \E w \in Node : Descend(w) \/ Skim(w)
    BY <1>3, DescendKeeps, SkimKeeps
  <1>4. CASE UNCHANGED vars
    <2>1. UNCHANGED <<On, Visited, Done, Frames, Active>>
      BY <1>4 DEF vars, On, Visited, Done, Frames, Active
    <2>2. \A u : Seen(u)' = Seen(u)
      BY <1>4, <2>1 DEF vars, Seen
    <2>3. \A a, u : Owns(a, u)' = Owns(a, u)
      BY <1>4, <2>1 DEF vars, Owns
    <2>4. /\ \A n : Reach(n)' = Reach(n)
          /\ \A n : Cycle(n)' = Cycle(n)
          /\ Cycles' = Cycles
      BY <1>4, ReachFixed DEF vars
    <2>5. Typed' /\ Numbered' /\ Stacked' /\ Explored'
      BY <1>4, <2>1, <2>2 DEF IInv, vars, Typed, Numbered, Stacked, Explored
    <2>6. Connected' /\ Rooted' /\ LowReached' /\ Reported'
      BY <1>4, <2>1, <2>4 DEF IInv, vars, Connected, Rooted, LowReached, Reported
    <2>7. LowBounds'
      BY <1>4, <2>1, <2>2, <2>3 DEF IInv, vars, LowBounds
    <2> QED
      BY <2>5, <2>6, <2>7 DEF IInv
  <1> QED
    BY <1>1, <1>2, <1>3, <1>4 DEF Next

\* With no call under way the stack is empty, so that all that has been
\* discovered is in finished components.
LEMMA Conclusion ==
  ASSUME IInv
  PROVE  ReportsCycles
  <1>1. sccs \subseteq Cycles
    BY DEF IInv, Reported
  <1>2. ASSUME Finished, NEW c \in Cycles
        PROVE  c \in sccs
    <2>1. On = {}
      <3>1. Active = {}
        BY <1>2 DEF Finished, Active, Frames, ToSet
      <3> QED
        BY <3>1 DEF IInv, Rooted
    <2>2. Done = Node
      BY <1>2, <2>1 DEF Finished, Done, Visited
    <2>3. PICK n \in Node : c = Cycle(n)
      BY DEF Cycles
    <2>4. Cycle(n) # {n}
      BY <2>3 DEF Cycles
    <2> QED
      BY <2>2, <2>3, <2>4 DEF IInv, Reported
  <1> QED
    BY <1>1, <1>2 DEF ReportsCycles

\* Whatever imports what and in whatever order, each component reported by
\* tarjan_sccs is a cycle of two files or more, whole from the start, and when the
\* search has ended every such cycle has been reported (cyclic_deps.rs).  A file
\* that imports itself is no such cycle: its edge was dropped before.
THEOREM CyclesReported == Spec => []ReportsCycles
  <1>1. Init => IInv
    BY InitKeeps
  <1>2. IInv /\ [Next]_vars => IInv'
    BY NextKeeps
  <1>3. IInv => ReportsCycles
    BY Conclusion
  <1> QED
    BY <1>1, <1>2, <1>3, PTL DEF Spec

-----------------------------------------------------------------------------
(* The search ends.                                                        *)

\* Calls of n under way that have yet to look at w.
Owes(n, w) == \E f \in Frames : f.node = n /\ w \in f.rest

\* What is left to be done: files to discover, calls to begin and to return,
\* edges to look at.
Todo ==
  UNION {
    {<<"file", <<n, n>>>> : n \in Node \ Visited},
    {<<"call", <<n, n>>>> : n \in (Node \ Visited) \cup Active},
    {<<"edge", e>> : e \in {d \in Node \X Node :
       d[2] \in adj[d[1]] /\ (d[1] \notin Visited \/ Owes(d[1], d[2]))}}}

\* What it consists of, kind by kind.
LEMMA TodoFiles ==
  \A n : <<"file", <<n, n>>>> \in Todo <=> n \in Node \ Visited
  BY DEF Todo

LEMMA TodoCalls ==
  \A n : <<"call", <<n, n>>>> \in Todo <=> n \in (Node \ Visited) \cup Active
  BY DEF Todo

LEMMA TodoEdges ==
  \A e \in Node \X Node : <<"edge", e>> \in Todo <=>
    e[2] \in adj[e[1]] /\ (e[1] \notin Visited \/ Owes(e[1], e[2]))
  BY DEF Todo

\* If less is to be discovered, to return and to look at, less is left.
LEMMA Shrinks ==
  ASSUME Typed, adj' = adj, Visited \subseteq Visited', Visited' \subseteq Node,
         Active \subseteq Node,
         \A a \in Active' : a \in Active \/ a \in Node \ Visited,
         \A n, w \in Node : w \in adj[n] /\ Owes(n, w)' => Owes(n, w) \/ n \notin Visited
  PROVE  Todo' \subseteq Todo
  <1>1. ASSUME NEW n \in Node \ Visited'
        PROVE  <<"file", <<n, n>>>> \in Todo
    BY TodoFiles
  <1>2. ASSUME NEW n \in (Node \ Visited') \cup Active'
        PROVE  <<"call", <<n, n>>>> \in Todo
    BY TodoCalls
  <1>3. ASSUME NEW e \in Node \X Node, e[2] \in adj'[e[1]],
               e[1] \notin Visited' \/ Owes(e[1], e[2])'
        PROVE  <<"edge", e>> \in Todo
    <2>1. e[1] \in Node /\ e[2] \in Node /\ e = <<e[1], e[2]>>
      OBVIOUS
    <2>2. e[2] \in adj[e[1]] /\ (e[1] \notin Visited \/ Owes(e[1], e[2]))
      BY <1>3, <2>1
    <2> QED
      BY <2>2, TodoEdges
  <1> QED
    BY <1>1, <1>2, <1>3 DEF Todo

\* A file is discovered.
LEMMA EnterLess ==
  ASSUME Typed, Numbered, Stacked, NEW v \in Node, index[v] = None,
         index' = [index EXCEPT ![v] = counter], adj' = adj,
         \A f \in Frames' : \/ f.node = v
                            \/ \E g \in Frames : g.node = f.node /\ f.rest \subseteq g.rest
  PROVE  Todo' \subseteq Todo /\ Todo' # Todo
  <1>1. Visited' = Visited \cup {v} /\ v \in Node \ Visited
    BY NoneIsNoIndex DEF Typed, Visited
  <1>2. Active \subseteq Node
    BY OnStack
  <1>3. \A a \in Active' : a \in Active \/ a \in Node \ Visited
    BY <1>1 DEF Active
  <1>4. \A n, w \in Node : Owes(n, w)' => Owes(n, w) \/ n \notin Visited
    BY <1>1 DEF Owes
  <1>5. Todo' \subseteq Todo
    BY <1>1, <1>2, <1>3, <1>4, Shrinks DEF Visited
  <1>6. <<"file", <<v, v>>>> \in Todo
    BY <1>1, TodoFiles
  <1>7. <<"file", <<v, v>>>> \notin Todo'
    <2>1. v \notin Node \ Visited'
      BY <1>1
    <2>2. (\A n : <<"file", <<n, n>>>> \in Todo <=> n \in Node \ Visited)'
      BY TodoFiles, PTL
    <2> QED
      BY <2>1, <2>2
  <1> QED
    BY <1>5, <1>6, <1>7

\* A call is put on top of others.
LEMMA PushFrame ==
  ASSUME NEW s \in Seq(Frame), NEW f \in Frame
  PROVE  <<f>> \o s \in Seq(Frame) /\ ToSet(<<f>> \o s) = ToSet(s) \cup {f}
  <1>1. LET c == <<f>> \o s
        IN  /\ c \in Seq(Frame) /\ c # <<>> /\ Len(c) = Len(s) + 1
            /\ c[1] = f /\ \A i \in 2 .. Len(c) : c[i] = s[i - 1]
            /\ ToSet(c) = ToSet(s) \cup {f}
            /\ Head(c) = f /\ Tail(c) = s
    BY Push
  <1> QED
    BY <1>1

\* Every step leaves less to be done.
LEMMA StepLess ==
  ASSUME IInv, Next
  PROVE  Todo' \subseteq Todo /\ Todo' # Todo
  <1>0. /\ Typed /\ Numbered /\ Stacked /\ adj \in [Node -> SUBSET Node]
        /\ On \subseteq Visited /\ Active \subseteq On /\ Active \subseteq Node
    BY OnStack DEF IInv, Stacked, Typed
  <1>1. CASE Start
    <2>1. PICK v \in Node : index[v] = None /\ Enter(v, <<>>) /\ adj' = adj
      BY <1>1 DEF Start
    <2>2. PICK call \in Frame : call = [node |-> v, rest |-> adj[v]]
      BY <1>0 DEF Frame
    <2>3. PICK none \in Seq(Frame) : none = <<>>
      BY EmptySeq
    <2>4. calls' = <<call>> \o none /\ index' = [index EXCEPT ![v] = counter]
      BY <2>1, <2>2, <2>3 DEF Enter
    <2>5. ToSet(none) = {}
      BY <2>3, InSeq
    <2>6. Frames' = {call}
      BY <2>4, <2>5, PushFrame DEF Frames
    <2>7. \A f \in Frames' : f.node = v
      BY <2>2, <2>6
    <2> QED
      BY <1>0, <2>1, <2>4, <2>7, EnterLess
  <1>2. CASE Return
    <2>1. calls # <<>> /\ Top.rest = {} /\ calls' = Tail(calls) /\ adj' = adj /\ index' = index
      BY <1>2 DEF Return
    <2>2. /\ Top.node \in Active /\ Frames = ToSet(Tail(calls)) \cup {Top}
          /\ \A f \in ToSet(Tail(calls)) : index[f.node] < index[Top.node]
      BY <1>0, <2>1, OnTop
    <2>3. PICK v \in Node : v = Top.node /\ v \in Active /\ v \in Visited
      BY <1>0, <2>2
    <2>4. Frames' = ToSet(Tail(calls)) /\ Visited' = Visited /\ Visited \subseteq Node
      BY <2>1 DEF Frames, Visited
    <2>5. \A a \in Active' : a \in Active /\ a # v
      <3>1. index[v] \in Nat
        BY <1>0, <2>3, OnStack
      <3> QED
        BY <2>2, <2>3, <2>4, <3>1 DEF Active
    <2>6. \A n, w \in Node : Owes(n, w)' => Owes(n, w)
      BY <2>2, <2>4 DEF Owes
    <2>7. Todo' \subseteq Todo
      BY <1>0, <2>1, <2>4, <2>5, <2>6, Shrinks
    <2>8. <<"call", <<v, v>>>> \in Todo
      BY <2>3, TodoCalls
    <2>9. (\A n : <<"call", <<n, n>>>> \in Todo <=> n \in (Node \ Visited) \cup Active)'
      BY TodoCalls, PTL
    <2> QED
      BY <2>3, <2>4, <2>5, <2>7, <2>8, <2>9
  <1>3. ASSUME NEW w \in Node, Descend(w)
        PROVE  Todo' \subseteq Todo /\ Todo' # Todo
    <2>1. calls # <<>> /\ w \in Top.rest /\ index[w] = None /\ adj' = adj
      BY <1>3 DEF Descend
    <2>2. /\ Top \in Frame /\ Tail(calls) \in Seq(Frame)
          /\ Frames = ToSet(Tail(calls)) \cup {Top}
      BY <1>0, <2>1, OnTop
    <2>3. PICK t \in Seq(Frame), waits \in Frame, call \in Frame :
            /\ t = Tail(calls) /\ waits = [node |-> Top.node, rest |-> Top.rest \ {w}]
            /\ call = [node |-> w, rest |-> adj[w]]
      BY <1>0, <2>2 DEF Frame
    <2>4. calls' = <<call>> \o (<<waits>> \o t) /\ index' = [index EXCEPT ![w] = counter]
      BY <1>3, <2>3 DEF Descend, Enter
    <2>5. <<waits>> \o t \in Seq(Frame) /\ ToSet(<<waits>> \o t) = ToSet(t) \cup {waits}
      BY PushFrame
    <2>6. PICK callers \in Seq(Frame) : callers = <<waits>> \o t
      BY <2>5
    <2>7. Frames' = (ToSet(t) \cup {waits}) \cup {call}
      BY <2>4, <2>5, <2>6, PushFrame DEF Frames
    <2>8. ASSUME NEW f \in Frames'
          PROVE  f.node = w \/ \E g \in Frames : g.node = f.node /\ f.rest \subseteq g.rest
      BY <2>2, <2>3, <2>7
    <2> QED
      BY <1>0, <2>1, <2>4, <2>8, EnterLess
  <1>4. ASSUME NEW w \in Node, Skim(w)
        PROVE  Todo' \subseteq Todo /\ Todo' # Todo
    <2>1. calls # <<>> /\ w \in Top.rest /\ adj' = adj /\ index' = index
      BY <1>4 DEF Skim
    <2>2. /\ Top \in Frame /\ Tail(calls) \in Seq(Frame) /\ Top.node \in Active
          /\ Frames = ToSet(Tail(calls)) \cup {Top} /\ Top.rest \subseteq adj[Top.node]
          /\ \A f \in ToSet(Tail(calls)) : index[f.node] < index[Top.node]
      BY <1>0, <2>1, OnTop
    <2>3. PICK t \in Seq(Frame), looked \in Frame :
            t = Tail(calls) /\ looked = [node |-> Top.node, rest |-> Top.rest \ {w}]
      BY <2>2 DEF Frame
    <2>4. Frames' = ToSet(t) \cup {looked} /\ Visited' = Visited /\ Visited \subseteq Node
      <3>1. calls' = <<looked>> \o t
        BY <1>4, <2>3 DEF Skim
      <3> QED
        BY <2>1, <3>1, PushFrame DEF Frames, Visited
    <2>5. PICK v \in Node : v = Top.node /\ v \in Active /\ v \in Visited /\ w \in adj[v]
      BY <1>0, <2>1, <2>2
    <2>6. \A f \in Frames' : \E g \in Frames : g.node = f.node /\ f.rest \subseteq g.rest
      BY <2>2, <2>3, <2>4
    <2>7. /\ \A a \in Active' : a \in Active
          /\ \A n, u \in Node : Owes(n, u)' => Owes(n, u)
      BY <2>6 DEF Active, Owes
    <2>8. Todo' \subseteq Todo
      BY <1>0, <2>1, <2>4, <2>7, Shrinks
    <2>9. ~Owes(v, w)'
      <3>1. index[v] \in Nat
        BY <1>0, <2>5, OnStack
      <3>2. \A f \in ToSet(t) : f.node # v
        BY <2>2, <2>3, <2>5, <3>1
      <3> QED
        BY <2>3, <2>4, <3>2 DEF Owes
    <2>10. Owes(v, w)
      BY <2>1, <2>2, <2>5 DEF Owes
    <2>11. PICK c \in Node \X Node : c = <<v, w>>
      OBVIOUS
    <2>12. c[1] = v /\ c[2] = w
      BY <2>11
    <2>13. <<"edge", c>> \in Todo
      BY <2>5, <2>10, <2>12, TodoEdges
    <2>14. (\A e \in Node \X Node : <<"edge", e>> \in Todo <=>
              e[2] \in adj[e[1]] /\ (e[1] \notin Visited \/ Owes(e[1], e[2])))'
      BY TodoEdges, PTL
    <2> QED
      BY <2>4, <2>5, <2>8, <2>9, <2>12, <2>13, <2>14
  <1> QED
    BY <1>1, <1>2, <1>3, <1>4 DEF Next

\* What is left to be done is finite.
LEMMA TodoFinite ==
  ASSUME IsFiniteSet(Node), Typed, Numbered, Stacked
  PROVE  IsFiniteSet(Todo)
  <1> DEFINE kinds == {"file", "call", "edge"}
             all   == kinds \X (Node \X Node)
  <1>1. IsFiniteSet({"file"}) /\ IsFiniteSet({"file"} \cup {"call"})
        /\ IsFiniteSet(({"file"} \cup {"call"}) \cup {"edge"})
    BY FS_Singleton, FS_AddElement
  <1>2. kinds = ({"file"} \cup {"call"}) \cup {"edge"}
    OBVIOUS
  <1>3. IsFiniteSet(all)
    BY <1>1, <1>2, FS_Product
  <1>4. Active \subseteq Node
    BY OnStack
  <1>5. Todo \subseteq all
    BY <1>4 DEF Todo
  <1> QED
    BY <1>3, <1>5, FS_Subset

\* For finitely many files, with whatever imports, every step of the search
\* (tarjan_sccs and tarjan_visit) leaves less to be done, in the number of files
\* to discover, calls to return from and imports to look at: it takes no more
\* steps than there is to do, so that it cannot go on for ever.
THEOREM StepsAreBounded ==
  ASSUME IsFiniteSet(Node)
  PROVE  Spec => [][Cardinality(Todo') < Cardinality(Todo) /\ Cardinality(Todo') \in Nat]_vars
  <1>1. ASSUME IInv, IInv', Next
        PROVE  Cardinality(Todo') < Cardinality(Todo) /\ Cardinality(Todo') \in Nat
    <2>1. IsFiniteSet(Todo)
      BY <1>1, TodoFinite DEF IInv
    <2>2. Todo' \in SUBSET Todo /\ Todo' # Todo
      BY <1>1, StepLess
    <2>3. PICK now, next : now = Todo /\ next = Todo'
      OBVIOUS
    <2>4. /\ IsFiniteSet(next) /\ Cardinality(next) <= Cardinality(now)
          /\ Cardinality(next) # Cardinality(now)
      BY <2>1, <2>2, <2>3, FS_Subset
    <2>5. Cardinality(next) \in Nat /\ Cardinality(now) \in Nat
      BY <2>1, <2>3, <2>4, FS_CardinalityType
    <2>6. Cardinality(next) < Cardinality(now)
      BY <2>4, <2>5
    <2> QED
      BY <2>3, <2>5, <2>6
  <1>2. IInv /\ IInv' /\ [Next]_vars
          => [Cardinality(Todo') < Cardinality(Todo) /\ Cardinality(Todo') \in Nat]_vars
    BY <1>1
  <1>3. Init => IInv
    BY InitKeeps
  <1>4. IInv /\ [Next]_vars => IInv'
    BY NextKeeps
  <1> QED
    BY <1>2, <1>3, <1>4, PTL DEF Spec

\* The search has finished when nothing is left to be done, and not before.
THEOREM FinishedWhenNothingLeft == Spec => [](Finished <=> Todo = {})
  <1>1. ASSUME IInv, Todo = {}
        PROVE  Finished
    <2>1. Visited = Node /\ Active = {}
      BY <1>1, TodoFiles, TodoCalls DEF Visited
    <2>2. calls = <<>>
      <3>1. Frames = {}
        BY <2>1 DEF Active
      <3> QED
        BY <1>1, <3>1, InSeq DEF IInv, Typed, Frames
    <2> QED
      BY <2>1, <2>2 DEF Finished, Visited
  <1>2. ASSUME IInv, Finished
        PROVE  Todo = {}
    <2>1. Visited = Node /\ Frames = {}
      <3>1. calls \in Seq(Frame) /\ calls = <<>> /\ Visited = Node
        BY <1>2 DEF IInv, Typed, Finished, Visited
      <3>2. ToSet(calls) = {}
        BY <3>1, InSeq
      <3> QED
        BY <3>1, <3>2 DEF Frames
    <2>2. Active = {} /\ \A n, w : ~Owes(n, w)
      BY <2>1 DEF Active, Owes
    <2>3. \A e \in Node \X Node : e[1] \in Visited
      BY <2>1
    <2> QED
      BY <2>1, <2>2, <2>3 DEF Todo
  <1>3. IInv => (Finished <=> Todo = {})
    BY <1>1, <1>2
  <1>4. Init => IInv
    BY InitKeeps
  <1>5. IInv /\ [Next]_vars => IInv'
    BY NextKeeps
  <1> QED
    BY <1>3, <1>4, <1>5, PTL DEF Spec
=============================================================================
