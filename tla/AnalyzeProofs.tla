----------------------------- MODULE AnalyzeProofs ---------------------------
(***************************************************************************)
(* Proofs about the two ends of `zuit analyze`: run_with_limits, which runs*)
(* the external tools whose output becomes findings, and the gate, which   *)
(* turns findings into an exit code.                                       *)
(*                                                                         *)
(* The invariants that the runs check of run_with_limits are not           *)
(* inductive.  What carries them, for every cap, timeout, buffer and pipe  *)
(* size, is the account of the output: unless some was refused, all that   *)
(* was written has been captured or is in the pipe.  With it, Ok gives what*)
(* was written up to what is left in the pipe, which is nothing unless the *)
(* draining was cut short, and a refusal means that more was written than  *)
(* the cap allows.                                                         *)
(*                                                                         *)
(* Of the gate, for any tree, configuration, baseline and number of edits, *)
(* what needs an argument are the per-glob overrides, which are picked by  *)
(* position: that a position counted among the patterns that compile is one*)
(* among all of them, so that there is an override to take (TypeCorrect),  *)
(* and that it is the position of the first match if those that do not     *)
(* compile come last (AppliesOverrides).                                   *)
(***************************************************************************)
EXTENDS Gate, RunLimits, FiniteSetTheorems, TLAPS

-----------------------------------------------------------------------------
(* A run of an external tool.                                              *)

\* All output is accounted for.
Accounted ==
  IF outcome = "too_large" THEN written > MaxStdout ELSE written = buffer + pipe

\* The outcome is decided when the loops are left, and not before.
Decided ==
  /\ outcome = "none" <=> pc \in {"spawn", "clock", "poll", "read", "drain"}
  /\ outcome = "ok" /\ ~cut => pipe = 0 /\ open = {}

\* What is known of the child wherever the caller may end the call.
ChildKnown ==
  /\ pc = "spawn" => proc["child"] = "unborn"
  /\ pc = "drain" => proc["child"] = "reaped"
  /\ ChildReaped

RunInv == RunTypeOK /\ Accounted /\ Decided /\ ChildKnown

-----------------------------------------------------------------------------

\* A read takes no more than there is in the pipe, and something if there is
\* anything (external.rs, read_buf).
LEMMA ChunkRange ==
  ASSUME pipe \in Nat, pipe > 0
  PROVE  Chunk \in Nat /\ Chunk <= pipe /\ Chunk > 0
  BY Limits DEF Chunk

\* Killing the child keeps the types of what it changes and neither revives nor
\* unreaps anybody (external.rs, child.kill).
LEMMA KillKeeps ==
  ASSUME RunTypeOK, Kill
  PROVE  /\ proc' \in [Writer -> {"unborn", "running", "exited", "reaped"}]
         /\ open' \in SUBSET Writer
         /\ proc["child"] = "reaped" => proc'["child"] = "reaped"
  BY DEF RunTypeOK, Kill, Writer

\* A read that fits: the output moves from the pipe to the buffer.
LEMMA CaptureKeeps ==
  ASSUME RunTypeOK, Accounted, outcome = "none", Capture
  PROVE  /\ pipe' \in 0 .. PipeSize /\ buffer' \in 0 .. MaxStdout
         /\ written = buffer' + pipe'
<1>1. pipe \in Nat /\ pipe <= PipeSize /\ pipe > 0 /\ buffer \in Nat /\ MaxStdout \in Nat
      /\ PipeSize \in Nat
  BY Limits DEF RunTypeOK, Capture
<1>2. Chunk \in Nat /\ Chunk <= pipe
  BY <1>1, ChunkRange
<1>3. buffer + Chunk <= MaxStdout /\ buffer' = buffer + Chunk /\ pipe' = pipe - Chunk
  BY DEF Capture, Fits
<1>4. written = buffer + pipe
  BY DEF Accounted
<1> QED
  BY <1>1, <1>2, <1>3, <1>4

\* A read that does not fit: more was written than the cap allows.
LEMMA OverflowKeeps ==
  ASSUME RunTypeOK, Accounted, outcome = "none", Overflow
  PROVE  /\ pipe' \in 0 .. PipeSize
         /\ written > MaxStdout
         /\ outcome' = "too_large" /\ pc' = "wait"
         /\ Kill
<1>1. pipe \in Nat /\ pipe <= PipeSize /\ pipe > 0 /\ buffer \in Nat /\ MaxStdout \in Nat
      /\ PipeSize \in Nat
  BY Limits DEF RunTypeOK, Overflow
<1>2. Chunk \in Nat /\ Chunk <= pipe
  BY <1>1, ChunkRange
<1>3. ~(buffer + Chunk <= MaxStdout) /\ pipe' = pipe - Chunk
  BY DEF Overflow, Fits
<1>4. written = buffer + pipe
  BY DEF Accounted
<1>5. pipe' \in 0 .. PipeSize /\ written > MaxStdout
  BY <1>1, <1>2, <1>3, <1>4
<1> QED
  BY <1>5 DEF Overflow

-----------------------------------------------------------------------------

\* The invariant holds before the child is spawned.
LEMMA RunInvInit == RunInit => RunInv
<1>1. RunInit => cut \in BOOLEAN
  BY DEF RunInit
<1>2. RunInit => RunTypeOK
  BY <1>1, Limits DEF RunInit, RunTypeOK, Writer
<1>3. RunInit => Accounted /\ Decided /\ ChildKnown
  BY Limits DEF RunInit, Accounted, Decided, ChildKnown, ChildReaped, Writer
<1> QED BY <1>2, <1>3 DEF RunInv

\* Every step keeps it.
LEMMA RunInvStep == RunInv /\ [RunNext]_runVars => RunInv'
<1> SUFFICES ASSUME RunInv, [RunNext]_runVars
             PROVE  RunInv'
  OBVIOUS
<1> USE DEF RunInv
<1>1. CASE Spawn
  <2>1. RunTypeOK'
    BY <1>1 DEF Spawn, Return, RunTypeOK, Writer
  <2>2. Accounted' /\ Decided' /\ ChildKnown'
    BY <1>1 DEF Spawn, Return, RunTypeOK, Accounted, Decided, ChildKnown, ChildReaped, Writer
  <2> QED BY <2>1, <2>2
<1>2. CASE CheckTimeout
  <2>1. pc = "clock" /\ outcome = "none" /\ UNCHANGED <<now, pipe, buffer, written, cut>>
    BY <1>2 DEF CheckTimeout, Decided
  <2>2. CASE now > Timeout
    <3>1. Kill /\ outcome' = "timeout" /\ pc' = "wait"
      BY <1>2, <2>2 DEF CheckTimeout
    <3>2. RunTypeOK'
      BY <2>1, <3>1, KillKeeps DEF RunTypeOK
    <3>3. Accounted' /\ Decided' /\ ChildKnown'
      BY <2>1, <3>1 DEF Accounted, Decided, ChildKnown, ChildReaped
    <3> QED BY <3>2, <3>3
  <2>3. CASE ~(now > Timeout)
    BY <1>2, <2>3 DEF CheckTimeout, RunTypeOK, Accounted, Decided, ChildKnown, ChildReaped
  <2> QED BY <2>2, <2>3
<1>3. CASE TryWait
  <2>1. RunTypeOK'
    BY <1>3 DEF TryWait, RunTypeOK, Writer
  <2>2. Accounted' /\ Decided'
    BY <1>3 DEF TryWait, Accounted, Decided
  <2>3. ChildKnown'
    BY <1>3 DEF TryWait, RunTypeOK, ChildKnown, ChildReaped, Writer
  <2> QED BY <2>1, <2>2, <2>3
<1>4. CASE Read
  <2>1. pc = "read" /\ outcome = "none" /\ UNCHANGED <<now, written, cut>>
    BY <1>4 DEF Read, Decided
  <2>2. CASE Capture /\ pc' = "clock" /\ UNCHANGED <<proc, open, outcome>>
    <3>1. pipe' \in 0 .. PipeSize /\ buffer' \in 0 .. MaxStdout /\ written = buffer' + pipe'
      BY <2>1, <2>2, CaptureKeeps
    <3> QED
      BY <2>1, <2>2, <3>1 DEF RunTypeOK, Accounted, Decided, ChildKnown, ChildReaped
  <2>3. CASE Overflow /\ UNCHANGED buffer
    <3>1. pipe' \in 0 .. PipeSize /\ written > MaxStdout /\ outcome' = "too_large"
          /\ pc' = "wait" /\ Kill
      BY <2>1, <2>3, OverflowKeeps
    <3>2. RunTypeOK'
      BY <2>1, <2>3, <3>1, KillKeeps DEF RunTypeOK
    <3>3. Accounted' /\ Decided' /\ ChildKnown'
      BY <2>1, <3>1 DEF Accounted, Decided, ChildKnown, ChildReaped
    <3> QED BY <3>2, <3>3
  <2>4. CASE EndOfFile /\ outcome' = "ok" /\ pc' = "wait" /\ UNCHANGED <<proc, open, pipe, buffer>>
    BY <2>1, <2>4 DEF EndOfFile, RunTypeOK, Accounted, Decided, ChildKnown, ChildReaped
  <2> QED BY <1>4, <2>2, <2>3, <2>4 DEF Read
<1>5. CASE Drain
  <2>1. pc = "drain" /\ outcome = "none" /\ proc["child"] = "reaped" /\ UNCHANGED <<now, written, cut>>
    BY <1>5 DEF Drain, Decided, ChildKnown
  <2>2. CASE Capture /\ UNCHANGED <<pc, proc, open, outcome>>
    <3>1. pipe' \in 0 .. PipeSize /\ buffer' \in 0 .. MaxStdout /\ written = buffer' + pipe'
      BY <2>1, <2>2, CaptureKeeps
    <3> QED
      BY <2>1, <2>2, <3>1 DEF RunTypeOK, Accounted, Decided, ChildKnown, ChildReaped
  <2>3. CASE Overflow /\ UNCHANGED buffer
    <3>1. pipe' \in 0 .. PipeSize /\ written > MaxStdout /\ outcome' = "too_large"
          /\ pc' = "wait" /\ Kill
      BY <2>1, <2>3, OverflowKeeps
    <3>2. RunTypeOK'
      BY <2>1, <2>3, <3>1, KillKeeps DEF RunTypeOK
    <3>3. Accounted' /\ Decided' /\ ChildKnown'
      BY <2>1, <3>1 DEF Accounted, Decided, ChildKnown, ChildReaped
    <3> QED BY <3>2, <3>3
  <2>4. CASE EndOfFile /\ Return("ok") /\ UNCHANGED <<proc, open, pipe, buffer>>
    BY <2>1, <2>4 DEF EndOfFile, Return, RunTypeOK, Accounted, Decided, ChildKnown, ChildReaped
  <2> QED BY <1>5, <2>2, <2>3, <2>4 DEF Drain
<1>6. CASE Wait
  <2>1. RunTypeOK'
    BY <1>6 DEF Wait, RunTypeOK, Writer
  <2>2. Accounted' /\ Decided'
    BY <1>6 DEF Wait, Accounted, Decided
  <2>3. ChildKnown'
    BY <1>6 DEF Wait, RunTypeOK, ChildKnown, ChildReaped, Writer
  <2> QED BY <2>1, <2>2, <2>3
<1>7. ASSUME pc # "returned", StartHelper
      PROVE  RunInv'
  <2>1. RunTypeOK'
    BY <1>7 DEF StartHelper, RunTypeOK, Writer
  <2>2. Accounted' /\ Decided'
    BY <1>7 DEF StartHelper, Accounted, Decided
  <2>3. ChildKnown'
    BY <1>7 DEF StartHelper, RunTypeOK, ChildKnown, ChildReaped, Writer
  <2> QED BY <2>1, <2>2, <2>3
<1>8. ASSUME pc # "returned", NEW w \in Writer, Write(w)
      PROVE  RunInv'
  <2>1. written' = written + 1 /\ pipe' = pipe + 1 /\ pipe < PipeSize /\ written < MaxWritten
        /\ open # {} /\ UNCHANGED <<now, proc, open, buffer, pc, outcome, cut>>
    BY <1>8 DEF Write
  <2>2. RunTypeOK'
    BY <2>1, Limits DEF RunTypeOK
  <2>3. Accounted'
    BY <2>1, Limits DEF RunTypeOK, Accounted
  <2>4. Decided' /\ ChildKnown'
    BY <2>1 DEF Decided, ChildKnown, ChildReaped
  <2> QED BY <2>2, <2>3, <2>4
<1>9. ASSUME pc # "returned", NEW w \in Writer, Close(w)
      PROVE  RunInv'
  BY <1>9 DEF Close, RunTypeOK, Accounted, Decided, ChildKnown, ChildReaped
<1>10. ASSUME pc # "returned", NEW w \in Writer, Exit(w)
       PROVE  RunInv'
  <2>1. RunTypeOK'
    BY <1>10 DEF Exit, RunTypeOK
  <2>2. Accounted' /\ Decided'
    BY <1>10 DEF Exit, Accounted, Decided
  <2>3. ChildKnown'
    BY <1>10 DEF Exit, Running, RunTypeOK, ChildKnown, ChildReaped, Writer
  <2> QED BY <2>1, <2>2, <2>3
<1>11. CASE Tick
  <2>1. RunTypeOK'
    BY <1>11, Limits DEF Tick, tool, RunTypeOK
  <2>2. Accounted' /\ Decided' /\ ChildKnown'
    BY <1>11 DEF Tick, tool, Accounted, Decided, ChildKnown, ChildReaped
  <2> QED BY <2>1, <2>2
<1>12. CASE CallFails
  <2>1. RunTypeOK'
    BY <1>12 DEF CallFails, Return, tool, RunTypeOK
  <2>2. Accounted' /\ Decided' /\ ChildKnown'
    BY <1>12 DEF CallFails, Return, tool, Accounted, Decided, ChildKnown, ChildReaped
  <2> QED BY <2>1, <2>2
<1>13. CASE UNCHANGED runVars
  BY <1>13 DEF runVars, tool, RunTypeOK, Accounted, Decided, ChildKnown, ChildReaped
<1> QED
  BY <1>1, <1>2, <1>3, <1>4, <1>5, <1>6, <1>7, <1>8, <1>9, <1>10, <1>11, <1>12, <1>13
     DEF RunNext, Caller, Tool

-----------------------------------------------------------------------------

\* The variables keep their types.
THEOREM RunTypeCorrect == RunSpec => []RunTypeOK
  BY RunInvInit, RunInvStep, PTL DEF RunSpec, RunInv

\* What is returned as Ok is all of the output of the tool and of its helpers up
\* to what is in the pipe, however many calls failed; and nothing is left there
\* and nobody can write any more, unless a read failed while the pipe was drained
\* (external.rs, both loops).
THEOREM OkWhole == RunSpec => []OkIsWhole
<1>1. RunInv => OkIsWhole
  BY DEF RunInv, RunTypeOK, Accounted, Decided, OkIsWhole
<1> QED
  BY <1>1, RunInvInit, RunInvStep, PTL DEF RunSpec

\* Output is refused only if it exceeds the cap, in either loop (external.rs,
\* the comparisons with max_stdout_bytes).
THEOREM CapIsExact == RunSpec => []CapExact
<1>1. RunInv => CapExact
  BY DEF RunInv, Accounted, CapExact
<1> QED
  BY <1>1, RunInvInit, RunInvStep, PTL DEF RunSpec

\* No return leaves a running child or a zombie (external.rs, kill and wait on
\* every path).
THEOREM NoZombies == RunSpec => []ChildReaped
<1>1. RunInv => ChildReaped
  BY DEF RunInv, ChildKnown
<1> QED
  BY <1>1, RunInvInit, RunInvStep, PTL DEF RunSpec

-----------------------------------------------------------------------------
(* Positions in a sorted vector.                                           *)

LEMMA IndexType ==
  ASSUME NEW S, IsFiniteSet(S), S \subseteq Nat, NEW g \in S
  PROVE  Index(S, g) \in 0 .. Cardinality(S) - 1
  <1> DEFINE L == {h \in S : h < g}
  <1>1. L \in SUBSET S /\ L # S
    OBVIOUS
  <1> HIDE DEF L
  <1>2. /\ Cardinality(L) \in Nat /\ Cardinality(S) \in Nat
        /\ Cardinality(L) <= Cardinality(S) /\ Cardinality(L) # Cardinality(S)
    BY <1>1, FS_Subset, FS_CardinalityType
  <1> QED
    BY <1>2 DEF Index, L

\* Different elements have different positions.
LEMMA IndexInjective ==
  ASSUME NEW S, IsFiniteSet(S), S \subseteq Nat,
         NEW g \in S, NEW h \in S, Index(S, g) = Index(S, h)
  PROVE  g = h
  <1>1. ASSUME NEW x \in S, NEW y \in S, x < y
        PROVE  Index(S, x) # Index(S, y)
    <2> DEFINE L(z) == {w \in S : w < z}
    <2>1. L(x) \in SUBSET L(y) /\ x \in L(y) /\ x \notin L(x)
      <3>1. x \in Nat /\ y \in Nat /\ \A w \in S : w \in Nat
        OBVIOUS
      <3>2. ~(x < x) /\ \A w \in S : w < x => w < y
        BY <1>1, <3>1
      <3> QED
        BY <1>1, <3>2
    <2>2. IsFiniteSet(L(y))
      <3>1. L(y) \in SUBSET S
        OBVIOUS
      <3> QED
        BY <3>1, FS_Subset
    <2>3. L(x) # L(y)
      BY <2>1
    <2> HIDE DEF L
    <2>4. Cardinality(L(x)) # Cardinality(L(y))
      BY <2>1, <2>2, <2>3, FS_Subset
    <2> QED
      BY <2>4 DEF Index, L
  <1>2. g \in Nat /\ h \in Nat
    OBVIOUS
  <1>3. g < h \/ h < g \/ g = h
    BY <1>2
  <1> QED
    BY <1>1, <1>3

\* Every position is some element's.
LEMMA IndexOnto ==
  ASSUME NEW S, IsFiniteSet(S), S \subseteq Nat, NEW i \in 0 .. Cardinality(S) - 1
  PROVE  \E g \in S : Index(S, g) = i
  <1> DEFINE T == 0 .. Cardinality(S) - 1
             f == [g \in S |-> Index(S, g)]
  <1>1. Cardinality(S) \in Nat
    BY FS_CardinalityType
  <1>2. IsFiniteSet(T) /\ Cardinality(T) = Cardinality(S)
    BY <1>1, FS_Interval
  <1>3. f \in [S -> T]
    BY IndexType
  <1>4. \A g, h \in S : f[g] = f[h] => g = h
    BY IndexInjective
  <1> HIDE DEF f, T
  <1>5. f \in Injection(S, T)
    BY <1>3, <1>4 DEF Injection, IsInjective
  <1>6. f \in Surjection(S, T)
    BY <1>2, <1>5, FS_Injection
  <1>7. \E g \in S : f[g] = i
    BY <1>6 DEF Surjection, T
  <1> QED
    BY <1>7 DEF f

LEMMA NthOf ==
  ASSUME NEW S, IsFiniteSet(S), S \subseteq Nat, NEW g \in S
  PROVE  Nth(S, Index(S, g)) = g
  <1>1. \A h \in S : Index(S, h) = Index(S, g) => h = g
    BY IndexInjective
  <1> QED
    BY <1>1 DEF Nth

LEMMA NthIn ==
  ASSUME NEW S, IsFiniteSet(S), S \subseteq Nat, NEW i \in 0 .. Cardinality(S) - 1
  PROVE  Nth(S, i) \in S
  BY IndexOnto DEF Nth

LEMMA LeastIs ==
  ASSUME NEW S, IsFiniteSet(S), S \subseteq Nat, S # {}
  PROVE  Least(S) \in S /\ \A h \in S : Least(S) <= h
  <1>1. Cardinality(S) \in Nat \ {0}
    BY FS_CardinalityType, FS_EmptySet
  <1>2. PICK g \in S : Index(S, g) = 0
    <2>1. 0 \in 0 .. Cardinality(S) - 1
      BY <1>1
    <2> QED
      BY <2>1, IndexOnto
  <1>3. {h \in S : h < g} = {}
    <2>1. IsFiniteSet({h \in S : h < g})
      <3>1. {h \in S : h < g} \in SUBSET S
        OBVIOUS
      <3> QED
        BY <3>1, FS_Subset
    <2> QED
      BY <1>2, <2>1, FS_EmptySet DEF Index
  <1>4. \A h \in S : g <= h
    BY <1>3
  <1> QED
    BY <1>4 DEF Least

-----------------------------------------------------------------------------
(* Overrides.                                                              *)

\* What the rule of a defect says.
LEMMA RuleConfig ==
  ASSUME TypeOK, NEW d \in Defect
  PROVE  LET rule == config[RuleOf[d]]
         IN  /\ rule.severity \in Severity \cup {Unset}
             /\ rule.overrides \in Overrides
             /\ DOMAIN rule.overrides \subseteq Nat
             /\ IsFiniteSet(DOMAIN rule.overrides)
  <1>1. config \in Config /\ RuleOf[d] \in Rule
    BY Defects, Configuration DEF TypeOK
  <1>2. /\ config[RuleOf[d]].severity \in Severity \cup {Unset}
        /\ config[RuleOf[d]].overrides \in Overrides
    BY <1>1 DEF Config
  <1>3. DOMAIN config[RuleOf[d]].overrides \in SUBSET Glob
    BY <1>2 DEF Overrides
  <1> QED
    BY <1>2, <1>3, Configuration, FS_Subset

\* A position among the patterns that compile is one among all.
LEMMA OverrideType ==
  ASSUME NEW overrides \in Overrides, NEW file,
         IsFiniteSet(DOMAIN overrides), DOMAIN overrides \subseteq Nat,
         Matching(overrides, file) # {}
  PROVE  Override(overrides, file) \in Severity \cup {Ignore}
  <1> DEFINE D == DOMAIN overrides
             C == D \cap Compiles
             M == Matching(overrides, file)
             i == Index(C, Least(M))
  <1>1. M \subseteq C /\ C \subseteq D /\ D \subseteq Nat
    BY DEF Matching
  <1>2. \A g \in D : overrides[g] \in Severity \cup {Ignore}
    BY DEF Overrides
  <1>0. IsFiniteSet(D)
    OBVIOUS
  <1> HIDE DEF C, D
  <1>3. IsFiniteSet(C) /\ IsFiniteSet(M)
    BY <1>0, <1>1, FS_Subset
  <1>4. Least(M) \in C
    BY <1>1, <1>3, LeastIs
  <1>5. i \in 0 .. Cardinality(C) - 1
    BY <1>1, <1>3, <1>4, IndexType
  <1>6. Cardinality(C) <= Cardinality(D) /\ Cardinality(C) \in Nat /\ Cardinality(D) \in Nat
    BY <1>0, <1>1, <1>3, FS_Subset, FS_CardinalityType
  <1> HIDE DEF M, i
  <1>7. i \in 0 .. Cardinality(D) - 1
    BY <1>5, <1>6
  <1>8. Nth(D, i) \in D
    BY <1>0, <1>1, <1>7, NthIn
  <1>9. overrides[Nth(D, i)] \in Severity \cup {Ignore}
    BY <1>2, <1>8
  <1> QED
    BY <1>9 DEF Override, C, D, M, i

LEMMA SeverityType ==
  ASSUME TypeOK, NEW d \in Defect
  PROVE  SeverityOf(d) \in Severity \cup {Ignore}
  <1> DEFINE rule == config[RuleOf[d]]
  <1>1. /\ rule.severity \in Severity \cup {Unset}
        /\ rule.overrides \in Overrides
        /\ DOMAIN rule.overrides \subseteq Nat
        /\ IsFiniteSet(DOMAIN rule.overrides)
    BY RuleConfig
  <1> HIDE DEF rule
  <1>2. Matching(rule.overrides, FileOf[d]) # {} =>
          Override(rule.overrides, FileOf[d]) \in Severity \cup {Ignore}
    BY <1>1, OverrideType
  <1>3. DefaultOf[d] \in Severity
    BY Defects
  <1> QED
    BY <1>1, <1>2, <1>3 DEF SeverityOf, rule

LEMMA ReportType == ASSUME TypeOK PROVE Report \subseteq Finding
  <1>1. ASSUME NEW d \in Found, SeverityOf(d) # Ignore
        PROVE  FindingOf(d) \in Finding
    <2>1. d \in Defect /\ place[d] \in Place
      BY DEF Found, TypeOK
    <2>2. SeverityOf(d) \in Severity
      BY <1>1, <2>1, SeverityType
    <2> QED
      BY <2>1, <2>2 DEF FindingOf, Finding, Place
  <1> QED
    BY <1>1 DEF Report

-----------------------------------------------------------------------------
(* Types.                                                                  *)

LEMMA TypedInit == Init => TypeOK
  BY Positions DEF Init, TypeOK, NoArgs, Args

LEMMA TypedNext == TypeOK /\ [Next]_vars => TypeOK'
  <1> USE DEF TypeOK
  <1> SUFFICES ASSUME TypeOK, [Next]_vars PROVE TypeOK'
    OBVIOUS
  <1>1. CASE UNCHANGED vars
    BY <1>1 DEF vars, tree, save, check
  <1>2. ASSUME Edit,
               place' \in [Defect -> Place \cup {Absent}],
               allow' \subseteq Directive, config' \in Configs
        PROVE  TypeOK'
    BY <1>2, Positions DEF Edit, save, check
  <1>3. ASSUME NEW d \in Defect, Introduce(d) PROVE TypeOK'
    BY <1>2, <1>3 DEF Introduce
  <1>4. ASSUME NEW d \in Defect, Fix(d) PROVE TypeOK'
    BY <1>2, <1>4 DEF Fix
  <1>5. ASSUME NEW s \in Directive, Allow(s) \/ Disallow(s) PROVE TypeOK'
    BY <1>2, <1>5 DEF Allow, Disallow
  <1>6. ASSUME NEW file \in File, NEW line \in Line,
               InsertLine(file, line) \/ GrowLine(file, line)
        PROVE  TypeOK'
    BY <1>2, <1>6 DEF InsertLine, GrowLine
  <1>7. ASSUME NEW k \in Configs, EditConfig(k) PROVE TypeOK'
    BY <1>2, <1>7 DEF EditConfig, tree
  <1>8. CASE SaveBaseline
    BY <1>8, ReportType, Positions DEF SaveBaseline, tree, check
  <1>9. CASE WriteBaseline
    BY <1>9 DEF WriteBaseline, tree, check
  <1>10. ASSUME NEW a \in Args, Analyze(a) PROVE TypeOK'
    BY <1>10, ReportType, Positions DEF Analyze, tree, save
  <1>11. CASE Judge
    <2>1. NoArgs \in Args
      BY DEF NoArgs, Args
    <2> QED
      BY <1>11, <2>1 DEF Judge, tree, save
  <1> QED
    BY <1>1, <1>3, <1>4, <1>5, <1>6, <1>7, <1>8, <1>9, <1>10, <1>11 DEF Next

\* The variables keep their types: in particular every finding of every report
\* and baseline has a severity, whatever the overrides (engine.rs).
THEOREM TypeCorrect == Spec => []TypeOK
  <1>1. Init => TypeOK
    BY TypedInit
  <1>2. TypeOK /\ [Next]_vars => TypeOK'
    BY TypedNext
  <1> QED
    BY <1>1, <1>2, PTL DEF Spec

-----------------------------------------------------------------------------
(* Overrides as asked for.                                                 *)

\* If the patterns that do not compile come last, the first match is found.
LEMMA OverrideIsFirst ==
  ASSUME NEW overrides, NEW file,
         IsFiniteSet(DOMAIN overrides), DOMAIN overrides \subseteq Nat,
         \A g, h \in DOMAIN overrides : g \in Compiles /\ h \notin Compiles => g < h,
         NEW g \in Matching(overrides, file),
         \A h \in Matching(overrides, file) : g <= h
  PROVE  Override(overrides, file) = overrides[g]
  <1> DEFINE D == DOMAIN overrides
             C == D \cap Compiles
             M == Matching(overrides, file)
  <1>1. M \subseteq C /\ C \subseteq D /\ D \subseteq Nat /\ g \in M
    BY DEF Matching
  <1>2. IsFiniteSet(D) /\ IsFiniteSet(M)
    BY <1>1, FS_Subset
  <1>3. Least(M) = g
    <2>1. Least(M) \in M /\ \A h \in M : Least(M) <= h
      BY <1>1, <1>2, LeastIs
    <2> QED
      BY <1>1, <2>1
  <1>4. {h \in C : h < g} = {h \in D : h < g}
    BY <1>1
  <1>5. Index(C, g) = Index(D, g)
    BY <1>4 DEF Index
  <1>6. Nth(D, Index(D, g)) = g
    BY <1>1, <1>2, NthOf
  <1> QED
    BY <1>3, <1>5, <1>6 DEF Override

LEMMA SeverityAsAsked ==
  ASSUME TypeOK, BadGlobsLast, NEW d \in Defect
  PROVE  SeverityOf(d) = Asked(d)
  <1> DEFINE rule  == config[RuleOf[d]]
             M     == Matching(rule.overrides, FileOf[d])
             first == {g \in M : \A h \in M : g <= h}
  <1>1. DOMAIN rule.overrides \subseteq Nat /\ IsFiniteSet(DOMAIN rule.overrides)
    BY RuleConfig
  <1>2. M \subseteq DOMAIN rule.overrides
    BY DEF Matching
  <1>3. CASE M = {}
    BY <1>3 DEF SeverityOf, Asked
  <1>4. CASE M # {}
    <2>1. IsFiniteSet(M) /\ M \subseteq Nat
      BY <1>1, <1>2, FS_Subset
    <2>2. PICK g \in M : \A h \in M : g <= h
      <3> HIDE DEF M
      <3> QED
        BY <1>4, <2>1, LeastIs
    <2>3. first = {g}
      BY <2>1, <2>2
    <2>4. Override(rule.overrides, FileOf[d]) = rule.overrides[g]
      <3>1. RuleOf[d] \in Rule
        BY Defects
      <3>2. \A x, y \in DOMAIN rule.overrides :
              x \in Compiles /\ y \notin Compiles => x < y
        BY <3>1 DEF BadGlobsLast
      <3> QED
        BY <1>1, <2>2, <3>2, OverrideIsFirst
    <2>5. Asked(d) = rule.overrides[g]
      <3>1. Asked(d) = CHOOSE o \in {rule.overrides[x] : x \in first} : TRUE
        BY <2>3 DEF Asked
      <3>2. {rule.overrides[x] : x \in first} = {rule.overrides[g]}
        BY <2>3
      <3> QED
        BY <3>1, <3>2
    <2>6. SeverityOf(d) = Override(rule.overrides, FileOf[d])
      BY <1>4 DEF SeverityOf
    <2> QED
      BY <2>4, <2>5, <2>6
  <1> QED
    BY <1>3, <1>4

\* If no invalid glob sorts before a valid one, every run reports a defect that
\* is not suppressed with the severity that the first glob matching its file,
\* the rule or the analyzer gives it (apply_per_glob_overrides).
THEOREM AppliesOverrides == Spec => []OverridesAsAsked
  <1>1. TypeOK => OverridesAsAsked
    <2>1. SUFFICES ASSUME TypeOK, BadGlobsLast, NEW d \in Found, ~Suppressed(d)
                   PROVE  {f.severity : f \in {g \in Report : g.defect = d}}
                            = {Asked(d)} \ {Ignore}
      BY DEF OverridesAsAsked, AsAsked
    <2>2. d \in Defect /\ SeverityOf(d) = Asked(d)
      BY <2>1, SeverityAsAsked DEF Found
    <2>3. \A e \in Found : FindingOf(e).defect = e /\ FindingOf(e).severity = SeverityOf(e)
      BY DEF FindingOf
    <2>4. {g \in Report : g.defect = d} =
            IF SeverityOf(d) = Ignore THEN {} ELSE {FindingOf(d)}
      BY <2>1, <2>3 DEF Report
    <2> QED
      BY <2>2, <2>3, <2>4
  <1> QED
    BY <1>1, TypeCorrect, PTL

-----------------------------------------------------------------------------
(* The exit code.                                                          *)

\* With a baseline the gate fails only for a defect that the baseline does not
\* hold at its offset (BaselineKey, analyze.rs).
THEOREM FailsOnlyForACause == Spec => FailsForACause
  <1>1. ASSUME Next, gate = "judge", gate' = "idle", exit' = 1, args.baseline
        PROVE  \E f \in report :
                 /\ Concerns(f)
                 /\ \A b \in baseline : b.defect = f.defect => b.start # f.start
    <2>1. Judge
      BY <1>1 DEF Next, Introduce, Fix, Allow, Disallow, InsertLine, GrowLine,
                  EditConfig, SaveBaseline, WriteBaseline, Analyze, Edit, check
    <2>2. Fails(Remaining)
      BY <1>1, <2>1 DEF Judge
    <2>3. PICK f \in Remaining : args.fail_on # Unset /\ f.severity >= args.fail_on
      BY <2>2 DEF Fails
    <2>4. f \in report /\ Tagged(f) /\ \A b \in baseline : BaselineKey(b) # BaselineKey(f)
      BY <1>1, <2>3 DEF Remaining
    <2> QED
      BY <2>3, <2>4 DEF Concerns, BaselineKey
  <1>2. [Next]_vars => [gate = "judge" /\ gate' = "idle" /\ exit' = 1 /\ args.baseline =>
                          \E f \in report :
                            /\ Concerns(f)
                            /\ \A b \in baseline : b.defect = f.defect => b.start # f.start]_vars
    BY <1>1
  <1> QED
    BY <1>2, PTL DEF Spec, FailsForACause

\* The gate passes only with what the baseline holds or masks, and never with a
\* baseline that is missing or torn (run, analyze.rs).
THEOREM PassesOnlyWhatIsKnown == Spec => PassesOnlyKnown
  <1>1. ASSUME Next, gate = "judge", gate' = "idle", exit' = 0,
               NEW f \in report, Concerns(f)
        PROVE  /\ args.baseline /\ baseline \notin {NoFile, Torn}
               /\ \E b \in baseline :
                    FileOf[b.defect] = FileOf[f.defect] /\ RuleOf[b.defect] = RuleOf[f.defect]
                      /\ b.start = f.start
    <2>1. Judge
      BY <1>1 DEF Next, Introduce, Fix, Allow, Disallow, InsertLine, GrowLine,
                  EditConfig, SaveBaseline, WriteBaseline, Analyze, Edit, check
    <2>2. ~(args.baseline /\ baseline \in {NoFile, Torn}) /\ ~Fails(Remaining)
      BY <1>1, <2>1 DEF Judge
    <2>3. f \notin Remaining
      BY <1>1, <2>2 DEF Fails, Concerns
    <2>4. args.baseline /\ \E b \in baseline : BaselineKey(b) = BaselineKey(f)
      BY <1>1, <2>3 DEF Remaining, Concerns
    <2> QED
      BY <2>2, <2>4 DEF BaselineKey
  <1>2. [Next]_vars => [gate = "judge" /\ gate' = "idle" /\ exit' = 0 =>
                          \A f \in report : Concerns(f) =>
                            /\ args.baseline /\ baseline \notin {NoFile, Torn}
                            /\ \E b \in baseline :
                                 FileOf[b.defect] = FileOf[f.defect]
                                   /\ RuleOf[b.defect] = RuleOf[f.defect]
                                   /\ b.start = f.start]_vars
    BY <1>1
  <1> QED
    BY <1>2, PTL DEF Spec, PassesOnlyKnown
===============================================================================
