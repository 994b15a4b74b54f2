-------------------------------- MODULE Gate --------------------------------
(***************************************************************************)
(* From what the analyzers find to the exit code of `zuit analyze`:        *)
(* suppression directives and severity overrides (zuit-core, engine.rs),   *)
(* `zuit baseline save` (zuit-cli, baseline.rs), and --baseline, --owasp,  *)
(* --cwe and --fail-on (analyze.rs).                                       *)
(*                                                                         *)
(* A defect is something an analyzer finds in the tree, wherever edits     *)
(* move it; a finding is what a run says of a defect.  Positions are lines *)
(* and byte offsets, where only the order of offsets and their shifts      *)
(* matter.  Override globs are numbered in the order of their texts, the   *)
(* order of the BTreeMap they are keys of.  Both commands are given the    *)
(* same path.                                                              *)
(***************************************************************************)
EXTENDS Naturals, FiniteSets

CONSTANTS
  Defect,        \* what analyzers find, in the files of the tree
  FileOf, RuleOf, DefaultOf,   \* a defect's file, rule and default severity
  OwaspOf, CweOf,   \* its taxonomy tags
  ProjectLevel,  \* defects of the project: reported at offset 0 of their file
  Rule, File, Tag,
  Severity,      \* severities, as numbers
  Ignore, Unset, \* the override that drops findings; no global override
  Glob,          \* patterns of per-glob overrides, numbered
  Compiles,      \* the patterns that are valid globs
  Matches,       \* the files each of them matches
  Configs,       \* what zuit.toml can say: per rule a severity and overrides
  Line, Offset,  \* bounds: positions in a file
  Absent,        \* the place of a defect that is not in the tree
  NoFile,        \* there is no baseline file
  Torn,          \* a baseline file that is being written
  MaxEdits,      \* bound: how often tree and zuit.toml are edited
  MaxRuns        \* bound: how many commands are run

VARIABLES
  place,     \* where each defect is: [line, start], or Absent
  allow,     \* the suppression directives of the tree
  config,    \* zuit.toml
  baseline,  \* the baseline file: NoFile, Torn or the findings of a report
  saver, saved,   \* `baseline save`: where it is, its report
  gate, args, report,   \* `analyze`: where it is, its arguments, its report
  exit,      \* the exit code of the last `analyze`
  edits, runs   \* counters for the bounds

tree  == <<place, allow>>
save  == <<saver, saved>>
check == <<gate, args, report, exit>>
vars  == <<tree, config, baseline, save, check, edits, runs>>

Place == [line : Line, start : Offset]

Finding == [defect : Defect, line : Line, start : Offset, severity : Severity]

Directive == [file : File, rule : Rule, line : Line, file_scoped : BOOLEAN]

Overrides == UNION {[G -> Severity \cup {Ignore}] : G \in SUBSET Glob}

Config == [Rule -> [severity : Severity \cup {Unset}, overrides : Overrides]]

Args == [baseline : BOOLEAN, fail_on : Severity \cup {Unset},
         owasp : SUBSET Tag, cwe : SUBSET Tag]

ASSUME Defects ==
  /\ FileOf \in [Defect -> File] /\ RuleOf \in [Defect -> Rule]
  /\ DefaultOf \in [Defect -> Severity]
  /\ OwaspOf \in [Defect -> SUBSET Tag] /\ CweOf \in [Defect -> SUBSET Tag]
  /\ ProjectLevel \subseteq Defect

ASSUME Configuration ==
  /\ Severity \subseteq Nat /\ {Ignore, Unset} \cap Severity = {}
  /\ Glob \subseteq Nat /\ IsFiniteSet(Glob) /\ Compiles \subseteq Glob
  /\ Matches \in [Glob -> SUBSET File]
  /\ Configs \subseteq Config

ASSUME Positions ==
  /\ Line \subseteq Nat \ {0} /\ Offset \subseteq Nat /\ 0 \in Offset
  /\ Absent \notin Place
  /\ MaxEdits \in Nat /\ MaxRuns \in Nat

-----------------------------------------------------------------------------
(* The engine: suppression and overrides.                                  *)

Suppressed(d) ==
  \E s \in allow :
    /\ s.file = FileOf[d] /\ s.rule = RuleOf[d]
    /\ \/ s.file_scoped
       \/ s.line = place[d].line
       \/ s.line + 1 = place[d].line

Least(S) == CHOOSE g \in S : \A h \in S : g <= h

\* The index of g in a sorted vector, and the element at an index.
Index(S, g) == Cardinality({h \in S : h < g})
Nth(S, i)   == CHOOSE g \in S : Index(S, g) = i

Matching(overrides, file) ==
  {g \in DOMAIN overrides \cap Compiles : file \in Matches[g]}

\* Mutant: the last match wins.
OverrideLast(overrides, file) ==
  LET last == CHOOSE g \in Matching(overrides, file) :
                \A h \in Matching(overrides, file) : h <= g
  IN  overrides[Nth(DOMAIN overrides, Index(DOMAIN overrides \cap Compiles, last))]

\* The GlobSet numbers the patterns that compile; the number is then used as an
\* index into all of them.
Override(overrides, file) ==
  LET first == Least(Matching(overrides, file))
  IN  overrides[Nth(DOMAIN overrides, Index(DOMAIN overrides \cap Compiles, first))]

\* apply_per_glob_overrides: the severity the run gives to a defect, or Ignore.
SeverityOf(d) ==
  LET rule == config[RuleOf[d]]
  IN  IF Matching(rule.overrides, FileOf[d]) # {}
        THEN Override(rule.overrides, FileOf[d])
      ELSE IF rule.severity # Unset THEN rule.severity
      ELSE DefaultOf[d]

FindingOf(d) ==
  [defect |-> d, line |-> place[d].line, start |-> place[d].start,
   severity |-> SeverityOf(d)]

Found == {d \in Defect : place[d] # Absent}

Report ==
  {FindingOf(d) : d \in {e \in Found : ~Suppressed(e) /\ SeverityOf(e) # Ignore}}

-----------------------------------------------------------------------------
(* The command line: baseline, filters, exit code.                         *)

\* Mutant: the offset left out.
KeyNoOffset(f) == <<FileOf[f.defect], RuleOf[f.defect]>>

\* Mutant: the severity added.
KeySeverity(f) == <<FileOf[f.defect], RuleOf[f.defect], f.start, f.severity>>

BaselineKey(f) == <<FileOf[f.defect], RuleOf[f.defect], f.start>>

\* Kept by the allow-lists; an empty one keeps everything.
Tagged(f) ==
  /\ args.owasp = {} \/ OwaspOf[f.defect] \cap args.owasp # {}
  /\ args.cwe = {} \/ CweOf[f.defect] \cap args.cwe # {}

Remaining ==
  LET known == IF args.baseline THEN {BaselineKey(f) : f \in baseline} ELSE {}
  IN  {f \in report : BaselineKey(f) \notin known /\ Tagged(f)}

Fails(findings) ==
  args.fail_on # Unset /\ \E f \in findings : f.severity >= args.fail_on

-----------------------------------------------------------------------------

NoArgs == [baseline |-> FALSE, fail_on |-> Unset, owasp |-> {}, cwe |-> {}]

\* Where a defect can be; offsets grow with lines.
Possible(pl) ==
  /\ \A d \in Defect : pl[d] # Absent =>
       IF d \in ProjectLevel THEN pl[d] = [line |-> 1, start |-> 0]
                             ELSE pl[d].start + 1 >= pl[d].line
  /\ \A d, e \in {x \in Defect \ ProjectLevel : pl[x] # Absent} :
       FileOf[d] = FileOf[e] /\ pl[d].line < pl[e].line => pl[d].start < pl[e].start

\* Any tree.
Init ==
  /\ place \in {pl \in [Defect -> Place \cup {Absent}] : Possible(pl)}
  /\ allow = {}
  /\ config \in Configs
  /\ baseline = NoFile
  /\ saver = "idle" /\ saved = {}
  /\ gate = "idle" /\ args = NoArgs /\ report = {} /\ exit = 0
  /\ edits = 0 /\ runs = 0

\* Whoever edits.
Edit ==
  /\ edits < MaxEdits
  /\ edits' = edits + 1
  /\ UNCHANGED <<baseline, save, check, runs>>

Introduce(d) ==
  /\ Edit
  /\ place[d] = Absent
  /\ \E p \in Place : place' = [place EXCEPT ![d] = p]
  /\ Possible(place')
  /\ UNCHANGED <<allow, config>>

Fix(d) ==
  /\ Edit
  /\ place[d] # Absent
  /\ place' = [place EXCEPT ![d] = Absent]
  /\ UNCHANGED <<allow, config>>

Allow(s) ==
  /\ Edit
  /\ s \notin allow
  /\ allow' = allow \cup {s}
  /\ UNCHANGED <<place, config>>

Disallow(s) ==
  /\ Edit
  /\ s \in allow
  /\ allow' = allow \ {s}
  /\ UNCHANGED <<place, config>>

\* Whether an edit at a line of a file moves a defect.
Moves(d, file, line) ==
  /\ d \notin ProjectLevel /\ FileOf[d] = file
  /\ place[d] # Absent /\ place[d].line >= line

\* A line inserted above a line.
InsertLine(file, line) ==
  LET below(s) == s.file = file /\ s.line >= line
  IN  /\ Edit
      /\ place' = [d \in Defect |->
                     IF Moves(d, file, line)
                       THEN [line |-> place[d].line + 1, start |-> place[d].start + 1]
                       ELSE place[d]]
      /\ allow' = {IF below(s) THEN [s EXCEPT !.line = @ + 1] ELSE s : s \in allow}
      /\ place' \in [Defect -> Place \cup {Absent}] /\ allow' \subseteq Directive
      /\ UNCHANGED config

\* A line grown by some bytes: what is on later lines keeps its line.
GrowLine(file, line) ==
  /\ Edit
  /\ place' = [d \in Defect |->
                 IF Moves(d, file, line + 1)
                   THEN [place[d] EXCEPT !.start = @ + 1] ELSE place[d]]
  /\ place' \in [Defect -> Place \cup {Absent}]
  /\ UNCHANGED <<allow, config>>

EditConfig(k) ==
  /\ Edit
  /\ config' = k
  /\ UNCHANGED tree

\* baseline save analyses the tree and writes the file in place: fs::write
\* truncates it first (whatever happens between the analysis and that may as
\* well happen before it) ...
SaveBaseline ==
  /\ saver = "idle" /\ runs < MaxRuns
  /\ saver' = "write"
  /\ saved' = Report
  /\ baseline' = Torn
  /\ runs' = runs + 1
  /\ UNCHANGED <<tree, config, check, edits>>

\* ... and then fills it, unless the process dies before.
WriteBaseline ==
  /\ saver = "write"
  /\ saver' = "idle"
  /\ \/ baseline' = saved
     \/ UNCHANGED baseline
  /\ saved' = {}
  /\ UNCHANGED <<tree, config, check, edits, runs>>

\* analyze: the engine's report ...
Analyze(a) ==
  /\ gate = "idle" /\ runs < MaxRuns
  /\ gate' = "judge"
  /\ args' = a
  /\ report' = Report
  /\ exit' = 0
  /\ runs' = runs + 1
  /\ UNCHANGED <<tree, config, baseline, save, edits>>

\* ... and then the baseline as it is by now; 2 if it cannot be read.
Judge ==
  /\ gate = "judge"
  /\ gate' = "idle"
  /\ exit' = IF args.baseline /\ baseline \in {NoFile, Torn} THEN 2
             ELSE IF Fails(Remaining) THEN 1 ELSE 0
  /\ args' = NoArgs /\ report' = {}
  /\ UNCHANGED <<tree, config, baseline, save, edits, runs>>

Next ==
  \/ \E d \in Defect : Introduce(d) \/ Fix(d)
  \/ \E s \in Directive : Allow(s) \/ Disallow(s)
  \/ \E file \in File, line \in Line : InsertLine(file, line) \/ GrowLine(file, line)
  \/ \E k \in Configs : EditConfig(k)
  \/ SaveBaseline \/ WriteBaseline
  \/ \E a \in Args : Analyze(a)
  \/ Judge

Spec == Init /\ [][Next]_vars

-----------------------------------------------------------------------------

TypeOK ==
  /\ place \in [Defect -> Place \cup {Absent}]
  /\ allow \subseteq Directive
  /\ config \in Configs
  /\ baseline \in {NoFile, Torn} \/ baseline \subseteq Finding
  /\ saver \in {"idle", "write"} /\ saved \subseteq Finding
  /\ gate \in {"idle", "judge"} /\ args \in Args /\ report \subseteq Finding
  /\ exit \in 0 .. 2
  /\ edits \in 0 .. MaxEdits /\ runs \in 0 .. MaxRuns

Concerns(f) == args.fail_on # Unset /\ f.severity >= args.fail_on /\ Tagged(f)

\* The gate with a baseline fails only because of a defect that the baseline
\* does not hold at its offset: one that is new, that an edit has moved, or that
\* was suppressed or ignored when the baseline was saved.  Severities changed in
\* zuit.toml, suppressions and findings above it never revive an old one.  An old
\* one that has moved does fail the gate, although the page on baselines has all
\* pre-existing findings silenced (baselines-and-fail-on.md 107).
FailsForACause ==
  [][gate = "judge" /\ gate' = "idle" /\ exit' = 1 /\ args.baseline =>
       \E f \in report :
         /\ Concerns(f)
         /\ \A b \in baseline : b.defect = f.defect => b.start # f.start]_vars

\* The gate passes only if everything in the report that concerns it was in the
\* baseline, or is masked by an entry of the same rule, file and offset, as a new
\* finding may be that takes the place of an old one (the same page has any new
\* finding fail); a baseline that is missing or torn never lets anything pass.
PassesOnlyKnown ==
  [][gate = "judge" /\ gate' = "idle" /\ exit' = 0 =>
       \A f \in report : Concerns(f) =>
         /\ args.baseline /\ baseline \notin {NoFile, Torn}
         /\ \E b \in baseline :
              FileOf[b.defect] = FileOf[f.defect] /\ RuleOf[b.defect] = RuleOf[f.defect]
                /\ b.start = f.start]_vars

\* What zuit.toml asks for, by its documentation: the first glob that matches,
\* then the rule's severity, then the default.
Asked(d) ==
  LET rule  == config[RuleOf[d]]
      first == {g \in Matching(rule.overrides, FileOf[d]) :
                  \A h \in Matching(rule.overrides, FileOf[d]) : g <= h}
  IN  IF first # {} THEN CHOOSE o \in {rule.overrides[g] : g \in first} : TRUE
      ELSE IF rule.severity = Unset THEN DefaultOf[d] ELSE rule.severity

AsAsked(findings) ==
  \A d \in Found : ~Suppressed(d) =>
    {f.severity : f \in {g \in findings : g.defect = d}} = {Asked(d)} \ {Ignore}

\* A rule's globs that do not compile come last, if there are any.
BadGlobsLast ==
  \A r \in Rule : \A g, h \in DOMAIN config[r].overrides :
    g \in Compiles /\ h \notin Compiles => g < h

\* As long as no invalid glob sorts before a valid one, every run reports each
\* unsuppressed defect with the severity zuit.toml asks for, or not at all if it
\* asks to ignore it.
OverridesAsAsked == BadGlobsLast => AsAsked(Report)

\* config.rs:242 says "First matching glob wins."
FirstMatchingGlobWins == AsAsked(Report)
=============================================================================
