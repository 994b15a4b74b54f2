------------------------------ MODULE Analytics -------------------------------
(***************************************************************************)
(* What the dashboard computes from stored scans (zuit-show, analytics.rs):*)
(* the analytics of one scan, which are kept in a sidecar, and the diff,   *)
(* trends, summary and heatmap of several.  The last three exist twice in  *)
(* the code: over whole envelopes, and over the sidecars that the server   *)
(* reads instead.                                                          *)
(*                                                                         *)
(* Paths are numbers, in their order as strings.  Dimensions, CWE and OWASP*)
(* counts are tallied as severities are, and top rules and files as files  *)
(* are; all of them are left out.                                          *)
(***************************************************************************)
EXTENDS Integers, Sequences, FiniteSets, FiniteSetsExt, SequencesExt, Functions

CONSTANTS
  Dimension,   \* the dimensions that have a score
  Compared,    \* those of them that the summary compares
  Limit        \* length of the heatmap

ASSUME Compares == Compared \subseteq Dimension /\ Limit \in Nat

Severity == {"info", "low", "medium", "high", "critical"}

severity_weight ==
  [info |-> 1, low |-> 2, medium |-> 5, high |-> 10, critical |-> 20]

\* The path of a finding that is about no file.
Nowhere == 0

Finding ==
  [file : Nat, line : Nat, rule : STRING, message : STRING, severity : Severity]

\* The version of a sidecar that the code writes.
ANALYTICS_VERSION == 2

\* What sidecars did not always have, and what it is read as where it is missing:
\* the version, the counts and weights per file, and the failures, as all of the
\* statistics of a scan.
Absent == [version |-> 1, counts |-> <<>>, weighted |-> <<>>, failures |-> 0]

\* The format of a sidecar is the set of those fields that it has.
Current == DOMAIN Absent

-----------------------------------------------------------------------------
(* One scan.                                                               *)

Places(findings, file) == {i \in DOMAIN findings : findings[i].file = file}

Files(findings) == {findings[i].file : i \in DOMAIN findings} \ {Nowhere}

SumOf(f) == MapThenSumSet(LAMBDA i : f[i], DOMAIN f)

\* How many of these findings each file has, and what they weigh together.
Counts(findings) ==
  [f \in Files(findings) |-> Cardinality(Places(findings, f))]

Weights(findings) ==
  [f \in Files(findings) |->
     SumOf([i \in Places(findings, f) |-> severity_weight[findings[i].severity]])]

SeverityCounts(findings) ==
  [v \in {findings[i].severity : i \in DOMAIN findings} |->
     Cardinality({i \in DOMAIN findings : findings[i].severity = v})]

compute_scan_analytics(scan, report) ==
  [version  |-> ANALYTICS_VERSION,
   scan_id  |-> scan,
   total    |-> Len(report.findings),
   severity |-> SeverityCounts(report.findings),
   counts   |-> Counts(report.findings),
   weighted |-> Weights(report.findings),
   scores   |-> report.scores,
   failures |-> report.failures]

\* What a sidecar with these analytics in that format is read as.
Deserialised(format, analytics) ==
  [f \in DOMAIN analytics |->
     IF f \in Current \ format THEN Absent[f] ELSE analytics[f]]

-----------------------------------------------------------------------------
(* Two scans.  An entry is a scan id with its report; a map from           *)
(* fingerprints keeps the last finding that has one.                       *)

\* Mutant: the message, which holds counts and names, left out.
fingerprintNoMessage(finding) == <<finding.file, finding.line, finding.rule>>

fingerprint(finding) ==
  <<finding.file, finding.line, finding.rule, finding.message>>

ByFingerprint(findings) ==
  LET same(p) == {i \in DOMAIN findings : fingerprint(findings[i]) = p}
  IN  [p \in {fingerprint(findings[i]) : i \in DOMAIN findings} |->
         findings[Max(same(p))]]

compute_scan_diff(from, to) ==
  LET old == ByFingerprint(from.report.findings)
      cur == ByFingerprint(to.report.findings)
  IN  [new        |-> Restrict(cur, DOMAIN cur \ DOMAIN old),
       resolved   |-> Restrict(old, DOMAIN old \ DOMAIN cur),
       persisting |-> Restrict(cur, DOMAIN cur \cap DOMAIN old)]

-----------------------------------------------------------------------------
(* Several scans, the oldest first.                                        *)

Or0(f, x) == IF x \in DOMAIN f THEN f[x] ELSE 0

\* The latest scan against the one before it.
Delta(prev, latest) ==
  [previous |-> prev.scan_id,
   scores   |-> [d \in Compared |-> Or0(latest.scores, d) - Or0(prev.scores, d)],
   total    |-> latest.total - prev.total,
   severity |-> [v \in DOMAIN prev.severity \cup DOMAIN latest.severity |->
                   Or0(latest.severity, v) - Or0(prev.severity, v)]]

SummaryOf(analytics, failures) ==
  [scans    |-> Len(analytics),
   latest   |-> IF analytics = <<>> THEN <<>> ELSE <<Last(analytics)>>,
   delta    |-> IF Len(analytics) < 2 THEN <<>>
                ELSE <<Delta(analytics[Len(analytics) - 1], Last(analytics))>>,
   failures |-> failures]

compute_project_summary(entries) ==
  SummaryOf([i \in DOMAIN entries |->
               compute_scan_analytics(entries[i].scan_id, entries[i].report)],
            SumOf([i \in DOMAIN entries |-> entries[i].report.failures]))

compute_project_summary_from_analytics(analytics) ==
  SummaryOf(analytics,
            SumOf([i \in DOMAIN analytics |-> analytics[i].failures]))

compute_trends(entries) ==
  [i \in DOMAIN entries |->
     [scan_id  |-> entries[i].scan_id,
      scores   |-> entries[i].report.scores,
      severity |-> SeverityCounts(entries[i].report.findings),
      total    |-> Len(entries[i].report.findings),
      failures |-> entries[i].report.failures]]

compute_trends_from_analytics(analytics) ==
  [i \in DOMAIN analytics |->
     [scan_id  |-> analytics[i].scan_id,
      scores   |-> analytics[i].scores,
      severity |-> analytics[i].severity,
      total    |-> analytics[i].total,
      failures |-> analytics[i].failures]]

\* The heaviest paths, equal ones in the order of their names.
Hottest(rows) ==
  LET hotter(a, b) ==
        a.weight > b.weight \/ (a.weight = b.weight /\ a.path < b.path)
      sorted == SetToSortSeq(rows, hotter)
  IN  SubSeq(sorted, 1, Min({Limit, Len(sorted)}))

\* The row of a path that has count[i] findings, of weight[i], in scan i.
Row(path, scans, count, weight) ==
  [path    |-> path,
   total   |-> SumOf(count),
   weight  |-> SumOf(weight),
   perScan |-> count,
   peak    |-> Max({count[i] : i \in DOMAIN scans}),
   last    |-> scans[Max({i \in DOMAIN scans : count[i] > 0})]]

compute_heatmap(entries) ==
  LET findings(i) == entries[i].report.findings
  IN  Hottest({Row(f, [i \in DOMAIN entries |-> entries[i].scan_id],
                   [i \in DOMAIN entries |-> Or0(Counts(findings(i)), f)],
                   [i \in DOMAIN entries |-> Or0(Weights(findings(i)), f)]) :
                 f \in UNION {Files(findings(i)) : i \in DOMAIN entries}})

compute_heatmap_from_analytics(analytics) ==
  Hottest({Row(f, [i \in DOMAIN analytics |-> analytics[i].scan_id],
               [i \in DOMAIN analytics |-> Or0(analytics[i].counts, f)],
               [i \in DOMAIN analytics |-> Or0(analytics[i].weighted, f)]) :
             f \in UNION {DOMAIN analytics[i].counts : i \in DOMAIN analytics}})
=============================================================================
