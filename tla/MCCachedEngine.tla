--------------------------- MODULE MCCachedEngine ---------------------------
(* Small instances of CachedEngine for TLC.                                *)
EXTENDS CachedEngine, TLC

CONSTANTS f1, f2, b1, b2, k1, k2

\* b2 is a syntax error in the language of f2; k2 excludes f2.  Findings and reports are free
\* terms: two of them are equal only if they come from equal arguments.
MCParses(f, b) == ~(f = f2 /\ b = b2)
MCFileFindings(f, b, k) == <<"findings", f, b, k>>
MCReportOf(findings, sources, k) == <<findings, sources, k>>
MCIncluded(k) == IF k = k2 THEN File \ {f2} ELSE File
MCHashBytes(b) == <<"blake3", b>>
MCHashConfig(k) == <<"blake3", k>>

\* `zuit analyze .` and `zuit analyze ./dir`, where dir holds f1.
MCScope == {File, {f1}}

\* Every run of the instance starts from one tree; the edits lead to the others.
MCInit == Init /\ config = k1 /\ disk = [f \in File |-> b1]
MCSpec == MCInit /\ [][Next]_vars

RunSymmetry == Permutations(Run)
=============================================================================
