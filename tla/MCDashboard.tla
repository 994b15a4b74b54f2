---------------------------- MODULE MCDashboard ----------------------------
(* A small instance of Dashboard for TLC: findings of one rule in two      *)
(* files and in none, of which the first scan's weigh most in one file and *)
(* are most in the other.  An older version wrote sidecars with the counts *)
(* per file, and neither version nor weights nor failures.                 *)
EXTENDS Dashboard

Of(f, l, m, v) ==
  [file |-> f, line |-> l, rule |-> "r", message |-> m, severity |-> v]

MCOldFormat == {{"counts"}}

MCReport ==
  {[findings |-> <<Of(1, 1, "m", "high"), Of(2, 1, "m", "low"),
                   Of(2, 1, "n", "low")>>,
    scores |-> [d1 |-> 80], failures |-> 1],
   [findings |-> <<Of(1, 1, "m", "low"), Of(0, 1, "m", "info")>>,
    scores |-> [d1 |-> 90, d2 |-> 70], failures |-> 0]}
=============================================================================
