------------------------------- MODULE MCGate -------------------------------
(* A small instance of Gate for TLC: a file with a located defect and a    *)
(* defect of the project, of the same rule; of three globs, which match    *)
(* the file, the second does not compile.                                  *)
EXTENDS Gate, TLC

CONSTANTS located, project, rl, fl

MCDefect == {located, project}
MCFileOf == [d \in MCDefect |-> fl]
MCRuleOf == [d \in MCDefect |-> rl]
MCDefaultOf == [d \in MCDefect |-> 1]
MCOwaspOf == (located :> {"t"}) @@ (project :> {})
MCCweOf == [d \in MCDefect |-> {"t"}]
MCGlob == 1 .. 3
MCCompiles == {1, 3}
MCMatches == [g \in MCGlob |-> {fl}]
MCOverrides ==
  {o \in UNION {[G -> {Ignore, 2}] : G \in SUBSET MCGlob} :
     2 \in DOMAIN o => o[2] = Ignore}
MCConfigs ==
  {k \in [{rl} -> [severity : {Unset, 2}, overrides : MCOverrides]] :
     k[rl].severity = Unset \/ DOMAIN k[rl].overrides \subseteq {2}}
=============================================================================
