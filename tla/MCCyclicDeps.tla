--------------------------- MODULE MCCyclicDeps ----------------------------
(* Four files, two of which have the same name; imports of each of them by *)
(* its key, or as ../x/d.  Every graph on the four is among the inputs, and*)
(* the first file may import itself.                                       *)
EXTENDS CyclicDeps

MCPaths == <<<<"a">>, <<"b">>, <<"c", "a">>, <<"d">>>>

Key(k) == [relative |-> FALSE, key |-> k]

ImportOf(n) ==
  IF n = 4 THEN [relative |-> TRUE, key |-> <<"x", "d">>] ELSE Key(MCPaths[n])

MCInputs ==
  {[n \in 1 .. 4 |-> {ImportOf(m) : m \in f[n]}] :
     f \in {g \in [1 .. 4 -> SUBSET (1 .. 4)] : \A n \in 2 .. 4 : n \notin g[n]}}
=============================================================================
