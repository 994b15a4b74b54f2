---- MODULE MCPluginStore ----
EXTENDS PluginStore, TLC
CONSTANTS w1, w2, l1, a, b, g, p
MCManifest == g :> b @@ p :> a
MCSlug == g :> a
Symmetry == Permutations(Writer)
====
