------------------------------ MODULE MCDaemon ------------------------------
(* Small instances of Daemon for TLC.  A pid, a port or a version is only  *)
(* ever compared with another one.                                         *)
EXTENDS Daemon, TLC

Symmetry == Permutations(Cmd) \cup Permutations(Pid) \cup Permutations(Port)
              \cup Permutations(Version)
=============================================================================
