---------------------------- MODULE MCCommandLine ----------------------------
EXTENDS CommandLine, TLC

\* The processes differ only by name, and no property is a liveness one.
Symmetry == Permutations(Procs)
=============================================================================
