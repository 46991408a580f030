---------------------------- MODULE MCExecService ----------------------------
EXTENDS ExecService, TLC

Symmetry == Permutations(Execs) \cup Permutations(Readers)
==============================================================================
