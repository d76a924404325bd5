----------------------------- MODULE MCGaleraInit -----------------------------
(* GaleraInit on small instances.                                            *)
EXTENDS GaleraInit, TLC

CONSTANTS i1, i2, p1, p2

OneInst == {i1}
TwoInst == {i1, i2}
TwoPids == {p1, p2}

\* Processes are interchangeable.
PidSymmetry == Permutations(TwoPids)
Symmetry == PidSymmetry \cup Permutations(TwoInst)

=============================================================================
