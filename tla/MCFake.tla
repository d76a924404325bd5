--------------------------------- MODULE MCFake ---------------------------------
(* Fake for three goroutines.                                                *)
EXTENDS Fake, TLC

CONSTANTS t1, t2, t3

ThreeThreads == {t1, t2, t3}
Symmetry == Permutations(ThreeThreads)

=============================================================================
