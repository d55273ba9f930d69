--------------------------- MODULE MCProviderPort ---------------------------
(* Small instances of ProviderPort.                                        *)
EXTENDS ProviderPort, TLC

CONSTANTS p1, p2, p3, v1, v2, none, t1, t2, t3

ThreadSymmetry == Permutations(Threads)
=============================================================================
