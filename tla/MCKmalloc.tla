----------------------------- MODULE MCKmalloc -----------------------------
(* A heap of a few blocks at the real header sizes and alignments.         *)
EXTENDS Kmalloc, TLC

CONSTANTS c1, c2, c3
MCClients == {c1, c2, c3}
ASSUME RequestsBounded
Symmetry == Permutations(MCClients)
=============================================================================
