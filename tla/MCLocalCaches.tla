---------------------------- MODULE MCLocalCaches ----------------------------
EXTENDS LocalCaches, TLC

Symmetry == Permutations(Blocks) \cup Permutations(Allocators) \cup Permutations(Threads)

=============================================================================
