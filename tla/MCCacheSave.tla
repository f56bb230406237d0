------------------------------ MODULE MCCacheSave ------------------------------
(* Contexts, contents and inodes are interchangeable.                          *)
EXTENDS CacheSave, TLC

Symmetry ==
    Permutations(Contexts) \cup Permutations(Versions) \cup Permutations(Inodes)
=============================================================================
