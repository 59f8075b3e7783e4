-------------------------- MODULE MCEpisodicMemory --------------------------
(* Small memories for TLC. *)
EXTENDS EpisodicMemory, TLC

CONSTANTS p, q, r, m1, m2, m3

Alike == Permutations(Callers) \union Permutations(Messages)
=============================================================================
