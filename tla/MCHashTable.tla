---------------------------- MODULE MCHashTable -----------------------------
(***************************************************************************)
(* Hash functions for the runs of the hash table: with few enough values   *)
(* that any two keys may collide, or probe into each other's slots.        *)
(***************************************************************************)
EXTENDS HashProofs

CONSTANT MaxHash

Colliding == [Keys -> 0 .. MaxHash]
=============================================================================
