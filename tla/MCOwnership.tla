---------------------------- MODULE MCOwnership -----------------------------
(***************************************************************************)
(* Ownership with a few parsers: enough for a recursive parser inside      *)
(* another one, with a child that both share.                              *)
(***************************************************************************)
EXTENDS OwnershipProofs

CONSTANT N

ObjectSet == 1 .. N
=============================================================================
