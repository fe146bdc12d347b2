----------------------------- MODULE MCFreeList -----------------------------
(***************************************************************************)
(* Instances of FreeList for TLC.                                          *)
(***************************************************************************)
EXTENDS FreeList, TLC

Symmetry == Permutations(Threads) \cup Permutations(Blocks)

(* FreeList promises nothing of what comes after a torn list.              *)
Intact == ~torn

=============================================================================
