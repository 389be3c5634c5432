------------------------------- MODULE MCHeap -------------------------------
(***************************************************************************)
(* Heap on a small instance: three owners, granule and header of two bytes *)
(* in a heap whose first byte is not aligned and whose last block is not a *)
(* multiple of the granule, sizes that are zero, below, at and above a     *)
(* granule, and one that only an empty heap can serve.                     *)
(***************************************************************************)
EXTENDS Heap, TLC

OwnersAlike == Permutations(Owner)
=============================================================================
