---------------------------- MODULE MCAllocator -----------------------------
(* Allocator with interchangeable Pointers, for TLC.                       *)
EXTENDS Allocator, TLC

\* No definition of Allocator singles out a Pointer.
Handles == Permutations(Handle)
=============================================================================
