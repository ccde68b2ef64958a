----------------------------- MODULE MCConnHeap -----------------------------
(***************************************************************************)
(* ConnHeap for TLC.  Four blocks give a heap of three levels in which one *)
(* node has two children and another has one.                              *)
(***************************************************************************)
EXTENDS ConnHeap, TLC

\* The blocks of the pool are interchangeable.
Perms == Permutations(Conns)
=============================================================================
