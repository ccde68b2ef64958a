---------------------------- MODULE MCPooledLoop ----------------------------
(***************************************************************************)
(* PooledLoop for TLC: three blocks and four clients, so that the pool     *)
(* runs out, blocks are freed in another order than they were allocated,   *)
(* and a block is used again.                                              *)
(***************************************************************************)
EXTENDS PooledLoop
=============================================================================
