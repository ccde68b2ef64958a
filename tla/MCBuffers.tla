----------------------------- MODULE MCBuffers ------------------------------
(***************************************************************************)
(* Buffers for TLC.  The head has 14 bytes and fits a buffer of 16; with   *)
(* the page it outgrows it.  The second response to a request fits what    *)
(* the first one made of the buffer, as it does in the program, where      *)
(* BUFSIZ is 8192 and a head has some 150 bytes.                           *)
(***************************************************************************)
EXTENDS Buffers

AddrSymmetry == Permutations(Addrs)
=============================================================================
