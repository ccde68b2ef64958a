------------------------------ MODULE MCMaster ------------------------------
(***************************************************************************)
(* Master for TLC: none, one or two workers, and a process id to spare.    *)
(***************************************************************************)
EXTENDS Master
=============================================================================
