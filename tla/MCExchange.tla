----------------------------- MODULE MCExchange -----------------------------
(***************************************************************************)
(* Exchange for TLC: a file of two units, an error page and a send queue   *)
(* small enough to fill, a body that takes two tokens.                     *)
(***************************************************************************)
EXTENDS Exchange

=============================================================================
