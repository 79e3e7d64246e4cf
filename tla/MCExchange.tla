----------------------------- MODULE MCExchange -----------------------------
(***************************************************************************)
(* Every pair of a client's dialect and an upstream's, small conversations *)
(* and small replies.                                                      *)
(***************************************************************************)
EXTENDS Exchange
=============================================================================
