------------------------------ MODULE MCTokens ------------------------------
(***************************************************************************)
(* An instance of Tokens for TLC: two goroutines and two connections, so   *)
(* that two refreshes may hold them all; times short enough for a token to *)
(* be issued, refreshed, superseded and dead within the clock.             *)
(***************************************************************************)
EXTENDS Tokens
=============================================================================
