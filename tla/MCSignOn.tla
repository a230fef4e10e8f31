------------------------------ MODULE MCSignOn ------------------------------
(***************************************************************************)
(* Instances of SignOn for TLC: one front-end whose tokens are refreshed   *)
(* and die within the clock, or two that share the page /sso.  Goroutines  *)
(* are alike, which is sound to use where only invariants are checked.     *)
(***************************************************************************)
EXTENDS SignOn, TLC

WorkersAlike == Permutations(Workers)
=============================================================================
