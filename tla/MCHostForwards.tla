---------------------------- MODULE MCHostForwards ----------------------------
(* HostForwards with two rules and two stages. *)
EXTENDS HostForwards, TLC
CONSTANTS r1, r2

Stages == {"entry", "single"}
Rules == Permutations({r1, r2})
=============================================================================
