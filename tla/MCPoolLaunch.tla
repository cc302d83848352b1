---------------------------- MODULE MCPoolLaunch ----------------------------
(* The square roots of 0 .. 1200; two claimants over six seconds. *)
EXTENDS PoolLaunch
=============================================================================
