----------------------------- MODULE PoolLaunch -----------------------------
(***************************************************************************)
(* pool::launch with the two parts of it that have states of their own:    *)
(* the integer_sqrt loop that fixes the first LP shares, and the hand-over *)
(* of the faucet's capabilities, before and after which anybody may call   *)
(* the faucet.  The loop reads nothing that another transaction changes,   *)
(* so it is run through before the first of them.  It is run for every     *)
(* value up to MAX_VALUE; the deployment goes on from the one launch has.  *)
(***************************************************************************)
EXTENDS TestFaucet, IntegerSqrt

CONSTANTS INITIAL_TRFL_LIQUIDITY, INITIAL_TUSD_LIQUIDITY

ASSUME LiquidityAssumption ==
    /\ INITIAL_TRFL_LIQUIDITY \in Nat /\ INITIAL_TUSD_LIQUIDITY \in Nat
    /\ INITIAL_TRFL_LIQUIDITY * INITIAL_TUSD_LIQUIDITY \in 1 .. MAX_VALUE

launchVars == <<faucetVars, sqrtVars>>

LaunchInit == Init /\ SqrtInit

\* initial_lp_shares of the launch has returned, and launch accepts it.
shares_computed ==
    /\ returned
    /\ value = INITIAL_TRFL_LIQUIDITY * INITIAL_TUSD_LIQUIDITY
    /\ current > 0

Loop == SqrtStep /\ UNCHANGED faucetVars

Deployment == shares_computed /\ Next /\ UNCHANGED sqrtVars

LaunchNext == Loop \/ Deployment

\* The loop is sequential code: it runs until it returns.
LaunchSpec == LaunchInit /\ [][LaunchNext]_launchVars /\ WF_launchVars(Loop)
=============================================================================
