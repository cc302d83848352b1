---------------------------- MODULE MCSwapClient ----------------------------
(* One client, two amounts, three slippages, two transactions of others. *)
EXTENDS SwapClient
=============================================================================
