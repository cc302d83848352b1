----------------------------- MODULE LpRewards -----------------------------
(***************************************************************************)
(* test_amm::lp_rewards as a state machine: the reward accounting of the   *)
(* liquidity providers, and the balance of the vault that backs it.        *)
(*                                                                         *)
(* The module's functions are public(package), their only caller is pool,  *)
(* and module Pool composes them as pool does.  Here the caller is the     *)
(* environment: it may call any function at any time, in particular route  *)
(* a reward to an epoch without shares, the case receive_routed_reward     *)
(* keeps a branch for.  What holds here does not rest on pool's checks.    *)
(*                                                                         *)
(* An action takes the vault's movement of the same transaction with it: a *)
(* reward is in the vault before it is booked, a claim leaves the vault.   *)
(***************************************************************************)
EXTENDS LpEpoch

CONSTANTS MaxShares, MaxReceived   \* bounds, to keep the model finite

ASSUME LpBoundsAssumption == MaxShares \in Nat /\ MaxReceived \in Nat

VARIABLES
  epoch,   \* LpEpochRegistry.epochs[1]; active_epoch is 0 when claim-only
  vault    \* raw balance of the epoch's reward_vault

vars == <<epoch, vault>>

TypeOK == epoch \in Epoch /\ vault \in Nat

Init == epoch = new_epoch /\ vault = 0

receive(amount) ==
  /\ assert_active_mutation(epoch)
  /\ epoch.lifetime_received + amount <= MaxReceived
  /\ vault' = vault + amount
  /\ epoch' = receive_routed_reward(epoch, amount, vault')

mint(o, amount) ==
  /\ mint_succeeds(epoch)
  /\ epoch.total_shares + amount <= MaxShares
  /\ epoch' = mint_active(epoch, o, amount)
  /\ UNCHANGED vault

burn(o, amount) ==
  /\ burn_succeeds(epoch, o, amount)
  /\ epoch' = burn_active(epoch, o, amount, vault)
  /\ UNCHANGED vault

transfer(from, to, amount) ==
  /\ transfer_succeeds(epoch, from, to, amount)
  /\ epoch' = transfer_active(epoch, from, to, amount, vault)
  /\ UNCHANGED vault

claim(o, amount) ==
  /\ claim_succeeds(epoch, o, amount)
  /\ epoch' = prepare_claim(epoch, o, amount)
  /\ vault' = vault - amount

mark_claim_only ==
  /\ claim_only_succeeds(epoch, vault)
  /\ epoch' = mark_active_claim_only(epoch, vault)
  /\ UNCHANGED vault

Next ==
  \/ \E amount \in 1 .. MaxReceived : receive(amount)
  \/ \E o \in Owners :
       \/ \E amount \in 1 .. MaxShares : mint(o, amount) \/ burn(o, amount)
       \/ \E amount \in 1 .. MaxReceived : claim(o, amount)
       \/ \E to \in Owners, amount \in 1 .. MaxShares : transfer(o, to, amount)
  \/ mark_claim_only

Spec == Init /\ [][Next]_vars

-----------------------------------------------------------------------------
(* Properties *)

\* The epoch's books are consistent after any sequence of calls.
\* assert_epoch_backing never fails: the vault is liability, unallocated
\* rewards and rounding reserve to the unit, though only receipts and exits
\* recompute the reserve.  Accrued entitlements, the carried remainder and the
\* fractions leavers gave up are the routed receipts, scaled, so no call
\* creates or loses a fraction of a unit; nobody was paid more than accrued.
\* Only an epoch without shares is quarantined or ends.
Inv ==
  /\ TypeOK
  /\ epoch_backing(epoch, vault)
  /\ positions_match(epoch)
  /\ receipts_conserved(epoch)
  /\ never_overpaid(epoch)
  /\ exits_settled(epoch)
  /\ ended_without_shares(epoch)

\* Every provider can be paid at once: nobody's pending reward is negative
\* (pending_for's checked_subtract aborts nothing) and the vault covers all of
\* them next to the unallocated rewards.
LpSolvent ==
  /\ \A o \in Owners : magnified(epoch, o) >= 0 /\ pending_for(epoch, o) >= 0
  /\ total([o \in Owners |-> pending_for(epoch, o)]) + epoch.unallocated_rewards
       <= vault

\* The rounding of exits locks nobody in.  E_INVALID_POSITION_RESIDUE: whoever
\* was paid the whole rewards may always burn the last share, and a position
\* that did keeps no claim.  E_EPOCH_TERMINAL_ACCOUNTING: once the last share
\* is gone nobody is owed anything and mark_active_claim_only succeeds, unless
\* a receipt without shares quarantined the epoch.
LeaversMayLeave ==
  /\ exits_settled(epoch)
  /\ \A o \in Owners :
       assert_active_epoch_healthy(epoch) /\ epoch.shares[o] > 0
           /\ pending_for(epoch, o) = 0 =>
         burn_succeeds(epoch, o, epoch.shares[o])
  /\ epoch.status = STATUS_ACTIVE /\ epoch.total_shares = 0 /\ ~epoch.quarantined =>
       /\ claim_only_succeeds(epoch, vault)
       /\ \A o \in Owners : pending_for(epoch, o) = 0

MinOf(x, y) == IF x <= y THEN x ELSE y

\* Rewards follow the shares that were there: a receipt credits a provider in
\* proportion to shares held before and after it, and minting, burning and
\* transferring move no entitlement, so new shares carry no history.  In an
\* epoch that was quarantined or became claim-only nothing moves any more.
EarnedOnHeldShares ==
  /\ \A o \in Owners :
       magnified(epoch', o) - magnified(epoch, o)
         <= MinOf(epoch.shares[o], epoch'.shares[o]) * (epoch'.index - epoch.index)
  /\ ~assert_active_mutation(epoch) => UNCHANGED vars

EarnsOnHeldShares == [][EarnedOnHeldShares]_vars
=============================================================================
