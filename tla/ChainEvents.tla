---------------------------- MODULE ChainEvents ----------------------------
(***************************************************************************)
(* The events each entry function of the pool, the token and the faucet    *)
(* emits, in order, with the values the accounting has when it emits them. *)
(* Every operator names the function of module Pool or ReflectionLedger it *)
(* accompanies and takes the books as they are when that function starts.  *)
(* An event is [tag, data], the Move struct and its fields; fields that    *)
(* only name a store, an operator or a kind are left out.                  *)
(***************************************************************************)
EXTENDS Pool, Sequences

\* The two vaults and stores the events name.
LP_REWARD_VAULT == "lp_reward_vault"
RFL_RESERVE == "rfl_reserve"
USD_RESERVE == "usd_reserve_store"

Event(tag, data) == <<[tag |-> tag, data |-> data]>>
OnlyIf(condition, events) == IF condition THEN events ELSE << >>

-----------------------------------------------------------------------------
(* reflection_core *)

\* ensure_registered and ensure_position: both speak once per account.
registered_events(b, a) ==
  OnlyIf(a \notin b.registered,
         Event("WalletRegistered",
               [account |-> a, registered_wallet_count |-> Cardinality(b.registered) + 1]))

position_events(b, a) ==
  OnlyIf(a \notin b.registered, Event("PositionCreated", [account |-> a]))

\* materialize_to_store says nothing when nothing is pending.
materialized_events(l, a) ==
  OnlyIf(claimable_for_store(l, a) > 0,
         Event("RewardsMaterialized",
               [account |-> a, amount |-> claimable_for_store(l, a),
                total_claimed |-> l.claimed[a] + claimable_for_store(l, a)]))

\* advance_index, with the shares that share the fee; without any the fee is
\* kept aside and no index event follows.
fee_events(l, gross) ==
  LET fee == fee_for(l, gross)
      after == collect_fee(l, fee)
  IN  OnlyIf(fee > 0,
        Event("ReflectionFeeCollected",
              [gross_amount |-> gross, fee_amount |-> fee, fee_bps |-> l.fee_bps])
        \o OnlyIf(l.total_shares > 0,
             Event("ReflectionIndexAdvanced",
                   [old_index |-> l.index, new_index |-> after.index,
                    remainder |-> after.index_remainder, fee_amount |-> fee,
                    eligible_supply |-> l.total_shares])))

\* Emitted after the wallet and the reserve have both moved.
custody_events(after, added, amount) ==
  Event("CustodySharesChanged",
        [added |-> added, amount |-> amount, custody_shares |-> after.custody_shares,
         global_shares |-> after.total_shares])

settle_sell_events(b, seller, gross) ==
  LET l == b.core
      fee == fee_for(l, gross)
      sold_l == debit_wallet(materialize_all_to_store(l, seller), seller, gross)
  IN  materialized_events(l, seller)
        \o fee_events(sold_l, gross)
        \o materialized_events(collect_fee(sold_l, fee), seller)
        \o custody_events(settle_sell(l, seller, gross), TRUE, gross - fee)

settle_buy_events(b, buyer, gross) ==
  LET l == b.core
      fee == fee_for(l, gross)
      taken == debit_pool(materialize_all_to_store(l, buyer), gross)
  IN  registered_events(b, buyer)
        \o materialized_events(l, buyer)
        \o custody_events(taken, FALSE, gross)
        \o fee_events(taken, gross)
        \o materialized_events(collect_fee(taken, fee), buyer)
        \o position_events(b, buyer)

move_wallet_to_custody_events(b, provider, amount) ==
  materialized_events(b.core, provider)
    \o custody_events(wallet_to_custody(b.core, provider, amount), TRUE, amount)

move_custody_to_wallet_events(b, recipient, amount) ==
  LET taken == debit_pool(materialize_all_to_store(b.core, recipient), amount)
  IN  registered_events(b, recipient)
        \o materialized_events(b.core, recipient)
        \o custody_events(taken, FALSE, amount)
        \o position_events(b, recipient)

payout_lp_reward_events(b, claimant) ==
  registered_events(b, claimant)
    \o materialized_events(b.core, claimant)
    \o position_events(b, claimant)

-----------------------------------------------------------------------------
(* test_amm::lp_rewards, and the pool's functions that lead to it *)

\* route_custody_rewards, then receive_routed_reward.
checkpoint_events(b) ==
  LET amount == custody_pending_for_store(b.core)
      after == checkpoint_active(b)
  IN  OnlyIf(amount > 0,
        Event("CustodyRewardsRouted",
              [lp_reward_vault |-> LP_REWARD_VAULT, epoch |-> 1, amount |-> amount,
               total_routed |-> after.core.pool_claimed])
        \o Event("LpRewardIndexAdvanced",
                 [epoch |-> 1, old_index |-> b.lp.index, new_index |-> after.lp.index,
                  remainder |-> after.lp.index_remainder, received |-> amount,
                  total_shares |-> b.lp.total_shares,
                  rounding_reserve |-> after.lp.rounding_reserve]))

\* prepare_claim speaks before the payment registers the owner.
pay_lp_claim_events(b, owner, amount) ==
  Event("LpRewardsClaimed",
        [epoch |-> 1, owner |-> owner, amount |-> amount,
         total_claimed |-> b.lp.claimed[owner] + amount])
    \o payout_lp_reward_events(b, owner)

materialize_lp_events(b, owner) ==
  LET amount == Lp!pending_for(b.lp, owner)
  IN  OnlyIf(amount > 0, pay_lp_claim_events(b, owner, amount))

\* Checkpoint and settlement of one provider, as in settled_for.
settled_events(provider) == checkpoint_events(books) \o materialize_lp_events(checked, provider)

shares_events(after, owner, added, amount) ==
  Event("LpSharesChanged",
        [epoch |-> 1, owner |-> owner, added |-> added, amount |-> amount,
         owner_shares |-> after.shares[owner], total_shares |-> after.total_shares])

\* normalize_zero_position, where it retires anything.
residue_events(before, after, owner) ==
  LET retired == after.retired_residue_magnified - before.retired_residue_magnified
  IN  OnlyIf(retired > 0,
        Event("LpFractionalResidueRetired",
              [epoch |-> 1, owner |-> owner, residue_magnified |-> retired,
               cumulative_retired_residue_magnified |-> after.retired_residue_magnified,
               rounding_reserve_base_units |-> after.rounding_reserve]))

-----------------------------------------------------------------------------
(* test_amm::pool *)

liquidity_event(tag, provider, rfl, usd_amount, shares, reserve_rfl, reserve_usd, final) ==
  Event(tag, [epoch |-> 1, provider |-> provider, rfl_amount |-> rfl,
              usd_amount |-> usd_amount, lp_shares |-> shares, final_exit |-> final,
              reserve_rfl |-> reserve_rfl, reserve_usd |-> reserve_usd])

add_liquidity_events(provider, max_rfl, max_usd) ==
  LET settled == settled_for(provider)
      minted == Reserves!liquidity_mint(max_rfl, max_usd, settled.core.pool_store,
                                        usd_reserve, settled.lp.total_shares)
  IN  settled_events(provider)
        \o move_wallet_to_custody_events(settled, provider, minted.rfl_used)
        \o shares_events(Lp!mint_active(settled.lp, provider, minted.shares),
                         provider, TRUE, minted.shares)
        \o liquidity_event("LiquidityAdded", provider, minted.rfl_used, minted.usd_used,
                           minted.shares, settled.core.pool_store + minted.rfl_used,
                           usd_reserve + minted.usd_used, FALSE)

\* mark_active_claim_only, close_pool and the pool's own end.
final_exit_events(removed) ==
  LET ended == final_exit(removed).lp
  IN  Event("LpEpochStatusChanged", [epoch |-> 1, old_status |-> Lp!STATUS_ACTIVE,
                                     new_status |-> Lp!STATUS_CLAIM_ONLY])
        \o Event("LpEpochTerminalDustClassified",
                 [epoch |-> 1, reward_vault |-> LP_REWARD_VAULT,
                  terminal_rounding_base_units |-> ended.terminal_rounding_reserve,
                  retired_residue_magnified |-> ended.retired_residue_magnified,
                  lifetime_received_base_units |-> ended.lifetime_received,
                  lifetime_claimed_base_units |-> ended.lifetime_claimed])
        \o Event("CorePoolClosed", [pool_store |-> RFL_RESERVE])
        \o Event("PoolLifecycleChanged", [old_lifecycle |-> 1, new_lifecycle |-> 2])
        \o Event("PoolClosed", [epoch |-> 1, reserve_rfl |-> 0, reserve_usd |-> 0])

remove_liquidity_events(provider, shares) ==
  LET settled == settled_for(provider)
      removed == withdrawn(settled, provider, shares)
      rfl == rfl_output(settled, shares)
      paid == usd_output(settled, shares)
      final == is_final(settled, shares)
  IN  settled_events(provider)
        \o residue_events(settled.lp, removed.lp, provider)
        \o shares_events(removed.lp, provider, FALSE, shares)
        \o move_custody_to_wallet_events(settled, provider, rfl)
        \o OnlyIf(final, final_exit_events(removed))
        \o liquidity_event("LiquidityRemoved", provider, rfl, paid, shares,
                           settled.core.pool_store - rfl, usd_reserve - paid, final)

transfer_lp_shares_events(sender, recipient, shares) ==
  LET settled == materialize_lp_rewards(settled_for(sender), recipient)
  IN  settled_events(sender)
        \o materialize_lp_events(settled_for(sender), recipient)
        \o residue_events(settled.lp,
             Lp!transfer_active(settled.lp, sender, recipient, shares, settled.core.lp_vault),
             sender)
        \o Event("LpSharesTransferred", [epoch |-> 1, sender |-> sender,
                                         recipient |-> recipient, amount |-> shares])

claim_lp_rewards_events(owner, requested) ==
  OnlyIf(lifecycle = "live", checkpoint_events(books))
    \o pay_lp_claim_events(claim_books, owner, claim_amount(owner, requested))

\* The second checkpoint of a swap passes on the reserve's part of its fee.
swap_events(settlement, settled_core, trader, receipt) ==
  checkpoint_events(books)
    \o settlement
    \o checkpoint_events([checked EXCEPT !.core = settled_core,
                                         !.registered = @ \cup {trader}])
    \o Event("SwapExecuted", receipt)

sell_trfl_events(seller, gross) ==
  LET l == checked.core
      output == sell_output(l, gross)
      net == gross - fee_for(l, gross)
  IN  swap_events(settle_sell_events(checked, seller, gross),
                  settle_sell(l, seller, gross), seller,
                  [trader |-> seller, is_sell |-> TRUE, gross_input |-> gross,
                   reflection_fee |-> fee_for(l, gross),
                   amm_fee |-> Reserves!fee(net, FIXED_AMM_FEE_BPS),
                   gross_output |-> output, net_output |-> output,
                   reserve_rfl |-> l.pool_store + net,
                   reserve_usd |-> usd_reserve - output])

buy_trfl_events(buyer, input) ==
  LET l == checked.core
      output == buy_output(l, input)
  IN  swap_events(settle_buy_events(checked, buyer, output),
                  settle_buy(l, buyer, output), buyer,
                  [trader |-> buyer, is_sell |-> FALSE, gross_input |-> input,
                   reflection_fee |-> fee_for(l, output),
                   amm_fee |-> Reserves!fee(input, FIXED_AMM_FEE_BPS),
                   gross_output |-> output, net_output |-> output - fee_for(l, output),
                   reserve_rfl |-> l.pool_store - output,
                   reserve_usd |-> usd_reserve + input])

-----------------------------------------------------------------------------
(* Wallets and the faucet *)

transfer_events(from, to, amount) ==
  LET taken == debit_wallet(materialize_all_to_store(core, from), from, amount)
  IN  materialized_events(core, from)
        \o Event("EligibleBalanceDebited", [account |-> from, amount |-> amount])
        \o registered_events(books, to)
        \o materialized_events(taken, to)
        \o position_events(books, to)
        \o Event("EligibleBalanceCredited", [account |-> to, amount |-> amount])

claim_all_events(a) ==
  LET amount == claimable_for_store(core, a)
  IN  materialized_events(core, a)
        \o Event("RewardsClaimed", [account |-> a, amount |-> amount,
                                    total_claimed |-> core.claimed[a] + amount])

claim_trfl_events(a) ==
  payout_lp_reward_events(books, a)
    \o Event("FaucetGrant", [recipient |-> a, amount |-> FIXED_TRFL_GRANT])

claim_tusd_events(a) ==
  Event("MockUsdMinted", [recipient |-> a, amount |-> FIXED_TUSD_GRANT])

\* The limits LaunchSealed reports, all compiled into the packages.
launch_envelope ==
  [ faucet |-> [trflGrant |-> FIXED_TRFL_GRANT, tusdGrant |-> FIXED_TUSD_GRANT],
    swapLimits |-> [ammFeeBps |-> FIXED_AMM_FEE_BPS,
                    maximumGrossSwap |-> FIXED_MAX_GROSS_SWAP,
                    maximumReserveBps |-> FIXED_MAX_RESERVE_BPS],
    contributions |-> [trfl |-> FIXED_MAX_LIQUIDITY_RFL, tusd |-> FIXED_MAX_LIQUIDITY_USD],
    withdrawalBps |-> BPS_DENOMINATOR ]

\* The three packages' events of the launch, in the order launch calls them.
launch_events ==
  LET seeded == seed_pool_from_distribution(core)
      shares == Reserves!initial_lp_shares(INITIAL_POOL_RFL, INITIAL_TUSD_LIQUIDITY)
      minted == Lp!mint_active(lp, bootstrap_lp, shares)
  IN  Event("CustodyAdapterRegistered", [reserve_store |-> RFL_RESERVE, first_epoch |-> 1,
                                         lp_reward_vault |-> LP_REWARD_VAULT])
        \o Event("LpEpochOpened", [epoch |-> 1, reward_vault |-> LP_REWARD_VAULT])
        \o Event("PoolReserveBound", [reserve_store |-> USD_RESERVE])
        \o Event("ProtocolPrimaryStoreExcluded", [account |-> "test_assets"])
        \o Event("ProtocolPrimaryStoreExcluded", [account |-> "test_amm"])
        \o custody_events(seeded, TRUE, INITIAL_POOL_RFL)
        \o Event("MockUsdMinted", [recipient |-> USD_RESERVE,
                                   amount |-> INITIAL_TUSD_LIQUIDITY])
        \o shares_events(minted, bootstrap_lp, TRUE, shares)
        \o Event("CoreLaunchSealed", [reflection_fee_bps |-> core.fee_bps])
        \o Event("LaunchSealed", [reflection_fee_bps |-> core.fee_bps,
                                  envelope |-> launch_envelope,
                                  initial_lp_shares |-> shares])
        \o Event("PoolLifecycleChanged", [old_lifecycle |-> 0, new_lifecycle |-> 1])
        \o liquidity_event("LiquiditySeeded", bootstrap_lp, INITIAL_POOL_RFL,
                           INITIAL_TUSD_LIQUIDITY, shares, INITIAL_POOL_RFL,
                           INITIAL_TUSD_LIQUIDITY, FALSE)
=============================================================================
