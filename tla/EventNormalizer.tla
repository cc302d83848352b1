-------------------------- MODULE EventNormalizer --------------------------
(***************************************************************************)
(* packages/indexer/src/cedra-normalizer.ts: from the Move events of a     *)
(* transaction to the reducer's.  A Move event is [tag, data]: the module  *)
(* and struct that name it, and its fields.  The three packages' addresses *)
(* are distinct, so a tag stands for package, module and struct.           *)
(*                                                                         *)
(* A schema gives, for each field the reducer reads, the Move field it is  *)
(* taken from.  Fields that only name an object (see EventReducer) are     *)
(* left out.                                                               *)
(***************************************************************************)
EXTENDS EventReducer

CoreSchema ==
  [ TokenCreated |-> [feeBps |-> "reflection_fee_bps", packageVersion |-> "release",
                      networkLabel |-> "network_label"],
    ProtocolInitialized |-> [feeBps |-> "initial_fee_bps", packageVersion |-> "release",
                             networkLabel |-> "network_label",
                             automaticMaterialization |-> "automatic_materialization",
                             exclusionSlots |-> "protocol_exclusion_slots"],
    ProtocolPrimaryStoreExcluded |-> [account |-> "account",
                                      remainingSlots |-> "remaining_slots"],
    OperationalPrimaryStoreExcluded |-> [account |-> "account"],
    PositionCreated |-> [account |-> "account"],
    WalletRegistered |-> [account |-> "account",
                          registeredWalletCount |-> "registered_wallet_count"],
    WalletTransfer |-> [from |-> "from", to |-> "to", amount |-> "amount"],
    EligibleBalanceDebited |-> [account |-> "account", amount |-> "amount"],
    EligibleBalanceCredited |-> [account |-> "account", amount |-> "amount"],
    FeeConfigurationChanged |-> [oldFeeBps |-> "old_fee_bps", newFeeBps |-> "new_fee_bps"],
    PauseStateChanged |-> [swapsPaused |-> "swaps_paused", claimsPaused |-> "claims_paused"] ]

RewardSchema ==
  [ ReflectionFeeCollected |-> [grossAmount |-> "gross_amount", feeAmount |-> "fee_amount",
                                feeBps |-> "fee_bps"],
    ReflectionIndexAdvanced |-> [previousIndex |-> "old_index", newIndex |-> "new_index",
                                 indexRemainder |-> "remainder", feeAmount |-> "fee_amount",
                                 eligibleSupply |-> "eligible_supply"],
    RewardsMaterialized |-> [account |-> "account", amount |-> "amount",
                             totalClaimed |-> "total_claimed"],
    RewardsClaimed |-> [account |-> "account", amount |-> "amount",
                        totalClaimed |-> "total_claimed"],
    CustodyAdapterRegistered |-> [adapter |-> "reserve_store", firstEpoch |-> "first_epoch",
                                  vault |-> "lp_reward_vault"],
    CustodyEpochRouteOpened |-> [adapter |-> "reserve_store", epoch |-> "epoch",
                                 vault |-> "lp_reward_vault",
                                 retiredResidueMagnified |-> "retired_residue_magnified"],
    CustodySharesChanged |-> [added |-> "added", amount |-> "amount",
                              custodyShares |-> "custody_shares",
                              globalShares |-> "global_shares"],
    CustodyRewardsRouted |-> [vault |-> "lp_reward_vault", epoch |-> "epoch",
                              amount |-> "amount", totalRouted |-> "total_routed"] ]

AssetsSchema ==
  [ FaucetGrant |-> [account |-> "recipient", amount |-> "amount"],
    MockUsdMinted |-> [account |-> "recipient", amount |-> "amount"],
    FaucetConfigured |-> [faucet |-> "grants"],
    PoolReserveBound |-> [reserveStore |-> "reserve_store"],
    FaucetPauseChanged |-> [paused |-> "paused"],
    OperationalAdminChanged |-> [scope |-> "package",
                                 oldOperationalAdmin |-> "old_operational_admin",
                                 newOperationalAdmin |-> "new_operational_admin"] ]

LiquidityFields ==
  [ epoch |-> "epoch", provider |-> "provider", trflAmount |-> "rfl_amount",
    tusdAmount |-> "usd_amount", lpShares |-> "lp_shares",
    trflReserveAfter |-> "reserve_rfl", tusdReserveAfter |-> "reserve_usd" ]

PoolSchema ==
  [ LiquiditySeeded |-> LiquidityFields,
    LiquidityAdded |-> LiquidityFields,
    LiquidityRemoved |-> LiquidityFields @@ [finalExit |-> "final_exit"],
    LaunchSealed |-> [feeBps |-> "reflection_fee_bps", envelope |-> "envelope",
                      lpShares |-> "initial_lp_shares"],
    PoolClosed |-> [epoch |-> "epoch", trflReserveAfter |-> "reserve_rfl",
                    tusdReserveAfter |-> "reserve_usd"],
    SwapExecuted |-> [account |-> "trader", isSell |-> "is_sell",
                      grossAmount |-> "gross_input", reflectionFee |-> "reflection_fee",
                      ammFee |-> "amm_fee", grossPoolOutput |-> "gross_output",
                      netUserReceipt |-> "net_output",
                      trflReserveAfter |-> "reserve_rfl", tusdReserveAfter |-> "reserve_usd"],
    SwapLimitsChanged |-> [swapLimits |-> "limits"],
    LiquidityLimitsChanged |-> [contributions |-> "max_contributions",
                                withdrawalBps |-> "max_withdrawal_share_bps"],
    PoolPauseChanged |-> [poolPaused |-> "pool_paused", liquidityPaused |-> "liquidity_paused",
                          lpClaimsPaused |-> "lp_claims_paused",
                          shutdownMode |-> "shutdown_mode"] ]

LpSchema ==
  [ LpEpochOpened |-> [epoch |-> "epoch", vault |-> "reward_vault"],
    LpEpochStatusChanged |-> [epoch |-> "epoch", oldStatus |-> "old_status",
                              newStatus |-> "new_status"],
    LpSharesChanged |-> [epoch |-> "epoch", owner |-> "owner", added |-> "added",
                         amount |-> "amount", ownerShares |-> "owner_shares",
                         totalShares |-> "total_shares"],
    LpSharesTransferred |-> [epoch |-> "epoch", sender |-> "sender",
                             recipient |-> "recipient", amount |-> "amount"],
    LpRewardIndexAdvanced |-> [epoch |-> "epoch", previousIndex |-> "old_index",
                               newIndex |-> "new_index", indexRemainder |-> "remainder",
                               received |-> "received", totalShares |-> "total_shares",
                               roundingReserve |-> "rounding_reserve"],
    LpRewardsClaimed |-> [epoch |-> "epoch", owner |-> "owner", amount |-> "amount",
                          totalClaimed |-> "total_claimed"],
    LpRewardQuarantined |-> [epoch |-> "epoch", amount |-> "amount",
                             unallocatedRewards |-> "unallocated_rewards",
                             vault |-> "reward_vault"],
    LpFractionalResidueRetired |->
      [epoch |-> "epoch", owner |-> "owner", residueMagnified |-> "residue_magnified",
       cumulativeRetiredResidueMagnified |-> "cumulative_retired_residue_magnified",
       roundingReserve |-> "rounding_reserve_base_units"],
    LpEpochTerminalDustClassified |->
      [epoch |-> "epoch", vault |-> "reward_vault",
       terminalRounding |-> "terminal_rounding_base_units",
       retiredResidueMagnified |-> "retired_residue_magnified",
       lifetimeReceived |-> "lifetime_received_base_units",
       lifetimeClaimed |-> "lifetime_claimed_base_units"] ]

Schema == CoreSchema @@ RewardSchema @@ AssetsSchema @@ PoolSchema @@ LpSchema

-----------------------------------------------------------------------------
\* Every other type tag is none of the protocol's, and is passed over.
IsProtocolEvent(raw) == raw.tag \in DOMAIN Schema

lpStatus(code) == IF code = 1 THEN "active" ELSE "claim-only"

\* What the normalizer computes rather than copies: both faucets' mints are
\* grants; an initialization starts its index at zero; a status is a word; and
\* what a swap adds to its reserve follows from its direction.
derived(raw, e) ==
  CASE raw.tag = "FaucetGrant" -> [type |-> "FaucetGrant", asset |-> "tRFL"] @@ e
    [] raw.tag = "MockUsdMinted" -> [type |-> "FaucetGrant", asset |-> "tUSD"] @@ e
    [] raw.tag = "ProtocolInitialized" -> [type |-> raw.tag, initialIndex |-> 0] @@ e
    [] raw.tag = "LpEpochStatusChanged" ->
         [type |-> raw.tag, oldStatus |-> lpStatus(e.oldStatus),
          newStatus |-> lpStatus(e.newStatus)] @@ e
    [] raw.tag = "SwapExecuted" ->
         [type |-> raw.tag, direction |-> IF e.isSell THEN "sell" ELSE "buy",
          netReserveInput |-> IF e.isSell THEN e.grossAmount - e.reflectionFee
                              ELSE e.grossAmount] @@ e
    [] OTHER -> [type |-> raw.tag] @@ e

copied(raw) ==
  LET schema == Schema[raw.tag]
  IN  [field \in DOMAIN schema |-> raw.data[schema[field]]]

normalize(raw) == derived(raw, copied(raw))

\* The conversion is strict: a field that is missing or wider than its Move
\* type throws, and the whole page is refused.
normalizes(raw) ==
  /\ \A field \in DOMAIN Schema[raw.tag] : Schema[raw.tag][field] \in DOMAIN raw.data
  /\ raw.tag = "LpEpochStatusChanged" =>
       {raw.data.old_status, raw.data.new_status} \subseteq {1, 2}
  /\ assertProtocolEventMoveDomains([type |-> raw.tag] @@ copied(raw))

\* The transaction's events, or a throw.
NormalizeGroup(group) ==
  LET known == SelectSeq(group, IsProtocolEvent)
      throws == \E i \in DOMAIN known : ~normalizes(known[i])
  IN  [throws |-> throws,
       events |-> IF throws THEN << >> ELSE [i \in DOMAIN known |-> normalize(known[i])]]
=============================================================================
