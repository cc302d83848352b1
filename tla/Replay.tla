------------------------------- MODULE Replay -------------------------------
(***************************************************************************)
(* The chain and the indexer that follows it: every transaction of module  *)
(* Pool is committed, its events (ChainEvents) are delivered, normalized,  *)
(* reduced to the next projection and reconciled with the chain's views.   *)
(* Delivery may lose a run of a transaction's events: its start, its end,  *)
(* one event, or all of them.  An alert stops the indexer, which restarts  *)
(* from its last checkpoint and meets the same events again.               *)
(*                                                                         *)
(* Two releases: the legacy one, whose launch the indexer's tests replay,  *)
(* and the immutable one of this repository's Move packages.  Neither the  *)
(* legacy launch nor its administrators are in the Move sources: they are  *)
(* external, taken from what the reducer accepts.                          *)
(***************************************************************************)
EXTENDS ChainEvents

CONSTANTS
  LEGACY_MAX_FEE,
  U64_MAX, U128_MAX, U256_MAX,
  MaxTransactions     \* bound on the transactions after the launch

Seqs == INSTANCE SequencesExt
R == INSTANCE Reconciler WITH MAX_FEE <- MAX_FEE_BPS, LaunchEnvelope <- launch_envelope
N == INSTANCE EventNormalizer WITH MAX_FEE <- MAX_FEE_BPS, LaunchEnvelope <- launch_envelope

VARIABLES
  release,       \* the deployed version
  handover,      \* how the legacy administrator was replaced
  owners,        \* keys of LpEpoch.positions on chain
  feed,          \* committed transactions the indexer has not followed yet
  projection,    \* the indexer's state
  outcome,       \* of the last transactions it followed
  transactions   \* committed since the launch

indexerVars == <<projection, outcome>>
deployment == <<release, handover>>
allVars == <<vars, deployment, owners, feed, indexerVars, transactions>>

Legacy == "testnet-v0.1.0"
Network == "cedra-testnet"
Scopes == {"reflection-core", "test-assets", "test-amm"}

\* A legacy administrator hands over, or not: to a store excluded before or to
\* one that still earns, core's scope first or not.
Handovers == {"none", "proper", "unexcluded", "amm first"}
Administrator ==
  [s \in Scopes |-> IF handover = "none" THEN "operator" ELSE "successor"]

\* What the indexer made of a transaction: whether some of its events were
\* lost, whether it belongs to the ones below, the alerts, and whether the
\* projection is the one all of its events lead to.
Clean == [lost |-> FALSE, alien |-> FALSE, alerts |-> {}, complete |-> TRUE]

ReplayInit ==
  /\ Init
  /\ release \in {Legacy, R!V02}
  /\ handover = "none"
  /\ owners = {}
  /\ feed = << >>
  /\ projection = R!createEmptyProjection
  /\ outcome = Clean
  /\ transactions = 0

-----------------------------------------------------------------------------
(* What the finalized views of the chain show *)

ObservedPool ==
  [ trfl |-> core.pool_store, tusd |-> usd_reserve,
    swapLimits |-> launch_envelope.swapLimits,
    contributions |-> launch_envelope.contributions,
    withdrawalBps |-> launch_envelope.withdrawalBps,
    poolPaused |-> FALSE, liquidityPaused |-> FALSE, lpClaimsPaused |-> FALSE,
    shutdownMode |-> FALSE, seeded |-> lifecycle = "live" ]

ObservedEpoch ==
  [ status |-> N!lpStatus(lp.status), vault |-> LP_REWARD_VAULT,
    balance |-> core.lp_vault, liability |-> Lp!aggregate_liability(lp),
    index |-> lp.index, indexRemainder |-> lp.index_remainder,
    totalShares |-> lp.total_shares, aggregateCorrection |-> lp.aggregate_correction,
    unallocatedRewards |-> lp.unallocated_rewards, roundingReserve |-> lp.rounding_reserve,
    retiredResidueMagnified |-> lp.retired_residue_magnified,
    terminalRounding |-> lp.terminal_rounding_reserve,
    lifetimeReceived |-> lp.lifetime_received, lifetimeClaimed |-> lp.lifetime_claimed,
    quarantined |-> lp.quarantined,
    positions |-> [a \in owners |-> [shares |-> lp.shares[a], correction |-> lp.correction[a],
                                     claimed |-> lp.claimed[a]]] ]

Observation ==
  [ ledgerVersion |-> transactions, networkLabel |-> Network, packageVersion |-> release,
    lifecycle |-> R!Null, exclusionsRemaining |-> 2, admins |-> Administrator,
    registered |-> registered, registeredWalletCount |-> Cardinality(registered),
    automaticMaterialization |-> TRUE, feeBps |-> core.fee_bps,
    index |-> core.index, indexRemainder |-> core.index_remainder,
    eligibleSupply |-> core.total_shares, aggregateCorrection |-> core.aggregate_correction,
    unallocatedFees |-> core.unallocated_fees, roundingReserve |-> core.rounding_reserve,
    lifetimeSwapFees |-> core.lifetime_fees,
    lifetimeMaterialized |-> core.lifetime_materialized,
    lifetimeCustodyRouted |-> core.lifetime_custody_routed,
    rewardVaultBalance |-> core.reward_vault, reflectionLiability |-> aggregate_liability(core),
    mockUsdPoolReserve |-> USD_RESERVE, faucet |-> launch_envelope.faucet,
    swapsPaused |-> FALSE, claimsPaused |-> FALSE, faucetPaused |-> FALSE,
    custody |-> [adapter |-> RFL_RESERVE, routeEpoch |-> 1, routeVault |-> LP_REWARD_VAULT,
                 shares |-> core.custody_shares, correction |-> core.pool_correction,
                 claimed |-> core.pool_claimed],
    custodyPending |-> custody_pending_for_store(core), custodyBalance |-> core.pool_store,
    pool |-> ObservedPool,
    activeLpEpoch |-> IF lp.status = Lp!STATUS_ACTIVE THEN 1 ELSE R!NoEpoch,
    lpEpochs |-> <<ObservedEpoch>>,
    positions |-> [a \in registered |-> [trfl |-> core.raw[a], correction |-> core.correction[a],
                                         claimed |-> core.claimed[a]]] ]

-----------------------------------------------------------------------------
(* The indexer *)

\* One transaction's events: a page that cannot be normalized stays unread.
Follow(p, group) ==
  LET normalized == N!NormalizeGroup(group)
  IN  IF normalized.throws THEN [projection |-> p, alerts |-> {"NORMALIZER"}]
      ELSE R!Reduce(p, normalized.events)

\* The replay of several transactions, up to the first alert.
FollowAll(p, groups) ==
  LET step(at, group) == IF at.alerts = {} THEN Follow(at.projection, group) ELSE at
  IN  Seqs!FoldLeft(step, [projection |-> p, alerts |-> {}], groups)

\* The ways to lose a run of events.
Losses(group) ==
  {SubSeq(group, 1, i) \o SubSeq(group, j, Len(group)) :
     <<i, j>> \in {ij \in (0 .. Len(group)) \X (2 .. Len(group) + 1) : ij[1] + 1 < ij[2]}}

\* Transactions whose events this indexer does not accept even when all of
\* them arrive.  Their provider, seller, owner or recipient did nothing wrong.
Alien(group) ==
  LET occurs(tag) == \E i \in DOMAIN group : group[i].tag = tag
  IN  \/ occurs("ProtocolPrimaryStoreExcluded")   \* carries no remaining_slots
      \/ occurs("LiquidityAdded")       \* custody event after the wallet's debit
      \/ occurs("PoolClosed")           \* no shutdown mode precedes it
      \/ \E i \in DOMAIN group :        \* no fee event announces the debit
           /\ group[i].tag = "SwapExecuted" /\ group[i].data.is_sell
           /\ group[i].data.reflection_fee = 0
      \/ \E i \in DOMAIN group :        \* a tUSD grant registers nobody
           group[i].tag = "MockUsdMinted" /\ group[i].data.recipient \notin registered
      \/ \E i \in DOMAIN group :        \* nor does a transfer of LP shares
           group[i].tag = "LpSharesTransferred" /\ group[i].data.recipient \notin registered
      \/ \E i, j \in DOMAIN group :     \* the claim precedes the registration
           /\ i < j /\ group[i].tag = "LpRewardsClaimed"
           /\ group[j].tag = "WalletRegistered"
           /\ group[i].data.owner = group[j].data.account

\* What neither the reducer nor the reconciler compares with the chain: the
\* wallets' tUSD and the explicit part of their claims.
Compared(p) ==
  [p EXCEPT !.positions = [a \in DOMAIN p.positions |-> R!walletRecord(p.positions[a])]]

\* The views are read once the transaction is final.
Reconciled(replayed) ==
  IF replayed.alerts = {} THEN R!Reconcile(replayed.projection, Observation, transactions)
  ELSE replayed.alerts

Idle == feed = << >> /\ outcome = Clean

IndexFeed ==
  /\ feed /= << >>
  /\ \E replayed \in {FollowAll(projection, feed)} : \E alerts \in {Reconciled(replayed)} :
       /\ outcome' = [lost |-> FALSE, alerts |-> alerts, complete |-> TRUE,
                      alien |-> \/ handover \in {"unexcluded", "amm first"}
                                \/ \E i \in DOMAIN feed : Alien(feed[i])]
       /\ projection' = IF alerts = {} THEN replayed.projection ELSE projection
  /\ feed' = << >>
  /\ UNCHANGED <<vars, deployment, owners, transactions>>

\* Nothing follows a loss: the run ends where the indexer stops, or would go
\* on with an incomplete projection.
IndexPartOfFeed ==
  /\ Len(feed) = 1
  /\ ~Alien(feed[1])
  /\ \E whole \in {Follow(projection, feed[1])} : \E rest \in Losses(feed[1]) :
       \E replayed \in {Follow(projection, rest)} :
         outcome' = [lost |-> TRUE, alien |-> FALSE, alerts |-> Reconciled(replayed),
                     complete |-> Compared(replayed.projection) = Compared(whole.projection)]
  /\ feed' = << >>
  /\ UNCHANGED <<vars, deployment, owners, transactions, projection>>

-----------------------------------------------------------------------------
(* Launches *)

\* initialize of this repository's token, then its pool's launch.
LaunchGroups ==
  << <<[tag |-> "TokenCreated",
        data |-> [reflection_fee_bps |-> core.fee_bps, release |-> R!V02,
                  network_label |-> Network]]>>,
     launch_events >>

ImmutableLaunch ==
  /\ Idle
  /\ release = R!V02
  /\ launch
  /\ owners' = {bootstrap_lp}
  /\ feed' = LaunchGroups
  /\ UNCHANGED <<deployment, transactions, indexerVars>>

appoint(scope, old, new) == Event("OperationalAdminChanged",
  [package |-> scope, old_operational_admin |-> old, new_operational_admin |-> new])

\* The operator stops the protocol, changes its parameters and opens it again.
OperatorEvents ==
  LET pause(on) ==
        Event("PauseStateChanged", [swaps_paused |-> on, claims_paused |-> on])
          \o Event("FaucetPauseChanged", [paused |-> on])
          \o Event("PoolPauseChanged", [pool_paused |-> on, liquidity_paused |-> on,
                                        lp_claims_paused |-> on, shutdown_mode |-> FALSE])
      fee(old, new) ==
        Event("FeeConfigurationChanged", [old_fee_bps |-> old, new_fee_bps |-> new])
  IN  pause(TRUE) \o fee(core.fee_bps, 0) \o fee(0, core.fee_bps)
        \o Event("LiquidityLimitsChanged",
                 [max_contributions |-> launch_envelope.contributions,
                  max_withdrawal_share_bps |-> launch_envelope.withdrawalBps])
        \o pause(FALSE)

HandoverGroups(how) ==
  LET successor(scope) == appoint(scope, "operator", "successor")
      exclusion == Event("OperationalPrimaryStoreExcluded", [account |-> "successor"])
      core_first == successor("reflection-core") \o successor("test-assets")
                      \o successor("test-amm")
      amm_first == successor("test-amm") \o successor("reflection-core")
                     \o successor("test-assets")
  IN  CASE how = "none" -> << >>
        [] how = "proper" -> <<OperatorEvents, exclusion \o core_first>>
        [] how = "unexcluded" -> <<core_first>>
        [] how = "amm first" -> <<exclusion \o amm_first>>

\* The legacy launch: three administrators, the pool, the bootstrap provider's
\* registration and the seed.
LegacyGroups ==
  LET shares == Reserves!initial_lp_shares(INITIAL_POOL_RFL, INITIAL_TUSD_LIQUIDITY)
      first(scope) == appoint(scope, R!ZeroAddress, "operator")
  IN  << Event("ProtocolInitialized",
               [initial_fee_bps |-> core.fee_bps, release |-> Legacy,
                network_label |-> Network, automatic_materialization |-> TRUE,
                protocol_exclusion_slots |-> 2])
           \o first("reflection-core") \o first("test-assets") \o first("test-amm"),
         SubSeq(launch_events, 1, 3) \o Event("SwapLimitsChanged",
                                              [limits |-> launch_envelope.swapLimits]),
         payout_lp_reward_events(books, bootstrap_lp),
         custody_events(seed_pool_from_distribution(core), TRUE, INITIAL_POOL_RFL)
           \o shares_events(Lp!mint_active(lp, bootstrap_lp, shares), bootstrap_lp, TRUE, shares)
           \o liquidity_event("LiquiditySeeded", bootstrap_lp, INITIAL_POOL_RFL,
                              INITIAL_TUSD_LIQUIDITY, shares, INITIAL_POOL_RFL,
                              INITIAL_TUSD_LIQUIDITY, FALSE) >>

LegacyLaunch ==
  LET shares == Reserves!initial_lp_shares(INITIAL_POOL_RFL, INITIAL_TUSD_LIQUIDITY)
  IN  /\ Idle
      /\ release = Legacy
      /\ core.fee_bps <= LEGACY_MAX_FEE
      /\ lifecycle = "unlaunched"
      /\ commit([core |-> seed_pool_from_distribution(core),
                 lp |-> Lp!mint_active(lp, bootstrap_lp, shares),
                 registered |-> {bootstrap_lp}])
      /\ usd_reserve' = INITIAL_TUSD_LIQUIDITY
      /\ lifecycle' = "live"
      /\ owners' = {bootstrap_lp}
      /\ handover' \in Handovers
      /\ feed' = LegacyGroups \o HandoverGroups(handover')
      /\ UNCHANGED <<usd, release, transactions, indexerVars>>

-----------------------------------------------------------------------------
(* Transactions of a live pool *)

\* The transaction is the next one and its events are final.
Emits(group) ==
  /\ transactions < MaxTransactions
  /\ transactions' = transactions + 1
  /\ feed' = <<group>>
  /\ UNCHANGED <<deployment, indexerVars>>

AddLiquidity(a) ==
  /\ Idle
  /\ \E max_rfl \in RflOffers, max_usd \in UsdOffers :
       /\ add_liquidity(a, max_rfl, max_usd)
       /\ owners' = owners \cup {a}
       /\ Emits(add_liquidity_events(a, max_rfl, max_usd))

RemoveLiquidity(a) ==
  /\ Idle
  /\ \E shares \in ShareOffers :
       /\ remove_liquidity(a, shares)
       /\ UNCHANGED owners
       /\ Emits(remove_liquidity_events(a, shares))

TransferShares(a) ==
  /\ Idle
  /\ \E to \in Users, shares \in ShareOffers :
       /\ transfer_lp_shares(a, to, shares)
       /\ owners' = owners \cup {to}
       /\ Emits(transfer_lp_shares_events(a, to, shares))

ClaimLpRewards(a) ==
  /\ Idle
  /\ claim_lp_rewards(a, 0)
  /\ UNCHANGED owners
  /\ Emits(claim_lp_rewards_events(a, 0))

SellTrfl(a) ==
  /\ Idle
  /\ \E gross \in RflOffers :
       /\ sell_trfl(a, gross)
       /\ UNCHANGED owners
       /\ Emits(sell_trfl_events(a, gross))

BuyTrfl(a) ==
  /\ Idle
  /\ \E input \in UsdOffers :
       /\ buy_trfl(a, input)
       /\ UNCHANGED owners
       /\ Emits(buy_trfl_events(a, input))

Transfer(a) ==
  /\ Idle
  /\ \E to \in Users, amount \in RflOffers :
       /\ transfer(a, to, amount)
       /\ UNCHANGED owners
       /\ Emits(transfer_events(a, to, amount))

ClaimAll(a) == Idle /\ claim_all(a) /\ UNCHANGED owners /\ Emits(claim_all_events(a))
ClaimTrfl(a) == Idle /\ claim_trfl(a) /\ UNCHANGED owners /\ Emits(claim_trfl_events(a))
ClaimTusd(a) == Idle /\ claim_tusd(a) /\ UNCHANGED owners /\ Emits(claim_tusd_events(a))

ReplayNext ==
  \/ ImmutableLaunch \/ LegacyLaunch
  \/ \E a \in Users :
       \/ AddLiquidity(a) \/ RemoveLiquidity(a) \/ TransferShares(a)
       \/ ClaimLpRewards(a) \/ SellTrfl(a) \/ BuyTrfl(a)
       \/ Transfer(a) \/ ClaimAll(a) \/ ClaimTrfl(a) \/ ClaimTusd(a)
  \/ IndexFeed \/ IndexPartOfFeed

ReplaySpec == ReplayInit /\ [][ReplayNext]_allVars

-----------------------------------------------------------------------------
(* Properties *)

\* A projection that was never alerted on is the chain: every field the
\* reconciler compares, and the wallets' tUSD and pending rewards, which it
\* does not.  A transaction delivered whole is refused exactly when it is one
\* of the alien ones or an improper handover: no other interleaving of trades,
\* transfers, claims and exits raises a false alarm, and none of these slips
\* through.
WholeReplayIsExact ==
  /\ ~outcome.lost => (outcome.alien <=> outcome.alerts /= {})
  /\ lifecycle /= "unlaunched" /\ Idle =>
       /\ R!Reconcile(projection, Observation, transactions) = {}
       /\ \A a \in Users :
            LET position == R!positionOrEmpty(projection, a)
            IN  /\ position.tusd = usd[a]
                /\ R!walletPending(position, projection.index) = claimable_for_store(core, a)

\* No loss goes unnoticed where it matters: if a run of a transaction's events
\* is missing, the reducer or the reconciler raises an alert, unless all that
\* is missing is a wallet's tUSD or the explicit part of a claim.
LossIsNoticed == outcome.lost => outcome.alerts /= {} \/ outcome.complete

\* What the header of reflection_events.move says: the events are complete
\* enough for an independent indexer to replay economic state.  Every event of
\* a transaction arrives, and administrators hand over as they must.
HonestReplayAccepted ==
  ~outcome.lost /\ handover \in {"none", "proper"} => outcome.alerts = {}
=============================================================================
