----------------------------- MODULE Reconciler -----------------------------
(***************************************************************************)
(* packages/indexer/src/reconciler.ts: the projection against the finalized*)
(* views of the chain, read at one ledger version.  Reconcile is the set   *)
(* of codes it raises; a checkpoint needs it empty.  An observation o has  *)
(* the projection's fields, and the balances and liabilities the chain     *)
(* reports beside them.  A wallet's tUSD, its explicit claims and, before  *)
(* v0.2, the fee rate are not compared by the code either.                 *)
(***************************************************************************)
EXTENDS EventReducer

LpEpochFields ==
  {"status", "index", "indexRemainder", "totalShares", "aggregateCorrection",
   "unallocatedRewards", "roundingReserve", "retiredResidueMagnified",
   "lifetimeReceived", "lifetimeClaimed", "quarantined"}

\* The chain reports 0 for an epoch not yet classified.
terminalOrZero(epoch) ==
  IF epoch.terminalRounding = NotClassified THEN 0 ELSE epoch.terminalRounding

compareLpEpoch(p, o, k) ==
  LET expected == p.lpEpochs[k]
      observed == o.lpEpochs[k]
      unregistered(positions, accounts) ==
        \E owner \in DOMAIN positions : positions[owner].shares > 0 /\ owner \notin accounts
  IN  IF k \notin DOMAIN p.lpEpochs THEN {"LP_ACCOUNTING"}
      ELSE when(observed.vault /= expected.vault, "VAULT_BINDING")
        \cup when(\/ observed.balance /= expectedLpVaultBalance(expected)
                  \/ observed.balance /= observed.liability + observed.unallocatedRewards
                                           + observed.roundingReserve,
                  "LP_VAULT_BACKING")
        \cup when(\/ observed.liability /= lpIndexedLiability(expected)
                  \/ \E f \in LpEpochFields : observed[f] /= expected[f]
                  \/ observed.terminalRounding /= terminalOrZero(expected),
                  "LP_ACCOUNTING")
        \cup when(\/ unregistered(expected.positions, p.registered)
                  \/ unregistered(observed.positions, o.registered),
                  "WALLET_REGISTRATION")
        \cup when(observed.positions /= expected.positions, "POSITION_ACCOUNTING")

reconcileIdentity(p, o) ==
  when(\/ o.networkLabel /= p.networkLabel \/ p.packageVersion = Uninitialized
       \/ o.exclusionsRemaining /= p.exclusionsRemaining,
       "DEPLOYMENT_IDENTITY")
    \cup when(\/ p.registeredWalletCount /= Cardinality(p.registered)
              \/ o.registeredWalletCount /= p.registeredWalletCount
              \/ o.registered /= p.registered,
              "WALLET_REGISTRATION")

\* Before v0.2 the deployment is ready when its three administrators are
\* known; since v0.2, when its launch is sealed.
reconcileAuthority(p, o) ==
  LET known == \A s \in DOMAIN p.admins : p.admins[s] /= Null
  IN  IF p.packageVersion /= V02
      THEN when(~known \/ o.admins /= p.admins \/ ~p.deploymentReady, "OPERATIONAL_ADMIN")
      ELSE when(~p.deploymentReady \/ p.lifecycle = "CONFIGURING", "EVENT_DATA")

reconcileCore(p, o) ==
  when(\/ o.rewardVaultBalance /= expectedCoreVaultBalance(p)
       \/ o.rewardVaultBalance /= o.reflectionLiability + o.unallocatedFees
                                    + o.roundingReserve,
       "VAULT_BACKING")
    \cup when(o.reflectionLiability /= coreIndexedLiability(p), "REFLECTION_LIABILITY")
    \cup when(o.index /= p.index \/ o.indexRemainder /= p.indexRemainder, "GLOBAL_INDEX")
    \cup when(\/ o.eligibleSupply /= p.eligibleSupply
              \/ sumWalletShares(p.positions) + p.custody.shares /= p.eligibleSupply,
              "ELIGIBLE_SUPPLY")
    \cup when(\/ o.aggregateCorrection /= p.aggregateCorrection
              \/ o.unallocatedFees /= p.unallocatedFees
              \/ o.roundingReserve /= p.roundingReserve,
              "CORE_ACCOUNTING")
    \cup when(\/ o.lifetimeSwapFees /= p.lifetimeSwapFees
              \/ o.lifetimeMaterialized /= p.lifetimeMaterialized
              \/ o.lifetimeCustodyRouted /= p.lifetimeCustodyRouted,
              "LIFETIME_TOTAL")

reconcileCustody(p, o) ==
  LET route(custody) == <<custody.adapter, custody.routeEpoch, custody.routeVault>>
      account(custody) == <<custody.shares, custody.correction, custody.claimed>>
  IN  when(\/ p.custody.adapter = Null \/ route(o.custody) /= route(p.custody)
           \/ p.mockUsdPoolReserve = Null \/ o.mockUsdPoolReserve /= p.mockUsdPoolReserve,
           "VAULT_BINDING")
        \cup when(\/ account(o.custody) /= account(p.custody)
                  \/ o.custodyPending /= custodyPending(p),
                  "CUSTODY_ACCOUNTING")
        \cup when(\/ o.pool.trfl /= o.custodyBalance \/ o.pool.trfl /= o.custody.shares
                  \/ p.pool.trfl /= p.custody.shares,
                  "RESERVE_CUSTODY")

reconcilePool(p, o) ==
  LET limits(pool) == <<pool.swapLimits, pool.contributions, pool.withdrawalBps>>
  IN  when(o.pool.trfl /= p.pool.trfl \/ o.pool.tusd /= p.pool.tusd, "POOL_RESERVES")
        \cup when(limits(o.pool) /= limits(p.pool), "POOL_LIMITS")

reconcileConfiguration(p, o) ==
  LET pauses(x) == <<x.swapsPaused, x.claimsPaused, x.faucetPaused, x.pool.poolPaused,
                     x.pool.liquidityPaused, x.pool.lpClaimsPaused, x.pool.shutdownMode,
                     x.pool.seeded>>
  IN  when(o.packageVersion /= p.packageVersion, "PACKAGE_VERSION")
        \cup when(o.automaticMaterialization /= p.automaticMaterialization,
                  "CORE_ACCOUNTING")
        \cup when(p.packageVersion = V02 /\ (o.lifecycle /= p.lifecycle \/ o.feeBps /= p.feeBps),
                  "EVENT_DATA")
        \cup when(o.faucet /= p.faucet, "FAUCET_CONFIG")
        \cup when(p.packageVersion /= V02 /\ pauses(o) /= pauses(p), "PAUSE_STATE")

walletRecord(position) == <<position.trfl, position.correction, position.claimed>>

\* Mutant: only the set of wallets is compared, not what they own.
reconcileWallets(p, o) ==
  when(DOMAIN o.positions /= DOMAIN p.positions, "POSITION_ACCOUNTING")

reconcilePositions(p, o) ==
  when(\/ DOMAIN o.positions /= DOMAIN p.positions
       \/ \E a \in DOMAIN o.positions \cap DOMAIN p.positions :
            walletRecord(o.positions[a]) /= walletRecord(p.positions[a]),
       "POSITION_ACCOUNTING")

reconcileEpochs(p, o) ==
  when(\/ o.activeLpEpoch /= p.activeLpEpoch
       \/ ~(DOMAIN p.lpEpochs \subseteq DOMAIN o.lpEpochs),
       "LP_ACCOUNTING")
    \cup UNION {compareLpEpoch(p, o, k) : k \in DOMAIN o.lpEpochs}

\* Views of another ledger version than the cursor's are not compared at all.
Reconcile(p, o, ledgerVersion) ==
  IF o.ledgerVersion /= ledgerVersion THEN {"LEDGER_VERSION"}
  ELSE reconcileIdentity(p, o) \cup reconcileAuthority(p, o) \cup reconcileCore(p, o)
         \cup reconcileCustody(p, o) \cup reconcilePool(p, o) \cup reconcilePositions(p, o)
         \cup reconcileEpochs(p, o) \cup reconcileConfiguration(p, o)
=============================================================================
