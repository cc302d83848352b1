---------------------------- MODULE EventReducer ----------------------------
(***************************************************************************)
(* packages/indexer/src/reducer.ts: the indexer's replay.  Reduce takes    *)
(* the projection and the events of one transaction and returns the next   *)
(* projection with the alerts raised, recomputing every balance, index and *)
(* reserve by itself and comparing it with what the events report.         *)
(*                                                                         *)
(* An event is a record with the field names of types.ts; its position in  *)
(* the sequence is its eventIndex.  Addresses that only identify an object *)
(* are fused with what they identify: a wallet with its primary store, an  *)
(* LP vault with its epoch's state object, the custody adapter with its    *)
(* reserve store.  Counters the code always moves together (vault credits  *)
(* with lifetime fees, lifetime with current claims) are one.  An alert is *)
(* its code.                                                               *)
(***************************************************************************)
EXTENDS Integers, SequencesExt

CONSTANTS
  MAGNITUDE,                        \* REFLECTION_MAGNITUDE
  BPS_DENOMINATOR,
  LEGACY_MAX_FEE, MAX_FEE,          \* 100 bps, and 500 bps since v0.2
  U64_MAX, U128_MAX, U256_MAX,
  LaunchEnvelope                    \* the fixed parameters of LaunchSealed

V02 == "testnet-v0.2.0"
Uninitialized == "uninitialized"
Null == "null"         \* no administrator, vault or adapter
ZeroAddress == "0x0"
NoEpoch == 0           \* activeLpEpoch = null; epochs count from 1
NotClassified == -1    \* terminalRoundingBaseUnits = null

-----------------------------------------------------------------------------
(* The projection *)

createEmptyProjection ==
  [ packageVersion |-> Uninitialized, lifecycle |-> Null, networkLabel |-> Uninitialized,
    exclusionSlots |-> 0, exclusionsRemaining |-> 0, excluded |-> {},
    registered |-> {}, registeredWalletCount |-> 0,
    automaticMaterialization |-> FALSE, feeBps |-> LEGACY_MAX_FEE,
    index |-> 0, indexRemainder |-> 0, eligibleSupply |-> 0,
    aggregateCorrection |-> 0, unallocatedFees |-> 0, roundingReserve |-> 0,
    lifetimeSwapFees |-> 0, lifetimeMaterialized |-> 0, lifetimeCustodyRouted |-> 0,
    mockUsdPoolReserve |-> Null,
    swapsPaused |-> FALSE, claimsPaused |-> FALSE, faucetPaused |-> FALSE,
    faucet |-> LaunchEnvelope.faucet,
    admins |-> [s \in {"reflection-core", "test-assets", "test-amm"} |-> Null],
    deploymentReady |-> FALSE,
    pool |-> [ trfl |-> 0, tusd |-> 0,
               swapLimits |-> [ ammFeeBps |-> LaunchEnvelope.swapLimits.ammFeeBps,
                                maximumGrossSwap |-> 0, maximumReserveBps |-> 0 ],
               contributions |-> LaunchEnvelope.contributions,
               withdrawalBps |-> BPS_DENOMINATOR,
               poolPaused |-> FALSE, liquidityPaused |-> FALSE,
               lpClaimsPaused |-> FALSE, shutdownMode |-> FALSE, seeded |-> FALSE ],
    custody |-> [ adapter |-> Null, routeEpoch |-> NoEpoch, routeVault |-> Null,
                  shares |-> 0, correction |-> 0, claimed |-> 0 ],
    activeLpEpoch |-> NoEpoch,
    lpEpochs |-> << >>,
    positions |-> << >> ]

emptyPosition ==
  [trfl |-> 0, tusd |-> 0, correction |-> 0, claimed |-> 0, lifetimeClaimed |-> 0]

\* A map with one entry set, and a lookup with a default.
set(map, key, value) == (key :> value) @@ map
get(map, key, default) == IF key \in DOMAIN map THEN map[key] ELSE default

positionOrEmpty(p, account) == get(p.positions, account, emptyPosition)

lpPositionOrEmpty(epoch, owner) ==
  get(epoch.positions, owner, [shares |-> 0, correction |-> 0, claimed |-> 0])

newEpoch(vault) ==
  [ status |-> "active", vault |-> vault, index |-> 0, indexRemainder |-> 0,
    totalShares |-> 0, aggregateCorrection |-> 0, unallocatedRewards |-> 0,
    roundingReserve |-> 0, retiredResidueMagnified |-> 0,
    terminalRounding |-> NotClassified, lifetimeReceived |-> 0,
    lifetimeClaimed |-> 0, quarantined |-> FALSE, positions |-> << >> ]

-----------------------------------------------------------------------------
(* accounting.ts and move-domains.ts.  The checked operations throw outside *)
(* the Move widths; here a subtraction below zero stays negative, and the   *)
(* caller throws on a negative value.                                       *)

u64(x) == x \in 0 .. U64_MAX
u128(x) == x \in 0 .. U128_MAX
u256(x) == x \in 0 .. U256_MAX
signedU256(x) == x \in -U256_MAX .. U256_MAX

magnifiedEntitlement(shares, index, correction) ==
  IF ~u256(shares * index) \/ ~u256(shares * index + correction) THEN -1
  ELSE (shares * index + correction) \div MAGNITUDE

pending(position, shares, index) ==
  magnifiedEntitlement(shares, index, position.correction) - position.claimed

walletPending(position, index) == pending(position, position.trfl, index)
lpPositionPending(position, epoch) == pending(position, position.shares, epoch.index)
custodyPending(p) == pending(p.custody, p.custody.shares, p.index)

coreIndexedLiability(p) ==
  magnifiedEntitlement(p.eligibleSupply, p.index, p.aggregateCorrection)
    - p.lifetimeMaterialized - p.lifetimeCustodyRouted

expectedCoreVaultBalance(p) ==
  p.lifetimeSwapFees - p.lifetimeMaterialized - p.lifetimeCustodyRouted

lpIndexedLiability(epoch) ==
  magnifiedEntitlement(epoch.totalShares, epoch.index, epoch.aggregateCorrection)
    - epoch.lifetimeClaimed

expectedLpVaultBalance(epoch) == epoch.lifetimeReceived - epoch.lifetimeClaimed

\* What a vault holds beyond its liabilities: -1 where the code throws.
checkedVaultRemainder(balance, liability, unallocated) ==
  IF liability < 0 \/ balance < liability + unallocated THEN -1
  ELSE balance - liability - unallocated

coreRemainder(p) ==
  checkedVaultRemainder(expectedCoreVaultBalance(p), coreIndexedLiability(p),
                        p.unallocatedFees)

lpRemainder(epoch) ==
  checkedVaultRemainder(expectedLpVaultBalance(epoch), lpIndexedLiability(epoch),
                        epoch.unallocatedRewards)

\* The sum of one field over a map of records.
sumOf(map, field(_)) == FoldFunction(LAMBDA r, acc : field(r) + acc, 0, map)

sumWalletShares(positions) == sumOf(positions, LAMBDA r : r.trfl)
sumLpShares(positions) == sumOf(positions, LAMBDA r : r.shares)
sumCorrections(positions) == sumOf(positions, LAMBDA r : r.correction)
sumClaims(positions) == sumOf(positions, LAMBDA r : r.claimed)

ceilDiv(numerator, denominator) ==
  IF numerator = 0 THEN 0 ELSE (numerator - 1) \div denominator + 1

\* Newton's descent from value / 2 + 1.
integerSqrt(value) ==
  LET descend[current \in 1 .. value] ==
        LET next == (current + value \div current) \div 2
        IN  IF next < current THEN descend[next] ELSE current
  IN  IF value < 2 THEN value ELSE descend[value \div 2 + 1]

-----------------------------------------------------------------------------
(* The Move width of every numeric field *)

U256Fields ==
  {"initialIndex", "previousIndex", "newIndex", "indexRemainder", "totalClaimed",
   "totalRouted", "residueMagnified", "cumulativeRetiredResidueMagnified",
   "retiredResidueMagnified", "lifetimeReceived", "lifetimeClaimed"}

U128Fields ==
  {"eligibleSupply", "custodyShares", "globalShares", "lpShares", "ownerShares",
   "totalShares", "roundingReserve", "unallocatedRewards", "terminalRounding"}

U64Fields ==
  {"amount", "epoch", "firstEpoch", "feeBps", "oldFeeBps", "newFeeBps", "feeAmount",
   "grossAmount", "reflectionFee", "ammFee", "netReserveInput", "grossPoolOutput",
   "netUserReceipt", "trflReserveAfter", "tusdReserveAfter", "trflAmount", "tusdAmount",
   "received", "registeredWalletCount", "remainingSlots", "exclusionSlots"}

\* Shares of the pool are u128, tokens u64.
IsLpShareEvent(e) == e.type \in {"LpSharesChanged", "LpSharesTransferred"}

assertProtocolEventMoveDomains(e) ==
  /\ \A f \in DOMAIN e \cap U256Fields : u256(e[f])
  /\ \A f \in DOMAIN e \cap U128Fields : u128(e[f])
  /\ \A f \in DOMAIN e \cap U64Fields : u64(e[f]) \/ (IsLpShareEvent(e) /\ u128(e[f]))

walletInDomain(position) ==
  /\ u64(position.trfl) /\ u64(position.tusd)
  /\ signedU256(position.correction)
  /\ u256(position.claimed) /\ u256(position.lifetimeClaimed)

epochInDomain(epoch) ==
  /\ \A x \in {epoch.index, epoch.indexRemainder, epoch.retiredResidueMagnified,
               epoch.lifetimeReceived, epoch.lifetimeClaimed} : u256(x)
  /\ \A x \in {epoch.totalShares, epoch.unallocatedRewards, epoch.roundingReserve} : u128(x)
  /\ epoch.terminalRounding = NotClassified \/ u128(epoch.terminalRounding)
  /\ signedU256(epoch.aggregateCorrection)
  /\ \A owner \in DOMAIN epoch.positions :
       /\ u128(epoch.positions[owner].shares) /\ u256(epoch.positions[owner].claimed)
       /\ signedU256(epoch.positions[owner].correction)

assertProjectionMoveDomains(p) ==
  /\ \A x \in {p.exclusionSlots, p.exclusionsRemaining, p.registeredWalletCount,
               p.feeBps, p.pool.trfl, p.pool.tusd} : u64(x)
  /\ \A x \in {p.eligibleSupply, p.unallocatedFees, p.roundingReserve,
               p.custody.shares} : u128(x)
  /\ \A x \in {p.index, p.indexRemainder, p.lifetimeSwapFees, p.lifetimeMaterialized,
               p.lifetimeCustodyRouted, p.custody.claimed} : u256(x)
  /\ signedU256(p.aggregateCorrection) /\ signedU256(p.custody.correction)
  /\ \A a \in DOMAIN p.positions : walletInDomain(p.positions[a])
  /\ \A k \in DOMAIN p.lpEpochs : epochInDomain(p.lpEpochs[k])

-----------------------------------------------------------------------------
(* What the group as a whole must satisfy, before any event is applied.    *)
(* Each check is the set of codes it raises.                               *)

when(condition, code) == IF condition THEN {code} ELSE {}

\* The positions of the events of a type.
At(evs, types) == {i \in 1 .. Len(evs) : evs[i].type \in types}
Count(evs, types) == Cardinality(At(evs, types))

Receipts == {"LiquiditySeeded", "LiquidityAdded", "LiquidityRemoved"}

\* The event of a type that occurs once.
The(evs, types) == evs[CHOOSE i \in At(evs, types) : TRUE]

accountStateSubjects(e) ==
  CASE e.type \in {"PositionCreated", "EligibleBalanceDebited", "EligibleBalanceCredited",
                   "RewardsMaterialized", "RewardsClaimed", "SwapExecuted", "FaucetGrant"}
         -> {e.account}
    [] e.type = "WalletTransfer" -> {e.from, e.to}
    [] e.type \in Receipts -> {e.provider}
    [] e.type \in {"LpSharesChanged", "LpRewardsClaimed", "LpFractionalResidueRetired"}
         -> {e.owner}
    [] e.type = "LpSharesTransferred" -> {e.sender, e.recipient}
    [] OTHER -> {}

RegistrationPrecedes(evs) ==
  when(\E i \in At(evs, {"WalletRegistered"}) : \E j \in 1 .. i - 1 :
         evs[i].account \in accountStateSubjects(evs[j]),
       "WALLET_REGISTRATION")

OneReceipt(evs) ==
  LET swaps == Count(evs, {"SwapExecuted"})
      liquidity == Count(evs, Receipts)
  IN  when(swaps > 1 \/ liquidity > 1, "TRANSACTION_GROUP")
      \cup when(/\ swaps + liquidity > 0
                /\ At(evs, {"EligibleBalanceDebited", "EligibleBalanceCredited",
                            "WalletTransfer"}) /= {},
                "DOUBLE_COUNTING")

\* The reserve moves by exactly one equal change of the custody shares.
CustodyReceipt(evs) ==
  LET changes == At(evs, {"CustodySharesChanged"})
      swap == The(evs, {"SwapExecuted"})
      receipt == The(evs, Receipts)
      expected ==
        IF Count(evs, {"SwapExecuted"}) = 1
        THEN [added |-> swap.direction = "sell",
              amount |-> IF swap.direction = "sell" THEN swap.netReserveInput
                                                    ELSE swap.grossPoolOutput]
        ELSE [added |-> receipt.type /= "LiquidityRemoved", amount |-> receipt.trflAmount]
  IN  IF \/ Count(evs, {"SwapExecuted"}) = 1
         \/ Count(evs, {"SwapExecuted"}) /= 1 /\ Count(evs, Receipts) = 1 /\ receipt.trflAmount > 0
      THEN when(\/ Cardinality(changes) /= 1
                \/ \E i \in changes : \/ evs[i].added /= expected.added
                                      \/ evs[i].amount /= expected.amount,
                IF Cardinality(changes) > 1 THEN "DOUBLE_COUNTING" ELSE "RESERVE_CUSTODY")
      ELSE when(changes /= {}, "TRANSACTION_GROUP")

RoutesPaired(evs) ==
  when(Count(evs, {"CustodyRewardsRouted"})
         /= Count(evs, {"LpRewardIndexAdvanced", "LpRewardQuarantined"}),
       "ROUTE_PAIR")

OpeningsPaired(prior, evs) ==
  LET openings == At(evs, {"LpEpochOpened"})
      routed(o) == IF DOMAIN prior.lpEpochs = {}
                   THEN {i \in At(evs, {"CustodyAdapterRegistered"}) :
                           evs[i].firstEpoch = evs[o].epoch /\ evs[i].vault = evs[o].vault}
                   ELSE {i \in At(evs, {"CustodyEpochRouteOpened"}) :
                           evs[i].epoch = evs[o].epoch /\ evs[i].vault = evs[o].vault}
      opened(r) == \E o \in openings : evs[o].epoch = evs[r].epoch /\ evs[o].vault = evs[r].vault
  IN  when(\/ \E o \in openings : Cardinality(routed(o)) /= 1
           \/ \E r \in At(evs, {"CustodyEpochRouteOpened"}) : ~opened(r),
           "ROUTE_PAIR")

TerminalTransitions(evs) ==
  {i \in At(evs, {"LpEpochStatusChanged"}) : evs[i].newStatus = "claim-only"}

Classifications(evs) == At(evs, {"LpEpochTerminalDustClassified"})

\* Every end of an epoch is followed by one classification of its dust, and
\* every classification follows one end.
TerminalsPaired(evs) ==
  LET follows(c, t) == c > t /\ evs[c].epoch = evs[t].epoch
  IN  when(\/ \E t \in TerminalTransitions(evs) :
                Cardinality({c \in Classifications(evs) : follows(c, t)}) /= 1
           \/ \E c \in Classifications(evs) :
                Cardinality({t \in TerminalTransitions(evs) : follows(c, t)}) /= 1,
           "LP_ACCOUNTING")

\* The exits of an owner after position r: burns of the whole position, and
\* transfers.
Exits(evs, r) ==
  {i \in r + 1 .. Len(evs) :
     \/ /\ evs[i].type = "LpSharesChanged" /\ ~evs[i].added /\ evs[i].ownerShares = 0
        /\ evs[i].epoch = evs[r].epoch /\ evs[i].owner = evs[r].owner
     \/ /\ evs[i].type = "LpSharesTransferred"
        /\ evs[i].epoch = evs[r].epoch /\ evs[i].sender = evs[r].owner}

ResiduesPrecedeExits(evs) ==
  when(\E r \in At(evs, {"LpFractionalResidueRetired"}) : Cardinality(Exits(evs, r)) /= 1,
       "LP_ACCOUNTING")

SeedFormula(prior, receipt) ==
  LET held == IF receipt.epoch \in DOMAIN prior.lpEpochs
              THEN prior.lpEpochs[receipt.epoch].totalShares ELSE 0
  IN  when(\/ prior.pool.trfl /= 0 \/ prior.pool.tusd /= 0 \/ held /= 0
           \/ receipt.lpShares /= integerSqrt(receipt.trflAmount * receipt.tusdAmount),
           "LP_ACCOUNTING")

AdditionFormula(prior, epoch, receipt) ==
  when(\/ epoch.totalShares <= 0 \/ prior.pool.trfl <= 0 \/ prior.pool.tusd <= 0
       \/ receipt.trflAmount /= ceilDiv(receipt.lpShares * prior.pool.trfl, epoch.totalShares)
       \/ receipt.tusdAmount /= ceilDiv(receipt.lpShares * prior.pool.tusd, epoch.totalShares),
       "LP_ACCOUNTING")

\* A final exit: in shutdown, with the burn of the last shares, the end of the
\* epoch, its classification and the receipt, in this order.
FinalExitOrdered(prior, evs, receipt) ==
  LET r == CHOOSE i \in At(evs, Receipts) : TRUE
      burns == {i \in 1 .. r - 1 :
                  /\ evs[i].type = "LpSharesChanged" /\ ~evs[i].added
                  /\ evs[i].epoch = receipt.epoch /\ evs[i].owner = receipt.provider
                  /\ evs[i].amount = receipt.lpShares
                  /\ evs[i].ownerShares = 0 /\ evs[i].totalShares = 0}
      ends == {t \in TerminalTransitions(evs) : evs[t].epoch = receipt.epoch}
      dust == {c \in Classifications(evs) : evs[c].epoch = receipt.epoch}
  IN  /\ prior.pool.shutdownMode /\ receipt.finalExit
      /\ Cardinality(burns) = 1 /\ Cardinality(ends) = 1 /\ Cardinality(dust) = 1
      /\ \A b \in burns, t \in ends, c \in dust :
           b < t /\ t < c /\ c < r /\ evs[t].oldStatus = "active"

RemovalFormula(prior, evs, epoch, receipt) ==
  LET fullExit == receipt.lpShares = epoch.totalShares
      expected(reserve) == IF fullExit THEN reserve
                           ELSE (receipt.lpShares * reserve) \div epoch.totalShares
      ended == \E i \in TerminalTransitions(evs) \cup Classifications(evs) :
                 evs[i].epoch = receipt.epoch
  IN  IF epoch.totalShares <= 0 \/ receipt.lpShares > epoch.totalShares
      THEN {"LP_ACCOUNTING"}
      ELSE when(\/ receipt.trflAmount /= expected(prior.pool.trfl)
                \/ receipt.tusdAmount /= expected(prior.pool.tusd)
                \/ receipt.finalExit /= fullExit
                \/ fullExit /\ ~FinalExitOrdered(prior, evs, receipt)
                \/ ~fullExit /\ ended,
                "LP_ACCOUNTING")
           \cup when(/\ ~fullExit /\ ~prior.pool.shutdownMode
                     /\ receipt.lpShares * BPS_DENOMINATOR
                          > epoch.totalShares * prior.pool.withdrawalBps,
                     "POOL_LIMITS")

\* The amounts of a liquidity receipt follow from the reserves before it.
LiquidityFormula(prior, evs) ==
  LET receipt == The(evs, Receipts)
      epoch == prior.lpEpochs[receipt.epoch]
      freshReseed == /\ receipt.type = "LiquiditySeeded"
                     /\ receipt.epoch \notin DOMAIN prior.lpEpochs
                     /\ prior.activeLpEpoch = NoEpoch
                     /\ \E o \in At(evs, {"LpEpochOpened"}) : evs[o].epoch = receipt.epoch
      active == /\ receipt.epoch \in DOMAIN prior.lpEpochs
                /\ prior.activeLpEpoch = receipt.epoch
  IN  CASE Count(evs, Receipts) /= 1 -> {}
        [] ~freshReseed /\ ~active -> {"LP_ACCOUNTING"}
        [] receipt.type = "LiquiditySeeded" -> SeedFormula(prior, receipt)
        [] receipt.type = "LiquidityAdded" -> AdditionFormula(prior, epoch, receipt)
        [] receipt.type = "LiquidityRemoved" -> RemovalFormula(prior, evs, epoch, receipt)

\* An explicit claim reports the one materialization it made.
ClaimsPaired(evs) ==
  LET paid(k) == {i \in At(evs, {"RewardsMaterialized"}) :
                    evs[i].account = evs[k].account /\ evs[i].amount = evs[k].amount}
  IN  when(\E k \in At(evs, {"RewardsClaimed"}) :
             \/ Cardinality(paid(k)) /= 1
             \/ \E i \in paid(k) : evs[i].totalClaimed /= evs[k].totalClaimed,
           "DOUBLE_COUNTING")

GroupAlerts(prior, evs) ==
  RegistrationPrecedes(evs) \cup OneReceipt(evs) \cup CustodyReceipt(evs)
    \cup RoutesPaired(evs) \cup OpeningsPaired(prior, evs) \cup TerminalsPaired(evs)
    \cup ResiduesPrecedeExits(evs) \cup LiquidityFormula(prior, evs) \cup ClaimsPaired(evs)

-----------------------------------------------------------------------------
(* The replay of one event.  A context c is what the loop carries: the     *)
(* projection so far, the alerts, the fees without an index receipt yet,   *)
(* the routes paired with one, whether a sale has been taken from its      *)
(* wallet, and whether the replay has thrown.                              *)

context(p, alerts) ==
  [next |-> p, alerts |-> alerts, fees |-> << >>, consumed |-> {},
   debited |-> FALSE, thrown |-> FALSE]

raise(c, codes) == [c EXCEPT !.alerts = @ \cup codes]
require(c, condition) == [c EXCEPT !.thrown = @ \/ ~condition]

adjustTusd(c, account, delta) ==
  LET current == positionOrEmpty(c.next, account)
  IN  require([c EXCEPT !.next.positions =
                 set(@, account, [current EXCEPT !.tusd = @ + delta])],
              current.tusd + delta >= 0)

\* A balance changes at the current index, so the correction takes the
\* difference and what is pending stays.
adjustTrfl(c, account, delta) ==
  LET current == positionOrEmpty(c.next, account)
      shift == -delta * c.next.index
  IN  require([c EXCEPT
                 !.next.positions = set(@, account,
                   [current EXCEPT !.trfl = @ + delta, !.correction = @ + shift]),
                 !.next.eligibleSupply = @ + delta,
                 !.next.aggregateCorrection = @ + shift],
              /\ current.trfl + delta >= 0
              /\ c.next.eligibleSupply + delta >= 0
              /\ signedU256(shift) /\ signedU256(current.correction + shift)
              /\ signedU256(c.next.aggregateCorrection + shift))

adjustWalletAsset(c, account, asset, delta) ==
  IF asset = "tUSD" THEN adjustTusd(c, account, delta) ELSE adjustTrfl(c, account, delta)

materializeWallet(c, e) ==
  LET owed == walletPending(positionOrEmpty(c.next, e.account), c.next.index)
      paid == adjustTrfl(c, e.account, e.amount)
      claimed == positionOrEmpty(c.next, e.account).claimed + e.amount
  IN  raise(require([paid EXCEPT
                       !.next.positions[e.account].claimed = claimed,
                       !.next.lifetimeMaterialized = @ + e.amount],
                    e.amount > 0 /\ owed >= 0),
            when(e.amount > owed \/ claimed /= e.totalClaimed, "POSITION_ACCOUNTING"))

(* Creation, launch and configuration *)

IsV02(c) == c.next.packageVersion = V02

OnProtocolInitialized(c, e) ==
  raise([c EXCEPT !.next =
           [@ EXCEPT !.packageVersion = e.packageVersion,
                     !.networkLabel = e.networkLabel,
                     !.exclusionSlots = e.exclusionSlots,
                     !.exclusionsRemaining = e.exclusionSlots,
                     !.automaticMaterialization = e.automaticMaterialization,
                     !.feeBps = e.feeBps,
                     !.index = e.initialIndex]],
        when(c.next.packageVersion /= Uninitialized, "IDENTIFIER_REUSE")
          \cup when(\/ e.feeBps > LEGACY_MAX_FEE
                    \/ e.networkLabel /= "cedra-testnet" \/ e.exclusionSlots /= 2,
                    "EVENT_DATA"))

OnTokenCreated(c, e) ==
  raise([c EXCEPT !.next =
           [@ EXCEPT !.packageVersion = e.packageVersion,
                     !.networkLabel = e.networkLabel,
                     !.exclusionSlots = 0, !.exclusionsRemaining = 0,
                     !.automaticMaterialization = TRUE,
                     !.feeBps = e.feeBps,
                     !.lifecycle = "CONFIGURING"]],
        when(c.next.packageVersion /= Uninitialized, "IDENTIFIER_REUSE")
          \cup when(\/ e.packageVersion /= V02 \/ e.networkLabel /= "cedra-testnet"
                    \/ e.feeBps > MAX_FEE,
                    "EVENT_DATA"))

OnLaunchSealed(c, e) ==
  raise([c EXCEPT !.next =
           [@ EXCEPT !.lifecycle = "LIVE", !.deploymentReady = TRUE,
                     !.faucet = e.envelope.faucet,
                     !.pool.swapLimits = e.envelope.swapLimits,
                     !.pool.contributions = e.envelope.contributions,
                     !.pool.withdrawalBps = e.envelope.withdrawalBps]],
        when(\/ ~IsV02(c) \/ c.next.lifecycle /= "CONFIGURING"
             \/ e.feeBps /= c.next.feeBps \/ e.feeBps > MAX_FEE
             \/ e.envelope /= LaunchEnvelope \/ e.lpShares <= 0,
             "EVENT_DATA"))

OnPoolClosed(c, e) ==
  raise([c EXCEPT !.next.lifecycle = "CLOSED"],
        when(\/ ~IsV02(c) \/ c.next.lifecycle /= "LIVE" \/ e.epoch /= 1
             \/ e.trflReserveAfter /= c.next.pool.trfl
             \/ e.tusdReserveAfter /= c.next.pool.tusd,
             "EVENT_DATA"))

OnProtocolPrimaryStoreExcluded(c, e) ==
  raise([c EXCEPT !.next.excluded = @ \cup {e.account},
                  !.next.exclusionsRemaining = e.remainingSlots],
        when(\/ e.account = ZeroAddress
             \/ c.next.exclusionsRemaining <= 0
             \/ e.remainingSlots /= c.next.exclusionsRemaining - 1
             \/ e.account \in c.next.excluded \cup c.next.registered,
             "IDENTIFIER_REUSE"))

OnOperationalPrimaryStoreExcluded(c, e) ==
  raise([c EXCEPT !.next.excluded = @ \cup {e.account}],
        when(\/ e.account = ZeroAddress
             \/ e.account \in c.next.excluded \cup c.next.registered,
             "IDENTIFIER_REUSE"))

OnWalletRegistered(c, e) ==
  raise([c EXCEPT !.next.registered = @ \cup {e.account},
                  !.next.registeredWalletCount = e.registeredWalletCount],
        when(\/ e.account = ZeroAddress
             \/ e.registeredWalletCount /= c.next.registeredWalletCount + 1
             \/ e.account \in c.next.registered \cup c.next.excluded,
             "WALLET_REGISTRATION"))

OnPositionCreated(c, e) ==
  raise([c EXCEPT !.next.positions = set(@, e.account, positionOrEmpty(c.next, e.account))],
        when(e.account \in DOMAIN c.next.positions, "IDENTIFIER_REUSE"))

OnFaucetGrant(c, e) ==
  adjustWalletAsset(require(c, e.amount > 0), e.account, e.asset, e.amount)

OnFaucetConfigured(c, e) ==
  raise([c EXCEPT !.next.faucet = e.faucet],
        when(e.faucet.trflGrant <= 0 \/ e.faucet.tusdGrant <= 0, "EVENT_DATA"))

OnPoolReserveBound(c, e) ==
  raise([c EXCEPT !.next.mockUsdPoolReserve = e.reserveStore],
        when(\/ c.next.mockUsdPoolReserve /= Null \/ e.reserveStore = ZeroAddress,
             "IDENTIFIER_REUSE"))

(* Wallets *)

OnWalletTransfer(c, e, evs) ==
  LET matching(type, account) ==
        {i \in At(evs, {type}) : evs[i].account = account /\ evs[i].amount = e.amount}
      disagrees(type, account) ==
        At(evs, {type}) /= {} /\ Cardinality(matching(type, account)) /= 1
  IN  raise(require(c, e.amount > 0),
            when(\/ disagrees("EligibleBalanceDebited", e.from)
                 \/ disagrees("EligibleBalanceCredited", e.to),
                 "DOUBLE_COUNTING"))

OnEligibleBalanceDebited(c, e) == adjustTrfl(require(c, e.amount > 0), e.account, -e.amount)

OnEligibleBalanceCredited(c, e) == adjustTrfl(require(c, e.amount > 0), e.account, e.amount)

OnRewardsClaimed(c, e) ==
  LET current == positionOrEmpty(c.next, e.account)
  IN  require([c EXCEPT !.next.positions =
                 set(@, e.account, [current EXCEPT !.lifetimeClaimed = @ + e.amount])],
              e.amount > 0)

(* Custody and the global index *)

vaultInUse(p, vault) == \E k \in DOMAIN p.lpEpochs : p.lpEpochs[k].vault = vault

OnCustodyAdapterRegistered(c, e) ==
  raise([c EXCEPT !.next.custody =
           [@ EXCEPT !.adapter = e.adapter, !.routeEpoch = e.firstEpoch,
                     !.routeVault = e.vault]],
        when(\/ e.firstEpoch /= 1 \/ c.next.custody.adapter /= Null
             \/ vaultInUse(c.next, e.vault),
             "IDENTIFIER_REUSE"))

\* A new epoch's route starts from the fraction the last one left behind.
OnCustodyEpochRouteOpened(c, e) ==
  LET p == c.next
      residue == p.custody.correction - p.custody.claimed * MAGNITUDE
      continues == /\ p.custody.adapter = e.adapter
                   /\ e.epoch \in DOMAIN p.lpEpochs
                   /\ p.lpEpochs[e.epoch].vault = e.vault
                   /\ p.lpEpochs[e.epoch].status = "active"
                   /\ p.activeLpEpoch = e.epoch
                   /\ p.custody.shares = 0 /\ custodyPending(p) = 0
  IN  raise(require([c EXCEPT
                       !.next.aggregateCorrection = @ - e.retiredResidueMagnified,
                       !.next.custody =
                         [@ EXCEPT !.routeEpoch = e.epoch, !.routeVault = e.vault,
                                   !.correction = @ - e.retiredResidueMagnified]],
                    p.custody.correction >= 0 /\ residue >= 0),
            when(~continues, "VAULT_BINDING")
              \cup when(/\ p.custody.routeEpoch /= NoEpoch
                        /\ e.epoch /= p.custody.routeEpoch + 1, "OLD_EPOCH_ROUTE")
              \cup when(residue >= MAGNITUDE \/ e.retiredResidueMagnified /= residue,
                        "CUSTODY_ACCOUNTING"))

\* Mutant: a sale leaves its wallet only with the receipt.
SaleStays(c, evs) == c

\* A sale leaves its wallet before its fee is spread, so the seller has no
\* part in it.
DebitSale(c, evs) ==
  LET swap == The(evs, {"SwapExecuted"})
  IN  IF At(evs, {"SwapExecuted"}) /= {} /\ swap.direction = "sell" /\ ~c.debited
      THEN [adjustTrfl(c, swap.account, -swap.grossAmount) EXCEPT !.debited = TRUE]
      ELSE c

OnReflectionFeeCollected(c, e, evs) ==
  LET sold == DebitSale(c, evs)
      fee == (e.grossAmount * e.feeBps) \div BPS_DENOMINATOR
      collected == [sold EXCEPT
        !.next.lifetimeSwapFees = @ + e.feeAmount,
        !.fees = Append(@, [fee |-> e.feeAmount, shares |-> sold.next.eligibleSupply])]
  IN  raise(collected,
            when(\/ e.feeBps > (IF IsV02(c) THEN MAX_FEE ELSE LEGACY_MAX_FEE)
                 \/ e.feeBps /= c.next.feeBps \/ e.feeAmount /= fee,
                 "FEE_FORMULA"))

OnReflectionIndexAdvanced(c, e) ==
  LET collected == Head(c.fees)
      taken == [c EXCEPT !.fees = Tail(@)]
      numerator == collected.fee * MAGNITUDE + c.next.indexRemainder
      expected == c.next.index + numerator \div collected.shares
  IN  CASE c.fees = << >> -> raise(c, {"TRANSACTION_GROUP"})
        [] c.fees /= << >> /\ collected.shares <= 0 -> raise(taken, {"GLOBAL_INDEX"})
        [] OTHER ->
             raise(require([taken EXCEPT !.next.index = e.newIndex,
                                         !.next.indexRemainder = e.indexRemainder],
                           u256(numerator) /\ u256(expected)),
                   when(\/ e.feeAmount /= collected.fee
                        \/ e.previousIndex /= c.next.index
                        \/ e.newIndex /= expected
                        \/ e.indexRemainder /= numerator % collected.shares
                        \/ e.eligibleSupply /= collected.shares
                        \/ e.eligibleSupply /= c.next.eligibleSupply,
                        "GLOBAL_INDEX"))

OnCustodySharesChanged(c, e) ==
  LET delta == IF e.added THEN e.amount ELSE -e.amount
      shift == -delta * c.next.index
      shares == c.next.custody.shares + delta
      supply == c.next.eligibleSupply + delta
  IN  raise(require([c EXCEPT !.next.custody.shares = shares,
                              !.next.custody.correction = @ + shift,
                              !.next.eligibleSupply = supply,
                              !.next.aggregateCorrection = @ + shift],
                    /\ e.amount > 0 /\ shares >= 0
                    /\ signedU256(shift)
                    /\ signedU256(c.next.custody.correction + shift)
                    /\ signedU256(c.next.aggregateCorrection + shift)),
            when(shares /= e.custodyShares \/ supply /= e.globalShares,
                 "CUSTODY_ACCOUNTING"))

OnCustodyRewardsRouted(c, e) ==
  LET p == c.next
      claimed == p.custody.claimed + e.amount
      owed == custodyPending(p)
  IN  raise(require([c EXCEPT !.next.custody.claimed = claimed,
                              !.next.lifetimeCustodyRouted = @ + e.amount],
                    owed >= 0),
            when(e.epoch \notin DOMAIN p.lpEpochs, "LP_ACCOUNTING")
              \cup when(p.activeLpEpoch /= e.epoch \/ p.custody.routeEpoch /= e.epoch,
                        "OLD_EPOCH_ROUTE")
              \cup when(\/ e.epoch \in DOMAIN p.lpEpochs /\ p.lpEpochs[e.epoch].vault /= e.vault
                        \/ p.custody.routeVault /= e.vault, "VAULT_BINDING")
              \cup when(e.amount /= owed \/ e.amount <= 0 \/ claimed /= e.totalRouted,
                        "CUSTODY_ACCOUNTING"))

(* LP epochs.  withEpoch is requireEpoch: an event of an unknown epoch only *)
(* raises.                                                                  *)

withEpoch(c, e, op(_)) ==
  IF e.epoch \in DOMAIN c.next.lpEpochs THEN op(c.next.lpEpochs[e.epoch])
  ELSE raise(c, {"LP_ACCOUNTING"})

updateEpoch(c, id, epoch) == [c EXCEPT !.next.lpEpochs = set(@, id, epoch)]

OnLpEpochOpened(c, e) ==
  IF \/ e.epoch \in DOMAIN c.next.lpEpochs
     \/ vaultInUse(c.next, e.vault)
     \/ c.next.activeLpEpoch /= NoEpoch
  THEN raise(c, {"IDENTIFIER_REUSE"})
  ELSE [updateEpoch(c, e.epoch, newEpoch(e.vault)) EXCEPT !.next.activeLpEpoch = e.epoch]

OnLpEpochStatusChanged(c, e) ==
  LET apply(epoch) ==
        LET changed == updateEpoch(c, e.epoch, [epoch EXCEPT !.status = e.newStatus])
        IN  raise(IF e.newStatus = "claim-only"
                  THEN [changed EXCEPT !.next.activeLpEpoch = NoEpoch] ELSE changed,
                  when(\/ e.oldStatus /= "active" \/ e.newStatus /= "claim-only"
                       \/ epoch.status /= e.oldStatus
                       \/ /\ e.newStatus = "claim-only"
                          /\ c.next.activeLpEpoch /= e.epoch \/ epoch.totalShares /= 0,
                       "LP_ACCOUNTING"))
  IN  withEpoch(c, e, apply)

\* An owner who leaves gives up the fraction of a unit the index left over.
OnLpFractionalResidueRetired(c, e, evs, at) ==
  LET apply(epoch) ==
        LET current == lpPositionOrEmpty(epoch, e.owner)
            exits == Exits(evs, at)
            exitAmount == IF exits = {} THEN 0
                          ELSE evs[CHOOSE i \in exits : \A j \in exits : i <= j].amount
            correctionAfterExit == current.correction + current.shares * epoch.index
            residue == correctionAfterExit - current.claimed * MAGNITUDE
            cumulative == epoch.retiredResidueMagnified + residue
            retired ==
              [epoch EXCEPT
                 !.positions = set(@, e.owner, [current EXCEPT !.correction = @ - residue]),
                 !.aggregateCorrection = @ - residue,
                 !.retiredResidueMagnified = cumulative]
            rounding == lpRemainder(retired)
        IN  CASE \/ e.residueMagnified <= 0 \/ e.owner \notin DOMAIN epoch.positions
                 \/ current.shares <= 0 \/ exitAmount /= current.shares
                   -> raise(c, {"LP_ACCOUNTING"})
              [] correctionAfterExit < 0 \/ residue < 0 -> require(c, FALSE)
              [] \/ residue \notin 1 .. MAGNITUDE - 1
                 \/ e.residueMagnified /= residue
                 \/ e.cumulativeRetiredResidueMagnified /= cumulative
                   -> raise(c, {"LP_ACCOUNTING"})
              [] OTHER ->
                   raise(require(updateEpoch(c, e.epoch,
                                   [retired EXCEPT !.roundingReserve = rounding]),
                                 rounding >= 0),
                         when(e.roundingReserve /= rounding, "LP_VAULT_BACKING"))
  IN  withEpoch(c, e, apply)

OnLpEpochTerminalDustClassified(c, e) ==
  LET apply(epoch) ==
        raise(require(updateEpoch(c, e.epoch,
                        [epoch EXCEPT !.terminalRounding = epoch.roundingReserve]),
                      lpIndexedLiability(epoch) >= 0 /\ expectedLpVaultBalance(epoch) >= 0),
              when(\/ epoch.status /= "claim-only"
                   \/ epoch.terminalRounding /= NotClassified
                   \/ epoch.vault /= e.vault
                   \/ epoch.totalShares /= 0 \/ epoch.quarantined
                   \/ epoch.unallocatedRewards /= 0
                   \/ lpIndexedLiability(epoch) /= 0
                   \/ expectedLpVaultBalance(epoch) /= epoch.roundingReserve
                   \/ e.terminalRounding /= epoch.roundingReserve
                   \/ e.retiredResidueMagnified /= epoch.retiredResidueMagnified
                   \/ e.lifetimeReceived /= epoch.lifetimeReceived
                   \/ e.lifetimeClaimed /= epoch.lifetimeClaimed,
                   "LP_ACCOUNTING"))
  IN  withEpoch(c, e, apply)

adjustLpShares(c, e) ==
  LET apply(epoch) ==
        LET current == lpPositionOrEmpty(epoch, e.owner)
            delta == IF e.added THEN e.amount ELSE -e.amount
            shift == -delta * epoch.index
            shares == current.shares + delta
            total == epoch.totalShares + delta
            unregistered == when(e.owner \notin c.next.registered, "WALLET_REGISTRATION")
        IN  CASE epoch.status /= "active" \/ epoch.quarantined \/ e.amount <= 0
                   -> raise(c, {"LP_ACCOUNTING"})
              [] shares < 0 \/ total < 0 -> raise(c, {"LP_ACCOUNTING"} \cup unregistered)
              [] OTHER ->
                   raise(require(updateEpoch(c, e.epoch,
                           [epoch EXCEPT
                              !.totalShares = total, !.aggregateCorrection = @ + shift,
                              !.positions = set(@, e.owner,
                                [current EXCEPT !.shares = shares, !.correction = @ + shift])]),
                           /\ signedU256(shift) /\ signedU256(current.correction + shift)
                           /\ signedU256(epoch.aggregateCorrection + shift)),
                         unregistered
                           \cup when(shares /= e.ownerShares \/ total /= e.totalShares,
                                     "LP_ACCOUNTING"))
  IN  withEpoch(c, e, apply)

OnLpSharesTransferred(c, e) ==
  LET apply(epoch) ==
        LET shift == e.amount * epoch.index
            from == lpPositionOrEmpty(epoch, e.sender)
            to == lpPositionOrEmpty(epoch, e.recipient)
            unregistered == when({e.sender, e.recipient} \ c.next.registered /= {},
                                 "WALLET_REGISTRATION")
            moved == set(set(epoch.positions,
              e.sender, [from EXCEPT !.shares = @ - e.amount, !.correction = @ + shift]),
              e.recipient, [to EXCEPT !.shares = @ + e.amount, !.correction = @ - shift])
        IN  CASE epoch.status /= "active" \/ epoch.quarantined \/ e.amount <= 0
                   -> raise(c, {"LP_ACCOUNTING"})
              [] from.shares < e.amount \/ e.sender = e.recipient
                   -> raise(c, {"LP_ACCOUNTING"} \cup unregistered)
              [] OTHER -> raise(require(updateEpoch(c, e.epoch, [epoch EXCEPT !.positions = moved]),
                                        signedU256(from.correction + shift)
                                          /\ signedU256(to.correction - shift)),
                                unregistered)
  IN  withEpoch(c, e, apply)

\* The first unpaired route of the same amount before position at.
Unpaired(c, evs, at, amount, vault) ==
  {i \in At(evs, {"CustodyRewardsRouted"}) \ c.consumed :
     /\ i < at /\ evs[i].epoch = evs[at].epoch
     /\ evs[i].amount = amount /\ evs[i].vault = vault}

consume(c, routes) ==
  IF routes = {} THEN raise(c, {"ROUTE_PAIR"})
  ELSE [c EXCEPT !.consumed = @ \cup {CHOOSE i \in routes : \A j \in routes : i <= j}]

OnLpRewardIndexAdvanced(c, e, evs, at) ==
  LET apply(epoch) ==
        LET paired == raise(consume(c, Unpaired(c, evs, at, e.received, epoch.vault)),
                            when(c.next.activeLpEpoch /= e.epoch, "OLD_EPOCH_ROUTE"))
            numerator == e.received * MAGNITUDE + epoch.indexRemainder
            advanced == [epoch EXCEPT !.index = e.newIndex,
                                      !.indexRemainder = e.indexRemainder,
                                      !.lifetimeReceived = @ + e.received]
            rounding == lpRemainder(advanced)
            expected == epoch.index + numerator \div epoch.totalShares
        IN  IF epoch.totalShares <= 0 THEN raise(paired, {"LP_ACCOUNTING"})
            ELSE raise(require(updateEpoch(paired, e.epoch,
                                 [advanced EXCEPT !.roundingReserve = rounding]),
                               rounding >= 0 /\ u256(numerator) /\ u256(expected)),
                       when(\/ e.previousIndex /= epoch.index
                            \/ e.newIndex /= expected
                            \/ e.indexRemainder /= numerator % epoch.totalShares
                            \/ e.totalShares /= epoch.totalShares
                            \/ e.roundingReserve /= rounding,
                            "LP_ACCOUNTING"))
  IN  withEpoch(c, e, apply)

OnLpRewardQuarantined(c, e, evs, at) ==
  LET apply(epoch) ==
        LET held == [epoch EXCEPT !.lifetimeReceived = @ + e.amount,
                                  !.unallocatedRewards = @ + e.amount,
                                  !.quarantined = TRUE]
            paired == consume(c, Unpaired(c, evs, at, e.amount, e.vault))
        IN  raise(require(updateEpoch(paired, e.epoch,
                            [held EXCEPT !.roundingReserve = lpRemainder(held)]),
                          lpRemainder(held) >= 0),
                  when(\/ c.next.activeLpEpoch /= e.epoch \/ epoch.status /= "active"
                       \/ epoch.totalShares /= 0 \/ epoch.vault /= e.vault
                       \/ held.unallocatedRewards /= e.unallocatedRewards,
                       "LP_ACCOUNTING"))
  IN  withEpoch(c, e, apply)

\* The claim, and its payment at the wallet's current index.
OnLpRewardsClaimed(c, e) ==
  LET apply(epoch) ==
        LET current == lpPositionOrEmpty(epoch, e.owner)
            owed == lpPositionPending(current, epoch)
            claimed == current.claimed + e.amount
            booked == updateEpoch(c, e.epoch,
              [epoch EXCEPT !.positions = set(@, e.owner, [current EXCEPT !.claimed = claimed]),
                            !.lifetimeClaimed = @ + e.amount])
        IN  raise(adjustTrfl(require(booked, owed >= 0), e.owner, e.amount),
                  when(e.amount <= 0 \/ e.amount > owed, "LP_ACCOUNTING")
                    \cup when(claimed /= e.totalClaimed, "POSITION_ACCOUNTING"))
  IN  withEpoch(c, e, apply)

(* The receipts of the pool *)

\* The wallet's side of a swap.
SwapWallet(c, e, evs) ==
  IF e.direction = "sell"
  THEN adjustTusd(DebitSale(c, evs), e.account, e.netUserReceipt)
  ELSE adjustTrfl(adjustTusd(c, e.account, -e.grossAmount), e.account, e.netUserReceipt)

\* What the constant product and the two fees say the receipt must be.
SwapFormula(p, e) ==
  LET sell == e.direction = "sell"
      fee == ((IF sell THEN e.grossAmount ELSE e.grossPoolOutput) * p.feeBps)
               \div BPS_DENOMINATOR
      ammInput == IF sell THEN e.netReserveInput ELSE e.grossAmount
      invariantInput == (ammInput * (BPS_DENOMINATOR - p.pool.swapLimits.ammFeeBps))
                          \div BPS_DENOMINATOR
      reserveIn == IF sell THEN p.pool.trfl ELSE p.pool.tusd
      reserveOut == IF sell THEN p.pool.tusd ELSE p.pool.trfl
      output == (reserveOut * invariantInput) \div (reserveIn + invariantInput)
  IN  /\ e.reflectionFee = fee
      /\ e.netReserveInput = IF sell THEN e.grossAmount - e.reflectionFee ELSE e.grossAmount
      /\ e.ammFee = ammInput - invariantInput
      /\ e.grossPoolOutput = output
      /\ e.netUserReceipt = IF sell THEN output ELSE output - fee

OnSwapExecuted(c, e, evs) ==
  LET p == c.next
      sell == e.direction = "sell"
      trfl == IF sell THEN p.pool.trfl + e.netReserveInput ELSE p.pool.trfl - e.grossPoolOutput
      tusd == IF sell THEN p.pool.tusd - e.grossPoolOutput ELSE p.pool.tusd + e.netReserveInput
      empty == (IF sell THEN p.pool.trfl + e.netReserveInput
                        ELSE p.pool.tusd + e.grossAmount) = 0
      paid == [SwapWallet(c, e, evs) EXCEPT !.next.pool.trfl = e.trflReserveAfter,
                                            !.next.pool.tusd = e.tusdReserveAfter]
  IN  IF empty THEN require(c, FALSE)
      ELSE raise(paid, when(~SwapFormula(p, e), "FEE_FORMULA")
                         \cup when(e.trflReserveAfter /= trfl \/ e.tusdReserveAfter /= tusd,
                                   "POOL_RESERVES"))

LiquidityWallet(c, e) ==
  CASE e.type = "LiquiditySeeded" -> c
    [] e.type = "LiquidityAdded" ->
         adjustTusd(adjustTrfl(c, e.provider, -e.trflAmount), e.provider, -e.tusdAmount)
    [] e.type = "LiquidityRemoved" ->
         LET trfl == IF e.trflAmount > 0 THEN adjustTrfl(c, e.provider, e.trflAmount) ELSE c
         IN  IF e.tusdAmount > 0 THEN adjustTusd(trfl, e.provider, e.tusdAmount) ELSE trfl

OnLiquidity(c, e, prior) ==
  LET sign == IF e.type = "LiquidityRemoved" THEN -1 ELSE 1
      final == e.type = "LiquidityRemoved" /\ e.finalExit
      settled == [LiquidityWallet(c, e) EXCEPT !.next.pool =
        [@ EXCEPT !.trfl = e.trflReserveAfter, !.tusd = e.tusdReserveAfter,
                  !.seeded = e.type = "LiquiditySeeded" \/ (@ /\ ~final),
                  !.shutdownMode = @ /\ ~final]]
      missing == {e.trflAmount, e.tusdAmount} \cap {0} /= {}
  IN  raise(settled,
            when(\/ /\ IsV02(c) /\ e.type = "LiquiditySeeded"
                    /\ e.epoch /= 1 \/ c.next.lifecycle /= "LIVE" \/ c.next.pool.seeded
                 \/ e.lpShares <= 0
                 \/ e.trflAmount = 0 /\ e.tusdAmount = 0
                 \/ missing /\ e.type /= "LiquidityRemoved"
                 \/ missing /\ ~prior.pool.shutdownMode,
                 "EVENT_DATA")
              \cup when(\/ e.trflReserveAfter /= c.next.pool.trfl + sign * e.trflAmount
                        \/ e.tusdReserveAfter /= c.next.pool.tusd + sign * e.tusdAmount,
                        "POOL_RESERVES"))

(* Operators: every one of these is refused since v0.2 *)

unlessV02(c) == when(IsV02(c), "EVENT_DATA")

OnFeeConfigurationChanged(c, e) ==
  raise([c EXCEPT !.next.feeBps = e.newFeeBps],
        unlessV02(c) \cup when(e.oldFeeBps /= c.next.feeBps \/ e.newFeeBps > LEGACY_MAX_FEE,
                               "EVENT_DATA"))

OnFaucetPauseChanged(c, e) == raise([c EXCEPT !.next.faucetPaused = e.paused], unlessV02(c))

OnSwapLimitsChanged(c, e) ==
  raise([c EXCEPT !.next.pool.swapLimits = e.swapLimits], unlessV02(c))

OnLiquidityLimitsChanged(c, e) ==
  raise([c EXCEPT !.next.pool.contributions = e.contributions,
                  !.next.pool.withdrawalBps = e.withdrawalBps],
        unlessV02(c) \cup when(\/ e.contributions.trfl <= 0 \/ e.contributions.tusd <= 0
                               \/ e.withdrawalBps \notin 1 .. BPS_DENOMINATOR,
                               "EVENT_DATA"))

OnPauseStateChanged(c, e) ==
  raise([c EXCEPT !.next.swapsPaused = e.swapsPaused, !.next.claimsPaused = e.claimsPaused],
        unlessV02(c))

OnPoolPauseChanged(c, e) ==
  raise([c EXCEPT !.next.pool =
           [@ EXCEPT !.poolPaused = e.poolPaused, !.liquidityPaused = e.liquidityPaused,
                     !.lpClaimsPaused = e.lpClaimsPaused, !.shutdownMode = e.shutdownMode]],
        unlessV02(c))

\* An administrator is the first of its scope, or continues the chain of
\* authority with a store that earns nothing, core's first.
Appointed(p, e) ==
  LET previous == p.admins[e.scope]
      initializing == previous = Null /\ e.oldOperationalAdmin = ZeroAddress
  IN  \/ initializing
      \/ /\ previous /= Null /\ previous = e.oldOperationalAdmin
         /\ e.newOperationalAdmin \in p.excluded
         /\ \/ e.scope = "reflection-core"
            \/ e.newOperationalAdmin = p.admins["reflection-core"]

OnOperationalAdminChanged(c, e) ==
  LET admins == [c.next.admins EXCEPT ![e.scope] = e.newOperationalAdmin]
  IN  IF e.scope \notin DOMAIN c.next.admins
      THEN raise(c, unlessV02(c) \cup {"OPERATIONAL_ADMIN"})
      ELSE raise([c EXCEPT !.next.admins = admins,
                           !.next.deploymentReady = \A s \in DOMAIN admins : admins[s] /= Null],
                 unlessV02(c)
                   \cup when(~Appointed(c.next, e) \/ e.newOperationalAdmin = ZeroAddress,
                             "OPERATIONAL_ADMIN"))

-----------------------------------------------------------------------------
(* The group *)

\* The switch of reduceEventGroup; an unknown type is refused.
ApplyCreation(c, e) ==
  CASE e.type = "ProtocolInitialized" -> OnProtocolInitialized(c, e)
    [] e.type = "TokenCreated" -> OnTokenCreated(c, e)
    [] e.type = "LaunchSealed" -> OnLaunchSealed(c, e)
    [] e.type = "PoolClosed" -> OnPoolClosed(c, e)
    [] e.type = "ProtocolPrimaryStoreExcluded" -> OnProtocolPrimaryStoreExcluded(c, e)
    [] e.type = "OperationalPrimaryStoreExcluded" -> OnOperationalPrimaryStoreExcluded(c, e)
    [] e.type = "FaucetConfigured" -> OnFaucetConfigured(c, e)
    [] e.type = "PoolReserveBound" -> OnPoolReserveBound(c, e)
    [] e.type = "CustodyAdapterRegistered" -> OnCustodyAdapterRegistered(c, e)
    [] e.type = "CustodyEpochRouteOpened" -> OnCustodyEpochRouteOpened(c, e)
    [] e.type = "LpEpochOpened" -> OnLpEpochOpened(c, e)
    [] e.type = "FeeConfigurationChanged" -> OnFeeConfigurationChanged(c, e)
    [] e.type = "FaucetPauseChanged" -> OnFaucetPauseChanged(c, e)
    [] e.type = "SwapLimitsChanged" -> OnSwapLimitsChanged(c, e)
    [] e.type = "LiquidityLimitsChanged" -> OnLiquidityLimitsChanged(c, e)
    [] e.type = "PauseStateChanged" -> OnPauseStateChanged(c, e)
    [] e.type = "PoolPauseChanged" -> OnPoolPauseChanged(c, e)
    [] e.type = "OperationalAdminChanged" -> OnOperationalAdminChanged(c, e)
    [] OTHER -> raise(c, {"EVENT_DATA"})

Apply(c, evs, at, prior) ==
  LET e == evs[at]
  IN  CASE e.type = "WalletRegistered" -> OnWalletRegistered(c, e)
        [] e.type = "PositionCreated" -> OnPositionCreated(c, e)
        [] e.type = "FaucetGrant" -> OnFaucetGrant(c, e)
        [] e.type = "WalletTransfer" -> OnWalletTransfer(c, e, evs)
        [] e.type = "EligibleBalanceDebited" -> OnEligibleBalanceDebited(c, e)
        [] e.type = "EligibleBalanceCredited" -> OnEligibleBalanceCredited(c, e)
        [] e.type = "RewardsMaterialized" -> materializeWallet(c, e)
        [] e.type = "RewardsClaimed" -> OnRewardsClaimed(c, e)
        [] e.type = "ReflectionFeeCollected" -> OnReflectionFeeCollected(c, e, evs)
        [] e.type = "ReflectionIndexAdvanced" -> OnReflectionIndexAdvanced(c, e)
        [] e.type = "CustodySharesChanged" -> OnCustodySharesChanged(c, e)
        [] e.type = "CustodyRewardsRouted" -> OnCustodyRewardsRouted(c, e)
        [] e.type = "LpEpochStatusChanged" -> OnLpEpochStatusChanged(c, e)
        [] e.type = "LpFractionalResidueRetired" -> OnLpFractionalResidueRetired(c, e, evs, at)
        [] e.type = "LpEpochTerminalDustClassified" -> OnLpEpochTerminalDustClassified(c, e)
        [] e.type = "LpSharesChanged" -> adjustLpShares(c, e)
        [] e.type = "LpSharesTransferred" -> OnLpSharesTransferred(c, e)
        [] e.type = "LpRewardIndexAdvanced" -> OnLpRewardIndexAdvanced(c, e, evs, at)
        [] e.type = "LpRewardQuarantined" -> OnLpRewardQuarantined(c, e, evs, at)
        [] e.type = "LpRewardsClaimed" -> OnLpRewardsClaimed(c, e)
        [] e.type = "SwapExecuted" -> OnSwapExecuted(c, e, evs)
        [] e.type \in Receipts -> OnLiquidity(c, e, prior)
        [] OTHER -> ApplyCreation(c, e)

\* The end of the loop: a fee nobody shared is kept aside, any other fee and
\* every route must have met its receipt, and so must a liquidity receipt.
Unmatched(c, evs) ==
  LET receipt == The(evs, Receipts)
      shares == {i \in At(evs, {"LpSharesChanged"}) :
                   /\ evs[i].epoch = receipt.epoch /\ evs[i].owner = receipt.provider
                   /\ evs[i].amount = receipt.lpShares
                   /\ evs[i].added = (receipt.type /= "LiquidityRemoved")}
  IN  when(\E i \in DOMAIN c.fees : c.fees[i].shares /= 0, "TRANSACTION_GROUP")
      \cup when(At(evs, {"CustodyRewardsRouted"}) \ c.consumed /= {}, "ROUTE_PAIR")
      \cup when(Count(evs, Receipts) = 1 /\ Cardinality(shares) /= 1,
                IF Count(evs, Receipts) = 1 /\ Cardinality(shares) > 1
                THEN "DOUBLE_COUNTING" ELSE "LP_ACCOUNTING")

SettleFees(c) ==
  LET unshared == {i \in DOMAIN c.fees : c.fees[i].shares = 0}
  IN  [c EXCEPT !.next.unallocatedFees =
         FoldSet(LAMBDA i, acc : acc + c.fees[i].fee, @, unshared)]

(* What the resulting projection must satisfy, whatever the events were *)

RegistrationsSound(p) ==
  when(\/ p.registeredWalletCount /= Cardinality(p.registered)
       \/ p.registered \cap (p.excluded \cup {ZeroAddress}) /= {}
       \/ ~(DOMAIN p.positions \subseteq p.registered)
       \/ \E k \in DOMAIN p.lpEpochs : \E owner \in DOMAIN p.lpEpochs[k].positions :
            p.lpEpochs[k].positions[owner].shares > 0 /\ owner \notin p.registered,
       "WALLET_REGISTRATION")

SharesSound(p) ==
  when(sumWalletShares(p.positions) + p.custody.shares /= p.eligibleSupply, "ELIGIBLE_SUPPLY")
    \cup when(sumCorrections(p.positions) + p.custody.correction /= p.aggregateCorrection,
              "CORE_ACCOUNTING")
    \cup when(p.pool.trfl /= p.custody.shares, "RESERVE_CUSTODY")
    \cup when(/\ p.custody.adapter /= Null
              /\ \/ p.custody.routeEpoch \notin DOMAIN p.lpEpochs
                 \/ p.lpEpochs[p.custody.routeEpoch].vault /= p.custody.routeVault,
              "VAULT_BINDING")

EpochSound(epoch) ==
  when(\/ sumLpShares(epoch.positions) /= epoch.totalShares
       \/ sumCorrections(epoch.positions) /= epoch.aggregateCorrection
       \/ sumClaims(epoch.positions) /= epoch.lifetimeClaimed
       \/ epoch.status = "active" /\ epoch.terminalRounding /= NotClassified
       \/ epoch.status = "claim-only" /\ epoch.terminalRounding = NotClassified
       \/ /\ epoch.terminalRounding /= NotClassified
          /\ epoch.terminalRounding /= epoch.roundingReserve,
       "LP_ACCOUNTING")
    \cup when(lpRemainder(epoch) /= epoch.roundingReserve, "LP_VAULT_BACKING")

EpochsSound(p) == UNION {EpochSound(p.lpEpochs[k]) : k \in DOMAIN p.lpEpochs}

\* The last statements of the try block.
Conclude(c, evs) ==
  LET settled == SettleFees(c)
      p == [settled.next EXCEPT !.roundingReserve = coreRemainder(settled.next)]
  IN  raise(require([settled EXCEPT !.next = p],
                    /\ p.roundingReserve >= 0
                    /\ \A k \in DOMAIN p.lpEpochs : lpRemainder(p.lpEpochs[k]) >= 0
                    /\ assertProjectionMoveDomains(p)),
            Unmatched(c, evs) \cup RegistrationsSound(p) \cup SharesSound(p)
              \cup EpochsSound(p))

\* reduceEventGroup: a throw anywhere in the replay leaves the projection as
\* it was, with an alert.
Reduce(prior, evs) ==
  LET step(c, at) == IF c.thrown THEN c ELSE Apply(c, evs, at, prior)
      replayed == FoldLeftDomain(step, context(prior, GroupAlerts(prior, evs)), evs)
      concluded == IF replayed.thrown THEN replayed ELSE Conclude(replayed, evs)
  IN  CASE evs = << >> -> [projection |-> prior, alerts |-> {}]
        [] \/ ~assertProjectionMoveDomains(prior)
           \/ \E i \in DOMAIN evs : ~assertProtocolEventMoveDomains(evs[i])
             -> [projection |-> prior, alerts |-> {"EVENT_DATA"}]
        [] OTHER ->
             [projection |-> IF concluded.thrown THEN prior ELSE concluded.next,
              alerts |-> concluded.alerts \cup when(concluded.thrown, "EVENT_DATA")]
=============================================================================
