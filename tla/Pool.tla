-------------------------------- MODULE Pool --------------------------------
(***************************************************************************)
(* test_amm::pool, the canonical AMM, composed with the two ledgers its    *)
(* entry functions drive in one transaction: reflection-core's accounting  *)
(* (ReflectionLedger) and the providers' (LpEpoch).  The pool's reserve is *)
(* a holder like any other, so trading earns it rewards; the pool passes   *)
(* them on to its providers before it lets any weight change.              *)
(*                                                                         *)
(* An action is one entry function, from its guards to its last assertion. *)
(* books is what a transaction has done to the ledgers so far; commit is   *)
(* its end, with the backing assertions every function makes.  Deadlines   *)
(* and minimum outputs only refuse a call its sender no longer wants, and  *)
(* are left out; so is the faucet's cooldown.                              *)
(***************************************************************************)
EXTENDS ReflectionLedger

CONSTANTS
  MAX_U64, MAX_U128,
  FIXED_AMM_FEE_BPS, FIXED_MAX_RESERVE_BPS, FIXED_MAX_GROSS_SWAP,
  FIXED_MAX_LIQUIDITY_RFL, FIXED_MAX_LIQUIDITY_USD,
  INITIAL_TUSD_LIQUIDITY,
  bootstrap_lp,        \* the account that owns the first shares
  FIXED_TRFL_GRANT, FIXED_TUSD_GRANT,
  RflOffers, UsdOffers, ShareOffers,   \* the amounts callers name
  MaxLifetimeFees,     \* bound on the fees collected
  MaxUsd               \* bound on the tUSD in existence

ASSUME BootstrapAssumption == bootstrap_lp \in Users
ASSUME PublishersAssumption == Users \cap Publishers = {}
ASSUME PolicyAssumption ==
  /\ FIXED_AMM_FEE_BPS \in 0 .. BPS_DENOMINATOR
  /\ INITIAL_TUSD_LIQUIDITY \in Nat \ {0}
  /\ FIXED_TRFL_GRANT \in Nat /\ FIXED_TUSD_GRANT \in Nat
ASSUME OffersAssumption ==
  \A offers \in {RflOffers, UsdOffers, ShareOffers} : offers \subseteq Nat \ {0}

VARIABLES
  core,         \* ReflectionState, CustodyAccounting and the tRFL stores
  lp,           \* the epoch of LpEpochRegistry
  registered,   \* CustodyAccounting.registered_wallets
  usd,          \* tUSD balance of each wallet
  usd_reserve,  \* tUSD balance of PoolState.usd_reserve
  lifecycle     \* "unlaunched" before PoolState exists

vars == <<core, lp, registered, usd, usd_reserve, lifecycle>>

Lp == INSTANCE LpEpoch WITH Owners <- Accounts

Reserves == INSTANCE AmmReserves WITH
  INITIAL_TRFL_LIQUIDITY <- INITIAL_POOL_RFL,
  rfl <- core.pool_store, usd <- usd_reserve, shares <- lp.total_shares

Promise == INSTANCE LiquidityPool WITH
  rfl <- core.pool_store, usd <- usd_reserve, shares <- lp.total_shares

TypeOK ==
  /\ core \in Ledger
  /\ lp \in Lp!Epoch
  /\ registered \subseteq Accounts
  /\ usd \in [Accounts -> Nat]
  /\ usd_reserve \in Nat
  /\ lifecycle \in {"unlaunched", "live", "closed"}

Init ==
  /\ \E fee_bps \in 0 .. MAX_FEE_BPS : core = initial_ledger(fee_bps)
  /\ lp = Lp!new_epoch
  /\ registered = {}
  /\ usd = [a \in Accounts |-> 0]
  /\ usd_reserve = 0
  /\ lifecycle = "unlaunched"

-----------------------------------------------------------------------------
(* What a transaction does to the ledgers *)

books == [core |-> core, lp |-> lp, registered |-> registered]

\* What a transaction asserts after every checkpoint and payment and again at
\* its end: assert_custody_matches_raw or assert_reserve_custody,
\* assert_epoch_backing and assert_accounting_backing.
backed(b) ==
  /\ b.core.pool_store = b.core.custody_shares
  /\ Lp!epoch_backing(b.lp, b.core.lp_vault)
  /\ accounting_backing(b.core)

commit(b) ==
  /\ backed(b)
  /\ core' = b.core /\ lp' = b.lp /\ registered' = b.registered

assert_pool_live == lifecycle = "live" /\ Lp!assert_active_epoch_healthy(lp)

\* After the seal the three publishers' stores are excluded for good.
assert_valid_lp_owner(a) == a \notin Publishers

\* ensure_registered accepts the owner of an empty store or a known wallet.
can_register(b, a) ==
  /\ a \notin Publishers
  /\ a \in b.registered \/ b.core.raw[a] = 0

\* The reserve's pending reward goes to the LP vault, and to the providers'
\* index.
checkpoint_active(b) ==
  LET amount == custody_pending_for_store(b.core)
      routed == route_custody_rewards(b.core)
  IN  [b EXCEPT !.core = routed,
                !.lp = IF amount > 0
                       THEN Lp!receive_routed_reward(b.lp, amount, routed.lp_vault)
                       ELSE b.lp]

checked == checkpoint_active(books)

pay_lp_claim(b, owner, amount) ==
  [ core |-> payout_lp_reward_to(b.core, owner, amount),
    lp |-> Lp!prepare_claim(b.lp, owner, amount),
    registered |-> b.registered \cup {owner} ]

\* Mutant: rewards wait for an explicit claim.
materialize_nothing(b, owner) == b

materialize_lp_rewards(b, owner) ==
  LET pending_rewards == Lp!pending_for(b.lp, owner)
  IN  IF pending_rewards = 0 THEN b ELSE pay_lp_claim(b, owner, pending_rewards)

\* mock_usd's movements between a wallet and the pool's reserve.
deposit_to_pool(a, amount) ==
  /\ usd[a] >= amount
  /\ usd' = [usd EXCEPT ![a] = @ - amount]
  /\ usd_reserve' = usd_reserve + amount

withdraw_from_pool(a, amount) ==
  /\ usd' = [usd EXCEPT ![a] = @ + amount]
  /\ usd_reserve' = usd_reserve - amount

-----------------------------------------------------------------------------
(* Launch *)

launch ==
  LET shares == Reserves!initial_lp_shares(INITIAL_POOL_RFL, INITIAL_TUSD_LIQUIDITY)
  IN  /\ lifecycle = "unlaunched"
      /\ shares > 0
      /\ usd_reserve' = INITIAL_TUSD_LIQUIDITY
      /\ commit([books EXCEPT !.core = seed_pool_from_distribution(core),
                              !.lp = Lp!mint_active(lp, bootstrap_lp, shares)])
      /\ lifecycle' = "live"
      /\ UNCHANGED usd

-----------------------------------------------------------------------------
(* Providers *)

\* Checkpoint, then pay the provider: every change of a weight starts so.
settled_for(provider) == materialize_lp_rewards(checked, provider)

add_liquidity(provider, max_rfl, max_usd) ==
  LET settled == settled_for(provider)
      minted == Reserves!liquidity_mint(max_rfl, max_usd, settled.core.pool_store,
                                        usd_reserve, settled.lp.total_shares)
  IN  /\ assert_pool_live
      /\ assert_valid_lp_owner(provider)
      /\ backed(checked) /\ backed(settled)
      /\ minted.rfl_used <= FIXED_MAX_LIQUIDITY_RFL
      /\ minted.usd_used <= FIXED_MAX_LIQUIDITY_USD
      /\ minted.shares > 0 /\ minted.rfl_used > 0 /\ minted.usd_used > 0
      /\ minted.rfl_used <= max_rfl /\ minted.usd_used <= max_usd
      /\ provider \in settled.registered
      /\ derived_balance(settled.core, provider) >= minted.rfl_used
      /\ Lp!mint_succeeds(settled.lp)
      /\ commit([settled EXCEPT
           !.core = wallet_to_custody(settled.core, provider, minted.rfl_used),
           !.lp = Lp!mint_active(settled.lp, provider, minted.shares)])
      /\ deposit_to_pool(provider, minted.usd_used)
      /\ UNCHANGED lifecycle

\* What the shares are worth once the provider is settled.
rfl_output(b, shares) == Reserves!withdrawal(shares, b.lp.total_shares, b.core.pool_store)
usd_output(b, shares) == Reserves!withdrawal(shares, b.lp.total_shares, usd_reserve)
is_final(b, shares) == shares = b.lp.total_shares

\* The burn, and the payment in tRFL.
withdrawn(b, provider, shares) ==
  [ core |-> custody_to_wallet(b.core, provider, rfl_output(b, shares)),
    lp |-> Lp!burn_active(b.lp, provider, shares, b.core.lp_vault),
    registered |-> b.registered \cup {provider} ]

\* mark_active_claim_only and close_pool: the last provider takes what is in
\* the reserves, and the pool ends.
final_exit_succeeds(b) ==
  /\ b.core.custody_shares = 0 /\ b.core.pool_store = 0
  /\ custody_pending_for_store(b.core) = 0
  /\ Lp!claim_only_succeeds(b.lp, b.core.lp_vault)

\* Mutant: the epoch is left active.
final_exit_unmarked(b) == b

final_exit(b) == [b EXCEPT !.lp = Lp!mark_active_claim_only(b.lp, b.core.lp_vault)]

\* remove_liquidity: checkpoint, settle the provider's rewards, burn and pay.
remove_succeeds(provider, shares) ==
  LET settled == settled_for(provider)
      removed == withdrawn(settled, provider, shares)
  IN  /\ assert_pool_live
      /\ backed(checked)
      /\ checked.lp.shares[provider] >= shares
      /\ backed(settled)
      /\ rfl_output(settled, shares) > 0 /\ usd_output(settled, shares) > 0
      /\ Lp!burn_succeeds(settled.lp, provider, shares)
      /\ can_register(settled, provider)
      /\ backed(removed)
      /\ is_final(settled, shares) =>
           /\ usd_output(settled, shares) = usd_reserve
           /\ final_exit_succeeds(removed)

remove_liquidity(provider, shares) ==
  LET settled == settled_for(provider)
      removed == withdrawn(settled, provider, shares)
  IN  /\ remove_succeeds(provider, shares)
      /\ withdraw_from_pool(provider, usd_output(settled, shares))
      /\ IF is_final(settled, shares)
         THEN commit(final_exit(removed)) /\ lifecycle' = "closed"
         ELSE commit(removed) /\ UNCHANGED lifecycle

\* Both ends are paid at their old weights before the weights change.
transfer_lp_shares(sender, recipient, shares) ==
  LET settled == materialize_lp_rewards(settled_for(sender), recipient)
  IN  /\ assert_pool_live
      /\ recipient /= sender
      /\ assert_valid_lp_owner(recipient)
      /\ backed(checked) /\ backed(settled_for(sender)) /\ backed(settled)
      /\ Lp!transfer_succeeds(settled.lp, sender, recipient, shares)
      /\ commit([settled EXCEPT !.lp =
           Lp!transfer_active(settled.lp, sender, recipient, shares, settled.core.lp_vault)])
      /\ UNCHANGED <<usd, usd_reserve, lifecycle>>

\* A claim checkpoints a live pool first.  To request 0 is to request all.
claim_books == IF lifecycle = "live" THEN checked ELSE books

claim_amount(owner, requested) ==
  IF requested = 0 THEN Lp!pending_for(claim_books.lp, owner) ELSE requested

claimed_books(owner, requested) ==
  pay_lp_claim(claim_books, owner, claim_amount(owner, requested))

claim_lp_succeeds(owner, requested) ==
  LET before == claim_books
      amount == claim_amount(owner, requested)
  IN  /\ lifecycle \in {"live", "closed"}
      /\ lifecycle = "live" => Lp!assert_active_epoch_healthy(lp) /\ backed(before)
      /\ Lp!claim_succeeds(before.lp, owner, amount)
      /\ can_register(before, owner)
      /\ before.core.lp_vault >= amount
      /\ backed(claimed_books(owner, requested))

claim_lp_rewards(owner, requested) ==
  /\ claim_lp_succeeds(owner, requested)
  /\ commit(claimed_books(owner, requested))
  /\ UNCHANGED <<usd, usd_reserve, lifecycle>>

checkpoint_lp_rewards ==
  /\ assert_pool_live
  /\ commit(checked)
  /\ UNCHANGED <<usd, usd_reserve, lifecycle>>

-----------------------------------------------------------------------------
(* Traders *)

\* What an input buys at the reserves of ledger l.
sell_output(l, gross) ==
  Reserves!constant_product_output(l.pool_store, usd_reserve,
    gross - fee_for(l, gross), FIXED_AMM_FEE_BPS)

buy_output(l, input) ==
  Reserves!constant_product_output(usd_reserve, l.pool_store, input, FIXED_AMM_FEE_BPS)

\* The limits of a swap, which the quote views assert too.
sell_within_limits(l, gross) ==
  /\ assert_pool_live
  /\ Reserves!assert_swap_bounds(gross, l.pool_store)
  /\ Reserves!assert_reserve_output_cap(sell_output(l, gross), usd_reserve)
  /\ sell_output(l, gross) > 0

buy_within_limits(l, input) ==
  /\ assert_pool_live
  /\ Reserves!assert_swap_bounds(input, usd_reserve)
  /\ Reserves!assert_reserve_output_cap(buy_output(l, input), l.pool_store)
  /\ buy_output(l, input) - fee_for(l, buy_output(l, input)) > 0

quote_sell_succeeds(gross) == sell_within_limits(core, gross)
quote_buy_succeeds(input) == buy_within_limits(core, input)

FeesWithinBound(fee) == core.lifetime_fees + fee <= MaxLifetimeFees

\* Mutant: the reserve's part of the swap's own fee is left for later.
settled_swap_unrouted(settled_core, trader) ==
  [checked EXCEPT !.core = settled_core, !.registered = @ \cup {trader}]

\* The end of a swap: the token has settled it, and the reserve's part of the
\* fee is passed on before the function ends.
settled_swap(settled_core, trader) ==
  checkpoint_active([checked EXCEPT !.core = settled_core,
                                    !.registered = @ \cup {trader}])

sold(seller, gross) == settled_swap(settle_sell(checked.core, seller, gross), seller)

sell_succeeds(seller, gross) ==
  LET before == checked
      after == sold(seller, gross)
  IN  /\ sell_within_limits(before.core, gross) /\ backed(before)
      /\ seller \in before.registered
      /\ derived_balance(before.core, seller) >= gross
      /\ custody_pending_for_store(after.core) = 0
      /\ backed(after)

sell_trfl(seller, gross) ==
  /\ sell_succeeds(seller, gross)
  /\ FeesWithinBound(fee_for(core, gross))
  /\ commit(sold(seller, gross))
  /\ withdraw_from_pool(seller, sell_output(checked.core, gross))
  /\ UNCHANGED lifecycle

bought(buyer, input) ==
  settled_swap(settle_buy(checked.core, buyer, buy_output(checked.core, input)), buyer)

buy_succeeds(buyer, input) ==
  LET before == checked
      after == bought(buyer, input)
  IN  /\ buy_within_limits(before.core, input) /\ backed(before)
      /\ usd[buyer] >= input
      /\ can_register(before, buyer)
      /\ before.core.custody_shares >= buy_output(before.core, input)
      /\ custody_pending_for_store(after.core) = 0
      /\ backed(after)

buy_trfl(buyer, input) ==
  /\ buy_succeeds(buyer, input)
  /\ FeesWithinBound(fee_for(core, buy_output(checked.core, input)))
  /\ commit(bought(buyer, input))
  /\ deposit_to_pool(buyer, input)
  /\ UNCHANGED lifecycle

-----------------------------------------------------------------------------
(* Wallets, between the pool's transactions *)

\* A dispatcher transfer: the withdrawal hook, then the deposit hook.
transfer(from, to, amount) ==
  LET taken == debit_wallet(materialize_all_to_store(core, from), from, amount)
  IN  /\ lifecycle \in {"live", "closed"}
      /\ from \in registered
      /\ derived_balance(core, from) >= amount
      /\ can_register(books, to)
      /\ core' = credit_wallet(materialize_all_to_store(taken, to), to, amount)
      /\ registered' = registered \cup {to}
      /\ UNCHANGED <<lp, usd, usd_reserve, lifecycle>>

claim_all(a) ==
  /\ lifecycle \in {"live", "closed"}
  /\ a \in registered
  /\ claimable_for_store(core, a) > 0
  /\ core' = materialize_all_to_store(core, a)
  /\ UNCHANGED <<lp, registered, usd, usd_reserve, lifecycle>>

claim_trfl(a) ==
  /\ lifecycle = "live"
  /\ can_register(books, a)
  /\ core.distribution_vault >= FIXED_TRFL_GRANT
  /\ core' = faucet_grant(core, a, FIXED_TRFL_GRANT)
  /\ registered' = registered \cup {a}
  /\ UNCHANGED <<lp, usd, usd_reserve, lifecycle>>

claim_tusd(a) ==
  /\ lifecycle = "live"
  /\ total(usd) + usd_reserve + FIXED_TUSD_GRANT <= MaxUsd
  /\ usd' = [usd EXCEPT ![a] = @ + FIXED_TUSD_GRANT]
  /\ UNCHANGED <<core, lp, registered, usd_reserve, lifecycle>>

-----------------------------------------------------------------------------
Provider(a) ==
  \/ \E max_rfl \in RflOffers, max_usd \in UsdOffers : add_liquidity(a, max_rfl, max_usd)
  \/ \E shares \in ShareOffers :
       \/ remove_liquidity(a, shares)
       \/ \E to \in Accounts : transfer_lp_shares(a, to, shares)
  \/ \E requested \in {0} \cup RflOffers : claim_lp_rewards(a, requested)

Trader(a) ==
  \/ \E gross \in RflOffers : sell_trfl(a, gross)
  \/ \E input \in UsdOffers : buy_trfl(a, input)

Wallet(a) ==
  \/ \E to \in Accounts, amount \in RflOffers : transfer(a, to, amount)
  \/ claim_all(a) \/ claim_trfl(a) \/ claim_tusd(a)

Next ==
  \/ launch
  \/ checkpoint_lp_rewards
  \/ \E a \in Users : Provider(a) \/ Trader(a) \/ Wallet(a)

Spec == Init /\ [][Next]_vars

-----------------------------------------------------------------------------
(* Properties *)

\* The pool never keeps a reward to itself: between two transactions the
\* reserve's pending reward is zero, so no change of weight, no share issue
\* and no close can strand one, whatever wallets did in between.
PoolNeverAccrues == custody_pending_for_store(core) = 0

\* Both ledgers are sound in every transaction of the pool, no tRFL is created
\* or lost by it, and they agree on the LP vault: what the token routed is what
\* the epoch booked as received, what is left is received less claimed, and the
\* vault covers everything every provider may still claim.
LedgersAgree ==
  /\ TypeOK /\ Sound(core) /\ held(core) = TOTAL_SUPPLY
  /\ core.lifetime_custody_routed = lp.lifetime_received
  /\ core.lp_vault = lp.lifetime_received - lp.lifetime_claimed
  /\ Lp!epoch_backing(lp, core.lp_vault)
  /\ Lp!total([a \in Accounts |-> Lp!pending_for(lp, a)]) <= core.lp_vault

\* Nobody is locked in: a provider may burn the whole position whatever the
\* rounding of either ledger, unless a partial exit would be paid nothing; the
\* last provider may always leave, and every whole reward can be claimed, also
\* after the close.
ProvidersCanLeave ==
  \A a \in Users :
    /\ lifecycle = "live" /\ lp.shares[a] > 0 =>
         \/ remove_succeeds(a, lp.shares[a])
         \/ /\ lp.shares[a] < lp.total_shares
            /\ \/ lp.shares[a] * core.pool_store < lp.total_shares
               \/ lp.shares[a] * usd_reserve < lp.total_shares
    /\ Lp!pending_for(lp, a) > 0 =>
         claim_lp_succeeds(a, 0)

\* A quote is honoured: the swap a quote view accepts executes and pays the
\* quoted output, if its sender owns the input; the checkpoint and the
\* settlement in between move neither reserve nor fee.
QuotesHonoured ==
  \A a \in Users :
    /\ a \in registered =>
         \A gross \in 1 .. derived_balance(core, a) :
           quote_sell_succeeds(gross) =>
             /\ sell_succeeds(a, gross)
             /\ sell_output(checked.core, gross) = sell_output(core, gross)
    /\ \A input \in 1 .. usd[a] :
         quote_buy_succeeds(input) =>
           /\ buy_succeeds(a, input)
           /\ buy_output(checked.core, input) = buy_output(core, input)

\* Pool and epoch end together and owe nothing.  The pool never routes a reward
\* to an epoch without shares (the quarantine of lp_rewards is dead code for
\* this caller), and the epoch is claim-only exactly when the pool is closed;
\* then both reserves are empty, nobody has shares or a reward pending, and
\* what the vault still holds is rounding dust only.
ClosesClean ==
  /\ ~lp.quarantined /\ lp.unallocated_rewards = 0
  /\ lifecycle = "live" <=> Lp!assert_active_epoch_healthy(lp)
  /\ lifecycle = "closed" <=> lp.status = Lp!STATUS_CLAIM_ONLY
  /\ lifecycle = "closed" =>
       /\ core.pool_store = 0 /\ core.custody_shares = 0 /\ usd_reserve = 0
       /\ \A a \in Accounts : lp.shares[a] = 0 /\ Lp!pending_for(lp, a) = 0
       /\ core.lp_vault * MAGNITUDE
            < lp.index_remainder + lp.retired_residue_magnified + MAGNITUDE

\* The composed transactions keep the promise of module LiquidityPool to the
\* providers: no trade, deposit, exit or reward payment of anybody lowers what
\* a share stands for.
ImplementsPromise == Promise!Spec
=============================================================================
