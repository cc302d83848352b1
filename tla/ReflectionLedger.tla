------------------------- MODULE ReflectionLedger -------------------------
(***************************************************************************)
(* The accounting of reflection-core as operators on one record.           *)
(*                                                                         *)
(* The record l joins the numeric fields of ReflectionState and            *)
(* CustodyAccounting (reflection_token.move:90-129) and the raw balances   *)
(* the fungible-asset framework keeps for the stores they name: raw[a] is  *)
(* the balance of a's primary store.  Every operator below is one function *)
(* of reflection_token.move and returns the record as that function leaves *)
(* it, so an entry function reads as the composition the source writes.    *)
(*                                                                         *)
(* SignedU256 values are integers here; module ReflectionMath shows that   *)
(* the sign-and-magnitude code computes them.  A missing entry of the      *)
(* positions table reads as the zero Position: ensure_position creates     *)
(* that value, and an account without an entry owns no units.              *)
(*                                                                         *)
(* Move aborts, and undoes the transaction, where unsigned arithmetic      *)
(* would go below zero.  The operators subtract in the integers instead,   *)
(* so a reachable abort of that kind shows as a record outside Ledger, and *)
(* the type invariant of a module that uses them excludes it.              *)
(***************************************************************************)
EXTENDS Integers, FiniteSets, Functions

CONSTANTS
  Users,              \* accounts that are none of the three publishers
  MAGNITUDE,          \* scale of the reward index
  TOTAL_SUPPLY,       \* raw units minted once, by initialize
  INITIAL_POOL_RFL,   \* raw units seeded into the pool at launch
  MAX_FEE_BPS,        \* the largest fee initialize accepts
  BPS_DENOMINATOR

Publishers == {"reflection_core", "test_assets", "test_amm"}
Accounts == Users \cup Publishers

ASSUME UsersAssumption == IsFiniteSet(Users)
ASSUME SupplyAssumption == /\ TOTAL_SUPPLY \in Nat
                           /\ INITIAL_POOL_RFL \in 1 .. TOTAL_SUPPLY
ASSUME MagnitudeAssumption == MAGNITUDE \in Nat /\ MAGNITUDE >= TOTAL_SUPPLY
ASSUME FeeAssumption == /\ BPS_DENOMINATOR \in Nat \ {0}
                        /\ MAX_FEE_BPS \in 0 .. BPS_DENOMINATOR

-----------------------------------------------------------------------------
(* State *)

Ledger ==
  [ index : Nat,                        \* ReflectionState
    index_remainder : Nat,
    total_shares : Nat,
    aggregate_correction : Int,
    unallocated_fees : Nat,
    lifetime_fees : Nat,
    lifetime_materialized : Nat,
    fee_bps : 0 .. MAX_FEE_BPS,
    correction : [Accounts -> Int],     \* ReflectionState.positions
    claimed : [Accounts -> Nat],
    pool_correction : Int,              \* CustodyAccounting.pool_position
    pool_claimed : Nat,
    custody_shares : Nat,               \* CustodyAccounting
    lifetime_custody_routed : Nat,
    rounding_reserve : Nat,
    raw : [Accounts -> Nat],            \* balances of fungible stores
    reward_vault : Nat,
    distribution_vault : Nat,
    pool_store : Nat,
    lp_vault : Nat ]

\* initialize mints the whole supply into the distribution vault.
initial_ledger(fee_bps) ==
  [ index |-> 0, index_remainder |-> 0, total_shares |-> 0,
    aggregate_correction |-> 0, unallocated_fees |-> 0, lifetime_fees |-> 0,
    lifetime_materialized |-> 0, fee_bps |-> fee_bps,
    correction |-> [a \in Accounts |-> 0], claimed |-> [a \in Accounts |-> 0],
    pool_correction |-> 0, pool_claimed |-> 0, custody_shares |-> 0,
    lifetime_custody_routed |-> 0, rounding_reserve |-> 0,
    raw |-> [a \in Accounts |-> 0], reward_vault |-> 0,
    distribution_vault |-> TOTAL_SUPPLY, pool_store |-> 0, lp_vault |-> 0 ]

-----------------------------------------------------------------------------
(* What a position is entitled to *)

\* reflection_math::apply, on a wallet's position and on the pool's.
magnified(l, a) == l.raw[a] * l.index + l.correction[a]
pool_magnified(l) == l.custody_shares * l.index + l.pool_correction

claimable_for_store(l, a) == (magnified(l, a) \div MAGNITUDE) - l.claimed[a]

custody_pending_for_store(l) ==
  (pool_magnified(l) \div MAGNITUDE) - l.pool_claimed

\* What a balance query of an eligible wallet shows.
derived_balance(l, a) == l.raw[a] + claimable_for_store(l, a)

aggregate_liability(l) ==
  ((l.total_shares * l.index + l.aggregate_correction) \div MAGNITUDE)
    - (l.lifetime_materialized + l.lifetime_custody_routed)

fee_for(l, gross) == (gross * l.fee_bps) \div BPS_DENOMINATOR

-----------------------------------------------------------------------------
(* Share accounting: correction keeps what a position earned so far when   *)
(* its weight changes.                                                     *)

\* Mutant: the new units share in what the index distributed before.
add_raw_shares_uncorrected(l, a, amount) ==
  [l EXCEPT !.total_shares = @ + amount]

add_raw_shares(l, a, amount) ==
  [l EXCEPT !.correction[a] = @ - amount * l.index,
            !.aggregate_correction = @ - amount * l.index,
            !.total_shares = @ + amount]

remove_raw_shares(l, a, amount) ==
  [l EXCEPT !.correction[a] = @ + amount * l.index,
            !.aggregate_correction = @ + amount * l.index,
            !.total_shares = @ - amount]

\* Mutant: the pool's new units share in what the index distributed before.
add_custody_shares_with_history(l, amount) ==
  [l EXCEPT !.aggregate_correction = @ - amount * l.index,
            !.custody_shares = @ + amount,
            !.total_shares = @ + amount]

add_custody_shares(l, amount) ==
  [l EXCEPT !.pool_correction = @ - amount * l.index,
            !.aggregate_correction = @ - amount * l.index,
            !.custody_shares = @ + amount,
            !.total_shares = @ + amount]

remove_custody_shares(l, amount) ==
  [l EXCEPT !.pool_correction = @ + amount * l.index,
            !.aggregate_correction = @ + amount * l.index,
            !.custody_shares = @ - amount,
            !.total_shares = @ - amount]

-----------------------------------------------------------------------------
(* Store movements of the fungible-asset framework (withdraw_with_ref,     *)
(* deposit_with_ref, transfer_with_ref).                                   *)

wallet_store(l, a, delta) == [l EXCEPT !.raw[a] = @ + delta]
reward_store(l, delta) == [l EXCEPT !.reward_vault = @ + delta]
distribution_store(l, delta) == [l EXCEPT !.distribution_vault = @ + delta]
reserve_store(l, delta) == [l EXCEPT !.pool_store = @ + delta]
lp_vault_store(l, delta) == [l EXCEPT !.lp_vault = @ + delta]

-----------------------------------------------------------------------------
(* Rewards *)

\* Mutant: the reward leaves the vault and is not deposited.
materialize_undeposited(l, a, amount) ==
  [l EXCEPT !.claimed[a] = @ + amount,
            !.lifetime_materialized = @ + amount,
            !.reward_vault = @ - amount]

\* Moves amount of a's pending reward from the vault to a's store.  The new
\* units are weighted from now on, so the correction drops by their history.
materialize_to_store(l, a, amount) ==
  LET booked == [l EXCEPT !.claimed[a] = @ + amount,
                          !.correction[a] = @ - amount * l.index,
                          !.aggregate_correction = @ - amount * l.index,
                          !.total_shares = @ + amount,
                          !.lifetime_materialized = @ + amount]
  IN  wallet_store(reward_store(booked, -amount), a, amount)

\* With nothing pending the source returns early; amount 0 changes nothing.
materialize_all_to_store(l, a) ==
  materialize_to_store(l, a, claimable_for_store(l, a))

recompute_rounding_reserve(l) ==
  [l EXCEPT !.rounding_reserve =
     l.reward_vault - (aggregate_liability(l) + l.unallocated_fees)]

\* Mutant: the carried remainder is overwritten instead of added.
advance_index_without_carry(l, fee) ==
  recompute_rounding_reserve(
    IF l.total_shares = 0
    THEN [l EXCEPT !.lifetime_fees = @ + fee, !.unallocated_fees = @ + fee]
    ELSE [l EXCEPT !.lifetime_fees = @ + fee,
                   !.index = @ + (fee * MAGNITUDE) \div l.total_shares,
                   !.index_remainder = (fee * MAGNITUDE) % l.total_shares])

\* Mutant: the rounding reserve is not recomputed.
advance_index_stale_rounding(l, fee) ==
  IF l.total_shares = 0
  THEN [l EXCEPT !.lifetime_fees = @ + fee, !.unallocated_fees = @ + fee]
  ELSE [l EXCEPT !.lifetime_fees = @ + fee,
                 !.index = @ + (fee * MAGNITUDE + l.index_remainder) \div l.total_shares,
                 !.index_remainder = (fee * MAGNITUDE + l.index_remainder) % l.total_shares]

\* The fee is in the vault already.  It goes to the index, with the remainder
\* of earlier divisions, or aside when there is nobody to give it to.
advance_index(l, fee) ==
  LET booked == [l EXCEPT !.lifetime_fees = @ + fee]
      numerator == fee * MAGNITUDE + l.index_remainder
      next == IF l.total_shares = 0
              THEN [booked EXCEPT !.unallocated_fees = @ + fee]
              ELSE [booked EXCEPT !.index = @ + numerator \div l.total_shares,
                                  !.index_remainder = numerator % l.total_shares]
  IN  recompute_rounding_reserve(next)

\* The part both settlements share: the fee leaves the traded amount for the
\* vault and the index advances; a fee that rounds to zero does neither.
collect_fee(l, fee) ==
  IF fee > 0 THEN advance_index(reward_store(l, fee), fee) ELSE l

-----------------------------------------------------------------------------
(* Whole movements between stores *)

credit_wallet(l, a, amount) ==
  add_raw_shares(wallet_store(l, a, amount), a, amount)
debit_wallet(l, a, amount) ==
  remove_raw_shares(wallet_store(l, a, -amount), a, amount)
credit_pool(l, amount) == add_custody_shares(reserve_store(l, amount), amount)
debit_pool(l, amount) == reserve_store(remove_custody_shares(l, amount), -amount)

\* The gross input leaves the seller before the index moves; only the net
\* amount joins the pool, after it has moved.
settle_sell(l, seller, gross) ==
  LET fee == fee_for(l, gross)
      sold == debit_wallet(materialize_all_to_store(l, seller), seller, gross)
      paid == materialize_all_to_store(collect_fee(sold, fee), seller)
  IN  credit_pool(paid, gross - fee)

\* Mutant: the buyer's new units are there when the index moves.
settle_buy_late_fee(l, buyer, gross) ==
  LET fee == fee_for(l, gross)
      taken == debit_pool(materialize_all_to_store(l, buyer), gross)
  IN  collect_fee(credit_wallet(taken, buyer, gross - fee), fee)

\* The gross output leaves the pool before the index moves; the buyer's new
\* units arrive after it.
settle_buy(l, buyer, gross) ==
  LET fee == fee_for(l, gross)
      taken == debit_pool(materialize_all_to_store(l, buyer), gross)
      paid == materialize_all_to_store(collect_fee(taken, fee), buyer)
  IN  credit_wallet(paid, buyer, gross - fee)

wallet_to_custody(l, provider, amount) ==
  credit_pool(debit_wallet(materialize_all_to_store(l, provider),
                           provider, amount), amount)

custody_to_wallet(l, recipient, amount) ==
  credit_wallet(debit_pool(materialize_all_to_store(l, recipient), amount),
                recipient, amount)

\* Settles the pool's whole pending reward into the LP vault.
route_custody_rewards(l) ==
  LET amount == custody_pending_for_store(l)
  IN  lp_vault_store(
        reward_store([l EXCEPT !.pool_claimed = @ + amount,
                               !.lifetime_custody_routed = @ + amount],
                     -amount), amount)

payout_lp_reward_to(l, claimant, amount) ==
  credit_wallet(lp_vault_store(materialize_all_to_store(l, claimant), -amount),
                claimant, amount)

faucet_grant(l, recipient, amount) ==
  credit_wallet(distribution_store(materialize_all_to_store(l, recipient),
                                   -amount), recipient, amount)

seed_pool_from_distribution(l) ==
  credit_pool(distribution_store(l, -INITIAL_POOL_RFL), INITIAL_POOL_RFL)

-----------------------------------------------------------------------------
(* What the accounting keeps true of the record between two functions *)

total(f) == SumFunctionOnSet(f, Accounts)

\* Raw units in the stores of this record.
held(l) == total(l.raw) + l.reward_vault + l.distribution_vault
             + l.pool_store + l.lp_vault

\* The weight of the index is the balances it is meant to weigh.
shares_match(l) ==
  /\ l.total_shares = total(l.raw) + l.custody_shares
  /\ l.custody_shares = l.pool_store

\* The aggregates are the sums of the positions they aggregate.
aggregates_match(l) ==
  /\ l.aggregate_correction = total(l.correction) + l.pool_correction
  /\ l.lifetime_materialized = total(l.claimed)
  /\ l.lifetime_custody_routed = l.pool_claimed

\* Accrued entitlements and the carried remainder are the fees, scaled.
dust_conserved(l) ==
  /\ l.total_shares * l.index + l.aggregate_correction + l.index_remainder
       = MAGNITUDE * (l.lifetime_fees - l.unallocated_fees)
  /\ l.index_remainder < MAGNITUDE

\* No position was paid more than it accrued.
never_overpaid(l) ==
  /\ \A a \in Accounts : magnified(l, a) >= MAGNITUDE * l.claimed[a]
  /\ pool_magnified(l) >= MAGNITUDE * l.pool_claimed

\* assert_accounting_backing.
accounting_backing(l) ==
  /\ l.reward_vault = aggregate_liability(l) + l.unallocated_fees
                        + l.rounding_reserve
  /\ l.reward_vault = l.lifetime_fees - l.lifetime_materialized
                        - l.lifetime_custody_routed

\* No position owes a negative reward, and the vault covers all pending
\* rewards, the pool's too, next to the unallocated fees.
pending(l) == [a \in Accounts |-> claimable_for_store(l, a)]

solvent(l) ==
  /\ \A a \in Accounts : magnified(l, a) >= 0 /\ pending(l)[a] >= 0
  /\ pool_magnified(l) >= 0 /\ custody_pending_for_store(l) >= 0
  /\ total(pending(l)) + custody_pending_for_store(l) + l.unallocated_fees
       <= l.reward_vault

Sound(l) ==
  /\ l \in Ledger
  /\ shares_match(l)
  /\ aggregates_match(l)
  /\ dust_conserved(l)
  /\ never_overpaid(l)
  /\ accounting_backing(l)
=============================================================================
