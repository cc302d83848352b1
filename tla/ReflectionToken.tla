-------------------------- MODULE ReflectionToken --------------------------
(***************************************************************************)
(* reflection_core::reflection_token as a state machine: the transferable  *)
(* token, its reward index, the canonical pool's custody position and the  *)
(* one-way launch lifecycle.  An action is one public function; it is      *)
(* enabled when every assertion of that function holds, for a transaction  *)
(* that aborts changes nothing.                                            *)
(*                                                                         *)
(* The canonical AMM and the faucet are the environment: they hold the     *)
(* capabilities and may call the functions that need them at any time.     *)
(* A script may also withdraw a FungibleAsset, call anything else, and     *)
(* deposit the asset later: in_flight is the amount held that way.         *)
(***************************************************************************)
EXTENDS ReflectionLedger

CONSTANT MaxLifetimeFees   \* bound on lifetime_fees, to keep the model finite

ASSUME BoundAssumption == MaxLifetimeFees \in Nat

CONFIGURING == 0
LIVE == 1
CLOSED == 2

VARIABLES
  ledger,      \* the numeric state, see ReflectionLedger
  lifecycle,   \* ReflectionState.lifecycle
  setup,       \* launch prerequisites met so far
  exclusions,  \* accounts whose primary store is in ReflectionState.exclusions
  registered,  \* CustodyAccounting.registered_wallets
  in_flight    \* withdrawn and not yet deposited

vars == <<ledger, lifecycle, setup, exclusions, registered, in_flight>>

Prerequisites == {"settlement_capability_issued", "faucet_capability_issued",
                  "pool_registered", "protocol_exclusions_bound"}

TypeOK ==
  /\ ledger \in Ledger
  /\ lifecycle \in {CONFIGURING, LIVE, CLOSED}
  /\ setup \subseteq Prerequisites
  /\ exclusions \subseteq Publishers
  /\ registered \subseteq Accounts
  /\ in_flight \in Nat

\* initialize: the publisher's own primary store is excluded from the start.
Init ==
  /\ \E fee_bps \in 0 .. MAX_FEE_BPS : ledger = initial_ledger(fee_bps)
  /\ lifecycle = CONFIGURING
  /\ setup = {}
  /\ exclusions = {"reflection_core"}
  /\ registered = {}
  /\ in_flight = 0

-----------------------------------------------------------------------------
(* Guards *)

assert_live == lifecycle = LIVE
assert_configuring == lifecycle = CONFIGURING
assert_token_transferable == lifecycle \in {LIVE, CLOSED}

is_eligible_wallet_store(a) == a \notin exclusions /\ a \in registered

\* Refuses a store that was funded before it was registered.
can_register(a) == a \in registered \/ ledger.raw[a] = 0

Amounts == 1 .. TOTAL_SUPPLY
FeesWithinBound(fee) == ledger.lifetime_fees + fee <= MaxLifetimeFees

-----------------------------------------------------------------------------
(* Launch: one-time steps of the publishers, then the seal *)

prepare(step) ==
  /\ assert_configuring
  /\ step \notin setup
  /\ setup' = setup \cup {step}

issue_settlement_capability ==
  /\ prepare("settlement_capability_issued")
  /\ UNCHANGED <<ledger, lifecycle, exclusions, registered, in_flight>>

issue_faucet_capability ==
  /\ prepare("faucet_capability_issued")
  /\ UNCHANGED <<ledger, lifecycle, exclusions, registered, in_flight>>

register_canonical_custody ==
  /\ prepare("pool_registered")
  /\ ledger.pool_store = 0
  /\ ledger.lp_vault = 0
  /\ UNCHANGED <<ledger, lifecycle, exclusions, registered, in_flight>>

bind_protocol_exclusions ==
  /\ prepare("protocol_exclusions_bound")
  /\ \A a \in {"test_assets", "test_amm"} :
       a \notin registered /\ a \notin exclusions /\ ledger.raw[a] = 0
  /\ exclusions' = exclusions \cup {"test_assets", "test_amm"}
  /\ UNCHANGED <<ledger, lifecycle, registered, in_flight>>

seed_pool ==
  /\ assert_configuring
  /\ "pool_registered" \in setup
  /\ ledger.distribution_vault >= INITIAL_POOL_RFL
  /\ ledger' = seed_pool_from_distribution(ledger)
  /\ UNCHANGED <<lifecycle, setup, exclusions, registered, in_flight>>

seal_launch ==
  /\ assert_configuring
  /\ setup = Prerequisites
  /\ ledger.custody_shares > 0
  /\ lifecycle' = LIVE
  /\ UNCHANGED <<ledger, setup, exclusions, registered, in_flight>>

close_pool ==
  /\ assert_live
  /\ ledger.custody_shares = 0
  /\ ledger.pool_store = 0
  /\ custody_pending_for_store(ledger) = 0
  /\ lifecycle' = CLOSED
  /\ UNCHANGED <<ledger, setup, exclusions, registered, in_flight>>

-----------------------------------------------------------------------------
(* Wallets *)

\* An eligible wallet collects its reward and is debited.  A publisher's
\* excluded primary store may be debited too; it holds nothing.
withdraw_hook_impl(a, amount) ==
  /\ assert_token_transferable
  /\ \/ /\ is_eligible_wallet_store(a)
        /\ derived_balance(ledger, a) >= amount
        /\ ledger' = debit_wallet(materialize_all_to_store(ledger, a), a, amount)
     \/ /\ a \in exclusions
        /\ ledger.raw[a] >= amount
        /\ ledger' = wallet_store(ledger, a, -amount)
  /\ in_flight' = in_flight + amount
  /\ UNCHANGED <<lifecycle, setup, exclusions, registered>>

deposit_hook_impl(a, amount) ==
  /\ assert_token_transferable
  /\ a \notin exclusions
  /\ can_register(a)
  /\ amount <= in_flight
  /\ registered' = registered \cup {a}
  /\ ledger' = credit_wallet(materialize_all_to_store(ledger, a), a, amount)
  /\ in_flight' = in_flight - amount
  /\ UNCHANGED <<lifecycle, setup, exclusions>>

register_wallet(a) ==
  /\ assert_token_transferable
  /\ a \notin exclusions
  /\ can_register(a)
  /\ registered' = registered \cup {a}
  /\ UNCHANGED <<ledger, lifecycle, setup, exclusions, in_flight>>

claim(a, amount) ==
  /\ assert_token_transferable
  /\ a \in registered
  /\ amount <= claimable_for_store(ledger, a)
  /\ ledger' = materialize_to_store(ledger, a, amount)
  /\ UNCHANGED <<lifecycle, setup, exclusions, registered, in_flight>>

claim_all(a) ==
  /\ assert_token_transferable
  /\ a \in registered
  /\ claimable_for_store(ledger, a) > 0
  /\ ledger' = materialize_all_to_store(ledger, a)
  /\ UNCHANGED <<lifecycle, setup, exclusions, registered, in_flight>>

-----------------------------------------------------------------------------
(* Holders of a capability *)

faucet(a, amount) ==
  /\ assert_live
  /\ a \notin exclusions
  /\ can_register(a)
  /\ ledger.distribution_vault >= amount
  /\ registered' = registered \cup {a}
  /\ ledger' = faucet_grant(ledger, a, amount)
  /\ UNCHANGED <<lifecycle, setup, exclusions, in_flight>>

sell(a, gross) ==
  /\ assert_live
  /\ is_eligible_wallet_store(a)
  /\ derived_balance(ledger, a) >= gross
  /\ FeesWithinBound(fee_for(ledger, gross))
  /\ ledger' = settle_sell(ledger, a, gross)
  /\ UNCHANGED <<lifecycle, setup, exclusions, registered, in_flight>>

buy(a, gross) ==
  /\ assert_live
  /\ a \notin exclusions
  /\ can_register(a)
  /\ ledger.custody_shares >= gross
  /\ gross - fee_for(ledger, gross) > 0
  /\ FeesWithinBound(fee_for(ledger, gross))
  /\ registered' = registered \cup {a}
  /\ ledger' = settle_buy(ledger, a, gross)
  /\ UNCHANGED <<lifecycle, setup, exclusions, in_flight>>

move_wallet_to_custody(a, amount) ==
  /\ assert_live
  /\ a \in registered
  /\ derived_balance(ledger, a) >= amount
  /\ ledger' = wallet_to_custody(ledger, a, amount)
  /\ UNCHANGED <<lifecycle, setup, exclusions, registered, in_flight>>

\* Mutant: the recipient is not registered.
move_custody_unregistered(a, amount) ==
  /\ assert_live
  /\ a \notin exclusions
  /\ ledger.custody_shares >= amount
  /\ ledger' = custody_to_wallet(ledger, a, amount)
  /\ UNCHANGED <<lifecycle, setup, exclusions, registered, in_flight>>

move_custody_to_wallet(a, amount) ==
  /\ assert_live
  /\ a \notin exclusions
  /\ can_register(a)
  /\ ledger.custody_shares >= amount
  /\ registered' = registered \cup {a}
  /\ ledger' = custody_to_wallet(ledger, a, amount)
  /\ UNCHANGED <<lifecycle, setup, exclusions, in_flight>>

route_rewards ==
  /\ assert_live
  /\ ledger.pool_store = ledger.custody_shares
  /\ ledger' = route_custody_rewards(ledger)
  /\ UNCHANGED <<lifecycle, setup, exclusions, registered, in_flight>>

\* Mutant: the claimant may own an excluded store.
payout_lp_reward_anywhere(a, amount) ==
  /\ assert_token_transferable
  /\ can_register(a)
  /\ ledger.lp_vault >= amount
  /\ registered' = registered \cup {a}
  /\ ledger' = payout_lp_reward_to(ledger, a, amount)
  /\ UNCHANGED <<lifecycle, setup, exclusions, in_flight>>

payout_lp_reward(a, amount) ==
  /\ assert_token_transferable
  /\ a \notin exclusions
  /\ can_register(a)
  /\ ledger.lp_vault >= amount
  /\ registered' = registered \cup {a}
  /\ ledger' = payout_lp_reward_to(ledger, a, amount)
  /\ UNCHANGED <<lifecycle, setup, exclusions, in_flight>>

-----------------------------------------------------------------------------
Launch ==
  \/ issue_settlement_capability \/ issue_faucet_capability
  \/ register_canonical_custody \/ bind_protocol_exclusions
  \/ seed_pool \/ seal_launch \/ close_pool

Wallet(a) ==
  \/ \E amount \in {0} \cup Amounts :
       withdraw_hook_impl(a, amount) \/ deposit_hook_impl(a, amount)
  \/ \E amount \in Amounts : claim(a, amount)
  \/ register_wallet(a) \/ claim_all(a)

Settlement(a) ==
  \E amount \in Amounts :
    \/ faucet(a, amount) \/ sell(a, amount) \/ buy(a, amount)
    \/ move_wallet_to_custody(a, amount) \/ move_custody_to_wallet(a, amount)
    \/ payout_lp_reward(a, amount)

Next ==
  \/ Launch
  \/ route_rewards
  \/ \E a \in Accounts : Wallet(a) \/ Settlement(a)

Spec == Init /\ [][Next]_vars

-----------------------------------------------------------------------------
(* Properties *)

\* Every unit of weight is a unit somebody holds: the total the index divides
\* by (total_shares) is the raw balances of the wallets and of the pool, and
\* the pool's weight is its store's balance (assert_custody_matches_raw).
SharesMatchBalances == shares_match(ledger)

\* No division dust is lost: what the positions have accrued so far, with the
\* carried index_remainder, is exactly the fees the index received, scaled.
DustConserved == dust_conserved(ledger)

\* assert_accounting_backing never fails: the vault holds the fees not paid out
\* yet, and is liability, unallocated fees and rounding reserve to the unit,
\* though the reserve is only recomputed when a fee arrives.
AccountingBacking == accounting_backing(ledger)

\* Every holder can be paid at once: no position owes a negative reward (so
\* apply and checked_subtract never abort a transfer), and the vault covers
\* all pending rewards, the pool's too, next to the unallocated fees.
RewardsSolvent == solvent(ledger)

\* Rounding in the global division strands at most one unit, however many
\* fees were divided, and none when the division left no remainder.
RoundingWithinOne ==
  ledger.rounding_reserve = IF ledger.index_remainder = 0 THEN 0 ELSE 1

\* The supply minted by initialize is all there is, wherever it sits.
SupplyConserved == held(ledger) + in_flight = TOTAL_SUPPLY

\* Whoever owns units or rewards may spend and claim them: the account is
\* registered, its store is not excluded and the token is transferable, so
\* closing the pool strands nobody.
RewardsReachable ==
  \A a \in Accounts : derived_balance(ledger, a) > 0 =>
    is_eligible_wallet_store(a) /\ assert_token_transferable

\* A closed pool owns nothing and is owed nothing, ever again.
ClosedPoolIsEmpty ==
  lifecycle = CLOSED => /\ ledger.custody_shares = 0
                        /\ ledger.pool_store = 0
                        /\ custody_pending_for_store(ledger) = 0

\* An account that was never registered has no position at all.
UnregisteredOwnNothing ==
  \A a \in Accounts \ registered :
    ledger.raw[a] = 0 /\ ledger.correction[a] = 0 /\ ledger.claimed[a] = 0

\* The inductive invariant behind the properties above.  Beside the sound
\* ledger and the supply it says who has a position: only registered accounts,
\* none of them excluded and none before the launch is sealed, so that no
\* store drops out of the sums when exclusions are bound and a withdrawal from
\* an excluded store moves nothing.
Inv ==
  /\ TypeOK
  /\ Sound(ledger)
  /\ SupplyConserved
  /\ UnregisteredOwnNothing
  /\ registered \cap exclusions = {}
  /\ lifecycle = CONFIGURING => registered = {}
  /\ ClosedPoolIsEmpty

MinOf(x, y) == IF x <= y THEN x ELSE y

\* A fee is earned by units held before and after the trade that pays it: the
\* units a seller gives up, the units a buyer receives and the units that
\* enter or leave the pool earn nothing from their own fee, and where no fee
\* is paid nothing is earned, so units that change hands carry no history.
EarnedOnHeldUnits ==
  LET growth == ledger'.index - ledger.index
  IN  /\ \A a \in Accounts :
           magnified(ledger', a) - magnified(ledger, a)
             <= MinOf(derived_balance(ledger, a), derived_balance(ledger', a))
                  * growth
      /\ pool_magnified(ledger') - pool_magnified(ledger)
           <= MinOf(ledger.custody_shares, ledger'.custody_shares) * growth

EarnsOnHeldUnits == [][EarnedOnHeldUnits]_vars

\* Collecting is never a loss: only the account itself, by a withdrawal, a
\* sale or a liquidity deposit, makes its derived balance (raw balance and
\* pending reward) fall; materializing on somebody else's transfer does not.
LostOnlyBySpending ==
  \A a \in Accounts :
    derived_balance(ledger', a) < derived_balance(ledger, a) =>
      \E amount \in Amounts :
        \/ withdraw_hook_impl(a, amount)
        \/ sell(a, amount)
        \/ move_wallet_to_custody(a, amount)

BalanceLostOnlyBySpending == [][LostOnlyBySpending]_vars
=============================================================================
