---------------------------- MODULE AmmReserves ----------------------------
(***************************************************************************)
(* The reserves and shares of test_amm::pool, and the pricing that moves   *)
(* them: what pool.move computes with reflection_settlement, every limit   *)
(* it asserts included.  Wallets, rewards and the token's own accounting   *)
(* are left out (module Pool has them): a caller may offer any amount, and *)
(* the reflection fee taken from a sale is any part of it.                 *)
(***************************************************************************)
EXTENDS ReflectionSettlement

CONSTANTS
  FIXED_AMM_FEE_BPS,
  FIXED_MAX_RESERVE_BPS,     \* share of a reserve one swap may move
  FIXED_MAX_GROSS_SWAP,
  FIXED_MAX_LIQUIDITY_RFL,
  FIXED_MAX_LIQUIDITY_USD,
  INITIAL_TRFL_LIQUIDITY,
  INITIAL_TUSD_LIQUIDITY

ASSUME LimitsAssumption ==
  /\ FIXED_AMM_FEE_BPS \in 0 .. BPS_DENOMINATOR
  /\ FIXED_MAX_RESERVE_BPS \in 0 .. BPS_DENOMINATOR
  /\ FIXED_MAX_GROSS_SWAP \in Nat
  /\ FIXED_MAX_LIQUIDITY_RFL \in Nat
  /\ FIXED_MAX_LIQUIDITY_USD \in Nat
  /\ INITIAL_TRFL_LIQUIDITY \in 1 .. MAX_U64
  /\ INITIAL_TUSD_LIQUIDITY \in 1 .. MAX_U64

VARIABLES
  rfl,        \* raw balance of PoolState.rfl_reserve
  usd,        \* balance of PoolState.usd_reserve
  shares,     \* LpEpoch.total_shares
  lifecycle   \* "unlaunched" before PoolState exists

vars == <<rfl, usd, shares, lifecycle>>

TypeOK ==
  /\ rfl \in 0 .. MAX_U64
  /\ usd \in 0 .. MAX_U64
  /\ shares \in 0 .. MAX_U128
  /\ lifecycle \in {"unlaunched", "live", "closed"}

Init == rfl = 0 /\ usd = 0 /\ shares = 0 /\ lifecycle = "unlaunched"

-----------------------------------------------------------------------------
U64 == 1 .. MAX_U64

\* The framework aborts a deposit that overflows the store.
fits(balance) == balance <= MAX_U64

assert_swap_bounds(amount, reserve) ==
  /\ amount > 0 /\ amount <= FIXED_MAX_GROSS_SWAP
  /\ reserve > 0
  /\ amount * BPS_DENOMINATOR <= reserve * FIXED_MAX_RESERVE_BPS

assert_reserve_output_cap(output, reserve) ==
  output * BPS_DENOMINATOR <= reserve * FIXED_MAX_RESERVE_BPS

launch ==
  /\ lifecycle = "unlaunched"
  /\ rfl' = INITIAL_TRFL_LIQUIDITY
  /\ usd' = INITIAL_TUSD_LIQUIDITY
  /\ shares' = initial_lp_shares(INITIAL_TRFL_LIQUIDITY, INITIAL_TUSD_LIQUIDITY)
  /\ shares' > 0
  /\ lifecycle' = "live"

\* The input after the reflection fee is priced and joins the reserve.
sell_output(gross, reflection_fee) ==
  constant_product_output(rfl, usd, gross - reflection_fee, FIXED_AMM_FEE_BPS)

sell_succeeds(gross, reflection_fee) ==
  /\ lifecycle = "live"
  /\ assert_swap_bounds(gross, rfl)
  /\ assert_reserve_output_cap(sell_output(gross, reflection_fee), usd)
  /\ sell_output(gross, reflection_fee) > 0
  /\ fits(rfl + (gross - reflection_fee))

sell_trfl(gross, reflection_fee) ==
  /\ sell_succeeds(gross, reflection_fee)
  /\ rfl' = rfl + (gross - reflection_fee)
  /\ usd' = usd - sell_output(gross, reflection_fee)
  /\ UNCHANGED <<shares, lifecycle>>

\* The whole output leaves the reserve; the reflection fee is taken from it
\* on the buyer's side and must leave the buyer something.
buy_output(input) == constant_product_output(usd, rfl, input, FIXED_AMM_FEE_BPS)

buy_succeeds(input) ==
  /\ lifecycle = "live"
  /\ assert_swap_bounds(input, usd)
  /\ assert_reserve_output_cap(buy_output(input), rfl)
  /\ buy_output(input) > 0
  /\ fits(usd + input)

buy_trfl(input) ==
  /\ buy_succeeds(input)
  /\ usd' = usd + input
  /\ rfl' = rfl - buy_output(input)
  /\ UNCHANGED <<shares, lifecycle>>

add_liquidity(max_rfl, max_usd) ==
  LET minted == liquidity_mint(max_rfl, max_usd, rfl, usd, shares)
  IN  /\ lifecycle = "live"
      /\ narrows_mint(max_rfl, max_usd, rfl, usd, shares)
      /\ minted.rfl_used <= FIXED_MAX_LIQUIDITY_RFL
      /\ minted.usd_used <= FIXED_MAX_LIQUIDITY_USD
      /\ minted.shares > 0 /\ minted.rfl_used > 0 /\ minted.usd_used > 0
      /\ minted.rfl_used <= max_rfl /\ minted.usd_used <= max_usd
      /\ fits(rfl + minted.rfl_used) /\ fits(usd + minted.usd_used)
      /\ rfl' = rfl + minted.rfl_used
      /\ usd' = usd + minted.usd_used
      /\ shares' = shares + minted.shares
      /\ UNCHANGED lifecycle

\* Burning every share empties the reserves and closes the pool for good.
remove_liquidity(burned) ==
  LET rfl_out == withdrawal(burned, shares, rfl)
      usd_out == withdrawal(burned, shares, usd)
  IN  /\ lifecycle = "live"
      /\ shares >= burned
      /\ rfl_out > 0 /\ usd_out > 0
      /\ rfl' = rfl - rfl_out
      /\ usd' = usd - usd_out
      /\ shares' = shares - burned
      /\ lifecycle' = IF burned = shares THEN "closed" ELSE "live"

Next ==
  \/ launch
  \/ \E gross \in U64 : \E reflection_fee \in 0 .. gross : sell_trfl(gross, reflection_fee)
  \/ \E input \in U64 : buy_trfl(input)
  \/ \E max_rfl, max_usd \in U64 : add_liquidity(max_rfl, max_usd)
  \/ \E burned \in U64 : remove_liquidity(burned)

Spec == Init /\ [][Next]_vars

-----------------------------------------------------------------------------
(* Properties *)

\* A share is never worth less than at launch: the shares stay within the
\* geometric mean of the reserves, whatever the trades and the rounding.  So
\* they never need more than a reserve's width, though they are u128.
SharesBackedByReserves ==
  lifecycle = "live" =>
    rfl > 0 /\ usd > 0 /\ shares > 0 /\ shares * shares <= rfl * usd

\* Reserves and shares stay in their widths and the shares backed, and the
\* assertions before each narrowing conversion, and E_NOT_PROPORTIONAL, never
\* fire in a state the pool can be in, for any u64 input: the limiting side's
\* rounding up stays within the provider's maximum.
NarrowingNeverFires ==
  /\ TypeOK /\ SharesBackedByReserves
  /\ lifecycle = "live" =>
       /\ \A input \in U64 : /\ narrows_swap(rfl, usd, input, FIXED_AMM_FEE_BPS)
                             /\ narrows_swap(usd, rfl, input, FIXED_AMM_FEE_BPS)
       /\ \A max_rfl, max_usd \in U64 :
            LET minted == liquidity_mint(max_rfl, max_usd, rfl, usd, shares)
            IN  /\ narrows_mint(max_rfl, max_usd, rfl, usd, shares)
                /\ minted.rfl_used <= max_rfl /\ minted.usd_used <= max_usd
       /\ \A burned \in 1 .. shares : /\ withdrawal(burned, shares, rfl) <= rfl
                                      /\ withdrawal(burned, shares, usd) <= usd

\* Nobody gains by going in and out: shares bought and returned at once give
\* back no more than they cost, and an amount swapped there and back returns
\* no more than was put in.
RoundTripNeverPays ==
  lifecycle = "live" =>
    /\ \A max_rfl, max_usd \in U64 :
         LET minted == liquidity_mint(max_rfl, max_usd, rfl, usd, shares)
             back(reserve, used) ==
               withdrawal(minted.shares, shares + minted.shares, reserve + used)
         IN  /\ back(rfl, minted.rfl_used) <= minted.rfl_used
             /\ back(usd, minted.usd_used) <= minted.usd_used
    /\ \A input \in U64 :
         LET bought == constant_product_output(usd, rfl, input, FIXED_AMM_FEE_BPS)
             sold == constant_product_output(rfl, usd, input, FIXED_AMM_FEE_BPS)
         IN  /\ constant_product_output(rfl - bought, usd + input, bought,
                                        FIXED_AMM_FEE_BPS) <= input
             /\ constant_product_output(usd - sold, rfl + input, sold,
                                        FIXED_AMM_FEE_BPS) <= input

\* The reserves implement the promise of module LiquidityPool.
Promise == INSTANCE LiquidityPool

ImplementsPromise == Promise!Spec
=============================================================================
