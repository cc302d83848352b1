------------------------ MODULE ReflectionSettlement ------------------------
(***************************************************************************)
(* test_amm::reflection_settlement: the arithmetic of swaps, deposits and  *)
(* withdrawals.  A function with an explicit narrowing assertion has two   *)
(* operators here: its result, and narrows_..., the E_NARROWING_OVERFLOW   *)
(* assertions it evaluates on the way.  Intermediate products never leave  *)
(* the widened type: u64 * u64 fits u128, u64 * u128 fits u256.            *)
(***************************************************************************)
EXTENDS Integers

CONSTANTS
  BPS_DENOMINATOR,
  MAX_U64,      \* MAX_U64_AS_U128, MAX_U64_AS_U256
  MAX_U128      \* MAX_U128_AS_U256

ASSUME BpsAssumption == BPS_DENOMINATOR \in Nat \ {0}
ASSUME WidthAssumption == MAX_U64 \in Nat /\ MAX_U128 \in Nat /\ MAX_U64 <= MAX_U128

\* What is left of the input for pricing is rounded down, so the fee is
\* rounded up.
invariant_input(amount, fee_bps) ==
  (amount * (BPS_DENOMINATOR - fee_bps)) \div BPS_DENOMINATOR

fee(amount, fee_bps) == amount - invariant_input(amount, fee_bps)

\* Mutant: the trader's output is rounded up.
constant_product_output_ceil(reserve_in, reserve_out, input, fee_bps) ==
  LET priced == input - fee(input, fee_bps)
  IN  (reserve_out * priced + reserve_in + priced - 1) \div (reserve_in + priced)

constant_product_output(reserve_in, reserve_out, input, fee_bps) ==
  LET priced == input - fee(input, fee_bps)
  IN  (reserve_out * priced) \div (reserve_in + priced)

narrows_swap(reserve_in, reserve_out, input, fee_bps) ==
  /\ invariant_input(input, fee_bps) <= MAX_U64
  /\ constant_product_output(reserve_in, reserve_out, input, fee_bps) <= MAX_U64

\* The integer square root; module IntegerSqrt has the loop that computes it.
is_floor_sqrt(root, value) == root * root <= value /\ value < (root + 1) * (root + 1)

initial_lp_shares(rfl_amount, usd_amount) ==
  CHOOSE root \in 0 .. rfl_amount * usd_amount :
    is_floor_sqrt(root, rfl_amount * usd_amount)

ceil_div_u256(numerator, denominator) ==
  IF numerator = 0 THEN 0 ELSE (numerator - 1) \div denominator + 1

shares_from(max, reserve, total_shares) == (max * total_shares) \div reserve

\* Mutant: the more generous ratio decides.
minted_shares_generous(max_rfl, max_usd, reserve_rfl, reserve_usd, total_shares) ==
  LET from_rfl == shares_from(max_rfl, reserve_rfl, total_shares)
      from_usd == shares_from(max_usd, reserve_usd, total_shares)
  IN  IF from_rfl < from_usd THEN from_usd ELSE from_rfl

\* The limiting side decides.
minted_shares(max_rfl, max_usd, reserve_rfl, reserve_usd, total_shares) ==
  LET from_rfl == shares_from(max_rfl, reserve_rfl, total_shares)
      from_usd == shares_from(max_usd, reserve_usd, total_shares)
  IN  IF from_rfl < from_usd THEN from_rfl ELSE from_usd

\* Mutant: the contribution is rounded down.
contribution_floor(shares, reserve, total_shares) ==
  (shares * reserve) \div total_shares

\* What liquidity_mint takes of a reserve's asset for the minted shares.
contribution(shares, reserve, total_shares) ==
  ceil_div_u256(shares * reserve, total_shares)

liquidity_mint(max_rfl, max_usd, reserve_rfl, reserve_usd, total_shares) ==
  LET shares == minted_shares(max_rfl, max_usd, reserve_rfl, reserve_usd, total_shares)
  IN  [ shares |-> shares,
        rfl_used |-> contribution(shares, reserve_rfl, total_shares),
        usd_used |-> contribution(shares, reserve_usd, total_shares) ]

narrows_mint(max_rfl, max_usd, reserve_rfl, reserve_usd, total_shares) ==
  LET minted == liquidity_mint(max_rfl, max_usd, reserve_rfl, reserve_usd, total_shares)
  IN  /\ minted.shares <= MAX_U128
      /\ minted.rfl_used <= MAX_U64
      /\ minted.usd_used <= MAX_U64

\* liquidity_withdrawal, for one of the two reserves.
withdrawal(shares, total_shares, reserve) ==
  IF shares = total_shares THEN reserve
  ELSE (shares * reserve) \div total_shares
=============================================================================
