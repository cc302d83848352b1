----------------------------- MODULE AmmProofs -----------------------------
(***************************************************************************)
(* The properties of AmmReserves, for every width, fee, limit and initial  *)
(* reserve: the pool implements the promise of LiquidityPool, no narrowing *)
(* assertion fires, and no round trip pays.  All of them rest on which way *)
(* each division of reflection_settlement rounds: an output and a payout   *)
(* down, a contribution up, the minted shares down and then to the smaller *)
(* of the two sides.                                                       *)
(* The last part is about SwapClient, the SDK's client trading with these  *)
(* reserves: what a call reads is read at its pinned version, what it      *)
(* issues is what was asked for, and an honest quote is always accepted.   *)
(***************************************************************************)
EXTENDS SwapClient, SumLemmas

\* The constants, one by one.
LEMMA Constants ==
  /\ BPS_DENOMINATOR \in Nat /\ BPS_DENOMINATOR > 0
  /\ MAX_U64 \in Nat /\ MAX_U128 \in Nat /\ MAX_U64 <= MAX_U128
  /\ FIXED_AMM_FEE_BPS \in Nat /\ FIXED_AMM_FEE_BPS <= BPS_DENOMINATOR
  /\ INITIAL_TRFL_LIQUIDITY \in Nat /\ INITIAL_TRFL_LIQUIDITY > 0
  /\ INITIAL_TRFL_LIQUIDITY <= MAX_U64
  /\ INITIAL_TUSD_LIQUIDITY \in Nat /\ INITIAL_TUSD_LIQUIDITY > 0
  /\ INITIAL_TUSD_LIQUIDITY <= MAX_U64
BY BpsAssumption, WidthAssumption, LimitsAssumption

-----------------------------------------------------------------------------
(* The arithmetic of reflection_settlement *)

\* What is priced of an input is a part of it; the rest is the fee.
LEMMA PricedPart ==
  ASSUME NEW input \in Nat, NEW bps \in Nat, bps <= BPS_DENOMINATOR
  PROVE  /\ invariant_input(input, bps) \in Nat
         /\ invariant_input(input, bps) <= input
         /\ fee(input, bps) \in Nat /\ fee(input, bps) <= input
         /\ input - fee(input, bps) = invariant_input(input, bps)
<1> DEFINE D == BPS_DENOMINATOR
           k == D - bps
           p == (input * k) \div D
<1>1. D \in Nat /\ D > 0 /\ k \in Nat /\ k <= D
  BY Constants
<1> HIDE DEF D, k
<1>2. input * k \in Nat /\ input * k <= D * input
  <2>1. input * k <= input * D
    BY <1>1, TimesMono
  <2>2. input * D = D * input /\ input * k \in Nat
    BY <1>1
  <2> QED BY <2>1, <2>2
<1>3. p \in Nat /\ p <= input
  BY <1>1, <1>2, DivNat, DivLeq
<1>4. p = invariant_input(input, bps)
  BY DEF invariant_input, D, k
<1> HIDE DEF p
<1>5. fee(input, bps) = input - p
  BY <1>4 DEF fee
<1> QED BY <1>3, <1>4, <1>5

\* constant_product_output keeps the product, with the whole input, its fee
\* included, joining the reserve.
LEMMA SwapKeepsProduct ==
  ASSUME NEW x \in Nat, x > 0, NEW y \in Nat, NEW input \in Nat, NEW bps \in Nat,
         bps <= BPS_DENOMINATOR
  PROVE  LET b == constant_product_output(x, y, input, bps) IN
         /\ b \in Nat /\ b <= y /\ (y > 0 => b < y)
         /\ b * x <= input * (y - b)
         /\ x * y <= (x + input) * (y - b)
<1> DEFINE p == invariant_input(input, bps)
<1>1. p \in Nat /\ p <= input /\ input - fee(input, bps) = p
  BY PricedPart
<1>2. constant_product_output(x, y, input, bps) = (y * p) \div (x + p)
  BY <1>1 DEF constant_product_output
<1> HIDE DEF p
<1> QED BY <1>1, <1>2, OutputKeepsProduct

\* ceil_div_u256: the smallest multiple of d that reaches n.
LEMMA CeilDiv ==
  ASSUME NEW n \in Nat, NEW d \in Nat, d > 0
  PROVE  LET c == ceil_div_u256(n, d) IN
         /\ c \in Nat /\ n <= c * d
         /\ \A m \in Nat : n <= m * d => c <= m
BY Ceiling DEF ceil_div_u256

\* What a provider gets and pays: the shares are backed by both maxima, and
\* each contribution covers its shares and stays within its maximum
\* (E_NOT_PROPORTIONAL and the u64 narrowings).
LEMMA MintBound ==
  ASSUME NEW x \in Nat, x > 0, NEW y \in Nat, y > 0, NEW t \in Nat, t > 0,
         NEW max_x \in Nat, NEW max_y \in Nat
  PROVE  LET m == liquidity_mint(max_x, max_y, x, y, t) IN
         /\ m.shares \in Nat /\ m.rfl_used \in Nat /\ m.usd_used \in Nat
         /\ m.shares * x <= max_x * t /\ m.shares * y <= max_y * t
         /\ m.shares * x <= m.rfl_used * t /\ m.shares * y <= m.usd_used * t
         /\ m.rfl_used <= max_x /\ m.usd_used <= max_y
<1> DEFINE a == shares_from(max_x, x, t)
           b == shares_from(max_y, y, t)
           s == minted_shares(max_x, max_y, x, y, t)
           m == liquidity_mint(max_x, max_y, x, y, t)
<1>1. a \in Nat /\ x * a <= max_x * t
  <2>1. max_x * t \in Nat
    OBVIOUS
  <2> QED BY <2>1, DivNat, DivMod DEF shares_from
<1>2. b \in Nat /\ y * b <= max_y * t
  <2>1. max_y * t \in Nat
    OBVIOUS
  <2> QED BY <2>1, DivNat, DivMod DEF shares_from
<1>3. s = IF a < b THEN a ELSE b
  BY DEF minted_shares
<1> HIDE DEF a, b
<1>4. s \in Nat /\ s <= a /\ s <= b
  BY <1>1, <1>2, <1>3
<1>5. m.shares = s /\ m.rfl_used = ceil_div_u256(s * x, t) /\ m.usd_used = ceil_div_u256(s * y, t)
  BY DEF liquidity_mint, contribution
<1> HIDE DEF s, m
<1>6. s * x <= max_x * t
  <2>1. s * x <= a * x
    BY <1>1, <1>4, TimesMono
  <2>2. a * x = x * a /\ a * x \in Int /\ s * x \in Int /\ max_x * t \in Int
    BY <1>1, <1>4
  <2> QED BY <1>1, <2>1, <2>2
<1>7. s * y <= max_y * t
  <2>1. s * y <= b * y
    BY <1>2, <1>4, TimesMono
  <2>2. b * y = y * b /\ b * y \in Int /\ s * y \in Int /\ max_y * t \in Int
    BY <1>2, <1>4
  <2> QED BY <1>2, <2>1, <2>2
<1>8. s * x \in Nat /\ s * y \in Nat
  BY <1>4
<1> DEFINE u == ceil_div_u256(s * x, t)
           w == ceil_div_u256(s * y, t)
<1>9. u \in Nat /\ s * x <= u * t /\ u <= max_x
  BY <1>6, <1>8, CeilDiv
<1>10. w \in Nat /\ s * y <= w * t /\ w <= max_y
  BY <1>7, <1>8, CeilDiv
<1> HIDE DEF u, w
<1>11. m.shares = s /\ m.rfl_used = u /\ m.usd_used = w
  BY <1>5 DEF u, w
<1> QED BY <1>4, <1>6, <1>7, <1>9, <1>10, <1>11 DEF m

\* What a leaver takes of one reserve is within it, is in proportion or less,
\* and leaves something for whoever stays.
LEMMA WithdrawalBound ==
  ASSUME NEW x \in Nat, NEW t \in Nat, NEW s \in Nat, t > 0, s <= t
  PROVE  LET w == withdrawal(s, t, x) IN
         /\ w \in Nat /\ w <= x /\ w * t <= s * x
         /\ (s = t => w = x)
         /\ (s < t /\ x > 0 => w < x)
BY ShareOfReserve DEF withdrawal

-----------------------------------------------------------------------------
(* The backing of the shares *)

\* If what a share stands for does not fall in either asset, shares within the
\* geometric mean of the reserves stay within it.
LEMMA ResizeBacked ==
  ASSUME NEW x \in Nat, NEW y \in Nat, NEW t \in Nat, t > 0, t * t <= x * y,
         NEW x1 \in Nat, NEW y1 \in Nat, NEW t1 \in Nat,
         x * t1 <= x1 * t, y * t1 <= y1 * t
  PROVE  t1 * t1 <= x1 * y1
<1> DEFINE a == x * t1
           b == y * t1
           c == x1 * t
           d == y1 * t
           T == t * t
           P == x1 * y1
           Q == t1 * t1
<1>1. a \in Nat /\ b \in Nat /\ c \in Nat /\ d \in Nat /\ T \in Nat /\ P \in Nat /\ Q \in Nat
  OBVIOUS
<1>2. a * b <= c * d
  <2>1. a <= c /\ b <= d
    OBVIOUS
  <2> HIDE DEF a, b, c, d
  <2>2. a * b <= c * b /\ c * b <= c * d
    BY <1>1, <2>1, TimesMono
  <2>3. a * b \in Int /\ c * b \in Int /\ c * d \in Int
    BY <1>1
  <2> QED BY <2>2, <2>3
<1>3. a * b = (x * y) * Q /\ c * d = T * P
  OBVIOUS
<1>4. T * Q <= (x * y) * Q
  <2> DEFINE R == x * y
  <2>1. R \in Nat /\ T <= R
    OBVIOUS
  <2> HIDE DEF R, T, Q
  <2>2. T * Q <= R * Q
    BY <1>1, <2>1, TimesMono
  <2> QED BY <2>2 DEF R
<1>5. T > 0
  OBVIOUS
<1>6. T * Q <= T * P
  <2>1. (x * y) * Q \in Int /\ T * Q \in Int /\ T * P \in Int
    <3>1. x * y \in Nat
      OBVIOUS
    <3> HIDE DEF T, P, Q
    <3> QED BY <1>1, <3>1
  <2> HIDE DEF a, b, c, d, T, P, Q
  <2> QED BY <1>2, <1>3, <1>4, <2>1
<1>7. Q <= P
  <2> HIDE DEF T, P, Q
  <2> QED BY <1>1, <1>5, <1>6, CancelLeq
<1> QED BY <1>7

\* Backed shares never need more than a reserve's width.
LEMMA BackedFits ==
  ASSUME NEW x \in Nat, NEW y \in Nat, NEW t \in Nat, t * t <= x * y,
         x <= MAX_U64, y <= MAX_U64
  PROVE  t <= MAX_U64
<1> DEFINE M == MAX_U64
<1>1. M \in Nat /\ x <= M /\ y <= M
  BY Constants
<1> HIDE DEF M
<1>2. x * y <= M * y /\ M * y <= M * M
  BY <1>1, TimesMono
<1>3. t * t \in Int /\ x * y \in Int /\ M * y \in Int /\ M * M \in Int
  BY <1>1
<1>4. t * t <= M * M
  BY <1>2, <1>3
<1>5. t <= M
  BY <1>1, <1>4, RootLeq
<1> QED BY <1>5 DEF M

\* The invariant: widths, and the backing of the shares.
IInv == TypeOK /\ SharesBackedByReserves

\* What the invariant says of a pool that is live.
LEMMA LiveFacts ==
  ASSUME IInv, lifecycle = "live"
  PROVE  /\ rfl \in Nat /\ rfl > 0 /\ rfl <= MAX_U64
         /\ usd \in Nat /\ usd > 0 /\ usd <= MAX_U64
         /\ shares \in Nat /\ shares > 0 /\ shares <= MAX_U64
         /\ shares * shares <= rfl * usd
<1>1. /\ rfl \in Nat /\ rfl > 0 /\ rfl <= MAX_U64
      /\ usd \in Nat /\ usd > 0 /\ usd <= MAX_U64
      /\ shares \in Nat /\ shares > 0 /\ shares * shares <= rfl * usd
  BY Constants DEF IInv, TypeOK, SharesBackedByReserves
<1> QED BY <1>1, BackedFits

\* A state of a live pool that is typed and backed satisfies the invariant.
LEMMA LiveInv ==
  ASSUME rfl' \in Nat, usd' \in Nat, shares' \in Nat,
         rfl' > 0, usd' > 0, shares' > 0, rfl' <= MAX_U64, usd' <= MAX_U64,
         shares' * shares' <= rfl' * usd', lifecycle' = "live"
  PROVE  IInv' /\ Promise!Positive'
<1>1. shares' <= MAX_U64
  BY BackedFits
<1>2. TypeOK'
  BY <1>1, Constants DEF TypeOK
<1> QED BY <1>2 DEF IInv, SharesBackedByReserves, Promise!Positive

\* The first shares are the integer square root of the reserves' product.
LEMMA LaunchStep ==
  ASSUME IInv, launch
  PROVE  IInv' /\ Promise!Open
<1> DEFINE n == INITIAL_TRFL_LIQUIDITY * INITIAL_TUSD_LIQUIDITY
           s == initial_lp_shares(INITIAL_TRFL_LIQUIDITY, INITIAL_TUSD_LIQUIDITY)
<1>0. n \in Nat
  BY Constants
<1>1. s = CHOOSE r \in 0 .. n : is_floor_sqrt(r, n)
  BY DEF initial_lp_shares
<1> HIDE DEF n, s
<1>2. s \in Nat /\ s * s <= n
  <2>1. \E r \in 0 .. n : is_floor_sqrt(r, n)
    BY <1>0, FloorSqrt DEF is_floor_sqrt
  <2>2. s \in 0 .. n /\ is_floor_sqrt(s, n)
    BY <1>1, <2>1
  <2> QED BY <1>0, <2>2 DEF is_floor_sqrt
<1>3. /\ rfl' = INITIAL_TRFL_LIQUIDITY /\ usd' = INITIAL_TUSD_LIQUIDITY
      /\ shares' = s /\ shares' > 0 /\ lifecycle = "unlaunched" /\ lifecycle' = "live"
  BY DEF launch, s
<1>4. shares' * shares' <= rfl' * usd'
  BY <1>2, <1>3 DEF n
<1>5. IInv' /\ Promise!Positive'
  BY <1>2, <1>3, <1>4, LiveInv, Constants
<1> QED BY <1>3, <1>4, <1>5 DEF Promise!Open

\* A trade in either direction keeps the reserves positive and their product
\* from falling: x is the reserve of the input, y that of the output.
LEMMA TradeArithmetic ==
  ASSUME NEW x \in Nat, x > 0, NEW y \in Nat, y > 0, NEW input \in Nat
  PROVE  LET b == constant_product_output(x, y, input, FIXED_AMM_FEE_BPS) IN
         /\ b \in Nat /\ y - b \in Nat /\ y - b > 0 /\ y - b <= y
         /\ x + input \in Nat /\ x + input > 0
         /\ x * y <= (x + input) * (y - b)
<1> DEFINE b == constant_product_output(x, y, input, FIXED_AMM_FEE_BPS)
<1>1. b \in Nat /\ b < y /\ x * y <= (x + input) * (y - b)
  BY Constants, SwapKeepsProduct
<1> HIDE DEF b
<1> QED BY <1>1 DEF b

\* A sale: whatever part of it the reflection fee takes.
LEMMA SellStep ==
  ASSUME IInv, NEW gross \in Nat, NEW reflection_fee \in 0 .. gross,
         sell_trfl(gross, reflection_fee)
  PROVE  IInv' /\ Promise!Trade
<1> DEFINE net == gross - reflection_fee
           b == constant_product_output(rfl, usd, net, FIXED_AMM_FEE_BPS)
<1>0. lifecycle = "live" /\ rfl' = rfl + net /\ usd' = usd - b /\ rfl + net <= MAX_U64
      /\ shares' = shares /\ lifecycle' = lifecycle
  BY DEF sell_trfl, sell_succeeds, sell_output, fits
<1>1. net \in Nat
  OBVIOUS
<1>2. /\ rfl \in Nat /\ rfl > 0 /\ usd \in Nat /\ usd > 0 /\ usd <= MAX_U64
      /\ shares \in Nat /\ shares > 0 /\ shares * shares <= rfl * usd
  BY <1>0, LiveFacts
<1> HIDE DEF net
<1>3. /\ usd - b \in Nat /\ usd - b > 0 /\ usd - b <= usd
      /\ rfl + net \in Nat /\ rfl + net > 0
      /\ rfl * usd <= (rfl + net) * (usd - b)
  BY <1>1, <1>2, TradeArithmetic
<1> HIDE DEF b
<1>4. rfl' * usd' >= rfl * usd /\ shares' * shares' <= rfl' * usd'
  <2>1. rfl * usd \in Int /\ (rfl + net) * (usd - b) \in Int /\ shares * shares \in Int
    BY <1>2, <1>3
  <2>2. shares * shares <= (rfl + net) * (usd - b)
    BY <1>2, <1>3, <2>1
  <2> QED BY <1>0, <1>3, <2>1, <2>2
<1>5. /\ rfl' \in Nat /\ rfl' > 0 /\ rfl' <= MAX_U64
      /\ usd' \in Nat /\ usd' > 0 /\ usd' <= MAX_U64
  BY <1>0, <1>2, <1>3, Constants
<1>6. IInv' /\ Promise!Positive'
  BY <1>0, <1>2, <1>4, <1>5, LiveInv
<1> QED BY <1>0, <1>4, <1>6 DEF Promise!Trade

\* A purchase.
LEMMA BuyStep ==
  ASSUME IInv, NEW input \in Nat, buy_trfl(input)
  PROVE  IInv' /\ Promise!Trade
<1> DEFINE b == constant_product_output(usd, rfl, input, FIXED_AMM_FEE_BPS)
<1>0. lifecycle = "live" /\ usd' = usd + input /\ rfl' = rfl - b /\ usd + input <= MAX_U64
      /\ shares' = shares /\ lifecycle' = lifecycle
  BY DEF buy_trfl, buy_succeeds, buy_output, fits
<1>1. input \in Nat
  OBVIOUS
<1>2. /\ rfl \in Nat /\ rfl > 0 /\ usd \in Nat /\ usd > 0 /\ rfl <= MAX_U64
      /\ shares \in Nat /\ shares > 0 /\ shares * shares <= rfl * usd
  BY <1>0, LiveFacts
<1>3. /\ rfl - b \in Nat /\ rfl - b > 0 /\ rfl - b <= rfl
      /\ usd + input \in Nat /\ usd + input > 0
      /\ usd * rfl <= (usd + input) * (rfl - b)
  BY <1>1, <1>2, TradeArithmetic
<1> HIDE DEF b
<1>4. rfl' * usd' >= rfl * usd /\ shares' * shares' <= rfl' * usd'
  <2>1. rfl * usd = usd * rfl /\ rfl * usd \in Int /\ shares * shares \in Int
    BY <1>2
  <2>2. (rfl - b) * (usd + input) = (usd + input) * (rfl - b)
        /\ (usd + input) * (rfl - b) \in Int
    BY <1>3
  <2>3. shares * shares <= (rfl - b) * (usd + input)
    BY <1>2, <1>3, <2>1, <2>2
  <2> QED BY <1>0, <1>3, <2>1, <2>2, <2>3
<1>5. /\ rfl' \in Nat /\ rfl' > 0 /\ rfl' <= MAX_U64
      /\ usd' \in Nat /\ usd' > 0 /\ usd' <= MAX_U64
  BY <1>0, <1>2, <1>3, Constants
<1>6. IInv' /\ Promise!Positive'
  BY <1>0, <1>2, <1>4, <1>5, LiveInv
<1> QED BY <1>0, <1>4, <1>6 DEF Promise!Trade

\* A provider joins: contributions are rounded up, so no share loses worth.
LEMMA AddStep ==
  ASSUME IInv, NEW max_rfl \in Nat, NEW max_usd \in Nat, add_liquidity(max_rfl, max_usd)
  PROVE  IInv' /\ Promise!Resize
<1> DEFINE m == liquidity_mint(max_rfl, max_usd, rfl, usd, shares)
           s == m.shares
           a == m.rfl_used
           b == m.usd_used
<1>0. /\ lifecycle = "live" /\ lifecycle' = lifecycle
      /\ rfl' = rfl + a /\ usd' = usd + b /\ shares' = shares + s /\ s > 0
      /\ rfl + a <= MAX_U64 /\ usd + b <= MAX_U64
  BY DEF add_liquidity, fits
<1>1. max_rfl \in Nat /\ max_usd \in Nat
  OBVIOUS
<1>2. /\ rfl \in Nat /\ rfl > 0 /\ usd \in Nat /\ usd > 0
      /\ shares \in Nat /\ shares > 0 /\ shares * shares <= rfl * usd
  BY <1>0, LiveFacts
<1>3. s \in Nat /\ a \in Nat /\ b \in Nat /\ s * rfl <= a * shares /\ s * usd <= b * shares
  BY <1>1, <1>2, MintBound
<1> HIDE DEF m, s, a, b
<1>4. ASSUME NEW x \in Nat, NEW c \in Nat, s * x <= c * shares
      PROVE  x * (shares + s) <= (x + c) * shares
  <2>1. x * (shares + s) = x * shares + s * x /\ (x + c) * shares = x * shares + c * shares
    BY <1>2, <1>3
  <2>2. x * shares \in Int /\ s * x \in Int /\ c * shares \in Int
    BY <1>2, <1>3
  <2> QED BY <1>4, <2>1, <2>2
<1>5. rfl * shares' <= rfl' * shares /\ usd * shares' <= usd' * shares
  BY <1>0, <1>2, <1>3, <1>4
<1>6. /\ rfl' \in Nat /\ rfl' > 0 /\ rfl' <= MAX_U64
      /\ usd' \in Nat /\ usd' > 0 /\ usd' <= MAX_U64
      /\ shares' \in Nat /\ shares' > 0 /\ shares' # shares
  BY <1>0, <1>2, <1>3
<1>7. shares' * shares' <= rfl' * usd'
  <2> DEFINE x == rfl'
             y == usd'
             t == shares'
  <2>1. /\ x \in Nat /\ y \in Nat /\ t \in Nat
        /\ rfl * t <= x * shares /\ usd * t <= y * shares
    BY <1>5, <1>6
  <2> HIDE DEF x, y, t
  <2>2. t * t <= x * y
    BY <1>2, <2>1, ResizeBacked
  <2> QED BY <2>2 DEF x, y, t
<1>8. IInv' /\ Promise!Positive'
  BY <1>0, <1>6, <1>7, LiveInv
<1>9. Promise!ShareKeepsWorth
  <2>1. /\ rfl * shares' \in Int /\ rfl' * shares \in Int
        /\ usd * shares' \in Int /\ usd' * shares \in Int
    BY <1>2, <1>6
  <2> QED BY <1>5, <2>1 DEF Promise!ShareKeepsWorth
<1> QED BY <1>0, <1>6, <1>8, <1>9 DEF Promise!Resize

\* A provider leaves: payouts are rounded down, and the last one takes all.
LEMMA RemoveStep ==
  ASSUME IInv, NEW burned \in Nat \ {0}, remove_liquidity(burned)
  PROVE  IInv' /\ (Promise!Resize \/ Promise!Close)
<1> DEFINE a == withdrawal(burned, shares, rfl)
           b == withdrawal(burned, shares, usd)
<1>0. /\ lifecycle = "live" /\ shares >= burned
      /\ rfl' = rfl - a /\ usd' = usd - b /\ shares' = shares - burned
      /\ lifecycle' = IF burned = shares THEN "closed" ELSE "live"
  BY DEF remove_liquidity
<1>1. burned \in Nat /\ burned > 0
  OBVIOUS
<1>2. /\ rfl \in Nat /\ rfl > 0 /\ usd \in Nat /\ usd > 0
      /\ rfl <= MAX_U64 /\ usd <= MAX_U64
      /\ shares \in Nat /\ shares > 0 /\ shares * shares <= rfl * usd
  BY <1>0, LiveFacts
<1>3. burned <= shares
  BY <1>0, <1>1, <1>2
<1>4. /\ a \in Nat /\ a <= rfl /\ a * shares <= burned * rfl
      /\ (burned = shares => a = rfl) /\ (burned < shares => a < rfl)
  BY <1>1, <1>2, <1>3, WithdrawalBound
<1>5. /\ b \in Nat /\ b <= usd /\ b * shares <= burned * usd
      /\ (burned = shares => b = usd) /\ (burned < shares => b < usd)
  BY <1>1, <1>2, <1>3, WithdrawalBound
<1> HIDE DEF a, b
<1>6. CASE burned = shares
  <2>1. rfl' = 0 /\ usd' = 0 /\ shares' = 0 /\ lifecycle' = "closed"
    BY <1>0, <1>2, <1>4, <1>5, <1>6
  <2>2. IInv'
    BY <2>1, Constants DEF IInv, TypeOK, SharesBackedByReserves
  <2>3. Promise!Close
    BY <1>0, <2>1 DEF Promise!Close, Promise!Empty
  <2> QED BY <2>2, <2>3
<1>7. CASE burned < shares
  <2>1. lifecycle' = "live" /\ a < rfl /\ b < usd
    BY <1>0, <1>1, <1>2, <1>4, <1>5, <1>7
  <2>2. ASSUME NEW x \in Nat, NEW c \in Nat, c * shares <= burned * x
        PROVE  x * (shares - burned) <= (x - c) * shares
    <3>1. x * (shares - burned) = x * shares - burned * x
          /\ (x - c) * shares = x * shares - c * shares
      BY <1>1, <1>2
    <3>2. x * shares \in Int /\ burned * x \in Int /\ c * shares \in Int
      BY <1>1, <1>2
    <3> QED BY <2>2, <3>1, <3>2
  <2>3. rfl * shares' <= rfl' * shares /\ usd * shares' <= usd' * shares
    BY <1>0, <1>2, <1>4, <1>5, <2>2
  <2>4. /\ rfl' \in Nat /\ rfl' > 0 /\ rfl' <= MAX_U64
        /\ usd' \in Nat /\ usd' > 0 /\ usd' <= MAX_U64
        /\ shares' \in Nat /\ shares' > 0 /\ shares' # shares
    BY <1>0, <1>1, <1>2, <1>4, <1>5, <1>7, <2>1, Constants
  <2>5. shares' * shares' <= rfl' * usd'
    <3> DEFINE x == rfl'
               y == usd'
               t == shares'
    <3>1. /\ x \in Nat /\ y \in Nat /\ t \in Nat
          /\ rfl * t <= x * shares /\ usd * t <= y * shares
      BY <2>3, <2>4
    <3> HIDE DEF x, y, t
    <3>2. t * t <= x * y
      BY <1>2, <3>1, ResizeBacked
    <3> QED BY <3>2 DEF x, y, t
  <2>6. IInv' /\ Promise!Positive'
    BY <2>1, <2>4, <2>5, LiveInv
  <2>7. Promise!ShareKeepsWorth
    <3>1. /\ rfl * shares' \in Int /\ rfl' * shares \in Int
          /\ usd * shares' \in Int /\ usd' * shares \in Int
      BY <1>2, <2>4
    <3> QED BY <2>3, <3>1 DEF Promise!ShareKeepsWorth
  <2> QED BY <1>0, <2>1, <2>4, <2>6, <2>7 DEF Promise!Resize
<1> QED BY <1>1, <1>2, <1>3, <1>6, <1>7

-----------------------------------------------------------------------------
(* The theorems *)

\* Every step of the reserves keeps the invariant and is a step of the promise.
LEMMA ReservesStep ==
  ASSUME IInv, Next
  PROVE  IInv' /\ Promise!Next
<1>0. U64 \subseteq Nat \ {0}
  BY Constants DEF U64
<1>1. ASSUME launch PROVE IInv' /\ Promise!Next
  BY <1>1, LaunchStep DEF Promise!Next
<1>2. ASSUME NEW gross \in U64, NEW reflection_fee \in 0 .. gross,
             sell_trfl(gross, reflection_fee)
      PROVE  IInv' /\ Promise!Next
  BY <1>0, <1>2, SellStep DEF Promise!Next
<1>3. ASSUME NEW input \in U64, buy_trfl(input) PROVE IInv' /\ Promise!Next
  BY <1>0, <1>3, BuyStep DEF Promise!Next
<1>4. ASSUME NEW max_rfl \in U64, NEW max_usd \in U64, add_liquidity(max_rfl, max_usd)
      PROVE  IInv' /\ Promise!Next
  BY <1>0, <1>4, AddStep DEF Promise!Next
<1>5. ASSUME NEW burned \in U64, remove_liquidity(burned) PROVE IInv' /\ Promise!Next
  BY <1>0, <1>5, RemoveStep DEF Promise!Next
<1> QED BY <1>1, <1>2, <1>3, <1>4, <1>5 DEF Next

\* The empty pool that launch has not filled satisfies the invariant.
LEMMA InitIInv == Init => IInv
BY Constants DEF Init, IInv, TypeOK, SharesBackedByReserves

\* Reserves and shares stay in their widths, and a share is never worth less
\* than at launch, after any trades, deposits and withdrawals.
THEOREM AlwaysBacked == Spec => [](TypeOK /\ SharesBackedByReserves)
<1>1. IInv /\ [Next]_vars => IInv'
  <2> SUFFICES ASSUME IInv, [Next]_vars PROVE IInv'
    OBVIOUS
  <2>1. CASE Next
    BY <2>1, ReservesStep
  <2>2. CASE UNCHANGED vars
    BY <2>2 DEF vars, IInv, TypeOK, SharesBackedByReserves
  <2> QED BY <2>1, <2>2
<1>2. IInv => TypeOK /\ SharesBackedByReserves
  BY DEF IInv
<1> QED BY InitIInv, <1>1, <1>2, PTL DEF Spec

\* The pool implements the promise of LiquidityPool: trades never lower the
\* product, joining and leaving never lower what a remaining share stands for,
\* and the reserves are gone exactly with the last share.
THEOREM PoolImplementsPromise == Spec => ImplementsPromise
<1>1. Init => Promise!Init
  BY DEF Init, Promise!Init, Promise!Empty
<1>2. (TypeOK /\ SharesBackedByReserves) /\ [Next]_vars => [Promise!Next]_(Promise!vars)
  <2> SUFFICES ASSUME IInv, [Next]_vars PROVE [Promise!Next]_(Promise!vars)
    BY DEF IInv
  <2>1. CASE Next
    BY <2>1, ReservesStep
  <2>2. CASE UNCHANGED vars
    BY <2>2 DEF vars, Promise!vars
  <2> QED BY <2>1, <2>2
<1> QED BY <1>1, <1>2, AlwaysBacked, PTL DEF Spec, ImplementsPromise, Promise!Spec

\* No narrowing assertion of reflection_settlement fires, and no deposit takes
\* more than the provider's maxima, for any u64 input in any state of the pool.
THEOREM NoNarrowingFires == Spec => []NarrowingNeverFires
<1>1. TypeOK /\ SharesBackedByReserves => NarrowingNeverFires
  <2> SUFFICES ASSUME IInv, lifecycle = "live"
               PROVE  /\ \A input \in U64 :
                           /\ narrows_swap(rfl, usd, input, FIXED_AMM_FEE_BPS)
                           /\ narrows_swap(usd, rfl, input, FIXED_AMM_FEE_BPS)
                      /\ \A max_rfl, max_usd \in U64 :
                           LET minted == liquidity_mint(max_rfl, max_usd, rfl, usd, shares)
                           IN  /\ narrows_mint(max_rfl, max_usd, rfl, usd, shares)
                               /\ minted.rfl_used <= max_rfl /\ minted.usd_used <= max_usd
                      /\ \A burned \in 1 .. shares :
                           /\ withdrawal(burned, shares, rfl) <= rfl
                           /\ withdrawal(burned, shares, usd) <= usd
    BY DEF IInv, NarrowingNeverFires
  <2>0. /\ rfl \in Nat /\ rfl > 0 /\ rfl <= MAX_U64
        /\ usd \in Nat /\ usd > 0 /\ usd <= MAX_U64
        /\ shares \in Nat /\ shares > 0 /\ shares * shares <= rfl * usd
    BY LiveFacts
  <2>1. ASSUME NEW x \in Nat, x > 0, NEW y \in Nat, y <= MAX_U64, NEW input \in U64
        PROVE  narrows_swap(x, y, input, FIXED_AMM_FEE_BPS)
    <3> DEFINE p == invariant_input(input, FIXED_AMM_FEE_BPS)
               b == constant_product_output(x, y, input, FIXED_AMM_FEE_BPS)
    <3>1. input \in Nat /\ input <= MAX_U64
      BY Constants DEF U64
    <3>2. p \in Nat /\ p <= input
      BY <3>1, Constants, PricedPart
    <3>3. b \in Nat /\ b <= y
      BY <2>1, <3>1, Constants, SwapKeepsProduct
    <3> HIDE DEF p, b
    <3>4. p <= MAX_U64 /\ b <= MAX_U64
      BY <2>1, <3>1, <3>2, <3>3, Constants
    <3> QED BY <3>4 DEF narrows_swap, p, b
  <2>2. ASSUME NEW max_rfl \in U64, NEW max_usd \in U64
        PROVE  LET minted == liquidity_mint(max_rfl, max_usd, rfl, usd, shares)
               IN  /\ narrows_mint(max_rfl, max_usd, rfl, usd, shares)
                   /\ minted.rfl_used <= max_rfl /\ minted.usd_used <= max_usd
    <3> DEFINE m == liquidity_mint(max_rfl, max_usd, rfl, usd, shares)
               s == m.shares
               a == m.rfl_used
               b == m.usd_used
    <3>1. max_rfl \in Nat /\ max_usd \in Nat /\ max_rfl <= MAX_U64 /\ max_usd <= MAX_U64
      BY Constants DEF U64
    <3>2. /\ s \in Nat /\ a \in Nat /\ b \in Nat
          /\ s * rfl <= max_rfl * shares /\ s * usd <= max_usd * shares
          /\ a <= max_rfl /\ b <= max_usd
      BY <2>0, <3>1, MintBound
    <3>d. narrows_mint(max_rfl, max_usd, rfl, usd, shares)
            <=> s <= MAX_U128 /\ a <= MAX_U64 /\ b <= MAX_U64
      BY DEF narrows_mint
    <3> HIDE DEF m, s, a, b
    <3>3. s * s <= max_rfl * max_usd
      <4>1. rfl * s <= max_rfl * shares /\ usd * s <= max_usd * shares
        <5>1. rfl * s = s * rfl /\ usd * s = s * usd
          BY <2>0, <3>2
        <5> QED BY <3>2, <5>1
      <4> QED BY <2>0, <3>1, <3>2, <4>1, ResizeBacked
    <3>4. s <= MAX_U64
      BY <3>1, <3>2, <3>3, BackedFits
    <3>5. s <= MAX_U128 /\ a <= MAX_U64 /\ b <= MAX_U64
      BY <3>1, <3>2, <3>4, Constants
    <3> QED BY <3>d, <3>2, <3>5 DEF m, a, b
  <2>3. ASSUME NEW burned \in 1 .. shares
        PROVE  withdrawal(burned, shares, rfl) <= rfl /\ withdrawal(burned, shares, usd) <= usd
    <3>1. burned \in Nat /\ burned <= shares
      BY <2>0
    <3> QED BY <2>0, <3>1, WithdrawalBound
  <2> QED BY <2>0, <2>1, <2>2, <2>3
<1> QED BY <1>1, AlwaysBacked, PTL

\* Swapping an amount there and back returns no more than was put in.
LEMMA SwapBack ==
  ASSUME NEW x \in Nat, x > 0, NEW y \in Nat, y > 0, NEW input \in Nat
  PROVE  LET b == constant_product_output(x, y, input, FIXED_AMM_FEE_BPS) IN
         constant_product_output(y - b, x + input, b, FIXED_AMM_FEE_BPS) <= input
<1> DEFINE b == constant_product_output(x, y, input, FIXED_AMM_FEE_BPS)
           q == invariant_input(b, FIXED_AMM_FEE_BPS)
           c == y - b
           z == x + input
           d == c + q
<1>1. b \in Nat /\ b < y /\ b * x <= input * (y - b)
  BY Constants, SwapKeepsProduct
<1> HIDE DEF b
<1>2. q \in Nat /\ q <= b /\ b - fee(b, FIXED_AMM_FEE_BPS) = q
  BY <1>1, Constants, PricedPart
<1>3. constant_product_output(c, z, b, FIXED_AMM_FEE_BPS) = (z * q) \div d
  BY <1>2 DEF constant_product_output
<1> HIDE DEF q
<1>4. c \in Nat /\ c > 0 /\ z \in Nat /\ d \in Nat /\ d > 0 /\ b * x <= input * c
  BY <1>1, <1>2
<1>5. z * q = x * q + input * q /\ d * input = c * input + q * input
  BY <1>1, <1>2, <1>4, Distribute
<1> HIDE DEF c, z, d
<1>6. z * q <= d * input
  <2>1. q * x <= b * x
    BY <1>1, <1>2, TimesMono
  <2>2. /\ x * q = q * x /\ input * q = q * input /\ c * input = input * c
        /\ q * x \in Int /\ b * x \in Int /\ q * input \in Int /\ input * c \in Int
    BY <1>1, <1>2, <1>4
  <2> QED BY <1>4, <1>5, <2>1, <2>2
<1>7. z * q \in Nat
  BY <1>2, <1>4
<1>8. (z * q) \div d <= input
  BY <1>4, <1>6, <1>7, DivLeq
<1>9. constant_product_output(c, z, b, FIXED_AMM_FEE_BPS) <= input
  BY <1>3, <1>8
<1> QED BY <1>9 DEF b, c, z

\* Shares that are bought and returned at once give back no more than they cost.
LEMMA MintBack ==
  ASSUME NEW x \in Nat, NEW t \in Nat, t > 0, NEW s \in Nat, NEW used \in Nat,
         s * x <= used * t
  PROVE  withdrawal(s, t + s, x + used) <= used
<1> DEFINE T == t + s
           X == x + used
<1>1. T \in Nat /\ T > 0 /\ s # T /\ X \in Nat
  OBVIOUS
<1>2. withdrawal(s, T, X) = (s * X) \div T
  BY <1>1 DEF withdrawal
<1>3. s * X <= T * used
  <2>1. s * X = s * x + s * used /\ T * used = t * used + s * used
    BY Distribute
  <2>2. t * used = used * t /\ s * x \in Int /\ s * used \in Int /\ used * t \in Int
    OBVIOUS
  <2> HIDE DEF T, X
  <2> QED BY <2>1, <2>2
<1> HIDE DEF T, X
<1>4. s * X \in Nat
  BY <1>1
<1>5. (s * X) \div T <= used
  BY <1>1, <1>3, <1>4, DivLeq
<1> QED BY <1>2, <1>5 DEF T, X

\* Nobody gains by going in and out, in any state the pool can be in.
THEOREM NoRoundTripPays == Spec => []RoundTripNeverPays
<1>1. TypeOK /\ SharesBackedByReserves => RoundTripNeverPays
  <2> SUFFICES ASSUME IInv, lifecycle = "live"
               PROVE  RoundTripNeverPays
    BY DEF IInv, RoundTripNeverPays
  <2>0. /\ rfl \in Nat /\ rfl > 0 /\ usd \in Nat /\ usd > 0 /\ shares \in Nat /\ shares > 0
    BY LiveFacts
  <2>1. ASSUME NEW max_rfl \in U64, NEW max_usd \in U64
        PROVE  LET minted == liquidity_mint(max_rfl, max_usd, rfl, usd, shares)
                   back(reserve, used) ==
                     withdrawal(minted.shares, shares + minted.shares, reserve + used)
               IN  /\ back(rfl, minted.rfl_used) <= minted.rfl_used
                   /\ back(usd, minted.usd_used) <= minted.usd_used
    <3> DEFINE m == liquidity_mint(max_rfl, max_usd, rfl, usd, shares)
               s == m.shares
               a == m.rfl_used
               b == m.usd_used
    <3>1. max_rfl \in Nat /\ max_usd \in Nat
      BY Constants DEF U64
    <3>2. s \in Nat /\ a \in Nat /\ b \in Nat /\ s * rfl <= a * shares /\ s * usd <= b * shares
      BY <2>0, <3>1, MintBound
    <3> HIDE DEF m, s, a, b
    <3>3. /\ withdrawal(s, shares + s, rfl + a) <= a
          /\ withdrawal(s, shares + s, usd + b) <= b
      BY <2>0, <3>2, MintBack
    <3> QED BY <3>3 DEF m, s, a, b
  <2>2. ASSUME NEW input \in U64
        PROVE  LET bought == constant_product_output(usd, rfl, input, FIXED_AMM_FEE_BPS)
                   sold == constant_product_output(rfl, usd, input, FIXED_AMM_FEE_BPS)
               IN  /\ constant_product_output(rfl - bought, usd + input, bought,
                                              FIXED_AMM_FEE_BPS) <= input
                   /\ constant_product_output(usd - sold, rfl + input, sold,
                                              FIXED_AMM_FEE_BPS) <= input
    <3>1. input \in Nat
      BY Constants DEF U64
    <3> QED BY <2>0, <3>1, SwapBack
  <2> QED BY <2>1, <2>2 DEF RoundTripNeverPays
<1> QED BY <1>1, AlwaysBacked, PTL

-----------------------------------------------------------------------------
(* The swap client *)

\* The client's constants, one by one.
LEMMA ClientConstants ==
  /\ REFLECTION_FEE_BPS \in Nat /\ REFLECTION_FEE_BPS <= MAX_REFLECTION_FEE_BPS
  /\ REFLECTION_FEE_BPS <= BPS_DENOMINATOR
  /\ FIXED_AMM_FEE_BPS <= MAX_AMM_FEE_BPS
  /\ \A a \in Amounts : a \in Nat /\ a > 0
BY Constants, ClientAssumption

\* The reflection fee is a part of the amount it is taken from.
LEMMA ReflectionFeePart ==
  ASSUME NEW amount \in Nat
  PROVE  reflection_fee_for(amount) \in Nat /\ reflection_fee_for(amount) <= amount
<1> DEFINE D == BPS_DENOMINATOR
           k == REFLECTION_FEE_BPS
           p == (amount * k) \div D
<1>1. D \in Nat /\ D > 0 /\ k \in Nat /\ k <= D
  BY Constants, ClientConstants
<1> HIDE DEF D, k
<1>2. amount * k \in Nat /\ amount * k <= D * amount
  <2>1. amount * k <= amount * D
    BY <1>1, TimesMono
  <2>2. amount * D = D * amount /\ amount * k \in Nat
    BY <1>1
  <2> QED BY <2>1, <2>2
<1>3. p \in Nat /\ p <= amount
  BY <1>1, <1>2, DivNat, DivLeq
<1> QED BY <1>3 DEF reflection_fee_for, D, k

\* Only a live pool has reserves to quote from.
EmptyUnlessLive == lifecycle # "live" => rfl = 0 /\ usd = 0

\* A swap of the client or of anybody else is a trade of the pool.
LEMMA SwapStep ==
  ASSUME IInv, NEW direction, NEW gross \in Nat, NEW minimum, NEW deadline,
         Swap(direction, gross, minimum, deadline)
  PROVE  IInv' /\ EmptyUnlessLive'
<1>1. CASE direction = "sell" /\ sell_trfl(gross, reflection_fee_for(gross))
  <2>1. reflection_fee_for(gross) \in 0 .. gross
    BY ReflectionFeePart
  <2> QED BY <1>1, <2>1, SellStep DEF Promise!Trade, EmptyUnlessLive
<1>2. CASE direction = "buy" /\ buy_trfl(gross)
  BY <1>2, BuyStep DEF Promise!Trade, EmptyUnlessLive
<1> QED BY <1>1, <1>2 DEF Swap

\* The reserves as the pool's views return them.
Views == [rfl : 0 .. MAX_U64, usd : 0 .. MAX_U64]

\* While the adapter reads, all it has read is of the pinned version.
ReadAtPin(c) ==
  /\ c.at = "asked" => c.tuple = Idle /\ c.reserves = Idle
  /\ c.at = "reading" =>
       /\ c.pinned \in Views
       /\ c.tuple # Idle =>
            /\ quotable(c.input.direction, c.input.gross, c.pinned)
            /\ c.tuple = priced(c.input.direction, c.input.gross, c.pinned)
       /\ c.reserves # Idle => c.reserves = c.pinned

\* The quote was accepted by the pool's view at the pinned version, and shows
\* the receipt of that view.
QuotedAtPin(c) ==
  /\ quotable(c.input.direction, c.input.gross, c.pinned)
  /\ c.quote.amounts.receipt = priced(c.input.direction, c.input.gross, c.pinned).receipt

\* A quote the client issued is for what was asked and carries the minimum of
\* its own receipt, and one of the adapter's is what the pool quoted; only such
\* a quote is ever submitted.
IssuedAsAsked(c) ==
  /\ c.issued =>
       /\ c.at \in {"quoted", "drafted", "submitted"}
       /\ c.quote.input = c.input
       /\ c.quote.minimum = less(c.quote.amounts.receipt, c.input.slippage)
       /\ c.honest => QuotedAtPin(c)
  /\ c.at = "submitted" => c.issued

\* What was executed is what was asked.
ExecutedAsAsked(c) ==
  c.last # Idle =>
    /\ c.at = "submitted"
    /\ c.last.direction = c.input.direction /\ c.last.gross = c.input.gross
    /\ c.last.paid >= less(c.quote.amounts.receipt, c.input.slippage)
    /\ c.last.at <= c.input.deadline

\* A call is a record of these fields.
CallShape(c) ==
  c = [ at |-> c.at, input |-> c.input, honest |-> c.honest, pinned |-> c.pinned,
        tuple |-> c.tuple, reserves |-> c.reserves, quote |-> c.quote,
        issued |-> c.issued, submitted |-> c.submitted, settled |-> c.settled,
        last |-> c.last ]

\* What holds of a call at every step of it.
CallInv(c) ==
  /\ CallShape(c) /\ c.input \in Inputs /\ c.issued \in BOOLEAN
  /\ ReadAtPin(c) /\ IssuedAsAsked(c) /\ ExecutedAsAsked(c)

\* The inductive invariant of the swap client.
ClientInv == IInv /\ EmptyUnlessLive /\ (call # Idle => CallInv(call))

\* A step that leaves the pool alone keeps the pool's invariant.
LEMMA OwnKeepsPool ==
  ASSUME IInv, EmptyUnlessLive, UNCHANGED <<rfl, usd, shares, lifecycle>>
  PROVE  IInv' /\ EmptyUnlessLive'
BY DEF IInv, TypeOK, SharesBackedByReserves, EmptyUnlessLive

\* A new call.
LEMMA QuoteSwapStep ==
  ASSUME ClientInv, NEW input \in Inputs, quoteSwap(input)
  PROVE  ClientInv'
<1>1. IInv' /\ EmptyUnlessLive'
  BY OwnKeepsPool DEF ClientInv, quoteSwap
<1> DEFINE c == Call("asked", input)
<1>2. call' = c
  BY DEF quoteSwap
<1>3. /\ c.at = "asked" /\ c.input = input /\ c.issued = FALSE /\ c.last = Idle
      /\ c.tuple = Idle /\ c.reserves = Idle /\ CallShape(c)
  BY DEF Call, CallShape
<1> HIDE DEF c
<1>4. CallInv(c)
  BY <1>3 DEF CallInv, ReadAtPin, IssuedAsAsked, ExecutedAsAsked
<1> QED BY <1>1, <1>2, <1>4 DEF ClientInv

\* Pinning a version and reading the two views at it.
LEMMA ReadSteps ==
  ASSUME ClientInv, Pin \/ ReadQuote \/ ReadReserves
  PROVE  ClientInv'
<1>1. IInv' /\ EmptyUnlessLive'
  BY OwnKeepsPool DEF ClientInv, Pin, ReadQuote, ReadReserves, Own
<1>2. /\ call # Idle /\ CallShape(call) /\ call.input \in Inputs /\ call.issued \in BOOLEAN
      /\ ReadAtPin(call) /\ IssuedAsAsked(call) /\ ExecutedAsAsked(call)
  BY DEF ClientInv, CallInv, Pin, ReadQuote, ReadReserves
<1>3. CASE call' = Idle
  BY <1>1, <1>3 DEF ClientInv
<1>4. CASE /\ call.at = "asked"
           /\ call' = [call EXCEPT !.at = "reading", !.pinned = pinLedger]
  <2> DEFINE P == pinLedger
  <2>1. P \in Views
    BY DEF ClientInv, IInv, TypeOK, pinLedger, Reserves, Views
  <2> HIDE DEF P
  <2>2. /\ call'.at = "reading" /\ call'.pinned = P /\ call'.input = call.input
        /\ call'.tuple = call.tuple /\ call'.reserves = call.reserves
        /\ call'.issued = call.issued /\ call'.last = call.last /\ call'.quote = call.quote
        /\ CallShape(call')
    BY <1>2, <1>4 DEF CallShape, P
  <2>3. ReadAtPin(call')
    BY <1>2, <1>4, <2>1, <2>2 DEF ReadAtPin
  <2>4. IssuedAsAsked(call') /\ ExecutedAsAsked(call')
    BY <1>2, <1>4, <2>2 DEF IssuedAsAsked, ExecutedAsAsked
  <2> QED BY <1>1, <1>2, <2>2, <2>3, <2>4 DEF ClientInv, CallInv
<1>5. CASE /\ call.at = "reading"
           /\ quotable(call.input.direction, call.input.gross, viewAt)
           /\ call' = [call EXCEPT !.tuple = priced(call.input.direction, call.input.gross,
                                                    viewAt)]
  <2> DEFINE V == priced(call.input.direction, call.input.gross, call.pinned)
  <2>1. /\ call' = [call EXCEPT !.tuple = V]
        /\ quotable(call.input.direction, call.input.gross, call.pinned)
    BY <1>5 DEF viewAt
  <2> HIDE DEF V
  <2>2. /\ call'.at = call.at /\ call'.pinned = call.pinned /\ call'.input = call.input
        /\ call'.tuple = V /\ call'.reserves = call.reserves
        /\ call'.issued = call.issued /\ call'.last = call.last /\ call'.quote = call.quote
        /\ CallShape(call')
    BY <1>2, <2>1 DEF CallShape
  <2>3. ReadAtPin(call')
    BY <1>2, <1>5, <2>1, <2>2 DEF ReadAtPin, V
  <2>4. IssuedAsAsked(call') /\ ExecutedAsAsked(call')
    BY <1>2, <1>5, <2>2 DEF IssuedAsAsked, ExecutedAsAsked
  <2> QED BY <1>1, <1>2, <2>2, <2>3, <2>4 DEF ClientInv, CallInv
<1>6. CASE call.at = "reading" /\ call' = [call EXCEPT !.reserves = viewAt]
  <2>1. call' = [call EXCEPT !.reserves = call.pinned]
    BY <1>6 DEF viewAt
  <2>2. /\ call'.at = call.at /\ call'.pinned = call.pinned /\ call'.input = call.input
        /\ call'.tuple = call.tuple /\ call'.reserves = call.pinned
        /\ call'.issued = call.issued /\ call'.last = call.last /\ call'.quote = call.quote
        /\ CallShape(call')
    BY <1>2, <2>1 DEF CallShape
  <2>3. ReadAtPin(call')
    BY <1>2, <1>6, <2>2 DEF ReadAtPin
  <2>4. IssuedAsAsked(call') /\ ExecutedAsAsked(call')
    BY <1>2, <1>6, <2>2 DEF IssuedAsAsked, ExecutedAsAsked
  <2> QED BY <1>1, <1>2, <2>2, <2>3, <2>4 DEF ClientInv, CallInv
<1> QED BY <1>3, <1>4, <1>5, <1>6 DEF Pin, ReadQuote, ReadReserves

\* An answer is issued only if it reproduces from its inputs and context, and
\* is for the inputs of the call: whoever gave it.
LEMMA AnswerStep ==
  ASSUME ClientInv, AdapterDone, NEW quote, NEW honest \in BOOLEAN, Answer(quote, honest),
         honest => quote = adapterQuote
  PROVE  ClientInv'
<1>1. IInv' /\ EmptyUnlessLive'
  BY OwnKeepsPool DEF ClientInv, Answer, Own
<1>2. /\ call # Idle /\ CallShape(call) /\ call.input \in Inputs
      /\ ReadAtPin(call) /\ IssuedAsAsked(call) /\ ExecutedAsAsked(call)
      /\ call.at = "reading"
  BY DEF ClientInv, CallInv, AdapterDone
<1>3. CASE call' = Idle
  BY <1>1, <1>3 DEF ClientInv
<1>4. ASSUME NEW t, assertSwapQuote(quote, t), declaredInputs(quote),
             call' = [call EXCEPT !.at = "quoted", !.quote = quote, !.issued = TRUE,
                                  !.honest = honest]
      PROVE  ClientInv'
  <2>1. /\ call'.at = "quoted" /\ call'.input = call.input /\ call'.quote = quote
        /\ call'.issued = TRUE /\ call'.last = call.last /\ CallShape(call')
        /\ call'.honest = honest /\ call'.pinned = call.pinned
    BY <1>2, <1>4 DEF CallShape
  <2>2. quote.input = call.input
    BY <1>4 DEF declaredInputs
  <2>3. quote.minimum = less(quote.amounts.receipt, quote.input.slippage)
    <3>1. PICK a : quote = Quote(quote.input, a, quote.context)
      BY <1>4 DEF assertSwapQuote, reproduced
    <3>2. quote.amounts = a /\ quote.minimum = minimumOf(a, quote.input.slippage)
      BY <3>1 DEF Quote
    <3> QED BY <3>2 DEF minimumOf
  <2>4. ReadAtPin(call')
    BY <2>1 DEF ReadAtPin
  <2>5. IssuedAsAsked(call')
    <3>1. ASSUME honest PROVE QuotedAtPin(call')
      <4>1. /\ quotable(call.input.direction, call.input.gross, call.pinned)
            /\ call.tuple = priced(call.input.direction, call.input.gross, call.pinned)
        BY <1>2 DEF ReadAtPin, AdapterDone
      <4>2. quote = quoteTuple(call.input, call.tuple, call.reserves)
        BY <3>1 DEF adapterQuote
      <4>3. quote.amounts.receipt = call.tuple.receipt
        BY <4>2 DEF quoteTuple, Quote
      <4> QED BY <2>1, <4>1, <4>3 DEF QuotedAtPin
    <3> QED BY <2>1, <2>2, <2>3, <3>1 DEF IssuedAsAsked
  <2>6. ExecutedAsAsked(call')
    BY <1>2, <2>1 DEF ExecutedAsAsked
  <2> QED BY <1>1, <1>2, <2>1, <2>4, <2>5, <2>6 DEF ClientInv, CallInv
<1> QED BY <1>3, <1>4 DEF Answer

\* Drafting, copying, submitting and dropping a call.
LEMMA DraftSteps ==
  ASSUME ClientInv, createSwapDraft \/ Copy \/ submit \/ Forget
  PROVE  ClientInv'
<1>1. IInv' /\ EmptyUnlessLive'
  BY OwnKeepsPool DEF ClientInv, createSwapDraft, Copy, submit, Forget, Own
<1>2. /\ call # Idle /\ CallShape(call) /\ call.input \in Inputs /\ call.issued \in BOOLEAN
      /\ ReadAtPin(call) /\ IssuedAsAsked(call) /\ ExecutedAsAsked(call)
  BY DEF ClientInv, CallInv, createSwapDraft, Copy, submit, Forget
<1>3. CASE createSwapDraft
  <2>1. call.at = "quoted" /\ call.issued /\ call' = [call EXCEPT !.at = "drafted"]
    BY <1>3 DEF createSwapDraft, issuedHere
  <2>2. /\ call'.at = "drafted" /\ call'.input = call.input /\ call'.quote = call.quote
        /\ call'.issued = call.issued /\ call'.last = call.last /\ CallShape(call')
        /\ call'.honest = call.honest /\ call'.pinned = call.pinned
    BY <1>2, <2>1 DEF CallShape
  <2>3. ReadAtPin(call') /\ IssuedAsAsked(call') /\ ExecutedAsAsked(call')
    BY <1>2, <2>1, <2>2 DEF ReadAtPin, IssuedAsAsked, ExecutedAsAsked, QuotedAtPin
  <2> QED BY <1>1, <1>2, <2>2, <2>3 DEF ClientInv, CallInv
<1>4. CASE Copy
  <2>0. call.at \in {"quoted", "drafted"}
    BY <1>4 DEF Copy
  <2>1. PICK q : call' = [call EXCEPT !.quote = q, !.issued = FALSE]
    BY <1>4 DEF Copy
  <2>2. /\ call'.at = call.at /\ call'.input = call.input
        /\ call'.issued = FALSE /\ call'.last = call.last /\ CallShape(call')
    BY <1>2, <2>1 DEF CallShape
  <2>3. ReadAtPin(call') /\ IssuedAsAsked(call')
    BY <2>0, <2>2 DEF ReadAtPin, IssuedAsAsked
  <2>4. ExecutedAsAsked(call')
    BY <1>2, <2>0, <2>2 DEF ExecutedAsAsked
  <2> QED BY <1>1, <1>2, <2>2, <2>3, <2>4 DEF ClientInv, CallInv
<1>5. CASE submit
  <2> DEFINE n == call.submitted + 1
  <2>1. /\ call.at \in {"drafted", "submitted"} /\ call.issued
        /\ call' = [call EXCEPT !.at = "submitted", !.submitted = n]
    BY <1>5 DEF submit, issuedHere
  <2> HIDE DEF n
  <2>2. /\ call'.at = "submitted" /\ call'.input = call.input /\ call'.quote = call.quote
        /\ call'.issued = call.issued /\ call'.last = call.last /\ CallShape(call')
        /\ call'.honest = call.honest /\ call'.pinned = call.pinned
    BY <1>2, <2>1 DEF CallShape
  <2>3. ReadAtPin(call') /\ IssuedAsAsked(call') /\ ExecutedAsAsked(call')
    BY <1>2, <2>1, <2>2 DEF ReadAtPin, IssuedAsAsked, ExecutedAsAsked, QuotedAtPin
  <2> QED BY <1>1, <1>2, <2>2, <2>3 DEF ClientInv, CallInv
<1>6. CASE Forget
  BY <1>1, <1>6 DEF Forget, ClientInv
<1> QED BY <1>3, <1>4, <1>5, <1>6

\* The pool executes a submitted draft with the limits of its quote.
LEMMA ExecuteStep ==
  ASSUME ClientInv, Execute
  PROVE  ClientInv'
<1> DEFINE i == call.quote.input
           p == paid(i.direction, i.gross)
           L == [direction |-> i.direction, gross |-> i.gross, paid |-> p, at |-> now]
           n == call.settled + 1
<1>1. /\ call # Idle /\ CallShape(call) /\ call.input \in Inputs /\ call.issued \in BOOLEAN
      /\ ReadAtPin(call) /\ IssuedAsAsked(call) /\ ExecutedAsAsked(call)
      /\ call.at = "submitted"
  BY DEF ClientInv, CallInv, Execute
<1>2. /\ Swap(i.direction, i.gross, call.quote.minimum, i.deadline)
      /\ call' = [call EXCEPT !.settled = n, !.last = L]
  BY DEF Execute
<1>3. i = call.input /\ call.quote.minimum = less(call.quote.amounts.receipt, call.input.slippage)
  BY <1>1 DEF IssuedAsAsked
<1>4. IInv' /\ EmptyUnlessLive'
  <2>1. i.gross \in Nat
    BY <1>1, <1>3, ClientConstants DEF Inputs
  <2> HIDE DEF i
  <2> QED BY <1>2, <2>1, SwapStep DEF ClientInv
<1>5. p >= call.quote.minimum /\ now <= i.deadline
  BY <1>2 DEF Swap, swap_succeeds
<1>6. L.direction = i.direction /\ L.gross = i.gross /\ L.paid = p /\ L.at = now
  OBVIOUS
<1> HIDE DEF p, L, i, n
<1>7. /\ call'.at = call.at /\ call'.input = call.input /\ call'.quote = call.quote
      /\ call'.issued = call.issued /\ call'.last = L /\ CallShape(call')
      /\ call'.honest = call.honest /\ call'.pinned = call.pinned
  BY <1>1, <1>2 DEF CallShape
<1>8. ReadAtPin(call') /\ IssuedAsAsked(call')
  BY <1>1, <1>7 DEF ReadAtPin, IssuedAsAsked, QuotedAtPin
<1>9. ExecutedAsAsked(call')
  BY <1>1, <1>3, <1>5, <1>6, <1>7 DEF ExecutedAsAsked
<1> QED BY <1>1, <1>4, <1>7, <1>8, <1>9 DEF ClientInv, CallInv

\* What others do with the pool leaves the call alone.
LEMMA OthersStep ==
  ASSUME ClientInv, Others
  PROVE  ClientInv'
<1>0. IInv /\ EmptyUnlessLive /\ call' = call
  BY DEF ClientInv, Others
<1>a. \A a \in Amounts : a \in Nat
  BY ClientConstants
<1>1. IInv' /\ EmptyUnlessLive'
  <2>1. CASE launch
    BY <1>0, <2>1, LaunchStep DEF Promise!Open, EmptyUnlessLive
  <2>2. ASSUME NEW a \in Amounts, NEW d \in Directions, Swap(d, a, 0, now)
        PROVE  IInv' /\ EmptyUnlessLive'
    BY <1>0, <1>a, <2>2, SwapStep
  <2>3. ASSUME NEW a \in Amounts, NEW b \in Amounts, add_liquidity(a, b)
        PROVE  IInv' /\ EmptyUnlessLive'
    BY <1>0, <1>a, <2>3, AddStep DEF Promise!Resize, EmptyUnlessLive
  <2>4. ASSUME NEW burned \in {shares, shares \div 2} \ {0}, remove_liquidity(burned)
        PROVE  IInv' /\ EmptyUnlessLive'
    <3>1. shares \in Nat
      BY <1>0, Constants DEF IInv, TypeOK
    <3>2. shares \div 2 \in Nat
      BY <3>1, DivNat
    <3>3. burned \in Nat \ {0}
      BY <3>1, <3>2
    <3> QED BY <1>0, <2>4, <3>3, RemoveStep
           DEF Promise!Resize, Promise!Close, Promise!Empty, EmptyUnlessLive
  <2> QED BY <2>1, <2>2, <2>3, <2>4 DEF Others
<1> QED BY <1>0, <1>1 DEF ClientInv

\* The client's invariant holds in every state, whatever the reader answers,
\* the application does and others trade in between.
THEOREM ClientInvariant == ClientSpec => []ClientInv
<1>1. ClientInit => ClientInv
  BY InitIInv DEF ClientInit, ClientInv, EmptyUnlessLive, Init
<1>2. ClientInv /\ [ClientNext]_clientVars => ClientInv'
  <2> SUFFICES ASSUME ClientInv, [ClientNext]_clientVars PROVE ClientInv'
    OBVIOUS
  <2>1. ASSUME NEW input \in Inputs, quoteSwap(input) PROVE ClientInv'
    BY <2>1, QuoteSwapStep
  <2>2. CASE Pin \/ ReadQuote \/ ReadReserves
    BY <2>2, ReadSteps
  <2>3. CASE AdapterAnswers
    <3>1. CASE call' = Idle /\ Own
      BY <3>1, OwnKeepsPool DEF ClientInv, Own
    <3>2. CASE Answer(adapterQuote, TRUE)
      BY <2>3, <3>2, AnswerStep DEF AdapterAnswers
    <3> QED BY <2>3, <3>1, <3>2 DEF AdapterAnswers
  <2>4. CASE OtherReaderAnswers
    <3>1. PICK q \in OtherQuotes : Answer(q, FALSE)
      BY <2>4 DEF OtherReaderAnswers
    <3>2. AdapterDone
      BY <2>4 DEF OtherReaderAnswers
    <3> QED BY <3>1, <3>2, AnswerStep
  <2>5. CASE createSwapDraft \/ Copy \/ submit \/ Forget
    BY <2>5, DraftSteps
  <2>6. CASE Execute
    BY <2>6, ExecuteStep
  <2>7. CASE Others
    BY <2>7, OthersStep
  <2>8. CASE Tick \/ UNCHANGED clientVars
    BY <2>8, OwnKeepsPool DEF Tick, clientVars, ClientInv
  <2> QED BY <2>1, <2>2, <2>3, <2>4, <2>5, <2>6, <2>7, <2>8 DEF ClientNext
<1> QED BY <1>1, <1>2, PTL DEF ClientSpec

\* Whatever reader answered and whatever the application did with its objects,
\* a swap is the one the caller asked for, pays what the slippage allows of the
\* receipt that was shown, and is not late.
THEOREM AlwaysSwapsAsAsked == ClientSpec => []SwapsAsAsked
<1>1. ClientInv => SwapsAsAsked
  BY DEF ClientInv, CallInv, ExecutedAsAsked, SwapsAsAsked, Settled
<1> QED BY <1>1, ClientInvariant, PTL

\* What the adapter makes of two views of one version passes its own checks
\* and those of the safe client: pool.move, the adapter and the client compute
\* the same amounts.
LEMMA HonestQuote ==
  ASSUME NEW input \in Inputs, NEW r \in Views,
         quotable(input.direction, input.gross, r),
         NEW q, q = quoteTuple(input, priced(input.direction, input.gross, r), r)
  PROVE  /\ adapterAccepts(q)
         /\ \A t : input.deadline > t => assertSwapQuote(q, t)
<1> DEFINE d == input.direction
           g == input.gross
           x == In(d, r)
           y == Out(d, r)
           D == BPS_DENOMINATOR
           f == REFLECTION_FEE_BPS
           F == FIXED_AMM_FEE_BPS
           sell_fee == reflection_fee_for(g)
           net == IF d = "sell" THEN g - sell_fee ELSE g
           p == invariant_input(net, F)
           am == fee(net, F)
           o == constant_product_output(x, y, net, F)
           rf == reflection_fee_for(IF d = "sell" THEN g ELSE o)
           rc == IF d = "sell" THEN o ELSE o - rf
           A == [net |-> net, amm |-> am, output |-> o, reflection |-> rf, receipt |-> rc]
           C == [inputReserve |-> x, outputReserve |-> y, reflectionFeeBps |-> f]
           V == [output |-> o, receipt |-> rc, reflection |-> rf, amm |-> am]
<1>1. /\ d \in {"sell", "buy"} /\ g \in Nat /\ g > 0
      /\ x \in 0 .. MAX_U64 /\ y \in 0 .. MAX_U64
  BY ClientConstants DEF Inputs, Directions, Views, In, Out
<1>2. V = priced(d, g, r) /\ V.output = o /\ V.receipt = rc
  BY DEF priced
<1>3. /\ g <= FIXED_MAX_GROSS_SWAP /\ x > 0
      /\ g * D <= x * FIXED_MAX_RESERVE_BPS
      /\ rc > 0
  <2> HIDE DEF x, V, rc, g, d, o
  <2> QED BY <1>2 DEF quotable, assert_swap_bounds, x, g, d
<1>4. C = Context(d, r, f)
  BY DEF Context
<1>5. sell_fee \in Nat /\ sell_fee <= g /\ sell_fee = (g * f) \div D
  BY <1>1, ReflectionFeePart DEF reflection_fee_for
<1> HIDE DEF x, y, g, d, sell_fee
<1>6. net \in Nat
  BY <1>1, <1>5
<1> HIDE DEF net
<1>7. /\ p \in Nat /\ p <= net /\ am \in Nat /\ am <= net /\ net - am = p /\ am = net - p
      /\ p = (net * (D - F)) \div D
  <2>1. F \in Nat /\ F <= BPS_DENOMINATOR
    BY Constants
  <2>2. p \in Nat /\ p <= net /\ am \in Nat /\ am <= net /\ net - am = p
    BY <1>6, <2>1, PricedPart
  <2>3. p = (net * (D - F)) \div D
    BY DEF invariant_input
  <2>4. am = net - p
    BY DEF fee
  <2> QED BY <2>2, <2>3, <2>4
<1>8. o = (y * p) \div (x + p)
  BY <1>7 DEF constant_product_output
<1>9. o \in Nat /\ o <= y
  <2>1. F \in Nat /\ F <= BPS_DENOMINATOR /\ x \in Nat /\ y \in Nat
    BY Constants, <1>1
  <2> QED BY <1>3, <1>6, <2>1, SwapKeepsProduct
<1> HIDE DEF p, am, o
<1>10. /\ rf \in Nat /\ rf = ((IF d = "sell" THEN g ELSE o) * f) \div D
  BY <1>1, <1>9, ReflectionFeePart DEF reflection_fee_for
<1>11. d = "sell" => rf = sell_fee
  BY DEF sell_fee
<1> HIDE DEF rf
<1>12. /\ d = "sell" => net = g - rf /\ o = rc
       /\ d # "sell" => net = g /\ o = rc + rf
  BY <1>9, <1>10, <1>11 DEF net
<1>13. q = Quote(input, A, C)
  <2>1. q = quoteTuple(input, V, r)
    <3> HIDE DEF V
    <3> QED BY <1>2 DEF d, g
  <2>2. /\ (IF d = "sell" THEN g - V.reflection ELSE g) = net
        /\ (IF d = "sell" THEN V.receipt ELSE V.receipt + V.reflection) = o
        /\ V.reflection = rf /\ V.receipt = rc /\ V.amm = am
    BY <1>12
  <2> HIDE DEF V, rc
  <2> QED BY <2>1, <2>2, <1>4 DEF quoteTuple, d, g
<1>14. reproduced(input, C) = Quote(input, A, C)
  <2>1. C.inputReserve = x /\ C.outputReserve = y /\ C.reflectionFeeBps = f
    OBVIOUS
  <2> HIDE DEF C
  <2>2. /\ (IF d = "sell" THEN g - (g * f) \div D ELSE g) = net
        /\ (IF d = "sell" THEN (g * f) \div D ELSE (o * f) \div D) = rf
    BY <1>5, <1>10, <1>11, <1>12
  <2> QED BY <2>1, <2>2, <1>7, <1>8 DEF reproduced, d, g
<1>15. /\ q.input = input /\ q.amounts = A /\ q.context = C
  BY <1>13 DEF Quote
<1>16. /\ A.net = net /\ A.amm = am /\ A.output = o /\ A.reflection = rf /\ A.receipt = rc
       /\ C.inputReserve = x /\ C.outputReserve = y /\ C.reflectionFeeBps = f
  OBVIOUS
<1>17. /\ MAX_U64 \in Nat
       /\ f <= MAX_REFLECTION_FEE_BPS /\ F <= MAX_AMM_FEE_BPS
  BY Constants, ClientConstants
<1>18. o > 0 /\ y > 0 /\ o <= MAX_U64
  <2>1. o > 0
    BY <1>3, <1>9, <1>10, <1>12
  <2> QED BY <1>1, <1>9, <1>17, <2>1
<1>19. net > 0
  <2> SUFFICES ASSUME net = 0 PROVE FALSE
    BY <1>6
  <2>1. p = 0
    BY <1>6, <1>7
  <2>2. o = 0
    <3>1. y * p = 0 /\ x + p = x /\ x \in Nat
      BY <1>1, <2>1
    <3>2. o = 0 \div x
      BY <1>8, <3>1
    <3> QED BY <1>3, <3>1, <3>2, DivUnique
  <2> QED BY <1>18, <2>2
<1> HIDE DEF A, C, rc
<1>20. adapterAccepts(q)
  <2>1. /\ q.amounts.net >= 0 /\ q.amounts.amm <= q.amounts.net /\ q.amounts.output <= MAX_U64
        /\ q.context.inputReserve > 0 /\ q.context.outputReserve > 0 /\ q.amounts.receipt > 0
        /\ q.input.gross <= FIXED_MAX_GROSS_SWAP
        /\ q.input.gross * D <= q.context.inputReserve * FIXED_MAX_RESERVE_BPS
    BY <1>3, <1>6, <1>7, <1>15, <1>16, <1>18 DEF g
  <2>2. q.amounts.amm = q.amounts.net - (q.amounts.net * (D - F)) \div D
    BY <1>7, <1>15, <1>16
  <2>3. q.amounts.output = (q.context.outputReserve * (q.amounts.net - q.amounts.amm))
                             \div (q.context.inputReserve + (q.amounts.net - q.amounts.amm))
    BY <1>7, <1>8, <1>15, <1>16
  <2>4. q.amounts.reflection = ((IF q.input.direction = "sell" THEN q.input.gross
                                 ELSE q.amounts.output) * q.context.reflectionFeeBps) \div D
    BY <1>10, <1>15, <1>16 DEF d, g
  <2> QED BY <1>17, <2>1, <2>2, <2>3, <2>4 DEF adapterAccepts
<1>21. ASSUME NEW t, input.deadline > t PROVE assertSwapQuote(q, t)
  <2>1. q = reproduced(q.input, q.context)
    BY <1>13, <1>14, <1>15
  <2>2. /\ q.input.deadline > t
        /\ q.context.inputReserve > 0 /\ q.context.outputReserve > 0
        /\ q.context.reflectionFeeBps <= MAX_REFLECTION_FEE_BPS
        /\ q.input.gross <= FIXED_MAX_GROSS_SWAP
        /\ q.input.gross * D <= q.context.inputReserve * FIXED_MAX_RESERVE_BPS
        /\ q.amounts.net > 0 /\ q.amounts.receipt > 0
    BY <1>3, <1>15, <1>16, <1>17, <1>18, <1>19, <1>21 DEF g
  <2> QED BY <2>1, <2>2 DEF assertSwapQuote
<1> QED BY <1>20, <1>21

\* However the pool moves between the reads, the adapter accepts what it has
\* read and the safe client what the adapter made of it.
THEOREM HonestQuotesAreAccepted == ClientSpec => []HonestQuoteAccepted
<1>1. ASSUME ClientInv, AdapterDone
      PROVE  /\ adapterAccepts(adapterQuote)
             /\ \A t \in Clock : call.input.deadline > t => assertSwapQuote(adapterQuote, t)
  <2>1. /\ call.input \in Inputs /\ call.pinned \in Views
        /\ quotable(call.input.direction, call.input.gross, call.pinned)
        /\ adapterQuote = quoteTuple(call.input, priced(call.input.direction, call.input.gross,
                                                        call.pinned), call.pinned)
    BY <1>1 DEF ClientInv, CallInv, ReadAtPin, AdapterDone, adapterQuote
  <2> DEFINE q == adapterQuote
             input == call.input
             r == call.pinned
  <2> HIDE DEF q, input, r
  <2>2. /\ input \in Inputs /\ r \in Views /\ quotable(input.direction, input.gross, r)
        /\ q = quoteTuple(input, priced(input.direction, input.gross, r), r)
    BY <2>1 DEF q, input, r
  <2>3. adapterAccepts(q) /\ \A t : input.deadline > t => assertSwapQuote(q, t)
    BY <2>2, HonestQuote
  <2> QED BY <2>3 DEF q, input
<1>2. ClientInv => HonestQuoteAccepted
  BY <1>1 DEF HonestQuoteAccepted
<1> QED BY <1>2, ClientInvariant, PTL

\* A part of an amount is no more than the amount.
LEMMA LessIsPart ==
  ASSUME NEW amount \in Nat, NEW slippage \in 0 .. BPS_DENOMINATOR
  PROVE  less(amount, slippage) \in Nat /\ less(amount, slippage) <= amount
<1> DEFINE D == BPS_DENOMINATOR
           k == D - slippage
<1>1. D \in Nat /\ D > 0 /\ k \in Nat /\ k <= D
  BY Constants
<1> HIDE DEF D, k
<1>2. amount * k \in Nat /\ amount * k <= D * amount
  <2>1. amount * k <= amount * D
    BY <1>1, TimesMono
  <2>2. amount * D = D * amount /\ amount * k \in Nat
    BY <1>1
  <2> QED BY <2>1, <2>2
<1>3. (amount * k) \div D \in Nat /\ (amount * k) \div D <= amount
  BY <1>1, <1>2, DivNat, DivLeq
<1> QED BY <1>3 DEF less, D, k

\* A live pool executes what its own quote accepts at the same reserves, and
\* pays the quoted receipt.
LEMMA QuotedSwapExecutes ==
  ASSUME IInv, EmptyUnlessLive, NEW d \in Directions, NEW g \in Nat, g > 0,
         quotable(d, g, Reserves), fits(In(d, Reserves) + g)
  PROVE  /\ paid(d, g) = priced(d, g, Reserves).receipt
         /\ paid(d, g) \in Nat /\ paid(d, g) > 0
         /\ IF d = "sell" THEN sell_succeeds(g, reflection_fee_for(g)) ELSE buy_succeeds(g)
<1>1. Reserves.rfl = rfl /\ Reserves.usd = usd
  BY DEF Reserves
<1>2. reflection_fee_for(g) \in Nat /\ reflection_fee_for(g) <= g
  BY ReflectionFeePart
<1>3. In(d, Reserves) > 0
  BY DEF quotable, assert_swap_bounds
<1>4. lifecycle = "live"
  <2>1. In(d, Reserves) = rfl \/ In(d, Reserves) = usd
    BY <1>1 DEF In
  <2> QED BY <1>3, <2>1 DEF EmptyUnlessLive
<1>5. rfl \in Nat /\ rfl > 0 /\ usd \in Nat /\ usd > 0
  BY <1>4, LiveFacts
<1>6. CASE d = "sell"
  <2> DEFINE net == g - reflection_fee_for(g)
             o == sell_output(g, reflection_fee_for(g))
  <2>1. /\ priced(d, g, Reserves).output = o /\ priced(d, g, Reserves).receipt = o
        /\ paid(d, g) = o /\ In(d, Reserves) = rfl /\ Out(d, Reserves) = usd
    BY <1>1, <1>6 DEF priced, sell_output, paid, In, Out
  <2>2. net \in Nat /\ net <= g
    BY <1>2
  <2>3. o \in Nat
    <3>1. o = constant_product_output(rfl, usd, net, FIXED_AMM_FEE_BPS)
      BY DEF sell_output
    <3> HIDE DEF net, o
    <3> QED BY <1>5, <2>2, <3>1, TradeArithmetic
  <2>4. /\ assert_swap_bounds(g, rfl) /\ assert_reserve_output_cap(o, usd) /\ o > 0
        /\ rfl + g <= MAX_U64
    BY <2>1 DEF quotable, fits
  <2> HIDE DEF o, net
  <2>5. fits(rfl + net)
    BY <1>5, <2>2, <2>4, Constants DEF fits
  <2>6. sell_succeeds(g, reflection_fee_for(g))
    BY <1>4, <2>4, <2>5 DEF sell_succeeds, o, net
  <2> QED BY <1>6, <2>1, <2>3, <2>4, <2>6
<1>7. CASE d = "buy"
  <2> DEFINE o == buy_output(g)
             rf == reflection_fee_for(o)
  <2>1. /\ priced(d, g, Reserves).output = o /\ priced(d, g, Reserves).receipt = o - rf
        /\ paid(d, g) = o - rf /\ In(d, Reserves) = usd /\ Out(d, Reserves) = rfl
    BY <1>1, <1>7 DEF priced, buy_output, paid, In, Out
  <2>2. o \in Nat
    BY <1>5, TradeArithmetic DEF buy_output
  <2>3. rf \in Nat /\ rf <= o
    BY <2>2, ReflectionFeePart
  <2>4. /\ assert_swap_bounds(g, usd) /\ assert_reserve_output_cap(o, rfl) /\ o - rf > 0
        /\ fits(usd + g)
    BY <2>1 DEF quotable
  <2> HIDE DEF o, rf
  <2>5. o > 0 /\ o - rf \in Nat
    BY <2>2, <2>3, <2>4
  <2>6. buy_succeeds(g)
    BY <1>4, <2>4, <2>5 DEF buy_succeeds, o
  <2>7. d # "sell"
    BY <1>7
  <2> QED BY <2>1, <2>4, <2>5, <2>6, <2>7
<1> QED BY <1>6, <1>7 DEF Directions

\* A quote of the adapter that is still fresh passes every assertion of the
\* pool and pays exactly the receipt that was shown, at any slippage.
THEOREM FreshQuotesExecute == ClientSpec => []FreshQuoteExecutes
<1>1. ASSUME ClientInv, Fresh
      PROVE  LET input == call.quote.input
             IN  /\ swap_succeeds(input.direction, input.gross, call.quote.minimum,
                                  input.deadline)
                 /\ paid(input.direction, input.gross) = call.quote.amounts.receipt
  <2> DEFINE d == call.input.direction
             g == call.input.gross
             k == call.quote.amounts.receipt
  <2>1. /\ IInv /\ EmptyUnlessLive /\ call.input \in Inputs
        /\ call.quote.input = call.input /\ k = priced(d, g, Reserves).receipt
        /\ call.quote.minimum = less(k, call.input.slippage)
        /\ quotable(d, g, Reserves) /\ fits(In(d, Reserves) + g)
        /\ now <= call.input.deadline
    BY <1>1 DEF ClientInv, CallInv, IssuedAsAsked, QuotedAtPin, Fresh
  <2>2. /\ d \in Directions /\ g \in Nat /\ g > 0
        /\ call.input.slippage \in 0 .. BPS_DENOMINATOR
    BY <2>1, ClientConstants, ClientAssumption DEF Inputs
  <2> HIDE DEF d, g, k
  <2>3. /\ paid(d, g) = k /\ k \in Nat /\ k > 0
        /\ IF d = "sell" THEN sell_succeeds(g, reflection_fee_for(g)) ELSE buy_succeeds(g)
    BY <2>1, <2>2, QuotedSwapExecutes
  <2>4. k >= call.quote.minimum
    BY <2>1, <2>2, <2>3, LessIsPart
  <2>5. swap_succeeds(d, g, call.quote.minimum, call.input.deadline)
    BY <2>1, <2>3, <2>4 DEF swap_succeeds
  <2> QED BY <2>1, <2>3, <2>5 DEF d, g, k
<1>2. ClientInv => FreshQuoteExecutes
  BY <1>1 DEF FreshQuoteExecutes
<1> QED BY <1>2, ClientInvariant, PTL
=============================================================================
