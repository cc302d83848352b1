---------------------------- MODULE LedgerProofs ----------------------------
(***************************************************************************)
(* What the operators of ReflectionLedger keep true.  Every store movement *)
(* of the token is a Shift of a wallet or of the pool (n units with their  *)
(* weight and their correction), or a payment out of the reward vault, so  *)
(* soundness is shown once for each of those and for the index.            *)
(***************************************************************************)
EXTENDS ReflectionLedger, SumLemmas

-----------------------------------------------------------------------------
(* The fields of a ledger, one by one *)

\* There are finitely many accounts, so totals over them are defined.
LEMMA AccountsFinite == IsFiniteSet(Accounts)
<1>1. IsFiniteSet(Publishers)
  <2>1. IsFiniteSet({"reflection_core"})
    BY FS_Singleton
  <2>2. IsFiniteSet({"reflection_core"} \cup {"test_assets"})
    BY <2>1, FS_AddElement
  <2>3. IsFiniteSet(({"reflection_core"} \cup {"test_assets"}) \cup {"test_amm"})
    BY <2>2, FS_AddElement
  <2>4. Publishers = ({"reflection_core"} \cup {"test_assets"}) \cup {"test_amm"}
    BY DEF Publishers
  <2> QED BY <2>3, <2>4
<1> QED BY <1>1, UsersAssumption, FS_Union DEF Accounts

\* The scale of the index is a positive number.
LEMMA MagnitudePositive == MAGNITUDE \in Nat /\ MAGNITUDE > 0
BY SupplyAssumption, MagnitudeAssumption

\* The total of an integer function over the accounts is an integer.
LEMMA TotalType ==
  ASSUME NEW f \in [Accounts -> Int]
  PROVE  total(f) \in Int
BY AccountsFinite, SumType DEF total

\* Changing one account's entry by d changes the total by d.
LEMMA TotalUpdate ==
  ASSUME NEW f \in [Accounts -> Int], NEW a \in Accounts, NEW d \in Int
  PROVE  total([f EXCEPT ![a] = f[a] + d]) = total(f) + d
<1> DEFINE e == [f EXCEPT ![a] = f[a] + d]
<1>1. e \in [Accounts -> Int] /\ e[a] = f[a] + d
      /\ \A x \in Accounts : x # a => e[x] = f[x]
  OBVIOUS
<1> HIDE DEF e
<1>2. total(e) = total(f) + (e[a] - f[a])
  BY <1>1, AccountsFinite, SumUpdate DEF total
<1>3. total(e) = total(f) + d
  BY <1>1, <1>2, TotalType
<1> QED BY <1>3 DEF e

\* If every entry of e is that of f plus d times that of w, so are the totals.
LEMMA TotalLinear ==
  ASSUME NEW f \in [Accounts -> Int], NEW w \in [Accounts -> Int],
         NEW e \in [Accounts -> Int], NEW d \in Int,
         \A x \in Accounts : e[x] = f[x] + w[x] * d
  PROVE  total(e) = total(f) + total(w) * d
BY AccountsFinite, SumLinear, ZenonT(60) DEF total

\* A total of naturals is a natural and at least every entry.
LEMMA TotalNat ==
  ASSUME NEW f \in [Accounts -> Nat]
  PROVE  /\ total(f) \in Nat
         /\ \A a \in Accounts : f[a] <= total(f)
<1> DEFINE z == [x \in Accounts |-> 0]
<1>1. f \in [Accounts -> Int] /\ z \in [Accounts -> Int]
      /\ (\A x \in Accounts : f[x] >= 0) /\ (\A x \in Accounts : z[x] <= f[x])
      /\ (\A x \in Accounts : z[x] = 0)
  OBVIOUS
<1> HIDE DEF z
<1>2. total(z) = 0
  BY <1>1, AccountsFinite, SumZero DEF total
<1>3. total(z) <= total(f)
  BY <1>1, AccountsFinite, SumMonotone DEF total
<1>4. \A a \in Accounts : f[a] <= total(f)
  BY <1>1, AccountsFinite, SumMember DEF total
<1>5. total(f) \in Int
  BY <1>1, TotalType
<1> QED BY <1>2, <1>3, <1>4, <1>5

\* The types of the fields of a ledger, for the provers to cite at once.
LEMMA LedgerFields ==
  ASSUME NEW l \in Ledger
  PROVE  /\ l.index \in Nat /\ l.index_remainder \in Nat /\ l.total_shares \in Nat
         /\ l.aggregate_correction \in Int /\ l.unallocated_fees \in Nat
         /\ l.lifetime_fees \in Nat /\ l.lifetime_materialized \in Nat
         /\ l.correction \in [Accounts -> Int] /\ l.claimed \in [Accounts -> Nat]
         /\ l.pool_correction \in Int /\ l.pool_claimed \in Nat
         /\ l.custody_shares \in Nat /\ l.lifetime_custody_routed \in Nat
         /\ l.rounding_reserve \in Nat /\ l.raw \in [Accounts -> Nat]
         /\ l.reward_vault \in Nat /\ l.distribution_vault \in Nat
         /\ l.pool_store \in Nat /\ l.lp_vault \in Nat /\ l.fee_bps \in 0 .. MAX_FEE_BPS
BY DEF Ledger

-----------------------------------------------------------------------------
(* Units enter (n > 0) or leave (n < 0) a wallet at the current index *)

Shift(l, a, n) ==
  [l EXCEPT !.raw = [l.raw EXCEPT ![a] = l.raw[a] + n],
            !.correction = [l.correction EXCEPT ![a] = l.correction[a] + -(n * l.index)],
            !.aggregate_correction = l.aggregate_correction + -(n * l.index),
            !.total_shares = l.total_shares + n]

\* What such a move leaves alone and what it changes.
LEMMA ShiftSound ==
  ASSUME NEW l, Sound(l), NEW a \in Accounts, NEW n \in Int, l.raw[a] + n >= 0
  PROVE  LET r == Shift(l, a, n) IN
         /\ Sound(r)
         /\ held(r) = held(l) + n
         /\ \A x \in Accounts : magnified(r, x) = magnified(l, x)
         /\ pool_magnified(r) = pool_magnified(l)
<1> DEFINE r == Shift(l, a, n)
           d == n * l.index
<1>0. l \in Ledger
  BY DEF Sound
<1>1. d \in Int
  BY <1>0, LedgerFields
<1>f. /\ r.raw = [l.raw EXCEPT ![a] = l.raw[a] + n]
      /\ r.correction = [l.correction EXCEPT ![a] = l.correction[a] + -d]
      /\ r.aggregate_correction = l.aggregate_correction + -d
      /\ r.total_shares = l.total_shares + n
  BY <1>0 DEF Shift, Ledger
<1>g. /\ r.index = l.index /\ r.index_remainder = l.index_remainder
      /\ r.unallocated_fees = l.unallocated_fees
      /\ r.lifetime_fees = l.lifetime_fees
      /\ r.lifetime_materialized = l.lifetime_materialized
      /\ r.claimed = l.claimed
      /\ r.pool_correction = l.pool_correction /\ r.pool_claimed = l.pool_claimed
      /\ r.custody_shares = l.custody_shares
      /\ r.lifetime_custody_routed = l.lifetime_custody_routed
      /\ r.rounding_reserve = l.rounding_reserve
      /\ r.reward_vault = l.reward_vault
      /\ r.distribution_vault = l.distribution_vault
      /\ r.pool_store = l.pool_store /\ r.lp_vault = l.lp_vault
  BY <1>0 DEF Shift, Ledger
<1>2. /\ total(r.raw) = total(l.raw) + n
      /\ total(r.correction) = total(l.correction) + -d
      /\ total(l.raw) \in Int /\ total(l.correction) \in Int
      /\ total(l.raw) + n >= 0
      /\ r.raw \in [Accounts -> Nat] /\ r.correction \in [Accounts -> Int]
  <2>1. l.raw \in [Accounts -> Nat] /\ l.raw \in [Accounts -> Int]
        /\ l.correction \in [Accounts -> Int] /\ -d \in Int
    BY <1>0, <1>1, LedgerFields
  <2>2. r.raw \in [Accounts -> Nat] /\ r.correction \in [Accounts -> Int]
        /\ r.raw \in [Accounts -> Int] /\ \A x \in Accounts : r.raw[x] >= 0
    BY <1>f, <2>1
  <2>3. /\ total(r.raw) = total(l.raw) + n
        /\ total(r.correction) = total(l.correction) + -d
    BY <1>f, <2>1, TotalUpdate
  <2>4. total(l.raw) \in Int /\ total(l.correction) \in Int
    BY <2>1, TotalType
  <2>5. r.raw[a] <= total(r.raw) /\ r.raw[a] >= 0
    BY <2>2, AccountsFinite, SumMember DEF total
  <2>6. total(r.raw) \in Int /\ r.raw[a] \in Int
    BY <2>2, TotalType
  <2> QED BY <2>2, <2>3, <2>4, <2>5, <2>6
<1>3. l.total_shares = total(l.raw) + l.custody_shares /\ l.custody_shares \in Nat
      /\ l.total_shares \in Nat
  BY <1>0, LedgerFields DEF Sound, shares_match
<1>4. r \in Ledger
  <2>1. l.total_shares + n \in Nat
    BY <1>2, <1>3
  <2>2. l.aggregate_correction + -d \in Int
    BY <1>0, <1>1, LedgerFields
  <2>3. r = [l EXCEPT !.raw = r.raw, !.correction = r.correction,
                      !.aggregate_correction = l.aggregate_correction + -d,
                      !.total_shares = l.total_shares + n]
    BY <1>f DEF Shift
  <2> HIDE DEF r, d
  <2>4. r.raw \in [Accounts -> Nat] /\ r.correction \in [Accounts -> Int]
    BY <1>2
  <2> QED BY <1>0, <2>1, <2>2, <2>3, <2>4, ZenonT(60) DEF Ledger
<1>5. (l.total_shares + n) * l.index + (l.aggregate_correction + -d)
        = l.total_shares * l.index + l.aggregate_correction
  <2>1. l.total_shares \in Int /\ l.index \in Int /\ l.aggregate_correction \in Int
        /\ l.total_shares * l.index \in Int
    BY <1>0, LedgerFields
  <2>2. (l.total_shares + n) * l.index = l.total_shares * l.index + d
    BY <2>1, Distribute
  <2> HIDE DEF d
  <2> QED BY <1>1, <2>1, <2>2
<1>6. ASSUME NEW x \in Accounts
      PROVE  magnified(r, x) = magnified(l, x)
  <2>1. l.raw[x] \in Int /\ l.index \in Int /\ l.correction[x] \in Int
        /\ l.raw[x] * l.index \in Int
    BY <1>0, LedgerFields
  <2>2. CASE x = a
    <3>1. r.raw[x] = l.raw[x] + n /\ r.correction[x] = l.correction[x] + -d
      BY <1>0, <1>f, <2>2, LedgerFields
    <3>2. (l.raw[x] + n) * l.index = l.raw[x] * l.index + d
      BY <2>1, Distribute
    <3> HIDE DEF d, r
    <3> QED BY <1>1, <1>g, <2>1, <3>1, <3>2 DEF magnified
  <2>3. CASE x # a
    <3>1. r.raw[x] = l.raw[x] /\ r.correction[x] = l.correction[x]
      BY <1>0, <1>f, <2>3, LedgerFields
    <3> QED BY <1>g, <3>1 DEF magnified
  <2> QED BY <2>2, <2>3
<1>7. pool_magnified(r) = pool_magnified(l)
  BY <1>g DEF pool_magnified
<1> HIDE DEF r, d
<1>8. shares_match(r)
  BY <1>2, <1>3, <1>f, <1>g DEF shares_match, Sound
<1>9. aggregates_match(r)
  <2>1. l.aggregate_correction = total(l.correction) + l.pool_correction
    BY DEF Sound, aggregates_match
  <2>2. l.pool_correction \in Int
    BY <1>0, LedgerFields
  <2>3. r.aggregate_correction = total(r.correction) + r.pool_correction
    BY <1>1, <1>2, <1>f, <1>g, <2>1, <2>2
  <2> QED BY <1>g, <2>3 DEF Sound, aggregates_match
<1>10. dust_conserved(r)
  BY <1>5, <1>f, <1>g DEF Sound, dust_conserved
<1>11. never_overpaid(r)
  BY <1>6, <1>7, <1>g DEF Sound, never_overpaid
<1>12. accounting_backing(r)
  <2>1. aggregate_liability(r) = aggregate_liability(l)
    BY <1>5, <1>f, <1>g DEF aggregate_liability
  <2> QED BY <1>g, <2>1 DEF Sound, accounting_backing
<1>13. held(r) = held(l) + n
  <2>1. l.reward_vault \in Nat /\ l.distribution_vault \in Nat
        /\ l.pool_store \in Nat /\ l.lp_vault \in Nat
    BY <1>0, LedgerFields
  <2> QED BY <1>2, <1>g, <2>1 DEF held
<1> QED BY <1>4, <1>6, <1>7, <1>8, <1>9, <1>10, <1>11, <1>12, <1>13 DEF Sound, r

-----------------------------------------------------------------------------
(* Units enter (n > 0) or leave (n < 0) the pool at the current index *)

PoolShift(l, n) ==
  [l EXCEPT !.pool_store = l.pool_store + n,
            !.custody_shares = l.custody_shares + n,
            !.pool_correction = l.pool_correction + -(n * l.index),
            !.aggregate_correction = l.aggregate_correction + -(n * l.index),
            !.total_shares = l.total_shares + n]

\* Moving n units into the pool's store and weight keeps a ledger sound.
LEMMA PoolShiftSound ==
  ASSUME NEW l, Sound(l), NEW n \in Int, l.custody_shares + n >= 0
  PROVE  LET r == PoolShift(l, n) IN
         /\ Sound(r)
         /\ held(r) = held(l) + n
         /\ \A x \in Accounts : magnified(r, x) = magnified(l, x)
         /\ pool_magnified(r) = pool_magnified(l)
<1> DEFINE r == PoolShift(l, n)
           d == n * l.index
<1>0. l \in Ledger
  BY DEF Sound
<1>1. d \in Int /\ l.index \in Int
  BY <1>0, LedgerFields
<1>f. /\ r.pool_store = l.pool_store + n
      /\ r.custody_shares = l.custody_shares + n
      /\ r.pool_correction = l.pool_correction + -d
      /\ r.aggregate_correction = l.aggregate_correction + -d
      /\ r.total_shares = l.total_shares + n
  BY <1>0 DEF PoolShift, Ledger
<1>g. /\ r.index = l.index /\ r.index_remainder = l.index_remainder
      /\ r.unallocated_fees = l.unallocated_fees
      /\ r.lifetime_fees = l.lifetime_fees
      /\ r.lifetime_materialized = l.lifetime_materialized
      /\ r.claimed = l.claimed /\ r.raw = l.raw /\ r.correction = l.correction
      /\ r.pool_claimed = l.pool_claimed
      /\ r.lifetime_custody_routed = l.lifetime_custody_routed
      /\ r.rounding_reserve = l.rounding_reserve
      /\ r.reward_vault = l.reward_vault
      /\ r.distribution_vault = l.distribution_vault
      /\ r.lp_vault = l.lp_vault
  BY <1>0 DEF PoolShift, Ledger
<1>2. /\ total(l.raw) \in Int /\ total(l.raw) >= 0
      /\ total(l.correction) \in Int
  BY <1>0, TotalNat, TotalType, LedgerFields
<1>3. /\ l.total_shares = total(l.raw) + l.custody_shares
      /\ l.custody_shares = l.pool_store
      /\ l.custody_shares \in Nat /\ l.total_shares \in Nat
  BY <1>0, LedgerFields DEF Sound, shares_match
<1>4. r \in Ledger
  <2>1. l.total_shares + n \in Nat /\ l.custody_shares + n \in Nat
        /\ l.pool_store + n \in Nat
    BY <1>2, <1>3
  <2>2. l.aggregate_correction + -d \in Int /\ l.pool_correction + -d \in Int
    BY <1>0, <1>1, LedgerFields
  <2>3. r = [l EXCEPT !.pool_store = l.pool_store + n,
                      !.custody_shares = l.custody_shares + n,
                      !.pool_correction = l.pool_correction + -d,
                      !.aggregate_correction = l.aggregate_correction + -d,
                      !.total_shares = l.total_shares + n]
    BY DEF PoolShift
  <2> HIDE DEF r, d
  <2> QED BY <1>0, <2>1, <2>2, <2>3 DEF Ledger
<1>5. (l.total_shares + n) * l.index + (l.aggregate_correction + -d)
        = l.total_shares * l.index + l.aggregate_correction
  <2>1. l.total_shares \in Int /\ l.aggregate_correction \in Int
        /\ l.total_shares * l.index \in Int
    BY <1>0, LedgerFields
  <2>2. (l.total_shares + n) * l.index = l.total_shares * l.index + d
    BY <1>1, <2>1, Distribute
  <2> HIDE DEF d
  <2> QED BY <1>1, <2>1, <2>2
<1>6. \A x \in Accounts : magnified(r, x) = magnified(l, x)
  BY <1>g DEF magnified
<1>7. pool_magnified(r) = pool_magnified(l)
  <2>1. l.custody_shares \in Int /\ l.pool_correction \in Int
        /\ l.custody_shares * l.index \in Int
    BY <1>0, LedgerFields
  <2>2. (l.custody_shares + n) * l.index = l.custody_shares * l.index + d
    BY <1>1, <2>1, Distribute
  <2> HIDE DEF d, r
  <2> QED BY <1>1, <1>f, <1>g, <2>1, <2>2 DEF pool_magnified
<1> HIDE DEF r, d
<1>8. shares_match(r)
  BY <1>2, <1>3, <1>f, <1>g DEF shares_match
<1>9. aggregates_match(r)
  <2>1. l.aggregate_correction = total(l.correction) + l.pool_correction
    BY DEF Sound, aggregates_match
  <2>2. l.pool_correction \in Int
    BY <1>0, LedgerFields
  <2>3. r.aggregate_correction = total(r.correction) + r.pool_correction
    BY <1>1, <1>2, <1>f, <1>g, <2>1, <2>2
  <2> QED BY <1>g, <2>3 DEF Sound, aggregates_match
<1>10. dust_conserved(r)
  BY <1>5, <1>f, <1>g DEF Sound, dust_conserved
<1>11. never_overpaid(r)
  BY <1>6, <1>7, <1>g DEF Sound, never_overpaid
<1>12. accounting_backing(r)
  <2>1. aggregate_liability(r) = aggregate_liability(l)
    BY <1>5, <1>f, <1>g DEF aggregate_liability
  <2> QED BY <1>g, <2>1 DEF Sound, accounting_backing
<1>13. held(r) = held(l) + n
  <2>1. l.reward_vault \in Nat /\ l.distribution_vault \in Nat
        /\ l.pool_store \in Nat /\ l.lp_vault \in Nat
    BY <1>0, LedgerFields
  <2> QED BY <1>2, <1>f, <1>g, <2>1 DEF held
<1> QED BY <1>4, <1>6, <1>7, <1>8, <1>9, <1>10, <1>11, <1>12, <1>13 DEF Sound, r

-----------------------------------------------------------------------------
(* The vault covers every pending reward *)

\* A sound ledger is solvent: the vault covers every pending reward, because
\* the sum of floors is at most the floor of the sum.
LEMMA SoundIsSolvent ==
  ASSUME NEW l, Sound(l)
  PROVE  /\ solvent(l)
         /\ \A a \in Accounts : /\ claimable_for_store(l, a) \in Nat
                                 /\ claimable_for_store(l, a) <= l.reward_vault
         /\ custody_pending_for_store(l) \in Nat
         /\ custody_pending_for_store(l) <= l.reward_vault
<1>0. l \in Ledger
  BY DEF Sound
<1> DEFINE M == MAGNITUDE
           mag == [a \in Accounts |-> magnified(l, a)]
           q == [a \in Accounts |-> magnified(l, a) \div M]
           mq == [a \in Accounts |-> M * q[a]]
           qp == pool_magnified(l) \div M
           z == [a \in Accounts |-> 0]
           pend == pending(l)
           pp == custody_pending_for_store(l)
<1>m. M \in Nat /\ M > 0 /\ M \in Int
  BY MagnitudePositive
<1>1. \A a \in Accounts :
        /\ magnified(l, a) \in Int
        /\ magnified(l, a) \div M \in Int
        /\ M * (magnified(l, a) \div M) <= magnified(l, a)
        /\ l.claimed[a] <= magnified(l, a) \div M
        /\ magnified(l, a) >= 0
        /\ l.claimed[a] \in Nat
  <2> SUFFICES ASSUME NEW a \in Accounts
               PROVE  /\ magnified(l, a) \in Int
                      /\ magnified(l, a) \div M \in Int
                      /\ M * (magnified(l, a) \div M) <= magnified(l, a)
                      /\ l.claimed[a] <= magnified(l, a) \div M
                      /\ magnified(l, a) >= 0
                      /\ l.claimed[a] \in Nat
    OBVIOUS
  <2>1. magnified(l, a) \in Int /\ l.claimed[a] \in Nat
    BY <1>0, LedgerFields DEF magnified
  <2>2. M * l.claimed[a] <= magnified(l, a)
    BY <2>1 DEF Sound, never_overpaid
  <2> DEFINE x == magnified(l, a)
             c == l.claimed[a]
  <2>3. x \in Int /\ c \in Nat /\ c \in Int /\ M * c <= x
    BY <2>1, <2>2
  <2> HIDE DEF x, c, M
  <2>4. x \div M \in Int /\ x = M * (x \div M) + (x % M) /\ 0 <= x % M
        /\ x % M \in Int
    BY <2>3, <1>m, DivMod
  <2>5. c <= x \div M
    BY <2>3, <1>m, DivMono
  <2>6. M * c >= 0
    BY <2>3, <1>m
  <2>7. M * c \in Int /\ M * (x \div M) \in Int
    BY <2>3, <2>4, <1>m
  <2>8. M * (x \div M) <= x /\ x >= 0
    BY <2>3, <2>4, <2>6, <2>7
  <2> QED BY <2>3, <2>4, <2>5, <2>8 DEF x, c
<1>2. /\ pool_magnified(l) \in Int /\ qp \in Int /\ M * qp <= pool_magnified(l)
      /\ l.pool_claimed <= qp /\ pool_magnified(l) >= 0 /\ l.pool_claimed \in Nat
  <2>1. pool_magnified(l) \in Int /\ l.pool_claimed \in Nat
    BY <1>0, LedgerFields DEF pool_magnified
  <2>2. M * l.pool_claimed <= pool_magnified(l)
    BY <2>1 DEF Sound, never_overpaid
  <2> DEFINE x == pool_magnified(l)
             c == l.pool_claimed
  <2>3. x \in Int /\ c \in Nat /\ c \in Int /\ M * c <= x
    BY <2>1, <2>2
  <2> HIDE DEF x, c, M
  <2>4. x \div M \in Int /\ x = M * (x \div M) + (x % M) /\ 0 <= x % M
        /\ x % M \in Int
    BY <2>3, <1>m, DivMod
  <2>5. c <= x \div M
    BY <2>3, <1>m, DivMono
  <2>6. M * c >= 0
    BY <2>3, <1>m
  <2>7. M * c \in Int /\ M * (x \div M) \in Int
    BY <2>3, <2>4, <1>m
  <2>8. M * (x \div M) <= x /\ x >= 0
    BY <2>3, <2>4, <2>6, <2>7
  <2> QED BY <2>3, <2>4, <2>5, <2>8 DEF x, c
<1>3. /\ mag \in [Accounts -> Int] /\ q \in [Accounts -> Int]
      /\ z \in [Accounts -> Int] /\ mq \in [Accounts -> Int]
      /\ pend \in [Accounts -> Int] /\ l.raw \in [Accounts -> Int]
      /\ l.correction \in [Accounts -> Int] /\ l.claimed \in [Accounts -> Int]
      /\ l.index \in Int /\ l.claimed \in [Accounts -> Nat]
  <2>1. /\ mag \in [Accounts -> Int] /\ q \in [Accounts -> Int]
        /\ z \in [Accounts -> Int]
    BY <1>1
  <2>2. pend \in [Accounts -> Int]
    BY <1>1 DEF pending, claimable_for_store
  <2>3. mq \in [Accounts -> Int]
    <3> HIDE DEF q, M
    <3> QED BY <2>1, <1>m
  <2> QED BY <2>1, <2>2, <2>3, <1>0, LedgerFields
<1>4. /\ \A a \in Accounts : mag[a] = l.correction[a] + l.raw[a] * l.index
      /\ \A a \in Accounts : mq[a] = z[a] + q[a] * M
      /\ \A a \in Accounts : mq[a] <= mag[a]
      /\ \A a \in Accounts : pend[a] = q[a] + l.claimed[a] * (-1)
      /\ \A a \in Accounts : z[a] = 0
      /\ \A a \in Accounts : pend[a] >= 0 /\ pend[a] = claimable_for_store(l, a)
  <2>1. \A a \in Accounts : mag[a] = l.correction[a] + l.raw[a] * l.index
    BY <1>0, LedgerFields DEF magnified
  <2>2. \A a \in Accounts : mq[a] = z[a] + q[a] * M
    <3> HIDE DEF q, M
    <3> QED BY <1>3, <1>m
  <2>3. \A a \in Accounts : mq[a] <= mag[a]
    BY <1>1
  <2>4. \A a \in Accounts : pend[a] = q[a] + l.claimed[a] * (-1)
    BY <1>1 DEF pending, claimable_for_store
  <2>5. \A a \in Accounts : pend[a] >= 0 /\ pend[a] = claimable_for_store(l, a)
    BY <1>1 DEF pending, claimable_for_store
  <2> QED BY <2>1, <2>2, <2>3, <2>4, <2>5
<1>5. pp = qp - l.pool_claimed
  BY DEF custody_pending_for_store
<1>6. /\ l.total_shares = total(l.raw) + l.custody_shares
      /\ l.aggregate_correction = total(l.correction) + l.pool_correction
      /\ l.lifetime_materialized = total(l.claimed)
      /\ l.lifetime_custody_routed = l.pool_claimed
      /\ l.total_shares * l.index + l.aggregate_correction + l.index_remainder
           = M * (l.lifetime_fees - l.unallocated_fees)
      /\ l.reward_vault = l.lifetime_fees - l.lifetime_materialized
                            - l.lifetime_custody_routed
  BY DEF Sound, shares_match, aggregates_match, dust_conserved, accounting_backing
<1>7. pool_magnified(l) = l.custody_shares * l.index + l.pool_correction
  BY DEF pool_magnified
<1>n. /\ l.index \in Nat /\ l.index_remainder \in Nat /\ l.total_shares \in Nat
      /\ l.custody_shares \in Nat /\ l.pool_correction \in Int
      /\ l.lifetime_fees \in Nat /\ l.unallocated_fees \in Nat
      /\ l.reward_vault \in Nat
  BY <1>0, LedgerFields
<1>d. pend = pending(l) /\ pp = custody_pending_for_store(l)
  OBVIOUS
<1> HIDE DEF mag, q, mq, qp, z, pend, pp, M
<1>8. total(mag) = total(l.correction) + total(l.raw) * l.index
  <2>1. \A a \in Accounts : mag[a] = l.correction[a] + l.raw[a] * l.index
    BY <1>4
  <2> QED BY <1>3, <2>1, TotalLinear, SMTT(30)
<1>9. total(mq) = total(z) + total(q) * M
  <2>1. \A a \in Accounts : mq[a] = z[a] + q[a] * M
    BY <1>4
  <2>2. mq \in [Accounts -> Int] /\ z \in [Accounts -> Int] /\ q \in [Accounts -> Int]
    BY <1>3
  <2> QED BY <1>m, <2>1, <2>2, TotalLinear, ZenonT(30)
<1>10. total(z) = 0
  BY <1>3, <1>4, AccountsFinite, SumZero DEF total
<1>11. total(mq) <= total(mag)
  BY <1>3, <1>4, AccountsFinite, SumMonotone DEF total
<1>12. total(pend) = total(q) + total(l.claimed) * (-1)
  <2>1. \A a \in Accounts : pend[a] = q[a] + l.claimed[a] * (-1)
    BY <1>4
  <2> QED BY <1>3, <2>1, TotalLinear
<1>13. /\ total(l.raw) \in Int /\ total(l.correction) \in Int /\ total(q) \in Int
       /\ total(l.claimed) \in Int /\ total(pend) \in Int /\ total(l.raw) \in Int
       /\ total(mag) \in Int
  BY <1>3, TotalType
<1> DEFINE K == l.lifetime_fees - l.unallocated_fees
<1>14. M * (total(q) + qp) <= M * K
  <2>1. (total(l.raw) + l.custody_shares) * l.index
          = total(l.raw) * l.index + l.custody_shares * l.index
    BY <1>13, <1>n, Distribute
  <2>2. M * (total(q) + qp) = total(q) * M + M * qp
    BY <1>13, <1>2, <1>m
  <2>3. total(q) * M <= total(l.correction) + total(l.raw) * l.index
    BY <1>8, <1>9, <1>10, <1>11, <1>13, <1>m
  <2>4. /\ total(q) * M \in Int /\ M * qp \in Int /\ total(l.raw) * l.index \in Int
        /\ l.custody_shares * l.index \in Int /\ M * K \in Int
    BY <1>13, <1>2, <1>m, <1>n
  <2>5. total(l.raw) * l.index + l.custody_shares * l.index
          + (total(l.correction) + l.pool_correction) + l.index_remainder = M * K
    BY <1>6, <2>1
  <2>6. M * qp <= l.custody_shares * l.index + l.pool_correction
    BY <1>2, <1>7
  <2> HIDE DEF K
  <2>7. total(q) * M + M * qp <= M * K
    BY <2>3, <2>4, <2>5, <2>6, <1>13, <1>n
  <2> QED BY <2>2, <2>7
<1>15. total(q) + qp <= K
  <2>1. K \in Int /\ total(q) + qp \in Int
    BY <1>13, <1>2, <1>n
  <2> HIDE DEF K
  <2> QED BY <2>1, <1>14, <1>m, CancelLeq
<1>16. total(pend) + pp + l.unallocated_fees <= l.reward_vault
  BY <1>5, <1>6, <1>12, <1>13, <1>15, <1>2, <1>n
<1>17. pp \in Nat
  BY <1>2, <1>5
<1>18. pend \in [Accounts -> Nat]
  BY <1>3, <1>4
<1>19. total(pend) \in Nat /\ \A a \in Accounts : pend[a] <= total(pend)
  BY <1>18, TotalNat
<1>20. \A a \in Accounts : pend[a] <= l.reward_vault /\ pend[a] \in Nat
  BY <1>16, <1>17, <1>18, <1>19, <1>n
<1>21. pp <= l.reward_vault
  BY <1>16, <1>17, <1>19, <1>n
<1>22. \A a \in Accounts : pend[a] = claimable_for_store(l, a)
  BY <1>4
<1>23. \A a \in Accounts : magnified(l, a) >= 0 /\ pool_magnified(l) >= 0
  BY <1>1, <1>2
<1>24. \A a \in Accounts : magnified(l, a) >= 0 /\ pending(l)[a] >= 0
  BY <1>1, <1>4, <1>d
<1>25. solvent(l)
  BY <1>2, <1>16, <1>17, <1>24, <1>d DEF solvent
<1> QED BY <1>17, <1>20, <1>21, <1>22, <1>25, <1>d

-----------------------------------------------------------------------------
(* Payments out of the reward vault *)

\* The books of materialize_to_store, before the units reach the wallet.
Paid(l, a, n) ==
  [l EXCEPT !.claimed = [l.claimed EXCEPT ![a] = l.claimed[a] + n],
            !.lifetime_materialized = l.lifetime_materialized + n,
            !.reward_vault = l.reward_vault + -n]

\* Paying n of the pending units of a out of the vault keeps a ledger sound.
LEMMA PaidSound ==
  ASSUME NEW l, Sound(l), NEW a \in Accounts, NEW n \in Nat,
         n <= claimable_for_store(l, a)
  PROVE  LET r == Paid(l, a, n) IN
         /\ Sound(r)
         /\ held(r) = held(l) + -n
         /\ r.raw = l.raw /\ r.index = l.index /\ r.correction = l.correction
         /\ r.custody_shares = l.custody_shares
         /\ r.pool_correction = l.pool_correction
         /\ r.pool_claimed = l.pool_claimed
         /\ r.claimed = [l.claimed EXCEPT ![a] = l.claimed[a] + n]
<1> DEFINE r == Paid(l, a, n)
<1>0. l \in Ledger
  BY DEF Sound
<1>f. /\ r.claimed = [l.claimed EXCEPT ![a] = l.claimed[a] + n]
      /\ r.lifetime_materialized = l.lifetime_materialized + n
      /\ r.reward_vault = l.reward_vault + -n
  BY <1>0 DEF Paid, Ledger
<1>g. /\ r.index = l.index /\ r.index_remainder = l.index_remainder
      /\ r.unallocated_fees = l.unallocated_fees
      /\ r.lifetime_fees = l.lifetime_fees
      /\ r.total_shares = l.total_shares
      /\ r.aggregate_correction = l.aggregate_correction
      /\ r.raw = l.raw /\ r.correction = l.correction
      /\ r.pool_correction = l.pool_correction /\ r.pool_claimed = l.pool_claimed
      /\ r.custody_shares = l.custody_shares
      /\ r.lifetime_custody_routed = l.lifetime_custody_routed
      /\ r.rounding_reserve = l.rounding_reserve
      /\ r.distribution_vault = l.distribution_vault
      /\ r.pool_store = l.pool_store /\ r.lp_vault = l.lp_vault
  BY <1>0 DEF Paid, Ledger
<1>n. /\ l.reward_vault \in Nat /\ l.lifetime_materialized \in Nat
      /\ l.claimed \in [Accounts -> Nat] /\ l.claimed \in [Accounts -> Int]
      /\ l.lifetime_fees \in Nat /\ l.lifetime_custody_routed \in Nat
      /\ l.unallocated_fees \in Nat /\ l.rounding_reserve \in Nat
      /\ l.distribution_vault \in Nat /\ l.pool_store \in Nat /\ l.lp_vault \in Nat
      /\ l.raw \in [Accounts -> Int] /\ n \in Int
  BY <1>0, LedgerFields
<1>1. l.reward_vault + -n \in Nat
  BY <1>n, SoundIsSolvent
<1>2. r.claimed \in [Accounts -> Nat] /\ l.lifetime_materialized + n \in Nat
  BY <1>f, <1>n
<1>3. r \in Ledger
  <2>1. r = [l EXCEPT !.claimed = r.claimed,
                      !.lifetime_materialized = l.lifetime_materialized + n,
                      !.reward_vault = l.reward_vault + -n]
    BY <1>f DEF Paid
  <2> HIDE DEF r
  <2> QED BY <1>0, <1>1, <1>2, <2>1, ZenonT(60) DEF Ledger
<1> HIDE DEF r
<1>4. shares_match(r)
  BY <1>g DEF Sound, shares_match
<1>5. aggregates_match(r)
  <2>1. total(r.claimed) = total(l.claimed) + n
    <3>1. total([l.claimed EXCEPT ![a] = l.claimed[a] + n]) = total(l.claimed) + n
      BY <1>n, TotalUpdate
    <3> QED BY <1>f, <3>1
  <2> QED BY <1>f, <1>g, <2>1 DEF Sound, aggregates_match
<1>6. dust_conserved(r)
  BY <1>g DEF Sound, dust_conserved
<1>7. never_overpaid(r)
  <2>1. \A x \in Accounts : magnified(r, x) = magnified(l, x)
    BY <1>g DEF magnified
  <2>2. pool_magnified(r) = pool_magnified(l)
    BY <1>g DEF pool_magnified
  <2>3. magnified(l, a) >= MAGNITUDE * (l.claimed[a] + n)
    <3> DEFINE x == magnified(l, a)
               c == l.claimed[a] + n
    <3>1. x \in Int /\ c \in Int
      BY <1>0, <1>n, LedgerFields DEF magnified
    <3>2. c <= x \div MAGNITUDE
      <4>1. n <= x \div MAGNITUDE - l.claimed[a]
        BY DEF claimable_for_store
      <4>2. x \div MAGNITUDE \in Int /\ l.claimed[a] \in Nat
        BY <3>1, <1>n, MagnitudePositive, DivMod
      <4> HIDE DEF x
      <4> QED BY <4>1, <4>2
    <3> HIDE DEF x, c
    <3>3. MAGNITUDE * c <= x
      BY <3>1, <3>2, MagnitudePositive, DivBound
    <3> QED BY <3>1, <3>3, MagnitudePositive DEF x, c
  <2>4. \A x \in Accounts : magnified(l, x) >= MAGNITUDE * r.claimed[x]
    <3> SUFFICES ASSUME NEW x \in Accounts
                 PROVE  magnified(l, x) >= MAGNITUDE * r.claimed[x]
      OBVIOUS
    <3>1. CASE x = a
      BY <1>f, <1>n, <2>3, <3>1
    <3>2. CASE x # a
      <4>1. r.claimed[x] = l.claimed[x]
        BY <1>f, <1>n, <3>2
      <4> QED BY <4>1 DEF Sound, never_overpaid
    <3> QED BY <3>1, <3>2
  <2>5. pool_magnified(l) >= MAGNITUDE * l.pool_claimed
    BY DEF Sound, never_overpaid
  <2> QED BY <1>g, <2>1, <2>2, <2>4, <2>5 DEF never_overpaid
<1>8. accounting_backing(r)
  <2> DEFINE G == (l.total_shares * l.index + l.aggregate_correction) \div MAGNITUDE
  <2>1. /\ aggregate_liability(l) = G - (l.lifetime_materialized + l.lifetime_custody_routed)
        /\ aggregate_liability(r) = G - ((l.lifetime_materialized + n) + l.lifetime_custody_routed)
    BY <1>f, <1>g DEF aggregate_liability
  <2>2. G \in Int
    <3> DEFINE y == l.total_shares * l.index + l.aggregate_correction
    <3>1. y \in Int
      BY <1>0, LedgerFields
    <3>2. G = y \div MAGNITUDE
      OBVIOUS
    <3> HIDE DEF y, G
    <3> QED BY <3>1, <3>2, MagnitudePositive, DivMod
  <2>3. /\ l.reward_vault = aggregate_liability(l) + l.unallocated_fees + l.rounding_reserve
        /\ l.reward_vault = l.lifetime_fees - l.lifetime_materialized - l.lifetime_custody_routed
    BY DEF Sound, accounting_backing
  <2> HIDE DEF G
  <2>4. /\ l.reward_vault + -n = aggregate_liability(r) + l.unallocated_fees + l.rounding_reserve
        /\ l.reward_vault + -n = l.lifetime_fees - (l.lifetime_materialized + n) - l.lifetime_custody_routed
    BY <1>n, <2>1, <2>2, <2>3
  <2> QED BY <1>f, <1>g, <2>4 DEF accounting_backing
<1>9. held(r) = held(l) + -n
  <2>1. total(l.raw) \in Int
    BY <1>n, TotalType
  <2> QED BY <1>f, <1>g, <1>n, <2>1 DEF held
<1> QED BY <1>3, <1>4, <1>5, <1>6, <1>7, <1>8, <1>9, <1>f, <1>g DEF Sound, r

\* Two updates of a record are one.
LEMMA MergeWallet ==
  ASSUME NEW l \in Ledger, NEW R, NEW C, NEW A, NEW T
  PROVE  [[l EXCEPT !.raw = R] EXCEPT !.correction = C,
                                      !.aggregate_correction = A,
                                      !.total_shares = T]
           = [l EXCEPT !.raw = R, !.correction = C,
                       !.aggregate_correction = A, !.total_shares = T]
BY DEF Ledger

\* credit_wallet and debit_wallet are shifts of a wallet by n and by -n.
LEMMA WalletMovesAreShifts ==
  ASSUME NEW l \in Ledger, NEW a \in Accounts, NEW n \in Int
  PROVE  /\ credit_wallet(l, a, n) = Shift(l, a, n)
         /\ debit_wallet(l, a, n) = Shift(l, a, -n)
<1>1. /\ l.index \in Int /\ l.correction[a] \in Int /\ l.aggregate_correction \in Int
      /\ l.total_shares \in Int /\ n * l.index \in Int /\ (-n) * l.index \in Int
  BY LedgerFields
<1>2. /\ l.correction[a] - n * l.index = l.correction[a] + -(n * l.index)
      /\ l.aggregate_correction - n * l.index = l.aggregate_correction + -(n * l.index)
  BY <1>1
<1>3. /\ l.correction[a] + n * l.index = l.correction[a] + -((-n) * l.index)
      /\ l.aggregate_correction + n * l.index = l.aggregate_correction + -((-n) * l.index)
      /\ l.total_shares - n = l.total_shares + -n
  <2>1. -((-n) * l.index) = n * l.index
    BY <1>1
  <2> QED BY <1>1, <2>1
<1>5. credit_wallet(l, a, n) = Shift(l, a, n)
  <2> DEFINE m == wallet_store(l, a, n)
             R == [l.raw EXCEPT ![a] = l.raw[a] + n]
             C == [l.correction EXCEPT ![a] = l.correction[a] + -(n * l.index)]
             A == l.aggregate_correction + -(n * l.index)
             T == l.total_shares + n
  <2>1. credit_wallet(l, a, n) =
          [m EXCEPT !.correction = [m.correction EXCEPT ![a] = m.correction[a] - n * m.index],
                    !.aggregate_correction = m.aggregate_correction - n * m.index,
                    !.total_shares = m.total_shares + n]
    BY DEF credit_wallet, add_raw_shares
  <2>m. /\ m = [l EXCEPT !.raw = R] /\ m.correction = l.correction
        /\ m.index = l.index /\ m.aggregate_correction = l.aggregate_correction
        /\ m.total_shares = l.total_shares
    BY DEF wallet_store, Ledger
  <2>2. credit_wallet(l, a, n) =
          [[l EXCEPT !.raw = R] EXCEPT !.correction = C,
                    !.aggregate_correction = A, !.total_shares = T]
    <3> HIDE DEF m, R
    <3> QED BY <1>2, <2>m, <2>1
  <2>3. Shift(l, a, n) = [l EXCEPT !.raw = R, !.correction = C,
                             !.aggregate_correction = A, !.total_shares = T]
    BY DEF Shift
  <2> HIDE DEF R, C, A, T
  <2> QED BY <2>2, <2>3, MergeWallet
<1>6. debit_wallet(l, a, n) = Shift(l, a, -n)
  <2> DEFINE m == wallet_store(l, a, -n)
             R == [l.raw EXCEPT ![a] = l.raw[a] + -n]
             C == [l.correction EXCEPT ![a] = l.correction[a] + -((-n) * l.index)]
             A == l.aggregate_correction + -((-n) * l.index)
             T == l.total_shares + -n
  <2>1. debit_wallet(l, a, n) =
          [m EXCEPT !.correction = [m.correction EXCEPT ![a] = m.correction[a] + n * m.index],
                    !.aggregate_correction = m.aggregate_correction + n * m.index,
                    !.total_shares = m.total_shares - n]
    BY DEF debit_wallet, remove_raw_shares
  <2>m. /\ m = [l EXCEPT !.raw = R] /\ m.correction = l.correction
        /\ m.index = l.index /\ m.aggregate_correction = l.aggregate_correction
        /\ m.total_shares = l.total_shares
    BY DEF wallet_store, Ledger
  <2>2. debit_wallet(l, a, n) =
          [[l EXCEPT !.raw = R] EXCEPT !.correction = C,
                    !.aggregate_correction = A, !.total_shares = T]
    <3> HIDE DEF m, R
    <3> QED BY <1>3, <2>m, <2>1
  <2>3. Shift(l, a, -n) = [l EXCEPT !.raw = R, !.correction = C,
                             !.aggregate_correction = A, !.total_shares = T]
    BY DEF Shift
  <2> HIDE DEF R, C, A, T
  <2> QED BY <2>2, <2>3, MergeWallet
<1> QED BY <1>5, <1>6

\* credit_pool and debit_pool are shifts of the pool by n and by -n.
LEMMA PoolMovesAreShifts ==
  ASSUME NEW l \in Ledger, NEW n \in Int
  PROVE  /\ credit_pool(l, n) = PoolShift(l, n)
         /\ debit_pool(l, n) = PoolShift(l, -n)
<1>1. /\ l.index \in Int /\ l.pool_correction \in Int /\ l.aggregate_correction \in Int
      /\ l.total_shares \in Int /\ l.custody_shares \in Int
      /\ n * l.index \in Int /\ (-n) * l.index \in Int
  BY LedgerFields
<1>2. /\ l.pool_correction - n * l.index = l.pool_correction + -(n * l.index)
      /\ l.aggregate_correction - n * l.index = l.aggregate_correction + -(n * l.index)
  BY <1>1
<1>3. /\ l.pool_correction + n * l.index = l.pool_correction + -((-n) * l.index)
      /\ l.aggregate_correction + n * l.index = l.aggregate_correction + -((-n) * l.index)
      /\ l.total_shares - n = l.total_shares + -n
      /\ l.custody_shares - n = l.custody_shares + -n
  <2>1. -((-n) * l.index) = n * l.index
    BY <1>1
  <2> QED BY <1>1, <2>1
<1>4. ASSUME NEW P, NEW C, NEW D, NEW A, NEW T
      PROVE  /\ [[l EXCEPT !.pool_store = P] EXCEPT !.pool_correction = C,
                    !.aggregate_correction = A, !.custody_shares = D, !.total_shares = T]
                  = [l EXCEPT !.pool_store = P, !.custody_shares = D,
                       !.pool_correction = C, !.aggregate_correction = A, !.total_shares = T]
             /\ [[l EXCEPT !.pool_correction = C, !.aggregate_correction = A,
                    !.custody_shares = D, !.total_shares = T] EXCEPT !.pool_store = P]
                  = [l EXCEPT !.pool_store = P, !.custody_shares = D,
                       !.pool_correction = C, !.aggregate_correction = A, !.total_shares = T]
  BY DEF Ledger
<1>5. credit_pool(l, n) = PoolShift(l, n)
  <2> DEFINE m == reserve_store(l, n)
             P == l.pool_store + n
             D == l.custody_shares + n
             C == l.pool_correction + -(n * l.index)
             A == l.aggregate_correction + -(n * l.index)
             T == l.total_shares + n
  <2>1. credit_pool(l, n) =
          [m EXCEPT !.pool_correction = m.pool_correction - n * m.index,
                    !.aggregate_correction = m.aggregate_correction - n * m.index,
                    !.custody_shares = m.custody_shares + n,
                    !.total_shares = m.total_shares + n]
    BY DEF credit_pool, add_custody_shares
  <2>2. /\ m = [l EXCEPT !.pool_store = P] /\ m.pool_correction = l.pool_correction
        /\ m.index = l.index /\ m.aggregate_correction = l.aggregate_correction
        /\ m.custody_shares = l.custody_shares /\ m.total_shares = l.total_shares
    BY DEF reserve_store, Ledger
  <2>3. credit_pool(l, n) =
          [[l EXCEPT !.pool_store = P] EXCEPT !.pool_correction = C,
              !.aggregate_correction = A, !.custody_shares = D, !.total_shares = T]
    BY <1>2, <2>1, <2>2
  <2>4. PoolShift(l, n) = [l EXCEPT !.pool_store = P, !.custody_shares = D,
              !.pool_correction = C, !.aggregate_correction = A, !.total_shares = T]
    BY DEF PoolShift
  <2> HIDE DEF P, D, C, A, T
  <2> QED BY <2>3, <2>4, <1>4
<1>6. debit_pool(l, n) = PoolShift(l, -n)
  <2> DEFINE m == remove_custody_shares(l, n)
             P == l.pool_store + -n
             D == l.custody_shares + -n
             C == l.pool_correction + -((-n) * l.index)
             A == l.aggregate_correction + -((-n) * l.index)
             T == l.total_shares + -n
  <2>1. m = [l EXCEPT !.pool_correction = C, !.aggregate_correction = A,
                      !.custody_shares = D, !.total_shares = T]
    BY <1>3 DEF remove_custody_shares
  <2>2. m.pool_store = l.pool_store
    BY DEF remove_custody_shares, Ledger
  <2>3. debit_pool(l, n) = [m EXCEPT !.pool_store = m.pool_store + -n]
    BY DEF debit_pool, reserve_store
  <2>4. debit_pool(l, n) =
          [[l EXCEPT !.pool_correction = C, !.aggregate_correction = A,
              !.custody_shares = D, !.total_shares = T] EXCEPT !.pool_store = P]
    BY <2>1, <2>2, <2>3
  <2>5. PoolShift(l, -n) = [l EXCEPT !.pool_store = P, !.custody_shares = D,
              !.pool_correction = C, !.aggregate_correction = A, !.total_shares = T]
    BY DEF PoolShift
  <2> HIDE DEF P, D, C, A, T, m
  <2> QED BY <2>4, <2>5, <1>4
<1> QED BY <1>5, <1>6

\* Materializing is a payment out of the vault and a shift of the wallet.
LEMMA MaterializeIsShift ==
  ASSUME NEW l \in Ledger, NEW a \in Accounts, NEW n \in Int
  PROVE  materialize_to_store(l, a, n) = Shift(Paid(l, a, n), a, n)
<1> DEFINE Q == [l.claimed EXCEPT ![a] = l.claimed[a] + n]
           L == l.lifetime_materialized + n
           V == l.reward_vault + -n
           R == [l.raw EXCEPT ![a] = l.raw[a] + n]
           C == [l.correction EXCEPT ![a] = l.correction[a] + -(n * l.index)]
           A == l.aggregate_correction + -(n * l.index)
           T == l.total_shares + n
           b == [l EXCEPT !.claimed = Q, !.correction = C, !.aggregate_correction = A,
                          !.total_shares = T, !.lifetime_materialized = L]
           p == Paid(l, a, n)
<1>1. /\ l.correction[a] - n * l.index = l.correction[a] + -(n * l.index)
      /\ l.aggregate_correction - n * l.index = l.aggregate_correction + -(n * l.index)
  <2>1. l.correction[a] \in Int /\ l.aggregate_correction \in Int /\ n * l.index \in Int
    BY LedgerFields
  <2> QED BY <2>1
<1>2. materialize_to_store(l, a, n) = wallet_store(reward_store(b, -n), a, n)
  BY <1>1 DEF materialize_to_store
<1>3. b.reward_vault = l.reward_vault
  BY DEF Ledger
<1>4. reward_store(b, -n) = [b EXCEPT !.reward_vault = V]
  <2> HIDE DEF b
  <2> QED BY <1>3 DEF reward_store
<1>5. [b EXCEPT !.reward_vault = V].raw = l.raw
  <2> HIDE DEF Q, L, V, C, A, T
  <2> QED BY DEF Ledger
<1>6. materialize_to_store(l, a, n) =
        [[b EXCEPT !.reward_vault = V] EXCEPT !.raw = R]
  <2> HIDE DEF b, V
  <2> QED BY <1>2, <1>4, <1>5 DEF wallet_store
<1>7. p = [l EXCEPT !.claimed = Q, !.lifetime_materialized = L, !.reward_vault = V]
  BY DEF Paid
<1>8. /\ p.raw = l.raw /\ p.correction = l.correction /\ p.index = l.index
      /\ p.aggregate_correction = l.aggregate_correction
      /\ p.total_shares = l.total_shares
  BY DEF Paid, Ledger
<1>9. Shift(p, a, n) = [p EXCEPT !.raw = R, !.correction = C,
                           !.aggregate_correction = A, !.total_shares = T]
  <2> HIDE DEF p
  <2> QED BY <1>8 DEF Shift
<1> HIDE DEF Q, L, V, R, C, A, T, p
<1>10. [[b EXCEPT !.reward_vault = V] EXCEPT !.raw = R] =
         [[l EXCEPT !.claimed = Q, !.lifetime_materialized = L, !.reward_vault = V]
            EXCEPT !.raw = R, !.correction = C, !.aggregate_correction = A, !.total_shares = T]
  BY DEF Ledger
<1> QED BY <1>6, <1>7, <1>9, <1>10 DEF p

\* The units a sound ledger holds are a natural number, at least its weight.
LEMMA HeldType ==
  ASSUME NEW l, Sound(l)
  PROVE  /\ held(l) \in Nat
         /\ l.total_shares <= held(l)
<1>1. /\ l.raw \in [Accounts -> Nat] /\ l.reward_vault \in Nat
      /\ l.distribution_vault \in Nat /\ l.pool_store \in Nat
      /\ l.lp_vault \in Nat /\ l.custody_shares = l.pool_store
      /\ l.total_shares = total(l.raw) + l.custody_shares
  BY LedgerFields DEF Sound, shares_match
<1>2. total(l.raw) \in Nat
  BY <1>1, TotalNat
<1> QED BY <1>1, <1>2 DEF held

-----------------------------------------------------------------------------
(* What a movement leaves alone *)

SameWalletsBut(l, r, a) ==
  \A x \in Accounts : x # a => /\ r.raw[x] = l.raw[x]
                               /\ r.correction[x] = l.correction[x]
                               /\ r.claimed[x] = l.claimed[x]

SameWallets(l, r) ==
  r.raw = l.raw /\ r.correction = l.correction /\ r.claimed = l.claimed

SamePool(l, r) ==
  /\ r.custody_shares = l.custody_shares /\ r.pool_store = l.pool_store
  /\ r.pool_correction = l.pool_correction /\ r.pool_claimed = l.pool_claimed

SameVaults(l, r) ==
  r.distribution_vault = l.distribution_vault /\ r.lp_vault = l.lp_vault

SameIndex(l, r) ==
  r.index = l.index /\ r.fee_bps = l.fee_bps

\* What every position has accrued so far.
SameEarnings(l, r) ==
  /\ \A x \in Accounts : magnified(r, x) = magnified(l, x)
  /\ pool_magnified(r) = pool_magnified(l)

\* The reserve grows by n units and no reward of it is routed or paid out.
ReserveMoves(l, r, n) ==
  /\ r.pool_store = l.pool_store + n
  /\ r.pool_claimed = l.pool_claimed /\ r.lp_vault = l.lp_vault

\* What credit_wallet changes and keeps.
LEMMA CreditWallet ==
  ASSUME NEW l, Sound(l), NEW a \in Accounts, NEW n \in Nat
  PROVE  LET r == credit_wallet(l, a, n) IN
         /\ Sound(r) /\ held(r) = held(l) + n
         /\ r.raw[a] = l.raw[a] + n
         /\ SameWalletsBut(l, r, a) /\ SamePool(l, r) /\ SameVaults(l, r)
         /\ SameIndex(l, r) /\ SameEarnings(l, r)
<1> DEFINE r == Shift(l, a, n)
<1>0. l \in Ledger /\ n \in Int /\ l.raw[a] \in Nat
  BY LedgerFields DEF Sound
<1>1. credit_wallet(l, a, n) = r
  BY <1>0, WalletMovesAreShifts
<1>2. Sound(r) /\ held(r) = held(l) + n /\ SameEarnings(l, r)
  BY <1>0, ShiftSound DEF SameEarnings
<1>3. /\ r.raw[a] = l.raw[a] + n /\ SameWalletsBut(l, r, a)
      /\ SamePool(l, r) /\ SameVaults(l, r) /\ SameIndex(l, r)
  BY <1>0 DEF Shift, Ledger, SameWalletsBut, SamePool, SameVaults, SameIndex
<1> HIDE DEF r
<1> QED BY <1>1, <1>2, <1>3

\* What debit_wallet changes and keeps, of a wallet that has the units.
LEMMA DebitWallet ==
  ASSUME NEW l, Sound(l), NEW a \in Accounts, NEW n \in Nat, n <= l.raw[a]
  PROVE  LET r == debit_wallet(l, a, n) IN
         /\ Sound(r) /\ held(r) = held(l) - n
         /\ r.raw[a] = l.raw[a] - n
         /\ SameWalletsBut(l, r, a) /\ SamePool(l, r) /\ SameVaults(l, r)
         /\ SameIndex(l, r) /\ SameEarnings(l, r)
<1> DEFINE r == Shift(l, a, -n)
<1>0. l \in Ledger /\ n \in Int /\ -n \in Int /\ l.raw[a] \in Nat
  BY LedgerFields DEF Sound
<1>1. debit_wallet(l, a, n) = r
  BY <1>0, WalletMovesAreShifts
<1>2. Sound(r) /\ held(r) = held(l) + -n /\ SameEarnings(l, r)
  <2>1. l.raw[a] + -n >= 0
    BY <1>0
  <2> QED BY <1>0, <2>1, ShiftSound DEF SameEarnings
<1>3. /\ r.raw[a] = l.raw[a] + -n /\ SameWalletsBut(l, r, a)
      /\ SamePool(l, r) /\ SameVaults(l, r) /\ SameIndex(l, r)
  BY <1>0 DEF Shift, Ledger, SameWalletsBut, SamePool, SameVaults, SameIndex
<1>4. held(l) \in Int
  BY HeldType
<1> HIDE DEF r
<1> QED BY <1>0, <1>1, <1>2, <1>3, <1>4

\* What credit_pool changes and keeps.
LEMMA CreditPool ==
  ASSUME NEW l, Sound(l), NEW n \in Nat
  PROVE  LET r == credit_pool(l, n) IN
         /\ Sound(r) /\ held(r) = held(l) + n
         /\ SameWallets(l, r) /\ SameVaults(l, r) /\ SameIndex(l, r)
         /\ SameEarnings(l, r) /\ r.custody_shares = l.custody_shares + n
         /\ ReserveMoves(l, r, n)
<1> DEFINE r == PoolShift(l, n)
<1>0. l \in Ledger /\ n \in Int /\ l.custody_shares \in Nat
  BY LedgerFields DEF Sound
<1>1. credit_pool(l, n) = r
  BY <1>0, PoolMovesAreShifts
<1>2. Sound(r) /\ held(r) = held(l) + n /\ SameEarnings(l, r)
  BY <1>0, PoolShiftSound DEF SameEarnings
<1>3. /\ SameWallets(l, r) /\ SameVaults(l, r) /\ SameIndex(l, r)
      /\ r.custody_shares = l.custody_shares + n /\ ReserveMoves(l, r, n)
  BY <1>0 DEF PoolShift, Ledger, SameWallets, SameVaults, SameIndex, ReserveMoves
<1> HIDE DEF r
<1> QED BY <1>1, <1>2, <1>3

\* What debit_pool changes and keeps, of a pool that has the units.
LEMMA DebitPool ==
  ASSUME NEW l, Sound(l), NEW n \in Nat, n <= l.custody_shares
  PROVE  LET r == debit_pool(l, n) IN
         /\ Sound(r) /\ held(r) = held(l) - n
         /\ SameWallets(l, r) /\ SameVaults(l, r) /\ SameIndex(l, r)
         /\ SameEarnings(l, r) /\ r.custody_shares = l.custody_shares - n
         /\ ReserveMoves(l, r, -n)
<1> DEFINE r == PoolShift(l, -n)
<1>0. l \in Ledger /\ n \in Int /\ -n \in Int /\ l.custody_shares \in Nat
  BY LedgerFields DEF Sound
<1>1. debit_pool(l, n) = r
  BY <1>0, PoolMovesAreShifts
<1>2. Sound(r) /\ held(r) = held(l) + -n /\ SameEarnings(l, r)
  <2>1. l.custody_shares + -n >= 0
    BY <1>0
  <2> QED BY <1>0, <2>1, PoolShiftSound DEF SameEarnings
<1>3. /\ SameWallets(l, r) /\ SameVaults(l, r) /\ SameIndex(l, r)
      /\ r.custody_shares = l.custody_shares + -n /\ ReserveMoves(l, r, -n)
  BY <1>0 DEF PoolShift, Ledger, SameWallets, SameVaults, SameIndex, ReserveMoves
<1>4. held(l) \in Int
  BY HeldType
<1> HIDE DEF r
<1> QED BY <1>0, <1>1, <1>2, <1>3, <1>4

\* Collecting part of a pending reward.
LEMMA Materialize ==
  ASSUME NEW l, Sound(l), NEW a \in Accounts, NEW n \in Nat,
         n <= claimable_for_store(l, a)
  PROVE  LET r == materialize_to_store(l, a, n) IN
         /\ Sound(r) /\ held(r) = held(l)
         /\ r.raw[a] = l.raw[a] + n /\ r.claimed[a] = l.claimed[a] + n
         /\ SameWalletsBut(l, r, a) /\ SamePool(l, r) /\ SameVaults(l, r)
         /\ SameIndex(l, r) /\ SameEarnings(l, r)
<1> DEFINE p == Paid(l, a, n)
           r == Shift(p, a, n)
<1>0. l \in Ledger /\ n \in Int /\ l.raw[a] \in Nat
  BY LedgerFields DEF Sound
<1>1. materialize_to_store(l, a, n) = r
  BY <1>0, MaterializeIsShift
<1>2. /\ Sound(p) /\ held(p) = held(l) + -n /\ p.raw = l.raw
      /\ p.claimed[a] = l.claimed[a] + n /\ SameEarnings(l, p)
  <2>1. /\ Sound(p) /\ held(p) = held(l) + -n /\ p.raw = l.raw
        /\ p.index = l.index /\ p.correction = l.correction
        /\ p.custody_shares = l.custody_shares
        /\ p.pool_correction = l.pool_correction
    BY PaidSound, ZenonT(60)
  <2>2. p.claimed[a] = l.claimed[a] + n
    BY <1>0 DEF Paid, Ledger
  <2> HIDE DEF p
  <2> QED BY <2>1, <2>2 DEF SameEarnings, magnified, pool_magnified
<1>3. /\ SameWalletsBut(l, p, a)
      /\ SamePool(l, p) /\ SameVaults(l, p) /\ SameIndex(l, p)
  BY <1>0 DEF Paid, Ledger, SameWalletsBut, SamePool, SameVaults, SameIndex
<1>4. held(l) \in Int
  BY HeldType
<1> HIDE DEF p
<1>5. p \in Ledger /\ p.raw[a] \in Nat
  BY <1>2, LedgerFields DEF Sound
<1>6. Sound(r) /\ held(r) = held(p) + n /\ SameEarnings(p, r)
  BY <1>0, <1>2, <1>5, ShiftSound DEF SameEarnings
<1>7. /\ r.raw[a] = p.raw[a] + n /\ r.claimed = p.claimed /\ SameWalletsBut(p, r, a)
      /\ SamePool(p, r) /\ SameVaults(p, r) /\ SameIndex(p, r)
  BY <1>0, <1>5 DEF Shift, Ledger, SameWalletsBut, SamePool, SameVaults, SameIndex
<1>8. held(r) = held(l)
  BY <1>0, <1>2, <1>4, <1>6
<1> HIDE DEF r
<1>9. /\ SameWalletsBut(l, r, a) /\ SamePool(l, r) /\ SameVaults(l, r)
      /\ SameIndex(l, r) /\ SameEarnings(l, r)
  BY <1>2, <1>3, <1>6, <1>7 DEF SameEarnings, SameWalletsBut, SamePool, SameVaults, SameIndex
<1> QED BY <1>1, <1>2, <1>6, <1>7, <1>8, <1>9

\* What materialize_all_to_store changes and keeps: the balance and the
\* pending reward of a become its balance.
LEMMA MaterializeAll ==
  ASSUME NEW l, Sound(l), NEW a \in Accounts
  PROVE  LET r == materialize_all_to_store(l, a) IN
         /\ Sound(r) /\ held(r) = held(l)
         /\ r.raw[a] = derived_balance(l, a)
         /\ SameWalletsBut(l, r, a) /\ SamePool(l, r) /\ SameVaults(l, r)
         /\ SameIndex(l, r) /\ SameEarnings(l, r)
<1> DEFINE n == claimable_for_store(l, a)
<1>1. n \in Nat /\ n <= claimable_for_store(l, a)
  BY SoundIsSolvent
<1> HIDE DEF n
<1> DEFINE r == materialize_to_store(l, a, n)
<1>2. /\ Sound(r) /\ held(r) = held(l) /\ r.raw[a] = l.raw[a] + n
      /\ SameWalletsBut(l, r, a) /\ SamePool(l, r) /\ SameVaults(l, r)
      /\ SameIndex(l, r) /\ SameEarnings(l, r)
  BY <1>1, Materialize
<1> HIDE DEF r
<1>3. materialize_all_to_store(l, a) = r /\ derived_balance(l, a) = l.raw[a] + n
  BY DEF materialize_all_to_store, derived_balance, n, r
<1> QED BY <1>2, <1>3

-----------------------------------------------------------------------------
(* A fee arrives *)

\* The index moves by g and the remainder becomes m.
Advanced(l, fee, g, m, u, c) ==
  [l EXCEPT !.reward_vault = l.reward_vault + fee,
            !.lifetime_fees = l.lifetime_fees + fee,
            !.index = l.index + g,
            !.index_remainder = m,
            !.unallocated_fees = l.unallocated_fees + u,
            !.rounding_reserve = c]

\* A fee is sound when the part u set aside and the index step g, m account
\* for all of it and the rounding reserve c is what is left over.
LEMMA AdvancedSound ==
  ASSUME NEW l, Sound(l), NEW fee \in Nat, NEW g \in Nat, NEW m \in Nat,
         NEW u \in Nat, NEW c \in Int,
         l.total_shares * g + m = MAGNITUDE * (fee - u) + l.index_remainder,
         m < MAGNITUDE,
         c = (l.reward_vault + fee)
               - (((l.total_shares * (l.index + g) + l.aggregate_correction) \div MAGNITUDE
                     - (l.lifetime_materialized + l.lifetime_custody_routed))
                  + (l.unallocated_fees + u))
  PROVE  LET r == Advanced(l, fee, g, m, u, c) IN
         /\ Sound(r) /\ held(r) = held(l) + fee
         /\ SameWallets(l, r) /\ SamePool(l, r) /\ SameVaults(l, r)
         /\ r.index = l.index + g
<1> DEFINE r == Advanced(l, fee, g, m, u, c)
           M == MAGNITUDE
           S == l.total_shares
           X == S * (l.index + g) + l.aggregate_correction
           K == (l.lifetime_fees + fee) - (l.unallocated_fees + u)
<1>m. M \in Nat /\ M > 0
  BY MagnitudePositive
<1>0. l \in Ledger
  BY DEF Sound
<1>n. /\ l.reward_vault \in Nat /\ l.lifetime_fees \in Nat /\ l.index \in Nat
      /\ l.unallocated_fees \in Nat /\ l.lifetime_materialized \in Nat
      /\ l.lifetime_custody_routed \in Nat /\ l.index_remainder \in Nat
      /\ l.distribution_vault \in Nat /\ l.pool_store \in Nat /\ l.lp_vault \in Nat
      /\ l.aggregate_correction \in Int /\ S \in Nat
      /\ l.raw \in [Accounts -> Nat] /\ l.raw \in [Accounts -> Int]
      /\ l.claimed \in [Accounts -> Nat] /\ l.correction \in [Accounts -> Int]
      /\ l.custody_shares \in Nat /\ l.pool_claimed \in Nat /\ l.pool_correction \in Int
  BY <1>0, LedgerFields
<1>f. /\ r.reward_vault = l.reward_vault + fee
      /\ r.lifetime_fees = l.lifetime_fees + fee
      /\ r.index = l.index + g /\ r.index_remainder = m
      /\ r.unallocated_fees = l.unallocated_fees + u
      /\ r.rounding_reserve = c
  BY <1>0 DEF Advanced, Ledger
<1>g. /\ r.raw = l.raw /\ r.correction = l.correction /\ r.claimed = l.claimed
      /\ r.total_shares = l.total_shares
      /\ r.aggregate_correction = l.aggregate_correction
      /\ r.lifetime_materialized = l.lifetime_materialized
      /\ r.lifetime_custody_routed = l.lifetime_custody_routed
      /\ r.custody_shares = l.custody_shares /\ r.pool_store = l.pool_store
      /\ r.pool_correction = l.pool_correction /\ r.pool_claimed = l.pool_claimed
      /\ r.distribution_vault = l.distribution_vault /\ r.lp_vault = l.lp_vault
  BY <1>0 DEF Advanced, Ledger
<1>1. X + m = M * K
  <2>1. S * l.index + l.aggregate_correction + l.index_remainder
          = M * (l.lifetime_fees - l.unallocated_fees)
    BY DEF Sound, dust_conserved
  <2>2. S * (l.index + g) = S * l.index + S * g
    BY <1>n
  <2>3. M * K = M * (l.lifetime_fees - l.unallocated_fees) + M * (fee - u)
    BY <1>n, <1>m
  <2>4. /\ S * l.index \in Int /\ S * g \in Int /\ M * (fee - u) \in Int
        /\ M * (l.lifetime_fees - l.unallocated_fees) \in Int
    BY <1>n, <1>m
  <2>5. S * g + m = M * (fee - u) + l.index_remainder
    OBVIOUS
  <2> DEFINE p1 == S * l.index
             p2 == S * g
             p3 == M * (fee - u)
             p4 == M * (l.lifetime_fees - l.unallocated_fees)
             ac == l.aggregate_correction
             re == l.index_remainder
  <2>6. p1 \in Int /\ p2 \in Int /\ p3 \in Int /\ p4 \in Int /\ ac \in Int /\ re \in Int
    BY <2>4, <1>n
  <2>7. p1 + ac + re = p4 /\ p2 + m = p3 + re
    BY <2>1, <2>5
  <2>8. X = (p1 + p2) + ac /\ M * K = p4 + p3
    BY <2>2, <2>3
  <2> HIDE DEF S, M, K, X, p1, p2, p3, p4, ac, re
  <2>9. (p1 + p2) + ac + m = p4 + p3
    BY <2>6, <2>7
  <2> QED BY <2>8, <2>9
<1>2. X \in Int /\ K \in Int
  BY <1>n
<1>3. X \div M \in Int /\ X \div M <= K
  <2> HIDE DEF X, K, M
  <2>1. M * (X \div M) <= X /\ X \div M \in Int
    BY <1>2, <1>m, DivMod
  <2>2. M * (X \div M) \in Int /\ M * K \in Int
    BY <1>2, <1>m, <2>1
  <2>3. M * (X \div M) <= M * K
    BY <1>1, <1>2, <2>1, <2>2
  <2> QED BY <1>2, <1>m, <2>1, <2>3, CancelLeq
<1>4. l.reward_vault = l.lifetime_fees - l.lifetime_materialized
                         - l.lifetime_custody_routed
  BY DEF Sound, accounting_backing
<1>5. c \in Nat
  <2>1. c = (l.reward_vault + fee)
              - ((X \div M - (l.lifetime_materialized + l.lifetime_custody_routed))
                  + (l.unallocated_fees + u))
    OBVIOUS
  <2>2. K = (l.lifetime_fees + fee) - (l.unallocated_fees + u)
    OBVIOUS
  <2> HIDE DEF X, K, M
  <2> QED BY <2>1, <2>2, <1>2, <1>3, <1>4, <1>n
<1>6. r \in Ledger
  <2>1. /\ l.reward_vault + fee \in Nat /\ l.lifetime_fees + fee \in Nat
        /\ l.index + g \in Nat /\ l.unallocated_fees + u \in Nat
    BY <1>n
  <2> QED BY <1>0, <1>5, <2>1 DEF Ledger, Advanced
<1>7. aggregate_liability(r) = X \div M
                - (l.lifetime_materialized + l.lifetime_custody_routed)
  BY <1>f, <1>g DEF aggregate_liability
<1> HIDE DEF r
<1>8. shares_match(r)
  BY <1>g DEF Sound, shares_match
<1>9. aggregates_match(r)
  BY <1>g DEF Sound, aggregates_match
<1>10. dust_conserved(r)
  <2>1. r.total_shares * r.index + r.aggregate_correction = X
    BY <1>f, <1>g
  <2>2. r.lifetime_fees - r.unallocated_fees = K
    BY <1>f
  <2> HIDE DEF X, K
  <2> QED BY <1>1, <1>f, <2>1, <2>2 DEF dust_conserved
<1>11. never_overpaid(r)
  <2>1. ASSUME NEW x \in Accounts
        PROVE  magnified(r, x) >= MAGNITUDE * r.claimed[x]
    <3>1. magnified(l, x) >= MAGNITUDE * l.claimed[x]
      BY DEF Sound, never_overpaid
    <3>2. magnified(r, x) = magnified(l, x) + l.raw[x] * g
      <4>1. /\ l.raw[x] \in Nat /\ l.correction[x] \in Int
            /\ l.raw[x] * l.index \in Int /\ l.raw[x] * g \in Int
        BY <1>n
      <4>2. l.raw[x] * (l.index + g) = l.raw[x] * l.index + l.raw[x] * g
        BY <1>n, <4>1
      <4> QED BY <1>f, <1>g, <4>1, <4>2 DEF magnified
    <3>3. l.raw[x] * g \in Nat /\ magnified(l, x) \in Int
          /\ MAGNITUDE * l.claimed[x] \in Int
      BY <1>n, <1>m DEF magnified
    <3> QED BY <1>g, <3>1, <3>2, <3>3
  <2>2. pool_magnified(r) >= MAGNITUDE * r.pool_claimed
    <3>1. pool_magnified(l) >= MAGNITUDE * l.pool_claimed
      BY DEF Sound, never_overpaid
    <3>2. pool_magnified(r) = pool_magnified(l) + l.custody_shares * g
      <4>1. l.custody_shares * l.index \in Int /\ l.custody_shares * g \in Int
        BY <1>n
      <4>2. l.custody_shares * (l.index + g)
              = l.custody_shares * l.index + l.custody_shares * g
        BY <1>n
      <4> QED BY <1>f, <1>g, <1>n, <4>1, <4>2 DEF pool_magnified
    <3>3. l.custody_shares * g \in Nat /\ pool_magnified(l) \in Int
          /\ MAGNITUDE * l.pool_claimed \in Int
      BY <1>n, <1>m DEF pool_magnified
    <3> QED BY <1>g, <3>1, <3>2, <3>3
  <2> QED BY <2>1, <2>2 DEF never_overpaid
<1>12. accounting_backing(r)
  <2>1. c = (l.reward_vault + fee)
              - (aggregate_liability(r) + (l.unallocated_fees + u))
    BY <1>7
  <2>2. aggregate_liability(r) \in Int
    <3> HIDE DEF X, M
    <3> QED BY <1>3, <1>7, <1>n
  <2>3. r.reward_vault = aggregate_liability(r) + r.unallocated_fees + r.rounding_reserve
    BY <1>f, <1>n, <2>1, <2>2
  <2>4. r.reward_vault = r.lifetime_fees - r.lifetime_materialized
                           - r.lifetime_custody_routed
    BY <1>f, <1>g, <1>n, <1>4
  <2> QED BY <2>3, <2>4 DEF accounting_backing
<1>13. held(r) = held(l) + fee
  <2>1. total(l.raw) \in Int
    BY <1>n, TotalType
  <2> QED BY <1>f, <1>g, <1>n, <2>1 DEF held
<1>14. SameWallets(l, r) /\ SamePool(l, r) /\ SameVaults(l, r)
  BY <1>g DEF SameWallets, SamePool, SameVaults
<1>15. Sound(r)
  BY <1>6, <1>8, <1>9, <1>10, <1>11, <1>12 DEF Sound
<1> QED BY <1>13, <1>14, <1>15, <1>f DEF r

\* The one unbounded division, when there are holders, and the detour of the
\* fee to unallocated_fees when there are none.
LEMMA CollectFee ==
  ASSUME NEW l, Sound(l), NEW fee \in Nat, l.total_shares <= MAGNITUDE
  PROVE  LET r == collect_fee(l, fee) IN
         /\ Sound(r) /\ held(r) = held(l) + fee
         /\ SameWallets(l, r) /\ SamePool(l, r) /\ SameVaults(l, r)
         /\ r.index >= l.index
<1>0. l \in Ledger
  BY DEF Sound
<1>n. /\ l.total_shares \in Nat /\ l.index \in Nat /\ l.index_remainder \in Nat
      /\ l.unallocated_fees \in Nat /\ l.reward_vault \in Nat
      /\ l.aggregate_correction \in Int /\ l.lifetime_materialized \in Nat
      /\ l.lifetime_custody_routed \in Nat
  BY <1>0, LedgerFields
<1>m. MAGNITUDE \in Nat /\ MAGNITUDE > 0
  BY MagnitudePositive
<1>1. CASE fee = 0
  <2>1. collect_fee(l, fee) = l
    BY <1>1 DEF collect_fee
  <2>2. held(l) \in Nat
    BY HeldType
  <2> QED BY <1>1, <1>n, <2>1, <2>2 DEF SameWallets, SamePool, SameVaults
<1>2. CASE fee > 0
  <2> DEFINE v == reward_store(l, fee)
             b == [v EXCEPT !.lifetime_fees = v.lifetime_fees + fee]
             R == l.reward_vault + fee
             F == l.lifetime_fees + fee
  <2>1. collect_fee(l, fee) = advance_index(v, fee)
    BY <1>2 DEF collect_fee
  <2>2. /\ b = [l EXCEPT !.reward_vault = R, !.lifetime_fees = F]
        /\ v.total_shares = l.total_shares /\ v.index_remainder = l.index_remainder
    BY <1>0 DEF reward_store, Ledger
  <2>3. /\ b.index = l.index /\ b.unallocated_fees = l.unallocated_fees
        /\ b.index_remainder = l.index_remainder
    BY <1>0 DEF reward_store, Ledger
  <2>4. CASE l.total_shares = 0
    <3> DEFINE U == l.unallocated_fees + fee
               n == [b EXCEPT !.unallocated_fees = U]
               c == n.reward_vault - (aggregate_liability(n) + n.unallocated_fees)
               g == 0
               m == l.index_remainder
    <3>1. advance_index(v, fee) = [n EXCEPT !.rounding_reserve = c]
      BY <2>2, <2>3, <2>4 DEF advance_index, recompute_rounding_reserve
    <3>2. /\ n.reward_vault = R /\ n.unallocated_fees = U
          /\ n.total_shares = l.total_shares /\ n.index = l.index
          /\ n.aggregate_correction = l.aggregate_correction
          /\ n.lifetime_materialized = l.lifetime_materialized
          /\ n.lifetime_custody_routed = l.lifetime_custody_routed
      BY <1>0, <2>2 DEF Ledger
    <3>3. l.index + g = l.index
      BY <1>n
    <3>4. c = R - (((l.total_shares * (l.index + g) + l.aggregate_correction) \div MAGNITUDE
                     - (l.lifetime_materialized + l.lifetime_custody_routed)) + U)
      BY <3>2, <3>3 DEF aggregate_liability
    <3>5. (l.total_shares * (l.index + g) + l.aggregate_correction) \div MAGNITUDE \in Int
      BY <1>n, <1>m, DivMod
    <3>6. c \in Int
      BY <3>4, <3>5, <1>n
    <3>7. l.total_shares * g + m = MAGNITUDE * (fee - fee) + l.index_remainder
      BY <1>n, <1>m
    <3>8. m \in Nat /\ m < MAGNITUDE
      BY <1>n DEF Sound, dust_conserved
    <3>9. [n EXCEPT !.rounding_reserve = c] = Advanced(l, fee, g, m, fee, c)
      <4>1. Advanced(l, fee, g, m, fee, c)
              = [l EXCEPT !.reward_vault = R, !.lifetime_fees = F, !.index = l.index,
                          !.index_remainder = l.index_remainder,
                          !.unallocated_fees = U, !.rounding_reserve = c]
        <5> HIDE DEF c
        <5> QED BY <3>3 DEF Advanced
      <4>2. n = [[l EXCEPT !.reward_vault = R, !.lifetime_fees = F]
                   EXCEPT !.unallocated_fees = U]
        BY <2>2
      <4> HIDE DEF n, c, R, F, U
      <4> QED BY <1>0, <4>1, <4>2 DEF Ledger
    <3>10. g \in Nat
      OBVIOUS
    <3> HIDE DEF c, m, n, g
    <3>11. LET r == Advanced(l, fee, g, m, fee, c) IN
           /\ Sound(r) /\ held(r) = held(l) + fee
           /\ SameWallets(l, r) /\ SamePool(l, r) /\ SameVaults(l, r)
           /\ r.index = l.index + g
      BY <3>4, <3>6, <3>7, <3>8, <3>10, AdvancedSound
    <3>12. l.index + g >= l.index
      BY <1>n, <3>10
    <3> QED BY <2>1, <3>1, <3>9, <3>11, <3>12
  <2>5. CASE l.total_shares > 0
    <3> DEFINE num == fee * MAGNITUDE + l.index_remainder
               g == num \div l.total_shares
               m == num % l.total_shares
               n == [b EXCEPT !.index = l.index + g, !.index_remainder = m]
               c == n.reward_vault - (aggregate_liability(n) + n.unallocated_fees)
    <3>1. advance_index(v, fee) = [n EXCEPT !.rounding_reserve = c]
      <4>1. ~(v.total_shares = 0)
        BY <2>2, <2>5, <1>n
      <4>2. advance_index(v, fee) = recompute_rounding_reserve(
               [b EXCEPT !.index = b.index + (fee * MAGNITUDE + v.index_remainder)
                                               \div v.total_shares,
                         !.index_remainder = (fee * MAGNITUDE + v.index_remainder)
                                               % v.total_shares])
        <5> HIDE DEF v
        <5> QED BY <4>1 DEF advance_index
      <4>3. advance_index(v, fee) = recompute_rounding_reserve(n)
        <5> HIDE DEF v, b
        <5> QED BY <4>2, <2>2, <2>3
      <4> HIDE DEF n
      <4> QED BY <4>3 DEF recompute_rounding_reserve
    <3>n. num \in Nat
      BY <1>n, <1>m
    <3>d. /\ g \in Nat /\ m \in Nat /\ m < l.total_shares
          /\ num = l.total_shares * g + m
      <4> HIDE DEF num
      <4>1. g \in Int /\ m \in Int /\ num = l.total_shares * g + m
            /\ 0 <= m /\ m < l.total_shares
        BY <3>n, <2>5, <1>n, DivMod
      <4>2. 0 <= g
        <5>1. l.total_shares * 0 <= num
          BY <3>n, <1>n
        <5> QED BY <5>1, <3>n, <2>5, <1>n, DivMono
      <4> QED BY <4>1, <4>2
    <3> HIDE DEF g, m
    <3>2. /\ n.reward_vault = R /\ n.unallocated_fees = l.unallocated_fees
          /\ n.total_shares = l.total_shares /\ n.index = l.index + g
          /\ n.aggregate_correction = l.aggregate_correction
          /\ n.lifetime_materialized = l.lifetime_materialized
          /\ n.lifetime_custody_routed = l.lifetime_custody_routed
      BY <1>0, <2>2 DEF Ledger
    <3>3. l.unallocated_fees + 0 = l.unallocated_fees
      BY <1>n
    <3>4. c = R - (((l.total_shares * (l.index + g) + l.aggregate_correction) \div MAGNITUDE
                     - (l.lifetime_materialized + l.lifetime_custody_routed))
                   + (l.unallocated_fees + 0))
      BY <3>2, <3>3 DEF aggregate_liability
    <3>5. (l.total_shares * (l.index + g) + l.aggregate_correction) \div MAGNITUDE \in Int
      BY <1>n, <1>m, <3>d, DivMod
    <3>6. c \in Int
      BY <3>4, <3>5, <1>n
    <3>7. l.total_shares * g + m = MAGNITUDE * (fee - 0) + l.index_remainder
      BY <3>d, <1>n, <1>m
    <3>8. m < MAGNITUDE
      BY <3>d, <1>n, <1>m
    <3>9. [n EXCEPT !.rounding_reserve = c] = Advanced(l, fee, g, m, 0, c)
      <4> DEFINE I == l.index + g
                 U == l.unallocated_fees
      <4>1. Advanced(l, fee, g, m, 0, c)
              = [l EXCEPT !.reward_vault = R, !.lifetime_fees = F, !.index = I,
                          !.index_remainder = m,
                          !.unallocated_fees = U, !.rounding_reserve = c]
        <5> HIDE DEF c
        <5> QED BY <3>3 DEF Advanced
      <4>2. n = [[l EXCEPT !.reward_vault = R, !.lifetime_fees = F]
                   EXCEPT !.index = I, !.index_remainder = m]
        BY <2>2
      <4> HIDE DEF n, c, R, F, I
      <4> QED BY <1>0, <4>1, <4>2 DEF Ledger
    <3> HIDE DEF c, n
    <3>11. LET r == Advanced(l, fee, g, m, 0, c) IN
           /\ Sound(r) /\ held(r) = held(l) + fee
           /\ SameWallets(l, r) /\ SamePool(l, r) /\ SameVaults(l, r)
           /\ r.index = l.index + g
      BY <3>4, <3>6, <3>7, <3>8, <3>d, AdvancedSound
    <3>12. l.index + g >= l.index
      BY <1>n, <3>d
    <3> QED BY <2>1, <3>1, <3>9, <3>11, <3>12
  <2> QED BY <2>4, <2>5, <1>n
<1> QED BY <1>1, <1>2

\* The reflection fee is a part of the gross amount.
LEMMA FeeWithinGross ==
  ASSUME NEW l \in Ledger, NEW gross \in Nat
  PROVE  fee_for(l, gross) \in Nat /\ fee_for(l, gross) <= gross
<1> DEFINE f == l.fee_bps
           B == BPS_DENOMINATOR
           x == gross * f
<1>1. f \in Nat /\ B \in Nat /\ B > 0 /\ f <= B
  BY LedgerFields, FeeAssumption
<1> HIDE DEF f, B
<1>2. x \in Nat /\ x <= B * gross
  BY <1>1
<1>3. fee_for(l, gross) = x \div B
  BY DEF fee_for, f, B
<1> HIDE DEF x
<1>4. x \div B \in Int /\ B * (x \div B) <= x
  BY <1>1, <1>2, DivMod
<1>5. B * 0 <= x
  BY <1>1, <1>2
<1>6. 0 <= x \div B
  BY <1>1, <1>2, <1>5, DivMono
<1>7. x \div B <= gross
  <2>1. B * (x \div B) <= B * gross
    <3>1. B * (x \div B) \in Int /\ B * gross \in Int
      BY <1>1, <1>4
    <3> QED BY <1>2, <1>4, <3>1
  <2> QED BY <1>1, <1>4, <2>1, CancelLeq
<1> QED BY <1>3, <1>4, <1>6, <1>7

-----------------------------------------------------------------------------
(* Whole movements: the steps above composed in the order in which          *)
(* reflection_token.move composes them.  Each keeps the ledger sound and the *)
(* number of held units, and touches no wallet but the one it names.         *)


\* A vault other than the reward vault is outside the index's accounting: a
\* change of its balance only changes the number of held units.
LEMMA DistributionStore ==
  ASSUME NEW l, Sound(l), NEW n \in Int, l.distribution_vault + n >= 0
  PROVE  LET r == distribution_store(l, n) IN
         /\ Sound(r) /\ held(r) = held(l) + n
         /\ SameWallets(l, r) /\ SamePool(l, r) /\ SameIndex(l, r)
         /\ r.distribution_vault = l.distribution_vault + n
         /\ r.lp_vault = l.lp_vault
<1> DEFINE r == distribution_store(l, n)
           D == l.distribution_vault + n
<1>0. l \in Ledger
  BY DEF Sound
<1>d. D \in Nat
  BY <1>0, LedgerFields
<1>1. r = [l EXCEPT !.distribution_vault = D]
  BY DEF distribution_store
<1>2. l.distribution_vault \in Nat
  BY <1>0, LedgerFields
<1> HIDE DEF D
<1>3. r \in Ledger
  BY <1>0, <1>1, <1>d DEF Ledger
<1>4. /\ r.index = l.index /\ r.index_remainder = l.index_remainder
      /\ r.total_shares = l.total_shares
      /\ r.aggregate_correction = l.aggregate_correction
      /\ r.unallocated_fees = l.unallocated_fees
      /\ r.lifetime_fees = l.lifetime_fees
      /\ r.lifetime_materialized = l.lifetime_materialized
      /\ r.fee_bps = l.fee_bps
      /\ r.correction = l.correction /\ r.claimed = l.claimed
      /\ r.pool_correction = l.pool_correction /\ r.pool_claimed = l.pool_claimed
      /\ r.custody_shares = l.custody_shares
      /\ r.lifetime_custody_routed = l.lifetime_custody_routed
      /\ r.rounding_reserve = l.rounding_reserve /\ r.raw = l.raw
      /\ r.reward_vault = l.reward_vault /\ r.pool_store = l.pool_store
      /\ r.lp_vault = l.lp_vault
      /\ r.distribution_vault = D
  BY <1>0, <1>1 DEF Ledger
<1> HIDE DEF r
<1>5. shares_match(r) /\ aggregates_match(r) /\ dust_conserved(r)
  BY <1>4 DEF Sound, shares_match, aggregates_match, dust_conserved
<1>6. never_overpaid(r)
  BY <1>4 DEF Sound, never_overpaid, magnified, pool_magnified
<1>7. accounting_backing(r)
  BY <1>4 DEF Sound, accounting_backing, aggregate_liability
<1>8. held(r) = held(l) + n
  <2>1. /\ total(l.raw) \in Nat /\ l.reward_vault \in Nat /\ l.pool_store \in Nat
        /\ l.lp_vault \in Nat
    BY <1>0, LedgerFields, TotalNat
  <2> QED BY <1>4, <2>1, <1>2 DEF held, D
<1> QED BY <1>3, <1>4, <1>5, <1>6, <1>7, <1>8
        DEF r, D, Sound, SameWallets, SamePool, SameIndex

\* The same for the vault of the liquidity providers.
LEMMA LpVaultStore ==
  ASSUME NEW l, Sound(l), NEW n \in Int, l.lp_vault + n >= 0
  PROVE  LET r == lp_vault_store(l, n) IN
         /\ Sound(r) /\ held(r) = held(l) + n
         /\ SameWallets(l, r) /\ SamePool(l, r) /\ SameIndex(l, r)
         /\ r.lp_vault = l.lp_vault + n
<1> DEFINE r == lp_vault_store(l, n)
           D == l.lp_vault + n
<1>0. l \in Ledger
  BY DEF Sound
<1>d. D \in Nat
  BY <1>0, LedgerFields
<1>1. r = [l EXCEPT !.lp_vault = D]
  BY DEF lp_vault_store
<1>2. l.lp_vault \in Nat
  BY <1>0, LedgerFields
<1> HIDE DEF D
<1>3. r \in Ledger
  BY <1>0, <1>1, <1>d DEF Ledger
<1>4. /\ r.index = l.index /\ r.index_remainder = l.index_remainder
      /\ r.total_shares = l.total_shares
      /\ r.aggregate_correction = l.aggregate_correction
      /\ r.unallocated_fees = l.unallocated_fees
      /\ r.lifetime_fees = l.lifetime_fees
      /\ r.lifetime_materialized = l.lifetime_materialized
      /\ r.fee_bps = l.fee_bps
      /\ r.correction = l.correction /\ r.claimed = l.claimed
      /\ r.pool_correction = l.pool_correction /\ r.pool_claimed = l.pool_claimed
      /\ r.custody_shares = l.custody_shares
      /\ r.lifetime_custody_routed = l.lifetime_custody_routed
      /\ r.rounding_reserve = l.rounding_reserve /\ r.raw = l.raw
      /\ r.reward_vault = l.reward_vault /\ r.pool_store = l.pool_store
      /\ r.distribution_vault = l.distribution_vault
      /\ r.lp_vault = D
  BY <1>0, <1>1 DEF Ledger
<1> HIDE DEF r
<1>5. shares_match(r) /\ aggregates_match(r) /\ dust_conserved(r)
  BY <1>4 DEF Sound, shares_match, aggregates_match, dust_conserved
<1>6. never_overpaid(r)
  BY <1>4 DEF Sound, never_overpaid, magnified, pool_magnified
<1>7. accounting_backing(r)
  BY <1>4 DEF Sound, accounting_backing, aggregate_liability
<1>8. held(r) = held(l) + n
  <2>1. /\ total(l.raw) \in Nat /\ l.reward_vault \in Nat /\ l.pool_store \in Nat
        /\ l.distribution_vault \in Nat
    BY <1>0, LedgerFields, TotalNat
  <2> QED BY <1>4, <2>1, <1>2 DEF held, D
<1> QED BY <1>3, <1>4, <1>5, <1>6, <1>7, <1>8
        DEF r, D, Sound, SameWallets, SamePool, SameIndex

-----------------------------------------------------------------------------
(* Who earns from a fee *)

\* Account a and the pool earn the growth of the index on some number of units
\* that they owned (a's pending reward included) all through the movement.
Earns(l, r, a) ==
  /\ r.index >= l.index
  /\ \E w \in Nat : /\ w <= derived_balance(l, a) /\ w <= derived_balance(r, a)
                    /\ magnified(r, a) = magnified(l, a) + w * (r.index - l.index)
  /\ \E w \in Nat : /\ w <= l.custody_shares /\ w <= r.custody_shares
                    /\ pool_magnified(r) = pool_magnified(l) + w * (r.index - l.index)

\* A balance query of a sound ledger shows a natural number, at least the raw
\* balance, and what a position has accrued is an integer.
LEMMA DerivedType ==
  ASSUME NEW l, Sound(l), NEW a \in Accounts
  PROVE  /\ derived_balance(l, a) \in Nat /\ l.raw[a] \in Nat
         /\ l.raw[a] <= derived_balance(l, a)
         /\ magnified(l, a) \in Int /\ pool_magnified(l) \in Int
<1>0. l \in Ledger
  BY DEF Sound
<1>1. l.raw[a] \in Nat
  BY <1>0, LedgerFields
<1>2. claimable_for_store(l, a) \in Nat
  BY SoundIsSolvent
<1>3. magnified(l, a) \in Int /\ pool_magnified(l) \in Int
  BY <1>0, LedgerFields DEF magnified, pool_magnified
<1> QED BY <1>1, <1>2, <1>3 DEF derived_balance

\* Where no fee is paid nothing is earned.
LEMMA EarnsNothing ==
  ASSUME NEW l, NEW r, Sound(l), Sound(r), NEW a \in Accounts,
         r.index = l.index, SameEarnings(l, r)
  PROVE  Earns(l, r, a)
<1>1. /\ derived_balance(l, a) \in Nat /\ derived_balance(r, a) \in Nat
      /\ magnified(l, a) \in Int /\ pool_magnified(l) \in Int
  BY DerivedType
<1>2. l.index \in Nat /\ l.custody_shares \in Nat /\ r.custody_shares \in Nat
  BY LedgerFields DEF Sound
<1>3. r.index >= l.index /\ 0 * (r.index - l.index) = 0 /\ 0 \in Nat
  BY <1>2
<1>4. /\ 0 <= derived_balance(l, a) /\ 0 <= derived_balance(r, a)
      /\ 0 <= l.custody_shares /\ 0 <= r.custody_shares
  BY <1>1, <1>2
<1>5. /\ magnified(r, a) = magnified(l, a) + 0 * (r.index - l.index)
      /\ pool_magnified(r) = pool_magnified(l) + 0 * (r.index - l.index)
  BY <1>1, <1>3 DEF SameEarnings
<1> QED BY <1>3, <1>4, <1>5 DEF Earns

\* A movement of a vault's store alone changes no position.
LEMMA StoreEarnsNothing ==
  ASSUME NEW l, NEW r, SameWallets(l, r), SamePool(l, r), SameIndex(l, r)
  PROVE  SameEarnings(l, r)
BY DEF SameWallets, SamePool, SameIndex, SameEarnings, magnified, pool_magnified

\* A fee is shared by the units the stores hold when the index moves.
LEMMA FeeIsShared ==
  ASSUME NEW l \in Ledger, NEW r \in Ledger, NEW x \in Accounts
  PROVE  /\ r.raw[x] = l.raw[x] /\ r.correction[x] = l.correction[x] =>
              magnified(r, x) = magnified(l, x) + l.raw[x] * (r.index - l.index)
         /\ SamePool(l, r) =>
              pool_magnified(r) = pool_magnified(l)
                                    + l.custody_shares * (r.index - l.index)
<1> DEFINE i == l.index
           j == r.index
           g == j - i
           w == l.raw[x]
           c == l.correction[x]
           p == l.custody_shares
           q == l.pool_correction
<1>1. i \in Int /\ j \in Int /\ w \in Int /\ c \in Int /\ p \in Int /\ q \in Int
  BY LedgerFields
<1> HIDE DEF i, j, w, c, p, q
<1>2. g \in Int /\ j = i + g
  BY <1>1
<1> HIDE DEF g
<1>3. w * i \in Int /\ w * g \in Int /\ p * i \in Int /\ p * g \in Int
  BY <1>1, <1>2
<1>4. w * j = w * i + w * g /\ p * j = p * i + p * g
  BY <1>1, <1>2
<1> DEFINE wi == w * i
           wg == w * g
           pi == p * i
           pg == p * g
<1>5. wi \in Int /\ wg \in Int /\ pi \in Int /\ pg \in Int
      /\ w * j = wi + wg /\ p * j = pi + pg
  BY <1>3, <1>4
<1> HIDE DEF wi, wg, pi, pg
<1>6. w * j + c = (wi + c) + wg
  BY <1>1, <1>5
<1>7. p * j + q = (pi + q) + pg
  BY <1>1, <1>5
<1> QED BY <1>6, <1>7 DEF magnified, pool_magnified, SamePool,
                    i, j, w, c, p, q, g, wi, wg, pi, pg

\* What the composed movements have in common.
Moves(l, r, a) ==
  /\ Sound(r) /\ held(r) = held(l)
  /\ SameWalletsBut(l, r, a)
  /\ Earns(l, r, a)

\* A sale: the gross amount leaves the seller, the fee reaches the vault, the
\* net amount reaches the pool.
LEMMA SettleSell ==
  ASSUME NEW l, Sound(l), NEW a \in Accounts, NEW gross \in Nat,
         gross <= derived_balance(l, a), held(l) <= MAGNITUDE
  PROVE  /\ Moves(l, settle_sell(l, a, gross), a)
         /\ ReserveMoves(l, settle_sell(l, a, gross), gross - fee_for(l, gross))
<1> DEFINE fee == fee_for(l, gross)
           mat == materialize_all_to_store(l, a)
           sold == debit_wallet(mat, a, gross)
           fed == collect_fee(sold, fee)
           paid == materialize_all_to_store(fed, a)
           r == credit_pool(paid, gross - fee)
<1>r. settle_sell(l, a, gross) = r
  BY DEF settle_sell
<1>f. fee \in Nat /\ fee <= gross /\ gross - fee \in Nat
  BY FeeWithinGross DEF Sound
<1> HIDE DEF fee
<1>h. held(l) \in Nat /\ MAGNITUDE \in Nat
  BY HeldType, MagnitudePositive
<1>1. /\ Sound(mat) /\ held(mat) = held(l) /\ mat.raw[a] = derived_balance(l, a)
      /\ SameWalletsBut(l, mat, a) /\ SamePool(l, mat) /\ SameVaults(l, mat)
      /\ SameIndex(l, mat) /\ SameEarnings(l, mat)
  BY MaterializeAll
<1> HIDE DEF mat
<1>2. /\ Sound(sold) /\ held(sold) = held(mat) - gross /\ SameWalletsBut(mat, sold, a)
      /\ sold.raw[a] = mat.raw[a] - gross /\ SamePool(mat, sold) /\ SameVaults(mat, sold)
      /\ SameIndex(mat, sold) /\ SameEarnings(mat, sold)
  BY <1>1, DebitWallet
<1> HIDE DEF sold
<1>3. sold.total_shares <= MAGNITUDE
  <2>1. sold.total_shares \in Nat /\ held(sold) \in Nat /\ sold.total_shares <= held(sold)
    BY <1>2, HeldType, LedgerFields DEF Sound
  <2> QED BY <1>1, <1>2, <1>h, <2>1
<1>4. /\ Sound(fed) /\ held(fed) = held(sold) + fee /\ SameWallets(sold, fed)
      /\ SamePool(sold, fed) /\ SameVaults(sold, fed) /\ fed.index >= sold.index
  BY <1>2, <1>3, <1>f, CollectFee
<1> HIDE DEF fed
<1>5. /\ Sound(paid) /\ held(paid) = held(fed) /\ SameWalletsBut(fed, paid, a)
      /\ paid.raw[a] = derived_balance(fed, a) /\ SamePool(fed, paid)
      /\ SameVaults(fed, paid) /\ SameIndex(fed, paid) /\ SameEarnings(fed, paid)
  BY <1>4, MaterializeAll
<1> HIDE DEF paid
<1>6. /\ Sound(r) /\ held(r) = held(paid) + (gross - fee) /\ SameWallets(paid, r)
      /\ r.custody_shares = paid.custody_shares + (gross - fee)
      /\ ReserveMoves(paid, r, gross - fee)
      /\ SameIndex(paid, r) /\ SameEarnings(paid, r)
  BY <1>5, <1>f, CreditPool
<1> HIDE DEF r
<1>7. held(r) = held(l)
  BY <1>1, <1>2, <1>4, <1>5, <1>6, <1>f, <1>h
<1>8. SameWalletsBut(l, r, a)
  BY <1>1, <1>2, <1>4, <1>5, <1>6 DEF SameWalletsBut, SameWallets
<1>9. Earns(l, r, a)
  <2>1. r.index >= l.index /\ r.index - l.index = fed.index - sold.index
    BY <1>1, <1>2, <1>4, <1>5, <1>6 DEF SameIndex
  <2>2. /\ sold.raw[a] \in Nat /\ sold.raw[a] <= derived_balance(l, a)
        /\ sold.raw[a] <= derived_balance(r, a)
    <3>1. /\ derived_balance(l, a) \in Nat /\ sold.raw[a] \in Nat
          /\ fed.raw[a] <= derived_balance(fed, a) /\ derived_balance(fed, a) \in Nat
          /\ r.raw[a] <= derived_balance(r, a) /\ derived_balance(r, a) \in Nat
      BY <1>2, <1>4, <1>6, DerivedType
    <3>2. fed.raw[a] = sold.raw[a] /\ r.raw[a] = derived_balance(fed, a)
      BY <1>4, <1>5, <1>6 DEF SameWallets
    <3> QED BY <1>1, <1>2, <3>1, <3>2
  <2>3. magnified(r, a) = magnified(l, a) + sold.raw[a] * (r.index - l.index)
    <3>1. magnified(fed, a) = magnified(sold, a) + sold.raw[a] * (fed.index - sold.index)
      BY <1>2, <1>4, FeeIsShared DEF Sound, SameWallets
    <3> QED BY <1>1, <1>2, <1>5, <1>6, <2>1, <3>1 DEF SameEarnings
  <2>4. /\ l.custody_shares \in Nat /\ l.custody_shares <= l.custody_shares
        /\ l.custody_shares <= r.custody_shares
    <3>1. l.custody_shares \in Nat
      BY LedgerFields DEF Sound
    <3>2. paid.custody_shares = l.custody_shares
      BY <1>1, <1>2, <1>4, <1>5 DEF SamePool
    <3> QED BY <1>6, <1>f, <3>1, <3>2
  <2>5. pool_magnified(r) = pool_magnified(l) + l.custody_shares * (r.index - l.index)
    <3>1. pool_magnified(fed) = pool_magnified(sold)
                                  + sold.custody_shares * (fed.index - sold.index)
      BY <1>2, <1>4, FeeIsShared DEF Sound
    <3>2. sold.custody_shares = l.custody_shares
      BY <1>1, <1>2 DEF SamePool
    <3> QED BY <1>1, <1>2, <1>5, <1>6, <2>1, <3>1, <3>2 DEF SameEarnings
  <2> QED BY <2>1, <2>2, <2>3, <2>4, <2>5 DEF Earns
<1>10. ReserveMoves(l, r, gross - fee)
  BY <1>1, <1>2, <1>4, <1>5, <1>6 DEF ReserveMoves, SamePool, SameVaults
<1> QED BY <1>r, <1>6, <1>7, <1>8, <1>9, <1>10 DEF Moves, fee

\* A purchase: the gross amount leaves the pool, the fee reaches the vault,
\* the net amount reaches the buyer.
LEMMA SettleBuy ==
  ASSUME NEW l, Sound(l), NEW a \in Accounts, NEW gross \in Nat,
         gross <= l.custody_shares, held(l) <= MAGNITUDE
  PROVE  /\ Moves(l, settle_buy(l, a, gross), a)
         /\ ReserveMoves(l, settle_buy(l, a, gross), -gross)
         /\ settle_buy(l, a, gross).raw[a] >= derived_balance(l, a)
<1> DEFINE fee == fee_for(l, gross)
           mat == materialize_all_to_store(l, a)
           taken == debit_pool(mat, gross)
           fed == collect_fee(taken, fee)
           paid == materialize_all_to_store(fed, a)
           r == credit_wallet(paid, a, gross - fee)
<1>r. settle_buy(l, a, gross) = r
  BY DEF settle_buy
<1>f. fee \in Nat /\ fee <= gross /\ gross - fee \in Nat
  BY FeeWithinGross DEF Sound
<1> HIDE DEF fee
<1>h. held(l) \in Nat /\ MAGNITUDE \in Nat
  BY HeldType, MagnitudePositive
<1>1. /\ Sound(mat) /\ held(mat) = held(l) /\ mat.custody_shares = l.custody_shares
      /\ mat.raw[a] = derived_balance(l, a) /\ SamePool(l, mat) /\ SameVaults(l, mat)
      /\ SameWalletsBut(l, mat, a) /\ SameIndex(l, mat) /\ SameEarnings(l, mat)
  BY MaterializeAll DEF SamePool
<1> HIDE DEF mat
<1>2. /\ Sound(taken) /\ held(taken) = held(mat) - gross /\ SameWallets(mat, taken)
      /\ taken.custody_shares = mat.custody_shares - gross
      /\ ReserveMoves(mat, taken, -gross)
      /\ SameIndex(mat, taken) /\ SameEarnings(mat, taken)
  BY <1>1, DebitPool
<1> HIDE DEF taken
<1>3. taken.total_shares <= MAGNITUDE
  <2>1. taken.total_shares \in Nat /\ held(taken) \in Nat /\ taken.total_shares <= held(taken)
    BY <1>2, HeldType, LedgerFields DEF Sound
  <2> QED BY <1>1, <1>2, <1>h, <2>1
<1>4. /\ Sound(fed) /\ held(fed) = held(taken) + fee /\ SameWallets(taken, fed)
      /\ SamePool(taken, fed) /\ SameVaults(taken, fed) /\ fed.index >= taken.index
  BY <1>2, <1>3, <1>f, CollectFee
<1> HIDE DEF fed
<1>5. /\ Sound(paid) /\ held(paid) = held(fed) /\ SameWalletsBut(fed, paid, a)
      /\ paid.raw[a] = derived_balance(fed, a) /\ SamePool(fed, paid)
      /\ SameVaults(fed, paid) /\ SameIndex(fed, paid) /\ SameEarnings(fed, paid)
  BY <1>4, MaterializeAll
<1> HIDE DEF paid
<1>6. /\ Sound(r) /\ held(r) = held(paid) + (gross - fee) /\ SameWalletsBut(paid, r, a)
      /\ r.raw[a] = paid.raw[a] + (gross - fee) /\ SamePool(paid, r)
      /\ SameVaults(paid, r) /\ SameIndex(paid, r) /\ SameEarnings(paid, r)
  BY <1>5, <1>f, CreditWallet
<1> HIDE DEF r
<1>7. held(r) = held(l)
  BY <1>1, <1>2, <1>4, <1>5, <1>6, <1>f, <1>h
<1>8. SameWalletsBut(l, r, a)
  BY <1>1, <1>2, <1>4, <1>5, <1>6 DEF SameWalletsBut, SameWallets
<1>9. /\ derived_balance(l, a) \in Nat /\ r.raw[a] >= derived_balance(l, a)
      /\ derived_balance(l, a) <= derived_balance(r, a)
  <2>1. /\ derived_balance(l, a) \in Nat
        /\ fed.raw[a] <= derived_balance(fed, a) /\ derived_balance(fed, a) \in Nat
        /\ r.raw[a] <= derived_balance(r, a) /\ derived_balance(r, a) \in Nat
        /\ r.raw[a] \in Nat
    BY <1>4, <1>6, DerivedType
  <2>2. fed.raw[a] = derived_balance(l, a)
    BY <1>1, <1>2, <1>4 DEF SameWallets
  <2> QED BY <1>5, <1>6, <1>f, <2>1, <2>2
<1>10. Earns(l, r, a)
  <2>1. r.index >= l.index /\ r.index - l.index = fed.index - taken.index
    BY <1>1, <1>2, <1>4, <1>5, <1>6 DEF SameIndex
  <2>2. derived_balance(l, a) <= derived_balance(l, a)
    BY <1>9
  <2>3. magnified(r, a) = magnified(l, a) + derived_balance(l, a) * (r.index - l.index)
    <3>1. magnified(fed, a) = magnified(taken, a) + taken.raw[a] * (fed.index - taken.index)
      BY <1>2, <1>4, FeeIsShared DEF Sound, SameWallets
    <3>2. taken.raw[a] = derived_balance(l, a)
      BY <1>1, <1>2 DEF SameWallets
    <3> QED BY <1>1, <1>2, <1>5, <1>6, <2>1, <3>1, <3>2 DEF SameEarnings
  <2>4. /\ taken.custody_shares \in Nat /\ taken.custody_shares <= l.custody_shares
        /\ taken.custody_shares <= r.custody_shares
    <3>1. l.custody_shares \in Nat /\ taken.custody_shares \in Nat
      BY <1>2, LedgerFields DEF Sound
    <3>2. r.custody_shares = taken.custody_shares
      BY <1>4, <1>5, <1>6 DEF SamePool
    <3> QED BY <1>1, <1>2, <3>1, <3>2
  <2>5. pool_magnified(r) = pool_magnified(l) + taken.custody_shares * (r.index - l.index)
    <3>1. pool_magnified(fed) = pool_magnified(taken)
                                  + taken.custody_shares * (fed.index - taken.index)
      BY <1>2, <1>4, FeeIsShared DEF Sound
    <3> QED BY <1>1, <1>2, <1>5, <1>6, <2>1, <3>1 DEF SameEarnings
  <2> QED BY <1>9, <2>1, <2>2, <2>3, <2>4, <2>5 DEF Earns
<1>11. ReserveMoves(l, r, -gross)
  BY <1>1, <1>2, <1>4, <1>5, <1>6 DEF ReserveMoves, SamePool, SameVaults
<1> QED BY <1>r, <1>6, <1>7, <1>8, <1>9, <1>10, <1>11 DEF Moves

\* A liquidity deposit moves units from a wallet to the pool, with no fee.
LEMMA WalletToCustody ==
  ASSUME NEW l, Sound(l), NEW a \in Accounts, NEW n \in Nat,
         n <= derived_balance(l, a)
  PROVE  LET r == wallet_to_custody(l, a, n) IN
         /\ Moves(l, r, a)
         /\ ReserveMoves(l, r, n) /\ SameIndex(l, r) /\ SameEarnings(l, r)
<1> DEFINE mat == materialize_all_to_store(l, a)
           out == debit_wallet(mat, a, n)
           r == credit_pool(out, n)
<1>r. wallet_to_custody(l, a, n) = r
  BY DEF wallet_to_custody
<1>h. held(l) \in Nat
  BY HeldType
<1>1. /\ Sound(mat) /\ held(mat) = held(l) /\ mat.raw[a] = derived_balance(l, a)
      /\ SameWalletsBut(l, mat, a) /\ SameIndex(l, mat) /\ SameEarnings(l, mat)
      /\ SamePool(l, mat) /\ SameVaults(l, mat)
  BY MaterializeAll
<1> HIDE DEF mat
<1>2. /\ Sound(out) /\ held(out) = held(mat) - n /\ SameWalletsBut(mat, out, a)
      /\ SameIndex(mat, out) /\ SameEarnings(mat, out)
      /\ SamePool(mat, out) /\ SameVaults(mat, out)
  BY <1>1, DebitWallet
<1> HIDE DEF out
<1>3. /\ Sound(r) /\ held(r) = held(out) + n /\ SameWallets(out, r)
      /\ SameIndex(out, r) /\ SameEarnings(out, r) /\ ReserveMoves(out, r, n)
  BY <1>2, CreditPool
<1> HIDE DEF r
<1>4. held(r) = held(l)
  BY <1>1, <1>2, <1>3, <1>h
<1>5. SameWalletsBut(l, r, a)
  BY <1>1, <1>2, <1>3 DEF SameWalletsBut, SameWallets
<1>6. SameIndex(l, r) /\ SameEarnings(l, r)
  BY <1>1, <1>2, <1>3 DEF SameIndex, SameEarnings
<1>7. Earns(l, r, a)
  BY <1>3, <1>6, EarnsNothing DEF SameIndex
<1>8. ReserveMoves(l, r, n)
  BY <1>1, <1>2, <1>3 DEF ReserveMoves, SamePool, SameVaults
<1> QED BY <1>r, <1>3, <1>4, <1>5, <1>6, <1>7, <1>8 DEF Moves

\* A liquidity withdrawal moves units from the pool to a wallet, with no fee.
LEMMA CustodyToWallet ==
  ASSUME NEW l, Sound(l), NEW a \in Accounts, NEW n \in Nat,
         n <= l.custody_shares
  PROVE  LET r == custody_to_wallet(l, a, n) IN
         /\ Moves(l, r, a) /\ r.raw[a] >= derived_balance(l, a)
         /\ ReserveMoves(l, r, -n) /\ SameIndex(l, r) /\ SameEarnings(l, r)
<1> DEFINE mat == materialize_all_to_store(l, a)
           out == debit_pool(mat, n)
           r == credit_wallet(out, a, n)
<1>r. custody_to_wallet(l, a, n) = r
  BY DEF custody_to_wallet
<1>h. held(l) \in Nat
  BY HeldType
<1>1. /\ Sound(mat) /\ held(mat) = held(l) /\ mat.custody_shares = l.custody_shares
      /\ SameWalletsBut(l, mat, a) /\ mat.raw[a] = derived_balance(l, a)
      /\ SameIndex(l, mat) /\ SameEarnings(l, mat) /\ SamePool(l, mat) /\ SameVaults(l, mat)
  BY MaterializeAll DEF SamePool
<1> HIDE DEF mat
<1>2. /\ Sound(out) /\ held(out) = held(mat) - n /\ SameWallets(mat, out)
      /\ SameIndex(mat, out) /\ SameEarnings(mat, out) /\ ReserveMoves(mat, out, -n)
  BY <1>1, DebitPool
<1> HIDE DEF out
<1>3. /\ Sound(r) /\ held(r) = held(out) + n /\ SameWalletsBut(out, r, a)
      /\ r.raw[a] = out.raw[a] + n /\ SameIndex(out, r) /\ SameEarnings(out, r)
      /\ SamePool(out, r) /\ SameVaults(out, r)
  BY <1>2, CreditWallet
<1> HIDE DEF r
<1>4. held(r) = held(l)
  BY <1>1, <1>2, <1>3, <1>h
<1>5. SameWalletsBut(l, r, a)
  BY <1>1, <1>2, <1>3 DEF SameWalletsBut, SameWallets
<1>6. SameIndex(l, r) /\ SameEarnings(l, r)
  BY <1>1, <1>2, <1>3 DEF SameIndex, SameEarnings
<1>7. Earns(l, r, a)
  BY <1>3, <1>6, EarnsNothing DEF SameIndex
<1>8. r.raw[a] >= derived_balance(l, a)
  <2>1. derived_balance(l, a) \in Nat
    BY DerivedType
  <2> QED BY <1>1, <1>2, <1>3, <2>1 DEF SameWallets
<1>9. ReserveMoves(l, r, -n)
  BY <1>1, <1>2, <1>3 DEF ReserveMoves, SamePool, SameVaults
<1> QED BY <1>r, <1>3, <1>4, <1>5, <1>6, <1>7, <1>8, <1>9 DEF Moves

\* A faucet grant moves units from the distribution vault to a wallet.
LEMMA FaucetGrant ==
  ASSUME NEW l, Sound(l), NEW a \in Accounts, NEW n \in Nat,
         n <= l.distribution_vault
  PROVE  LET r == faucet_grant(l, a, n) IN
         /\ Moves(l, r, a) /\ r.raw[a] >= derived_balance(l, a)
         /\ ReserveMoves(l, r, 0) /\ SameIndex(l, r) /\ SameEarnings(l, r)
<1> DEFINE mat == materialize_all_to_store(l, a)
           out == distribution_store(mat, -n)
           r == credit_wallet(out, a, n)
<1>r. faucet_grant(l, a, n) = r
  BY DEF faucet_grant
<1>h. held(l) \in Nat /\ l.distribution_vault \in Nat /\ -n \in Int
  BY HeldType, LedgerFields DEF Sound
<1>1. /\ Sound(mat) /\ held(mat) = held(l)
      /\ mat.distribution_vault = l.distribution_vault
      /\ SameWalletsBut(l, mat, a) /\ mat.raw[a] = derived_balance(l, a)
      /\ SameIndex(l, mat) /\ SameEarnings(l, mat)
      /\ SamePool(l, mat) /\ mat.lp_vault = l.lp_vault
  BY MaterializeAll DEF SameVaults
<1> HIDE DEF mat
<1>2. /\ Sound(out) /\ held(out) = held(mat) + -n /\ SameWallets(mat, out)
      /\ SamePool(mat, out) /\ SameIndex(mat, out) /\ out.lp_vault = mat.lp_vault
  <2>1. mat.distribution_vault + -n >= 0
    BY <1>1, <1>h
  <2> QED BY <1>1, <1>h, <2>1, DistributionStore
<1> HIDE DEF out
<1>3. /\ Sound(r) /\ held(r) = held(out) + n /\ SameWalletsBut(out, r, a)
      /\ r.raw[a] = out.raw[a] + n /\ SameIndex(out, r) /\ SameEarnings(out, r)
      /\ SamePool(out, r) /\ SameVaults(out, r)
  BY <1>2, CreditWallet
<1> HIDE DEF r
<1>4. held(r) = held(l)
  BY <1>1, <1>2, <1>3, <1>h
<1>5. SameWalletsBut(l, r, a)
  BY <1>1, <1>2, <1>3 DEF SameWalletsBut, SameWallets
<1>6. SameIndex(l, r) /\ SameEarnings(l, r)
  BY <1>1, <1>2, <1>3, StoreEarnsNothing DEF SameIndex, SameEarnings
<1>7. Earns(l, r, a)
  BY <1>3, <1>6, EarnsNothing DEF SameIndex
<1>8. r.raw[a] >= derived_balance(l, a)
  <2>1. derived_balance(l, a) \in Nat
    BY DerivedType
  <2> QED BY <1>1, <1>2, <1>3, <2>1 DEF SameWallets
<1>9. ReserveMoves(l, r, 0)
  <2>1. r.pool_store = l.pool_store /\ l.pool_store \in Nat
    BY <1>1, <1>2, <1>3, LedgerFields DEF SamePool, Sound
  <2> QED BY <1>1, <1>2, <1>3, <2>1 DEF ReserveMoves, SamePool, SameVaults
<1> QED BY <1>r, <1>3, <1>4, <1>5, <1>6, <1>7, <1>8, <1>9 DEF Moves

\* A liquidity provider's payout moves units from the LP vault to a wallet
\* and, as it may happen after the pool has closed, leaves the pool's
\* position and the index alone.
LEMMA PayoutLpReward ==
  ASSUME NEW l, Sound(l), NEW a \in Accounts, NEW n \in Nat, n <= l.lp_vault
  PROVE  LET r == payout_lp_reward_to(l, a, n) IN
         /\ Moves(l, r, a) /\ SamePool(l, r) /\ SameIndex(l, r)
         /\ r.raw[a] >= derived_balance(l, a)
         /\ r.lp_vault = l.lp_vault - n /\ SameEarnings(l, r)
<1> DEFINE mat == materialize_all_to_store(l, a)
           out == lp_vault_store(mat, -n)
           r == credit_wallet(out, a, n)
<1>r. payout_lp_reward_to(l, a, n) = r
  BY DEF payout_lp_reward_to
<1>h. held(l) \in Nat /\ l.lp_vault \in Nat /\ -n \in Int
  BY HeldType, LedgerFields DEF Sound
<1>1. /\ Sound(mat) /\ held(mat) = held(l)
      /\ mat.lp_vault = l.lp_vault
      /\ SameWalletsBut(l, mat, a) /\ SamePool(l, mat) /\ SameIndex(l, mat)
      /\ mat.raw[a] = derived_balance(l, a) /\ SameEarnings(l, mat)
  BY MaterializeAll DEF SameVaults
<1> HIDE DEF mat
<1>2. /\ Sound(out) /\ held(out) = held(mat) + -n /\ SameWallets(mat, out)
      /\ SamePool(mat, out) /\ SameIndex(mat, out) /\ out.lp_vault = mat.lp_vault + -n
  <2>1. mat.lp_vault + -n >= 0
    BY <1>1, <1>h
  <2> QED BY <1>1, <1>h, <2>1, LpVaultStore
<1> HIDE DEF out
<1>3. /\ Sound(r) /\ held(r) = held(out) + n /\ SameWalletsBut(out, r, a)
      /\ SamePool(out, r) /\ SameIndex(out, r) /\ r.lp_vault = out.lp_vault
      /\ r.raw[a] = out.raw[a] + n /\ SameEarnings(out, r)
  BY <1>2, CreditWallet DEF SameVaults
<1> HIDE DEF r
<1>4. held(r) = held(l)
  BY <1>1, <1>2, <1>3, <1>h
<1>5. SameWalletsBut(l, r, a)
  BY <1>1, <1>2, <1>3 DEF SameWalletsBut, SameWallets
<1>6. SamePool(l, r) /\ SameIndex(l, r)
  BY <1>1, <1>2, <1>3 DEF SamePool, SameIndex
<1>7. SameEarnings(l, r)
  BY <1>1, <1>2, <1>3, StoreEarnsNothing DEF SameEarnings
<1>8. Earns(l, r, a)
  BY <1>3, <1>6, <1>7, EarnsNothing DEF SameIndex
<1>9. r.raw[a] >= derived_balance(l, a)
  <2>1. derived_balance(l, a) \in Nat
    BY DerivedType
  <2> QED BY <1>1, <1>2, <1>3, <2>1 DEF SameWallets
<1>10. r.lp_vault = l.lp_vault - n
  BY <1>1, <1>2, <1>3, <1>h
<1> QED BY <1>r, <1>3, <1>4, <1>5, <1>6, <1>7, <1>8, <1>9, <1>10 DEF Moves

\* The launch moves units from the distribution vault to the pool.
LEMMA SeedPool ==
  ASSUME NEW l, Sound(l), INITIAL_POOL_RFL <= l.distribution_vault
  PROVE  LET r == seed_pool_from_distribution(l) IN
         /\ Sound(r) /\ held(r) = held(l) /\ SameWallets(l, r)
         /\ SameIndex(l, r) /\ SameEarnings(l, r)
         /\ ReserveMoves(l, r, INITIAL_POOL_RFL)
<1> DEFINE n == INITIAL_POOL_RFL
           out == distribution_store(l, -n)
           r == credit_pool(out, n)
<1>r. seed_pool_from_distribution(l) = r
  BY DEF seed_pool_from_distribution
<1>n. n \in Nat
  BY SupplyAssumption
<1> HIDE DEF n
<1>h. held(l) \in Nat /\ l.distribution_vault \in Nat /\ -n \in Int
  BY <1>n, HeldType, LedgerFields DEF Sound
<1>1. /\ Sound(out) /\ held(out) = held(l) + -n /\ SameWallets(l, out)
      /\ SamePool(l, out) /\ SameIndex(l, out) /\ out.lp_vault = l.lp_vault
  <2>1. l.distribution_vault + -n >= 0
    BY <1>n, <1>h DEF n
  <2> QED BY <1>h, <2>1, DistributionStore
<1> HIDE DEF out
<1>2. /\ Sound(r) /\ held(r) = held(out) + n /\ SameWallets(out, r)
      /\ SameIndex(out, r) /\ SameEarnings(out, r) /\ ReserveMoves(out, r, n)
  BY <1>1, <1>n, CreditPool
<1> HIDE DEF r
<1>3. held(r) = held(l)
  BY <1>1, <1>2, <1>h, <1>n
<1>4. SameIndex(l, r) /\ SameEarnings(l, r)
  BY <1>1, <1>2, StoreEarnsNothing DEF SameIndex, SameEarnings
<1>5. ReserveMoves(l, r, n)
  BY <1>1, <1>2 DEF ReserveMoves, SamePool
<1> QED BY <1>r, <1>1, <1>2, <1>3, <1>4, <1>5 DEF SameWallets, n

\* Routing pays the pool's whole pending reward into the LP vault.
LEMMA RouteRewards ==
  ASSUME NEW l, Sound(l)
  PROVE  LET r == route_custody_rewards(l) IN
         /\ Sound(r) /\ held(r) = held(l) /\ SameWallets(l, r)
         /\ SameIndex(l, r) /\ SameEarnings(l, r)
         /\ r.pool_store = l.pool_store
         /\ r.lp_vault = l.lp_vault + custody_pending_for_store(l)
         /\ r.pool_claimed = l.pool_claimed + custody_pending_for_store(l)
         /\ custody_pending_for_store(r) = 0
<1> DEFINE n == custody_pending_for_store(l)
           P == l.pool_claimed + n
           L == l.lifetime_custody_routed + n
           V == l.reward_vault + -n
           W == l.lp_vault + n
           r == [l EXCEPT !.pool_claimed = P, !.lifetime_custody_routed = L,
                          !.reward_vault = V, !.lp_vault = W]
<1>0. l \in Ledger
  BY DEF Sound
<1>n. n \in Nat /\ n <= l.reward_vault
  BY SoundIsSolvent
<1>t. /\ l.pool_claimed \in Nat /\ l.lifetime_custody_routed \in Nat
      /\ l.reward_vault \in Nat /\ l.lp_vault \in Nat
      /\ l.lifetime_materialized \in Nat /\ l.lifetime_fees \in Nat
      /\ l.unallocated_fees \in Nat /\ l.rounding_reserve \in Nat
      /\ l.distribution_vault \in Nat /\ l.pool_store \in Nat
      /\ total(l.raw) \in Nat
  BY <1>0, LedgerFields, TotalNat
<1>v. P \in Nat /\ L \in Nat /\ V \in Nat /\ W \in Nat
  BY <1>n, <1>t
<1>1. route_custody_rewards(l) = r
  <2>1. route_custody_rewards(l)
          = lp_vault_store(reward_store(
              [l EXCEPT !.pool_claimed = P, !.lifetime_custody_routed = L], -n), n)
    BY DEF route_custody_rewards
  <2>2. reward_store([l EXCEPT !.pool_claimed = P, !.lifetime_custody_routed = L], -n)
          = [l EXCEPT !.pool_claimed = P, !.lifetime_custody_routed = L,
                      !.reward_vault = V]
    <3> HIDE DEF n, P, L
    <3> QED BY <1>0 DEF reward_store, Ledger
  <2>3. lp_vault_store([l EXCEPT !.pool_claimed = P, !.lifetime_custody_routed = L,
                                 !.reward_vault = V], n) = r
    <3> HIDE DEF n, P, L, V
    <3> QED BY <1>0 DEF lp_vault_store, Ledger
  <2> HIDE DEF r, n, P, L, V
  <2> QED BY <2>1, <2>2, <2>3
<1> HIDE DEF P, L, V, W
<1>2. r \in Ledger
  BY <1>0, <1>v DEF Ledger
<1>3. /\ r.index = l.index /\ r.index_remainder = l.index_remainder
      /\ r.total_shares = l.total_shares
      /\ r.aggregate_correction = l.aggregate_correction
      /\ r.unallocated_fees = l.unallocated_fees
      /\ r.lifetime_fees = l.lifetime_fees
      /\ r.lifetime_materialized = l.lifetime_materialized
      /\ r.correction = l.correction /\ r.claimed = l.claimed
      /\ r.pool_correction = l.pool_correction /\ r.pool_claimed = P
      /\ r.custody_shares = l.custody_shares
      /\ r.lifetime_custody_routed = L
      /\ r.rounding_reserve = l.rounding_reserve /\ r.raw = l.raw
      /\ r.reward_vault = V /\ r.pool_store = l.pool_store
      /\ r.distribution_vault = l.distribution_vault
      /\ r.lp_vault = W /\ r.fee_bps = l.fee_bps
  BY <1>0 DEF Ledger
<1> HIDE DEF r
<1>4. shares_match(r) /\ dust_conserved(r)
  BY <1>3 DEF Sound, shares_match, dust_conserved
<1>5. aggregates_match(r)
  BY <1>3 DEF Sound, aggregates_match, P, L
<1>6. never_overpaid(r)
  <2> DEFINE x == pool_magnified(l)
  <2>1. x \in Int
    BY <1>0, LedgerFields DEF pool_magnified
  <2>2. P = x \div MAGNITUDE
    <3>1. n = (x \div MAGNITUDE) - l.pool_claimed
      BY DEF custody_pending_for_store
    <3>2. x \div MAGNITUDE \in Int
      BY <2>1, MagnitudePositive, DivMod
    <3> HIDE DEF x, n
    <3> QED BY <1>t, <3>1, <3>2 DEF P
  <2>3. x >= MAGNITUDE * P
    <3> HIDE DEF x
    <3>1. P <= x \div MAGNITUDE
      BY <2>2, <1>v
    <3> QED BY <2>1, <3>1, <1>v, MagnitudePositive, DivBound
  <2>4. pool_magnified(r) = x
    BY <1>3 DEF pool_magnified
  <2>5. \A a \in Accounts : magnified(r, a) >= MAGNITUDE * r.claimed[a]
    BY <1>3 DEF Sound, never_overpaid, magnified
  <2> QED BY <1>3, <2>3, <2>4, <2>5 DEF never_overpaid
<1>7. accounting_backing(r)
  <2> DEFINE y == l.total_shares * l.index + l.aggregate_correction
             G == y \div MAGNITUDE
  <2>1. y \in Int
    BY <1>0, LedgerFields
  <2>2. /\ aggregate_liability(l) = G - (l.lifetime_materialized + l.lifetime_custody_routed)
        /\ aggregate_liability(r) = G - (l.lifetime_materialized + L)
    BY <1>3 DEF aggregate_liability
  <2> HIDE DEF y
  <2>3. G \in Int
    BY <2>1, MagnitudePositive, DivMod
  <2> HIDE DEF G
  <2>4. /\ l.reward_vault = aggregate_liability(l) + l.unallocated_fees + l.rounding_reserve
        /\ l.reward_vault = l.lifetime_fees - l.lifetime_materialized - l.lifetime_custody_routed
    BY DEF Sound, accounting_backing
  <2> HIDE DEF n
  <2>5. /\ V = aggregate_liability(r) + l.unallocated_fees + l.rounding_reserve
        /\ V = l.lifetime_fees - l.lifetime_materialized - L
    BY <1>n, <1>t, <2>2, <2>3, <2>4 DEF V, L
  <2> QED BY <1>3, <2>5 DEF accounting_backing
<1>8. held(r) = held(l)
  <2> HIDE DEF n
  <2> QED BY <1>3, <1>n, <1>t DEF held, V, W
<1>9. SameIndex(l, r) /\ SameEarnings(l, r)
  BY <1>3 DEF SameIndex, SameEarnings, magnified, pool_magnified
<1>10. custody_pending_for_store(r) = 0
  <2> DEFINE g == pool_magnified(l) \div MAGNITUDE
  <2>1. custody_pending_for_store(r) = g - P /\ n = g - l.pool_claimed
    BY <1>3, <1>9 DEF custody_pending_for_store, SameEarnings
  <2>2. g \in Int
    <3>1. pool_magnified(l) \in Int
      BY <1>0, LedgerFields DEF pool_magnified
    <3> QED BY <3>1, MagnitudePositive, DivMod
  <2> HIDE DEF g, n
  <2> QED BY <1>t, <2>1, <2>2 DEF P
<1> QED BY <1>1, <1>2, <1>3, <1>4, <1>5, <1>6, <1>7, <1>8, <1>9, <1>10
        DEF Sound, SameWallets, P, W

\* What initialize sets up.
LEMMA InitialSound ==
  ASSUME NEW fee_bps \in 0 .. MAX_FEE_BPS
  PROVE  LET r == initial_ledger(fee_bps) IN
         /\ Sound(r) /\ held(r) = TOTAL_SUPPLY
         /\ \A a \in Accounts : r.raw[a] = 0 /\ r.correction[a] = 0 /\ r.claimed[a] = 0
<1> DEFINE r == initial_ledger(fee_bps)
           z == [a \in Accounts |-> 0]
<1>m. MAGNITUDE \in Nat /\ MAGNITUDE > 0 /\ TOTAL_SUPPLY \in Nat
  BY MagnitudePositive, SupplyAssumption
<1>z. z \in [Accounts -> Nat] /\ z \in [Accounts -> Int] /\ \A a \in Accounts : z[a] = 0
  OBVIOUS
<1>s. total(z) = 0
  BY <1>z, AccountsFinite, SumZero DEF total
<1>1. /\ r.index = 0 /\ r.index_remainder = 0 /\ r.total_shares = 0
      /\ r.aggregate_correction = 0 /\ r.unallocated_fees = 0
      /\ r.lifetime_fees = 0 /\ r.lifetime_materialized = 0
      /\ r.correction = z /\ r.claimed = z
      /\ r.pool_correction = 0 /\ r.pool_claimed = 0
      /\ r.custody_shares = 0 /\ r.lifetime_custody_routed = 0
      /\ r.rounding_reserve = 0 /\ r.raw = z
      /\ r.reward_vault = 0 /\ r.pool_store = 0
      /\ r.distribution_vault = TOTAL_SUPPLY /\ r.lp_vault = 0
  BY DEF initial_ledger
<1>2. r \in Ledger
  <2> HIDE DEF z
  <2>1. 0 \in Nat /\ 0 \in Int
    OBVIOUS
  <2> QED BY <1>m, <1>z, <2>1 DEF initial_ledger, Ledger, z
<1> HIDE DEF r, z
<1>3. shares_match(r) /\ aggregates_match(r)
  BY <1>1, <1>s DEF shares_match, aggregates_match
<1>4. dust_conserved(r)
  BY <1>1, <1>m DEF dust_conserved
<1>5. never_overpaid(r)
  BY <1>1, <1>z, <1>m DEF never_overpaid, magnified, pool_magnified
<1>6. accounting_backing(r)
  <2>1. MAGNITUDE * 0 <= 0 /\ 0 < MAGNITUDE * 0 + MAGNITUDE
    BY <1>m
  <2>2. 0 \div MAGNITUDE = 0
    BY <1>m, <2>1, DivUnique
  <2>3. r.total_shares * r.index + r.aggregate_correction = 0
    BY <1>1
  <2>4. aggregate_liability(r) = 0
    BY <1>1, <2>2, <2>3 DEF aggregate_liability
  <2> QED BY <1>1, <2>4 DEF accounting_backing
<1>7. held(r) = TOTAL_SUPPLY
  BY <1>1, <1>s, <1>m DEF held
<1> QED BY <1>1, <1>2, <1>3, <1>4, <1>5, <1>6, <1>7, <1>z DEF Sound, r
=============================================================================
