------------------------------ MODULE LpProofs ------------------------------
(***************************************************************************)
(* The properties of LpRewards, for every number of providers, every scale *)
(* and every bound.  The operators of LpEpoch are shown first to keep the  *)
(* books of any epoch sound; the steps of LpRewards apply them.            *)
(*                                                                         *)
(* Why the reserve for rounding never falls below zero: the receipts are   *)
(* conserved, so the accrued entitlements are at most the indexed receipts *)
(* (scaled), and their whole units at most the whole indexed receipts.     *)
(***************************************************************************)
EXTENDS LpRewards, SumLemmas

\* The books without the vault: Inv of an epoch less assert_epoch_backing.
Books(e) ==
  /\ e \in Epoch
  /\ positions_match(e)
  /\ receipts_conserved(e)
  /\ never_overpaid(e)
  /\ exits_settled(e)
  /\ ended_without_shares(e)

\* Inv as a predicate of an epoch and the balance of its vault.
Sound(e, v) == v \in Nat /\ Books(e) /\ epoch_backing(e, v)

\* What an epoch and its vault are in a state of the specification.
LEMMA InvIsSound == Inv <=> Sound(epoch, vault)
BY DEF Inv, Sound, Books, TypeOK

\* The fields of an epoch, one by one.
LEMMA EpochFields ==
  ASSUME NEW e \in Epoch
  PROVE  /\ e.status \in {STATUS_ACTIVE, STATUS_CLAIM_ONLY}
         /\ e.index \in Nat /\ e.index_remainder \in Nat /\ e.total_shares \in Nat
         /\ e.aggregate_correction \in Int /\ e.unallocated_rewards \in Nat
         /\ e.rounding_reserve \in Nat /\ e.terminal_rounding_reserve \in Nat
         /\ e.retired_residue_magnified \in Nat /\ e.lifetime_received \in Nat
         /\ e.lifetime_claimed \in Nat /\ e.quarantined \in BOOLEAN
         /\ e.shares \in [Owners -> Nat] /\ e.correction \in [Owners -> Int]
         /\ e.claimed \in [Owners -> Nat]
         /\ e.shares \in [Owners -> Int] /\ e.claimed \in [Owners -> Int]
BY DEF Epoch

\* The total of an integer function over the owners is an integer.
LEMMA TotalType ==
  ASSUME NEW f \in [Owners -> Int]
  PROVE  total(f) \in Int
BY OwnersAssumption, SumType DEF total

\* Changing one owner's entry by d changes the total by d.
LEMMA TotalUpdate ==
  ASSUME NEW f \in [Owners -> Int], NEW o \in Owners, NEW d \in Int
  PROVE  total([f EXCEPT ![o] = f[o] + d]) = total(f) + d
<1> DEFINE g == [f EXCEPT ![o] = f[o] + d]
<1>1. g \in [Owners -> Int] /\ g[o] = f[o] + d
      /\ \A x \in Owners : x # o => g[x] = f[x]
  OBVIOUS
<1> HIDE DEF g
<1>2. total(g) = total(f) + (g[o] - f[o])
  BY <1>1, OwnersAssumption, SumUpdate DEF total
<1>3. total(g) = total(f) + d
  BY <1>1, <1>2, TotalType
<1> QED BY <1>3 DEF g

\* Nobody holds more shares than there are.
LEMMA SharesWithinTotal ==
  ASSUME NEW e \in Epoch, positions_match(e), NEW o \in Owners
  PROVE  e.shares[o] <= e.total_shares
<1>1. e.shares \in [Owners -> Int] /\ \A x \in Owners : e.shares[x] >= 0
  BY EpochFields
<1>2. e.shares[o] <= total(e.shares)
  BY <1>1, OwnersAssumption, SumMember DEF total
<1> QED BY <1>2 DEF positions_match

\* The scale of the index is a positive number.
LEMMA Scale == MAGNITUDE \in Nat /\ MAGNITUDE > 0
BY ScaleAssumption

\* What is accrued to one owner is an integer.
LEMMA MagnifiedType ==
  ASSUME NEW e \in Epoch, NEW o \in Owners
  PROVE  /\ magnified(e, o) \in Int /\ pending_for(e, o) \in Int
         /\ e.shares[o] \in Nat /\ e.correction[o] \in Int /\ e.claimed[o] \in Nat
         /\ e.shares[o] * e.index \in Nat
<1>1. e.shares[o] \in Nat /\ e.correction[o] \in Int /\ e.claimed[o] \in Nat /\ e.index \in Nat
  BY EpochFields
<1>2. magnified(e, o) \in Int /\ e.shares[o] * e.index \in Nat
  BY <1>1 DEF magnified
<1>3. magnified(e, o) \div MAGNITUDE \in Int
  BY <1>2, Scale, DivMod
<1> QED BY <1>1, <1>2, <1>3 DEF pending_for

-----------------------------------------------------------------------------
(* Solvency *)

\* Accrued entitlements of everybody: their total is the aggregate.
LEMMA AccruedTotal ==
  ASSUME NEW e \in Epoch, positions_match(e)
  PROVE  total([o \in Owners |-> magnified(e, o)])
           = e.total_shares * e.index + e.aggregate_correction
<1> DEFINE m == [o \in Owners |-> magnified(e, o)]
<1>1. /\ e.shares \in [Owners -> Int] /\ e.correction \in [Owners -> Int]
      /\ e.index \in Int
  BY EpochFields
<1>2. m \in [Owners -> Int] /\ \A o \in Owners : m[o] = e.correction[o] + e.shares[o] * e.index
  <2>1. \A o \in Owners : /\ magnified(e, o) \in Int
                          /\ magnified(e, o) = e.correction[o] + e.shares[o] * e.index
    BY MagnifiedType DEF magnified
  <2> QED BY <2>1
<1> HIDE DEF m
<1>3. total(m) = total(e.correction) + total(e.shares) * e.index
  BY <1>1, <1>2, OwnersAssumption, SumLinear DEF total
<1>4. total(m) = e.aggregate_correction + e.total_shares * e.index
  BY <1>3 DEF positions_match
<1>5. e.aggregate_correction \in Int /\ e.total_shares * e.index \in Int
  <2>1. e.aggregate_correction \in Int /\ e.total_shares \in Int
    BY EpochFields
  <2> QED BY <2>1, <1>1
<1> QED BY <1>4, <1>5 DEF m

\* The aggregate in whole units is within the indexed receipts, so the reserve
\* for rounding is never negative (aggregate_liability, recompute_rounding).
LEMMA LiabilityBound ==
  ASSUME NEW e \in Epoch, receipts_conserved(e)
  PROVE  /\ aggregate_liability(e) \in Int
         /\ aggregate_liability(e) + e.unallocated_rewards
              <= e.lifetime_received - e.lifetime_claimed
<1> DEFINE T == e.total_shares * e.index + e.aggregate_correction
           R == e.lifetime_received - e.unallocated_rewards
           q == T \div MAGNITUDE
<1>1. /\ e.index_remainder \in Nat /\ e.retired_residue_magnified \in Nat
      /\ e.lifetime_claimed \in Nat /\ e.unallocated_rewards \in Nat
      /\ e.lifetime_received \in Nat /\ R \in Int
  BY EpochFields
<1>2. T \in Int
  <2>1. e.total_shares \in Int /\ e.index \in Int /\ e.aggregate_correction \in Int
    BY EpochFields
  <2> QED BY <2>1
<1>3. T + e.index_remainder + e.retired_residue_magnified = MAGNITUDE * R
  BY DEF receipts_conserved
<1>q. q \in Int /\ MAGNITUDE * q <= T
  BY <1>2, Scale, DivMod, DivBound
<1>l. aggregate_liability(e) = q - e.lifetime_claimed
  BY DEF aggregate_liability
<1> HIDE DEF T, q
<1>4. T <= MAGNITUDE * R
  <2>1. MAGNITUDE * R \in Int
    BY <1>1, Scale
  <2> HIDE DEF R
  <2> QED BY <1>1, <1>2, <1>3, <2>1
<1>5. MAGNITUDE * q <= MAGNITUDE * R
  <2>1. MAGNITUDE * R \in Int /\ MAGNITUDE * q \in Int
    BY <1>1, <1>q, Scale
  <2> HIDE DEF R
  <2> QED BY <1>q, <1>2, <1>4, <2>1
<1>6. q <= R
  <2> HIDE DEF R
  <2> QED BY <1>1, <1>q, <1>5, Scale, CancelLeq DEF R
<1> QED BY <1>1, <1>q, <1>l, <1>6

\* pending_for never underflows, and everybody's whole pending rewards are
\* within the aggregate liability: the floors add up to no more than the floor.
LEMMA PendingWithinLiability ==
  ASSUME NEW e \in Epoch, positions_match(e), never_overpaid(e)
  PROVE  /\ \A o \in Owners : magnified(e, o) >= 0 /\ pending_for(e, o) >= 0
         /\ total([o \in Owners |-> pending_for(e, o)]) \in Int
         /\ total([o \in Owners |-> pending_for(e, o)]) <= aggregate_liability(e)
         /\ \A q \in Owners : pending_for(e, q) <= total([o \in Owners |-> pending_for(e, o)])
<1> DEFINE p == [o \in Owners |-> pending_for(e, o)]
           m == [o \in Owners |-> magnified(e, o)]
           z == [o \in Owners |-> 0]
           u == [o \in Owners |-> MAGNITUDE * p[o]]
           c == [o \in Owners |-> MAGNITUDE * e.claimed[o]]
           w == [o \in Owners |-> u[o] + c[o]]
           T == e.total_shares * e.index + e.aggregate_correction
<1>1. \A o \in Owners : /\ magnified(e, o) \in Int /\ pending_for(e, o) \in Int
                        /\ e.claimed[o] \in Nat
  BY MagnifiedType
<1>2. ASSUME NEW o \in Owners
      PROVE  /\ magnified(e, o) >= 0 /\ pending_for(e, o) >= 0
             /\ MAGNITUDE * pending_for(e, o) + MAGNITUDE * e.claimed[o] <= magnified(e, o)
  <2> DEFINE k == magnified(e, o)
             q == k \div MAGNITUDE
             d == e.claimed[o]
  <2>1. k \in Int /\ d \in Nat /\ MAGNITUDE * d <= k
    BY <1>1 DEF never_overpaid
  <2>2. d <= q /\ q \in Int /\ MAGNITUDE * q <= k
    BY <2>1, Scale, DivMono, DivMod, DivBound
  <2>3. pending_for(e, o) = q - d
    BY DEF pending_for
  <2> HIDE DEF k, q, d
  <2>4. MAGNITUDE * d \in Nat /\ MAGNITUDE * q \in Int
    BY <2>1, <2>2, Scale
  <2>5. MAGNITUDE * (q - d) + MAGNITUDE * d = MAGNITUDE * q
    BY <2>1, <2>2, Scale
  <2> QED BY <2>1, <2>2, <2>3, <2>4, <2>5 DEF k, d
<1>3. /\ p \in [Owners -> Int] /\ m \in [Owners -> Int] /\ z \in [Owners -> Int]
      /\ e.claimed \in [Owners -> Int]
      /\ \A o \in Owners : p[o] \in Int /\ e.claimed[o] \in Int
  BY <1>1, EpochFields
<1>4. /\ u \in [Owners -> Int] /\ c \in [Owners -> Int] /\ w \in [Owners -> Int]
      /\ \A o \in Owners : u[o] = z[o] + p[o] * MAGNITUDE
                           /\ c[o] = z[o] + e.claimed[o] * MAGNITUDE
                           /\ w[o] = u[o] + c[o] * 1
                           /\ w[o] = MAGNITUDE * p[o] + MAGNITUDE * e.claimed[o]
  <2>1. \A o \in Owners : MAGNITUDE * p[o] \in Int /\ MAGNITUDE * e.claimed[o] \in Int
    BY <1>3, Scale
  <2> QED BY <1>3, <2>1, Scale
<1>5. \A o \in Owners : w[o] <= m[o]
  BY <1>2, <1>4
<1>6. \A o \in Owners : p[o] >= 0 /\ z[o] = 0
  BY <1>2
<1> HIDE DEF p, m, z, u, c, w
<1>7. /\ total(u) = total(z) + total(p) * MAGNITUDE
      /\ total(c) = total(z) + total(e.claimed) * MAGNITUDE
      /\ total(w) = total(u) + total(c) * 1
  <2>0. MAGNITUDE \in Int /\ 1 \in Int
    BY Scale
  <2>1. total(u) = total(z) + total(p) * MAGNITUDE
    <3>1. /\ p \in [Owners -> Int] /\ z \in [Owners -> Int] /\ u \in [Owners -> Int]
          /\ \A o \in Owners : u[o] = z[o] + p[o] * MAGNITUDE
      BY <1>3, <1>4
    <3> QED BY <2>0, <3>1, OwnersAssumption, SumLinear, ZenonT(60) DEF total
  <2>2. total(c) = total(z) + total(e.claimed) * MAGNITUDE
    <3> DEFINE d == e.claimed
    <3>1. /\ d \in [Owners -> Int] /\ z \in [Owners -> Int] /\ c \in [Owners -> Int]
          /\ \A o \in Owners : c[o] = z[o] + d[o] * MAGNITUDE
      BY <1>3, <1>4
    <3> HIDE DEF d
    <3>2. total(c) = total(z) + total(d) * MAGNITUDE
      BY <2>0, <3>1, OwnersAssumption, SumLinear, ZenonT(60) DEF total
    <3> QED BY <3>2 DEF d
  <2>3. total(w) = total(u) + total(c) * 1
    <3>1. /\ u \in [Owners -> Int] /\ c \in [Owners -> Int] /\ w \in [Owners -> Int]
          /\ \A o \in Owners : w[o] = u[o] + c[o] * 1
      BY <1>4
    <3> QED BY <2>0, <3>1, OwnersAssumption, SumLinear DEF total
  <2> QED BY <2>1, <2>2, <2>3
<1>8. total(z) = 0 /\ total(w) <= total(m)
  BY <1>3, <1>4, <1>5, <1>6, OwnersAssumption, SumZero, SumMonotone DEF total
<1>9. total(m) = T
  BY AccruedTotal DEF m
<1>10. total(p) \in Int /\ total(e.claimed) \in Int /\ total(u) \in Int /\ total(c) \in Int
       /\ total(m) \in Int
  BY <1>3, <1>4, TotalType
<1>11. total(e.claimed) = e.lifetime_claimed
  BY DEF positions_match
<1>12. MAGNITUDE * (total(p) + e.lifetime_claimed) <= T
  <2> HIDE DEF T
  <2>1. total(w) = total(p) * MAGNITUDE + e.lifetime_claimed * MAGNITUDE
    <3>1. total(p) * MAGNITUDE \in Int /\ total(e.claimed) * MAGNITUDE \in Int
      BY <1>10, Scale
    <3> QED BY <3>1, <1>7, <1>8, <1>10, <1>11
  <2>2. MAGNITUDE * (total(p) + e.lifetime_claimed)
          = total(p) * MAGNITUDE + e.lifetime_claimed * MAGNITUDE
    BY <1>10, <1>11, Scale
  <2> QED BY <2>1, <2>2, <1>8, <1>9
<1>13. total(p) + e.lifetime_claimed <= T \div MAGNITUDE
  <2>1. T \in Int
    BY <1>9, <1>10
  <2> HIDE DEF T
  <2> QED BY <2>1, <1>10, <1>11, <1>12, Scale, DivMono
<1>14. total(p) <= aggregate_liability(e)
  <2>1. T \div MAGNITUDE \in Int
    BY <1>9, <1>10, Scale, DivMod
  <2>2. aggregate_liability(e) = T \div MAGNITUDE - e.lifetime_claimed
    BY DEF aggregate_liability
  <2> QED BY <2>1, <2>2, <1>10, <1>11, <1>13
<1>15. \A o \in Owners : p[o] <= total(p)
  BY <1>3, <1>6, OwnersAssumption, SumMember DEF total
<1> QED BY <1>2, <1>10, <1>14, <1>15 DEF p

\* Recomputing the reserve for rounding makes an epoch's books back the vault
\* (recompute_rounding's checked subtraction aborts nothing).
LEMMA Recompute ==
  ASSUME NEW e, Books(e), NEW v \in Nat, v = e.lifetime_received - e.lifetime_claimed,
         e.status = STATUS_ACTIVE
  PROVE  /\ Sound(recompute_rounding(e, v), v)
         /\ v - (aggregate_liability(e) + e.unallocated_rewards) \in Nat
         /\ aggregate_liability(recompute_rounding(e, v)) = aggregate_liability(e)
<1> DEFINE r == recompute_rounding(e, v)
           d == v - (aggregate_liability(e) + e.unallocated_rewards)
<1>0. e \in Epoch /\ receipts_conserved(e)
  BY DEF Books
<1>1. aggregate_liability(e) \in Int /\ e.unallocated_rewards \in Nat
      /\ aggregate_liability(e) + e.unallocated_rewards <= v
  BY <1>0, LiabilityBound, EpochFields
<1>2. d \in Nat
  BY <1>1
<1>3. r = [e EXCEPT !.rounding_reserve = d]
  BY DEF recompute_rounding
<1> HIDE DEF d
<1>4. r \in Epoch
  BY <1>0, <1>2, <1>3 DEF Epoch
<1>5. /\ r.status = e.status /\ r.index = e.index /\ r.index_remainder = e.index_remainder
      /\ r.total_shares = e.total_shares /\ r.aggregate_correction = e.aggregate_correction
      /\ r.unallocated_rewards = e.unallocated_rewards
      /\ r.retired_residue_magnified = e.retired_residue_magnified
      /\ r.lifetime_received = e.lifetime_received /\ r.lifetime_claimed = e.lifetime_claimed
      /\ r.quarantined = e.quarantined /\ r.shares = e.shares
      /\ r.correction = e.correction /\ r.claimed = e.claimed
      /\ r.rounding_reserve = d
  BY <1>0, <1>3 DEF Epoch
<1> HIDE DEF r
<1>6. Books(r)
  BY <1>4, <1>5 DEF Books, positions_match, receipts_conserved, never_overpaid, magnified,
                    exits_settled, ended_without_shares
<1>7. aggregate_liability(r) = aggregate_liability(e)
  BY <1>5 DEF aggregate_liability
<1>8. epoch_backing(r, v)
  <2>1. STATUS_ACTIVE # STATUS_CLAIM_ONLY
    BY DEF STATUS_ACTIVE, STATUS_CLAIM_ONLY
  <2>2. v = aggregate_liability(e) + e.unallocated_rewards + d
    BY <1>1 DEF d
  <2> QED BY <1>5, <1>7, <2>1, <2>2 DEF epoch_backing
<1> QED BY <1>2, <1>6, <1>7, <1>8 DEF Sound, r, d

-----------------------------------------------------------------------------
(* Rewards *)

\* A routed reward is indexed over the shares there are, or set aside and the
\* epoch quarantined; either way the books stay sound.
LEMMA ReceiveSound ==
  ASSUME NEW e, NEW v, Sound(e, v), assert_active_mutation(e), NEW amount \in Nat
  PROVE  LET r == receive_routed_reward(e, amount, v + amount) IN
         /\ Sound(r, v + amount)
         /\ r.shares = e.shares /\ r.correction = e.correction
         /\ r.index \in Nat /\ r.index >= e.index
<1> DEFINE numerator == amount * MAGNITUDE + e.index_remainder
           B == [e EXCEPT !.lifetime_received = @ + amount]
           aside == [B EXCEPT !.unallocated_rewards = @ + amount, !.quarantined = TRUE]
           shared == [B EXCEPT !.index = @ + numerator \div e.total_shares,
                               !.index_remainder = numerator % e.total_shares]
           n == IF e.total_shares = 0 THEN aside ELSE shared
           r == receive_routed_reward(e, amount, v + amount)
<1>0. /\ e \in Epoch /\ v \in Nat /\ Books(e) /\ epoch_backing(e, v)
      /\ e.status = STATUS_ACTIVE /\ ~e.quarantined
  BY DEF Sound, Books, assert_active_mutation
<1>1. r = recompute_rounding(n, v + amount)
  BY DEF receive_routed_reward
<1>f. /\ e.index \in Nat /\ e.index_remainder \in Nat /\ e.total_shares \in Nat
      /\ e.aggregate_correction \in Int /\ e.unallocated_rewards \in Nat
      /\ e.retired_residue_magnified \in Nat /\ e.lifetime_received \in Nat
      /\ e.lifetime_claimed \in Nat
  BY <1>0, EpochFields
<1>2. numerator \in Nat
  <2>1. amount * MAGNITUDE \in Nat
    BY Scale
  <2> QED BY <2>1, <1>f
<1> HIDE DEF numerator
<1>b. /\ B \in Epoch
      /\ B.status = e.status /\ B.index = e.index /\ B.index_remainder = e.index_remainder
      /\ B.total_shares = e.total_shares /\ B.aggregate_correction = e.aggregate_correction
      /\ B.unallocated_rewards = e.unallocated_rewards
      /\ B.retired_residue_magnified = e.retired_residue_magnified
      /\ B.lifetime_received = e.lifetime_received + amount
      /\ B.lifetime_claimed = e.lifetime_claimed /\ B.quarantined = e.quarantined
      /\ B.shares = e.shares /\ B.correction = e.correction /\ B.claimed = e.claimed
  <2> DEFINE L == e.lifetime_received + amount
  <2>1. L \in Nat /\ B = [e EXCEPT !.lifetime_received = L]
    BY <1>f
  <2> HIDE DEF L, B
  <2>2. B \in Epoch
    BY <1>0, <2>1 DEF Epoch
  <2> QED BY <1>0, <2>1, <2>2 DEF Epoch, L
<1> HIDE DEF B
<1>3. /\ Books(n) /\ n.status = STATUS_ACTIVE
      /\ n.lifetime_received = e.lifetime_received + amount
      /\ n.lifetime_claimed = e.lifetime_claimed
      /\ n.shares = e.shares /\ n.correction = e.correction
      /\ n.index \in Nat /\ n.index >= e.index
  <2>1. CASE e.total_shares = 0
    <3>1. n = aside
      BY <2>1
    <3>2. /\ aside \in Epoch
          /\ aside.status = e.status /\ aside.index = e.index
          /\ aside.index_remainder = e.index_remainder
          /\ aside.total_shares = e.total_shares
          /\ aside.aggregate_correction = e.aggregate_correction
          /\ aside.unallocated_rewards = e.unallocated_rewards + amount
          /\ aside.retired_residue_magnified = e.retired_residue_magnified
          /\ aside.lifetime_received = e.lifetime_received + amount
          /\ aside.lifetime_claimed = e.lifetime_claimed
          /\ aside.quarantined = TRUE /\ aside.shares = e.shares
          /\ aside.correction = e.correction /\ aside.claimed = e.claimed
      <4> DEFINE A == B.unallocated_rewards + amount
      <4>1. A \in Nat /\ A = e.unallocated_rewards + amount
            /\ aside = [B EXCEPT !.unallocated_rewards = A, !.quarantined = TRUE]
        BY <1>b, <1>f
      <4> HIDE DEF A, aside
      <4>2. aside \in Epoch
        BY <1>b, <4>1 DEF Epoch
      <4> QED BY <1>b, <4>1, <4>2 DEF Epoch
    <3> HIDE DEF aside, n
    <3>3. (e.lifetime_received + amount) - (e.unallocated_rewards + amount)
            = e.lifetime_received - e.unallocated_rewards
      BY <1>f
    <3>4. receipts_conserved(aside)
      BY <1>0, <3>2, <3>3 DEF Books, receipts_conserved
    <3>5. Books(aside)
      BY <1>0, <2>1, <3>2, <3>4 DEF Books, positions_match, never_overpaid, magnified,
                                    exits_settled, ended_without_shares
    <3> QED BY <1>0, <1>f, <3>1, <3>2, <3>5
  <2>2. CASE e.total_shares # 0
    <3> DEFINE q == numerator \div e.total_shares
               m == numerator % e.total_shares
    <3>0. e.total_shares > 0
      BY <2>2, <1>f
    <3>1. q \in Int /\ m \in Int /\ numerator = e.total_shares * q + m /\ 0 <= m
      <4> DEFINE S == e.total_shares
      <4>1. S \in Nat /\ S > 0
        BY <3>0, <1>f
      <4> HIDE DEF S
      <4>2. LET a == numerator \div S  b == numerator % S
            IN  a \in Int /\ b \in Int /\ numerator = S * a + b /\ 0 <= b
        BY <4>1, <1>2, DivMod
      <4> QED BY <4>2 DEF S
    <3>2. q \in Nat
      <4>1. e.total_shares * 0 <= numerator
        BY <1>f, <1>2
      <4>2. 0 <= q
        <5> DEFINE S == e.total_shares
        <5>1. S \in Nat /\ S > 0 /\ S * 0 <= numerator
          BY <4>1, <3>0, <1>f
        <5> HIDE DEF S
        <5>2. 0 <= numerator \div S
          BY <5>1, <1>2, DivMono
        <5> QED BY <5>2 DEF S
      <4> QED BY <3>1, <4>2
    <3>3. n = [B EXCEPT !.index = @ + q, !.index_remainder = m]
      BY <2>2
    <3> HIDE DEF q, m
    <3>4. /\ n \in Epoch
          /\ n.status = e.status /\ n.index = e.index + q
          /\ n.index_remainder = m
          /\ n.total_shares = e.total_shares
          /\ n.aggregate_correction = e.aggregate_correction
          /\ n.unallocated_rewards = e.unallocated_rewards
          /\ n.retired_residue_magnified = e.retired_residue_magnified
          /\ n.lifetime_received = e.lifetime_received + amount
          /\ n.lifetime_claimed = e.lifetime_claimed
          /\ n.quarantined = e.quarantined /\ n.shares = e.shares
          /\ n.correction = e.correction /\ n.claimed = e.claimed
      <4> DEFINE I == B.index + q
      <4>1. I \in Nat /\ m \in Nat /\ I = e.index + q
            /\ n = [B EXCEPT !.index = I, !.index_remainder = m]
        <5> HIDE DEF n, aside, shared
        <5> QED BY <1>b, <1>f, <3>1, <3>2, <3>3
      <4> HIDE DEF I, n, aside, shared
      <4>2. n \in Epoch
        BY <1>b, <4>1 DEF Epoch
      <4> QED BY <1>b, <4>1, <4>2 DEF Epoch
    <3> HIDE DEF aside, shared, n
    <3>5. receipts_conserved(n)
      <4> DEFINE S == e.total_shares
                 U == e.lifetime_received - e.unallocated_rewards
      <4>1. S * (e.index + q) = S * e.index + S * q /\ S * e.index \in Int /\ S * q \in Int
        BY <1>f, <3>2
      <4>2. S * q + m = amount * MAGNITUDE + e.index_remainder
        BY <3>1 DEF numerator
      <4>3. MAGNITUDE * (U + amount) = MAGNITUDE * U + amount * MAGNITUDE
            /\ MAGNITUDE * U \in Int /\ amount * MAGNITUDE \in Int
        BY <1>f, Scale
      <4>4. S * e.index + e.aggregate_correction + e.index_remainder
              + e.retired_residue_magnified = MAGNITUDE * U
        BY <1>0 DEF Books, receipts_conserved
      <4>5. (e.lifetime_received + amount) - e.unallocated_rewards = U + amount
        BY <1>f
      <4>6. n.total_shares * n.index = S * (e.index + q)
        BY <3>4
      <4>7. MAGNITUDE * (n.lifetime_received - n.unallocated_rewards) = MAGNITUDE * (U + amount)
        BY <3>4, <4>5
      <4> HIDE DEF S, U
      <4>8. (S * e.index + S * q) + e.aggregate_correction + m + e.retired_residue_magnified
              = MAGNITUDE * U + amount * MAGNITUDE
        <5> DEFINE a == S * e.index
                   b == S * q
                   c == MAGNITUDE * U
                   d == amount * MAGNITUDE
                   f == e.aggregate_correction
                   g == e.retired_residue_magnified
                   h == e.index_remainder
        <5>1. a \in Int /\ b \in Int /\ c \in Int /\ d \in Int /\ f \in Int /\ g \in Int
              /\ h \in Int /\ m \in Int
          BY <1>f, <3>1, <4>1, <4>3
        <5>2. a + f + h + g = c /\ b + m = d + h
          BY <4>2, <4>4
        <5> HIDE DEF a, b, c, d, f, g, h
        <5>3. (a + b) + f + m + g = c + d
          BY <5>1, <5>2
        <5> QED BY <5>3 DEF a, b, c, d, f, g
      <4>9. /\ n.aggregate_correction = e.aggregate_correction /\ n.index_remainder = m
            /\ n.retired_residue_magnified = e.retired_residue_magnified
        BY <3>4
      <4> QED BY <4>1, <4>3, <4>6, <4>7, <4>8, <4>9 DEF receipts_conserved
    <3>6. never_overpaid(n)
      <4> SUFFICES ASSUME NEW o \in Owners
                   PROVE  magnified(n, o) >= MAGNITUDE * n.claimed[o]
        BY DEF never_overpaid
      <4>1. /\ magnified(e, o) \in Int /\ e.shares[o] \in Nat /\ e.correction[o] \in Int
            /\ e.claimed[o] \in Nat
        BY <1>0, MagnifiedType
      <4>2. e.shares[o] * (e.index + q) = e.shares[o] * e.index + e.shares[o] * q
            /\ e.shares[o] * e.index \in Nat /\ e.shares[o] * q \in Nat
        BY <4>1, <1>f, <3>2
      <4>3. magnified(n, o) = e.shares[o] * (e.index + q) + e.correction[o]
        BY <3>4 DEF magnified
      <4>4. magnified(e, o) = e.shares[o] * e.index + e.correction[o]
        BY DEF magnified
      <4>5. magnified(e, o) >= MAGNITUDE * e.claimed[o] /\ MAGNITUDE * e.claimed[o] \in Int
        BY <1>0, <4>1, Scale DEF Books, never_overpaid
      <4>6. magnified(n, o) >= MAGNITUDE * e.claimed[o]
        BY <4>1, <4>2, <4>3, <4>4, <4>5
      <4> QED BY <4>6, <3>4
    <3>7. Books(n)
      BY <1>0, <3>4, <3>5, <3>6 DEF Books, positions_match, exits_settled, ended_without_shares
    <3> QED BY <1>0, <1>f, <3>2, <3>4, <3>7
  <2> QED BY <2>1, <2>2
<1>4. v + amount = n.lifetime_received - n.lifetime_claimed /\ v + amount \in Nat
  <2>1. v = e.lifetime_received - e.lifetime_claimed
    BY <1>0 DEF epoch_backing
  <2> HIDE DEF n
  <2> QED BY <1>0, <1>3, <1>f, <2>1
<1> HIDE DEF n
<1>5. Sound(r, v + amount)
  BY <1>1, <1>3, <1>4, Recompute
<1>6. r.shares = n.shares /\ r.correction = n.correction /\ r.index = n.index
  <2>1. n \in Epoch
    BY <1>3 DEF Books
  <2> QED BY <1>1, <2>1 DEF recompute_rounding, Epoch
<1> QED BY <1>3, <1>5, <1>6

-----------------------------------------------------------------------------
(* Shares *)

\* r is e with n more shares of o (fewer if n < 0), at the index of e: what
\* minting, burning and each half of a transfer do to the books.
Shifted(e, r, o, n) ==
  /\ r.status = e.status /\ r.index = e.index /\ r.index_remainder = e.index_remainder
  /\ r.unallocated_rewards = e.unallocated_rewards
  /\ r.rounding_reserve = e.rounding_reserve
  /\ r.terminal_rounding_reserve = e.terminal_rounding_reserve
  /\ r.retired_residue_magnified = e.retired_residue_magnified
  /\ r.lifetime_received = e.lifetime_received /\ r.lifetime_claimed = e.lifetime_claimed
  /\ r.quarantined = e.quarantined /\ r.claimed = e.claimed
  /\ r.total_shares = e.total_shares + n
  /\ r.aggregate_correction = e.aggregate_correction - n * e.index
  /\ r.shares = [e.shares EXCEPT ![o] = e.shares[o] + n]
  /\ r.correction = [e.correction EXCEPT ![o] = e.correction[o] - n * e.index]

\* The books while the positions in X may still have to be normalized.
SoundBut(e, v, X) ==
  /\ v \in Nat /\ e \in Epoch
  /\ positions_match(e) /\ receipts_conserved(e) /\ never_overpaid(e)
  /\ \A o \in Owners \ X : e.shares[o] = 0 => e.correction[o] = MAGNITUDE * e.claimed[o]
  /\ epoch_backing(e, v)

\* Sound books are sound with nobody left to normalize.
LEMMA SoundMeansSettled ==
  ASSUME NEW e, NEW v
  PROVE  Sound(e, v) <=> SoundBut(e, v, {}) /\ ended_without_shares(e)
BY DEF Sound, SoundBut, Books, exits_settled

\* A shift moves no entitlement: nobody's accrued reward changes, nor does the
\* aggregate, so the vault stays backed.
LEMMA ShiftSound ==
  ASSUME NEW e, NEW r \in Epoch, NEW v, NEW X, NEW o \in Owners, NEW n \in Int,
         SoundBut(e, v, X), Shifted(e, r, o, n), NEW Y, X \subseteq Y, o \in Y
  PROVE  /\ SoundBut(r, v, Y)
         /\ \A p \in Owners : magnified(r, p) = magnified(e, p)
         /\ \A p \in Owners : p # o => r.shares[p] = e.shares[p]
                                       /\ r.correction[p] = e.correction[p]
         /\ r.shares[o] = e.shares[o] + n
         /\ r.correction[o] = e.correction[o] - n * e.index
<1>0. e \in Epoch /\ v \in Nat
  BY DEF SoundBut
<1> DEFINE i == e.index
           S == e.shares
           C == e.correction
<1>f. /\ i \in Nat /\ e.total_shares \in Nat /\ e.aggregate_correction \in Int
      /\ S \in [Owners -> Int] /\ C \in [Owners -> Int]
      /\ \A p \in Owners : S[p] \in Nat /\ C[p] \in Int /\ e.claimed[p] \in Nat
  BY <1>0, EpochFields
<1>n. n * i \in Int /\ -(n * i) \in Int
  BY <1>f
<1>1. /\ r.index = i
      /\ r.shares = [S EXCEPT ![o] = S[o] + n]
      /\ r.correction = [C EXCEPT ![o] = C[o] + -(n * i)]
      /\ r.total_shares = e.total_shares + n
      /\ r.aggregate_correction = e.aggregate_correction + -(n * i)
  <2>1. C[o] - n * i = C[o] + -(n * i)
        /\ e.aggregate_correction - n * i = e.aggregate_correction + -(n * i)
    BY <1>f, <1>n
  <2> QED BY <2>1 DEF Shifted
<1> HIDE DEF i, S, C
<1>2. /\ \A p \in Owners : p # o => r.shares[p] = S[p] /\ r.correction[p] = C[p]
      /\ r.shares[o] = S[o] + n /\ r.correction[o] = C[o] + -(n * i)
  BY <1>1, <1>f
<1>3. total(r.shares) = total(S) + n /\ total(r.correction) = total(C) + -(n * i)
  <2> DEFINE d == -(n * i)
  <2>0. d \in Int
    BY <1>n
  <2> HIDE DEF d
  <2>1. total([S EXCEPT ![o] = S[o] + n]) = total(S) + n
    BY <1>f, TotalUpdate
  <2>2. total([C EXCEPT ![o] = C[o] + d]) = total(C) + d
    BY <1>f, <2>0, TotalUpdate
  <2> QED BY <1>1, <2>1, <2>2 DEF d
<1>4. positions_match(r)
  <2>1. r.lifetime_claimed = e.lifetime_claimed /\ r.claimed = e.claimed
    BY DEF Shifted
  <2>2. e.total_shares = total(S) /\ e.aggregate_correction = total(C)
        /\ e.lifetime_claimed = total(e.claimed)
    BY DEF SoundBut, positions_match, S, C
  <2> QED BY <1>1, <1>3, <2>1, <2>2 DEF positions_match
<1>5. ASSUME NEW p \in Owners PROVE magnified(r, p) = magnified(e, p)
  <2>1. magnified(e, p) = S[p] * i + C[p]
    BY DEF magnified, S, C, i
  <2>2. magnified(r, p) = r.shares[p] * i + r.correction[p]
    BY <1>1 DEF magnified
  <2>3. CASE p = o
    <3>1. (S[o] + n) * i = S[o] * i + n * i
      BY <1>f, Distribute
    <3>2. S[o] * i \in Int /\ C[o] \in Int
      BY <1>f
    <3> QED BY <2>1, <2>2, <2>3, <1>2, <1>n, <3>1, <3>2
  <2>4. CASE p # o
    BY <2>1, <2>2, <2>4, <1>2
  <2> QED BY <2>3, <2>4
<1>6. r.total_shares * r.index + r.aggregate_correction
        = e.total_shares * e.index + e.aggregate_correction
  <2>1. (e.total_shares + n) * i = e.total_shares * i + n * i
    BY <1>f, Distribute
  <2>2. e.total_shares * i \in Int
    BY <1>f
  <2>3. (e.total_shares + n) * i + (e.aggregate_correction + -(n * i))
          = e.total_shares * i + e.aggregate_correction
    BY <1>f, <1>n, <2>1, <2>2
  <2> QED BY <1>1, <2>3 DEF i
<1>7. receipts_conserved(r)
  <2>1. /\ r.index_remainder = e.index_remainder
        /\ r.retired_residue_magnified = e.retired_residue_magnified
        /\ r.lifetime_received = e.lifetime_received
        /\ r.unallocated_rewards = e.unallocated_rewards
    BY DEF Shifted
  <2> QED BY <1>6, <2>1 DEF SoundBut, receipts_conserved
<1>8. never_overpaid(r)
  <2>1. r.claimed = e.claimed
    BY DEF Shifted
  <2> QED BY <1>5, <2>1 DEF SoundBut, never_overpaid
<1>9. epoch_backing(r, v)
  <2>1. aggregate_liability(r) = aggregate_liability(e)
    <3>1. r.lifetime_claimed = e.lifetime_claimed
      BY DEF Shifted
    <3> QED BY <1>6, <3>1 DEF aggregate_liability
  <2>2. /\ r.status = e.status /\ r.lifetime_received = e.lifetime_received
        /\ r.unallocated_rewards = e.unallocated_rewards
        /\ r.lifetime_claimed = e.lifetime_claimed
        /\ r.rounding_reserve = e.rounding_reserve
        /\ r.terminal_rounding_reserve = e.terminal_rounding_reserve
    BY DEF Shifted
  <2> QED BY <2>1, <2>2 DEF SoundBut, epoch_backing
<1>10. \A p \in Owners \ Y :
         r.shares[p] = 0 => r.correction[p] = MAGNITUDE * r.claimed[p]
  <2>1. r.claimed = e.claimed
    BY DEF Shifted
  <2> QED BY <1>2, <2>1 DEF SoundBut, S, C
<1>11. r.correction[o] = e.correction[o] - n * e.index
  BY <1>2, <1>f, <1>n DEF C, i
<1> QED BY <1>0, <1>2, <1>4, <1>5, <1>7, <1>8, <1>9, <1>10, <1>11 DEF SoundBut, S, C

\* Minting is a shift.
LEMMA MintShifts ==
  ASSUME NEW e \in Epoch, NEW o \in Owners, NEW amount \in Nat
  PROVE  LET r == mint_active(e, o, amount) IN r \in Epoch /\ Shifted(e, r, o, amount)
<1> DEFINE r == mint_active(e, o, amount)
           S == [e.shares EXCEPT ![o] = e.shares[o] + amount]
           C == [e.correction EXCEPT ![o] = e.correction[o] - amount * e.index]
           A == e.aggregate_correction - amount * e.index
           T == e.total_shares + amount
<1>f. /\ e.index \in Nat /\ e.total_shares \in Nat /\ e.aggregate_correction \in Int
      /\ e.shares \in [Owners -> Nat] /\ e.correction \in [Owners -> Int]
      /\ e.shares[o] \in Nat /\ e.correction[o] \in Int
  BY EpochFields
<1>n. amount * e.index \in Int
  BY <1>f
<1>1. S \in [Owners -> Nat] /\ C \in [Owners -> Int] /\ A \in Int /\ T \in Nat
  <2>1. e.shares[o] + amount \in Nat /\ e.correction[o] - amount * e.index \in Int
    BY <1>f, <1>n
  <2> QED BY <1>f, <1>n, <2>1
<1>2. r = [e EXCEPT !.shares = S, !.correction = C, !.aggregate_correction = A,
                    !.total_shares = T]
  BY DEF mint_active
<1> HIDE DEF r, S, C, A, T
<1>3. r \in Epoch
  BY <1>1, <1>2 DEF Epoch
<1>4. Shifted(e, r, o, amount)
  <2>1. /\ r.status = e.status /\ r.index = e.index /\ r.index_remainder = e.index_remainder
        /\ r.unallocated_rewards = e.unallocated_rewards
        /\ r.rounding_reserve = e.rounding_reserve
        /\ r.terminal_rounding_reserve = e.terminal_rounding_reserve
        /\ r.retired_residue_magnified = e.retired_residue_magnified
        /\ r.lifetime_received = e.lifetime_received
        /\ r.lifetime_claimed = e.lifetime_claimed
        /\ r.quarantined = e.quarantined /\ r.claimed = e.claimed
        /\ r.total_shares = T /\ r.aggregate_correction = A
        /\ r.shares = S /\ r.correction = C
    BY <1>2 DEF Epoch
  <2> QED BY <2>1 DEF Shifted, S, C, A, T
<1> QED BY <1>3, <1>4 DEF r

\* So is a burn, before the position is normalized.
LEMMA BurnShifts ==
  ASSUME NEW e \in Epoch, positions_match(e), NEW o \in Owners, NEW amount \in Nat,
         e.shares[o] >= amount
  PROVE  LET r == burned(e, o, amount) IN r \in Epoch /\ Shifted(e, r, o, -amount)
<1> DEFINE r == burned(e, o, amount)
           S == [e.shares EXCEPT ![o] = e.shares[o] - amount]
           C == [e.correction EXCEPT ![o] = e.correction[o] + amount * e.index]
           A == e.aggregate_correction + amount * e.index
           T == e.total_shares - amount
<1>f. /\ e.index \in Nat /\ e.total_shares \in Nat /\ e.aggregate_correction \in Int
      /\ e.shares \in [Owners -> Nat] /\ e.correction \in [Owners -> Int]
      /\ e.shares[o] \in Nat /\ e.correction[o] \in Int
      /\ e.shares[o] <= e.total_shares
  BY EpochFields, SharesWithinTotal
<1>n. amount * e.index \in Int
  BY <1>f
<1>1. S \in [Owners -> Nat] /\ C \in [Owners -> Int] /\ A \in Int /\ T \in Nat
  <2>1. e.shares[o] - amount \in Nat /\ e.correction[o] + amount * e.index \in Int
        /\ T \in Nat
    BY <1>f, <1>n
  <2> QED BY <1>f, <1>n, <2>1
<1>2. r = [[e EXCEPT !.shares = S, !.correction = C] EXCEPT !.aggregate_correction = A,
                                                            !.total_shares = T]
  <2> DEFINE d == [e EXCEPT !.shares = S, !.correction = C]
  <2>1. d = reduced(e, o, amount)
    BY DEF reduced
  <2>2. d.aggregate_correction = e.aggregate_correction /\ d.total_shares = e.total_shares
    <3> HIDE DEF S, C
    <3> QED BY DEF Epoch
  <2> HIDE DEF d
  <2>3. r = [d EXCEPT !.aggregate_correction = A, !.total_shares = T]
    BY <2>1, <2>2 DEF burned
  <2> QED BY <2>3 DEF d
<1> HIDE DEF r, S, C, A, T
<1>3. r \in Epoch
  BY <1>1, <1>2 DEF Epoch
<1>4. Shifted(e, r, o, -amount)
  <2>1. /\ r.status = e.status /\ r.index = e.index /\ r.index_remainder = e.index_remainder
        /\ r.unallocated_rewards = e.unallocated_rewards
        /\ r.rounding_reserve = e.rounding_reserve
        /\ r.terminal_rounding_reserve = e.terminal_rounding_reserve
        /\ r.retired_residue_magnified = e.retired_residue_magnified
        /\ r.lifetime_received = e.lifetime_received
        /\ r.lifetime_claimed = e.lifetime_claimed
        /\ r.quarantined = e.quarantined /\ r.claimed = e.claimed
        /\ r.total_shares = T /\ r.aggregate_correction = A
        /\ r.shares = S /\ r.correction = C
    BY <1>2 DEF Epoch
  <2>2. (-amount) * e.index = -(amount * e.index)
    BY <1>f
  <2>3. /\ T = e.total_shares + -amount
        /\ A = e.aggregate_correction - (-amount) * e.index
        /\ S = [e.shares EXCEPT ![o] = e.shares[o] + -amount]
        /\ C = [e.correction EXCEPT ![o] = e.correction[o] - (-amount) * e.index]
    <3>1. /\ e.shares[o] - amount = e.shares[o] + -amount
          /\ e.correction[o] + amount * e.index = e.correction[o] - (-amount) * e.index
          /\ e.aggregate_correction + amount * e.index
               = e.aggregate_correction - (-amount) * e.index
          /\ e.total_shares - amount = e.total_shares + -amount
      BY <1>f, <1>n, <2>2
    <3> QED BY <3>1 DEF T, A, S, C
  <2> QED BY <2>1, <2>3 DEF Shifted
<1> QED BY <1>3, <1>4 DEF r

\* A transfer is a burn of the sender's shares and a mint of the recipient's,
\* before the sender's position is normalized.
LEMMA TransferShifts ==
  ASSUME NEW e \in Epoch, positions_match(e), NEW from \in Owners, NEW to \in Owners,
         NEW amount \in Nat, e.shares[from] >= amount
  PROVE  LET r == transferred(e, from, to, amount)
         IN  r \in Epoch /\ Shifted(burned(e, from, amount), r, to, amount)
<1> DEFINE b == burned(e, from, amount)
           d == reduced(e, from, amount)
           r == transferred(e, from, to, amount)
           S == [b.shares EXCEPT ![to] = b.shares[to] + amount]
           C == [b.correction EXCEPT ![to] = b.correction[to] - amount * b.index]
<1>1. b \in Epoch /\ Shifted(e, b, from, -amount)
  BY BurnShifts
<1>f. /\ e.index \in Nat /\ e.total_shares \in Nat /\ e.aggregate_correction \in Int
      /\ b.shares \in [Owners -> Nat] /\ b.correction \in [Owners -> Int]
      /\ b.shares[to] \in Nat /\ b.correction[to] \in Int
  BY <1>1, EpochFields
<1>n. amount * e.index \in Int /\ b.index = e.index
  BY <1>1, <1>f DEF Shifted
<1>2. d.shares = b.shares /\ d.correction = b.correction
  BY DEF Epoch, reduced, burned
<1>3. S \in [Owners -> Nat] /\ C \in [Owners -> Int]
  <2> HIDE DEF b
  <2>1. b.shares[to] + amount \in Nat /\ b.correction[to] - amount * b.index \in Int
    BY <1>f, <1>n
  <2> QED BY <1>f, <2>1
<1>4. r = [d EXCEPT !.shares = S, !.correction = C]
  <2> HIDE DEF b, d
  <2> QED BY <1>2, <1>n DEF transferred, d
<1>5. /\ d \in [status : {STATUS_ACTIVE, STATUS_CLAIM_ONLY}, index : Nat,
                index_remainder : Nat, total_shares : Nat, aggregate_correction : Int,
                unallocated_rewards : Nat, rounding_reserve : Nat,
                terminal_rounding_reserve : Nat, retired_residue_magnified : Nat,
                lifetime_received : Nat, lifetime_claimed : Nat, quarantined : BOOLEAN,
                shares : [Owners -> Nat], correction : [Owners -> Int],
                claimed : [Owners -> Nat]]
      /\ d.status = e.status /\ d.index = e.index /\ d.index_remainder = e.index_remainder
      /\ d.unallocated_rewards = e.unallocated_rewards
      /\ d.rounding_reserve = e.rounding_reserve
      /\ d.terminal_rounding_reserve = e.terminal_rounding_reserve
      /\ d.retired_residue_magnified = e.retired_residue_magnified
      /\ d.lifetime_received = e.lifetime_received
      /\ d.lifetime_claimed = e.lifetime_claimed
      /\ d.quarantined = e.quarantined /\ d.claimed = e.claimed
      /\ d.total_shares = e.total_shares
      /\ d.aggregate_correction = e.aggregate_correction
  <2> DEFINE D == [e.shares EXCEPT ![from] = e.shares[from] - amount]
             K == [e.correction EXCEPT ![from] = e.correction[from] + amount * e.index]
  <2>1. d = [e EXCEPT !.shares = D, !.correction = K]
    BY DEF reduced
  <2>2. D = d.shares /\ K = d.correction
    <3> HIDE DEF D, K
    <3> QED BY <2>1 DEF Epoch
  <2>3. D \in [Owners -> Nat] /\ K \in [Owners -> Int]
    <3> HIDE DEF D, K, b, d
    <3> QED BY <2>2, <1>2, <1>f
  <2> HIDE DEF D, K, d
  <2> QED BY <2>1, <2>3 DEF Epoch
<1> HIDE DEF r, S, C, b, d
<1>6. r \in Epoch
  BY <1>3, <1>4, <1>5 DEF Epoch
<1>7. /\ r.status = d.status /\ r.index = d.index /\ r.index_remainder = d.index_remainder
      /\ r.unallocated_rewards = d.unallocated_rewards
      /\ r.rounding_reserve = d.rounding_reserve
      /\ r.terminal_rounding_reserve = d.terminal_rounding_reserve
      /\ r.retired_residue_magnified = d.retired_residue_magnified
      /\ r.lifetime_received = d.lifetime_received
      /\ r.lifetime_claimed = d.lifetime_claimed
      /\ r.quarantined = d.quarantined /\ r.claimed = d.claimed
      /\ r.total_shares = d.total_shares
      /\ r.aggregate_correction = d.aggregate_correction
      /\ r.shares = S /\ r.correction = C
  BY <1>4, <1>5
<1>8. r.total_shares = b.total_shares + amount
      /\ r.aggregate_correction = b.aggregate_correction - amount * b.index
  <2>1. (-amount) * e.index = -(amount * e.index)
    BY <1>f
  <2>2. b.total_shares = e.total_shares + -amount
        /\ b.aggregate_correction = e.aggregate_correction - (-amount) * e.index
    BY <1>1 DEF Shifted
  <2>3. r.total_shares = e.total_shares /\ r.aggregate_correction = e.aggregate_correction
    BY <1>5, <1>7
  <2> QED BY <1>f, <1>n, <2>1, <2>2, <2>3
<1>9. Shifted(b, r, to, amount)
  BY <1>1, <1>5, <1>7, <1>8 DEF Shifted, S, C
<1> QED BY <1>6, <1>9 DEF r, b

\* A position without shares that passes normalize_zero_position's checks
\* gives up its fraction of a unit, and the books stay sound: the fraction is
\* retired, and the reserve for rounding takes the units that are complete.
LEMMA ExitSound ==
  ASSUME NEW e, NEW v, NEW o \in Owners, SoundBut(e, v, {o}), ended_without_shares(e),
         e.status = STATUS_ACTIVE, exit_succeeds(e, o)
  PROVE  LET r == settle_exit(e, o, v) IN
         /\ Sound(r, v)
         /\ r.shares = e.shares /\ r.index = e.index
         /\ \A p \in Owners : magnified(r, p) <= magnified(e, p)
<1> DEFINE left == residue(e, o)
           y == [e EXCEPT !.correction[o] = @ - left,
                          !.aggregate_correction = @ - left,
                          !.retired_residue_magnified = @ + left]
           r == settle_exit(e, o, v)
<1>0. e \in Epoch /\ v \in Nat
  BY DEF SoundBut
<1>m. \A p \in Owners : magnified(e, p) \in Int
  BY <1>0, MagnifiedType
<1>1. CASE e.shares[o] # 0
  <2>1. r = e
    BY <1>1 DEF settle_exit
  <2>2. Sound(e, v)
    BY <1>1 DEF SoundBut, Sound, Books, exits_settled
  <2> QED BY <2>1, <2>2, <1>m
<1>2. CASE e.shares[o] = 0 /\ left = 0
  <2>1. r = e
    BY <1>2 DEF settle_exit, normalize_zero_position
  <2>2. e.correction[o] = MAGNITUDE * e.claimed[o]
    <3>1. e.correction[o] \in Int /\ e.claimed[o] \in Nat
      BY <1>0, MagnifiedType
    <3>2. e.correction[o] - e.claimed[o] * MAGNITUDE = 0
      BY <1>2 DEF residue
    <3>3. e.claimed[o] * MAGNITUDE \in Int /\ e.claimed[o] * MAGNITUDE = MAGNITUDE * e.claimed[o]
      BY <3>1, Scale
    <3> QED BY <3>1, <3>2, <3>3
  <2>3. Sound(e, v)
    BY <2>2 DEF SoundBut, Sound, Books, exits_settled
  <2> QED BY <2>1, <2>3, <1>m
<1>3. CASE e.shares[o] = 0 /\ left # 0
  <2> DEFINE C == [e.correction EXCEPT ![o] = e.correction[o] - left]
             A == e.aggregate_correction - left
             R == e.retired_residue_magnified + left
  <2>1. r = recompute_rounding(y, v)
    BY <1>3 DEF settle_exit, normalize_zero_position
  <2>2. left \in 0 .. MAGNITUDE - 1
    BY <1>3 DEF exit_succeeds, normalize_succeeds
  <2>3. left \in Nat
    BY <2>2, Scale
  <2>4. /\ e.correction \in [Owners -> Int] /\ e.correction[o] \in Int
        /\ e.aggregate_correction \in Int /\ e.retired_residue_magnified \in Nat
        /\ e.claimed[o] \in Nat /\ e.index \in Nat /\ e.total_shares \in Nat
        /\ e.index_remainder \in Nat
    BY <1>0, EpochFields
  <2>5. y = [e EXCEPT !.correction = C, !.aggregate_correction = A,
                      !.retired_residue_magnified = R]
    OBVIOUS
  <2>6. e.correction[o] - left = MAGNITUDE * e.claimed[o]
    <3>1. e.claimed[o] * MAGNITUDE \in Int /\ e.claimed[o] * MAGNITUDE = MAGNITUDE * e.claimed[o]
      BY <2>4, Scale
    <3>2. left = e.correction[o] - e.claimed[o] * MAGNITUDE
      BY DEF residue
    <3> HIDE DEF left
    <3> QED BY <2>4, <3>1, <3>2
  <2> HIDE DEF left
  <2>7. C \in [Owners -> Int] /\ A \in Int /\ R \in Nat
    <3>1. e.correction[o] - left \in Int
      BY <2>3, <2>4
    <3> QED BY <2>3, <2>4, <3>1
  <2>8. C[o] = MAGNITUDE * e.claimed[o] /\ \A p \in Owners : p # o => C[p] = e.correction[p]
    BY <2>4, <2>6
  <2>9. total(C) = total(e.correction) - left
    <3> DEFINE K == e.correction
               d == -left
    <3>1. K \in [Owners -> Int] /\ d \in Int /\ K[o] - left = K[o] + d
      BY <2>3, <2>4
    <3>2. C = [K EXCEPT ![o] = K[o] + d]
      BY <3>1
    <3>3. d = -left
      OBVIOUS
    <3> HIDE DEF C, K, d
    <3>4. total(C) = total(K) + d /\ total(K) \in Int
      BY <3>1, <3>2, TotalUpdate, TotalType
    <3>5. total(C) = total(K) - left
      BY <3>3, <3>4, <2>3
    <3> QED BY <3>5 DEF K
  <2> HIDE DEF C, A, R, y
  <2>10. y \in Epoch
    BY <1>0, <2>5, <2>7 DEF Epoch
  <2>11. /\ y.status = e.status /\ y.index = e.index /\ y.index_remainder = e.index_remainder
         /\ y.total_shares = e.total_shares /\ y.aggregate_correction = A
         /\ y.unallocated_rewards = e.unallocated_rewards
         /\ y.retired_residue_magnified = R
         /\ y.lifetime_received = e.lifetime_received
         /\ y.lifetime_claimed = e.lifetime_claimed
         /\ y.quarantined = e.quarantined /\ y.shares = e.shares
         /\ y.correction = C /\ y.claimed = e.claimed
    BY <1>0, <2>5 DEF Epoch
  <2>12. positions_match(y)
    BY <2>9, <2>11 DEF SoundBut, positions_match, A
  <2>13. receipts_conserved(y)
    <3>1. e.total_shares * e.index \in Int
      BY <2>4
    <3>2. e.total_shares * e.index + A + e.index_remainder + R
            = e.total_shares * e.index + e.aggregate_correction + e.index_remainder
                + e.retired_residue_magnified
      BY <2>3, <2>4, <3>1 DEF A, R
    <3> QED BY <2>11, <3>2 DEF SoundBut, receipts_conserved
  <2>14. \A p \in Owners : magnified(y, p) <= magnified(e, p)
                           /\ magnified(y, p) >= MAGNITUDE * y.claimed[p]
    <3> SUFFICES ASSUME NEW p \in Owners
                 PROVE  magnified(y, p) <= magnified(e, p)
                        /\ magnified(y, p) >= MAGNITUDE * y.claimed[p]
      OBVIOUS
    <3>1. magnified(y, p) = e.shares[p] * e.index + C[p] /\ y.claimed[p] = e.claimed[p]
      BY <2>11 DEF magnified
    <3>2. magnified(e, p) = e.shares[p] * e.index + e.correction[p]
      BY DEF magnified
    <3>3. magnified(e, p) >= MAGNITUDE * e.claimed[p]
      BY DEF SoundBut, never_overpaid
    <3>4. CASE p # o
      <4>1. magnified(y, p) = magnified(e, p)
        BY <3>1, <3>2, <3>4, <2>8
      <4>2. magnified(e, p) \in Int
        BY <1>m
      <4>3. magnified(y, p) >= MAGNITUDE * y.claimed[p]
        BY <4>1, <3>1, <3>3, Zenon
      <4> QED BY <4>1, <4>2, <4>3
    <3>5. CASE p = o
      <4> DEFINE k == MAGNITUDE * e.claimed[o]
      <4>1. k \in Int
        BY <2>4, Scale
      <4>2. magnified(y, p) = 0 * e.index + k
        BY <3>1, <3>5, <1>3, <2>8
      <4>3. magnified(y, p) = k
        BY <4>1, <4>2, <2>4
      <4> QED BY <4>1, <4>3, <3>1, <3>3, <3>5, <1>m
    <3> QED BY <3>4, <3>5
  <2>15. exits_settled(y)
    BY <2>8, <2>11 DEF SoundBut, exits_settled
  <2>16. Books(y)
    BY <2>10, <2>11, <2>12, <2>13, <2>14, <2>15
       DEF Books, never_overpaid, ended_without_shares
  <2>17. v = y.lifetime_received - y.lifetime_claimed
    BY <2>11 DEF SoundBut, epoch_backing
  <2>18. Sound(r, v)
    BY <1>0, <2>1, <2>11, <2>16, <2>17, Recompute
  <2>19. r.shares = y.shares /\ r.index = y.index /\ r.correction = y.correction
    BY <2>1, <2>10 DEF recompute_rounding, Epoch
  <2>20. \A p \in Owners : magnified(r, p) = magnified(y, p)
    BY <2>19 DEF magnified
  <2> QED BY <2>11, <2>14, <2>18, <2>19, <2>20
<1> QED BY <1>1, <1>2, <1>3

\* Minting keeps the books and gives the new shares no history.
LEMMA MintSound ==
  ASSUME NEW e, NEW v, Sound(e, v), NEW o \in Owners, NEW amount \in Nat \ {0},
         mint_succeeds(e)
  PROVE  LET r == mint_active(e, o, amount) IN
         /\ Sound(r, v) /\ r.index = e.index
         /\ \A p \in Owners : magnified(r, p) = magnified(e, p)
<1> DEFINE r == mint_active(e, o, amount)
<1>0. SoundBut(e, v, {}) /\ ended_without_shares(e) /\ e \in Epoch
      /\ e.status = STATUS_ACTIVE /\ ~e.quarantined
  BY SoundMeansSettled DEF SoundBut, mint_succeeds, assert_active_mutation
<1>1. r \in Epoch /\ Shifted(e, r, o, amount)
  BY <1>0, MintShifts
<1> HIDE DEF r
<1>2. SoundBut(r, v, {o}) /\ \A p \in Owners : magnified(r, p) = magnified(e, p)
  <2> DEFINE n == amount
             X == {}
             Y == {o}
  <2>1. /\ X \subseteq Y /\ o \in Y /\ n \in Int /\ Shifted(e, r, o, n) /\ r \in Epoch
        /\ SoundBut(e, v, X)
    BY <1>0, <1>1
  <2> HIDE DEF n, X, Y
  <2>2. SoundBut(r, v, Y) /\ \A p \in Owners : magnified(r, p) = magnified(e, p)
    BY <2>1, ShiftSound, ZenonT(60)
  <2> QED BY <2>2 DEF Y
<1>3. r.shares[o] # 0
  <2>1. e.shares[o] \in Nat /\ e.shares \in [Owners -> Nat]
    BY <1>0, EpochFields
  <2>2. r.shares[o] = e.shares[o] + amount
    BY <1>1, <2>1 DEF Shifted
  <2> QED BY <2>1, <2>2
<1>4. ended_without_shares(r)
  <2>1. STATUS_ACTIVE # STATUS_CLAIM_ONLY
    BY DEF STATUS_ACTIVE, STATUS_CLAIM_ONLY
  <2> QED BY <1>0, <1>1, <2>1 DEF Shifted, ended_without_shares
<1>5. SoundBut(r, v, {})
  BY <1>2, <1>3 DEF SoundBut
<1> QED BY <1>1, <1>2, <1>4, <1>5, SoundMeansSettled DEF Shifted, r

\* Burning keeps the books; a leaver gives up a fraction of a unit at most.
LEMMA BurnSound ==
  ASSUME NEW e, NEW v, Sound(e, v), NEW o \in Owners, NEW amount \in Nat \ {0},
         burn_succeeds(e, o, amount)
  PROVE  LET r == burn_active(e, o, amount, v) IN
         /\ Sound(r, v) /\ r.index = e.index
         /\ \A p \in Owners : magnified(r, p) <= magnified(e, p)
<1> DEFINE b == burned(e, o, amount)
           r == burn_active(e, o, amount, v)
<1>0. /\ SoundBut(e, v, {}) /\ ended_without_shares(e) /\ e \in Epoch /\ positions_match(e)
      /\ e.status = STATUS_ACTIVE /\ ~e.quarantined /\ e.shares[o] >= amount
      /\ exit_succeeds(b, o)
  BY SoundMeansSettled DEF SoundBut, burn_succeeds, assert_active_epoch_healthy
<1>1. b \in Epoch /\ Shifted(e, b, o, -amount) /\ -amount \in Int
  BY <1>0, BurnShifts
<1>r. r = settle_exit(b, o, v)
  BY DEF burn_active
<1> HIDE DEF b, r
<1>2. SoundBut(b, v, {o}) /\ \A p \in Owners : magnified(b, p) = magnified(e, p)
  <2> DEFINE n == -amount
             X == {}
             Y == {o}
  <2>1. /\ X \subseteq Y /\ o \in Y /\ n \in Int /\ Shifted(e, b, o, n) /\ b \in Epoch
        /\ SoundBut(e, v, X)
    BY <1>0, <1>1
  <2> HIDE DEF n, X, Y
  <2>2. SoundBut(b, v, Y) /\ \A p \in Owners : magnified(b, p) = magnified(e, p)
    BY <2>1, ShiftSound, ZenonT(60)
  <2> QED BY <2>2 DEF Y
<1>3. b.status = STATUS_ACTIVE /\ b.index = e.index /\ ended_without_shares(b)
  <2>1. STATUS_ACTIVE # STATUS_CLAIM_ONLY
    BY DEF STATUS_ACTIVE, STATUS_CLAIM_ONLY
  <2> QED BY <1>0, <1>1, <2>1 DEF Shifted, ended_without_shares
<1>4. /\ Sound(r, v) /\ r.index = b.index
      /\ \A p \in Owners : magnified(r, p) <= magnified(b, p)
  BY <1>0, <1>2, <1>3, <1>r, ExitSound
<1> QED BY <1>2, <1>3, <1>4 DEF r

\* Transferring keeps the books, moves no entitlement and settles a sender
\* who is left without shares.
LEMMA TransferSound ==
  ASSUME NEW e, NEW v, Sound(e, v), NEW from \in Owners, NEW to \in Owners,
         NEW amount \in Nat \ {0}, transfer_succeeds(e, from, to, amount)
  PROVE  LET r == transfer_active(e, from, to, amount, v) IN
         /\ Sound(r, v) /\ r.index = e.index
         /\ \A p \in Owners : magnified(r, p) <= magnified(e, p)
<1> DEFINE b == burned(e, from, amount)
           t == transferred(e, from, to, amount)
           r == transfer_active(e, from, to, amount, v)
<1>0. /\ SoundBut(e, v, {}) /\ ended_without_shares(e) /\ e \in Epoch /\ positions_match(e)
      /\ e.status = STATUS_ACTIVE /\ ~e.quarantined /\ e.shares[from] >= amount
      /\ exit_succeeds(t, from)
  BY SoundMeansSettled DEF SoundBut, transfer_succeeds, assert_active_epoch_healthy
<1>1. b \in Epoch /\ Shifted(e, b, from, -amount) /\ -amount \in Int
  BY <1>0, BurnShifts
<1>t. t \in Epoch /\ Shifted(b, t, to, amount)
  BY <1>0, TransferShifts
<1>r. r = settle_exit(t, from, v)
  BY DEF transfer_active
<1> HIDE DEF b, t, r
<1>2. SoundBut(b, v, {from}) /\ \A p \in Owners : magnified(b, p) = magnified(e, p)
  <2>1. {} \subseteq {from} /\ from \in {from}
    OBVIOUS
  <2> QED BY <1>0, <1>1, <2>1, ShiftSound
<1>3. SoundBut(t, v, {from, to}) /\ \A p \in Owners : magnified(t, p) = magnified(b, p)
  <2> DEFINE n == amount
  <2>1. {from} \subseteq {from, to} /\ to \in {from, to} /\ n \in Int
        /\ Shifted(b, t, to, n) /\ t \in Epoch
    BY <1>t
  <2> HIDE DEF n
  <2> QED BY <1>2, <2>1, ShiftSound
<1>4. t.shares[to] # 0
  <2>1. b.shares[to] \in Nat /\ b.shares \in [Owners -> Nat]
    BY <1>1, EpochFields
  <2>2. t.shares[to] = b.shares[to] + amount
    BY <1>t, <2>1 DEF Shifted
  <2> QED BY <2>1, <2>2
<1>5. SoundBut(t, v, {from})
  BY <1>3, <1>4 DEF SoundBut
<1>6. t.status = STATUS_ACTIVE /\ t.index = e.index /\ ended_without_shares(t)
  <2>1. STATUS_ACTIVE # STATUS_CLAIM_ONLY
    BY DEF STATUS_ACTIVE, STATUS_CLAIM_ONLY
  <2> QED BY <1>0, <1>1, <1>t, <2>1 DEF Shifted, ended_without_shares
<1>7. /\ Sound(r, v) /\ r.index = t.index
      /\ \A p \in Owners : magnified(r, p) <= magnified(t, p)
  BY <1>0, <1>5, <1>6, <1>r, ExitSound
<1> QED BY <1>2, <1>3, <1>6, <1>7 DEF r

-----------------------------------------------------------------------------
(* Claims and the end of the epoch *)

\* A position without shares is owed nothing (E_CLAIM_EXCEEDS_PENDING).
LEMMA NothingPendingWithoutShares ==
  ASSUME NEW e, Books(e), NEW o \in Owners, e.shares[o] = 0
  PROVE  pending_for(e, o) = 0 /\ magnified(e, o) = MAGNITUDE * e.claimed[o]
<1> DEFINE c == e.claimed[o]
           k == MAGNITUDE * c
<1>1. e \in Epoch /\ e.correction[o] = k
  BY DEF Books, exits_settled
<1>2. c \in Nat /\ e.index \in Nat /\ k \in Int
  BY <1>1, EpochFields, Scale
<1>3. magnified(e, o) = 0 * e.index + k
  BY <1>1 DEF magnified
<1>p. pending_for(e, o) = (magnified(e, o) \div MAGNITUDE) - c
  BY DEF pending_for
<1> HIDE DEF c
<1>4. magnified(e, o) = k
  <2> HIDE DEF k
  <2> QED BY <1>2, <1>3
<1>5. k \div MAGNITUDE = c
  BY <1>2, Scale, DivUnique
<1>6. c - c = 0
  BY <1>2
<1> QED BY <1>4, <1>5, <1>6, <1>p DEF c

\* Without any shares nobody is owed anything, and the liability is zero.
LEMMA NothingOwedWithoutShares ==
  ASSUME NEW e, Books(e), e.total_shares = 0
  PROVE  /\ aggregate_liability(e) = 0
         /\ \A o \in Owners : e.shares[o] = 0 /\ pending_for(e, o) = 0
<1>0. e \in Epoch /\ positions_match(e)
  BY DEF Books
<1>1. \A o \in Owners : e.shares[o] = 0
  BY <1>0, SharesWithinTotal, EpochFields
<1>2. \A o \in Owners : pending_for(e, o) = 0
  BY <1>1, NothingPendingWithoutShares
<1> DEFINE C == e.correction
           D == e.claimed
           z == [o \in Owners |-> 0]
           L == e.lifetime_claimed
<1>3. /\ C \in [Owners -> Int] /\ D \in [Owners -> Int] /\ L \in Nat /\ e.index \in Nat
      /\ z \in [Owners -> Int] /\ \A o \in Owners : z[o] = 0
  BY <1>0, EpochFields
<1>4. \A o \in Owners : C[o] = z[o] + D[o] * MAGNITUDE
  <2> SUFFICES ASSUME NEW o \in Owners PROVE C[o] = z[o] + D[o] * MAGNITUDE
    OBVIOUS
  <2>1. C[o] = MAGNITUDE * D[o] /\ D[o] \in Int /\ z[o] = 0
    BY <1>1, <1>3 DEF Books, exits_settled
  <2> HIDE DEF C, D, z
  <2> QED BY <2>1, Scale
<1>5. e.aggregate_correction = total(C) /\ L = total(D)
  BY <1>0 DEF positions_match
<1>6. aggregate_liability(e) = ((0 * e.index + total(C)) \div MAGNITUDE) - L
  BY <1>5 DEF aggregate_liability
<1> HIDE DEF C, D, z, L
<1>7. total(z) = 0
  BY <1>3, OwnersAssumption, SumZero DEF total
<1>8. total(C) = total(z) + total(D) * MAGNITUDE
  <2>1. MAGNITUDE \in Int
    BY Scale
  <2> QED BY <1>3, <1>4, <2>1, OwnersAssumption, SumLinear DEF total
<1>9. total(C) = MAGNITUDE * L /\ MAGNITUDE * L \in Int /\ 0 * e.index + total(C) = MAGNITUDE * L
  BY <1>3, <1>5, <1>7, <1>8, Scale
<1>10. (MAGNITUDE * L) \div MAGNITUDE = L
  BY <1>3, <1>9, Scale, DivUnique
<1>11. L - L = 0
  BY <1>3
<1> QED BY <1>1, <1>2, <1>6, <1>9, <1>10, <1>11

\* The vault covers everybody's pending rewards, so a claim is always paid.
LEMMA SoundIsSolvent ==
  ASSUME NEW e, NEW v, Sound(e, v)
  PROVE  /\ \A o \in Owners : magnified(e, o) >= 0 /\ pending_for(e, o) >= 0
         /\ total([o \in Owners |-> pending_for(e, o)]) + e.unallocated_rewards <= v
         /\ \A o \in Owners : pending_for(e, o) <= v
<1> DEFINE p == [o \in Owners |-> pending_for(e, o)]
<1>0. e \in Epoch /\ positions_match(e) /\ never_overpaid(e) /\ receipts_conserved(e)
      /\ v \in Nat
  BY DEF Sound, Books
<1>1. /\ \A o \in Owners : magnified(e, o) >= 0 /\ pending_for(e, o) >= 0
      /\ total(p) \in Int /\ total(p) <= aggregate_liability(e)
      /\ \A o \in Owners : pending_for(e, o) <= total(p)
  BY <1>0, PendingWithinLiability
<1>2. /\ v = aggregate_liability(e) + e.unallocated_rewards + e.rounding_reserve
      /\ e.unallocated_rewards \in Nat /\ e.rounding_reserve \in Nat
      /\ aggregate_liability(e) \in Int
  BY <1>0, EpochFields, LiabilityBound DEF Sound, epoch_backing
<1> HIDE DEF p
<1>3. total(p) + e.unallocated_rewards <= v /\ total(p) <= v
  BY <1>0, <1>1, <1>2
<1>4. \A o \in Owners : pending_for(e, o) <= v
  <2>1. \A o \in Owners : pending_for(e, o) \in Int
    BY <1>0, MagnifiedType
  <2> QED BY <2>1, <1>0, <1>1, <1>3
<1> QED BY <1>1, <1>3, <1>4 DEF p

\* A claim is paid out of the vault, and only by an epoch that still has
\* shares: one that is quarantined or claim-only owes nothing.
LEMMA ClaimSound ==
  ASSUME NEW e, NEW v, Sound(e, v), NEW o \in Owners, NEW amount \in Nat,
         claim_succeeds(e, o, amount)
  PROVE  LET r == prepare_claim(e, o, amount) IN
         /\ Sound(r, v - amount) /\ v - amount \in Nat
         /\ r.shares = e.shares /\ r.correction = e.correction /\ r.index = e.index
         /\ assert_active_mutation(e)
<1> DEFINE r == prepare_claim(e, o, amount)
           D == [e.claimed EXCEPT ![o] = e.claimed[o] + amount]
           L == e.lifetime_claimed + amount
<1>0. /\ e \in Epoch /\ Books(e) /\ v \in Nat /\ amount > 0 /\ amount <= pending_for(e, o)
      /\ positions_match(e) /\ never_overpaid(e) /\ exits_settled(e)
      /\ receipts_conserved(e) /\ ended_without_shares(e)
  BY DEF Sound, Books, claim_succeeds
<1>f. /\ e.claimed \in [Owners -> Nat] /\ e.claimed[o] \in Nat /\ e.lifetime_claimed \in Nat
      /\ e.claimed \in [Owners -> Int] /\ pending_for(e, o) \in Int
      /\ magnified(e, o) \in Int
      /\ e.lifetime_received \in Nat /\ e.unallocated_rewards \in Nat
      /\ e.rounding_reserve \in Nat
  BY <1>0, EpochFields, MagnifiedType
<1>1. D \in [Owners -> Nat] /\ L \in Nat
  BY <1>f
<1>2. r = [e EXCEPT !.claimed = D, !.lifetime_claimed = L]
  BY DEF prepare_claim
<1>3. D[o] = e.claimed[o] + amount /\ \A p \in Owners : p # o => D[p] = e.claimed[p]
  BY <1>f
<1>4. total(D) = total(e.claimed) + amount
  <2> DEFINE E == e.claimed
             n == amount
  <2>1. E \in [Owners -> Int] /\ n \in Int /\ D = [E EXCEPT ![o] = E[o] + n]
    BY <1>f
  <2> HIDE DEF D, E, n
  <2>2. total(D) = total(E) + n
    BY <2>1, TotalUpdate
  <2> QED BY <2>2 DEF E, n
<1> HIDE DEF r, D, L
<1>5. r \in Epoch
  BY <1>0, <1>1, <1>2 DEF Epoch
<1>6. /\ r.status = e.status /\ r.index = e.index /\ r.index_remainder = e.index_remainder
      /\ r.total_shares = e.total_shares /\ r.aggregate_correction = e.aggregate_correction
      /\ r.unallocated_rewards = e.unallocated_rewards
      /\ r.rounding_reserve = e.rounding_reserve
      /\ r.terminal_rounding_reserve = e.terminal_rounding_reserve
      /\ r.retired_residue_magnified = e.retired_residue_magnified
      /\ r.lifetime_received = e.lifetime_received /\ r.lifetime_claimed = L
      /\ r.quarantined = e.quarantined /\ r.shares = e.shares
      /\ r.correction = e.correction /\ r.claimed = D
  BY <1>0, <1>2 DEF Epoch
<1>7. v - amount \in Nat
  <2>1. pending_for(e, o) <= v
    BY SoundIsSolvent
  <2> QED BY <2>1, <1>0, <1>f
<1>8. e.shares[o] # 0
  BY <1>0, <1>f, NothingPendingWithoutShares
<1>9. assert_active_mutation(e)
  <2>1. e.total_shares # 0
    BY <1>0, <1>8, NothingOwedWithoutShares
  <2>2. e.status \in {STATUS_ACTIVE, STATUS_CLAIM_ONLY}
    BY <1>0, EpochFields
  <2> QED BY <1>0, <2>1, <2>2 DEF ended_without_shares, assert_active_mutation
<1>10. positions_match(r)
  BY <1>0, <1>4, <1>6 DEF positions_match, L
<1>11. receipts_conserved(r)
  BY <1>0, <1>6 DEF receipts_conserved
<1>12. never_overpaid(r)
  <2>1. \A p \in Owners : magnified(r, p) = magnified(e, p)
    BY <1>6 DEF magnified
  <2>2. MAGNITUDE * D[o] <= magnified(e, o)
    <3> DEFINE k == magnified(e, o)
               c == e.claimed[o] + amount
    <3>1. k \div MAGNITUDE \in Int
      BY <1>f, Scale, DivMod
    <3>2. amount <= k \div MAGNITUDE - e.claimed[o]
      BY <1>0 DEF pending_for
    <3>3. c \in Int /\ c <= k \div MAGNITUDE /\ k \in Int
      BY <1>f, <3>1, <3>2
    <3> HIDE DEF k, c
    <3>4. MAGNITUDE * c <= k
      BY <3>3, Scale, DivBound
    <3> QED BY <3>4, <1>3 DEF k, c
  <2>3. \A p \in Owners : magnified(e, p) \in Int /\ D[p] \in Nat
    BY <1>0, <1>1, MagnifiedType
  <2>4. ASSUME NEW p \in Owners PROVE magnified(r, p) >= MAGNITUDE * D[p]
    <3>1. MAGNITUDE * D[p] \in Int
      BY <2>3, Scale
    <3>2. CASE p = o
      BY <3>1, <3>2, <2>1, <2>2, <2>3
    <3>3. CASE p # o
      <4>1. magnified(e, p) >= MAGNITUDE * e.claimed[p]
        BY <1>0 DEF never_overpaid
      <4>2. D[p] = e.claimed[p] /\ magnified(r, p) = magnified(e, p)
        BY <1>3, <3>3, <2>1
      <4> QED BY <4>1, <4>2, Zenon
    <3> QED BY <3>2, <3>3
  <2> QED BY <2>4, <1>6 DEF never_overpaid
<1>13. exits_settled(r)
  BY <1>0, <1>3, <1>6, <1>8 DEF exits_settled
<1>14. Books(r)
  BY <1>0, <1>5, <1>6, <1>10, <1>11, <1>12, <1>13 DEF Books, ended_without_shares
<1>15. epoch_backing(r, v - amount)
  <2>1. STATUS_ACTIVE # STATUS_CLAIM_ONLY /\ e.status = STATUS_ACTIVE
    BY <1>9 DEF STATUS_ACTIVE, STATUS_CLAIM_ONLY, assert_active_mutation
  <2> DEFINE q == (e.total_shares * e.index + e.aggregate_correction) \div MAGNITUDE
  <2>2. aggregate_liability(e) = q - e.lifetime_claimed /\ aggregate_liability(r) = q - L
    BY <1>6 DEF aggregate_liability
  <2>3. q \in Int
    <3>1. e.total_shares * e.index + e.aggregate_correction \in Int
      <4>1. e.total_shares \in Int /\ e.index \in Int /\ e.aggregate_correction \in Int
        BY <1>0, EpochFields
      <4> QED BY <4>1
    <3> QED BY <3>1, Scale, DivMod
  <2> HIDE DEF q
  <2>4. /\ v = aggregate_liability(e) + e.unallocated_rewards + e.rounding_reserve
        /\ v = e.lifetime_received - e.lifetime_claimed
    BY DEF Sound, epoch_backing
  <2>5. /\ v - amount = (q - L) + e.unallocated_rewards + e.rounding_reserve
        /\ v - amount = e.lifetime_received - L
    BY <1>f, <2>2, <2>3, <2>4 DEF L
  <2> QED BY <1>6, <2>1, <2>2, <2>5 DEF epoch_backing
<1> QED BY <1>6, <1>7, <1>9, <1>14, <1>15 DEF Sound, r

\* The end of the epoch: what is left in the vault is the terminal reserve.
LEMMA ClaimOnlySound ==
  ASSUME NEW e, NEW v, Sound(e, v), claim_only_succeeds(e, v)
  PROVE  LET r == mark_active_claim_only(e, v) IN
         /\ Sound(r, v) /\ r.index = e.index
         /\ \A p \in Owners : magnified(r, p) = magnified(e, p)
<1> DEFINE n == recompute_rounding(e, v)
           r == mark_active_claim_only(e, v)
           w == n.rounding_reserve
<1>0. /\ Books(e) /\ v \in Nat /\ e.status = STATUS_ACTIVE /\ e.total_shares = 0
      /\ ~e.quarantined /\ aggregate_liability(n) = 0 /\ n.unallocated_rewards = 0
      /\ v = n.rounding_reserve /\ v = n.lifetime_received - n.lifetime_claimed
      /\ v = e.lifetime_received - e.lifetime_claimed
  BY DEF Sound, claim_only_succeeds, epoch_backing
<1>1. Sound(n, v)
  BY <1>0, Recompute
<1>e. e \in Epoch
  BY <1>0 DEF Books
<1>2. n.index = e.index /\ n.shares = e.shares /\ n.correction = e.correction
      /\ n.total_shares = e.total_shares
  BY <1>e DEF recompute_rounding, Epoch
<1>3. r = [n EXCEPT !.terminal_rounding_reserve = w, !.status = STATUS_CLAIM_ONLY]
  BY DEF mark_active_claim_only
<1>4. w \in Nat /\ n \in Epoch /\ Books(n) /\ epoch_backing(n, v)
  BY <1>1, EpochFields DEF Sound, Books
<1>w. w = n.rounding_reserve
  OBVIOUS
<1> HIDE DEF n, r, w
<1>5. r \in Epoch
  BY <1>3, <1>4 DEF Epoch
<1>6. /\ r.status = STATUS_CLAIM_ONLY /\ r.index = n.index
      /\ r.index_remainder = n.index_remainder
      /\ r.total_shares = n.total_shares /\ r.aggregate_correction = n.aggregate_correction
      /\ r.unallocated_rewards = n.unallocated_rewards
      /\ r.rounding_reserve = n.rounding_reserve
      /\ r.terminal_rounding_reserve = w
      /\ r.retired_residue_magnified = n.retired_residue_magnified
      /\ r.lifetime_received = n.lifetime_received /\ r.lifetime_claimed = n.lifetime_claimed
      /\ r.quarantined = n.quarantined /\ r.shares = n.shares
      /\ r.correction = n.correction /\ r.claimed = n.claimed
  BY <1>3, <1>4 DEF Epoch
<1>7. Books(r)
  BY <1>0, <1>2, <1>4, <1>5, <1>6 DEF Books, positions_match, receipts_conserved,
     never_overpaid, magnified, exits_settled, ended_without_shares
<1>8. aggregate_liability(r) = aggregate_liability(n)
  BY <1>6 DEF aggregate_liability
<1>9. epoch_backing(r, v)
  BY <1>0, <1>4, <1>6, <1>8, <1>w DEF epoch_backing
<1>10. \A p \in Owners : magnified(r, p) = magnified(e, p)
  BY <1>2, <1>6 DEF magnified
<1> QED BY <1>0, <1>2, <1>6, <1>7, <1>9, <1>10 DEF Sound, r

-----------------------------------------------------------------------------
(* What a caller of the operations relies on *)

\* What only the end of the epoch or a reward changes.
SameTerms(e, r) ==
  r.status = e.status /\ r.quarantined = e.quarantined
  /\ r.lifetime_received = e.lifetime_received

\* A reward routed to a healthy epoch leaves the shares alone and the epoch
\* healthy.
LEMMA ReceiveKeeps ==
  ASSUME NEW e, NEW v, Sound(e, v), assert_active_epoch_healthy(e), NEW amount \in Nat,
         NEW r, r = receive_routed_reward(e, amount, v + amount)
  PROVE  /\ Sound(r, v + amount) /\ r.shares = e.shares
         /\ r.total_shares = e.total_shares /\ assert_active_epoch_healthy(r)
         /\ r.lifetime_received = e.lifetime_received + amount
<1>0. assert_active_mutation(e) /\ e \in Epoch /\ e.total_shares # 0 /\ e.status = STATUS_ACTIVE
      /\ ~e.quarantined /\ e.total_shares > 0
  BY EpochFields DEF Sound, Books, assert_active_mutation, assert_active_epoch_healthy
<1>1. Sound(r, v + amount) /\ r.shares = e.shares
  BY <1>0, ReceiveSound
<1> DEFINE numerator == amount * MAGNITUDE + e.index_remainder
           B == [e EXCEPT !.lifetime_received = @ + amount]
           n == [B EXCEPT !.index = @ + numerator \div e.total_shares,
                          !.index_remainder = numerator % e.total_shares]
<1>2. r = recompute_rounding(n, v + amount)
  BY <1>0 DEF receive_routed_reward
<1>3. /\ r.total_shares = n.total_shares /\ r.status = n.status
      /\ r.quarantined = n.quarantined /\ r.lifetime_received = n.lifetime_received
      /\ n.total_shares = e.total_shares /\ n.status = e.status
      /\ n.quarantined = e.quarantined /\ n.lifetime_received = e.lifetime_received + amount
  BY <1>0, <1>2 DEF recompute_rounding, Epoch
<1> QED BY <1>0, <1>1, <1>3 DEF assert_active_epoch_healthy

\* A claim leaves everything but the claimant's pending reward alone.
LEMMA ClaimKeeps ==
  ASSUME NEW e, NEW v, Sound(e, v), NEW o \in Owners, NEW amount \in Nat,
         claim_succeeds(e, o, amount), NEW r, r = prepare_claim(e, o, amount)
  PROVE  /\ Sound(r, v - amount) /\ v - amount \in Nat /\ SameTerms(e, r)
         /\ r.shares = e.shares /\ r.total_shares = e.total_shares
         /\ pending_for(r, o) = pending_for(e, o) - amount
         /\ \A p \in Owners : p # o => pending_for(r, p) = pending_for(e, p)
<1>0. e \in Epoch /\ e.claimed \in [Owners -> Nat] /\ e.claimed[o] \in Nat
  BY EpochFields DEF Sound, Books
<1>1. /\ Sound(r, v - amount) /\ v - amount \in Nat
      /\ r.shares = e.shares /\ r.correction = e.correction /\ r.index = e.index
  BY ClaimSound
<1> DEFINE D == [e.claimed EXCEPT ![o] = e.claimed[o] + amount]
           L == e.lifetime_claimed + amount
<1>2. r = [e EXCEPT !.claimed = D, !.lifetime_claimed = L]
  BY DEF prepare_claim
<1>3. D[o] = e.claimed[o] + amount /\ \A p \in Owners : p # o => D[p] = e.claimed[p]
  BY <1>0
<1> HIDE DEF D, L
<1>4. r.claimed = D /\ r.total_shares = e.total_shares /\ SameTerms(e, r)
  BY <1>0, <1>2 DEF Epoch, SameTerms
<1>5. \A p \in Owners : magnified(r, p) = magnified(e, p)
  BY <1>1 DEF magnified
<1>6. pending_for(r, o) = pending_for(e, o) - amount
  <2>1. magnified(e, o) \div MAGNITUDE \in Int
    BY <1>0, MagnifiedType, Scale, DivMod
  <2>2. pending_for(r, o) = (magnified(e, o) \div MAGNITUDE) - (e.claimed[o] + amount)
    BY <1>3, <1>4, <1>5 DEF pending_for
  <2>3. pending_for(e, o) = (magnified(e, o) \div MAGNITUDE) - e.claimed[o]
    BY DEF pending_for
  <2> QED BY <1>0, <2>1, <2>2, <2>3
<1>7. \A p \in Owners : p # o => pending_for(r, p) = pending_for(e, p)
  BY <1>3, <1>4, <1>5 DEF pending_for
<1> QED BY <1>1, <1>4, <1>6, <1>7

\* Minting adds shares.
LEMMA MintKeeps ==
  ASSUME NEW e, NEW v, Sound(e, v), NEW o \in Owners, NEW amount \in Nat \ {0},
         mint_succeeds(e), NEW r, r = mint_active(e, o, amount)
  PROVE  Sound(r, v) /\ SameTerms(e, r) /\ r.total_shares = e.total_shares + amount
<1>0. e \in Epoch /\ amount \in Nat
  BY DEF Sound, Books
<1>1. Sound(r, v)
  BY MintSound
<1>2. Shifted(e, r, o, amount)
  BY <1>0, MintShifts
<1> QED BY <1>1, <1>2 DEF Shifted, SameTerms

\* Settling an exit changes no share and no term of the epoch.
LEMMA ExitKeeps ==
  ASSUME NEW e \in Epoch, NEW o \in Owners, NEW v, NEW r, r = settle_exit(e, o, v)
  PROVE  SameTerms(e, r) /\ r.total_shares = e.total_shares
<1> DEFINE left == residue(e, o)
           C == [e.correction EXCEPT ![o] = e.correction[o] - left]
           A == e.aggregate_correction - left
           R == e.retired_residue_magnified + left
           y == [e EXCEPT !.correction = C, !.aggregate_correction = A,
                          !.retired_residue_magnified = R]
<1>1. r = e \/ r = recompute_rounding(y, v)
  BY DEF settle_exit, normalize_zero_position
<1> HIDE DEF C, A, R
<1> QED BY <1>1 DEF recompute_rounding, SameTerms, Epoch

\* Burning removes shares.
LEMMA BurnKeeps ==
  ASSUME NEW e, NEW v, Sound(e, v), NEW o \in Owners, NEW amount \in Nat \ {0},
         burn_succeeds(e, o, amount), NEW r, r = burn_active(e, o, amount, v)
  PROVE  Sound(r, v) /\ SameTerms(e, r) /\ r.total_shares = e.total_shares - amount
<1>0. /\ e \in Epoch /\ positions_match(e) /\ amount \in Nat /\ e.shares[o] >= amount
      /\ e.total_shares \in Nat
  BY EpochFields DEF Sound, Books, burn_succeeds
<1>1. Sound(r, v)
  BY BurnSound
<1> DEFINE b == burned(e, o, amount)
<1>2. b \in Epoch /\ Shifted(e, b, o, -amount)
  BY <1>0, BurnShifts
<1>3. r = settle_exit(b, o, v)
  BY DEF burn_active
<1> HIDE DEF b
<1>4. SameTerms(b, r) /\ r.total_shares = b.total_shares
  BY <1>2, <1>3, ExitKeeps
<1> QED BY <1>0, <1>1, <1>2, <1>4 DEF Shifted, SameTerms

\* Transferring keeps their number.
LEMMA TransferKeeps ==
  ASSUME NEW e, NEW v, Sound(e, v), NEW from \in Owners, NEW to \in Owners,
         NEW amount \in Nat \ {0}, transfer_succeeds(e, from, to, amount),
         NEW r, r = transfer_active(e, from, to, amount, v)
  PROVE  Sound(r, v) /\ SameTerms(e, r) /\ r.total_shares = e.total_shares
<1>0. /\ e \in Epoch /\ positions_match(e) /\ amount \in Nat /\ e.shares[from] >= amount
      /\ e.total_shares \in Nat
  BY EpochFields DEF Sound, Books, transfer_succeeds
<1>1. Sound(r, v)
  BY TransferSound, ZenonT(60)
<1> DEFINE b == burned(e, from, amount)
           t == transferred(e, from, to, amount)
<1>2. t \in Epoch /\ Shifted(e, b, from, -amount) /\ Shifted(b, t, to, amount)
  BY <1>0, BurnShifts, TransferShifts
<1>3. r = settle_exit(t, from, v)
  BY DEF transfer_active
<1> HIDE DEF b, t
<1>4. SameTerms(t, r) /\ r.total_shares = t.total_shares
  BY <1>2, <1>3, ExitKeeps
<1> QED BY <1>0, <1>1, <1>2, <1>4 DEF Shifted, SameTerms

\* The end of the epoch changes its status only.
LEMMA EndKeeps ==
  ASSUME NEW e, NEW v, Sound(e, v), claim_only_succeeds(e, v),
         NEW r, r = mark_active_claim_only(e, v)
  PROVE  /\ Sound(r, v) /\ r.status = STATUS_CLAIM_ONLY
         /\ r.quarantined = e.quarantined /\ r.lifetime_received = e.lifetime_received
         /\ r.total_shares = e.total_shares
<1>0. e \in Epoch
  BY DEF Sound, Books
<1>1. Sound(r, v)
  BY ClaimOnlySound
<1> QED BY <1>0, <1>1 DEF mark_active_claim_only, recompute_rounding, Epoch

\* A position that was paid may burn its last share.
LEMMA MayBurnAll ==
  ASSUME NEW e, NEW v, Sound(e, v), NEW o \in Owners, assert_active_epoch_healthy(e),
         e.shares[o] > 0, pending_for(e, o) = 0
  PROVE  burn_succeeds(e, o, e.shares[o])
<1>a. e \in Epoch /\ positions_match(e)
  BY DEF Sound, Books
<1> DEFINE s == e.shares[o]
           b == burned(e, o, s)
           c == e.claimed[o]
           k == magnified(e, o)
<1>1. s \in Nat /\ c \in Nat /\ k \in Int /\ e.index \in Nat
      /\ e.correction[o] \in Int /\ e.correction \in [Owners -> Int]
      /\ e.shares \in [Owners -> Nat] /\ s * e.index \in Nat
  BY <1>a, MagnifiedType, EpochFields
<1>2. b \in Epoch /\ Shifted(e, b, o, -s)
  BY <1>a, <1>1, BurnShifts
<1> HIDE DEF b
<1>3. /\ b.shares = [e.shares EXCEPT ![o] = e.shares[o] + -s]
      /\ b.correction = [e.correction EXCEPT
                           ![o] = e.correction[o] - (-s) * e.index]
      /\ b.claimed = e.claimed /\ b.index = e.index
  BY <1>2 DEF Shifted
<1>4. b.shares[o] = 0
  BY <1>1, <1>3
<1>5. b.correction[o] = k
  <2>1. (-s) * e.index = -(s * e.index)
    BY <1>1
  <2>2. b.correction[o] = e.correction[o] - (-s) * e.index
    BY <1>1, <1>3
  <2>3. k = s * e.index + e.correction[o]
    BY DEF magnified
  <2> QED BY <1>1, <2>1, <2>2, <2>3
<1>6. magnified(b, o) = k
  <2>1. magnified(b, o) = 0 * e.index + k
    BY <1>3, <1>4, <1>5 DEF magnified
  <2> HIDE DEF k
  <2> QED BY <1>1, <2>1
<1>7. pending_for(b, o) = 0
  BY <1>3, <1>6 DEF pending_for
<1>8. k \div MAGNITUDE = c
  <2>1. k \div MAGNITUDE - c = 0
    BY DEF pending_for
  <2>2. k \div MAGNITUDE \in Int
    BY <1>1, Scale, DivMod
  <2> HIDE DEF k, c
  <2> QED BY <1>1, <2>1, <2>2
<1>9. k = MAGNITUDE * c + (k % MAGNITUDE) /\ k % MAGNITUDE \in Int
      /\ 0 <= k % MAGNITUDE /\ k % MAGNITUDE < MAGNITUDE
  BY <1>1, <1>8, Scale, DivMod
<1>10. residue(b, o) \in 0 .. MAGNITUDE - 1
  <2>1. residue(b, o) = k - c * MAGNITUDE
    BY <1>3, <1>5 DEF residue
  <2>2. c * MAGNITUDE = MAGNITUDE * c /\ c * MAGNITUDE \in Int
    BY <1>1, Scale
  <2> HIDE DEF k, c
  <2>3. residue(b, o) = k % MAGNITUDE
    BY <1>1, <1>9, <2>1, <2>2
  <2> QED BY <2>3, <1>9, Scale
<1>11. b.correction[o] >= 0
  BY <1>5, <1>a, SoundIsSolvent
<1>12. exit_succeeds(b, o)
  BY <1>7, <1>10, <1>11 DEF exit_succeeds, normalize_succeeds
<1>13. e.shares[o] >= s
  BY <1>1
<1> QED BY <1>12, <1>13 DEF burn_succeeds, b

\* Once the last share is gone the epoch may end, and owes nothing.
LEMMA MayEnd ==
  ASSUME NEW e, NEW v, Sound(e, v), e.status = STATUS_ACTIVE, e.total_shares = 0,
         ~e.quarantined
  PROVE  claim_only_succeeds(e, v) /\ \A o \in Owners : pending_for(e, o) = 0
<1>a. e \in Epoch /\ Books(e) /\ ended_without_shares(e) /\ v \in Nat
  BY DEF Sound, Books
<1> DEFINE n == recompute_rounding(e, v)
           w == v - (aggregate_liability(e) + e.unallocated_rewards)
<1>1. aggregate_liability(e) = 0 /\ \A o \in Owners : pending_for(e, o) = 0
  BY <1>a, NothingOwedWithoutShares
<1>2. e.unallocated_rewards = 0
  BY <1>a, EpochFields DEF ended_without_shares
<1>3. v = e.lifetime_received - e.lifetime_claimed
  BY <1>a DEF Sound, epoch_backing
<1>4. aggregate_liability(n) = aggregate_liability(e)
  BY <1>a, <1>3, Recompute
<1>5. w = v
  BY <1>a, <1>1, <1>2
<1>6. n = [e EXCEPT !.rounding_reserve = w]
  BY DEF recompute_rounding
<1> HIDE DEF w, n
<1>7. /\ n.rounding_reserve = w /\ n.unallocated_rewards = e.unallocated_rewards
      /\ n.lifetime_received = e.lifetime_received
      /\ n.lifetime_claimed = e.lifetime_claimed
  BY <1>a, <1>6 DEF Epoch
<1> QED BY <1>1, <1>2, <1>3, <1>4, <1>5, <1>7 DEF claim_only_succeeds, n

\* An epoch that is not quarantined has set nothing aside, and one that has
\* ended owes nothing: what its vault still holds is the remainder of the index
\* and the fractions leavers gave up.
LEMMA EndedOwesNothing ==
  ASSUME NEW e, NEW v, Sound(e, v), ~e.quarantined
  PROVE  /\ e.unallocated_rewards = 0
         /\ e.status = STATUS_CLAIM_ONLY =>
              /\ e.total_shares = 0
              /\ \A o \in Owners : e.shares[o] = 0 /\ pending_for(e, o) = 0
              /\ v * MAGNITUDE
                   < e.index_remainder + e.retired_residue_magnified + MAGNITUDE
<1>0. /\ e \in Epoch /\ Books(e) /\ ended_without_shares(e) /\ receipts_conserved(e)
      /\ v \in Nat /\ v = e.lifetime_received - e.lifetime_claimed
  BY DEF Sound, Books, epoch_backing
<1>1. e.unallocated_rewards = 0
  BY <1>0, EpochFields DEF ended_without_shares
<1>2. ASSUME e.status = STATUS_CLAIM_ONLY
      PROVE  /\ e.total_shares = 0
             /\ \A o \in Owners : e.shares[o] = 0 /\ pending_for(e, o) = 0
             /\ v * MAGNITUDE
                  < e.index_remainder + e.retired_residue_magnified + MAGNITUDE
  <2>1. e.total_shares = 0
    BY <1>0, <1>2 DEF ended_without_shares
  <2>2. /\ aggregate_liability(e) = 0
        /\ \A o \in Owners : e.shares[o] = 0 /\ pending_for(e, o) = 0
    BY <1>0, <2>1, NothingOwedWithoutShares
  <2> DEFINE k == e.total_shares * e.index + e.aggregate_correction
             rec == e.lifetime_received
             paid == e.lifetime_claimed
             rest == e.index_remainder
             res == e.retired_residue_magnified
             q == k \div MAGNITUDE
  <2>3. rec \in Nat /\ paid \in Nat /\ rest \in Nat /\ res \in Nat
    BY <1>0, EpochFields
  <2>4. k \in Int
    BY <1>0, <2>1, EpochFields
  <2>5. k + rest + res = MAGNITUDE * (rec - 0)
    BY <1>0, <1>1 DEF receipts_conserved
  <2>6. q - paid = 0
    BY <2>2 DEF aggregate_liability
  <2> HIDE DEF k, rec, paid, rest, res
  <2>7. q \in Int /\ k < MAGNITUDE * q + MAGNITUDE
    BY <2>4, Scale, DivMod
  <2> HIDE DEF q
  <2>8. q = paid
    BY <2>3, <2>6, <2>7
  <2>9. /\ MAGNITUDE * rec \in Int /\ MAGNITUDE * paid \in Int
        /\ (rec - paid) * MAGNITUDE = MAGNITUDE * rec - MAGNITUDE * paid
    BY <2>3, Scale
  <2>10. (rec - paid) * MAGNITUDE < rest + res + MAGNITUDE
    <3>1. k < MAGNITUDE * paid + MAGNITUDE /\ MAGNITUDE * rec = k + rest + res
      BY <2>3, <2>5, <2>7, <2>8
    <3> HIDE DEF q
    <3> QED BY <2>3, <2>4, <2>9, <3>1, Scale
  <2> QED BY <1>0, <2>1, <2>2, <2>10 DEF rec, paid, rest, res
<1> QED BY <1>1, <1>2

-----------------------------------------------------------------------------
(* The steps of LpRewards *)

\* The books a launch opens are sound over an empty vault.
LEMMA NewEpochSound == Sound(new_epoch, 0)
<1> DEFINE e == new_epoch
           z == [o \in Owners |-> 0]
<1>1. e \in Epoch
  BY DEF new_epoch, Epoch
<1>2. /\ e.status = STATUS_ACTIVE /\ e.index = 0 /\ e.index_remainder = 0
      /\ e.total_shares = 0 /\ e.aggregate_correction = 0 /\ e.unallocated_rewards = 0
      /\ e.rounding_reserve = 0 /\ e.retired_residue_magnified = 0
      /\ e.lifetime_received = 0 /\ e.lifetime_claimed = 0 /\ e.quarantined = FALSE
      /\ e.shares = z /\ e.correction = z /\ e.claimed = z
  BY DEF new_epoch
<1>3. z \in [Owners -> Int] /\ \A o \in Owners : z[o] = 0
  OBVIOUS
<1> HIDE DEF e, z
<1>4. total(z) = 0
  BY <1>3, OwnersAssumption, SumZero DEF total
<1>5. positions_match(e) /\ ended_without_shares(e)
  <2>1. STATUS_ACTIVE # STATUS_CLAIM_ONLY
    BY DEF STATUS_ACTIVE, STATUS_CLAIM_ONLY
  <2> QED BY <1>2, <1>4, <2>1 DEF positions_match, ended_without_shares
<1>6. receipts_conserved(e)
  BY <1>2, Scale DEF receipts_conserved
<1>7. never_overpaid(e) /\ exits_settled(e)
  BY <1>2, <1>3, Scale DEF never_overpaid, exits_settled, magnified
<1>8. Books(e)
  BY <1>1, <1>5, <1>6, <1>7 DEF Books
<1>9. aggregate_liability(e) = 0
  BY <1>2, <1>8, NothingOwedWithoutShares
<1>10. epoch_backing(e, 0)
  <2>1. STATUS_ACTIVE # STATUS_CLAIM_ONLY
    BY DEF STATUS_ACTIVE, STATUS_CLAIM_ONLY
  <2> QED BY <1>2, <1>9, <2>1 DEF epoch_backing
<1>11. Sound(e, 0)
  BY <1>8, <1>10 DEF Sound
<1> QED BY <1>11 DEF e

\* Init sets up sound books.
THEOREM InitInv == Init => Inv
BY NewEpochSound, InvIsSound DEF Init

\* Each step keeps the books, in the sense of the property EarnsOnHeldShares
\* too: only a receipt moves the index, and only that adds to an entitlement.
LEMMA StepKeepsInv ==
  ASSUME Inv, Next
  PROVE  Inv' /\ EarnedOnHeldShares
<1>s. Sound(epoch, vault) /\ epoch \in Epoch /\ vault \in Nat
  BY InvIsSound DEF Sound, Books
<1>i. Inv' <=> Sound(epoch', vault')
  BY DEF Inv, Sound, Books, TypeOK
<1>d. \A o \in Owners : magnified(epoch, o) \in Int /\ epoch.shares[o] \in Nat
  BY <1>s, MagnifiedType
<1>z. ASSUME NEW r, Sound(r, vault'), r = epoch', r.index = epoch.index,
             \A p \in Owners : magnified(r, p) <= magnified(epoch, p),
             assert_active_mutation(epoch)
      PROVE  Inv' /\ EarnedOnHeldShares
  <2>1. r \in Epoch
    BY <1>z DEF Sound, Books
  <2>2. \A o \in Owners : magnified(r, o) \in Int /\ r.shares[o] \in Nat
    BY <2>1, MagnifiedType
  <2>3. r.index - epoch.index = 0
    BY <1>s, <1>z, EpochFields
  <2>4. ASSUME NEW o \in Owners
        PROVE  magnified(epoch', o) - magnified(epoch, o)
                 <= MinOf(epoch.shares[o], epoch'.shares[o]) * (epoch'.index - epoch.index)
    <3> DEFINE m == MinOf(epoch.shares[o], epoch'.shares[o])
    <3>1. m \in Nat
      BY <1>d, <1>z, <2>2 DEF MinOf
    <3>2. m * (epoch'.index - epoch.index) = m * 0
      BY <2>3, <1>z
    <3> HIDE DEF m
    <3>3. m * 0 = 0
      BY <3>1
    <3>4. magnified(epoch', o) - magnified(epoch, o) <= 0
      BY <1>d, <1>z, <2>2
    <3>5. magnified(epoch', o) - magnified(epoch, o) <= m * (epoch'.index - epoch.index)
      BY <3>2, <3>3, <3>4
    <3> QED BY <3>5 DEF m
  <2> QED BY <1>i, <1>z, <2>4 DEF EarnedOnHeldShares
<1>1. ASSUME NEW amount \in 1 .. MaxReceived, receive(amount)
      PROVE  Inv' /\ EarnedOnHeldShares
  <2> DEFINE r == receive_routed_reward(epoch, amount, vault + amount)
  <2>0. amount \in Nat
    BY LpBoundsAssumption
  <2>1. epoch' = r /\ vault' = vault + amount /\ assert_active_mutation(epoch)
    BY <1>1 DEF receive
  <2>2. /\ Sound(r, vault + amount) /\ r.shares = epoch.shares
        /\ r.correction = epoch.correction /\ r.index \in Nat /\ r.index >= epoch.index
    BY <1>s, <2>0, <2>1, ReceiveSound
  <2> HIDE DEF r
  <2>3. ASSUME NEW o \in Owners
        PROVE  magnified(epoch', o) - magnified(epoch, o)
                 <= MinOf(epoch.shares[o], epoch'.shares[o]) * (epoch'.index - epoch.index)
    <3> DEFINE s == epoch.shares[o]
               c == epoch.correction[o]
               i == epoch.index
               j == r.index
    <3>1. s \in Nat /\ c \in Int /\ i \in Nat /\ j \in Nat
      BY <1>s, <2>2, MagnifiedType, EpochFields
    <3>2. magnified(epoch, o) = s * i + c /\ magnified(epoch', o) = s * j + c
      BY <2>1, <2>2 DEF magnified
    <3>3. MinOf(epoch.shares[o], epoch'.shares[o]) = s
      BY <2>1, <2>2, <3>1 DEF MinOf
    <3>4. epoch'.index - epoch.index = j - i
      BY <2>1
    <3> HIDE DEF s, c, i, j
    <3>5. (s * j + c) - (s * i + c) = s * (j - i)
      BY <3>1
    <3>6. s * (j - i) \in Int
      BY <3>1
    <3>7. (s * j + c) - (s * i + c) <= s * (j - i)
      BY <3>5, <3>6
    <3> QED BY <3>2, <3>3, <3>4, <3>7
  <2> QED BY <1>i, <2>1, <2>2, <2>3 DEF EarnedOnHeldShares
<1>2. ASSUME NEW o \in Owners, NEW amount \in 1 .. MaxShares, mint(o, amount)
      PROVE  Inv' /\ EarnedOnHeldShares
  <2> DEFINE r == mint_active(epoch, o, amount)
  <2>0. amount \in Nat \ {0}
    BY LpBoundsAssumption
  <2>1. epoch' = r /\ vault' = vault /\ mint_succeeds(epoch) /\ assert_active_mutation(epoch)
    BY <1>2 DEF mint, mint_succeeds
  <2>2. /\ Sound(r, vault) /\ r.index = epoch.index
        /\ \A p \in Owners : magnified(r, p) = magnified(epoch, p)
    BY <1>s, <2>0, <2>1, MintSound
  <2> HIDE DEF r
  <2>3. \A p \in Owners : magnified(r, p) <= magnified(epoch, p)
    BY <1>d, <2>2
  <2> QED BY <1>z, <2>1, <2>2, <2>3
<1>3. ASSUME NEW o \in Owners, NEW amount \in 1 .. MaxShares, burn(o, amount)
      PROVE  Inv' /\ EarnedOnHeldShares
  <2> DEFINE r == burn_active(epoch, o, amount, vault)
  <2>0. amount \in Nat \ {0}
    BY LpBoundsAssumption
  <2>1. epoch' = r /\ vault' = vault /\ burn_succeeds(epoch, o, amount)
        /\ assert_active_mutation(epoch)
    BY <1>3 DEF burn, burn_succeeds, assert_active_epoch_healthy, assert_active_mutation
  <2>2. /\ Sound(r, vault) /\ r.index = epoch.index
        /\ \A p \in Owners : magnified(r, p) <= magnified(epoch, p)
    BY <1>s, <2>0, <2>1, BurnSound
  <2> HIDE DEF r
  <2> QED BY <1>z, <2>1, <2>2
<1>4. ASSUME NEW o \in Owners, NEW to \in Owners, NEW amount \in 1 .. MaxShares,
             transfer(o, to, amount)
      PROVE  Inv' /\ EarnedOnHeldShares
  <2> DEFINE r == transfer_active(epoch, o, to, amount, vault)
  <2>0. amount \in Nat \ {0}
    BY LpBoundsAssumption
  <2>1. epoch' = r /\ vault' = vault /\ transfer_succeeds(epoch, o, to, amount)
        /\ assert_active_mutation(epoch)
    BY <1>4 DEF transfer, transfer_succeeds, assert_active_epoch_healthy,
                assert_active_mutation
  <2>2. /\ Sound(r, vault) /\ r.index = epoch.index
        /\ \A p \in Owners : magnified(r, p) <= magnified(epoch, p)
    BY <1>s, <2>0, <2>1, TransferSound
  <2> HIDE DEF r
  <2> QED BY <1>z, <2>1, <2>2
<1>5. ASSUME NEW o \in Owners, NEW amount \in 1 .. MaxReceived, claim(o, amount)
      PROVE  Inv' /\ EarnedOnHeldShares
  <2> DEFINE r == prepare_claim(epoch, o, amount)
  <2>0. amount \in Nat
    BY LpBoundsAssumption
  <2>1. epoch' = r /\ vault' = vault - amount /\ claim_succeeds(epoch, o, amount)
    BY <1>5 DEF claim
  <2>2. /\ Sound(r, vault - amount) /\ r.index = epoch.index
        /\ r.shares = epoch.shares /\ r.correction = epoch.correction
        /\ assert_active_mutation(epoch)
    BY <1>s, <2>0, <2>1, ClaimSound
  <2> HIDE DEF r
  <2>3. \A p \in Owners : magnified(r, p) <= magnified(epoch, p)
    <3>1. \A p \in Owners : magnified(r, p) = magnified(epoch, p)
      BY <2>2 DEF magnified
    <3> QED BY <1>d, <3>1
  <2> QED BY <1>z, <2>1, <2>2, <2>3
<1>6. ASSUME mark_claim_only
      PROVE  Inv' /\ EarnedOnHeldShares
  <2> DEFINE r == mark_active_claim_only(epoch, vault)
  <2>1. epoch' = r /\ vault' = vault /\ claim_only_succeeds(epoch, vault)
        /\ assert_active_mutation(epoch)
    BY <1>6 DEF mark_claim_only, claim_only_succeeds, assert_active_mutation
  <2>2. /\ Sound(r, vault) /\ r.index = epoch.index
        /\ \A p \in Owners : magnified(r, p) = magnified(epoch, p)
    BY <1>s, <2>1, ClaimOnlySound
  <2> HIDE DEF r
  <2>3. \A p \in Owners : magnified(r, p) <= magnified(epoch, p)
    BY <1>d, <2>2
  <2> QED BY <1>z, <2>1, <2>2, <2>3
<1> QED BY <1>1, <1>2, <1>3, <1>4, <1>5, <1>6 DEF Next

\* The books of the LP epoch are consistent after any sequence of calls, for
\* every number of providers, every scale and every amount.
THEOREM InvariantHolds == Spec => []Inv
<1>1. Inv /\ [Next]_vars => Inv'
  <2> SUFFICES ASSUME Inv, [Next]_vars PROVE Inv'
    OBVIOUS
  <2>1. CASE Next
    BY <2>1, StepKeepsInv
  <2>2. CASE UNCHANGED vars
    BY <2>2 DEF vars, Inv, TypeOK
  <2> QED BY <2>1, <2>2
<1> QED BY InitInv, <1>1, PTL DEF Spec

\* Every provider can be paid at once, and pending_for never underflows.
THEOREM AlwaysSolvent == Spec => []LpSolvent
<1>1. Inv => LpSolvent
  <2> SUFFICES ASSUME Inv PROVE LpSolvent
    OBVIOUS
  <2>1. Sound(epoch, vault)
    BY InvIsSound
  <2> QED BY <2>1, SoundIsSolvent DEF LpSolvent
<1> QED BY <1>1, InvariantHolds, PTL

\* The rounding of exits locks nobody in: whoever was paid may burn the last
\* share, and the epoch can be closed once the last share is gone.
THEOREM LeaversAlwaysMayLeave == Spec => []LeaversMayLeave
<1>1. Inv => LeaversMayLeave
  <2> SUFFICES ASSUME Inv PROVE LeaversMayLeave
    OBVIOUS
  <2>0. Sound(epoch, vault) /\ Books(epoch) /\ epoch \in Epoch /\ exits_settled(epoch)
        /\ positions_match(epoch) /\ ended_without_shares(epoch) /\ vault \in Nat
    BY InvIsSound DEF Sound, Books
  <2>1. ASSUME NEW o \in Owners, assert_active_epoch_healthy(epoch), epoch.shares[o] > 0,
               pending_for(epoch, o) = 0
        PROVE  burn_succeeds(epoch, o, epoch.shares[o])
    BY <2>0, <2>1, MayBurnAll
  <2>2. ASSUME epoch.status = STATUS_ACTIVE, epoch.total_shares = 0, ~epoch.quarantined
        PROVE  /\ claim_only_succeeds(epoch, vault)
               /\ \A o \in Owners : pending_for(epoch, o) = 0
    BY <2>0, <2>2, MayEnd
  <2> QED BY <2>0, <2>1, <2>2 DEF LeaversMayLeave
<1> QED BY <1>1, InvariantHolds, PTL

\* Rewards follow the shares that were held, new shares carry no history, and
\* nothing moves in an epoch that was quarantined or became claim-only.
THEOREM EarnsOnlyOnHeldShares == Spec => EarnsOnHeldShares
<1>1. Inv /\ [Next]_vars => [EarnedOnHeldShares]_vars
  BY StepKeepsInv
<1> QED BY <1>1, InvariantHolds, PTL DEF Spec, EarnsOnHeldShares
=============================================================================
