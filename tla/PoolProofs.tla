----------------------------- MODULE PoolProofs -----------------------------
(***************************************************************************)
(* The composition: every transaction of the pool keeps both ledgers       *)
(* sound.  A lemma per operator of module Pool says what it does to the    *)
(* books, from the lemmas about the two ledgers it composes: LedgerProofs, *)
(* which this module extends, and LpProofs, which it instantiates for the  *)
(* accounts of the token.                                                  *)
(***************************************************************************)
EXTENDS Pool, LedgerProofs

Epochs == INSTANCE LpProofs WITH
  Owners <- Accounts, MaxShares <- 0, MaxReceived <- 0,
  epoch <- lp, vault <- core.lp_vault

\* The assumptions of LpProofs hold of the token's accounts.
LEMMA EpochAssumptions ==
  /\ Epochs!IsFiniteSet(Accounts)
  /\ MAGNITUDE \in Nat \ {0}
<1>1. Epochs!IsFiniteSet(Accounts)
  BY AccountsFinite DEF Epochs!IsFiniteSet, IsFiniteSet
<1> QED BY <1>1, MagnitudePositive

\* Pool's instance of LpEpoch and the one of LpProofs are the same operators.
LEMMA SameReads ==
  /\ Lp!Epoch = Epochs!Epoch /\ Lp!new_epoch = Epochs!new_epoch
  /\ Lp!STATUS_ACTIVE = Epochs!STATUS_ACTIVE
  /\ Lp!STATUS_CLAIM_ONLY = Epochs!STATUS_CLAIM_ONLY
  /\ \A f : Lp!total(f) = Epochs!total(f)
  /\ \A e, o : Lp!pending_for(e, o) = Epochs!pending_for(e, o)
  /\ \A e, v : Lp!epoch_backing(e, v) = Epochs!epoch_backing(e, v)
  /\ \A e : Lp!assert_active_epoch_healthy(e) = Epochs!assert_active_epoch_healthy(e)
<1>1. Lp!Epoch = Epochs!Epoch /\ Lp!new_epoch = Epochs!new_epoch
  BY DEF Lp!Epoch, Epochs!Epoch, Lp!new_epoch, Epochs!new_epoch, Lp!STATUS_ACTIVE,
         Epochs!STATUS_ACTIVE, Lp!STATUS_CLAIM_ONLY, Epochs!STATUS_CLAIM_ONLY
<1>2. /\ Lp!STATUS_ACTIVE = Epochs!STATUS_ACTIVE
      /\ Lp!STATUS_CLAIM_ONLY = Epochs!STATUS_CLAIM_ONLY
  BY DEF Lp!STATUS_ACTIVE, Epochs!STATUS_ACTIVE, Lp!STATUS_CLAIM_ONLY,
         Epochs!STATUS_CLAIM_ONLY
<1>3. \A f : Lp!total(f) = Epochs!total(f)
  BY DEF Lp!total, Epochs!total, Lp!SumFunctionOnSet, Epochs!SumFunctionOnSet,
         Lp!FoldFunctionOnSet, Epochs!FoldFunctionOnSet, Lp!MapThenFoldSet,
         Epochs!MapThenFoldSet
<1>4. \A e, o : Lp!pending_for(e, o) = Epochs!pending_for(e, o)
  BY DEF Lp!pending_for, Epochs!pending_for, Lp!magnified, Epochs!magnified
<1>5. \A e, v : Lp!epoch_backing(e, v) = Epochs!epoch_backing(e, v)
  BY <1>2 DEF Lp!epoch_backing, Epochs!epoch_backing, Lp!aggregate_liability,
              Epochs!aggregate_liability
<1>6. \A e : Lp!assert_active_epoch_healthy(e) = Epochs!assert_active_epoch_healthy(e)
  BY <1>2 DEF Lp!assert_active_epoch_healthy, Epochs!assert_active_epoch_healthy
<1> QED BY <1>1, <1>2, <1>3, <1>4, <1>5, <1>6

\* The same of the operations.
LEMMA SameOperations ==
  /\ \A e, n, v : Lp!receive_routed_reward(e, n, v) = Epochs!receive_routed_reward(e, n, v)
  /\ \A e, o, n : Lp!prepare_claim(e, o, n) = Epochs!prepare_claim(e, o, n)
  /\ \A e, o, n : Lp!mint_active(e, o, n) = Epochs!mint_active(e, o, n)
  /\ \A e, o, n, v : Lp!burn_active(e, o, n, v) = Epochs!burn_active(e, o, n, v)
  /\ \A e, o, p, n, v :
       Lp!transfer_active(e, o, p, n, v) = Epochs!transfer_active(e, o, p, n, v)
  /\ \A e, v : Lp!mark_active_claim_only(e, v) = Epochs!mark_active_claim_only(e, v)
<1>1. \A e, n, v : Lp!receive_routed_reward(e, n, v) = Epochs!receive_routed_reward(e, n, v)
  BY DEF Lp!receive_routed_reward, Epochs!receive_routed_reward, Lp!recompute_rounding,
         Epochs!recompute_rounding, Lp!aggregate_liability, Epochs!aggregate_liability
<1>2. \A e, o, n : Lp!prepare_claim(e, o, n) = Epochs!prepare_claim(e, o, n)
  BY DEF Lp!prepare_claim, Epochs!prepare_claim
<1>3. \A e, o, n : Lp!mint_active(e, o, n) = Epochs!mint_active(e, o, n)
  BY DEF Lp!mint_active, Epochs!mint_active
<1>4. \A e, o, v : Lp!settle_exit(e, o, v) = Epochs!settle_exit(e, o, v)
  BY DEF Lp!settle_exit, Epochs!settle_exit, Lp!normalize_zero_position,
         Epochs!normalize_zero_position, Lp!residue, Epochs!residue, Lp!recompute_rounding,
         Epochs!recompute_rounding, Lp!aggregate_liability, Epochs!aggregate_liability
<1>5. \A e, o, n : Lp!burned(e, o, n) = Epochs!burned(e, o, n)
  BY DEF Lp!burned, Epochs!burned, Lp!reduced, Epochs!reduced
<1>6. \A e, o, p, n : Lp!transferred(e, o, p, n) = Epochs!transferred(e, o, p, n)
  BY DEF Lp!transferred, Epochs!transferred, Lp!reduced, Epochs!reduced
<1>7. \A e, o, n, v : Lp!burn_active(e, o, n, v) = Epochs!burn_active(e, o, n, v)
  BY <1>4, <1>5 DEF Lp!burn_active, Epochs!burn_active
<1>8. \A e, o, p, n, v :
        Lp!transfer_active(e, o, p, n, v) = Epochs!transfer_active(e, o, p, n, v)
  BY <1>4, <1>6 DEF Lp!transfer_active, Epochs!transfer_active
<1>9. \A e, v : Lp!mark_active_claim_only(e, v) = Epochs!mark_active_claim_only(e, v)
  BY DEF Lp!mark_active_claim_only, Epochs!mark_active_claim_only, Lp!recompute_rounding,
         Epochs!recompute_rounding, Lp!aggregate_liability, Epochs!aggregate_liability,
         Lp!STATUS_CLAIM_ONLY, Epochs!STATUS_CLAIM_ONLY
<1> QED BY <1>1, <1>2, <1>3, <1>7, <1>8, <1>9

\* And of what the operations assert.
LEMMA SameGuards ==
  /\ \A e, o, n : Lp!claim_succeeds(e, o, n) = Epochs!claim_succeeds(e, o, n)
  /\ \A e : Lp!mint_succeeds(e) = Epochs!mint_succeeds(e)
  /\ \A e, o, n : Lp!burn_succeeds(e, o, n) = Epochs!burn_succeeds(e, o, n)
  /\ \A e, o, p, n : Lp!transfer_succeeds(e, o, p, n) = Epochs!transfer_succeeds(e, o, p, n)
  /\ \A e, v : Lp!claim_only_succeeds(e, v) = Epochs!claim_only_succeeds(e, v)
<1>1. \A e, o, n : Lp!claim_succeeds(e, o, n) = Epochs!claim_succeeds(e, o, n)
  BY SameReads DEF Lp!claim_succeeds, Epochs!claim_succeeds
<1>2. \A e : Lp!mint_succeeds(e) = Epochs!mint_succeeds(e)
  BY SameReads DEF Lp!mint_succeeds, Epochs!mint_succeeds, Lp!assert_active_mutation,
                   Epochs!assert_active_mutation
<1>3. \A e, o : Lp!exit_succeeds(e, o) = Epochs!exit_succeeds(e, o)
  BY DEF Lp!exit_succeeds, Epochs!exit_succeeds, Lp!normalize_succeeds,
         Epochs!normalize_succeeds, Lp!residue, Epochs!residue, Lp!pending_for,
         Epochs!pending_for, Lp!magnified, Epochs!magnified
<1>4. \A e, o, n : Lp!burned(e, o, n) = Epochs!burned(e, o, n)
  BY DEF Lp!burned, Epochs!burned, Lp!reduced, Epochs!reduced
<1>5. \A e, o, p, n : Lp!transferred(e, o, p, n) = Epochs!transferred(e, o, p, n)
  BY DEF Lp!transferred, Epochs!transferred, Lp!reduced, Epochs!reduced
<1>6. \A e, o, n : Lp!burn_succeeds(e, o, n) = Epochs!burn_succeeds(e, o, n)
  BY <1>3, <1>4, SameReads DEF Lp!burn_succeeds, Epochs!burn_succeeds
<1>7. \A e, o, p, n : Lp!transfer_succeeds(e, o, p, n) = Epochs!transfer_succeeds(e, o, p, n)
  BY <1>3, <1>5, SameReads DEF Lp!transfer_succeeds, Epochs!transfer_succeeds
<1>8. \A e, v : Lp!claim_only_succeeds(e, v) = Epochs!claim_only_succeeds(e, v)
  BY DEF Lp!claim_only_succeeds, Epochs!claim_only_succeeds, Lp!recompute_rounding,
         Epochs!recompute_rounding, Lp!aggregate_liability, Epochs!aggregate_liability,
         Lp!STATUS_ACTIVE, Epochs!STATUS_ACTIVE
<1> QED BY <1>1, <1>2, <1>6, <1>7, <1>8

-----------------------------------------------------------------------------
(* The books of a transaction *)

Books == [core : Ledger, lp : Lp!Epoch, registered : SUBSET Accounts]

\* What holds of the books between any two operations of a transaction: both
\* ledgers are sound, and what the token routed is what the epoch received.
Ledgers(b) ==
  /\ b \in Books
  /\ Sound(b.core) /\ held(b.core) = TOTAL_SUPPLY
  /\ Epochs!Sound(b.lp, b.core.lp_vault)
  /\ b.core.pool_claimed = b.lp.lifetime_received
  /\ ~b.lp.quarantined
  /\ \A a \in Accounts \ b.registered : b.core.raw[a] = 0

Healthy(b) == Ledgers(b) /\ Epochs!assert_active_epoch_healthy(b.lp)

\* The operation from b to c changes neither the reserve nor anybody's shares.
SameWeights(b, c) ==
  /\ c.core.pool_store = b.core.pool_store
  /\ c.core.fee_bps = b.core.fee_bps
  /\ c.lp.shares = b.lp.shares /\ c.lp.total_shares = b.lp.total_shares
  /\ b.registered \subseteq c.registered

\* The parts of the books.
LEMMA BooksFields ==
  ASSUME NEW b, Ledgers(b)
  PROVE  /\ b = [core |-> b.core, lp |-> b.lp, registered |-> b.registered]
         /\ b.core \in Ledger /\ b.lp \in Epochs!Epoch /\ b.registered \subseteq Accounts
         /\ b.core.lp_vault \in Nat /\ b.core.pool_store \in Nat
         /\ b.core.custody_shares = b.core.pool_store
         /\ b.core.lifetime_custody_routed = b.core.pool_claimed
         /\ b.core.pool_claimed \in Nat /\ custody_pending_for_store(b.core) \in Nat
         /\ held(b.core) <= MAGNITUDE
<1>1. /\ b = [core |-> b.core, lp |-> b.lp, registered |-> b.registered]
      /\ b.core \in Ledger /\ b.lp \in Epochs!Epoch /\ b.registered \subseteq Accounts
  BY SameReads DEF Ledgers, Books
<1>2. /\ b.core.lp_vault \in Nat /\ b.core.pool_store \in Nat
      /\ b.core.pool_claimed \in Nat
  BY <1>1, LedgerFields
<1>3. /\ b.core.custody_shares = b.core.pool_store
      /\ b.core.lifetime_custody_routed = b.core.pool_claimed
  BY DEF Ledgers, Sound, shares_match, aggregates_match
<1>4. custody_pending_for_store(b.core) \in Nat
  BY SoundIsSolvent DEF Ledgers
<1>5. held(b.core) <= MAGNITUDE
  BY MagnitudeAssumption, SupplyAssumption DEF Ledgers
<1> QED BY <1>1, <1>2, <1>3, <1>4, <1>5

\* An update of the token's ledger and of the epoch.
LEMMA CoreAndEpoch ==
  ASSUME NEW b \in Books, NEW l, NEW e, NEW c, c = [b EXCEPT !.core = l, !.lp = e]
  PROVE  c = [core |-> l, lp |-> e, registered |-> b.registered]
<1>1. b = [core |-> b.core, lp |-> b.lp, registered |-> b.registered]
  BY DEF Books
<1> QED BY <1>1

\* An update of the token's ledger that registers wallets.
LEMMA CoreAndWallets ==
  ASSUME NEW b \in Books, NEW l, NEW R, NEW c, c = [b EXCEPT !.core = l, !.registered = R]
  PROVE  c = [core |-> l, lp |-> b.lp, registered |-> R]
<1>1. b = [core |-> b.core, lp |-> b.lp, registered |-> b.registered]
  BY DEF Books
<1> QED BY <1>1

\* An update of the epoch.
LEMMA EpochOnly ==
  ASSUME NEW b \in Books, NEW e, NEW c, c = [b EXCEPT !.lp = e]
  PROVE  c = [core |-> b.core, lp |-> e, registered |-> b.registered]
<1>1. b = [core |-> b.core, lp |-> b.lp, registered |-> b.registered]
  BY DEF Books
<1> QED BY <1>1

\* Books made of sound ledgers that agree.
LEMMA MakeLedgers ==
  ASSUME NEW l, NEW e, NEW R, Sound(l), held(l) = TOTAL_SUPPLY, Epochs!Sound(e, l.lp_vault),
         l.pool_claimed = e.lifetime_received, ~e.quarantined, R \subseteq Accounts,
         \A a \in Accounts \ R : l.raw[a] = 0,
         NEW c, c = [core |-> l, lp |-> e, registered |-> R]
  PROVE  Ledgers(c) /\ c.core = l /\ c.lp = e /\ c.registered = R
<1>1. c.core = l /\ c.lp = e /\ c.registered = R
  OBVIOUS
<1>2. l \in Ledger
  BY DEF Sound
<1>3. e \in Lp!Epoch
  BY SameReads DEF Epochs!Sound, Epochs!Books
<1>4. c \in Books
  BY <1>2, <1>3 DEF Books
<1> QED BY <1>1, <1>4 DEF Ledgers

\* The assertions a transaction makes of its books hold of such books.
LEMMA LedgersAreBacked ==
  ASSUME NEW b, Ledgers(b)
  PROVE  backed(b)
<1>1. b.core.custody_shares = b.core.pool_store
  BY BooksFields
<1>2. Lp!epoch_backing(b.lp, b.core.lp_vault)
  BY SameReads DEF Ledgers, Epochs!Sound
<1>3. accounting_backing(b.core)
  BY DEF Ledgers, Sound
<1> QED BY <1>1, <1>2, <1>3 DEF backed

\* A reward that left the index alone left the reserve's pending reward alone.
LEMMA SamePending ==
  ASSUME NEW l, NEW r, SameEarnings(l, r), r.pool_claimed = l.pool_claimed
  PROVE  custody_pending_for_store(r) = custody_pending_for_store(l)
BY DEF SameEarnings, custody_pending_for_store

\* Wallets that kept their position and an index that did not move show the
\* same balances.
LEMMA SameBalances ==
  ASSUME NEW l, NEW r, SameWallets(l, r), SameIndex(l, r)
  PROVE  /\ \A a \in Accounts : derived_balance(r, a) = derived_balance(l, a)
         /\ \A gross : fee_for(r, gross) = fee_for(l, gross)
BY DEF SameWallets, SameIndex, derived_balance, claimable_for_store, magnified, fee_for

\* checkpoint_active: the reserve's pending reward goes to the vault and to the
\* epoch, and nothing else moves.
LEMMA CheckpointKeeps ==
  ASSUME NEW b, Healthy(b), NEW c, c = checkpoint_active(b)
  PROVE  /\ Healthy(c) /\ SameWeights(b, c) /\ c.registered = b.registered
         /\ SameWallets(b.core, c.core) /\ SameIndex(b.core, c.core)
         /\ custody_pending_for_store(c.core) = 0
         /\ (custody_pending_for_store(b.core) = 0 => c.lp = b.lp)
<1> DEFINE n == custody_pending_for_store(b.core)
           r == route_custody_rewards(b.core)
           v == b.core.lp_vault
           f == IF n > 0 THEN Epochs!receive_routed_reward(b.lp, n, r.lp_vault) ELSE b.lp
<1>0. Ledgers(b) /\ Epochs!assert_active_epoch_healthy(b.lp) /\ Sound(b.core)
      /\ Epochs!Sound(b.lp, v) /\ held(b.core) = TOTAL_SUPPLY
  BY DEF Healthy, Ledgers
<1>1. /\ b = [core |-> b.core, lp |-> b.lp, registered |-> b.registered]
      /\ b.core \in Ledger /\ b.lp \in Epochs!Epoch /\ b.registered \subseteq Accounts
      /\ v \in Nat /\ b.core.pool_claimed \in Nat /\ n \in Nat
  BY <1>0, BooksFields
<1>2. c = [core |-> r, lp |-> f, registered |-> b.registered]
  <2>1. c = [b EXCEPT !.core = r, !.lp = f]
    BY SameOperations DEF checkpoint_active
  <2> HIDE DEF n, r, f
  <2> QED BY <1>1, <2>1
<1>3. /\ Sound(r) /\ held(r) = held(b.core) /\ SameWallets(b.core, r)
      /\ SameIndex(b.core, r) /\ r.pool_store = b.core.pool_store
      /\ r.lp_vault = v + n /\ r.pool_claimed = b.core.pool_claimed + n
      /\ custody_pending_for_store(r) = 0
  BY <1>0, RouteRewards
<1> HIDE DEF r, n, v
<1>4. /\ Epochs!Sound(f, r.lp_vault) /\ f.shares = b.lp.shares
      /\ f.total_shares = b.lp.total_shares /\ Epochs!assert_active_epoch_healthy(f)
      /\ f.lifetime_received = b.lp.lifetime_received + n
  <2>1. CASE n > 0
    <3>1. f = Epochs!receive_routed_reward(b.lp, n, v + n)
      BY <1>3, <2>1
    <3> HIDE DEF f
    <3>0. n \in Nat /\ Epochs!Sound(b.lp, v) /\ Epochs!assert_active_epoch_healthy(b.lp)
      BY <1>0, <1>1
    <3>2. /\ Epochs!Sound(f, v + n) /\ f.shares = b.lp.shares
          /\ f.total_shares = b.lp.total_shares /\ Epochs!assert_active_epoch_healthy(f)
          /\ f.lifetime_received = b.lp.lifetime_received + n
      BY <3>0, <3>1, EpochAssumptions, Epochs!ReceiveKeeps
    <3> QED BY <1>3, <3>2
  <2>2. CASE n = 0
    <3>1. f = b.lp /\ r.lp_vault = v
      BY <1>1, <1>3, <2>2
    <3>2. b.lp.lifetime_received = b.lp.lifetime_received + n
      <4>1. b.lp.lifetime_received = b.core.pool_claimed
        BY <1>0 DEF Ledgers
      <4> QED BY <1>1, <2>2, <4>1
    <3> QED BY <1>0, <3>1, <3>2
  <2> QED BY <1>1, <2>1, <2>2
<1>5. f = b.lp \/ n # 0
  BY <1>1
<1> HIDE DEF f
<1>6. ~f.quarantined
  BY <1>4 DEF Epochs!assert_active_epoch_healthy
<1>7. \A a \in Accounts \ b.registered : r.raw[a] = 0
  BY <1>0, <1>3 DEF Ledgers, SameWallets
<1>8. r.pool_claimed = f.lifetime_received
  BY <1>0, <1>3, <1>4 DEF Ledgers
<1>9. Ledgers(c) /\ c.core = r /\ c.lp = f /\ c.registered = b.registered
  <2>1. held(r) = TOTAL_SUPPLY /\ b.registered \subseteq Accounts
    BY <1>0, <1>1, <1>3
  <2> QED BY <1>2, <1>3, <1>4, <1>6, <1>7, <1>8, <2>1, MakeLedgers
<1>10. SameWeights(b, c)
  BY <1>3, <1>4, <1>9 DEF SameWeights, SameIndex
<1> QED BY <1>3, <1>4, <1>5, <1>9, <1>10 DEF Healthy, n

\* pay_lp_claim: the vault pays a provider what the epoch owes.
LEMMA PayKeeps ==
  ASSUME NEW b, Ledgers(b), NEW owner \in Accounts, NEW amount \in Nat,
         Epochs!claim_succeeds(b.lp, owner, amount),
         NEW c, c = pay_lp_claim(b, owner, amount)
  PROVE  /\ Ledgers(c) /\ SameWeights(b, c) /\ c.registered = b.registered \cup {owner}
         /\ c.lp.status = b.lp.status
         /\ amount <= b.core.lp_vault
         /\ custody_pending_for_store(c.core) = custody_pending_for_store(b.core)
         /\ Epochs!pending_for(c.lp, owner) = Epochs!pending_for(b.lp, owner) - amount
<1> DEFINE r == payout_lp_reward_to(b.core, owner, amount)
           f == Epochs!prepare_claim(b.lp, owner, amount)
           v == b.core.lp_vault
           R == b.registered \cup {owner}
<1>0. Sound(b.core) /\ Epochs!Sound(b.lp, v) /\ held(b.core) = TOTAL_SUPPLY
  BY DEF Ledgers
<1>1. b.registered \subseteq Accounts /\ v \in Nat
  BY BooksFields
<1>2. c = [core |-> r, lp |-> f, registered |-> R]
  BY SameOperations DEF pay_lp_claim
<1>3. /\ Epochs!Sound(f, v - amount) /\ v - amount \in Nat /\ Epochs!SameTerms(b.lp, f)
      /\ f.shares = b.lp.shares /\ f.total_shares = b.lp.total_shares
      /\ Epochs!pending_for(f, owner) = Epochs!pending_for(b.lp, owner) - amount
  <2> HIDE DEF f, v
  <2>1. f = Epochs!prepare_claim(b.lp, owner, amount)
    BY DEF f
  <2> QED BY <1>0, <2>1, EpochAssumptions, Epochs!ClaimKeeps
<1>4. amount <= v
  BY <1>1, <1>3
<1>5. /\ Moves(b.core, r, owner) /\ SamePool(b.core, r) /\ SameIndex(b.core, r)
      /\ r.lp_vault = v - amount /\ SameEarnings(b.core, r)
  BY <1>0, <1>4, PayoutLpReward
<1> HIDE DEF r, f, v
<1>6. Sound(r) /\ held(r) = TOTAL_SUPPLY
  BY <1>0, <1>5 DEF Moves
<1>7. \A a \in Accounts \ R : r.raw[a] = 0
  BY <1>5 DEF Ledgers, Moves, SameWalletsBut
<1>8. r.pool_claimed = f.lifetime_received /\ ~f.quarantined
  BY <1>3, <1>5 DEF Ledgers, SamePool, Epochs!SameTerms
<1>9. Ledgers(c) /\ c.core = r /\ c.lp = f /\ c.registered = R
  <2>1. Epochs!Sound(f, r.lp_vault) /\ R \subseteq Accounts
    BY <1>1, <1>3, <1>5
  <2> HIDE DEF R
  <2> QED BY <1>2, <1>6, <1>7, <1>8, <2>1, MakeLedgers
<1>10. SameWeights(b, c)
  BY <1>3, <1>5, <1>9 DEF SameWeights, SameIndex, SamePool
<1>11. custody_pending_for_store(r) = custody_pending_for_store(b.core)
  BY <1>5, SamePending DEF SamePool
<1> QED BY <1>3, <1>4, <1>9, <1>10, <1>11 DEF Epochs!SameTerms, v

\* materialize_lp_rewards: afterwards nothing is pending for the provider.
LEMMA MaterializeKeeps ==
  ASSUME NEW b, Healthy(b), NEW owner \in Accounts, NEW c, c = materialize_lp_rewards(b, owner)
  PROVE  /\ Healthy(c) /\ SameWeights(b, c)
         /\ custody_pending_for_store(c.core) = custody_pending_for_store(b.core)
         /\ Epochs!pending_for(c.lp, owner) = 0
<1> DEFINE n == Epochs!pending_for(b.lp, owner)
<1>0. Ledgers(b) /\ Epochs!assert_active_epoch_healthy(b.lp)
  BY DEF Healthy
<1>1. n \in Nat
  <2>1. b.lp \in Epochs!Epoch /\ Epochs!positions_match(b.lp) /\ Epochs!never_overpaid(b.lp)
    BY <1>0 DEF Ledgers, Epochs!Sound, Epochs!Books
  <2>2. Epochs!pending_for(b.lp, owner) \in Int
    BY <2>1, EpochAssumptions, Epochs!MagnifiedType, ZenonT(60)
  <2>3. Epochs!pending_for(b.lp, owner) >= 0
    BY <2>1, EpochAssumptions, Epochs!PendingWithinLiability, ZenonT(60)
  <2> QED BY <2>2, <2>3
<1>2. c = IF n = 0 THEN b ELSE pay_lp_claim(b, owner, n)
  BY SameReads DEF materialize_lp_rewards
<1> HIDE DEF n
<1>3. CASE n = 0
  BY <1>2, <1>3 DEF SameWeights, n
<1>4. CASE n # 0
  <2>1. Epochs!claim_succeeds(b.lp, owner, n)
    <3>1. n > 0 /\ n <= Epochs!pending_for(b.lp, owner)
      BY <1>1, <1>4 DEF n
    <3> QED BY <1>0, <3>1 DEF Epochs!claim_succeeds
  <2>2. /\ Ledgers(c) /\ SameWeights(b, c) /\ c.lp.status = b.lp.status
        /\ custody_pending_for_store(c.core) = custody_pending_for_store(b.core)
        /\ Epochs!pending_for(c.lp, owner) = n - n
    BY <1>0, <1>1, <1>2, <1>4, <2>1, PayKeeps DEF n
  <2>3. Epochs!assert_active_epoch_healthy(c.lp)
    BY <1>0, <2>2 DEF Epochs!assert_active_epoch_healthy, SameWeights, Ledgers
  <2> QED BY <1>1, <2>2, <2>3 DEF Healthy
<1> QED BY <1>3, <1>4

\* The token moves units, but none of the LP vault: the books stay in order
\* when the wallets it touches are registered.
LEMMA TokenMoves ==
  ASSUME NEW b, Ledgers(b), NEW r, Sound(r), held(r) = held(b.core),
         NEW n, ReserveMoves(b.core, r, n), NEW R, R \subseteq Accounts, b.registered \subseteq R,
         \A a \in Accounts \ R : r.raw[a] = b.core.raw[a],
         NEW c, c = [core |-> r, lp |-> b.lp, registered |-> R]
  PROVE  Ledgers(c) /\ c.core = r /\ c.lp = b.lp /\ c.registered = R
<1>1. /\ Epochs!Sound(b.lp, r.lp_vault) /\ r.pool_claimed = b.lp.lifetime_received
      /\ ~b.lp.quarantined /\ held(r) = TOTAL_SUPPLY
  BY DEF Ledgers, ReserveMoves
<1>2. \A a \in Accounts \ R : r.raw[a] = 0
  BY DEF Ledgers
<1> QED BY <1>1, <1>2, MakeLedgers

\* The epoch changes shares, but receives and pays nothing.
LEMMA EpochMoves ==
  ASSUME NEW b, Ledgers(b), NEW f, Epochs!Sound(f, b.core.lp_vault),
         f.quarantined = b.lp.quarantined, f.lifetime_received = b.lp.lifetime_received,
         NEW c, c = [core |-> b.core, lp |-> f, registered |-> b.registered]
  PROVE  Ledgers(c) /\ c.core = b.core /\ c.lp = f /\ c.registered = b.registered
<1>1. /\ Sound(b.core) /\ held(b.core) = TOTAL_SUPPLY /\ ~f.quarantined
      /\ b.core.pool_claimed = f.lifetime_received
      /\ \A a \in Accounts \ b.registered : b.core.raw[a] = 0
  BY DEF Ledgers
<1>2. b.registered \subseteq Accounts
  BY BooksFields
<1> QED BY <1>1, <1>2, MakeLedgers

\* The end of a swap: whatever the token settled, the reserve's part of the fee
\* is passed on.
LEMMA SwapEnds ==
  ASSUME NEW b, Healthy(b), NEW trader \in Accounts, NEW r, Moves(b.core, r, trader),
         NEW n, ReserveMoves(b.core, r, n),
         NEW s, s = [core |-> r, lp |-> b.lp, registered |-> b.registered \cup {trader}],
         NEW c, c = checkpoint_active(s)
  PROVE  /\ Healthy(c) /\ custody_pending_for_store(c.core) = 0
         /\ c.core.pool_store = b.core.pool_store + n
         /\ c.lp.total_shares = b.lp.total_shares
<1> DEFINE R == b.registered \cup {trader}
<1>1. Ledgers(b) /\ Epochs!assert_active_epoch_healthy(b.lp)
  BY DEF Healthy
<1>2. R \subseteq Accounts /\ b.registered \subseteq R
  BY <1>1, BooksFields
<1>3. \A a \in Accounts \ R : r.raw[a] = b.core.raw[a]
  BY DEF Moves, SameWalletsBut
<1>4. Sound(r) /\ held(r) = held(b.core)
  BY DEF Moves
<1> HIDE DEF R
<1>5. Ledgers(s) /\ s.core = r /\ s.lp = b.lp
  BY <1>1, <1>2, <1>3, <1>4, TokenMoves DEF R
<1>6. Healthy(s)
  BY <1>1, <1>5 DEF Healthy
<1>7. Healthy(c) /\ SameWeights(s, c) /\ custody_pending_for_store(c.core) = 0
  BY <1>6, CheckpointKeeps
<1> QED BY <1>5, <1>7 DEF SameWeights, ReserveMoves

\* settled_swap books what the token settled on the checkpointed books.
LEMMA SettledSwap ==
  ASSUME Ledgers(checked), NEW r, NEW trader
  PROVE  settled_swap(r, trader)
           = checkpoint_active([core |-> r, lp |-> checked.lp,
                                registered |-> checked.registered \cup {trader}])
<1> DEFINE b == checked
           R == b.registered \cup {trader}
<1>1. b \in Books
  BY DEF Ledgers
<1>2. PICK s : s = [b EXCEPT !.core = r, !.registered = R]
  OBVIOUS
<1>3. settled_swap(r, trader) = checkpoint_active(s)
  BY <1>2 DEF settled_swap
<1>4. s = [core |-> r, lp |-> b.lp, registered |-> R]
  <2> HIDE DEF b, R
  <2> QED BY <1>1, <1>2, CoreAndWallets
<1> QED BY <1>3, <1>4

-----------------------------------------------------------------------------
(* The arithmetic of the reserves *)

\* The part of an input that is priced is a part of it.
LEMMA PricedInput ==
  ASSUME NEW input \in Nat, NEW p, p = input - Reserves!fee(input, FIXED_AMM_FEE_BPS)
  PROVE  p \in Nat /\ p <= input
<1> DEFINE D == BPS_DENOMINATOR
           k == D - FIXED_AMM_FEE_BPS
           n == input * k
           q == n \div D
<1>1. D \in Nat /\ D > 0 /\ k \in Nat /\ k <= D
  BY PolicyAssumption, FeeAssumption
<1>2. p = input - (input - q)
  BY DEF Reserves!fee, Reserves!invariant_input
<1> HIDE DEF k, D
<1>3. n \in Nat
  BY <1>1
<1>4. n <= D * input
  <2>1. k * input <= D * input
    BY <1>1, TimesMono
  <2>2. k * input = input * k
    BY <1>1
  <2> QED BY <2>1, <2>2
<1> HIDE DEF n
<1>5. q \in Nat /\ q <= input
  BY <1>1, <1>3, <1>4, DivNat, DivLeq
<1> HIDE DEF q
<1> QED BY <1>2, <1>5

\* What a swap leaves of the reserves x and y.
LEMMA SwapArithmetic ==
  ASSUME NEW x \in Nat, x > 0, NEW y \in Nat, y > 0, NEW input \in Nat,
         NEW o, o = Reserves!constant_product_output(x, y, input, FIXED_AMM_FEE_BPS)
  PROVE  /\ o \in Nat /\ o < y
         /\ x * y <= (x + input) * (y - o)
<1>1. PICK p : p = input - Reserves!fee(input, FIXED_AMM_FEE_BPS)
  OBVIOUS
<1>2. p \in Nat /\ p <= input
  BY <1>1, PricedInput
<1>3. o = (y * p) \div (x + p)
  BY <1>1 DEF Reserves!constant_product_output
<1> QED BY <1>2, <1>3, OutputKeepsProduct

\* What a provider pays for new shares covers their part of the reserves.
LEMMA MintArithmetic ==
  ASSUME NEW x \in Nat, x > 0, NEW y \in Nat, y > 0, NEW t \in Nat, t > 0,
         NEW max_x \in Nat, NEW max_y \in Nat,
         NEW m, m = Reserves!liquidity_mint(max_x, max_y, x, y, t)
  PROVE  /\ m.shares \in Nat /\ m.rfl_used \in Nat /\ m.usd_used \in Nat
         /\ m.shares * x <= m.rfl_used * t /\ m.shares * y <= m.usd_used * t
<1> DEFINE a == (max_x * t) \div x
           b == (max_y * t) \div y
           s == IF a < b THEN a ELSE b
           u == IF s * x = 0 THEN 0 ELSE (s * x - 1) \div t + 1
           w == IF s * y = 0 THEN 0 ELSE (s * y - 1) \div t + 1
<1>1. max_x * t \in Nat /\ max_y * t \in Nat
  OBVIOUS
<1>2. a \in Nat /\ b \in Nat
  BY <1>1, DivNat
<1>3. m.shares = s /\ m.rfl_used = u /\ m.usd_used = w
  <2>1. Reserves!minted_shares(max_x, max_y, x, y, t) = s
    BY DEF Reserves!minted_shares, Reserves!shares_from
  <2> HIDE DEF s, a, b
  <2> QED BY <2>1 DEF Reserves!liquidity_mint, Reserves!contribution, Reserves!ceil_div_u256
<1> HIDE DEF a, b
<1>4. s \in Nat
  BY <1>2
<1> HIDE DEF s
<1>5. s * x \in Nat /\ s * y \in Nat
  BY <1>4
<1>6. u \in Nat /\ s * x <= u * t
  BY <1>5, Ceiling
<1>7. w \in Nat /\ s * y <= w * t
  BY <1>5, Ceiling
<1> HIDE DEF u, w
<1> QED BY <1>3, <1>4, <1>6, <1>7

\* What a leaver takes of a reserve: its part or less, and all of it only with
\* the last share.
FairPart(x, t, s, w) ==
  /\ w \in Nat /\ w <= x /\ w * t <= s * x
  /\ (s = t => w = x)
  /\ (s < t /\ x > 0 => w < x)

\* withdrawal computes that.
LEMMA ExitArithmetic ==
  ASSUME NEW x \in Nat, NEW t \in Nat, NEW s \in Nat, t > 0, s <= t,
         NEW w, w = Reserves!withdrawal(s, t, x)
  PROVE  FairPart(x, t, s, w)
BY ShareOfReserve DEF Reserves!withdrawal, FairPart

\* Contributions in proportion keep what a share stands for, and so does an
\* exit that takes its proportion or less.
LEMMA WorthKept ==
  ASSUME NEW x \in Nat, NEW t \in Nat, NEW s \in Nat, NEW u \in Nat
  PROVE  /\ s * x <= u * t => (x + u) * t >= x * (t + s)
         /\ u * t <= s * x => (x - u) * t >= x * (t - s)
<1>1. /\ (x + u) * t = x * t + u * t /\ x * (t + s) = x * t + s * x
      /\ (x - u) * t = x * t - u * t /\ x * (t - s) = x * t - s * x
  OBVIOUS
<1>2. x * t \in Int /\ u * t \in Int /\ s * x \in Int
  OBVIOUS
<1> QED BY <1>1, <1>2

-----------------------------------------------------------------------------
(* The invariant *)

Unlaunched(b, reserve) ==
  /\ b.core.distribution_vault = TOTAL_SUPPLY
  /\ b.core.pool_store = 0 /\ reserve = 0
  /\ b.lp.total_shares = 0 /\ b.lp.status = Epochs!STATUS_ACTIVE

Live(b, reserve) ==
  /\ Epochs!assert_active_epoch_healthy(b.lp)
  /\ b.core.pool_store > 0 /\ reserve > 0

Closed(b, reserve) ==
  /\ b.core.pool_store = 0 /\ reserve = 0
  /\ b.lp.status = Epochs!STATUS_CLAIM_ONLY

\* What holds of the pool between two transactions.
InOrder(b, reserve, stage) ==
  /\ Ledgers(b)
  /\ custody_pending_for_store(b.core) = 0
  /\ reserve \in Nat
  /\ stage \in {"unlaunched", "live", "closed"}
  /\ stage = "unlaunched" => Unlaunched(b, reserve)
  /\ stage = "live" => Live(b, reserve)
  /\ stage = "closed" => Closed(b, reserve)

PoolInv == InOrder(books, usd_reserve, lifecycle) /\ usd \in [Accounts -> Nat]

\* Books that are in order after the step.
LEMMA NextBooks ==
  ASSUME NEW c, NEW reserve, NEW stage, InOrder(c, reserve, stage),
         core' = c.core, lp' = c.lp, registered' = c.registered,
         usd_reserve' = reserve, lifecycle' = stage, usd' \in [Accounts -> Nat]
  PROVE  PoolInv'
<1>1. books' = [core |-> c.core, lp |-> c.lp, registered |-> c.registered]
  BY DEF books
<1>2. c = [core |-> c.core, lp |-> c.lp, registered |-> c.registered]
  BY BooksFields DEF InOrder
<1>3. books' = c
  BY <1>1, <1>2
<1> QED BY <1>3 DEF PoolInv, InOrder, Ledgers, Unlaunched, Live, Closed

\* The same of a pool that is live after the step.
LEMMA NextLive ==
  ASSUME NEW c, Healthy(c), custody_pending_for_store(c.core) = 0, c.core.pool_store > 0,
         core' = c.core, lp' = c.lp, registered' = c.registered,
         usd_reserve' \in Nat, usd_reserve' > 0, lifecycle' = "live",
         usd' \in [Accounts -> Nat]
  PROVE  PoolInv' /\ Promise!Positive'
<1>1. InOrder(c, usd_reserve', "live")
  BY DEF InOrder, Healthy, Live
<1>2. PoolInv'
  BY <1>1, NextBooks
<1>3. Promise!Positive'
  BY DEF Healthy, Epochs!assert_active_epoch_healthy, Promise!Positive
<1> QED BY <1>2, <1>3

\* What the invariant says of a pool that is live, with its books checkpointed.
LEMMA LiveFacts ==
  ASSUME PoolInv, lifecycle = "live"
  PROVE  /\ Healthy(books) /\ books.core = core /\ books.lp = lp
         /\ books.registered = registered
         /\ core.pool_store \in Nat /\ core.pool_store > 0
         /\ usd_reserve \in Nat /\ usd_reserve > 0
         /\ lp.total_shares \in Nat /\ lp.total_shares > 0
         /\ Healthy(checked) /\ SameWeights(books, checked)
         /\ checked.registered = registered
         /\ SameWallets(core, checked.core) /\ SameIndex(core, checked.core)
         /\ custody_pending_for_store(checked.core) = 0 /\ checked.lp = lp
<1>1. books.core = core /\ books.lp = lp /\ books.registered = registered
  BY DEF books
<1> DEFINE b == books
<1>2. /\ Healthy(b) /\ b.core.pool_store > 0 /\ custody_pending_for_store(b.core) = 0
      /\ usd_reserve \in Nat /\ usd_reserve > 0
  BY DEF PoolInv, InOrder, Live, Healthy
<1>3. PICK c : c = checked
  OBVIOUS
<1>4. c = checkpoint_active(b)
  BY <1>3 DEF checked
<1> HIDE DEF b
<1>5. b.core.pool_store \in Nat /\ b.lp \in Epochs!Epoch
  BY <1>2, BooksFields DEF Healthy
<1>6. b.lp.total_shares \in Nat /\ b.lp.total_shares > 0
  <2>1. b.lp.total_shares \in Nat
    BY <1>5, EpochAssumptions, Epochs!EpochFields, ZenonT(60)
  <2> QED BY <1>2, <2>1 DEF Healthy, Epochs!assert_active_epoch_healthy
<1>7. /\ Healthy(c) /\ SameWeights(b, c) /\ c.registered = b.registered
      /\ SameWallets(b.core, c.core) /\ SameIndex(b.core, c.core)
      /\ custody_pending_for_store(c.core) = 0 /\ c.lp = b.lp
  BY <1>2, <1>4, CheckpointKeeps
<1> QED BY <1>1, <1>2, <1>3, <1>5, <1>6, <1>7 DEF b

\* The same books once a provider is paid.
LEMMA SettledFacts ==
  ASSUME PoolInv, lifecycle = "live", NEW a \in Accounts, NEW s, s = settled_for(a)
  PROVE  /\ Healthy(s) /\ SameWeights(books, s)
         /\ custody_pending_for_store(s.core) = 0
         /\ Epochs!pending_for(s.lp, a) = 0
         /\ s.core.pool_store = core.pool_store /\ s.lp.total_shares = lp.total_shares
         /\ s.lp.shares = lp.shares
<1>1. PICK c : c = checked
  OBVIOUS
<1>2. /\ Healthy(c) /\ SameWeights(books, c) /\ custody_pending_for_store(c.core) = 0
      /\ books.core = core /\ books.lp = lp
  BY <1>1, LiveFacts
<1>3. s = materialize_lp_rewards(c, a)
  BY <1>1 DEF settled_for
<1>4. /\ Healthy(s) /\ SameWeights(c, s)
      /\ custody_pending_for_store(s.core) = custody_pending_for_store(c.core)
      /\ Epochs!pending_for(s.lp, a) = 0
  BY <1>2, <1>3, MaterializeKeeps
<1>5. SameWeights(books, s)
  BY <1>2, <1>4 DEF SameWeights
<1> QED BY <1>2, <1>4, <1>5 DEF SameWeights

-----------------------------------------------------------------------------
(* The steps: each keeps the invariant, and the promise to the providers *)

\* What a step of Pool is to the abstract pool.
Keeps == PoolInv' /\ [Promise!Next]_(Promise!vars)

\* A step that leaves reserves, shares and lifecycle as they are.
LEMMA Stutters ==
  ASSUME core'.pool_store = core.pool_store, lp'.total_shares = lp.total_shares,
         usd_reserve' = usd_reserve, lifecycle' = lifecycle
  PROVE  [Promise!Next]_(Promise!vars)
BY DEF Promise!vars

\* The first shares are at most the geometric mean of the reserves.
LEMMA FirstShares ==
  ASSUME NEW n, n = INITIAL_POOL_RFL * INITIAL_TUSD_LIQUIDITY,
         NEW s, s = Reserves!initial_lp_shares(INITIAL_POOL_RFL, INITIAL_TUSD_LIQUIDITY)
  PROVE  s \in Nat /\ s * s <= n
<1>1. n \in Nat
  BY SupplyAssumption, PolicyAssumption
<1>2. s = CHOOSE r \in 0 .. n : Reserves!is_floor_sqrt(r, n)
  BY DEF Reserves!initial_lp_shares
<1>3. \E r \in 0 .. n : Reserves!is_floor_sqrt(r, n)
  BY <1>1, FloorSqrt DEF Reserves!is_floor_sqrt
<1>4. s \in 0 .. n /\ Reserves!is_floor_sqrt(s, n)
  BY <1>2, <1>3
<1> QED BY <1>1, <1>4 DEF Reserves!is_floor_sqrt

\* launch.
LEMMA LaunchStep ==
  ASSUME PoolInv, launch
  PROVE  Keeps
<1>1. PICK s : s = Reserves!initial_lp_shares(INITIAL_POOL_RFL, INITIAL_TUSD_LIQUIDITY)
  OBVIOUS
<1> DEFINE r == seed_pool_from_distribution(core)
           f == Epochs!mint_active(lp, bootstrap_lp, s)
<1>2. /\ lifecycle = "unlaunched" /\ s > 0 /\ usd_reserve' = INITIAL_TUSD_LIQUIDITY
      /\ lifecycle' = "live" /\ usd' = usd
      /\ commit([books EXCEPT !.core = r, !.lp = f])
  BY <1>1, SameOperations DEF launch
<1>3. /\ books \in Books /\ Sound(core) /\ held(core) = TOTAL_SUPPLY
      /\ Epochs!Sound(lp, core.lp_vault) /\ ~lp.quarantined /\ Ledgers(books)
      /\ core.pool_claimed = lp.lifetime_received
      /\ custody_pending_for_store(core) = 0 /\ usd \in [Accounts -> Nat]
      /\ core.distribution_vault = TOTAL_SUPPLY /\ core.pool_store = 0
      /\ lp.total_shares = 0 /\ lp.status = Epochs!STATUS_ACTIVE
      /\ books.core = core /\ books.lp = lp /\ books.registered = registered
  BY <1>2 DEF PoolInv, InOrder, Unlaunched, Ledgers, books
<1>4. s \in Nat /\ s * s <= INITIAL_POOL_RFL * INITIAL_TUSD_LIQUIDITY
  BY <1>1, FirstShares
<1>i. /\ INITIAL_POOL_RFL \in Nat /\ INITIAL_POOL_RFL > 0 /\ INITIAL_POOL_RFL <= TOTAL_SUPPLY
      /\ INITIAL_TUSD_LIQUIDITY \in Nat /\ INITIAL_TUSD_LIQUIDITY > 0
  BY SupplyAssumption, PolicyAssumption
<1>5. /\ Sound(r) /\ held(r) = held(core) /\ SameWallets(core, r)
      /\ SameIndex(core, r) /\ SameEarnings(core, r)
      /\ ReserveMoves(core, r, INITIAL_POOL_RFL)
  BY <1>3, <1>i, SeedPool
<1>6. Epochs!Sound(f, core.lp_vault) /\ Epochs!SameTerms(lp, f)
      /\ f.total_shares = lp.total_shares + s
  <2>1. Epochs!mint_succeeds(lp)
    BY <1>3 DEF Epochs!mint_succeeds, Epochs!assert_active_mutation
  <2>2. bootstrap_lp \in Accounts /\ s \in Nat \ {0}
    BY <1>2, <1>4, BootstrapAssumption DEF Accounts
  <2>3. PICK g : g = f
    OBVIOUS
  <2> QED BY <1>3, <2>1, <2>2, <2>3, EpochAssumptions, Epochs!MintKeeps
<1>7. PICK c : c = [books EXCEPT !.core = r, !.lp = f]
  OBVIOUS
<1> HIDE DEF r, f
<1>8. c = [core |-> r, lp |-> f, registered |-> registered]
  BY <1>3, <1>7, CoreAndEpoch
<1>9. Ledgers(c) /\ c.core = r /\ c.lp = f /\ c.registered = registered
  <2>1. Epochs!Sound(f, r.lp_vault) /\ r.pool_claimed = f.lifetime_received /\ ~f.quarantined
    BY <1>3, <1>5, <1>6 DEF ReserveMoves, Epochs!SameTerms
  <2>2. \A a \in Accounts \ registered : r.raw[a] = 0
    BY <1>3, <1>5 DEF Ledgers, SameWallets
  <2>3. registered \subseteq Accounts
    BY <1>3 DEF Books
  <2> QED BY <1>3, <1>5, <1>8, <2>1, <2>2, <2>3, MakeLedgers
<1>10. f.total_shares = s /\ r.pool_store = INITIAL_POOL_RFL
  BY <1>3, <1>4, <1>5, <1>6, <1>i DEF ReserveMoves
<1>11. Healthy(c)
  BY <1>2, <1>3, <1>6, <1>9, <1>10 DEF Healthy, Epochs!assert_active_epoch_healthy, Epochs!SameTerms
<1>12. custody_pending_for_store(c.core) = 0
  BY <1>3, <1>5, <1>9, SamePending DEF ReserveMoves
<1>13. core' = c.core /\ lp' = c.lp /\ registered' = c.registered
  BY <1>2, <1>7 DEF commit
<1>14. PoolInv' /\ Promise!Positive'
  BY <1>2, <1>3, <1>9, <1>10, <1>11, <1>12, <1>13, <1>i, NextLive
<1>15. Promise!Open
  BY <1>2, <1>4, <1>9, <1>10, <1>13, <1>14 DEF Promise!Open
<1> QED BY <1>14, <1>15 DEF Keeps, Promise!Next

\* checkpoint_lp_rewards.
LEMMA CheckpointStep ==
  ASSUME PoolInv, checkpoint_lp_rewards
  PROVE  Keeps
<1>1. PICK c : c = checked
  OBVIOUS
<1>2. /\ lifecycle = "live" /\ lifecycle' = "live" /\ usd' = usd /\ usd_reserve' = usd_reserve
      /\ core' = c.core /\ lp' = c.lp /\ registered' = c.registered
      /\ usd \in [Accounts -> Nat]
  BY <1>1 DEF checkpoint_lp_rewards, assert_pool_live, commit, PoolInv
<1>3. /\ Healthy(c) /\ SameWeights(books, c) /\ custody_pending_for_store(c.core) = 0
      /\ books.core = core /\ books.lp = lp
      /\ core.pool_store > 0 /\ usd_reserve \in Nat /\ usd_reserve > 0
  BY <1>1, <1>2, LiveFacts
<1>4. core'.pool_store = core.pool_store /\ lp'.total_shares = lp.total_shares
  BY <1>2, <1>3 DEF SameWeights
<1>5. PoolInv'
  BY <1>2, <1>3, <1>4, NextLive
<1> QED BY <1>2, <1>4, <1>5, Stutters DEF Keeps

\* transfer_lp_shares: both ends are paid, then the weights move.
LEMMA TransferSharesStep ==
  ASSUME PoolInv, NEW sender \in Accounts, NEW recipient \in Accounts, NEW n \in ShareOffers,
         transfer_lp_shares(sender, recipient, n)
  PROVE  Keeps
<1>1. PICK s : s = materialize_lp_rewards(settled_for(sender), recipient)
  OBVIOUS
<1> DEFINE f == Epochs!transfer_active(s.lp, sender, recipient, n, s.core.lp_vault)
<1>2. /\ lifecycle = "live" /\ lifecycle' = "live" /\ usd' = usd /\ usd_reserve' = usd_reserve
      /\ Epochs!transfer_succeeds(s.lp, sender, recipient, n)
      /\ commit([s EXCEPT !.lp = f])
      /\ usd \in [Accounts -> Nat]
  BY <1>1, SameOperations, SameGuards DEF transfer_lp_shares, assert_pool_live, PoolInv
<1>3. PICK p : p = settled_for(sender)
  OBVIOUS
<1>4. /\ Healthy(p) /\ SameWeights(books, p) /\ custody_pending_for_store(p.core) = 0
      /\ p.core.pool_store = core.pool_store /\ p.lp.total_shares = lp.total_shares
  BY <1>2, <1>3, SettledFacts
<1>5. /\ Healthy(s) /\ SameWeights(p, s) /\ custody_pending_for_store(s.core) = 0
  BY <1>1, <1>3, <1>4, MaterializeKeeps
<1>6. /\ Ledgers(s) /\ s \in Books /\ Epochs!Sound(s.lp, s.core.lp_vault)
      /\ Epochs!assert_active_epoch_healthy(s.lp)
  BY <1>5 DEF Healthy, Ledgers
<1>7. /\ Epochs!Sound(f, s.core.lp_vault) /\ Epochs!SameTerms(s.lp, f)
      /\ f.total_shares = s.lp.total_shares
  <2>1. n \in Nat \ {0}
    BY OffersAssumption
  <2>2. PICK g : g = f
    OBVIOUS
  <2> QED BY <1>2, <1>6, <2>1, <2>2, EpochAssumptions, Epochs!TransferKeeps
<1>8. PICK c : c = [s EXCEPT !.lp = f]
  OBVIOUS
<1> HIDE DEF f
<1>9. c = [core |-> s.core, lp |-> f, registered |-> s.registered]
  BY <1>6, <1>8, EpochOnly
<1>10. Ledgers(c) /\ c.core = s.core /\ c.lp = f /\ c.registered = s.registered
  BY <1>6, <1>7, <1>9, EpochMoves DEF Epochs!SameTerms
<1>11. Healthy(c)
  BY <1>6, <1>7, <1>10 DEF Healthy, Epochs!assert_active_epoch_healthy, Epochs!SameTerms
<1>12. core' = c.core /\ lp' = c.lp /\ registered' = c.registered
  BY <1>2, <1>8 DEF commit
<1>13. core'.pool_store = core.pool_store /\ lp'.total_shares = lp.total_shares
  BY <1>4, <1>5, <1>7, <1>10, <1>12 DEF SameWeights
<1>14. core.pool_store > 0 /\ usd_reserve \in Nat /\ usd_reserve > 0
  BY <1>2, LiveFacts
<1>15. PoolInv'
  BY <1>2, <1>5, <1>10, <1>11, <1>12, <1>13, <1>14, NextLive
<1> QED BY <1>2, <1>13, <1>15, Stutters DEF Keeps

\* What a provider may have pending is a natural number.
LEMMA PendingNat ==
  ASSUME NEW b, Ledgers(b), NEW owner \in Accounts
  PROVE  Epochs!pending_for(b.lp, owner) \in Nat
<1>1. b.lp \in Epochs!Epoch /\ Epochs!positions_match(b.lp) /\ Epochs!never_overpaid(b.lp)
  BY DEF Ledgers, Epochs!Sound, Epochs!Books
<1>2. Epochs!pending_for(b.lp, owner) \in Int
  BY <1>1, EpochAssumptions, Epochs!MagnifiedType, ZenonT(60)
<1>3. Epochs!pending_for(b.lp, owner) >= 0
  BY <1>1, EpochAssumptions, Epochs!PendingWithinLiability, ZenonT(60)
<1> QED BY <1>2, <1>3

\* The books a claim starts from.
LEMMA ClaimBooks ==
  ASSUME PoolInv, lifecycle \in {"live", "closed"}, NEW b, b = claim_books
  PROVE  /\ Ledgers(b) /\ custody_pending_for_store(b.core) = 0
         /\ b.core.pool_store = core.pool_store /\ b.lp = lp
         /\ b.registered = registered
         /\ (lifecycle = "live" => Healthy(b))
<1>1. CASE lifecycle = "live"
  <2>1. b = checked
    BY <1>1 DEF claim_books
  <2> QED BY <1>1, <2>1, LiveFacts DEF Healthy, SameWeights
<1>2. CASE lifecycle = "closed"
  <2>1. b = books
    BY <1>2 DEF claim_books
  <2>2. Ledgers(books) /\ custody_pending_for_store(books.core) = 0
    BY DEF PoolInv, InOrder
  <2>3. books.core = core /\ books.lp = lp /\ books.registered = registered
    BY DEF books
  <2> QED BY <1>2, <2>1, <2>2, <2>3
<1> QED BY <1>1, <1>2

\* claim_lp_rewards, on a live pool and after its close.
LEMMA ClaimStep ==
  ASSUME PoolInv, NEW owner \in Accounts, NEW requested \in Nat,
         claim_lp_rewards(owner, requested)
  PROVE  Keeps
<1>1. PICK b : b = claim_books
  OBVIOUS
<1>2. PICK n : n = claim_amount(owner, requested)
  OBVIOUS
<1>3. PICK c : c = claimed_books(owner, requested)
  OBVIOUS
<1>4. /\ lifecycle \in {"live", "closed"} /\ Epochs!claim_succeeds(b.lp, owner, n)
      /\ usd' = usd /\ usd_reserve' = usd_reserve /\ lifecycle' = lifecycle
      /\ core' = c.core /\ lp' = c.lp /\ registered' = c.registered
      /\ usd \in [Accounts -> Nat]
  BY <1>1, <1>2, <1>3, SameGuards
     DEF claim_lp_rewards, claim_lp_succeeds, commit, PoolInv
<1>5. /\ Ledgers(b) /\ custody_pending_for_store(b.core) = 0
      /\ b.core.pool_store = core.pool_store /\ b.lp = lp
      /\ (lifecycle = "live" => Healthy(b))
  BY <1>1, <1>4, ClaimBooks
<1>6. n \in Nat
  <2>1. Epochs!pending_for(b.lp, owner) \in Nat
    BY <1>5, PendingNat
  <2> QED BY <1>1, <1>2, <2>1, SameReads DEF claim_amount
<1>7. c = pay_lp_claim(b, owner, n)
  BY <1>1, <1>2, <1>3 DEF claimed_books
<1>8. /\ Ledgers(c) /\ SameWeights(b, c) /\ c.lp.status = b.lp.status
      /\ custody_pending_for_store(c.core) = custody_pending_for_store(b.core)
  BY <1>4, <1>5, <1>6, <1>7, PayKeeps
<1>9. core'.pool_store = core.pool_store /\ lp'.total_shares = lp.total_shares
  BY <1>4, <1>5, <1>8 DEF SameWeights
<1>10. CASE lifecycle = "live"
  <2>1. Healthy(c)
    BY <1>5, <1>8, <1>10 DEF Healthy, Ledgers, SameWeights, Epochs!assert_active_epoch_healthy
  <2>2. core.pool_store > 0 /\ usd_reserve \in Nat /\ usd_reserve > 0
    BY <1>10, LiveFacts
  <2>3. PoolInv'
    BY <1>4, <1>5, <1>8, <1>9, <1>10, <2>1, <2>2, NextLive
  <2> QED BY <1>4, <1>9, <2>3, Stutters DEF Keeps
<1>11. CASE lifecycle = "closed"
  <2>1. core.pool_store = 0 /\ usd_reserve = 0 /\ lp.status = Epochs!STATUS_CLAIM_ONLY
    BY <1>11 DEF PoolInv, InOrder, Closed, books
  <2>2. Closed(c, usd_reserve)
    BY <1>4, <1>5, <1>8, <1>9, <2>1 DEF Closed
  <2>3. InOrder(c, usd_reserve, "closed")
    BY <1>5, <1>8, <2>1, <2>2 DEF InOrder
  <2>4. PoolInv'
    BY <1>4, <1>11, <2>3, NextBooks
  <2> QED BY <1>4, <1>9, <2>4, Stutters DEF Keeps
<1> QED BY <1>4, <1>10, <1>11

\* add_liquidity: the provider is paid, then pays for new shares.
LEMMA AddStep ==
  ASSUME PoolInv, NEW a \in Accounts, NEW max_rfl \in Nat, NEW max_usd \in Nat,
         add_liquidity(a, max_rfl, max_usd)
  PROVE  Keeps
<1>1. PICK s : s = settled_for(a)
  OBVIOUS
<1>2. PICK m : m = Reserves!liquidity_mint(max_rfl, max_usd, s.core.pool_store, usd_reserve,
                                           s.lp.total_shares)
  OBVIOUS
<1> DEFINE u == m.rfl_used
           w == m.usd_used
           n == m.shares
           r == wallet_to_custody(s.core, a, u)
           f == Epochs!mint_active(s.lp, a, n)
           x == core.pool_store
           y == usd_reserve
           t == lp.total_shares
<1>3. /\ lifecycle = "live" /\ lifecycle' = "live" /\ n > 0
      /\ a \in s.registered /\ derived_balance(s.core, a) >= u
      /\ Epochs!mint_succeeds(s.lp) /\ commit([s EXCEPT !.core = r, !.lp = f])
      /\ deposit_to_pool(a, w)
  BY <1>1, <1>2, SameOperations, SameGuards DEF add_liquidity, assert_pool_live
<1>4. /\ Healthy(s) /\ custody_pending_for_store(s.core) = 0
      /\ s.core.pool_store = x /\ s.lp.total_shares = t
  BY <1>1, <1>3, SettledFacts
<1>5. x \in Nat /\ x > 0 /\ y \in Nat /\ y > 0 /\ t \in Nat /\ t > 0
  BY <1>3, LiveFacts
<1> HIDE DEF x, y, t
<1>6. n \in Nat /\ u \in Nat /\ w \in Nat /\ n * x <= u * t /\ n * y <= w * t
  BY <1>2, <1>4, <1>5, MintArithmetic DEF y
<1> HIDE DEF u, w, n
<1>7. /\ Ledgers(s) /\ s \in Books /\ Sound(s.core) /\ Epochs!Sound(s.lp, s.core.lp_vault)
      /\ s.registered \subseteq Accounts /\ Epochs!assert_active_epoch_healthy(s.lp)
  BY <1>4, BooksFields DEF Healthy, Ledgers
<1>8. /\ Moves(s.core, r, a) /\ ReserveMoves(s.core, r, u) /\ SameEarnings(s.core, r)
  <2>1. derived_balance(s.core, a) \in Nat
    BY <1>7, DerivedType
  <2> QED BY <1>3, <1>6, <1>7, <2>1, WalletToCustody
<1>9. /\ Epochs!Sound(f, s.core.lp_vault) /\ Epochs!SameTerms(s.lp, f)
      /\ f.total_shares = s.lp.total_shares + n
  <2>1. n \in Nat \ {0}
    BY <1>3, <1>6
  <2>2. PICK g : g = f
    OBVIOUS
  <2> QED BY <1>3, <1>7, <2>1, <2>2, EpochAssumptions, Epochs!MintKeeps
<1>10. PICK c : c = [s EXCEPT !.core = r, !.lp = f]
  OBVIOUS
<1> HIDE DEF r, f
<1>11. c = [core |-> r, lp |-> f, registered |-> s.registered]
  BY <1>7, <1>10, CoreAndEpoch
<1>12. Ledgers(c) /\ c.core = r /\ c.lp = f /\ c.registered = s.registered
  <2>1. PICK d : d = [core |-> r, lp |-> s.lp, registered |-> s.registered]
    OBVIOUS
  <2>2. \A o \in Accounts \ s.registered : r.raw[o] = s.core.raw[o]
    BY <1>3, <1>8 DEF Moves, SameWalletsBut
  <2>3. Sound(r) /\ held(r) = held(s.core)
    BY <1>8 DEF Moves
  <2>4. Ledgers(d) /\ d.core = r /\ d.lp = s.lp /\ d.registered = s.registered
    BY <1>7, <1>8, <2>1, <2>2, <2>3, TokenMoves
  <2>5. /\ Epochs!Sound(f, d.core.lp_vault) /\ f.quarantined = d.lp.quarantined
        /\ f.lifetime_received = d.lp.lifetime_received
    BY <1>8, <1>9, <2>4 DEF ReserveMoves, Epochs!SameTerms
  <2> QED BY <1>11, <2>4, <2>5, EpochMoves
<1>13. c.core.pool_store = x + u /\ c.lp.total_shares = t + n
  BY <1>4, <1>8, <1>9, <1>12 DEF ReserveMoves
<1>14. Healthy(c)
  BY <1>5, <1>6, <1>7, <1>9, <1>12, <1>13
     DEF Healthy, Epochs!assert_active_epoch_healthy, Epochs!SameTerms
<1>15. custody_pending_for_store(c.core) = 0
  BY <1>4, <1>8, <1>12, SamePending DEF ReserveMoves
<1>16. /\ core' = c.core /\ lp' = c.lp /\ registered' = c.registered
  BY <1>3, <1>10 DEF commit
<1>17. usd_reserve' = y + w /\ usd' \in [Accounts -> Nat]
  <2>1. usd \in [Accounts -> Nat]
    BY DEF PoolInv
  <2>2. usd[a] >= w /\ usd' = [usd EXCEPT ![a] = usd[a] - w] /\ usd_reserve' = y + w
    BY <1>3 DEF deposit_to_pool, y
  <2>3. usd[a] - w \in Nat
    BY <1>6, <2>1, <2>2
  <2> QED BY <2>1, <2>2, <2>3
<1>18. PoolInv' /\ Promise!Positive'
  <2>1. usd_reserve' \in Nat /\ usd_reserve' > 0 /\ c.core.pool_store > 0
    BY <1>5, <1>6, <1>13, <1>17
  <2> QED BY <1>3, <1>14, <1>15, <1>16, <1>17, <2>1, NextLive
<1>19. Promise!Resize
  <2>1. /\ (x + u) * t >= x * (t + n) /\ (y + w) * t >= y * (t + n)
    BY <1>5, <1>6, WorthKept
  <2>2. t + n # t
    BY <1>3, <1>5, <1>6 DEF n
  <2>3. core'.pool_store = x + u /\ usd_reserve' = y + w /\ lp'.total_shares = t + n
    BY <1>13, <1>16, <1>17
  <2> QED BY <1>3, <1>18, <2>1, <2>2, <2>3
          DEF Promise!Resize, Promise!ShareKeepsWorth, x, y, t
<1> QED BY <1>18, <1>19 DEF Keeps, Promise!Next

\* The burn and the payment of an exit.
LEMMA WithdrawnKeeps ==
  ASSUME NEW s, Healthy(s), NEW a \in Accounts, NEW n \in Nat \ {0},
         Epochs!burn_succeeds(s.lp, a, n), NEW c, c = withdrawn(s, a, n),
         NEW u, u = rfl_output(s, n)
  PROVE  /\ Ledgers(c) /\ n <= s.lp.total_shares /\ s.lp.total_shares \in Nat
         /\ u \in Nat /\ u <= s.core.pool_store
         /\ c.core.pool_store = s.core.pool_store - u
         /\ c.lp.total_shares = s.lp.total_shares - n /\ c.lp.status = s.lp.status
         /\ custody_pending_for_store(c.core) = custody_pending_for_store(s.core)
<1> DEFINE r == custody_to_wallet(s.core, a, u)
           f == Epochs!burn_active(s.lp, a, n, s.core.lp_vault)
           R == s.registered \cup {a}
           x == s.core.pool_store
           t == s.lp.total_shares
<1>1. /\ Ledgers(s) /\ Sound(s.core) /\ Epochs!Sound(s.lp, s.core.lp_vault)
      /\ s.registered \subseteq Accounts /\ x \in Nat /\ s.core.custody_shares = x
      /\ s.lp \in Epochs!Epoch
  BY BooksFields DEF Healthy, Ledgers
<1>2. c = [core |-> r, lp |-> f, registered |-> R]
  BY SameOperations DEF withdrawn
<1>3. /\ Epochs!Sound(f, s.core.lp_vault) /\ Epochs!SameTerms(s.lp, f) /\ f.total_shares = t - n
  <2>1. PICK g : g = f
    OBVIOUS
  <2> QED BY <1>1, <2>1, EpochAssumptions, Epochs!BurnKeeps
<1> HIDE DEF f
<1>4. t \in Nat /\ t > 0 /\ n <= t
  <2>1. f \in Epochs!Epoch
    BY <1>3 DEF Epochs!Sound, Epochs!Books
  <2>2. f.total_shares \in Nat
    BY <2>1, EpochAssumptions, Epochs!EpochFields, ZenonT(60)
  <2>3. t \in Nat
    BY <1>1, EpochAssumptions, Epochs!EpochFields, ZenonT(60)
  <2> HIDE DEF t
  <2> QED BY <1>3, <2>2, <2>3
<1>5. u \in Nat /\ u <= x
  <2>1. u = Reserves!withdrawal(n, t, x)
    BY DEF rfl_output
  <2> HIDE DEF t, x
  <2>2. FairPart(x, t, n, u)
    BY <1>1, <1>4, <2>1, ExitArithmetic
  <2> QED BY <2>2 DEF FairPart
<1>6. /\ Moves(s.core, r, a) /\ ReserveMoves(s.core, r, -u) /\ SameEarnings(s.core, r)
  BY <1>1, <1>5, CustodyToWallet
<1> HIDE DEF r
<1>7. Ledgers(c) /\ c.core = r /\ c.lp = f /\ c.registered = R
  <2>1. PICK d : d = [core |-> r, lp |-> s.lp, registered |-> R]
    OBVIOUS
  <2>2. \A o \in Accounts \ R : r.raw[o] = s.core.raw[o]
    BY <1>6 DEF Moves, SameWalletsBut
  <2>3. Sound(r) /\ held(r) = held(s.core) /\ R \subseteq Accounts /\ s.registered \subseteq R
    BY <1>1, <1>6 DEF Moves
  <2> HIDE DEF R
  <2>4. Ledgers(d) /\ d.core = r /\ d.lp = s.lp /\ d.registered = R
    BY <1>1, <1>6, <2>1, <2>2, <2>3, TokenMoves
  <2>5. /\ Epochs!Sound(f, d.core.lp_vault) /\ f.quarantined = d.lp.quarantined
        /\ f.lifetime_received = d.lp.lifetime_received
    BY <1>3, <1>6, <2>4 DEF ReserveMoves, Epochs!SameTerms
  <2> QED BY <1>2, <2>4, <2>5, EpochMoves
<1>8. r.pool_store = x - u
  BY <1>1, <1>5, <1>6 DEF ReserveMoves
<1>9. custody_pending_for_store(r) = custody_pending_for_store(s.core)
  BY <1>6, SamePending DEF ReserveMoves
<1> QED BY <1>3, <1>4, <1>5, <1>7, <1>8, <1>9 DEF Epochs!SameTerms

\* mark_active_claim_only and close_pool.
LEMMA FinalExitKeeps ==
  ASSUME NEW b, Ledgers(b), Epochs!claim_only_succeeds(b.lp, b.core.lp_vault),
         NEW c, c = final_exit(b)
  PROVE  /\ Ledgers(c) /\ c.core = b.core /\ c.lp.status = Epochs!STATUS_CLAIM_ONLY
         /\ c.lp.total_shares = b.lp.total_shares
<1> DEFINE f == Epochs!mark_active_claim_only(b.lp, b.core.lp_vault)
<1>1. b \in Books /\ Epochs!Sound(b.lp, b.core.lp_vault)
  BY DEF Ledgers
<1>2. c = [b EXCEPT !.lp = f]
  BY SameOperations DEF final_exit
<1>3. /\ Epochs!Sound(f, b.core.lp_vault) /\ f.status = Epochs!STATUS_CLAIM_ONLY
      /\ f.quarantined = b.lp.quarantined /\ f.lifetime_received = b.lp.lifetime_received
      /\ f.total_shares = b.lp.total_shares
  <2>1. PICK g : g = f
    OBVIOUS
  <2> QED BY <1>1, <2>1, EpochAssumptions, Epochs!EndKeeps
<1> HIDE DEF f
<1>4. c = [core |-> b.core, lp |-> f, registered |-> b.registered]
  BY <1>1, <1>2, EpochOnly
<1>5. Ledgers(c) /\ c.core = b.core /\ c.lp = f
  BY <1>3, <1>4, EpochMoves
<1> QED BY <1>3, <1>5

\* remove_liquidity: an exit that leaves shares behind, and the last one.
LEMMA RemoveStep ==
  ASSUME PoolInv, NEW a \in Accounts, NEW n \in Nat \ {0}, remove_liquidity(a, n)
  PROVE  Keeps
<1>1. PICK s : s = settled_for(a)
  OBVIOUS
<1>2. PICK d : d = withdrawn(s, a, n)
  OBVIOUS
<1>3. PICK u : u = rfl_output(s, n)
  OBVIOUS
<1>4. PICK w : w = usd_output(s, n)
  OBVIOUS
<1> DEFINE x == core.pool_store
           y == usd_reserve
           t == lp.total_shares
<1>5. /\ lifecycle = "live" /\ u > 0 /\ w > 0 /\ Epochs!burn_succeeds(s.lp, a, n)
      /\ is_final(s, n) => w = y /\ Epochs!claim_only_succeeds(d.lp, d.core.lp_vault)
      /\ withdraw_from_pool(a, w)
      /\ is_final(s, n) => commit(final_exit(d)) /\ lifecycle' = "closed"
      /\ ~is_final(s, n) => commit(d) /\ lifecycle' = "live"
  BY <1>1, <1>2, <1>3, <1>4, SameGuards
     DEF remove_liquidity, remove_succeeds, assert_pool_live, final_exit_succeeds
<1>6. /\ Healthy(s) /\ custody_pending_for_store(s.core) = 0
      /\ s.core.pool_store = x /\ s.lp.total_shares = t
  BY <1>1, <1>5, SettledFacts
<1>7. x \in Nat /\ x > 0 /\ y \in Nat /\ y > 0 /\ t \in Nat /\ t > 0
  BY <1>5, LiveFacts
<1>8. /\ Ledgers(d) /\ n <= t /\ d.core.pool_store = x - u
      /\ d.lp.total_shares = t - n /\ d.lp.status = s.lp.status
      /\ custody_pending_for_store(d.core) = 0
  BY <1>2, <1>3, <1>5, <1>6, WithdrawnKeeps
<1>9. u = Reserves!withdrawal(n, t, x) /\ w = Reserves!withdrawal(n, t, y)
  BY <1>3, <1>4, <1>6 DEF rfl_output, usd_output
<1>10. is_final(s, n) <=> n = t
  BY <1>6 DEF is_final
<1>11. usd_reserve' = y - w /\ usd' = [usd EXCEPT ![a] = usd[a] + w]
  BY <1>5 DEF withdraw_from_pool
<1> HIDE DEF x, y, t
<1>n. n \in Nat /\ n <= t
  BY <1>8
<1>12. /\ u \in Nat /\ u <= x /\ u * t <= n * x /\ (n = t => u = x) /\ (n < t => u < x)
  <2>1. FairPart(x, t, n, u)
    BY <1>7, <1>n, <1>9, ExitArithmetic
  <2> QED BY <1>7, <2>1 DEF FairPart
<1>13. /\ w \in Nat /\ w <= y /\ w * t <= n * y /\ (n = t => w = y) /\ (n < t => w < y)
  <2>1. FairPart(y, t, n, w)
    BY <1>7, <1>n, <1>9, ExitArithmetic
  <2> QED BY <1>7, <2>1 DEF FairPart
<1>14. usd' \in [Accounts -> Nat]
  BY <1>11, <1>13 DEF PoolInv
<1>15. CASE n = t
  <2>1. PICK c : c = final_exit(d)
    OBVIOUS
  <2>2. /\ Ledgers(c) /\ c.core = d.core /\ c.lp.status = Epochs!STATUS_CLAIM_ONLY
        /\ c.lp.total_shares = d.lp.total_shares
    BY <1>5, <1>8, <1>10, <1>15, <2>1, FinalExitKeeps
  <2>3. core' = c.core /\ lp' = c.lp /\ registered' = c.registered /\ lifecycle' = "closed"
    BY <1>5, <1>10, <1>15, <2>1 DEF commit
  <2>4. usd_reserve' = 0 /\ c.core.pool_store = 0 /\ c.lp.total_shares = 0
    BY <1>7, <1>8, <1>11, <1>12, <1>13, <1>15, <2>2
  <2>5. InOrder(c, 0, "closed")
    BY <1>8, <2>2, <2>4 DEF InOrder, Closed
  <2>6. PoolInv'
    BY <1>14, <2>3, <2>4, <2>5, NextBooks
  <2>7. Promise!Close
    BY <1>5, <2>3, <2>4 DEF Promise!Close, Promise!Empty
  <2> QED BY <2>6, <2>7 DEF Keeps, Promise!Next
<1>16. CASE n # t
  <2>1. core' = d.core /\ lp' = d.lp /\ registered' = d.registered /\ lifecycle' = "live"
    BY <1>5, <1>10, <1>16 DEF commit
  <2>2. n < t /\ t - n > 0 /\ x - u > 0 /\ y - w > 0 /\ y - w \in Nat
    BY <1>7, <1>8, <1>12, <1>13, <1>16
  <2>3. Healthy(d)
    BY <1>6, <1>8, <2>2 DEF Healthy, Ledgers, Epochs!assert_active_epoch_healthy
  <2>4. PoolInv' /\ Promise!Positive'
    BY <1>8, <1>11, <1>14, <2>1, <2>2, <2>3, NextLive
  <2>5. (x - u) * t >= x * (t - n) /\ (y - w) * t >= y * (t - n)
    BY <1>7, <1>12, <1>13, WorthKept
  <2>6. core'.pool_store = x - u /\ usd_reserve' = y - w /\ lp'.total_shares = t - n
    BY <1>8, <1>11, <2>1
  <2>7. t - n # t
    BY <1>7
  <2>8. Promise!Resize
    BY <1>5, <2>1, <2>4, <2>5, <2>6, <2>7
       DEF Promise!Resize, Promise!ShareKeepsWorth, x, y, t
  <2> QED BY <2>4, <2>8 DEF Keeps, Promise!Next
<1> QED BY <1>15, <1>16

\* What a sale does to the books.
LEMMA SoldBooks ==
  ASSUME PoolInv, lifecycle = "live", NEW a \in Accounts, NEW gross \in Nat,
         gross <= derived_balance(checked.core, a), NEW c, c = sold(a, gross)
  PROVE  /\ Healthy(c) /\ custody_pending_for_store(c.core) = 0
         /\ gross - fee_for(checked.core, gross) \in Nat
         /\ c.core.pool_store = core.pool_store + (gross - fee_for(checked.core, gross))
         /\ c.lp.total_shares = lp.total_shares
<1>1. PICK b : b = checked
  OBVIOUS
<1> DEFINE r == settle_sell(b.core, a, gross)
           net == gross - fee_for(b.core, gross)
<1>2. /\ Healthy(b) /\ Ledgers(b) /\ Sound(b.core) /\ b.lp = lp
      /\ b.core.pool_store = core.pool_store
  BY <1>1, LiveFacts DEF Healthy, Ledgers, SameWeights
<1>3. held(b.core) <= MAGNITUDE /\ b.core \in Ledger
  BY <1>2, BooksFields
<1>4. Moves(b.core, r, a) /\ ReserveMoves(b.core, r, net)
  BY <1>1, <1>2, <1>3, SettleSell
<1>5. net \in Nat
  BY <1>3, FeeWithinGross
<1> HIDE DEF r, net
<1>6. PICK s : s = [core |-> r, lp |-> b.lp, registered |-> b.registered \cup {a}]
  OBVIOUS
<1>7. c = checkpoint_active(s)
  <2>1. c = settled_swap(r, a)
    BY <1>1 DEF sold, r
  <2>2. Ledgers(checked)
    BY <1>1, <1>2
  <2> QED BY <1>1, <1>6, <2>1, <2>2, SettledSwap
<1>8. /\ Healthy(c) /\ custody_pending_for_store(c.core) = 0
      /\ c.core.pool_store = b.core.pool_store + net
      /\ c.lp.total_shares = b.lp.total_shares
  BY <1>2, <1>4, <1>6, <1>7, SwapEnds
<1> QED BY <1>1, <1>2, <1>5, <1>8 DEF net

\* sell_trfl.
LEMMA SellStep ==
  ASSUME PoolInv, NEW a \in Accounts, NEW gross \in Nat, sell_trfl(a, gross)
  PROVE  Keeps
<1>1. PICK c : c = sold(a, gross)
  OBVIOUS
<1>2. PICK o : o = sell_output(checked.core, gross)
  OBVIOUS
<1> DEFINE net == gross - fee_for(checked.core, gross)
           x == core.pool_store
           y == usd_reserve
<1>3. /\ lifecycle = "live" /\ lifecycle' = "live" /\ core' = c.core /\ lp' = c.lp
      /\ registered' = c.registered /\ derived_balance(checked.core, a) >= gross
      /\ withdraw_from_pool(a, o)
  BY <1>1, <1>2 DEF sell_trfl, sell_succeeds, sell_within_limits, assert_pool_live, commit
<1>4. /\ x \in Nat /\ x > 0 /\ y \in Nat /\ y > 0 /\ checked.core.pool_store = x
      /\ Sound(checked.core)
  BY <1>3, LiveFacts DEF SameWeights, Healthy, Ledgers
<1>5. gross <= derived_balance(checked.core, a)
  BY <1>3, <1>4, DerivedType
<1>6. /\ Healthy(c) /\ custody_pending_for_store(c.core) = 0 /\ net \in Nat
      /\ c.core.pool_store = x + net /\ c.lp.total_shares = lp.total_shares
  BY <1>1, <1>3, <1>5, SoldBooks
<1>7. o = Reserves!constant_product_output(x, y, net, FIXED_AMM_FEE_BPS)
  BY <1>2, <1>4 DEF sell_output
<1>8. usd_reserve' = y - o /\ usd' = [usd EXCEPT ![a] = usd[a] + o]
  BY <1>3 DEF withdraw_from_pool
<1> HIDE DEF net, x, y
<1>9. o \in Nat /\ o < y /\ x * y <= (x + net) * (y - o)
  BY <1>4, <1>6, <1>7, SwapArithmetic
<1>10. usd' \in [Accounts -> Nat]
  BY <1>8, <1>9 DEF PoolInv
<1>11. y - o \in Nat /\ y - o > 0 /\ x + net > 0
  BY <1>4, <1>6, <1>9
<1>12. PoolInv' /\ Promise!Positive'
  BY <1>3, <1>6, <1>8, <1>10, <1>11, NextLive
<1>13. Promise!Trade
  <2>1. /\ core'.pool_store = x + net /\ usd_reserve' = y - o
        /\ lp'.total_shares = lp.total_shares
    BY <1>3, <1>6, <1>8
  <2>2. (x + net) * (y - o) >= x * y
    <3>1. (x + net) * (y - o) \in Int /\ x * y \in Int
      BY <1>4, <1>6, <1>11
    <3> QED BY <1>9, <3>1
  <2> QED BY <1>3, <1>12, <2>1, <2>2 DEF Promise!Trade, x, y
<1> QED BY <1>12, <1>13 DEF Keeps, Promise!Next

\* What a purchase does to the books.
LEMMA BoughtBooks ==
  ASSUME PoolInv, lifecycle = "live", NEW a \in Accounts, NEW input,
         NEW o \in Nat, o = buy_output(checked.core, input), o <= core.pool_store,
         NEW c, c = bought(a, input)
  PROVE  /\ Healthy(c) /\ custody_pending_for_store(c.core) = 0
         /\ c.core.pool_store = core.pool_store - o
         /\ c.lp.total_shares = lp.total_shares
<1>1. PICK b : b = checked
  OBVIOUS
<1> DEFINE r == settle_buy(b.core, a, o)
<1>2. /\ Healthy(b) /\ Ledgers(b) /\ Sound(b.core) /\ b.lp = lp
      /\ b.core.pool_store = core.pool_store
  BY <1>1, LiveFacts DEF Healthy, Ledgers, SameWeights
<1>3. /\ held(b.core) <= MAGNITUDE /\ b.core.custody_shares = b.core.pool_store
      /\ b.core.pool_store \in Nat
  BY <1>2, BooksFields
<1>k. PICK k : k = -o
  OBVIOUS
<1>4. Moves(b.core, r, a) /\ ReserveMoves(b.core, r, k)
  BY <1>2, <1>3, <1>k, SettleBuy
<1> HIDE DEF r
<1>5. PICK s : s = [core |-> r, lp |-> b.lp, registered |-> b.registered \cup {a}]
  OBVIOUS
<1>6. c = checkpoint_active(s)
  <2>1. c = settled_swap(r, a)
    BY <1>1 DEF bought, r
  <2>2. Ledgers(checked)
    BY <1>1, <1>2
  <2> QED BY <1>1, <1>5, <2>1, <2>2, SettledSwap
<1>7. /\ Healthy(c) /\ custody_pending_for_store(c.core) = 0
      /\ c.core.pool_store = b.core.pool_store + k
      /\ c.lp.total_shares = b.lp.total_shares
  BY <1>2, <1>4, <1>5, <1>6, SwapEnds
<1> QED BY <1>2, <1>3, <1>7, <1>k

\* buy_trfl.
LEMMA BuyStep ==
  ASSUME PoolInv, NEW a \in Accounts, NEW input \in Nat, buy_trfl(a, input)
  PROVE  Keeps
<1>1. PICK c : c = bought(a, input)
  OBVIOUS
<1>2. PICK o : o = buy_output(checked.core, input)
  OBVIOUS
<1> DEFINE x == core.pool_store
           y == usd_reserve
<1>3. /\ lifecycle = "live" /\ lifecycle' = "live" /\ core' = c.core /\ lp' = c.lp
      /\ registered' = c.registered /\ deposit_to_pool(a, input)
  BY <1>1, <1>2 DEF buy_trfl, buy_succeeds, buy_within_limits, assert_pool_live, commit
<1>4. /\ x \in Nat /\ x > 0 /\ y \in Nat /\ y > 0 /\ checked.core.pool_store = x
  BY <1>3, LiveFacts DEF SameWeights
<1>5. o = Reserves!constant_product_output(y, x, input, FIXED_AMM_FEE_BPS)
  BY <1>2, <1>4 DEF buy_output
<1>6. usd_reserve' = y + input /\ usd' = [usd EXCEPT ![a] = usd[a] - input] /\ usd[a] >= input
  BY <1>3 DEF deposit_to_pool
<1> HIDE DEF x, y
<1>7. o \in Nat /\ o < x /\ y * x <= (y + input) * (x - o)
  BY <1>4, <1>5, SwapArithmetic
<1>8. /\ Healthy(c) /\ custody_pending_for_store(c.core) = 0
      /\ c.core.pool_store = x - o /\ c.lp.total_shares = lp.total_shares
  <2>1. o <= core.pool_store
    BY <1>4, <1>7 DEF x
  <2> QED BY <1>1, <1>2, <1>3, <1>7, <2>1, BoughtBooks DEF x
<1>9. usd' \in [Accounts -> Nat]
  <2>1. usd \in [Accounts -> Nat]
    BY DEF PoolInv
  <2>2. usd[a] - input \in Nat
    BY <1>6, <2>1
  <2> QED BY <1>6, <2>1, <2>2
<1>10. y + input \in Nat /\ y + input > 0 /\ x - o > 0 /\ x - o \in Nat
  BY <1>4, <1>7
<1>11. PoolInv' /\ Promise!Positive'
  BY <1>3, <1>6, <1>8, <1>9, <1>10, NextLive
<1>12. Promise!Trade
  <2>1. /\ core'.pool_store = x - o /\ usd_reserve' = y + input
        /\ lp'.total_shares = lp.total_shares
    BY <1>3, <1>6, <1>8
  <2>2. (x - o) * (y + input) >= x * y
    <3>1. /\ (y + input) * (x - o) \in Int /\ x * y \in Int
          /\ (x - o) * (y + input) = (y + input) * (x - o) /\ x * y = y * x
      BY <1>4, <1>10
    <3> QED BY <1>7, <3>1
  <2> QED BY <1>3, <1>11, <2>1, <2>2 DEF Promise!Trade, x, y
<1> QED BY <1>11, <1>12 DEF Keeps, Promise!Next

\* A movement between wallets, or from the vaults of the token, keeps the
\* invariant and the reserves.
LEMMA WalletStep ==
  ASSUME PoolInv, lifecycle # "unlaunched", Sound(core'), held(core') = held(core),
         ReserveMoves(core, core', 0), SameEarnings(core, core'),
         registered \subseteq registered', registered' \subseteq Accounts,
         \A a \in Accounts \ registered' : core'.raw[a] = core.raw[a],
         UNCHANGED <<lp, usd, usd_reserve, lifecycle>>
  PROVE  Keeps
<1>1. PICK b : b = books
  OBVIOUS
<1>2. /\ InOrder(b, usd_reserve, lifecycle) /\ usd \in [Accounts -> Nat] /\ Ledgers(b)
      /\ b.core = core /\ b.lp = lp /\ b.registered = registered
  BY <1>1 DEF PoolInv, InOrder, books
<1>3. PICK r : r = core'
  OBVIOUS
<1>4. PICK R : R = registered'
  OBVIOUS
<1>5. PICK c : c = [core |-> r, lp |-> b.lp, registered |-> R]
  OBVIOUS
<1>6. /\ Sound(r) /\ held(r) = held(b.core) /\ ReserveMoves(b.core, r, 0)
      /\ SameEarnings(b.core, r) /\ b.registered \subseteq R /\ R \subseteq Accounts
      /\ \A a \in Accounts \ R : r.raw[a] = b.core.raw[a]
  BY <1>2, <1>3, <1>4
<1>7. Ledgers(c) /\ c.core = r /\ c.lp = b.lp /\ c.registered = R
  BY <1>2, <1>5, <1>6, TokenMoves
<1>8. r.pool_store = b.core.pool_store
  <2>1. b.core.pool_store \in Nat
    BY <1>2, BooksFields
  <2> QED BY <1>6, <2>1 DEF ReserveMoves
<1>9. custody_pending_for_store(r) = custody_pending_for_store(b.core)
  BY <1>6, SamePending DEF ReserveMoves
<1>10. InOrder(c, usd_reserve, lifecycle)
  BY <1>2, <1>7, <1>8, <1>9 DEF InOrder, Live, Closed
<1>11. PoolInv'
  BY <1>2, <1>3, <1>4, <1>7, <1>10, NextBooks
<1>12. core'.pool_store = core.pool_store
  BY <1>2, <1>3, <1>8
<1> QED BY <1>11, <1>12, Stutters DEF Keeps

\* transfer: the sender's hook, then the recipient's.
LEMMA TransferStep ==
  ASSUME PoolInv, NEW from \in Accounts, NEW to \in Accounts, NEW n \in Nat,
         transfer(from, to, n)
  PROVE  Keeps
<1> DEFINE m == materialize_all_to_store(core, from)
           taken == debit_wallet(m, from, n)
           p == materialize_all_to_store(taken, to)
           r == credit_wallet(p, to, n)
<1>1. /\ lifecycle # "unlaunched" /\ from \in registered
      /\ derived_balance(core, from) >= n /\ core' = r /\ registered' = registered \cup {to}
      /\ UNCHANGED <<lp, usd, usd_reserve, lifecycle>>
  BY DEF transfer
<1>2. Sound(core) /\ registered \subseteq Accounts /\ core.pool_store \in Nat
  <2>1. Ledgers(books) /\ books.core = core /\ books.registered = registered
    BY DEF PoolInv, InOrder, books
  <2> QED BY <2>1, BooksFields DEF Ledgers
<1>3. /\ Sound(m) /\ held(m) = held(core) /\ m.raw[from] = derived_balance(core, from)
      /\ SameWalletsBut(core, m, from) /\ SamePool(core, m) /\ SameVaults(core, m)
      /\ SameEarnings(core, m)
  BY <1>2, MaterializeAll
<1>4. /\ n <= m.raw[from] /\ held(core) \in Nat
  <2>1. derived_balance(core, from) \in Nat
    BY <1>2, DerivedType
  <2> QED BY <1>1, <1>2, <1>3, <2>1, HeldType
<1> HIDE DEF m
<1>5. /\ Sound(taken) /\ held(taken) = held(m) - n /\ SameWalletsBut(m, taken, from)
      /\ SamePool(m, taken) /\ SameVaults(m, taken) /\ SameEarnings(m, taken)
  BY <1>3, <1>4, DebitWallet
<1> HIDE DEF taken
<1>6. /\ Sound(p) /\ held(p) = held(taken) /\ SameWalletsBut(taken, p, to)
      /\ SamePool(taken, p) /\ SameVaults(taken, p) /\ SameEarnings(taken, p)
  BY <1>5, MaterializeAll
<1> HIDE DEF p
<1>7. /\ Sound(r) /\ held(r) = held(p) + n /\ SameWalletsBut(p, r, to)
      /\ SamePool(p, r) /\ SameVaults(p, r) /\ SameEarnings(p, r)
  BY <1>6, CreditWallet
<1> HIDE DEF r
<1>8. held(r) = held(core)
  BY <1>3, <1>4, <1>5, <1>6, <1>7
<1>9. ReserveMoves(core, r, 0)
  <2>1. r.pool_store = core.pool_store
    BY <1>3, <1>5, <1>6, <1>7 DEF SamePool
  <2>2. r.pool_store = core.pool_store + 0
    BY <1>2, <2>1
  <2> QED BY <1>3, <1>5, <1>6, <1>7, <2>2 DEF ReserveMoves, SamePool, SameVaults
<1>10. SameEarnings(core, r)
  BY <1>3, <1>5, <1>6, <1>7 DEF SameEarnings
<1>11. \A a \in Accounts \ registered' : r.raw[a] = core.raw[a]
  <2> SUFFICES ASSUME NEW a \in Accounts, a \notin registered' PROVE r.raw[a] = core.raw[a]
    OBVIOUS
  <2>1. a # from /\ a # to
    BY <1>1
  <2> QED BY <1>3, <1>5, <1>6, <1>7, <2>1 DEF SameWalletsBut
<1>12. registered \subseteq registered' /\ registered' \subseteq Accounts
  BY <1>1, <1>2
<1> QED BY <1>1, <1>7, <1>8, <1>9, <1>10, <1>11, <1>12, WalletStep

\* claim_all.
LEMMA ClaimAllStep ==
  ASSUME PoolInv, NEW a \in Accounts, claim_all(a)
  PROVE  Keeps
<1> DEFINE r == materialize_all_to_store(core, a)
<1>1. /\ lifecycle # "unlaunched" /\ a \in registered /\ core' = r /\ registered' = registered
      /\ UNCHANGED <<lp, usd, usd_reserve, lifecycle>>
  BY DEF claim_all
<1>2. Sound(core) /\ registered \subseteq Accounts /\ core.pool_store \in Nat
  <2>1. Ledgers(books) /\ books.core = core /\ books.registered = registered
    BY DEF PoolInv, InOrder, books
  <2> QED BY <2>1, BooksFields DEF Ledgers
<1>3. /\ Sound(r) /\ held(r) = held(core) /\ SameWalletsBut(core, r, a)
      /\ SamePool(core, r) /\ SameVaults(core, r) /\ SameEarnings(core, r)
  BY <1>2, MaterializeAll
<1> HIDE DEF r
<1>4. ReserveMoves(core, r, 0)
  <2>1. r.pool_store = core.pool_store + 0
    BY <1>2, <1>3 DEF SamePool
  <2> QED BY <1>3, <2>1 DEF ReserveMoves, SamePool, SameVaults
<1>5. \A o \in Accounts \ registered' : r.raw[o] = core.raw[o]
  BY <1>1, <1>3 DEF SameWalletsBut
<1> QED BY <1>1, <1>2, <1>3, <1>4, <1>5, WalletStep

\* claim_trfl, the faucet's grant of the token.
LEMMA FaucetStep ==
  ASSUME PoolInv, NEW a \in Accounts, claim_trfl(a)
  PROVE  Keeps
<1> DEFINE n == FIXED_TRFL_GRANT
           r == faucet_grant(core, a, n)
<1>1. /\ lifecycle # "unlaunched" /\ core.distribution_vault >= n /\ core' = r
      /\ registered' = registered \cup {a}
      /\ UNCHANGED <<lp, usd, usd_reserve, lifecycle>>
  BY DEF claim_trfl
<1>2. Sound(core) /\ registered \subseteq Accounts /\ core.distribution_vault \in Nat
  <2>1. Ledgers(books) /\ books.core = core /\ books.registered = registered
    BY DEF PoolInv, InOrder, books
  <2> QED BY <2>1, BooksFields, LedgerFields DEF Ledgers
<1>3. n \in Nat /\ n <= core.distribution_vault
  BY <1>1, <1>2, PolicyAssumption
<1> HIDE DEF n
<1>4. Moves(core, r, a) /\ ReserveMoves(core, r, 0) /\ SameEarnings(core, r)
  BY <1>2, <1>3, FaucetGrant
<1> HIDE DEF r
<1>5. \A o \in Accounts \ registered' : r.raw[o] = core.raw[o]
  BY <1>1, <1>4 DEF Moves, SameWalletsBut
<1>6. Sound(r) /\ held(r) = held(core)
  BY <1>4 DEF Moves
<1>7. registered \subseteq registered' /\ registered' \subseteq Accounts
  BY <1>1, <1>2
<1> QED BY <1>1, <1>4, <1>5, <1>6, <1>7, WalletStep

\* claim_tusd, the faucet's grant of tUSD.
LEMMA UsdStep ==
  ASSUME PoolInv, NEW a \in Accounts, claim_tusd(a)
  PROVE  Keeps
<1>1. /\ usd' = [usd EXCEPT ![a] = usd[a] + FIXED_TUSD_GRANT]
      /\ UNCHANGED <<core, lp, registered, usd_reserve, lifecycle>>
  BY DEF claim_tusd
<1>2. usd' \in [Accounts -> Nat]
  <2>1. usd[a] + FIXED_TUSD_GRANT \in Nat
    BY PolicyAssumption DEF PoolInv
  <2> QED BY <1>1, <2>1 DEF PoolInv
<1>3. InOrder(books, usd_reserve, lifecycle) /\ books.core = core /\ books.lp = lp
      /\ books.registered = registered
  BY DEF PoolInv, books
<1>4. PICK b : b = books
  OBVIOUS
<1>5. PoolInv'
  BY <1>1, <1>2, <1>3, <1>4, NextBooks
<1> QED BY <1>1, <1>5, Stutters DEF Keeps

-----------------------------------------------------------------------------
(* The theorems *)

\* The deployment sets up both ledgers in order, with nothing for anybody.
LEMMA InitKeeps ==
  ASSUME Init
  PROVE  PoolInv /\ Promise!Init
<1>1. PICK fee_bps \in 0 .. MAX_FEE_BPS : core = initial_ledger(fee_bps)
  BY DEF Init
<1>2. /\ Sound(core) /\ held(core) = TOTAL_SUPPLY
      /\ \A a \in Accounts : core.raw[a] = 0
  BY <1>1, InitialSound
<1>3. /\ core.pool_correction = 0 /\ core.pool_claimed = 0 /\ core.custody_shares = 0
      /\ core.index = 0 /\ core.pool_store = 0 /\ core.lp_vault = 0
      /\ core.distribution_vault = TOTAL_SUPPLY
  BY <1>1 DEF initial_ledger
<1>4. lp = Epochs!new_epoch
  BY SameReads DEF Init
<1>5. Epochs!Sound(lp, core.lp_vault)
  BY <1>3, <1>4, EpochAssumptions, Epochs!NewEpochSound
<1>6. /\ lp.status = Epochs!STATUS_ACTIVE /\ lp.total_shares = 0
      /\ lp.lifetime_received = 0 /\ ~lp.quarantined
  BY <1>4 DEF Epochs!new_epoch
<1>7. /\ registered = {} /\ usd = [a \in Accounts |-> 0] /\ usd_reserve = 0
      /\ lifecycle = "unlaunched"
  BY DEF Init
<1>8. /\ Ledgers(books) /\ books.core = core /\ books.lp = lp
  <2>1. registered \subseteq Accounts /\ \A a \in Accounts \ registered : core.raw[a] = 0
    BY <1>2, <1>7
  <2>2. core.pool_claimed = lp.lifetime_received
    BY <1>3, <1>6
  <2>3. books = [core |-> core, lp |-> lp, registered |-> registered]
    BY DEF books
  <2> QED BY <1>2, <1>5, <1>6, <2>1, <2>2, <2>3, MakeLedgers
<1>9. custody_pending_for_store(core) = 0
  <2>1. MAGNITUDE \in Nat /\ MAGNITUDE > 0
    BY MagnitudePositive
  <2>2. 0 \div MAGNITUDE = 0
    <3>1. MAGNITUDE * 0 <= 0 /\ 0 < MAGNITUDE * 0 + MAGNITUDE
      BY <2>1
    <3> QED BY <2>1, <3>1, DivUnique
  <2>3. pool_magnified(core) = 0
    BY <1>3 DEF pool_magnified
  <2> QED BY <1>3, <2>2, <2>3 DEF custody_pending_for_store
<1>10. InOrder(books, usd_reserve, lifecycle)
  <2>1. Unlaunched(books, usd_reserve)
    BY <1>3, <1>6, <1>7, <1>8 DEF Unlaunched
  <2> QED BY <1>7, <1>8, <1>9, <2>1 DEF InOrder
<1>11. usd \in [Accounts -> Nat]
  BY <1>7
<1>12. Promise!Init
  BY <1>3, <1>6, <1>7 DEF Promise!Init, Promise!Empty
<1> QED BY <1>10, <1>11, <1>12 DEF PoolInv

\* Every transaction keeps the invariant and the promise to the providers.
LEMMA StepKeeps ==
  ASSUME PoolInv, Next
  PROVE  Keeps
<1>1. Users \subseteq Accounts
  BY DEF Accounts
<1>2. RflOffers \subseteq Nat \ {0} /\ UsdOffers \subseteq Nat \ {0}
      /\ ShareOffers \subseteq Nat \ {0}
  BY OffersAssumption
<1>3. CASE launch
  BY <1>3, LaunchStep
<1>4. CASE checkpoint_lp_rewards
  BY <1>4, CheckpointStep
<1>5. ASSUME NEW a \in Users, Provider(a)
      PROVE  Keeps
  <2>1. ASSUME NEW max_rfl \in RflOffers, NEW max_usd \in UsdOffers,
               add_liquidity(a, max_rfl, max_usd)
        PROVE  Keeps
    BY <1>1, <1>2, <2>1, AddStep
  <2>2. ASSUME NEW n \in ShareOffers, remove_liquidity(a, n)
        PROVE  Keeps
    BY <1>1, <1>2, <2>2, RemoveStep
  <2>3. ASSUME NEW n \in ShareOffers, NEW to \in Accounts, transfer_lp_shares(a, to, n)
        PROVE  Keeps
    BY <1>1, <2>3, TransferSharesStep
  <2>4. ASSUME NEW requested \in {0} \cup RflOffers, claim_lp_rewards(a, requested)
        PROVE  Keeps
    <3>1. requested \in Nat
      BY <1>2
    <3> QED BY <1>1, <2>4, <3>1, ClaimStep
  <2> QED BY <1>5, <2>1, <2>2, <2>3, <2>4 DEF Provider
<1>6. ASSUME NEW a \in Users, Trader(a)
      PROVE  Keeps
  BY <1>1, <1>2, <1>6, SellStep, BuyStep DEF Trader
<1>7. ASSUME NEW a \in Users, Wallet(a)
      PROVE  Keeps
  <2>1. ASSUME NEW to \in Accounts, NEW n \in RflOffers, transfer(a, to, n)
        PROVE  Keeps
    BY <1>1, <1>2, <2>1, TransferStep
  <2>2. CASE claim_all(a)
    BY <1>1, <2>2, ClaimAllStep
  <2>3. CASE claim_trfl(a)
    BY <1>1, <2>3, FaucetStep
  <2>4. CASE claim_tusd(a)
    BY <1>1, <2>4, UsdStep
  <2> QED BY <1>7, <2>1, <2>2, <2>3, <2>4 DEF Wallet
<1> QED BY <1>3, <1>4, <1>5, <1>6, <1>7 DEF Next

\* A step that changes nothing keeps both too.
LEMMA IdleKeeps ==
  ASSUME PoolInv, UNCHANGED vars
  PROVE  Keeps
<1>1. /\ core' = core /\ lp' = lp /\ registered' = registered /\ usd' = usd
      /\ usd_reserve' = usd_reserve /\ lifecycle' = lifecycle
  BY DEF vars
<1>2. /\ InOrder(books, usd_reserve, lifecycle) /\ usd' \in [Accounts -> Nat]
      /\ books.core = core /\ books.lp = lp /\ books.registered = registered
  BY <1>1 DEF PoolInv, books
<1>3. PoolInv'
  BY <1>1, <1>2, NextBooks
<1> QED BY <1>1, <1>3, Stutters DEF Keeps

\* The inductive invariant of the composed pool: between two transactions the
\* two ledgers are sound and agree on what was routed, the reserve owes its
\* providers nothing, and the lifecycle says which of the reserves, the shares
\* and the epoch exist.
THEOREM PoolInvariant == Spec => []PoolInv
<1>1. Init => PoolInv
  BY InitKeeps
<1>2. PoolInv /\ [Next]_vars => PoolInv'
  BY StepKeeps, IdleKeeps DEF Keeps
<1> QED BY <1>1, <1>2, PTL DEF Spec

\* The composed pool implements the promise to its providers: it opens once and
\* closes once, and no transaction of anybody lowers what a share stands for.
THEOREM PoolKeepsPromise == Spec => ImplementsPromise
<1>1. Init => Promise!Init
  BY InitKeeps
<1>2. PoolInv /\ [Next]_vars => [Promise!Next]_(Promise!vars)
  BY StepKeeps, IdleKeeps DEF Keeps
<1> QED BY <1>1, <1>2, PoolInvariant, PTL DEF Spec, ImplementsPromise, Promise!Spec

\* Between two transactions the reserve's pending reward is zero: every
\* transaction that can give the reserve a reward routes it before it ends, so
\* no change of a weight and no close can strand one.
THEOREM NeverAccrues == Spec => []PoolNeverAccrues
<1>1. PoolInv => PoolNeverAccrues
  BY DEF PoolInv, InOrder, PoolNeverAccrues, books
<1> QED BY <1>1, PoolInvariant, PTL

\* In every state both ledgers are sound, no tRFL was created or lost, what the
\* token routed is what the epoch received, and the LP vault holds what was
\* received less what was claimed, enough for everything still pending.
THEOREM LedgersAlwaysAgree == Spec => []LedgersAgree
<1>1. PoolInv => LedgersAgree
  <2> SUFFICES ASSUME PoolInv PROVE LedgersAgree
    OBVIOUS
  <2>1. /\ Ledgers(books) /\ books.core = core /\ books.lp = lp
        /\ books.registered = registered /\ usd_reserve \in Nat
        /\ lifecycle \in {"unlaunched", "live", "closed"} /\ usd \in [Accounts -> Nat]
    BY DEF PoolInv, InOrder, books
  <2>2. /\ core \in Ledger /\ lp \in Epochs!Epoch /\ registered \subseteq Accounts
        /\ core.lifetime_custody_routed = core.pool_claimed
    BY <2>1, BooksFields
  <2>3. /\ Sound(core) /\ held(core) = TOTAL_SUPPLY /\ Epochs!Sound(lp, core.lp_vault)
        /\ core.pool_claimed = lp.lifetime_received
    BY <2>1 DEF Ledgers
  <2>4. TypeOK
    BY <2>1, <2>2, SameReads DEF TypeOK
  <2>5. /\ Epochs!epoch_backing(lp, core.lp_vault)
        /\ core.lp_vault = lp.lifetime_received - lp.lifetime_claimed
    BY <2>3 DEF Epochs!Sound, Epochs!epoch_backing
  <2>6. Epochs!total([a \in Accounts |-> Epochs!pending_for(lp, a)]) <= core.lp_vault
    <3> DEFINE p == Epochs!total([a \in Accounts |-> Epochs!pending_for(lp, a)])
    <3>1. p + lp.unallocated_rewards <= core.lp_vault
      BY <2>3, EpochAssumptions, Epochs!SoundIsSolvent, ZenonT(60)
    <3>2. p \in Int
      <4>1. Epochs!positions_match(lp) /\ Epochs!never_overpaid(lp)
        BY <2>3 DEF Epochs!Sound, Epochs!Books
      <4> QED BY <2>2, <4>1, EpochAssumptions, Epochs!PendingWithinLiability, ZenonT(60)
    <3>3. lp.unallocated_rewards \in Nat
      BY <2>2, EpochAssumptions, Epochs!EpochFields, ZenonT(60)
    <3>4. core.lp_vault \in Nat
      BY <2>1, BooksFields
    <3> HIDE DEF p
    <3>5. p <= core.lp_vault
      BY <3>1, <3>2, <3>3, <3>4
    <3> QED BY <3>5 DEF p
  <2>7. Lp!total([a \in Accounts |-> Lp!pending_for(lp, a)])
          = Epochs!total([a \in Accounts |-> Epochs!pending_for(lp, a)])
    <3>1. [a \in Accounts |-> Lp!pending_for(lp, a)]
            = [a \in Accounts |-> Epochs!pending_for(lp, a)]
      BY SameReads
    <3> QED BY <3>1, SameReads
  <2>8. Lp!epoch_backing(lp, core.lp_vault)
    BY <2>5, SameReads
  <2> QED BY <2>2, <2>3, <2>4, <2>5, <2>6, <2>7, <2>8 DEF LedgersAgree
<1> QED BY <1>1, PoolInvariant, PTL

\* Pool and epoch end together and owe nothing: no reward was ever routed to an
\* epoch without shares, the epoch is claim-only exactly when the pool is
\* closed, and then only rounding dust is left in the vault.
THEOREM AlwaysClosesClean == Spec => []ClosesClean
<1>1. PoolInv => ClosesClean
  <2> SUFFICES ASSUME PoolInv PROVE ClosesClean
    OBVIOUS
  <2>1. /\ InOrder(books, usd_reserve, lifecycle)
        /\ Ledgers(books) /\ books.core = core /\ books.lp = lp
        /\ lifecycle \in {"unlaunched", "live", "closed"}
    BY DEF PoolInv, InOrder, books
  <2>2. Epochs!Sound(lp, core.lp_vault) /\ ~lp.quarantined
    BY <2>1 DEF Ledgers
  <2>3. /\ lp.unallocated_rewards = 0
        /\ lp.status = Epochs!STATUS_CLAIM_ONLY =>
             /\ \A o \in Accounts : lp.shares[o] = 0 /\ Epochs!pending_for(lp, o) = 0
             /\ core.lp_vault * MAGNITUDE
                  < lp.index_remainder + lp.retired_residue_magnified + MAGNITUDE
    BY <2>2, EpochAssumptions, Epochs!EndedOwesNothing, ZenonT(60)
  <2>4. Epochs!STATUS_ACTIVE # Epochs!STATUS_CLAIM_ONLY
    BY DEF Epochs!STATUS_ACTIVE, Epochs!STATUS_CLAIM_ONLY
  <2>5. CASE lifecycle = "unlaunched"
    <3>1. lp.total_shares = 0 /\ lp.status = Epochs!STATUS_ACTIVE
      BY <2>1, <2>5 DEF InOrder, Unlaunched
    <3>2. ~Epochs!assert_active_epoch_healthy(lp)
      BY <3>1 DEF Epochs!assert_active_epoch_healthy
    <3> QED BY <2>2, <2>3, <2>4, <2>5, <3>1, <3>2, SameReads DEF ClosesClean
  <2>6. CASE lifecycle = "live"
    <3>1. Epochs!assert_active_epoch_healthy(lp)
      BY <2>1, <2>6 DEF InOrder, Live
    <3>2. lp.status = Epochs!STATUS_ACTIVE
      BY <3>1 DEF Epochs!assert_active_epoch_healthy
    <3> QED BY <2>2, <2>3, <2>4, <2>6, <3>1, <3>2, SameReads DEF ClosesClean
  <2>7. CASE lifecycle = "closed"
    <3>1. core.pool_store = 0 /\ usd_reserve = 0 /\ lp.status = Epochs!STATUS_CLAIM_ONLY
      BY <2>1, <2>7 DEF InOrder, Closed
    <3>2. core.custody_shares = 0
      BY <2>1, <3>1, BooksFields
    <3>3. ~Epochs!assert_active_epoch_healthy(lp)
      BY <2>4, <3>1 DEF Epochs!assert_active_epoch_healthy
    <3> QED BY <2>2, <2>3, <2>7, <3>1, <3>2, <3>3, SameReads DEF ClosesClean
  <2> QED BY <2>1, <2>5, <2>6, <2>7
<1> QED BY <1>1, PoolInvariant, PTL

\* The checkpoint before a swap moves nothing a quote reads.
LEMMA CheckpointKeepsQuotes ==
  ASSUME PoolInv, lifecycle = "live"
  PROVE  /\ checked.core.pool_store = core.pool_store
         /\ \A gross : fee_for(checked.core, gross) = fee_for(core, gross)
         /\ \A gross : sell_output(checked.core, gross) = sell_output(core, gross)
         /\ \A input : buy_output(checked.core, input) = buy_output(core, input)
<1>1. /\ checked.core.pool_store = core.pool_store
      /\ SameWallets(core, checked.core) /\ SameIndex(core, checked.core)
  BY LiveFacts DEF SameWeights
<1>2. \A gross : fee_for(checked.core, gross) = fee_for(core, gross)
  BY <1>1, SameBalances
<1>3. \A gross : sell_output(checked.core, gross) = sell_output(core, gross)
  BY <1>1, <1>2 DEF sell_output
<1>4. \A input : buy_output(checked.core, input) = buy_output(core, input)
  BY <1>1 DEF buy_output
<1> QED BY <1>1, <1>2, <1>3, <1>4

\* A user of the pool may receive tRFL: a wallet that is not registered yet has
\* an empty store.
LEMMA UsersMayRegister ==
  ASSUME NEW b, Ledgers(b), NEW a \in Users
  PROVE  can_register(b, a)
<1>1. a \in Accounts
  BY DEF Accounts
<1>2. a \in b.registered \/ b.core.raw[a] = 0
  BY <1>1 DEF Ledgers
<1> QED BY <1>2, PublishersAssumption DEF can_register

\* A quote is honoured: whoever owns the input may execute the swap that a
\* quote view accepts, at the quoted output.
THEOREM QuotesAlwaysHonoured == Spec => []QuotesHonoured
<1>1. PoolInv => QuotesHonoured
  <2> SUFFICES ASSUME PoolInv, NEW a \in Users
               PROVE  /\ a \in registered =>
                           \A gross \in 1 .. derived_balance(core, a) :
                             quote_sell_succeeds(gross) =>
                               /\ sell_succeeds(a, gross)
                               /\ sell_output(checked.core, gross) = sell_output(core, gross)
                      /\ \A input \in 1 .. usd[a] :
                           quote_buy_succeeds(input) =>
                             /\ buy_succeeds(a, input)
                             /\ buy_output(checked.core, input) = buy_output(core, input)
    BY DEF QuotesHonoured
  <2>0. a \in Accounts
    BY DEF Accounts
  <2>1. ASSUME a \in registered, NEW gross \in 1 .. derived_balance(core, a),
               quote_sell_succeeds(gross)
        PROVE  /\ sell_succeeds(a, gross)
               /\ sell_output(checked.core, gross) = sell_output(core, gross)
    <3>1. lifecycle = "live" /\ gross \in Nat
      BY <2>1 DEF quote_sell_succeeds, sell_within_limits, assert_pool_live
    <3>2. /\ checked.core.pool_store = core.pool_store
          /\ sell_output(checked.core, gross) = sell_output(core, gross)
      BY <3>1, CheckpointKeepsQuotes
    <3>3. sell_within_limits(checked.core, gross)
      BY <2>1, <3>2 DEF quote_sell_succeeds, sell_within_limits
    <3>4. /\ Ledgers(checked) /\ checked.registered = registered
          /\ SameWallets(core, checked.core) /\ SameIndex(core, checked.core)
      BY <3>1, LiveFacts DEF Healthy
    <3>5. derived_balance(checked.core, a) \in Int
      BY <2>0, <3>4, DerivedType DEF Ledgers
    <3>6. gross <= derived_balance(checked.core, a) /\ derived_balance(checked.core, a) >= gross
      <4>1. derived_balance(checked.core, a) = derived_balance(core, a)
        BY <2>0, <3>4, SameBalances
      <4> QED BY <2>1, <3>5, <4>1
    <3>7. PICK c : c = sold(a, gross)
      OBVIOUS
    <3>8. Healthy(c) /\ custody_pending_for_store(c.core) = 0
      BY <2>0, <3>1, <3>6, <3>7, SoldBooks
    <3>9. backed(c) /\ backed(checked)
      BY <3>4, <3>8, LedgersAreBacked DEF Healthy
    <3> QED BY <2>1, <3>2, <3>3, <3>4, <3>6, <3>7, <3>8, <3>9 DEF sell_succeeds
  <2>2. ASSUME NEW input \in 1 .. usd[a], quote_buy_succeeds(input)
        PROVE  /\ buy_succeeds(a, input)
               /\ buy_output(checked.core, input) = buy_output(core, input)
    <3>1. lifecycle = "live" /\ input \in Nat
      BY <2>2 DEF quote_buy_succeeds, buy_within_limits, assert_pool_live
    <3>2. usd[a] >= input
      BY <2>0, <2>2 DEF PoolInv
    <3>3. PICK o : o = buy_output(checked.core, input)
      OBVIOUS
    <3>4. /\ checked.core.pool_store = core.pool_store /\ o = buy_output(core, input)
          /\ fee_for(checked.core, o) = fee_for(core, o)
      BY <3>1, <3>3, CheckpointKeepsQuotes
    <3>5. buy_within_limits(checked.core, input)
      BY <2>2, <3>3, <3>4 DEF quote_buy_succeeds, buy_within_limits
    <3>6. Ledgers(checked) /\ checked.core.custody_shares = core.pool_store
      BY <3>1, <3>4, LiveFacts, BooksFields DEF Healthy
    <3>7. o \in Nat /\ o <= core.pool_store /\ core.pool_store >= o
      <4>1. /\ core.pool_store \in Nat /\ core.pool_store > 0
            /\ usd_reserve \in Nat /\ usd_reserve > 0
        BY <3>1, LiveFacts
      <4>2. o = Reserves!constant_product_output(usd_reserve, core.pool_store, input,
                                                 FIXED_AMM_FEE_BPS)
        BY <3>4 DEF buy_output
      <4>3. o \in Nat /\ o < core.pool_store
        BY <3>1, <4>1, <4>2, SwapArithmetic
      <4> QED BY <4>1, <4>3
    <3>8. PICK c : c = bought(a, input)
      OBVIOUS
    <3>9. Healthy(c) /\ custody_pending_for_store(c.core) = 0
      BY <2>0, <3>1, <3>3, <3>7, <3>8, BoughtBooks
    <3>10. backed(c) /\ backed(checked) /\ can_register(checked, a)
      BY <3>6, <3>9, LedgersAreBacked, UsersMayRegister DEF Healthy
    <3> QED BY <3>2, <3>3, <3>4, <3>5, <3>6, <3>7, <3>8, <3>9, <3>10 DEF buy_succeeds
  <2> QED BY <2>1, <2>2
<1> QED BY <1>1, PoolInvariant, PTL

\* A share of a reserve is worth a unit of it unless its proportion is less.
LEMMA ExitPays ==
  ASSUME NEW x \in Nat, x > 0, NEW t \in Nat, t > 0, NEW s \in Nat, s <= t,
         s = t \/ ~(s * x < t), NEW w, w = Reserves!withdrawal(s, t, x)
  PROVE  w > 0
<1>1. CASE s = t
  BY <1>1 DEF Reserves!withdrawal
<1>2. CASE s # t
  <2> DEFINE k == s * x
             q == k \div t
  <2>1. w = q
    BY <1>2 DEF Reserves!withdrawal
  <2>2. k \in Int /\ ~(k < t)
    BY <1>2
  <2> HIDE DEF k
  <2>3. q \in Int /\ k = t * q + (k % t) /\ k % t < t /\ k % t \in Int
    BY <2>2, DivMod
  <2> HIDE DEF q
  <2>4. q > 0
    <3> SUFFICES ASSUME q <= 0 PROVE FALSE
      BY <2>3
    <3>1. t * q <= 0 /\ t * q \in Int
      BY <2>3
    <3> QED BY <2>2, <2>3, <3>1
  <2> QED BY <2>1, <2>4
<1> QED BY <1>1, <1>2

\* Whoever owns shares may burn them all, unless the exit is partial and would
\* be paid nothing of one of the assets.
LEMMA MayRemoveAll ==
  ASSUME PoolInv, lifecycle = "live", NEW a \in Users, NEW n, n = lp.shares[a], n > 0,
         n = lp.total_shares \/ ~(n * core.pool_store < lp.total_shares),
         n = lp.total_shares \/ ~(n * usd_reserve < lp.total_shares)
  PROVE  remove_succeeds(a, n)
<1>0. a \in Accounts
  BY DEF Accounts
<1>1. PICK s : s = settled_for(a)
  OBVIOUS
<1>2. PICK d : d = withdrawn(s, a, n)
  OBVIOUS
<1>3. PICK u : u = rfl_output(s, n)
  OBVIOUS
<1>4. PICK w : w = usd_output(s, n)
  OBVIOUS
<1> DEFINE x == core.pool_store
           y == usd_reserve
           t == lp.total_shares
<1>5. /\ Healthy(s) /\ custody_pending_for_store(s.core) = 0
      /\ Epochs!pending_for(s.lp, a) = 0 /\ s.lp.shares = lp.shares
      /\ s.core.pool_store = x /\ s.lp.total_shares = t
  BY <1>0, <1>1, SettledFacts
<1>6. /\ x \in Nat /\ x > 0 /\ y \in Nat /\ y > 0 /\ t \in Nat /\ t > 0
      /\ Healthy(checked) /\ checked.lp = lp /\ Epochs!assert_active_epoch_healthy(lp)
  BY LiveFacts DEF Healthy
<1>7. Epochs!Sound(s.lp, s.core.lp_vault) /\ Epochs!assert_active_epoch_healthy(s.lp)
  BY <1>5 DEF Healthy, Ledgers
<1>8. n \in Nat \ {0} /\ checked.lp.shares[a] >= n
  <2>1. lp \in Epochs!Epoch
    BY LiveFacts, BooksFields DEF Healthy
  <2>2. lp.shares \in [Accounts -> Nat]
    BY <2>1, EpochAssumptions, Epochs!EpochFields, ZenonT(60)
  <2>3. n \in Nat
    BY <1>0, <2>2
  <2> QED BY <1>6, <2>3
<1>9. Epochs!burn_succeeds(s.lp, a, n)
  <2>1. s.lp.shares[a] = n
    BY <1>5
  <2>2. Epochs!burn_succeeds(s.lp, a, s.lp.shares[a])
    BY <1>0, <1>5, <1>7, <2>1, EpochAssumptions, Epochs!MayBurnAll
  <2> QED BY <2>1, <2>2
<1>10. /\ Ledgers(d) /\ n <= t /\ d.core.pool_store = x - u
       /\ d.lp.total_shares = t - n /\ d.lp.status = s.lp.status
       /\ custody_pending_for_store(d.core) = 0
  BY <1>0, <1>2, <1>3, <1>5, <1>8, <1>9, WithdrawnKeeps
<1>11. u = Reserves!withdrawal(n, t, x) /\ w = Reserves!withdrawal(n, t, y)
  BY <1>3, <1>4, <1>5 DEF rfl_output, usd_output
<1>12. /\ n = t \/ ~(n * x < t)
       /\ n = t \/ ~(n * y < t)
  OBVIOUS
<1>13. /\ backed(checked) /\ backed(s) /\ backed(d) /\ can_register(s, a)
  BY <1>5, <1>6, <1>10, LedgersAreBacked, UsersMayRegister DEF Healthy
<1>14. assert_pool_live /\ Lp!burn_succeeds(s.lp, a, n)
  BY <1>6, <1>9, SameReads, SameGuards DEF assert_pool_live
<1> HIDE DEF x, y, t
<1>15. u > 0 /\ w > 0
  <2>1. n \in Nat
    BY <1>8
  <2>2. u > 0
    BY <1>6, <1>10, <1>11, <1>12, <2>1, ExitPays
  <2>3. w > 0
    BY <1>6, <1>10, <1>11, <1>12, <2>1, ExitPays
  <2> QED BY <2>2, <2>3
<1>16. ASSUME is_final(s, n)
       PROVE  w = usd_reserve /\ final_exit_succeeds(d)
  <2>1. n = t
    BY <1>5, <1>16 DEF is_final
  <2>2. u = x /\ w = y
    BY <1>11, <2>1 DEF Reserves!withdrawal
  <2>3. d.core.pool_store = 0 /\ d.lp.total_shares = 0
    BY <1>6, <1>10, <2>1, <2>2
  <2>4. d.core.custody_shares = 0
    BY <1>10, <2>3, BooksFields
  <2>5. /\ Epochs!Sound(d.lp, d.core.lp_vault) /\ ~d.lp.quarantined
        /\ d.lp.status = Epochs!STATUS_ACTIVE
    BY <1>7, <1>10 DEF Ledgers, Epochs!assert_active_epoch_healthy
  <2>6. Epochs!claim_only_succeeds(d.lp, d.core.lp_vault)
    BY <2>3, <2>5, EpochAssumptions, Epochs!MayEnd
  <2>7. Lp!claim_only_succeeds(d.lp, d.core.lp_vault)
    BY <2>6, SameGuards
  <2> QED BY <1>10, <2>2, <2>3, <2>4, <2>7 DEF final_exit_succeeds, y
<1> QED BY <1>1, <1>2, <1>3, <1>4, <1>8, <1>13, <1>14, <1>15, <1>16 DEF remove_succeeds

\* Whatever whole reward a user has pending may be claimed at once.
LEMMA MayClaimAll ==
  ASSUME PoolInv, NEW a \in Users, Lp!pending_for(lp, a) > 0
  PROVE  claim_lp_succeeds(a, 0)
<1>0. a \in Accounts
  BY DEF Accounts
<1>1. /\ InOrder(books, usd_reserve, lifecycle) /\ Ledgers(books)
      /\ books.core = core /\ books.lp = lp
      /\ lifecycle \in {"unlaunched", "live", "closed"}
  BY DEF PoolInv, InOrder, books
<1>2. /\ Epochs!Sound(lp, core.lp_vault) /\ ~lp.quarantined
      /\ Epochs!Books(lp) /\ Epochs!pending_for(lp, a) > 0
  BY <1>1, SameReads DEF Ledgers, Epochs!Sound
<1>3. lifecycle = "live"
  <2>1. CASE lifecycle = "unlaunched"
    <3>1. lp.total_shares = 0
      BY <1>1, <2>1 DEF InOrder, Unlaunched
    <3>2. Epochs!pending_for(lp, a) = 0
      BY <1>0, <1>2, <3>1, EpochAssumptions, Epochs!NothingOwedWithoutShares, ZenonT(60)
    <3> QED BY <1>2, <3>2
  <2>2. CASE lifecycle = "closed"
    <3>1. lp.status = Epochs!STATUS_CLAIM_ONLY
      BY <1>1, <2>2 DEF InOrder, Closed
    <3>2. Epochs!pending_for(lp, a) = 0
      BY <1>0, <1>2, <3>1, EpochAssumptions, Epochs!EndedOwesNothing, ZenonT(60)
    <3> QED BY <1>2, <3>2
  <2> QED BY <1>1, <2>1, <2>2
<1>4. PICK b : b = claim_books
  OBVIOUS
<1>5. PICK n : n = claim_amount(a, 0)
  OBVIOUS
<1>6. PICK c : c = claimed_books(a, 0)
  OBVIOUS
<1>7. Ledgers(b) /\ Healthy(b) /\ b.lp = lp
  BY <1>3, <1>4, ClaimBooks
<1>8. n = Epochs!pending_for(b.lp, a)
  BY <1>4, <1>5, SameReads DEF claim_amount
<1>9. n \in Nat /\ n > 0
  BY <1>0, <1>2, <1>7, <1>8, PendingNat
<1>10. Epochs!assert_active_epoch_healthy(b.lp) /\ Lp!assert_active_epoch_healthy(lp)
  BY <1>7, SameReads DEF Healthy
<1>11. Epochs!claim_succeeds(b.lp, a, n)
  BY <1>8, <1>9, <1>10 DEF Epochs!claim_succeeds
<1>12. c = pay_lp_claim(b, a, n)
  BY <1>4, <1>5, <1>6 DEF claimed_books
<1>13. Ledgers(c) /\ n <= b.core.lp_vault
  BY <1>0, <1>7, <1>9, <1>11, <1>12, PayKeeps
<1>14. b.core.lp_vault >= n
  BY <1>7, <1>9, <1>13, BooksFields
<1>15. backed(b) /\ backed(c) /\ can_register(b, a)
  BY <1>7, <1>13, LedgersAreBacked, UsersMayRegister
<1>16. Lp!claim_succeeds(b.lp, a, n)
  BY <1>11, SameGuards
<1> QED BY <1>3, <1>4, <1>5, <1>6, <1>10, <1>14, <1>15, <1>16 DEF claim_lp_succeeds

\* Nobody is locked in: a provider may burn the whole position whatever the
\* rounding of either ledger, the last one always, and every whole reward can
\* be claimed.
THEOREM ProvidersAlwaysCanLeave == Spec => []ProvidersCanLeave
<1>1. PoolInv => ProvidersCanLeave
  <2> SUFFICES ASSUME PoolInv, NEW a \in Users
               PROVE  /\ lifecycle = "live" /\ lp.shares[a] > 0 =>
                           \/ remove_succeeds(a, lp.shares[a])
                           \/ /\ lp.shares[a] < lp.total_shares
                              /\ \/ lp.shares[a] * core.pool_store < lp.total_shares
                                 \/ lp.shares[a] * usd_reserve < lp.total_shares
                      /\ Lp!pending_for(lp, a) > 0 => claim_lp_succeeds(a, 0)
    BY DEF ProvidersCanLeave
  <2>1. ASSUME lifecycle = "live", lp.shares[a] > 0,
               ~(/\ lp.shares[a] < lp.total_shares
                 /\ \/ lp.shares[a] * core.pool_store < lp.total_shares
                    \/ lp.shares[a] * usd_reserve < lp.total_shares)
        PROVE  remove_succeeds(a, lp.shares[a])
    <3>1. PICK n : n = lp.shares[a]
      OBVIOUS
    <3>2. n \in Nat /\ lp.total_shares \in Nat /\ n <= lp.total_shares
      <4>0. a \in Accounts
        BY DEF Accounts
      <4>1. lp \in Epochs!Epoch /\ Epochs!Sound(lp, core.lp_vault) /\ lp.total_shares \in Nat
        BY <2>1, LiveFacts, BooksFields DEF Healthy, Ledgers
      <4>2. lp.shares \in [Accounts -> Nat]
        BY <4>1, EpochAssumptions, Epochs!EpochFields, ZenonT(60)
      <4>3. Epochs!positions_match(lp)
        BY <4>1 DEF Epochs!Sound, Epochs!Books
      <4>4. lp.shares[a] <= lp.total_shares
        BY <4>0, <4>1, <4>3, EpochAssumptions, Epochs!SharesWithinTotal, ZenonT(60)
      <4> QED BY <3>1, <4>0, <4>1, <4>2, <4>4
    <3>3. /\ n = lp.total_shares \/ ~(n * core.pool_store < lp.total_shares)
          /\ n = lp.total_shares \/ ~(n * usd_reserve < lp.total_shares)
      <4>1. n = lp.total_shares \/ n < lp.total_shares
        BY <3>2
      <4> QED BY <2>1, <3>1, <4>1
    <3> QED BY <2>1, <3>1, <3>3, MayRemoveAll
  <2>2. Lp!pending_for(lp, a) > 0 => claim_lp_succeeds(a, 0)
    BY MayClaimAll
  <2> QED BY <2>1, <2>2
<1> QED BY <1>1, PoolInvariant, PTL
=============================================================================
