----------------------- MODULE ReflectionTokenProofs -----------------------
(***************************************************************************)
(* The properties of ReflectionToken, for every number of users, every     *)
(* supply, scale and fee, and every bound on the fees.                     *)
(*                                                                         *)
(* Inv is inductive.  A step of an account is one ledger movement, shown   *)
(* sound in LedgerProofs, and a change of the registered set; WalletStep   *)
(* is what all of them share.                                              *)
(*                                                                         *)
(* The ledger's corrections are integers.  The last section shows that the *)
(* code may be read so: its sign-and-magnitude arithmetic (ReflectionMath) *)
(* implements that of the integers (SignedInteger), for every width.       *)
(***************************************************************************)
EXTENDS ReflectionToken, ReflectionMath, LedgerProofs, TLAPS

\* The pool's pending reward depends only on its position and the index.
LEMMA PendingUnchanged ==
  ASSUME NEW l, NEW r, SamePool(l, r), SameIndex(l, r)
  PROVE  custody_pending_for_store(r) = custody_pending_for_store(l)
BY DEF SamePool, SameIndex, custody_pending_for_store, pool_magnified

\* A step that moves units of one account's wallet, registers it, and leaves a
\* closed pool alone keeps the invariant.
LEMMA WalletStep ==
  ASSUME Inv, NEW a \in Accounts,
         assert_token_transferable,
         a \notin exclusions,
         Sound(ledger'), SameWalletsBut(ledger, ledger', a),
         lifecycle = CLOSED => SamePool(ledger, ledger') /\ SameIndex(ledger, ledger'),
         in_flight' \in Nat,
         held(ledger') + in_flight' = TOTAL_SUPPLY,
         registered' = registered \cup {a},
         UNCHANGED <<lifecycle, setup, exclusions>>
  PROVE  Inv'
<1>1. TypeOK'
  BY DEF Inv, TypeOK, Sound
<1>2. SupplyConserved'
  BY DEF SupplyConserved
<1>3. UnregisteredOwnNothing'
  <2> SUFFICES ASSUME NEW x \in Accounts, x \notin registered'
               PROVE  ledger'.raw[x] = 0 /\ ledger'.correction[x] = 0
                      /\ ledger'.claimed[x] = 0
    BY DEF UnregisteredOwnNothing
  <2>1. x # a /\ x \in Accounts \ registered
    OBVIOUS
  <2> QED BY <2>1 DEF Inv, UnregisteredOwnNothing, SameWalletsBut
<1>4. (registered \cap exclusions = {})'
  BY DEF Inv
<1>5. (lifecycle = CONFIGURING => registered = {})'
  BY DEF assert_token_transferable, CONFIGURING, LIVE, CLOSED
<1>6. ClosedPoolIsEmpty'
  <2> SUFFICES ASSUME lifecycle = CLOSED
               PROVE  /\ ledger'.custody_shares = 0 /\ ledger'.pool_store = 0
                      /\ custody_pending_for_store(ledger') = 0
    BY DEF ClosedPoolIsEmpty
  <2>1. custody_pending_for_store(ledger') = custody_pending_for_store(ledger)
    BY PendingUnchanged
  <2> QED BY <2>1 DEF Inv, ClosedPoolIsEmpty, SamePool
<1> QED BY <1>1, <1>2, <1>3, <1>4, <1>5, <1>6 DEF Inv

\* A step of an account that is registered already registers nobody.
LEMMA RegisteredStep ==
  ASSUME Inv, NEW a \in registered
  PROVE  a \in Accounts /\ a \notin exclusions /\ registered = registered \cup {a}
BY DEF Inv, TypeOK

\* What the invariant says of the ledger.
LEMMA InvFacts ==
  ASSUME Inv
  PROVE  /\ Sound(ledger) /\ in_flight \in Nat /\ held(ledger) \in Nat
         /\ held(ledger) + in_flight = TOTAL_SUPPLY
         /\ held(ledger) <= MAGNITUDE
<1>1. /\ Sound(ledger) /\ in_flight \in Nat
      /\ held(ledger) + in_flight = TOTAL_SUPPLY
  BY DEF Inv, TypeOK, SupplyConserved
<1>2. held(ledger) \in Nat
  BY <1>1, HeldType
<1> QED BY <1>1, <1>2, SupplyAssumption, MagnitudeAssumption

\* initialize establishes the invariant.
THEOREM InitInv == Init => Inv
<1> SUFFICES ASSUME Init PROVE Inv
  OBVIOUS
<1>1. PICK fee_bps \in 0 .. MAX_FEE_BPS : ledger = initial_ledger(fee_bps)
  BY DEF Init
<1>2. /\ Sound(ledger) /\ held(ledger) = TOTAL_SUPPLY
      /\ \A a \in Accounts : ledger.raw[a] = 0 /\ ledger.correction[a] = 0
                               /\ ledger.claimed[a] = 0
  BY <1>1, InitialSound
<1>3. TypeOK
  BY <1>2 DEF Init, TypeOK, Sound, Publishers, CONFIGURING, LIVE, CLOSED
<1>4. SupplyConserved
  BY <1>2, SupplyAssumption DEF Init, SupplyConserved
<1>5. UnregisteredOwnNothing
  BY <1>2 DEF UnregisteredOwnNothing
<1>6. ClosedPoolIsEmpty
  BY DEF Init, ClosedPoolIsEmpty, CONFIGURING, CLOSED
<1> QED BY <1>2, <1>3, <1>4, <1>5, <1>6 DEF Init, Inv

\* The launch steps and the close of the pool keep the invariant.
LEMMA LaunchStep == Inv /\ Launch => Inv'
<1> SUFFICES ASSUME Inv, Launch PROVE Inv'
  OBVIOUS
<1>1. CASE issue_settlement_capability \/ issue_faucet_capability
            \/ register_canonical_custody
  <2>1. /\ setup' \subseteq Prerequisites
        /\ UNCHANGED <<ledger, lifecycle, exclusions, registered, in_flight>>
    BY <1>1 DEF Inv, TypeOK, issue_settlement_capability, issue_faucet_capability,
                register_canonical_custody, prepare, Prerequisites
  <2> QED BY <2>1 DEF Inv, TypeOK, SupplyConserved, UnregisteredOwnNothing,
                      ClosedPoolIsEmpty
<1>2. CASE bind_protocol_exclusions
  <2>1. /\ setup' \subseteq Prerequisites /\ exclusions' \subseteq Publishers
        /\ registered = {}
        /\ UNCHANGED <<ledger, lifecycle, registered, in_flight>>
    BY <1>2 DEF Inv, TypeOK, bind_protocol_exclusions, prepare, Prerequisites,
                assert_configuring, Publishers
  <2> QED BY <2>1 DEF Inv, TypeOK, SupplyConserved, UnregisteredOwnNothing,
                      ClosedPoolIsEmpty
<1>3. CASE seed_pool
  <2>1. Sound(ledger')  /\ held(ledger') = held(ledger) /\ SameWallets(ledger, ledger')
    BY <1>3, InvFacts, SeedPool DEF seed_pool
  <2>2. lifecycle' = CONFIGURING
        /\ UNCHANGED <<lifecycle, setup, exclusions, registered, in_flight>>
    BY <1>3 DEF seed_pool, assert_configuring
  <2>3. TypeOK'
    BY <2>1, <2>2 DEF Inv, TypeOK, Sound
  <2>4. SupplyConserved' /\ UnregisteredOwnNothing'
    BY <2>1, <2>2 DEF Inv, SupplyConserved, UnregisteredOwnNothing, SameWallets
  <2>5. ClosedPoolIsEmpty'
    BY <2>2 DEF ClosedPoolIsEmpty, CONFIGURING, CLOSED
  <2> QED BY <2>1, <2>2, <2>3, <2>4, <2>5 DEF Inv
<1>4. CASE seal_launch
  <2>1. lifecycle' = LIVE
        /\ UNCHANGED <<ledger, setup, exclusions, registered, in_flight>>
    BY <1>4 DEF seal_launch
  <2>2. TypeOK' /\ SupplyConserved' /\ UnregisteredOwnNothing'
    BY <2>1 DEF Inv, TypeOK, SupplyConserved, UnregisteredOwnNothing
  <2> QED BY <2>1, <2>2 DEF Inv, ClosedPoolIsEmpty, CONFIGURING, LIVE, CLOSED
<1>5. CASE close_pool
  <2>1. /\ lifecycle' = CLOSED
        /\ ledger.custody_shares = 0 /\ ledger.pool_store = 0
        /\ custody_pending_for_store(ledger) = 0
        /\ UNCHANGED <<ledger, setup, exclusions, registered, in_flight>>
    BY <1>5 DEF close_pool
  <2>2. TypeOK' /\ SupplyConserved' /\ UnregisteredOwnNothing'
    BY <2>1 DEF Inv, TypeOK, SupplyConserved, UnregisteredOwnNothing
  <2> QED BY <2>1, <2>2 DEF Inv, ClosedPoolIsEmpty, CONFIGURING, CLOSED
<1> QED BY <1>1, <1>2, <1>3, <1>4, <1>5 DEF Launch

\* Taking nothing from a store changes nothing.
LEMMA EmptyStoreMove ==
  ASSUME NEW l, Sound(l), NEW a \in Accounts
  PROVE  wallet_store(l, a, -0) = l
<1>1. l \in Ledger /\ l.raw \in [Accounts -> Nat]
  BY LedgerFields DEF Sound
<1>2. wallet_store(l, a, -0) = [l EXCEPT !.raw = [l.raw EXCEPT ![a] = l.raw[a] + -0]]
  BY DEF wallet_store
<1>3. l.raw[a] + -0 = l.raw[a]
  BY <1>1
<1>4. [l.raw EXCEPT ![a] = l.raw[a] + -0] = l.raw
  BY <1>1, <1>3
<1> QED BY <1>1, <1>2, <1>4 DEF Ledger

\* So do the actions any wallet may take, before and after the pool closes.
LEMMA WalletKeepsInv ==
  ASSUME Inv, NEW a \in Accounts, Wallet(a)
  PROVE  Inv'
<1>0. /\ Sound(ledger) /\ in_flight \in Nat /\ held(ledger) \in Nat
      /\ held(ledger) + in_flight = TOTAL_SUPPLY
  BY InvFacts
<1>n. \A amount \in {0} \cup Amounts : amount \in Nat
  BY SupplyAssumption DEF Amounts
<1> DEFINE mat == materialize_all_to_store(ledger, a)
<1>m. /\ Sound(mat) /\ held(mat) = held(ledger)
      /\ mat.raw[a] = derived_balance(ledger, a)
      /\ SameWalletsBut(ledger, mat, a) /\ SamePool(ledger, mat)
      /\ SameIndex(ledger, mat)
  BY <1>0, MaterializeAll
<1> HIDE DEF mat
<1>1. ASSUME NEW amount \in {0} \cup Amounts, withdraw_hook_impl(a, amount)
      PROVE  Inv'
  <2>n. amount \in Nat
    BY <1>n
  <2>1. /\ assert_token_transferable /\ in_flight' = in_flight + amount
        /\ UNCHANGED <<lifecycle, setup, exclusions, registered>>
    BY <1>1 DEF withdraw_hook_impl
  <2>2. CASE /\ is_eligible_wallet_store(a)
             /\ derived_balance(ledger, a) >= amount
             /\ ledger' = debit_wallet(mat, a, amount)
    <3>1. /\ a \notin exclusions /\ registered = registered \cup {a}
      BY <2>2 DEF is_eligible_wallet_store
    <3>2. amount <= mat.raw[a]
      BY <1>m, <2>2
    <3>3. /\ Sound(ledger') /\ held(ledger') = held(mat) - amount
          /\ SameWalletsBut(mat, ledger', a) /\ SamePool(mat, ledger')
          /\ SameIndex(mat, ledger')
      BY <1>m, <2>n, <2>2, <3>2, DebitWallet
    <3>4. /\ SameWalletsBut(ledger, ledger', a) /\ SamePool(ledger, ledger')
          /\ SameIndex(ledger, ledger')
      BY <1>m, <3>3 DEF SameWalletsBut, SamePool, SameIndex
    <3>5. held(ledger') + in_flight' = TOTAL_SUPPLY /\ in_flight' \in Nat
      BY <1>0, <1>m, <2>n, <2>1, <3>3
    <3> QED BY <2>1, <3>1, <3>3, <3>4, <3>5, WalletStep
  <2>3. CASE /\ a \in exclusions
             /\ ledger.raw[a] >= amount
             /\ ledger' = wallet_store(ledger, a, -amount)
    <3>1. ledger.raw[a] = 0
      BY <2>3 DEF Inv, UnregisteredOwnNothing
    <3>2. amount = 0
      BY <2>n, <2>3, <3>1
    <3>3. ledger' = ledger
      BY <1>0, <2>3, <3>2, EmptyStoreMove
    <3>4. in_flight' = in_flight
      BY <1>0, <2>1, <3>2
    <3> QED BY <2>1, <3>3, <3>4 DEF Inv, TypeOK, SupplyConserved,
                 UnregisteredOwnNothing, ClosedPoolIsEmpty
  <2> QED BY <1>1, <2>2, <2>3 DEF withdraw_hook_impl, mat
<1>2. ASSUME NEW amount \in {0} \cup Amounts, deposit_hook_impl(a, amount)
      PROVE  Inv'
  <2>n. amount \in Nat
    BY <1>n
  <2>1. /\ assert_token_transferable /\ a \notin exclusions
        /\ amount <= in_flight /\ in_flight' = in_flight - amount
        /\ registered' = registered \cup {a}
        /\ ledger' = credit_wallet(mat, a, amount)
        /\ UNCHANGED <<lifecycle, setup, exclusions>>
    BY <1>2 DEF deposit_hook_impl, mat
  <2>2. /\ Sound(ledger') /\ held(ledger') = held(mat) + amount
        /\ SameWalletsBut(mat, ledger', a) /\ SamePool(mat, ledger')
        /\ SameIndex(mat, ledger')
    BY <1>m, <2>n, <2>1, CreditWallet
  <2>3. /\ SameWalletsBut(ledger, ledger', a) /\ SamePool(ledger, ledger')
        /\ SameIndex(ledger, ledger')
    BY <1>m, <2>2 DEF SameWalletsBut, SamePool, SameIndex
  <2>4. held(ledger') + in_flight' = TOTAL_SUPPLY /\ in_flight' \in Nat
    BY <1>0, <1>m, <2>n, <2>1, <2>2
  <2> QED BY <2>1, <2>2, <2>3, <2>4, WalletStep
<1>3. ASSUME NEW amount \in Amounts, claim(a, amount)
      PROVE  Inv'
  <2>n. amount \in Nat
    BY <1>n
  <2>1. /\ assert_token_transferable /\ a \in registered
        /\ amount <= claimable_for_store(ledger, a)
        /\ ledger' = materialize_to_store(ledger, a, amount)
        /\ UNCHANGED <<lifecycle, setup, exclusions, registered, in_flight>>
    BY <1>3 DEF claim
  <2>2. a \notin exclusions /\ registered' = registered \cup {a}
    BY <2>1, RegisteredStep
  <2>3. /\ Sound(ledger') /\ held(ledger') = held(ledger)
        /\ SameWalletsBut(ledger, ledger', a) /\ SamePool(ledger, ledger')
        /\ SameIndex(ledger, ledger')
    BY <1>0, <2>n, <2>1, Materialize
  <2>4. held(ledger') + in_flight' = TOTAL_SUPPLY /\ in_flight' \in Nat
    BY <1>0, <2>1, <2>3
  <2> QED BY <2>1, <2>2, <2>3, <2>4, WalletStep
<1>4. ASSUME register_wallet(a)
      PROVE  Inv'
  <2>1. /\ assert_token_transferable /\ a \notin exclusions
        /\ registered' = registered \cup {a}
        /\ UNCHANGED <<ledger, lifecycle, setup, exclusions, in_flight>>
    BY <1>4 DEF register_wallet
  <2>2. /\ Sound(ledger') /\ held(ledger') + in_flight' = TOTAL_SUPPLY
        /\ in_flight' \in Nat
    BY <1>0, <2>1
  <2>3. /\ SameWalletsBut(ledger, ledger', a) /\ SamePool(ledger, ledger')
        /\ SameIndex(ledger, ledger')
    BY <2>1 DEF SameWalletsBut, SamePool, SameIndex
  <2> QED BY <2>1, <2>2, <2>3, WalletStep
<1>5. ASSUME claim_all(a)
      PROVE  Inv'
  <2>1. /\ assert_token_transferable /\ a \in registered
        /\ ledger' = mat
        /\ UNCHANGED <<lifecycle, setup, exclusions, registered, in_flight>>
    BY <1>5 DEF claim_all, mat
  <2>2. a \notin exclusions /\ registered' = registered \cup {a}
    BY <2>1, RegisteredStep
  <2>3. held(ledger') + in_flight' = TOTAL_SUPPLY /\ in_flight' \in Nat
    BY <1>0, <1>m, <2>1
  <2> QED BY <1>m, <2>1, <2>2, <2>3, WalletStep
<1> QED BY <1>1, <1>2, <1>3, <1>4, <1>5 DEF Wallet

\* A movement by the holder of a capability that keeps the held units.
LEMMA MovesKeepInv ==
  ASSUME Inv, NEW a \in Accounts, assert_token_transferable, a \notin exclusions,
         Moves(ledger, ledger', a),
         lifecycle = CLOSED => SamePool(ledger, ledger') /\ SameIndex(ledger, ledger'),
         registered' = registered \cup {a},
         UNCHANGED <<lifecycle, setup, exclusions, in_flight>>
  PROVE  Inv'
<1>1. Sound(ledger') /\ held(ledger') = held(ledger) /\ SameWalletsBut(ledger, ledger', a)
  BY DEF Moves
<1>2. in_flight' \in Nat /\ held(ledger') + in_flight' = TOTAL_SUPPLY
  BY <1>1, InvFacts
<1> QED BY <1>1, <1>2, WalletStep

\* The movements of the faucet and of the canonical AMM keep the invariant.
LEMMA SettlementKeepsInv ==
  ASSUME Inv, NEW a \in Accounts, Settlement(a)
  PROVE  Inv'
<1>0. Sound(ledger) /\ held(ledger) <= MAGNITUDE
  BY InvFacts
<1>l. assert_live => assert_token_transferable /\ lifecycle # CLOSED
  BY DEF assert_live, assert_token_transferable, LIVE, CLOSED
<1>d. derived_balance(ledger, a) \in Nat
  <2>1. ledger.raw[a] \in Nat
    BY <1>0, LedgerFields DEF Sound
  <2>2. claimable_for_store(ledger, a) \in Nat
    BY <1>0, SoundIsSolvent
  <2> QED BY <2>1, <2>2 DEF derived_balance
<1>c. /\ ledger.custody_shares \in Nat /\ ledger.distribution_vault \in Nat
      /\ ledger.lp_vault \in Nat
  BY <1>0, LedgerFields DEF Sound
<1> PICK amount \in Amounts :
      \/ faucet(a, amount) \/ sell(a, amount) \/ buy(a, amount)
      \/ move_wallet_to_custody(a, amount) \/ move_custody_to_wallet(a, amount)
      \/ payout_lp_reward(a, amount)
  BY DEF Settlement
<1>n. amount \in Nat
  BY SupplyAssumption DEF Amounts
<1>1. CASE faucet(a, amount)
  <2>1. /\ assert_live /\ a \notin exclusions /\ registered' = registered \cup {a}
        /\ ledger.distribution_vault >= amount
        /\ ledger' = faucet_grant(ledger, a, amount)
        /\ UNCHANGED <<lifecycle, setup, exclusions, in_flight>>
    BY <1>1 DEF faucet
  <2>2. amount <= ledger.distribution_vault
    BY <2>1, <1>n, <1>c
  <2>3. Moves(ledger, ledger', a)
    BY <1>0, <1>n, <2>1, <2>2, FaucetGrant
  <2> QED BY <1>l, <2>1, <2>3, MovesKeepInv
<1>2. CASE sell(a, amount)
  <2>1. /\ assert_live /\ a \in registered
        /\ derived_balance(ledger, a) >= amount
        /\ ledger' = settle_sell(ledger, a, amount)
        /\ UNCHANGED <<lifecycle, setup, exclusions, registered, in_flight>>
    BY <1>2 DEF sell, is_eligible_wallet_store
  <2>2. amount <= derived_balance(ledger, a)
    BY <2>1, <1>n, <1>d
  <2>3. Moves(ledger, ledger', a)
    BY <1>0, <1>n, <2>1, <2>2, SettleSell
  <2>4. a \notin exclusions /\ registered' = registered \cup {a}
    BY <2>1, RegisteredStep
  <2> QED BY <1>l, <2>1, <2>3, <2>4, MovesKeepInv
<1>3. CASE buy(a, amount)
  <2>1. /\ assert_live /\ a \notin exclusions /\ registered' = registered \cup {a}
        /\ ledger.custody_shares >= amount
        /\ ledger' = settle_buy(ledger, a, amount)
        /\ UNCHANGED <<lifecycle, setup, exclusions, in_flight>>
    BY <1>3 DEF buy
  <2>2. amount <= ledger.custody_shares
    BY <2>1, <1>n, <1>c
  <2>3. Moves(ledger, ledger', a)
    BY <1>0, <1>n, <2>1, <2>2, SettleBuy
  <2> QED BY <1>l, <2>1, <2>3, MovesKeepInv
<1>4. CASE move_wallet_to_custody(a, amount)
  <2>1. /\ assert_live /\ a \in registered
        /\ derived_balance(ledger, a) >= amount
        /\ ledger' = wallet_to_custody(ledger, a, amount)
        /\ UNCHANGED <<lifecycle, setup, exclusions, registered, in_flight>>
    BY <1>4 DEF move_wallet_to_custody
  <2>2. amount <= derived_balance(ledger, a)
    BY <2>1, <1>n, <1>d
  <2>3. Moves(ledger, ledger', a)
    BY <1>0, <1>n, <2>1, <2>2, WalletToCustody
  <2>4. a \notin exclusions /\ registered' = registered \cup {a}
    BY <2>1, RegisteredStep
  <2> QED BY <1>l, <2>1, <2>3, <2>4, MovesKeepInv
<1>5. CASE move_custody_to_wallet(a, amount)
  <2>1. /\ assert_live /\ a \notin exclusions /\ registered' = registered \cup {a}
        /\ ledger.custody_shares >= amount
        /\ ledger' = custody_to_wallet(ledger, a, amount)
        /\ UNCHANGED <<lifecycle, setup, exclusions, in_flight>>
    BY <1>5 DEF move_custody_to_wallet
  <2>2. amount <= ledger.custody_shares
    BY <2>1, <1>n, <1>c
  <2>3. Moves(ledger, ledger', a)
    BY <1>0, <1>n, <2>1, <2>2, CustodyToWallet
  <2> QED BY <1>l, <2>1, <2>3, MovesKeepInv
<1>6. CASE payout_lp_reward(a, amount)
  <2>1. /\ assert_token_transferable
        /\ a \notin exclusions /\ registered' = registered \cup {a}
        /\ ledger.lp_vault >= amount
        /\ ledger' = payout_lp_reward_to(ledger, a, amount)
        /\ UNCHANGED <<lifecycle, setup, exclusions, in_flight>>
    BY <1>6 DEF payout_lp_reward
  <2>2. amount <= ledger.lp_vault
    BY <2>1, <1>n, <1>c
  <2>3. Moves(ledger, ledger', a) /\ SamePool(ledger, ledger') /\ SameIndex(ledger, ledger')
    BY <1>0, <1>n, <2>1, <2>2, PayoutLpReward
  <2> QED BY <2>1, <2>3, MovesKeepInv
<1> QED BY <1>1, <1>2, <1>3, <1>4, <1>5, <1>6

\* Routing the pool's rewards, which names no wallet, keeps it as well.
LEMMA RouteKeepsInv == Inv /\ route_rewards => Inv'
<1> SUFFICES ASSUME Inv, route_rewards PROVE Inv'
  OBVIOUS
<1>1. Sound(ledger') /\ held(ledger') = held(ledger) /\ SameWallets(ledger, ledger')
  BY InvFacts, RouteRewards DEF route_rewards
<1>2. lifecycle = LIVE /\ UNCHANGED <<lifecycle, setup, exclusions, registered, in_flight>>
  BY DEF route_rewards, assert_live
<1>3. TypeOK'
  BY <1>1, <1>2 DEF Inv, TypeOK, Sound
<1>4. SupplyConserved' /\ UnregisteredOwnNothing'
  BY <1>1, <1>2 DEF Inv, SupplyConserved, UnregisteredOwnNothing, SameWallets
<1>5. ClosedPoolIsEmpty'
  BY <1>2 DEF ClosedPoolIsEmpty, LIVE, CLOSED
<1> QED BY <1>1, <1>2, <1>3, <1>4, <1>5 DEF Inv

\* Inv holds in every reachable state of the token.
THEOREM InvariantHolds == Spec => []Inv
<1>1. Init => Inv
  BY InitInv
<1>2. Inv /\ [Next]_vars => Inv'
  <2> SUFFICES ASSUME Inv, [Next]_vars PROVE Inv'
    OBVIOUS
  <2>1. CASE Launch
    BY <2>1, LaunchStep
  <2>2. CASE route_rewards
    BY <2>2, RouteKeepsInv
  <2>3. CASE \E a \in Accounts : Wallet(a) \/ Settlement(a)
    BY <2>3, WalletKeepsInv, SettlementKeepsInv
  <2>4. CASE UNCHANGED vars
    BY <2>4 DEF vars, Inv, TypeOK, SupplyConserved, UnregisteredOwnNothing,
                ClosedPoolIsEmpty
  <2> QED BY <2>1, <2>2, <2>3, <2>4 DEF Next
<1> QED BY <1>1, <1>2, PTL DEF Spec

-----------------------------------------------------------------------------
(* What follows from the invariant *)

\* Every field keeps its type, so no unsigned subtraction of the accounting
\* goes below zero: no transaction that meets its assertions aborts there.
THEOREM TypeCorrect == Spec => []TypeOK
<1>1. Inv => TypeOK
  BY DEF Inv
<1> QED BY <1>1, InvariantHolds, PTL

\* The weight of the index is the balances of the wallets and the pool.
THEOREM SharesAlwaysMatch == Spec => []SharesMatchBalances
<1>1. Inv => SharesMatchBalances
  BY DEF Inv, Sound, SharesMatchBalances
<1> QED BY <1>1, InvariantHolds, PTL

\* The index loses no dust: accrued entitlements and the carried remainder
\* are the fees, scaled.
THEOREM DustAlwaysConserved == Spec => []DustConserved
<1>1. Inv => DustConserved
  BY DEF Inv, Sound, DustConserved
<1> QED BY <1>1, InvariantHolds, PTL

\* assert_accounting_backing never fails.
THEOREM AlwaysBacked == Spec => []AccountingBacking
<1>1. Inv => AccountingBacking
  BY DEF Inv, Sound, AccountingBacking
<1> QED BY <1>1, InvariantHolds, PTL

\* The vault can pay every pending reward at once.
THEOREM AlwaysSolvent == Spec => []RewardsSolvent
<1>1. Inv => RewardsSolvent
  BY SoundIsSolvent DEF Inv, RewardsSolvent
<1> QED BY <1>1, InvariantHolds, PTL

\* The minted supply is all there is.
THEOREM SupplyAlwaysConserved == Spec => []SupplyConserved
<1>1. Inv => SupplyConserved
  BY DEF Inv
<1> QED BY <1>1, InvariantHolds, PTL

\* A closed pool stays empty.
THEOREM ClosedStaysEmpty == Spec => []ClosedPoolIsEmpty
<1>1. Inv => ClosedPoolIsEmpty
  BY DEF Inv
<1> QED BY <1>1, InvariantHolds, PTL

\* Only registered, unexcluded accounts of a transferable token own anything.
THEOREM OwnersCanSpend == Spec => []RewardsReachable
<1>1. Inv => RewardsReachable
  <2> SUFFICES ASSUME Inv, NEW a \in Accounts, derived_balance(ledger, a) > 0
               PROVE  is_eligible_wallet_store(a) /\ assert_token_transferable
    BY DEF RewardsReachable
  <2>1. a \in registered
    <3> SUFFICES ASSUME a \notin registered PROVE FALSE
      OBVIOUS
    <3>1. ledger.raw[a] = 0 /\ ledger.correction[a] = 0 /\ ledger.claimed[a] = 0
      BY DEF Inv, UnregisteredOwnNothing
    <3>2. ledger.index \in Nat
      BY InvFacts, LedgerFields DEF Sound
    <3>3. magnified(ledger, a) = 0
      BY <3>1, <3>2 DEF magnified
    <3>4. 0 \div MAGNITUDE = 0
      <4>1. MAGNITUDE * 0 <= 0 /\ 0 < MAGNITUDE * 0 + MAGNITUDE
        BY MagnitudePositive
      <4> QED BY <4>1, MagnitudePositive, DivUnique
    <3>5. derived_balance(ledger, a) = 0
      BY <3>1, <3>3, <3>4 DEF derived_balance, claimable_for_store
    <3> QED BY <3>5
  <2>2. a \notin exclusions
    BY <2>1 DEF Inv
  <2>3. lifecycle # CONFIGURING /\ lifecycle \in {CONFIGURING, LIVE, CLOSED}
    BY <2>1 DEF Inv, TypeOK
  <2> QED BY <2>1, <2>2, <2>3 DEF is_eligible_wallet_store, assert_token_transferable
<1> QED BY <1>1, InvariantHolds, PTL

\* The rounding reserve is one unit while a remainder is carried, and nothing
\* otherwise: with r carried, the liability is the floor of fees - r/MAGNITUDE.
THEOREM RoundingNeverAccumulates == Spec => []RoundingWithinOne
<1>1. Inv => RoundingWithinOne
  <2> SUFFICES ASSUME Inv PROVE RoundingWithinOne
    OBVIOUS
  <2> DEFINE l == ledger
             y == l.total_shares * l.index + l.aggregate_correction
             F == l.lifetime_fees - l.unallocated_fees
             m == l.index_remainder
             P == l.lifetime_materialized + l.lifetime_custody_routed
             c == l.rounding_reserve
  <2>1. l \in Ledger
    BY InvFacts DEF Sound
  <2>2. /\ y \in Int /\ F \in Int /\ m \in Nat /\ P \in Nat /\ c \in Nat
        /\ l.reward_vault \in Nat /\ l.lifetime_fees \in Nat
        /\ l.unallocated_fees \in Nat
    BY <2>1, LedgerFields
  <2>3. y + m = MAGNITUDE * F /\ m < MAGNITUDE
    BY DEF Inv, Sound, dust_conserved
  <2>4. c = F - (y \div MAGNITUDE)
    <3> DEFINE G == y \div MAGNITUDE
    <3>1. G \in Int
      <4> HIDE DEF y
      <4> QED BY <2>2, MagnitudePositive, DivMod
    <3>2. aggregate_liability(l) = G - P
      BY DEF aggregate_liability
    <3>3. /\ l.reward_vault = aggregate_liability(l) + l.unallocated_fees + c
          /\ l.reward_vault = l.lifetime_fees - l.lifetime_materialized
                                - l.lifetime_custody_routed
      BY DEF Inv, Sound, accounting_backing
    <3>4. l.lifetime_materialized \in Nat /\ l.lifetime_custody_routed \in Nat
      BY <2>1, LedgerFields
    <3>5. aggregate_liability(l) \in Int
      <4> HIDE DEF G, P
      <4> QED BY <2>2, <3>1, <3>2
    <3>6. c = l.reward_vault - (aggregate_liability(l) + l.unallocated_fees)
      BY <2>2, <3>3, <3>5
    <3>7. l.reward_vault = l.lifetime_fees - P
      BY <2>2, <3>3, <3>4
    <3> HIDE DEF G, P, c
    <3>8. c = F - G
      BY <2>2, <3>1, <3>2, <3>6, <3>7
    <3> QED BY <3>8 DEF G
  <2> HIDE DEF y, F, m, c
  <2>m. MAGNITUDE \in Nat /\ MAGNITUDE > 0 /\ MAGNITUDE * F \in Int
        /\ MAGNITUDE * (F - 1) \in Int
    BY <2>2, MagnitudePositive
  <2>5. CASE m = 0
    <3>1. MAGNITUDE * F <= y /\ y < MAGNITUDE * F + MAGNITUDE
      BY <2>2, <2>3, <2>5, <2>m
    <3>2. y \div MAGNITUDE = F
      BY <2>2, <2>m, <3>1, DivUnique
    <3>3. c = 0
      BY <2>2, <2>4, <3>2
    <3> QED BY <2>5, <3>3 DEF RoundingWithinOne, m, c
  <2>6. CASE m > 0
    <3>1. MAGNITUDE * (F - 1) = MAGNITUDE * F - MAGNITUDE
      BY <2>2, <2>m
    <3>2. MAGNITUDE * (F - 1) <= y /\ y < MAGNITUDE * (F - 1) + MAGNITUDE
      BY <2>2, <2>3, <2>6, <2>m, <3>1
    <3>3. y \div MAGNITUDE = F - 1
      BY <2>2, <2>m, <3>2, DivUnique
    <3>4. c = 1
      BY <2>2, <2>4, <3>3
    <3> QED BY <2>6, <3>4 DEF RoundingWithinOne, m, c
  <2> QED BY <2>2, <2>5, <2>6
<1> QED BY <1>1, InvariantHolds, PTL

-----------------------------------------------------------------------------
(* What a step may not do to a balance *)

\* What every step leaves behind: it moves units of one wallet at most, and
\* that wallet and the pool earn on units they owned before and after it.
Settled(l, r, a) == Sound(r) /\ SameWalletsBut(l, r, a) /\ Earns(l, r, a)

\* The three ways in which an account gives up units.
Spends(a) ==
  \E amount \in Amounts :
    withdraw_hook_impl(a, amount) \/ sell(a, amount) \/ move_wallet_to_custody(a, amount)

\* Every step is settled by some account, whose balance falls only if it spends.
SettledStep ==
  \E a \in Accounts :
    /\ Settled(ledger, ledger', a)
    /\ derived_balance(ledger', a) >= derived_balance(ledger, a) \/ Spends(a)

\* A wallet the step does not touch earns the growth of the index on its units.
LEMMA OthersEarn ==
  ASSUME NEW l, NEW r, Sound(l), Sound(r), r.index >= l.index, NEW x \in Accounts,
         r.raw[x] = l.raw[x], r.correction[x] = l.correction[x],
         r.claimed[x] = l.claimed[x]
  PROVE  /\ magnified(r, x) = magnified(l, x) + l.raw[x] * (r.index - l.index)
         /\ derived_balance(r, x) >= derived_balance(l, x)
<1> DEFINE M == MAGNITUDE
           y == magnified(l, x)
           z == magnified(r, x)
           w == l.raw[x]
           g == r.index - l.index
           c == l.claimed[x]
<1>0. l \in Ledger /\ r \in Ledger
  BY DEF Sound
<1>1. z = y + w * g
  BY <1>0, FeeIsShared
<1>2. /\ M \in Nat /\ M > 0 /\ y \in Int /\ z \in Int /\ w \in Nat
      /\ c \in Nat /\ g \in Nat
  <2>1. l.index \in Nat /\ r.index \in Nat /\ c \in Nat
    BY <1>0, LedgerFields
  <2> QED BY <2>1, MagnitudePositive, DerivedType
<1>3. /\ derived_balance(l, x) = w + ((y \div M) - c)
      /\ derived_balance(r, x) = w + ((z \div M) - c)
  BY DEF derived_balance, claimable_for_store
<1> HIDE DEF M, y, z, w, g, c
<1>4. y <= z
  <2>1. w * g \in Nat
    BY <1>2
  <2> QED BY <1>1, <1>2, <2>1
<1>5. /\ y \div M \in Int /\ z \div M \in Int /\ M * (y \div M) <= y
  <2>1. /\ y \div M \in Int /\ y = M * (y \div M) + (y % M) /\ 0 <= y % M
        /\ y % M \in Int /\ z \div M \in Int
    BY <1>2, DivMod
  <2>2. M * (y \div M) \in Int
    BY <1>2, <2>1
  <2> QED BY <1>2, <2>1, <2>2
<1>6. y \div M <= z \div M
  <2>1. M * (y \div M) \in Int
    BY <1>2, <1>5
  <2>2. M * (y \div M) <= z
    BY <1>2, <1>4, <1>5, <2>1
  <2> QED BY <1>2, <1>5, <2>2, DivMono
<1>7. derived_balance(r, x) >= derived_balance(l, x)
  BY <1>2, <1>3, <1>5, <1>6
<1> QED BY <1>1, <1>7 DEF y, z, w, g

\* Growing by w for each step of the index is within what the smaller of two
\* balances that are both at least w would grow by.
LEMMA WithinSmaller ==
  ASSUME NEW y \in Int, NEW z, NEW w \in Nat, NEW g \in Nat, NEW b \in Nat, NEW c \in Nat,
         w <= b, w <= c, z = y + w * g
  PROVE  z - y <= MinOf(b, c) * g
<1> DEFINE m == MinOf(b, c)
<1>1. m \in Nat /\ w <= m
  BY DEF MinOf
<1> HIDE DEF m
<1>2. w * g \in Int /\ m * g \in Int
  BY <1>1
<1>3. w * g <= m * g
  <2>1. g * w <= g * m
    BY <1>1, TimesMono
  <2> QED BY <1>1, <2>1
<1>4. z - y = w * g
  BY <1>2
<1> QED BY <1>2, <1>3, <1>4 DEF m

\* A settled step earns on held units only.
LEMMA SettledEarns ==
  ASSUME Sound(ledger), NEW a \in Accounts, Settled(ledger, ledger', a)
  PROVE  EarnedOnHeldUnits
<1> DEFINE g == ledger'.index - ledger.index
<1>0. Sound(ledger') /\ ledger'.index >= ledger.index
  BY DEF Settled, Earns
<1>1. g \in Nat
  <2>1. ledger.index \in Nat /\ ledger'.index \in Nat
    BY <1>0, LedgerFields DEF Sound
  <2> QED BY <1>0, <2>1
<1>2. ASSUME NEW x \in Accounts
      PROVE  magnified(ledger', x) - magnified(ledger, x)
               <= MinOf(derived_balance(ledger, x), derived_balance(ledger', x)) * g
  <2>1. /\ magnified(ledger, x) \in Int
        /\ derived_balance(ledger, x) \in Nat /\ derived_balance(ledger', x) \in Nat
        /\ ledger.raw[x] \in Nat /\ ledger.raw[x] <= derived_balance(ledger, x)
        /\ ledger'.raw[x] <= derived_balance(ledger', x)
    BY <1>0, DerivedType
  <2>2. \E w \in Nat : /\ w <= derived_balance(ledger, x)
                       /\ w <= derived_balance(ledger', x)
                       /\ magnified(ledger', x) = magnified(ledger, x) + w * g
    <3>1. CASE x = a
      BY <3>1 DEF Settled, Earns
    <3>2. CASE x # a
      <4>1. /\ ledger'.raw[x] = ledger.raw[x]
            /\ ledger'.correction[x] = ledger.correction[x]
            /\ ledger'.claimed[x] = ledger.claimed[x]
        BY <3>2 DEF Settled, SameWalletsBut
      <4>2. magnified(ledger', x) = magnified(ledger, x) + ledger.raw[x] * g
        BY <1>0, <4>1, OthersEarn
      <4> QED BY <2>1, <4>1, <4>2
    <3> QED BY <3>1, <3>2
  <2> HIDE DEF g
  <2>3. PICK w \in Nat : /\ w <= derived_balance(ledger, x)
                         /\ w <= derived_balance(ledger', x)
                         /\ magnified(ledger', x) = magnified(ledger, x) + w * g
    BY <2>2
  <2> QED BY <1>1, <2>1, <2>3, WithinSmaller
<1>3. pool_magnified(ledger') - pool_magnified(ledger)
        <= MinOf(ledger.custody_shares, ledger'.custody_shares) * g
  <2>1. /\ pool_magnified(ledger) \in Int
        /\ ledger.custody_shares \in Nat /\ ledger'.custody_shares \in Nat
    BY <1>0, DerivedType, LedgerFields DEF Sound
  <2>2. PICK w \in Nat : /\ w <= ledger.custody_shares /\ w <= ledger'.custody_shares
                         /\ pool_magnified(ledger') = pool_magnified(ledger) + w * g
    BY DEF Settled, Earns
  <2> HIDE DEF g
  <2> QED BY <1>1, <2>1, <2>2, WithinSmaller
<1> QED BY <1>2, <1>3 DEF EarnedOnHeldUnits

\* In a settled step whose account only loses by spending, nobody else loses.
LEMMA SettledLoses ==
  ASSUME Sound(ledger), SettledStep
  PROVE  LostOnlyBySpending
<1>1. PICK a \in Accounts :
        /\ Settled(ledger, ledger', a)
        /\ derived_balance(ledger', a) >= derived_balance(ledger, a) \/ Spends(a)
  BY DEF SettledStep
<1>2. Sound(ledger') /\ ledger'.index >= ledger.index
  BY <1>1 DEF Settled, Earns
<1> SUFFICES ASSUME NEW x \in Accounts,
                    derived_balance(ledger', x) < derived_balance(ledger, x)
             PROVE  Spends(x)
  BY DEF LostOnlyBySpending, Spends
<1>3. derived_balance(ledger, x) \in Nat /\ derived_balance(ledger', x) \in Nat
  BY <1>2, DerivedType
<1>4. CASE x = a
  BY <1>1, <1>3, <1>4
<1>5. CASE x # a
  <2>1. /\ ledger'.raw[x] = ledger.raw[x]
        /\ ledger'.correction[x] = ledger.correction[x]
        /\ ledger'.claimed[x] = ledger.claimed[x]
    BY <1>1, <1>5 DEF Settled, SameWalletsBut
  <2>2. derived_balance(ledger', x) >= derived_balance(ledger, x)
    BY <1>2, <2>1, OthersEarn
  <2> QED BY <1>3, <2>2
<1> QED BY <1>4, <1>5

\* A step that touches no wallet and pays no fee is settled by anybody.
LEMMA IdleSettles ==
  ASSUME Sound(ledger), Sound(ledger'), SameWallets(ledger, ledger'),
         ledger'.index = ledger.index, SameEarnings(ledger, ledger')
  PROVE  SettledStep
<1> DEFINE a == "reflection_core"
<1>1. a \in Accounts
  BY DEF Accounts, Publishers
<1> HIDE DEF a
<1>2. Settled(ledger, ledger', a)
  BY <1>1, EarnsNothing DEF Settled, SameWallets, SameWalletsBut
<1>3. derived_balance(ledger', a) >= derived_balance(ledger, a)
  <2>1. ledger'.index >= ledger.index
    BY LedgerFields DEF Sound
  <2> QED BY <1>1, <2>1, OthersEarn DEF SameWallets
<1> QED BY <1>1, <1>2, <1>3 DEF SettledStep

\* A movement after which the raw balance of its account is at least what a
\* query showed before is no loss to that account.
LEMMA GainSettles ==
  ASSUME Sound(ledger), NEW a \in Accounts, Settled(ledger, ledger', a),
         ledger'.raw[a] >= derived_balance(ledger, a)
  PROVE  SettledStep
<1>1. /\ derived_balance(ledger, a) \in Nat /\ derived_balance(ledger', a) \in Nat
      /\ ledger'.raw[a] \in Nat /\ ledger'.raw[a] <= derived_balance(ledger', a)
  BY DerivedType DEF Settled
<1>2. derived_balance(ledger', a) >= derived_balance(ledger, a)
  BY <1>1
<1> QED BY <1>2 DEF SettledStep

\* The launch and the routing of the pool's rewards settle.
LEMMA LaunchSettles ==
  ASSUME Inv, Launch \/ route_rewards
  PROVE  SettledStep
<1>0. Sound(ledger)
  BY InvFacts
<1>1. CASE seed_pool
  <2>1. /\ Sound(ledger') /\ SameWallets(ledger, ledger')
        /\ SameIndex(ledger, ledger') /\ SameEarnings(ledger, ledger')
    BY <1>0, <1>1, SeedPool DEF seed_pool
  <2> QED BY <1>0, <2>1, IdleSettles DEF SameIndex
<1>2. CASE route_rewards
  <2>1. /\ Sound(ledger') /\ SameWallets(ledger, ledger')
        /\ SameIndex(ledger, ledger') /\ SameEarnings(ledger, ledger')
    BY <1>0, <1>2, RouteRewards DEF route_rewards
  <2> QED BY <1>0, <2>1, IdleSettles DEF SameIndex
<1>3. CASE ledger' = ledger
  <2>1. SameWallets(ledger, ledger') /\ SameEarnings(ledger, ledger')
    BY <1>3 DEF SameWallets, SameEarnings
  <2> QED BY <1>0, <1>3, <2>1, IdleSettles
<1> QED BY <1>1, <1>2, <1>3 DEF Launch, issue_settlement_capability,
       issue_faucet_capability, register_canonical_custody,
       bind_protocol_exclusions, seal_launch, close_pool

\* So do the actions of a wallet: a withdrawal spends, the others collect or
\* receive, and an excluded store has nothing to withdraw.
LEMMA WalletSettles ==
  ASSUME Inv, NEW a \in Accounts, Wallet(a)
  PROVE  SettledStep
<1>0. Sound(ledger)
  BY InvFacts
<1>n. \A amount \in {0} \cup Amounts : amount \in Nat
  BY SupplyAssumption DEF Amounts
<1>d. derived_balance(ledger, a) \in Nat
  BY <1>0, DerivedType
<1>s. CASE ledger' = ledger
  <2>1. SameWallets(ledger, ledger') /\ SameEarnings(ledger, ledger')
    BY <1>s DEF SameWallets, SameEarnings
  <2> QED BY <1>0, <1>s, <2>1, IdleSettles
<1> DEFINE mat == materialize_all_to_store(ledger, a)
<1>m. /\ Sound(mat) /\ mat.raw[a] = derived_balance(ledger, a)
      /\ SameWalletsBut(ledger, mat, a)
      /\ SameIndex(ledger, mat) /\ SameEarnings(ledger, mat)
  BY <1>0, MaterializeAll
<1> HIDE DEF mat
<1>c. ASSUME Sound(ledger'), SameWalletsBut(mat, ledger', a),
             SameIndex(mat, ledger'), SameEarnings(mat, ledger')
      PROVE  Settled(ledger, ledger', a)
  <2>1. /\ SameWalletsBut(ledger, ledger', a) /\ ledger'.index = ledger.index
        /\ SameEarnings(ledger, ledger')
    BY <1>m, <1>c DEF SameWalletsBut, SameIndex, SameEarnings
  <2> QED BY <1>0, <1>c, <2>1, EarnsNothing DEF Settled
<1>1. ASSUME NEW amount \in {0} \cup Amounts, withdraw_hook_impl(a, amount)
      PROVE  SettledStep
  <2>n. amount \in Nat
    BY <1>n
  <2>1. CASE /\ derived_balance(ledger, a) >= amount
             /\ ledger' = debit_wallet(mat, a, amount)
    <3>1. amount <= mat.raw[a]
      BY <1>m, <1>d, <2>n, <2>1
    <3>2. /\ Sound(ledger') /\ SameWalletsBut(mat, ledger', a)
          /\ SameIndex(mat, ledger') /\ SameEarnings(mat, ledger')
          /\ ledger'.raw[a] = mat.raw[a] - amount
      BY <1>m, <2>n, <2>1, <3>1, DebitWallet
    <3>3. Settled(ledger, ledger', a)
      BY <1>c, <3>2
    <3>4. CASE amount = 0
      <4>1. ledger'.raw[a] >= derived_balance(ledger, a)
        BY <1>m, <1>d, <3>2, <3>4
      <4> QED BY <1>0, <3>3, <4>1, GainSettles
    <3>5. CASE amount \in Amounts
      BY <1>1, <3>3, <3>5 DEF SettledStep, Spends
    <3> QED BY <3>4, <3>5
  <2>2. CASE /\ a \in exclusions
             /\ ledger.raw[a] >= amount
             /\ ledger' = wallet_store(ledger, a, -amount)
    <3>1. ledger.raw[a] = 0
      BY <2>2 DEF Inv, UnregisteredOwnNothing
    <3>2. amount = 0
      BY <2>n, <2>2, <3>1
    <3> QED BY <1>0, <1>s, <2>2, <3>2, EmptyStoreMove
  <2> QED BY <1>1, <2>1, <2>2 DEF withdraw_hook_impl, mat
<1>2. ASSUME NEW amount \in {0} \cup Amounts, deposit_hook_impl(a, amount)
      PROVE  SettledStep
  <2>n. amount \in Nat
    BY <1>n
  <2>1. ledger' = credit_wallet(mat, a, amount)
    BY <1>2 DEF deposit_hook_impl, mat
  <2>2. /\ Sound(ledger') /\ SameWalletsBut(mat, ledger', a)
        /\ SameIndex(mat, ledger') /\ SameEarnings(mat, ledger')
        /\ ledger'.raw[a] = mat.raw[a] + amount
    BY <1>m, <2>n, <2>1, CreditWallet
  <2>3. Settled(ledger, ledger', a)
    BY <1>c, <2>2
  <2>4. ledger'.raw[a] >= derived_balance(ledger, a)
    BY <1>m, <1>d, <2>n, <2>2
  <2> QED BY <1>0, <2>3, <2>4, GainSettles
<1>3. ASSUME NEW amount \in Amounts, claim(a, amount)
      PROVE  SettledStep
  <2>n. amount \in Nat
    BY <1>n
  <2>1. /\ amount <= claimable_for_store(ledger, a)
        /\ ledger' = materialize_to_store(ledger, a, amount)
    BY <1>3 DEF claim
  <2>2. /\ Sound(ledger') /\ SameWalletsBut(ledger, ledger', a)
        /\ SameIndex(ledger, ledger') /\ SameEarnings(ledger, ledger')
        /\ ledger'.raw[a] = ledger.raw[a] + amount
        /\ ledger'.claimed[a] = ledger.claimed[a] + amount
    BY <1>0, <2>n, <2>1, Materialize
  <2>3. Settled(ledger, ledger', a)
    BY <1>0, <2>2, EarnsNothing DEF Settled, SameIndex
  <2>4. derived_balance(ledger', a) >= derived_balance(ledger, a)
    <3> DEFINE q == magnified(ledger, a) \div MAGNITUDE
               w == ledger.raw[a]
               c == ledger.claimed[a]
    <3>1. q \in Int /\ w \in Nat /\ c \in Nat
      BY <1>0, DerivedType, LedgerFields, MagnitudePositive, DivMod DEF Sound
    <3>2. /\ derived_balance(ledger, a) = w + (q - c)
          /\ derived_balance(ledger', a) = (w + amount) + (q - (c + amount))
      BY <2>2 DEF derived_balance, claimable_for_store, SameEarnings
    <3> HIDE DEF q, w, c
    <3> QED BY <2>n, <3>1, <3>2
  <2> QED BY <2>3, <2>4 DEF SettledStep
<1>4. ASSUME register_wallet(a)
      PROVE  SettledStep
  BY <1>s, <1>4 DEF register_wallet
<1>5. ASSUME claim_all(a)
      PROVE  SettledStep
  <2>1. ledger' = mat
    BY <1>5 DEF claim_all, mat
  <2>2. Settled(ledger, ledger', a)
    BY <1>0, <1>m, <2>1, EarnsNothing DEF Settled, SameIndex
  <2>3. ledger'.raw[a] >= derived_balance(ledger, a)
    BY <1>m, <1>d, <2>1
  <2> QED BY <1>0, <2>2, <2>3, GainSettles
<1> QED BY <1>1, <1>2, <1>3, <1>4, <1>5 DEF Wallet

\* And the movements of the faucet and of the canonical AMM.
LEMMA SettlementSettles ==
  ASSUME Inv, NEW a \in Accounts, Settlement(a)
  PROVE  SettledStep
<1>0. Sound(ledger) /\ held(ledger) <= MAGNITUDE
  BY InvFacts
<1>d. derived_balance(ledger, a) \in Nat
  BY <1>0, DerivedType
<1>c. /\ ledger.custody_shares \in Nat /\ ledger.distribution_vault \in Nat
      /\ ledger.lp_vault \in Nat
  BY <1>0, LedgerFields DEF Sound
<1> PICK amount \in Amounts :
      \/ faucet(a, amount) \/ sell(a, amount) \/ buy(a, amount)
      \/ move_wallet_to_custody(a, amount) \/ move_custody_to_wallet(a, amount)
      \/ payout_lp_reward(a, amount)
  BY DEF Settlement
<1>n. amount \in Nat
  BY SupplyAssumption DEF Amounts
<1>m. Moves(ledger, ledger', a) => Settled(ledger, ledger', a)
  BY DEF Moves, Settled
<1>1. CASE faucet(a, amount)
  <2>1. /\ amount <= ledger.distribution_vault
        /\ ledger' = faucet_grant(ledger, a, amount)
    BY <1>1, <1>n, <1>c DEF faucet
  <2>2. Moves(ledger, ledger', a) /\ ledger'.raw[a] >= derived_balance(ledger, a)
    BY <1>0, <1>n, <2>1, FaucetGrant
  <2> QED BY <1>0, <1>m, <2>2, GainSettles
<1>2. CASE sell(a, amount)
  <2>1. /\ amount <= derived_balance(ledger, a)
        /\ ledger' = settle_sell(ledger, a, amount)
    BY <1>2, <1>n, <1>d DEF sell
  <2>2. Moves(ledger, ledger', a)
    BY <1>0, <1>n, <2>1, SettleSell
  <2> QED BY <1>2, <1>m, <2>2 DEF SettledStep, Spends
<1>3. CASE buy(a, amount)
  <2>1. /\ amount <= ledger.custody_shares
        /\ ledger' = settle_buy(ledger, a, amount)
    BY <1>3, <1>n, <1>c DEF buy
  <2>2. Moves(ledger, ledger', a) /\ ledger'.raw[a] >= derived_balance(ledger, a)
    BY <1>0, <1>n, <2>1, SettleBuy
  <2> QED BY <1>0, <1>m, <2>2, GainSettles
<1>4. CASE move_wallet_to_custody(a, amount)
  <2>1. /\ amount <= derived_balance(ledger, a)
        /\ ledger' = wallet_to_custody(ledger, a, amount)
    BY <1>4, <1>n, <1>d DEF move_wallet_to_custody
  <2>2. Moves(ledger, ledger', a)
    BY <1>0, <1>n, <2>1, WalletToCustody
  <2> QED BY <1>4, <1>m, <2>2 DEF SettledStep, Spends
<1>5. CASE move_custody_to_wallet(a, amount)
  <2>1. /\ amount <= ledger.custody_shares
        /\ ledger' = custody_to_wallet(ledger, a, amount)
    BY <1>5, <1>n, <1>c DEF move_custody_to_wallet
  <2>2. Moves(ledger, ledger', a) /\ ledger'.raw[a] >= derived_balance(ledger, a)
    BY <1>0, <1>n, <2>1, CustodyToWallet
  <2> QED BY <1>0, <1>m, <2>2, GainSettles
<1>6. CASE payout_lp_reward(a, amount)
  <2>1. /\ amount <= ledger.lp_vault
        /\ ledger' = payout_lp_reward_to(ledger, a, amount)
    BY <1>6, <1>n, <1>c DEF payout_lp_reward
  <2>2. Moves(ledger, ledger', a) /\ ledger'.raw[a] >= derived_balance(ledger, a)
    BY <1>0, <1>n, <2>1, PayoutLpReward
  <2> QED BY <1>0, <1>m, <2>2, GainSettles
<1> QED BY <1>1, <1>2, <1>3, <1>4, <1>5, <1>6

\* Every step of the token settles.
LEMMA NextSettles == Inv /\ Next => SettledStep
<1> SUFFICES ASSUME Inv, Next PROVE SettledStep
  OBVIOUS
<1> QED BY LaunchSettles, WalletSettles, SettlementSettles DEF Next

\* A fee is earned by units held before and after the trade that pays it:
\* settle_sell takes the seller's units off and settle_buy the pool's before
\* the index moves, and what a trade adds arrives after it, so neither side of
\* a trade, and no unit that changes hands, shares in its own fee.
THEOREM EarnsOnlyOnHeldUnits == Spec => EarnsOnHeldUnits
<1>1. Inv /\ [Next]_vars => [EarnedOnHeldUnits]_vars
  <2> SUFFICES ASSUME Inv, Next PROVE EarnedOnHeldUnits
    OBVIOUS
  <2> QED BY NextSettles, InvFacts, SettledEarns DEF SettledStep
<1> QED BY <1>1, InvariantHolds, PTL DEF Spec, EarnsOnHeldUnits

\* Only the account itself, by a withdrawal, a sale or a liquidity deposit,
\* makes its derived balance fall: materialize_to_store, which other accounts'
\* transfers may trigger, turns pending reward into balance one for one, and
\* the index only grows.
THEOREM LosesOnlyBySpending == Spec => BalanceLostOnlyBySpending
<1>1. Inv /\ [Next]_vars => [LostOnlyBySpending]_vars
  <2> SUFFICES ASSUME Inv, Next PROVE LostOnlyBySpending
    OBVIOUS
  <2> QED BY NextSettles, InvFacts, SettledLoses
<1> QED BY <1>1, InvariantHolds, PTL DEF Spec, BalanceLostOnlyBySpending

-----------------------------------------------------------------------------
(* The signed corrections *)

\* The integer of a value determines the sign and size of its parts.
LEMMA PartsOf ==
  ASSUME NEW v \in SignedU256
  PROVE  /\ v.negative \in BOOLEAN /\ v.magnitude \in Nat /\ v.magnitude <= MAX_U256
         /\ v.negative => IntegerOf(v) = -v.magnitude
         /\ ~v.negative => IntegerOf(v) = v.magnitude
         /\ IntegerOf(v) \in Int
BY WidthAssumption DEF SignedU256, U256, IntegerOf

\* add_unsigned adds, and keeps the canonical form.
LEMMA AddIsPlus ==
  ASSUME NEW v \in SignedU256, v.negative => v.magnitude > 0, NEW amount \in U256
  PROVE  LET r == add_unsigned(v, amount) IN
         /\ r.negative \in BOOLEAN /\ r.magnitude \in Nat
         /\ r = [negative |-> r.negative, magnitude |-> r.magnitude]
         /\ r.negative => r.magnitude > 0
         /\ IntegerOf(r) = IntegerOf(v) + amount
         /\ r.negative => r.magnitude <= MAX_U256
<1> DEFINE r == add_unsigned(v, amount)
<1>0. amount \in Nat /\ amount <= MAX_U256 /\ MAX_U256 \in Nat
  BY WidthAssumption DEF U256
<1>1. /\ v.negative \in BOOLEAN /\ v.magnitude \in Nat /\ v.magnitude <= MAX_U256
      /\ v = [negative |-> v.negative, magnitude |-> v.magnitude]
  BY WidthAssumption DEF SignedU256, U256
<1>2. CASE v.negative /\ v.magnitude > amount
  <2>1. r = [negative |-> TRUE, magnitude |-> v.magnitude - amount]
    BY <1>1, <1>2 DEF add_unsigned
  <2> HIDE DEF r
  <2> QED BY <2>1, <1>0, <1>1, <1>2 DEF IntegerOf, r
<1>3. CASE v.negative /\ ~(v.magnitude > amount)
  <2>1. amount > 0 /\ v.magnitude <= amount
    BY <1>0, <1>1, <1>3
  <2>2. r = [negative |-> FALSE, magnitude |-> amount - v.magnitude]
    BY <1>1, <1>3, <2>1 DEF add_unsigned
  <2> HIDE DEF r
  <2> QED BY <2>1, <2>2, <1>0, <1>1, <1>3 DEF IntegerOf, r
<1>4. CASE ~v.negative
  <2>1. r = [negative |-> FALSE, magnitude |-> v.magnitude + amount]
    BY <1>1, <1>4 DEF add_unsigned
  <2> HIDE DEF r
  <2> QED BY <2>1, <1>0, <1>1, <1>4 DEF IntegerOf, r
<1> QED BY <1>2, <1>3, <1>4

\* subtract_unsigned subtracts, and keeps the canonical form.
LEMMA SubtractIsMinus ==
  ASSUME NEW v \in SignedU256, v.negative => v.magnitude > 0, NEW amount \in U256
  PROVE  LET r == subtract_unsigned(v, amount) IN
         /\ r.negative \in BOOLEAN /\ r.magnitude \in Nat
         /\ r = [negative |-> r.negative, magnitude |-> r.magnitude]
         /\ r.negative => r.magnitude > 0
         /\ IntegerOf(r) = IntegerOf(v) - amount
<1> DEFINE r == subtract_unsigned(v, amount)
<1>0. amount \in Nat /\ amount <= MAX_U256 /\ MAX_U256 \in Nat
  BY WidthAssumption DEF U256
<1>1. /\ v.negative \in BOOLEAN /\ v.magnitude \in Nat /\ v.magnitude <= MAX_U256
      /\ v = [negative |-> v.negative, magnitude |-> v.magnitude]
  BY WidthAssumption DEF SignedU256, U256
<1>2. CASE v.negative
  <2>1. r = [negative |-> TRUE, magnitude |-> v.magnitude + amount]
    BY <1>1, <1>2 DEF subtract_unsigned
  <2> HIDE DEF r
  <2> QED BY <2>1, <1>0, <1>1, <1>2 DEF IntegerOf, r
<1>3. CASE ~v.negative /\ v.magnitude < amount
  <2>1. r = [negative |-> TRUE, magnitude |-> amount - v.magnitude]
    BY <1>1, <1>3 DEF subtract_unsigned
  <2> HIDE DEF r
  <2> QED BY <2>1, <1>0, <1>1, <1>3 DEF IntegerOf, r
<1>4. CASE ~v.negative /\ ~(v.magnitude < amount)
  <2>1. r = [negative |-> FALSE, magnitude |-> v.magnitude - amount]
    BY <1>1, <1>4 DEF subtract_unsigned
  <2>2. v.magnitude - amount \in Nat
    BY <1>0, <1>1, <1>4
  <2> HIDE DEF r
  <2> QED BY <2>1, <2>2, <1>0, <1>1, <1>4 DEF IntegerOf, r
<1> QED BY <1>2, <1>3, <1>4

\* The representation stays canonical and in range.
THEOREM CorrectionsWellFormed == MathSpec => []MathTypeOK
<1>1. MathInit => MathTypeOK
  BY WidthAssumption DEF MathInit, MathTypeOK, zero, SignedU256, U256
<1>2. MathTypeOK /\ [MathNext]_mathVars => MathTypeOK'
  <2> SUFFICES ASSUME MathTypeOK, [MathNext]_mathVars PROVE MathTypeOK'
    OBVIOUS
  <2>1. ASSUME NEW amount \in U256, Add(amount) PROVE MathTypeOK'
    <3>1. /\ value' = add_unsigned(value, amount)
          /\ add_unsigned(value, amount).magnitude <= MAX_U256
      BY <2>1 DEF Add
    <3>2. /\ value'.negative \in BOOLEAN /\ value'.magnitude \in Nat
          /\ value' = [negative |-> value'.negative, magnitude |-> value'.magnitude]
          /\ value'.negative => value'.magnitude > 0
      BY <3>1, AddIsPlus DEF MathTypeOK
    <3>3. value'.magnitude \in U256
      BY <3>1, <3>2, WidthAssumption DEF U256
    <3> QED BY <3>2, <3>3 DEF MathTypeOK, SignedU256
  <2>2. ASSUME NEW amount \in U256, Subtract(amount) PROVE MathTypeOK'
    <3>1. /\ value' = subtract_unsigned(value, amount)
          /\ subtract_unsigned(value, amount).magnitude <= MAX_U256
      BY <2>2 DEF Subtract
    <3>2. /\ value'.negative \in BOOLEAN /\ value'.magnitude \in Nat
          /\ value' = [negative |-> value'.negative, magnitude |-> value'.magnitude]
          /\ value'.negative => value'.magnitude > 0
      BY <3>1, SubtractIsMinus DEF MathTypeOK
    <3>3. value'.magnitude \in U256
      BY <3>1, <3>2, WidthAssumption DEF U256
    <3> QED BY <3>2, <3>3 DEF MathTypeOK, SignedU256
  <2>3. CASE UNCHANGED mathVars
    BY <2>3 DEF MathTypeOK, mathVars
  <2> QED BY <2>1, <2>2, <2>3 DEF MathNext
<1> QED BY <1>1, <1>2, PTL DEF MathSpec

\* ReflectionMath implements SignedInteger: every add or subtract is that of
\* the integer it stands for.
THEOREM CorrectionsAreIntegers == MathSpec => ImplementsInteger
<1>1. MathInit => Integer!Init
  BY DEF MathInit, zero, Integer!Init, IntegerOf
<1>2. MathTypeOK /\ MathTypeOK' /\ [MathNext]_mathVars => [Integer!Next]_<<IntegerOf(value), call>>
  <2> SUFFICES ASSUME MathTypeOK, MathTypeOK', [MathNext]_mathVars
               PROVE  [Integer!Next]_<<IntegerOf(value), call>>
    OBVIOUS
  <2>r. IntegerOf(value') \in Integer!Range
    <3>1. value' \in SignedU256 /\ value'.negative \in BOOLEAN
      BY DEF MathTypeOK, SignedU256
    <3> QED BY <3>1, PartsOf, WidthAssumption DEF Integer!Range
  <2>1. ASSUME NEW amount \in U256, Add(amount) PROVE Integer!Next
    <3>1. IntegerOf(value') = IntegerOf(value) + amount /\ call' = amount
      BY <2>1, AddIsPlus DEF MathTypeOK, Add
    <3>2. amount \in Integer!Range
      BY WidthAssumption DEF U256, Integer!Range
    <3> QED BY <2>r, <3>1, <3>2 DEF Integer!Next, Integer!Add
  <2>2. ASSUME NEW amount \in U256, Subtract(amount) PROVE Integer!Next
    <3>1. IntegerOf(value') = IntegerOf(value) - amount /\ call' = -amount
      BY <2>2, SubtractIsMinus DEF MathTypeOK, Subtract
    <3>2. -amount \in Integer!Range /\ amount \in Int /\ IntegerOf(value) \in Int
      BY WidthAssumption, PartsOf DEF U256, Integer!Range, MathTypeOK
    <3>3. IntegerOf(value') = IntegerOf(value) + (-amount)
      BY <3>1, <3>2
    <3> QED BY <2>r, <3>1, <3>2, <3>3 DEF Integer!Next, Integer!Add
  <2>3. CASE UNCHANGED mathVars
    BY <2>3 DEF mathVars
  <2> QED BY <2>1, <2>2, <2>3 DEF MathNext
<1> QED BY <1>1, <1>2, CorrectionsWellFormed, PTL DEF MathSpec, ImplementsInteger, Integer!Spec

\* apply is exact: it aborts only where the true sum is negative or too large.
THEOREM ApplyAlwaysExact == MathSpec => []ApplyExact
<1>1. MathTypeOK => ApplyExact
  <2> SUFFICES ASSUME MathTypeOK, NEW base \in U256
               PROVE  /\ apply_succeeds(base, value) <=> base + IntegerOf(value) \in U256
                      /\ apply_succeeds(base, value) =>
                           apply(base, value) = base + IntegerOf(value)
    BY DEF ApplyExact
  <2>1. base \in Nat /\ base <= MAX_U256 /\ MAX_U256 \in Nat
    BY WidthAssumption DEF U256
  <2>2. value.negative \in BOOLEAN /\ value.magnitude \in Nat
        /\ value.magnitude <= MAX_U256
    BY PartsOf DEF MathTypeOK
  <2>3. CASE value.negative
    <3>1. IntegerOf(value) = -value.magnitude
      BY <2>3 DEF IntegerOf
    <3> QED BY <2>1, <2>2, <2>3, <3>1 DEF apply, apply_succeeds, U256
  <2>4. CASE ~value.negative
    <3>1. IntegerOf(value) = value.magnitude
      BY <2>4 DEF IntegerOf
    <3> QED BY <2>1, <2>2, <2>4, <3>1 DEF apply, apply_succeeds, U256
  <2> QED BY <2>3, <2>4
<1> QED BY <1>1, CorrectionsWellFormed, PTL

\* Corrections keep one zero, and add_unsigned and subtract_unsigned abort
\* only out of range.
THEOREM AbortsOnlyWhenTheyMust == MathSpec => []AbortsOnlyOutOfRange
<1>1. MathTypeOK => AbortsOnlyOutOfRange
  <2> SUFFICES ASSUME MathTypeOK, NEW amount \in U256
               PROVE  /\ IntegerOf(value) + amount \in Integer!Range =>
                           add_unsigned(value, amount) \in SignedU256
                      /\ IntegerOf(value) - amount \in Integer!Range =>
                           subtract_unsigned(value, amount) \in SignedU256
    BY DEF AbortsOnlyOutOfRange
  <2> DEFINE Fits(r) == /\ r.negative \in BOOLEAN /\ r.magnitude \in Nat
                        /\ r = [negative |-> r.negative, magnitude |-> r.magnitude]
                        /\ IntegerOf(r) \in -MAX_U256 .. MAX_U256
  <2>1. ASSUME NEW r, Fits(r) PROVE r \in SignedU256
    <3>1. r.magnitude \in U256
      BY <2>1, WidthAssumption DEF IntegerOf, U256
    <3> QED BY <2>1, <3>1 DEF SignedU256
  <2>2. /\ value \in SignedU256 /\ value.negative => value.magnitude > 0
    BY DEF MathTypeOK
  <2>3. IntegerOf(value) + amount \in Integer!Range => Fits(add_unsigned(value, amount))
    BY <2>2, AddIsPlus DEF Integer!Range, MathTypeOK
  <2>4. IntegerOf(value) - amount \in Integer!Range => Fits(subtract_unsigned(value, amount))
    BY <2>2, SubtractIsMinus DEF Integer!Range, MathTypeOK
  <2> HIDE DEF Fits
  <2> QED BY <2>1, <2>3, <2>4
<1> QED BY <1>1, CorrectionsWellFormed, PTL
=============================================================================
