------------------------------ MODULE LpEpoch ------------------------------
(***************************************************************************)
(* The accounting of test_amm::lp_rewards as operators on one record: the  *)
(* LpEpoch of epoch 1, the only one the immutable release ever opens.      *)
(* positions is split into shares, correction and claimed; an owner        *)
(* without an entry reads as the zero position that ensure_position adds.  *)
(* The tokens are in a store of reflection-core, so what reads the vault's *)
(* balance takes it as the parameter vault.                                *)
(*                                                                         *)
(* Subtractions are those of the integers, as in ReflectionLedger.         *)
(***************************************************************************)
EXTENDS Integers, FiniteSets, Functions

CONSTANTS
  Owners,      \* accounts that may own LP shares
  MAGNITUDE    \* reflection_math::magnitude

ASSUME OwnersAssumption == IsFiniteSet(Owners)
ASSUME ScaleAssumption == MAGNITUDE \in Nat \ {0}

STATUS_ACTIVE == 1
STATUS_CLAIM_ONLY == 2

Epoch ==
  [ status : {STATUS_ACTIVE, STATUS_CLAIM_ONLY},
    index : Nat,
    index_remainder : Nat,
    total_shares : Nat,
    aggregate_correction : Int,
    unallocated_rewards : Nat,
    rounding_reserve : Nat,
    terminal_rounding_reserve : Nat,
    retired_residue_magnified : Nat,
    lifetime_received : Nat,
    lifetime_claimed : Nat,
    quarantined : BOOLEAN,
    shares : [Owners -> Nat],          \* LpEpoch.positions
    correction : [Owners -> Int],
    claimed : [Owners -> Nat] ]

new_epoch ==
  [ status |-> STATUS_ACTIVE, index |-> 0, index_remainder |-> 0,
    total_shares |-> 0, aggregate_correction |-> 0, unallocated_rewards |-> 0,
    rounding_reserve |-> 0, terminal_rounding_reserve |-> 0,
    retired_residue_magnified |-> 0, lifetime_received |-> 0,
    lifetime_claimed |-> 0, quarantined |-> FALSE,
    shares |-> [o \in Owners |-> 0], correction |-> [o \in Owners |-> 0],
    claimed |-> [o \in Owners |-> 0] ]

-----------------------------------------------------------------------------
(* Entitlements *)

magnified(e, o) == e.shares[o] * e.index + e.correction[o]

pending_for(e, o) == (magnified(e, o) \div MAGNITUDE) - e.claimed[o]

aggregate_liability(e) ==
  ((e.total_shares * e.index + e.aggregate_correction) \div MAGNITUDE)
    - e.lifetime_claimed

assert_active_mutation(e) == e.status = STATUS_ACTIVE /\ ~e.quarantined

assert_active_epoch_healthy(e) ==
  e.status = STATUS_ACTIVE /\ e.total_shares > 0 /\ ~e.quarantined

recompute_rounding(e, vault) ==
  [e EXCEPT !.rounding_reserve =
     vault - (aggregate_liability(e) + e.unallocated_rewards)]

-----------------------------------------------------------------------------
(* Rewards *)

\* The amount is in the vault already.  Without shares it is set aside and
\* the epoch is quarantined.
receive_routed_reward(e, amount, vault) ==
  LET booked == [e EXCEPT !.lifetime_received = @ + amount]
      numerator == amount * MAGNITUDE + e.index_remainder
      next == IF e.total_shares = 0
              THEN [booked EXCEPT !.unallocated_rewards = @ + amount,
                                  !.quarantined = TRUE]
              ELSE [booked EXCEPT !.index = @ + numerator \div e.total_shares,
                                  !.index_remainder = numerator % e.total_shares]
  IN  recompute_rounding(next, vault)

\* The claim itself; its caller pays amount out of the vault.  A quarantined
\* epoch still pays what was indexed before.
claim_succeeds(e, o, amount) ==
  /\ e.status = STATUS_ACTIVE /\ ~e.quarantined => assert_active_epoch_healthy(e)
  /\ amount > 0 /\ amount <= pending_for(e, o)

prepare_claim(e, o, amount) ==
  [e EXCEPT !.claimed[o] = @ + amount, !.lifetime_claimed = @ + amount]

-----------------------------------------------------------------------------
(* Shares *)

mint_succeeds(e) ==
  /\ assert_active_mutation(e)
  /\ e.total_shares > 0 => assert_active_epoch_healthy(e)

mint_active(e, o, amount) ==
  [e EXCEPT !.shares[o] = @ + amount,
            !.correction[o] = @ - amount * e.index,
            !.aggregate_correction = @ - amount * e.index,
            !.total_shares = @ + amount]

\* The fraction of a unit a position without shares is left with.
residue(e, o) == e.correction[o] - e.claimed[o] * MAGNITUDE

\* Mutant: the residue has to be a proper fraction.
normalize_succeeds_strict(e, o) ==
  /\ pending_for(e, o) = 0
  /\ e.correction[o] >= 0
  /\ residue(e, o) \in 1 .. MAGNITUDE - 1

normalize_succeeds(e, o) ==
  /\ pending_for(e, o) = 0
  /\ e.correction[o] >= 0
  /\ residue(e, o) \in 0 .. MAGNITUDE - 1

\* Mutant: the rounding reserve does not receive the unit that retired
\* fractions may add up to.
normalize_stale_rounding(e, o, vault) ==
  [e EXCEPT !.correction[o] = @ - residue(e, o),
            !.aggregate_correction = @ - residue(e, o),
            !.retired_residue_magnified = @ + residue(e, o)]

\* An owner who leaves gives up that fraction; whole units that retired
\* fractions add up to become rounding reserve.
normalize_zero_position(e, o, vault) ==
  LET left == residue(e, o)
  IN  IF left = 0 THEN e
      ELSE recompute_rounding(
             [e EXCEPT !.correction[o] = @ - left,
                       !.aggregate_correction = @ - left,
                       !.retired_residue_magnified = @ + left], vault)

\* The position of a burn or of the sender of a transfer, before it is
\* normalized.
reduced(e, o, amount) ==
  [e EXCEPT !.shares[o] = @ - amount, !.correction[o] = @ + amount * e.index]

\* A position that is left without shares is normalized.
exit_succeeds(e, o) == e.shares[o] = 0 => normalize_succeeds(e, o)
settle_exit(e, o, vault) ==
  IF e.shares[o] = 0 THEN normalize_zero_position(e, o, vault) ELSE e

burned(e, o, amount) ==
  [reduced(e, o, amount) EXCEPT !.aggregate_correction = @ + amount * e.index,
                                !.total_shares = @ - amount]

burn_succeeds(e, o, amount) ==
  /\ assert_active_epoch_healthy(e)
  /\ e.shares[o] >= amount
  /\ exit_succeeds(burned(e, o, amount), o)

burn_active(e, o, amount, vault) == settle_exit(burned(e, o, amount), o, vault)

\* Mutant: the recipient's new shares share in past rewards.
transferred_with_history(e, from, to, amount) ==
  [reduced(e, from, amount) EXCEPT !.shares[to] = @ + amount]

transferred(e, from, to, amount) ==
  [reduced(e, from, amount) EXCEPT !.shares[to] = @ + amount,
                                   !.correction[to] = @ - amount * e.index]

transfer_succeeds(e, from, to, amount) ==
  /\ assert_active_epoch_healthy(e)
  /\ e.shares[from] >= amount
  /\ exit_succeeds(transferred(e, from, to, amount), from)

transfer_active(e, from, to, amount, vault) ==
  settle_exit(transferred(e, from, to, amount), from, vault)

-----------------------------------------------------------------------------
(* The end of the epoch *)

claim_only_succeeds(e, vault) ==
  LET last == recompute_rounding(e, vault)
  IN  /\ e.status = STATUS_ACTIVE /\ e.total_shares = 0
      /\ ~e.quarantined
      /\ aggregate_liability(last) = 0
      /\ last.unallocated_rewards = 0
      /\ vault = last.rounding_reserve
      /\ vault = last.lifetime_received - last.lifetime_claimed

mark_active_claim_only(e, vault) ==
  LET last == recompute_rounding(e, vault)
  IN  [last EXCEPT !.terminal_rounding_reserve = last.rounding_reserve,
                   !.status = STATUS_CLAIM_ONLY]

-----------------------------------------------------------------------------
(* What the accounting keeps true between two operations *)

total(f) == SumFunctionOnSet(f, Owners)

\* assert_epoch_backing.
epoch_backing(e, vault) ==
  /\ vault = aggregate_liability(e) + e.unallocated_rewards + e.rounding_reserve
  /\ vault = e.lifetime_received - e.lifetime_claimed
  /\ e.status = STATUS_CLAIM_ONLY =>
       /\ aggregate_liability(e) = 0
       /\ e.unallocated_rewards = 0
       /\ e.terminal_rounding_reserve = e.rounding_reserve
       /\ vault = e.terminal_rounding_reserve

\* The aggregates are the sums of the positions.
positions_match(e) ==
  /\ e.total_shares = total(e.shares)
  /\ e.aggregate_correction = total(e.correction)
  /\ e.lifetime_claimed = total(e.claimed)

\* Accrued entitlements, the carried remainder and the retired fractions are
\* the indexed receipts, scaled: nothing is lost and nothing is created.
receipts_conserved(e) ==
  e.total_shares * e.index + e.aggregate_correction + e.index_remainder
      + e.retired_residue_magnified
    = MAGNITUDE * (e.lifetime_received - e.unallocated_rewards)

\* No position was paid more than it accrued.
never_overpaid(e) ==
  \A o \in Owners : magnified(e, o) >= MAGNITUDE * e.claimed[o]

\* A position without shares was normalized: it is owed nothing.
exits_settled(e) ==
  \A o \in Owners : e.shares[o] = 0 => e.correction[o] = MAGNITUDE * e.claimed[o]

\* Rewards are set aside only by quarantining the epoch, and an epoch that is
\* quarantined or claim-only has no shares left, nor ever again.
ended_without_shares(e) ==
  /\ e.unallocated_rewards > 0 => e.quarantined
  /\ e.quarantined \/ e.status = STATUS_CLAIM_ONLY => e.total_shares = 0
=============================================================================
