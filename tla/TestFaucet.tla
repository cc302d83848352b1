------------------------------ MODULE TestFaucet ------------------------------
(***************************************************************************)
(* The faucet's cooldown and the hand-over of its capabilities             *)
(* (test_assets::test_faucet), from the publication of the packages on.    *)
(* Capabilities are issued once, by the token, by mock tUSD, and all of    *)
(* them by pool::launch unless the faucet's own entry came first.          *)
(***************************************************************************)
EXTENDS Integers

CONSTANTS
    Accounts,                \* claimants
    FIXED_COOLDOWN_SECONDS,
    Grants,                  \* how many tRFL grants the distribution vault holds
    MaxNow                   \* bound on the clock

ASSUME FaucetAssumption == FIXED_COOLDOWN_SECONDS \in Nat /\ Grants \in Nat /\ MaxNow \in Nat

Assets == {"trfl", "tusd"}

VARIABLES
    lifecycle,   \* of the core: "absent", "configuring", "live", "closed"
    issued,      \* one-time capabilities handed out so far
    faucet,      \* FaucetState exists
    now,         \* timestamp::now_seconds
    vault,       \* grants left in the distribution vault
    last,        \* last[asset][a]: the last claim in the faucet's tables, or {}
    first,       \* first[asset][a]: the time of the first claim (history)
    claims       \* claims[asset][a]: the number of grants (history)

faucetVars == <<lifecycle, issued, faucet, now, vault, last, first, claims>>

FaucetCapabilities == {"token faucet", "tusd faucet"}
PoolCapabilities == {"settlement", "custody", "tusd pool"}

Init ==
    /\ lifecycle = "absent" /\ issued = {} /\ faucet = FALSE
    /\ now = 0 /\ vault = Grants
    /\ last = [x \in Assets |-> [a \in Accounts |-> {}]]
    /\ first = [x \in Assets |-> [a \in Accounts |-> 0]]
    /\ claims = [x \in Assets |-> [a \in Accounts |-> 0]]

-----------------------------------------------------------------------------
(* Deployment *)

\* reflection_token::initialize
initialize_core ==
    /\ lifecycle = "absent"
    /\ lifecycle' = "configuring"
    /\ UNCHANGED <<issued, faucet, now, vault, last, first, claims>>

\* What test_faucet::initialize asserts, itself and in the two packages.
can_initialize ==
    ~faucet /\ lifecycle = "configuring" /\ FaucetCapabilities \cap issued = {}

\* test_faucet::initialize, called as an entry function
initialize ==
    /\ can_initialize
    /\ issued' = issued \cup FaucetCapabilities
    /\ faucet' = TRUE
    /\ UNCHANGED <<lifecycle, now, vault, last, first, claims>>

\* What pool::launch asserts that another transaction may have changed.
can_launch == can_initialize /\ PoolCapabilities \cap issued = {}

\* Mutant: the seal does not wait for the faucet.
seals_without_faucet == issued' = issued \cup PoolCapabilities /\ UNCHANGED faucet

hands_over == issued' = issued \cup PoolCapabilities \cup FaucetCapabilities /\ faucet' = TRUE

launch ==
    /\ can_launch
    /\ hands_over
    /\ lifecycle' = "live"
    /\ UNCHANGED <<now, vault, last, first, claims>>

\* The last provider leaves.
close_pool ==
    /\ lifecycle = "live"
    /\ lifecycle' = "closed"
    /\ UNCHANGED <<issued, faucet, now, vault, last, first, claims>>

-----------------------------------------------------------------------------
(* Claims *)

\* Mutant: the cooldown counts from the account's first claim.
available_since_first(x, a) ==
    last[x][a] # {} => now - first[x][a] >= FIXED_COOLDOWN_SECONDS

assert_available(x, a) ==
    \A previous \in last[x][a] : now >= previous /\ now - previous >= FIXED_COOLDOWN_SECONDS

\* assert_available stores the time; a grant that aborts takes that back.
record(x, a) ==
    /\ last' = [last EXCEPT ![x][a] = {now}]
    /\ first' = [first EXCEPT ![x][a] = IF claims[x][a] = 0 THEN now ELSE @]
    /\ claims' = [claims EXCEPT ![x][a] = @ + 1]
    /\ UNCHANGED <<lifecycle, issued, faucet, now>>

claim_trfl(a) ==
    /\ lifecycle = "live"
    /\ faucet
    /\ assert_available("trfl", a)
    /\ vault > 0
    /\ vault' = vault - 1
    /\ record("trfl", a)

claim_tusd(a) ==
    /\ lifecycle = "live"
    /\ faucet
    /\ assert_available("tusd", a)
    /\ record("tusd", a)
    /\ UNCHANGED vault

\* Several transactions share a second; seconds may be skipped.
Tick ==
    /\ now < MaxNow
    /\ now' = now + 1
    /\ UNCHANGED <<lifecycle, issued, faucet, vault, last, first, claims>>

Next ==
    \/ initialize_core \/ initialize \/ launch \/ close_pool
    \/ \E a \in Accounts : claim_trfl(a) \/ claim_tusd(a)
    \/ Tick

Spec == Init /\ [][Next]_faucetVars

-----------------------------------------------------------------------------
\* However claims of the two assets and claimants interleave, and however many
\* of them share a second, an account is granted an asset at most once more
\* than the cooldowns that have passed since its first claim
\* (assert_available).
RateLimited ==
    \A x \in Assets, a \in Accounts :
        claims[x][a] > 0 =>
            (claims[x][a] - 1) * FIXED_COOLDOWN_SECONDS <= now - first[x][a]

\* Once the core is sealed the faucet holds both of its capabilities, so a
\* claim finds the FaucetState it borrows right after it has checked the seal
\* (claim_trfl, claim_tusd).
SealedWithFaucet ==
    lifecycle \in {"live", "closed"} => faucet /\ FaucetCapabilities \subseteq issued
=============================================================================
