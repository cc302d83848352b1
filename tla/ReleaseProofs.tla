---------------------------- MODULE ReleaseProofs ----------------------------
(***************************************************************************)
(* What a release is launched with.  The faucet's rate, for every cooldown *)
(* and any number of claimants; what integer_sqrt returns, for every       *)
(* value; and a candidate's publication, for any number of assemblers and  *)
(* candidates and any number of failures, crashes and losses of power.     *)
(***************************************************************************)
EXTENDS PoolLaunch, CandidateOutput, SumLemmas

-----------------------------------------------------------------------------
(* The faucet *)

FaucetTypeOK ==
    /\ lifecycle \in {"absent", "configuring", "live", "closed"}
    /\ issued \subseteq FaucetCapabilities \cup PoolCapabilities
    /\ faucet \in BOOLEAN
    /\ now \in Nat
    /\ vault \in Nat
    /\ last \in [Assets -> [Accounts -> SUBSET Nat]]
    /\ first \in [Assets -> [Accounts -> Nat]]
    /\ claims \in [Assets -> [Accounts -> Nat]]

\* The table holds the last claim, and the cooldowns fit between the first
\* claim and that one.
Spaced(l, f, n, w) ==
    \/ l = {} /\ n = 0
    \/ \E t \in Nat : /\ l = {t} /\ n > 0 /\ f <= t /\ t <= w
                      /\ (n - 1) * FIXED_COOLDOWN_SECONDS <= t - f

FaucetInv ==
    /\ FaucetTypeOK
    /\ SealedWithFaucet
    /\ \A x \in Assets, a \in Accounts : Spaced(last[x][a], first[x][a], claims[x][a], now)

-----------------------------------------------------------------------------
\* One entry of a table of tables is replaced.
LEMMA EntrySet ==
    ASSUME NEW S, NEW f \in [Assets -> [Accounts -> S]], NEW x \in Assets,
           NEW a \in Accounts, NEW v \in S, NEW g, g = [f EXCEPT ![x][a] = v]
    PROVE  /\ g \in [Assets -> [Accounts -> S]]
           /\ g[x][a] = v
           /\ \A y \in Assets, b \in Accounts : y # x \/ b # a => g[y][b] = f[y][b]
<1>1. f[x] \in [Accounts -> S]
    OBVIOUS
<1>2. PICK h : h = [f[x] EXCEPT ![a] = v]
    OBVIOUS
<1>3. /\ h \in [Accounts -> S] /\ h[a] = v
      /\ \A b \in Accounts : b # a => h[b] = f[x][b]
    BY <1>1, <1>2
<1>4. g = [f EXCEPT ![x] = h]
    BY <1>2
<1>5. g \in [Assets -> [Accounts -> S]] /\ g[x] = h /\ \A y \in Assets : y # x => g[y] = f[y]
    BY <1>3, <1>4
<1> QED
    BY <1>3, <1>5

\* A claim that was available keeps the spacing: one more cooldown fits.
LEMMA ClaimSpaced ==
    ASSUME FaucetInv, NEW x \in Assets, NEW a \in Accounts,
           assert_available(x, a), record(x, a)
    PROVE  /\ last' \in [Assets -> [Accounts -> SUBSET Nat]]
           /\ first' \in [Assets -> [Accounts -> Nat]]
           /\ claims' \in [Assets -> [Accounts -> Nat]]
           /\ \A y \in Assets, b \in Accounts :
                 Spaced(last[y][b], first[y][b], claims[y][b], now)'
<1>1. /\ last \in [Assets -> [Accounts -> SUBSET Nat]]
      /\ first \in [Assets -> [Accounts -> Nat]]
      /\ claims \in [Assets -> [Accounts -> Nat]]
      /\ now \in Nat /\ now' = now /\ FIXED_COOLDOWN_SECONDS \in Nat
    BY FaucetAssumption DEF FaucetInv, FaucetTypeOK, record
<1>2. PICK f : f = IF claims[x][a] = 0 THEN now ELSE first[x][a]
    OBVIOUS
<1>3. PICK n : n = claims[x][a] + 1
    OBVIOUS
<1>4. f \in Nat /\ n \in Nat /\ {now} \in SUBSET Nat
    BY <1>1, <1>2, <1>3
<1>5. /\ last' \in [Assets -> [Accounts -> SUBSET Nat]]
      /\ last'[x][a] = {now}
      /\ \A y \in Assets, b \in Accounts : y # x \/ b # a => last'[y][b] = last[y][b]
  <2>1. last' = [last EXCEPT ![x][a] = {now}]
    BY DEF record
  <2> QED
    BY <1>1, <1>4, <2>1, EntrySet
<1>6. /\ first' \in [Assets -> [Accounts -> Nat]]
      /\ first'[x][a] = f
      /\ \A y \in Assets, b \in Accounts : y # x \/ b # a => first'[y][b] = first[y][b]
  <2>1. first' = [first EXCEPT ![x][a] = f]
    BY <1>2 DEF record
  <2> QED
    BY <1>1, <1>4, <2>1, EntrySet
<1>7. /\ claims' \in [Assets -> [Accounts -> Nat]]
      /\ claims'[x][a] = n
      /\ \A y \in Assets, b \in Accounts : y # x \/ b # a => claims'[y][b] = claims[y][b]
  <2>1. claims' = [claims EXCEPT ![x][a] = n]
    BY <1>3 DEF record
  <2> QED
    BY <1>1, <1>4, <2>1, EntrySet
<1>8. f <= now /\ (n - 1) * FIXED_COOLDOWN_SECONDS <= now - f
  <2>1. Spaced(last[x][a], first[x][a], claims[x][a], now)
    BY DEF FaucetInv
  <2>2. CASE last[x][a] = {} /\ claims[x][a] = 0
    <3>1. f = now /\ n - 1 = 0
        BY <1>2, <1>3, <2>2
    <3> QED
        BY <1>1, <3>1
  <2>3. ASSUME NEW t \in Nat, last[x][a] = {t}, claims[x][a] > 0, first[x][a] <= t, t <= now,
               (claims[x][a] - 1) * FIXED_COOLDOWN_SECONDS <= t - first[x][a]
        PROVE  f <= now /\ (n - 1) * FIXED_COOLDOWN_SECONDS <= now - f
    <3>1. now - t >= FIXED_COOLDOWN_SECONDS
        BY <2>3 DEF assert_available
    <3>2. \A m, c \in Nat : m > 0 => m * c = (m - 1) * c + c
        OBVIOUS
    <3>3. claims[x][a] \in Nat /\ first[x][a] \in Nat
        BY <1>1
    <3>4. claims[x][a] * FIXED_COOLDOWN_SECONDS =
             (claims[x][a] - 1) * FIXED_COOLDOWN_SECONDS + FIXED_COOLDOWN_SECONDS
        BY <1>1, <2>3, <3>2, <3>3
    <3>5. PICK d \in Int : d = (claims[x][a] - 1) * FIXED_COOLDOWN_SECONDS
        BY <1>1, <2>3, <3>3
    <3>6. claims[x][a] * FIXED_COOLDOWN_SECONDS <= now - first[x][a]
        BY <1>1, <2>3, <3>1, <3>3, <3>4, <3>5
    <3>7. f = first[x][a] /\ n - 1 = claims[x][a]
        BY <1>2, <1>3, <2>3, <3>3
    <3> QED
        BY <1>1, <2>3, <3>3, <3>6, <3>7
  <2> QED
    BY <2>1, <2>2, <2>3 DEF Spaced
<1>9. ASSUME NEW y \in Assets, NEW b \in Accounts
      PROVE  Spaced(last[y][b], first[y][b], claims[y][b], now)'
  <2>1. CASE y = x /\ b = a
    <3>1. n > 0
        BY <1>1, <1>3
    <3>2. Spaced({now}, f, n, now)
        BY <1>1, <1>8, <3>1 DEF Spaced
    <3> QED
        BY <1>1, <1>5, <1>6, <1>7, <2>1, <3>2
  <2>2. CASE y # x \/ b # a
    <3>1. Spaced(last[y][b], first[y][b], claims[y][b], now)
        BY DEF FaucetInv
    <3> QED
        BY <1>1, <1>5, <1>6, <1>7, <2>2, <3>1
  <2> QED
    BY <2>1, <2>2
<1> QED
    BY <1>5, <1>6, <1>7, <1>9

\* A step that leaves the tables alone keeps them, whether or not time passes.
LEMMA TablesKept ==
    ASSUME FaucetInv, UNCHANGED <<last, first, claims>>, now' \in Nat, now <= now'
    PROVE  /\ last' \in [Assets -> [Accounts -> SUBSET Nat]]
           /\ first' \in [Assets -> [Accounts -> Nat]]
           /\ claims' \in [Assets -> [Accounts -> Nat]]
           /\ \A y \in Assets, b \in Accounts :
                 Spaced(last[y][b], first[y][b], claims[y][b], now)'
<1>1. now \in Nat
    BY DEF FaucetInv, FaucetTypeOK
<1>2. ASSUME NEW y \in Assets, NEW b \in Accounts
      PROVE  Spaced(last[y][b], first[y][b], claims[y][b], now)'
  <2>1. Spaced(last[y][b], first[y][b], claims[y][b], now)
    BY DEF FaucetInv
  <2>2. \A t \in Nat : t <= now => t <= now'
    BY <1>1
  <2> QED
    BY <2>1, <2>2 DEF Spaced
<1> QED
    BY <1>2 DEF FaucetInv, FaucetTypeOK

\* Every step of the faucet keeps the invariant.
LEMMA FaucetNextKeeps == FaucetInv /\ [Next]_faucetVars => FaucetInv'
<1> SUFFICES ASSUME FaucetInv, [Next]_faucetVars PROVE FaucetInv'
    OBVIOUS
<1>0. /\ now \in Nat /\ vault \in Nat
      /\ lifecycle \in {"absent", "configuring", "live", "closed"}
      /\ issued \subseteq FaucetCapabilities \cup PoolCapabilities /\ faucet \in BOOLEAN
      /\ lifecycle \in {"live", "closed"} => faucet /\ FaucetCapabilities \subseteq issued
    BY DEF FaucetInv, FaucetTypeOK, SealedWithFaucet
<1>1. ASSUME NEW a \in Accounts, claim_trfl(a) \/ claim_tusd(a) PROVE FaucetInv'
  <2>1. PICK x \in Assets : assert_available(x, a) /\ record(x, a)
    BY <1>1 DEF claim_trfl, claim_tusd, Assets
  <2>2. vault' \in Nat
    BY <1>0, <1>1 DEF claim_trfl, claim_tusd
  <2>3. UNCHANGED <<lifecycle, issued, faucet, now>>
    BY <2>1 DEF record
  <2> QED
    BY <1>0, <2>1, <2>2, <2>3, ClaimSpaced DEF FaucetInv, FaucetTypeOK, SealedWithFaucet
<1>2. ASSUME UNCHANGED <<last, first, claims>>, now' \in Nat, now <= now', vault' = vault,
             lifecycle' \in {"absent", "configuring", "live", "closed"},
             issued' \subseteq FaucetCapabilities \cup PoolCapabilities, faucet' \in BOOLEAN,
             lifecycle' \in {"live", "closed"} => faucet' /\ FaucetCapabilities \subseteq issued'
      PROVE  FaucetInv'
    BY <1>0, <1>2, TablesKept DEF FaucetInv, FaucetTypeOK, SealedWithFaucet
<1>3. CASE initialize_core
    BY <1>0, <1>2, <1>3 DEF initialize_core
<1>4. CASE initialize
    BY <1>0, <1>2, <1>4 DEF initialize, can_initialize
<1>5. CASE launch
    BY <1>0, <1>2, <1>5 DEF launch, hands_over
<1>6. CASE close_pool
    BY <1>0, <1>2, <1>6 DEF close_pool
<1>7. CASE Tick
    BY <1>0, <1>2, <1>7 DEF Tick
<1>8. CASE UNCHANGED faucetVars
    BY <1>0, <1>2, <1>8 DEF faucetVars
<1> QED
    BY <1>1, <1>3, <1>4, <1>5, <1>6, <1>7, <1>8 DEF Next

\* The invariant of the faucet: the spacing of every account's claims of every
\* asset, and that a sealed core has a faucet.
THEOREM FaucetInvariant == Spec => []FaucetInv
<1>1. Init => FaucetInv
  <2> SUFFICES ASSUME Init PROVE FaucetInv
    OBVIOUS
  <2>1. \A x \in Assets, a \in Accounts : last[x][a] = {} /\ claims[x][a] = 0
    BY DEF Init
  <2>2. FaucetTypeOK
    BY FaucetAssumption DEF Init, FaucetTypeOK
  <2>3. SealedWithFaucet
    BY DEF Init, SealedWithFaucet
  <2> QED
    BY <2>1, <2>2, <2>3 DEF FaucetInv, Spaced
<1> QED
    BY <1>1, FaucetNextKeeps, PTL DEF Spec

\* assert_available: an account is never granted more often than once per
\* cooldown, for every cooldown and however long the faucet runs.
THEOREM GrantsRateLimited == Spec => []RateLimited
<1>1. FaucetInv => RateLimited
  <2> SUFFICES ASSUME FaucetInv, NEW x \in Assets, NEW a \in Accounts, claims[x][a] > 0
               PROVE  (claims[x][a] - 1) * FIXED_COOLDOWN_SECONDS <= now - first[x][a]
    BY DEF RateLimited
  <2>1. /\ claims[x][a] \in Nat /\ first[x][a] \in Nat /\ now \in Nat
        /\ FIXED_COOLDOWN_SECONDS \in Nat
    BY FaucetAssumption DEF FaucetInv, FaucetTypeOK
  <2>2. Spaced(last[x][a], first[x][a], claims[x][a], now)
    BY DEF FaucetInv
  <2>3. PICK t \in Nat : t <= now /\ (claims[x][a] - 1) * FIXED_COOLDOWN_SECONDS <= t - first[x][a]
    BY <2>1, <2>2 DEF Spaced
  <2>4. PICK d \in Int : d = (claims[x][a] - 1) * FIXED_COOLDOWN_SECONDS
    BY <2>1
  <2> QED
    BY <2>1, <2>3, <2>4
<1> QED
    BY <1>1, FaucetInvariant, PTL

\* seal_launch: claims always find the faucet they borrow.
THEOREM SealedFaucetExists == Spec => []SealedWithFaucet
<1>1. FaucetInv => SealedWithFaucet
    BY DEF FaucetInv
<1> QED
    BY <1>1, FaucetInvariant, PTL

-----------------------------------------------------------------------------
(* The first LP shares *)

\* The iterate stays above the root, and next is one pass further.
SqrtInv ==
    /\ value \in Nat /\ current \in Nat /\ next \in Nat
    /\ value < (current + 1) * (current + 1)
    /\ returned => current * current <= value
    /\ ~returned => value > 1 /\ current > 0 /\ next > 0 /\ next = improve(value, current)

\* One pass of the iteration from any positive value leads to no less than the
\* root, and goes no lower once the root is reached.
LEMMA ImproveBound ==
    ASSUME NEW v \in Nat, NEW c \in Nat, c > 0
    PROVE  /\ improve(v, c) \in Nat
           /\ v < (improve(v, c) + 1) * (improve(v, c) + 1)
           /\ improve(v, c) >= c => c * c <= v
           /\ v > 1 => improve(v, c) > 0
<1> DEFINE q == v \div c
           n == (c + q) \div 2
<1>1. q \in Nat /\ c * q <= v /\ v < c * (q + 1)
  <2>1. q \in Nat /\ v = c * q + (v % c) /\ (v % c) \in 0 .. c - 1
    BY DivMod, DivNat
  <2>2. c * (q + 1) = c * q + c /\ c * q \in Nat
    BY <2>1
  <2> HIDE DEF q
  <2> QED BY <2>1, <2>2
<1> HIDE DEF q
<1>2. n \in Nat /\ 2 * n <= c + q /\ c + q <= 2 * n + 1
    BY <1>1
<1> HIDE DEF n
<1>3. v < (n + 1) * (n + 1)
  <2> DEFINE m == n + 1
             s == q + 1
             d == c - s
  <2>1. m \in Nat /\ s \in Nat /\ d \in Int /\ c + s <= 2 * m
    BY <1>1, <1>2
  <2>2. v < c * s
    BY <1>1
  <2> HIDE DEF m, s
  <2>3. (c + s) * (c + s) = 4 * (c * s) + d * d /\ d * d >= 0
    <3>1. (c + s) * (c + s) = c * c + 2 * (c * s) + s * s
        BY <2>1
    <3>2. d * d = c * c - 2 * (c * s) + s * s
        BY <2>1
    <3>3. d * d >= 0
        BY <2>1
    <3>4. c * c \in Int /\ c * s \in Int /\ s * s \in Int
        BY <2>1
    <3> HIDE DEF d
    <3> QED BY <3>1, <3>2, <3>3, <3>4
  <2>4. (c + s) * (c + s) <= (2 * m) * (2 * m)
    <3> DEFINE a == c + s
               b == 2 * m
    <3>1. a \in Nat /\ b \in Nat /\ a <= b
        BY <2>1
    <3> HIDE DEF a, b
    <3>2. a * a <= b * a /\ a * b <= b * b /\ b * a = a * b
        BY <3>1, TimesMono
    <3>3. a * a \in Int /\ a * b \in Int /\ b * b \in Int
        BY <3>1
    <3>4. a * a <= b * b
        BY <3>2, <3>3
    <3> QED BY <3>4 DEF a, b
  <2>5. (2 * m) * (2 * m) = 4 * (m * m) /\ m * m \in Int /\ c * s \in Int /\ d * d \in Int
        /\ (c + s) * (c + s) \in Int
    BY <2>1
  <2> HIDE DEF d
  <2>6. v < m * m
    BY <2>2, <2>3, <2>4, <2>5
  <2> QED BY <2>6 DEF m
<1>4. ASSUME n >= c PROVE c * c <= v
  <2>1. c <= q
    BY <1>1, <1>2, <1>4
  <2>2. c * c <= q * c /\ q * c = c * q
    BY <1>1, <2>1, TimesMono
  <2> QED BY <1>1, <2>2
<1>5. ASSUME v > 1 PROVE n > 0
  <2> SUFFICES ASSUME n = 0 PROVE FALSE
    BY <1>2
  <2>1. c = 1 /\ q = 0
    BY <1>1, <1>2
  <2> QED BY <1>1, <1>5, <2>1
<1>6. n = improve(v, c)
    BY DEF improve, n, q
<1> QED
    BY <1>2, <1>3, <1>4, <1>5, <1>6

\* Whatever integer_sqrt returns is the floor of the square root, and no pass
\* of its loop divides by zero, for every value.  (That it returns is liveness,
\* which the launch run checks.)
THEOREM ReturnedIsRoot ==
    LaunchSpec =>
      [](IF returned THEN current * current <= value /\ value < (current + 1) * (current + 1)
         ELSE current > 0 /\ next > 0)
<1>1. SqrtInit => SqrtInv
  <2> SUFFICES ASSUME SqrtInit PROVE SqrtInv
    OBVIOUS
  <2>0. returned <=> value < 2
    BY Zenon DEF SqrtInit
  <2>1. value \in Nat
    BY ValueAssumption DEF SqrtInit
  <2>2. CASE value < 2
    <3>1. current = value /\ next = value /\ returned /\ value \in {0, 1}
      <4>1. current = value /\ next = value
        BY <2>2, Zenon DEF SqrtInit
      <4> QED BY <2>0, <2>1, <2>2, <4>1
    <3>2. value < (value + 1) * (value + 1) /\ value * value <= value
        BY <3>1
    <3> QED
        BY <2>0, <2>1, <3>1, <3>2 DEF SqrtInv
  <2>3. CASE ~(value < 2)
    <3> DEFINE h == value \div 2
    <3>1. current = h + 1 /\ next = improve(value, current) /\ ~returned
      <4>1. current = h + 1 /\ next = improve(value, current)
        BY <2>3, Zenon DEF SqrtInit
      <4> QED BY <2>0, <2>3, <4>1
    <3>2. h \in Nat /\ value <= 2 * h + 1
        BY <2>1
    <3> HIDE DEF h
    <3>3. (current + 1) * (current + 1) = h * h + 4 * h + 4 /\ h * h >= 0
        BY <3>1, <3>2
    <3>4. h * h \in Int /\ value < (current + 1) * (current + 1)
      <4>1. h * h \in Int
        BY <3>2
      <4> QED BY <2>1, <3>2, <3>3, <4>1
    <3>5. current \in Nat /\ current > 0
        BY <3>1, <3>2
    <3>6. next \in Nat /\ next > 0
        BY <2>1, <2>3, <3>1, <3>5, ImproveBound
    <3> QED
        BY <2>0, <2>1, <2>3, <3>1, <3>4, <3>5, <3>6 DEF SqrtInv
  <2> QED
    BY <2>2, <2>3
<1>2. SqrtInv /\ [LaunchNext]_launchVars => SqrtInv'
  <2> SUFFICES ASSUME SqrtInv, [LaunchNext]_launchVars PROVE SqrtInv'
    OBVIOUS
  <2>1. CASE UNCHANGED sqrtVars
    BY <2>1 DEF sqrtVars, SqrtInv
  <2>2. CASE iterate
    <3>1. /\ value \in Nat /\ value > 1 /\ next \in Nat /\ next > 0 /\ current \in Nat
          /\ current > 0 /\ next = improve(value, current)
          /\ value' = value /\ current' = next /\ next' = improve(value, next)
          /\ ~returned'
        BY <2>2 DEF iterate, SqrtInv
    <3>2. value < (next + 1) * (next + 1)
        BY <3>1, ImproveBound
    <3>3. next' \in Nat /\ next' > 0
        BY <3>1, ImproveBound
    <3> QED
        BY <3>1, <3>2, <3>3 DEF SqrtInv
  <2>3. CASE return
    <3>1. /\ value \in Nat /\ current \in Nat /\ current > 0 /\ next = improve(value, current)
          /\ next >= current /\ UNCHANGED <<value, current, next>> /\ returned' = TRUE
        BY <2>3 DEF return, SqrtInv
    <3>2. current * current <= value
        BY <3>1, ImproveBound
    <3> QED
        BY <3>1, <3>2 DEF SqrtInv
  <2> QED
    BY <2>1, <2>2, <2>3 DEF LaunchNext, Loop, Deployment, SqrtStep, launchVars
<1>3. SqrtInv => IF returned
                 THEN current * current <= value /\ value < (current + 1) * (current + 1)
                 ELSE current > 0 /\ next > 0
    BY DEF SqrtInv
<1>4. LaunchSpec => []SqrtInv
    BY <1>1, <1>2, PTL DEF LaunchSpec, LaunchInit
<1> QED
    BY <1>3, <1>4, PTL

-----------------------------------------------------------------------------
(* The publication of a candidate *)

Dir(c, files, kept, valid) == [of |-> c, files |-> files, kept |-> kept, valid |-> valid]

\* A directory that holds both files of a candidate, durably and validated.
WholeOf(c) == Dir(c, Names, Names, TRUE)

Whole(d) == d \in {Nothing, Foreign} \/ \E c \in Candidate : d = WholeOf(c)

Stages == TryBlock \cup FinallyBlock \cup {"idle"}

Calls == [at : Stages, candidate : Candidate, staging : Directory \cup {Nothing},
          published : BOOLEAN, returned : BOOLEAN]

\* How far the staging directory is at each await of the try block.
StagedAt(at, c, d) ==
    /\ at = "simulation" => d = Dir(c, {}, {}, FALSE)
    /\ at = "candidate" => d = Dir(c, {"simulation-response.json"}, {}, FALSE)
    /\ at = "staging" => d = Dir(c, Names, {}, FALSE)
    /\ at = "validate" => d = Dir(c, Names, Names, FALSE)
    /\ at \in {"pre-publish", "rename"} => d = WholeOf(c)

StagedFor(r) == StagedAt(r.at, r.candidate, r.staging)

\* What a call has published, and what it has made durable before it returns.
PublishedBy(r, o, d) ==
    /\ r.at = "post-publish" => r.published
    /\ r.published => o = WholeOf(r.candidate)
    /\ r.returned => r.published /\ d = o

\* The inductive invariant of the publication.
OutputInv ==
    /\ losses \in Nat
    /\ run \in [Assembler -> Calls]
    /\ \A p \in Assembler : StagedFor(run[p]) /\ PublishedBy(run[p], output, durable)
    /\ Whole(output) /\ Whole(durable)
    /\ \A c \in reported : c \in Candidate /\ output = WholeOf(c) /\ durable = output

\* The directories of the model are directories.
LEMMA DirIsDirectory ==
    ASSUME NEW c \in Candidate, NEW f \in SUBSET Names, NEW k \in SUBSET Names,
           NEW v \in BOOLEAN
    PROVE  /\ Dir(c, f, k, v) \in Directory
           /\ Dir(c, f, k, v) # Nothing /\ Dir(c, f, k, v) # Foreign
<1>1. Dir(c, f, k, v) \in Directory
    BY DEF Dir, Directory
<1> QED
    BY <1>1, DirectoryAssumption

\* The awaits of a call.
LEMMA StageNames ==
    /\ "idle" \in Stages /\ "stage" \in Stages /\ "simulation" \in Stages
    /\ "candidate" \in Stages /\ "staging" \in Stages /\ "validate" \in Stages
    /\ "pre-publish" \in Stages /\ "rename" \in Stages /\ "post-publish" \in Stages
    /\ "close" \in Stages /\ "remove" \in Stages /\ "unlink" \in Stages
    /\ "cleanup" \in Stages
BY DEF Stages, TryBlock, FinallyBlock

\* A step that replaces one call, while the output stays.  The parent may be
\* synced, and the call may be reported when it has returned.
LEMMA CallChanges ==
    ASSUME OutputInv, NEW p \in Assembler, NEW r \in Calls,
           run' = [run EXCEPT ![p] = r],
           output' = output, durable' \in {durable, output}, losses' = losses,
           StagedFor(r), PublishedBy(r, output, durable'),
           reported' = reported \/ (reported' = reported \cup {run[p].candidate} /\ run[p].returned)
    PROVE  OutputInv'
<1>1. run' \in [Assembler -> Calls] /\ losses' \in Nat /\ Whole(output') /\ Whole(durable')
    BY DEF OutputInv
<1>2. ASSUME NEW q \in Assembler
      PROVE  StagedFor(run'[q]) /\ PublishedBy(run'[q], output', durable')
  <2>1. CASE q = p
    <3>1. run'[q] = r
        BY <2>1 DEF OutputInv
    <3> QED
        BY <3>1
  <2>2. CASE q # p
    <3>1. run'[q] = run[q]
        BY <2>2 DEF OutputInv
    <3>2. StagedFor(run[q]) /\ PublishedBy(run[q], output, durable)
        BY DEF OutputInv
    <3> QED
        BY <3>1, <3>2 DEF PublishedBy
  <2> QED
    BY <2>1, <2>2
<1>3. ASSUME NEW c \in reported'
      PROVE  c \in Candidate /\ output' = WholeOf(c) /\ durable' = output'
  <2>1. CASE c \in reported
    BY <2>1 DEF OutputInv
  <2>2. CASE c = run[p].candidate /\ run[p].returned
    <3>1. run[p] \in Calls /\ PublishedBy(run[p], output, durable)
        BY DEF OutputInv
    <3> QED
        BY <2>2, <3>1 DEF PublishedBy, Calls
  <2> QED
    BY <2>1, <2>2
<1> QED
    BY <1>1, <1>2, <1>3 DEF OutputInv

\* A step of the try block on the staging directory.
LEMMA StagingChanges ==
    ASSUME OutputInv, NEW p \in Assembler, NEW from, NEW to \in Stages, to # "post-publish",
           NEW d \in Directory \cup {Nothing}, OnStaging(p, from, to, d),
           StagedAt(to, run[p].candidate, d)
    PROVE  OutputInv'
<1> DEFINE r == [run[p] EXCEPT !.at = to, !.staging = d]
<1>1. run[p] \in Calls /\ PublishedBy(run[p], output, durable) /\ run \in [Assembler -> Calls]
    BY DEF OutputInv
<1>2. /\ r \in Calls /\ r.at = to /\ r.published = run[p].published
      /\ r.returned = run[p].returned /\ r.candidate = run[p].candidate /\ r.staging = d
    BY <1>1 DEF Calls
<1>3. run' = [run EXCEPT ![p] = r]
    BY <1>1 DEF OnStaging
<1> HIDE DEF r
<1>4. PublishedBy(r, output, durable) /\ StagedFor(r)
    BY <1>1, <1>2 DEF PublishedBy, StagedFor
<1>5. /\ output' = output /\ durable' = durable /\ losses' = losses /\ reported' = reported
    BY DEF OnStaging
<1> QED
    BY <1>2, <1>3, <1>4, <1>5, CallChanges

\* A call begins.
LEMMA StartKeeps ==
    ASSUME OutputInv, NEW p \in Assembler, NEW c \in Candidate, Start(p, c)
    PROVE  OutputInv'
<1> DEFINE r == Call("stage", c)
<1>1. /\ r \in Calls /\ r.at = "stage" /\ r.published = FALSE /\ r.returned = FALSE
    BY StageNames DEF Call, Calls
<1>2. run' = [run EXCEPT ![p] = r] /\ UNCHANGED <<output, durable, losses, reported>>
    BY DEF Start
<1> HIDE DEF r
<1>3. StagedFor(r) /\ PublishedBy(r, output, durable)
    BY <1>1 DEF StagedFor, StagedAt, PublishedBy
<1> QED
    BY <1>1, <1>2, <1>3, CallChanges

\* The try block, up to the sync before the rename.
LEMMA StagingKeeps ==
    ASSUME OutputInv, NEW p \in Assembler,
           \/ Stage(p) \/ WriteSimulation(p) \/ WriteCandidate(p) \/ SyncStaging(p)
           \/ Validate(p)
    PROVE  OutputInv'
<1> DEFINE c == run[p].candidate
           d == run[p].staging
           sim == {"simulation-response.json"}
<1>1. c \in Candidate /\ d \in Directory \cup {Nothing} /\ StagedAt(run[p].at, c, d)
    BY DEF OutputInv, Calls, StagedFor
<1>2. \A f, k \in SUBSET Names, v \in BOOLEAN : Dir(c, f, k, v) \in Directory
    BY <1>1, DirIsDirectory
<1>3. sim \in SUBSET Names /\ {} \in SUBSET Names /\ Names \in SUBSET Names
      /\ sim \cup {"transaction-candidate.json"} = Names
    BY DEF Names
<1>4. ASSUME NEW from, NEW to \in Stages, to # "post-publish",
             NEW e \in Directory \cup {Nothing}, OnStaging(p, from, to, e), StagedAt(to, c, e)
      PROVE  OutputInv'
    BY <1>4, StagingChanges
<1> HIDE DEF c, d, sim
<1>5. CASE Stage(p)
  <2> DEFINE e == Dir(c, {}, {}, FALSE)
  <2>1. OnStaging(p, "stage", "simulation", e)
    BY <1>5 DEF Stage, Dir, c
  <2>2. e \in Directory
    BY <1>2, <1>3
  <2>3. StagedAt("simulation", c, e)
    BY DEF StagedAt
  <2> HIDE DEF e
  <2> QED
    BY <1>4, <2>1, <2>2, <2>3, StageNames
<1>6. CASE WriteSimulation(p)
  <2> DEFINE e == Dir(c, sim, {}, FALSE)
  <2>1. d = Dir(c, {}, {}, FALSE)
    BY <1>1, <1>6 DEF WriteSimulation, OnStaging, StagedAt, c, d, sim
  <2>2. [d EXCEPT !.files = @ \cup {"simulation-response.json"}] = e
    <3> DEFINE f == d.files \cup {"simulation-response.json"}
    <3>1. f = sim
        BY <1>3, <2>1 DEF Dir, sim
    <3> DEFINE no == FALSE
    <3>2. d = [of |-> c, files |-> {}, kept |-> {}, valid |-> no]
        BY <2>1, Zenon DEF Dir
    <3> HIDE DEF f, no
    <3>3. [d EXCEPT !.files = f] = [of |-> c, files |-> f, kept |-> {}, valid |-> no]
        BY <3>2
    <3> QED
        BY <3>1, <3>3, Zenon DEF f, no, Dir
  <2>3. OnStaging(p, "simulation", "candidate", e)
    BY <1>6, <2>2 DEF WriteSimulation, writePrivateFile, d
  <2>4. e \in Directory
    BY <1>2, <1>3 DEF WholeOf
  <2>5. StagedAt("candidate", c, e)
    BY DEF StagedAt, sim
  <2> HIDE DEF e
  <2> QED
    BY <1>4, <2>3, <2>4, <2>5, StageNames
<1>7. CASE WriteCandidate(p)
  <2> DEFINE e == Dir(c, Names, {}, FALSE)
  <2>1. d = Dir(c, sim, {}, FALSE)
    BY <1>1, <1>7 DEF WriteCandidate, OnStaging, StagedAt, c, d, sim
  <2>2. [d EXCEPT !.files = @ \cup {"transaction-candidate.json"}] = e
    <3> DEFINE f == d.files \cup {"transaction-candidate.json"}
    <3>1. f = Names
        BY <1>3, <2>1 DEF Dir, sim
    <3> DEFINE no == FALSE
    <3>2. d = [of |-> c, files |-> sim, kept |-> {}, valid |-> no]
        BY <2>1, Zenon DEF Dir
    <3> HIDE DEF f, no
    <3>3. [d EXCEPT !.files = f] = [of |-> c, files |-> f, kept |-> {}, valid |-> no]
        BY <3>2
    <3> QED
        BY <3>1, <3>3, Zenon DEF f, no, Dir
  <2>3. OnStaging(p, "candidate", "staging", e)
    BY <1>7, <2>2 DEF WriteCandidate, writePrivateFile, d
  <2>4. e \in Directory
    BY <1>2, <1>3 DEF WholeOf
  <2>5. StagedAt("staging", c, e)
    BY DEF StagedAt, sim
  <2> HIDE DEF e
  <2> QED
    BY <1>4, <2>3, <2>4, <2>5, StageNames
<1>8. CASE SyncStaging(p)
  <2> DEFINE e == Dir(c, Names, Names, FALSE)
  <2>1. d = Dir(c, Names, {}, FALSE)
    BY <1>1, <1>8 DEF SyncStaging, OnStaging, StagedAt, c, d, sim
  <2>2. fsyncDirectory(d) = e
    <3> DEFINE no == FALSE
    <3>1. d = [of |-> c, files |-> Names, kept |-> {}, valid |-> no]
        BY <2>1, Zenon DEF Dir
    <3> HIDE DEF no
    <3>2. [d EXCEPT !.kept = d.files] = [of |-> c, files |-> Names, kept |-> Names, valid |-> no]
        BY <3>1
    <3> QED
        BY <3>2, Zenon DEF fsyncDirectory, Dir, no
  <2>3. OnStaging(p, "staging", "validate", e)
    BY <1>8, <2>2 DEF SyncStaging, d
  <2>4. e \in Directory
    BY <1>2, <1>3 DEF WholeOf
  <2>5. StagedAt("validate", c, e)
    BY DEF StagedAt, sim
  <2> HIDE DEF e
  <2> QED
    BY <1>4, <2>3, <2>4, <2>5, StageNames
<1>9. CASE OnStaging(p, "validate", "pre-publish", [d EXCEPT !.valid = TRUE])
  <2> DEFINE e == WholeOf(c)
  <2>1. d = Dir(c, Names, Names, FALSE)
    BY <1>1, <1>9 DEF OnStaging, StagedAt, c, d, sim
  <2>2. [d EXCEPT !.valid = TRUE] = e
    <3> DEFINE no == FALSE
               yes == TRUE
    <3>1. d = [of |-> c, files |-> Names, kept |-> Names, valid |-> no]
        BY <2>1, Zenon DEF Dir
    <3> HIDE DEF no, yes
    <3>2. [d EXCEPT !.valid = yes] = [of |-> c, files |-> Names, kept |-> Names, valid |-> yes]
        BY <3>1
    <3> QED
        BY <3>2, Zenon DEF WholeOf, Dir, yes
  <2>3. OnStaging(p, "validate", "pre-publish", e)
    BY <1>9, <2>2 DEF d
  <2>4. e \in Directory
    BY <1>2, <1>3 DEF WholeOf
  <2>5. StagedAt("pre-publish", c, e)
    BY DEF StagedAt, sim
  <2> HIDE DEF e
  <2> QED
    BY <1>4, <2>3, <2>4, <2>5, StageNames
<1>10. CASE OnStaging(p, "validate", "close", d)
  <2>1. StagedAt("close", c, d)
    BY DEF StagedAt
  <2> QED
    BY <1>1, <1>4, <1>10, <2>1, StageNames
<1> QED
    BY <1>5, <1>6, <1>7, <1>8, <1>9, <1>10 DEF Validate, d

\* A step that moves a call to another await and otherwise leaves it, outside
\* the states that say something of the staging directory or the output.
LEMMA AtChanges ==
    ASSUME OutputInv, NEW p \in Assembler, NEW to \in Stages,
           to \notin {"simulation", "candidate", "staging", "validate", "pre-publish", "rename",
                      "post-publish"},
           NEW d \in Directory \cup {Nothing},
           run' = [run EXCEPT ![p].at = to, ![p].staging = d],
           output' = output, durable' \in {durable, output}, losses' = losses,
           reported' = reported \/ (reported' = reported \cup {run[p].candidate} /\ run[p].returned)
    PROVE  OutputInv'
<1>1. run[p] \in Calls /\ PublishedBy(run[p], output, durable) /\ run \in [Assembler -> Calls]
    BY DEF OutputInv
<1> DEFINE r == [run[p] EXCEPT !.at = to, !.staging = d]
<1>2. /\ r \in Calls /\ r.at = to /\ r.published = run[p].published
      /\ r.returned = run[p].returned /\ r.candidate = run[p].candidate
    BY <1>1, StageNames DEF Calls
<1>3. run' = [run EXCEPT ![p] = r]
    BY <1>1
<1> HIDE DEF r
<1>4. PublishedBy(r, output, durable')
    BY <1>1, <1>2 DEF PublishedBy
<1>5. StagedFor(r)
    BY <1>2 DEF StagedFor, StagedAt
<1> QED
    BY <1>2, <1>3, <1>4, <1>5, CallChanges

\* The two syncs of the parent directory.
LEMMA SyncKeeps ==
    ASSUME OutputInv, NEW p \in Assembler, SyncBeforePublish(p) \/ SyncPublished(p)
    PROVE  OutputInv'
<1>1. /\ run[p] \in Calls /\ PublishedBy(run[p], output, durable) /\ StagedFor(run[p])
      /\ run \in [Assembler -> Calls]
    BY DEF OutputInv
<1>2. CASE SyncBeforePublish(p)
  <2> DEFINE r == [run[p] EXCEPT !.at = "rename"]
  <2>1. /\ r \in Calls /\ r.at = "rename" /\ r.published = run[p].published
        /\ r.returned = run[p].returned /\ r.candidate = run[p].candidate
        /\ r.staging = run[p].staging
    BY <1>1, StageNames DEF Calls
  <2>2. /\ run' = [run EXCEPT ![p] = r] /\ durable' = output /\ run[p].at = "pre-publish"
        /\ UNCHANGED <<output, reported, losses>>
    BY <1>1, <1>2 DEF SyncBeforePublish
  <2> HIDE DEF r
  <2>3. PublishedBy(r, output, durable')
    BY <1>1, <2>1, <2>2 DEF PublishedBy
  <2>4. StagedFor(r)
    BY <1>1, <2>1, <2>2 DEF StagedFor, StagedAt
  <2> QED
    BY <2>1, <2>2, <2>3, <2>4, CallChanges
<1>3. CASE SyncPublished(p)
  <2> DEFINE r == [run[p] EXCEPT !.at = "close", !.returned = TRUE]
  <2>1. /\ r \in Calls /\ r.at = "close" /\ r.published = run[p].published
        /\ r.returned = TRUE /\ r.candidate = run[p].candidate
    BY <1>1, StageNames DEF Calls
  <2>2. /\ run' = [run EXCEPT ![p] = r] /\ durable' = output /\ run[p].at = "post-publish"
        /\ UNCHANGED <<output, reported, losses>>
    BY <1>1, <1>3 DEF SyncPublished, SyncedParent
  <2> HIDE DEF r
  <2>3. PublishedBy(r, output, durable')
    BY <1>1, <2>1, <2>2 DEF PublishedBy
  <2>4. StagedFor(r)
    BY <2>1 DEF StagedFor, StagedAt
  <2> QED
    BY <2>1, <2>2, <2>3, <2>4, CallChanges
<1> QED
    BY <1>2, <1>3

\* The output's name is taken for the first time: nobody has published before.
LEMMA OutputTaken ==
    ASSUME OutputInv, output = Nothing
    PROVE  /\ reported = {}
           /\ \A q \in Assembler : run[q].published = FALSE /\ run[q].returned = FALSE
<1>1. \A c \in Candidate : WholeOf(c) # Nothing
    BY DirIsDirectory DEF WholeOf
<1>2. reported = {}
    BY <1>1 DEF OutputInv
<1>3. ASSUME NEW q \in Assembler PROVE run[q].published = FALSE /\ run[q].returned = FALSE
  <2>1. run[q] \in Calls /\ PublishedBy(run[q], output, durable)
    BY DEF OutputInv
  <2>2. ~run[q].published
    BY <1>1, <2>1 DEF PublishedBy, Calls
  <2> QED
    BY <2>1, <2>2 DEF PublishedBy, Calls
<1> QED
    BY <1>2, <1>3

\* The rename: the staged directory, which is whole, becomes the output.
LEMMA RenameKeeps ==
    ASSUME OutputInv, NEW p \in Assembler, Rename(p)
    PROVE  OutputInv'
<1>1. /\ run[p] \in Calls /\ PublishedBy(run[p], output, durable) /\ StagedFor(run[p])
      /\ run \in [Assembler -> Calls]
    BY DEF OutputInv
<1>2. CASE ~NoReplace
  <2>1. run' = [run EXCEPT ![p].at = "close", ![p].staging = run[p].staging]
    BY <1>1, <1>2 DEF Rename
  <2>2. run[p].staging \in Directory \cup {Nothing}
    BY <1>1, StageNames DEF Calls
  <2> QED
    BY <1>2, <2>1, <2>2, AtChanges, StageNames DEF Rename
<1>3. CASE NoReplace
  <2> DEFINE c == run[p].candidate
             w == WholeOf(c)
  <2>1. /\ output = Nothing /\ output' = w /\ UNCHANGED <<durable, reported, losses>>
        /\ run[p].at = "rename" /\ c \in Candidate
    BY <1>1, <1>3 DEF Rename, NoReplace, StagedFor, StagedAt, Calls
  <2>2. /\ reported = {}
        /\ \A q \in Assembler : run[q].published = FALSE /\ run[q].returned = FALSE
    BY <2>1, OutputTaken
  <2>3. Whole(output')
    BY <2>1 DEF Whole
  <2>4. PICK r \in Calls : /\ run' = [run EXCEPT ![p] = r]
                           /\ r.at \in {"post-publish", "close"} /\ r.candidate = c
                           /\ r.at = "post-publish" => r.published
                           /\ r.returned = FALSE
    <3>1. CASE run' = [run EXCEPT ![p].at = "post-publish", ![p].staging = Nothing,
                                  ![p].published = TRUE]
      <4> DEFINE r == [run[p] EXCEPT !.at = "post-publish", !.staging = Nothing,
                                     !.published = TRUE]
      <4>1. /\ r \in Calls /\ r.at = "post-publish" /\ r.candidate = c /\ r.published = TRUE
            /\ r.returned = run[p].returned
        BY <1>1, StageNames DEF Calls
      <4>2. run' = [run EXCEPT ![p] = r]
        BY <1>1, <3>1
      <4> HIDE DEF r
      <4> QED
        BY <2>2, <4>1, <4>2
    <3>2. CASE run' = [run EXCEPT ![p].at = "close", ![p].staging = Nothing]
      <4> DEFINE r == [run[p] EXCEPT !.at = "close", !.staging = Nothing]
      <4>1. /\ r \in Calls /\ r.at = "close" /\ r.candidate = c /\ r.returned = run[p].returned
        BY <1>1, StageNames DEF Calls
      <4>2. run' = [run EXCEPT ![p] = r]
        BY <1>1, <3>2
      <4> HIDE DEF r
      <4> QED
        BY <2>2, <4>1, <4>2
    <3> QED
        BY <1>3, <3>1, <3>2 DEF Rename
  <2>5. run' \in [Assembler -> Calls]
    BY <1>1, <2>4
  <2>6. ASSUME NEW q \in Assembler
        PROVE  StagedFor(run'[q]) /\ PublishedBy(run'[q], output', durable')
    <3>1. CASE q = p
      <4>1. run'[q] = r
        BY <1>1, <2>4, <3>1
      <4> QED
        BY <2>1, <2>4, <4>1 DEF StagedFor, StagedAt, PublishedBy
    <3>2. CASE q # p
      <4>1. run'[q] = run[q] /\ StagedFor(run[q]) /\ PublishedBy(run[q], output, durable)
        BY <2>4, <3>2 DEF OutputInv
      <4> QED
        BY <2>2, <4>1 DEF PublishedBy
    <3> QED
        BY <3>1, <3>2
  <2> QED
    BY <2>1, <2>2, <2>3, <2>5, <2>6 DEF OutputInv
<1> QED
    BY <1>2, <1>3

\* The finally block, whether its calls succeed or fail, and a crash.
LEMMA CleanupKeeps ==
    ASSUME OutputInv, NEW p \in Assembler,
           TryFails(p) \/ Finally(p) \/ FinallyFails(p) \/ Crash(p)
    PROVE  OutputInv'
<1>1. /\ run[p] \in Calls /\ run \in [Assembler -> Calls]
      /\ run[p].staging \in Directory \cup {Nothing}
    BY DEF OutputInv, Calls
<1>2. ASSUME run[p].at \in FinallyBlock
      PROVE  After(run[p]) \in {"remove", "unlink", "cleanup", "idle"}
    BY <1>2 DEF After, FinallyBlock
<1>3. ASSUME NEW to \in {"close", "remove", "unlink", "cleanup", "idle"},
             run' = [run EXCEPT ![p].at = to]
      PROVE  run' = [run EXCEPT ![p].at = to, ![p].staging = run[p].staging]
    BY <1>1, <1>3 DEF Calls
<1>4. CASE TryFails(p)
  <2>1. run' = [run EXCEPT ![p].at = "close", ![p].staging = run[p].staging]
    BY <1>3, <1>4 DEF TryFails
  <2> QED
    BY <1>1, <1>4, <2>1, AtChanges, StageNames DEF TryFails
<1>5. CASE Crash(p)
  <2>1. run' = [run EXCEPT ![p].at = "idle", ![p].staging = run[p].staging]
    BY <1>3, <1>5 DEF Crash
  <2> QED
    BY <1>1, <1>5, <2>1, AtChanges, StageNames DEF Crash
<1>6. CASE Finally(p)
  <2> DEFINE to == After(run[p])
             d == RemoveStaging(run[p])
  <2>1. to \in {"remove", "unlink", "cleanup", "idle"}
    BY <1>2, <1>6 DEF Finally
  <2>2. d \in Directory \cup {Nothing}
    BY <1>1 DEF RemoveStaging
  <2>3. /\ run' = [run EXCEPT ![p].at = to, ![p].staging = d]
        /\ output' = output /\ losses' = losses /\ durable' \in {durable, output}
        /\ reported' = reported \/ (reported' = reported \cup {run[p].candidate} /\ run[p].returned)
    BY <1>6 DEF Finally, Settled
  <2> HIDE DEF to, d
  <2> QED
    BY <2>1, <2>2, <2>3, AtChanges, StageNames
<1>7. CASE FinallyFails(p)
  <2> DEFINE to == IF run[p].published THEN After(run[p]) ELSE "idle"
  <2>1. to \in {"remove", "unlink", "cleanup", "idle"}
    BY <1>2, <1>7 DEF FinallyFails
  <2>2. run' = [run EXCEPT ![p].at = to]
    BY <1>7 DEF FinallyFails
  <2>3. /\ output' = output /\ losses' = losses /\ durable' \in {durable, output}
        /\ reported' = reported \/ (reported' = reported \cup {run[p].candidate} /\ run[p].returned)
    BY <1>7 DEF FinallyFails, Settled
  <2> HIDE DEF to
  <2>4. run' = [run EXCEPT ![p].at = to, ![p].staging = run[p].staging]
    BY <1>3, <2>1, <2>2
  <2> QED
    BY <1>1, <2>1, <2>3, <2>4, AtChanges, StageNames
<1> QED
    BY <1>4, <1>5, <1>6, <1>7

\* A whole directory survives a loss of power as it is.
LEMMA WholeRemains ==
    ASSUME NEW d, Whole(d), NEW e \in Remains(d)
    PROVE  e = d
<1>1. CASE d \in {Nothing, Foreign}
    BY <1>1 DEF Remains
<1>2. CASE d \notin {Nothing, Foreign}
  <2>1. PICK c \in Candidate : d = WholeOf(c)
    BY <1>2 DEF Whole
  <2>2. d.files = Names /\ d.kept = Names
    BY <2>1 DEF WholeOf, Dir
  <2>3. PICK f \in SUBSET d.files : d.kept \subseteq f /\ e = [d EXCEPT !.files = f, !.kept = f]
    BY <1>2 DEF Remains
  <2>4. f = Names
    BY <2>2, <2>3
  <2> DEFINE yes == TRUE
  <2>5. d = [of |-> c, files |-> Names, kept |-> Names, valid |-> yes]
    BY <2>1, Zenon DEF WholeOf, Dir
  <2> HIDE DEF yes
  <2>6. e = [d EXCEPT !.files = Names, !.kept = Names]
    BY <2>3, <2>4
  <2>7. e.of = c /\ e.files = Names /\ e.kept = Names /\ e.valid = yes
    BY <2>5, <2>6
  <2>8. e = [of |-> e.of, files |-> e.files, kept |-> e.kept, valid |-> e.valid]
    BY <2>5, <2>6
  <2> QED
    BY <2>5, <2>7, <2>8
<1> QED
    BY <1>1, <1>2

\* A loss of power, another program's directory, and the operator.
LEMMA OthersKeep ==
    ASSUME OutputInv, PowerLoss \/ Race \/ RemoveStaleLock \/ UNCHANGED outputVars
    PROVE  OutputInv'
<1>1. CASE PowerLoss
  <2>1. output' \in {output, durable} /\ durable' = output'
    BY <1>1, WholeRemains DEF PowerLoss, OutputInv
  <2>2. \A q \in Assembler : run'[q] = Call("idle", run[q].candidate)
    BY <1>1 DEF PowerLoss
  <2>3. ASSUME NEW q \in Assembler
        PROVE  /\ run'[q] \in Calls /\ StagedFor(run'[q])
               /\ PublishedBy(run'[q], output', durable')
    <3>1. run[q].candidate \in Candidate
        BY DEF OutputInv, Calls
    <3> DEFINE r == Call("idle", run[q].candidate)
    <3>2. r \in Calls /\ r.at = "idle" /\ r.published = FALSE /\ r.returned = FALSE
        BY <3>1, StageNames DEF Call, Calls
    <3> HIDE DEF r
    <3>3. run'[q] = r
        BY <2>2 DEF r
    <3> QED
        BY <3>2, <3>3 DEF StagedFor, StagedAt, PublishedBy
  <2>4. run' \in [Assembler -> Calls]
    <3>1. run' = [q \in Assembler |-> Call("idle", run[q].candidate)]
        BY <1>1 DEF PowerLoss
    <3> QED
        BY <2>2, <2>3, <3>1
  <2>5. losses' \in Nat /\ reported' = reported
    BY <1>1 DEF PowerLoss, OutputInv
  <2>6. Whole(output') /\ Whole(durable')
    BY <2>1 DEF OutputInv
  <2>7. \A c \in reported' : c \in Candidate /\ output' = WholeOf(c) /\ durable' = output'
    BY <2>1, <2>5 DEF OutputInv
  <2> QED
    BY <2>3, <2>4, <2>5, <2>6, <2>7 DEF OutputInv
<1>2. CASE Race
  <2>1. /\ reported = {}
        /\ \A q \in Assembler : run[q].published = FALSE /\ run[q].returned = FALSE
    BY <1>2, OutputTaken DEF Race
  <2>2. UNCHANGED <<run, durable, reported, losses>> /\ output' = Foreign
    BY <1>2 DEF Race
  <2>3. \A q \in Assembler : StagedFor(run'[q]) /\ PublishedBy(run'[q], output', durable')
    BY <2>1, <2>2 DEF OutputInv, PublishedBy
  <2>4. Whole(output')
    BY <2>2 DEF Whole
  <2> QED
    BY <2>1, <2>2, <2>3, <2>4 DEF OutputInv
<1>3. CASE UNCHANGED <<run, output, durable, reported, losses>>
    BY <1>3 DEF OutputInv
<1> QED
    BY <1>1, <1>2, <1>3 DEF RemoveStaleLock, outputVars

\* The invariant of the publication: how far each staging directory is, that
\* what is published is whole, and that what was reported is durable.
THEOREM OutputInvariant == OutputSpec => []OutputInv
<1>1. OutputInit => OutputInv
  <2> SUFFICES ASSUME OutputInit PROVE OutputInv
    OBVIOUS
  <2>1. ASSUME NEW p \in Assembler
        PROVE  run[p] \in Calls /\ StagedFor(run[p]) /\ PublishedBy(run[p], output, durable)
    <3>1. PICK c \in Candidate : run[p] = Call("idle", c)
        BY DEF OutputInit
    <3> DEFINE r == Call("idle", c)
    <3>2. r \in Calls /\ r.at = "idle" /\ r.published = FALSE /\ r.returned = FALSE
        BY StageNames DEF Call, Calls
    <3> HIDE DEF r
    <3>3. run[p] = r
        BY <3>1 DEF r
    <3> QED
        BY <3>2, <3>3 DEF StagedFor, StagedAt, PublishedBy
  <2>2. run \in [Assembler -> Calls]
    <3>1. DOMAIN run = Assembler /\ run = [p \in Assembler |-> run[p]]
        BY DEF OutputInit
    <3> QED
        BY <2>1, <3>1
  <2> QED
    BY <2>1, <2>2 DEF OutputInit, OutputInv, Whole
<1>2. OutputInv /\ [OutputNext]_outputVars => OutputInv'
    BY StartKeeps, StagingKeeps, SyncKeeps, RenameKeeps, CleanupKeeps, OthersKeep DEF OutputNext
<1> QED
    BY <1>1, <1>2, PTL DEF OutputSpec

\* finalizeCandidateDirectoryAtomically: wherever a failure, a crash or a loss
\* of power strikes, an output directory an assembler made holds both files of
\* one candidate, validated.
THEOREM AlwaysWhole == OutputSpec => []PublishedIsWhole
<1>1. OutputInv => PublishedIsWhole
    BY DEF OutputInv, PublishedIsWhole, Whole, WholeOf, Dir
<1> QED
    BY <1>1, OutputInvariant, PTL

\* A candidate that was reported is published for good, and is the only one.
THEOREM AlwaysDurable == OutputSpec => []ReportedIsDurable
<1>1. ASSUME OutputInv, NEW c \in reported
      PROVE  output \notin {Nothing, Foreign} /\ output.of = c /\ durable = output
  <2>1. c \in Candidate /\ output = WholeOf(c) /\ durable = output
    BY <1>1 DEF OutputInv
  <2>2. WholeOf(c) # Nothing /\ WholeOf(c) # Foreign
    BY <2>1, DirIsDirectory DEF WholeOf
  <2> QED
    BY <2>1, <2>2 DEF WholeOf, Dir
<1>2. OutputInv => ReportedIsDurable
    BY <1>1 DEF ReportedIsDurable
<1> QED
    BY <1>2, OutputInvariant, PTL

\* No assembler replaces what is visible under the output's name and no
\* cleanup removes it; only a loss of power may undo an unsynced rename.
THEOREM OutputNeverReplaced == OutputSpec => NeverReplaced
<1>1. OutputInv /\ [OutputNext]_outputVars
        => [output # Nothing /\ output' # output => losses' # losses]_outputVars
  <2> SUFFICES ASSUME OutputInv, [OutputNext]_outputVars, output # Nothing, output' # output
               PROVE  losses' # losses
    OBVIOUS
  <2>1. CASE PowerLoss
    BY <2>1 DEF PowerLoss, OutputInv
  <2>2. ASSUME NEW p \in Assembler, Rename(p) PROVE FALSE
    BY <2>2 DEF Rename, NoReplace
  <2>3. output' = output \/ PowerLoss \/ \E p \in Assembler : Rename(p)
    BY DEF OutputNext, Start, Stage, WriteSimulation, WriteCandidate, SyncStaging, Validate,
           OnStaging, SyncBeforePublish, SyncPublished, TryFails, Finally, FinallyFails, Crash,
           Race, RemoveStaleLock, outputVars
  <2> QED
    BY <2>1, <2>2, <2>3
<1> QED
    BY <1>1, OutputInvariant, PTL DEF OutputSpec, NeverReplaced
=============================================================================
