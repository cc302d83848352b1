--------------------------- MODULE LiquidityPool ---------------------------
(***************************************************************************)
(* What a two-asset liquidity pool promises to those who provide it, with  *)
(* no word on pricing: the pool opens once and closes once; a trade never  *)
(* lowers the product of the reserves; whoever joins or leaves never       *)
(* lowers what a remaining share stands for, in either asset; and the      *)
(* reserves are gone exactly when the last share is.                       *)
(***************************************************************************)
EXTENDS Integers

VARIABLES
  rfl, usd,    \* the reserves
  shares,      \* LP shares in existence
  lifecycle    \* "unlaunched", "live", "closed"

vars == <<rfl, usd, shares, lifecycle>>

Empty == rfl = 0 /\ usd = 0 /\ shares = 0

Init == Empty /\ lifecycle = "unlaunched"

Positive == rfl > 0 /\ usd > 0 /\ shares > 0

\* The first shares are at most the geometric mean of the reserves.
Open ==
  /\ lifecycle = "unlaunched" /\ lifecycle' = "live"
  /\ Positive'
  /\ shares' * shares' <= rfl' * usd'

Trade ==
  /\ lifecycle = "live" /\ UNCHANGED <<lifecycle, shares>>
  /\ Positive'
  /\ rfl' * usd' >= rfl * usd

\* What a share stands for does not fall: reserve'/shares' >= reserve/shares.
ShareKeepsWorth ==
  rfl' * shares >= rfl * shares' /\ usd' * shares >= usd * shares'

Resize ==
  /\ lifecycle = "live" /\ UNCHANGED lifecycle
  /\ Positive'
  /\ shares' /= shares
  /\ ShareKeepsWorth

Close ==
  /\ lifecycle = "live" /\ lifecycle' = "closed"
  /\ Empty'

Next == Open \/ Trade \/ Resize \/ Close

Spec == Init /\ [][Next]_vars
=============================================================================
