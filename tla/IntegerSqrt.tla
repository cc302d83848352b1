---------------------------- MODULE IntegerSqrt ----------------------------
(***************************************************************************)
(* reflection_settlement::integer_sqrt, the Newton iteration that fixes    *)
(* the first LP shares, one action per pass of its loop.                   *)
(***************************************************************************)
EXTENDS Integers

CONSTANT MAX_VALUE   \* largest value explored; the parameter is a u128

ASSUME ValueAssumption == MAX_VALUE \in Nat

VARIABLES value, current, next, returned

sqrtVars == <<value, current, next, returned>>

improve(v, c) == (c + v \div c) \div 2

\* A value below 2 is returned as it is.
SqrtInit ==
  /\ value \in 0 .. MAX_VALUE
  /\ current = IF value < 2 THEN value ELSE value \div 2 + 1
  /\ next = IF value < 2 THEN value ELSE improve(value, current)
  /\ returned = (value < 2)

\* Mutant: the loop repeats until it reaches a fixed point.
iterate_until_fixed ==
  /\ ~returned
  /\ next /= current
  /\ current' = next
  /\ next' = improve(value, next)
  /\ UNCHANGED <<value, returned>>

iterate ==
  /\ ~returned
  /\ next < current
  /\ current' = next
  /\ next' = improve(value, next)
  /\ UNCHANGED <<value, returned>>

return ==
  /\ ~returned
  /\ next >= current
  /\ returned' = TRUE
  /\ UNCHANGED <<value, current, next>>

SqrtStep == iterate \/ return

-----------------------------------------------------------------------------
\* integer_sqrt returns, and what it returns is the floor of the square root:
\* the iteration neither oscillates around the root nor stops above it, and no
\* pass divides by zero.
ReturnsRoot ==
  <>[](/\ returned
       /\ current * current <= value
       /\ value < (current + 1) * (current + 1))
=============================================================================
