--------------------------- MODULE SignedInteger ---------------------------
(***************************************************************************)
(* What the signed corrections of reflection-core promise to be: an        *)
(* integer, within the range of their representation, that amounts are     *)
(* added to and subtracted from.                                           *)
(***************************************************************************)
EXTENDS Integers

CONSTANT Largest

VARIABLES
  n,      \* the integer
  call    \* what the last call added; a subtraction adds a negative amount

Range == -Largest .. Largest

Init == n = 0 /\ call = 0

Add(amount) ==
  /\ n + amount \in Range
  /\ n' = n + amount
  /\ call' = amount

Next == \E amount \in Range : Add(amount)

Spec == Init /\ [][Next]_<<n, call>>
=============================================================================
