--------------------------- MODULE ReflectionMath ---------------------------
(***************************************************************************)
(* reflection_core::reflection_math: a signed correction as a sign and an  *)
(* unsigned magnitude.  Move has no signed integers and aborts where       *)
(* unsigned arithmetic leaves its width; an operation that would abort is  *)
(* an action that is not enabled.                                          *)
(***************************************************************************)
EXTENDS Integers

CONSTANT MAX_U256   \* largest unsigned value; 2^256 - 1 in the code

ASSUME WidthAssumption == MAX_U256 \in Nat

U256 == 0 .. MAX_U256
SignedU256 == [negative : BOOLEAN, magnitude : U256]

VARIABLES
  value,  \* one SignedU256: the correction of a position
  call    \* the amount of the last call, negative when it was subtracted

mathVars == <<value, call>>

zero == [negative |-> FALSE, magnitude |-> 0]

-----------------------------------------------------------------------------
add_unsigned(v, amount) ==
  IF v.negative /\ v.magnitude > amount
  THEN [v EXCEPT !.magnitude = @ - amount]
  ELSE IF v.negative /\ amount > 0
  THEN [negative |-> FALSE, magnitude |-> amount - v.magnitude]
  ELSE [v EXCEPT !.magnitude = @ + amount]

\* Mutant: the sign does not change when the subtraction crosses zero.
subtract_unsigned_unsigned(v, amount) ==
  IF v.negative
  THEN [v EXCEPT !.magnitude = @ + amount]
  ELSE IF v.magnitude < amount
  THEN [v EXCEPT !.magnitude = amount - @]
  ELSE [v EXCEPT !.magnitude = @ - amount]

\* Mutant: a negative value is extended although the result is nearer zero.
subtract_unsigned_saturated(v, amount) ==
  IF v.magnitude < amount
  THEN [negative |-> TRUE, magnitude |-> amount + v.magnitude]
  ELSE [v EXCEPT !.magnitude = @ - amount]

\* The last branch is also reached with equal magnitudes, where the sign of
\* a non-negative value already is that of zero.
subtract_unsigned(v, amount) ==
  IF v.negative
  THEN [v EXCEPT !.magnitude = @ + amount]
  ELSE IF v.magnitude < amount
  THEN [negative |-> TRUE, magnitude |-> amount - v.magnitude]
  ELSE [v EXCEPT !.magnitude = @ - amount]

\* The correction applied to a magnified balance, and when that succeeds.
apply(base, correction) ==
  IF correction.negative THEN base - correction.magnitude
                         ELSE base + correction.magnitude
apply_succeeds(base, correction) ==
  IF correction.negative THEN base >= correction.magnitude
                         ELSE base + correction.magnitude <= MAX_U256

-----------------------------------------------------------------------------
MathInit == value = zero /\ call = 0

Add(amount) ==
  /\ add_unsigned(value, amount).magnitude <= MAX_U256
  /\ value' = add_unsigned(value, amount)
  /\ call' = amount

Subtract(amount) ==
  /\ subtract_unsigned(value, amount).magnitude <= MAX_U256
  /\ value' = subtract_unsigned(value, amount)
  /\ call' = -amount

MathNext == \E amount \in U256 : Add(amount) \/ Subtract(amount)

MathSpec == MathInit /\ [][MathNext]_mathVars

-----------------------------------------------------------------------------
(* Properties *)

\* The magnitude stays in its width (an unsigned subtraction never borrows),
\* and zero has one representation, as the comment on SignedU256 requires: a
\* correction that returns to zero loses its sign.
MathTypeOK == value \in SignedU256 /\ (value.negative => value.magnitude > 0)

\* The integer a value stands for.
IntegerOf(v) == IF v.negative THEN -v.magnitude ELSE v.magnitude

\* apply succeeds exactly when the true sum is representable, and returns it.
ApplyExact ==
  \A base \in U256 :
    /\ apply_succeeds(base, value) <=> base + IntegerOf(value) \in U256
    /\ apply_succeeds(base, value) => apply(base, value) = base + IntegerOf(value)

Integer == INSTANCE SignedInteger WITH n <- IntegerOf(value), Largest <- MAX_U256

\* The sign-and-magnitude code computes integer addition and subtraction: a
\* call moves the integer by exactly the amount it was given, across zero too.
ImplementsInteger == Integer!Spec

\* Values stay well formed, with one zero, and an operation (add_unsigned,
\* subtract_unsigned) aborts only when the true result is out of range.
AbortsOnlyOutOfRange ==
  /\ MathTypeOK
  /\ \A amount \in U256 :
       /\ IntegerOf(value) + amount \in Integer!Range =>
            add_unsigned(value, amount) \in SignedU256
       /\ IntegerOf(value) - amount \in Integer!Range =>
            subtract_unsigned(value, amount) \in SignedU256
=============================================================================
