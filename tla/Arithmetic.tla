----------------------------- MODULE Arithmetic -----------------------------
(***************************************************************************)
(* Integers of a machine word, in two's complement, as Java's int and the  *)
(* processor have them: 2^32 of them, here any number.                     *)
(***************************************************************************)
EXTENDS Integers

CONSTANT WordSize

Words == 0..(WordSize - 1)

Word(n)   == n % WordSize
Signed(w) == IF 2 * w >= WordSize THEN w - WordSize ELSE w

Abs(n) == IF n < 0 THEN -n ELSE n
Sign(n) == IF n < 0 THEN -1 ELSE 1

\* Division truncates towards zero.
Quotient(x, y)  == Sign(x) * Sign(y) * (Abs(x) \div Abs(y))
Remainder(x, y) == x - y * Quotient(x, y)

Flag(condition) == IF condition THEN 1 ELSE 0
=============================================================================
