------------------------------- MODULE JavaInts -------------------------------
(***************************************************************************)
(* The integers of the Java virtual machine: int, and the narrower types   *)
(* it is converted to.  Their widths are constants.                        *)
(***************************************************************************)
EXTENDS Integers, Bytecode

CONSTANTS IntBits, ShortBits, ByteBits  \* of int, of short and char, of byte and boolean

ASSUME BitsAssumption ==
    /\ IntBits \in Nat /\ ShortBits \in 1 .. IntBits - 1 /\ ByteBits \in 1 .. ShortBits

\* What powers of two are, which the provers have no arithmetic for.
ASSUME PowersAssumption ==
    \A b \in 1 .. IntBits : 2 ^ (b - 1) \in Nat \ {0} /\ 2 ^ b = 2 * 2 ^ (b - 1)

Unsigned(n, bits) == n % 2 ^ bits
Signed(n, bits) == LET u == Unsigned(n, bits) IN IF u < 2 ^ (bits - 1) THEN u ELSE u - 2 ^ bits
Wrap(n) == Signed(n, IntBits)
IntRange == -(2 ^ (IntBits - 1)) .. 2 ^ (IntBits - 1) - 1

Abs(n) == IF n < 0 THEN -n ELSE n
Sign(n) == IF n < 0 THEN -1 ELSE 1
Quotient(a, b) == Sign(a) * Sign(b) * (Abs(a) \div Abs(b))

Computed(op, a, b) ==
    CASE op = "iadd" -> Wrap(a + b)
      [] op = "isub" -> Wrap(a - b)
      [] op = "imul" -> Wrap(a * b)
      [] op = "idiv" -> Wrap(Quotient(a, b))
      [] op = "irem" -> a - b * Quotient(a, b)

Converted(op, a) ==
    CASE op = "ineg" -> Wrap(-a)
      [] op = "i2b" -> Signed(a, ByteBits)
      [] op = "i2s" -> Signed(a, ShortBits)
      [] op = "i2c" -> Unsigned(a, ShortBits)

Related(rel, a, b) ==
    CASE rel = "eq" -> a = b     [] rel = "ne" -> a # b
      [] rel = "lt" -> a < b     [] rel = "ge" -> a >= b
      [] rel = "gt" -> a > b     [] rel = "le" -> a <= b

\* What is left of an int in a field or an element of a narrow type.
Narrow(type, n) ==
    CASE type = ByteType -> Signed(n, ByteBits)
      [] type = BooleanType -> n % 2
      [] type = ShortType -> Signed(n, ShortBits)
      [] type = CharType -> Unsigned(n, ShortBits)
      [] OTHER -> n
=============================================================================
