-------------------------- MODULE IntegerLiterals --------------------------
(***************************************************************************)
(* Visitor::parse_integer_literal: the integer literals of the grammar and *)
(* the 32-bit values the compiler takes them for.                          *)
(*                                                                         *)
(* A literal is known by its sign, radix, u suffix, the number its digits  *)
(* write and how many digits there are.                                    *)
(***************************************************************************)
EXTENDS Integers

CONSTANT UINT32_MAX   \* 2^32 - 1; smaller in an instance for TLC

\* Wide enough for the positions in an array to be signed integers.
ASSUME WordAssumption == UINT32_MAX \in Nat /\ UINT32_MAX >= 511

INT32_MAX == UINT32_MAX \div 2
\* The bits of a number that fits an int or an unsigned int, and the int they are.
Word(n)        == IF n < 0 THEN n + (UINT32_MAX + 1) ELSE n
AsSigned(bits) == IF bits > INT32_MAX THEN bits - (UINT32_MAX + 1) ELSE bits

Integer(neg, radix, number, digits, unsigned) ==
  [neg |-> neg, radix |-> radix, number |-> number, digits |-> digits, unsigned |-> unsigned]

\* The lexer takes three decimal digits on their own for a shader version,
\* and only a decimal literal has a suffix.
IsIntegerToken(tk) ==
  /\ tk.neg \in BOOLEAN /\ tk.radix \in {2, 10, 16}
  /\ tk.number \in Nat /\ tk.digits \in Nat \ {0}
  /\ tk.unsigned => tk.radix = 10
  /\ ~ (tk.digits = 3 /\ tk.radix = 10 /\ ~ tk.neg /\ ~ tk.unsigned)

\* A zero must be spelled "0" (after sign and prefix): no 00, no 0u.
SpeltRight(tk) == tk.number = 0 => tk.digits = 1 /\ ~ tk.unsigned

IntegerLiteralOK(tk) ==
  /\ ~ (tk.neg /\ tk.unsigned)
  /\ tk.number < UINT32_MAX
  /\ SpeltRight(tk)
  /\ tk.neg => tk.number <= INT32_MAX

\* Faulty variant for the mutation runs: big decimal literals stay signed.
IsUnsignedIfMarked(tk) == ~ tk.neg /\ (tk.unsigned \/ tk.radix # 10)

\* isuns: marked as unsigned, not decimal, or too big for an int.
IsUnsigned(tk) == ~ tk.neg /\ (tk.unsigned \/ tk.radix # 10 \/ tk.number > INT32_MAX)

\* The number written, and the bits of literal_value.
Written(tk)     == IF tk.neg THEN - tk.number ELSE tk.number
LiteralBits(tk) == Word(Written(tk))
=============================================================================
