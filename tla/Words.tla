------------------------------- MODULE Words -------------------------------
(***************************************************************************)
(* The uint32_t values of the simulator.  A word is the set of positions   *)
(* of its 1 bits, so the bitwise operators of C are the set operators, and *)
(* the width (32 bits) is exact.  Addition and subtraction are modulo 2^32 *)
(* as in C; the carry is given by the carry-lookahead formula and not by   *)
(* recursion.  The shifts by a constant amount are those of C for amounts  *)
(* 0..31; asr and ror are the functions of util.c.                         *)
(***************************************************************************)
EXTENDS Integers, FiniteSets

Bit  == 0..31
Word == SUBSET Bit

Zero == {}
Ones == Bit                         \* 0xffffffff

(* C's  ~x  and  x ^ y  (x & y and x | y are written \cap and \cup).       *)
Not(x)    == Bit \ x
Xor(x, y) == (x \cup y) \ (x \cap y)

(***************************************************************************)
(* The carry into position i when x, y and the carry cin are added: some   *)
(* lower position generates it (or cin does) and every position between    *)
(* propagates it.  CarryInto(x, y, c, 32) is the carry out of the word.    *)
(***************************************************************************)
CarryInto(x, y, cin, i) ==
    \/ \E j \in x \cap y : j < i /\ \A k \in (j + 1)..(i - 1) : k \in x \cup y
    \/ cin /\ \A k \in 0..(i - 1) : k \in x \cup y

AddWithCarry(x, y, cin) ==
    {i \in Bit : ((i \in x) # (i \in y)) # CarryInto(x, y, cin, i)}

Plus(x, y)  == AddWithCarry(x, y, FALSE)           \* x + y
Minus(x, y) == AddWithCarry(x, Not(y), TRUE)       \* x - y

(* Unsigned comparison: the highest bit where the words differ decides.    *)
Less(x, y) == \E i \in y \ x : \A j \in (i + 1)..31 : (j \in x) = (j \in y)

ShiftLeft(x, n)  == {i \in Bit : i - n \in x}      \* x << n
ShiftRight(x, n) == {i \in Bit : i + n \in x}      \* x >> n

(* The words of small naturals, and back by their hexadecimal digits (for  *)
(* values below 2^31).                                                     *)
ToWord(n) == {i \in 0..30 : (n \div 2^i) % 2 = 1}
Digit(x, l) ==
    (IF l \in x THEN 1 ELSE 0) + (IF l + 1 \in x THEN 2 ELSE 0)
      + (IF l + 2 \in x THEN 4 ELSE 0) + (IF l + 3 \in x THEN 8 ELSE 0)
ToNat(x) ==
    Digit(x, 0) + 16 * Digit(x, 4) + 256 * Digit(x, 8) + 4096 * Digit(x, 12)
      + 65536 * Digit(x, 16) + 1048576 * Digit(x, 20) + 16777216 * Digit(x, 24)
      + 268435456 * Digit(x, 28)

(* A word as two 16-bit halves, for reference arithmetic on the integers.  *)
Lo(x)       == ToNat(x \cap 0..15)
Hi(x)       == ToNat({i \in 0..15 : i + 16 \in x})
SignedHi(x) == IF 31 \in x THEN Hi(x) - 2^16 ELSE Hi(x)

----------------------------------------------------------------------------
(* util.h and util.c *)

(* The field x[h:l], as a natural (the C macro yields it right-aligned).   *)
get_bits(x, h, l) == ToNat({i \in 0..(h - l) : i + l \in x})

(* For a shift of 0 the C code evaluates ~0 << 32, which is undefined;     *)
(* this is the outcome where that is 0.  A caller that may pass 0 adds the *)
(* other one.                                                              *)
asr(value, shift) ==
    ShiftRight(value, shift)
        \cup (IF 31 \in value THEN {i \in Bit : i >= 32 - shift} ELSE {})

(* mutant: the left part computed in 64 bits *)
RorWide(value, rotation) ==
    ShiftRight(value, rotation) \cup {i + 32 - rotation : i \in value}

(* For a rotation of 0 the C code shifts left by 32, which is undefined:   *)
(* the outcomes a build produces (value << 32 is value or 0) both give     *)
(* value, as the formula does.                                             *)
ror(value, rotation) ==
    ShiftRight(value, rotation) \cup ShiftLeft(value, 32 - rotation)
============================================================================
