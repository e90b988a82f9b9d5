----------------------- MODULE ArmDataProcessingProofs -----------------------
(***************************************************************************)
(* Lemmas about the words, the registers that an instruction accesses and  *)
(* the data-processing instructions: what their operators yield for every  *)
(* register group and every instruction word.                              *)
(***************************************************************************)
EXTENDS ArmDataProcessing, RegistersProofs, WellFoundedInduction

(* Induction over the numbers, for the functions that are defined by       *)
(* recursion: a set of numbers has a least one.                            *)
LEMMA Least ==
    ASSUME NEW T, T \subseteq Nat, T # {}
    PROVE  \E x \in T : \A y \in T : ~(y < x)
<1>1. PICK R : IsWellFoundedOn(R, Nat) /\ \A m, n \in Nat : m < n => <<m, n>> \in R
  <2>1. IsWellFoundedOn({ss \in Nat \X Nat : ss[1] < ss[2]}, Nat)
    BY NatLessThanWellFounded DEF OpToRel
  <2>2. \A m, n \in Nat : m < n => <<m, n>> \in {ss \in Nat \X Nat : ss[1] < ss[2]}
    OBVIOUS
  <2> QED
    BY <2>1, <2>2, Zenon
<1>2. PICK x \in T : \A y \in T : ~(<<y, x>> \in R)
  <2>1. IsWellFoundedOn(R, Nat)
    BY <1>1
  <2> QED
    BY <2>1, WFMin
<1> QED
  BY <1>1, <1>2

(* What holds of a number whenever it holds of those below it holds of all *)
(* numbers up to n.                                                        *)
LEMMA Inductive ==
    ASSUME NEW n \in Nat, NEW T,
           \A k \in 0..n : (\A j \in 0..(k - 1) : j \in T) => k \in T
    PROVE  \A k \in 0..n : k \in T
<1> DEFINE S == {k \in 0..n : k \notin T}
<1>1. S \subseteq Nat
  OBVIOUS
<1>2. CASE S # {}
  <2>1. PICK x \in S : \A y \in S : ~(y < x)
    BY <1>1, <1>2, Least
  <2>2. \A j \in 0..(x - 1) : j \in 0..n /\ j < x
    BY <2>1
  <2> QED
    BY <2>1, <2>2
<1> QED
  BY <1>2

(* A field of at most eight bits is below the power of two of its width.   *)
LEMMA SmallNumbers ==
    ASSUME NEW x
    PROVE  /\ x \subseteq 0..1 => ToNat(x) \in 0..3
           /\ x \subseteq 0..2 => ToNat(x) \in 0..7
           /\ x \subseteq 0..3 => ToNat(x) \in 0..15
           /\ x \subseteq 0..4 => ToNat(x) \in 0..31
           /\ x \subseteq 0..7 => ToNat(x) \in 0..255
<1>1. \A l \in Nat : Digit(x, l) \in 0..15
  BY DEF Digit
<1>2. x \subseteq 0..7 => \A l \in 8..28 : Digit(x, l) = 0
  BY DEF Digit
<1>3. x \subseteq 0..3 => Digit(x, 4) = 0
  BY DEF Digit
<1>4. x \subseteq 0..4 => Digit(x, 4) \in 0..1
  BY DEF Digit
<1>5. /\ x \subseteq 0..1 => Digit(x, 0) \in 0..3
      /\ x \subseteq 0..2 => Digit(x, 0) \in 0..7
  BY DEF Digit
<1>6. x \subseteq 0..7 => ToNat(x) = Digit(x, 0) + 16 * Digit(x, 4)
  <2> SUFFICES ASSUME x \subseteq 0..7 PROVE ToNat(x) = Digit(x, 0) + 16 * Digit(x, 4)
    OBVIOUS
  <2>1. /\ Digit(x, 8) = 0 /\ Digit(x, 12) = 0 /\ Digit(x, 16) = 0
        /\ Digit(x, 20) = 0 /\ Digit(x, 24) = 0 /\ Digit(x, 28) = 0
    BY <1>2
  <2>2. Digit(x, 0) \in Nat /\ Digit(x, 4) \in Nat
    BY <1>1
  <2> QED
    BY <2>1, <2>2 DEF ToNat
<1>7. Digit(x, 0) \in 0..15 /\ Digit(x, 4) \in 0..15
  BY <1>1
<1>8. /\ x \subseteq 0..4 => x \subseteq 0..7 
      /\ x \subseteq 0..3 => x \subseteq 0..7 
      /\ x \subseteq 0..2 => x \subseteq 0..3
      /\ x \subseteq 0..1 => x \subseteq 0..3
  OBVIOUS
<1> QED
  BY <1>3, <1>4, <1>5, <1>6, <1>7, <1>8

(* The same for a field, wherever it starts.                               *)
LEMMA FieldsAreSmall ==
    ASSUME NEW x, NEW l \in Nat
    PROVE  /\ get_bits(x, l + 1, l) \in 0..3
           /\ get_bits(x, l + 2, l) \in 0..7
           /\ get_bits(x, l + 3, l) \in 0..15
           /\ get_bits(x, l + 4, l) \in 0..31
           /\ get_bits(x, l + 7, l) \in 0..255
<1> DEFINE F(k) == {i \in 0..((l + k) - l) : i + l \in x}
<1>1. \A k \in Nat : (l + k) - l = k
  OBVIOUS
<1>2. /\ F(1) \subseteq 0..1 /\ F(2) \subseteq 0..2 /\ F(3) \subseteq 0..3
      /\ F(4) \subseteq 0..4 /\ F(7) \subseteq 0..7
  BY <1>1
<1>3. \A k : get_bits(x, l + k, l) = ToNat(F(k))
  BY DEF get_bits
<1> HIDE DEF F
<1> QED
  BY <1>2, <1>3, SmallNumbers

(* The fields of an instruction that number registers, and the operation.  *)
LEMMA RegisterFields ==
    ASSUME NEW x
    PROVE  /\ get_bits(x, 3, 0) \in 0..15 /\ get_bits(x, 11, 8) \in 0..15
           /\ get_bits(x, 15, 12) \in 0..15 /\ get_bits(x, 19, 16) \in 0..15
           /\ get_bits(x, 24, 21) \in 0..15 /\ get_bits(x, 31, 28) \in 0..15
           /\ get_bits(x, 6, 5) \in 0..3 /\ get_bits(x, 11, 7) \in 0..31
           /\ get_bits(x, 7, 0) \in 0..255
<1>1. get_bits(x, 3, 0) \in 0..15 /\ get_bits(x, 11, 8) \in 0..15
  <2>1. 3 = 0 + 3 /\ 11 = 8 + 3
    OBVIOUS
  <2> QED
    BY <2>1, FieldsAreSmall
<1>2. get_bits(x, 15, 12) \in 0..15 /\ get_bits(x, 19, 16) \in 0..15
  <2>1. 15 = 12 + 3 /\ 19 = 16 + 3
    OBVIOUS
  <2> QED
    BY <2>1, FieldsAreSmall
<1>3. get_bits(x, 24, 21) \in 0..15 /\ get_bits(x, 31, 28) \in 0..15
  <2>1. 24 = 21 + 3 /\ 31 = 28 + 3
    OBVIOUS
  <2> QED
    BY <2>1, FieldsAreSmall
<1>4. get_bits(x, 6, 5) \in 0..3 /\ get_bits(x, 11, 7) \in 0..31
  <2>1. 6 = 5 + 1 /\ 11 = 7 + 4
    OBVIOUS
  <2> QED
    BY <2>1, FieldsAreSmall
<1>5. get_bits(x, 7, 0) \in 0..255
  <2>1. 7 = 0 + 7
    OBVIOUS
  <2> QED
    BY <2>1, FieldsAreSmall
<1> QED
  BY <1>1, <1>2, <1>3, <1>4, <1>5

(* A field of two, three or four bits, by its bits.                        *)
LEMMA FieldBits ==
    ASSUME NEW x, NEW l \in Nat
    PROVE  /\ get_bits(x, l + 3, l) = Digit(x, l)
           /\ get_bits(x, l + 2, l) = (IF l \in x THEN 1 ELSE 0) + (IF l + 1 \in x THEN 2 ELSE 0)
                                        + (IF l + 2 \in x THEN 4 ELSE 0)
           /\ get_bits(x, l + 1, l) = (IF l \in x THEN 1 ELSE 0) + (IF l + 1 \in x THEN 2 ELSE 0)
<1>1. ASSUME NEW y, y \subseteq 0..3 PROVE ToNat(y) = Digit(y, 0)
  <2>1. /\ Digit(y, 4) = 0 /\ Digit(y, 8) = 0 /\ Digit(y, 12) = 0 /\ Digit(y, 16) = 0
        /\ Digit(y, 20) = 0 /\ Digit(y, 24) = 0 /\ Digit(y, 28) = 0
    BY <1>1 DEF Digit
  <2>2. Digit(y, 0) \in Nat
    BY DEF Digit
  <2> QED
    BY <2>1, <2>2 DEF ToNat
<1>2. ASSUME NEW k \in 1..3 
      PROVE  get_bits(x, l + k, l) = Digit({i \in 0..k : i + l \in x}, 0)
  <2>1. (l + k) - l = k
    OBVIOUS
  <2>2. {i \in 0..k : i + l \in x} \subseteq 0..3
    OBVIOUS
  <2> QED
    BY <1>1, <2>1, <2>2 DEF get_bits
<1>3. Digit({i \in 0..3 : i + l \in x}, 0) = Digit(x, l)
  BY DEF Digit
<1>4. Digit({i \in 0..2 : i + l \in x}, 0)
        = (IF l \in x THEN 1 ELSE 0) + (IF l + 1 \in x THEN 2 ELSE 0) + (IF l + 2 \in x THEN 4 ELSE 0)
  BY DEF Digit
<1>5. Digit({i \in 0..1 : i + l \in x}, 0)
        = (IF l \in x THEN 1 ELSE 0) + (IF l + 1 \in x THEN 2 ELSE 0)
  BY DEF Digit
<1> QED
  BY <1>2, <1>3, <1>4, <1>5

----------------------------------------------------------------------------
(* The addition, the subtraction and the comparison of words are those of  *)
(* the numbers, modulo 2^32.  A word is taken as its two halves, which the *)
(* reference arithmetic uses.                                              *)

(* The powers of two that the reference arithmetic uses.                   *)
LEMMA Powers == 2^16 = 65536 /\ 2^15 = 32768
OBVIOUS

(* The quotient and the remainder of a number that is one 2^16 away from   *)
(* its range at most.                                                      *)
LEMMA DivMod ==
    ASSUME NEW q \in {-1, 0, 1}, NEW r \in Nat, r < 65536, NEW n, n = q * 65536 + r
    PROVE  n \div 65536 = q /\ n % 65536 = r
<1>1. CASE q = 0
  <2>1. n = r /\ 0 <= n /\ n < 65536 /\ n \in Int
    BY <1>1
  <2>2. n \div 65536 = 0 /\ n % 65536 = n
    BY <2>1
  <2> QED
    BY <1>1, <2>1, <2>2
<1>2. CASE q = 1
  BY <1>2
<1>3. CASE q = -1
  BY <1>3
<1> QED
  BY <1>1, <1>2, <1>3

(* The carry ripples: into the position i + 1 it is the majority of the    *)
(* bits at i and of the carry into i.                                      *)
LEMMA Ripple ==
    ASSUME NEW x \in Word, NEW y \in Word, NEW c \in BOOLEAN, NEW i \in Nat
    PROVE  /\ CarryInto(x, y, c, 0) <=> c
           /\ CarryInto(x, y, c, i + 1) <=>
                 \/ i \in x /\ i \in y
                 \/ (i \in x \/ i \in y) /\ CarryInto(x, y, c, i)
<1>0. x \subseteq Nat /\ y \subseteq Nat
  BY DEF Word, Bit
<1>1. CarryInto(x, y, c, 0) <=> c
  BY <1>0 DEF CarryInto
<1>2. ASSUME CarryInto(x, y, c, i + 1)
      PROVE  (i \in x /\ i \in y) \/ ((i \in x \/ i \in y) /\ CarryInto(x, y, c, i))
  <2>1. CASE \E j \in x \cap y : j < i + 1 /\ \A k \in (j + 1)..((i + 1) - 1) : k \in x \cup y
    <3>1. PICK j \in x \cap y : j < i + 1 /\ \A k \in (j + 1)..((i + 1) - 1) : k \in x \cup y
      BY <2>1
    <3>2. CASE j = i
      BY <3>1, <3>2
    <3>3. CASE j # i
      <4>1. j < i /\ i \in x \cup y
        BY <1>0, <3>1, <3>3
      <4>2. \A k \in (j + 1)..(i - 1) : k \in x \cup y
        BY <1>0, <3>1
      <4> QED
        BY <3>1, <4>1, <4>2 DEF CarryInto
    <3> QED
      BY <3>2, <3>3
  <2>2. CASE c /\ \A k \in 0..((i + 1) - 1) : k \in x \cup y
    <3>1. i \in x \cup y
      BY <2>2
    <3>2. \A k \in 0..(i - 1) : k \in x \cup y
      BY <2>2
    <3> QED
      BY <2>2, <3>1, <3>2 DEF CarryInto
  <2> QED
    BY <1>2, <2>1, <2>2 DEF CarryInto
<1>3. ASSUME i \in x /\ i \in y PROVE CarryInto(x, y, c, i + 1)
  <2>1. i < i + 1 /\ \A k \in (i + 1)..((i + 1) - 1) : k \in x \cup y
    OBVIOUS
  <2>2. i \in x \cap y
    BY <1>3
  <2> QED
    BY <2>1, <2>2 DEF CarryInto
<1>4. ASSUME i \in x \/ i \in y, CarryInto(x, y, c, i) PROVE CarryInto(x, y, c, i + 1)
  <2>1. CASE \E j \in x \cap y : j < i /\ \A k \in (j + 1)..(i - 1) : k \in x \cup y
    <3>1. PICK j \in x \cap y : j < i /\ \A k \in (j + 1)..(i - 1) : k \in x \cup y
      BY <2>1
    <3>2. j < i + 1 /\ \A k \in (j + 1)..((i + 1) - 1) : k \in x \cup y
      BY <1>0, <1>4, <3>1
    <3> QED
      BY <3>2 DEF CarryInto
  <2>2. CASE c /\ \A k \in 0..(i - 1) : k \in x \cup y
    <3>1. \A k \in 0..((i + 1) - 1) : k \in x \cup y
      BY <1>4, <2>2
    <3> QED
      BY <2>2, <3>1 DEF CarryInto
  <2> QED
    BY <1>4, <2>1, <2>2 DEF CarryInto
<1> QED
  BY <1>1, <1>2, <1>3, <1>4

(* The carry into position i, as a number.                                 *)
Carry(x, y, c, i) == IF CarryInto(x, y, c, i) THEN 1 ELSE 0

(* The sum of two hexadecimal digits and a carry.                          *)
LEMMA AddDigit ==
    ASSUME NEW x \in Word, NEW y \in Word, NEW c \in BOOLEAN, NEW l \in 0..28
    PROVE  Digit(x, l) + Digit(y, l) + Carry(x, y, c, l)
             = Digit(AddWithCarry(x, y, c), l) + 16 * Carry(x, y, c, l + 4)
<1> DEFINE K(i) == CarryInto(x, y, c, i)
           s == AddWithCarry(x, y, c)
<1>1. ASSUME NEW i \in 0..31
      PROVE  /\ K(i + 1) <=> (i \in x /\ i \in y) \/ ((i \in x \/ i \in y) /\ K(i))
             /\ i \in s <=> ((i \in x) # (i \in y)) # K(i)
  BY Ripple DEF AddWithCarry, Bit
<1>b. \A i : K(i) \in BOOLEAN
  BY DEF CarryInto
<1> DEFINE b(p) == IF p THEN 1 ELSE 0
<1> HIDE DEF K, s
<1>2. ASSUME NEW i \in 0..31
      PROVE  b(i \in x) + b(i \in y) + b(K(i)) = b(i \in s) + 2 * b(K(i + 1))
  BY <1>1, <1>b
<1>3. /\ l \in 0..31 /\ l + 1 \in 0..31 /\ l + 2 \in 0..31 /\ l + 3 \in 0..31
      /\ (l + 1) + 1 = l + 2 /\ (l + 2) + 1 = l + 3 /\ (l + 3) + 1 = l + 4
  OBVIOUS
<1>4. /\ b(l \in x) + b(l \in y) + b(K(l)) = b(l \in s) + 2 * b(K(l + 1))
      /\ b(l + 1 \in x) + b(l + 1 \in y) + b(K(l + 1)) = b(l + 1 \in s) + 2 * b(K(l + 2))
      /\ b(l + 2 \in x) + b(l + 2 \in y) + b(K(l + 2)) = b(l + 2 \in s) + 2 * b(K(l + 3))
      /\ b(l + 3 \in x) + b(l + 3 \in y) + b(K(l + 3)) = b(l + 3 \in s) + 2 * b(K(l + 4))
  BY <1>2, <1>3
<1>5. \A y1 : Digit(y1, l) = b(l \in y1) + 2 * b(l + 1 \in y1)
                                 + 4 * b(l + 2 \in y1) + 8 * b(l + 3 \in y1)
  BY DEF Digit
<1>6. \A p : b(p) \in Int
  OBVIOUS
<1> HIDE DEF b
<1>7. Digit(x, l) + Digit(y, l) + b(K(l)) = Digit(s, l) + 16 * b(K(l + 4))
  BY <1>4, <1>5, <1>6
<1> QED
  BY <1>7 DEF Carry, K, s, b

(* A hexadecimal digit.                                                    *)
LEMMA DigitRange == ASSUME NEW x, NEW l PROVE Digit(x, l) \in 0..15
BY DEF Digit

(* The number of four hexadecimal digits.                                  *)
Quad(d0, d1, d2, d3) == d0 + 16 * d1 + 256 * d2 + 4096 * d3

(* A word as two 16-bit numbers.                                           *)
LEMMA HalvesOf ==
    ASSUME NEW x
    PROVE  /\ Lo(x) = Quad(Digit(x, 0), Digit(x, 4), Digit(x, 8), Digit(x, 12))
           /\ Hi(x) = Quad(Digit(x, 16), Digit(x, 20), Digit(x, 24), Digit(x, 28))
           /\ Lo(x) \in Nat /\ Lo(x) < 65536 /\ Hi(x) \in Nat /\ Hi(x) < 65536
           /\ ToNat(x) = Lo(x) + 65536 * Hi(x)
<1>0. ASSUME NEW y
      PROVE  /\ ToNat(y) = Quad(Digit(y, 0), Digit(y, 4), Digit(y, 8), Digit(y, 12))
                           + 65536 * Quad(Digit(y, 16), Digit(y, 20), Digit(y, 24), Digit(y, 28))
             /\ Quad(Digit(y, 0), Digit(y, 4), Digit(y, 8), Digit(y, 12)) \in Nat
             /\ Quad(Digit(y, 0), Digit(y, 4), Digit(y, 8), Digit(y, 12)) < 65536
             /\ Quad(Digit(y, 16), Digit(y, 20), Digit(y, 24), Digit(y, 28)) \in Nat
             /\ Quad(Digit(y, 16), Digit(y, 20), Digit(y, 24), Digit(y, 28)) < 65536
  <2>1. PICK d0 \in 0..15 : d0 = Digit(y, 0)
    BY DigitRange
  <2>2. PICK d1 \in 0..15 : d1 = Digit(y, 4)
    BY DigitRange
  <2>3. PICK d2 \in 0..15 : d2 = Digit(y, 8)
    BY DigitRange
  <2>4. PICK d3 \in 0..15 : d3 = Digit(y, 12)
    BY DigitRange
  <2>5. PICK d4 \in 0..15 : d4 = Digit(y, 16)
    BY DigitRange
  <2>6. PICK d5 \in 0..15 : d5 = Digit(y, 20)
    BY DigitRange
  <2>7. PICK d6 \in 0..15 : d6 = Digit(y, 24)
    BY DigitRange
  <2>8. PICK d7 \in 0..15 : d7 = Digit(y, 28)
    BY DigitRange
  <2>9. ToNat(y) = d0 + 16 * d1 + 256 * d2 + 4096 * d3
                     + 65536 * d4 + 1048576 * d5 + 16777216 * d6 + 268435456 * d7
    BY <2>1, <2>2, <2>3, <2>4, <2>5, <2>6, <2>7, <2>8 DEF ToNat
  <2>10. ToNat(y) = Quad(d0, d1, d2, d3) + 65536 * Quad(d4, d5, d6, d7)
    BY <2>9 DEF Quad
  <2>11. Quad(d0, d1, d2, d3) \in Nat /\ Quad(d0, d1, d2, d3) < 65536
    BY DEF Quad
  <2>12. Quad(d4, d5, d6, d7) \in Nat /\ Quad(d4, d5, d6, d7) < 65536
    BY DEF Quad
  <2> QED
    BY <2>1, <2>2, <2>3, <2>4, <2>5, <2>6, <2>7, <2>8, <2>10, <2>11, <2>12
<1> DEFINE low == x \cap 0..15
           high == {i \in 0..15 : i + 16 \in x}
<1>1. /\ Digit(low, 0) = Digit(x, 0) /\ Digit(low, 4) = Digit(x, 4)
      /\ Digit(low, 8) = Digit(x, 8) /\ Digit(low, 12) = Digit(x, 12)
      /\ Digit(low, 16) = 0 /\ Digit(low, 20) = 0 /\ Digit(low, 24) = 0 /\ Digit(low, 28) = 0
  BY DEF Digit
<1>2. /\ Digit(high, 0) = Digit(x, 16) /\ Digit(high, 4) = Digit(x, 20)
      /\ Digit(high, 8) = Digit(x, 24) /\ Digit(high, 12) = Digit(x, 28)
      /\ Digit(high, 16) = 0 /\ Digit(high, 20) = 0 /\ Digit(high, 24) = 0 /\ Digit(high, 28) = 0
  BY DEF Digit
<1>3. Lo(x) = ToNat(low) /\ Hi(x) = ToNat(high)
  BY DEF Lo, Hi
<1>4. \A n \in Nat : n + 65536 * Quad(0, 0, 0, 0) = n
  BY DEF Quad
<1> HIDE DEF low, high
<1>5. Lo(x) = Quad(Digit(x, 0), Digit(x, 4), Digit(x, 8), Digit(x, 12))
  BY <1>0, <1>1, <1>3, <1>4
<1>6. Hi(x) = Quad(Digit(x, 16), Digit(x, 20), Digit(x, 24), Digit(x, 28))
  BY <1>0, <1>2, <1>3, <1>4
<1> QED
  BY <1>0, <1>5, <1>6

(* The digits of a half, added with their carries.                         *)
LEMMA AddFourDigits ==
    ASSUME NEW x, NEW y, NEW s, NEW l0, NEW l1, NEW l2, NEW l3,
           NEW k0 \in Int, NEW k1 \in Int, NEW k2 \in Int, NEW k3 \in Int, NEW k4 \in Int,
           Digit(x, l0) + Digit(y, l0) + k0 = Digit(s, l0) + 16 * k1,
           Digit(x, l1) + Digit(y, l1) + k1 = Digit(s, l1) + 16 * k2,
           Digit(x, l2) + Digit(y, l2) + k2 = Digit(s, l2) + 16 * k3,
           Digit(x, l3) + Digit(y, l3) + k3 = Digit(s, l3) + 16 * k4
    PROVE  Quad(Digit(x, l0), Digit(x, l1), Digit(x, l2), Digit(x, l3))
             + Quad(Digit(y, l0), Digit(y, l1), Digit(y, l2), Digit(y, l3)) + k0
             = Quad(Digit(s, l0), Digit(s, l1), Digit(s, l2), Digit(s, l3)) + 65536 * k4
<1>1. PICK a0 \in 0..15 : a0 = Digit(x, l0)
  BY DigitRange
<1>2. PICK a1 \in 0..15 : a1 = Digit(x, l1)
  BY DigitRange
<1>3. PICK a2 \in 0..15 : a2 = Digit(x, l2)
  BY DigitRange
<1>4. PICK a3 \in 0..15 : a3 = Digit(x, l3)
  BY DigitRange
<1>5. PICK b0 \in 0..15 : b0 = Digit(y, l0)
  BY DigitRange
<1>6. PICK b1 \in 0..15 : b1 = Digit(y, l1)
  BY DigitRange
<1>7. PICK b2 \in 0..15 : b2 = Digit(y, l2)
  BY DigitRange
<1>8. PICK b3 \in 0..15 : b3 = Digit(y, l3)
  BY DigitRange
<1>9. PICK c0 \in 0..15 : c0 = Digit(s, l0)
  BY DigitRange
<1>10. PICK c1 \in 0..15 : c1 = Digit(s, l1)
  BY DigitRange
<1>11. PICK c2 \in 0..15 : c2 = Digit(s, l2)
  BY DigitRange
<1>12. PICK c3 \in 0..15 : c3 = Digit(s, l3)
  BY DigitRange
<1>13. /\ a0 + b0 + k0 = c0 + 16 * k1 /\ a1 + b1 + k1 = c1 + 16 * k2
       /\ a2 + b2 + k2 = c2 + 16 * k3 /\ a3 + b3 + k3 = c3 + 16 * k4
  BY <1>1, <1>2, <1>3, <1>4, <1>5, <1>6, <1>7, <1>8, <1>9, <1>10, <1>11, <1>12
<1>14. Quad(a0, a1, a2, a3) + Quad(b0, b1, b2, b3) + k0 = Quad(c0, c1, c2, c3) + 65536 * k4
  BY <1>13 DEF Quad
<1> QED
  BY <1>1, <1>2, <1>3, <1>4, <1>5, <1>6, <1>7, <1>8, <1>9, <1>10, <1>11, <1>12, <1>14

(* The sum of two words and a carry, half by half.                         *)
LEMMA AddHalves ==
    ASSUME NEW x \in Word, NEW y \in Word, NEW c \in BOOLEAN, NEW s, s = AddWithCarry(x, y, c)
    PROVE  /\ Lo(x) + Lo(y) + (IF c THEN 1 ELSE 0) = Lo(s) + 65536 * Carry(x, y, c, 16)
           /\ Hi(x) + Hi(y) + Carry(x, y, c, 16) = Hi(s) + 65536 * Carry(x, y, c, 32)
<1> DEFINE K(i) == Carry(x, y, c, i)
<1>0. \A i : K(i) \in Int
  BY DEF Carry
<1>1. K(0) = IF c THEN 1 ELSE 0
  <2>1. CarryInto(x, y, c, 0) <=> c
    BY Ripple
  <2> QED
    BY <2>1 DEF Carry
<1>2. ASSUME NEW l \in 0..28 PROVE Digit(x, l) + Digit(y, l) + K(l) = Digit(s, l) + 16 * K(l + 4)
  BY AddDigit
<1> HIDE DEF K
<1>3. /\ Digit(x, 0) + Digit(y, 0) + K(0) = Digit(s, 0) + 16 * K(4)
      /\ Digit(x, 4) + Digit(y, 4) + K(4) = Digit(s, 4) + 16 * K(8)
      /\ Digit(x, 8) + Digit(y, 8) + K(8) = Digit(s, 8) + 16 * K(12)
      /\ Digit(x, 12) + Digit(y, 12) + K(12) = Digit(s, 12) + 16 * K(16)
      /\ Digit(x, 16) + Digit(y, 16) + K(16) = Digit(s, 16) + 16 * K(20)
      /\ Digit(x, 20) + Digit(y, 20) + K(20) = Digit(s, 20) + 16 * K(24)
      /\ Digit(x, 24) + Digit(y, 24) + K(24) = Digit(s, 24) + 16 * K(28)
      /\ Digit(x, 28) + Digit(y, 28) + K(28) = Digit(s, 28) + 16 * K(32)
  BY <1>2
<1>5. Lo(x) + Lo(y) + K(0) = Lo(s) + 65536 * K(16)
  <2>1. Quad(Digit(x, 0), Digit(x, 4), Digit(x, 8), Digit(x, 12))
          + Quad(Digit(y, 0), Digit(y, 4), Digit(y, 8), Digit(y, 12)) + K(0)
          = Quad(Digit(s, 0), Digit(s, 4), Digit(s, 8), Digit(s, 12)) + 65536 * K(16)
    BY <1>0, <1>3, AddFourDigits
  <2> QED
    BY <2>1, HalvesOf
<1>6. Hi(x) + Hi(y) + K(16) = Hi(s) + 65536 * K(32)
  <2>1. Quad(Digit(x, 16), Digit(x, 20), Digit(x, 24), Digit(x, 28))
          + Quad(Digit(y, 16), Digit(y, 20), Digit(y, 24), Digit(y, 28)) + K(16)
          = Quad(Digit(s, 16), Digit(s, 20), Digit(s, 24), Digit(s, 28)) + 65536 * K(32)
    BY <1>0, <1>3, AddFourDigits
  <2> QED
    BY <2>1, HalvesOf
<1> QED
  BY <1>1, <1>5, <1>6 DEF K

(* The complement of a word, half by half.                                 *)
LEMMA Complement ==
    ASSUME NEW x \in Word
    PROVE  Lo(Not(x)) = 65535 - Lo(x) /\ Hi(Not(x)) = 65535 - Hi(x)
<1>1. \A l \in 0..28 : Digit(Not(x), l) = 15 - Digit(x, l)
  <2> SUFFICES ASSUME NEW l \in 0..28 PROVE Digit(Not(x), l) = 15 - Digit(x, l)
    OBVIOUS
  <2>1. \A i \in 0..31 : i \in Not(x) <=> i \notin x
    BY DEF Not, Bit
  <2>2. l \in 0..31 /\ l + 1 \in 0..31 /\ l + 2 \in 0..31 /\ l + 3 \in 0..31
    OBVIOUS
  <2> QED
    BY <2>1, <2>2 DEF Digit
<1>2. ASSUME NEW l0, NEW l1, NEW l2, NEW l3,
             Digit(Not(x), l0) = 15 - Digit(x, l0), Digit(Not(x), l1) = 15 - Digit(x, l1),
             Digit(Not(x), l2) = 15 - Digit(x, l2), Digit(Not(x), l3) = 15 - Digit(x, l3)
      PROVE  Quad(Digit(Not(x), l0), Digit(Not(x), l1), Digit(Not(x), l2), Digit(Not(x), l3))
               = 65535 - Quad(Digit(x, l0), Digit(x, l1), Digit(x, l2), Digit(x, l3))
  <2>1. PICK d0 \in 0..15 : d0 = Digit(x, l0)
    BY DigitRange
  <2>2. PICK d1 \in 0..15 : d1 = Digit(x, l1)
    BY DigitRange
  <2>3. PICK d2 \in 0..15 : d2 = Digit(x, l2)
    BY DigitRange
  <2>4. PICK d3 \in 0..15 : d3 = Digit(x, l3)
    BY DigitRange
  <2>5. Quad(15 - d0, 15 - d1, 15 - d2, 15 - d3) = 65535 - Quad(d0, d1, d2, d3)
    BY DEF Quad
  <2> QED
    BY <1>2, <2>1, <2>2, <2>3, <2>4, <2>5
<1>3. /\ Digit(Not(x), 0) = 15 - Digit(x, 0) /\ Digit(Not(x), 4) = 15 - Digit(x, 4)
      /\ Digit(Not(x), 8) = 15 - Digit(x, 8) /\ Digit(Not(x), 12) = 15 - Digit(x, 12)
      /\ Digit(Not(x), 16) = 15 - Digit(x, 16) /\ Digit(Not(x), 20) = 15 - Digit(x, 20)
      /\ Digit(Not(x), 24) = 15 - Digit(x, 24) /\ Digit(Not(x), 28) = 15 - Digit(x, 28)
  BY <1>1
<1>4. /\ Quad(Digit(Not(x), 0), Digit(Not(x), 4), Digit(Not(x), 8), Digit(Not(x), 12))
           = 65535 - Quad(Digit(x, 0), Digit(x, 4), Digit(x, 8), Digit(x, 12))
      /\ Quad(Digit(Not(x), 16), Digit(Not(x), 20), Digit(Not(x), 24), Digit(Not(x), 28))
           = 65535 - Quad(Digit(x, 16), Digit(x, 20), Digit(x, 24), Digit(x, 28))
  BY <1>2, <1>3
<1> QED
  BY <1>4, HalvesOf

(* The borrow out of x - y.                                                *)
Borrow(x, y) == ~CarryInto(x, Not(y), TRUE, 32)

(* x + y and x - y on the halves, with the carry or the borrow between     *)
(* them and out of the word.                                               *)
LEMMA PlusHalves ==
    ASSUME NEW x \in Word, NEW y \in Word
    PROVE  \E k \in {0, 1}, h \in {0, 1} :
             /\ Lo(x) + Lo(y) = Lo(Plus(x, y)) + 65536 * k
             /\ Hi(x) + Hi(y) + k = Hi(Plus(x, y)) + 65536 * h
<1> DEFINE s == Plus(x, y)
<1>0. PICK c0 \in BOOLEAN : c0 = FALSE
  OBVIOUS
<1>1. PICK k \in {0, 1} : k = Carry(x, y, c0, 16)
  BY DEF Carry
<1>2. PICK h \in {0, 1} : h = Carry(x, y, c0, 32)
  BY DEF Carry
<1>3. s = AddWithCarry(x, y, c0)
  BY <1>0, Zenon DEF Plus
<1> HIDE DEF s
<1>4. PICK a \in Int, b \in Int, c \in Int : a = Lo(x) /\ b = Lo(y) /\ c = Lo(s)
  BY HalvesOf
<1>5. PICK d \in Int, e \in Int, f \in Int : d = Hi(x) /\ e = Hi(y) /\ f = Hi(s)
  BY HalvesOf
<1>6. a + b + 0 = c + 65536 * k /\ d + e + k = f + 65536 * h
  BY <1>0, <1>1, <1>2, <1>3, <1>4, <1>5, AddHalves
<1>7. a + b = c + 65536 * k
  BY <1>6
<1> QED
  BY <1>4, <1>5, <1>6, <1>7 DEF s

(* The same for the difference, with the borrow.                           *)
LEMMA MinusHalves ==
    ASSUME NEW x \in Word, NEW y \in Word
    PROVE  \E k \in {-1, 0}, h \in {-1, 0} :
             /\ Lo(x) - Lo(y) = Lo(Minus(x, y)) + 65536 * k
             /\ Hi(x) - Hi(y) + k = Hi(Minus(x, y)) + 65536 * h
             /\ Borrow(x, y) <=> h = -1
<1> DEFINE s == Minus(x, y)
<1>0. PICK c0 \in BOOLEAN : c0 = TRUE
  OBVIOUS
<1>n. Not(y) \in Word
  BY DEF Not, Word
<1>1. PICK k \in {0, 1} : k = Carry(x, Not(y), c0, 16)
  BY DEF Carry
<1>2. PICK h \in {0, 1} : h = Carry(x, Not(y), c0, 32)
  BY DEF Carry
<1>3. s = AddWithCarry(x, Not(y), c0)
  BY <1>0, Zenon DEF Minus
<1>b. Borrow(x, y) <=> ~CarryInto(x, Not(y), c0, 32)
  BY <1>0, Zenon DEF Borrow
<1> HIDE DEF s
<1>4. PICK a \in Int, b \in Int, c \in Int : a = Lo(x) /\ b = Lo(y) /\ c = Lo(s)
  BY HalvesOf
<1>5. PICK d \in Int, e \in Int, f \in Int : d = Hi(x) /\ e = Hi(y) /\ f = Hi(s)
  BY HalvesOf
<1>6. PICK b1 \in Int, e1 \in Int : b1 = Lo(Not(y)) /\ e1 = Hi(Not(y))
  BY HalvesOf
<1>7. /\ a + b1 + (IF c0 THEN 1 ELSE 0) = c + 65536 * k /\ d + e1 + k = f + 65536 * h
      /\ b1 = 65535 - b /\ e1 = 65535 - e
  <2>1. /\ Lo(x) + Lo(Not(y)) + (IF c0 THEN 1 ELSE 0) = Lo(s) + 65536 * k
        /\ Hi(x) + Hi(Not(y)) + k = Hi(s) + 65536 * h
    BY <1>n, <1>1, <1>2, <1>3, AddHalves
  <2>2. Lo(Not(y)) = 65535 - Lo(y) /\ Hi(Not(y)) = 65535 - Hi(y)
    BY Complement
  <2> QED
    BY <1>4, <1>5, <1>6, <2>1, <2>2
<1>8. a - b = c + 65536 * (k - 1) /\ d - e + (k - 1) = f + 65536 * (h - 1)
  BY <1>0, <1>7
<1>9. Borrow(x, y) <=> h - 1 = -1
  BY <1>2, <1>b DEF Carry
<1>10. k - 1 \in {-1, 0} /\ h - 1 \in {-1, 0}
  OBVIOUS
<1> QED
  BY <1>4, <1>5, <1>8, <1>9, <1>10 DEF s

(* The comparison of words is the borrow of their difference.              *)
LEMMA LessIsBorrow ==
    ASSUME NEW x \in Word, NEW y \in Word
    PROVE  Less(x, y) <=> Borrow(x, y)
<1>c. PICK c0 \in BOOLEAN : c0 = TRUE
  OBVIOUS
<1> DEFINE L(k) == \E i \in y \ x : i < k /\ \A j \in (i + 1)..(k - 1) : (j \in x) = (j \in y)
           K(k) == CarryInto(x, Not(y), c0, k)
<1>0. Not(y) \in Word /\ x \subseteq 0..31 /\ y \subseteq 0..31
  BY DEF Not, Word, Bit
<1>1. K(0) /\ ~L(0)
  <2>1. 0 \in Nat
    OBVIOUS
  <2>2. K(0) <=> c0
    BY <1>0, <2>1, Ripple
  <2>3. ~L(0)
    BY <1>0
  <2> QED
    BY <1>c, <2>2, <2>3
<1>2. ASSUME NEW k \in 0..31, K(k) <=> ~L(k) PROVE K(k + 1) <=> ~L(k + 1)
  <2>1. K(k + 1) <=> (k \in x /\ k \notin y) \/ ((k \in x \/ k \notin y) /\ K(k))
    <3>1. k \in Nat /\ (k \in Not(y) <=> k \notin y)
      BY DEF Not, Bit
    <3> QED
      BY <1>0, <3>1, Ripple
  <2>2. L(k + 1) => (k \in y /\ k \notin x) \/ ((k \in x) = (k \in y) /\ L(k))
    <3> SUFFICES ASSUME NEW i \in y \ x, i < k + 1,
                        \A j \in (i + 1)..((k + 1) - 1) : (j \in x) = (j \in y)
                 PROVE  (k \in y /\ k \notin x) \/ ((k \in x) = (k \in y) /\ L(k))
      OBVIOUS
    <3>1. CASE i = k
      BY <3>1
    <3>2. CASE i # k
      <4>1. i < k /\ (k \in x) = (k \in y)
        BY <1>0, <3>2
      <4>2. \A j \in (i + 1)..(k - 1) : (j \in x) = (j \in y)
        BY <1>0
      <4> QED
        BY <4>1, <4>2
    <3> QED
      BY <3>1, <3>2
  <2>3. k \in y /\ k \notin x => L(k + 1)
    <3>1. k < k + 1 /\ \A j \in (k + 1)..((k + 1) - 1) : (j \in x) = (j \in y)
      OBVIOUS
    <3> QED
      BY <3>1
  <2>4. (k \in x) = (k \in y) /\ L(k) => L(k + 1)
    <3> SUFFICES ASSUME (k \in x) = (k \in y), NEW i \in y \ x, i < k,
                        \A j \in (i + 1)..(k - 1) : (j \in x) = (j \in y)
                 PROVE  L(k + 1)
      OBVIOUS
    <3>1. i < k + 1 /\ \A j \in (i + 1)..((k + 1) - 1) : (j \in x) = (j \in y)
      BY <1>0
    <3> QED
      BY <3>1
  <2> HIDE DEF K, L
  <2> QED
    BY <1>2, <2>1, <2>2, <2>3, <2>4
<1>3. Less(x, y) <=> L(32)
  <2>1. 32 - 1 = 31 /\ \A i \in y : i < 32
    BY <1>0
  <2> QED
    BY <2>1 DEF Less
<1> HIDE DEF K, L
<1>4. K(4) <=> ~L(4)
  BY <1>1, <1>2
<1>5. K(8) <=> ~L(8)
  BY <1>2, <1>4
<1>6. K(12) <=> ~L(12)
  BY <1>2, <1>5
<1>7. K(16) <=> ~L(16)
  BY <1>2, <1>6
<1>8. K(20) <=> ~L(20)
  BY <1>2, <1>7
<1>9. K(24) <=> ~L(24)
  BY <1>2, <1>8
<1>10. K(28) <=> ~L(28)
  BY <1>2, <1>9
<1>11. K(32) <=> ~L(32)
  BY <1>2, <1>10
<1>12. Borrow(x, y) <=> ~K(32)
  BY <1>c, Zenon DEF Borrow, K
<1> QED
  BY <1>3, <1>11, <1>12

(* The comparison of words is that of the numbers, by their halves.        *)
LEMMA LessIsLess ==
    ASSUME NEW x \in Word, NEW y \in Word
    PROVE  Less(x, y) <=> Hi(x) < Hi(y) \/ (Hi(x) = Hi(y) /\ Lo(x) < Lo(y))
<1>1. PICK k \in {-1, 0}, h \in {-1, 0} :
             /\ Lo(x) - Lo(y) = Lo(Minus(x, y)) + 65536 * k
             /\ Hi(x) - Hi(y) + k = Hi(Minus(x, y)) + 65536 * h
             /\ Borrow(x, y) <=> h = -1
  BY MinusHalves
<1>2. PICK a \in Nat, b \in Nat, c \in Nat :
        a = Lo(x) /\ b = Lo(y) /\ c = Lo(Minus(x, y)) /\ a < 65536 /\ b < 65536 /\ c < 65536
  BY HalvesOf
<1>3. PICK d \in Nat, e \in Nat, f \in Nat :
        d = Hi(x) /\ e = Hi(y) /\ f = Hi(Minus(x, y)) /\ d < 65536 /\ e < 65536 /\ f < 65536
  BY HalvesOf
<1>4. a - b = c + 65536 * k /\ d - e + k = f + 65536 * h
  BY <1>1, <1>2, <1>3
<1>5. h = -1 <=> d < e \/ (d = e /\ a < b)
  BY <1>2, <1>3, <1>4
<1>6. Less(x, y) <=> h = -1
  BY <1>1, LessIsBorrow
<1> QED
  BY <1>2, <1>3, <1>5, <1>6

(* The sign and the zero of a word, by its halves.                         *)
LEMMA SignAndZero ==
    ASSUME NEW x \in Word
    PROVE  /\ 31 \in x <=> Hi(x) >= 32768
           /\ x = Zero <=> Hi(x) = 0 /\ Lo(x) = 0
<1>1. 31 \in x <=> Hi(x) >= 32768
  <2>1. PICK a \in 0..15, b \in 0..15, c \in 0..15, d \in 0..15 :
          a = Digit(x, 16) /\ b = Digit(x, 20) /\ c = Digit(x, 24) /\ d = Digit(x, 28)
    BY DigitRange
  <2>2. Hi(x) = Quad(a, b, c, d)
    BY <2>1, HalvesOf
  <2>3. 31 \in x <=> d >= 8
    BY <2>1 DEF Digit
  <2>4. Quad(a, b, c, d) >= 32768 <=> d >= 8
    BY DEF Quad
  <2> QED
    BY <2>2, <2>3, <2>4
<1>2. x = Zero => Hi(x) = 0 /\ Lo(x) = 0
  <2> SUFFICES ASSUME x = Zero PROVE Hi(x) = 0 /\ Lo(x) = 0
    OBVIOUS
  <2>1. \A l : Digit(x, l) = 0
    BY DEF Digit, Zero
  <2>2. Quad(0, 0, 0, 0) = 0
    BY DEF Quad
  <2> QED
    BY <2>1, <2>2, HalvesOf
<1>3. ASSUME Hi(x) = 0, Lo(x) = 0 PROVE x = Zero
  <2>1. PICK a \in 0..15, b \in 0..15, c \in 0..15, d \in 0..15 :
          a = Digit(x, 16) /\ b = Digit(x, 20) /\ c = Digit(x, 24) /\ d = Digit(x, 28)
    BY DigitRange
  <2>2. PICK e \in 0..15, f \in 0..15, g \in 0..15, h \in 0..15 :
          e = Digit(x, 0) /\ f = Digit(x, 4) /\ g = Digit(x, 8) /\ h = Digit(x, 12)
    BY DigitRange
  <2>3. Quad(a, b, c, d) = 0 /\ Quad(e, f, g, h) = 0
    BY <1>3, <2>1, <2>2, HalvesOf
  <2>4. a = 0 /\ b = 0 /\ c = 0 /\ d = 0 /\ e = 0 /\ f = 0 /\ g = 0 /\ h = 0
    BY <2>3 DEF Quad
  <2>5. ASSUME NEW l \in Nat, Digit(x, l) = 0
        PROVE  l \notin x /\ l + 1 \notin x /\ l + 2 \notin x /\ l + 3 \notin x
    BY <2>5 DEF Digit
  <2>6. /\ \A i \in {0, 1, 2, 3, 4, 5, 6, 7} : i \notin x
        /\ \A i \in {8, 9, 10, 11, 12, 13, 14, 15} : i \notin x
        /\ \A i \in {16, 17, 18, 19, 20, 21, 22, 23} : i \notin x
        /\ \A i \in {24, 25, 26, 27, 28, 29, 30, 31} : i \notin x
    BY <2>1, <2>2, <2>4, <2>5
  <2>7. x \subseteq 0..31
    BY DEF Word, Bit
  <2> QED
    BY <2>6, <2>7 DEF Zero
<1> QED
  BY <1>1, <1>2, <1>3

----------------------------------------------------------------------------
(* Every operation on words yields a word.                                 *)
LEMMA WordsAreClosed ==
    ASSUME NEW x, NEW y, NEW n
    PROVE  /\ Plus(x, y) \in Word /\ Minus(x, y) \in Word
           /\ Not(x) \in Word /\ ShiftLeft(x, n) \in Word /\ ShiftRight(x, n) \in Word
           /\ asr(x, n) \in Word /\ ror(x, n) \in Word
           /\ BitWord(x) \in Word /\ SignFill(x) \in Word
           /\ Zero \in Word /\ Ones \in Word /\ Four \in Word
<1>1. Plus(x, y) \in Word /\ Minus(x, y) \in Word
  BY DEF Plus, Minus, AddWithCarry, Word
<1>2. Not(x) \in Word /\ ShiftLeft(x, n) \in Word /\ ShiftRight(x, n) \in Word
  BY DEF Not, ShiftLeft, ShiftRight, Word
<1>3. asr(x, n) \in Word /\ ror(x, n) \in Word
  BY DEF asr, ror, ShiftLeft, ShiftRight, Word
<1>4. Zero \in Word /\ Ones \in Word /\ Four \in Word /\ {0} \in Word
  BY DEF Zero, Ones, Four, Word, Bit
<1>5. BitWord(x) \in Word /\ SignFill(x) \in Word
  BY <1>4 DEF BitWord, SignFill
<1> QED
  BY <1>1, <1>2, <1>3, <1>4, <1>5

(* AND, BIC, EOR and ORR of words are words.                               *)
LEMMA BitwiseClosed ==
    ASSUME NEW x \in Word, NEW y
    PROVE  x \cap y \in Word /\ x \ y \in Word /\ (y \in Word => Xor(x, y) \in Word /\ x \cup y \in Word)
BY DEF Word, Xor

(* What an instruction reads from the group is a word.                     *)
LEMMA ReadsAreWords ==
    ASSUME NEW r \in RegistersSet, NEW n \in 0..15
    PROVE  /\ read_register(r, n) \in Word /\ read_usr_register(r, n) \in Word
           /\ arm_read_register(r, n) \in Word
           /\ read_cpsr(r) \in Word /\ read_spsr(r) \in Word
<1>1. read_register(r, n) \in Word
  <2>1. CASE InMain(r, n)
    BY <2>1 DEF read_register, RegistersSet, MainCell
  <2>2. CASE ~InMain(r, n)
    <3>1. n \in 8..14 /\ (get_mode(r) = FIQ \/ n \in {13, 14})
      BY <2>2 DEF InMain
    <3>2. get_banked_register_from_mode(get_mode(r), n) \in 0..14
      BY <3>1 DEF get_banked_register_from_mode
    <3> QED
      BY <2>2, <3>1, <3>2 DEF read_register, InBanked, RegistersSet
  <2> QED
    BY <2>1, <2>2
<1>2. read_usr_register(r, n) \in Word
  BY DEF read_usr_register, RegistersSet, MainCell
<1>3. arm_read_register(r, n) \in Word
  BY <1>1, WordsAreClosed, BitwiseClosed DEF arm_read_register, PcSeen
<1>4. read_cpsr(r) \in Word
  BY DEF read_cpsr, RegistersSet
<1>5. read_spsr(r) \in Word
  <2>1. get_register_from_mode(get_mode(r)) \in 0..5
    BY DEF get_register_from_mode
  <2> QED
    BY <2>1, WordsAreClosed DEF read_spsr, RegistersSet
<1> QED
  BY <1>1, <1>2, <1>3, <1>4, <1>5

(* The accesses to the group that instructions make keep it well formed.   *)
LEMMA InstructionWrites ==
    ASSUME NEW r \in RegistersSet, NEW n \in 0..15, NEW v \in Word
    PROVE  /\ write_register(r, n, v) \in RegistersSet
           /\ write_usr_register(r, n, v) \in RegistersSet
           /\ write_cpsr(r, v) \in RegistersSet
BY WritesAreTyped DEF MainCell

(* A register that is written reads back, in whatever mode, and no other   *)
(* register that the mode sees changes: the copies of a mode are distinct. *)
LEMMA ReadAfterWrite ==
    ASSUME NEW r \in RegistersSet, NEW n \in 0..15, NEW k \in 0..15, NEW v
    PROVE  read_register(write_register(r, k, v), n) = IF n = k THEN v ELSE read_register(r, n)
<1> DEFINE w    == write_register(r, k, v)
           b(j) == get_banked_register_from_mode(get_mode(r), j)
<1>1. w.psr = r.psr
  BY DEF write_register, RegistersSet
<1>2. get_mode(w) = get_mode(r) /\ \A j : InMain(w, j) = InMain(r, j) /\ InBanked(w, j) = InBanked(r, j)
  BY <1>1 DEF get_mode, read_cpsr, InMain, InBanked, current_mode_has_spsr
<1>3. \A j \in 0..15 : ~InMain(r, j) => b(j) \in 0..14 /\ (b(j) = b(n) /\ ~InMain(r, n) => j = n)
  <2> SUFFICES ASSUME NEW j \in 0..15, ~InMain(r, j)
               PROVE  b(j) \in 0..14 /\ (b(j) = b(n) /\ ~InMain(r, n) => j = n)
    OBVIOUS
  <2>1. j \in 8..14 /\ (get_mode(r) = FIQ \/ j \in {13, 14})
    BY DEF InMain
  <2>2. ~InMain(r, n) => n \in 8..14 /\ (get_mode(r) = FIQ \/ n \in {13, 14})
    BY DEF InMain
  <2>3. CASE get_mode(r) = FIQ
    <3>1. \A i : b(i) = i
      BY <2>3, ModesDistinct DEF get_banked_register_from_mode
    <3> QED
      BY <2>1, <3>1
  <2>4. CASE get_mode(r) # FIQ
    <3>1. PICK c \in {0, 2, 4, 6} : \A i \in 13..14 : b(i) = (i % 2) + c
      BY <2>4 DEF get_banked_register_from_mode
    <3>2. \A i \in {13, 14} : b(i) = c + (IF i = 13 THEN 1 ELSE 0)
      BY <3>1
    <3> HIDE DEF b
    <3> QED
      BY <2>1, <2>2, <2>4, <3>2
  <2> QED
    BY <2>3, <2>4
<1>4. \A j \in 0..15 : InMain(r, j) \/ InBanked(r, j)
  BY DEF InBanked
<1>5. /\ InMain(r, k) => w.main = [r.main EXCEPT ![k] = v] /\ w.banked = r.banked
      /\ ~InMain(r, k) => w.main = r.main /\ w.banked = [r.banked EXCEPT ![b(k)] = v]
  BY <1>4 DEF write_register, RegistersSet
<1>6. r.main \in [MainCell -> Word] /\ r.banked \in [0..14 -> Word] /\ n \in MainCell /\ k \in MainCell
  BY DEF RegistersSet, MainCell
<1>7. /\ read_register(w, n) = IF InMain(r, n) THEN w.main[n] ELSE w.banked[b(n)]
      /\ read_register(r, n) = IF InMain(r, n) THEN r.main[n] ELSE r.banked[b(n)]
  BY <1>2, <1>4 DEF read_register
<1> HIDE DEF w, b
<1> QED
  BY <1>3, <1>5, <1>6, <1>7 DEF w

(* A write of CPSR moves no register that the mode it leaves sees.         *)
LEMMA CpsrWriteKeepsRegisters ==
    ASSUME NEW r \in RegistersSet, NEW v, NEW w, w = write_cpsr(r, v)
    PROVE  /\ get_mode(w) = get_mode(r) => \A n : read_register(w, n) = read_register(r, n)
           /\ read_register(w, 15) = read_register(r, 15)
<1>1. w.main = r.main /\ w.banked = r.banked
  BY DEF write_cpsr, RegistersSet
<1>2. InMain(w, 15) /\ InMain(r, 15)
  BY DEF InMain
<1>3. read_register(w, 15) = read_register(r, 15)
  BY <1>1, <1>2 DEF read_register
<1>4. ASSUME get_mode(w) = get_mode(r), NEW n PROVE read_register(w, n) = read_register(r, n)
  <2>1. (InMain(w, n) <=> InMain(r, n)) /\ (InBanked(w, n) <=> InBanked(r, n))
    BY <1>4 DEF InMain, InBanked, current_mode_has_spsr
  <2>2. CASE InMain(r, n)
    BY <1>1, <2>1, <2>2 DEF read_register
  <2>3. CASE ~InMain(r, n)
    BY <1>1, <1>4, <2>1, <2>3 DEF read_register
  <2> QED
    BY <2>2, <2>3
<1> QED
  BY <1>3, <1>4

(* Adding 4 inverts bit 2 and every bit that a run of ones from bit 2 on   *)
(* reaches; subtracting 4 those that a run of zeros reaches.               *)
LEMMA FourBits ==
    ASSUME NEW x \in Word, NEW i \in Bit
    PROVE  /\ i \in Plus(x, Four) <=>
                ((i \in x) <=> ~(i >= 2 /\ \A k \in 2..(i - 1) : k \in x))
           /\ i \in Minus(x, Four) <=>
                ((i \in x) <=> ~(i >= 2 /\ \A k \in 2..(i - 1) : k \notin x))
<1>1. i \in 0..31 /\ \A k \in x : k \in 0..31
  BY DEF Bit, Word
<1>2. PICK c \in BOOLEAN : ~c
  OBVIOUS
<1>3. PICK d \in BOOLEAN : d
  OBVIOUS
<1>4. CarryInto(x, Four, c, i) <=> i > 2 /\ \A k \in 2..(i - 1) : k \in x
  <2>1. ASSUME CarryInto(x, Four, c, i) PROVE i > 2 /\ \A k \in 2..(i - 1) : k \in x
    <3>1. PICK j \in x \cap {2} : j < i /\ \A k \in (j + 1)..(i - 1) : k \in x \cup {2}
      BY <1>2, <2>1 DEF CarryInto, Four
    <3> QED
      BY <1>1, <3>1
  <2>2. ASSUME i > 2, \A k \in 2..(i - 1) : k \in x PROVE CarryInto(x, Four, c, i)
    <3>1. 2 \in x \cap {2} /\ 2 < i /\ \A k \in (2 + 1)..(i - 1) : k \in x \cup {2}
      BY <1>1, <2>2
    <3> QED
      BY <3>1 DEF CarryInto, Four
  <2> QED
    BY <2>1, <2>2
<1>5. CarryInto(x, Not(Four), d, i) <=> ~(i > 2 /\ \A k \in 2..(i - 1) : k \notin x)
  <2>1. \A k : k \in Not(Four) <=> k \in 0..31 /\ k # 2
    BY DEF Not, Four, Bit
  <2>2. ASSUME i > 2, \A k \in 2..(i - 1) : k \notin x, CarryInto(x, Not(Four), d, i) PROVE FALSE
    <3>1. 2 \in 0..(i - 1) /\ 2 \notin x \cup Not(Four)
      BY <1>1, <2>1, <2>2
    <3>2. PICK j \in x \cap Not(Four) : j < i /\ \A k \in (j + 1)..(i - 1) : k \in x \cup Not(Four)
      BY <2>2, <3>1 DEF CarryInto
    <3>3. j \in 0..31 /\ j # 2 /\ j \in x
      BY <2>1, <3>2
    <3>4. ~(2 \in (j + 1)..(i - 1))
      BY <3>1, <3>2
    <3> QED
      BY <1>1, <2>2, <3>2, <3>3, <3>4
  <2>3. ASSUME ~(i > 2) PROVE CarryInto(x, Not(Four), d, i)
    <3>1. \A k \in 0..(i - 1) : k \in Not(Four)
      BY <1>1, <2>1, <2>3
    <3> QED
      BY <1>3, <3>1 DEF CarryInto
  <2>4. ASSUME i > 2, ~(\A k \in 2..(i - 1) : k \notin x) PROVE CarryInto(x, Not(Four), d, i)
    <3>1. PICK j \in 2..(i - 1) : j \in x
      BY <2>4
    <3>2. CASE j = 2
      <4>1. \A k \in 0..(i - 1) : k \in x \cup Not(Four)
        BY <1>1, <2>1, <3>1, <3>2
      <4> QED
        BY <1>3, <4>1 DEF CarryInto
    <3>3. CASE j # 2
      <4>1. j \in x \cap Not(Four) /\ j < i /\ \A k \in (j + 1)..(i - 1) : k \in x \cup Not(Four)
        BY <1>1, <2>1, <3>1, <3>3
      <4> QED
        BY <4>1 DEF CarryInto
    <3> QED
      BY <3>2, <3>3
  <2> QED
    BY <2>2, <2>3, <2>4
<1>6. i \in Four <=> i = 2
  BY DEF Four
<1>7. i \in Not(Four) <=> i # 2
  BY <1>6 DEF Not
<1>8. i \in Plus(x, Four) <=> ((i \in x) # (i \in Four)) # CarryInto(x, Four, c, i)
  <2>1. c = FALSE
    BY <1>2
  <2> QED
    BY <2>1, Zenon DEF Plus, AddWithCarry
<1>9. i \in Minus(x, Four) <=> ((i \in x) # (i \in Not(Four))) # CarryInto(x, Not(Four), d, i)
  <2>1. d = TRUE
    BY <1>3
  <2> QED
    BY <2>1, Zenon DEF Minus, AddWithCarry
<1> HIDE DEF Four
<1>10. CarryInto(x, Four, c, i) \in BOOLEAN /\ CarryInto(x, Not(Four), d, i) \in BOOLEAN
  BY DEF CarryInto
<1>11. i = 2 => i >= 2 /\ ~(i > 2) /\ (\A k \in 2..(i - 1) : k \in x)
                 /\ (\A k \in 2..(i - 1) : k \notin x)
  BY <1>1
<1>12. i # 2 => (i >= 2 <=> i > 2)
  BY <1>1
<1>13. i \in Plus(x, Four) <=>
         ((i \in x) <=> ~((i \in Four) <=> ~CarryInto(x, Four, c, i)))
  BY <1>8, <1>10
<1>14. i \in Minus(x, Four) <=>
         ((i \in x) <=> ~((i \in Not(Four)) <=> ~CarryInto(x, Not(Four), d, i)))
  BY <1>9, <1>10
<1>15. CASE i = 2
  <2>1. i \in Plus(x, Four) <=> i \notin x
    BY <1>4, <1>6, <1>11, <1>13, <1>15
  <2>2. i \in Minus(x, Four) <=> i \notin x
    BY <1>5, <1>7, <1>11, <1>14, <1>15
  <2> QED
    BY <1>11, <1>15, <2>1, <2>2
<1>16. CASE i # 2
  <2>1. i \in Plus(x, Four) <=> ((i \in x) <=> ~CarryInto(x, Four, c, i))
    BY <1>6, <1>13, <1>16
  <2>2. i \in Minus(x, Four) <=> ((i \in x) <=> CarryInto(x, Not(Four), d, i))
    BY <1>7, <1>14, <1>16
  <2> QED
    BY <1>4, <1>5, <1>12, <1>16, <2>1, <2>2
<1> QED
  BY <1>15, <1>16

(* The pc that an instruction sees, 4 less: the one that was stored but    *)
(* for bit 1.                                                              *)
LEMMA PcSeenLessFour ==
    ASSUME NEW v \in Word
    PROVE  Minus(PcSeen(v), Four) = v \ {1}
<1> DEFINE x == PcSeen(v)
           Up(i) == \A k \in 2..(i - 1) : k \in v
           Down(i) == \A k \in 2..(i - 1) : k \notin x
<1>1. x \in Word
  BY DEF PcSeen, Plus, AddWithCarry, Word
<1>2. \A i \in Bit : i \in x <=> i # 1 /\ ((i \in v) <=> ~(i >= 2 /\ Up(i)))
  BY FourBits DEF PcSeen
<1>3. \A i \in Bit : i \in Minus(x, Four) <=> ((i \in x) <=> ~(i >= 2 /\ Down(i)))
  BY <1>1, FourBits
<1> HIDE DEF x
<1>4. ASSUME NEW i \in Bit, i >= 2 PROVE Up(i) <=> Down(i)
  <2>0. i \in 2..31 /\ \A k \in 2..(i - 1) : k \in Bit /\ k # 1 /\ k >= 2 /\ 2..(k - 1) \subseteq 2..(i - 1)
    BY <1>4 DEF Bit
  <2>1. ASSUME Up(i) PROVE Down(i)
    <3> SUFFICES ASSUME NEW k \in 2..(i - 1) PROVE k \notin x
      OBVIOUS
    <3>1. k \in v /\ Up(k)
      BY <2>0, <2>1
    <3> QED
      BY <1>2, <2>0, <3>1
  <2>2. ASSUME Down(i), ~Up(i) PROVE FALSE
    <3> DEFINE T == {k \in 2..(i - 1) : k \notin v}
    <3>1. T \subseteq Nat /\ T # {}
      BY <2>0, <2>2
    <3>2. PICK k \in T : \A y \in T : ~(y < k)
      BY <3>1, Least
    <3>3. k \in 2..(i - 1) /\ k \notin v
      BY <3>2
    <3>4. Up(k)
      BY <2>0, <3>2, <3>3
    <3>5. k \in x
      BY <1>2, <2>0, <3>3, <3>4
    <3> QED
      BY <2>2, <3>3, <3>5
  <2> QED
    BY <2>1, <2>2
<1>5. ASSUME NEW i \in Bit PROVE i \in Minus(x, Four) <=> i \in v /\ i # 1
  <2>1. CASE i >= 2
    <3>1. i # 1
      BY <2>1
    <3> HIDE DEF Up, Down
    <3> QED
      BY <1>2, <1>3, <1>4, <2>1, <3>1
  <2>2. CASE ~(i >= 2)
    <3> HIDE DEF Up, Down
    <3> QED
      BY <1>2, <1>3, <2>2
  <2> QED
    BY <2>1, <2>2
<1>6. Minus(x, Four) \subseteq Bit /\ v \subseteq Bit
  BY DEF Minus, AddWithCarry, Word
<1> QED
  BY <1>5, <1>6 DEF x

----------------------------------------------------------------------------
(* The numbers that words stand for, and the words of numbers. *)

(* A half has one writing in hexadecimal digits.                           *)
LEMMA SameDigits ==
    ASSUME NEW x, NEW y, NEW l0, NEW l1, NEW l2, NEW l3,
           Quad(Digit(x, l0), Digit(x, l1), Digit(x, l2), Digit(x, l3))
             = Quad(Digit(y, l0), Digit(y, l1), Digit(y, l2), Digit(y, l3))
    PROVE  /\ Digit(x, l0) = Digit(y, l0) /\ Digit(x, l1) = Digit(y, l1)
           /\ Digit(x, l2) = Digit(y, l2) /\ Digit(x, l3) = Digit(y, l3)
<1>1. PICK a0 \in 0..15, a1 \in 0..15, a2 \in 0..15, a3 \in 0..15 :
        a0 = Digit(x, l0) /\ a1 = Digit(x, l1) /\ a2 = Digit(x, l2) /\ a3 = Digit(x, l3)
  BY DigitRange
<1>2. PICK b0 \in 0..15, b1 \in 0..15, b2 \in 0..15, b3 \in 0..15 :
        b0 = Digit(y, l0) /\ b1 = Digit(y, l1) /\ b2 = Digit(y, l2) /\ b3 = Digit(y, l3)
  BY DigitRange
<1>3. Quad(a0, a1, a2, a3) = Quad(b0, b1, b2, b3)
  BY <1>1, <1>2
<1>4. a0 = b0 /\ a1 = b1 /\ a2 = b2 /\ a3 = b3
  BY <1>3 DEF Quad
<1> QED
  BY <1>1, <1>2, <1>4

(* Words with the same halves are the same.                                *)
LEMMA WordsByHalves ==
    ASSUME NEW x \in Word, NEW y \in Word, Hi(x) = Hi(y), Lo(x) = Lo(y)
    PROVE  x = y
<1>1. /\ Digit(x, 0) = Digit(y, 0) /\ Digit(x, 4) = Digit(y, 4)
      /\ Digit(x, 8) = Digit(y, 8) /\ Digit(x, 12) = Digit(y, 12)
  BY HalvesOf, SameDigits
<1>2. /\ Digit(x, 16) = Digit(y, 16) /\ Digit(x, 20) = Digit(y, 20)
      /\ Digit(x, 24) = Digit(y, 24) /\ Digit(x, 28) = Digit(y, 28)
  BY HalvesOf, SameDigits
<1>5. ASSUME NEW l \in Nat, Digit(x, l) = Digit(y, l)
      PROVE  /\ l \in x <=> l \in y
             /\ l + 1 \in x <=> l + 1 \in y
             /\ l + 2 \in x <=> l + 2 \in y
             /\ l + 3 \in x <=> l + 3 \in y
  BY <1>5 DEF Digit
<1>6. /\ \A i \in {0, 1, 2, 3, 4, 5, 6, 7} : i \in x <=> i \in y
      /\ \A i \in {8, 9, 10, 11, 12, 13, 14, 15} : i \in x <=> i \in y
      /\ \A i \in {16, 17, 18, 19, 20, 21, 22, 23} : i \in x <=> i \in y
      /\ \A i \in {24, 25, 26, 27, 28, 29, 30, 31} : i \in x <=> i \in y
  BY <1>1, <1>2, <1>5
<1>7. x \subseteq 0..31 /\ y \subseteq 0..31
  BY DEF Word, Bit
<1>8. \A i \in 0..31 : i \in x <=> i \in y
  BY <1>6
<1> QED
  BY <1>7, <1>8

(* A word is twice its bits from 1 on, and bit 0.                          *)
LEMMA TwiceTheRest ==
    ASSUME NEW x \in Word
    PROVE  ToNat(x) = (IF 0 \in x THEN 1 ELSE 0) + 2 * ToNat(ShiftRight(x, 1))
<1> DEFINE y    == ShiftRight(x, 1)
           b(i) == IF i \in x THEN 1 ELSE 0
<1>1. (\A i \in 0..30 : i \in y <=> i + 1 \in x) /\ 31 \notin y
  BY DEF ShiftRight, Word, Bit
<1>2. \A i : b(i) \in Int
  OBVIOUS
<1>3. \A l \in {0, 4, 8, 12, 16, 20, 24} :
         Digit(y, l) = b(l + 1) + 2 * b(l + 2) + 4 * b(l + 3) + 8 * b(l + 4)
  <2> SUFFICES ASSUME NEW l \in {0, 4, 8, 12, 16, 20, 24}
               PROVE  Digit(y, l) = b(l + 1) + 2 * b(l + 2) + 4 * b(l + 3) + 8 * b(l + 4)
    OBVIOUS
  <2>1. /\ l \in y <=> l + 1 \in x
        /\ l + 1 \in y <=> l + 2 \in x
        /\ l + 2 \in y <=> l + 3 \in x
        /\ l + 3 \in y <=> l + 4 \in x
    BY <1>1
  <2> QED
    BY <2>1 DEF Digit
<1>4. Digit(y, 28) = b(29) + 2 * b(30) + 4 * b(31)
  BY <1>1 DEF Digit
<1>5. \A l \in {0, 4, 8, 12, 16, 20, 24, 28} :
         Digit(x, l) = b(l) + 2 * b(l + 1) + 4 * b(l + 2) + 8 * b(l + 3)
  BY DEF Digit
<1> HIDE DEF y, b
<1>6. ToNat(x) = b(0) + 2 * ToNat(y)
  BY <1>2, <1>3, <1>4, <1>5 DEF ToNat
<1> QED
  BY <1>6 DEF y, b

(* The powers of two that the bits of a word stand for.                    *)
LEMMA NextPower == \A i \in 0..30 : 2^(i + 1) = 2 * 2^i /\ 2^i \in Nat /\ 2^i > 0
<1>1. PICK pow : pow = [i \in 0..31 |-> 2^i]
  OBVIOUS
<1>2. /\ pow[0] = 1 /\ pow[1] = 2 /\ pow[2] = 4 /\ pow[3] = 8
      /\ pow[4] = 16 /\ pow[5] = 32 /\ pow[6] = 64 /\ pow[7] = 128
      /\ pow[8] = 256 /\ pow[9] = 512 /\ pow[10] = 1024 /\ pow[11] = 2048
      /\ pow[12] = 4096 /\ pow[13] = 8192 /\ pow[14] = 16384 /\ pow[15] = 32768
      /\ pow[16] = 65536 /\ pow[17] = 131072 /\ pow[18] = 262144 /\ pow[19] = 524288
      /\ pow[20] = 1048576 /\ pow[21] = 2097152 /\ pow[22] = 4194304 /\ pow[23] = 8388608
      /\ pow[24] = 16777216 /\ pow[25] = 33554432 /\ pow[26] = 67108864 /\ pow[27] = 134217728
      /\ pow[28] = 268435456 /\ pow[29] = 536870912 /\ pow[30] = 1073741824 /\ pow[31] = 2147483648
  BY <1>1
<1>3. \A i \in 0..30 : pow[i + 1] = 2 * pow[i] /\ pow[i] \in Nat /\ pow[i] > 0
  BY <1>2
<1>4. \A i \in 0..30 : pow[i] = 2^i /\ pow[i + 1] = 2^(i + 1)
  BY <1>1
<1> QED
  BY <1>3, <1>4

(* The quotient by twice a number is half the quotient.                    *)
LEMMA HalfTheQuotient ==
    ASSUME NEW n \in Nat, NEW p \in Nat, p > 0, NEW b \in {0, 1}, NEW q \in Nat,
           n \div p = b + 2 * q
    PROVE  n \div (2 * p) = q
<1>1. PICK r \in Int : 0 <= r /\ r < p /\ n = p * (b + 2 * q) + r
  OBVIOUS
<1>2. n = (2 * p) * q + (p * b + r) /\ 0 <= p * b + r /\ p * b + r < 2 * p
  BY <1>1
<1> QED
  BY <1>2

(* The number of a word, divided by a power of two, is that of the word    *)
(* shifted.                                                                *)
LEMMA ShiftDivides ==
    ASSUME NEW x \in Word
    PROVE  \A i \in 0..31 : ToNat(x) \div 2^i = ToNat(ShiftRight(x, i))
<1> DEFINE n == ToNat(x)
           T == {i \in 0..31 : n \div 2^i = ToNat(ShiftRight(x, i))}
<1>0. \A y : ToNat(y) \in Nat
  BY HalvesOf
<1>1. 0 \in T
  <2>1. ShiftRight(x, 0) = x
    <3>1. x \subseteq 0..31 /\ \A i \in 0..31 : i + 0 = i
      BY DEF Word, Bit
    <3>2. ShiftRight(x, 0) = {i \in 0..31 : i + 0 \in x}
      BY DEF ShiftRight, Bit
    <3> QED
      BY <3>1, <3>2
  <2>2. n \in Nat /\ 2^0 = 1
    BY <1>0
  <2>3. n \div 2^0 = n
    BY <2>2
  <2> QED
    BY <2>1, <2>3
<1>2. ASSUME NEW i \in 0..30, i \in T PROVE i + 1 \in T
  <2> DEFINE y == ShiftRight(x, i)
             z == ShiftRight(x, i + 1)
             b == IF 0 \in y THEN 1 ELSE 0
  <2>1. y \in Word
    BY WordsAreClosed
  <2>2. ShiftRight(y, 1) = z
    <3>1. \A j \in 0..31 : j \in ShiftRight(y, 1) <=> j \in z
      <4> SUFFICES ASSUME NEW j \in 0..31 PROVE j \in ShiftRight(y, 1) <=> j \in z
        OBVIOUS
      <4>1. (j + 1) + i = j + (i + 1)
        OBVIOUS
      <4>2. j + (i + 1) \in x => j + 1 \in 0..31
        BY DEF Word, Bit
      <4> QED
        BY <4>1, <4>2 DEF ShiftRight, Bit
    <3>2. ShiftRight(y, 1) \subseteq 0..31 /\ z \subseteq 0..31
      BY DEF ShiftRight, Bit
    <3> QED
      BY <3>1, <3>2
  <2>3. n \div 2^i = b + 2 * ToNat(z)
    BY <1>2, <2>1, <2>2, TwiceTheRest
  <2>4. PICK p \in Nat : p > 0 /\ p = 2^i /\ 2^(i + 1) = 2 * p
    BY NextPower
  <2>5. PICK q \in Nat : q = ToNat(z)
    BY <1>0
  <2>6. n \in Nat /\ b \in {0, 1}
    BY <1>0
  <2> HIDE DEF n, b, z
  <2>7. n \div (2 * p) = q
    <3>1. n \div p = b + 2 * q
      BY <2>3, <2>4, <2>5
    <3>2. p > 0
      BY <2>4
    <3> QED
      BY <2>6, <3>1, <3>2, HalfTheQuotient
  <2>8. n \div 2^(i + 1) = ToNat(z)
    BY <2>4, <2>5, <2>7
  <2>9. i + 1 \in 0..31
    OBVIOUS
  <2> QED
    BY <2>8, <2>9 DEF z
<1> HIDE DEF T
<1>3. ASSUME NEW k \in 0..31, \A j \in 0..(k - 1) : j \in T PROVE k \in T
  <2>1. CASE k = 0
    BY <1>1, <2>1
  <2>2. CASE k # 0
    <3>1. k - 1 \in 0..30 /\ k - 1 \in 0..(k - 1) /\ (k - 1) + 1 = k
      BY <2>2
    <3> QED
      BY <1>2, <1>3, <3>1
  <2> QED
    BY <2>1, <2>2
<1>4. \A k \in 0..31 : k \in T
  <2>1. 31 \in Nat
    OBVIOUS
  <2> QED
    BY <1>3, <2>1, Inductive
<1> QED
  BY <1>4 DEF T

(* The word of the number of a word below 2^31 is that word.               *)
LEMMA ToWordOfToNat ==
    ASSUME NEW x \in Word, 31 \notin x
    PROVE  ToWord(ToNat(x)) = x
<1> DEFINE n == ToNat(x)
<1>1. ASSUME NEW i \in 0..30 PROVE (n \div 2^i) % 2 = 1 <=> i \in x
  <2> DEFINE y == ShiftRight(x, i)
  <2>1. y \in Word /\ (0 \in y <=> i \in x)
    <3>1. 0 + i = i /\ 0 \in 0..31
      OBVIOUS
    <3>2. 0 \in y <=> 0 \in 0..31 /\ 0 + i \in x
      BY DEF ShiftRight, Bit
    <3> QED
      BY <3>1, <3>2, WordsAreClosed
  <2>2. n \div 2^i = ToNat(y)
    <3>1. i \in 0..31
      OBVIOUS
    <3> QED
      BY <3>1, ShiftDivides
  <2>3. PICK q \in Nat : q = ToNat(ShiftRight(y, 1))
    BY HalvesOf
  <2> HIDE DEF y, n
  <2>4. ToNat(y) = (IF 0 \in y THEN 1 ELSE 0) + 2 * q
    BY <2>1, <2>3, TwiceTheRest
  <2> QED
    BY <2>1, <2>2, <2>4
<1>2. \A i \in x : i \in 0..30
  BY DEF Word, Bit
<1> HIDE DEF n
<1>3. ToWord(n) = x
  BY <1>1, <1>2 DEF ToWord
<1> QED
  BY <1>3 DEF n

(* The sum and the difference of words, as numbers.                        *)
LEMMA NumbersOf ==
    ASSUME NEW x \in Word, NEW y \in Word
    PROVE  /\ \E h \in {0, 1} : ToNat(x) + ToNat(y) = ToNat(Plus(x, y)) + 4294967296 * h
           /\ \E h \in {-1, 0} : ToNat(x) - ToNat(y) = ToNat(Minus(x, y)) + 4294967296 * h
           /\ ToNat(x) \in Nat /\ ToNat(x) < 4294967296
           /\ 31 \in x <=> ToNat(x) >= 2147483648
           /\ ToNat(x) = ToNat(y) => x = y
<1>1. PICK a \in Nat, b \in Nat, d \in Nat, e \in Nat :
        /\ a = Lo(x) /\ b = Lo(y) /\ d = Hi(x) /\ e = Hi(y)
        /\ a < 65536 /\ b < 65536 /\ d < 65536 /\ e < 65536
  BY HalvesOf
<1>2. ToNat(x) = a + 65536 * d /\ ToNat(y) = b + 65536 * e
  BY <1>1, HalvesOf
<1>4. \E h \in {0, 1} : ToNat(x) + ToNat(y) = ToNat(Plus(x, y)) + 4294967296 * h
  <2>1. PICK k \in {0, 1}, h \in {0, 1} :
             /\ Lo(x) + Lo(y) = Lo(Plus(x, y)) + 65536 * k
             /\ Hi(x) + Hi(y) + k = Hi(Plus(x, y)) + 65536 * h
    BY PlusHalves
  <2>2. PICK c \in Nat, f \in Nat : 
          c = Lo(Plus(x, y)) /\ f = Hi(Plus(x, y)) /\ ToNat(Plus(x, y)) = c + 65536 * f
    BY HalvesOf
  <2>3. a + b = c + 65536 * k /\ d + e + k = f + 65536 * h
    BY <1>1, <2>1, <2>2
  <2>4. (a + 65536 * d) + (b + 65536 * e) = (c + 65536 * f) + 4294967296 * h
    BY <2>3
  <2> QED
    BY <1>2, <2>2, <2>4
<1>5. \E h \in {-1, 0} : ToNat(x) - ToNat(y) = ToNat(Minus(x, y)) + 4294967296 * h
  <2>1. PICK k \in {-1, 0}, h \in {-1, 0} :
             /\ Lo(x) - Lo(y) = Lo(Minus(x, y)) + 65536 * k
             /\ Hi(x) - Hi(y) + k = Hi(Minus(x, y)) + 65536 * h
    BY MinusHalves
  <2>2. PICK c \in Nat, f \in Nat : 
          c = Lo(Minus(x, y)) /\ f = Hi(Minus(x, y)) /\ ToNat(Minus(x, y)) = c + 65536 * f
    BY HalvesOf
  <2>3. a - b = c + 65536 * k /\ d - e + k = f + 65536 * h
    BY <1>1, <2>1, <2>2
  <2>4. (a + 65536 * d) - (b + 65536 * e) = (c + 65536 * f) + 4294967296 * h
    BY <2>3
  <2> QED
    BY <1>2, <2>2, <2>4
<1>6. ToNat(x) \in Nat /\ ToNat(x) < 4294967296
  BY <1>1, <1>2
<1>7. 31 \in x <=> ToNat(x) >= 2147483648
  <2>1. 31 \in x <=> d >= 32768
    BY <1>1, SignAndZero
  <2>2. d >= 32768 <=> a + 65536 * d >= 2147483648
    BY <1>1
  <2> QED
    BY <1>2, <2>1, <2>2
<1>8. ToNat(x) = ToNat(y) => x = y
  <2>1. ASSUME a + 65536 * d = b + 65536 * e PROVE a = b /\ d = e
    <3>1. a - b = 65536 * (e - d) /\ a - b < 65536 /\ b - a < 65536
      BY <1>1, <2>1
    <3>2. e - d = 0
      BY <3>1
    <3> QED
      BY <3>1, <3>2
  <2> QED
    BY <1>1, <1>2, <2>1, WordsByHalves
<1> QED
  BY <1>4, <1>5, <1>6, <1>7, <1>8

(* Four more than a word with bit 1 clear, below 2^31.                     *)
LEMMA FourMore ==
    ASSUME NEW x \in Word, 1 \notin x, ToNat(x) < 2147483640, NEW y, y = Plus(x, Four)
    PROVE  y \in Word /\ 1 \notin y /\ ToNat(y) = ToNat(x) + 4 /\ y = ToWord(ToNat(x) + 4)
<1>1. y \in Word /\ Four \in Word
  BY WordsAreClosed
<1>2. 1 \notin y
  <2>1. 1 \in Bit /\ ~(1 >= 2)
    BY DEF Bit
  <2> QED
    BY <2>1, FourBits
<1>3. ToNat(Four) = 4
  <2>1. Digit(Four, 0) = 4 /\ \A l \in {4, 8, 12, 16, 20, 24, 28} : Digit(Four, l) = 0
    BY DEF Digit, Four
  <2> QED
    BY <2>1 DEF ToNat
<1>4. PICK n \in Nat, m \in Nat : n = ToNat(x) /\ m = ToNat(y) /\ m < 4294967296
  BY <1>1, NumbersOf
<1>5. PICK h \in {0, 1} : n + 4 = m + 4294967296 * h
  BY <1>1, <1>3, <1>4, NumbersOf
<1>6. m = n + 4 /\ m < 2147483648
  BY <1>4, <1>5
<1>7. 31 \notin y
  <2>1. 31 \in y <=> ToNat(y) >= 2147483648
    BY <1>1, NumbersOf, SMT
  <2> QED
    BY <1>4, <1>6, <2>1, SMT
<1>8. y = ToWord(m)
  BY <1>1, <1>4, <1>7, ToWordOfToNat
<1> QED
  BY <1>1, <1>2, <1>4, <1>6, <1>8

----------------------------------------------------------------------------
(* The shifter operand is a word.                                          *)
LEMMA OperandIsWord ==
    ASSUME NEW r \in RegistersSet, NEW ins \in Word
    PROVE  ShifterOperand(r, ins).value \in Word
<1> DEFINE rm == arm_read_register(r, get_bits(ins, 3, 0))
<1>1. rm \in Word
  BY RegisterFields, ReadsAreWords
<1>2. ASSUME NEW c PROVE ImmediateOperand(ins, c).value \in Word
  BY WordsAreClosed DEF ImmediateOperand, Shifted
<1>3. ASSUME NEW kind, NEW n, NEW c PROVE ShiftByImmediate(rm, kind, n, c).value \in Word
  <2>1. ShiftRight(rm, 1) \cup (IF c THEN {31} ELSE {}) \in Word
    BY DEF ShiftRight, Word, Bit
  <2> HIDE DEF rm
  <2> QED
    BY <2>1, WordsAreClosed DEF ShiftByImmediate, Shifted
<1>4. ASSUME NEW kind, NEW n \in Nat, NEW c PROVE ShiftByRegister(rm, kind, n, c).value \in Word
  <2> HIDE DEF rm
  <2> QED
    BY <1>1, WordsAreClosed DEF ShiftByRegister, Shifted
<1>5. get_bits(arm_read_register(r, get_bits(ins, 11, 8)), 7, 0) \in Nat
  BY RegisterFields
<1> HIDE DEF rm
<1> QED
  BY <1>2, <1>3, <1>4, <1>5 DEF ShifterOperand, rm

(* The result of each of the sixteen operations is a word.                 *)
LEMMA ResultIsWord ==
    ASSUME NEW op \in 0..15, NEW a \in Word, NEW b \in Word, NEW c
    PROVE  Result(op, a, b, c) \in Word
<1>1. /\ a \cap b \in Word /\ Xor(a, b) \in Word /\ a \cup b \in Word /\ a \cap Not(b) \in Word
      /\ Not(b) \in Word
  BY WordsAreClosed, BitwiseClosed
<1>2. /\ Minus(a, b) \in Word /\ Minus(b, a) \in Word /\ Plus(a, b) \in Word
      /\ Plus(Plus(a, b), BitWord(c)) \in Word
      /\ Minus(Minus(a, b), BitWord(~c)) \in Word /\ Minus(Minus(b, a), BitWord(~c)) \in Word
  BY WordsAreClosed
<1> QED
  BY <1>1, <1>2 DEF Result

(* The flags are written into the upper bits, whatever they are.           *)
LEMMA FlagsAreTyped ==
    ASSUME NEW r \in RegistersSet, NEW n, NEW z, NEW c, NEW v
    PROVE  /\ write_flags(r, n, z, c, v) \in RegistersSet
           /\ read_cpsr(write_flags(r, n, z, c, v)) \cap 0..27 = read_cpsr(r) \cap 0..27
           /\ \A i \in 1..5 : write_flags(r, n, z, c, v).psr[i] = r.psr[i]
<1> DEFINE new == (read_cpsr(r) \cap 0..27) \cup FlagBits(n, z, c, v)
           masque == IF in_a_privileged_mode(r) THEN PrivilegedMasque ELSE UserMasque
<1>1. FlagBits(n, z, c, v) \subseteq 28..31
  BY DEF FlagBits, N, Z, C, V
<1>2. read_cpsr(r) \in Word
  BY DEF read_cpsr, RegistersSet
<1>3. new \in Word
  BY <1>1, <1>2 DEF Word, Bit
<1>4. write_flags(r, n, z, c, v) = [r EXCEPT !.psr[0] = Masked(@, masque, new)]
  BY DEF write_flags, write_cpsr
<1>5. Masked(read_cpsr(r), masque, new) \cap 0..27 = read_cpsr(r) \cap 0..27
  BY <1>1, <1>2 DEF Masked, Not, Word, Bit
<1>6. r.psr \in [0..5 -> Word]
  BY DEF RegistersSet
<1>7. write_flags(r, n, z, c, v).psr = [r.psr EXCEPT ![0] = Masked(r.psr[0], masque, new)]
  BY <1>4 DEF RegistersSet
<1>8. write_flags(r, n, z, c, v) \in RegistersSet
  BY <1>3, InstructionWrites DEF write_flags
<1> HIDE DEF masque, new
<1> QED
  BY <1>5, <1>6, <1>7, <1>8 DEF read_cpsr

(* A data-processing instruction keeps the group well formed.              *)
LEMMA DataProcessingIsTyped ==
    ASSUME NEW r \in RegistersSet, NEW ins \in Word
    PROVE  arm_data_processing_shift(r, ins) \in RegistersSet
<1> DEFINE op      == get_bits(ins, 24, 21)
           rn      == get_bits(ins, 19, 16)
           rd      == get_bits(ins, 15, 12)
           operand == ShifterOperand(r, ins)
           res     == Result(op, arm_read_register(r, rn), operand.value, C \in read_cpsr(r))
           r1      == write_register(r, rd, res)
<1>1. op \in 0..15 /\ rn \in 0..15 /\ rd \in 0..15
  BY RegisterFields
<1>2. res \in Word
  BY <1>1, OperandIsWord, ReadsAreWords, ResultIsWord
<1>3. r1 \in RegistersSet
  BY <1>1, <1>2, InstructionWrites
<1>4. UpdateFlags(r, op, rn, res, operand) \in RegistersSet
  BY FlagsAreTyped DEF UpdateFlags
<1>5. UpdateFlags(r1, op, rn, res, operand) \in RegistersSet
  BY <1>3, FlagsAreTyped DEF UpdateFlags
<1>6. RestoreCpsr(r1) \in RegistersSet
  <2> HIDE DEF r1
  <2>1. read_spsr(r1) \in Word /\ 0 \in 0..15
    BY <1>3, ReadsAreWords
  <2> QED
    BY <1>3, <2>1, InstructionWrites DEF RestoreCpsr
<1> HIDE DEF op, rn, rd, operand, res, r1
<1>7. arm_data_processing_shift(r, ins) =
        IF OperandUndefined(ins) THEN r
        ELSE IF op \in TestOps THEN UpdateFlags(r, op, rn, res, operand)
        ELSE IF 20 \notin ins THEN r1
        ELSE IF rd = 15 THEN RestoreCpsr(r1)
        ELSE UpdateFlags(r1, op, rn, res, operand)
  BY DEF arm_data_processing_shift, op, rn, rd, operand, res, r1
<1> QED
  BY <1>3, <1>4, <1>5, <1>6, <1>7

(* The SPSRs and, but for an exception return, CPSR below the flags keep   *)
(* their values.                                                           *)
LEMMA ControlBitsStay ==
    ASSUME NEW r \in RegistersSet, NEW ins \in Word
    PROVE  /\ \/ read_cpsr(arm_data_processing_shift(r, ins)) \cap 0..27 = read_cpsr(r) \cap 0..27
              \/ /\ ~OperandUndefined(ins) /\ get_bits(ins, 24, 21) \notin TestOps
                 /\ 20 \in ins /\ get_bits(ins, 15, 12) = 15 /\ current_mode_has_spsr(r)
           /\ \A i \in 1..5 : arm_data_processing_shift(r, ins).psr[i] = r.psr[i]
<1> DEFINE op      == get_bits(ins, 24, 21)
           rn      == get_bits(ins, 19, 16)
           rd      == get_bits(ins, 15, 12)
           operand == ShifterOperand(r, ins)
           res     == Result(op, arm_read_register(r, rn), operand.value, C \in read_cpsr(r))
           r1      == write_register(r, rd, res)
<1>1. op \in 0..15 /\ rn \in 0..15 /\ rd \in 0..15
  BY RegisterFields
<1>2. res \in Word
  BY <1>1, OperandIsWord, ReadsAreWords, ResultIsWord
<1>3. r1 \in RegistersSet
  BY <1>1, <1>2, InstructionWrites
<1>4. r1.psr = r.psr
  BY DEF write_register, RegistersSet
<1> DEFINE u == UpdateFlags(r, op, rn, res, operand)
           u1 == UpdateFlags(r1, op, rn, res, operand)
           s1 == RestoreCpsr(r1)
<1>5. read_cpsr(u) \cap 0..27 = read_cpsr(r) \cap 0..27 /\ \A i \in 1..5 : u.psr[i] = r.psr[i]
  BY FlagsAreTyped DEF UpdateFlags
<1>6. read_cpsr(u1) \cap 0..27 = read_cpsr(r1) \cap 0..27 /\ \A i \in 1..5 : u1.psr[i] = r1.psr[i]
  BY <1>3, FlagsAreTyped DEF UpdateFlags
<1>7. (s1 = r1 \/ current_mode_has_spsr(r1)) /\ \A i \in 1..5 : s1.psr[i] = r1.psr[i]
  <2> HIDE DEF r1
  <2> QED
    BY <1>3 DEF RestoreCpsr, write_cpsr, RegistersSet
<1>8. current_mode_has_spsr(r1) = current_mode_has_spsr(r) /\ read_cpsr(r1) = read_cpsr(r)
  BY <1>4 DEF current_mode_has_spsr, get_mode, read_cpsr
<1>9. arm_data_processing_shift(r, ins) =
        IF OperandUndefined(ins) THEN r
        ELSE IF op \in TestOps THEN u
        ELSE IF 20 \notin ins THEN r1
        ELSE IF rd = 15 THEN s1
        ELSE u1
  BY DEF arm_data_processing_shift
<1> HIDE DEF op, rn, rd, operand, res, r1, u, u1, s1
<1> QED
  BY <1>4, <1>5, <1>6, <1>7, <1>8, <1>9 DEF op, rd

(* The flags that are written are read back, in every mode.                *)
LEMMA FlagsReadBack ==
    ASSUME NEW r \in RegistersSet, NEW n \in BOOLEAN, NEW z \in BOOLEAN, NEW c \in BOOLEAN,
           NEW v \in BOOLEAN, NEW u, u = write_flags(r, n, z, c, v)
    PROVE  /\ N \in read_cpsr(u) <=> n
           /\ Z \in read_cpsr(u) <=> z
           /\ C \in read_cpsr(u) <=> c
           /\ V \in read_cpsr(u) <=> v
<1> DEFINE new == (read_cpsr(r) \cap 0..27) \cup FlagBits(n, z, c, v)
<1>0. PICK masque \in {PrivilegedMasque, UserMasque} : u = [r EXCEPT !.psr[0] = Masked(@, masque, new)]
  BY DEF write_flags, write_cpsr
<1>1. \A i \in 28..31 : i \notin masque
  BY DEF PrivilegedMasque, UserMasque
<1>2. read_cpsr(u) = Masked(read_cpsr(r), masque, new)
  <2> HIDE DEF new
  <2> QED
    BY <1>0 DEF RegistersSet, read_cpsr
<1>3. \A i \in 28..31 : i \in read_cpsr(u) <=> i \in FlagBits(n, z, c, v)
  BY <1>1, <1>2 DEF Masked, Not, Bit
<1>4. /\ N \in FlagBits(n, z, c, v) <=> n
      /\ Z \in FlagBits(n, z, c, v) <=> z
      /\ C \in FlagBits(n, z, c, v) <=> c
      /\ V \in FlagBits(n, z, c, v) <=> v
  BY DEF FlagBits, N, Z, C, V
<1>5. N \in 28..31 /\ Z \in 28..31 /\ C \in 28..31 /\ V \in 28..31
  BY DEF N, Z, C, V
<1> QED
  BY <1>3, <1>4, <1>5

(* The group in which an instruction that sets the flags computes them     *)
(* gives it the operands it computed with, unless it wrote its own first   *)
(* operand.                                                                *)
LEMMA FlagsAfter ==
    ASSUME NEW r \in RegistersSet, NEW i \in Word, ~OperandUndefined(i),
           NEW op, op = get_bits(i, 24, 21), NEW rn, rn = get_bits(i, 19, 16),
           NEW rd, rd = get_bits(i, 15, 12),
           op \in TestOps \/ (20 \in i /\ rd # 15 /\ rd # rn),
           NEW a, a = arm_read_register(r, rn),
           NEW operand, operand = ShifterOperand(r, i),
           NEW c, c = (C \in read_cpsr(r)),
           NEW res, res = Result(op, a, operand.value, c)
    PROVE  \E r2 \in RegistersSet :
             arm_data_processing_shift(r, i) =
               write_flags(r2, 31 \in res, res = Zero, FlagC(op, a, operand.value, c, operand.carry),
                           FlagV(op, a, operand.value, c))
<1> DEFINE r1 == write_register(r, rd, res)
<1>1. op \in 0..15 /\ rn \in 0..15 /\ rd \in 0..15
  BY RegisterFields
<1>2. res \in Word
  BY <1>1, OperandIsWord, ReadsAreWords, ResultIsWord
<1>3. r1 \in RegistersSet
  BY <1>1, <1>2, InstructionWrites
<1>4. r1.psr = r.psr
  BY DEF write_register, RegistersSet
<1>5. read_cpsr(r1) = read_cpsr(r)
  BY <1>4 DEF read_cpsr
<1>6. rd # rn => arm_read_register(r1, rn) = a
  BY <1>1, ReadAfterWrite DEF arm_read_register
<1>7. op \in TestOps => arm_data_processing_shift(r, i) = UpdateFlags(r, op, rn, res, operand)
  BY DEF arm_data_processing_shift
<1>8. op \notin TestOps => arm_data_processing_shift(r, i) = UpdateFlags(r1, op, rn, res, operand)
  BY DEF arm_data_processing_shift
<1> HIDE DEF r1
<1>9. CASE op \in TestOps
  BY <1>7, <1>9 DEF UpdateFlags
<1>10. CASE op \notin TestOps
  BY <1>3, <1>5, <1>6, <1>8, <1>10 DEF UpdateFlags
<1> QED
  BY <1>9, <1>10
============================================================================
