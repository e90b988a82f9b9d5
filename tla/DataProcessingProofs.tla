------------------------ MODULE DataProcessingProofs ------------------------
(* Proofs about sequences of data-processing instructions, for every set   *)
(* of instruction words, every register group and every length.            *)
EXTENDS DataProcessing, ArmDataProcessingProofs

(* The group stays a well-formed struct whatever is executed.              *)
THEOREM DpTypeCorrect == Spec => []DpTypeOK
<1>1. Init => DpTypeOK
  BY DataProcessingAssumption DEF Init, DpTypeOK, Zero, Word
<1>2. DpTypeOK /\ [Next]_vars => DpTypeOK'
  <2> SUFFICES ASSUME DpTypeOK, [Next]_vars PROVE DpTypeOK'
    OBVIOUS
  <2>1. ASSUME NEW i \in Instructions, Execute(i) PROVE DpTypeOK'
    <3>1. reg' \in RegistersSet
      BY <2>1, DataProcessingIsTyped, DataProcessingAssumption DEF Execute, DpTypeOK
    <3> QED
      BY <2>1, <3>1, DataProcessingAssumption DEF Execute, DpTypeOK
  <2>2. CASE UNCHANGED vars
    BY <2>2 DEF vars, DpTypeOK
  <2> QED
    BY <2>1, <2>2 DEF Next
<1> QED
  BY <1>1, <1>2, PTL DEF Spec

(***************************************************************************)
(* No instruction writes an SPSR, and none but an exception return changes *)
(* the mode, the interrupt masks or the reserved bits of CPSR.             *)
(***************************************************************************)
THEOREM ControlBitsAreKept == Spec => ControlBitsKept
<1> DEFINE Kept ==
      /\ read_cpsr(reg') \cap 0..27 # read_cpsr(reg) \cap 0..27 =>
           Writes /\ 20 \in ins' /\ Rd = 15 /\ current_mode_has_spsr(reg)
      /\ \A i \in 1..5 : reg'.psr[i] = reg.psr[i]
<1>1. DpTypeOK /\ [Next]_vars => [Kept]_vars
  <2> SUFFICES ASSUME DpTypeOK, NEW i \in Instructions, Execute(i) PROVE Kept
    BY DEF Next
  <2>1. i \in Word /\ reg \in RegistersSet
    BY DataProcessingAssumption DEF DpTypeOK
  <2>2. reg' = arm_data_processing_shift(reg, i) /\ ins' = i
    BY DEF Execute
  <2> QED
    BY <2>1, <2>2, ControlBitsStay DEF Writes, Op, Rd
<1> QED
  BY <1>1, DpTypeCorrect, PTL DEF Spec, ControlBitsKept

----------------------------------------------------------------------------
(* The fields of a result of the reference arithmetic.                     *)
LEMMA ExactFields ==
    ASSUME NEW e, NEW l, NEW h, NEW c, NEW v, e = [lo |-> l, hi |-> h, carry |-> c, overflow |-> v]
    PROVE  e.lo = l /\ e.hi = h /\ e.carry = c /\ e.overflow = v
BY Zenon

(* e has the halves L and H, with the carry h out of the word and, from    *)
(* the signed upper half shi and the carry q into it, the overflow.        *)
HasHalves(e, L, H, shi, q, h) ==
    /\ e.lo = L /\ e.hi = H
    /\ e.carry \in BOOLEAN /\ e.overflow \in BOOLEAN
    /\ e.carry <=> h # 0
    /\ e.overflow <=> (shi + q < -32768 \/ shi + q > 32767)

(* lo and hi, taken together, are the halves L and H, with the carry q out *)
(* of the lower and h out of the upper one.                                *)
Spread(lo, hi, L, H, q, h) ==
    /\ lo \in Int /\ hi \in Int /\ q \in {-1, 0, 1} /\ h \in {-1, 0, 1}
    /\ L \in Nat /\ L < 65536 /\ H \in Nat /\ H < 65536
    /\ lo = L + 65536 * q /\ hi + q = H + 65536 * h

(* The reference arithmetic, where the halves of the result are known.     *)
LEMMA ExactHalves ==
    ASSUME NEW lo, NEW hi, NEW shi \in Int, NEW q, NEW h, NEW L, NEW H, Spread(lo, hi, L, H, q, h)
    PROVE  HasHalves(Exact(lo, hi, shi), L, H, shi, q, h)
<1>0. /\ lo \in Int /\ hi \in Int /\ q \in {-1, 0, 1} /\ h \in {-1, 0, 1}
      /\ L \in Nat /\ L < 65536 /\ H \in Nat /\ H < 65536
      /\ lo = L + 65536 * q /\ hi + q = H + 65536 * h
  BY DEF Spread
<1> DEFINE over == lo \div 65536
           l1   == lo % 65536
           h1   == (hi + over) % 65536
           word == 0..(2^16 - 1)
           sign == (-(2^15))..(2^15 - 1)
           c1   == hi + over \notin word
           v1   == shi + over \notin sign
<1>1. lo = q * 65536 + L /\ hi + q = h * 65536 + H
  BY <1>0
<1>2. over = q /\ l1 = L
  BY <1>0, <1>1, DivMod
<1>3. (hi + q) \div 65536 = h /\ (hi + q) % 65536 = H
  BY <1>0, <1>1, DivMod
<1>4. h1 = H
  BY <1>2, <1>3
<1>5. c1 <=> h # 0
  <2>1. \A n \in Int : n \in word <=> 0 <= n /\ n < 65536
    BY Powers
  <2>2. hi + q \in Int /\ (0 <= hi + q /\ hi + q < 65536 <=> h = 0)
    BY <1>0, <1>1
  <2> HIDE DEF over, word, sign
  <2>3. over = q
    BY <1>0, <1>2
  <2> QED
    BY <1>0, <2>1, <2>2, <2>3
<1>6. v1 <=> (shi + q < -32768 \/ shi + q > 32767)
  <2>1. \A n \in Int : n \in sign <=> ~(n < -32768 \/ n > 32767)
    BY Powers
  <2> HIDE DEF over, word, sign
  <2>3. over = q /\ shi + q \in Int
    BY <1>0, <1>2
  <2> QED
    BY <2>1, <2>3
<1>7. Exact(lo, hi, shi) = [lo |-> l1, hi |-> h1, carry |-> c1, overflow |-> v1]
  BY Powers DEF Exact
<1>b. c1 \in BOOLEAN /\ v1 \in BOOLEAN
  OBVIOUS
<1> HIDE DEF over, l1, h1, c1, v1
<1>8. /\ Exact(lo, hi, shi).lo = l1 /\ Exact(lo, hi, shi).hi = h1
      /\ Exact(lo, hi, shi).carry = c1 /\ Exact(lo, hi, shi).overflow = v1
  BY <1>7, ExactFields
<1>9. Exact(lo, hi, shi).lo = L /\ Exact(lo, hi, shi).hi = H
  BY <1>2, <1>4, <1>8
<1>10. Exact(lo, hi, shi).carry <=> h # 0
  BY <1>5, <1>8
<1>11. Exact(lo, hi, shi).overflow <=> (shi + q < -32768 \/ shi + q > 32767)
  BY <1>6, <1>8
<1>12. Exact(lo, hi, shi).carry \in BOOLEAN /\ Exact(lo, hi, shi).overflow \in BOOLEAN
  BY <1>b, <1>8
<1> QED
  BY <1>9, <1>10, <1>11, <1>12 DEF HasHalves

(* x + y: the halves of Plus(x, y) are exact; a carry out of the word and  *)
(* an overflow of the signed range are seen on the operands and the sum.   *)
LEMMA SumIsExact ==
    ASSUME NEW x \in Word, NEW y \in Word
    PROVE  LET e == ExactAdd(x, y, 0)
               s == Plus(x, y)
           IN  /\ e.lo = Lo(s) /\ e.hi = Hi(s)
               /\ e.carry \in BOOLEAN /\ e.overflow \in BOOLEAN
               /\ e.carry <=> \/ Hi(x) + Hi(y) >= 65536
                              \/ Hi(x) + Hi(y) = 65535 /\ Lo(x) + Lo(y) >= 65536
               /\ e.overflow <=> (31 \in x <=> 31 \in y) /\ ~(31 \in x <=> 31 \in s)
<1> DEFINE s == Plus(x, y)
<1>0. s \in Word
  BY WordsAreClosed
<1>1. PICK k \in {0, 1}, h \in {0, 1} :
        Lo(x) + Lo(y) = Lo(s) + 65536 * k /\ Hi(x) + Hi(y) + k = Hi(s) + 65536 * h
  BY PlusHalves
<1> HIDE DEF s
<1>2. PICK a \in Nat, b \in Nat, c \in Nat :
        a = Lo(x) /\ b = Lo(y) /\ c = Lo(s) /\ a < 65536 /\ b < 65536 /\ c < 65536
  BY HalvesOf
<1>3. PICK d \in Nat, e \in Nat, f \in Nat :
        d = Hi(x) /\ e = Hi(y) /\ f = Hi(s) /\ d < 65536 /\ e < 65536 /\ f < 65536
  BY HalvesOf
<1>4. a + b = c + 65536 * k /\ d + e + k = f + 65536 * h
  BY <1>1, <1>2, <1>3
<1>5. PICK g1 \in Int, g2 \in Int : g1 = SignedHi(x) /\ g2 = SignedHi(y)
        /\ g1 = (IF 31 \in x THEN d - 65536 ELSE d) /\ g2 = (IF 31 \in y THEN e - 65536 ELSE e)
  BY <1>3, Powers DEF SignedHi
<1>6. ExactAdd(x, y, 0) = Exact(a + b, d + e, g1 + g2)
  <2>1. Lo(x) + Lo(y) + 0 = a + b
    BY <1>2
  <2> QED
    BY <2>1, <1>3, <1>5 DEF ExactAdd
<1> DEFINE E == Exact(a + b, d + e, g1 + g2)
<1>7. /\ E.lo = c /\ E.hi = f /\ E.carry \in BOOLEAN /\ E.overflow \in BOOLEAN
      /\ E.carry <=> h # 0
      /\ E.overflow <=> (g1 + g2 + k < -32768 \/ g1 + g2 + k > 32767)
  <2>1. PICK lo \in Int, hi \in Int, shi \in Int : lo = a + b /\ hi = d + e /\ shi = g1 + g2
    OBVIOUS
  <2>2. lo = c + 65536 * k /\ hi + k = f + 65536 * h
    BY <1>4, <2>1
  <2>3. Spread(lo, hi, c, f, k, h)
    BY <1>2, <1>3, <2>2 DEF Spread
  <2>4. HasHalves(Exact(lo, hi, shi), c, f, shi, k, h)
    BY <2>3, ExactHalves
  <2>5. E = Exact(lo, hi, shi)
    BY <2>1
  <2> HIDE DEF E
  <2> QED
    BY <2>1, <2>4, <2>5 DEF HasHalves
<1> HIDE DEF E
<1>8. h # 0 <=> d + e >= 65536 \/ (d + e = 65535 /\ a + b >= 65536)
  BY <1>2, <1>3, <1>4
<1>9. (31 \in x <=> d >= 32768) /\ (31 \in y <=> e >= 32768) /\ (31 \in s <=> f >= 32768)
  BY <1>0, <1>3, SignAndZero
<1>10. (g1 + g2 + k < -32768 \/ g1 + g2 + k > 32767)
         <=> (31 \in x <=> 31 \in y) /\ ~(31 \in x <=> 31 \in s)
  BY <1>3, <1>4, <1>5, <1>9
<1>11. E = ExactAdd(x, y, 0)
  BY <1>6 DEF E
<1> QED
  BY <1>2, <1>3, <1>7, <1>8, <1>10, <1>11 DEF s

(* x - y, likewise.                                                        *)
LEMMA DifferenceIsExact ==
    ASSUME NEW x \in Word, NEW y \in Word
    PROVE  LET e == ExactSub(x, y, 0)
               s == Minus(x, y)
           IN  /\ e.lo = Lo(s) /\ e.hi = Hi(s)
               /\ e.carry \in BOOLEAN /\ e.overflow \in BOOLEAN
               /\ e.carry <=> Less(x, y)
               /\ e.overflow <=> ~(31 \in x <=> 31 \in y) /\ ~(31 \in x <=> 31 \in s)
<1> DEFINE s == Minus(x, y)
<1>0. s \in Word
  BY WordsAreClosed
<1>1. PICK k \in {-1, 0}, h \in {-1, 0} :
        /\ Lo(x) - Lo(y) = Lo(s) + 65536 * k /\ Hi(x) - Hi(y) + k = Hi(s) + 65536 * h
        /\ Borrow(x, y) <=> h = -1
  BY MinusHalves
<1> HIDE DEF s
<1>2. PICK a \in Nat, b \in Nat, c \in Nat :
        a = Lo(x) /\ b = Lo(y) /\ c = Lo(s) /\ a < 65536 /\ b < 65536 /\ c < 65536
  BY HalvesOf
<1>3. PICK d \in Nat, e \in Nat, f \in Nat :
        d = Hi(x) /\ e = Hi(y) /\ f = Hi(s) /\ d < 65536 /\ e < 65536 /\ f < 65536
  BY HalvesOf
<1>4. a - b = c + 65536 * k /\ d - e + k = f + 65536 * h
  BY <1>1, <1>2, <1>3
<1>5. PICK g1 \in Int, g2 \in Int : g1 = SignedHi(x) /\ g2 = SignedHi(y)
        /\ g1 = (IF 31 \in x THEN d - 65536 ELSE d) /\ g2 = (IF 31 \in y THEN e - 65536 ELSE e)
  BY <1>3, Powers DEF SignedHi
<1>6. ExactSub(x, y, 0) = Exact(a - b, d - e, g1 - g2)
  <2>1. Lo(x) - Lo(y) - 0 = a - b
    BY <1>2
  <2> QED
    BY <2>1, <1>3, <1>5 DEF ExactSub
<1> DEFINE E == Exact(a - b, d - e, g1 - g2)
<1>7. /\ E.lo = c /\ E.hi = f /\ E.carry \in BOOLEAN /\ E.overflow \in BOOLEAN
      /\ E.carry <=> h # 0
      /\ E.overflow <=> (g1 - g2 + k < -32768 \/ g1 - g2 + k > 32767)
  <2>1. PICK lo \in Int, hi \in Int, shi \in Int : lo = a - b /\ hi = d - e /\ shi = g1 - g2
    OBVIOUS
  <2>2. lo = c + 65536 * k /\ hi + k = f + 65536 * h
    BY <1>4, <2>1
  <2>3. Spread(lo, hi, c, f, k, h)
    BY <1>2, <1>3, <2>2 DEF Spread
  <2>4. HasHalves(Exact(lo, hi, shi), c, f, shi, k, h)
    BY <2>3, ExactHalves
  <2>5. E = Exact(lo, hi, shi)
    BY <2>1
  <2> HIDE DEF E
  <2> QED
    BY <2>1, <2>4, <2>5 DEF HasHalves
<1> HIDE DEF E
<1>8. h # 0 <=> Less(x, y)
  BY <1>1, LessIsBorrow
<1>9. (31 \in x <=> d >= 32768) /\ (31 \in y <=> e >= 32768) /\ (31 \in s <=> f >= 32768)
  BY <1>0, <1>3, SignAndZero
<1>10. (g1 - g2 + k < -32768 \/ g1 - g2 + k > 32767)
         <=> ~(31 \in x <=> 31 \in y) /\ ~(31 \in x <=> 31 \in s)
  BY <1>3, <1>4, <1>5, <1>9
<1>11. E = ExactSub(x, y, 0)
  BY <1>6 DEF E
<1> QED
  BY <1>2, <1>3, <1>7, <1>8, <1>10, <1>11 DEF s

(* A truth value as a word is 0 or 1.                                      *)
LEMMA BitHalves ==
    ASSUME NEW b \in BOOLEAN
    PROVE  BitWord(b) \in Word /\ Lo(BitWord(b)) = (IF b THEN 1 ELSE 0) /\ Hi(BitWord(b)) = 0
<1>0. BitWord(b) \in Word
  BY WordsAreClosed
<1>1. \A i : i \in BitWord(b) <=> b /\ i = 0
  BY DEF BitWord, Zero
<1>2. \A l \in {4, 8, 12, 16, 20, 24, 28} : Digit(BitWord(b), l) = 0
  BY <1>1 DEF Digit
<1>3. Digit(BitWord(b), 0) = IF b THEN 1 ELSE 0
  BY <1>1 DEF Digit
<1>4. Lo(BitWord(b)) = Quad(Digit(BitWord(b), 0), 0, 0, 0)
  BY <1>2, HalvesOf
<1>5. Hi(BitWord(b)) = Quad(0, 0, 0, 0)
  BY <1>2, HalvesOf
<1> QED
  BY <1>0, <1>3, <1>4, <1>5 DEF Quad

(* x + y + 0 or 1, as ADC computes it: the halves are exact.               *)
LEMMA SumWithCarry ==
    ASSUME NEW x \in Word, NEW y \in Word, NEW n \in {0, 1}, NEW w \in Word, Lo(w) = n, Hi(w) = 0
    PROVE  LET s == Plus(Plus(x, y), w)
           IN  ExactAdd(x, y, n).lo = Lo(s) /\ ExactAdd(x, y, n).hi = Hi(s)
<1> DEFINE t == Plus(x, y)
           s == Plus(t, w)
<1>0. t \in Word /\ s \in Word
  BY WordsAreClosed
<1>1. PICK k \in {0, 1}, h \in {0, 1} :
        Lo(x) + Lo(y) = Lo(t) + 65536 * k /\ Hi(x) + Hi(y) + k = Hi(t) + 65536 * h
  BY PlusHalves
<1> HIDE DEF t
<1>2. PICK p \in {0, 1}, g \in {0, 1} :
        Lo(t) + Lo(w) = Lo(s) + 65536 * p /\ Hi(t) + Hi(w) + p = Hi(s) + 65536 * g
  BY <1>0, PlusHalves
<1> HIDE DEF s
<1>a. PICK a \in Nat, b \in Nat : a = Lo(x) /\ b = Lo(y) /\ a < 65536 /\ b < 65536
  BY HalvesOf
<1>b. PICK c \in Nat, m \in Nat : c = Lo(s) /\ m = Lo(t) /\ c < 65536 /\ m < 65536
  BY HalvesOf
<1>3. a = Lo(x) /\ b = Lo(y) /\ c = Lo(s) /\ m = Lo(t)
      /\ a < 65536 /\ b < 65536 /\ c < 65536 /\ m < 65536
  BY <1>a, <1>b
<1>c. PICK d \in Nat, e \in Nat : d = Hi(x) /\ e = Hi(y) /\ d < 65536 /\ e < 65536
  BY HalvesOf
<1>d. PICK f \in Nat, o \in Nat : f = Hi(s) /\ o = Hi(t) /\ f < 65536 /\ o < 65536
  BY HalvesOf
<1>4. d = Hi(x) /\ e = Hi(y) /\ f = Hi(s) /\ o = Hi(t)
      /\ d < 65536 /\ e < 65536 /\ f < 65536 /\ o < 65536
  BY <1>c, <1>d
<1>5. a + b = m + 65536 * k /\ d + e + k = o + 65536 * h
  BY <1>1, <1>3, <1>4
<1>6. m + n = c + 65536 * p /\ o + p = f + 65536 * g
  BY <1>2, <1>3, <1>4
<1>7. PICK q \in Int, z \in Int : q = k + p /\ z = h + g
  OBVIOUS
<1>8. q \in {-1, 0, 1} /\ z \in {-1, 0, 1}
  BY <1>3, <1>4, <1>5, <1>6, <1>7
<1>9. PICK lo \in Int, hi \in Int, shi \in Int :
        lo = a + b + n /\ hi = d + e /\ shi = SignedHi(x) + SignedHi(y)
  BY <1>4, Powers DEF SignedHi
<1>10. Spread(lo, hi, c, f, q, z)
  BY <1>3, <1>4, <1>5, <1>6, <1>7, <1>8, <1>9 DEF Spread
<1>11. HasHalves(Exact(lo, hi, shi), c, f, shi, q, z)
  BY <1>10, ExactHalves
<1>12. ExactAdd(x, y, n) = Exact(lo, hi, shi)
  BY <1>3, <1>4, <1>9 DEF ExactAdd
<1> QED
  BY <1>3, <1>4, <1>11, <1>12 DEF HasHalves, s, t

(* x - y - 0 or 1, as SBC and RSC compute it.                              *)
LEMMA DifferenceWithBorrow ==
    ASSUME NEW x \in Word, NEW y \in Word, NEW n \in {0, 1}, NEW w \in Word, Lo(w) = n, Hi(w) = 0
    PROVE  LET s == Minus(Minus(x, y), w)
           IN  ExactSub(x, y, n).lo = Lo(s) /\ ExactSub(x, y, n).hi = Hi(s)
<1> DEFINE t == Minus(x, y)
           s == Minus(t, w)
<1>0. t \in Word /\ s \in Word
  BY WordsAreClosed
<1>1. PICK k \in {-1, 0}, h \in {-1, 0} :
        Lo(x) - Lo(y) = Lo(t) + 65536 * k /\ Hi(x) - Hi(y) + k = Hi(t) + 65536 * h
  BY MinusHalves
<1> HIDE DEF t
<1>2. PICK p \in {-1, 0}, g \in {-1, 0} :
        Lo(t) - Lo(w) = Lo(s) + 65536 * p /\ Hi(t) - Hi(w) + p = Hi(s) + 65536 * g
  BY <1>0, MinusHalves
<1> HIDE DEF s
<1>a. PICK a \in Nat, b \in Nat : a = Lo(x) /\ b = Lo(y) /\ a < 65536 /\ b < 65536
  BY HalvesOf
<1>b. PICK c \in Nat, m \in Nat : c = Lo(s) /\ m = Lo(t) /\ c < 65536 /\ m < 65536
  BY HalvesOf
<1>3. a = Lo(x) /\ b = Lo(y) /\ c = Lo(s) /\ m = Lo(t)
      /\ a < 65536 /\ b < 65536 /\ c < 65536 /\ m < 65536
  BY <1>a, <1>b
<1>c. PICK d \in Nat, e \in Nat : d = Hi(x) /\ e = Hi(y) /\ d < 65536 /\ e < 65536
  BY HalvesOf
<1>d. PICK f \in Nat, o \in Nat : f = Hi(s) /\ o = Hi(t) /\ f < 65536 /\ o < 65536
  BY HalvesOf
<1>4. d = Hi(x) /\ e = Hi(y) /\ f = Hi(s) /\ o = Hi(t)
      /\ d < 65536 /\ e < 65536 /\ f < 65536 /\ o < 65536
  BY <1>c, <1>d
<1>5. a - b = m + 65536 * k /\ d - e + k = o + 65536 * h
  BY <1>1, <1>3, <1>4
<1>6. m - n = c + 65536 * p /\ o + p = f + 65536 * g
  BY <1>2, <1>3, <1>4
<1>7. PICK q \in Int, z \in Int : q = k + p /\ z = h + g
  OBVIOUS
<1>8. q \in {-1, 0, 1} /\ z \in {-1, 0, 1}
  BY <1>3, <1>4, <1>5, <1>6, <1>7
<1>9. PICK lo \in Int, hi \in Int, shi \in Int :
        lo = a - b - n /\ hi = d - e /\ shi = SignedHi(x) - SignedHi(y)
  BY <1>4, Powers DEF SignedHi
<1>10. Spread(lo, hi, c, f, q, z)
  BY <1>3, <1>4, <1>5, <1>6, <1>7, <1>8, <1>9 DEF Spread
<1>11. HasHalves(Exact(lo, hi, shi), c, f, shi, q, z)
  BY <1>10, ExactHalves
<1>12. ExactSub(x, y, n) = Exact(lo, hi, shi)
  BY <1>3, <1>4, <1>9 DEF ExactSub
<1> QED
  BY <1>3, <1>4, <1>11, <1>12 DEF HasHalves, s, t

(* The arithmetic instructions compute the words of the reference.         *)
LEMMA ResultIsExact ==
    ASSUME NEW op \in 2..7, NEW a \in Word, NEW b \in Word, NEW c \in BOOLEAN
    PROVE  LET e == Reference(op, a, b, c)
           IN  Lo(Result(op, a, b, c)) = e.lo /\ Hi(Result(op, a, b, c)) = e.hi
<1>1. CASE op = 2
  BY <1>1, DifferenceIsExact DEF Reference, Result
<1>2. CASE op = 3
  BY <1>2, DifferenceIsExact DEF Reference, Result
<1>3. CASE op = 4
  BY <1>3, SumIsExact DEF Reference, Result
<1>4. CASE op = 5
  <2>1. PICK n \in {0, 1} : n = IF c THEN 1 ELSE 0
    OBVIOUS
  <2>2. BitWord(c) \in Word /\ Lo(BitWord(c)) = n /\ Hi(BitWord(c)) = 0
    BY <2>1, BitHalves
  <2>3. Reference(op, a, b, c) = ExactAdd(a, b, n)
    BY <1>4, <2>1 DEF Reference
  <2>4. Result(op, a, b, c) = Plus(Plus(a, b), BitWord(c))
    BY <1>4 DEF Result
  <2> QED
    BY <2>2, <2>3, <2>4, SumWithCarry
<1>5. CASE op \in {6, 7}
  <2>0. PICK d \in BOOLEAN : d = ~c
    OBVIOUS
  <2>1. PICK n \in {0, 1} : n = IF c THEN 0 ELSE 1
    OBVIOUS
  <2>2. BitWord(d) \in Word /\ Lo(BitWord(d)) = n /\ Hi(BitWord(d)) = 0
    BY <2>0, <2>1, BitHalves
  <2>3. PICK x \in Word, y \in Word : IF op = 6 THEN x = a /\ y = b ELSE x = b /\ y = a
    OBVIOUS
  <2>4. Reference(op, a, b, c) = ExactSub(x, y, n)
    BY <1>5, <2>1, <2>3 DEF Reference
  <2>5. Result(op, a, b, c) = Minus(Minus(x, y), BitWord(d))
    <3>1. BitWord(~c) = BitWord(d)
      BY <2>0, Zenon
    <3>2. Result(op, a, b, c) = Minus(Minus(x, y), BitWord(~c))
      BY <1>5, <2>3 DEF Result
    <3> QED
      BY <3>1, <3>2
  <2> QED
    BY <2>2, <2>4, <2>5, DifferenceWithBorrow
<1> QED
  BY <1>1, <1>2, <1>3, <1>4, <1>5

----------------------------------------------------------------------------
(* The registers after an instruction: the destination holds the result,   *)
(* and every other one that the mode sees its former value.                *)
LEMMA RegistersAfter ==
    ASSUME NEW r \in RegistersSet, NEW i \in Word
    PROVE  LET op  == get_bits(i, 24, 21)
               rd  == get_bits(i, 15, 12)
               res == Result(op, arm_read_register(r, get_bits(i, 19, 16)),
                             ShifterOperand(r, i).value, C \in read_cpsr(r))
               u   == arm_data_processing_shift(r, i)
               W   == ~OperandUndefined(i) /\ op \notin TestOps
           IN  /\ W => read_register(u, rd) = res
               /\ get_mode(u) = get_mode(r) =>
                    \A n \in 0..15 : (n # rd \/ ~W) => read_register(u, n) = read_register(r, n)
<1> DEFINE op      == get_bits(i, 24, 21)
           rn      == get_bits(i, 19, 16)
           rd      == get_bits(i, 15, 12)
           operand == ShifterOperand(r, i)
           res     == Result(op, arm_read_register(r, rn), operand.value, C \in read_cpsr(r))
           r1      == write_register(r, rd, res)
           f       == UpdateFlags(r, op, rn, res, operand)
           f1      == UpdateFlags(r1, op, rn, res, operand)
           s1      == RestoreCpsr(r1)
           u       == arm_data_processing_shift(r, i)
<1>1. op \in 0..15 /\ rn \in 0..15 /\ rd \in 0..15
  BY RegisterFields
<1>2. res \in Word
  BY <1>1, OperandIsWord, ReadsAreWords, ResultIsWord
<1>3. r1 \in RegistersSet
  BY <1>1, <1>2, InstructionWrites
<1>4. r1.psr = r.psr
  BY DEF write_register, RegistersSet
<1>5. u = IF OperandUndefined(i) THEN r
          ELSE IF op \in TestOps THEN f
          ELSE IF 20 \notin i THEN r1
          ELSE IF rd = 15 THEN s1
          ELSE f1
  BY DEF arm_data_processing_shift
<1> HIDE DEF res
<1>6. \A n \in 0..15 : read_register(r1, n) = IF n = rd THEN res ELSE read_register(r, n)
  BY <1>1, ReadAfterWrite
<1>7. get_mode(r1) = get_mode(r)
  BY <1>4 DEF get_mode, read_cpsr
<1> HIDE DEF operand, op, rn, rd, r1
<1>8. PICK v : f = write_cpsr(r, v)
  BY DEF UpdateFlags, write_flags
<1>9. PICK v1 : f1 = write_cpsr(r1, v1)
  BY DEF UpdateFlags, write_flags
<1>10. get_mode(f1) = get_mode(r1)
  <2>1. read_cpsr(f1) \cap 0..27 = read_cpsr(r1) \cap 0..27
    BY <1>3, FlagsAreTyped DEF UpdateFlags
  <2> QED
    BY <2>1 DEF get_mode
<1>11. s1 = r1 \/ \E v2 : s1 = write_cpsr(r1, v2)
  BY DEF RestoreCpsr
<1> HIDE DEF f, f1, s1, u
<1>12. get_mode(f) = get_mode(r) => \A n : read_register(f, n) = read_register(r, n)
  BY <1>8, CpsrWriteKeepsRegisters
<1>13. \A n : read_register(f1, n) = read_register(r1, n)
  BY <1>3, <1>9, <1>10, CpsrWriteKeepsRegisters
<1>14. /\ get_mode(s1) = get_mode(r1) => \A n : read_register(s1, n) = read_register(r1, n)
       /\ read_register(s1, 15) = read_register(r1, 15)
  BY <1>3, <1>11, CpsrWriteKeepsRegisters
<1> DEFINE W == ~OperandUndefined(i) /\ op \notin TestOps
<1>15. W => read_register(u, rd) = res
  BY <1>1, <1>5, <1>6, <1>13, <1>14
<1>16. ASSUME get_mode(u) = get_mode(r), NEW n \in 0..15, n # rd \/ ~W
       PROVE  read_register(u, n) = read_register(r, n)
  BY <1>1, <1>5, <1>6, <1>7, <1>12, <1>13, <1>14, <1>16
<1> QED
  BY <1>15, <1>16 DEF op, rd, rn, operand, res, u

(***************************************************************************)
(* The six arithmetic instructions write the exact 32-bit result, for      *)
(* every operand and carry, and no instruction writes another register.    *)
(***************************************************************************)
THEOREM ArithmeticIsRight == Spec => ArithmeticIsExact
<1> DEFINE Right ==
      /\ Writes /\ Op \in 2..7 =>
            LET v == read_register(reg', Rd)
            IN  Lo(v) = Ref.lo /\ Hi(v) = Ref.hi
      /\ \A n \in 0..15 : (n # Rd \/ ~Writes) /\ get_mode(reg') = get_mode(reg)
            => read_register(reg', n) = read_register(reg, n)
<1>1. DpTypeOK /\ [Next]_vars => [Right]_vars
  <2> SUFFICES ASSUME DpTypeOK, NEW i \in Instructions, Execute(i) PROVE Right
    BY DEF Next
  <2>1. i \in Word /\ reg \in RegistersSet
    BY DataProcessingAssumption DEF DpTypeOK
  <2>2. reg' = arm_data_processing_shift(reg, i) /\ ins' = i
    BY DEF Execute
  <2> DEFINE a == arm_read_register(reg, Rn)
             b == ShifterOperand(reg, i).value
             c == C \in read_cpsr(reg)
  <2>3. a \in Word /\ b \in Word /\ c \in BOOLEAN
    BY <2>1, <2>2, RegisterFields, ReadsAreWords, OperandIsWord DEF Rn
  <2>4. /\ Writes => read_register(reg', Rd) = Result(Op, a, b, c)
        /\ get_mode(reg') = get_mode(reg) =>
             \A n \in 0..15 : (n # Rd \/ ~Writes) => read_register(reg', n) = read_register(reg, n)
    BY <2>1, <2>2, RegistersAfter DEF Writes, Op, Rd, Rn
  <2>5. Ref = Reference(Op, a, b, c)
    BY <2>2 DEF Ref
  <2> HIDE DEF a, b, c
  <2>6. Op \in 2..7 => Lo(Result(Op, a, b, c)) = Ref.lo /\ Hi(Result(Op, a, b, c)) = Ref.hi
    BY <2>3, <2>5, ResultIsExact
  <2> QED
    BY <2>4, <2>6
<1> QED
  BY <1>1, DpTypeCorrect, PTL DEF Spec, ArithmeticIsExact

----------------------------------------------------------------------------
(* carry_from misses no carry: its first test alone sees them all.         *)
LEMMA NoCarryMissed ==
    ASSUME NEW x \in Word, NEW y \in Word, ExactAdd(x, y, 0).carry
    PROVE  carry_from(x, y)
<1>1. Hi(x) + Hi(y) >= 65536 \/ (Hi(x) + Hi(y) = 65535 /\ Lo(x) + Lo(y) >= 65536)
  BY SumIsExact
<1>2. Lo(Ones) = 65535 /\ Hi(Ones) = 65535 /\ Ones \in Word
  <2>1. Zero \in Word /\ Ones \in Word /\ Ones = Not(Zero)
    BY DEF Zero, Ones, Not, Word
  <2>2. Lo(Zero) = 0 /\ Hi(Zero) = 0
    BY <2>1, SignAndZero
  <2> QED
    BY <2>1, <2>2, Complement
<1> DEFINE m == Minus(Ones, y)
<1>3. m \in Word
  BY WordsAreClosed
<1>4. PICK k \in {-1, 0}, h \in {-1, 0} :
        Lo(Ones) - Lo(y) = Lo(m) + 65536 * k /\ Hi(Ones) - Hi(y) + k = Hi(m) + 65536 * h
  BY <1>2, MinusHalves
<1> HIDE DEF m
<1>5. PICK a \in Nat, b \in Nat, c \in Nat :
        a = Lo(x) /\ b = Lo(y) /\ c = Lo(m) /\ a < 65536 /\ b < 65536 /\ c < 65536
  BY HalvesOf
<1>6. PICK d \in Nat, e \in Nat, f \in Nat :
        d = Hi(x) /\ e = Hi(y) /\ f = Hi(m) /\ d < 65536 /\ e < 65536 /\ f < 65536
  BY HalvesOf
<1>7. 65535 - b = c + 65536 * k /\ 65535 - e + k = f + 65536 * h
  BY <1>2, <1>4, <1>5, <1>6
<1>8. d + e >= 65536 \/ (d + e = 65535 /\ a + b >= 65536)
  BY <1>1, <1>5, <1>6
<1>9. f < d \/ (f = d /\ c < a)
  BY <1>5, <1>6, <1>7, <1>8
<1>10. Less(m, x)
  BY <1>3, <1>5, <1>6, <1>9, LessIsLess
<1> QED
  BY <1>10 DEF carry_from, m

(* The flags that ADD, SUB, RSB, CMP and CMN compute, against the exact    *)
(* result.                                                                 *)
LEMMA FlagsAreExact ==
    ASSUME NEW op \in {2, 3, 4, 10, 11}, NEW a \in Word, NEW b \in Word, NEW c \in BOOLEAN, NEW k,
           NEW res, res = Result(op, a, b, c), NEW e, e = Reference(op, a, b, c)
    PROVE  /\ 31 \in res <=> e.hi >= 32768
           /\ res = Zero <=> e.hi = 0 /\ e.lo = 0
           /\ FlagV(op, a, b, c) \in BOOLEAN /\ e.overflow \in BOOLEAN
           /\ FlagV(op, a, b, c) <=> e.overflow
           /\ FlagC(op, a, b, c, k) \in BOOLEAN /\ e.carry \in BOOLEAN
           /\ IF op \in {4, 11} THEN e.carry => FlagC(op, a, b, c, k)
                                ELSE FlagC(op, a, b, c, k) <=> ~e.carry
<1>0. ADDITION # SOUSTRACTION
  BY DEF ADDITION, SOUSTRACTION
<1>1. CASE op \in {4, 11}
  <2>1. /\ res = Plus(a, b) /\ e = ExactAdd(a, b, 0) /\ op \notin LogicalOps
        /\ FlagV(op, a, b, c) = overflow_from(ADDITION, a, b)
        /\ FlagC(op, a, b, c, k) = carry_from(a, b)
    BY <1>1 DEF Result, Reference, FlagV, FlagC, LogicalOps
  <2>2. overflow_from(ADDITION, a, b) = ((31 \in a) = (31 \in b) /\ (31 \in a) # (31 \in Plus(a, b)))
    BY <1>0 DEF overflow_from
  <2>3. carry_from(a, b) \in BOOLEAN
    BY DEF carry_from, Less
  <2>4. res \in Word
    BY <2>1, WordsAreClosed
  <2>5. /\ e.lo = Lo(res) /\ e.hi = Hi(res) /\ e.carry \in BOOLEAN /\ e.overflow \in BOOLEAN
        /\ e.overflow <=> (31 \in a <=> 31 \in b) /\ ~(31 \in a <=> 31 \in res)
    BY <2>1, SumIsExact
  <2>6. e.carry => carry_from(a, b)
    BY <2>1, NoCarryMissed
  <2>7. (31 \in res <=> Hi(res) >= 32768) /\ (res = Zero <=> Hi(res) = 0 /\ Lo(res) = 0)
    BY <2>4, SignAndZero
  <2> QED
    BY <1>1, <2>1, <2>2, <2>3, <2>5, <2>6, <2>7
<1>2. CASE op \in {2, 3, 10}
  <2>0. PICK x \in Word, y \in Word : IF op = 3 THEN x = b /\ y = a ELSE x = a /\ y = b
    OBVIOUS
  <2>1. res = Minus(x, y) /\ e = ExactSub(x, y, 0)
    BY <1>2, <2>0 DEF Result, Reference
  <2>a. op \notin LogicalOps /\ op \notin {4, 11}
    BY <1>2 DEF LogicalOps
  <2>b. FlagV(op, a, b, c) = overflow_from(SOUSTRACTION, x, y)
    BY <1>2, <2>0, <2>a DEF FlagV
  <2>c. FlagC(op, a, b, c, k) = ~borrow_from(x, y)
    BY <1>2, <2>0, <2>a DEF FlagC
  <2>2. overflow_from(SOUSTRACTION, x, y)
          = ((31 \in x) # (31 \in y) /\ (31 \in x) # (31 \in Minus(x, y)))
    BY <1>0 DEF overflow_from
  <2>3. borrow_from(x, y) \in BOOLEAN /\ (borrow_from(x, y) <=> Less(x, y))
    BY DEF borrow_from, Less
  <2>4. res \in Word
    BY <2>1, WordsAreClosed
  <2>5. /\ e.lo = Lo(res) /\ e.hi = Hi(res) /\ e.carry \in BOOLEAN /\ e.overflow \in BOOLEAN
        /\ e.carry <=> Less(x, y)
        /\ e.overflow <=> ~(31 \in x <=> 31 \in y) /\ ~(31 \in x <=> 31 \in res)
    BY <2>1, DifferenceIsExact
  <2>7. (31 \in res <=> Hi(res) >= 32768) /\ (res = Zero <=> Hi(res) = 0 /\ Lo(res) = 0)
    BY <2>4, SignAndZero
  <2>8. FlagV(op, a, b, c) \in BOOLEAN /\ (FlagV(op, a, b, c) <=> e.overflow)
    BY <2>1, <2>2, <2>5, <2>b
  <2>9. FlagC(op, a, b, c, k) \in BOOLEAN /\ (FlagC(op, a, b, c, k) <=> ~e.carry)
    BY <2>3, <2>5, <2>c
  <2> QED
    BY <2>a, <2>5, <2>7, <2>8, <2>9
<1> QED
  BY <1>1, <1>2

(***************************************************************************)
(* N, Z and V follow the exact result of ADD, SUB, RSB, CMP and CMN when   *)
(* the destination is not the first operand; so does C, except that an     *)
(* addition may set it without a carry.                                    *)
(***************************************************************************)
THEOREM FlagsAreRight == Spec => FlagsFollowTheResult
<1> DEFINE Right ==
      SetsFlags /\ Op \in {2, 3, 4, 10, 11} /\ (Op \in TestOps \/ Rd # Rn) =>
        /\ Flag(N) = (Ref.hi >= 2^15)
        /\ Flag(Z) = (Ref.hi = 0 /\ Ref.lo = 0)
        /\ Flag(V) = Ref.overflow
        /\ IF Op \in {4, 11} THEN Ref.carry => Flag(C) ELSE Flag(C) = ~Ref.carry
<1>1. DpTypeOK /\ [Next]_vars => [Right]_vars
  <2> SUFFICES ASSUME DpTypeOK, NEW i \in Instructions, Execute(i),
                      SetsFlags, Op \in {2, 3, 4, 10, 11}, Op \in TestOps \/ Rd # Rn
               PROVE  /\ Flag(N) = (Ref.hi >= 2^15)
                      /\ Flag(Z) = (Ref.hi = 0 /\ Ref.lo = 0)
                      /\ Flag(V) = Ref.overflow
                      /\ IF Op \in {4, 11} THEN Ref.carry => Flag(C) ELSE Flag(C) = ~Ref.carry
    BY DEF Next
  <2>1. i \in Word /\ reg \in RegistersSet
    BY DataProcessingAssumption DEF DpTypeOK
  <2>2. reg' = arm_data_processing_shift(reg, i) /\ ins' = i
    BY DEF Execute
  <2> DEFINE a   == arm_read_register(reg, Rn)
             o   == ShifterOperand(reg, i)
             b   == o.value
             c   == C \in read_cpsr(reg)
             res == Result(Op, a, b, c)
             fc  == FlagC(Op, a, b, c, o.carry)
             fv  == FlagV(Op, a, b, c)
  <2>3. a \in Word /\ b \in Word /\ c \in BOOLEAN
    BY <2>1, <2>2, RegisterFields, ReadsAreWords, OperandIsWord DEF Rn
  <2>4. PICK r2 \in RegistersSet : reg' = write_flags(r2, 31 \in res, res = Zero, fc, fv)
    BY <2>1, <2>2, FlagsAfter DEF SetsFlags, Op, Rd, Rn
  <2>5. Ref = Reference(Op, a, b, c)
    BY <2>2 DEF Ref
  <2> HIDE DEF a, b, c
  <2>6. /\ 31 \in res <=> Ref.hi >= 32768
        /\ res = Zero <=> Ref.hi = 0 /\ Ref.lo = 0
        /\ fv \in BOOLEAN /\ Ref.overflow \in BOOLEAN /\ (fv <=> Ref.overflow)
        /\ fc \in BOOLEAN /\ Ref.carry \in BOOLEAN
        /\ IF Op \in {4, 11} THEN Ref.carry => fc ELSE fc <=> ~Ref.carry
    BY <2>3, <2>5, FlagsAreExact
  <2> HIDE DEF res, fc, fv
  <2> DEFINE n == 31 \in res
             z == res = Zero
  <2>7. n \in BOOLEAN /\ z \in BOOLEAN /\ reg' = write_flags(r2, n, z, fc, fv)
    BY <2>4
  <2>8. (n <=> Ref.hi >= 2^15) /\ (z <=> Ref.hi = 0 /\ Ref.lo = 0)
    BY <2>6, Powers
  <2> HIDE DEF n, z
  <2>9. (Flag(N) <=> n) /\ (Flag(Z) <=> z) /\ (Flag(C) <=> fc) /\ (Flag(V) <=> fv)
    BY <2>6, <2>7, FlagsReadBack DEF Flag
  <2>10. Flag(N) \in BOOLEAN /\ Flag(Z) \in BOOLEAN /\ Flag(C) \in BOOLEAN /\ Flag(V) \in BOOLEAN
    BY DEF Flag
  <2>11. Flag(N) = (Ref.hi >= 2^15) /\ Flag(Z) = (Ref.hi = 0 /\ Ref.lo = 0)
    <3> DEFINE big == Ref.hi >= 2^15
               nil == Ref.hi = 0 /\ Ref.lo = 0
    <3>1. big \in BOOLEAN /\ nil \in BOOLEAN
      OBVIOUS
    <3>2. (n <=> big) /\ (z <=> nil)
      BY <2>8
    <3> HIDE DEF big, nil
    <3>3. Flag(N) = big /\ Flag(Z) = nil
      BY <2>7, <2>9, <2>10, <3>1, <3>2
    <3> QED
      BY <3>3 DEF big, nil
  <2>12. Flag(V) = Ref.overflow
    BY <2>6, <2>9, <2>10
  <2>13. IF Op \in {4, 11} THEN Ref.carry => Flag(C) ELSE Flag(C) = ~Ref.carry
    BY <2>6, <2>9, <2>10
  <2> QED
    BY <2>11, <2>12, <2>13
<1> QED
  BY <1>1, DpTypeCorrect, PTL DEF Spec, FlagsFollowTheResult
============================================================================
