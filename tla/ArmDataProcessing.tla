------------------------- MODULE ArmDataProcessing -------------------------
(***************************************************************************)
(* arm_data_processing.c: the sixteen data-processing instructions.  An    *)
(* instruction is its 32-bit word.  The flags are computed after the       *)
(* destination is written, from the registers as they are then.            *)
(***************************************************************************)
EXTENDS ArmCore

ADDITION     == 0
SOUSTRACTION == 1

(* A truth value as a word, and the word 0xfffffff (28 bits) of the code.  *)
BitWord(b) == IF b THEN {0} ELSE Zero
SevenFs    == 0..27

----------------------------------------------------------------------------
(* The flag computations. *)

(* mutant: an equal subtrahend borrows *)
BorrowFromOrEqual(a, b) == ~Less(a, b)

borrow_from(a, b) == Less(a, b)

borrow_from_tri(a, b, c) ==
    \/ Less(a, Plus(b, c))
    \/ Less(Minus(a, c), b)
    \/ Less(Minus(a, b), c)

carry_from(a, b) == Less(Minus(Ones, b), a) \/ Less(Minus(SevenFs, a), b)

carry_from_tri(a, b, c) ==
    \/ Less(Minus(Minus(Ones, b), c), a)
    \/ Less(Minus(Minus(SevenFs, a), c), b)
    \/ Less(Minus(Minus(SevenFs, a), b), c)

(* mutant: the rule of the addition for both operations *)
OverflowFromAddition(op, a, b) ==
    LET c == IF op = ADDITION THEN Plus(a, b) ELSE Minus(a, b)
    IN  (31 \in a) = (31 \in b) /\ (31 \in a) # (31 \in c)

overflow_from(op, a, b) ==
    CASE op = ADDITION ->
           (31 \in a) = (31 \in b) /\ (31 \in a) # (31 \in Plus(a, b))
      [] op = SOUSTRACTION ->
           (31 \in a) # (31 \in b) /\ (31 \in a) # (31 \in Minus(a, b))
      [] OTHER -> FALSE

overflow_from_tri(op, a, b, c) ==
    \/ overflow_from(op, a, b) \/ overflow_from(op, a, c)
    \/ overflow_from(op, b, c) \/ overflow_from(op, Plus(a, b), c)

FlagBits(n, z, c, v) ==
    (IF n THEN {N} ELSE {}) \cup (IF z THEN {Z} ELSE {})
        \cup (IF c THEN {C} ELSE {}) \cup (IF v THEN {V} ELSE {})

(* mutant: CPSR is replaced and not updated *)
WriteOnlyFlags(r, n, z, c, v) == write_cpsr(r, FlagBits(n, z, c, v))

write_flags(r, n, z, c, v) ==
    write_cpsr(r, (read_cpsr(r) \cap 0..27) \cup FlagBits(n, z, c, v))

----------------------------------------------------------------------------
(* The shifter operand: its value and its carry out. *)

Shifted(value, carry) == [value |-> value, carry |-> carry]

ImmediateOperand(ins, carry) ==
    LET rotation == 2 * get_bits(ins, 11, 8)
        value    == ror(ins \cap 0..7, rotation)
    IN  Shifted(value, IF rotation # 0 THEN 31 \in value ELSE carry)

(* Kind 0..3 is LSL, LSR, ASR, ROR; n is the 5-bit immediate amount.       *)
(* The rotation calls asr, as the code does.                               *)
SignFill(rm) == IF 31 \in rm THEN Ones ELSE Zero

(* mutant: LSR #0 taken for a shift by 0 instead of 32 *)
ShiftByImmediateNoZeroCase(rm, kind, n, carry) ==
    CASE kind = 0 -> Shifted(ShiftLeft(rm, n), IF n > 0 THEN 32 - n \in rm ELSE carry)
      [] kind = 1 -> Shifted(ShiftRight(rm, n), n - 1 \in rm)
      [] kind = 2 /\ n = 0 -> Shifted(SignFill(rm), 31 \in rm)
      [] kind = 3 /\ n = 0 -> Shifted(ShiftRight(rm, 1) \cup (IF carry THEN {31} ELSE {}), 0 \in rm)
      [] OTHER -> Shifted(asr(rm, n), n - 1 \in rm)

ShiftByImmediate(rm, kind, n, carry) ==
    CASE kind = 0 -> Shifted(ShiftLeft(rm, n), IF n > 0 THEN 32 - n \in rm ELSE carry)
      [] kind = 1 /\ n = 0 -> Shifted(Zero, 31 \in rm)
      [] kind = 1 /\ n > 0 -> Shifted(ShiftRight(rm, n), n - 1 \in rm)
      [] kind = 2 /\ n = 0 -> Shifted(SignFill(rm), 31 \in rm)
      [] kind = 3 /\ n = 0 -> Shifted(ShiftRight(rm, 1) \cup (IF carry THEN {31} ELSE {}), 0 \in rm)
      [] OTHER -> Shifted(asr(rm, n), n - 1 \in rm)

(* n is the low byte of Rs.                                                *)
ShiftByRegister(rm, kind, n, carry) ==
    CASE n = 0 -> Shifted(rm, carry)
      [] n > 0 /\ kind = 0 ->
           Shifted(IF n < 32 THEN ShiftLeft(rm, n) ELSE Zero, n <= 32 /\ 32 - n \in rm)
      [] n > 0 /\ kind = 1 ->
           Shifted(IF n < 32 THEN ShiftRight(rm, n) ELSE Zero, n <= 32 /\ n - 1 \in rm)
      [] n > 0 /\ kind = 2 ->
           IF n < 32 THEN Shifted(asr(rm, n), n - 1 \in rm)
                     ELSE Shifted(SignFill(rm), 31 \in rm)
      [] OTHER ->
           IF n % 16 = 0 THEN Shifted(rm, 31 \in rm)
                         ELSE Shifted(asr(rm, n % 16), (n % 16) - 1 \in rm)

(* Bits 7 and 4 both set are no data-processing operand.                   *)
OperandUndefined(ins) == 25 \notin ins /\ {4, 7} \subseteq ins

ShifterOperand(r, ins) ==
    LET carry == C \in read_cpsr(r)
        rm    == arm_read_register(r, get_bits(ins, 3, 0))
        kind  == get_bits(ins, 6, 5)
    IN  IF 25 \in ins THEN ImmediateOperand(ins, carry)
        ELSE IF 4 \notin ins
        THEN ShiftByImmediate(rm, kind, get_bits(ins, 11, 7), carry)
        ELSE ShiftByRegister(rm, kind,
               get_bits(arm_read_register(r, get_bits(ins, 11, 8)), 7, 0), carry)

----------------------------------------------------------------------------
(* The operations. *)

LogicalOps == {0, 1, 8, 9, 12, 13, 14, 15}
TestOps    == 8..11

(* mutant: RSC takes the carry flag for the borrow *)
ResultRscCarry(op, a, b, c) ==
    CASE op \in {0, 8}  -> a \cap b
      [] op \in {1, 9}  -> Xor(a, b)
      [] op \in {2, 10} -> Minus(a, b)
      [] op = 3         -> Minus(b, a)
      [] op \in {4, 11} -> Plus(a, b)
      [] op = 5         -> Plus(Plus(a, b), BitWord(c))
      [] op = 6         -> Minus(Minus(a, b), BitWord(~c))
      [] op = 7         -> Minus(Minus(b, a), BitWord(c))
      [] op = 12        -> a \cup b
      [] op = 13        -> b
      [] op = 14        -> a \cap Not(b)
      [] op = 15        -> Not(b)

(* The value computed from Rn = a, the operand b and the carry flag c.     *)
Result(op, a, b, c) ==
    CASE op \in {0, 8}  -> a \cap b
      [] op \in {1, 9}  -> Xor(a, b)
      [] op \in {2, 10} -> Minus(a, b)
      [] op = 3         -> Minus(b, a)
      [] op \in {4, 11} -> Plus(a, b)
      [] op = 5         -> Plus(Plus(a, b), BitWord(c))
      [] op = 6         -> Minus(Minus(a, b), BitWord(~c))
      [] op = 7         -> Minus(Minus(b, a), BitWord(~c))
      [] op = 12        -> a \cup b
      [] op = 13        -> b
      [] op = 14        -> a \cap Not(b)
      [] op = 15        -> Not(b)

FlagC(op, a, b, c, shifterCarry) ==
    CASE op \in LogicalOps -> shifterCarry
      [] op \in {2, 10}    -> ~borrow_from(a, b)
      [] op = 3            -> ~borrow_from(b, a)
      [] op \in {4, 11}    -> carry_from(a, b)
      [] op = 5            -> carry_from_tri(a, b, BitWord(c))
      [] op = 6            -> ~borrow_from_tri(a, b, BitWord(~c))
      [] op = 7            -> ~borrow_from_tri(b, a, BitWord(~c))

(* The logical operations leave flag_V at its initial 0.                   *)
FlagV(op, a, b, c) ==
    CASE op \in LogicalOps -> FALSE
      [] op \in {2, 10}    -> overflow_from(SOUSTRACTION, a, b)
      [] op = 3            -> overflow_from(SOUSTRACTION, b, a)
      [] op \in {4, 11}    -> overflow_from(ADDITION, a, b)
      [] op = 5            -> overflow_from_tri(ADDITION, a, b, BitWord(c))
      [] op = 6            -> overflow_from_tri(SOUSTRACTION, a, b, BitWord(~c))
      [] op = 7            -> overflow_from_tri(SOUSTRACTION, b, a, BitWord(~c))

(* The flags are those of the result and of Rn as it reads in the group    *)
(* r1, where the destination is already written.                           *)
UpdateFlags(r1, op, rn, result, operand) ==
    LET a == arm_read_register(r1, rn)
        c == C \in read_cpsr(r1)
    IN  write_flags(r1, 31 \in result, result = Zero,
                    FlagC(op, a, operand.value, c, operand.carry),
                    FlagV(op, a, operand.value, c))

(* S with Rd = pc: CPSR := SPSR where the mode has one.                    *)
RestoreCpsr(r) == IF current_mode_has_spsr(r) THEN write_cpsr(r, read_spsr(r)) ELSE r

arm_data_processing_shift(r, ins) ==
    LET op      == get_bits(ins, 24, 21)
        s       == 20 \in ins
        rn      == get_bits(ins, 19, 16)
        rd      == get_bits(ins, 15, 12)
        operand == ShifterOperand(r, ins)
        result  == Result(op, arm_read_register(r, rn), operand.value, C \in read_cpsr(r))
        r1      == write_register(r, rd, result)
    IN  IF OperandUndefined(ins) THEN r
        ELSE IF op \in TestOps THEN UpdateFlags(r, op, rn, result, operand)
        ELSE IF ~s THEN r1
        ELSE IF rd = 15 THEN RestoreCpsr(r1)
        ELSE UpdateFlags(r1, op, rn, result, operand)
============================================================================
