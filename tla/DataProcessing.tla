--------------------------- MODULE DataProcessing ---------------------------
(***************************************************************************)
(* The processor executing data-processing instructions, one after the     *)
(* other, and what arm_data_processing.h and the manual it refers to       *)
(* promise of them.  The reference arithmetic is on integers, with a word  *)
(* as two 16-bit halves.                                                   *)
(***************************************************************************)
EXTENDS ArmDataProcessing

CONSTANTS Instructions,    \* the instruction words that are executed
          Groups,          \* the register groups they start from
          MaxSteps         \* bound: instructions executed in a row

ASSUME DataProcessingAssumption ==
    /\ Instructions \subseteq Word
    /\ Groups \subseteq RegistersSet
    /\ MaxSteps \in Nat

VARIABLES ins,     \* the last instruction executed
          steps

vars == <<reg, ins, steps>>

Init == reg \in Groups /\ ins = Zero /\ steps = 0

Execute(i) ==
    /\ steps < MaxSteps
    /\ reg' = arm_data_processing_shift(reg, i)
    /\ ins' = i
    /\ steps' = steps + 1

Next == \E i \in Instructions : Execute(i)

Spec == Init /\ [][Next]_vars

----------------------------------------------------------------------------
(* Reference arithmetic *)

(* x + y + c and x - y - c over the integers: the two halves of the word,  *)
(* whether it left the unsigned range, and whether it left the signed one. *)
Exact(lo, hi, shi) ==
    LET over == lo \div 2^16 IN
    [lo       |-> lo % 2^16,
     hi       |-> (hi + over) % 2^16,
     carry    |-> hi + over \notin 0..(2^16 - 1),
     overflow |-> shi + over \notin (-(2^15))..(2^15 - 1)]

ExactAdd(x, y, c) == Exact(Lo(x) + Lo(y) + c, Hi(x) + Hi(y), SignedHi(x) + SignedHi(y))
ExactSub(x, y, c) == Exact(Lo(x) - Lo(y) - c, Hi(x) - Hi(y), SignedHi(x) - SignedHi(y))

(* The arithmetic operation op on Rn = a and the operand b, carry flag c.  *)
Reference(op, a, b, c) ==
    CASE op \in {2, 10} -> ExactSub(a, b, 0)
      [] op = 3         -> ExactSub(b, a, 0)
      [] op \in {4, 11} -> ExactAdd(a, b, 0)
      [] op = 5         -> ExactAdd(a, b, IF c THEN 1 ELSE 0)
      [] op = 6         -> ExactSub(a, b, IF c THEN 0 ELSE 1)
      [] op = 7         -> ExactSub(b, a, IF c THEN 0 ELSE 1)

----------------------------------------------------------------------------
(* The step that has just been taken, in the terms of the instruction.     *)
Op   == get_bits(ins', 24, 21)
Rn   == get_bits(ins', 19, 16)
Rd   == get_bits(ins', 15, 12)
Ref  == Reference(Op, arm_read_register(reg, Rn), ShifterOperand(reg, ins').value,
                  C \in read_cpsr(reg))

Writes    == ~OperandUndefined(ins') /\ Op \notin TestOps
SetsFlags == ~OperandUndefined(ins') /\ (Op \in TestOps \/ (20 \in ins' /\ Rd # 15))
Flag(f)   == f \in read_cpsr(reg')

(* The group and the step counter are well formed.                         *)
DpTypeOK == reg \in RegistersSet /\ ins \in Word /\ steps \in 0..MaxSteps

(* The six arithmetic instructions write to Rd the 32-bit result that the  *)
(* integer reference gives, and no instruction writes another register.    *)
ArithmeticIsExact ==
    [][/\ Writes /\ Op \in 2..7 =>
            LET v == read_register(reg', Rd)
            IN  Lo(v) = Ref.lo /\ Hi(v) = Ref.hi
       /\ \A n \in 0..15 : (n # Rd \/ ~Writes) /\ get_mode(reg') = get_mode(reg)
            => read_register(reg', n) = read_register(reg, n)]_vars

(* N, Z, C and V follow the exact result for SUB, RSB and CMP, and all but *)
(* C for ADD and CMN, where no carry is missed; provided the destination   *)
(* is not the first operand.                                               *)
FlagsFollowTheResult ==
    [][SetsFlags /\ Op \in {2, 3, 4, 10, 11} /\ (Op \in TestOps \/ Rd # Rn) =>
        /\ Flag(N) = (Ref.hi >= 2^15)
        /\ Flag(Z) = (Ref.hi = 0 /\ Ref.lo = 0)
        /\ Flag(V) = Ref.overflow
        /\ IF Op \in {4, 11} THEN Ref.carry => Flag(C) ELSE Flag(C) = ~Ref.carry]_vars

(* Only an S instruction with Rd = pc, in a mode that has an SPSR, changes *)
(* CPSR below the flags; and a data-processing instruction never writes an *)
(* SPSR.                                                                   *)
ControlBitsKept ==
    [][/\ read_cpsr(reg') \cap 0..27 # read_cpsr(reg) \cap 0..27 =>
            Writes /\ 20 \in ins' /\ Rd = 15 /\ current_mode_has_spsr(reg)
       /\ \A i \in 1..5 : reg'.psr[i] = reg.psr[i]]_vars

----------------------------------------------------------------------------
(* The shifter against one-bit shifts, taken n times.                      *)
OneBit(kind, s) ==
    CASE kind = 0 -> [value |-> {i + 1 : i \in s.value \ {31}}, carry |-> 31 \in s.value]
      [] kind = 1 -> [value |-> {i - 1 : i \in s.value \ {0}}, carry |-> 0 \in s.value]
      [] kind = 2 -> [value |-> {i - 1 : i \in s.value \ {0}} \cup (s.value \cap {31}),
                      carry |-> 0 \in s.value]
      [] kind = 3 -> [value |-> {IF i = 0 THEN 31 ELSE i - 1 : i \in s.value},
                      carry |-> 0 \in s.value]

Repeated(kind, rm, n, carry) ==
    LET after[k \in Nat] == IF k = 0 THEN [value |-> rm, carry |-> carry]
                                     ELSE OneBit(kind, after[k - 1])
    IN  after[n]

(* The amount an operand shifts by: an immediate 0 means 32 for LSR and    *)
(* ASR (and RRX for ROR).                                                  *)
Amount(i) ==
    IF 4 \in i THEN get_bits(arm_read_register(reg, get_bits(i, 11, 8)), 7, 0)
    ELSE LET n == get_bits(i, 11, 7)
         IN  IF n = 0 /\ get_bits(i, 6, 5) \in {1, 2} THEN 32 ELSE n

(* LSL, LSR and ASR, by an immediate or by a register holding any amount,  *)
(* give the value and the carry out of that many one-bit shifts.           *)
ShiftsAreRepeated ==
    [][25 \notin ins' /\ ~OperandUndefined(ins') /\ get_bits(ins', 6, 5) \in {0, 1, 2} =>
        ShifterOperand(reg, ins') =
            Repeated(get_bits(ins', 6, 5), arm_read_register(reg, get_bits(ins', 3, 0)),
                     Amount(ins'), C \in read_cpsr(reg))]_vars

----------------------------------------------------------------------------
(* What the repository says and the code does not do. *)

(* arm_data_processing.h, carry_from: "1 si l'operation (a + b) provoque   *)
(* une retenue, c'est a dire si le resultat reel est superieur a 2^32 - 1, *)
(* 0 sinon"; borrow_from_tri and overflow_from_tri say the same of a       *)
(* difference of three terms.  So C and V after CMN, and after SBC with    *)
(* another destination than its first operand, are those of the exact      *)
(* result.                                                                 *)
FlagFunctionsContract ==
    [][SetsFlags /\ (Op = 11 \/ (Op = 6 /\ Rd # Rn)) =>
        /\ Flag(C) = (IF Op = 11 THEN Ref.carry ELSE ~Ref.carry)
        /\ Flag(V) = Ref.overflow]_vars
============================================================================
