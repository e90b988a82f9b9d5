----------------------------- MODULE Encoding -----------------------------
(* Instruction words, and processors loaded with them, for the instances   *)
(* that TLC checks.                                                        *)
EXTENDS ArmInstruction, Sequences

Field(n, shift) == {i + shift : i \in ToWord(n)}
AL == Field(14, 28)

Data(op, s, rn, rd, operand) ==
    AL \cup Field(op, 21) \cup (IF s THEN {20} ELSE {})
        \cup Field(rn, 16) \cup Field(rd, 12) \cup operand
Cmp(operand) == Data(10, TRUE, 1, 0, operand)             \* cmp r1, operand
MovPc(rm)    == Data(13, FALSE, 0, 15, Field(rm, 0))      \* mov pc, rm
BranchTo(cond, link, words) ==
    Field(cond, 28) \cup Field(5, 25) \cup (IF link THEN {24} ELSE {})
        \cup (IF words >= 0 THEN Field(words, 0) ELSE Field(2^24 + words, 0))

(* ldr/str rd, [rn, ...]: bits p, u, b, w, l as a set of their positions.  *)
Transfer(bits, rn, rd, operand) ==
    AL \cup {26} \cup bits \cup Field(rn, 16) \cup Field(rd, 12) \cup operand
HalfTransfer(bits, rn, rd, operand) ==
    AL \cup {7, 5, 4} \cup bits \cup Field(rn, 16) \cup Field(rd, 12) \cup operand
Multiple(bits, rn, list) == AL \cup {27} \cup bits \cup Field(rn, 16) \cup list

(* The memory with the words of a program from address 0 on.               *)
Image(big_endian, program) ==
    LET after[k \in 0..Len(program)] ==
            IF k = 0 THEN memory_create(big_endian, {0})
            ELSE memory_write_word(after[k - 1], 4 * (k - 1), program[k])
    IN  after[Len(program)]

(* A processor after arm_create, with registers and CPSR set by gdb.       *)
Machine(program, registers, flags) ==
    [reg |-> [arm_create EXCEPT
        !.main = [n \in MainCell |-> IF n \in DOMAIN registers /\ n \notin {13, 14}
                                     THEN registers[n] ELSE @[n]],
        !.psr[0] = @ \cup flags],
     mem |-> Image(FALSE, program)]

Regs2(r1, r2) == [n \in 1..2 |-> IF n = 1 THEN r1 ELSE r2]

AllRegs == 0..15
NoWords == {}
============================================================================
