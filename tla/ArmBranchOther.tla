--------------------------- MODULE ArmBranchOther ---------------------------
(* arm_branch_other.c: B, BL, SWI and MRS.                                 *)
EXTENDS ArmCore

EXIT == 8     \* result of an instruction that ends the process: exit(0)

(* mutant: the return address is the pc as it reads *)
BranchLinkTooFar(r, ins) ==
    LET pc     == arm_read_register(r, 15)
        offset == {i + 2 : i \in ins \cap 0..22} \cup (IF 23 \in ins THEN 25..31 ELSE {})
        r1     == IF 24 \in ins THEN write_register(r, 14, pc) ELSE r
    IN  write_register(r1, 15, Plus(pc, offset))

(* The 24-bit offset is sign-extended and counts words.                    *)
arm_branch(r, ins) ==
    LET pc     == arm_read_register(r, 15)
        offset == {i + 2 : i \in ins \cap 0..22} \cup (IF 23 \in ins THEN 25..31 ELSE {})
        r1     == IF 24 \in ins THEN write_register(r, 14, Minus(pc, Four)) ELSE r
    IN  write_register(r1, 15, Plus(pc, offset))

SwiExit == ToWord(1193046)      \* 0x123456

arm_coprocessor_others_swi(ins) ==
    IF 24 \notin ins THEN UNDEFINED_INSTRUCTION
    ELSE IF ins \cap 0..23 = SwiExit THEN EXIT
    ELSE SOFTWARE_INTERRUPT

IsMrs(ins) ==
    /\ ins \cap 0..11 = Zero
    /\ get_bits(ins, 19, 16) = 15
    /\ get_bits(ins, 21, 20) = 0

(* MRS: CPSR or SPSR to Rd.                                                *)
mrs(r, ins) ==
    write_register(r, get_bits(ins, 15, 12),
                   IF 22 \in ins THEN read_spsr(r) ELSE read_cpsr(r))
============================================================================
