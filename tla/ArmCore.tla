------------------------------ MODULE ArmCore ------------------------------
(***************************************************************************)
(* arm_core.c (the access to the registers) and arm_exception.c.  The      *)
(* cycle count only feeds the trace output and is left out, as is tracing. *)
(***************************************************************************)
EXTENDS Registers

(* arm_constants.h *)
RESET                 == 1
UNDEFINED_INSTRUCTION == 2
SOFTWARE_INTERRUPT    == 3
PREFETCH_ABORT        == 4
DATA_ABORT            == 5
INTERRUPT             == 6
FAST_INTERRUPT        == 7
Exceptions            == RESET..FAST_INTERRUPT

N == 31
Z == 30
C == 29
V == 28

Four == {2}          \* the word 4

(* The pc is read 4 further on than it is stored, with bit 1 cleared       *)
(* (value += 4; value &= 0xFFFFFFFD).                                      *)
PcSeen(value) == Plus(value, Four) \ {1}

arm_read_register(r, n) ==
    IF n = 15 THEN PcSeen(read_register(r, 15)) ELSE read_register(r, n)

arm_read_usr_register(r, n) ==
    IF n = 15 THEN PcSeen(read_usr_register(r, 15)) ELSE read_usr_register(r, n)

(* Only RESET acts: CPSR := 0x1d3 through the mask of the current mode and *)
(* pc := 0.  Every other exception is ignored.                             *)
ResetCpsr == {8, 7, 6, 4, 1, 0}

arm_exception(r, exception) ==
    IF exception = RESET
    THEN write_usr_register(write_cpsr(r, ResetCpsr), 15, Zero)
    ELSE r

(* registers_create leaves System mode, then the reset enters Supervisor.  *)
arm_create == arm_exception(registers_create, RESET)
============================================================================
