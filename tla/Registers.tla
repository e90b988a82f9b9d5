----------------------------- MODULE Registers -----------------------------
(***************************************************************************)
(* registers.c: the register group of the simulated processor.  A group is *)
(* a record value, every function of the C module is an operator on it,    *)
(* and the C names are kept.  The specification at the end lets a client   *)
(* call the functions that write, in any order.                            *)
(***************************************************************************)
EXTENDS Words

CONSTANTS Regs,        \* the register numbers the callers pass (uint8_t)
          Values,      \* the values they write to registers
          PsrValues    \* the values they write to CPSR and SPSR

ASSUME RegistersAssumption ==
    /\ Regs \subseteq 0..255
    /\ Values \subseteq Word
    /\ PsrValues \subseteq Word

----------------------------------------------------------------------------
(* arm_constants.h: the modes, as values of CPSR[4:0].                     *)
USR == {4}                \* 0x10
FIQ == {4, 0}             \* 0x11
IRQ == {4, 1}             \* 0x12
SVC == {4, 1, 0}          \* 0x13
ABT == {4, 2, 1, 0}       \* 0x17
UND == {4, 3, 1, 0}       \* 0x1b
SYS == {4, 3, 2, 1, 0}    \* 0x1f

Modes == {USR, FIQ, IRQ, SVC, ABT, UND, SYS}

----------------------------------------------------------------------------
(***************************************************************************)
(* struct registers_data.  main_registers has 16 cells; a cell of main     *)
(* with a higher index is memory beyond the array, which the group does    *)
(* not own (present only when Regs holds a number above 15).               *)
(***************************************************************************)
MainCell     == 0..15 \cup Regs
RegistersSet == [main   : [MainCell -> Word],
                 banked : [0..14 -> Word],
                 psr    : [0..5 -> Word]]

(* mutant: calloc(16, ...) for the fifteen banked registers *)
CreateOneCellMore ==
    [main   |-> [i \in MainCell |-> Zero],
     banked |-> [i \in 0..15 |-> Zero],
     psr    |-> [i \in 0..5 |-> IF i = 0 THEN SYS ELSE Zero]]

registers_create ==
    [main   |-> [i \in MainCell |-> Zero],
     banked |-> [i \in 0..14 |-> Zero],
     psr    |-> [i \in 0..5 |-> IF i = 0 THEN SYS ELSE Zero]]

(* The index of the mode's SPSR in psr.                                    *)
get_register_from_mode(mode) ==
    CASE mode = SVC -> 1
      [] mode = ABT -> 2
      [] mode = UND -> 3
      [] mode = IRQ -> 4
      [] OTHER      -> 5

(* mutant: the modulo does not invert R13 and R14 *)
BankInNumberOrder(mode, n) ==
    CASE mode = FIQ -> n
      [] mode = SVC -> (n + 1) % 2
      [] mode = ABT -> (n % 2) + 2
      [] mode = UND -> (n % 2) + 4
      [] OTHER      -> (n % 2) + 6

(* mutant: the offset of UND copied from ABT *)
UndSharesAbt(mode, n) ==
    CASE mode = FIQ -> n
      [] mode = SVC -> n % 2
      [] mode \in {ABT, UND} -> (n % 2) + 2
      [] OTHER      -> (n % 2) + 6

(* The index in banked of register n (8..14) of an interrupt mode.         *)
get_banked_register_from_mode(mode, n) ==
    CASE mode = FIQ -> n
      [] mode = SVC -> n % 2
      [] mode = ABT -> (n % 2) + 2
      [] mode = UND -> (n % 2) + 4
      [] OTHER      -> (n % 2) + 6

read_cpsr(r) == r.psr[0]

get_mode(r) == read_cpsr(r) \cap 0..4

current_mode_has_spsr(r) == get_mode(r) \notin {USR, SYS}

in_a_privileged_mode(r) == get_mode(r) # USR

(***************************************************************************)
(* Which array the current mode's register n lives in.  The two conditions *)
(* are shared by read_register and write_register.                         *)
(***************************************************************************)
InMain(r, n) ==
    \/ n < 8 \/ n = 15 \/ ~current_mode_has_spsr(r)
    \/ n <= 15 /\ get_mode(r) # FIQ /\ n < 13

InBanked(r, n) == ~InMain(r, n) /\ n <= 15

(* mutant: FIQ's copies of R8 to R12 forgotten by the read *)
ReadForgetsFiq(r, n) ==
    IF n < 13 \/ InMain(r, n) THEN r.main[n]
    ELSE IF InBanked(r, n)
    THEN r.banked[get_banked_register_from_mode(get_mode(r), n)]
    ELSE Zero

read_register(r, n) ==
    IF InMain(r, n) THEN r.main[n]
    ELSE IF InBanked(r, n)
    THEN r.banked[get_banked_register_from_mode(get_mode(r), n)]
    ELSE Zero

read_usr_register(r, n) == IF n <= 15 THEN r.main[n] ELSE Zero

read_spsr(r) ==
    IF current_mode_has_spsr(r)
    THEN r.psr[get_register_from_mode(get_mode(r))]
    ELSE Zero

write_register(r, n, value) ==
    IF InMain(r, n) THEN [r EXCEPT !.main[n] = value]
    ELSE IF InBanked(r, n)
    THEN [r EXCEPT !.banked[get_banked_register_from_mode(get_mode(r), n)] = value]
    ELSE r

write_usr_register(r, n, value) ==
    IF n <= 15 THEN [r EXCEPT !.main[n] = value] ELSE r

(***************************************************************************)
(* The bits that a write leaves alone: 0x07F0FC20 in a privileged mode and *)
(* 0x07F0FDFF in User mode.                                                *)
(***************************************************************************)
PrivilegedMasque == 20..26 \cup 10..15 \cup {5}
UserMasque       == 20..26 \cup 10..15 \cup 0..8

(* value |= masque; psr |= ~masque; psr &= value.                          *)
Masked(psr, masque, value) == (psr \cup Not(masque)) \cap (value \cup masque)

(* mutant: the mask of the privileged modes in every mode *)
WriteCpsrOneMasque(r, value) ==
    [r EXCEPT !.psr[0] = Masked(@, PrivilegedMasque, value)]

write_cpsr(r, value) ==
    LET masque == IF in_a_privileged_mode(r) THEN PrivilegedMasque ELSE UserMasque
    IN  [r EXCEPT !.psr[0] = Masked(@, masque, value)]

write_spsr(r, value) ==
    IF current_mode_has_spsr(r)
    THEN [r EXCEPT !.psr[get_register_from_mode(get_mode(r))]
                      = Masked(@, PrivilegedMasque, value)]
    ELSE r

----------------------------------------------------------------------------
(* A client of the group: any sequence of the calls that write.            *)
VARIABLE reg

RegInit == reg = registers_create

WriteRegister(n, v)    == reg' = write_register(reg, n, v)
WriteUsrRegister(n, v) == reg' = write_usr_register(reg, n, v)
WriteCpsr(v)           == reg' = write_cpsr(reg, v)
WriteSpsr(v)           == reg' = write_spsr(reg, v)

RegNext ==
    \/ \E n \in Regs, v \in Values : WriteRegister(n, v)
    \/ \E n \in Regs, v \in Values : WriteUsrRegister(n, v)
    \/ \E v \in PsrValues : WriteCpsr(v)
    \/ \E v \in PsrValues : WriteSpsr(v)

RegSpec == RegInit /\ [][RegNext]_reg

----------------------------------------------------------------------------
(* The group is a well-formed struct: sixteen, fifteen and six words.      *)
RegTypeOK == reg \in RegistersSet

(* Where the register named by the architecture is kept, from the layout   *)
(* comment of the struct: 14_svc, 13_svc, 14_abt, 13_abt, 14_und, 13_und,  *)
(* 14_irq, 13_irq, then R8_fiq to R14_fiq at their own numbers.            *)
LayoutIndex(mode, n) ==
    CASE mode = SVC -> IF n = 14 THEN 0 ELSE 1
      [] mode = ABT -> IF n = 14 THEN 2 ELSE 3
      [] mode = UND -> IF n = 14 THEN 4 ELSE 5
      [] mode = IRQ -> IF n = 14 THEN 6 ELSE 7
      [] mode = FIQ -> n

BankedCopies == ({FIQ} \X (8..14)) \cup ({IRQ, SVC, ABT, UND} \X {13, 14})

AbstractBanked == [c \in BankedCopies |-> reg.banked[LayoutIndex(c[1], c[2])]]

(* SPSR_svc, SPSR_abt, SPSR_und, SPSR_irq, SPSR_fiq in this order.         *)
AbstractSpsr ==
    [m \in {SVC, ABT, UND, IRQ, FIQ} |->
        CASE m = SVC -> reg.psr[1] [] m = ABT -> reg.psr[2]
          [] m = UND -> reg.psr[3] [] m = IRQ -> reg.psr[4]
          [] m = FIQ -> reg.psr[5]]

RF == INSTANCE RegisterFile WITH
        Registers <- Regs,
        user   <- [n \in 0..15 |-> reg.main[n]],
        banked <- AbstractBanked,
        cpsr   <- reg.psr[0],
        spsr   <- AbstractSpsr

(* The flat arrays with their index arithmetic behave as the architected   *)
(* register file: every write reaches the register the mode names, and no  *)
(* other.                                                                  *)
ImplementsRegisterFile == RF!Spec

(* Each call is the operation of its own name, on its own register: the    *)
(* refinement alone would take a write of R13 for one of R14.              *)
EachCallIsItsOperation ==
    [][/\ \A n \in Regs, v \in Values :
            /\ WriteRegister(n, v) => RF!Write(n, v) \/ RF!UnpredictableWrite(n, v)
            /\ WriteUsrRegister(n, v) => RF!WriteUser(n, v)
       /\ \A v \in PsrValues :
            /\ WriteCpsr(v) => RF!WriteCpsr(v)
            /\ WriteSpsr(v) => RF!WriteSpsr(v) \/ RF!UnpredictableWriteSpsr(v)]_reg

(* In each of the seven modes read_register, read_usr_register and         *)
(* read_spsr return the register that the architecture makes visible.      *)
ReadsSeeTheVisibleRegister ==
    get_mode(reg) \in Modes =>
        /\ \A n \in 0..15 : read_register(reg, n) = RF!VisibleValue(n)
        /\ \A n \in 0..15 : read_usr_register(reg, n) = reg.main[n]
        /\ current_mode_has_spsr(reg) => read_spsr(reg) = AbstractSpsr[get_mode(reg)]

(* Once the group is in User mode no call leaves it: write_cpsr masks the  *)
(* mode bits, and so does everything built on it.                          *)
UserModeIsFinal == [][get_mode(reg) = USR => get_mode(reg') = USR]_reg
============================================================================
