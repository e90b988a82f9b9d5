--------------------------- MODULE ArmInstruction ---------------------------
(***************************************************************************)
(* arm_instruction.c: arm_step, that is fetch, condition, decoding,        *)
(* execution and exception.  The specification runs a processor from the   *)
(* registers and memories it is given (as a debugger loads them), with one *)
(* action for each way through arm_execute_instruction.                    *)
(***************************************************************************)
EXTENDS ArmDataProcessing, ArmLoadStore, ArmBranchOther

CONSTANTS Machines,    \* the processors [reg, mem] to start from
          Stale        \* what an uninitialised opcode may hold

ASSUME ArmInstructionAssumption ==
    /\ \A p \in Machines : p.reg \in RegistersSet /\ p.mem \in MemorySet
    /\ Stale \subseteq Word

----------------------------------------------------------------------------
(* arm_fetch: the address of the instruction, what *value may hold (left   *)
(* alone by a read that fails), the result, and the group with its pc      *)
(* advanced, which it is in any case.                                      *)
FetchAddress(r) == Minus(arm_read_register(r, 15), Four)
FetchOk(r)      == word_ok(AddressOf(FetchAddress(r)))

(* mutant: the failed fetch returned as an unsigned char *)
FetchResultUnsigned(r) == IF FetchOk(r) THEN 0 ELSE 255

FetchResult(r)  == IF FetchOk(r) THEN 0 ELSE -1

(* mutant: the pc is not advanced by the fetch *)
FetchKeepsPc(r) == write_register(r, 15, FetchAddress(r))

Fetched(r)      == write_register(r, 15, Plus(FetchAddress(r), Four))

Opcodes(r, m) ==
    IF FetchOk(r) THEN {memory_read_word(m, AddressOf(FetchAddress(r)))} ELSE Stale

(* The condition field against the flags; 0xF is treated as AL.            *)
inst_cond(r, ins) ==
    LET flag(f) == f \in read_cpsr(r)
        cond    == get_bits(ins, 31, 28)
    IN  CASE cond = 0  -> flag(Z)             [] cond = 1  -> ~flag(Z)
          [] cond = 2  -> flag(C)             [] cond = 3  -> ~flag(C)
          [] cond = 4  -> flag(N)             [] cond = 5  -> ~flag(N)
          [] cond = 6  -> flag(V)             [] cond = 7  -> ~flag(V)
          [] cond = 8  -> flag(C) /\ ~flag(Z) [] cond = 9  -> ~flag(C) \/ flag(Z)
          [] cond = 10 -> flag(N) = flag(V)   [] cond = 11 -> flag(N) # flag(V)
          [] cond = 12 -> ~flag(Z) /\ flag(N) = flag(V)
          [] cond = 13 -> flag(Z) \/ flag(N) # flag(V)
          [] OTHER     -> TRUE

(* The tests of arm_execute_instruction.  Only those on a half-word        *)
(* transfer and on MRS overlap the last one, on bits 27 and 26.            *)
IsHalfTransfer(ins) == get_bits(ins, 27, 25) = 0 /\ get_bits(ins, 7, 4) = 11
IsTransfer(ins) ==
    \/ IsHalfTransfer(ins)
    \/ get_bits(ins, 27, 25) = 2
    \/ get_bits(ins, 27, 25) = 3 /\ 4 \notin ins
IsMultiple(ins) == get_bits(ins, 27, 25) = 4
IsBranch(ins)   == get_bits(ins, 27, 25) = 5
IsMisc(ins)     ==
    get_bits(ins, 27, 23) = 2 /\ get_bits(ins, 21, 20) = 0 /\ ~IsHalfTransfer(ins)
IsSwi(ins)      == get_bits(ins, 27, 24) = 15

IsData(ins)     == get_bits(ins, 27, 26) = 0 /\ ~IsHalfTransfer(ins) /\ ~IsMisc(ins)

----------------------------------------------------------------------------
VARIABLE result    \* what the last arm_step returned, -1 and EXIT included

vars == <<reg, mem, result>>

Init ==
    /\ \E p \in Machines : reg = p.reg /\ mem = p.mem
    /\ result = 0

(* One arm_step in which arm_execute_instruction ends so.                  *)
(* The result goes to arm_exception; -1 becomes 255, which it ignores.     *)
arm_step(outcome) ==
    /\ result # EXIT
    /\ \E o \in {outcome} :
         /\ reg' = arm_exception(o.reg, o.result)
         /\ mem' = o.mem
         /\ result' = o.result

(* The words  ~0 << 32  may yield in asr: 0, or ~0 on a machine that takes *)
(* the shift amount modulo 32.                                             *)
UndefinedShift == {Zero, Ones}

ConditionFails(ins) ==
    /\ ~inst_cond(Fetched(reg), ins)
    /\ arm_step(Outcome(Fetched(reg), mem, FetchResult(reg)))

LoadStore(ins, ub) ==
    /\ inst_cond(Fetched(reg), ins) /\ IsTransfer(ins)
    /\ arm_step(arm_load_store([reg |-> Fetched(reg), mem |-> mem], ins, ub))

LoadStoreMultiple(ins) ==
    /\ inst_cond(Fetched(reg), ins) /\ IsMultiple(ins)
    /\ arm_step(arm_load_store_multiple([reg |-> Fetched(reg), mem |-> mem], ins))

Branch(ins) ==
    /\ inst_cond(Fetched(reg), ins) /\ IsBranch(ins)
    /\ arm_step(Outcome(arm_branch(Fetched(reg), ins), mem, 0))

(* mutant: Rd is written before the encoding is known to be MRS *)
MiscWritesFirst(ins) ==
    /\ inst_cond(Fetched(reg), ins) /\ IsMisc(ins)
    /\ arm_step(Outcome(mrs(Fetched(reg), ins), mem,
                        IF IsMrs(ins) THEN 0 ELSE UNDEFINED_INSTRUCTION))

Miscellaneous(ins) ==
    /\ inst_cond(Fetched(reg), ins) /\ IsMisc(ins)
    /\ arm_step(IF IsMrs(ins) THEN Outcome(mrs(Fetched(reg), ins), mem, 0)
                ELSE Outcome(Fetched(reg), mem, UNDEFINED_INSTRUCTION))

Swi(ins) ==
    /\ inst_cond(Fetched(reg), ins) /\ IsSwi(ins)
    /\ arm_step(Outcome(Fetched(reg), mem, arm_coprocessor_others_swi(ins)))

DataProcessing(ins) ==
    /\ inst_cond(Fetched(reg), ins) /\ IsData(ins)
    /\ arm_step(Outcome(arm_data_processing_shift(Fetched(reg), ins), mem,
                        IF OperandUndefined(ins) THEN UNDEFINED_INSTRUCTION ELSE 0))

(* No test matches: nothing is executed, the result is that of the fetch.  *)
Unrecognised(ins) ==
    /\ inst_cond(Fetched(reg), ins)
    /\ ~(IsTransfer(ins) \/ IsMultiple(ins) \/ IsBranch(ins) \/ IsMisc(ins)
           \/ IsSwi(ins) \/ IsData(ins))
    /\ arm_step(Outcome(Fetched(reg), mem, FetchResult(reg)))

Next == \E ins \in Opcodes(reg, mem) :
    \/ ConditionFails(ins)
    \/ \E ub \in UndefinedShift : LoadStore(ins, ub)
    \/ LoadStoreMultiple(ins)
    \/ Branch(ins)
    \/ Miscellaneous(ins)
    \/ Swi(ins)
    \/ DataProcessing(ins)
    \/ Unrecognised(ins)

Spec == Init /\ [][Next]_vars

----------------------------------------------------------------------------
(* The processor keeps well-formed registers and memory, whatever it runs. *)
ProcessorTypeOK ==
    /\ reg \in RegistersSet /\ mem \in MemorySet
    /\ result \in {-1, 0, EXIT} \cup Exceptions

(* The instruction of the step that is taken, where its fetch succeeds,    *)
(* and the registers it sees: r is the group after the fetch.              *)
Executes(P(_, _)) ==
    FetchOk(reg) => \A ins \in Opcodes(reg, mem) :
        inst_cond(Fetched(reg), ins) => P(Fetched(reg), ins)

At == ToNat(FetchAddress(reg))         \* its address; small, as the fetch succeeds

WordOf(i) == IF i >= 0 THEN ToWord(i) ELSE Minus(Zero, ToWord(-i))

Rn(ins) == get_bits(ins, 19, 16)
Rd(ins) == get_bits(ins, 15, 12)

(* The instruction may write the pc.                                       *)
WritesPc(ins) ==
    \/ IsBranch(ins)
    \/ (IsData(ins) \/ IsMisc(ins)) /\ Rd(ins) = 15
    \/ IsTransfer(ins) /\ 15 \in {Rn(ins), Rd(ins)}
    \/ IsMultiple(ins) /\ (15 \in ins \/ Rn(ins) = 15)

(* arm_core.c: "instructions read their own address + 8 when reading the   *)
(* pc", whatever was last written to it; and after an instruction that     *)
(* does not write the pc, or whose condition fails, the next one is at     *)
(* its address + 4.                                                        *)
PcRunsAhead ==
    [][/\ FetchOk(reg) => arm_read_register(Fetched(reg), 15) = ToWord(At + 8)
       /\ Executes(LAMBDA r, ins : ~WritesPc(ins) => FetchAddress(reg') = ToWord(At + 4))
       /\ FetchOk(reg) /\ (\A ins \in Opcodes(reg, mem) : ~inst_cond(Fetched(reg), ins))
            => FetchAddress(reg') = ToWord(At + 4)]_vars

(* The meaning of a condition code after a comparison of a with b, by the  *)
(* comments of inst_cond.                                                  *)
Lower(a, b)   == Hi(a) < Hi(b) \/ (Hi(a) = Hi(b) /\ Lo(a) < Lo(b))
Smaller(a, b) == SignedHi(a) < SignedHi(b) \/ (Hi(a) = Hi(b) /\ Lo(a) < Lo(b))
Relation(cond, a, b) ==
    CASE cond = 0  -> a = b                      [] cond = 1  -> a # b
      [] cond = 2  -> ~Lower(a, b)               [] cond = 3  -> Lower(a, b)
      [] cond = 8  -> Lower(b, a)                [] cond = 9  -> ~Lower(b, a)
      [] cond = 10 -> ~Smaller(a, b)             [] cond = 11 -> Smaller(a, b)
      [] cond = 12 -> Smaller(b, a)              [] cond = 13 -> ~Smaller(b, a)

(* After CMP Rn, operand an instruction with one of the ten comparison     *)
(* conditions is executed exactly when Rn and the operand, as unsigned or  *)
(* as signed integers, are in the relation that the condition names.       *)
ComparisonsDecide ==
    [][Executes(LAMBDA r, ins :
        IsData(ins) /\ get_bits(ins, 24, 21) = 10 /\ ~OperandUndefined(ins) =>
            \A cond \in {0, 1, 2, 3} \cup 8..13 :
                inst_cond(reg', {i + 28 : i \in ToWord(cond)})
                  = Relation(cond, arm_read_register(r, Rn(ins)),
                             ShifterOperand(r, ins).value))]_vars

(* B and BL continue at their address + 8 + 4 * the signed offset; BL and  *)
(* only BL leaves the address of the next instruction in R14, and nothing  *)
(* else changes.                                                           *)
BranchesLink ==
    [][Executes(LAMBDA r, ins : IsBranch(ins) =>
        LET offset == get_bits(ins, 22, 0) - (IF 23 \in ins THEN 2^23 ELSE 0)
            target == At + 8 + 4 * offset
        IN  /\ FetchAddress(reg') = WordOf(target)
            /\ read_register(reg', 14) =
                 IF 24 \in ins THEN ToWord(At + 4) ELSE read_register(reg, 14)
            /\ \A n \in 0..13 : read_register(reg', n) = read_register(reg, n)
            /\ mem' = mem)]_vars

(* A transfer that aborts changes no memory and, but for a base that is    *)
(* written back before the access, no register below the pc: in particular *)
(* not the destination.                                                    *)
AbortedTransferIsHarmless ==
    [][Executes(LAMBDA r, ins : IsTransfer(ins) /\ result' = DATA_ABORT =>
        /\ mem' = mem
        /\ \A n \in 0..14 : (n = Rn(ins) /\ {24, 21} \subseteq ins)
                          \/ read_register(reg', n) = read_register(reg, n))]_vars

----------------------------------------------------------------------------
(* LDM and STM as Examples/ex_LDM_STM.s describes them: the registers of   *)
(* the list, lowest first, go to base, base + 4, ... upwards or to base,   *)
(* base - 4, ... downwards, shifted by one place in the "before" forms.    *)
List(ins) == ins \cap 0..15
Rank(ins, n) == Cardinality({k \in List(ins) : k < n})
Moves(base, ins, count) == Moved(base, ToWord(4 * count), 23 \in ins)
Place(base, ins, n) ==
    AddressOf(Moves(base, ins, Rank(ins, n) + (IF 24 \in ins THEN 1 ELSE 0)))
Outside(a, places) == \A p \in places : a \notin p..(p + 3)

MultipleDone(ins) == IsMultiple(ins) /\ 22 \notin ins /\ result' = 0

(* Every register of the list is stored at, or loaded from, its place; no  *)
(* byte elsewhere changes; and a base that is written back has moved by 4  *)
(* times the number of registers.                                          *)
MultipleLayout ==
    [][Executes(LAMBDA r, ins : MultipleDone(ins) =>
        LET base  == arm_read_register(r, Rn(ins))
            at(n) == Place(base, ins, n)
            back  == IF 21 \in ins THEN {Rn(ins)} ELSE {}
        IN  /\ 20 \notin ins => \A n \in List(ins) :
                 memory_read_word(mem', at(n)) = arm_read_register(r, n)
            /\ 20 \in ins => \A n \in List(ins) \ (back \cup {15}) :
                 read_register(reg', n) = memory_read_word(mem, at(n))
            /\ \A a \in 0..Size : 20 \in ins \/ Outside(a, {at(n) : n \in List(ins)})
                  => mem'.data[a] = mem.data[a]
            /\ \A n \in back \ {15} :
                 read_register(reg', n) = Moves(base, ins, Cardinality(List(ins))))]_vars

(* An LDM or STM that aborts has met the first illegal place of its list   *)
(* and has moved exactly the registers before it; it has written no other  *)
(* byte and no other register below the pc, and has not written back its   *)
(* base (unless it loaded it), so that it can be run again.                *)
AbortedMultipleIsPrefix ==
    [][Executes(LAMBDA r, ins : IsMultiple(ins) /\ result' = DATA_ABORT =>
        LET base  == arm_read_register(r, Rn(ins))
            at(n) == Place(base, ins, n)
        IN  \E k \in List(ins) :
              LET moved == {n \in List(ins) : n < k}
              IN  /\ ~word_ok(at(k)) /\ \A n \in moved : word_ok(at(n))
                  /\ \A n \in 0..14 : read_register(reg', n) =
                       IF 20 \in ins /\ n \in moved THEN memory_read_word(mem, at(n))
                                                    ELSE read_register(r, n)
                  /\ 20 \notin ins => \A n \in moved :
                       memory_read_word(mem', at(n)) = arm_read_register(r, n)
                  /\ \A a \in 0..Size : 20 \in ins \/ Outside(a, {at(n) : n \in moved})
                        => mem'.data[a] = mem.data[a])]_vars

----------------------------------------------------------------------------
(* A step that reports UNDEFINED_INSTRUCTION has had no effect.            *)
UndefinedIsInert ==
    result' = UNDEFINED_INSTRUCTION => reg' = Fetched(reg) /\ mem' = mem

(* LDRT, LDRBT, STRT and STRBT: post-indexed, with the write-back bit.     *)
UserTransfer(ins) == WordOrByte(ins) /\ 24 \notin ins /\ 21 \in ins

(* Every instruction that is reported undefined has had no effect beyond   *)
(* the fetch; but for those four, which arm_load_store carries out first.  *)
UndefinedHasNoEffect ==
    [][Executes(LAMBDA r, ins : UserTransfer(ins) \/ UndefinedIsInert)]_vars
============================================================================
