---------------------------- MODULE ArmLoadStore ----------------------------
(***************************************************************************)
(* arm_load_store.c: LDR, LDRB, LDRH, STR, STRB, STRH, LDM and STM.  The   *)
(* processor is a record [reg, mem]; an instruction yields its outcome     *)
(* [reg, mem, result], where result is 0 or an exception number.           *)
(***************************************************************************)
EXTENDS ArmCore, Memory

Outcome(r, m, result) == [reg |-> r, mem |-> m, result |-> result]

(* The natural that memory.c is given.  A word that is no address of the   *)
(* checked AddressSpace is taken to the last addresses, which are outside  *)
(* the memory, with its alignment kept.                                    *)
AddressOf(x) ==
    LET high == ToNat({i \in 0..25 : i + 2 \in x})
        low  == ToNat(x \cap 0..1)
    IN  IF x \subseteq 0..27 /\ 4 * high < AddressSpace
        THEN 4 * high + low ELSE AddressSpace - 4 + low

Moved(address, offset, up) == IF up THEN Plus(address, offset) ELSE Minus(address, offset)

----------------------------------------------------------------------------
(* arm_load_store *)

(* The scaled register offset.  ASR #0 calls asr with a shift of 0, where  *)
(* the C expression ~0 << 32 is undefined: ub is the value it takes.       *)
ScaledOffset(r, ins, ub) ==
    LET rm    == arm_read_register(r, get_bits(ins, 3, 0))
        kind  == get_bits(ins, 6, 5)
        shift == get_bits(ins, 11, 7)
    IN  CASE kind = 0 -> ShiftLeft(rm, shift)
          [] kind = 1 -> IF shift = 0 THEN Zero ELSE ShiftRight(rm, shift)
          [] kind = 2 -> IF shift = 0 /\ 31 \in rm THEN rm \cup ub ELSE asr(rm, shift)
          [] kind = 3 -> IF shift = 0
                         THEN ShiftRight(rm, 1) \cup (IF C \in read_cpsr(r) THEN {31} ELSE {})
                         ELSE ror(rm, shift)

WordOrByte(ins) == get_bits(ins, 27, 26) = 1

(* The miscellaneous half-word forms that the function recognises.         *)
HalfOrSigned(ins) ==
    /\ get_bits(ins, 27, 25) = 0 /\ {7, 4} \subseteq ins /\ get_bits(ins, 31, 28) # 15
    /\ 24 \in ins \/ get_bits(ins, 6, 5) # 0

TransferOffset(r, ins, ub) ==
    CASE WordOrByte(ins) /\ 25 \in ins    -> ScaledOffset(r, ins, ub)
      [] WordOrByte(ins) /\ 25 \notin ins -> ins \cap 0..11
      [] OTHER -> IF 22 \in ins THEN {i - 4 : i \in ins \cap 8..11} \cup (ins \cap 0..3)
                                ELSE arm_read_register(r, get_bits(ins, 3, 0))

Unit(ins) == IF WordOrByte(ins) THEN (IF 22 \in ins THEN 1 ELSE 4) ELSE 2

access_ok(unit, a) ==
    CASE unit = 1 -> byte_ok(a) [] unit = 2 -> half_ok(a) [] unit = 4 -> word_ok(a)
read_unit(m, unit, a) ==
    CASE unit = 1 -> memory_read_byte(m, a) [] unit = 2 -> memory_read_half(m, a)
      [] unit = 4 -> memory_read_word(m, a)
write_unit(m, unit, a, v) ==
    CASE unit = 1 -> memory_write_byte(m, a, v \cap 0..7)
      [] unit = 2 -> memory_write_half(m, a, v \cap 0..15)
      [] unit = 4 -> memory_write_word(m, a, v)

(* mutant: the destination is written before the access is known to be legal *)
LoadBeforeCheck(p, ins, ub) ==
    LET rn      == get_bits(ins, 19, 16)
        rd      == get_bits(ins, 15, 12)
        pre     == 24 \in ins
        moved   == Moved(arm_read_register(p.reg, rn), TransferOffset(p.reg, ins, ub), 23 \in ins)
        address == IF pre THEN moved ELSE arm_read_register(p.reg, rn)
        a       == AddressOf(address)
        ok      == access_ok(Unit(ins), a)
    IN  Outcome(write_register(p.reg, rd, IF ok THEN read_unit(p.mem, Unit(ins), a) ELSE Zero),
                p.mem, IF ok THEN 0 ELSE DATA_ABORT)

arm_load_store(p, ins, ub) ==
    LET rn      == get_bits(ins, 19, 16)
        rd      == get_bits(ins, 15, 12)
        pre     == 24 \in ins
        writeback == 21 \in ins
        unit    == Unit(ins)
        base    == arm_read_register(p.reg, rn)
        moved   == Moved(base, TransferOffset(p.reg, ins, ub), 23 \in ins)
        address == IF pre THEN moved ELSE base
        a       == AddressOf(address)
        (* pre-indexed: the base is written back before the access         *)
        r1      == IF pre /\ writeback THEN write_register(p.reg, rn, address) ELSE p.reg
        r2      == IF 20 \in ins THEN write_register(r1, rd, read_unit(p.mem, unit, a)) ELSE r1
        m2      == IF 20 \in ins THEN p.mem
                   ELSE write_unit(p.mem, unit, a, arm_read_register(r1, rd))
    IN  IF WordOrByte(ins) /\ {25, 4} \subseteq ins
        THEN Outcome(p.reg, p.mem, UNDEFINED_INSTRUCTION)
        ELSE IF ~WordOrByte(ins) /\ ~HalfOrSigned(ins)
        THEN Outcome(p.reg, p.mem, UNDEFINED_INSTRUCTION)
        ELSE IF ~WordOrByte(ins) /\ get_bits(ins, 6, 5) # 1
        THEN Outcome(r1, p.mem, UNDEFINED_INSTRUCTION)
        ELSE IF ~access_ok(unit, a) THEN Outcome(r1, p.mem, DATA_ABORT)
        ELSE IF pre THEN Outcome(r2, m2, 0)
        (* post-indexed: LDRT and the like are refused after the access    *)
        ELSE IF WordOrByte(ins) /\ writeback THEN Outcome(r2, m2, UNDEFINED_INSTRUCTION)
        ELSE Outcome(write_register(r2, rn, moved), m2, 0)

----------------------------------------------------------------------------
(* arm_load_store_multiple *)

(* One register of the list, lowest first, until an access is illegal.     *)
TransferRegister(s, ins, n) ==
    IF s.result # 0 \/ n \notin ins THEN s
    ELSE LET a     == AddressOf(s.address)
             value == memory_read_word(s.mem, a)
             next  == Moved(s.address, Four, 23 \in ins)
         IN  IF ~word_ok(a) THEN [s EXCEPT !.result = DATA_ABORT]
             ELSE IF 20 \in ins
             THEN [s EXCEPT !.address = next,
                            !.reg = write_register(@, n, IF n = 15 THEN value \ {0} ELSE value)]
             ELSE [s EXCEPT !.address = next,
                            !.mem = memory_write_word(@, a, arm_read_register(s.reg, n))]

(* The sixteen registers in turn: what the first n have done to the start. *)
Transfers(start, ins) ==
    LET after[n \in 0..16] ==
            IF n = 0 THEN start ELSE TransferRegister(after[n - 1], ins, n - 1)
    IN  after

(* mutant: the extra step of the pre-indexed forms stays in the base *)
MultipleKeepsExtraStep(p, ins) ==
    LET rn    == get_bits(ins, 19, 16)
        base  == arm_read_register(p.reg, rn)
        start == [reg |-> p.reg, mem |-> p.mem, result |-> 0,
                  address |-> IF 24 \in ins THEN Moved(base, Four, 23 \in ins) ELSE base]
        done  == Transfers(start, ins)[16]
    IN  Outcome(IF 21 \in ins THEN write_register(done.reg, rn, done.address) ELSE done.reg,
                done.mem, done.result)

arm_load_store_multiple(p, ins) ==
    LET rn    == get_bits(ins, 19, 16)
        up    == 23 \in ins
        base  == arm_read_register(p.reg, rn)
        start == [reg |-> p.reg, mem |-> p.mem, result |-> 0,
                  address |-> IF 24 \in ins THEN Moved(base, Four, up) ELSE base]
        done  == Transfers(start, ins)[16]
        final == IF 24 \in ins THEN Moved(done.address, Four, ~up) ELSE done.address
    IN  IF 22 \in ins THEN Outcome(p.reg, p.mem, UNDEFINED_INSTRUCTION)
        ELSE IF done.result # 0 THEN Outcome(done.reg, done.mem, DATA_ABORT)
        ELSE IF 21 \in ins THEN Outcome(write_register(done.reg, rn, final), done.mem, 0)
        ELSE Outcome(done.reg, done.mem, 0)
============================================================================
