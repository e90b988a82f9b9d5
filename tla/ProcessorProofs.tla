--------------------------- MODULE ProcessorProofs ---------------------------
(***************************************************************************)
(* Proofs about arm_step, for every program, every memory and every state  *)
(* of the registers: the processor stays well formed, and what the         *)
(* instructions that are refused or aborted leave behind.                  *)
(***************************************************************************)
EXTENDS ArmInstruction, ArmDataProcessingProofs, MemoryProofs, FiniteSetTheorems

----------------------------------------------------------------------------
(* Memory as the instructions use it. *)

(* The address that memory.c is given is one of its address space.         *)
LEMMA AddressesAreTyped == ASSUME NEW x PROVE AddressOf(x) \in Address
<1> DEFINE high == ToNat({i \in 0..25 : i + 2 \in x})
           low  == ToNat(x \cap 0..1)
<1>1. low \in 0..3
  BY SmallNumbers
<1>2. high \in Nat
  <2>1. \A y, l : Digit(y, l) \in Nat
    BY DEF Digit
  <2> QED
    BY <2>1 DEF ToNat
<1>3. AddressOf(x) = IF x \subseteq 0..27 /\ 4 * high < AddressSpace
                     THEN 4 * high + low ELSE AddressSpace - 4 + low
  BY DEF AddressOf
<1> HIDE DEF high, low
<1>4. 4 * high < AddressSpace => 4 * high + 3 < AddressSpace
  BY <1>2, MemoryAssumption
<1> QED
  BY <1>1, <1>2, <1>3, <1>4, MemoryAssumption DEF Address

(* What a read that succeeds returns is a word.                            *)
LEMMA LanesAreWords ==
    ASSUME NEW m \in MemorySet, NEW a \in Nat, NEW n \in {2, 4}, NEW i \in 0..(n - 1), a + i <= Size
    PROVE  Lane(m, n, a, i) \in Word
<1>1. m.data[a + i] \subseteq 0..7
  BY MemoryAssumption DEF MemorySet, Byte
<1>2. LaneShift(m, n, i) \in 0..24
  BY DEF LaneShift
<1> QED
  BY <1>1, <1>2 DEF Lane, Word, Bit

(* What memory.c reads is a word.                                          *)
LEMMA MemoryReadsAreWords ==
    ASSUME NEW m \in MemorySet, NEW a \in Address
    PROVE  /\ byte_ok(a) => memory_read_byte(m, a) \in Word
           /\ half_ok(a) => memory_read_half(m, a) \in Word
           /\ word_ok(a) => memory_read_word(m, a) \in Word
<1>0. a \in Nat
  BY MemoryAssumption DEF Address
<1>1. byte_ok(a) => memory_read_byte(m, a) \in Word
  <2>1. byte_ok(a) => m.data[a] \subseteq 0..7
    BY <1>0, MemoryAssumption DEF byte_ok, MemorySet, Byte
  <2>2. 0..7 \subseteq Bit
    BY DEF Bit
  <2> QED
    BY <2>1, <2>2 DEF memory_read_byte, Word
<1>2. ASSUME half_ok(a) PROVE memory_read_half(m, a) \in Word
  <2>1. a + 0 <= Size /\ a + 1 <= Size
    BY <1>0, <1>2, HalfInside, MemoryAssumption
  <2>2. Lane(m, 2, a, 0) \in Word /\ Lane(m, 2, a, 1) \in Word
    BY <1>0, <2>1, LanesAreWords
  <2> QED
    BY <2>2, LoadIsLanes DEF memory_read_half, Word
<1>3. ASSUME word_ok(a) PROVE memory_read_word(m, a) \in Word
  <2>1. a + 0 <= Size /\ a + 1 <= Size /\ a + 2 <= Size /\ a + 3 <= Size
    BY <1>0, <1>3, WordInside, MemoryAssumption
  <2>2. /\ Lane(m, 4, a, 0) \in Word /\ Lane(m, 4, a, 1) \in Word
        /\ Lane(m, 4, a, 2) \in Word /\ Lane(m, 4, a, 3) \in Word
    BY <1>0, <2>1, LanesAreWords
  <2> QED
    BY <2>2, LoadIsLanes DEF memory_read_word, Word
<1> QED
  BY <1>1, <1>2, <1>3

(* The writes of the three sizes keep the memory well formed.              *)
LEMMA MemoryWritesAreTyped ==
    ASSUME NEW m \in MemorySet, NEW a \in Address, NEW v
    PROVE  /\ v \in Byte => memory_write_byte(m, a, v) \in MemorySet
           /\ memory_write_half(m, a, v) \in MemorySet
           /\ memory_write_word(m, a, v) \in MemorySet
<1>1. v \in Byte => memory_write_byte(m, a, v) \in MemorySet
  BY MemoryAssumption DEF memory_write_byte, byte_ok, MemorySet, Address
<1> QED
  BY <1>1, StoreIsTyped DEF memory_write_half, memory_write_word

(* The accesses of load and store, for each size of a transfer.            *)
LEMMA UnitsAreTyped ==
    ASSUME NEW m \in MemorySet, NEW a \in Address, NEW unit \in {1, 2, 4}, NEW v \in Word
    PROVE  /\ access_ok(unit, a) => read_unit(m, unit, a) \in Word
           /\ write_unit(m, unit, a, v) \in MemorySet
<1>1. access_ok(unit, a) => read_unit(m, unit, a) \in Word
  <2>1. CASE unit = 1
    BY <2>1, MemoryReadsAreWords DEF access_ok, read_unit
  <2>2. CASE unit = 2
    BY <2>2, MemoryReadsAreWords DEF access_ok, read_unit
  <2>3. CASE unit = 4
    BY <2>3, MemoryReadsAreWords DEF access_ok, read_unit
  <2> QED
    BY <2>1, <2>2, <2>3
<1>2. v \cap 0..7 \in Byte
  BY DEF Byte
<1>3. /\ memory_write_byte(m, a, v \cap 0..7) \in MemorySet
      /\ memory_write_half(m, a, v \cap 0..15) \in MemorySet
      /\ memory_write_word(m, a, v) \in MemorySet
  BY <1>2, MemoryWritesAreTyped
<1> QED
  BY <1>1, <1>3 DEF write_unit

----------------------------------------------------------------------------
(* The instructions: a well-formed outcome. *)
Outcomes == [reg : RegistersSet, mem : MemorySet, result : {-1, 0, EXIT} \cup Exceptions]

(* arm_fetch moves the pc, and nothing else.                               *)
LEMMA FetchIsTyped ==
    ASSUME NEW r \in RegistersSet
    PROVE  FetchAddress(r) \in Word /\ Fetched(r) \in RegistersSet
<1>1. FetchAddress(r) \in Word /\ Plus(FetchAddress(r), Four) \in Word
  BY WordsAreClosed DEF FetchAddress
<1> QED
  BY <1>1, InstructionWrites DEF Fetched

(* What the fetch reads, or leaves unset, is a word.                       *)
LEMMA OpcodesAreWords ==
    ASSUME NEW r \in RegistersSet, NEW m \in MemorySet, NEW ins \in Opcodes(r, m)
    PROVE  ins \in Word
BY AddressesAreTyped, MemoryReadsAreWords, ArmInstructionAssumption DEF Opcodes, FetchOk

(* A base moved up or down is a word.                                      *)
LEMMA MovedIsWord == ASSUME NEW x, NEW y, NEW up PROVE Moved(x, y, up) \in Word
BY WordsAreClosed DEF Moved

(* LDR, LDRB, LDRH, STR, STRB, STRH.                                       *)
LEMMA LoadStoreIsTyped ==
    ASSUME NEW r \in RegistersSet, NEW m \in MemorySet, NEW ins \in Word, NEW ub
    PROVE  arm_load_store([reg |-> r, mem |-> m], ins, ub) \in Outcomes
<1> DEFINE rn      == get_bits(ins, 19, 16)
           rd      == get_bits(ins, 15, 12)
           unit    == Unit(ins)
           base    == arm_read_register(r, rn)
           moved   == Moved(base, TransferOffset(r, ins, ub), 23 \in ins)
           address == IF 24 \in ins THEN moved ELSE base
           a       == AddressOf(address)
           r1      == IF 24 \in ins /\ 21 \in ins THEN write_register(r, rn, address) ELSE r
           r2      == IF 20 \in ins THEN write_register(r1, rd, read_unit(m, unit, a)) ELSE r1
           m2      == IF 20 \in ins THEN m ELSE write_unit(m, unit, a, arm_read_register(r1, rd))
<1>1. rn \in 0..15 /\ rd \in 0..15 /\ unit \in {1, 2, 4} /\ a \in Address
  BY RegisterFields, AddressesAreTyped DEF Unit
<1>2. base \in Word /\ moved \in Word /\ address \in Word
  BY <1>1, ReadsAreWords, MovedIsWord
<1> HIDE DEF rn, rd, unit, base, moved, address, a
<1>3. r1 \in RegistersSet
  BY <1>1, <1>2, InstructionWrites
<1>4. arm_read_register(r1, rd) \in Word
  BY <1>1, <1>3, ReadsAreWords
<1> HIDE DEF r1
<1>5. access_ok(unit, a) => r2 \in RegistersSet
  BY <1>1, <1>3, UnitsAreTyped, InstructionWrites
<1>6. m2 \in MemorySet
  BY <1>1, <1>4, UnitsAreTyped
<1> HIDE DEF r2, m2
<1>7. access_ok(unit, a) => write_register(r2, rn, moved) \in RegistersSet
  BY <1>1, <1>2, <1>5, InstructionWrites
<1>8. arm_load_store([reg |-> r, mem |-> m], ins, ub) =
        IF WordOrByte(ins) /\ {25, 4} \subseteq ins
        THEN Outcome(r, m, UNDEFINED_INSTRUCTION)
        ELSE IF ~WordOrByte(ins) /\ ~HalfOrSigned(ins)
        THEN Outcome(r, m, UNDEFINED_INSTRUCTION)
        ELSE IF ~WordOrByte(ins) /\ get_bits(ins, 6, 5) # 1
        THEN Outcome(r1, m, UNDEFINED_INSTRUCTION)
        ELSE IF ~access_ok(unit, a) THEN Outcome(r1, m, DATA_ABORT)
        ELSE IF 24 \in ins THEN Outcome(r2, m2, 0)
        ELSE IF WordOrByte(ins) /\ 21 \in ins THEN Outcome(r2, m2, UNDEFINED_INSTRUCTION)
        ELSE Outcome(write_register(r2, rn, moved), m2, 0)
  BY DEF arm_load_store, rn, rd, unit, base, moved, address, a, r1, r2, m2
<1> QED
  BY <1>3, <1>5, <1>6, <1>7, <1>8
  DEF Outcome, Outcomes, Exceptions, UNDEFINED_INSTRUCTION, DATA_ABORT, RESET, FAST_INTERRUPT

----------------------------------------------------------------------------
(* LDM and STM.  The function of the sixteen transfers exists: it is       *)
(* written down register by register.                                      *)
LEMMA TransfersUnfold ==
    ASSUME NEW start, NEW ins
    PROVE  Transfers(start, ins) = [n \in 0..16 |->
               IF n = 0 THEN start
               ELSE TransferRegister(Transfers(start, ins)[n - 1], ins, n - 1)]
<1> DEFINE G(f) == [n \in 0..16 |->
               IF n = 0 THEN start ELSE TransferRegister(f[n - 1], ins, n - 1)]
<1>1. \E f : f = G(f)
  <2>1. PICK a1 : a1 = TransferRegister(start, ins, 0)
    OBVIOUS
  <2>2. PICK a2 : a2 = TransferRegister(a1, ins, 1)
    OBVIOUS
  <2>3. PICK a3 : a3 = TransferRegister(a2, ins, 2)
    OBVIOUS
  <2>4. PICK a4 : a4 = TransferRegister(a3, ins, 3)
    OBVIOUS
  <2>5. PICK a5 : a5 = TransferRegister(a4, ins, 4)
    OBVIOUS
  <2>6. PICK a6 : a6 = TransferRegister(a5, ins, 5)
    OBVIOUS
  <2>7. PICK a7 : a7 = TransferRegister(a6, ins, 6)
    OBVIOUS
  <2>8. PICK a8 : a8 = TransferRegister(a7, ins, 7)
    OBVIOUS
  <2>9. PICK a9 : a9 = TransferRegister(a8, ins, 8)
    OBVIOUS
  <2>10. PICK a10 : a10 = TransferRegister(a9, ins, 9)
    OBVIOUS
  <2>11. PICK a11 : a11 = TransferRegister(a10, ins, 10)
    OBVIOUS
  <2>12. PICK a12 : a12 = TransferRegister(a11, ins, 11)
    OBVIOUS
  <2>13. PICK a13 : a13 = TransferRegister(a12, ins, 12)
    OBVIOUS
  <2>14. PICK a14 : a14 = TransferRegister(a13, ins, 13)
    OBVIOUS
  <2>15. PICK a15 : a15 = TransferRegister(a14, ins, 14)
    OBVIOUS
  <2>16. PICK a16 : a16 = TransferRegister(a15, ins, 15)
    OBVIOUS
  <2> DEFINE g == [n \in 0..16 |->
        CASE n = 0 -> start [] n = 1 -> a1 [] n = 2 -> a2 [] n = 3 -> a3 [] n = 4 -> a4
          [] n = 5 -> a5 [] n = 6 -> a6 [] n = 7 -> a7 [] n = 8 -> a8 [] n = 9 -> a9
          [] n = 10 -> a10 [] n = 11 -> a11 [] n = 12 -> a12 [] n = 13 -> a13
          [] n = 14 -> a14 [] n = 15 -> a15 [] n = 16 -> a16]
  <2>17. /\ g[0] = start /\ g[1] = a1 /\ g[2] = a2 /\ g[3] = a3 /\ g[4] = a4 /\ g[5] = a5
         /\ g[6] = a6 /\ g[7] = a7 /\ g[8] = a8 /\ g[9] = a9 /\ g[10] = a10 /\ g[11] = a11
         /\ g[12] = a12 /\ g[13] = a13 /\ g[14] = a14 /\ g[15] = a15 /\ g[16] = a16
    OBVIOUS
  <2>18. DOMAIN g = 0..16 /\ g = [n \in 0..16 |-> g[n]]
    OBVIOUS
  <2> HIDE DEF g
  <2>19. \A n \in 0..16 : g[n] = IF n = 0 THEN start ELSE TransferRegister(g[n - 1], ins, n - 1)
    BY <2>1, <2>2, <2>3, <2>4, <2>5, <2>6, <2>7, <2>8, <2>9, <2>10, <2>11, <2>12, <2>13,
       <2>14, <2>15, <2>16, <2>17
  <2>20. g = G(g)
    BY <2>18, <2>19
  <2> QED
    BY <2>20
<1>2. Transfers(start, ins) = CHOOSE f : f = G(f)
  BY DEF Transfers
<1> QED
  BY <1>1, <1>2, Zenon

(* One turn after the other.                                               *)
LEMMA TransferSteps ==
    ASSUME NEW start, NEW ins, NEW T, T = Transfers(start, ins)
    PROVE  T[0] = start /\ \A n \in 0..15 : T[n + 1] = TransferRegister(T[n], ins, n)
<1>1. T = [n \in 0..16 |-> IF n = 0 THEN start ELSE TransferRegister(T[n - 1], ins, n - 1)]
  BY TransfersUnfold
<1>2. T[0] = start
  BY <1>1
<1>3. ASSUME NEW n \in 0..15 PROVE T[n + 1] = TransferRegister(T[n], ins, n)
  <2>1. n + 1 \in 0..16 /\ n + 1 # 0 /\ (n + 1) - 1 = n
    OBVIOUS
  <2> QED
    BY <1>1, <2>1
<1> QED
  BY <1>2, <1>3

(* What the transfers carry along stays well formed.                       *)
Transferring ==
    [reg : RegistersSet, mem : MemorySet, result : {0, DATA_ABORT}, address : Word]

(* One turn of the loop of arm_load_store_multiple.                        *)
LEMMA TransferIsTyped ==
    ASSUME NEW s \in Transferring, NEW ins \in Word, NEW n \in 0..15
    PROVE  TransferRegister(s, ins, n) \in Transferring
<1> DEFINE a     == AddressOf(s.address)
           value == memory_read_word(s.mem, a)
           next  == Moved(s.address, Four, 23 \in ins)
<1>0. s.reg \in RegistersSet /\ s.mem \in MemorySet /\ s.address \in Word
  BY DEF Transferring
<1>1. a \in Address /\ next \in Word
  BY AddressesAreTyped, MovedIsWord
<1>2. word_ok(a) => value \in Word /\ value \ {0} \in Word
  BY <1>0, <1>1, MemoryReadsAreWords, BitwiseClosed
<1> HIDE DEF a, value, next
<1>3. word_ok(a) => write_register(s.reg, n, IF n = 15 THEN value \ {0} ELSE value) \in RegistersSet
  BY <1>0, <1>2, InstructionWrites
<1>4. memory_write_word(s.mem, a, arm_read_register(s.reg, n)) \in MemorySet
  BY <1>0, <1>1, MemoryWritesAreTyped
<1>5. TransferRegister(s, ins, n) =
        IF s.result # 0 \/ n \notin ins THEN s
        ELSE IF ~word_ok(a) THEN [s EXCEPT !.result = DATA_ABORT]
        ELSE IF 20 \in ins
        THEN [s EXCEPT !.address = next,
                       !.reg = write_register(@, n, IF n = 15 THEN value \ {0} ELSE value)]
        ELSE [s EXCEPT !.address = next,
                       !.mem = memory_write_word(@, a, arm_read_register(s.reg, n))]
  BY DEF TransferRegister, a, value, next
<1>6. DATA_ABORT \in {0, DATA_ABORT}
  OBVIOUS
<1> QED
  BY <1>1, <1>3, <1>4, <1>5 DEF Transferring

(* The sixteen turns of the loop.                                          *)
LEMMA TransfersAreTyped ==
    ASSUME NEW start \in Transferring, NEW ins \in Word
    PROVE  Transfers(start, ins)[16] \in Transferring
<1> DEFINE T == Transfers(start, ins)
<1>1. T[0] = start /\ \A n \in 0..15 : T[n + 1] = TransferRegister(T[n], ins, n)
  BY TransferSteps
<1> HIDE DEF T
<1>2. \A n \in 0..15 : T[n] \in Transferring => T[n + 1] \in Transferring
  BY <1>1, TransferIsTyped
<1>3. T[0] \in Transferring
  BY <1>1
<1>4. T[4] \in Transferring
  BY <1>2, <1>3
<1>5. T[8] \in Transferring
  BY <1>2, <1>4
<1>6. T[12] \in Transferring
  BY <1>2, <1>5
<1>7. T[16] \in Transferring
  BY <1>2, <1>6
<1> QED
  BY <1>7 DEF T

(* LDM and STM.                                                            *)
LEMMA MultipleIsTyped ==
    ASSUME NEW r \in RegistersSet, NEW m \in MemorySet, NEW ins \in Word
    PROVE  arm_load_store_multiple([reg |-> r, mem |-> m], ins) \in Outcomes
<1> DEFINE rn    == get_bits(ins, 19, 16)
           base  == arm_read_register(r, rn)
           start == [reg |-> r, mem |-> m, result |-> 0,
                     address |-> IF 24 \in ins THEN Moved(base, Four, 23 \in ins) ELSE base]
           done  == Transfers(start, ins)[16]
           final == IF 24 \in ins THEN Moved(done.address, Four, ~(23 \in ins)) ELSE done.address
<1>1. rn \in 0..15 /\ base \in Word
  BY RegisterFields, ReadsAreWords
<1>2. start \in Transferring
  BY <1>1, MovedIsWord DEF Transferring
<1>3. done \in Transferring
  BY <1>2, TransfersAreTyped
<1> HIDE DEF rn, base, start, done
<1>4. done.reg \in RegistersSet /\ done.mem \in MemorySet /\ done.address \in Word
  BY <1>3 DEF Transferring
<1>5. final \in Word
  BY <1>4, MovedIsWord
<1> HIDE DEF final
<1>6. write_register(done.reg, rn, final) \in RegistersSet
  BY <1>1, <1>4, <1>5, InstructionWrites
<1>7. arm_load_store_multiple([reg |-> r, mem |-> m], ins) =
        IF 22 \in ins THEN Outcome(r, m, UNDEFINED_INSTRUCTION)
        ELSE IF done.result # 0 THEN Outcome(done.reg, done.mem, DATA_ABORT)
        ELSE IF 21 \in ins THEN Outcome(write_register(done.reg, rn, final), done.mem, 0)
        ELSE Outcome(done.reg, done.mem, 0)
  BY DEF arm_load_store_multiple, rn, base, start, done, final
<1> QED
  BY <1>4, <1>6, <1>7
  DEF Outcome, Outcomes, Exceptions, UNDEFINED_INSTRUCTION, DATA_ABORT, RESET, FAST_INTERRUPT

----------------------------------------------------------------------------
(* The whole of arm_step. *)

(* Whatever the result of the instruction, arm_exception leaves a register *)
(* group.                                                                  *)
LEMMA ExceptionIsTyped ==
    ASSUME NEW r \in RegistersSet, NEW e
    PROVE  arm_exception(r, e) \in RegistersSet
<1>1. Zero \in Word /\ ResetCpsr \in Word
  BY DEF Zero, ResetCpsr, Word, Bit
<1>2. write_cpsr(r, ResetCpsr) \in RegistersSet
  BY <1>1, WritesAreTyped DEF MainCell
<1>3. write_usr_register(write_cpsr(r, ResetCpsr), 15, Zero) \in RegistersSet
  BY <1>1, <1>2, InstructionWrites
<1> QED
  BY <1>3 DEF arm_exception

(* B, BL and MRS keep the group well formed.                               *)
LEMMA BranchIsTyped ==
    ASSUME NEW r \in RegistersSet, NEW ins \in Word
    PROVE  arm_branch(r, ins) \in RegistersSet /\ mrs(r, ins) \in RegistersSet
<1> DEFINE pc == arm_read_register(r, 15)
           offset == {i + 2 : i \in ins \cap 0..22} \cup (IF 23 \in ins THEN 25..31 ELSE {})
           r1 == IF 24 \in ins THEN write_register(r, 14, Minus(pc, Four)) ELSE r
<1>1. Minus(pc, Four) \in Word /\ Plus(pc, offset) \in Word
  BY WordsAreClosed
<1>2. arm_branch(r, ins) = write_register(r1, 15, Plus(pc, offset))
  BY DEF arm_branch
<1> HIDE DEF pc, offset
<1>3. r1 \in RegistersSet
  BY <1>1, InstructionWrites
<1> HIDE DEF r1
<1>4. arm_branch(r, ins) \in RegistersSet
  BY <1>1, <1>2, <1>3, InstructionWrites
<1>5. mrs(r, ins) \in RegistersSet
  <2>1. read_cpsr(r) \in Word /\ read_spsr(r) \in Word
    BY ReadsAreWords
  <2> QED
    BY <2>1, RegisterFields, InstructionWrites DEF mrs
<1> QED
  BY <1>4, <1>5

(* arm_step with a well-formed outcome.                                    *)
LEMMA StepIsTyped ==
    ASSUME NEW o \in Outcomes, arm_step(o)
    PROVE  ProcessorTypeOK'
<1>1. reg' = arm_exception(o.reg, o.result) /\ mem' = o.mem /\ result' = o.result
  BY DEF arm_step
<1>2. o.reg \in RegistersSet /\ o.mem \in MemorySet /\ o.result \in {-1, 0, EXIT} \cup Exceptions
  BY DEF Outcomes
<1> QED
  BY <1>1, <1>2, ExceptionIsTyped DEF ProcessorTypeOK

(* A step of the processor keeps it well formed.                           *)
LEMMA NextIsTyped == ASSUME ProcessorTypeOK, Next PROVE ProcessorTypeOK'
<1>1. reg \in RegistersSet /\ mem \in MemorySet
  BY DEF ProcessorTypeOK
<1> DEFINE r == Fetched(reg)
<1>2. r \in RegistersSet
  BY <1>1, FetchIsTyped
<1>3. PICK ins \in Opcodes(reg, mem) :
        \/ ConditionFails(ins)
        \/ \E ub \in UndefinedShift : LoadStore(ins, ub)
        \/ LoadStoreMultiple(ins) \/ Branch(ins) \/ Miscellaneous(ins)
        \/ Swi(ins) \/ DataProcessing(ins) \/ Unrecognised(ins)
  BY DEF Next
<1>4. ins \in Word
  BY <1>1, OpcodesAreWords
<1>5. /\ FetchResult(reg) \in {-1, 0, EXIT} \cup Exceptions
      /\ UNDEFINED_INSTRUCTION \in {-1, 0, EXIT} \cup Exceptions
      /\ 0 \in {-1, 0, EXIT} \cup Exceptions
      /\ arm_coprocessor_others_swi(ins) \in {-1, 0, EXIT} \cup Exceptions
  BY DEF FetchResult, arm_coprocessor_others_swi, Exceptions, UNDEFINED_INSTRUCTION,
         SOFTWARE_INTERRUPT, RESET, FAST_INTERRUPT
<1>6. ASSUME NEW g \in RegistersSet, NEW e \in {-1, 0, EXIT} \cup Exceptions
      PROVE  Outcome(g, mem, e) \in Outcomes
  BY <1>1 DEF Outcome, Outcomes
<1> HIDE DEF r
<1>7. CASE ConditionFails(ins) \/ Unrecognised(ins)
  <2>1. Outcome(r, mem, FetchResult(reg)) \in Outcomes
    BY <1>2, <1>5, <1>6
  <2>2. arm_step(Outcome(r, mem, FetchResult(reg)))
    BY <1>7 DEF ConditionFails, Unrecognised, r
  <2> QED
    BY <2>1, <2>2, StepIsTyped
<1>8. ASSUME NEW ub \in UndefinedShift, LoadStore(ins, ub) PROVE ProcessorTypeOK'
  <2>1. arm_load_store([reg |-> r, mem |-> mem], ins, ub) \in Outcomes
    BY <1>1, <1>2, <1>4, LoadStoreIsTyped
  <2>2. arm_step(arm_load_store([reg |-> r, mem |-> mem], ins, ub))
    BY <1>8 DEF LoadStore, r
  <2> QED
    BY <2>1, <2>2, StepIsTyped
<1>9. CASE LoadStoreMultiple(ins)
  <2>1. arm_load_store_multiple([reg |-> r, mem |-> mem], ins) \in Outcomes
    BY <1>1, <1>2, <1>4, MultipleIsTyped
  <2>2. arm_step(arm_load_store_multiple([reg |-> r, mem |-> mem], ins))
    BY <1>9 DEF LoadStoreMultiple, r
  <2> QED
    BY <2>1, <2>2, StepIsTyped
<1>10. CASE Branch(ins)
  <2>1. Outcome(arm_branch(r, ins), mem, 0) \in Outcomes
    BY <1>2, <1>4, <1>5, <1>6, BranchIsTyped
  <2>2. arm_step(Outcome(arm_branch(r, ins), mem, 0))
    BY <1>10 DEF Branch, r
  <2> QED
    BY <2>1, <2>2, StepIsTyped
<1>11. CASE Miscellaneous(ins)
  <2>1. /\ Outcome(mrs(r, ins), mem, 0) \in Outcomes
        /\ Outcome(r, mem, UNDEFINED_INSTRUCTION) \in Outcomes
    BY <1>2, <1>4, <1>5, <1>6, BranchIsTyped
  <2>2. \/ arm_step(Outcome(mrs(r, ins), mem, 0))
        \/ arm_step(Outcome(r, mem, UNDEFINED_INSTRUCTION))
    BY <1>11 DEF Miscellaneous, r
  <2> QED
    BY <2>1, <2>2, StepIsTyped
<1>12. CASE Swi(ins)
  <2>1. Outcome(r, mem, arm_coprocessor_others_swi(ins)) \in Outcomes
    BY <1>2, <1>5, <1>6
  <2>2. arm_step(Outcome(r, mem, arm_coprocessor_others_swi(ins)))
    BY <1>12 DEF Swi, r
  <2> QED
    BY <2>1, <2>2, StepIsTyped
<1>13. CASE DataProcessing(ins)
  <2> DEFINE e == IF OperandUndefined(ins) THEN UNDEFINED_INSTRUCTION ELSE 0
  <2>1. Outcome(arm_data_processing_shift(r, ins), mem, e) \in Outcomes
    BY <1>2, <1>4, <1>5, <1>6, DataProcessingIsTyped
  <2>2. arm_step(Outcome(arm_data_processing_shift(r, ins), mem, e))
    BY <1>13 DEF DataProcessing, r
  <2> QED
    BY <2>1, <2>2, StepIsTyped
<1> QED
  BY <1>3, <1>7, <1>8, <1>9, <1>10, <1>11, <1>12, <1>13

(* The processor stays well formed, whatever program it runs and whatever  *)
(* an opcode holds whose fetch failed.                                     *)
THEOREM ProcessorTypeCorrect == Spec => []ProcessorTypeOK
<1>1. Init => ProcessorTypeOK
  BY ArmInstructionAssumption DEF Init, ProcessorTypeOK
<1>2. ProcessorTypeOK /\ [Next]_vars => ProcessorTypeOK'
  BY NextIsTyped DEF vars, ProcessorTypeOK
<1> QED
  BY <1>1, <1>2, PTL DEF Spec

----------------------------------------------------------------------------
(* The decoding of the transfers: a word or byte transfer has bits 27 and  *)
(* 26 equal to 0 and 1, the others bits 6 and 5; neither is an LDM or STM. *)
LEMMA TransferForms ==
    ASSUME NEW ins, IsTransfer(ins)
    PROVE  /\ WordOrByte(ins) \/ get_bits(ins, 6, 5) = 1
           /\ ~IsMultiple(ins)
<1> DEFINE bit(i) == i \in ins
           one(i) == IF bit(i) THEN 1 ELSE 0
           two(i) == IF bit(i) THEN 2 ELSE 0
           four(i) == IF bit(i) THEN 4 ELSE 0
<1>1. /\ 27 = 25 + 2 /\ 27 = 26 + 1 /\ 7 = 4 + 3 /\ 6 = 5 + 1
      /\ 26 = 25 + 1
  OBVIOUS
<1>2. /\ get_bits(ins, 27, 25) = one(25) + two(26) + four(27)
      /\ get_bits(ins, 27, 26) = one(26) + two(27)
      /\ get_bits(ins, 7, 4) = Digit(ins, 4)
      /\ get_bits(ins, 6, 5) = one(5) + two(6)
  BY <1>1, FieldBits
<1>3. Digit(ins, 4) = 11 => bit(5) /\ ~bit(6)
  BY DEF Digit
<1>4. get_bits(ins, 7, 4) = 11 => get_bits(ins, 6, 5) = 1
  BY <1>2, <1>3
<1>5. get_bits(ins, 27, 25) \in {2, 3} => get_bits(ins, 27, 26) = 1
  BY <1>2
<1> QED
  BY <1>4, <1>5 DEF IsTransfer, IsHalfTransfer, IsMultiple, WordOrByte

(* What LDR, STR and their variants leave when they do not succeed.        *)
LEMMA LoadStoreRefused ==
    ASSUME NEW r, NEW m, NEW ins, NEW ub, IsTransfer(ins)
    PROVE  LET o  == arm_load_store([reg |-> r, mem |-> m], ins, ub)
               rn == Rn(ins)
           IN  /\ o.result = UNDEFINED_INSTRUCTION =>
                     UserTransfer(ins) \/ (o.reg = r /\ o.mem = m)
               /\ o.result = DATA_ABORT =>
                     /\ o.mem = m
                     /\ \/ o.reg = r
                        \/ {24, 21} \subseteq ins /\ \E v : o.reg = write_register(r, rn, v)
<1> DEFINE rn      == get_bits(ins, 19, 16)
           rd      == get_bits(ins, 15, 12)
           unit    == Unit(ins)
           base    == arm_read_register(r, rn)
           moved   == Moved(base, TransferOffset(r, ins, ub), 23 \in ins)
           address == IF 24 \in ins THEN moved ELSE base
           a       == AddressOf(address)
           r1      == IF 24 \in ins /\ 21 \in ins THEN write_register(r, rn, address) ELSE r
           r2      == IF 20 \in ins THEN write_register(r1, rd, read_unit(m, unit, a)) ELSE r1
           m2      == IF 20 \in ins THEN m ELSE write_unit(m, unit, a, arm_read_register(r1, rd))
           r3      == write_register(r2, rn, moved)
           o       == arm_load_store([reg |-> r, mem |-> m], ins, ub)
<1>1. o = IF WordOrByte(ins) /\ {25, 4} \subseteq ins
        THEN Outcome(r, m, UNDEFINED_INSTRUCTION)
        ELSE IF ~WordOrByte(ins) /\ ~HalfOrSigned(ins)
        THEN Outcome(r, m, UNDEFINED_INSTRUCTION)
        ELSE IF ~WordOrByte(ins) /\ get_bits(ins, 6, 5) # 1
        THEN Outcome(r1, m, UNDEFINED_INSTRUCTION)
        ELSE IF ~access_ok(unit, a) THEN Outcome(r1, m, DATA_ABORT)
        ELSE IF 24 \in ins THEN Outcome(r2, m2, 0)
        ELSE IF WordOrByte(ins) /\ 21 \in ins THEN Outcome(r2, m2, UNDEFINED_INSTRUCTION)
        ELSE Outcome(r3, m2, 0)
  BY DEF arm_load_store
<1>2. \/ r1 = r
      \/ {24, 21} \subseteq ins /\ \E v : r1 = write_register(r, rn, v)
  <2>1. CASE 24 \in ins /\ 21 \in ins
    <3>1. r1 = write_register(r, rn, address) /\ {24, 21} \subseteq ins
      BY <2>1
    <3> QED
      BY <3>1
  <2>2. CASE ~(24 \in ins /\ 21 \in ins)
    BY <2>2
  <2> QED
    BY <2>1, <2>2
<1> HIDE DEF rn, unit, a, r1, r2, r3, m2, o
<1>3. ASSUME NEW x, NEW y, NEW e
      PROVE  Outcome(x, y, e).reg = x /\ Outcome(x, y, e).mem = y /\ Outcome(x, y, e).result = e
  BY DEF Outcome
<1>4. o.result = UNDEFINED_INSTRUCTION => UserTransfer(ins) \/ (o.reg = r /\ o.mem = m)
  <2>1. \/ o = Outcome(r, m, UNDEFINED_INSTRUCTION)
        \/ o = Outcome(r1, m, DATA_ABORT) \/ o = Outcome(r2, m2, 0) \/ o = Outcome(r3, m2, 0)
        \/ UserTransfer(ins)
    BY <1>1, TransferForms DEF UserTransfer
  <2> QED
    BY <1>3, <2>1 DEF UNDEFINED_INSTRUCTION, DATA_ABORT
<1>5. o.result = DATA_ABORT => o.mem = m /\ o.reg = r1
  BY <1>1, <1>3, TransferForms DEF UNDEFINED_INSTRUCTION, DATA_ABORT
<1> QED
  BY <1>2, <1>4, <1>5 DEF o, rn, Rn

(* The outcome that a step of the processor is taken with.                 *)
LEMMA StepHasOutcome ==
    ASSUME NEW o, arm_step(o)
    PROVE  /\ mem' = o.mem /\ result' = o.result
           /\ o.result # RESET => reg' = o.reg
BY DEF arm_step, arm_exception

(* An instruction that is reported undefined has had no effect beyond the  *)
(* fetch, but for LDRT, LDRBT, STRT and STRBT.                             *)
THEOREM UndefinedIsHarmless == Spec => UndefinedHasNoEffect
<1> DEFINE A == FetchOk(reg) => \A ins \in Opcodes(reg, mem) :
                    inst_cond(Fetched(reg), ins) => UserTransfer(ins) \/ UndefinedIsInert
<1>1. Next => A
  <2> SUFFICES ASSUME Next, FetchOk(reg), NEW ins \in Opcodes(reg, mem),
                      inst_cond(Fetched(reg), ins), ~UserTransfer(ins),
                      result' = UNDEFINED_INSTRUCTION
               PROVE  reg' = Fetched(reg) /\ mem' = mem
    BY DEF UndefinedIsInert
  <2> DEFINE r == Fetched(reg)
  <2>1. \A i \in Opcodes(reg, mem) : i = ins
    BY DEF Opcodes
  <2>2. \/ \E ub \in UndefinedShift : LoadStore(ins, ub)
        \/ LoadStoreMultiple(ins) \/ Branch(ins) \/ Miscellaneous(ins)
        \/ Swi(ins) \/ DataProcessing(ins) \/ Unrecognised(ins)
    BY <2>1 DEF Next, ConditionFails
  <2> SUFFICES reg' = r /\ mem' = mem
    OBVIOUS
  <2> HIDE DEF r
  <2>3. ASSUME NEW x, NEW y, NEW e
        PROVE  Outcome(x, y, e).reg = x /\ Outcome(x, y, e).mem = y /\ Outcome(x, y, e).result = e
    BY DEF Outcome
  <2>4. ASSUME NEW o, arm_step(o), o.result = UNDEFINED_INSTRUCTION => o.reg = r /\ o.mem = mem
        PROVE  reg' = r /\ mem' = mem
    BY <2>4, StepHasOutcome DEF UNDEFINED_INSTRUCTION, RESET
  <2>5. ASSUME NEW ub \in UndefinedShift, LoadStore(ins, ub) PROVE reg' = r /\ mem' = mem
    <3> DEFINE o == arm_load_store([reg |-> r, mem |-> mem], ins, ub)
    <3>1. arm_step(o) /\ IsTransfer(ins)
      BY <2>5 DEF LoadStore, r
    <3>2. o.result = UNDEFINED_INSTRUCTION => o.reg = r /\ o.mem = mem
      BY <3>1, LoadStoreRefused
    <3> HIDE DEF o
    <3> QED
      BY <2>4, <3>1, <3>2
  <2>6. CASE LoadStoreMultiple(ins)
    <3> DEFINE o == arm_load_store_multiple([reg |-> r, mem |-> mem], ins)
    <3>1. arm_step(o)
      BY <2>6 DEF LoadStoreMultiple, r
    <3>2. o.result = UNDEFINED_INSTRUCTION => o.reg = r /\ o.mem = mem
      BY DEF arm_load_store_multiple, Outcome, UNDEFINED_INSTRUCTION, DATA_ABORT
    <3> HIDE DEF o
    <3> QED
      BY <2>4, <3>1, <3>2
  <2>7. CASE Branch(ins)
    <3>1. arm_step(Outcome(arm_branch(r, ins), mem, 0))
      BY <2>7 DEF Branch, r
    <3> QED
      BY <2>3, <2>4, <3>1 DEF UNDEFINED_INSTRUCTION
  <2>8. CASE Miscellaneous(ins)
    <3>1. arm_step(Outcome(mrs(r, ins), mem, 0)) \/ arm_step(Outcome(r, mem, UNDEFINED_INSTRUCTION))
      BY <2>8 DEF Miscellaneous, r
    <3> QED
      BY <2>3, <2>4, <3>1 DEF UNDEFINED_INSTRUCTION
  <2>9. CASE Swi(ins)
    <3>1. arm_step(Outcome(r, mem, arm_coprocessor_others_swi(ins)))
      BY <2>9 DEF Swi, r
    <3> QED
      BY <2>3, <2>4, <3>1
  <2>10. CASE DataProcessing(ins)
    <3> DEFINE d == arm_data_processing_shift(r, ins)
               e == IF OperandUndefined(ins) THEN UNDEFINED_INSTRUCTION ELSE 0
    <3>1. arm_step(Outcome(d, mem, e))
      BY <2>10 DEF DataProcessing, r
    <3>2. e = UNDEFINED_INSTRUCTION => d = r
      BY DEF arm_data_processing_shift, UNDEFINED_INSTRUCTION
    <3> HIDE DEF d, e
    <3> QED
      BY <2>3, <2>4, <3>1, <3>2
  <2>11. CASE Unrecognised(ins)
    <3>1. arm_step(Outcome(r, mem, FetchResult(reg)))
      BY <2>11 DEF Unrecognised, r
    <3> QED
      BY <2>3, <2>4, <3>1
  <2> QED
    BY <2>2, <2>5, <2>6, <2>7, <2>8, <2>9, <2>10, <2>11
<1>2. [Next]_vars => [A]_vars
  BY <1>1
<1>3. [][A]_vars => UndefinedHasNoEffect
  BY PTL DEF UndefinedHasNoEffect, Executes
<1> QED
  BY <1>2, <1>3, PTL DEF Spec

(* A transfer that aborts changes no memory and, but for a base that is    *)
(* written back before the access, no register below the pc.               *)
THEOREM AbortsAreHarmless == Spec => AbortedTransferIsHarmless
<1> DEFINE Kept(ins) ==
             IsTransfer(ins) /\ result' = DATA_ABORT =>
               /\ mem' = mem
               /\ \A n \in 0..14 : (n = Rn(ins) /\ {24, 21} \subseteq ins)
                                 \/ read_register(reg', n) = read_register(reg, n)
           A == FetchOk(reg) => \A ins \in Opcodes(reg, mem) :
                  inst_cond(Fetched(reg), ins) => Kept(ins)
<1>1. ProcessorTypeOK /\ Next => A
  <2> SUFFICES ASSUME ProcessorTypeOK, Next, FetchOk(reg), NEW ins \in Opcodes(reg, mem),
                      inst_cond(Fetched(reg), ins), IsTransfer(ins), result' = DATA_ABORT
               PROVE  /\ mem' = mem
                      /\ \A n \in 0..14 : (n = Rn(ins) /\ {24, 21} \subseteq ins)
                                        \/ read_register(reg', n) = read_register(reg, n)
    OBVIOUS
  <2> DEFINE r == Fetched(reg)
  <2>1. reg \in RegistersSet /\ r \in RegistersSet /\ Rn(ins) \in 0..15
    BY FetchIsTyped, RegisterFields DEF ProcessorTypeOK, Rn
  <2>2. \A n \in 0..14 : read_register(r, n) = read_register(reg, n)
    BY <2>1, ReadAfterWrite DEF Fetched
  <2>3. \A i \in Opcodes(reg, mem) : i = ins
    BY DEF Opcodes
  <2>4. \/ \E ub \in UndefinedShift : LoadStore(ins, ub)
        \/ Branch(ins) \/ Miscellaneous(ins) \/ Swi(ins) \/ DataProcessing(ins)
        \/ Unrecognised(ins)
    BY <2>3, TransferForms DEF Next, ConditionFails, LoadStoreMultiple
  <2>5. ASSUME NEW x, NEW y, NEW e, arm_step(Outcome(x, y, e)) PROVE e = DATA_ABORT
    BY <2>5, StepHasOutcome DEF Outcome
  <2>6. ~(Branch(ins) \/ Miscellaneous(ins) \/ Swi(ins) \/ DataProcessing(ins) \/ Unrecognised(ins))
    BY <2>5 DEF Branch, Miscellaneous, Swi, DataProcessing, Unrecognised, FetchResult,
                arm_coprocessor_others_swi, EXIT, UNDEFINED_INSTRUCTION, SOFTWARE_INTERRUPT, DATA_ABORT
  <2>7. PICK ub \in UndefinedShift : LoadStore(ins, ub)
    BY <2>4, <2>6
  <2> DEFINE o == arm_load_store([reg |-> r, mem |-> mem], ins, ub)
  <2>8. arm_step(o)
    BY <2>7 DEF LoadStore
  <2>9. /\ o.result = DATA_ABORT => o.mem = mem
        /\ o.result = DATA_ABORT =>
              \/ o.reg = r
              \/ {24, 21} \subseteq ins /\ \E v : o.reg = write_register(r, Rn(ins), v)
    BY LoadStoreRefused
  <2> HIDE DEF o, r
  <2>10. /\ mem' = mem
         /\ \/ reg' = r
            \/ {24, 21} \subseteq ins /\ \E v : reg' = write_register(r, Rn(ins), v)
    BY <2>8, <2>9, StepHasOutcome DEF DATA_ABORT, RESET
  <2> QED
    BY <2>1, <2>2, <2>10, ReadAfterWrite
<1>2. ProcessorTypeOK /\ [Next]_vars => [A]_vars
  BY <1>1
<1>3. [][A]_vars => AbortedTransferIsHarmless
  BY PTL DEF AbortedTransferIsHarmless, Executes
<1> QED
  BY <1>2, <1>3, ProcessorTypeCorrect, PTL DEF Spec

----------------------------------------------------------------------------
(* What the conditions decide after a comparison. *)

(* The difference of two numbers, taken in halves, against its sign, its   *)
(* zero and its overflow.                                                  *)
LEMMA CompareNumbers ==
    ASSUME NEW p \in Nat, NEW q \in Nat, NEW c \in Nat, p < 65536, q < 65536, c < 65536,
           NEW d \in Nat, NEW e \in Nat, NEW f \in Nat, d < 65536, e < 65536, f < 65536,
           NEW k \in {-1, 0}, NEW h \in {-1, 0},
           p - q = c + 65536 * k, d - e + k = f + 65536 * h,
           NEW sd, sd = IF d >= 32768 THEN d - 65536 ELSE d,
           NEW se, se = IF e >= 32768 THEN e - 65536 ELSE e
    PROVE  /\ f = 0 /\ c = 0 <=> d = e /\ p = q
           /\ sd < se \/ (d = e /\ p < q) <=>
                ~(f >= 32768 <=> ~(d >= 32768 <=> e >= 32768) /\ ~(d >= 32768 <=> f >= 32768))
           /\ se < sd \/ (e = d /\ q < p) <=> ~(sd < se \/ (d = e /\ p < q)) /\ ~(d = e /\ p = q)
<1>1. k = -1 <=> p < q
  OBVIOUS
<1>2. f = 0 /\ c = 0 <=> d = e /\ p = q
  BY <1>1
<1>3. sd \in Int /\ se \in Int
  OBVIOUS
<1>4. CASE d >= 32768 /\ e >= 32768
  BY <1>1, <1>2, <1>4
<1>5. CASE d >= 32768 /\ ~(e >= 32768)
  BY <1>1, <1>2, <1>5
<1>6. CASE ~(d >= 32768) /\ e >= 32768
  BY <1>1, <1>2, <1>6
<1>7. CASE ~(d >= 32768) /\ ~(e >= 32768)
  BY <1>1, <1>2, <1>7
<1> QED
  BY <1>4, <1>5, <1>6, <1>7

(* The overflow of the difference s of a and b.                            *)
Overflows(a, b, s) == (31 \in a) # (31 \in b) /\ (31 \in a) # (31 \in s)

(* How words compare, as unsigned and as signed numbers, by the sign, the  *)
(* zero, the borrow and the overflow of their difference.                  *)
LEMMA CompareWords ==
    ASSUME NEW a \in Word, NEW b \in Word, NEW s, s = Minus(a, b)
    PROVE  /\ s = Zero <=> a = b
           /\ Lower(a, b) <=> Less(a, b)
           /\ Lower(b, a) <=> ~Less(a, b) /\ a # b
           /\ Smaller(a, b) <=> ~(31 \in s <=> Overflows(a, b, s))
           /\ Smaller(b, a) <=> (31 \in s <=> Overflows(a, b, s)) /\ a # b
<1>0. s \in Word
  BY WordsAreClosed
<1>1. PICK k \in {-1, 0}, h \in {-1, 0} :
             /\ Lo(a) - Lo(b) = Lo(s) + 65536 * k
             /\ Hi(a) - Hi(b) + k = Hi(s) + 65536 * h
  BY MinusHalves
<1>2. PICK p \in Nat, q \in Nat, c \in Nat :
        p = Lo(a) /\ q = Lo(b) /\ c = Lo(s) /\ p < 65536 /\ q < 65536 /\ c < 65536
  BY HalvesOf
<1>3. PICK d \in Nat, e \in Nat, f \in Nat :
        d = Hi(a) /\ e = Hi(b) /\ f = Hi(s) /\ d < 65536 /\ e < 65536 /\ f < 65536
  BY HalvesOf
<1>4. p - q = c + 65536 * k /\ d - e + k = f + 65536 * h
  BY <1>1, <1>2, <1>3
<1>5. a = b <=> d = e /\ p = q
  BY <1>2, <1>3, WordsByHalves
<1>6. s = Zero <=> f = 0 /\ c = 0
  BY <1>0, <1>2, <1>3, SignAndZero
<1>7. (31 \in a <=> d >= 32768) /\ (31 \in b <=> e >= 32768) /\ (31 \in s <=> f >= 32768)
  BY <1>0, <1>3, SignAndZero
<1>8. Less(a, b) <=> d < e \/ (d = e /\ p < q)
  BY <1>2, <1>3, LessIsLess
<1>9. /\ Lower(a, b) <=> d < e \/ (d = e /\ p < q)
      /\ Lower(b, a) <=> e < d \/ (e = d /\ q < p)
  BY <1>2, <1>3 DEF Lower
<1>10. PICK sd \in Int, se \in Int : 
         /\ sd = SignedHi(a) /\ se = SignedHi(b)
         /\ sd = IF d >= 32768 THEN d - 65536 ELSE d
         /\ se = IF e >= 32768 THEN e - 65536 ELSE e
  BY <1>3, <1>7, Powers DEF SignedHi
<1>11. /\ Smaller(a, b) <=> sd < se \/ (d = e /\ p < q)
       /\ Smaller(b, a) <=> se < sd \/ (e = d /\ q < p)
  BY <1>2, <1>3, <1>10 DEF Smaller
<1>12. Overflows(a, b, s) <=> ~(d >= 32768 <=> e >= 32768) /\ ~(d >= 32768 <=> f >= 32768)
  BY <1>7 DEF Overflows
<1> DEFINE less == sd < se \/ (d = e /\ p < q)
           more == se < sd \/ (e = d /\ q < p)
           over == ~(d >= 32768 <=> e >= 32768) /\ ~(d >= 32768 <=> f >= 32768)
<1>13. /\ f = 0 /\ c = 0 <=> d = e /\ p = q
       /\ less <=> ~(f >= 32768 <=> over)
       /\ more <=> ~less /\ ~(d = e /\ p = q)
  <2>1. p < 65536 /\ q < 65536 /\ c < 65536 /\ d < 65536 /\ e < 65536 /\ f < 65536
    BY <1>2, <1>3
  <2>2. sd = IF d >= 32768 THEN d - 65536 ELSE d
    BY <1>10
  <2>3. se = IF e >= 32768 THEN e - 65536 ELSE e
    BY <1>10
  <2> QED
    BY <1>4, <2>1, <2>2, <2>3, CompareNumbers
<1>14. e < d \/ (e = d /\ q < p) <=> ~(d < e \/ (d = e /\ p < q)) /\ ~(d = e /\ p = q)
  OBVIOUS
<1> HIDE DEF less, more, over
<1>15. Smaller(a, b) <=> less
  BY <1>11 DEF less
<1>16. Smaller(b, a) <=> more
  BY <1>11 DEF more
<1>17. Overflows(a, b, s) <=> over
  BY <1>12 DEF over
<1>18. s = Zero <=> a = b
  BY <1>5, <1>6, <1>13
<1>19. (Lower(a, b) <=> Less(a, b)) /\ (Lower(b, a) <=> ~Less(a, b) /\ a # b)
  BY <1>5, <1>8, <1>9, <1>14
<1>20. Smaller(a, b) <=> ~(31 \in s <=> Overflows(a, b, s))
  BY <1>7, <1>13, <1>15, <1>17
<1>21. Smaller(b, a) <=> ~Smaller(a, b) /\ a # b
  BY <1>5, <1>13, <1>15, <1>16
<1> QED
  BY <1>18, <1>19, <1>20, <1>21

(* The condition field of a word that holds nothing else.                  *)
LEMMA ConditionField ==
    ASSUME NEW cond \in 0..15
    PROVE  get_bits({i + 28 : i \in ToWord(cond)}, 31, 28) = cond
<1> DEFINE x == {i + 28 : i \in ToWord(cond)}
<1>1. 2^0 = 1 /\ 2^1 = 2 /\ 2^2 = 4 /\ 2^3 = 8
  OBVIOUS
<1>2. \A j \in 0..3 : j + 28 \in x <=> j \in ToWord(cond)
  BY DEF ToWord
<1>3. /\ 0 \in ToWord(cond) <=> cond % 2 = 1
      /\ 1 \in ToWord(cond) <=> (cond \div 2) % 2 = 1
      /\ 2 \in ToWord(cond) <=> (cond \div 4) % 2 = 1
      /\ 3 \in ToWord(cond) <=> (cond \div 8) % 2 = 1
  BY <1>1 DEF ToWord
<1>4. cond = (IF cond % 2 = 1 THEN 1 ELSE 0) + (IF (cond \div 2) % 2 = 1 THEN 2 ELSE 0)
               + (IF (cond \div 4) % 2 = 1 THEN 4 ELSE 0) + (IF (cond \div 8) % 2 = 1 THEN 8 ELSE 0)
  OBVIOUS
<1>5. /\ 28 \in x <=> 0 \in ToWord(cond)
      /\ 28 + 1 \in x <=> 1 \in ToWord(cond)
      /\ 28 + 2 \in x <=> 2 \in ToWord(cond)
      /\ 28 + 3 \in x <=> 3 \in ToWord(cond)
  BY <1>2
<1> HIDE DEF x
<1>6. Digit(x, 28) = cond
  BY <1>3, <1>4, <1>5 DEF Digit
<1>7. get_bits(x, 31, 28) = Digit(x, 28)
  <2>1. 31 = 28 + 3
    OBVIOUS
  <2> QED
    BY <2>1, FieldBits
<1> QED
  BY <1>6, <1>7 DEF x

(* The flags that CMP leaves.                                              *)
LEMMA CompareFlags ==
    ASSUME NEW r \in RegistersSet, NEW ins \in Word, ~OperandUndefined(ins),
           get_bits(ins, 24, 21) = 10,
           NEW a, a = arm_read_register(r, Rn(ins)), NEW b, b = ShifterOperand(r, ins).value,
           NEW u, u = arm_data_processing_shift(r, ins), NEW s, s = Minus(a, b)
    PROVE  /\ a \in Word /\ b \in Word
           /\ N \in read_cpsr(u) <=> 31 \in s
           /\ Z \in read_cpsr(u) <=> s = Zero
           /\ C \in read_cpsr(u) <=> ~Less(a, b)
           /\ V \in read_cpsr(u) <=> Overflows(a, b, s)
<1> DEFINE o == ShifterOperand(r, ins)
           c == C \in read_cpsr(r)
<1>1. a \in Word /\ b \in Word
  BY RegisterFields, ReadsAreWords, OperandIsWord DEF Rn
<1>2. 10 \in TestOps /\ 10 \notin LogicalOps
  BY DEF TestOps, LogicalOps
<1>3. /\ Result(10, a, b, c) = s
      /\ FlagC(10, a, b, c, o.carry) = ~Less(a, b)
      /\ FlagV(10, a, b, c) = overflow_from(SOUSTRACTION, a, b)
  BY <1>2 DEF Result, FlagC, FlagV, borrow_from
<1>4. overflow_from(SOUSTRACTION, a, b) = Overflows(a, b, s)
  BY DEF overflow_from, Overflows, ADDITION, SOUSTRACTION
<1>5. \E r2 \in RegistersSet :
         u = write_flags(r2, 31 \in s, s = Zero, FlagC(10, a, b, c, o.carry), FlagV(10, a, b, c))
  BY <1>2, <1>3, FlagsAfter DEF Rn
<1> DEFINE n == 31 \in s
           z == s = Zero
           k == ~Less(a, b)
           v == Overflows(a, b, s)
<1>6. n \in BOOLEAN /\ z \in BOOLEAN /\ k \in BOOLEAN /\ v \in BOOLEAN
  BY DEF Less, Overflows
<1>7. PICK r2 \in RegistersSet : u = write_flags(r2, n, z, k, v)
  BY <1>3, <1>4, <1>5
<1> HIDE DEF n, z, k, v
<1>8. /\ N \in read_cpsr(u) <=> n
      /\ Z \in read_cpsr(u) <=> z
      /\ C \in read_cpsr(u) <=> k
      /\ V \in read_cpsr(u) <=> v
  BY <1>6, <1>7, FlagsReadBack
<1> QED
  BY <1>1, <1>8 DEF n, z, k, v

(* The conditions that compare, as propositions on the flags.              *)
LEMMA ConditionsRead ==
    ASSUME NEW u, NEW x, NEW cond \in {0, 1, 2, 3} \cup 8..13, get_bits(x, 31, 28) = cond,
           NEW f, f = read_cpsr(u)
    PROVE  /\ inst_cond(u, x) \in BOOLEAN
           /\ cond = 0 => (inst_cond(u, x) <=> Z \in f)
           /\ cond = 1 => (inst_cond(u, x) <=> Z \notin f)
           /\ cond = 2 => (inst_cond(u, x) <=> C \in f)
           /\ cond = 3 => (inst_cond(u, x) <=> C \notin f)
           /\ cond = 8 => (inst_cond(u, x) <=> C \in f /\ Z \notin f)
           /\ cond = 9 => (inst_cond(u, x) <=> C \notin f \/ Z \in f)
           /\ cond = 10 => (inst_cond(u, x) <=> (N \in f <=> V \in f))
           /\ cond = 11 => (inst_cond(u, x) <=> ~(N \in f <=> V \in f))
           /\ cond = 12 => (inst_cond(u, x) <=> Z \notin f /\ (N \in f <=> V \in f))
           /\ cond = 13 => (inst_cond(u, x) <=> Z \in f \/ ~(N \in f <=> V \in f))
<1> DEFINE n == N \in f
           z == Z \in f
           c == C \in f
           v == V \in f
<1>0. n \in BOOLEAN /\ z \in BOOLEAN /\ c \in BOOLEAN /\ v \in BOOLEAN
  OBVIOUS
<1>1. inst_cond(u, x) =
          CASE cond = 0  -> z             [] cond = 1  -> ~z
            [] cond = 2  -> c             [] cond = 3  -> ~c
            [] cond = 4  -> n             [] cond = 5  -> ~n
            [] cond = 6  -> v             [] cond = 7  -> ~v
            [] cond = 8  -> c /\ ~z       [] cond = 9  -> ~c \/ z
            [] cond = 10 -> n = v         [] cond = 11 -> n # v
            [] cond = 12 -> ~z /\ n = v   [] cond = 13 -> z \/ n # v
            [] OTHER     -> TRUE
  BY Zenon DEF inst_cond
<1> HIDE DEF n, z, c, v
<1>2. cond = 0 => inst_cond(u, x) \in BOOLEAN /\ (inst_cond(u, x) <=> z)
  <2>1. cond = 0 => inst_cond(u, x) = z
    BY <1>1
  <2> QED
    BY <1>0, <2>1, Zenon
<1>3. cond = 1 => inst_cond(u, x) \in BOOLEAN /\ (inst_cond(u, x) <=> ~z)
  <2>1. cond = 1 => inst_cond(u, x) = ~z
    BY <1>1
  <2> QED
    BY <1>0, <2>1, Zenon
<1>4. cond = 2 => inst_cond(u, x) \in BOOLEAN /\ (inst_cond(u, x) <=> c)
  <2>1. cond = 2 => inst_cond(u, x) = c
    BY <1>1
  <2> QED
    BY <1>0, <2>1, Zenon
<1>5. cond = 3 => inst_cond(u, x) \in BOOLEAN /\ (inst_cond(u, x) <=> ~c)
  <2>1. cond = 3 => inst_cond(u, x) = ~c
    BY <1>1
  <2> QED
    BY <1>0, <2>1, Zenon
<1>6. cond = 8 => inst_cond(u, x) \in BOOLEAN /\ (inst_cond(u, x) <=> c /\ ~z)
  <2>1. cond = 8 => inst_cond(u, x) = (c /\ ~z)
    BY <1>1
  <2> QED
    BY <1>0, <2>1, Zenon
<1>7. cond = 9 => inst_cond(u, x) \in BOOLEAN /\ (inst_cond(u, x) <=> ~c \/ z)
  <2>1. cond = 9 => inst_cond(u, x) = (~c \/ z)
    BY <1>1
  <2> QED
    BY <1>0, <2>1, Zenon
<1>8. cond = 10 => inst_cond(u, x) \in BOOLEAN /\ (inst_cond(u, x) <=> (n <=> v))
  <2>1. cond = 10 => inst_cond(u, x) = (n = v)
    BY <1>1
  <2> QED
    BY <1>0, <2>1, Zenon
<1>9. cond = 11 => inst_cond(u, x) \in BOOLEAN /\ (inst_cond(u, x) <=> ~(n <=> v))
  <2>1. cond = 11 => inst_cond(u, x) = (n # v)
    BY <1>1
  <2> QED
    BY <1>0, <2>1, Zenon
<1>10. cond = 12 => inst_cond(u, x) \in BOOLEAN /\ (inst_cond(u, x) <=> ~z /\ (n <=> v))
  <2>1. cond = 12 => inst_cond(u, x) = (~z /\ n = v)
    BY <1>1
  <2> QED
    BY <1>0, <2>1, Zenon
<1>11. cond = 13 => inst_cond(u, x) \in BOOLEAN /\ (inst_cond(u, x) <=> z \/ ~(n <=> v))
  <2>1. cond = 13 => inst_cond(u, x) = (z \/ n # v)
    BY <1>1
  <2> QED
    BY <1>0, <2>1, Zenon
<1>12. \/ cond = 0 \/ cond = 1 \/ cond = 2 \/ cond = 3 \/ cond = 8 \/ cond = 9
       \/ cond = 10 \/ cond = 11 \/ cond = 12 \/ cond = 13
  OBVIOUS
<1> QED
  BY <1>2, <1>3, <1>4, <1>5, <1>6, <1>7, <1>8, <1>9, <1>10, <1>11, <1>12, Zenon DEF n, z, c, v

(* The relation that a condition names.                                    *)
LEMMA RelationsRead ==
    ASSUME NEW a, NEW b, NEW cond \in {0, 1, 2, 3} \cup 8..13
    PROVE  /\ Relation(cond, a, b) \in BOOLEAN
           /\ cond = 0 => (Relation(cond, a, b) <=> a = b)
           /\ cond = 1 => (Relation(cond, a, b) <=> a # b)
           /\ cond = 2 => (Relation(cond, a, b) <=> ~Lower(a, b))
           /\ cond = 3 => (Relation(cond, a, b) <=> Lower(a, b))
           /\ cond = 8 => (Relation(cond, a, b) <=> Lower(b, a))
           /\ cond = 9 => (Relation(cond, a, b) <=> ~Lower(b, a))
           /\ cond = 10 => (Relation(cond, a, b) <=> ~Smaller(a, b))
           /\ cond = 11 => (Relation(cond, a, b) <=> Smaller(a, b))
           /\ cond = 12 => (Relation(cond, a, b) <=> Smaller(b, a))
           /\ cond = 13 => (Relation(cond, a, b) <=> ~Smaller(b, a))
<1>0. Lower(a, b) \in BOOLEAN /\ Lower(b, a) \in BOOLEAN /\ Smaller(a, b) \in BOOLEAN
        /\ Smaller(b, a) \in BOOLEAN
  BY Zenon DEF Lower, Smaller
<1>1. cond = 0 => Relation(cond, a, b) \in BOOLEAN /\ (Relation(cond, a, b) <=> a = b)
  <2>1. cond = 0 => Relation(cond, a, b) = (a = b)
    BY DEF Relation
  <2> QED
    BY <1>0, <2>1, Zenon
<1>2. cond = 1 => Relation(cond, a, b) \in BOOLEAN /\ (Relation(cond, a, b) <=> a # b)
  <2>1. cond = 1 => Relation(cond, a, b) = (a # b)
    BY DEF Relation
  <2> QED
    BY <1>0, <2>1, Zenon
<1>3. cond = 2 => Relation(cond, a, b) \in BOOLEAN /\ (Relation(cond, a, b) <=> ~Lower(a, b))
  <2>1. cond = 2 => Relation(cond, a, b) = (~Lower(a, b))
    BY DEF Relation
  <2> QED
    BY <1>0, <2>1, Zenon
<1>4. cond = 3 => Relation(cond, a, b) \in BOOLEAN /\ (Relation(cond, a, b) <=> Lower(a, b))
  <2>1. cond = 3 => Relation(cond, a, b) = (Lower(a, b))
    BY DEF Relation
  <2> QED
    BY <1>0, <2>1, Zenon
<1>5. cond = 8 => Relation(cond, a, b) \in BOOLEAN /\ (Relation(cond, a, b) <=> Lower(b, a))
  <2>1. cond = 8 => Relation(cond, a, b) = (Lower(b, a))
    BY DEF Relation
  <2> QED
    BY <1>0, <2>1, Zenon
<1>6. cond = 9 => Relation(cond, a, b) \in BOOLEAN /\ (Relation(cond, a, b) <=> ~Lower(b, a))
  <2>1. cond = 9 => Relation(cond, a, b) = (~Lower(b, a))
    BY DEF Relation
  <2> QED
    BY <1>0, <2>1, Zenon
<1>7. cond = 10 => Relation(cond, a, b) \in BOOLEAN /\ (Relation(cond, a, b) <=> ~Smaller(a, b))
  <2>1. cond = 10 => Relation(cond, a, b) = (~Smaller(a, b))
    BY DEF Relation
  <2> QED
    BY <1>0, <2>1, Zenon
<1>8. cond = 11 => Relation(cond, a, b) \in BOOLEAN /\ (Relation(cond, a, b) <=> Smaller(a, b))
  <2>1. cond = 11 => Relation(cond, a, b) = (Smaller(a, b))
    BY DEF Relation
  <2> QED
    BY <1>0, <2>1, Zenon
<1>9. cond = 12 => Relation(cond, a, b) \in BOOLEAN /\ (Relation(cond, a, b) <=> Smaller(b, a))
  <2>1. cond = 12 => Relation(cond, a, b) = (Smaller(b, a))
    BY DEF Relation
  <2> QED
    BY <1>0, <2>1, Zenon
<1>10. cond = 13 => Relation(cond, a, b) \in BOOLEAN /\ (Relation(cond, a, b) <=> ~Smaller(b, a))
  <2>1. cond = 13 => Relation(cond, a, b) = (~Smaller(b, a))
    BY DEF Relation
  <2> QED
    BY <1>0, <2>1, Zenon
<1>11. \/ cond = 0 \/ cond = 1 \/ cond = 2 \/ cond = 3 \/ cond = 8 \/ cond = 9
       \/ cond = 10 \/ cond = 11 \/ cond = 12 \/ cond = 13
  OBVIOUS
<1> QED
  BY <1>1, <1>2, <1>3, <1>4, <1>5, <1>6, <1>7, <1>8, <1>9, <1>10, <1>11, Zenon

(* After CMP the ten conditions decide what their comments say.            *)
LEMMA CompareDecides ==
    ASSUME NEW r \in RegistersSet, NEW ins \in Word, ~OperandUndefined(ins),
           get_bits(ins, 24, 21) = 10, NEW cond \in {0, 1, 2, 3} \cup 8..13
    PROVE  inst_cond(arm_data_processing_shift(r, ins), {i + 28 : i \in ToWord(cond)})
             = Relation(cond, arm_read_register(r, Rn(ins)), ShifterOperand(r, ins).value)
<1> DEFINE u == arm_data_processing_shift(r, ins)
           a == arm_read_register(r, Rn(ins))
           b == ShifterOperand(r, ins).value
           s == Minus(a, b)
           x == {i + 28 : i \in ToWord(cond)}
<1>1. /\ a \in Word /\ b \in Word
      /\ N \in read_cpsr(u) <=> 31 \in s
      /\ Z \in read_cpsr(u) <=> s = Zero
      /\ C \in read_cpsr(u) <=> ~Less(a, b)
      /\ V \in read_cpsr(u) <=> Overflows(a, b, s)
  BY CompareFlags
<1>2. get_bits(x, 31, 28) = cond
  <2>1. cond \in 0..15
    OBVIOUS
  <2> QED
    BY <2>1, ConditionField
<1> HIDE DEF u, a, b, x
<1>3. /\ s = Zero <=> a = b
      /\ Lower(a, b) <=> Less(a, b)
      /\ Lower(b, a) <=> ~Less(a, b) /\ a # b
      /\ Smaller(a, b) <=> ~(31 \in s <=> Overflows(a, b, s))
      /\ Smaller(b, a) <=> (31 \in s <=> Overflows(a, b, s)) /\ a # b
  BY <1>1, CompareWords
<1>4. PICK f : f = read_cpsr(u)
  OBVIOUS
<1> DEFINE test == inst_cond(u, x)
           holds == Relation(cond, a, b)
<1>5. /\ test \in BOOLEAN
      /\ cond = 0 => (test <=> Z \in f)
      /\ cond = 1 => (test <=> Z \notin f)
      /\ cond = 2 => (test <=> C \in f)
      /\ cond = 3 => (test <=> C \notin f)
      /\ cond = 8 => (test <=> C \in f /\ Z \notin f)
      /\ cond = 9 => (test <=> C \notin f \/ Z \in f)
      /\ cond = 10 => (test <=> (N \in f <=> V \in f))
      /\ cond = 11 => (test <=> ~(N \in f <=> V \in f))
      /\ cond = 12 => (test <=> Z \notin f /\ (N \in f <=> V \in f))
      /\ cond = 13 => (test <=> Z \in f \/ ~(N \in f <=> V \in f))
  BY <1>2, <1>4, ConditionsRead
<1>6. /\ holds \in BOOLEAN
      /\ cond = 0 => (holds <=> a = b)
      /\ cond = 1 => (holds <=> a # b)
      /\ cond = 2 => (holds <=> ~Lower(a, b))
      /\ cond = 3 => (holds <=> Lower(a, b))
      /\ cond = 8 => (holds <=> Lower(b, a))
      /\ cond = 9 => (holds <=> ~Lower(b, a))
      /\ cond = 10 => (holds <=> ~Smaller(a, b))
      /\ cond = 11 => (holds <=> Smaller(a, b))
      /\ cond = 12 => (holds <=> Smaller(b, a))
      /\ cond = 13 => (holds <=> ~Smaller(b, a))
  BY RelationsRead
<1>7. /\ Z \in f <=> a = b
      /\ C \in f <=> ~Lower(a, b)
      /\ C \in f /\ Z \notin f <=> Lower(b, a)
      /\ (N \in f <=> V \in f) <=> ~Smaller(a, b)
      /\ Z \notin f /\ (N \in f <=> V \in f) <=> Smaller(b, a)
  BY <1>1, <1>3, <1>4, Zenon
<1> HIDE DEF test, holds
<1>8. \/ cond = 0 \/ cond = 1 \/ cond = 2 \/ cond = 3 \/ cond = 8 \/ cond = 9
      \/ cond = 10 \/ cond = 11 \/ cond = 12 \/ cond = 13
  OBVIOUS
<1>9. test <=> holds
  BY <1>5, <1>6, <1>7, <1>8, Zenon
<1>10. test = holds
  BY <1>5, <1>6, <1>9
<1> QED
  BY <1>10 DEF test, holds, u, a, b, x

(* The forms of an instruction do not overlap, but for the miscellaneous   *)
(* ones and the half-word transfers, which the last test leaves out.       *)
LEMMA DataIsAlone ==
    ASSUME NEW ins, IsData(ins)
    PROVE  ~IsTransfer(ins) /\ ~IsMultiple(ins) /\ ~IsBranch(ins) /\ ~IsMisc(ins) /\ ~IsSwi(ins)
<1> DEFINE bit(i) == i \in ins
           one(i) == IF bit(i) THEN 1 ELSE 0
           two(i) == IF bit(i) THEN 2 ELSE 0
           four(i) == IF bit(i) THEN 4 ELSE 0
           eight(i) == IF bit(i) THEN 8 ELSE 0
<1>1. 27 = 25 + 2 /\ 27 = 26 + 1 /\ 27 = 24 + 3 /\ 26 = 25 + 1 /\ 25 = 24 + 1 /\ 26 = 24 + 2
  OBVIOUS
<1>2. /\ get_bits(ins, 27, 25) = one(25) + two(26) + four(27)
      /\ get_bits(ins, 27, 26) = one(26) + two(27)
      /\ get_bits(ins, 27, 24) = Digit(ins, 24)
  BY <1>1, FieldBits
<1>3. Digit(ins, 24) = one(24) + two(25) + four(26) + eight(27)
  BY <1>1 DEF Digit
<1>4. ~bit(26) /\ ~bit(27)
  BY <1>2 DEF IsData
<1>5. get_bits(ins, 27, 25) \in {0, 1} /\ get_bits(ins, 27, 24) # 15
  BY <1>2, <1>3, <1>4
<1> QED
  BY <1>5 DEF IsData, IsTransfer, IsMultiple, IsBranch, IsSwi

(* After CMP an instruction with one of the ten comparison conditions is   *)
(* executed exactly when Rn and the operand, as unsigned or as signed      *)
(* integers, are in the relation that the condition names.                 *)
THEOREM ComparisonsAreDecided == Spec => ComparisonsDecide
<1> DEFINE Decided(r, ins) ==
             IsData(ins) /\ get_bits(ins, 24, 21) = 10 /\ ~OperandUndefined(ins) =>
               \A cond \in {0, 1, 2, 3} \cup 8..13 :
                   inst_cond(reg', {i + 28 : i \in ToWord(cond)})
                     = Relation(cond, arm_read_register(r, Rn(ins)),
                                ShifterOperand(r, ins).value)
           A == FetchOk(reg) => \A ins \in Opcodes(reg, mem) :
                  inst_cond(Fetched(reg), ins) => Decided(Fetched(reg), ins)
<1>1. ProcessorTypeOK /\ Next => A
  <2> SUFFICES ASSUME ProcessorTypeOK, Next, FetchOk(reg), NEW ins \in Opcodes(reg, mem),
                      inst_cond(Fetched(reg), ins), IsData(ins), get_bits(ins, 24, 21) = 10,
                      ~OperandUndefined(ins), NEW cond \in {0, 1, 2, 3} \cup 8..13
               PROVE  inst_cond(reg', {i + 28 : i \in ToWord(cond)})
                        = Relation(cond, arm_read_register(Fetched(reg), Rn(ins)),
                                   ShifterOperand(Fetched(reg), ins).value)
    OBVIOUS
  <2> DEFINE r == Fetched(reg)
  <2>1. r \in RegistersSet /\ ins \in Word
    BY FetchIsTyped, OpcodesAreWords DEF ProcessorTypeOK
  <2>2. \A i \in Opcodes(reg, mem) : i = ins
    BY DEF Opcodes
  <2>3. DataProcessing(ins)
    BY <2>2, DataIsAlone DEF Next, ConditionFails, LoadStore, LoadStoreMultiple, Branch,
         Miscellaneous, Swi, Unrecognised
  <2>4. arm_step(Outcome(arm_data_processing_shift(r, ins), mem, 0))
    BY <2>3 DEF DataProcessing
  <2>5. reg' = arm_data_processing_shift(r, ins)
    BY <2>4, StepHasOutcome DEF Outcome, RESET
  <2> QED
    BY <2>1, <2>5, CompareDecides
<1>2. ProcessorTypeOK /\ [Next]_vars => [A]_vars
  BY <1>1
<1>3. [][A]_vars => ComparisonsDecide
  BY PTL DEF ComparisonsDecide, Executes
<1> QED
  BY <1>2, <1>3, ProcessorTypeCorrect, PTL DEF Spec

----------------------------------------------------------------------------
(* The pc, and the branches. *)

(* A fetch that succeeds is from an address below 2^28, with bit 1 clear.  *)
LEMMA FetchIsLow ==
    ASSUME NEW r \in RegistersSet, FetchOk(r), NEW x, x = FetchAddress(r)
    PROVE  x \in Word /\ 1 \notin x /\ ToNat(x) \in Nat /\ ToNat(x) < 268435456
<1>1. x = read_register(r, 15) \ {1} /\ x \in Word
  <2>1. read_register(r, 15) \in Word
    BY ReadsAreWords
  <2>2. arm_read_register(r, 15) = PcSeen(read_register(r, 15))
    BY DEF arm_read_register
  <2> QED
    BY <2>1, <2>2, PcSeenLessFour, FetchIsTyped DEF FetchAddress
<1>2. x \subseteq 0..27
  <2> DEFINE high == ToNat({i \in 0..25 : i + 2 \in x})
             low  == ToNat(x \cap 0..1)
             a    == AddressOf(x)
  <2>1. a \in Address /\ word_ok(a) /\ low \in 0..3
    BY AddressesAreTyped, SmallNumbers DEF FetchOk
  <2>2. a = IF x \subseteq 0..27 /\ 4 * high < AddressSpace
            THEN 4 * high + low ELSE AddressSpace - 4 + low
    BY DEF AddressOf
  <2> HIDE DEF high, low, a
  <2>3. a + 3 < Size
    BY <2>1, WordInside
  <2> QED
    BY <2>1, <2>2, <2>3, MemoryAssumption
<1>3. ToNat(x) \in Nat /\ ToNat(x) < 268435456
  <2>1. Digit(x, 28) = 0
    BY <1>2 DEF Digit
  <2>2. PICK a \in 0..15, b \in 0..15, c \in 0..15 :
          a = Digit(x, 16) /\ b = Digit(x, 20) /\ c = Digit(x, 24)
    BY DigitRange
  <2>3. PICK l \in Nat, h \in Nat : l < 65536 /\ ToNat(x) = l + 65536 * h /\ h = Quad(a, b, c, 0)
    BY <2>1, <2>2, HalvesOf
  <2>4. h < 4096
    BY <2>3 DEF Quad
  <2> QED
    BY <2>3, <2>4
<1> QED
  BY <1>1, <1>3

(* The pc after the fetch: an instruction sees its address + 8, and the    *)
(* next one is at its address + 4 while the pc stays as it is.             *)
LEMMA PcAfterFetch ==
    ASSUME NEW r \in RegistersSet, FetchOk(r), NEW n, n = ToNat(FetchAddress(r))
    PROVE  /\ arm_read_register(Fetched(r), 15) = ToWord(n + 8)
           /\ \A g : read_register(g, 15) = read_register(Fetched(r), 15)
                        => FetchAddress(g) = ToWord(n + 4)
           /\ n \in Nat /\ n < 268435456
           /\ arm_read_register(Fetched(r), 15) \in Word
           /\ ToNat(arm_read_register(Fetched(r), 15)) = n + 8
           /\ 1 \notin arm_read_register(Fetched(r), 15)
           /\ Minus(arm_read_register(Fetched(r), 15), Four) = ToWord(n + 4)
<1> DEFINE x == FetchAddress(r)
           y == Plus(x, Four)
           z == Plus(y, Four)
<1>1. x \in Word /\ 1 \notin x /\ n \in Nat /\ n < 268435456
  BY FetchIsLow
<1>2. y \in Word /\ 1 \notin y /\ ToNat(y) = n + 4 /\ y = ToWord(n + 4)
  BY <1>1, FourMore
<1> HIDE DEF x, y
<1>3. z \in Word /\ 1 \notin z /\ ToNat(z) = n + 8 /\ z = ToWord(n + 8)
  <2>1. ToNat(y) < 2147483640 /\ (n + 4) + 4 = n + 8
    BY <1>1, <1>2
  <2> QED
    BY <1>2, <2>1, FourMore
<1>4. read_register(Fetched(r), 15) = y
  BY <1>1, ReadAfterWrite DEF Fetched, x, y
<1>5. PcSeen(y) = z
  BY <1>3 DEF PcSeen
<1>6. Minus(z, Four) = y
  <2>1. y \ {1} = y
    BY <1>2
  <2> QED
    BY <1>2, <1>5, <2>1, PcSeenLessFour
<1> HIDE DEF z
<1>7. arm_read_register(Fetched(r), 15) = z
  BY <1>4, <1>5 DEF arm_read_register
<1>8. ASSUME NEW g, read_register(g, 15) = y PROVE FetchAddress(g) = y
  BY <1>5, <1>6, <1>8 DEF FetchAddress, arm_read_register
<1> QED
  BY <1>1, <1>2, <1>3, <1>4, <1>6, <1>7, <1>8

(* Instructions that do not write the pc leave it as the fetch did.        *)
LEMMA LoadStoreKeepsPc ==
    ASSUME NEW r \in RegistersSet, NEW m \in MemorySet, NEW ins \in Word, NEW ub,
           15 \notin {Rn(ins), Rd(ins)}
    PROVE  read_register(arm_load_store([reg |-> r, mem |-> m], ins, ub).reg, 15)
             = read_register(r, 15)
<1> DEFINE rn      == get_bits(ins, 19, 16)
           rd      == get_bits(ins, 15, 12)
           unit    == Unit(ins)
           base    == arm_read_register(r, rn)
           moved   == Moved(base, TransferOffset(r, ins, ub), 23 \in ins)
           address == IF 24 \in ins THEN moved ELSE base
           a       == AddressOf(address)
           value   == read_unit(m, unit, a)
           r1      == IF 24 \in ins /\ 21 \in ins THEN write_register(r, rn, address) ELSE r
           r2      == IF 20 \in ins THEN write_register(r1, rd, value) ELSE r1
           m2      == IF 20 \in ins THEN m ELSE write_unit(m, unit, a, arm_read_register(r1, rd))
           o       == arm_load_store([reg |-> r, mem |-> m], ins, ub)
<1>1. rn \in 0..15 /\ rd \in 0..15 /\ unit \in {1, 2, 4} /\ a \in Address /\ rn # 15 /\ rd # 15
  BY RegisterFields, AddressesAreTyped DEF Unit, Rn, Rd
<1>2. base \in Word /\ moved \in Word /\ address \in Word
  BY <1>1, ReadsAreWords, MovedIsWord
<1>3. o = IF WordOrByte(ins) /\ {25, 4} \subseteq ins
        THEN Outcome(r, m, UNDEFINED_INSTRUCTION)
        ELSE IF ~WordOrByte(ins) /\ ~HalfOrSigned(ins)
        THEN Outcome(r, m, UNDEFINED_INSTRUCTION)
        ELSE IF ~WordOrByte(ins) /\ get_bits(ins, 6, 5) # 1
        THEN Outcome(r1, m, UNDEFINED_INSTRUCTION)
        ELSE IF ~access_ok(unit, a) THEN Outcome(r1, m, DATA_ABORT)
        ELSE IF 24 \in ins THEN Outcome(r2, m2, 0)
        ELSE IF WordOrByte(ins) /\ 21 \in ins THEN Outcome(r2, m2, UNDEFINED_INSTRUCTION)
        ELSE Outcome(write_register(r2, rn, moved), m2, 0)
  BY DEF arm_load_store
<1>4. access_ok(unit, a) => value \in Word
  <2> HIDE DEF unit, a
  <2> QED
    BY <1>1, UnitsAreTyped
<1> HIDE DEF rn, rd, unit, base, moved, address, a, value, m2, o
<1>5. ASSUME NEW g \in RegistersSet, NEW n \in 0..15, n # 15, NEW v
      PROVE  read_register(write_register(g, n, v), 15) = read_register(g, 15)
  BY <1>5, ReadAfterWrite
<1>6. r1 \in RegistersSet /\ read_register(r1, 15) = read_register(r, 15)
  BY <1>1, <1>2, <1>5, InstructionWrites
<1> HIDE DEF r1
<1>7. access_ok(unit, a) => r2 \in RegistersSet /\ read_register(r2, 15) = read_register(r, 15)
  BY <1>1, <1>4, <1>5, <1>6, InstructionWrites
<1> HIDE DEF r2
<1>8. access_ok(unit, a) => read_register(write_register(r2, rn, moved), 15) = read_register(r, 15)
  BY <1>1, <1>5, <1>7
<1>9. \/ o.reg = r \/ o.reg = r1
      \/ access_ok(unit, a) /\ (o.reg = r2 \/ o.reg = write_register(r2, rn, moved))
  BY <1>3 DEF Outcome
<1> QED
  BY <1>6, <1>7, <1>8, <1>9 DEF o

(* One turn of the loop of LDM and STM writes its register, or none.       *)
LEMMA TransferRegs ==
    ASSUME NEW s \in Transferring, NEW ins, NEW n, NEW t, t = TransferRegister(s, ins, n)
    PROVE  \/ t.reg = s.reg
           \/ n \in ins /\ 20 \in ins /\ \E v : t.reg = write_register(s.reg, n, v)
<1> DEFINE a     == AddressOf(s.address)
           value == memory_read_word(s.mem, a)
           next  == Moved(s.address, Four, 23 \in ins)
           v     == IF n = 15 THEN value \ {0} ELSE value
           w     == write_register(s.reg, n, v)
           m2    == memory_write_word(s.mem, a, arm_read_register(s.reg, n))
<1>1. \/ t = s \/ t = [s EXCEPT !.result = DATA_ABORT]
      \/ n \in ins /\ 20 \in ins /\ t = [s EXCEPT !.address = next, !.reg = w]
      \/ t = [s EXCEPT !.address = next, !.mem = m2]
  BY DEF TransferRegister
<1> HIDE DEF a, value, next, m2
<1>2. \E x : w = write_register(s.reg, n, x)
  OBVIOUS
<1> HIDE DEF w, v
<1> QED
  BY <1>1, <1>2 DEF Transferring

(* The same for LDM and STM.                                               *)
LEMMA MultipleKeepsPc ==
    ASSUME NEW r \in RegistersSet, NEW m \in MemorySet, NEW ins \in Word,
           15 \notin ins, Rn(ins) # 15
    PROVE  read_register(arm_load_store_multiple([reg |-> r, mem |-> m], ins).reg, 15)
             = read_register(r, 15)
<1> DEFINE rn    == get_bits(ins, 19, 16)
           base  == arm_read_register(r, rn)
           start == [reg |-> r, mem |-> m, result |-> 0,
                     address |-> IF 24 \in ins THEN Moved(base, Four, 23 \in ins) ELSE base]
           T     == Transfers(start, ins)
           done  == T[16]
           final == IF 24 \in ins THEN Moved(done.address, Four, ~(23 \in ins)) ELSE done.address
           Kept(s) == s \in Transferring /\ read_register(s.reg, 15) = read_register(r, 15)
<1>1. rn \in 0..15 /\ rn # 15 /\ base \in Word
  BY RegisterFields, ReadsAreWords DEF Rn
<1>2. Kept(start)
  BY <1>1, MovedIsWord DEF Transferring
<1>3. ASSUME NEW s, Kept(s), NEW n \in 0..15 PROVE Kept(TransferRegister(s, ins, n))
  <2>1. TransferRegister(s, ins, n) \in Transferring /\ s.reg \in RegistersSet
    BY <1>3, TransferIsTyped DEF Transferring
  <2>2. \/ TransferRegister(s, ins, n).reg = s.reg
        \/ n # 15 /\ \E v : TransferRegister(s, ins, n).reg = write_register(s.reg, n, v)
    BY <1>3, TransferRegs
  <2> QED
    BY <1>3, <2>1, <2>2, ReadAfterWrite
<1>4. T[0] = start /\ \A n \in 0..15 : T[n + 1] = TransferRegister(T[n], ins, n)
  BY TransferSteps
<1> HIDE DEF T, start, Kept, rn, base
<1>5. \A n \in 0..15 : Kept(T[n]) => Kept(T[n + 1])
  BY <1>3, <1>4
<1>6. Kept(T[0])
  BY <1>2, <1>4
<1>7. Kept(T[4])
  BY <1>5, <1>6
<1>8. Kept(T[8])
  BY <1>5, <1>7
<1>9. Kept(T[12])
  BY <1>5, <1>8
<1>10. Kept(done)
  BY <1>5, <1>9
<1>11. done.reg \in RegistersSet /\ read_register(done.reg, 15) = read_register(r, 15)
  BY <1>10 DEF Kept, Transferring
<1> HIDE DEF done, final
<1>12. read_register(write_register(done.reg, rn, final), 15) = read_register(r, 15)
  BY <1>1, <1>11, ReadAfterWrite
<1>13. arm_load_store_multiple([reg |-> r, mem |-> m], ins) =
        IF 22 \in ins THEN Outcome(r, m, UNDEFINED_INSTRUCTION)
        ELSE IF done.result # 0 THEN Outcome(done.reg, done.mem, DATA_ABORT)
        ELSE IF 21 \in ins THEN Outcome(write_register(done.reg, rn, final), done.mem, 0)
        ELSE Outcome(done.reg, done.mem, 0)
  BY DEF arm_load_store_multiple, done, final, start, T, rn, base
<1> QED
  BY <1>11, <1>12, <1>13 DEF Outcome

(* The same for the data-processing instructions and MRS.                  *)
LEMMA DataKeepsPc ==
    ASSUME NEW r \in RegistersSet, NEW ins \in Word, Rd(ins) # 15
    PROVE  /\ read_register(arm_data_processing_shift(r, ins), 15) = read_register(r, 15)
           /\ read_register(mrs(r, ins), 15) = read_register(r, 15)
<1> DEFINE op      == get_bits(ins, 24, 21)
           rn      == get_bits(ins, 19, 16)
           rd      == get_bits(ins, 15, 12)
           operand == ShifterOperand(r, ins)
           a       == arm_read_register(r, rn)
           c       == C \in read_cpsr(r)
           res     == Result(op, a, operand.value, c)
           r1      == write_register(r, rd, res)
           d       == arm_data_processing_shift(r, ins)
<1>1. op \in 0..15 /\ rn \in 0..15 /\ rd \in 0..15 /\ rd # 15
  BY RegisterFields DEF Rd
<1>2. d \in {r, r1, UpdateFlags(r, op, rn, res, operand), UpdateFlags(r1, op, rn, res, operand)}
  BY <1>1 DEF arm_data_processing_shift
<1>3. ~OperandUndefined(ins) => res \in Word
  BY <1>1, OperandIsWord, ReadsAreWords, ResultIsWord
<1>4. OperandUndefined(ins) => d = r
  BY DEF arm_data_processing_shift
<1> HIDE DEF op, rn, rd, operand, a, c, res, d
<1>5. ~OperandUndefined(ins) => r1 \in RegistersSet
  BY <1>1, <1>3, InstructionWrites
<1>6. read_register(r1, 15) = read_register(r, 15)
  BY <1>1, ReadAfterWrite
<1>7. ASSUME NEW g \in RegistersSet
      PROVE  read_register(UpdateFlags(g, op, rn, res, operand), 15) = read_register(g, 15)
  BY CpsrWriteKeepsRegisters DEF UpdateFlags, write_flags
<1> HIDE DEF r1
<1>8. read_register(d, 15) = read_register(r, 15)
  BY <1>2, <1>4, <1>5, <1>6, <1>7
<1>9. read_register(mrs(r, ins), 15) = read_register(r, 15)
  BY <1>1, ReadAfterWrite DEF mrs, rd
<1> QED
  BY <1>8, <1>9 DEF d

(* An instruction sees its address + 8 when it reads the pc, and the next  *)
(* one is at its address + 4 unless it writes the pc.                      *)
THEOREM PcAlwaysRunsAhead == Spec => PcRunsAhead
<1> DEFINE Ahead(r, ins) == ~WritesPc(ins) => FetchAddress(reg') = ToWord(At + 4)
           A == /\ FetchOk(reg) => arm_read_register(Fetched(reg), 15) = ToWord(At + 8)
                /\ FetchOk(reg) => \A ins \in Opcodes(reg, mem) :
                     inst_cond(Fetched(reg), ins) => Ahead(Fetched(reg), ins)
                /\ FetchOk(reg) /\ (\A ins \in Opcodes(reg, mem) : ~inst_cond(Fetched(reg), ins))
                     => FetchAddress(reg') = ToWord(At + 4)
<1>1. ProcessorTypeOK /\ Next => A
  <2> SUFFICES ASSUME ProcessorTypeOK, Next, FetchOk(reg) PROVE A
    OBVIOUS
  <2> DEFINE r == Fetched(reg)
  <2>1. reg \in RegistersSet /\ r \in RegistersSet /\ mem \in MemorySet
    BY FetchIsTyped DEF ProcessorTypeOK
  <2>2. /\ arm_read_register(r, 15) = ToWord(At + 8)
        /\ \A g : read_register(g, 15) = read_register(r, 15) => FetchAddress(g) = ToWord(At + 4)
    BY <2>1, PcAfterFetch DEF At
  <2>3. PICK ins \in Opcodes(reg, mem) :
        \/ ConditionFails(ins)
        \/ \E ub \in UndefinedShift : LoadStore(ins, ub)
        \/ LoadStoreMultiple(ins) \/ Branch(ins) \/ Miscellaneous(ins)
        \/ Swi(ins) \/ DataProcessing(ins) \/ Unrecognised(ins)
    BY DEF Next
  <2>4. ins \in Word /\ \A i \in Opcodes(reg, mem) : i = ins
    BY <2>1, OpcodesAreWords DEF Opcodes
  <2>5. ASSUME inst_cond(r, ins) => ~WritesPc(ins) PROVE read_register(reg', 15) = read_register(r, 15)
    <3>0. ASSUME NEW o, arm_step(o), o.result # RESET,
                 read_register(o.reg, 15) = read_register(r, 15)
          PROVE  read_register(reg', 15) = read_register(r, 15)
      BY <3>0, StepHasOutcome
    <3>a. ASSUME NEW x, NEW y, NEW e
          PROVE  Outcome(x, y, e).reg = x /\ Outcome(x, y, e).result = e
      BY DEF Outcome
    <3>b. /\ FetchResult(reg) # RESET /\ UNDEFINED_INSTRUCTION # RESET /\ 0 # RESET
          /\ arm_coprocessor_others_swi(ins) # RESET /\ DATA_ABORT # RESET
      BY DEF FetchResult, arm_coprocessor_others_swi, UNDEFINED_INSTRUCTION, SOFTWARE_INTERRUPT,
             RESET, DATA_ABORT, EXIT
    <3>1. CASE ConditionFails(ins) \/ Unrecognised(ins)
      <4>1. arm_step(Outcome(r, mem, FetchResult(reg)))
        BY <3>1 DEF ConditionFails, Unrecognised
      <4> HIDE DEF r
      <4> QED
        BY <3>0, <3>a, <3>b, <4>1
    <3>2. ASSUME NEW ub \in UndefinedShift, LoadStore(ins, ub)
          PROVE  read_register(reg', 15) = read_register(r, 15)
      <4> DEFINE o == arm_load_store([reg |-> r, mem |-> mem], ins, ub)
      <4>1. arm_step(o) /\ 15 \notin {Rn(ins), Rd(ins)}
        BY <2>5, <3>2 DEF LoadStore, WritesPc
      <4>2. o.result # RESET
        BY <3>b DEF arm_load_store, Outcome
      <4> HIDE DEF r
      <4>3. read_register(o.reg, 15) = read_register(r, 15)
        BY <2>1, <2>4, <4>1, LoadStoreKeepsPc
      <4> HIDE DEF o
      <4> QED
        BY <3>0, <4>1, <4>2, <4>3
    <3>3. CASE LoadStoreMultiple(ins)
      <4> DEFINE o == arm_load_store_multiple([reg |-> r, mem |-> mem], ins)
      <4>1. arm_step(o) /\ 15 \notin ins /\ Rn(ins) # 15
        BY <2>5, <3>3 DEF LoadStoreMultiple, WritesPc
      <4>2. o.result # RESET
        BY <3>b DEF arm_load_store_multiple, Outcome
      <4> HIDE DEF r
      <4>3. read_register(o.reg, 15) = read_register(r, 15)
        BY <2>1, <2>4, <4>1, MultipleKeepsPc
      <4> HIDE DEF o
      <4> QED
        BY <3>0, <4>1, <4>2, <4>3
    <3>4. ~Branch(ins)
      BY <2>5 DEF Branch, WritesPc
    <3>5. CASE Miscellaneous(ins)
      <4>1. Rd(ins) # 15
        BY <2>5, <3>5 DEF Miscellaneous, WritesPc
      <4>2. \/ arm_step(Outcome(mrs(r, ins), mem, 0))
            \/ arm_step(Outcome(r, mem, UNDEFINED_INSTRUCTION))
        BY <3>5 DEF Miscellaneous
      <4> HIDE DEF r
      <4>3. read_register(mrs(r, ins), 15) = read_register(r, 15)
        BY <2>1, <2>4, <4>1, DataKeepsPc
      <4> QED
        BY <3>0, <3>a, <3>b, <4>2, <4>3
    <3>6. CASE Swi(ins)
      <4>1. arm_step(Outcome(r, mem, arm_coprocessor_others_swi(ins)))
        BY <3>6 DEF Swi
      <4> HIDE DEF r
      <4> QED
        BY <3>0, <3>a, <3>b, <4>1
    <3>7. CASE DataProcessing(ins)
      <4> DEFINE d == arm_data_processing_shift(r, ins)
                 e == IF OperandUndefined(ins) THEN UNDEFINED_INSTRUCTION ELSE 0
      <4>1. arm_step(Outcome(d, mem, e)) /\ Rd(ins) # 15
        BY <2>5, <3>7 DEF DataProcessing, WritesPc
      <4>2. e # RESET
        BY <3>b
      <4> HIDE DEF r
      <4>3. read_register(d, 15) = read_register(r, 15)
        BY <2>1, <2>4, <4>1, DataKeepsPc
      <4> HIDE DEF d, e
      <4> QED
        BY <3>0, <3>a, <4>1, <4>2, <4>3
    <3> QED
      BY <2>3, <3>1, <3>2, <3>3, <3>4, <3>5, <3>6, <3>7
  <2>6. (inst_cond(r, ins) => ~WritesPc(ins)) => FetchAddress(reg') = ToWord(At + 4)
    BY <2>2, <2>5
  <2> QED
    BY <2>2, <2>4, <2>6
<1>2. ProcessorTypeOK /\ [Next]_vars => [A]_vars
  BY <1>1
<1>3. [][A]_vars => PcRunsAhead
  BY PTL DEF PcRunsAhead, Executes
<1> QED
  BY <1>2, <1>3, ProcessorTypeCorrect, PTL DEF Spec

(* No other test of arm_execute_instruction accepts a branch.              *)
LEMMA BranchIsAlone ==
    ASSUME NEW ins, IsBranch(ins)
    PROVE  ~IsTransfer(ins) /\ ~IsMultiple(ins) /\ ~IsData(ins) /\ ~IsMisc(ins) /\ ~IsSwi(ins)
<1> DEFINE bit(i) == i \in ins
           one(i) == IF bit(i) THEN 1 ELSE 0
           two(i) == IF bit(i) THEN 2 ELSE 0
           four(i) == IF bit(i) THEN 4 ELSE 0
           eight(i) == IF bit(i) THEN 8 ELSE 0
<1>1. 27 = 25 + 2 /\ 27 = 26 + 1 /\ 27 = 24 + 3 /\ 26 = 25 + 1 /\ 25 = 24 + 1 /\ 26 = 24 + 2
  OBVIOUS
<1>2. /\ get_bits(ins, 27, 25) = one(25) + two(26) + four(27)
      /\ get_bits(ins, 27, 26) = one(26) + two(27)
      /\ get_bits(ins, 27, 24) = Digit(ins, 24)
  BY <1>1, FieldBits
<1>3. Digit(ins, 24) = one(24) + two(25) + four(26) + eight(27)
  BY <1>1 DEF Digit
<1>4. bit(25) /\ ~bit(26) /\ bit(27)
  BY <1>2 DEF IsBranch
<1>5. get_bits(ins, 27, 26) # 0 /\ get_bits(ins, 27, 24) # 15
  BY <1>2, <1>3, <1>4
<1>6. get_bits(ins, 27, 23) # 2
  <2> DEFINE x == {i \in 0..4 : i + 23 \in ins}
  <2>1. get_bits(ins, 27, 23) = ToNat(x)
    <3>1. 27 - 23 = 4
      OBVIOUS
    <3> QED
      BY <3>1 DEF get_bits
  <2>2. x \subseteq 0..4 /\ 4 \in x
    BY <1>4
  <2> HIDE DEF x
  <2>3. Digit(x, 4) = 1 /\ \A l \in {8, 12, 16, 20, 24, 28} : Digit(x, l) = 0
    BY <2>2 DEF Digit
  <2>4. PICK d \in 0..15 : d = Digit(x, 0)
    BY DigitRange
  <2>5. ToNat(x) = d + 16
    BY <2>3, <2>4 DEF ToNat
  <2> QED
    BY <2>1, <2>5
<1> QED
  BY <1>5, <1>6 DEF IsBranch, IsData, IsTransfer, IsHalfTransfer, IsMultiple, IsMisc, IsSwi

(* The offset that arm_branch computes: four times the signed field,       *)
(* modulo 2^32.                                                            *)
LEMMA BranchOffset ==
    ASSUME NEW ins \in Word, NEW y,
           y = {i + 2 : i \in ins \cap 0..22} \cup (IF 23 \in ins THEN 25..31 ELSE {}),
           NEW m, m = get_bits(ins, 22, 0)
    PROVE  /\ y \in Word /\ 0 \notin y /\ 1 \notin y
           /\ m \in Nat /\ m < 8388608
           /\ ToNat(y) = 4 * m + (IF 23 \in ins THEN 4261412864 ELSE 0)
<1> DEFINE f == {i \in 0..22 : i \in ins}
           g == f \cup (IF 23 \in ins THEN 23..29 ELSE {})
<1>1. m = ToNat(f)
  <2>1. 22 - 0 = 22 /\ \A i \in 0..22 : i + 0 = i
    OBVIOUS
  <2>2. {i \in 0..(22 - 0) : i + 0 \in ins} = f
    BY <2>1
  <2> QED
    BY <2>2, Zenon DEF get_bits
<1>2. y \in Word /\ 0 \notin y /\ 1 \notin y
  BY DEF Word, Bit
<1>3. ShiftRight(ShiftRight(y, 1), 1) = g /\ 0 \notin ShiftRight(y, 1)
  <2>1. \A i \in 0..31 : i \in ShiftRight(ShiftRight(y, 1), 1) <=> i + 2 \in y
    <3> SUFFICES ASSUME NEW i \in 0..31
                 PROVE  i \in ShiftRight(ShiftRight(y, 1), 1) <=> i + 2 \in y
      OBVIOUS
    <3>1. (i + 1) + 1 = i + 2 /\ (i + 2 \in y => i + 1 \in 0..31)
      BY <1>2 DEF Word, Bit
    <3> QED
      BY <3>1 DEF ShiftRight, Bit
  <2>2. \A i \in 0..31 : i + 2 \in y <=> i \in g
    OBVIOUS
  <2>3. g \subseteq 0..31 /\ ShiftRight(ShiftRight(y, 1), 1) \subseteq 0..31
    BY DEF ShiftRight, Bit
  <2>4. 0 \notin ShiftRight(y, 1)
    <3>1. 0 + 1 = 1
      OBVIOUS
    <3> QED
      BY <1>2, <3>1 DEF ShiftRight
  <2> QED
    BY <2>1, <2>2, <2>3, <2>4
<1> HIDE DEF g
<1>4. ToNat(y) = 4 * ToNat(g)
  <2>1. ShiftRight(y, 1) \in Word
    BY WordsAreClosed
  <2>2. PICK k \in Nat, l \in Nat : k = ToNat(ShiftRight(y, 1)) /\ l = ToNat(g)
    <3>1. \A z : ToNat(z) \in Nat
      BY HalvesOf
    <3> QED
      BY <3>1
  <2>3. ToNat(y) = 0 + 2 * k
    BY <1>2, <2>2, TwiceTheRest
  <2>4. k = 0 + 2 * l
    BY <1>3, <2>1, <2>2, TwiceTheRest
  <2> QED
    BY <2>2, <2>3, <2>4
<1>5. PICK d0 \in 0..15, d1 \in 0..15, d2 \in 0..15, d3 \in 0..15, d4 \in 0..15, d5 \in 0..15 :
        /\ d0 = Digit(f, 0) /\ d1 = Digit(f, 4) /\ d2 = Digit(f, 8) /\ d3 = Digit(f, 12)
        /\ d4 = Digit(f, 16) /\ d5 = Digit(f, 20)
  BY DigitRange
<1>6. Digit(f, 20) < 8 /\ Digit(f, 24) = 0 /\ Digit(f, 28) = 0
  BY DEF Digit
<1>7. /\ Digit(g, 0) = Digit(f, 0) /\ Digit(g, 4) = Digit(f, 4) /\ Digit(g, 8) = Digit(f, 8)
      /\ Digit(g, 12) = Digit(f, 12) /\ Digit(g, 16) = Digit(f, 16)
  BY DEF Digit, g
<1>8. /\ Digit(g, 20) = Digit(f, 20) + (IF 23 \in ins THEN 8 ELSE 0)
      /\ Digit(g, 24) = (IF 23 \in ins THEN 15 ELSE 0)
      /\ Digit(g, 28) = (IF 23 \in ins THEN 3 ELSE 0)
  BY DEF Digit, g
<1> HIDE DEF f
<1>9. m = d0 + 16 * d1 + 256 * d2 + 4096 * d3 + 65536 * d4 + 1048576 * d5 /\ d5 < 8
  BY <1>1, <1>5, <1>6, SMT DEF ToNat
<1>10. ToNat(g) = m + (IF 23 \in ins THEN 1065353216 ELSE 0)
  BY <1>5, <1>7, <1>8, <1>9, SMT DEF ToNat
<1>11. m \in Nat /\ m < 8388608
  BY <1>9, SMT
<1>12. ToNat(y) = 4 * m + (IF 23 \in ins THEN 4261412864 ELSE 0)
  BY <1>4, <1>10, <1>11, SMT
<1> QED
  BY <1>2, <1>11, <1>12, SMT

(* The word that a branch moves the pc to, against the number of its       *)
(* target.                                                                 *)
LEMMA BranchTarget ==
    ASSUME NEW x \in Word, NEW y \in Word, NEW w, w = Plus(x, y),
           NEW n \in Nat, n < 268435456, ToNat(x) = n + 8,
           NEW m \in Nat, m < 8388608, NEW back \in BOOLEAN,
           ToNat(y) = 4 * m + (IF back THEN 4261412864 ELSE 0),
           NEW t, t = n + 8 + 4 * (m - (IF back THEN 8388608 ELSE 0))
    PROVE  w = WordOf(t)
<1>1. w \in Word /\ Zero \in Word
  BY WordsAreClosed
<1>2. PICK k \in Nat : k = ToNat(w) /\ k < 4294967296 /\ (31 \in w <=> k >= 2147483648)
  BY <1>1, NumbersOf, SMT
<1>3. PICK h \in {0, 1} : (n + 8) + ToNat(y) = k + 4294967296 * h
  BY <1>2, NumbersOf, SMT
<1>4. t \in Int /\ t < 2147483648
  BY SMT
<1>5. IF t >= 0 THEN k = t ELSE k = t + 4294967296
  BY <1>2, <1>3, SMT
<1>6. CASE t >= 0
  <2>1. 31 \notin w /\ k = t
    BY <1>2, <1>4, <1>5, <1>6, SMT
  <2>2. ToWord(t) = w
    <3>1. ToWord(ToNat(w)) = w
      BY <1>1, <2>1, ToWordOfToNat, SMT
    <3> QED
      BY <1>2, <2>1, <3>1, SMT
  <2> QED
    BY <1>6, <2>2, SMT DEF WordOf
<1>7. CASE ~(t >= 0)
  <2> DEFINE z == Minus(Zero, w)
             v == Minus(Zero, z)
  <2>0. z \in Word /\ v \in Word
    BY WordsAreClosed
  <2>1. ToNat(Zero) = 0
    <3>1. \A l : Digit(Zero, l) = 0
      BY DEF Digit, Zero
    <3> QED
      BY <3>1 DEF ToNat
  <2>2. t >= -33554432
    BY SMT
  <2> HIDE DEF z
  <2>3. PICK j \in Nat : j = ToNat(z) /\ j < 4294967296 /\ (31 \in z <=> j >= 2147483648)
    BY <2>0, NumbersOf, SMT
  <2>4. PICK h1 \in {-1, 0} : 0 - k = j + 4294967296 * h1
    BY <1>1, <1>2, <2>1, <2>3, NumbersOf, SMT DEF z
  <2>5. j = -t
    BY <1>4, <1>5, <1>7, <2>2, <2>3, <2>4, SMT
  <2>6. 31 \notin z
    BY <2>2, <2>3, <2>5, <1>4, SMT
  <2>7. ToWord(-t) = z
    <3>1. ToWord(ToNat(z)) = z
      BY <2>0, <2>6, ToWordOfToNat, SMT
    <3> QED
      BY <2>3, <2>5, <3>1, SMT
  <2> HIDE DEF v
  <2>8. PICK i \in Nat : i = ToNat(v) /\ i < 4294967296
    BY <2>0, NumbersOf, SMT
  <2>9. PICK h2 \in {-1, 0} : 0 - j = i + 4294967296 * h2
    BY <1>1, <2>0, <2>1, <2>3, <2>8, NumbersOf, SMT DEF v
  <2>10. i = k
    BY <1>2, <1>4, <1>5, <1>7, <2>2, <2>5, <2>8, <2>9, SMT
  <2>11. v = w
    <3>1. ToNat(v) = ToNat(w) => v = w
      BY <1>1, <2>0, NumbersOf, SMT
    <3> QED
      BY <1>2, <2>8, <2>10, <3>1, SMT
  <2>12. WordOf(t) = v
    BY <1>7, <2>7, SMT DEF WordOf, v
  <2> QED
    BY <2>11, <2>12, SMT
<1> QED
  BY <1>4, <1>6, <1>7, SMT

(* A branch leaves bit 1 of the pc clear.                                  *)
LEMMA BranchIsAligned ==
    ASSUME NEW x \in Word, NEW y \in Word, 1 \notin x, 0 \notin y, 1 \notin y
    PROVE  1 \notin Plus(x, y)
<1>1. PICK c \in BOOLEAN : c = FALSE
  OBVIOUS
<1>2. Plus(x, y) = AddWithCarry(x, y, c)
  BY <1>1, Zenon DEF Plus
<1>3. ~CarryInto(x, y, c, 0)
  <2>1. 0 \in Nat
    OBVIOUS
  <2> QED
    BY <1>1, <2>1, Ripple
<1>4. ~CarryInto(x, y, c, 1)
  <2>1. 0 \in Nat /\ 0 + 1 = 1
    OBVIOUS
  <2>2. CarryInto(x, y, c, 0 + 1) <=>
                 \/ 0 \in x /\ 0 \in y
                 \/ (0 \in x \/ 0 \in y) /\ CarryInto(x, y, c, 0)
    BY <2>1, Ripple
  <2> QED
    BY <1>3, <2>1, <2>2
<1>5. 1 \in AddWithCarry(x, y, c) => (((1 \in x) # (1 \in y)) # CarryInto(x, y, c, 1))
  BY DEF AddWithCarry
<1>6. CarryInto(x, y, c, 1) \in BOOLEAN
  BY DEF CarryInto
<1> QED
  BY <1>2, <1>4, <1>5, <1>6

(* B and BL continue at their address + 8 + 4 * the signed offset; BL and  *)
(* only BL leaves the address of the next instruction in R14, and nothing  *)
(* else changes.                                                           *)
THEOREM BranchesAlwaysLink == Spec => BranchesLink
<1> DEFINE Linked(ins) == IsBranch(ins) =>
             LET offset == get_bits(ins, 22, 0) - (IF 23 \in ins THEN 2^23 ELSE 0)
                 target == At + 8 + 4 * offset
             IN  /\ FetchAddress(reg') = WordOf(target)
                 /\ read_register(reg', 14) =
                      IF 24 \in ins THEN ToWord(At + 4) ELSE read_register(reg, 14)
                 /\ \A n \in 0..13 : read_register(reg', n) = read_register(reg, n)
                 /\ mem' = mem
           A == FetchOk(reg) => \A ins \in Opcodes(reg, mem) :
                  inst_cond(Fetched(reg), ins) => Linked(ins)
<1>1. ProcessorTypeOK /\ Next => A
  <2> SUFFICES ASSUME ProcessorTypeOK, Next, FetchOk(reg), NEW ins \in Opcodes(reg, mem),
                      inst_cond(Fetched(reg), ins), IsBranch(ins)
               PROVE  Linked(ins)
    OBVIOUS
  <2> DEFINE r    == Fetched(reg)
             pc   == arm_read_register(r, 15)
             y    == {i + 2 : i \in ins \cap 0..22} \cup (IF 23 \in ins THEN 25..31 ELSE {})
             m    == get_bits(ins, 22, 0)
             w    == Plus(pc, y)
             link == Minus(pc, Four)
             r1   == IF 24 \in ins THEN write_register(r, 14, link) ELSE r
             r2   == write_register(r1, 15, w)
             n    == At
  <2>1. reg \in RegistersSet /\ r \in RegistersSet /\ ins \in Word
    BY FetchIsTyped, OpcodesAreWords DEF ProcessorTypeOK
  <2>2. \A i \in Opcodes(reg, mem) : i = ins
    BY DEF Opcodes
  <2>3. Branch(ins)
    BY <2>2, BranchIsAlone DEF Next, ConditionFails, LoadStore, LoadStoreMultiple,
         DataProcessing, Miscellaneous, Swi, Unrecognised
  <2>4. arm_step(Outcome(arm_branch(r, ins), mem, 0)) /\ arm_branch(r, ins) = r2
    BY <2>3 DEF Branch, arm_branch
  <2> HIDE DEF r2
  <2>5. reg' = r2 /\ mem' = mem
    BY <2>4, StepHasOutcome DEF Outcome, RESET
  <2>6. /\ n \in Nat /\ n < 268435456 /\ pc \in Word /\ ToNat(pc) = n + 8 /\ 1 \notin pc
        /\ link = ToWord(n + 4)
    BY <2>1, PcAfterFetch, SMT DEF At
  <2>7. /\ y \in Word /\ 0 \notin y /\ 1 \notin y /\ m \in Nat /\ m < 8388608
        /\ ToNat(y) = 4 * m + (IF 23 \in ins THEN 4261412864 ELSE 0)
    BY <2>1, BranchOffset, SMT
  <2>8. \A k \in 0..14 : read_register(r, k) = read_register(reg, k)
    BY <2>1, ReadAfterWrite DEF Fetched
  <2>9. w \in Word /\ link \in Word
    BY WordsAreClosed
  <2>10. 1 \notin w
    BY <2>6, <2>7, BranchIsAligned, SMT
  <2>11. w = WordOf(n + 8 + 4 * (m - (IF 23 \in ins THEN 2^23 ELSE 0)))
    <3>1. PICK back \in BOOLEAN : back <=> 23 \in ins
      OBVIOUS
    <3>2. PICK t : t = n + 8 + 4 * (m - (IF back THEN 8388608 ELSE 0))
      OBVIOUS
    <3>3. w = WordOf(t)
      <4> HIDE DEF pc, y, n, m
      <4>1. ToNat(y) = 4 * m + (IF back THEN 4261412864 ELSE 0)
        BY <2>7, <3>1, SMT
      <4> QED
        BY <2>6, <2>7, <3>2, <4>1, BranchTarget, SMT
    <3>4. 2^23 = 8388608
      OBVIOUS
    <3> QED
      BY <3>1, <3>2, <3>3, <3>4, SMT
  <2> HIDE DEF r, pc, y, m, w, link, n
  <2>12. r1 \in RegistersSet
    BY <2>1, <2>9, InstructionWrites
  <2>13. \A k \in 0..14 : read_register(r1, k) = IF k = 14 /\ 24 \in ins THEN link ELSE read_register(r, k)
    BY <2>1, ReadAfterWrite
  <2> HIDE DEF r1
  <2>14. read_register(r2, 15) = w /\ \A k \in 0..14 : read_register(r2, k) = read_register(r1, k)
    BY <2>12, ReadAfterWrite DEF r2
  <2>15. FetchAddress(reg') = w
    <3>1. Minus(PcSeen(w), Four) = w \ {1}
      BY <2>9, PcSeenLessFour
    <3> QED
      BY <2>5, <2>10, <2>14, <3>1 DEF FetchAddress, arm_read_register
  <2>16. read_register(reg', 14) = IF 24 \in ins THEN ToWord(n + 4) ELSE read_register(reg, 14)
    BY <2>5, <2>6, <2>8, <2>13, <2>14
  <2>17. \A k \in 0..13 : read_register(reg', k) = read_register(reg, k)
    BY <2>5, <2>8, <2>13, <2>14
  <2> QED
    BY <2>5, <2>11, <2>15, <2>16, <2>17 DEF n, m
<1>2. ProcessorTypeOK /\ [Next]_vars => [A]_vars
  BY <1>1
<1>3. [][A]_vars => BranchesLink
  BY PTL DEF BranchesLink, Executes
<1> QED
  BY <1>2, <1>3, ProcessorTypeCorrect, PTL DEF Spec

----------------------------------------------------------------------------
(* The places of LDM and STM. *)

(* The words of the distances that they move by.                           *)
LEMMA FoursAreWords ==
    ASSUME NEW k \in 0..17
    PROVE  ToWord(4 * k) \in Word /\ ToNat(ToWord(4 * k)) = 4 * k
<1>1. PICK b0 \in {0, 1}, b1 \in {0, 1}, b2 \in {0, 1}, b3 \in {0, 1}, b4 \in {0, 1} :
        k = b0 + 2 * b1 + 4 * b2 + 8 * b3 + 16 * b4
  <2>1. \A i \in 0..7 : \E b0 \in {0, 1}, b1 \in {0, 1}, b2 \in {0, 1} : i = b0 + 2 * b1 + 4 * b2
    OBVIOUS
  <2>2. PICK j \in 0..7, b3 \in {0, 1}, b4 \in {0, 1} : k = j + 8 * b3 + 16 * b4
    <3>1. CASE k < 8
      BY <3>1
    <3>2. CASE k >= 8 /\ k < 16
      <4>1. k - 8 \in 0..7 /\ k = (k - 8) + 8 * 1 + 16 * 0
        BY <3>2
      <4> QED
        BY <4>1
    <3>3. CASE k >= 16
      <4>1. k - 16 \in 0..7 /\ k = (k - 16) + 8 * 0 + 16 * 1
        BY <3>3
      <4> QED
        BY <4>1
    <3> QED
      BY <3>1, <3>2, <3>3
  <2>3. PICK b0 \in {0, 1}, b1 \in {0, 1}, b2 \in {0, 1} : j = b0 + 2 * b1 + 4 * b2
    BY <2>1
  <2>4. k = b0 + 2 * b1 + 4 * b2 + 8 * b3 + 16 * b4
    BY <2>2, <2>3
  <2> QED
    BY <2>4
<1> DEFINE bit(b, i) == IF b = 1 THEN {i} ELSE {}
           x == bit(b0, 2) \cup bit(b1, 3) \cup bit(b2, 4) \cup bit(b3, 5) \cup bit(b4, 6)
<1>2. /\ x \in Word /\ x \subseteq 2..6 /\ 31 \notin x
      /\ 2 \in x <=> b0 = 1
      /\ 3 \in x <=> b1 = 1
      /\ 4 \in x <=> b2 = 1
      /\ 5 \in x <=> b3 = 1
      /\ 6 \in x <=> b4 = 1
  BY DEF Word, Bit
<1> HIDE DEF x
<1>3. Digit(x, 0) = 4 * b0 + 8 * b1
  <2>1. 0 \notin x /\ 0 + 1 \notin x /\ 0 + 2 = 2 /\ 0 + 3 = 3
    BY <1>2
  <2> QED
    BY <1>2, <2>1 DEF Digit
<1>4. Digit(x, 4) = b2 + 2 * b3 + 4 * b4
  <2>1. 4 + 1 = 5 /\ 4 + 2 = 6 /\ 4 + 3 \notin x
    BY <1>2
  <2> QED
    BY <1>2, <2>1 DEF Digit
<1>5. \A l \in {8, 12, 16, 20, 24, 28} : Digit(x, l) = 0
  <2> SUFFICES ASSUME NEW l \in {8, 12, 16, 20, 24, 28} PROVE Digit(x, l) = 0
    OBVIOUS
  <2>1. l \notin x /\ l + 1 \notin x /\ l + 2 \notin x /\ l + 3 \notin x
    BY <1>2
  <2> QED
    BY <2>1 DEF Digit
<1>6. ToNat(x) = 4 * k
  BY <1>1, <1>3, <1>4, <1>5, SMT DEF ToNat
<1>7. ToWord(4 * k) = x
  BY <1>2, <1>6, ToWordOfToNat
<1> QED
  BY <1>2, <1>6, <1>7

(* The number of words, and the word w whose number is n + d modulo it.    *)
Turn == 4294967296
Lands(w, n, d) ==
    /\ w \in Word
    /\ \E h \in {-1, 0, 1}, k \in Int :
         k = ToNat(w) /\ 0 <= k /\ k < Turn /\ k = n + d + Turn * h

(* A sum is as far from x as y says, a difference as far the other way.    *)
LEMMA SumsLand ==
    ASSUME NEW x \in Word, NEW y \in Word, NEW a \in Int, a = ToNat(x), NEW b \in Int, b = ToNat(y)
    PROVE  Lands(Plus(x, y), a, b) /\ Lands(Minus(x, y), a, -b)
<1> DEFINE p == Plus(x, y)
           m == Minus(x, y)
<1>1. p \in Word /\ m \in Word
  BY WordsAreClosed
<1>2. PICK h \in {0, 1} : a + b = ToNat(p) + Turn * h
  BY NumbersOf, SMT DEF Turn
<1>3. PICK g \in {-1, 0} : a - b = ToNat(m) + Turn * g
  BY NumbersOf, SMT DEF Turn
<1> HIDE DEF p, m
<1>4. PICK k \in Int : k = ToNat(p) /\ 0 <= k /\ k < Turn
  BY <1>1, NumbersOf, SMT DEF Turn
<1>5. PICK l \in Int : l = ToNat(m) /\ 0 <= l /\ l < Turn
  BY <1>1, NumbersOf, SMT DEF Turn
<1>6. PICK i \in {-1, 0, 1} : i = -h /\ k = a + b + Turn * i
  BY <1>2, <1>4, SMT DEF Turn
<1>7. PICK j \in {-1, 0, 1} : j = -g /\ l = a + -b + Turn * j
  BY <1>3, <1>5, SMT DEF Turn
<1>8. Lands(p, a, b)
  BY <1>1, <1>4, <1>6, SMT DEF Lands, Turn
<1>9. Lands(m, a, -b)
  BY <1>1, <1>5, <1>7, SMT DEF Lands, Turn
<1> QED
  BY <1>8, <1>9 DEF p, m

(* Words that land at the same distance are the same; and words that land  *)
(* at two small distances are the same only if these are.                  *)
LEMMA LandingsApart ==
    ASSUME NEW v, NEW w, NEW n \in Int, NEW d \in Int, NEW e \in Int,
           -80 <= d, d <= 80, -80 <= e, e <= 80, Lands(v, n, d), Lands(w, n, e)
    PROVE  v = w <=> d = e
<1>1. v \in Word /\ w \in Word
  BY DEF Lands
<1>2. PICK h \in {-1, 0, 1}, k \in Int :
        k = ToNat(v) /\ 0 <= k /\ k < Turn /\ k = n + d + Turn * h
  BY SMT DEF Lands, Turn
<1>3. PICK g \in {-1, 0, 1}, l \in Int :
        l = ToNat(w) /\ 0 <= l /\ l < Turn /\ l = n + e + Turn * g
  BY SMT DEF Lands, Turn
<1>4. k = l <=> d = e
  BY <1>2, <1>3, SMT DEF Turn
<1>5. ToNat(v) = ToNat(w) => v = w
  BY <1>1, NumbersOf, SMT
<1>6. ToNat(v) = ToNat(w) <=> d = e
  BY <1>2, <1>3, <1>4, SMT DEF Turn
<1> QED
  BY <1>5, <1>6, Zenon

(* From a word that has landed at d, one more step lands at d + e.         *)
LEMMA LandsAgain ==
    ASSUME NEW v, NEW w, NEW n \in Int, 0 <= n, n < Turn, NEW d \in Int, NEW e \in Int,
           -80 <= d, d <= 80, -80 <= e, e <= 80, -80 <= d + e, d + e <= 80,
           Lands(v, n, d), Lands(w, ToNat(v), e)
    PROVE  Lands(w, n, d + e)
<1>1. w \in Word
  BY DEF Lands
<1>2. PICK h \in {-1, 0, 1}, k \in Int :
        k = ToNat(v) /\ 0 <= k /\ k < Turn /\ k = n + d + Turn * h
  BY SMT DEF Lands, Turn
<1>3. PICK g \in {-1, 0, 1}, l \in Int :
        l = ToNat(w) /\ 0 <= l /\ l < Turn /\ l = k + e + Turn * g
  BY <1>2, SMT DEF Lands, Turn
<1>4. PICK i \in Int : i = h + g /\ l = n + (d + e) + Turn * i
  BY <1>2, <1>3, SMT DEF Turn
<1>5. i \in {-1, 0, 1}
  BY <1>3, <1>4, SMT DEF Turn
<1> QED
  BY <1>1, <1>3, <1>4, <1>5, SMT DEF Lands, Turn

(* The distance of c places.                                               *)
Distance(ins, c) == IF 23 \in ins THEN 4 * c ELSE -(4 * c)

(* A word that is moved up or down.                                        *)
LEMMA MovedLands ==
    ASSUME NEW base \in Word, NEW ins, NEW n \in Int, n = ToNat(base),
           NEW y \in Word, NEW c \in 0..17, 4 * c = ToNat(y)
    PROVE  /\ Lands(Moved(base, y, 23 \in ins), n, Distance(ins, c))
           /\ Lands(Moved(base, y, ~(23 \in ins)), n, -Distance(ins, c))
<1>1. PICK b \in Int : b = 4 * c /\ b = ToNat(y) /\ - (-b) = b
  OBVIOUS
<1>2. Lands(Plus(base, y), n, b) /\ Lands(Minus(base, y), n, -b)
  BY <1>1, SumsLand
<1>3. CASE 23 \in ins
  <2>1. Distance(ins, c) = b
    BY <1>1, <1>3 DEF Distance
  <2>2. Moved(base, y, 23 \in ins) = Plus(base, y) /\ Moved(base, y, ~(23 \in ins)) = Minus(base, y)
    BY <1>3 DEF Moved
  <2> QED
    BY <1>2, <2>1, <2>2
<1>4. CASE 23 \notin ins
  <2>1. Distance(ins, c) = -b /\ -Distance(ins, c) = b
    BY <1>1, <1>4 DEF Distance
  <2>2. Moved(base, y, 23 \in ins) = Minus(base, y) /\ Moved(base, y, ~(23 \in ins)) = Plus(base, y)
    BY <1>4 DEF Moved
  <2> QED
    BY <1>2, <2>1, <2>2
<1> QED
  BY <1>3, <1>4

(* The places are four bytes apart, and distinct.                          *)
LEMMA MovesAreSteps ==
    ASSUME NEW base \in Word, NEW ins, NEW c \in 0..16
    PROVE  /\ Moves(base, ins, c) \in Word
           /\ Moves(base, ins, 0) = base
           /\ Moved(Moves(base, ins, c), Four, 23 \in ins) = Moves(base, ins, c + 1)
           /\ Moved(Moves(base, ins, c + 1), Four, ~(23 \in ins)) = Moves(base, ins, c)
           /\ \A d \in 0..17 : Moves(base, ins, c) = Moves(base, ins, d) => c = d
<1> DEFINE wc == Moves(base, ins, c)
           wn == Moves(base, ins, c + 1)
           z  == Moves(base, ins, 0)
           u  == Moved(wc, Four, 23 \in ins)
           v  == Moved(wn, Four, ~(23 \in ins))
           D(i) == Distance(ins, i)
<1>1. PICK n \in Int : n = ToNat(base) /\ 0 <= n /\ n < Turn
  BY NumbersOf, SMT DEF Turn
<1>2. Four \in Word /\ 4 * 1 = ToNat(Four) /\ 1 \in 0..17
  <2>1. Digit(Four, 0) = 4 /\ \A l \in {4, 8, 12, 16, 20, 24, 28} : Digit(Four, l) = 0
    BY DEF Digit, Four
  <2> QED
    BY <2>1, WordsAreClosed, SMT DEF ToNat
<1>3. \A i \in 0..17 : D(i) \in Int /\ -80 <= D(i) /\ D(i) <= 80
  <2> SUFFICES ASSUME NEW i \in 0..17 PROVE D(i) \in Int /\ -80 <= D(i) /\ D(i) <= 80
    OBVIOUS
  <2>1. i \in Int /\ 0 <= i /\ i <= 17
    OBVIOUS
  <2> QED
    BY <2>1, SMT DEF Distance
<1>a. D(0) = 0 /\ D(c) + D(1) = D(c + 1) /\ D(c + 1) + -D(1) = D(c)
  <2>1. CASE 23 \in ins
    <3>1. D(0) = 4 * 0 /\ D(1) = 4 * 1 /\ D(c) = 4 * c /\ D(c + 1) = 4 * (c + 1)
      BY <2>1 DEF Distance
    <3> HIDE DEF D
    <3> QED
      BY <3>1, SMT
  <2>2. CASE 23 \notin ins
    <3>1. D(0) = -(4 * 0) /\ D(1) = -(4 * 1) /\ D(c) = -(4 * c) /\ D(c + 1) = -(4 * (c + 1))
      BY <2>2 DEF Distance
    <3> HIDE DEF D
    <3> QED
      BY <3>1, SMT
  <2> QED
    BY <2>1, <2>2
<1>b. -D(1) \in Int /\ -80 <= -D(1) /\ -D(1) <= 80
  BY SMT DEF Distance
<1>c. \A i, j \in 0..17 : D(i) = D(j) => i = j
  BY SMT DEF Distance
<1>4. c \in 0..17 /\ c + 1 \in 0..17 /\ 0 \in 0..17 /\ 1 \in 0..17
  OBVIOUS
<1>5. ASSUME NEW i \in 0..17 PROVE Lands(Moves(base, ins, i), n, D(i))
  <2>1. ToWord(4 * i) \in Word /\ 4 * i = ToNat(ToWord(4 * i))
    BY FoursAreWords
  <2>2. n = ToNat(base)
    BY <1>1
  <2> QED
    BY <2>1, <2>2, MovedLands DEF Moves
<1> HIDE DEF D
<1>6. Lands(wc, n, D(c)) /\ Lands(wn, n, D(c + 1)) /\ Lands(z, n, D(0))
  BY <1>4, <1>5
<1>7. wc \in Word /\ wn \in Word /\ z \in Word
  BY <1>6 DEF Lands
<1> HIDE DEF wc, wn, z
<1>8. PICK nc \in Int, nn \in Int : nc = ToNat(wc) /\ nn = ToNat(wn)
  BY <1>7, NumbersOf, SMT
<1>9. Lands(u, nc, D(1)) /\ Lands(v, nn, -D(1))
  BY <1>2, <1>7, <1>8, MovedLands DEF D
<1> HIDE DEF u, v
<1>10. Lands(u, n, D(c + 1)) /\ Lands(v, n, D(c))
  <2>1. Lands(u, n, D(c) + D(1))
    <3>1. Lands(u, ToNat(wc), D(1)) /\ 0 <= n /\ n < Turn
      BY <1>1, <1>8, <1>9, Zenon
    <3>2. -80 <= D(c) + D(1) /\ D(c) + D(1) <= 80
      BY <1>3, <1>4, <1>a
    <3> QED
      BY <1>3, <1>4, <1>6, <1>b, <3>1, <3>2, LandsAgain
  <2>2. Lands(v, n, D(c + 1) + -D(1))
    <3>1. Lands(v, ToNat(wn), -D(1)) /\ 0 <= n /\ n < Turn
      BY <1>1, <1>8, <1>9, Zenon
    <3>2. -80 <= D(c + 1) + -D(1) /\ D(c + 1) + -D(1) <= 80
      BY <1>3, <1>4, <1>a
    <3> QED
      BY <1>3, <1>4, <1>6, <1>b, <3>1, <3>2, LandsAgain
  <2> QED
    BY <1>a, <2>1, <2>2
<1>11. u = wn
  BY <1>3, <1>4, <1>6, <1>10, LandingsApart
<1>12. v = wc
  BY <1>3, <1>4, <1>6, <1>10, LandingsApart
<1>13. z = base
  <2>1. Lands(base, n, 0)
    <3>1. n = n + 0 + Turn * 0
      BY <1>1, SMT DEF Turn
    <3> QED
      BY <1>1, <3>1 DEF Lands
  <2>2. 0 \in Int /\ -80 <= 0 /\ 0 <= 80
    OBVIOUS
  <2>3. Lands(z, n, 0)
    BY <1>a, <1>6
  <2> QED
    BY <2>1, <2>2, <2>3, LandingsApart
<1>14. ASSUME NEW i \in 0..17, wc = Moves(base, ins, i) PROVE c = i
  <2>1. Lands(wc, n, D(i))
    BY <1>5, <1>14
  <2>2. wc = wc <=> D(i) = D(c)
    <3>1. /\ D(i) \in Int /\ -80 <= D(i) /\ D(i) <= 80
          /\ D(c) \in Int /\ -80 <= D(c) /\ D(c) <= 80 /\ Lands(wc, n, D(c))
      BY <1>3, <1>4, <1>6
    <3> QED
      BY <2>1, <3>1, LandingsApart, Zenon
  <2> QED
    BY <1>c, <1>4, <2>2
<1> QED
  BY <1>7, <1>11, <1>12, <1>13, <1>14 DEF u, v, wc, wn, z

(* The number of registers of the list below n.                            *)
LEMMA Ranks ==
    ASSUME NEW ins
    PROVE  /\ Rank(ins, 0) = 0 /\ Rank(ins, 16) = Cardinality(List(ins))
           /\ \A n \in 0..16 : Rank(ins, n) \in 0..n
           /\ \A n \in 0..15 : Rank(ins, n + 1) = Rank(ins, n) + (IF n \in ins THEN 1 ELSE 0)
<1> DEFINE S(n) == {k \in List(ins) : k < n}
<1>1. S(0) = {} /\ S(16) = List(ins)
  BY DEF List
<1>2. \A n \in 0..15 : n \notin S(n) /\ S(n + 1) = IF n \in ins THEN S(n) \cup {n} ELSE S(n)
  <2> SUFFICES ASSUME NEW n \in 0..15
               PROVE  n \notin S(n) /\ S(n + 1) = IF n \in ins THEN S(n) \cup {n} ELSE S(n)
    OBVIOUS
  <2>1. \A k \in List(ins) : k < n + 1 <=> k < n \/ k = n
    BY DEF List
  <2>2. n \in ins <=> n \in List(ins)
    BY DEF List
  <2> QED
    BY <2>1, <2>2
<1>3. \A n : IsFiniteSet(S(n))
  <2>1. IsFiniteSet(0..15)
    <3>1. 0 \in Int /\ 15 \in Int
      OBVIOUS
    <3> QED
      BY <3>1, FS_Interval, Zenon
  <2> QED
    BY <2>1, FS_Subset DEF List
<1>4. \A n : Rank(ins, n) = Cardinality(S(n))
  BY DEF Rank
<1> HIDE DEF S
<1>5. Rank(ins, 0) = 0
  BY <1>1, <1>4, FS_EmptySet
<1>6. ASSUME NEW n \in 0..15
      PROVE  Rank(ins, n + 1) = Rank(ins, n) + (IF n \in ins THEN 1 ELSE 0)
  <2>1. Cardinality(S(n)) \in Nat
    BY <1>3, FS_CardinalityType
  <2>2. CASE n \in ins
    <3>1. Cardinality(S(n) \cup {n}) = Cardinality(S(n)) + 1
      BY <1>2, <1>3, FS_AddElement, Zenon
    <3> QED
      BY <1>2, <1>4, <2>2, <3>1
  <2>3. CASE n \notin ins
    BY <1>2, <1>4, <2>1, <2>3
  <2> QED
    BY <2>2, <2>3
<1>7. \A n \in 0..15 : Rank(ins, n) \in 0..n => Rank(ins, n + 1) \in 0..(n + 1)
  BY <1>6
<1>8. \A n \in 0..16 : Rank(ins, n) \in 0..n
  <2>1. \A n \in 0..4 : Rank(ins, n) \in 0..n
    BY <1>5, <1>7
  <2>2. \A n \in 4..8 : Rank(ins, n) \in 0..n
    BY <2>1, <1>7
  <2>3. \A n \in 8..12 : Rank(ins, n) \in 0..n
    BY <2>2, <1>7
  <2>4. \A n \in 12..16 : Rank(ins, n) \in 0..n
    BY <2>3, <1>7
  <2> QED
    BY <2>1, <2>2, <2>3, <2>4
<1> QED
  BY <1>1, <1>4, <1>5, <1>6, <1>8

(* A word that is accepted is at the address of one word only.             *)
LEMMA AddressesApart ==
    ASSUME NEW x \in Word, NEW y \in Word, word_ok(AddressOf(x)), AddressOf(x) = AddressOf(y)
    PROVE  x = y
<1> DEFINE H(z) == {i \in 0..25 : i + 2 \in z}
           low(z) == ToNat(z \cap 0..1)
<1>0. \A z : low(z) \in 0..3 /\ ToNat(H(z)) \in Nat
  BY SmallNumbers, HalvesOf
<1>h. \A z, i : i \in H(z) <=> i \in 0..25 /\ i + 2 \in z
  OBVIOUS
<1>a. ASSUME NEW z \in Word
      PROVE  AddressOf(z) = IF z \subseteq 0..27 /\ 4 * ToNat(H(z)) < AddressSpace
                            THEN 4 * ToNat(H(z)) + low(z) ELSE AddressSpace - 4 + low(z)
  BY DEF AddressOf
<1>w. \A z \in Word : H(z) \in Word
  BY DEF Word, Bit
<1> HIDE DEF H
<1>1. ASSUME NEW z \in Word, word_ok(AddressOf(z))
      PROVE  z \subseteq 0..27 /\ low(z) = 0 /\ AddressOf(z) = 4 * ToNat(H(z))
  <2>1. PICK h \in Nat, l \in 0..3 : h = ToNat(H(z)) /\ l = low(z)
    <3> HIDE DEF low
    <3> QED
      BY <1>0
  <2>2. AddressOf(z) = IF z \subseteq 0..27 /\ 4 * h < AddressSpace
                       THEN 4 * h + l ELSE AddressSpace - 4 + l
    BY <1>a, <2>1
  <2>3. AddressOf(z) % 4 = 0 /\ AddressOf(z) + 3 < Size
    BY <1>1, AddressesAreTyped, WordInside DEF word_ok
  <2>4. AddressOf(z) # AddressSpace - 4 + l
    BY <2>3, MemoryAssumption
  <2>5. z \subseteq 0..27 /\ AddressOf(z) = 4 * h + l
    BY <2>2, <2>4
  <2>6. l = 0
    BY <2>3, <2>5
  <2> QED
    BY <2>1, <2>5, <2>6
<1>2. PICK a \in Nat, b \in Nat : a = ToNat(H(x)) /\ b = ToNat(H(y))
  BY <1>0
<1>3. /\ x \subseteq 0..27 /\ y \subseteq 0..27 /\ low(x) = low(y) /\ ToNat(H(x)) = ToNat(H(y))
  <2>1. 4 * a = 4 * b /\ x \subseteq 0..27 /\ y \subseteq 0..27 /\ low(x) = 0 /\ low(y) = 0
    BY <1>1, <1>2
  <2>2. a = b
    BY <2>1
  <2> QED
    BY <1>2, <2>1, <2>2
<1>4. H(x) = H(y) /\ x \cap 0..1 = y \cap 0..1
  <2>1. H(x) \in Word /\ H(y) \in Word /\ x \cap 0..1 \in Word /\ y \cap 0..1 \in Word
    BY <1>w DEF Word, Bit
  <2> QED
    BY <1>3, <2>1, NumbersOf, SMT DEF Turn
<1>5. ASSUME NEW i \in 0..27 PROVE i \in x <=> i \in y
  <2>1. CASE i < 2
    <3>1. i \in 0..1
      BY <2>1
    <3> QED
      BY <1>4, <3>1
  <2>2. CASE i >= 2
    <3>1. i - 2 \in 0..25 /\ (i - 2) + 2 = i
      BY <2>2
    <3>2. i - 2 \in H(x) <=> i - 2 \in H(y)
      BY <1>4
    <3> QED
      BY <1>h, <3>1, <3>2
  <2> QED
    BY <2>1, <2>2
<1> HIDE DEF low
<1> QED
  BY <1>3, <1>5

(* What a word is read from.                                               *)
LEMMA SameBytes ==
    ASSUME NEW m, NEW w, NEW a \in Address, w.big_endian = m.big_endian,
           \A i \in 0..3 : w.data[a + i] = m.data[a + i]
    PROVE  memory_read_word(w, a) = memory_read_word(m, a)
<1>1. ASSUME NEW i \in 0..3 PROVE Lane(w, 4, a, i) = Lane(m, 4, a, i)
  BY DEF Lane, LaneShift
<1>2. /\ Lane(w, 4, a, 0) = Lane(m, 4, a, 0) /\ Lane(w, 4, a, 1) = Lane(m, 4, a, 1)
      /\ Lane(w, 4, a, 2) = Lane(m, 4, a, 2) /\ Lane(w, 4, a, 3) = Lane(m, 4, a, 3)
  BY <1>1
<1>3. Load(w, a, 4) = Load(m, a, 4)
  BY <1>2, LoadIsLanes, Zenon
<1> QED
  BY <1>3 DEF memory_read_word

(* A word that is written is read back, and no byte elsewhere changes.     *)
LEMMA WordIsWritten ==
    ASSUME NEW m \in MemorySet, NEW a \in Address, word_ok(a), NEW v \in Word,
           NEW w, w = memory_write_word(m, a, v)
    PROVE  /\ w \in MemorySet /\ w.big_endian = m.big_endian /\ memory_read_word(w, a) = v
           /\ \A b \in 0..Size : b \notin a..(a + 3) => w.data[b] = m.data[b]
<1>1. w = Store(m, a, 4, v) /\ a + 3 < Size /\ a \in Nat
  BY WordInside, MemoryAssumption DEF memory_write_word, Address
<1>2. Store(m, a, 4, v) \in MemorySet
  BY StoreIsTyped
<1>3. Load(Store(m, a, 4, v), a, 4) = v
  BY <1>1, WordReadsBack
<1>4. 4 \in Nat /\ a + 4 - 1 = a + 3
  BY <1>1
<1>5. /\ Store(m, a, 4, v).big_endian = m.big_endian
      /\ \A b \in 0..Size \ a..(a + 4 - 1) : Store(m, a, 4, v).data[b] = m.data[b]
  <2> DEFINE In(c) == c \in a..(a + 4 - 1)
             byte(c) == {b \in 0..7 : b + LaneShift(m, 4, c - a) \in v}
             d == [c \in 0..Size |-> IF In(c) THEN byte(c) ELSE m.data[c]]
  <2>1. Store(m, a, 4, v).big_endian = m.big_endian /\ Store(m, a, 4, v).data = d
    BY DEF Store, MemorySet
  <2> HIDE DEF In, byte
  <2>2. \A b \in 0..Size : ~In(b) => d[b] = m.data[b]
    OBVIOUS
  <2> HIDE DEF d
  <2> QED
    BY <2>1, <2>2 DEF In
<1> QED
  BY <1>1, <1>2, <1>3, <1>4, <1>5 DEF memory_read_word

(* It leaves alone the words that are accepted at other addresses.         *)
LEMMA OtherWordsAreKept ==
    ASSUME NEW m \in MemorySet, NEW a \in Address, word_ok(a), NEW v \in Word,
           NEW w, w = memory_write_word(m, a, v), NEW b \in Address, word_ok(b), a # b
    PROVE  memory_read_word(w, b) = memory_read_word(m, b)
<1>1. a \in Nat /\ b \in Nat /\ b + 3 < Size /\ Size \in Nat
  BY WordInside, MemoryAssumption DEF Address
<1>2. a % 4 = 0 /\ b % 4 = 0
  BY DEF word_ok
<1>3. PICK c \in Nat, d \in Nat : a = 4 * c /\ b = 4 * d
  BY <1>1, <1>2
<1>4. \A i \in 0..3 : b + i \in 0..Size /\ b + i \notin a..(a + 3)
  BY <1>1, <1>3
<1>5. /\ w.big_endian = m.big_endian
      /\ \A e \in 0..Size : e \notin a..(a + 3) => w.data[e] = m.data[e]
  BY WordIsWritten
<1>6. \A i \in 0..3 : w.data[b + i] = m.data[b + i]
  BY <1>4, <1>5
<1> QED
  BY <1>5, <1>6, SameBytes

----------------------------------------------------------------------------
(* What the loop has done when it has come to register n, from the         *)
(* registers r and the memory m.                                           *)
Before(ins, n) == {j \in List(ins) : j < n}

PlaceOf(r, ins, n) == Place(arm_read_register(r, Rn(ins)), ins, n)

Progress(g, w, r, m, ins, n) ==
    /\ \A j \in Before(ins, n) : word_ok(PlaceOf(r, ins, j))
    /\ \A j \in 0..14 : read_register(g, j) =
         IF 20 \in ins /\ j \in Before(ins, n) THEN memory_read_word(m, PlaceOf(r, ins, j))
                                               ELSE read_register(r, j)
    /\ 20 \in ins => w = m
    /\ 20 \notin ins => g = r /\ \A j \in Before(ins, n) :
         memory_read_word(w, PlaceOf(r, ins, j)) = arm_read_register(r, j)
    /\ \A a \in 0..Size : Outside(a, {PlaceOf(r, ins, j) : j \in Before(ins, n)})
         => w.data[a] = m.data[a]

Stage(s, r, m, ins, n) ==
    /\ s \in Transferring
    /\ s.result = 0 =>
         /\ Progress(s.reg, s.mem, r, m, ins, n)
         /\ s.address = Moves(arm_read_register(r, Rn(ins)), ins,
                              Rank(ins, n) + (IF 24 \in ins THEN 1 ELSE 0))
    /\ s.result # 0 =>
         \E k \in List(ins) : ~word_ok(PlaceOf(r, ins, k)) /\ Progress(s.reg, s.mem, r, m, ins, k)

(* The registers before the next one.                                      *)
LEMMA NextBefore ==
    ASSUME NEW ins, NEW n \in 0..15
    PROVE  /\ n \in ins => n \in List(ins) /\ Before(ins, n + 1) = Before(ins, n) \cup {n}
           /\ n \notin ins => Before(ins, n + 1) = Before(ins, n)
           /\ n \notin Before(ins, n) /\ Before(ins, n) \subseteq 0..15
<1>1. \A j \in List(ins) : j < n + 1 <=> j < n \/ j = n
  BY DEF List
<1> QED
  BY <1>1 DEF Before, List

(* The place of a register is where no register before it is.              *)
LEMMA PlacesApart ==
    ASSUME NEW r \in RegistersSet, NEW ins \in Word, NEW n \in 0..15,
           NEW j \in Before(ins, n), word_ok(PlaceOf(r, ins, j))
    PROVE  PlaceOf(r, ins, j) # PlaceOf(r, ins, n)
<1> DEFINE base == arm_read_register(r, Rn(ins))
           pre  == IF 24 \in ins THEN 1 ELSE 0
           x == Moves(base, ins, Rank(ins, j) + pre)
           y == Moves(base, ins, Rank(ins, n) + pre)
<1>1. base \in Word
  BY RegisterFields, ReadsAreWords DEF Rn
<1>2. j \in 0..15 /\ j < n /\ j \in ins
  BY DEF Before, List
<1>3. Rank(ins, j) < Rank(ins, n) /\ Rank(ins, j) \in 0..15 /\ Rank(ins, n) \in 0..16
  <2> DEFINE R(i) == Rank(ins, i)
  <2>1. \A i \in 0..16 : R(i) \in 0..i
    BY Ranks
  <2>2. \A i \in 0..15 : R(i + 1) = R(i) + (IF i \in ins THEN 1 ELSE 0)
    BY Ranks
  <2> HIDE DEF R
  <2>3. R(j) + 1 = R(j + 1)
    BY <1>2, <2>1, <2>2
  <2>4. \A i \in 0..15 : R(i) <= R(i + 1) /\ R(i) \in Int /\ R(i + 1) \in Int
    BY <2>1, <2>2
  <2>5. \A k \in 0..16 : \A i \in 0..16 : i <= k => R(i) <= R(k)
    <3> DEFINE P(k) == \A i \in 0..16 : i <= k => R(i) <= R(k)
    <3>1. P(0)
      BY <2>1
    <3>2. ASSUME NEW k \in 0..15, P(k) PROVE P(k + 1)
      <4> SUFFICES ASSUME NEW i \in 0..16, i <= k + 1 PROVE R(i) <= R(k + 1)
        OBVIOUS
      <4>1. i = k + 1 \/ i <= k
        OBVIOUS
      <4>2. R(i) \in Int /\ R(k) \in Int /\ R(k + 1) \in Int /\ R(k) <= R(k + 1)
        BY <2>1, <2>4
      <4> QED
        BY <3>2, <4>1, <4>2
    <3> HIDE DEF P
    <3>3. P(0) /\ P(1) /\ P(2) /\ P(3) /\ P(4) /\ P(5) /\ P(6) /\ P(7) /\ P(8)
      BY <3>1, <3>2
    <3>4. P(9) /\ P(10) /\ P(11) /\ P(12) /\ P(13) /\ P(14) /\ P(15) /\ P(16)
      BY <3>2, <3>3
    <3>5. \A k \in 0..16 : P(k)
      BY <3>3, <3>4
    <3> QED
      BY <3>5 DEF P
  <2>6. R(j + 1) <= R(n)
    BY <1>2, <2>5
  <2>7. R(j) < R(n) /\ R(j) \in 0..15 /\ R(n) \in 0..16
    BY <1>2, <2>1, <2>3, <2>6
  <2> QED
    BY <2>7 DEF R
<1>4. PlaceOf(r, ins, j) = AddressOf(x) /\ PlaceOf(r, ins, n) = AddressOf(y)
  BY DEF PlaceOf, Place
<1>5. PICK c \in 0..16, d \in 0..17 :
        c = Rank(ins, j) + pre /\ d = Rank(ins, n) + pre /\ c # d
  BY <1>3
<1>6. x \in Word /\ y \in Word /\ x # y
  <2>1. Moves(base, ins, c) \in Word /\ (Moves(base, ins, c) = Moves(base, ins, d) => c = d)
    BY <1>1, MovesAreSteps
  <2>2. Moves(base, ins, d) \in Word
    BY MovedIsWord DEF Moves
  <2> QED
    BY <1>5, <2>1, <2>2
<1> HIDE DEF x, y
<1> QED
  BY <1>4, <1>6, AddressesApart

(* One more register is loaded.                                            *)
LEMMA LoadProgress ==
    ASSUME NEW r \in RegistersSet, NEW m \in MemorySet, NEW ins \in Word, NEW n \in 0..15,
           NEW g \in RegistersSet, Progress(g, m, r, m, ins, n), n \in ins, 20 \in ins,
           word_ok(PlaceOf(r, ins, n)), NEW v, NEW h, h = write_register(g, n, v),
           n # 15 => v = memory_read_word(m, PlaceOf(r, ins, n))
    PROVE  Progress(h, m, r, m, ins, n + 1)
<1> DEFINE B == Before(ins, n)
           P(j) == PlaceOf(r, ins, j)
<1>1. Before(ins, n + 1) = B \cup {n} /\ n \notin B
  BY NextBefore
<1>2. /\ \A j \in B : word_ok(P(j))
      /\ \A j \in 0..14 : read_register(g, j) =
           IF j \in B THEN memory_read_word(m, P(j)) ELSE read_register(r, j)
  BY DEF Progress
<1> HIDE DEF B, P
<1>3. \A j \in B \cup {n} : word_ok(P(j))
  BY <1>2 DEF P
<1>4. ASSUME NEW j \in 0..14
      PROVE  read_register(h, j) =
               IF j \in B \cup {n} THEN memory_read_word(m, P(j)) ELSE read_register(r, j)
  <2>1. read_register(h, j) = IF j = n THEN v ELSE read_register(g, j)
    <3>1. j \in 0..15
      OBVIOUS
    <3> QED
      BY <3>1, ReadAfterWrite
  <2>2. CASE j = n
    <3>1. n # 15
      BY <2>2
    <3> QED
      BY <2>1, <2>2, <3>1 DEF P
  <2>3. CASE j # n
    BY <1>2, <2>1, <2>3
  <2> QED
    BY <2>2, <2>3
<1> QED
  BY <1>1, <1>3, <1>4 DEF Progress, P

(* One more register is stored.                                            *)
LEMMA StoreProgress ==
    ASSUME NEW r \in RegistersSet, NEW m \in MemorySet, NEW ins \in Word, NEW n \in 0..15,
           NEW w \in MemorySet, Progress(r, w, r, m, ins, n), n \in ins, 20 \notin ins,
           word_ok(PlaceOf(r, ins, n)), NEW x,
           x = memory_write_word(w, PlaceOf(r, ins, n), arm_read_register(r, n))
    PROVE  Progress(r, x, r, m, ins, n + 1)
<1> DEFINE B == Before(ins, n)
           P(j) == PlaceOf(r, ins, j)
           v == arm_read_register(r, n)
<1>0. v \in Word /\ \A j : P(j) \in Address
  BY ReadsAreWords, AddressesAreTyped DEF PlaceOf, Place
<1>1. Before(ins, n + 1) = B \cup {n} /\ n \notin B
  BY NextBefore
<1>2. /\ \A j \in B : word_ok(P(j)) /\ memory_read_word(w, P(j)) = arm_read_register(r, j)
      /\ \A a \in 0..Size : Outside(a, {P(j) : j \in B}) => w.data[a] = m.data[a]
  BY DEF Progress
<1>3. \A j \in B : P(j) # P(n)
  BY <1>2, PlacesApart
<1>4. /\ memory_read_word(x, P(n)) = v
      /\ \A a \in 0..Size : a \notin P(n)..(P(n) + 3) => x.data[a] = w.data[a]
  BY <1>0, WordIsWritten
<1>5. \A j \in B : memory_read_word(x, P(j)) = memory_read_word(w, P(j))
  BY <1>0, <1>2, <1>3, OtherWordsAreKept
<1> HIDE DEF B, P, v
<1>6. \A j \in B \cup {n} :
        word_ok(P(j)) /\ memory_read_word(x, P(j)) = arm_read_register(r, j)
  <2>1. word_ok(P(n)) /\ memory_read_word(x, P(n)) = arm_read_register(r, n)
    BY <1>4 DEF P, v
  <2> QED
    BY <1>2, <1>5, <2>1
<1>7. ASSUME NEW a \in 0..Size, Outside(a, {P(j) : j \in B \cup {n}})
      PROVE  x.data[a] = m.data[a]
  <2>1. Outside(a, {P(j) : j \in B}) /\ a \notin P(n)..(P(n) + 3)
    BY <1>7 DEF Outside
  <2> QED
    BY <1>2, <1>4, <2>1
<1>8. \A j \in 0..14 : read_register(r, j) = IF 20 \in ins /\ j \in B \cup {n}
                            THEN memory_read_word(m, P(j)) ELSE read_register(r, j)
  OBVIOUS
<1> QED
  BY <1>1, <1>6, <1>7, <1>8 DEF Progress, P

(* One turn of the loop.                                                   *)
LEMMA StageStep ==
    ASSUME NEW r \in RegistersSet, NEW m \in MemorySet, NEW ins \in Word, NEW n \in 0..15,
           NEW s, Stage(s, r, m, ins, n), NEW t, t = TransferRegister(s, ins, n)
    PROVE  Stage(t, r, m, ins, n + 1)
<1> DEFINE a     == AddressOf(s.address)
           value == memory_read_word(s.mem, a)
           v     == IF n = 15 THEN value \ {0} ELSE value
           next  == Moved(s.address, Four, 23 \in ins)
           g     == write_register(s.reg, n, v)
           x     == memory_write_word(s.mem, a, arm_read_register(s.reg, n))
           base  == arm_read_register(r, Rn(ins))
           pre   == IF 24 \in ins THEN 1 ELSE 0
<1>0. s \in Transferring /\ t \in Transferring
  BY TransferIsTyped DEF Stage
<1>1. CASE s.result # 0
  <2>1. t = s
    BY <1>1 DEF TransferRegister
  <2> QED
    BY <1>1, <2>1 DEF Stage
<1>2. CASE s.result = 0
  <2>1. Progress(s.reg, s.mem, r, m, ins, n) /\ s.address = Moves(base, ins, Rank(ins, n) + pre)
    BY <1>2 DEF Stage
  <2>2. a = PlaceOf(r, ins, n)
    BY <2>1 DEF PlaceOf, Place
  <2>3. CASE n \notin ins
    <3>1. t = s
      BY <2>3 DEF TransferRegister
    <3>2. Before(ins, n + 1) = Before(ins, n)
      BY <2>3, NextBefore
    <3>3. Rank(ins, n + 1) = Rank(ins, n)
      <4>1. Rank(ins, n + 1) = Rank(ins, n) + (IF n \in ins THEN 1 ELSE 0) /\ Rank(ins, n) \in 0..n
        BY Ranks
      <4> QED
        BY <2>3, <4>1
    <3>4. Progress(s.reg, s.mem, r, m, ins, n + 1)
      BY <2>1, <3>2 DEF Progress
    <3> QED
      BY <1>0, <1>2, <2>1, <3>1, <3>3, <3>4 DEF Stage
  <2>4. CASE n \in ins
    <3>0. n \in List(ins)
      BY <2>4, NextBefore
    <3>1. t = IF ~word_ok(a) THEN [s EXCEPT !.result = DATA_ABORT]
              ELSE IF 20 \in ins THEN [s EXCEPT !.address = next, !.reg = g]
              ELSE [s EXCEPT !.address = next, !.mem = x]
      BY <1>2, <2>4 DEF TransferRegister
    <3> HIDE DEF a, value, v, next, g, x
    <3>2. CASE ~word_ok(a)
      <4>1. t.reg = s.reg /\ t.mem = s.mem /\ t.result = DATA_ABORT
        BY <1>0, <3>1, <3>2 DEF Transferring
      <4>2. t.result # 0
        BY <4>1 DEF DATA_ABORT
      <4>3. ~word_ok(PlaceOf(r, ins, n)) /\ Progress(t.reg, t.mem, r, m, ins, n)
        BY <2>1, <2>2, <3>2, <4>1
      <4> QED
        BY <1>0, <3>0, <4>2, <4>3 DEF Stage
    <3>3. CASE word_ok(a)
      <4>1. next = Moves(base, ins, Rank(ins, n + 1) + pre)
        <5>1. base \in Word
          BY RegisterFields, ReadsAreWords DEF Rn
        <5>2. Rank(ins, n + 1) = Rank(ins, n) + 1 /\ Rank(ins, n) \in 0..n
          BY <2>4, Ranks
        <5>3. PICK c \in 0..16 : c = Rank(ins, n) + pre /\ c + 1 = Rank(ins, n + 1) + pre
          BY <5>2
        <5>4. Moved(Moves(base, ins, c), Four, 23 \in ins) = Moves(base, ins, c + 1)
          BY <5>1, MovesAreSteps
        <5> QED
          BY <2>1, <5>3, <5>4 DEF next
      <4>2. s.reg \in RegistersSet /\ s.mem \in MemorySet
        BY <1>0 DEF Transferring
      <4>3. CASE 20 \in ins
        <5>1. t.reg = g /\ t.mem = s.mem /\ t.result = 0 /\ t.address = next
          BY <1>0, <1>2, <3>1, <3>3, <4>3 DEF Transferring
        <5>2. s.mem = m
          BY <2>1, <4>3 DEF Progress
        <5>3. n # 15 => v = memory_read_word(m, PlaceOf(r, ins, n))
          BY <2>2, <5>2 DEF v, value
        <5>4. g = write_register(s.reg, n, v)
          BY DEF g
        <5>5. Progress(g, m, r, m, ins, n + 1)
          BY <2>1, <2>2, <2>4, <3>3, <4>2, <4>3, <5>2, <5>3, <5>4, LoadProgress
        <5> QED
          BY <1>0, <4>1, <5>1, <5>2, <5>5 DEF Stage
      <4>4. CASE 20 \notin ins
        <5>1. t.reg = s.reg /\ t.mem = x /\ t.result = 0 /\ t.address = next
          BY <1>0, <1>2, <3>1, <3>3, <4>4 DEF Transferring
        <5>2. s.reg = r
          BY <2>1, <4>4 DEF Progress
        <5>3. x = memory_write_word(s.mem, PlaceOf(r, ins, n), arm_read_register(r, n))
          BY <2>2, <5>2 DEF x
        <5>4. Progress(r, x, r, m, ins, n + 1)
          BY <2>1, <2>2, <2>4, <3>3, <4>2, <4>4, <5>2, <5>3, StoreProgress
        <5> QED
          BY <1>0, <4>1, <5>1, <5>2, <5>4 DEF Stage
      <4> QED
        BY <4>3, <4>4
    <3> QED
      BY <3>2, <3>3
  <2> QED
    BY <2>3, <2>4
<1> QED
  BY <1>1, <1>2

(* The whole of LDM and STM: either all of the list is done and the base   *)
(* is written back if the instruction says so, or the loop has stopped at  *)
(* a place that is not accepted.                                           *)
LEMMA MultipleOutcome ==
    ASSUME NEW r \in RegistersSet, NEW m \in MemorySet, NEW ins \in Word, 22 \notin ins,
           NEW o, o = arm_load_store_multiple([reg |-> r, mem |-> m], ins)
    PROVE  \/ /\ o.result = DATA_ABORT
              /\ \E k \in List(ins) :
                   ~word_ok(PlaceOf(r, ins, k)) /\ Progress(o.reg, o.mem, r, m, ins, k)
           \/ /\ o.result = 0
              /\ \E g \in RegistersSet :
                   /\ Progress(g, o.mem, r, m, ins, 16)
                   /\ o.reg = IF 21 \in ins
                              THEN write_register(g, Rn(ins), Moves(arm_read_register(r, Rn(ins)), ins,
                                                                    Cardinality(List(ins))))
                              ELSE g
<1> DEFINE rn    == get_bits(ins, 19, 16)
           base  == arm_read_register(r, rn)
           pre   == IF 24 \in ins THEN 1 ELSE 0
           start == [reg |-> r, mem |-> m, result |-> 0,
                     address |-> IF 24 \in ins THEN Moved(base, Four, 23 \in ins) ELSE base]
           T     == Transfers(start, ins)
           done  == T[16]
           final == IF 24 \in ins THEN Moved(done.address, Four, ~(23 \in ins)) ELSE done.address
           S(n)  == Stage(T[n], r, m, ins, n)
<1>1. rn \in 0..15 /\ base \in Word /\ rn = Rn(ins)
  BY RegisterFields, ReadsAreWords DEF Rn
<1>2. Rank(ins, 0) = 0 /\ Rank(ins, 16) = Cardinality(List(ins)) /\ Rank(ins, 16) \in 0..16
  BY Ranks
<1>3. /\ Moves(base, ins, 0) = base
      /\ Moved(Moves(base, ins, 0), Four, 23 \in ins) = Moves(base, ins, 1)
  <2>1. 0 \in 0..16 /\ 0 + 1 = 1
    OBVIOUS
  <2> QED
    BY <1>1, <2>1, MovesAreSteps
<1>4. Stage(start, r, m, ins, 0)
  <2>1. start \in Transferring
    BY <1>1, MovedIsWord DEF Transferring
  <2>2. start.address = Moves(base, ins, Rank(ins, 0) + pre)
    <3>1. 0 + 0 = 0 /\ 0 + 1 = 1
      OBVIOUS
    <3>2. Moved(base, Four, 23 \in ins) = Moves(base, ins, 1)
      BY <1>3, Zenon
    <3> QED
      BY <1>2, <1>3, <3>1, <3>2
  <2>3. Before(ins, 0) = {}
    BY DEF Before, List
  <2>4. Progress(r, m, r, m, ins, 0)
    BY <2>3 DEF Progress
  <2>5. start.result = 0 /\ start.reg = r /\ start.mem = m
    OBVIOUS
  <2> HIDE DEF start
  <2> QED
    BY <1>1, <2>1, <2>2, <2>4, <2>5 DEF Stage
<1>5. T[0] = start /\ \A n \in 0..15 : T[n + 1] = TransferRegister(T[n], ins, n)
  BY TransferSteps
<1>6. arm_load_store_multiple([reg |-> r, mem |-> m], ins) =
        IF 22 \in ins THEN Outcome(r, m, UNDEFINED_INSTRUCTION)
        ELSE IF done.result # 0 THEN Outcome(done.reg, done.mem, DATA_ABORT)
        ELSE IF 21 \in ins THEN Outcome(write_register(done.reg, rn, final), done.mem, 0)
        ELSE Outcome(done.reg, done.mem, 0)
  BY DEF arm_load_store_multiple
<1> HIDE DEF T, start
<1>7. \A n \in 0..15 : S(n) => S(n + 1)
  BY <1>5, StageStep
<1>8. S(0)
  BY <1>4, <1>5
<1> HIDE DEF S
<1>9. S(4)
  BY <1>7, <1>8
<1>10. S(8)
  BY <1>7, <1>9
<1>11. S(12)
  BY <1>7, <1>10
<1>12. S(16)
  BY <1>7, <1>11
<1>13. Stage(done, r, m, ins, 16)
  BY <1>12 DEF S
<1>14. done.reg \in RegistersSet
  BY <1>13 DEF Stage, Transferring
<1> HIDE DEF done
<1>15. CASE done.result # 0
  <2>1. o.result = DATA_ABORT /\ o.reg = done.reg /\ o.mem = done.mem
    BY <1>6, <1>15 DEF Outcome
  <2> QED
    BY <1>13, <1>15, <2>1 DEF Stage
<1>16. CASE done.result = 0
  <2>1. /\ Progress(done.reg, done.mem, r, m, ins, 16)
        /\ done.address = Moves(base, ins, Rank(ins, 16) + pre)
    BY <1>1, <1>13, <1>16 DEF Stage
  <2>2. final = Moves(base, ins, Cardinality(List(ins)))
    <3>1. PICK c \in 0..16 : c = Rank(ins, 16)
      BY <1>2
    <3>2. Moved(Moves(base, ins, c + 1), Four, ~(23 \in ins)) = Moves(base, ins, c)
      BY <1>1, MovesAreSteps
    <3>3. CASE 24 \in ins
      <4>1. done.address = Moves(base, ins, c + 1)
        BY <2>1, <3>1, <3>3
      <4> QED
        BY <1>2, <3>1, <3>2, <3>3, <4>1, Zenon
    <3>4. CASE 24 \notin ins
      <4>1. Rank(ins, 16) + pre = c
        BY <3>1, <3>4
      <4> QED
        BY <1>2, <2>1, <3>1, <3>4, <4>1
    <3> QED
      BY <3>3, <3>4
  <2> HIDE DEF final
  <2>3. /\ o.result = 0 /\ o.mem = done.mem
        /\ o.reg = IF 21 \in ins THEN write_register(done.reg, rn, final) ELSE done.reg
    BY <1>6, <1>16 DEF Outcome
  <2> QED
    BY <1>1, <1>14, <2>1, <2>2, <2>3
<1> QED
  BY <1>15, <1>16

(* No other test of arm_execute_instruction accepts LDM or STM.            *)
LEMMA MultipleIsAlone ==
    ASSUME NEW ins, IsMultiple(ins)
    PROVE  ~IsTransfer(ins) /\ ~IsBranch(ins) /\ ~IsData(ins) /\ ~IsMisc(ins) /\ ~IsSwi(ins)
<1> DEFINE bit(i) == i \in ins
           one(i) == IF bit(i) THEN 1 ELSE 0
           two(i) == IF bit(i) THEN 2 ELSE 0
           four(i) == IF bit(i) THEN 4 ELSE 0
           eight(i) == IF bit(i) THEN 8 ELSE 0
<1>1. 27 = 25 + 2 /\ 27 = 26 + 1 /\ 27 = 24 + 3 /\ 26 = 25 + 1 /\ 25 = 24 + 1 /\ 26 = 24 + 2
  OBVIOUS
<1>2. /\ get_bits(ins, 27, 25) = one(25) + two(26) + four(27)
      /\ get_bits(ins, 27, 26) = one(26) + two(27)
      /\ get_bits(ins, 27, 24) = Digit(ins, 24)
  BY <1>1, FieldBits
<1>3. Digit(ins, 24) = one(24) + two(25) + four(26) + eight(27)
  BY <1>1 DEF Digit
<1>4. ~bit(25) /\ ~bit(26) /\ bit(27)
  BY <1>2 DEF IsMultiple
<1>5. get_bits(ins, 27, 26) # 0 /\ get_bits(ins, 27, 24) # 15
  BY <1>2, <1>3, <1>4
<1>6. get_bits(ins, 27, 23) # 2
  <2> DEFINE x == {i \in 0..4 : i + 23 \in ins}
  <2>1. get_bits(ins, 27, 23) = ToNat(x)
    <3>1. 27 - 23 = 4
      OBVIOUS
    <3> QED
      BY <3>1 DEF get_bits
  <2>2. x \subseteq 0..4 /\ 4 \in x
    BY <1>4
  <2> HIDE DEF x
  <2>3. Digit(x, 4) = 1 /\ \A l \in {8, 12, 16, 20, 24, 28} : Digit(x, l) = 0
    BY <2>2 DEF Digit
  <2>4. PICK d \in 0..15 : d = Digit(x, 0)
    BY DigitRange
  <2>5. ToNat(x) = d + 16
    BY <2>3, <2>4 DEF ToNat
  <2> QED
    BY <2>1, <2>5
<1> QED
  BY <1>5, <1>6 DEF IsMultiple, IsBranch, IsData, IsTransfer, IsHalfTransfer, IsMisc, IsSwi

(* The step of an LDM or STM that is executed.                             *)
LEMMA MultipleStep ==
    ASSUME ProcessorTypeOK, Next, FetchOk(reg), NEW ins \in Opcodes(reg, mem),
           inst_cond(Fetched(reg), ins), IsMultiple(ins),
           NEW r, r = Fetched(reg)
    PROVE  /\ r \in RegistersSet /\ mem \in MemorySet /\ ins \in Word
           /\ \E o : /\ o = arm_load_store_multiple([reg |-> r, mem |-> mem], ins)
                     /\ reg' = o.reg /\ mem' = o.mem /\ result' = o.result
<1>1. r \in RegistersSet /\ mem \in MemorySet
  BY FetchIsTyped DEF ProcessorTypeOK
<1>2. ins \in Word /\ \A i \in Opcodes(reg, mem) : i = ins
  BY OpcodesAreWords DEF Opcodes, ProcessorTypeOK
<1>3. LoadStoreMultiple(ins)
  BY <1>2, MultipleIsAlone
  DEF Next, ConditionFails, LoadStore, Branch, Miscellaneous, Swi, DataProcessing, Unrecognised
<1> DEFINE o == arm_load_store_multiple([reg |-> r, mem |-> mem], ins)
<1>4. arm_step(o)
  BY <1>3 DEF LoadStoreMultiple
<1>5. o.result # RESET
  BY DEF arm_load_store_multiple, Outcome, RESET, DATA_ABORT, UNDEFINED_INSTRUCTION
<1> HIDE DEF o
<1>6. reg' = o.reg /\ mem' = o.mem /\ result' = o.result
  BY <1>4, <1>5, StepHasOutcome
<1> QED
  BY <1>1, <1>2, <1>6 DEF o

(* LDM and STM move each register of their list to or from its place,      *)
(* touch nothing else and leave the base where it is expected.             *)
THEOREM MultipleIsLaidOut == Spec => MultipleLayout
<1> DEFINE Laid(r, ins) == MultipleDone(ins) =>
             LET base  == arm_read_register(r, Rn(ins))
                 at(n) == Place(base, ins, n)
                 back  == IF 21 \in ins THEN {Rn(ins)} ELSE {}
             IN  /\ 20 \notin ins => \A n \in List(ins) :
                      memory_read_word(mem', at(n)) = arm_read_register(r, n)
                 /\ 20 \in ins => \A n \in List(ins) \ (back \cup {15}) :
                      read_register(reg', n) = memory_read_word(mem, at(n))
                 /\ \A a \in 0..Size : 20 \in ins \/ Outside(a, {at(n) : n \in List(ins)})
                       => mem'.data[a] = mem.data[a]
                 /\ \A n \in back \ {15} :
                      read_register(reg', n) = Moves(base, ins, Cardinality(List(ins)))
           A == FetchOk(reg) => \A ins \in Opcodes(reg, mem) :
                  inst_cond(Fetched(reg), ins) => Laid(Fetched(reg), ins)
<1>1. ProcessorTypeOK /\ Next => A
  <2> SUFFICES ASSUME ProcessorTypeOK, Next, FetchOk(reg), NEW ins \in Opcodes(reg, mem),
                      inst_cond(Fetched(reg), ins), MultipleDone(ins)
               PROVE  Laid(Fetched(reg), ins)
    OBVIOUS
  <2>1. PICK r : r = Fetched(reg)
    OBVIOUS
  <2> DEFINE base  == arm_read_register(r, Rn(ins))
             at(n) == Place(base, ins, n)
             back  == IF 21 \in ins THEN {Rn(ins)} ELSE {}
             final == Moves(base, ins, Cardinality(List(ins)))
  <2>2. IsMultiple(ins) /\ 22 \notin ins /\ result' = 0
    BY DEF MultipleDone
  <2>3. /\ r \in RegistersSet /\ mem \in MemorySet /\ ins \in Word
        /\ \E o : /\ o = arm_load_store_multiple([reg |-> r, mem |-> mem], ins)
                  /\ reg' = o.reg /\ mem' = o.mem /\ result' = o.result
    BY <2>1, <2>2, MultipleStep
  <2>4. PICK o : /\ o = arm_load_store_multiple([reg |-> r, mem |-> mem], ins)
                 /\ reg' = o.reg /\ mem' = o.mem /\ result' = o.result
    BY <2>3
  <2>5. o.result # DATA_ABORT
    BY <2>2, <2>4 DEF DATA_ABORT
  <2>6. PICK g \in RegistersSet :
          /\ Progress(g, o.mem, r, mem, ins, 16)
          /\ o.reg = IF 21 \in ins THEN write_register(g, Rn(ins), final) ELSE g
    BY <2>2, <2>3, <2>4, <2>5, MultipleOutcome
  <2>7. Before(ins, 16) = List(ins) /\ List(ins) \subseteq 0..15
    BY DEF Before, List
  <2>8. /\ \A j \in 0..14 : read_register(g, j) =
             IF 20 \in ins /\ j \in List(ins) THEN memory_read_word(mem, at(j))
                                              ELSE read_register(r, j)
        /\ 20 \in ins => o.mem = mem
        /\ 20 \notin ins => \A j \in List(ins) :
             memory_read_word(o.mem, at(j)) = arm_read_register(r, j)
        /\ \A a \in 0..Size : Outside(a, {at(j) : j \in List(ins)}) => o.mem.data[a] = mem.data[a]
    BY <2>6, <2>7 DEF Progress, PlaceOf
  <2>9. Rn(ins) \in 0..15
    BY <2>3, RegisterFields DEF Rn
  <2> HIDE DEF at, final
  <2>10. ASSUME NEW n \in 0..15
         PROVE  read_register(reg', n) = IF n \in back THEN final ELSE read_register(g, n)
    BY <2>4, <2>6, <2>9, ReadAfterWrite
  <2>11. ASSUME 20 \in ins, NEW n \in List(ins) \ (back \cup {15})
         PROVE  read_register(reg', n) = memory_read_word(mem, at(n))
    <3>1. n \in 0..14 /\ n \in 0..15 /\ n \notin back /\ n \in List(ins)
      BY <2>7
    <3> HIDE DEF back
    <3> QED
      BY <2>8, <2>10, <2>11, <3>1
  <2>12. ASSUME NEW n \in back \ {15} PROVE read_register(reg', n) = final
    BY <2>9, <2>10
  <2>13. ASSUME NEW a \in 0..Size, 20 \in ins \/ Outside(a, {at(n) : n \in List(ins)})
         PROVE  mem'.data[a] = mem.data[a]
    BY <2>4, <2>8, <2>13
  <2>14. 20 \notin ins => \A n \in List(ins) : memory_read_word(mem', at(n)) = arm_read_register(r, n)
    BY <2>4, <2>8
  <2> QED
    BY <2>1, <2>11, <2>12, <2>13, <2>14 DEF at, final
<1>2. ProcessorTypeOK /\ [Next]_vars => [A]_vars
  BY <1>1
<1>3. [][A]_vars => MultipleLayout
  BY PTL DEF MultipleLayout, Executes
<1> QED
  BY <1>2, <1>3, ProcessorTypeCorrect, PTL DEF Spec

(* An LDM or STM that aborts has met the first illegal place of its list   *)
(* and has moved exactly the registers before it.                          *)
THEOREM AbortedIsPrefix == Spec => AbortedMultipleIsPrefix
<1> DEFINE Prefix(r, ins) == IsMultiple(ins) /\ result' = DATA_ABORT =>
             LET base  == arm_read_register(r, Rn(ins))
                 at(n) == Place(base, ins, n)
             IN  \E k \in List(ins) :
                   LET moved == {n \in List(ins) : n < k}
                   IN  /\ ~word_ok(at(k)) /\ \A n \in moved : word_ok(at(n))
                       /\ \A n \in 0..14 : read_register(reg', n) =
                            IF 20 \in ins /\ n \in moved THEN memory_read_word(mem, at(n))
                                                         ELSE read_register(r, n)
                       /\ 20 \notin ins => \A n \in moved :
                            memory_read_word(mem', at(n)) = arm_read_register(r, n)
                       /\ \A a \in 0..Size : 20 \in ins \/ Outside(a, {at(n) : n \in moved})
                             => mem'.data[a] = mem.data[a]
           A == FetchOk(reg) => \A ins \in Opcodes(reg, mem) :
                  inst_cond(Fetched(reg), ins) => Prefix(Fetched(reg), ins)
<1>1. ProcessorTypeOK /\ Next => A
  <2> SUFFICES ASSUME ProcessorTypeOK, Next, FetchOk(reg), NEW ins \in Opcodes(reg, mem),
                      inst_cond(Fetched(reg), ins), IsMultiple(ins), result' = DATA_ABORT
               PROVE  Prefix(Fetched(reg), ins)
    OBVIOUS
  <2>1. PICK r : r = Fetched(reg)
    OBVIOUS
  <2> DEFINE base  == arm_read_register(r, Rn(ins))
             at(n) == Place(base, ins, n)
  <2>2. /\ r \in RegistersSet /\ mem \in MemorySet /\ ins \in Word
        /\ \E o : /\ o = arm_load_store_multiple([reg |-> r, mem |-> mem], ins)
                  /\ reg' = o.reg /\ mem' = o.mem /\ result' = o.result
    BY <2>1, MultipleStep
  <2>3. PICK o : /\ o = arm_load_store_multiple([reg |-> r, mem |-> mem], ins)
                 /\ reg' = o.reg /\ mem' = o.mem /\ result' = o.result
    BY <2>2
  <2>4. 22 \notin ins
    BY <2>3 DEF arm_load_store_multiple, Outcome, UNDEFINED_INSTRUCTION, DATA_ABORT
  <2>5. o.result # 0
    BY <2>3 DEF DATA_ABORT
  <2>6. PICK k \in List(ins) :
          ~word_ok(PlaceOf(r, ins, k)) /\ Progress(o.reg, o.mem, r, mem, ins, k)
    BY <2>2, <2>3, <2>4, <2>5, MultipleOutcome
  <2> DEFINE moved == {n \in List(ins) : n < k}
  <2>7. /\ ~word_ok(at(k)) /\ \A n \in moved : word_ok(at(n))
        /\ \A j \in 0..14 : read_register(o.reg, j) =
             IF 20 \in ins /\ j \in moved THEN memory_read_word(mem, at(j))
                                          ELSE read_register(r, j)
        /\ 20 \in ins => o.mem = mem
        /\ 20 \notin ins => \A j \in moved :
             memory_read_word(o.mem, at(j)) = arm_read_register(r, j)
        /\ \A a \in 0..Size : Outside(a, {at(j) : j \in moved}) => o.mem.data[a] = mem.data[a]
    BY <2>6 DEF Progress, PlaceOf, Before
  <2> HIDE DEF at, moved
  <2>8. ASSUME NEW a \in 0..Size, 20 \in ins \/ Outside(a, {at(n) : n \in moved})
        PROVE  mem'.data[a] = mem.data[a]
    BY <2>3, <2>7, <2>8
  <2>9. /\ \A n \in 0..14 : read_register(reg', n) =
             IF 20 \in ins /\ n \in moved THEN memory_read_word(mem, at(n))
                                          ELSE read_register(r, n)
        /\ 20 \notin ins => \A n \in moved :
             memory_read_word(mem', at(n)) = arm_read_register(r, n)
    BY <2>3, <2>7
  <2> QED
    BY <2>1, <2>6, <2>7, <2>8, <2>9 DEF at, moved
<1>2. ProcessorTypeOK /\ [Next]_vars => [A]_vars
  BY <1>1
<1>3. [][A]_vars => AbortedMultipleIsPrefix
  BY PTL DEF AbortedMultipleIsPrefix, Executes
<1> QED
  BY <1>2, <1>3, ProcessorTypeCorrect, PTL DEF Spec
============================================================================
