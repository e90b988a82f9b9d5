-------------------------- MODULE SimulatorProofs --------------------------
(***************************************************************************)
(* The threads of arm_simulator.c, for every program, every sequence of    *)
(* packets and every number of exceptions: who holds the mutex, and what   *)
(* that protects.                                                          *)
(***************************************************************************)
EXTENDS Simulator, ProcessorProofs, SequenceTheorems, FiniteSetTheorems

(* The places of a thread at which its code is between the lock and the    *)
(* unlock of the mutex.                                                    *)
GdbInside == {"handle", "cont", "step", "stop"}

Places ==
    /\ gdb \in {"scan", "lock", "exited"} \cup GdbInside
    /\ irq \in {"accept", "read", "lock", "deliver"}
    /\ lock \in {"free", "gdb", "irq"}

(* The mutex is held by the thread that is inside, and by no other.        *)
Holder == (lock = "gdb" <=> gdb \in GdbInside) /\ (lock = "irq" <=> irq = "deliver")

(* What cont saw is still what it is about to execute.                     *)
Seen ==
    gdb = "step" /\ ~ended /\ FetchOk(reg) =>
        /\ instruction = memory_read_word(mem, AddressOf(FetchAddress(reg)))
        /\ ~IsBreakpoint(instruction)

LockInv == Places /\ Holder /\ Seen

----------------------------------------------------------------------------
(* At the start no thread is inside the lock.                              *)
LEMMA LockInit == SimInit => LockInv
BY DEF SimInit, LockInv, Places, Holder, Seen, GdbInside

(* gdb and send_irq touch nothing of the process.                          *)
LEMMA EnvironmentKeeps == ASSUME LockInv, Environment PROVE LockInv'
<1>1. UNCHANGED <<reg, mem, instruction, gdb, irq, lock, ended>>
  BY DEF Environment, ClientSends, SendIrq, vars, gdbVars
<1> QED
  BY <1>1 DEF LockInv, Places, Holder, Seen

(* The scanner works without the mutex, and the processor stays alone.     *)
LEMMA ScannerKeeps ==
    ASSUME LockInv, NEW t, Scan(t), gdb' \in {"scan", "lock", "exited"}
    PROVE  LockInv'
<1>1. UNCHANGED <<irq, lock>> /\ gdb = "scan"
  BY DEF Scan
<1> QED
  BY <1>1 DEF LockInv, Places, Holder, Seen, GdbInside

(* A handler that answers releases the mutex that it holds.                *)
LEMMA AnswerKeeps ==
    ASSUME LockInv, gdb \in GdbInside, NEW reply, Answer(reply)
    PROVE  LockInv'
<1>1. gdb' = "scan" /\ lock' = "free" /\ irq' = irq
  BY DEF Answer
<1> QED
  BY <1>1 DEF LockInv, Places, Holder, Seen, GdbInside

(* The process ends inside the handler.                                    *)
LEMMA EndKeeps ==
    ASSUME LockInv, ended' = TRUE, UNCHANGED <<gdb, irq, lock>>
    PROVE  LockInv'
BY DEF LockInv, Places, Holder, Seen

(* The gdb thread: the scanner, the handlers, and cont cut in two.         *)
LEMMA GdbListenerKeeps == ASSUME LockInv, gdb_listener PROVE LockInv'
<1>1. CASE ScanAck \/ ScanRetransmit \/ ScanBadPacket \/ add_character_to_error \/ ScanEof
  <2>1. PICK t : Scan(t)
    BY <1>1 DEF ScanAck, ScanRetransmit, ScanBadPacket, add_character_to_error, ScanEof
  <2>2. gdb' \in {"scan", "exited"}
    BY <1>1 DEF ScanAck, ScanRetransmit, ScanBadPacket, add_character_to_error, ScanEof, Scan
  <2> QED
    BY <2>1, <2>2, ScannerKeeps
<1>2. ASSUME NEW c \in Commands, ScanPacket(c) \/ ScanUnsupported(c) PROVE LockInv'
  <2>1. Scan(c) /\ gdb' \in {"scan", "lock"}
    BY <1>2 DEF ScanPacket, ScanUnsupported, Scan
  <2> QED
    BY <2>1, ScannerKeeps
<1>3. CASE GdbLock
  BY <1>3 DEF GdbLock, LockInv, Places, Holder, Seen, GdbInside
<1>4. CASE HandleRead
  <2>1. gdb = "handle" /\ \E reply : Answer(reply)
    BY <1>4 DEF HandleRead, Handling
  <2> QED
    BY <2>1, AnswerKeeps DEF GdbInside
<1>5. CASE AssertFails
  BY <1>5, EndKeeps DEF AssertFails, gdbVars
<1>6. CASE HandleWriteRegister \/ HandleWriteGeneralRegisters \/ HandleWriteMemory
  <2>1. gdb = "handle" /\ \E reply : Answer(reply)
    BY <1>6 DEF HandleWriteRegister, HandleWriteGeneralRegisters, HandleWriteMemory, Handling
  <2> QED
    BY <2>1, AnswerKeeps DEF GdbInside
<1>7. CASE HandleKill
  BY <1>7 DEF HandleKill, Handling, LockInv, Places, Holder, Seen, GdbInside
<1>8. CASE HandleStep
  <2>1. CASE Exits
    BY <2>1, EndKeeps DEF Exits, gdbVars
  <2>2. CASE ~Exits
    BY <1>8, <2>2, AnswerKeeps DEF HandleStep, Handling, GdbInside
  <2> QED
    BY <2>1, <2>2
<1>9. CASE ContLooks
  <2>1. /\ UNCHANGED <<reg, mem, irq, lock, ended>> /\ gdb = "cont"
        /\ instruction' = IF FetchOk(reg)
                          THEN memory_read_word(mem, AddressOf(FetchAddress(reg)))
                          ELSE instruction
        /\ gdb' = IF IsBreakpoint(instruction') THEN "stop" ELSE "step"
    BY <1>9 DEF ContLooks, vars
  <2> QED
    BY <2>1 DEF LockInv, Places, Holder, Seen, GdbInside
<1>10. CASE ContSteps
  <2>1. CASE Exits
    BY <2>1, EndKeeps DEF Exits, gdbVars
  <2>2. CASE ~Exits
    <3>1. gdb = "step" /\ gdb' = "cont" /\ UNCHANGED <<irq, lock>>
      BY <1>10, <2>2 DEF ContSteps
    <3> QED
      BY <3>1 DEF LockInv, Places, Holder, Seen, GdbInside
  <2> QED
    BY <2>1, <2>2
<1>11. CASE ContStops
  BY <1>11, AnswerKeeps DEF ContStops, GdbInside
<1> QED
  BY <1>1, <1>2, <1>3, <1>4, <1>5, <1>6, <1>7, <1>8, <1>9, <1>10, <1>11 DEF gdb_listener

(* The irq thread moves the pc only while cont is outside.                 *)
LEMMA IrqListenerKeeps == ASSUME LockInv, irq_listener PROVE LockInv'
<1>1. CASE IrqAccepts \/ IrqReads \/ IrqReadsEnd
  <2>1. UNCHANGED <<reg, mem, instruction, gdb, lock, ended>>
    BY <1>1 DEF IrqAccepts, IrqReads, IrqReadsEnd, vars, gdbVars
  <2>2. irq \in {"accept", "read"} /\ irq' \in {"accept", "read", "lock"}
    BY <1>1 DEF IrqAccepts, IrqReads, IrqReadsEnd
  <2> QED
    BY <2>1, <2>2 DEF LockInv, Places, Holder, Seen
<1>2. CASE IrqAcceptFails
  BY <1>2, EndKeeps DEF IrqAcceptFails, gdbVars
<1>3. CASE IrqLock
  <2>1. UNCHANGED <<reg, mem, instruction, gdb, ended>>
    BY <1>3 DEF IrqLock, vars, gdbVars
  <2> QED
    BY <1>3, <2>1 DEF IrqLock, LockInv, Places, Holder, Seen
<1>4. CASE IrqDelivers
  <2>1. irq = "deliver" /\ irq' = "read" /\ lock' = "free" /\ gdb' = gdb
    BY <1>4 DEF IrqDelivers, gdbVars
  <2> QED
    BY <2>1 DEF LockInv, Places, Holder, Seen, GdbInside
<1> QED
  BY <1>1, <1>2, <1>3, <1>4 DEF irq_listener

(* main joins the gdb thread and frees; it takes no lock.                  *)
LEMMA MainKeeps == ASSUME LockInv, main_thread PROVE LockInv'
<1>1. UNCHANGED <<reg, mem, instruction, gdb, irq, lock>> /\ (ended' = ended \/ ended' = TRUE)
  BY DEF main_thread, MainJoins, MainFreesMem, MainReturns, MainStep, vars, gdbVars
<1> QED
  BY <1>1 DEF LockInv, Places, Holder, Seen

(* The mutex is held exactly by the thread that is inside.                 *)
LEMMA LockCorrect == SimSpec => []LockInv
<1>1. LockInv /\ [SimNext]_simVars => LockInv'
  <2> SUFFICES ASSUME LockInv, [SimNext]_simVars PROVE LockInv'
    OBVIOUS
  <2>1. CASE UNCHANGED simVars
    <3>1. UNCHANGED <<reg, mem, instruction, gdb, irq, lock, ended>>
      BY <2>1 DEF simVars, vars, gdbVars
    <3> QED
      BY <3>1 DEF LockInv, Places, Holder, Seen
  <2> QED
    BY <2>1, EnvironmentKeeps, GdbListenerKeeps, IrqListenerKeeps, MainKeeps DEF SimNext
<1> QED
  BY <1>1, LockInit, PTL DEF SimSpec

(***************************************************************************)
(* cont never executes a breakpoint, whatever the program, the packets and *)
(* the exceptions, and however the threads interleave.                     *)
(***************************************************************************)
THEOREM BreakpointsStop == SimSpec => []BreakpointNotExecuted
<1>1. LockInv => BreakpointNotExecuted
  BY DEF LockInv, Seen, BreakpointNotExecuted, Opcodes
<1> QED
  BY <1>1, LockCorrect, PTL

(* The error buffer of the scanner keeps room for its NUL.                 *)
THEOREM ErrorsFit == SimSpec => []ErrorBufferFits
<1> DEFINE Inv == errors \in Nat /\ errors < MAX_ERROR_SIZE
<1>1. SimInit => Inv
  BY SimulatorAssumption DEF SimInit
<1>2. Inv /\ [SimNext]_simVars => Inv'
  <2> SUFFICES ASSUME Inv, [SimNext]_simVars PROVE Inv'
    OBVIOUS
  <2>1. CASE errors' = 0 \/ errors' = errors
    BY <2>1, SimulatorAssumption
  <2>2. CASE add_character_to_error
    BY <2>2, SimulatorAssumption DEF add_character_to_error
  <2>3. CASE Environment
    BY <2>3, <2>1 DEF Environment, ClientSends, SendIrq, gdbVars
  <2>4. CASE gdb_listener /\ ~add_character_to_error
    <3>1. errors' = 0 \/ errors' = errors
      BY <2>4 DEF gdb_listener, ScanAck, ScanRetransmit, ScanBadPacket, ScanEof, ScanPacket,
        ScanUnsupported, GdbLock, HandleRead, AssertFails, HandleWriteRegister,
        HandleWriteGeneralRegisters, HandleWriteMemory, HandleKill, HandleStep, ContLooks,
        ContSteps, ContStops, Answer, Exits, gdbVars
    <3> QED
      BY <3>1, <2>1
  <2>5. CASE irq_listener \/ main_thread
    BY <2>5, <2>1 DEF irq_listener, IrqAccepts, IrqAcceptFails, IrqReads, IrqReadsEnd, IrqLock,
      IrqDelivers, main_thread, MainJoins, MainFreesMem, MainReturns, MainStep, gdbVars
  <2>6. CASE UNCHANGED simVars
    BY <2>6, <2>1 DEF simVars, gdbVars
  <2> QED
    BY <2>2, <2>3, <2>4, <2>5, <2>6 DEF SimNext
<1>3. Inv => ErrorBufferFits
  BY DEF ErrorBufferFits
<1> QED
  BY <1>1, <1>2, <1>3, PTL DEF SimSpec
----------------------------------------------------------------------------
(* The data of the packets. *)

(* Undoing the escapes of an X packet yields bytes.                        *)
LEMMA UnescapedIsBytes ==
    ASSUME NEW content \in Seq(Byte)
    PROVE  Unescaped(content) \in Seq(Byte)
<1> DEFINE L == Len(content)
           Body(f, i) ==
             IF i > L THEN <<>>
             ELSE IF content[i] = Escape /\ i < L
             THEN <<Xor(content[i + 1], {5})>> \o f[i + 2]
             ELSE <<content[i]>> \o f[i + 1]
           G(f) == [i \in 1..(L + 2) |-> Body(f, i)]
<1>1. L \in Nat
  OBVIOUS
<1>2. \A f, g : \A i \in Nat :
        (i <= L => f[i + 1] = g[i + 1] /\ f[i + 2] = g[i + 2]) => Body(f, i) = Body(g, i)
  BY <1>1
<1>3. ASSUME NEW f, NEW i \in 1..(L + 2),
             i <= L => f[i + 1] \in Seq(Byte) /\ f[i + 2] \in Seq(Byte)
      PROVE  Body(f, i) \in Seq(Byte)
  <2>1. CASE i > L
    BY <2>1
  <2>2. CASE i <= L
    <3>1. content[i] \in Byte /\ (i < L => content[i + 1] \in Byte)
      BY <1>1, <2>2
    <3>2. i < L => Xor(content[i + 1], {5}) \in Byte
      BY <3>1 DEF Byte, Xor
    <3>3. \A b \in Byte, t \in Seq(Byte) : <<b>> \o t \in Seq(Byte)
      BY ConcatProperties
    <3> QED
      BY <1>1, <1>3, <2>2, <3>1, <3>2, <3>3
  <2> QED
    BY <1>1, <2>1, <2>2
<1>4. UnescapedFrom(content) = CHOOSE f : f = G(f)
  BY DEF UnescapedFrom
<1> HIDE DEF L, Body
<1>5. \E f : f = G(f)
  <2> DEFINE T == {k \in Nat : \E f : \A i \in (L + 2 - k)..(L + 2) : f[i] = Body(f, i)}
  <2>1. ASSUME NEW k \in 0..(L + 1), \A j \in 0..(k - 1) : j \in T
        PROVE  k \in T
    <3>1. CASE k = 0
      <4>1. PICK f : f = [i \in {L + 2} |-> Body(<<>>, i)]
        OBVIOUS
      <4>2. f[L + 2] = Body(f, L + 2)
        <5>1. Body(<<>>, L + 2) = Body(f, L + 2)
          BY <1>1, <1>2
        <5> QED
          BY <4>1, <5>1
      <4>3. (L + 2 - k)..(L + 2) = {L + 2}
        BY <1>1, <3>1
      <4> QED
        BY <4>2, <4>3
    <3>2. CASE k # 0
      <4>1. PICK f : \A i \in (L + 2 - (k - 1))..(L + 2) : f[i] = Body(f, i)
        <5>1. k - 1 \in 0..(k - 1)
          BY <1>1, <3>2
        <5>2. k - 1 \in T
          BY <2>1, <5>1
        <5> QED
          BY <5>2
      <4>2. PICK b : b = L + 2 - k
        OBVIOUS
      <4>3. b \in 1..(L + 1) /\ L + 2 - (k - 1) = b + 1
        BY <1>1, <3>2, <4>2
      <4>4. PICK g : g = [i \in b..(L + 2) |-> IF i = b THEN Body(f, b) ELSE f[i]]
        OBVIOUS
      <4>5. g[b] = Body(f, b) /\ \A i \in (b + 1)..(L + 2) : g[i] = f[i]
        BY <1>1, <4>3, <4>4
      <4>6. ASSUME NEW i \in b..(L + 2) PROVE g[i] = Body(g, i)
        <5>1. i <= L => f[i + 1] = g[i + 1] /\ f[i + 2] = g[i + 2]
          BY <1>1, <4>3, <4>5
        <5>2. Body(f, i) = Body(g, i)
          BY <1>1, <1>2, <4>3, <5>1
        <5>3. i # b => g[i] = f[i] /\ f[i] = Body(f, i)
          BY <1>1, <4>1, <4>3, <4>5
        <5> QED
          BY <4>5, <5>2, <5>3
      <4> QED
        BY <1>1, <4>2, <4>6
    <3> QED
      BY <3>1, <3>2
  <2>2. L + 1 \in T
    <3>1. L + 1 \in Nat /\ L + 1 \in 0..(L + 1)
      BY <1>1
    <3> HIDE DEF T
    <3> QED
      BY <2>1, <3>1, Inductive
  <2>3. PICK f : \A i \in 1..(L + 2) : f[i] = Body(f, i)
    BY <1>1, <2>2
  <2>4. PICK g : g = [i \in 1..(L + 2) |-> f[i]]
    OBVIOUS
  <2>5. ASSUME NEW i \in 1..(L + 2) PROVE g[i] = Body(g, i)
    <3>1. i <= L => f[i + 1] = g[i + 1] /\ f[i + 2] = g[i + 2]
      BY <1>1, <2>4
    <3>2. Body(f, i) = Body(g, i)
      BY <1>1, <1>2, <3>1
    <3> QED
      BY <2>3, <2>4, <3>2
  <2>6. g = G(g)
    BY <2>4, <2>5
  <2> QED
    BY <2>6
<1>6. PICK h : h = G(h) /\ h = UnescapedFrom(content)
  BY <1>4, <1>5, Zenon
<1>7. \A i \in 1..(L + 2) : h[i] = Body(h, i)
  BY <1>6
<1>8. \A k \in 0..(L + 1) : k \in {j \in Nat : h[L + 2 - j] \in Seq(Byte)}
  <2> DEFINE T == {j \in Nat : h[L + 2 - j] \in Seq(Byte)}
  <2>1. ASSUME NEW k \in 0..(L + 1), \A j \in 0..(k - 1) : j \in T
        PROVE  k \in T
    <3>1. PICK b : b = L + 2 - k
      OBVIOUS
    <3>2. b \in 1..(L + 2) /\ k = L + 2 - b /\ k \in Nat
      BY <1>1, <3>1
    <3>3. ASSUME b <= L PROVE h[b + 1] \in Seq(Byte) /\ h[b + 2] \in Seq(Byte)
      <4>1. k - 1 \in 0..(k - 1) /\ k - 2 \in 0..(k - 1)
        BY <1>1, <3>2, <3>3
      <4>2. L + 2 - (k - 1) = b + 1 /\ L + 2 - (k - 2) = b + 2
        BY <1>1, <3>2
      <4> QED
        BY <2>1, <4>1, <4>2
    <3>4. h[b] \in Seq(Byte)
      BY <1>3, <1>7, <3>2, <3>3
    <3> QED
      BY <3>1, <3>2, <3>4
  <2>2. L + 1 \in Nat
    BY <1>1
  <2> HIDE DEF T
  <2>3. \A k \in 0..(L + 1) : k \in T
    BY <2>1, <2>2, Inductive
  <2> QED
    BY <2>3 DEF T
<1>9. h[1] \in Seq(Byte)
  BY <1>1, <1>8
<1> QED
  BY <1>6, <1>9 DEF Unescaped

(* What a G packet does register by register: the function of the sixteen  *)
(* writes exists.                                                          *)
LEMMA RegistersWrittenOneByOne ==
    ASSUME NEW values
    PROVE  LET w == RegistersWritten(values)
           IN  /\ w[0] = reg
               /\ \A n \in 0..15 : w[n + 1] = write_register(w[n], n, read_uint32(values[n]))
<1> DEFINE Body(f, n) ==
             IF n = 0 THEN reg ELSE write_register(f[n - 1], n - 1, read_uint32(values[n - 1]))
           G(f) == [n \in 0..16 |-> Body(f, n)]
<1>1. \A f, g : \A n \in Nat : (n # 0 => f[n - 1] = g[n - 1]) => Body(f, n) = Body(g, n)
  OBVIOUS
<1>2. RegistersWritten(values) = CHOOSE f : f = G(f)
  BY DEF RegistersWritten
<1>3. \A f : Body(f, 0) = reg
  OBVIOUS
<1>4. \A f : \A n \in 0..15 : Body(f, n + 1) = write_register(f[n], n, read_uint32(values[n]))
  <2> SUFFICES ASSUME NEW f, NEW n \in 0..15
               PROVE  Body(f, n + 1) = write_register(f[n], n, read_uint32(values[n]))
    OBVIOUS
  <2>1. n + 1 # 0 /\ (n + 1) - 1 = n
    OBVIOUS
  <2> QED
    BY <2>1
<1> HIDE DEF Body
<1>5. \E f : f = G(f)
  <2> DEFINE T == {k \in Nat : \E f : \A i \in 0..k : f[i] = Body(f, i)}
  <2>1. ASSUME NEW k \in 0..16, \A j \in 0..(k - 1) : j \in T
        PROVE  k \in T
    <3>1. CASE k = 0
      <4>1. PICK f : f = [i \in {0} |-> reg]
        OBVIOUS
      <4>2. f[0] = Body(f, 0)
        BY <1>3, <4>1
      <4> QED
        BY <3>1, <4>2
    <3>2. CASE k # 0
      <4>1. k - 1 \in 0..(k - 1) /\ k \in Nat
        BY <3>2
      <4>2. k - 1 \in T
        BY <2>1, <4>1
      <4>3. PICK f : \A i \in 0..(k - 1) : f[i] = Body(f, i)
        BY <4>2
      <4>4. PICK g : g = [i \in 0..k |-> IF i = k THEN Body(f, k) ELSE f[i]]
        OBVIOUS
      <4>5. g[k] = Body(f, k) /\ \A i \in 0..(k - 1) : g[i] = f[i]
        BY <4>1, <4>4
      <4>6. ASSUME NEW i \in 0..k PROVE g[i] = Body(g, i)
        <5>1. i # 0 => f[i - 1] = g[i - 1]
          BY <4>1, <4>5
        <5>2. Body(f, i) = Body(g, i)
          BY <1>1, <4>1, <5>1
        <5>3. i # k => g[i] = f[i] /\ f[i] = Body(f, i)
          BY <4>1, <4>3, <4>5
        <5> QED
          BY <4>5, <5>2, <5>3
      <4> QED
        BY <4>1, <4>6
    <3> QED
      BY <3>1, <3>2
  <2>2. 16 \in T
    <3>1. 16 \in Nat /\ 16 \in 0..16
      OBVIOUS
    <3> HIDE DEF T
    <3> QED
      BY <2>1, <3>1, Inductive
  <2>3. PICK f : \A i \in 0..16 : f[i] = Body(f, i)
    BY <2>2
  <2>4. PICK g : g = [i \in 0..16 |-> f[i]]
    OBVIOUS
  <2>5. ASSUME NEW i \in 0..16 PROVE g[i] = Body(g, i)
    <3>1. i # 0 => f[i - 1] = g[i - 1]
      BY <2>4
    <3>2. Body(f, i) = Body(g, i)
      BY <1>1, <3>1
    <3> QED
      BY <2>3, <2>4, <3>2
  <2>6. g = G(g)
    BY <2>4, <2>5
  <2> QED
    BY <2>6
<1>6. PICK h : h = G(h) /\ h = RegistersWritten(values)
  BY <1>2, <1>5, Zenon
<1>7. \A n \in 0..16 : h[n] = Body(h, n)
  BY <1>6
<1>8. h[0] = reg /\ \A n \in 0..15 : h[n + 1] = write_register(h[n], n, read_uint32(values[n]))
  <2>1. h[0] = reg
    BY <1>3, <1>7
  <2>2. ASSUME NEW n \in 0..15 PROVE h[n + 1] = write_register(h[n], n, read_uint32(values[n]))
    <3>1. n + 1 \in 0..16
      OBVIOUS
    <3> QED
      BY <1>4, <1>7, <3>1
  <2> QED
    BY <2>1, <2>2
<1> QED
  BY <1>6, <1>8

(* Four bytes in lanes that do not overlap: each is found in its own.      *)
LEMMA LanesApart ==
    ASSUME NEW m, m.big_endian \in BOOLEAN, NEW d \in [0..3 -> Byte], NEW i \in 0..3
    PROVE  {b \in 0..7 : b + LaneShift(m, 4, i)
                           \in UNION {{c + LaneShift(m, 4, j) : c \in d[j]} : j \in 0..3}} = d[i]
<1> DEFINE U == UNION {{c + LaneShift(m, 4, j) : c \in d[j]} : j \in 0..3}
<1>1. \A j \in 0..3 : d[j] \subseteq 0..7
  BY DEF Byte
<1>2. PICK s \in [0..3 -> {0, 8, 16, 24}] :
         /\ \A j \in 0..3 : LaneShift(m, 4, j) = s[j]
         /\ \A j, k \in 0..3 : j # k => s[j] # s[k]
  <2>1. PICK s : s = [j \in 0..3 |-> LaneShift(m, 4, j)]
    OBVIOUS
  <2>2. \A j \in 0..3 : LaneShift(m, 4, j) \in {0, 8, 16, 24}
    BY DEF LaneShift
  <2>3. ASSUME NEW j \in 0..3, NEW k \in 0..3, j # k PROVE LaneShift(m, 4, j) # LaneShift(m, 4, k)
    BY <2>3 DEF LaneShift
  <2> QED
    BY <2>1, <2>2, <2>3
<1>3. \A x : x \in U <=> \E j \in 0..3 : \E c \in d[j] : x = c + s[j]
  BY <1>2
<1>4. ASSUME NEW b \in 0..7, b + s[i] \in U PROVE b \in d[i]
  <2>1. PICK j \in 0..3 : \E c \in d[j] : b + s[i] = c + s[j]
    BY <1>3, <1>4
  <2>2. PICK c \in d[j] : b + s[i] = c + s[j]
    BY <2>1
  <2>3. c \in 0..7 /\ s[i] \in {0, 8, 16, 24} /\ s[j] \in {0, 8, 16, 24}
    BY <1>1, <1>2
  <2>4. s[i] = s[j] /\ b = c
    BY <2>2, <2>3
  <2> QED
    BY <1>2, <2>2, <2>4
<1>5. ASSUME NEW b \in d[i] PROVE b \in 0..7 /\ b + s[i] \in U
  BY <1>1, <1>3
<1> QED
  BY <1>2, <1>4, <1>5

(* read_uint32 yields a word, of which write_uint32 gives the same bytes.  *)
LEMMA Uint32 ==
    ASSUME mem \in MemorySet, NEW d \in [1..4 -> Byte]
    PROVE  read_uint32(d) \in Word /\ write_uint32(read_uint32(d)) = d
<1>1. mem.big_endian \in BOOLEAN
  BY DEF MemorySet
<1>2. PICK e : e = [j \in 0..3 |-> d[j + 1]]
  OBVIOUS
<1>3. e \in [0..3 -> Byte] /\ \A i \in 1..4 : i - 1 \in 0..3 /\ e[i - 1] = d[i]
  BY <1>2
<1>4. read_uint32(d) = UNION {{c + LaneShift(mem, 4, j) : c \in e[j]} : j \in 0..3}
  <2>1. ASSUME NEW x \in read_uint32(d)
        PROVE  x \in UNION {{c + LaneShift(mem, 4, j) : c \in e[j]} : j \in 0..3}
    <3>1. PICK i \in 1..4 : x \in {b + LaneShift(mem, 4, i - 1) : b \in d[i]}
      BY <2>1 DEF read_uint32
    <3> QED
      BY <1>3, <3>1
  <2>2. ASSUME NEW x \in UNION {{c + LaneShift(mem, 4, j) : c \in e[j]} : j \in 0..3}
        PROVE  x \in read_uint32(d)
    <3>1. PICK j \in 0..3 : x \in {c + LaneShift(mem, 4, j) : c \in e[j]}
      BY <2>2
    <3>2. PICK i : i = j + 1
      OBVIOUS
    <3>3. i \in 1..4 /\ i - 1 = j /\ e[j] = d[i]
      BY <1>2, <3>2
    <3> QED
      BY <3>1, <3>3 DEF read_uint32
  <2> QED
    BY <2>1, <2>2
<1>5. read_uint32(d) \in Word
  <2>1. \A i \in 1..4 : d[i] \subseteq 0..7 /\ LaneShift(mem, 4, i - 1) \in {0, 8, 16, 24}
    BY <1>1 DEF Byte, LaneShift
  <2>2. \A i \in 1..4 : \A b \in d[i] : b + LaneShift(mem, 4, i - 1) \in 0..31
    BY <2>1
  <2> QED
    BY <2>2 DEF read_uint32, Word, Bit
<1>6. ASSUME NEW i \in 1..4
      PROVE  {b \in 0..7 : b + LaneShift(mem, 4, i - 1) \in read_uint32(d)} = d[i]
  <2>1. i - 1 \in 0..3 /\ e[i - 1] = d[i]
    BY <1>3
  <2> QED
    BY <1>1, <1>3, <1>4, <2>1, LanesApart
<1>7. write_uint32(read_uint32(d)) = d
  BY <1>6 DEF write_uint32
<1> QED
  BY <1>5, <1>7

(* write_uint32 gives four bytes, of which read_uint32 yields the word.    *)
LEMMA WrittenUint32 ==
    ASSUME mem \in MemorySet, NEW v \in Word
    PROVE  read_uint32(write_uint32(v)) = v
<1>1. mem.big_endian \in BOOLEAN
  BY DEF MemorySet
<1>2. \A i \in 1..4 : LaneShift(mem, 4, i - 1) \in {0, 8, 16, 24}
  BY <1>1 DEF LaneShift
<1>3. ASSUME NEW x \in read_uint32(write_uint32(v)) PROVE x \in v
  BY <1>3 DEF read_uint32, write_uint32
<1>4. ASSUME NEW x \in v PROVE x \in read_uint32(write_uint32(v))
  <2>1. x \in 0..31
    BY DEF Word, Bit
  <2>2. PICK i \in 1..4 : x - LaneShift(mem, 4, i - 1) \in 0..7
    <3>1. \E k \in 0..3 : x - 8 * k \in 0..7
      BY <2>1
    <3>2. PICK k \in 0..3 : x - 8 * k \in 0..7
      BY <3>1
    <3>3. PICK i : i = IF mem.big_endian THEN 4 - k ELSE k + 1
      OBVIOUS
    <3>4. i \in 1..4 /\ LaneShift(mem, 4, i - 1) = 8 * k
      BY <1>1, <3>3 DEF LaneShift
    <3> QED
      BY <3>2, <3>4
  <2>3. PICK b \in 0..7 : x = b + LaneShift(mem, 4, i - 1)
    BY <1>2, <2>1, <2>2
  <2>4. b \in write_uint32(v)[i]
    BY <2>3 DEF write_uint32
  <2> QED
    BY <2>3, <2>4 DEF read_uint32
<1> QED
  BY <1>3, <1>4

(* After the sixteen writes of a G packet each register of the mode holds  *)
(* its value.                                                              *)
LEMMA RegistersWrittenAreRead ==
    ASSUME reg \in RegistersSet, mem \in MemorySet, NEW values \in [0..16 -> [1..4 -> Byte]]
    PROVE  LET w == RegistersWritten(values)[16]
           IN  /\ w \in RegistersSet /\ get_mode(w) = get_mode(reg)
               /\ read_cpsr(w) = read_cpsr(reg)
               /\ \A n \in 0..15 : read_register(w, n) = read_uint32(values[n])
<1> DEFINE W == RegistersWritten(values)
           Value(n) == read_uint32(values[n])
           T == {k \in Nat : /\ W[k] \in RegistersSet /\ read_cpsr(W[k]) = read_cpsr(reg)
                             /\ \A n \in 0..(k - 1) : read_register(W[k], n) = Value(n)}
<1>1. W[0] = reg /\ \A n \in 0..15 : W[n + 1] = write_register(W[n], n, Value(n))
  BY RegistersWrittenOneByOne
<1>2. \A n \in 0..15 : Value(n) \in Word
  BY Uint32
<1> HIDE DEF W, Value
<1>3. ASSUME NEW k \in 0..16, \A j \in 0..(k - 1) : j \in T PROVE k \in T
  <2>1. CASE k = 0
    BY <1>1, <2>1
  <2>2. CASE k # 0
    <3>1. PICK j \in 0..15 : k = j + 1
      <4>1. k - 1 \in 0..15 /\ k = (k - 1) + 1
        BY <2>2
      <4> QED
        BY <4>1
    <3>2. j \in T
      BY <1>3, <3>1
    <3>3. /\ W[j] \in RegistersSet /\ read_cpsr(W[j]) = read_cpsr(reg)
          /\ \A n \in 0..(j - 1) : read_register(W[j], n) = Value(n)
      BY <3>2
    <3>4. W[k] = write_register(W[j], j, Value(j))
      BY <1>1, <3>1
    <3>5. W[k] \in RegistersSet
      BY <1>2, <3>3, <3>4, InstructionWrites
    <3>6. W[k].psr = W[j].psr
      BY <3>3, <3>4 DEF write_register, RegistersSet
    <3>7. read_cpsr(W[k]) = read_cpsr(reg)
      BY <3>3, <3>6 DEF read_cpsr
    <3>8. ASSUME NEW n \in 0..(k - 1) PROVE read_register(W[k], n) = Value(n)
      <4>1. n \in 0..15 /\ (n = j \/ n \in 0..(j - 1))
        BY <3>1
      <4> QED
        BY <3>3, <3>4, <4>1, ReadAfterWrite
    <3> QED
      BY <3>1, <3>5, <3>7, <3>8
  <2> QED
    BY <2>1, <2>2
<1>4. 16 \in T
  <2>1. 16 \in Nat /\ 16 \in 0..16
    OBVIOUS
  <2> HIDE DEF T
  <2> QED
    BY <1>3, <2>1, Inductive
<1>5. /\ W[16] \in RegistersSet /\ read_cpsr(W[16]) = read_cpsr(reg)
      /\ \A n \in 0..15 : read_register(W[16], n) = Value(n)
  <2>1. 16 - 1 = 15
    OBVIOUS
  <2> QED
    BY <1>4, <2>1
<1> QED
  BY <1>5 DEF W, Value, get_mode

(* The handlers that write keep the processor well formed.                 *)
LEMMA HandlersAreTyped ==
    ASSUME reg \in RegistersSet, mem \in MemorySet
    PROVE  /\ \A n \in 0..15, d \in [1..4 -> Byte] : write_register_value(n, d) \in RegistersSet
           /\ \A values \in [0..16 -> [1..4 -> Byte]] :
                write_general_registers(values) \in RegistersSet
           /\ \A a \in Nat, content \in Seq(Byte) : write_memory_binary(a, content) \in MemorySet
<1>1. \A n \in 0..15, d \in [1..4 -> Byte] : write_register_value(n, d) \in RegistersSet
  BY Uint32, InstructionWrites DEF write_register_value
<1>2. ASSUME NEW values \in [0..16 -> [1..4 -> Byte]]
      PROVE  write_general_registers(values) \in RegistersSet
  <2>1. RegistersWritten(values)[16] \in RegistersSet
    BY RegistersWrittenAreRead
  <2>2. read_uint32(values[16]) \in Word
    BY Uint32
  <2>3. 0 \in 0..15
    OBVIOUS
  <2> QED
    BY <2>1, <2>2, <2>3, InstructionWrites DEF write_general_registers
<1>3. ASSUME NEW a \in Nat, NEW content \in Seq(Byte)
      PROVE  write_memory_binary(a, content) \in MemorySet
  <2> DEFINE bytes == Unescaped(content)
             data  == [b \in 0..Size |-> IF b - a + 1 \in DOMAIN bytes THEN bytes[b - a + 1]
                                         ELSE mem.data[b]]
  <2>1. bytes \in Seq(Byte)
    BY UnescapedIsBytes
  <2> HIDE DEF bytes
  <2>2. \A i \in DOMAIN bytes : bytes[i] \in Byte
    BY <2>1
  <2>3. data \in [0..Size -> Byte]
    BY <2>2 DEF MemorySet
  <2>4. write_memory_binary(a, content) = IF a < Size THEN [mem EXCEPT !.data = data] ELSE mem
    BY DEF write_memory_binary, bytes, MemorySet
  <2> HIDE DEF data
  <2> QED
    BY <2>3, <2>4 DEF MemorySet
<1> QED
  BY <1>1, <1>2, <1>3

----------------------------------------------------------------------------
(* What send_irq has sent and the irq thread has yet to read are numbers   *)
(* of exceptions, and a handler has a packet of gdb's.                     *)
Carried ==
    /\ irqs \in Seq(Seq(Irqs)) /\ conn \in Seq(Irqs)
    /\ gdb \in {"lock", "handle"} => cmd \in Commands

SimTyped == SimTypeOK /\ Carried

(* The processor and the connection of send_irq at the start.              *)
LEMMA SimStartsTyped == SimInit => SimTyped
<1> SUFFICES ASSUME SimInit PROVE SimTyped
  OBVIOUS
<1>1. ProcessorTypeOK
  BY ArmInstructionAssumption DEF SimInit, Init, ProcessorTypeOK
<1>2. instruction \in Word
  BY DEF SimInit, Zero, Word
<1>3. ended \in BOOLEAN /\ writable \in BOOLEAN
  BY DEF SimInit
<1>4. Carried
  BY DEF SimInit, Carried
<1> QED
  BY <1>1, <1>2, <1>3, <1>4 DEF SimInit, SimTyped, SimTypeOK

(* gdb and send_irq only add to what is on its way.                        *)
LEMMA EnvironmentIsTyped == ASSUME SimTyped, Environment PROVE SimTyped'
<1>1. UNCHANGED <<vars, conn, gdbVars, irq, byte, main, lock, ended>>
  BY DEF Environment, ClientSends, SendIrq, irqNet
<1>2. irqs' \in Seq(Seq(Irqs))
  <2>1. CASE irqs' = irqs
    BY <2>1 DEF SimTyped, Carried
  <2>2. CASE \E bytes \in {<<e>> : e \in Irqs} \cup {<<>>} : irqs' = Append(irqs, bytes)
    <3>1. PICK bytes \in {<<e>> : e \in Irqs} \cup {<<>>} : irqs' = Append(irqs, bytes)
      BY <2>2
    <3>2. ASSUME NEW e \in Irqs, bytes = <<e>> PROVE bytes \in Seq(Irqs)
      BY <3>2
    <3>3. ASSUME bytes = <<>> PROVE bytes \in Seq(Irqs)
      BY <3>3
    <3>4. bytes \in Seq(Irqs)
      BY <3>1, <3>2, <3>3
    <3>5. irqs \in Seq(Seq(Irqs))
      BY DEF SimTyped, Carried
    <3> QED
      BY <3>1, <3>4, <3>5
  <2> QED
    BY <2>1, <2>2 DEF Environment, ClientSends, SendIrq, irqNet
<1> QED
  BY <1>1, <1>2 DEF SimTyped, SimTypeOK, ProcessorTypeOK, Carried, vars, gdbVars

(* The steps of the gdb thread that leave the processor alone.             *)
LEMMA GdbMoves ==
    ASSUME SimTyped, UNCHANGED <<vars, irqs, conn, irq, byte, main>>,
           gdb' \in {"scan", "lock", "handle", "cont", "step", "stop", "exited"},
           gdb' \in {"lock", "handle"} => cmd' \in Commands,
           lock' \in {"free", "gdb", "irq"}, instruction' \in Word,
           ended' \in BOOLEAN, writable' \in BOOLEAN
    PROVE  SimTyped'
BY DEF SimTyped, SimTypeOK, ProcessorTypeOK, Carried, vars

(* The end of a process is a truth value.                                  *)
LEMMA TransmitIsTyped == ASSUME NEW tokens, Transmit(tokens) PROVE ended' \in BOOLEAN
BY DEF Transmit

(* A handler that answers, with the processor well formed.                 *)
LEMMA AnswerIsTyped ==
    ASSUME SimTyped, NEW reply, Answer(reply), ProcessorTypeOK'
    PROVE  SimTyped'
<1>1. /\ gdb' = "scan" /\ lock' = "free"
      /\ UNCHANGED <<irqs, conn, irq, byte, main, instruction, writable>>
  BY DEF Answer, netVars, irqNet
<1>2. ended' \in BOOLEAN
  BY TransmitIsTyped DEF Answer
<1> QED
  BY <1>1, <1>2 DEF SimTyped, SimTypeOK, Carried

(* An instruction that exits.                                              *)
LEMMA ExitIsTyped ==
    ASSUME SimTyped, Exits, ProcessorTypeOK'
    PROVE  SimTyped'
<1>1. /\ UNCHANGED <<irqs, conn, irq, byte, main, lock>>
      /\ UNCHANGED <<gdb, cmd, instruction, writable>> /\ ended' = TRUE
  BY DEF Exits, netVars, irqNet, gdbVars
<1> QED
  BY <1>1 DEF SimTyped, SimTypeOK, Carried

(* The gdb thread.                                                         *)
LEMMA GdbListenerIsTyped == ASSUME SimTyped, gdb_listener PROVE SimTyped'
<1>0. /\ ProcessorTypeOK /\ instruction \in Word /\ ended \in BOOLEAN /\ writable \in BOOLEAN
      /\ gdb \in {"scan", "lock", "handle", "cont", "step", "stop", "exited"}
      /\ lock \in {"free", "gdb", "irq"} /\ (gdb \in {"lock", "handle"} => cmd \in Commands)
      /\ reg \in RegistersSet /\ mem \in MemorySet
  BY DEF SimTyped, SimTypeOK, Carried, ProcessorTypeOK
<1>1. CASE ScanAck \/ ScanRetransmit \/ ScanBadPacket \/ add_character_to_error \/ ScanEof
  <2>1. PICK t : Scan(t)
    BY <1>1 DEF ScanAck, ScanRetransmit, ScanBadPacket, add_character_to_error, ScanEof
  <2>2. gdb' \in {"scan", "exited"}
    BY <1>1 DEF ScanAck, ScanRetransmit, ScanBadPacket, add_character_to_error, ScanEof, Scan
  <2>3. ended' \in BOOLEAN
    BY <1>1, TransmitIsTyped
       DEF ScanAck, ScanRetransmit, ScanBadPacket, add_character_to_error, ScanEof
  <2>4. UNCHANGED <<vars, irqs, conn, irq, byte, main, lock, instruction, writable>>
    BY <2>1 DEF Scan, irqNet
  <2> QED
    BY <1>0, <2>2, <2>3, <2>4, GdbMoves
<1>2. ASSUME NEW c \in Commands, ScanPacket(c) \/ ScanUnsupported(c) PROVE SimTyped'
  <2>1. UNCHANGED <<vars, irqs, conn, irq, byte, main, lock, instruction, writable>>
    BY <1>2 DEF ScanPacket, ScanUnsupported, Scan, irqNet
  <2>2. ended' \in BOOLEAN
    BY <1>2, TransmitIsTyped DEF ScanPacket, ScanUnsupported
  <2>3. (gdb' = "lock" /\ cmd' = c) \/ gdb' = "scan"
    BY <1>2 DEF ScanPacket, ScanUnsupported, Scan
  <2> QED
    BY <1>0, <1>2, <2>1, <2>2, <2>3, GdbMoves
<1>3. CASE GdbLock
  <2>1. UNCHANGED <<vars, irqs, conn, irq, byte, main, cmd, writable, ended>>
    BY <1>3 DEF GdbLock, netVars, irqNet
  <2>2. gdb = "lock" /\ gdb' \in {"cont", "handle"} /\ lock' = "gdb"
    BY <1>3 DEF GdbLock
  <2>3. instruction' \in Word
    BY <1>0, <1>3, ArmInstructionAssumption DEF GdbLock
  <2> QED
    BY <1>0, <2>1, <2>2, <2>3, GdbMoves
<1>4. CASE HandleRead
  <2>1. UNCHANGED vars /\ \E reply : Answer(reply)
    BY <1>4 DEF HandleRead
  <2>2. ProcessorTypeOK'
    BY <1>0, <2>1 DEF ProcessorTypeOK, vars
  <2> QED
    BY <2>1, <2>2, AnswerIsTyped
<1>5. CASE AssertFails
  <2>1. /\ UNCHANGED <<vars, irqs, conn, irq, byte, main, lock, gdb, cmd, instruction, writable>>
        /\ ended' = TRUE
    BY <1>5 DEF AssertFails, netVars, irqNet, gdbVars
  <2>2. ended' \in BOOLEAN
    BY <2>1
  <2> QED
    BY <1>0, <2>1, <2>2, GdbMoves
<1>6. CASE HandleWriteRegister
  <2>1. cmd \in Commands /\ cmd[1] = "P" /\ cmd[2] < 16
    BY <1>0, <1>6 DEF HandleWriteRegister, Handling
  <2>2. cmd[2] \in 0..15 /\ cmd[3] \in [1..4 -> Byte]
    BY <2>1, SimulatorAssumption DEF WellFormed
  <2>3. reg' \in RegistersSet /\ UNCHANGED <<mem, result>>
    BY <1>0, <1>6, <2>2, HandlersAreTyped DEF HandleWriteRegister
  <2>4. ProcessorTypeOK'
    BY <1>0, <2>3 DEF ProcessorTypeOK
  <2> QED
    BY <1>6, <2>4, AnswerIsTyped DEF HandleWriteRegister
<1>7. CASE HandleWriteGeneralRegisters
  <2>1. cmd \in Commands /\ cmd[1] = "G"
    BY <1>0, <1>7 DEF HandleWriteGeneralRegisters, Handling
  <2>2. cmd[2] \in [0..16 -> [1..4 -> Byte]]
    BY <2>1, SimulatorAssumption DEF WellFormed
  <2>3. reg' \in RegistersSet /\ UNCHANGED <<mem, result>>
    BY <1>0, <1>7, <2>2, HandlersAreTyped DEF HandleWriteGeneralRegisters
  <2>4. ProcessorTypeOK'
    BY <1>0, <2>3 DEF ProcessorTypeOK
  <2> QED
    BY <1>7, <2>4, AnswerIsTyped DEF HandleWriteGeneralRegisters
<1>8. CASE HandleWriteMemory
  <2>1. cmd \in Commands /\ cmd[1] = "X"
    BY <1>0, <1>8 DEF HandleWriteMemory, Handling
  <2>2. cmd[2] \in Nat /\ cmd[3] \in Seq(Byte)
    BY <2>1, SimulatorAssumption DEF WellFormed
  <2>3. mem' \in MemorySet /\ UNCHANGED <<reg, result>>
    BY <1>0, <1>8, <2>2, HandlersAreTyped DEF HandleWriteMemory
  <2>4. ProcessorTypeOK'
    BY <1>0, <2>3 DEF ProcessorTypeOK
  <2> QED
    BY <1>8, <2>4, AnswerIsTyped DEF HandleWriteMemory
<1>9. CASE HandleKill
  <2>1. /\ UNCHANGED <<vars, irqs, conn, irq, byte, main, cmd, instruction, ended>>
        /\ gdb' = "scan" /\ lock' = "free" /\ writable' = FALSE
    BY <1>9 DEF HandleKill, netVars, irqNet
  <2>2. writable' \in BOOLEAN
    BY <2>1
  <2> QED
    BY <1>0, <2>1, <2>2, GdbMoves
<1>10. CASE HandleStep
  <2>1. ProcessorTypeOK'
    BY <1>0, <1>10, NextIsTyped DEF HandleStep
  <2>2. Exits \/ \E reply : Answer(reply)
    BY <1>10 DEF HandleStep
  <2> QED
    BY <2>1, <2>2, ExitIsTyped, AnswerIsTyped
<1>11. CASE ContLooks
  <2>1. UNCHANGED <<vars, irqs, conn, irq, byte, main, lock, cmd, writable, ended>>
    BY <1>11 DEF ContLooks, netVars, irqNet
  <2>2. gdb' \in {"stop", "step"}
    BY <1>11 DEF ContLooks
  <2>3. instruction' \in Word
    <3>1. FetchOk(reg) => memory_read_word(mem, AddressOf(FetchAddress(reg))) \in Word
      BY <1>0, AddressesAreTyped, MemoryReadsAreWords DEF FetchOk
    <3> QED
      BY <1>0, <1>11, <3>1 DEF ContLooks
  <2> QED
    BY <1>0, <2>1, <2>2, <2>3, GdbMoves
<1>12. CASE ContSteps
  <2>1. ProcessorTypeOK'
    BY <1>0, <1>12, NextIsTyped DEF ContSteps
  <2>2. CASE Exits
    BY <2>1, <2>2, ExitIsTyped
  <2>3. CASE ~Exits
    <3>1. /\ gdb' = "cont"
          /\ UNCHANGED <<irqs, conn, irq, byte, main, lock, instruction, writable, ended>>
      BY <1>12, <2>3 DEF ContSteps, netVars, irqNet
    <3> QED
      BY <1>0, <2>1, <3>1 DEF SimTyped, SimTypeOK, Carried
  <2> QED
    BY <2>2, <2>3
<1>13. CASE ContStops
  <2>1. UNCHANGED vars /\ \E reply : Answer(reply)
    BY <1>13 DEF ContStops
  <2>2. ProcessorTypeOK'
    BY <1>0, <2>1 DEF ProcessorTypeOK, vars
  <2> QED
    BY <2>1, <2>2, AnswerIsTyped
<1> QED
  BY <1>1, <1>2, <1>3, <1>4, <1>5, <1>6, <1>7, <1>8, <1>9, <1>10, <1>11, <1>12, <1>13
  DEF gdb_listener

(* The irq thread: what it reads is the number of an exception.            *)
LEMMA IrqListenerIsTyped == ASSUME SimTyped, irq_listener PROVE SimTyped'
<1>0. /\ irqs \in Seq(Seq(Irqs)) /\ conn \in Seq(Irqs) /\ reg \in RegistersSet
  BY DEF SimTyped, SimTypeOK, Carried, ProcessorTypeOK
<1>1. CASE IrqAccepts
  <2>1. /\ UNCHANGED <<vars, gdbVars, byte, main, lock, ended>> /\ irq' = "read"
        /\ irqs # <<>> /\ conn' = Head(irqs) /\ irqs' = Tail(irqs)
    BY <1>1 DEF IrqAccepts
  <2>2. conn' \in Seq(Irqs) /\ irqs' \in Seq(Seq(Irqs))
    BY <1>0, <2>1
  <2> QED
    BY <2>1, <2>2 DEF SimTyped, SimTypeOK, ProcessorTypeOK, Carried, vars, gdbVars
<1>2. CASE IrqAcceptFails
  <2>1. /\ UNCHANGED <<vars, irqs, conn, gdbVars, irq, byte, main, lock>> /\ ended' = TRUE
    BY <1>2 DEF IrqAcceptFails, netVars, irqNet
  <2> QED
    BY <2>1 DEF SimTyped, SimTypeOK, ProcessorTypeOK, Carried, vars, gdbVars
<1>3. CASE IrqReads
  <2>1. /\ UNCHANGED <<vars, irqs, gdbVars, main, lock, ended>> /\ irq' = "lock"
        /\ conn # <<>> /\ byte' = Head(conn) /\ conn' = Tail(conn)
    BY <1>3 DEF IrqReads
  <2>2. byte' \in Exceptions /\ conn' \in Seq(Irqs)
    BY <1>0, <2>1, SimulatorAssumption
  <2> QED
    BY <2>1, <2>2 DEF SimTyped, SimTypeOK, ProcessorTypeOK, Carried, vars, gdbVars
<1>4. CASE IrqReadsEnd
  <2>1. UNCHANGED <<vars, irqs, conn, gdbVars, byte, main, lock, ended>> /\ irq' = "accept"
    BY <1>4 DEF IrqReadsEnd, netVars, irqNet
  <2> QED
    BY <2>1 DEF SimTyped, SimTypeOK, ProcessorTypeOK, Carried, vars, gdbVars
<1>5. CASE IrqLock
  <2>1. /\ UNCHANGED <<vars, irqs, conn, gdbVars, byte, main, ended>>
        /\ irq' = "deliver" /\ lock' = "irq"
    BY <1>5 DEF IrqLock, netVars, irqNet
  <2> QED
    BY <2>1 DEF SimTyped, SimTypeOK, ProcessorTypeOK, Carried, vars, gdbVars
<1>6. CASE IrqDelivers
  <2>1. /\ UNCHANGED <<mem, result, irqs, conn, gdbVars, byte, main, ended>>
        /\ irq' = "read" /\ lock' = "free"
    BY <1>6 DEF IrqDelivers, netVars, irqNet
  <2>2. reg' \in RegistersSet
    BY <1>0, <1>6, ExceptionIsTyped DEF IrqDelivers
  <2> QED
    BY <2>1, <2>2 DEF SimTyped, SimTypeOK, ProcessorTypeOK, Carried, gdbVars
<1> QED
  BY <1>1, <1>2, <1>3, <1>4, <1>5, <1>6 DEF irq_listener

(* main only moves on.                                                     *)
LEMMA MainIsTyped == ASSUME SimTyped, main_thread PROVE SimTyped'
<1>1. /\ UNCHANGED <<vars, irqs, conn, gdbVars, irq, byte, lock>>
      /\ main' \in {"arm_destroyed", "memory_destroyed", "returned"}
  BY DEF main_thread, MainJoins, MainFreesMem, MainReturns, MainStep, netVars, irqNet
<1>2. CASE ended' = ended
  BY <1>1, <1>2 DEF SimTyped, SimTypeOK, ProcessorTypeOK, Carried, vars, gdbVars
<1>3. CASE ended' = TRUE
  BY <1>1, <1>3 DEF SimTyped, SimTypeOK, ProcessorTypeOK, Carried, vars, gdbVars
<1> QED
  BY <1>2, <1>3 DEF main_thread, MainJoins, MainFreesMem, MainReturns

(* The strengthened type invariant.                                        *)
LEMMA SimTypedAlways == SimSpec => []SimTyped
<1>1. SimTyped /\ [SimNext]_simVars => SimTyped'
  <2> SUFFICES ASSUME SimTyped, [SimNext]_simVars PROVE SimTyped'
    OBVIOUS
  <2>1. CASE UNCHANGED simVars
    BY <2>1 DEF simVars, netVars, irqNet, SimTyped, SimTypeOK, ProcessorTypeOK, Carried, vars, gdbVars
  <2> QED
    BY <2>1, EnvironmentIsTyped, GdbListenerIsTyped, IrqListenerIsTyped, MainIsTyped DEF SimNext
<1> QED
  BY <1>1, SimStartsTyped, PTL DEF SimSpec

(***************************************************************************)
(* Whatever gdb writes to registers and memory, and whatever program runs  *)
(* in between, the processor stays well formed and the threads stay where  *)
(* their code can be.                                                      *)
(***************************************************************************)
THEOREM SimTypeCorrect == SimSpec => []SimTypeOK
<1>1. SimTyped => SimTypeOK
  BY DEF SimTyped
<1> QED
  BY <1>1, SimTypedAlways, PTL

----------------------------------------------------------------------------
(***************************************************************************)
(* m and g give the four bytes of a word in one order, that of the memory. *)
(***************************************************************************)
THEOREM OneOrderAlways == SimSpec => []OneByteOrder
<1>1. SimTyped => OneByteOrder
  <2> SUFFICES ASSUME SimTyped, NEW a \in Address, word_ok(a)
               PROVE  read_memory(a, 4).bytes = write_uint32(memory_read_word(mem, a))
    BY DEF OneByteOrder
  <2>1. mem.big_endian \in BOOLEAN /\ mem.data \in [0..Size -> Byte]
    BY DEF SimTyped, SimTypeOK, ProcessorTypeOK, MemorySet
  <2>2. a \in Nat /\ Size \in Nat /\ a + 3 < Size
    BY WordInside, MemoryAssumption DEF Address
  <2>3. PICK d : d = [j \in 0..3 |-> mem.data[a + j]]
    OBVIOUS
  <2>4. d \in [0..3 -> Byte] /\ \A j \in 0..3 : d[j] = mem.data[a + j]
    BY <2>1, <2>2, <2>3
  <2>5. 4 - 1 = 3
    OBVIOUS
  <2>6. {k \in 0..(4 - 1) : \A j \in 0..k : byte_ok(a + j)} = 0..3
    BY <2>2 DEF byte_ok
  <2>7. Cardinality(0..3) = 4
    <3>1. PICK lo \in Int, hi \in Int : lo = 0 /\ hi = 3
      OBVIOUS
    <3>2. Cardinality(lo..hi) = IF lo > hi THEN 0 ELSE hi - lo + 1
      BY FS_Interval, Zenon
    <3> QED
      BY <3>1, <3>2
  <2>8. read_memory(a, 4).bytes = [i \in 1..4 |-> mem.data[a + i - 1]]
    BY <2>6, <2>7 DEF read_memory, Hex, memory_read_byte
  <2>9. memory_read_word(mem, a) = UNION {{c + LaneShift(mem, 4, j) : c \in d[j]} : j \in 0..3}
    BY <2>4, <2>5 DEF memory_read_word, Load
  <2>10. ASSUME NEW i \in 1..4
         PROVE  {b \in 0..7 : b + LaneShift(mem, 4, i - 1) \in memory_read_word(mem, a)}
                  = mem.data[a + i - 1]
    <3>1. i - 1 \in 0..3 /\ a + (i - 1) = a + i - 1
      BY <2>2
    <3>2. d[i - 1] = mem.data[a + i - 1]
      BY <2>4, <3>1
    <3> QED
      BY <2>1, <2>4, <2>9, <3>1, <3>2, LanesApart
  <2> QED
    BY <2>8, <2>10 DEF write_uint32
<1> QED
  BY <1>1, SimTypedAlways, PTL

(* A P or G packet whose handler returns was handled by it: no other step  *)
(* of any thread leads out of a handler.                                   *)
LEMMA WriteHandlersOnly ==
    ASSUME SimNext, gdb' = "scan"
    PROVE  /\ Handling("P") => HandleWriteRegister
           /\ Handling("G") => HandleWriteGeneralRegisters
<1> SUFFICES ASSUME Handling("P") \/ Handling("G")
             PROVE  HandleWriteRegister \/ HandleWriteGeneralRegisters
  BY DEF HandleWriteRegister, HandleWriteGeneralRegisters, Handling
<1>1. gdb = "handle" /\ cmd[1] \in {"P", "G"}
  BY DEF Handling
<1>2. gdb' # gdb
  BY <1>1
<1>3. ~Environment
  BY <1>2 DEF Environment, ClientSends, SendIrq, gdbVars
<1>4. ~irq_listener
  BY <1>2 DEF irq_listener, IrqAccepts, IrqAcceptFails, IrqReads, IrqReadsEnd, IrqLock,
              IrqDelivers, gdbVars
<1>5. ~main_thread
  BY <1>2 DEF main_thread, MainJoins, MainFreesMem, MainReturns, MainStep, gdbVars
<1>6. gdb_listener
  BY <1>3, <1>4, <1>5 DEF SimNext
<1>7. /\ ~ScanAck /\ ~ScanRetransmit /\ ~ScanBadPacket /\ ~add_character_to_error /\ ~ScanEof
      /\ ~(\E c \in Commands : ScanPacket(c) \/ ScanUnsupported(c))
  BY <1>1 DEF ScanAck, ScanRetransmit, ScanBadPacket, add_character_to_error, ScanEof,
              ScanPacket, ScanUnsupported, Scan
<1>8. ~GdbLock /\ ~ContLooks /\ ~ContSteps /\ ~ContStops
  BY <1>1 DEF GdbLock, ContLooks, ContSteps, ContStops
<1>9. ~HandleRead /\ ~HandleWriteMemory /\ ~HandleKill /\ ~HandleStep
  BY <1>1 DEF HandleRead, HandleWriteMemory, HandleKill, HandleStep, Handling
<1>10. ~AssertFails
  BY <1>2 DEF AssertFails, gdbVars
<1> QED
  BY <1>6, <1>7, <1>8, <1>9, <1>10 DEF gdb_listener

(* P: the register reads back, the others and CPSR are what they were.     *)
LEMMA RegisterWriteIsRead ==
    ASSUME SimTyped, HandleWriteRegister
    PROVE  /\ \A n \in 0..16 \ {15, cmd[2]} : RegisterBytes(n)' = RegisterBytes(n)
           /\ cmd[2] # 15 => /\ RegisterBytes(cmd[2])' = cmd[3]
                             /\ gdb_register(15)' = gdb_register(15)
           /\ cmd[2] = 15 => gdb_register(15)' = read_uint32(cmd[3]) \ {1}
           /\ cmd[2] < 10 => read_register_reply(cmd[2])' = Hex(cmd[3])
<1>1. cmd \in Commands /\ cmd[1] = "P" /\ reg \in RegistersSet /\ mem \in MemorySet
  BY DEF HandleWriteRegister, Handling, SimTyped, SimTypeOK, Carried, ProcessorTypeOK
<1>2. cmd[2] \in 0..15 /\ cmd[3] \in [1..4 -> Byte]
  BY <1>1, SimulatorAssumption DEF WellFormed, HandleWriteRegister
<1>3. PICK k \in 0..15, data \in [1..4 -> Byte] : k = cmd[2] /\ data = cmd[3]
  BY <1>2
<1>4. reg' = write_register(reg, k, read_uint32(data)) /\ mem' = mem
  BY <1>3 DEF HandleWriteRegister, write_register_value
<1>5. read_uint32(data) \in Word /\ write_uint32(read_uint32(data)) = data
  BY <1>1, <1>3, Uint32
<1>6. \A n \in 0..15 : read_register(reg', n) = IF n = k THEN read_uint32(data)
                                                ELSE read_register(reg, n)
  BY <1>1, <1>3, <1>4, ReadAfterWrite
<1>7. reg'.psr = reg.psr
  BY <1>1, <1>4 DEF write_register, RegistersSet
<1>9. ASSUME NEW n \in 0..15, n # 15 PROVE RegisterBytes(n)' = write_uint32(read_register(reg', n))
  BY <1>4, <1>9 DEF RegisterBytes, gdb_register, arm_read_register, write_uint32
<1>10. ASSUME NEW n \in 0..15, n # 15 PROVE RegisterBytes(n) = write_uint32(read_register(reg, n))
  BY <1>10 DEF RegisterBytes, gdb_register, arm_read_register
<1>11. RegisterBytes(16)' = RegisterBytes(16)
  BY <1>4, <1>7 DEF RegisterBytes, read_cpsr, write_uint32
<1>12. ASSUME NEW n \in 0..16 \ {15, k} PROVE RegisterBytes(n)' = RegisterBytes(n)
  <2>1. n = 16 \/ (n \in 0..15 /\ n # 15 /\ n # k)
    OBVIOUS
  <2> QED
    BY <1>6, <1>9, <1>10, <1>11, <2>1
<1>13. ASSUME k # 15
       PROVE  RegisterBytes(cmd[2])' = data /\ gdb_register(15)' = gdb_register(15)
  <2>1. cmd'[2] = k /\ k < 16
    BY <1>3 DEF HandleWriteRegister, Answer
  <2>2. RegisterBytes(cmd[2])' = write_uint32(read_register(reg', k))
    BY <1>4, <1>13, <2>1 DEF RegisterBytes, gdb_register, arm_read_register, write_uint32
  <2> QED
    BY <1>5, <1>6, <1>13, <2>2 DEF gdb_register, arm_read_register
<1>14. ASSUME k = 15 PROVE gdb_register(15)' = read_uint32(data) \ {1}
  BY <1>5, <1>6, <1>14, PcSeenLessFour DEF gdb_register, arm_read_register
<1>15. ASSUME k < 10 PROVE read_register_reply(cmd[2])' = Hex(data)
  <2>1. cmd' = cmd /\ k # 15
    BY <1>15 DEF HandleWriteRegister, Answer
  <2>2. atoi(cmd[2])' = k
    BY <1>3, <1>15, <2>1 DEF atoi
  <2>3. gdb_register(atoi(cmd[2]))' = read_uint32(data)
    BY <1>6, <2>1, <2>2 DEF gdb_register, arm_read_register
  <2>4. write_uint32(gdb_register(atoi(cmd[2])))' = write_uint32(read_uint32(data))
    BY <1>4, <2>3 DEF write_uint32
  <2> QED
    BY <1>5, <2>4 DEF read_register_reply, Hex
<1> QED
  BY <1>3, <1>12, <1>13, <1>14, <1>15

(* What write_cpsr does to the flags, the mode and the masks.              *)
LEMMA CpsrBits ==
    ASSUME NEW r \in RegistersSet, NEW v \in Word, NEW u, u = write_cpsr(r, v)
    PROVE  /\ read_cpsr(u) \in Word
           /\ read_cpsr(u) \cap Flags = v \cap Flags
           /\ in_a_privileged_mode(r) => read_cpsr(u) \cap Control = Control \cap v
           /\ ~in_a_privileged_mode(r) => read_cpsr(u) \cap Control = Control \cap read_cpsr(r)
<1>1. r.psr[0] \in Word /\ v \in Word
  BY DEF RegistersSet
<1>2. u.psr[0] = Masked(r.psr[0], IF in_a_privileged_mode(r) THEN PrivilegedMasque ELSE UserMasque, v)
  BY DEF write_cpsr, RegistersSet
<1>3. /\ Masked(r.psr[0], PrivilegedMasque, v) \in Word
      /\ Masked(r.psr[0], UserMasque, v) \in Word
  BY <1>1, MaskedIsWord, MasquesAreWords
<1>4. ASSUME NEW i \in Bit
      PROVE  /\ i \in Flags => i \notin PrivilegedMasque /\ i \notin UserMasque
             /\ i \in Control => i \notin PrivilegedMasque /\ i \in UserMasque
  BY DEF Bit, Flags, Control, PrivilegedMasque, UserMasque
<1>5. /\ r.psr[0] \subseteq Bit /\ v \subseteq Bit
      /\ PrivilegedMasque \subseteq Bit /\ UserMasque \subseteq Bit
      /\ Flags \subseteq Bit /\ Control \subseteq Bit
  BY <1>1, MasquesAreWords DEF Word, Bit, Flags, Control
<1>6. CASE in_a_privileged_mode(r)
  <2>1. read_cpsr(u) = Masked(r.psr[0], PrivilegedMasque, v)
    BY <1>2, <1>6 DEF read_cpsr
  <2> QED
    BY <1>3, <1>4, <1>5, <1>6, <2>1 DEF Masked, Not
<1>7. CASE ~in_a_privileged_mode(r)
  <2>1. read_cpsr(u) = Masked(r.psr[0], UserMasque, v)
    BY <1>2, <1>7 DEF read_cpsr
  <2> QED
    BY <1>3, <1>4, <1>5, <1>7, <2>1 DEF Masked, Not, read_cpsr
<1> QED
  BY <1>6, <1>7

(* G: the registers that every mode shares, those of the mode if it is     *)
(* kept, the pc and CPSR.                                                  *)
LEMMA GeneralRegistersWriteIsRead ==
    ASSUME SimTyped, HandleWriteGeneralRegisters
    PROVE  /\ \A n \in 0..7 : RegisterBytes(n)' = cmd[2][n]
           /\ get_mode(reg') = get_mode(reg) => \A n \in 8..14 : RegisterBytes(n)' = cmd[2][n]
           /\ gdb_register(15)' = read_uint32(cmd[2][15]) \ {1}
           /\ CpsrRead' \cap Flags = read_uint32(cmd[2][16]) \cap Flags
           /\ CpsrRead' \cap Control = Control \cap
                (IF in_a_privileged_mode(reg) THEN read_uint32(cmd[2][16]) ELSE CpsrRead)
<1>1. cmd \in Commands /\ cmd[1] = "G" /\ reg \in RegistersSet /\ mem \in MemorySet
  BY DEF HandleWriteGeneralRegisters, Handling, SimTyped, SimTypeOK, Carried, ProcessorTypeOK
<1>2. cmd[2] \in [0..16 -> [1..4 -> Byte]]
  BY <1>1, SimulatorAssumption DEF WellFormed
<1>3. PICK values \in [0..16 -> [1..4 -> Byte]] : values = cmd[2]
  BY <1>2
<1>4. PICK w : w = RegistersWritten(values)[16]
  OBVIOUS
<1>5. /\ w \in RegistersSet /\ get_mode(w) = get_mode(reg) /\ read_cpsr(w) = read_cpsr(reg)
      /\ \A n \in 0..15 : read_register(w, n) = read_uint32(values[n])
  BY <1>1, <1>3, <1>4, RegistersWrittenAreRead
<1>6. reg' = write_cpsr(w, read_uint32(values[16])) /\ mem' = mem
  BY <1>3, <1>4 DEF HandleWriteGeneralRegisters, write_general_registers
<1>7. \A n \in 0..16 : /\ read_uint32(values[n]) \in Word
                       /\ write_uint32(read_uint32(values[n])) = values[n]
  BY <1>1, <1>3, Uint32
<1>8. reg'.main = w.main
  BY <1>5, <1>6 DEF write_cpsr, RegistersSet
<1>9. \A n \in 0..7 : read_register(reg', n) = read_uint32(values[n])
  BY <1>5, <1>8 DEF read_register, InMain
<1>10. get_mode(reg') = get_mode(reg) =>
         \A n \in 8..14 : read_register(reg', n) = read_uint32(values[n])
  BY <1>5, <1>6, CpsrWriteKeepsRegisters
<1>11. read_register(reg', 15) = read_uint32(values[15])
  BY <1>5, <1>6, CpsrWriteKeepsRegisters
<1>12. ASSUME NEW n \in 0..14, read_register(reg', n) = read_uint32(values[n])
       PROVE  RegisterBytes(n)' = values[n]
  <2>1. gdb_register(n)' = read_uint32(values[n]) /\ n < 16
    BY <1>12 DEF gdb_register, arm_read_register
  <2>2. RegisterBytes(n)' = write_uint32(read_uint32(values[n]))
    BY <1>6, <2>1 DEF RegisterBytes, write_uint32
  <2> QED
    BY <1>7, <2>2
<1>13. gdb_register(15)' = read_uint32(values[15]) \ {1}
  BY <1>7, <1>11, PcSeenLessFour DEF gdb_register, arm_read_register
<1>14. /\ read_cpsr(reg') \in Word
       /\ read_cpsr(reg') \cap Flags = read_uint32(values[16]) \cap Flags
       /\ in_a_privileged_mode(w) =>
            read_cpsr(reg') \cap Control = Control \cap read_uint32(values[16])
       /\ ~in_a_privileged_mode(w) => read_cpsr(reg') \cap Control = Control \cap read_cpsr(w)
  BY <1>5, <1>6, <1>7, CpsrBits
<1>15. in_a_privileged_mode(w) <=> in_a_privileged_mode(reg)
  BY <1>5 DEF in_a_privileged_mode
<1>16. CpsrRead = read_cpsr(reg)
  <2>1. read_cpsr(reg) \in Word
    BY <1>1 DEF read_cpsr, RegistersSet
  <2> QED
    BY <1>1, <2>1, WrittenUint32 DEF CpsrRead, RegisterBytes
<1>17. CpsrRead' = read_cpsr(reg')
  <2>1. read_uint32(write_uint32(read_cpsr(reg'))) = read_cpsr(reg')
    BY <1>1, <1>14, WrittenUint32
  <2>2. RegisterBytes(16)' = write_uint32(read_cpsr(reg'))
    BY <1>6 DEF RegisterBytes, write_uint32, read_cpsr
  <2>3. CpsrRead' = read_uint32(RegisterBytes(16)')
    BY <1>6 DEF CpsrRead, read_uint32
  <2> QED
    BY <2>1, <2>2, <2>3
<1>18. \A n \in 0..7 : RegisterBytes(n)' = cmd[2][n]
  BY <1>3, <1>9, <1>12
<1>19. get_mode(reg') = get_mode(reg) => \A n \in 8..14 : RegisterBytes(n)' = cmd[2][n]
  BY <1>3, <1>10, <1>12
<1>20. CpsrRead' \cap Control = Control \cap
         (IF in_a_privileged_mode(reg) THEN read_uint32(cmd[2][16]) ELSE CpsrRead)
  BY <1>3, <1>5, <1>14, <1>15, <1>16, <1>17
<1> QED
  BY <1>3, <1>13, <1>14, <1>17, <1>18, <1>19, <1>20

(***************************************************************************)
(* What gdb writes to the registers is what it then reads, and P writes    *)
(* nothing else.                                                           *)
(***************************************************************************)
THEOREM WrittenIsRead == SimSpec => WrittenRegistersAreRead
<1>1. ASSUME SimTyped, SimNext, Handling("P"), gdb' = "scan"
      PROVE  /\ \A n \in 0..16 \ {15, cmd[2]} : RegisterBytes(n)' = RegisterBytes(n)
             /\ cmd[2] # 15 => /\ RegisterBytes(cmd[2])' = cmd[3]
                               /\ gdb_register(15)' = gdb_register(15)
             /\ cmd[2] = 15 => gdb_register(15)' = read_uint32(cmd[3]) \ {1}
             /\ cmd[2] < 10 => read_register_reply(cmd[2])' = Hex(cmd[3])
  BY <1>1, WriteHandlersOnly, RegisterWriteIsRead
<1>2. ASSUME SimTyped, SimNext, Handling("G"), gdb' = "scan"
      PROVE  /\ \A n \in 0..7 : RegisterBytes(n)' = cmd[2][n]
             /\ get_mode(reg') = get_mode(reg) =>
                  \A n \in 8..14 : RegisterBytes(n)' = cmd[2][n]
             /\ gdb_register(15)' = read_uint32(cmd[2][15]) \ {1}
             /\ CpsrRead' \cap Flags = read_uint32(cmd[2][16]) \cap Flags
             /\ CpsrRead' \cap Control = Control \cap
                  (IF in_a_privileged_mode(reg) THEN read_uint32(cmd[2][16]) ELSE CpsrRead)
  BY <1>2, WriteHandlersOnly, GeneralRegistersWriteIsRead
<1> QED
  BY <1>1, <1>2, SimTypedAlways, PTL DEF SimSpec, WrittenRegistersAreRead
============================================================================
