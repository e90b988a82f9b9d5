----------------------------- MODULE Simulator -----------------------------
(***************************************************************************)
(* arm_simulator.c with scanner.l: the gdb thread, the irq thread and the  *)
(* main thread, which share the processor under one mutex.  gdb and        *)
(* send_irq are the environment.  The input of the scanner is a queue of   *)
(* tokens; what it writes to the connection is a sequence of "+", "-" and  *)
(* replies.                                                                *)
(***************************************************************************)
EXTENDS GdbProtocol

CONSTANTS Commands,         \* the packets that gdb sends
          Noise,            \* the other tokens: "+", "-", "bad", "junk"
          Irqs,             \* the exceptions that send_irq sends
          MaxInput,         \* bound: tokens that gdb sends
          MaxIrqs,          \* bound: connections of send_irq
          MaxFds,           \* bound: descriptors left to the irq thread
          MAX_ERROR_SIZE    \* 1024 in scanner.l

(* The packets whose data are written: to a register and to all of them,   *)
(* four bytes each, and to the memory.                                     *)
WellFormed(c) ==
    /\ c[1] = "P" => c[2] \in Nat /\ c[3] \in [1..4 -> Byte]
    /\ c[1] = "G" => c[2] \in [0..16 -> [1..4 -> Byte]]
    /\ c[1] = "X" => c[2] \in Nat /\ c[3] \in Seq(Byte)

ASSUME SimulatorAssumption ==
    /\ \A c \in Commands : WellFormed(c)
    /\ Noise \subseteq {"+", "-", "bad", "junk"}
    /\ Irqs \subseteq Exceptions
    /\ MaxInput \in Nat /\ MaxIrqs \in Nat /\ MaxFds \in Nat
    /\ MAX_ERROR_SIZE \in Nat /\ MAX_ERROR_SIZE >= 2

VARIABLES input, sent,             \* gdb to scanner, and how many tokens
          irqs, irqsSent,          \* connections of send_irq not accepted yet, and how many
          conn, fds,               \* what the accepted one has yet to read; descriptors left
          gdb, cmd, instruction,   \* the gdb thread: place, packet, local of cont
          errors,                  \* parser_data.len
          packet,                  \* the last reply, kept for retransmission
          out, writable,           \* the connection to gdb
          irq, byte,               \* the irq thread: place and irq
          main, lock, ended

irqNet  == <<irqs, irqsSent, conn, fds>>
netVars == <<input, sent, irqNet>>
gdbVars == <<gdb, cmd, instruction, errors, packet, out, writable>>
simVars == <<vars, netVars, gdbVars, irq, byte, main, lock, ended>>

NoReply == Text("none")
Eof     == <<"eof">>

SimInit ==
    /\ Init
    /\ input = <<>> /\ sent = 0 /\ irqs = <<>> /\ irqsSent = 0
    /\ conn = <<>> /\ fds = MaxFds
    /\ gdb = "scan" /\ cmd = Eof /\ instruction = Zero
    /\ errors = 0 /\ packet = NoReply /\ out = <<>> /\ writable = TRUE
    /\ irq = "accept" /\ byte = 0
    /\ main = "join" /\ lock = "free" /\ ended = FALSE

----------------------------------------------------------------------------
(* The environment. *)

(* gdb sends a token, or closes the connection.                            *)
ClientSends(t) ==
    /\ ~ended /\ sent < MaxInput /\ ~(\E i \in DOMAIN input : input[i] = Eof)
    /\ input' = Append(input, t) /\ sent' = IF t = Eof THEN MaxInput ELSE sent + 1
    /\ UNCHANGED <<vars, irqNet, gdbVars, irq, byte, main, lock, ended>>

(* send_irq connects, writes its byte and disconnects, or is killed before *)
(* it writes.                                                              *)
SendIrq(bytes) ==
    /\ ~ended /\ irqsSent < MaxIrqs
    /\ irqs' = Append(irqs, bytes) /\ irqsSent' = irqsSent + 1
    /\ UNCHANGED <<vars, input, sent, conn, fds, gdbVars, irq, byte, main, lock, ended>>

----------------------------------------------------------------------------
(* The gdb thread. *)

(* Writing to the connection; after shutdown(SHUT_WR) it ends the process  *)
(* (SIGPIPE).                                                              *)
Transmit(tokens) ==
    /\ out' = IF writable THEN out \o tokens ELSE out
    /\ ended' = (~writable /\ tokens # <<>>)

handle_error == IF errors > 0 THEN <<"-">> ELSE <<>>

Scan(t) ==
    /\ ~ended /\ gdb = "scan" /\ input # <<>> /\ Head(input) = t
    /\ input' = Tail(input)
    /\ UNCHANGED <<vars, sent, irqNet, instruction, writable, irq, byte, main, lock>>

ScanAck ==
    /\ Scan(<<"+">>) /\ Transmit(handle_error) /\ errors' = 0
    /\ UNCHANGED <<gdb, cmd, packet>>

ScanRetransmit ==
    /\ Scan(<<"-">>) /\ errors' = 0
    /\ Transmit(handle_error \o (IF packet = NoReply THEN <<>> ELSE <<packet>>))
    /\ UNCHANGED <<gdb, cmd, packet>>

(* gdb_packet_analysis, with a wrong checksum.                             *)
ScanBadPacket ==
    /\ Scan(<<"bad">>) /\ Transmit(handle_error \o <<"-">>) /\ errors' = 0
    /\ UNCHANGED <<gdb, cmd, packet>>

(* ... with a handler: it waits for the lock.                              *)
ScanPacket(c) ==
    /\ c[1] \in Handled
    /\ Scan(c) /\ Transmit(handle_error \o <<"+">>) /\ errors' = 0
    /\ gdb' = "lock" /\ cmd' = c
    /\ UNCHANGED packet

(* ... with none: the empty answer.                                        *)
ScanUnsupported(c) ==
    /\ c[1] \notin Handled
    /\ Scan(c) /\ Transmit(handle_error \o <<"+", Text("")>>) /\ errors' = 0
    /\ packet' = Text("")
    /\ UNCHANGED <<gdb, cmd>>

(* mutant: the buffer flushed one character too late *)
AddCharacterTooLate ==
    /\ Scan(<<"junk">>)
    /\ IF errors > MAX_ERROR_SIZE - 1
       THEN Transmit(handle_error) /\ errors' = 1
       ELSE Transmit(<<>>) /\ errors' = errors + 1
    /\ UNCHANGED <<gdb, cmd, packet>>

add_character_to_error ==
    /\ Scan(<<"junk">>)
    /\ IF errors > MAX_ERROR_SIZE - 2
       THEN Transmit(handle_error) /\ errors' = 1
       ELSE Transmit(<<>>) /\ errors' = errors + 1
    /\ UNCHANGED <<gdb, cmd, packet>>

ScanEof ==
    /\ Scan(Eof) /\ Transmit(handle_error) /\ errors' = 0
    /\ gdb' = "exited"
    /\ UNCHANGED <<cmd, packet>>

(* The handler starts; cont's local instruction is not initialised.        *)
GdbLock ==
    /\ ~ended /\ gdb = "lock" /\ lock = "free"
    /\ lock' = "gdb"
    /\ gdb' = IF cmd[1] = "c" THEN "cont" ELSE "handle"
    /\ IF cmd[1] = "c" THEN instruction' \in Stale ELSE UNCHANGED instruction
    /\ UNCHANGED <<vars, netVars, cmd, errors, packet, out, writable, irq, byte, main, ended>>

(* The handler answers and the lock is released.                           *)
Answer(reply) ==
    /\ packet' = reply /\ Transmit(<<reply>>)
    /\ lock' = "free" /\ gdb' = "scan"
    /\ UNCHANGED <<netVars, cmd, instruction, errors, writable, irq, byte, main>>

Handling(letter) == ~ended /\ gdb = "handle" /\ cmd[1] = letter

HandleRead ==
    /\ \/ Handling("g") /\ Answer(read_general_registers)
       \/ Handling("m") /\ Answer(read_memory(cmd[2], cmd[3]))
       \/ Handling("p") /\ atoi(cmd[2]) < 16 /\ Answer(read_register_reply(cmd[2]))
       \/ Handling("?") /\ Answer(gdb_send_stop_reason(result))
       \/ Handling("H") /\ Answer(set_thread(cmd[2], cmd[3]))
       \/ Handling("q") /\ Answer(Text("answer"))
    /\ UNCHANGED vars

(* assert(reg < 16) in read_register and write_register.                   *)
AssertFails ==
    /\ \/ Handling("p") /\ atoi(cmd[2]) >= 16
       \/ Handling("P") /\ cmd[2] >= 16
    /\ ended' = TRUE
    /\ UNCHANGED <<vars, netVars, gdbVars, irq, byte, main, lock>>

HandleWriteRegister ==
    /\ Handling("P") /\ cmd[2] < 16
    /\ reg' = write_register_value(cmd[2], cmd[3]) /\ Answer(Text("OK"))
    /\ UNCHANGED <<mem, result>>

HandleWriteGeneralRegisters ==
    /\ Handling("G")
    /\ reg' = write_general_registers(cmd[2]) /\ Answer(Text("OK"))
    /\ UNCHANGED <<mem, result>>

HandleWriteMemory ==
    /\ Handling("X")
    /\ mem' = write_memory_binary(cmd[2], cmd[3])
    /\ Answer(IF write_memory_ok(cmd[2], cmd[3]) THEN Text("OK") ELSE Text("E02"))
    /\ UNCHANGED <<reg, result>>

(* mutant: the handler returns with the lock held *)
KillKeepsLock ==
    /\ Handling("k")
    /\ writable' = FALSE /\ gdb' = "scan"
    /\ UNCHANGED <<vars, netVars, cmd, instruction, errors, packet, out, irq, byte, main, lock, ended>>

HandleKill ==
    /\ Handling("k")
    /\ writable' = FALSE /\ lock' = "free" /\ gdb' = "scan"
    /\ UNCHANGED <<vars, netVars, cmd, instruction, errors, packet, out, irq, byte, main, ended>>

(* An instruction that exits ends the process, the lock being held.        *)
Exits ==
    /\ result' = EXIT /\ ended' = TRUE
    /\ UNCHANGED <<netVars, gdbVars, irq, byte, main, lock>>

HandleStep ==
    /\ Handling("s") /\ Next
    /\ Exits \/ (result' # EXIT /\ Answer(gdb_send_stop_reason(result')))

(* The opcodes that gdb plants as breakpoints: 0xE7F...F.                  *)
IsBreakpoint(ins) == ins \cap (20..31 \cup 4..7) = 29..31 \cup 20..26 \cup 4..7

(* cont looks at the next instruction (which stays what it was if the read *)
(* fails) ...                                                              *)
ContLooks ==
    /\ ~ended /\ gdb = "cont"
    /\ instruction' = IF FetchOk(reg) THEN memory_read_word(mem, AddressOf(FetchAddress(reg)))
                                      ELSE instruction
    /\ gdb' = IF IsBreakpoint(instruction') THEN "stop" ELSE "step"
    /\ UNCHANGED <<vars, netVars, cmd, errors, packet, out, writable, irq, byte, main, lock, ended>>

(* ... and executes it ...                                                 *)
ContSteps ==
    /\ ~ended /\ gdb = "step" /\ Next
    /\ Exits \/ (/\ result' # EXIT /\ gdb' = "cont"
                 /\ UNCHANGED <<netVars, cmd, instruction, errors, packet, out, writable,
                                irq, byte, main, lock, ended>>)

(* ... or stops in front of a breakpoint.                                  *)
ContStops ==
    /\ ~ended /\ gdb = "stop"
    /\ Answer(gdb_send_stop_reason(result))
    /\ UNCHANGED vars

(* The last packet and its NUL are inside the buffer.  What the gdb thread *)
(* does after an overrun is not followed.                                  *)
Intact == PacketLength(packet) + 1 <= MAX_PACKET_SIZE

gdb_listener ==
    /\ Intact
    /\ \/ ScanAck \/ ScanRetransmit \/ ScanBadPacket \/ add_character_to_error \/ ScanEof
       \/ \E c \in Commands : ScanPacket(c) \/ ScanUnsupported(c)
       \/ GdbLock
       \/ HandleRead \/ AssertFails \/ HandleWriteRegister \/ HandleWriteGeneralRegisters
       \/ HandleWriteMemory \/ HandleKill \/ HandleStep
       \/ ContLooks \/ ContSteps \/ ContStops

----------------------------------------------------------------------------
(* The irq thread. *)

(* mutant: the irq thread ends with its first connection *)
IrqAcceptsOnce ==
    /\ ~ended /\ irq = "accept" /\ irqs # <<>> /\ fds = MaxFds
    /\ conn' = Head(irqs) /\ irqs' = Tail(irqs) /\ fds' = fds - 1 /\ irq' = "read"
    /\ UNCHANGED <<vars, input, sent, irqsSent, gdbVars, byte, main, lock, ended>>

IrqAccepts ==
    /\ ~ended /\ irq = "accept" /\ irqs # <<>> /\ fds > 0
    /\ conn' = Head(irqs) /\ irqs' = Tail(irqs) /\ fds' = fds - 1 /\ irq' = "read"
    /\ UNCHANGED <<vars, input, sent, irqsSent, gdbVars, byte, main, lock, ended>>

(* No connection is ever closed: without a descriptor Accept fails, and    *)
(* its wrapper ends the process.                                           *)
IrqAcceptFails ==
    /\ ~ended /\ irq = "accept" /\ fds = 0
    /\ ended' = TRUE
    /\ UNCHANGED <<vars, netVars, gdbVars, irq, byte, main, lock>>

IrqReads ==
    /\ ~ended /\ irq = "read" /\ conn # <<>>
    /\ byte' = Head(conn) /\ conn' = Tail(conn) /\ irq' = "lock"
    /\ UNCHANGED <<vars, input, sent, irqs, irqsSent, fds, gdbVars, main, lock, ended>>

(* The end of the connection, which is only shut down.                     *)
IrqReadsEnd ==
    /\ ~ended /\ irq = "read" /\ conn = <<>>
    /\ irq' = "accept"
    /\ UNCHANGED <<vars, netVars, gdbVars, byte, main, lock, ended>>

(* mutant: the exception is raised without the lock *)
IrqNoLock ==
    /\ ~ended /\ irq = "lock" /\ irq' = "deliver"
    /\ UNCHANGED <<vars, netVars, gdbVars, byte, main, lock, ended>>

IrqLock ==
    /\ ~ended /\ irq = "lock" /\ lock = "free"
    /\ lock' = "irq" /\ irq' = "deliver"
    /\ UNCHANGED <<vars, netVars, gdbVars, byte, main, ended>>

(* mutant: the unlock is forgotten *)
IrqKeepsLock ==
    /\ ~ended /\ irq = "deliver"
    /\ reg' = IF main = "join" THEN arm_exception(reg, byte) ELSE reg
    /\ irq' = "read"
    /\ UNCHANGED <<mem, result, netVars, gdbVars, byte, main, lock, ended>>

(* arm_exception, then unlock.  What it does to a processor that main has  *)
(* destroyed is not modelled.                                              *)
IrqDelivers ==
    /\ ~ended /\ irq = "deliver"
    /\ reg' = IF main = "join" THEN arm_exception(reg, byte) ELSE reg
    /\ lock' = "free" /\ irq' = "read"
    /\ UNCHANGED <<mem, result, netVars, gdbVars, byte, main, ended>>

irq_listener ==
    IrqAccepts \/ IrqAcceptFails \/ IrqReads \/ IrqReadsEnd \/ IrqLock \/ IrqDelivers

----------------------------------------------------------------------------
(* The main thread, after pthread_create: join, the two destroys, return.  *)
MainStep(from, to) ==
    /\ ~ended /\ main = from /\ main' = to
    /\ UNCHANGED <<vars, netVars, gdbVars, irq, byte, lock>>

(* mutant: main joins both threads *)
MainJoinsBoth ==
    gdb = "exited" /\ irq = "exited" /\ MainStep("join", "arm_destroyed") /\ UNCHANGED ended

MainJoins    == gdb = "exited" /\ MainStep("join", "arm_destroyed") /\ UNCHANGED ended
MainFreesMem == MainStep("arm_destroyed", "memory_destroyed") /\ UNCHANGED ended
MainReturns  == MainStep("memory_destroyed", "returned") /\ ended' = TRUE

main_thread == MainJoins \/ MainFreesMem \/ MainReturns

Environment ==
    \/ \E t \in Commands \cup {<<n>> : n \in Noise} \cup {Eof} : ClientSends(t)
    \/ \E bytes \in {<<e>> : e \in Irqs} \cup {<<>>} : SendIrq(bytes)

SimNext == Environment \/ gdb_listener \/ irq_listener \/ main_thread

(* The gdb thread has a step to take: ENABLED gdb_listener, since a        *)
(* handler, and an arm_step in it, is never blocked.                       *)
GdbReady ==
    /\ ~ended /\ Intact
    /\ \/ gdb = "scan" /\ input # <<>>
       \/ gdb = "lock" /\ lock = "free"
       \/ gdb \in {"handle", "cont", "step", "stop"}

(* The three threads are scheduled fairly by the system (the first line is *)
(* weak fairness of gdb_listener, with ENABLED written out); gdb and       *)
(* send_irq promise nothing, and neither does the mutex.                   *)
SimFairness ==
    /\ []<>~GdbReady \/ []<><<gdb_listener>>_simVars
    /\ WF_simVars(irq_listener)
    /\ WF_simVars(main_thread)

SimSpec == SimInit /\ [][SimNext]_simVars /\ SimFairness

----------------------------------------------------------------------------
(* The threads are where their code can be, and the processor is typed.    *)
SimTypeOK ==
    /\ ProcessorTypeOK
    /\ gdb \in {"scan", "lock", "handle", "cont", "step", "stop", "exited"}
    /\ irq \in {"accept", "read", "lock", "deliver"}
    /\ main \in {"join", "arm_destroyed", "memory_destroyed", "returned"}
    /\ lock \in {"free", "gdb", "irq"}
    /\ instruction \in Word /\ byte \in {0} \cup Exceptions
    /\ ended \in BOOLEAN /\ writable \in BOOLEAN

(* cont never executes a breakpoint: what it saw is what it executes, even *)
(* when an exception moves the pc, because that waits for the lock.  (An   *)
(* instruction that exits leaves cont with nothing more to execute.)       *)
BreakpointNotExecuted ==
    gdb = "step" /\ ~ended /\ FetchOk(reg) =>
        \A ins \in Opcodes(reg, mem) : ~IsBreakpoint(ins)

(* CPSR as g returns it.                                                   *)
CpsrRead == read_uint32(RegisterBytes(16))

Flags   == 27..31             \* N, Z, C, V, Q
Control == 0..4 \cup {6, 7}   \* the mode, and the masks of the interrupts

(* What P and G wrote is what g then returns, byte for byte and for both   *)
(* endiannesses (the pc compared as a word, and but for its bit 1).  P     *)
(* changes no other register, and p returns what it wrote too (for R0 to   *)
(* R9: p reads its number in decimal).  After G, R8 to R14 are those of    *)
(* the mode that its CPSR selects, so that they come back if it keeps the  *)
(* mode; the flags of CPSR always do, mode and masks unless the mode was   *)
(* User.                                                                   *)
WrittenRegistersAreRead ==
    [][/\ Handling("P") /\ gdb' = "scan" =>
            /\ \A n \in 0..16 \ {15, cmd[2]} : RegisterBytes(n)' = RegisterBytes(n)
            /\ cmd[2] # 15 => /\ RegisterBytes(cmd[2])' = cmd[3]
                              /\ gdb_register(15)' = gdb_register(15)
            /\ cmd[2] = 15 => gdb_register(15)' = read_uint32(cmd[3]) \ {1}
            /\ cmd[2] < 10 => read_register_reply(cmd[2])' = Hex(cmd[3])
       /\ Handling("G") /\ gdb' = "scan" =>
            /\ \A n \in 0..7 : RegisterBytes(n)' = cmd[2][n]
            /\ get_mode(reg') = get_mode(reg) =>
                 \A n \in 8..14 : RegisterBytes(n)' = cmd[2][n]
            /\ gdb_register(15)' = read_uint32(cmd[2][15]) \ {1}
            /\ CpsrRead' \cap Flags = read_uint32(cmd[2][16]) \cap Flags
            /\ CpsrRead' \cap Control = Control \cap
                 (IF in_a_privileged_mode(reg) THEN read_uint32(cmd[2][16]) ELSE CpsrRead)
      ]_simVars

(* The bytes that m returns for a word are those that g would return for a *)
(* register holding it: gdb sees one byte order.                           *)
OneByteOrder ==
    \A a \in Address : word_ok(a) =>
        read_memory(a, 4).bytes = write_uint32(memory_read_word(mem, a))

(* The error buffer has room for its terminating NUL, however much noise   *)
(* the connection carries.                                                 *)
ErrorBufferFits == errors < MAX_ERROR_SIZE

(* Every packet that has a handler is handled to the end.                  *)
CommandsComplete == (gdb = "lock") ~> (gdb \in {"scan", "exited"} \/ ended)

(* README.md: send_irq is a "small command to send exception to a running  *)
(* simulator": whatever connects is served, so that the exceptions sent    *)
(* are raised, unless the process ends.                                    *)
Served == irqsSent - Len(irqs) - (IF irq = "accept" THEN 0 ELSE 1)
IrqsDelivered == \A n \in 1..MaxIrqs : (irqsSent >= n) ~> (Served >= n \/ ended)

(* When gdb disconnects the process ends, although the irq thread never    *)
(* does.                                                                   *)
DisconnectEndsProcess == (gdb = "exited") ~> ended

----------------------------------------------------------------------------
(* What the repository says and the code does not do. *)

(* registers.h, registers_destroy (called by arm_destroy): "libere la      *)
(* memoire allouee aux registres donnes, les efface": no thread may use    *)
(* them after that.                                                        *)
NoUseAfterDestroy == irq = "deliver" /\ ~ended => main = "join"

(* gdb_protocol.c, query: "PacketSize=400": gdb may expect answers of that *)
(* many characters (0x400), so that one must fit into the buffer.          *)
PacketFits == Intact
============================================================================
