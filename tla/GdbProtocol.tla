---------------------------- MODULE GdbProtocol ----------------------------
(***************************************************************************)
(* gdb_protocol.c: the handlers of the remote protocol.  A command is a    *)
(* tuple whose head is the command letter; a reply is the payload of the   *)
(* packet that answers it.  The hexadecimal digits of a value are given by *)
(* the bytes they stand for, in the order in which they are transmitted.   *)
(***************************************************************************)
EXTENDS ArmInstruction, Sequences

(* The payload letters with a handler.                                     *)
Handled == {"c", "k", "q", "g", "m", "p", "?", "H", "s", "G", "X", "P"}

Text(s) == [kind |-> s, bytes |-> <<>>]
Hex(bytes) == [kind |-> "hex", bytes |-> bytes]

(* write_uint32 and read_uint32: four bytes in the order of the target,    *)
(* which BIG_ENDIAN_SIMULATOR selects here and in memory_create.           *)
(* mutant: the bytes given in the order of the host, a little endian one *)
WriteUint32Host(value) == [i \in 1..4 |-> {b \in 0..7 : b + 8 * (i - 1) \in value}]

write_uint32(value) ==
    [i \in 1..4 |-> {b \in 0..7 : b + LaneShift(mem, 4, i - 1) \in value}]

(* mutant: the bytes taken in the order of the host, a little endian one *)
ReadUint32Host(data) == UNION {{b + 8 * (i - 1) : b \in data[i]} : i \in 1..4}

read_uint32(data) ==
    UNION {{b + LaneShift(mem, 4, i - 1) : b \in data[i]} : i \in 1..4}

gdb_send_stop_reason(exception) ==
    CASE exception = UNDEFINED_INSTRUCTION         -> Text("S04")
      [] exception \in {PREFETCH_ABORT, DATA_ABORT} -> Text("S10")
      [] OTHER                                      -> Text("S05")

(* The pc as gdb is told it: the next instruction.                         *)
gdb_register(n) ==
    IF n = 15 THEN Minus(arm_read_register(reg, 15), Four) ELSE arm_read_register(reg, n)

(* The characters of a reply (a text has at most three, the answer to a    *)
(* query 19), and of the packet that gdb_send_buffer makes of it.          *)
MAX_PACKET_SIZE == 1024
PayloadLength(reply) ==
    CASE reply.kind = "hex"       -> 2 * Len(reply.bytes)
      [] reply.kind = "registers" -> 8 * (16 + 8 * 3 + 2)
      [] reply.kind = "answer"    -> 19
      [] OTHER                    -> 3
PacketLength(reply) == PayloadLength(reply) + 4

----------------------------------------------------------------------------
(* Handlers that only read: the reply. *)

(* R0 to R15 and CPSR; the floating-point places hold no digits.           *)
RegisterBytes(n) == write_uint32(IF n < 16 THEN gdb_register(n) ELSE read_cpsr(reg))

read_general_registers == [kind |-> "registers", bytes |-> [n \in 0..16 |-> RegisterBytes(n)]]

(* size bytes from address on, cut at the first read that fails; the end   *)
(* of the buffer is not looked at.                                         *)
read_memory(address, size) ==
    LET legal == {k \in 0..(size - 1) : \A j \in 0..k : byte_ok(address + j)}
    IN  Hex([i \in 1..Cardinality(legal) |-> memory_read_byte(mem, address + i - 1)])

(* atoi on the hexadecimal digits of n that gdb sends (n < 0x1a): a letter *)
(* ends the number.                                                        *)
atoi(n) == CASE n < 10 -> n [] n \in 10..15 -> 0 [] n \in 16..25 -> n - 6

read_register_reply(n) == Hex(write_uint32(gdb_register(atoi(n))))

set_thread(type, value) ==
    IF type \in {"c", "g"} /\ value \in {-1, 0} THEN Text("OK") ELSE Text("E01")

----------------------------------------------------------------------------
(* Handlers that write: the new registers or memory, and the reply. *)

(* R0 to R15 in order, then CPSR: the registers are those of the mode that *)
(* is current before CPSR is written.                                      *)
RegistersWritten(values) ==
    LET after[n \in 0..16] ==
            IF n = 0 THEN reg
            ELSE write_register(after[n - 1], n - 1, read_uint32(values[n - 1]))
    IN  after

write_general_registers(values) ==
    write_cpsr(RegistersWritten(values)[16], read_uint32(values[16]))

write_register_value(n, data) == write_register(reg, n, read_uint32(data))

(* The content of an X packet with its escapes undone: 0x7d, then the byte *)
(* with bit 5 inverted.                                                    *)
Escape == {0, 2, 3, 4, 5, 6}
UnescapedFrom(content) ==
    LET from[i \in 1..(Len(content) + 2)] ==
            IF i > Len(content) THEN <<>>
            ELSE IF content[i] = Escape /\ i < Len(content)
            THEN <<Xor(content[i + 1], {5})>> \o from[i + 2]
            ELSE <<content[i]>> \o from[i + 1]
    IN  from

Unescaped(content) == UnescapedFrom(content)[1]

(* The bytes are written one by one until a write fails: as many as there  *)
(* are places that memory_write_byte accepts.                              *)
write_memory_binary(address, content) ==
    LET bytes == Unescaped(content)
    IN  IF address < Size
        THEN [mem EXCEPT !.data = [a \in 0..Size |->
                IF a - address + 1 \in DOMAIN bytes THEN bytes[a - address + 1] ELSE @[a]]]
        ELSE mem

write_memory_ok(address, content) ==
    /\ address < Size
    /\ \A i \in 1..Len(Unescaped(content)) : byte_ok(address + i - 1)
============================================================================
