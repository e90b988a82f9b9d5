------------------------------- MODULE Memory -------------------------------
(***************************************************************************)
(* memory.c: the simulated memory.  A memory is a record value, every      *)
(* function of the C module is an operator on it (the C names are kept).   *)
(* A byte is the set of its 1 bits, as in Words.  data has one cell more   *)
(* than the allocated array: data[Size] is the foreign byte behind it.     *)
(***************************************************************************)
EXTENDS Words

CONSTANTS Size,            \* bytes allocated: 0x20000 in arm_simulator.c
          AddressSpace,    \* 2^32 in the code; smaller in the checked instances
          Bytes, Halves, MemWords   \* the values written

ASSUME MemoryAssumption ==
    /\ Size \in Nat /\ Size > 0 /\ Size % 4 = 0
    /\ AddressSpace \in Nat /\ AddressSpace % 4 = 0 /\ AddressSpace > Size + 4
    /\ Bytes \subseteq SUBSET (0..7)
    /\ Halves \subseteq SUBSET (0..15)
    /\ MemWords \subseteq Word

Byte    == SUBSET (0..7)
Address == 0..(AddressSpace - 1)

MemorySet == [big_endian : BOOLEAN, data : [0..Size -> Byte]]

(* calloc zeroes the array; what is behind it is whatever the heap holds.  *)
(* (The struct itself is allocated with the size of a pointer, less than   *)
(* it needs: what the heap makes of that is not modelled.)                 *)
memory_create(big_endian, foreign) ==
    [big_endian |-> big_endian,
     data |-> [a \in 0..Size |-> IF a < Size THEN Zero ELSE foreign]]

(* address + k in uint32_t arithmetic, for k < 4.                          *)
Offset(address, k) ==
    IF address + k < AddressSpace THEN address + k ELSE address + k - AddressSpace

(* The conditions under which the accesses do not return -1.               *)
byte_ok(address) == address <= Size
half_ok(address) == address % 2 = 0 /\ Offset(address, 1) <= Size

(* mutant: the alignment test dropped *)
WordUnaligned(address) == Offset(address, 3) <= Size

word_ok(address) == address % 4 = 0 /\ Offset(address, 3) <= Size

----------------------------------------------------------------------------
(* The byte at offset i of an n-byte value holds its bits from this shift  *)
(* on: 8 * (n-1), ..., 8, 0 for a big endian memory, the reverse else.     *)
LaneShift(m, n, i) == 8 * (IF m.big_endian THEN n - 1 - i ELSE i)

(* mutant: the value is not narrowed to a byte *)
StoreWhole(m, address, n, value) ==
    [m EXCEPT !.data = [a \in 0..Size |->
        IF a \in address..(address + n - 1)
        THEN {b \in Bit : b + LaneShift(m, n, a - address) \in value}
        ELSE @[a]]]

(* mutant: a little endian memory stores as a big endian one *)
StoreBigEndian(m, address, n, value) ==
    [m EXCEPT !.data = [a \in 0..Size |->
        IF a \in address..(address + n - 1)
        THEN {b \in 0..7 : b + 8 * (n - 1 - (a - address)) \in value}
        ELSE @[a]]]

(* The assignments of the bytes address .. address+n-1.                    *)
Store(m, address, n, value) ==
    [m EXCEPT !.data = [a \in 0..Size |->
        IF a \in address..(address + n - 1)
        THEN {b \in 0..7 : b + LaneShift(m, n, a - address) \in value}
        ELSE @[a]]]

Load(m, address, n) ==
    UNION {{b + LaneShift(m, n, i) : b \in m.data[address + i]} : i \in 0..(n - 1)}

(* The reads, where they succeed; elsewhere *value is left alone.          *)
memory_read_byte(m, address) == m.data[address]

(* mutant: a half-word is always read as from a big endian memory *)
ReadHalfSwapped(m, address) ==
    {b + 8 : b \in m.data[address]} \cup m.data[address + 1]

memory_read_half(m, address) == Load(m, address, 2)
memory_read_word(m, address) == Load(m, address, 4)

(* The writes: m is unchanged where they return -1.                        *)
memory_write_byte(m, address, value) ==
    IF byte_ok(address) THEN [m EXCEPT !.data[address] = value] ELSE m

memory_write_half(m, address, value) ==
    IF half_ok(address) THEN Store(m, address, 2, value) ELSE m
memory_write_word(m, address, value) ==
    IF word_ok(address) THEN Store(m, address, 4, value) ELSE m

----------------------------------------------------------------------------
VARIABLE mem

MemInit == \E big_endian \in BOOLEAN, foreign \in Bytes :
               mem = memory_create(big_endian, foreign)

WriteByte(a, v) == mem' = memory_write_byte(mem, a, v)
WriteHalf(a, v) == mem' = memory_write_half(mem, a, v)
WriteWord(a, v) == mem' = memory_write_word(mem, a, v)

MemNext ==
    \/ \E a \in Address, v \in Bytes : WriteByte(a, v)
    \/ \E a \in Address, v \in Halves : WriteHalf(a, v)
    \/ \E a \in Address, v \in MemWords : WriteWord(a, v)

MemSpec == MemInit /\ [][MemNext]_mem

----------------------------------------------------------------------------
(* The memory is Size bytes and the foreign one, of the given endianness.  *)
MemTypeOK == mem \in MemorySet

(* A word read is the two half-words read at its place, and those are the  *)
(* bytes read there, most significant first if and only if the memory is   *)
(* big endian; so the three access sizes see one and the same memory       *)
(* (memory_test.c checks the value 0x11223344 at address 0).               *)
SizesAgree ==
    LET Join(hi, lo, width) == {b + width : b \in hi} \cup lo IN
    /\ \A a \in Address : half_ok(a) =>
         LET b0 == memory_read_byte(mem, a)
             b1 == memory_read_byte(mem, a + 1)
         IN  memory_read_half(mem, a) =
               IF mem.big_endian THEN Join(b0, b1, 8) ELSE Join(b1, b0, 8)
    /\ \A a \in Address : word_ok(a) =>
         LET h0 == memory_read_half(mem, a)
             h1 == memory_read_half(mem, a + 2)
         IN  memory_read_word(mem, a) =
               IF mem.big_endian THEN Join(h0, h1, 16) ELSE Join(h1, h0, 16)

(* What was written is read back with the same access, and every byte      *)
(* outside the access is left alone.                                       *)
WritesReadBack ==
    [][/\ \A a \in Address, v \in Halves : WriteHalf(a, v) /\ half_ok(a) =>
            /\ memory_read_half(mem', a) = v
            /\ \A b \in 0..Size \ a..(a + 1) : mem'.data[b] = mem.data[b]
       /\ \A a \in Address, v \in MemWords : WriteWord(a, v) /\ word_ok(a) =>
            /\ memory_read_word(mem', a) = v
            /\ \A b \in 0..Size \ a..(a + 3) : mem'.data[b] = mem.data[b]]_mem

(* The half-word and word accesses that succeed lie inside the memory: the *)
(* alignment tests make the bounds exact and keep address+1 and address+3  *)
(* from wrapping around 2^32.  Only a byte written at address Size, which  *)
(* memory_write_byte lets pass, reaches the byte behind the memory.        *)
MultiByteInside ==
    [][/\ \A a \in Address \ {Size}, v \in Bytes :
            WriteByte(a, v) => mem'.data[Size] = mem.data[Size]
       /\ \A a \in Address, v \in Halves : WriteHalf(a, v) => mem'.data[Size] = mem.data[Size]
       /\ \A a \in Address, v \in MemWords : WriteWord(a, v) => mem'.data[Size] = mem.data[Size]]_mem
============================================================================
