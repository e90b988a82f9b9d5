---------------------------- MODULE MemoryProofs ----------------------------
(* Proofs about memory.c, for every size, address space and set of values. *)
EXTENDS Memory, TLAPS

(* Storing bytes of any value keeps the memory well formed.                *)
LEMMA StoreIsTyped ==
    ASSUME NEW m \in MemorySet, NEW a, NEW n, NEW v
    PROVE  Store(m, a, n, v) \in MemorySet
BY DEF Store, MemorySet, Byte

(* The bounds are exact: an aligned access that is accepted ends inside.   *)
LEMMA HalfInside ==
    ASSUME NEW a \in Address, half_ok(a)
    PROVE  a + 1 < Size
<1>1. a + 1 < AddressSpace
  BY MemoryAssumption DEF Address, half_ok
<1> QED
  BY <1>1, MemoryAssumption DEF half_ok, Offset, Address

(* A word that memory.c accepts lies inside the array.                     *)
LEMMA WordInside ==
    ASSUME NEW a \in Address, word_ok(a)
    PROVE  a + 3 < Size
<1>1. a + 3 < AddressSpace
  BY MemoryAssumption DEF Address, word_ok
<1> QED
  BY <1>1, MemoryAssumption DEF word_ok, Offset, Address

(* The memory stays well formed whatever is written to it.                 *)
THEOREM MemTypeCorrect == MemSpec => []MemTypeOK
<1>1. MemInit => MemTypeOK
  BY MemoryAssumption DEF MemInit, MemTypeOK, memory_create, MemorySet, Byte, Zero
<1>2. MemTypeOK /\ [MemNext]_mem => MemTypeOK'
  <2> SUFFICES ASSUME MemTypeOK, [MemNext]_mem
               PROVE  MemTypeOK'
    OBVIOUS
  <2> USE DEF MemTypeOK
  <2>1. ASSUME NEW a \in Address, NEW v \in Bytes, WriteByte(a, v)
        PROVE  MemTypeOK'
    BY <2>1, MemoryAssumption DEF WriteByte, memory_write_byte, byte_ok, MemorySet, Byte
  <2>2. ASSUME NEW a \in Address, NEW v \in Halves, WriteHalf(a, v)
        PROVE  MemTypeOK'
    BY <2>2, StoreIsTyped DEF WriteHalf, memory_write_half
  <2>3. ASSUME NEW a \in Address, NEW v \in MemWords, WriteWord(a, v)
        PROVE  MemTypeOK'
    BY <2>3, StoreIsTyped DEF WriteWord, memory_write_word
  <2>4. CASE UNCHANGED mem
    BY <2>4
  <2> QED
    BY <2>1, <2>2, <2>3, <2>4 DEF MemNext
<1> QED
  BY <1>1, <1>2, PTL DEF MemSpec

(* No half-word or word write reaches the byte behind the memory, and no   *)
(* byte write but the one at address Size.                                 *)
THEOREM MultiByteStaysInside == MemSpec => MultiByteInside
<1> DEFINE Inside ==
      /\ \A a \in Address \ {Size}, v \in Bytes :
           WriteByte(a, v) => mem'.data[Size] = mem.data[Size]
      /\ \A a \in Address, v \in Halves : WriteHalf(a, v) => mem'.data[Size] = mem.data[Size]
      /\ \A a \in Address, v \in MemWords : WriteWord(a, v) => mem'.data[Size] = mem.data[Size]
<1>1. MemTypeOK /\ [MemNext]_mem => [Inside]_mem
  <2> SUFFICES ASSUME MemTypeOK PROVE Inside
    OBVIOUS
  <2>1. ASSUME NEW a \in Address, NEW v \in Halves, WriteHalf(a, v)
        PROVE  mem'.data[Size] = mem.data[Size]
    <3>1. CASE half_ok(a)
      BY <2>1, <3>1, HalfInside, MemoryAssumption
      DEF WriteHalf, memory_write_half, Store, MemTypeOK, MemorySet, Address
    <3>2. CASE ~half_ok(a)
      BY <2>1, <3>2 DEF WriteHalf, memory_write_half
    <3> QED
      BY <3>1, <3>2
  <2>2. ASSUME NEW a \in Address, NEW v \in MemWords, WriteWord(a, v)
        PROVE  mem'.data[Size] = mem.data[Size]
    <3>1. CASE word_ok(a)
      BY <2>2, <3>1, WordInside, MemoryAssumption
      DEF WriteWord, memory_write_word, Store, MemTypeOK, MemorySet, Address
    <3>2. CASE ~word_ok(a)
      BY <2>2, <3>2 DEF WriteWord, memory_write_word
    <3> QED
      BY <3>1, <3>2
  <2>3. ASSUME NEW a \in Address \ {Size}, NEW v \in Bytes, WriteByte(a, v)
        PROVE  mem'.data[Size] = mem.data[Size]
    BY <2>3, MemoryAssumption
    DEF WriteByte, memory_write_byte, byte_ok, MemTypeOK, MemorySet, Address
  <2> QED
    BY <2>1, <2>2, <2>3
<1> QED
  BY <1>1, MemTypeCorrect, PTL DEF MemSpec, MultiByteInside

----------------------------------------------------------------------------
(* A value that is read is the union of its lanes, one for each byte.      *)
Lane(m, n, a, i) == {b + LaneShift(m, n, i) : b \in m.data[a + i]}

(* memory_read_half and memory_read_word, lane by lane.                    *)
LEMMA LoadIsLanes ==
    ASSUME NEW m, NEW a \in Address
    PROVE  /\ Load(m, a, 2) = Lane(m, 2, a, 0) \cup Lane(m, 2, a, 1)
           /\ Load(m, a, 4) = Lane(m, 4, a, 0) \cup Lane(m, 4, a, 1)
                                \cup Lane(m, 4, a, 2) \cup Lane(m, 4, a, 3)
<1>1. 0..(2 - 1) = {0, 1} /\ 0..(4 - 1) = {0, 1, 2, 3}
  OBVIOUS
<1>2. Load(m, a, 2) = UNION {Lane(m, 2, a, i) : i \in {0, 1}}
  BY <1>1 DEF Load, Lane
<1>3. Load(m, a, 4) = UNION {Lane(m, 4, a, i) : i \in {0, 1, 2, 3}}
  BY <1>1 DEF Load, Lane
<1> QED
  BY <1>2, <1>3

(* Two lanes of a half-word moved by 16 are two lanes of a word.           *)
LEMMA HigherLanes ==
    ASSUME NEW lo, lo \subseteq 0..7, NEW hi, hi \subseteq 0..7
    PROVE  {c + 16 : c \in {b + 0 : b \in lo} \cup {b + 8 : b \in hi}}
             = {b + 16 : b \in lo} \cup {b + 24 : b \in hi}
<1> DEFINE half == {b + 0 : b \in lo} \cup {b + 8 : b \in hi}
<1>1. \A x : x \in half <=> (\E b \in lo : x = b) \/ (\E b \in hi : x = b + 8)
  OBVIOUS
<1>2. ASSUME NEW b \in lo PROVE b \in half /\ b + 16 \in {c + 16 : c \in half}
  BY <1>1
<1>3. ASSUME NEW b \in hi PROVE b + 24 \in {c + 16 : c \in half}
  <2>1. b + 8 \in half /\ (b + 8) + 16 = b + 24
    BY <1>1
  <2> HIDE DEF half
  <2> QED
    BY <2>1
<1>4. ASSUME NEW c \in half
      PROVE  c + 16 \in {b + 16 : b \in lo} \cup {b + 24 : b \in hi}
  <2>1. CASE \E b \in lo : c = b
    BY <2>1
  <2>2. CASE \E b \in hi : c = b + 8
    <3>1. PICK b \in hi : c = b + 8
      BY <2>2
    <3>2. c + 16 = b + 24
      BY <3>1
    <3> QED
      BY <3>2
  <2> QED
    BY <1>1, <2>1, <2>2
<1> HIDE DEF half
<1>5. {c + 16 : c \in half} = {b + 16 : b \in lo} \cup {b + 24 : b \in hi}
  BY <1>2, <1>3, <1>4
<1> QED
  BY <1>5 DEF half

(* The three access sizes read one memory.                                 *)
LEMMA SizesAgreeAlways == MemTypeOK => SizesAgree
<1> SUFFICES ASSUME MemTypeOK PROVE SizesAgree
  OBVIOUS
<1> DEFINE Join(hi, lo, width) == {b + width : b \in hi} \cup lo
<1>1. ASSUME NEW a \in Address, half_ok(a)
      PROVE  memory_read_half(mem, a) =
               IF mem.big_endian THEN Join(mem.data[a], mem.data[a + 1], 8)
                                 ELSE Join(mem.data[a + 1], mem.data[a], 8)
  <2>1. mem.data[a] \subseteq 0..7 /\ mem.data[a + 1] \subseteq 0..7
    BY <1>1, HalfInside, MemoryAssumption DEF MemTypeOK, MemorySet, Byte, Address
  <2>2. Load(mem, a, 2) = Lane(mem, 2, a, 0) \cup Lane(mem, 2, a, 1)
    BY LoadIsLanes
  <2>3. CASE mem.big_endian
    <3>1. /\ Lane(mem, 2, a, 0) = {b + 8 : b \in mem.data[a]}
          /\ Lane(mem, 2, a, 1) = mem.data[a + 1]
      BY <2>1, <2>3 DEF Lane, LaneShift, Address
    <3> QED
      BY <2>2, <2>3, <3>1 DEF memory_read_half
  <2>4. CASE ~mem.big_endian
    <3>1. /\ Lane(mem, 2, a, 0) = mem.data[a]
          /\ Lane(mem, 2, a, 1) = {b + 8 : b \in mem.data[a + 1]}
      BY <2>1, <2>4 DEF Lane, LaneShift, Address
    <3> QED
      BY <2>2, <2>4, <3>1 DEF memory_read_half
  <2> QED
    BY <2>3, <2>4
<1>2. ASSUME NEW a \in Address, word_ok(a)
      PROVE  memory_read_word(mem, a) =
               IF mem.big_endian
               THEN Join(memory_read_half(mem, a), memory_read_half(mem, a + 2), 16)
               ELSE Join(memory_read_half(mem, a + 2), memory_read_half(mem, a), 16)
  <2>1. a + 2 \in Address /\ a + 3 < Size
    BY <1>2, WordInside, MemoryAssumption DEF Address
  <2>2. \A i \in 0..3 : mem.data[a + i] \subseteq 0..7
    BY <2>1, MemoryAssumption DEF MemTypeOK, MemorySet, Byte, Address
  <2>3. /\ Load(mem, a, 4) = Lane(mem, 4, a, 0) \cup Lane(mem, 4, a, 1)
                                \cup Lane(mem, 4, a, 2) \cup Lane(mem, 4, a, 3)
        /\ Load(mem, a, 2) = Lane(mem, 2, a, 0) \cup Lane(mem, 2, a, 1)
        /\ Load(mem, a + 2, 2) = Lane(mem, 2, a + 2, 0) \cup Lane(mem, 2, a + 2, 1)
    BY <2>1, LoadIsLanes
  <2>4. CASE mem.big_endian
    <3>1. {b + 16 : b \in Lane(mem, 2, a, 0) \cup Lane(mem, 2, a, 1)}
            = Lane(mem, 4, a, 0) \cup Lane(mem, 4, a, 1)
      <4>1. /\ LaneShift(mem, 4, 0) = 24 /\ LaneShift(mem, 4, 1) = 16
            /\ LaneShift(mem, 2, 0) = 8 /\ LaneShift(mem, 2, 1) = 0
        BY <2>4 DEF LaneShift
      <4>2. /\ Lane(mem, 4, a, 0) = {b + 24 : b \in mem.data[a + 0]}
            /\ Lane(mem, 4, a, 1) = {b + 16 : b \in mem.data[a + 1]}
            /\ Lane(mem, 2, a, 0) = {b + 8 : b \in mem.data[a + 0]}
            /\ Lane(mem, 2, a, 1) = {b + 0 : b \in mem.data[a + 1]}
        BY <4>1 DEF Lane
      <4>3. mem.data[a + 0] \subseteq 0..7 /\ mem.data[a + 1] \subseteq 0..7
        BY <2>2
      <4>4. {c + 16 : c \in {b + 0 : b \in mem.data[a + 1]} \cup {b + 8 : b \in mem.data[a + 0]}}
              = {b + 16 : b \in mem.data[a + 1]} \cup {b + 24 : b \in mem.data[a + 0]}
        BY <4>3, HigherLanes
      <4>5. Lane(mem, 2, a, 0) \cup Lane(mem, 2, a, 1)
              = {b + 0 : b \in mem.data[a + 1]} \cup {b + 8 : b \in mem.data[a + 0]}
        BY <4>2
      <4>6. Lane(mem, 4, a, 0) \cup Lane(mem, 4, a, 1)
              = {b + 16 : b \in mem.data[a + 1]} \cup {b + 24 : b \in mem.data[a + 0]}
        BY <4>2
      <4> QED
        BY <4>4, <4>5, <4>6
    <3>2. /\ Lane(mem, 4, a, 2) = Lane(mem, 2, a + 2, 0)
          /\ Lane(mem, 4, a, 3) = Lane(mem, 2, a + 2, 1)
      BY <2>2, <2>4 DEF Lane, LaneShift, Address
    <3> QED
      BY <2>3, <2>4, <3>1, <3>2 DEF memory_read_half, memory_read_word
  <2>5. CASE ~mem.big_endian
    <3>1. {b + 16 : b \in Lane(mem, 2, a + 2, 0) \cup Lane(mem, 2, a + 2, 1)}
            = Lane(mem, 4, a, 2) \cup Lane(mem, 4, a, 3)
      <4>1. /\ LaneShift(mem, 4, 2) = 16 /\ LaneShift(mem, 4, 3) = 24
            /\ LaneShift(mem, 2, 0) = 0 /\ LaneShift(mem, 2, 1) = 8
            /\ (a + 2) + 0 = a + 2 /\ (a + 2) + 1 = a + 3
        BY <2>5 DEF LaneShift, Address
      <4>2. /\ Lane(mem, 4, a, 2) = {b + 16 : b \in mem.data[a + 2]}
            /\ Lane(mem, 4, a, 3) = {b + 24 : b \in mem.data[a + 3]}
            /\ Lane(mem, 2, a + 2, 0) = {b + 0 : b \in mem.data[a + 2]}
            /\ Lane(mem, 2, a + 2, 1) = {b + 8 : b \in mem.data[a + 3]}
        BY <4>1 DEF Lane
      <4>3. mem.data[a + 2] \subseteq 0..7 /\ mem.data[a + 3] \subseteq 0..7
        BY <2>2
      <4>4. {c + 16 : c \in {b + 0 : b \in mem.data[a + 2]} \cup {b + 8 : b \in mem.data[a + 3]}}
              = {b + 16 : b \in mem.data[a + 2]} \cup {b + 24 : b \in mem.data[a + 3]}
        BY <4>3, HigherLanes
      <4> QED
        BY <4>2, <4>4
    <3>2. /\ Lane(mem, 4, a, 0) = Lane(mem, 2, a, 0)
          /\ Lane(mem, 4, a, 1) = Lane(mem, 2, a, 1)
      BY <2>2, <2>5 DEF Lane, LaneShift, Address
    <3> QED
      BY <2>3, <2>5, <3>1, <3>2 DEF memory_read_half, memory_read_word
  <2> QED
    BY <2>4, <2>5
<1> QED
  BY <1>1, <1>2 DEF SizesAgree, memory_read_byte

(***************************************************************************)
(* In every memory that is reached, of either endianness, a word is its    *)
(* two half-words and a half-word its two bytes.                           *)
(***************************************************************************)
THEOREM SizesAlwaysAgree == MemSpec => []SizesAgree
BY MemTypeCorrect, SizesAgreeAlways, PTL

----------------------------------------------------------------------------
(* What Store puts into the bytes of its range, and outside of it.         *)
LEMMA StoredBytes ==
    ASSUME NEW m \in MemorySet, NEW a \in Nat, NEW n \in Nat, NEW v
    PROVE  /\ Store(m, a, n, v).big_endian = m.big_endian
           /\ \A i \in 0..(n - 1) : a + i <= Size =>
                Store(m, a, n, v).data[a + i] = {b \in 0..7 : b + LaneShift(m, n, i) \in v}
           /\ \A b \in 0..Size \ a..(a + n - 1) : Store(m, a, n, v).data[b] = m.data[b]
<1> DEFINE d == [c \in 0..Size |->
                   IF c \in a..(a + n - 1) THEN {b \in 0..7 : b + LaneShift(m, n, c - a) \in v}
                   ELSE m.data[c]]
<1>1. Store(m, a, n, v).big_endian = m.big_endian /\ Store(m, a, n, v).data = d
  BY DEF Store, MemorySet
<1>2. ASSUME NEW i \in 0..(n - 1), a + i <= Size
      PROVE  d[a + i] = {b \in 0..7 : b + LaneShift(m, n, i) \in v}
  <2>1. a + i \in 0..Size /\ a + i \in a..(a + n - 1) /\ (a + i) - a = i
    BY <1>2, MemoryAssumption
  <2> QED
    BY <2>1
<1>3. \A b \in 0..Size \ a..(a + n - 1) : d[b] = m.data[b]
  OBVIOUS
<1> QED
  BY <1>1, <1>2, <1>3

(* A value narrowed to a byte and put back into its lane.                  *)
LEMMA NarrowedLane ==
    ASSUME NEW v, v \subseteq 0..31, NEW k \in Nat
    PROVE  {b + k : b \in {b \in 0..7 : b + k \in v}} = v \cap k..(k + 7)
<1>1. ASSUME NEW x \in v \cap k..(k + 7)
      PROVE  \E b \in {b \in 0..7 : b + k \in v} : x = b + k
  <2>1. x - k \in 0..7 /\ (x - k) + k = x
    OBVIOUS
  <2> QED
    BY <2>1
<1>2. ASSUME NEW b \in 0..7, b + k \in v
      PROVE  b + k \in v \cap k..(k + 7)
  BY <1>2
<1> QED
  BY <1>1, <1>2

(* A half-word and a word that fit are read back as they were stored.      *)
LEMMA HalfReadsBack ==
    ASSUME NEW m \in MemorySet, NEW a \in Address, a + 1 < Size, NEW v \in Word, v \subseteq 0..15
    PROVE  Load(Store(m, a, 2, v), a, 2) = v
<1> DEFINE s == Store(m, a, 2, v)
<1>0. a \in Nat /\ \A i \in {0, 1} : a + i <= Size /\ i \in 0..(2 - 1)
  BY MemoryAssumption DEF Address
<1>1. \A i \in {0, 1} : s.data[a + i] = {b \in 0..7 : b + LaneShift(m, 2, i) \in v}
  BY <1>0, StoredBytes
<1>2. s.big_endian = m.big_endian
  BY <1>0, StoredBytes
<1>3. \A i \in {0, 1} : LaneShift(s, 2, i) = LaneShift(m, 2, i)
  BY <1>2 DEF LaneShift
<1>4. \A i \in {0, 1} :
        Lane(s, 2, a, i) = v \cap LaneShift(m, 2, i)..(LaneShift(m, 2, i) + 7)
  <2> SUFFICES ASSUME NEW i \in {0, 1}
               PROVE  Lane(s, 2, a, i) = v \cap LaneShift(m, 2, i)..(LaneShift(m, 2, i) + 7)
    OBVIOUS
  <2>1. LaneShift(m, 2, i) \in Nat
    BY DEF LaneShift
  <2>2. Lane(s, 2, a, i) = {b + LaneShift(m, 2, i) :
                               b \in {b \in 0..7 : b + LaneShift(m, 2, i) \in v}}
    BY <1>1, <1>3 DEF Lane
  <2> QED
    BY <2>1, <2>2, NarrowedLane DEF Word, Bit
<1>5. v = (v \cap 0..7) \cup (v \cap 8..15)
  <2>1. \A x \in v : x \in 0..7 \/ x \in 8..15
    OBVIOUS
  <2> QED
    BY <2>1
<1>6. Lane(s, 2, a, 0) \cup Lane(s, 2, a, 1) = (v \cap 0..7) \cup (v \cap 8..15)
  <2> HIDE DEF s
  <2>1. CASE m.big_endian
    <3>1. LaneShift(m, 2, 0) = 8 /\ LaneShift(m, 2, 1) = 0
      BY <2>1 DEF LaneShift
    <3> QED
      BY <1>4, <3>1
  <2>2. CASE ~m.big_endian
    <3>1. LaneShift(m, 2, 0) = 0 /\ LaneShift(m, 2, 1) = 8
      BY <2>2 DEF LaneShift
    <3> QED
      BY <1>4, <3>1
  <2> QED
    BY <2>1, <2>2
<1> QED
  BY <1>5, <1>6, LoadIsLanes

(* memory_read_word returns what memory_write_word wrote, in both byte orders.*)
LEMMA WordReadsBack ==
    ASSUME NEW m \in MemorySet, NEW a \in Address, a + 3 < Size, NEW v \in Word
    PROVE  Load(Store(m, a, 4, v), a, 4) = v
<1> DEFINE s == Store(m, a, 4, v)
<1>0. a \in Nat /\ \A i \in {0, 1, 2, 3} : a + i <= Size /\ i \in 0..(4 - 1)
  BY MemoryAssumption DEF Address
<1>1. \A i \in {0, 1, 2, 3} : s.data[a + i] = {b \in 0..7 : b + LaneShift(m, 4, i) \in v}
  BY <1>0, StoredBytes
<1>2. s.big_endian = m.big_endian
  BY <1>0, StoredBytes
<1>3. \A i \in {0, 1, 2, 3} : LaneShift(s, 4, i) = LaneShift(m, 4, i)
  BY <1>2 DEF LaneShift
<1>4. \A i \in {0, 1, 2, 3} :
        Lane(s, 4, a, i) = v \cap LaneShift(m, 4, i)..(LaneShift(m, 4, i) + 7)
  <2> SUFFICES ASSUME NEW i \in {0, 1, 2, 3}
               PROVE  Lane(s, 4, a, i) = v \cap LaneShift(m, 4, i)..(LaneShift(m, 4, i) + 7)
    OBVIOUS
  <2>1. LaneShift(m, 4, i) \in Nat
    BY DEF LaneShift
  <2>2. Lane(s, 4, a, i) = {b + LaneShift(m, 4, i) :
                               b \in {b \in 0..7 : b + LaneShift(m, 4, i) \in v}}
    BY <1>1, <1>3 DEF Lane
  <2> QED
    BY <2>1, <2>2, NarrowedLane DEF Word, Bit
<1>5. v = (v \cap 0..7) \cup (v \cap 8..15) \cup (v \cap 16..23) \cup (v \cap 24..31)
  <2>1. \A x \in v : x \in 0..7 \/ x \in 8..15 \/ x \in 16..23 \/ x \in 24..31
    BY DEF Word, Bit
  <2> QED
    BY <2>1
<1>6. Lane(s, 4, a, 0) \cup Lane(s, 4, a, 1) \cup Lane(s, 4, a, 2) \cup Lane(s, 4, a, 3) = v
  <2> HIDE DEF s
  <2>1. CASE m.big_endian
    <3>1. /\ LaneShift(m, 4, 0) = 24 /\ LaneShift(m, 4, 1) = 16
          /\ LaneShift(m, 4, 2) = 8 /\ LaneShift(m, 4, 3) = 0
      BY <2>1 DEF LaneShift
    <3> QED
      BY <1>4, <1>5, <3>1
  <2>2. CASE ~m.big_endian
    <3>1. /\ LaneShift(m, 4, 0) = 0 /\ LaneShift(m, 4, 1) = 8
          /\ LaneShift(m, 4, 2) = 16 /\ LaneShift(m, 4, 3) = 24
      BY <2>2 DEF LaneShift
    <3> QED
      BY <1>4, <1>5, <3>1
  <2> QED
    BY <2>1, <2>2
<1> QED
  BY <1>6, LoadIsLanes

(***************************************************************************)
(* A half-word or word that is written is read back, and no byte outside   *)
(* of it changes.                                                          *)
(***************************************************************************)
THEOREM WritesAreReadBack == MemSpec => WritesReadBack
<1> DEFINE ReadBack ==
      /\ \A a \in Address, v \in Halves : WriteHalf(a, v) /\ half_ok(a) =>
           /\ memory_read_half(mem', a) = v
           /\ \A b \in 0..Size \ a..(a + 1) : mem'.data[b] = mem.data[b]
      /\ \A a \in Address, v \in MemWords : WriteWord(a, v) /\ word_ok(a) =>
           /\ memory_read_word(mem', a) = v
           /\ \A b \in 0..Size \ a..(a + 3) : mem'.data[b] = mem.data[b]
<1>1. MemTypeOK /\ [MemNext]_mem => [ReadBack]_mem
  <2> SUFFICES ASSUME MemTypeOK PROVE ReadBack
    OBVIOUS
  <2>1. ASSUME NEW a \in Address, NEW v \in Halves, WriteHalf(a, v), half_ok(a)
        PROVE  /\ memory_read_half(mem', a) = v
               /\ \A b \in 0..Size \ a..(a + 1) : mem'.data[b] = mem.data[b]
    <3>1. a + 1 < Size /\ a \in Nat /\ v \subseteq 0..15 /\ (a + 2) - 1 = a + 1
      BY <2>1, HalfInside, MemoryAssumption DEF Address
    <3>2. mem' = Store(mem, a, 2, v)
      BY <2>1 DEF WriteHalf, memory_write_half
    <3>3. memory_read_half(mem', a) = v
      BY <3>1, <3>2, HalfReadsBack DEF MemTypeOK, memory_read_half, Word, Bit
    <3>4. \A b \in 0..Size \ a..(a + 2 - 1) : mem'.data[b] = mem.data[b]
      BY <3>1, <3>2, StoredBytes DEF MemTypeOK
    <3> QED
      BY <3>1, <3>3, <3>4
  <2>2. ASSUME NEW a \in Address, NEW v \in MemWords, WriteWord(a, v), word_ok(a)
        PROVE  /\ memory_read_word(mem', a) = v
               /\ \A b \in 0..Size \ a..(a + 3) : mem'.data[b] = mem.data[b]
    <3>1. a + 3 < Size /\ a \in Nat /\ v \in Word /\ (a + 4) - 1 = a + 3
      BY <2>2, WordInside, MemoryAssumption DEF Address
    <3>2. mem' = Store(mem, a, 4, v)
      BY <2>2 DEF WriteWord, memory_write_word
    <3>3. memory_read_word(mem', a) = v
      BY <3>1, <3>2, WordReadsBack DEF MemTypeOK, memory_read_word
    <3>4. \A b \in 0..Size \ a..(a + 4 - 1) : mem'.data[b] = mem.data[b]
      BY <3>1, <3>2, StoredBytes DEF MemTypeOK
    <3> QED
      BY <3>1, <3>3, <3>4
  <2> QED
    BY <2>1, <2>2
<1> QED
  BY <1>1, MemTypeCorrect, PTL DEF MemSpec, WritesReadBack
============================================================================
