--------------------------- MODULE MCInstruction ---------------------------
(* Small instances of ArmInstruction: programs of a few words at address   *)
(* 0, with data behind them, loaded in a processor fresh from arm_create.  *)
EXTENDS Encoding

CONSTANT MaxPc     \* bound: instructions are executed up to this address

ShortRun == AddressOf(FetchAddress(reg)) <= MaxPc

----------------------------------------------------------------------------
Exit == AL \cup Field(15, 24) \cup SwiExit                    \* swi 0x123456

(* cmp r1, r2; b<cond>.                                                    *)
Boundary == {Zero, {0}, {15}, 0..15, 0..27, 0..30, {31}, {31, 0}, 1..31, Bit}

ConditionMachines ==
    {Machine(<<Cmp(Field(2, 0)), BranchTo(cond, FALSE, 0), Exit, Exit>>, Regs2(a, b), {C, V}) :
        cond \in {1, 8, 11}, a \in Boundary, b \in Boundary}

(* Calls and returns, a backward branch, unaligned pc values, MRS, SWI.    *)
FlowPrograms ==
    {<<BranchTo(14, TRUE, 1), BranchTo(14, FALSE, 1), AL \cup Field(15, 24), MovPc(14)>>,
     <<BranchTo(0, FALSE, 0), Data(13, TRUE, 0, 3, Field(15, 0)), BranchTo(14, TRUE, -3)>>,
     <<Data(1, TRUE, 3, 3, Field(3, 0)), BranchTo(11, TRUE, 0), BranchTo(1, FALSE, 2),
       BranchTo(15, FALSE, -4)>>,
     <<AL \cup {24} \cup Field(15, 16) \cup Field(3, 12),              \* mrs r3, cpsr
       AL \cup {24, 22} \cup Field(15, 16) \cup Field(13, 12),         \* mrs sp, spsr
       AL \cup {24} \cup Field(3, 12),                                 \* not an MRS
       Data(4, TRUE, 1, 3, {4, 7} \cup Field(2, 0)),                   \* no operand
       AL \cup {27, 26}, Exit>>,
     <<MovPc(1), Data(13, TRUE, 0, 15, Field(1, 0)), Data(2, TRUE, 1, 3, Field(15, 0))>>}

FlowMachines ==
    {[Machine(p, Regs2(x, {2}), f) EXCEPT !.reg.main[15] = pc] :
        p \in FlowPrograms, x \in {{2}, {3, 1}, {3, 0}, {5}},
        f \in {{}, {Z}, {N}}, pc \in {Zero, {2, 1}}}

MCStale == {Zero, BranchTo(14, FALSE, -3), AL \cup {27, 26}}

----------------------------------------------------------------------------
(* Single transfers around the end of the memory (Size = 40).              *)
Offsets == {Field(4, 0)} \cup
           {{25} \cup Field(2, 0) \cup Field(kind, 5) \cup Field(n, 7) : kind \in 0..3, n \in {0, 2}}
TransferBits == {p \cup u \cup b \cup w \cup l :
                    p \in {{}, {24}}, u \in {{}, {23}}, b \in {{}, {22}},
                    w \in {{}, {21}}, l \in {{}, {20}}}

TransferMachines ==
    {Machine(<<i, Exit, Exit>>, Regs2(a, b), {C}) :
        i \in {Transfer(bits, 1, rd, o) : bits \in TransferBits, rd \in {1, 3}, o \in Offsets}
              \cup {HalfTransfer(bits, 1, rd, Field(2, 0)) : bits \in TransferBits, rd \in {1, 3}},
        a \in {{5, 2}, {5, 2, 1, 0}}, b \in {{3, 1}, {31}}}

(* Multiple transfers: two or three registers around both ends (Size = 40) *)
(* and across the wrap-around of addresses (2..31 is 0xfffffffc).          *)
MultipleBits == {p \cup u \cup w : p \in {{}, {24}}, u \in {{}, {23}}, w \in {{}, {21}}}

MultipleMachines ==
    {[Machine(<<Multiple(bits, 1, list), Multiple(bits \cup {20}, 1, list \ {15, 1}),
                Multiple(bits \cup {20}, 1, list), Multiple(bits \cup {22}, 1, list)>>,
              [n \in 0..3 |-> IF n = 1 THEN base ELSE {n, 7 + n, 16 + n, 28}], {})
        EXCEPT !.mem = IF big THEN [@ EXCEPT !.big_endian = TRUE,
                                     !.data = [a \in 0..Size |-> IF a < Size
                                         THEN @[4 * (a \div 4) + 3 - (a % 4)] ELSE @[a]]]
                       ELSE @] :
        bits \in MultipleBits, list \in {{0, 2}, {1, 2, 3}, {0, 2, 15}, {}},
        base \in {Zero, {4}, {4, 3}, {4, 3, 2}, {5, 2}, {5, 2, 1}, {5, 3}, 2..31}, big \in BOOLEAN}

AllMachines == ConditionMachines \cup FlowMachines \cup TransferMachines \cup MultipleMachines
============================================================================
