-------------------------- MODULE MCDataProcessing --------------------------
(* Small instances of DataProcessing: boundary operands in R1 and R2, an   *)
(* amount in R4, and the instruction words that exercise each question.    *)
EXTENDS DataProcessing

Field(n, shift) == {i + shift : i \in ToWord(n)}

(* op{s} rd, rn, <operand bits>                                            *)
Encode(op, s, rn, rd, operand) ==
    Field(14, 28) \cup Field(op, 21) \cup (IF s THEN {20} ELSE {})
        \cup Field(rn, 16) \cup Field(rd, 12) \cup operand

R2       == Field(2, 0)                            \* operand: register R2
Immediate(value, rotation) == {25} \cup Field(rotation, 8) \cup Field(value, 0)
ByImm(rm, kind, n) == Field(rm, 0) \cup Field(kind, 5) \cup Field(n, 7)
ByReg(rm, kind, rs) == Field(rm, 0) \cup Field(kind, 5) \cup {4} \cup Field(rs, 8)

(* A group as a debugger can load it: values in R1, R2 and R4, and CPSR.   *)
(* The SPSRs are zero, because nothing in the simulator writes them.       *)
Group(r1, r2, r4, psr) ==
    [main   |-> [n \in MainCell |-> CASE n = 1 -> r1 [] n = 2 -> r2 [] n = 4 -> r4
                                      [] n = 15 -> {5} [] OTHER -> Zero],
     banked |-> [n \in 0..14 |-> Zero],
     psr    |-> [n \in 0..5 |-> IF n = 0 THEN psr ELSE Zero]]

(* 0, 1, 2, 2^28-1, 2^28, 2^31-1, 2^31, 2^32-2, 2^32-1                     *)
Boundary == {Zero, {0}, {1}, 0..27, {28}, 0..30, {31}, 1..31, Bit}

ArithGroups == {Group(a, b, Zero, SVC \cup f) :
                    a \in Boundary, b \in Boundary, f \in {{}, {C}, {V}}}

ArithInstructions ==
    {Encode(op, s, 1, 3, R2) : op \in 0..15, s \in BOOLEAN}
        \cup {Encode(op, FALSE, 1, 1, R2) : op \in 0..15}
        \cup {Encode(op, TRUE, 1, 3, Immediate(255, 1)) : op \in {2, 4, 13}}
        \cup {Encode(4, TRUE, 1, 3, R2 \cup {4, 7})}

ShiftGroups ==
    {Group(a, Zero, ToWord(n), SVC \cup f) :
        a \in {Zero, {0}, {31}, {0, 15, 31}, 0..30, Bit},
        n \in {0, 1, 15, 16, 31, 32, 33, 40}, f \in {{}, {C}}}

ShiftInstructions ==
    {Encode(13, TRUE, 0, 3, ByImm(1, k, n)) : k \in 0..3, n \in {0, 1, 16, 31}}
        \cup {Encode(13, TRUE, 0, 3, ByReg(1, k, 4)) : k \in 0..3}

(* The seven modes, and mode 0, which an exception return leads to.        *)
ModeGroups ==
    {Group({3}, {4}, a, m \cup f) :
        a \in {Zero, {31}}, m \in Modes \cup {Zero}, f \in {{}, {C, V, 7, 9}, {N, Z, 8, 24}}}

ModeInstructions ==
    {Encode(op, s, 1, rd, R2) : op \in {0, 2, 10, 13}, s \in BOOLEAN, rd \in {13, 15}}

AllGroups       == ArithGroups \cup ShiftGroups \cup ModeGroups
AllInstructions == ArithInstructions \cup ShiftInstructions \cup ModeInstructions

AllRegs == 0..15
NoWords == {}
============================================================================
