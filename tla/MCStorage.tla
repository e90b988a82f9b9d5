----------------------------- MODULE MCStorage -----------------------------
(***************************************************************************)
(* Small instances of Registers and Memory, the two groups of data behind  *)
(* arm_core.c: one register of each banking class (shared by all modes,    *)
(* private to FIQ, private to every exception mode, pc); one word of       *)
(* memory and addresses up to the wrap-around.                             *)
(***************************************************************************)
EXTENDS Registers, Memory

CONSTANT MaxDirty     \* bound: cells that hold a written value at a time

MCRegs    == {1, 8, 13, 14, 15}
MCValues  == {{0, 31}}
(* the seven modes, a mode that is none of them, and every bit set         *)
MCPsr     == Modes \cup {{3}, Bit}

DirtyCells ==
    Cardinality({i \in MainCell : reg.main[i] # Zero})
      + Cardinality({i \in 0..14 : reg.banked[i] # Zero})
      + Cardinality({i \in 1..5 : reg.psr[i] # Zero})

FewDirtyCells == DirtyCells <= MaxDirty

MCBytes    == {Zero, {0, 7}}
MCHalves   == {{0, 9}}                     \* 0x0201
MCWords    == {{2, 13, 20, 31}}            \* 0x80102004: four different bytes

(* The two groups share nothing: each is explored with the other as it was *)
(* created, the registers next to a single memory.                         *)
StorageNext ==
    \/ RegNext /\ mem = memory_create(FALSE, Zero) /\ UNCHANGED mem
    \/ MemNext /\ reg = registers_create /\ UNCHANGED reg

StorageInit == reg = registers_create /\ MemInit

StorageSpec == StorageInit /\ [][StorageNext]_<<reg, mem>>
============================================================================
