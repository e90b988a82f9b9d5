---------------------------- MODULE RegisterFile ----------------------------
(***************************************************************************)
(* What the register group promises (registers.h and section A2.3 of the   *)
(* manual it refers to): registers are named, not indexed.  User registers *)
(* 0..15; private copies of R13 and R14 for four exception modes and of    *)
(* R8..R14 for FIQ; CPSR; one SPSR per exception mode.  registers.h warns  *)
(* that in a mode that is none of the seven the processor's behaviour is   *)
(* unpredictable: there, a write may land in any register.                 *)
(***************************************************************************)
EXTENDS Words

CONSTANTS Registers, Values, PsrValues

VARIABLES user, banked, cpsr, spsr

vars == <<user, banked, cpsr, spsr>>

UsrMode == {4}
SysMode == {4, 3, 2, 1, 0}
FiqMode == {4, 0}
OtherExceptionModes == {{4, 1}, {4, 1, 0}, {4, 2, 1, 0}, {4, 3, 1, 0}}
ExceptionModes == OtherExceptionModes \cup {FiqMode}
ValidModes == ExceptionModes \cup {UsrMode, SysMode}

Mode == cpsr \cap 0..4

Copies == ({FiqMode} \X (8..14)) \cup (OtherExceptionModes \X {13, 14})

(* The register that number n names in the current mode.                   *)
VisibleValue(n) ==
    IF <<Mode, n>> \in Copies THEN banked[<<Mode, n>>] ELSE user[n]

(* The PSR bits software may write: the condition flags, Q, GE and E in    *)
(* any mode, and A, I, F and the mode in the privileged ones.              *)
UserBits       == 27..31 \cup 16..19 \cup {9}
PrivilegedBits == UserBits \cup 6..8 \cup 0..4

Updated(old, bits, new) == (old \ bits) \cup (new \cap bits)

Init ==
    /\ user   = [n \in 0..15 |-> Zero]
    /\ banked = [c \in Copies |-> Zero]
    /\ cpsr   = SysMode
    /\ spsr   = [m \in ExceptionModes |-> Zero]

Write(n, v) ==
    /\ Mode \in ValidModes
    /\ n \in 0..15
    /\ IF <<Mode, n>> \in Copies
       THEN banked' = [banked EXCEPT ![<<Mode, n>>] = v] /\ UNCHANGED user
       ELSE user' = [user EXCEPT ![n] = v] /\ UNCHANGED banked
    /\ UNCHANGED <<cpsr, spsr>>

WriteUser(n, v) ==
    /\ n \in 0..15
    /\ user' = [user EXCEPT ![n] = v]
    /\ UNCHANGED <<banked, cpsr, spsr>>

WriteCpsr(v) ==
    /\ cpsr' = Updated(cpsr, IF Mode = UsrMode THEN UserBits ELSE PrivilegedBits, v)
    /\ UNCHANGED <<user, banked, spsr>>

WriteSpsr(v) ==
    /\ Mode \in ExceptionModes
    /\ spsr' = [spsr EXCEPT ![Mode] = Updated(@, PrivilegedBits, v)]
    /\ UNCHANGED <<user, banked, cpsr>>

(* In an invalid mode a write still reaches one register of the file, or   *)
(* one SPSR, and leaves CPSR alone; which one is not specified.            *)
UnpredictableWrite(n, v) ==
    /\ Mode \notin ValidModes
    /\ \/ user' = [user EXCEPT ![n] = v] /\ UNCHANGED banked
       \/ \E c \in Copies : banked' = [banked EXCEPT ![c] = v] /\ UNCHANGED user
    /\ UNCHANGED <<cpsr, spsr>>

UnpredictableWriteSpsr(v) ==
    /\ Mode \notin ValidModes
    /\ \E m \in ExceptionModes : spsr' = [spsr EXCEPT ![m] = Updated(@, PrivilegedBits, v)]
    /\ UNCHANGED <<user, banked, cpsr>>

Next ==
    \/ \E n \in Registers, v \in Values :
          Write(n, v) \/ WriteUser(n, v) \/ UnpredictableWrite(n, v)
    \/ \E v \in PsrValues : WriteCpsr(v) \/ WriteSpsr(v) \/ UnpredictableWriteSpsr(v)

Spec == Init /\ [][Next]_vars
============================================================================
