-------------------------- MODULE RegistersProofs --------------------------
(* Proofs about registers.c, for every set of register numbers and values. *)
EXTENDS Registers, TLAPS

(* The PSR update of write_cpsr and write_spsr yields a word.              *)
LEMMA MaskedIsWord ==
    ASSUME NEW psr \in Word, NEW masque \in Word, NEW value \in Word
    PROVE  Masked(psr, masque, value) \in Word
BY DEF Masked, Word, Not

(* Both masks are words.                                                   *)
LEMMA MasquesAreWords == PrivilegedMasque \in Word /\ UserMasque \in Word
BY DEF PrivilegedMasque, UserMasque, Word, Bit

(* Every function that writes maps a register group to a register group.   *)
LEMMA WritesAreTyped ==
    ASSUME NEW r \in RegistersSet, NEW n \in MainCell, NEW v \in Word
    PROVE  /\ write_register(r, n, v) \in RegistersSet
           /\ write_usr_register(r, n, v) \in RegistersSet
           /\ write_cpsr(r, v) \in RegistersSet
           /\ write_spsr(r, v) \in RegistersSet
<1>1. write_register(r, n, v) \in RegistersSet
  BY RegistersAssumption
  DEF write_register, RegistersSet, MainCell, InMain, InBanked,
      get_banked_register_from_mode
<1>2. write_usr_register(r, n, v) \in RegistersSet
  BY DEF write_usr_register, RegistersSet, MainCell
<1>3. write_cpsr(r, v) \in RegistersSet
  BY MaskedIsWord, MasquesAreWords DEF write_cpsr, RegistersSet
<1>4. write_spsr(r, v) \in RegistersSet
  BY MaskedIsWord, MasquesAreWords
  DEF write_spsr, RegistersSet, get_register_from_mode
<1> QED
  BY <1>1, <1>2, <1>3, <1>4

(* The initial group is well formed.                                       *)
LEMMA CreateIsTyped == registers_create \in RegistersSet
BY DEF registers_create, RegistersSet, Zero, SYS, Word, Bit

(* The register group stays a well-formed struct whatever is called.       *)
THEOREM TypeCorrect == RegSpec => []RegTypeOK
<1>1. RegInit => RegTypeOK
  BY CreateIsTyped DEF RegInit, RegTypeOK
<1>2. RegTypeOK /\ [RegNext]_reg => RegTypeOK'
  <2> SUFFICES ASSUME RegTypeOK, [RegNext]_reg
               PROVE  RegTypeOK'
    OBVIOUS
  <2> USE DEF RegTypeOK
  <2>1. ASSUME NEW n \in Regs, NEW v \in Values, WriteRegister(n, v)
        PROVE  RegTypeOK'
    BY <2>1, WritesAreTyped, RegistersAssumption DEF WriteRegister, MainCell
  <2>2. ASSUME NEW n \in Regs, NEW v \in Values, WriteUsrRegister(n, v)
        PROVE  RegTypeOK'
    BY <2>2, WritesAreTyped, RegistersAssumption DEF WriteUsrRegister, MainCell
  <2>3. ASSUME NEW v \in PsrValues, WriteCpsr(v)
        PROVE  RegTypeOK'
    BY <2>3, MaskedIsWord, MasquesAreWords, RegistersAssumption
    DEF WriteCpsr, write_cpsr, RegistersSet
  <2>4. ASSUME NEW v \in PsrValues, WriteSpsr(v)
        PROVE  RegTypeOK'
    BY <2>4, MaskedIsWord, MasquesAreWords, RegistersAssumption
    DEF WriteSpsr, write_spsr, RegistersSet, get_register_from_mode
  <2>5. CASE UNCHANGED reg
    BY <2>5
  <2> QED
    BY <2>1, <2>2, <2>3, <2>4, <2>5 DEF RegNext
<1> QED
  BY <1>1, <1>2, PTL DEF RegSpec

----------------------------------------------------------------------------
(* No sequence of calls leaves User mode.                                  *)
THEOREM UserFinal == RegSpec => UserModeIsFinal
<1> DEFINE Stays == get_mode(reg) = USR => get_mode(reg') = USR
<1>1. RegTypeOK /\ [RegNext]_reg => [Stays]_reg
  <2> SUFFICES ASSUME RegTypeOK, RegNext, get_mode(reg) = USR
               PROVE  get_mode(reg') = USR
    OBVIOUS
  <2>1. ASSUME NEW n \in Regs, NEW v \in Values,
               WriteRegister(n, v) \/ WriteUsrRegister(n, v)
        PROVE  reg'.psr = reg.psr
    BY <2>1 DEF WriteRegister, WriteUsrRegister, write_register,
                write_usr_register, RegTypeOK, RegistersSet
  <2>2. ASSUME NEW v \in PsrValues, WriteCpsr(v)
        PROVE  get_mode(reg') = USR
    <3>1. reg'.psr[0] = Masked(reg.psr[0], UserMasque, v)
      BY <2>2 DEF WriteCpsr, write_cpsr, in_a_privileged_mode, RegTypeOK, RegistersSet
    <3>2. reg.psr[0] \in Word /\ v \in Word
      BY RegistersAssumption DEF RegTypeOK, RegistersSet
    <3>3. Masked(reg.psr[0], UserMasque, v) \cap 0..4 = reg.psr[0] \cap 0..4
      BY <3>2 DEF Masked, UserMasque, Not, Word, Bit
    <3> QED
      BY <3>1, <3>3 DEF get_mode, read_cpsr
  <2>3. ASSUME NEW v \in PsrValues, WriteSpsr(v)
        PROVE  reg' = reg
    BY <2>3 DEF WriteSpsr, write_spsr, current_mode_has_spsr
  <2> QED
    BY <2>1, <2>2, <2>3 DEF RegNext, get_mode, read_cpsr
<1> QED
  BY <1>1, TypeCorrect, PTL DEF RegSpec, UserModeIsFinal

----------------------------------------------------------------------------
(* The seven modes are pairwise different values of CPSR[4:0].             *)
LEMMA ModesDistinct ==
    /\ USR # FIQ /\ USR # IRQ /\ USR # SVC /\ USR # ABT /\ USR # UND /\ USR # SYS
    /\ FIQ # IRQ /\ FIQ # SVC /\ FIQ # ABT /\ FIQ # UND /\ FIQ # SYS
    /\ IRQ # SVC /\ IRQ # ABT /\ IRQ # UND /\ IRQ # SYS
    /\ SVC # ABT /\ SVC # UND /\ SVC # SYS
    /\ ABT # UND /\ ABT # SYS /\ UND # SYS
<1>1. /\ 0 \notin USR /\ 0 \in FIQ /\ 0 \notin IRQ /\ 0 \in SVC
      /\ 0 \in ABT /\ 0 \in UND /\ 0 \in SYS
  BY DEF USR, FIQ, IRQ, SVC, ABT, UND, SYS
<1>2. /\ 1 \notin USR /\ 1 \notin FIQ /\ 1 \in IRQ /\ 1 \in SVC
      /\ 1 \in ABT /\ 1 \in UND /\ 1 \in SYS
  BY DEF USR, FIQ, IRQ, SVC, ABT, UND, SYS
<1>3. /\ 2 \notin USR /\ 2 \notin FIQ /\ 2 \notin IRQ /\ 2 \notin SVC
      /\ 2 \in ABT /\ 2 \notin UND /\ 2 \in SYS
  BY DEF USR, FIQ, IRQ, SVC, ABT, UND, SYS
<1>4. /\ 3 \notin SVC /\ 3 \notin ABT /\ 3 \in UND /\ 3 \in SYS
  BY DEF SVC, ABT, UND, SYS
<1> QED
  BY <1>1, <1>2, <1>3, <1>4

(* The abstract specification names the modes and the copies alike.        *)
LEMMA SameNames ==
    /\ RF!UsrMode = USR /\ RF!SysMode = SYS /\ RF!FiqMode = FIQ
    /\ RF!OtherExceptionModes = {IRQ, SVC, ABT, UND}
    /\ RF!ExceptionModes = {SVC, ABT, UND, IRQ, FIQ}
    /\ RF!ValidModes = Modes
    /\ RF!Copies = BankedCopies
    /\ RF!Mode = get_mode(reg)
<1>1. /\ RF!UsrMode = USR /\ RF!SysMode = SYS /\ RF!FiqMode = FIQ
      /\ RF!OtherExceptionModes = {IRQ, SVC, ABT, UND}
  BY DEF RF!UsrMode, RF!SysMode, RF!FiqMode, RF!OtherExceptionModes,
         USR, SYS, FIQ, IRQ, SVC, ABT, UND
<1>2. RF!ExceptionModes = {SVC, ABT, UND, IRQ, FIQ}
  BY <1>1, Zenon DEF RF!ExceptionModes
<1>3. RF!ValidModes = Modes
  BY <1>1, <1>2, Zenon DEF RF!ValidModes, Modes
<1>4. RF!Copies = BankedCopies
  BY <1>1, Zenon DEF RF!Copies, BankedCopies
<1>5. RF!Mode = get_mode(reg)
  BY Zenon DEF RF!Mode, get_mode, read_cpsr
<1> QED
  BY <1>1, <1>2, <1>3, <1>4, <1>5, Zenon

(* The index arithmetic finds the cell that the layout comment gives, and  *)
(* the layout keeps different registers in different cells.                *)
LEMMA LayoutIsRight ==
    ASSUME NEW m, NEW n, <<m, n>> \in BankedCopies
    PROVE  /\ get_banked_register_from_mode(m, n) = LayoutIndex(m, n)
           /\ LayoutIndex(m, n) \in 0..14
           /\ m \in {IRQ, SVC, ABT, UND, FIQ}
           /\ m = FIQ => n \in 8..14
           /\ m # FIQ => n \in {13, 14}
<1>1. \/ m = FIQ /\ n \in 8..14
      \/ m \in {IRQ, SVC, ABT, UND} /\ n \in {13, 14}
  BY DEF BankedCopies
<1> QED
  BY <1>1, ModesDistinct DEF get_banked_register_from_mode, LayoutIndex

(* No two banked registers share a cell.                                   *)
LEMMA LayoutIsInjective ==
    ASSUME NEW m1, NEW n1, <<m1, n1>> \in BankedCopies,
           NEW m2, NEW n2, <<m2, n2>> \in BankedCopies,
           LayoutIndex(m1, n1) = LayoutIndex(m2, n2)
    PROVE  m1 = m2 /\ n1 = n2
BY ModesDistinct, LayoutIsRight DEF LayoutIndex

(* Writing the cell of a copy writes that copy and no other.               *)
LEMMA BankedWrite ==
    ASSUME RegTypeOK, NEW m, NEW n, <<m, n>> \in BankedCopies, NEW v \in Word,
           reg' = [reg EXCEPT !.banked[LayoutIndex(m, n)] = v]
    PROVE  /\ AbstractBanked' = [AbstractBanked EXCEPT ![<<m, n>>] = v]
           /\ reg'.main = reg.main /\ reg'.psr = reg.psr
<1>1. reg'.main = reg.main /\ reg'.psr = reg.psr
  BY DEF RegTypeOK, RegistersSet
<1>2. reg'.banked = [reg.banked EXCEPT ![LayoutIndex(m, n)] = v]
  BY DEF RegTypeOK, RegistersSet
<1>3. ASSUME NEW c \in BankedCopies
      PROVE  AbstractBanked'[c] = [AbstractBanked EXCEPT ![<<m, n>>] = v][c]
  <2>1. PICK m2, n2 : c = <<m2, n2>>
    BY DEF BankedCopies
  <2>2. LayoutIndex(m2, n2) \in 0..14 /\ LayoutIndex(m, n) \in 0..14
    BY <2>1, LayoutIsRight
  <2>3. LayoutIndex(m2, n2) = LayoutIndex(m, n) => c = <<m, n>>
    BY <2>1, LayoutIsInjective
  <2>4. AbstractBanked'[c] = reg'.banked[LayoutIndex(m2, n2)]
    BY <2>1 DEF AbstractBanked
  <2>5. AbstractBanked[c] = reg.banked[LayoutIndex(m2, n2)]
    BY <2>1 DEF AbstractBanked
  <2>6. reg.banked \in [0..14 -> Word]
    BY DEF RegTypeOK, RegistersSet
  <2>7. CASE c = <<m, n>>
    BY <1>2, <2>1, <2>2, <2>4, <2>6, <2>7 DEF AbstractBanked
  <2>8. CASE c # <<m, n>>
    BY <1>2, <2>2, <2>3, <2>4, <2>5, <2>6, <2>8 DEF AbstractBanked
  <2> QED
    BY <2>7, <2>8
<1> QED
  BY <1>1, <1>3 DEF AbstractBanked

(* Masking with the bits to keep is updating the bits that may be written. *)
LEMMA MaskedIsUpdated ==
    ASSUME NEW psr \in Word, NEW v \in Word
    PROVE  /\ Masked(psr, UserMasque, v) = RF!Updated(psr, RF!UserBits, v)
           /\ Masked(psr, PrivilegedMasque, v) = RF!Updated(psr, RF!PrivilegedBits, v)
<1>1. ASSUME NEW i \in Bit
      PROVE  /\ i \in UserMasque <=> i \notin RF!UserBits
             /\ i \in PrivilegedMasque <=> i \notin RF!PrivilegedBits
  BY DEF Bit, UserMasque, PrivilegedMasque, RF!UserBits, RF!PrivilegedBits
<1>2. UserMasque \subseteq Bit /\ PrivilegedMasque \subseteq Bit
  BY MasquesAreWords DEF Word
<1>3. psr \subseteq Bit /\ v \subseteq Bit
  BY DEF Word
<1>4. Masked(psr, UserMasque, v) = RF!Updated(psr, RF!UserBits, v)
  BY <1>1, <1>2, <1>3 DEF Masked, Not, RF!Updated
<1>5. Masked(psr, PrivilegedMasque, v) = RF!Updated(psr, RF!PrivilegedBits, v)
  BY <1>1, <1>2, <1>3 DEF Masked, Not, RF!Updated
<1> QED
  BY <1>4, <1>5

(* The initial group is the initial register file.                         *)
LEMMA InitRefines == RegInit => RF!Init
<1> SUFFICES ASSUME RegInit PROVE RF!Init
  OBVIOUS
<1>1. /\ reg.main = [i \in MainCell |-> Zero]
      /\ reg.banked = [i \in 0..14 |-> Zero]
      /\ reg.psr = [i \in 0..5 |-> IF i = 0 THEN SYS ELSE Zero]
  BY DEF RegInit, registers_create
<1>2. [n \in 0..15 |-> reg.main[n]] = [n \in 0..15 |-> Zero]
  BY <1>1 DEF MainCell
<1>3. AbstractBanked = [c \in BankedCopies |-> Zero]
  <2>1. ASSUME NEW c \in BankedCopies PROVE reg.banked[LayoutIndex(c[1], c[2])] = Zero
    <3>1. c = <<c[1], c[2]>>
      BY DEF BankedCopies
    <3>2. LayoutIndex(c[1], c[2]) \in 0..14
      BY <3>1, LayoutIsRight
    <3> QED
      BY <1>1, <3>2
  <2> QED
    BY <2>1 DEF AbstractBanked
<1>4. reg.psr[0] = SYS
  BY <1>1
<1>5. AbstractSpsr = [m \in {SVC, ABT, UND, IRQ, FIQ} |-> Zero]
  BY <1>1, ModesDistinct DEF AbstractSpsr
<1> QED
  BY <1>2, <1>3, <1>4, <1>5, SameNames DEF RF!Init, RF!Zero, Zero

(* An unprivileged, privileged or unpredictable write of a register.       *)
LEMMA WriteRegisterRefines ==
    ASSUME RegTypeOK, Regs \subseteq 0..15,
           NEW n \in Regs, NEW v \in Values, WriteRegister(n, v)
    PROVE  RF!Write(n, v) \/ RF!UnpredictableWrite(n, v)
<1> DEFINE m == get_mode(reg)
<1>0. n \in 0..15 /\ v \in Word
  BY RegistersAssumption
<1>1. CASE InMain(reg, n)
  <2>1. reg' = [reg EXCEPT !.main[n] = v]
    BY <1>1 DEF WriteRegister, write_register
  <2>2. /\ reg'.main = [reg.main EXCEPT ![n] = v]
        /\ reg'.banked = reg.banked /\ reg'.psr = reg.psr
    BY <2>1 DEF RegTypeOK, RegistersSet
  <2>3. [k \in 0..15 |-> reg.main[k]]' = [[k \in 0..15 |-> reg.main[k]] EXCEPT ![n] = v]
    BY <1>0, <2>2 DEF RegTypeOK, RegistersSet, MainCell
  <2>4. AbstractBanked' = AbstractBanked /\ AbstractSpsr' = AbstractSpsr
        /\ reg'.psr[0] = reg.psr[0]
    BY <2>2 DEF AbstractBanked, AbstractSpsr
  <2>5. <<m, n>> \notin BankedCopies
    BY <1>0, <1>1, ModesDistinct, LayoutIsRight DEF InMain, current_mode_has_spsr
  <2>6. CASE m \in Modes
    BY <1>0, <2>3, <2>4, <2>5, <2>6, SameNames DEF RF!Write
  <2>7. CASE m \notin Modes
    BY <1>0, <2>3, <2>4, <2>7, SameNames DEF RF!UnpredictableWrite
  <2> QED
    BY <2>6, <2>7
<1>2. CASE ~InMain(reg, n)
  <2>1. reg' = [reg EXCEPT !.banked[get_banked_register_from_mode(m, n)] = v]
    BY <1>0, <1>2 DEF WriteRegister, write_register, InBanked
  <2>2. n \in 8..14 /\ m # USR /\ m # SYS /\ (m = FIQ \/ n \in {13, 14})
    BY <1>0, <1>2 DEF InMain, current_mode_has_spsr
  <2>3. CASE m \in Modes
    <3>1. <<m, n>> \in BankedCopies
      BY <2>2, <2>3, ModesDistinct DEF Modes, BankedCopies
    <3>2. /\ AbstractBanked' = [AbstractBanked EXCEPT ![<<m, n>>] = v]
          /\ reg'.main = reg.main /\ reg'.psr = reg.psr
      BY <1>0, <2>1, <3>1, LayoutIsRight, BankedWrite
    <3> QED
      BY <1>0, <2>3, <3>1, <3>2, SameNames DEF RF!Write, AbstractSpsr
  <2>4. CASE m \notin Modes
    <3>1. n \in {13, 14} /\ <<IRQ, n>> \in BankedCopies
      BY <2>2, <2>4 DEF Modes, BankedCopies
    <3>2. get_banked_register_from_mode(m, n) = LayoutIndex(IRQ, n)
      BY <2>4, <3>1, ModesDistinct DEF Modes, get_banked_register_from_mode, LayoutIndex
    <3>3. /\ AbstractBanked' = [AbstractBanked EXCEPT ![<<IRQ, n>>] = v]
          /\ reg'.main = reg.main /\ reg'.psr = reg.psr
      BY <1>0, <2>1, <3>1, <3>2, BankedWrite
    <3>4. UNCHANGED [k \in 0..15 |-> reg.main[k]]
      BY <3>3
    <3>5. UNCHANGED AbstractSpsr /\ reg'.psr[0] = reg.psr[0]
      BY <3>3 DEF AbstractSpsr
    <3>6. RF!Mode \notin RF!ValidModes /\ <<IRQ, n>> \in RF!Copies
      BY <2>4, <3>1, SameNames
    <3> QED
      BY <3>3, <3>4, <3>5, <3>6 DEF RF!UnpredictableWrite
  <2> QED
    BY <2>3, <2>4
<1> QED
  BY <1>1, <1>2

(* A write of the user registers, whatever the mode.                       *)
LEMMA WriteUsrRegisterRefines ==
    ASSUME RegTypeOK, Regs \subseteq 0..15,
           NEW n \in Regs, NEW v \in Values, WriteUsrRegister(n, v)
    PROVE  RF!WriteUser(n, v)
<1>0. n \in 0..15
  OBVIOUS
<1>1. /\ reg'.main = [reg.main EXCEPT ![n] = v]
      /\ reg'.banked = reg.banked /\ reg'.psr = reg.psr
  BY <1>0 DEF WriteUsrRegister, write_usr_register, RegTypeOK, RegistersSet
<1>2. [k \in 0..15 |-> reg.main[k]]' = [[k \in 0..15 |-> reg.main[k]] EXCEPT ![n] = v]
  BY <1>0, <1>1 DEF RegTypeOK, RegistersSet, MainCell
<1> QED
  BY <1>0, <1>1, <1>2 DEF RF!WriteUser, AbstractBanked, AbstractSpsr

(* A write of CPSR changes the bits the mode may write, and nothing else.  *)
LEMMA WriteCpsrRefines ==
    ASSUME RegTypeOK, NEW v \in PsrValues, WriteCpsr(v)
    PROVE  RF!WriteCpsr(v)
<1>0. v \in Word /\ reg.psr[0] \in Word
  BY RegistersAssumption DEF RegTypeOK, RegistersSet
<1>1. /\ reg'.main = reg.main /\ reg'.banked = reg.banked
      /\ reg'.psr = [reg.psr EXCEPT ![0] = Masked(reg.psr[0],
             IF in_a_privileged_mode(reg) THEN PrivilegedMasque ELSE UserMasque, v)]
  BY DEF WriteCpsr, write_cpsr, RegTypeOK, RegistersSet
<1>2. reg'.psr[0] = RF!Updated(reg.psr[0],
          IF RF!Mode = RF!UsrMode THEN RF!UserBits ELSE RF!PrivilegedBits, v)
  <2>1. CASE get_mode(reg) = USR
    BY <1>0, <1>1, <2>1, MaskedIsUpdated, SameNames
    DEF in_a_privileged_mode, RegTypeOK, RegistersSet
  <2>2. CASE get_mode(reg) # USR
    BY <1>0, <1>1, <2>2, MaskedIsUpdated, SameNames
    DEF in_a_privileged_mode, RegTypeOK, RegistersSet
  <2> QED
    BY <2>1, <2>2
<1>3. \A i \in 1..5 : reg'.psr[i] = reg.psr[i]
  BY <1>1 DEF RegTypeOK, RegistersSet
<1>4. UNCHANGED AbstractSpsr
  BY <1>3 DEF AbstractSpsr
<1>5. UNCHANGED AbstractBanked /\ UNCHANGED [k \in 0..15 |-> reg.main[k]]
  BY <1>1 DEF AbstractBanked
<1> QED
  BY <1>2, <1>4, <1>5 DEF RF!WriteCpsr

(* Writing the psr cell of an exception mode writes its SPSR and no other. *)
LEMMA SpsrCellWrite ==
    ASSUME RegTypeOK, NEW e \in {SVC, ABT, UND, IRQ, FIQ}, NEW w,
           reg'.psr = [reg.psr EXCEPT ![get_register_from_mode(e)] = w]
    PROVE  /\ AbstractSpsr' = [AbstractSpsr EXCEPT ![e] = w]
           /\ AbstractSpsr[e] = reg.psr[get_register_from_mode(e)]
<1> DEFINE E == {SVC, ABT, UND, IRQ, FIQ}
<1>1. ASSUME NEW d \in E
      PROVE  /\ AbstractSpsr[d] = reg.psr[get_register_from_mode(d)]
             /\ AbstractSpsr'[d] = reg'.psr[get_register_from_mode(d)]
             /\ get_register_from_mode(d) \in 1..5
             /\ get_register_from_mode(d) = get_register_from_mode(e) => d = e
  BY ModesDistinct DEF AbstractSpsr, get_register_from_mode
<1>2. reg.psr \in [0..5 -> Word]
  BY DEF RegTypeOK, RegistersSet
<1>3. ASSUME NEW d \in E
      PROVE  AbstractSpsr'[d] = [AbstractSpsr EXCEPT ![e] = w][d]
  <2>1. CASE d = e
    BY <1>1, <1>2, <2>1 DEF AbstractSpsr
  <2>2. CASE d # e
    BY <1>1, <1>2, <2>2 DEF AbstractSpsr
  <2> QED
    BY <2>1, <2>2
<1> QED
  BY <1>1, <1>3 DEF AbstractSpsr

(* A write of SPSR changes the SPSR of the mode, or is ignored where there *)
(* is none.                                                                *)
LEMMA WriteSpsrRefines ==
    ASSUME RegTypeOK, NEW v \in PsrValues, WriteSpsr(v)
    PROVE  RF!WriteSpsr(v) \/ RF!UnpredictableWriteSpsr(v) \/ reg' = reg
<1> DEFINE m == get_mode(reg)
           i == get_register_from_mode(m)
           w == Masked(reg.psr[i], PrivilegedMasque, v)
<1>0. i \in 1..5
  BY DEF get_register_from_mode
<1>1. v \in Word /\ reg.psr \in [0..5 -> Word]
  BY RegistersAssumption DEF RegTypeOK, RegistersSet
<1>2. CASE ~current_mode_has_spsr(reg)
  BY <1>2 DEF WriteSpsr, write_spsr
<1>3. CASE current_mode_has_spsr(reg)
  <2>1. /\ reg'.main = reg.main /\ reg'.banked = reg.banked
        /\ reg'.psr = [reg.psr EXCEPT ![i] = w]
    BY <1>3 DEF WriteSpsr, write_spsr, RegTypeOK, RegistersSet
  <2>2. w = RF!Updated(reg.psr[i], RF!PrivilegedBits, v)
    BY <1>0, <1>1, MaskedIsUpdated
  <2>3. reg'.psr[0] = reg.psr[0]
    BY <1>0, <1>1, <2>1
  <2>4. UNCHANGED AbstractBanked /\ UNCHANGED [k \in 0..15 |-> reg.main[k]]
    BY <2>1 DEF AbstractBanked
  <2>5. m # USR /\ m # SYS
    BY <1>3 DEF current_mode_has_spsr
  <2>6. CASE m \in Modes
    <3>1. m \in {SVC, ABT, UND, IRQ, FIQ}
      BY <2>5, <2>6 DEF Modes
    <3>2. AbstractSpsr' = [AbstractSpsr EXCEPT ![m] = w] /\ AbstractSpsr[m] = reg.psr[i]
      BY <2>1, <3>1, SpsrCellWrite
    <3>3. RF!Mode \in RF!ExceptionModes /\ RF!Mode = m
      BY <3>1, SameNames
    <3> QED
      BY <2>2, <2>3, <2>4, <3>2, <3>3 DEF RF!WriteSpsr
  <2>7. CASE m \notin Modes
    <3>1. i = get_register_from_mode(FIQ)
      BY <2>7, ModesDistinct DEF Modes, get_register_from_mode
    <3>2. AbstractSpsr' = [AbstractSpsr EXCEPT ![FIQ] = w] /\ AbstractSpsr[FIQ] = reg.psr[i]
      BY <2>1, <3>1, SpsrCellWrite
    <3>3. RF!Mode \notin RF!ValidModes /\ FIQ \in RF!ExceptionModes
      BY <2>7, SameNames
    <3> QED
      BY <2>2, <2>3, <2>4, <3>2, <3>3 DEF RF!UnpredictableWriteSpsr
  <2> QED
    BY <2>6, <2>7
<1> QED
  BY <1>2, <1>3

(***************************************************************************)
(* Called with the register numbers 0..15, the group implements the        *)
(* architected register file, for every set of values.                     *)
(***************************************************************************)
THEOREM Refinement ==
    ASSUME Regs \subseteq 0..15
    PROVE  RegSpec => ImplementsRegisterFile
<1>1. RegInit => RF!Init
  BY InitRefines
<1>2. RegTypeOK /\ [RegNext]_reg => [RF!Next]_(RF!vars)
  <2> SUFFICES ASSUME RegTypeOK, [RegNext]_reg
               PROVE  [RF!Next]_(RF!vars)
    OBVIOUS
  <2>1. ASSUME NEW n \in Regs, NEW v \in Values, WriteRegister(n, v)
        PROVE  RF!Next
    BY <2>1, WriteRegisterRefines DEF RF!Next
  <2>2. ASSUME NEW n \in Regs, NEW v \in Values, WriteUsrRegister(n, v)
        PROVE  RF!Next
    BY <2>2, WriteUsrRegisterRefines DEF RF!Next
  <2>3. ASSUME NEW v \in PsrValues, WriteCpsr(v)
        PROVE  RF!Next
    BY <2>3, WriteCpsrRefines DEF RF!Next
  <2>4. CASE UNCHANGED reg
    BY <2>4 DEF RF!vars, AbstractBanked, AbstractSpsr
  <2>5. ASSUME NEW v \in PsrValues, WriteSpsr(v)
        PROVE  RF!Next \/ UNCHANGED reg
    BY <2>5, WriteSpsrRefines DEF RF!Next
  <2> QED
    BY <2>1, <2>2, <2>3, <2>4, <2>5 DEF RegNext, RF!vars, AbstractBanked, AbstractSpsr
<1> QED
  BY <1>1, <1>2, TypeCorrect, PTL DEF RegSpec, ImplementsRegisterFile, RF!Spec

(* Each call is the operation of the register file of its own name.        *)
THEOREM CallsAreOperations ==
    ASSUME Regs \subseteq 0..15
    PROVE  RegSpec => EachCallIsItsOperation
<1> DEFINE Named ==
      /\ \A n \in Regs, v \in Values :
           /\ WriteRegister(n, v) => RF!Write(n, v) \/ RF!UnpredictableWrite(n, v)
           /\ WriteUsrRegister(n, v) => RF!WriteUser(n, v)
      /\ \A v \in PsrValues :
           /\ WriteCpsr(v) => RF!WriteCpsr(v)
           /\ WriteSpsr(v) => RF!WriteSpsr(v) \/ RF!UnpredictableWriteSpsr(v)
<1>1. RegTypeOK /\ [RegNext]_reg => [Named]_reg
  <2> SUFFICES ASSUME RegTypeOK, reg' # reg PROVE Named
    OBVIOUS
  <2>1. ASSUME NEW n \in Regs, NEW v \in Values
        PROVE  /\ WriteRegister(n, v) => RF!Write(n, v) \/ RF!UnpredictableWrite(n, v)
               /\ WriteUsrRegister(n, v) => RF!WriteUser(n, v)
    BY <2>1, WriteRegisterRefines, WriteUsrRegisterRefines
  <2>2. ASSUME NEW v \in PsrValues
        PROVE  /\ WriteCpsr(v) => RF!WriteCpsr(v)
               /\ WriteSpsr(v) => RF!WriteSpsr(v) \/ RF!UnpredictableWriteSpsr(v)
    BY <2>2, WriteCpsrRefines, WriteSpsrRefines
  <2> QED
    BY <2>1, <2>2
<1> QED
  BY <1>1, TypeCorrect, PTL DEF RegSpec, EachCallIsItsOperation

(* Reads return the register that the architecture makes visible.          *)
THEOREM ReadsAreRight == RegSpec => []ReadsSeeTheVisibleRegister
<1>1. RegTypeOK => ReadsSeeTheVisibleRegister
  <2> SUFFICES ASSUME RegTypeOK, get_mode(reg) \in Modes
               PROVE  /\ \A n \in 0..15 : read_register(reg, n) = RF!VisibleValue(n)
                      /\ \A n \in 0..15 : read_usr_register(reg, n) = reg.main[n]
                      /\ current_mode_has_spsr(reg) =>
                            read_spsr(reg) = AbstractSpsr[get_mode(reg)]
    BY DEF ReadsSeeTheVisibleRegister
  <2> DEFINE m == get_mode(reg)
  <2>1. ASSUME NEW n \in 0..15
        PROVE  read_register(reg, n) = RF!VisibleValue(n)
    <3>1. CASE InMain(reg, n)
      <4>1. <<m, n>> \notin BankedCopies
        BY <3>1, ModesDistinct, LayoutIsRight DEF InMain, current_mode_has_spsr
      <4> QED
        BY <3>1, <4>1, SameNames DEF read_register, RF!VisibleValue
    <3>2. CASE ~InMain(reg, n)
      <4>1. n \in 8..14 /\ m # USR /\ m # SYS /\ (m = FIQ \/ n \in {13, 14})
        BY <3>2 DEF InMain, current_mode_has_spsr
      <4>2. <<m, n>> \in BankedCopies
        BY <4>1, ModesDistinct DEF Modes, BankedCopies
      <4>3. read_register(reg, n) = reg.banked[LayoutIndex(m, n)]
        BY <3>2, <4>2, LayoutIsRight DEF read_register, InBanked
      <4>4. AbstractBanked[<<m, n>>] = reg.banked[LayoutIndex(m, n)]
        BY <4>2 DEF AbstractBanked
      <4> QED
        BY <4>2, <4>3, <4>4, SameNames DEF RF!VisibleValue
    <3> QED
      BY <3>1, <3>2
  <2>2. \A n \in 0..15 : read_usr_register(reg, n) = reg.main[n]
    BY DEF read_usr_register
  <2>3. current_mode_has_spsr(reg) => read_spsr(reg) = AbstractSpsr[m]
    BY ModesDistinct DEF current_mode_has_spsr, Modes, read_spsr, AbstractSpsr,
                         get_register_from_mode
  <2> QED
    BY <2>1, <2>2, <2>3
<1> QED
  BY <1>1, TypeCorrect, PTL
============================================================================
