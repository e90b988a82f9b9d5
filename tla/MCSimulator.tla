---------------------------- MODULE MCSimulator ----------------------------
(* Small instances of Simulator: a program of two instructions and the     *)
(* packets that gdb may send about it.                                     *)
EXTENDS Simulator, Encoding

Break == AL \cup 24..26 \cup 20..23 \cup 4..7                 \* 0xe7f000f0

(* r3 := pc, then a breakpoint, started before, at or behind it; the one   *)
(* started behind it meets it only if an exception resets the pc.          *)
Stopping == Machine(<<Data(13, FALSE, 0, 3, Field(15, 0)), Break,
                      AL \cup Field(15, 24) \cup SwiExit>>, Regs2(Zero, Zero), {})
StoppingMachines == {[Stopping EXCEPT !.reg.main[15] = pc] : pc \in {Zero, {2}, {3}}}

(* A breakpoint at the reset address, and a program elsewhere.             *)
ResetMachines ==
    {[Machine(<<Break, Data(13, FALSE, 0, 3, Field(15, 0)), Break>>, Regs2(Zero, Zero), {})
        EXCEPT !.reg.main[15] = {2}]}
ThreadMachines == StoppingMachines \cup ResetMachines

EndlessMachines == {Machine(<<BranchTo(14, FALSE, -2)>>, Regs2(Zero, Zero), {})}

(* The same processor with the memory of a big endian simulator.           *)
LoadedMachines ==
    LET program == <<Data(13, FALSE, 0, 3, Field(15, 0)), Break, Transfer({23, 24}, 2, 1, Zero)>>
        m == Machine(program, Regs2({0, 9, 18, 31}, {2}), {})
    IN  {m, [m EXCEPT !.mem = Image(TRUE, program)]}

SimStale == {Zero, Break}

----------------------------------------------------------------------------
ThreadCommands == {<<"c">>, <<"s">>, <<"k">>}

AByte(n) == ToWord(n)
Four1 == <<AByte(1), AByte(32), Zero, AByte(128)>>
(* R0 to R15 and CPSR, for G; two digits strings per mode of CPSR.         *)
Registers17(cpsr) ==
    [n \in 0..16 |-> IF n = 16 THEN [i \in 1..4 |-> IF i \in {1, 4} THEN cpsr ELSE Zero]
                     ELSE IF n = 15 THEN <<AByte(6), Zero, Zero, AByte(6)>>
                     ELSE <<AByte(n), AByte(2), AByte(3), AByte(16)>>]

AllCommands == ThreadCommands \cup
    {<<"g">>, <<"?">>, <<"q">>, <<"z">>,
     <<"H", "c", 0>>, <<"H", "g", 1>>,
     <<"p", 1>>, <<"p", 15>>, <<"p", 25>>, <<"P", 1, Four1>>, <<"P", 13, Four1>>,
     <<"P", 15, Four1>>, <<"P", 25, Four1>>,
     <<"G", Registers17(SVC)>>, <<"G", Registers17(USR)>>,
     <<"m", 4, 4>>, <<"m", 10, 9>>,
     <<"X", 0, <<AByte(1), Escape, AByte(3)>>>>, <<"X", 11, Four1>>, <<"X", 12, <<Zero>>>>}

(* The longest read of gdb: as many bytes as half of PacketSize.           *)
LongReads == {<<"m", 0, 512>>}

(* Bound: cont is not followed outside the memory, where it runs for ever. *)
InsideMemory == gdb \in {"cont", "step"} => FetchOk(reg)

NoNoise  == {}
AllNoise == {"+", "-", "bad", "junk"}
NoIrqs   == {}
SomeIrqs == {RESET, INTERRUPT}
============================================================================
