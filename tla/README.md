# A TLA+ model of the ARM simulator

The repository is an instruction-level simulator of an ARMv5 processor, driven by
gdb over a socket (`arm_simulator`), with a small command that sends exceptions to
it (`send_irq`).  This directory models its core in TLA+, checks it with TLC on
small instances, and proves most of the same properties for every value of the
constants with TLAPS.

    tlc -config MCStorage.cfg MCStorage         # one run: a .cfg and its MC module
    tlapm RegistersProofs.tla                   # one proof module

`PROJECT.json` holds the list of runs, the source lines behind every definition,
the hazards, the findings, and for every checked property a mutated definition
that violates it.

## The system

| Component | State | Operations | Used by |
|---|---|---|---|
| `registers` | 16 main, 15 banked registers, CPSR and 5 SPSRs in flat arrays | read and write registers, CPSR and SPSR in the current or in User mode | `arm_core` |
| `memory` | bytes, size, endianness | read and write bytes, half-words, words | `arm_core`, `arm_simulator` |
| `util` | none | bit fields, `asr`, `ror`, byte swaps | everything |
| `arm_core` | registers, memory, cycle count | access with trace, fetch | the instructions, `gdb_protocol` |
| `arm_exception` | none | raise an exception (only RESET acts) | `arm_step`, the irq thread |
| `arm_instruction` | none | fetch, condition, decoding, `arm_step` | `gdb_protocol` |
| `arm_data_processing`, `arm_load_store`, `arm_branch_other` | none | the instructions | `arm_instruction` |
| `scanner` | parser buffer, error buffer | split the connection into packets, acknowledgements and noise | the gdb thread |
| `gdb_protocol` | last packet, memory and registers through `arm_core` | twelve handlers | `scanner` |
| `arm_simulator` | options, three threads, one mutex, two sockets | parse options, start, listen, join, destroy | |
| `send_irq` | none | send one exception number | user |
| `trace` | trace file, on or off, flags, stack of source locations | switch, enter and leave a location, print an access | `arm_core`, the handlers, main |
| `debug` | sorted array of at most 64 file names | add a name, search one | main, `gdb_protocol`, `scanner` |
| `csapp` | none | wrappers of system calls; `rio_writen` repeats short writes | `gdb_protocol`, `arm_simulator`, `send_irq` |
| `arm_constants`, `arm` | names | | everything |

The gdb thread scans the connection.  A packet that has a handler takes the mutex,
runs to its end (for `c`, the whole execution up to a breakpoint) and releases it.
The irq thread accepts a connection, reads one byte, takes the mutex and calls
`arm_exception`.  The main thread joins the gdb thread only, destroys processor
and memory, and returns, which ends the process.

What is hard here: the index arithmetic of the banked registers together with the
masks of CPSR; three different offsets of the pc (stored, fetched, read); flags
computed from operands that have been overwritten or have wrapped around;
instructions that stop half-way or are refused after they have acted; byte orders
of host, target and packets; requests and answers that are transmitted again;
the trace, whose switch and stack all threads share; and the threads: who holds the mutex for how long, and
what is destroyed while somebody may still use it.

What makes each component correct, in short: *registers* implement the architected
banked register file; *memory* is one memory whatever the size of the access, and
stays inside its array; *instructions* compute the exact result and flags, move the
pc by one instruction unless they branch, and an abort is harmless; the *gdb
protocol* returns what was written, in one byte order, and executes each request
once whatever the line garbles; the *trace* shows the accesses of the program, and
only those; the *search* of debug names is right; the *threads* complete every
command, deliver every exception, never execute a breakpoint, never use a destroyed
processor and let the process end.

## Modules

| Module | Models | Form |
|---|---|---|
| `Words` | `util` | a 32-bit word is the set of its 1 bits; addition, shifts, fields.  `Lo`, `Hi` split it into halves that TLC's integers hold |
| `Registers` | `registers.c` | the group as a record, each C function an operator; one action per write |
| `RegisterFile` | the architecture | abstract specification: a register is a pair (name, bank) |
| `Memory` | `memory.c` | a record with one foreign byte behind the array; one action per write |
| `ArmCore` | `arm_core.c`, `arm_exception.c` | register accesses with the offset of the pc, exceptions |
| `ArmDataProcessing` | `arm_data_processing.c` | operand, result and flags of the sixteen instructions |
| `DataProcessing` | the same | machine that executes any one instruction after another; exact integers as reference |
| `ArmLoadStore`, `ArmBranchOther` | the files of that name | outcome of an instruction: new registers, memory and result |
| `ArmInstruction` | `arm_instruction.c` | `reg`, `mem`, `result`; one action per class of instruction, each a whole `arm_step` |
| `GdbProtocol` | `gdb_protocol.c` | the handlers as operators on the same state |
| `Simulator` | `arm_simulator.c`, `scanner.l`, `send_irq.c` | the threads, on top of `ArmInstruction` and `GdbProtocol` |
| `GdbTransmission` | `scanner.l`, packets of `gdb_protocol.c`, `rio_writen` of `csapp.c` | the connection character by character, with gdb and a garbling line as environment |
| `RequestReply` | the protocol | abstract specification: each request executed once, answered with its own result |
| `Debug` | `debug.c` | the array as a function, the binary search one step per turn of its loop |
| `Trace` | `trace.c` | the static variables as a record, each C function an operator on it |
| `Startup` | `main`, `create_server`, `trace_location.h`, `debug.h` | options, then the threads as scripts of their calls to `trace`, `debug` and the mutex |
| `Encoding` | none | builds instruction words and memory images for the MC modules |
| `MC...` | none | programs, operands and packets of the checked instances |
| `RegistersProofs`, `MemoryProofs`, `DataProcessingProofs`, `ProcessorProofs`, `SimulatorProofs`, `StartupProofs` (with `Debug`), `TransmissionProofs` | | the theorems about the module of that name |
| `ArmDataProcessingProofs` | | the lemmas about words, registers and instructions that the modules above it share |

`Registers` and `Memory` export values and operators, so that the upper modules
compose them by extension: a C pointer to a group or a memory becomes a variable,
and a call becomes an application.  An instruction is one step, because the
processor is only used with the mutex held; `Simulator` cuts a handler only where
the code reads shared state and acts on it later (`cont` looks at the next opcode,
then executes).

`GdbTransmission` and `Startup` look at the same threads as `Simulator` from another
side.  The first keeps every character and leaves what a handler does to
the constant `Answer`; `Simulator` keeps what the handlers do and takes
a packet as one token.  The second keeps, of a handler, an instruction or an
exception, the calls that touch the trace, the debug flags and the mutex: each is
a script, and a thread executes its script call by call.  In an expression such as
`arm_read_register(p, reg)+END_LOCATION` C leaves the order open; gcc calls the
function first, which is the order of `Located`.  `Startup` is checked in the build
with `CACHE_DEBUG_FLAG`, the alternative that `Makefile.am` offers: the default build
asks the search every time and keeps nothing that could be stale.

In `Simulator` and `Startup`, data that the properties do not distinguish is
abstract: a packet is a tuple of its
letter and its decoded arguments; a checksum is right or the token is `"bad"`;
a character outside of any packet is `"junk"`; texts of answers are names.  Byte
order, the two-digit encoding of registers and memory, the escape character of `X`
and the decimal reading of the register number of `p` are kept, because properties
depend on them.

Undefined behaviour is a choice.  An opcode that the fetch did not set is any
member of `Stale`, and `cont`'s local variable starts as any member of it.  Shifts
by 32 yield each of the outcomes a build produces.  A byte behind the memory array and a write to `main_registers[16]` go to cells that the models have for them.

## Runs

Passing runs:

| Run | Shows |
|---|---|
| `storage` | Registers: the flat arrays implement `RegisterFile` in every mode, each call as the operation of its own name on its own register; reads return the visible register, and User mode is never left.  Memory: byte, half-word and word accesses see one memory, read back what was written, and the multi-byte ones stay inside, also where `address+3` wraps around. |
| `data_processing` | Results are exact, and so are all flags that do not go through the faulty flag functions (below).  LSL, LSR, ASR are that many one-bit shifts, in value and carry, for amounts 0 to above 32.  Only an exception return changes CPSR below the flags; no SPSR changes. |
| `instructions` | CMP then a condition holds exactly when the integers are in the relation the condition names.  The pc moves by one instruction unless an instruction writes it; BL links to the next instruction.  Undefined instructions have no effect.  A single transfer that aborts leaves memory and destination alone; LDM and STM put the registers where `Examples/ex_LDM_STM.s` says, and abort at the first illegal place, after an exact prefix. |
| `sim_threads` | `cont` never executes a breakpoint, commands and exceptions complete, the process ends when gdb disconnects. |
| `transmission` | With garbled requests and answers, short writes, interrupts and a connection that closes at any moment, `GdbTransmission` implements `RequestReply`.  gdb finds on the connection what the protocol has it expect, and every request is answered unless gdb leaves. |
| `startup` | From every command line on: whoever takes the mutex finds the trace on and its stack empty; accesses of the program are printed with their own source line in the file asked for, from the first reset on, and accesses of gdb never; no two servers accept on one port; debug messages are on exactly for the files named, as long as there are no more names than cells in the array. |
| `sim_protocol` | What G and P wrote is what g then returns, CPSR included as far as its masks let through; P changes no other register.  Registers and memory have one byte order, and the error buffer never overflows, in both endiannesses. |

Runs that end in a violation, each of a sentence the repository says about the code:

| Run | Disagreement |
|---|---|
| `dp_flag_functions` | `carry_from` compares with `0xfffffff`, one digit short: CMN of 0 and 2^28 sets C.  The property also asks for the three-operand functions of SBC, which test partial operations that wrap around. |
| `sim_endless` | While `cont` runs an endless program it keeps the mutex: the exception of `send_irq` is never raised. |
| `sim_destroy` | The irq thread may raise an exception in a processor that main has destroyed. |
| `sim_packet` | `read_memory` does not look at the end of the packet buffer: the answer to a read of 512 bytes has the 0x400 characters that `"PacketSize=400"` (`gdb_protocol.c:199`) announces, but the buffer of 1024 must also hold its frame and NUL, 1029 characters in all. |
| `tx_stray` | The interrupt character of gdb is not a token of the scanner: it counts as invalid data, for which the "-" is only sent with the next token.  gdb then repeats the valid packet it has sent meanwhile, and a step is carried out twice. |

Behaviour that the models keep as it is in the code and the passing properties leave out:

- A write to register 16 or above does nothing only in modes with an SPSR
  (`registers.h:93` says always); no caller does it.  `ImplementsRegisterFile` is about 0 to 15.
- `subs r1, r1, r2` computes its flags from the overwritten operand:
  `FlagsFollowTheResult` is about other destinations.
- Logical instructions clear V, which a comment calls unaffected (`arm_data_processing.c:214`).
- An exception return loads an SPSR that nothing ever wrote, so the mode becomes 0.
- LDRT, LDRBT, STRT, STRBT act before they are refused as not implemented:
  `UndefinedHasNoEffect` excludes them.
- A byte at address = size is accepted and written behind the array
  (`memory.c:111`): `MultiByteInside` leaves that address out for bytes.
- The operand form commented "rotate right by immediate" (`arm_data_processing.c:164`)
  shifts arithmetically: `ShiftsAreRepeated` is about the other three shifts.
- A reset in User mode cannot enter Supervisor mode, because its write of CPSR is
  masked like any other (`arm_exception.c:37`): `UserModeIsFinal` holds for it too.
- The connections of `send_irq` are never closed; when no descriptor is left, `Accept`
  ends the process.  `IrqsDelivered` accepts that end.
- `arm_print_state` prints, for every mode but User, the registers of the current mode, and
  its own accesses are traced without a location (`arm_simulator.c:128` says "for each
  traced access"): `TraceIsFaithful` is about the accesses of the program and of gdb.
- A debug name that finds 64 names in the array moves the last one behind it, if it belongs
  before the end, and is dropped otherwise (`debug.c:39`).  `DebugSelects` is about command lines with
  no more names than cells; `SearchIsRight`, about the names that the array took, goes on until it is overrun.
- A newline outside of packets is matched by no rule of `scanner.l`, so that flex echoes it to the
  standard output: gdb does not send one, and the environment of the models does not either.
- The look of `cont` at the next opcode protects an instruction only as long as the process lives:
  `BreakpointNotExecuted` is about processes that have not ended.
- `p` reads its register number in decimal: `WrittenRegistersAreRead` asks for the answer of `p` for R0 to R9
  only, and for that of `g` for all registers.

### Bounds

- `storage`: the two groups share nothing, so each is explored with the other as created.
  Registers: R1, R8, R13, R14 and R15, one of each banking class; one value besides the initial zero, every mode, a word that
  names no mode, and all ones for CPSR; at most `MaxDirty` = 2 cells that are not zero.
  A layout fault shows with one dirty cell (wrong place) or two (a shared one).
  The proofs have no bound.
  Memory: `Size` = 4 and `AddressSpace` = 12 (2^32 in the code): one word, every
  offset in it, the word behind it and the addresses from which `+3` wraps around.
- `data_processing`, `dp_*`: words have their full 32 bits; the operands are the boundary
  values around 0, 2^28 (where `carry_from` errs), 2^31 and 2^32, in pairs, before every
  instruction.  `MaxSteps` = 1: the starting groups are all those of interest, mode 0 included.
- `instructions`: programs of two to six words in a memory of 40 bytes, so that
  accesses fall before, on and behind its end, and LDM and STM also start from 0xfffffffc, from
  where they wrap around; a program ends with the SWI that exits,
  or is not followed behind address `MaxPc` = 40.  `AddressSpace` = 96 keeps the wrap-around.
- `sim_*`: `MaxInput` = 2 tokens are enough for every packet after every other, a
  retransmission or a disconnection during a command; `MaxIrqs` = 2 lets an
  exception arrive while another waits.  `MAX_ERROR_SIZE` = 2 instead of 1024 makes
  noise fill the buffer.  `InsideMemory` does not follow `cont` behind the memory,
  where the code runs for ever on opcodes that it could not read.

- `sim_packet`: a memory of `Size` = 512 bytes and the real buffer of 1024 characters; one request, a read of all
  of it.  `Intact` keeps `Simulator` from following the gdb thread after an overrun.
- `sim_threads`: `MaxFds` = 2 descriptors, as many as connections, so that `Accept` fails after the last one.
- `transmission`: `MaxRequests` = 3, so that a retransmission meets the answer to another
  request, and after a stray character gdb, which waits for an acknowledgement, meets an
  old answer; `MaxFaults` = 2, a request and an answer garbled, or one of them twice;
  `MaxStrays` = 1 (`sim_protocol` is the run that fills the error buffer).
  `MAX_PACKET_SIZE` = 8 is the longest packet of the run with its NUL: what an overrun does is not followed (`Intact`).  The line changes one character of a packet, in its content or its
  checksum, and the answers tell executions apart.
- `startup`: `MAX_FILES_NUMBER` = 3 with every sequence of at most four of four names, so that
  the array is filled and overrun; `MAX_LOCATIONS` = 2 is the deepest nesting of traced calls;
  `Ports` = 4 instead of 2^16 lets a port wrap around to 0 and to the other's; every
  subset of the trace options; two commands and one exception.

Deadlock is not checked in the processor and simulator runs: a program ends with
SWI, and the simulator ends; nor in `transmission` and `startup`, where gdb may have
asked all its questions.

### Fairness

`SimFairness` is weak fairness of each of the three threads: the system schedules
every thread that can run.  Nothing is assumed of gdb and `send_irq`, and nothing
of the mutex: a thread waiting for it is only enabled while it is free (POSIX does not
promise more); the properties hold in `sim_threads` all the same, since the input
is finite.  For the gdb thread `ENABLED` is written out (`GdbReady`): a handler,
once started, is never blocked.  `sim_endless` is violated under the same fairness.

`TxSpec` has weak fairness of the gdb thread, and of gdb's reading of what has arrived:
without the second nobody would ask for a retransmission of an answer.  gdb is
never forced to ask, to interrupt or to close.

## Proofs

A theorem holds for every value of the constants that the named assumptions of its
module admit.  Those on data say what the program can be given: registers and
memories are well formed, the data of a packet are bytes (`SimulatorAssumption`),
the content of a packet is not empty, is made of bytes and has no `$` or `#` (`TransmissionAssumption`, the rule of `scanner.l`), an option has an argument of its
kind and traced calls nest at most twice (`StartupAssumption`).

**Registers** (`RegistersProofs`).

- `TypeCorrect`: the group is well formed after any sequence of
  calls.  `RegTypeOK` is inductive; one step per write.
- `UserFinal`: no step leaves User mode.  In User mode a write of CPSR goes through
  the mask of the flags (`MaskedIsUpdated`), and every other write leaves CPSR alone.
- `ReadsAreRight`: in each of the seven modes, `registers_read` returns the cell of
  the register that the mode makes visible.
- `Refinement`: for register numbers 0 to 15 the flat arrays implement
  `RegisterFile`.  The mapping sends (name, bank) to its cell; `LayoutIsRight` says that
  the index arithmetic computes that cell in each mode and `LayoutIsInjective` that
  no two registers share one, so that a write of one cell is an update of one
  register.  The restriction of the numbers is needed: in User and System mode a
  write to register 16 reaches the cell behind the main registers.
- `CallsAreOperations`: the same lemmas per call.  `Refinement` alone hides which call made a
  step, so that it would accept R13 and R14 swapped.

**Memory** (`MemoryProofs`).

- `MemTypeCorrect` and `MultiByteStaysInside`: for every size that is a multiple of 4
  (the code allocates 0x20000) and every larger address space, half-word and word
  writes leave the byte behind the array alone, and so do byte writes except at
  address = size; the alignment test is what excludes
  the wrap-around (`HalfInside`, `WordInside`).
- `SizesAlwaysAgree`, `WritesAreReadBack`: a word is a union of lanes (`LoadIsLanes`), lanes
  of a half-word moved by 16 are lanes of the word (`HigherLanes`), and a value narrowed
  to a byte comes back in its own lane (`NarrowedLane`); for both byte orders.

**Instructions** (`ArmDataProcessingProofs`, `DataProcessingProofs`, `ProcessorProofs`).

- The lemmas connect words, which are sets of bits, with numbers.  `Ripple` unfolds the carry
  of `Plus` bit by bit, `AddDigit` adds four bits and a carry, `AddFourDigits` and
  `AddHalves` put digits and halves together, `Complement` turns `Minus` into a sum and
  `LessIsBorrow` the comparison into a borrow.  `ReadAfterWrite` says that in each mode the
  sixteen visible registers are distinct cells.
- `ArithmeticIsRight`, `FlagsAreRight`: what the instructions compute is the exact integer
  result, for all operands; the flags as far as `FlagsFollowTheResult` asks for.
- `DpTypeCorrect`, `ControlBitsAreKept`: every encoding, not only the ones that a run executes.
- `ProcessorTypeCorrect`, `UndefinedIsHarmless`, `AbortsAreHarmless`: one lemma per class of
  instruction says what its outcome may be; LDM and STM are followed register by register
  (`TransfersUnfold`).
- `ComparisonsAreDecided`: the flags of CMP are given by `FlagsAfter`; `Overflows` and
  `CompareNumbers` say when sign and overflow of a difference mean *smaller*, and
  `CompareFlags`, `ConditionsRead` and `RelationsRead` that the code of a condition reads those flags and
  `Relation` those numbers, one case per condition.
- `PcAlwaysRunsAhead`: an address that can be fetched is below 2^28 (`FetchIsLow`), so that adding 4
  does not wrap; `ToWordOfToNat` (halving a number is shifting its word) makes the address the word
  that `PcRunsAhead` compares.  Then one lemma per class of instruction: one that does not name the pc as
  a destination keeps it.
- `BranchesAlwaysLink`: `BranchOffset` is the number that the 24 bits, extended with their sign and
  shifted by two, stand for; `BranchTarget` adds it to the pc modulo 2^32.
- `MultipleIsLaidOut`, `AbortedIsPrefix`: `Stage` is the invariant of the loop of LDM and STM.  It
  says that its address is that of the place of the register it has come to, and `Progress` says what the registers
  before it have done to registers and memory, also at the place where the loop stops.
  `MovesAreSteps` adds up the steps of 4 modulo 2^32, `Ranks` counts the registers of the list, and
  `PlacesApart` says that two registers never share a place (`AddressesApart`), so that a later
  store spares the earlier ones (`OtherWordsAreKept`).  The proof is why `Place` is computed on
  words: with integers the layout is false for a base from which the addresses wrap around.

**Threads and protocol** (`SimulatorProofs`).

- `BreakpointsStop`: `BreakpointNotExecuted` is not inductive, because nothing in it keeps
  the irq thread from moving the pc.  `LockInv` adds the places of the two threads, that the
  mutex is held by the one which is inside (`Holder`), and that what `cont` saw is what it
  will fetch (`Seen`).
- `ErrorsFit`: the guard of `add_character_to_error` for every size of the buffer.
- `SimTypeCorrect`: `SimTyped` adds that the packet being handled is one that gdb sends and
  the exception being read one that `send_irq` sends; the loops over the data of `G` and
  `X` are followed by induction.
- `OneOrderAlways`, `WrittenIsRead`: `LanesApart`, `Uint32` and `WrittenUint32` say that `read_uint32`
  and `write_uint32` undo each other.  The property is about every step that leaves the handler of `P` or `G`;
  `WriteHandlersOnly` says that these are the handlers themselves.  For `P`, `ReadAfterWrite` gives the register
  written and all others; for `G`, sixteen writes one after the other are each read back
  (`RegistersWrittenAreRead`), the write of CPSR moves none of R0 to R7 and the pc, none at all if it
  keeps the mode, and `CpsrBits` says which bits its masks let through.

**Start, trace and debug names** (`StartupProofs`).

- `DebugSearchCorrect`: `SearchIsRight` says nothing while the loop of the search
  runs; `DebugInv` adds that the array is sorted and holds just the names it took, that these are all the
  names given if there were no more than cells (`Named`), and that a
  name sought is, if anywhere, between `from` and `to`.
- `TraceAlwaysHandedOver`, `TraceAlwaysFaithful`, `StartTypeCorrect`, `ServersAlwaysApart`,
  `DebugAlwaysSelects`: a *mode* is what trace and mutex look like to a thread; a call is
  allowed in some modes and leads to another.  `Leads(s, a, b)` says that a script is allowed
  from mode a on and ends in b; it is proved of each handler, instruction and exception
  by concatenation (`BothLead`, `LocatedLeads`).  `StartupInv` says that what is left of the
  script of each thread leads from what the trace now is to what the thread owes the others.

**Transmission** (`TransmissionProofs`).

- The theorems have the hypothesis `AnswersArePlain`: the handlers answer with characters other
  than `$` and `#`.  Nothing is assumed of the length of an answer; `Intact` ends what the model follows
  with the first packet that does not fit (`sim_packet`).
- `StreamAlwaysUnderstood`: `TxInv` lists the phases of the dialogue (`Quiet`,
  `Asking`, `Rejecting`, `Accepting`, `Answering`, `Complaining`) with what is on the
  connection in each.  Each step leads from a phase to a phase: `TokenOfPacket` finds a whole
  packet at the head of the connection, `TokenOfPart` none in a part of one, which short
  writes leave.
- `TransmissionRefines`: `TxSpec` implements `RequestReply`, step by step.  The phases give it as
  long as no stray character arrives and gdb is there.  For the time after that `TxInv` also says
  that wherever a `$` is on the connection, a whole packet is (`Carries`): towards the server one
  that may arrive of a request that was asked, towards gdb the answer of an execution (`Streams`).
  `Single` says that before a disturbance at most one request is on its way or in the
  handler, and that it is the last one asked.  `CheckedIsSent` is what makes a packet with the
  right checksum the one that was sent: one changed character changes the sum of bytes
  modulo 256 (`OneGarbleShows`, along the loop of `gdb_send_buffer`), or one of
  the two digits it is compared with.

Functions defined by recursion are unfolded with `Least` and `Inductive` (`Along` for the
characters), which rest on the well-foundedness of the natural numbers.

Only model-checked:

- out of the prover's reach, liveness under fairness: `CommandsComplete`, `IrqsDelivered`,
  `DisconnectEndsProcess`, `RequestsAnswered`;
- the runs that end in a violation;
- not proved yet: `ShiftsAreRepeated`.

## Not modelled

- `arm_constants.c` (names for printing) and `arm.c` (empty); `scanner.c`, generated from `scanner.l`;
  `csapp.c` beyond the wrappers that the program calls.
- Text: the lines of the trace (with the cycle count, which the reset of `arm_create` reads before it is
  initialised, and `last_address`, which only the other trace format uses), debug
  messages, query answers.
- The failure of `malloc` in `memory.c`, `arm_core.c` and `gdb_protocol.c`, and the size that
  `memory_create` asks for: `sizeof(memory)` (`memory.c:40`) is that of a pointer, less than the struct needs.
- What the gdb thread does once an answer has overrun the packet buffer.
- In the transmission: losses inside the frame of a packet (`$`, `#`, acknowledgements), which
  gdb repairs with timeouts of its own; TCP does not produce them.  The request `k`, which
  is not answered, is in `Simulator`.
- Name lookup and option parsing of `send_irq`.

## Plan

Done: the model, and the theorems above.  Next, in order of importance:

1. `ShiftsAreRepeated`, the last property of instructions that is only model-checked.
2. A reference for the addressing modes of the single transfers, as `MultipleLayout`
   is one for the multiple ones.
