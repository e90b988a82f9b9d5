------------------------------ MODULE Startup ------------------------------
(***************************************************************************)
(* main of arm_simulator.c from its options to the threads, and what the   *)
(* threads do to the trace and debug state that all of them share.  Of a   *)
(* handler, an instruction or an exception only the calls that touch that  *)
(* state are left: each is a script of such calls, executed one by one.    *)
(***************************************************************************)
EXTENDS Debug, Trace, Sequences

CONSTANTS Argvs,              \* the command lines
          CACHE_DEBUG_FLAG,   \* of debug.h
          Ports,              \* a 16-bit port is taken modulo this
          Ephemeral,          \* the ports that the system gives out
          Commands,           \* the packets that gdb sends
          MaxCommands,        \* bound: packets sent
          MaxIrqs             \* bound: exceptions sent

(* The options with their arguments, and the source lines of the calls.    *)
Arguments ==
    {<<l>> : l \in {"h", "r", "m", "s", "p", "?"}}
        \cup ({"g", "i"} \X Nat) \cup ({"t"} \X TraceFiles) \cup ({"d"} \X Names)
SourceLines == {"exception_cpsr", "exception_pc", "fetch", "outer", "inner", "memory", "gdb"}

ASSUME StartupAssumption ==
    /\ Argvs \subseteq Seq(Arguments)
    /\ SourceLines \subseteq Locations /\ MAX_LOCATIONS >= 2     \* calls nest twice
    /\ CACHE_DEBUG_FLAG \in BOOLEAN
    /\ Ports \in Nat \ {0} /\ Ephemeral \subseteq 1..(Ports - 1) /\ Ephemeral # {}
    /\ MaxCommands \in Nat /\ MaxIrqs \in Nat

VARIABLES argv, port, trace_file,   \* main: options left, and its locals
          tr,                       \* the trace
          cache,                    \* is_debugged_result of each source file
          script, lock,             \* the calls that each thread has yet to make
          bound, listening,         \* the ports of the servers, 0 before; who listens
          line,                     \* the last traced call and what it printed
          commands, irqs, exit

mainVars   == <<argv, port, trace_file>>
threadVars == <<script, lock, bound, listening, commands, irqs>>
startVars  == <<debugVars, mainVars, tr, cache, threadVars, line, exit>>

Threads == {"main", "gdb", "irq"}
GdbProtocolFile == 2      \* the files that have debug messages
ScannerFile     == 3
DebugFiles      == {GdbProtocolFile, ScannerFile}

NoLine == [printed |-> FALSE, flag |-> "state", by |-> "nobody", loc |-> NoLocation,
           shown |-> NoLocation, file |-> NoFile]

StartInit ==
    /\ DebugInit
    /\ argv \in Argvs /\ port = [t \in {"gdb", "irq"} |-> 0] /\ trace_file = "stdout"
    /\ tr = TraceStart /\ cache = [f \in DebugFiles |-> "unset"]
    /\ script = [t \in Threads |-> IF t = "main" THEN <<[op |-> "options"]>> ELSE <<>>]
    /\ lock = "free" /\ bound = [t \in {"gdb", "irq"} |-> 0] /\ listening = {}
    /\ line = NoLine /\ commands = 0 /\ irqs = 0 /\ exit = "no"

----------------------------------------------------------------------------
(* The scripts. *)

Op(name)       == <<[op |-> name]>>
DebugOp(file)  == <<[op |-> "debug", file |-> file]>>
Access(flag, by, loc) == <<[op |-> "access", flag |-> flag, by |-> by, loc |-> loc]>>

(* The macros of trace_location.h around a call: the call, then            *)
(* END_LOCATION, which is the order in which gcc evaluates the sum.        *)
Located(loc, calls) == <<[op |-> "start", loc |-> loc]>> \o calls \o Op("end")

ExceptionCalls ==
    Located("exception_cpsr", Access("registers", "program", "exception_cpsr")) \o
    Located("exception_pc", Access("registers", "program", "exception_pc"))

(* arm_fetch has one location for its three accesses; an instruction then  *)
(* writes what another call reads (data processing) or accesses memory.    *)
FetchCalls ==
    Located("fetch", Access("registers", "program", "fetch") \o
                     Access("memory", "program", "fetch") \o
                     Access("registers", "program", "fetch"))
StepCalls(instruction) ==
    FetchCalls \o
    (IF instruction = "data"
     THEN Located("outer", Located("inner", Access("registers", "program", "inner"))
                           \o Access("registers", "program", "outer"))
     ELSE Located("memory", Access("memory", "program", "memory")))
    \o Op("state")

(* arm_print_state reads the registers without a location.                 *)
PrintStateCalls ==
    Access("registers", "state", NoLocation) \o Access("registers", "state", NoLocation)

(* mutant: the trace stays off after the registers are read *)
InspectForgetsEnable(calls) == Op("disable") \o calls

(* g, p, G, P, and the look of cont at the next instruction.               *)
Inspect(calls) == Op("disable") \o calls \o Op("enable")

GdbAccess(flag) == Located("gdb", Access(flag, "gdb", "gdb"))
ContLook == Inspect(GdbAccess("registers") \o GdbAccess("memory"))

(* The other handlers use the memory directly, or neither.                 *)
HandlerCalls(c) ==
    CASE c[1] \in {"g", "p", "G", "P"} -> Inspect(GdbAccess("registers"))
      [] c[1] = "s" -> StepCalls(c[2])
      [] c[1] = "c" -> ContLook \o StepCalls(c[2]) \o ContLook
      [] OTHER -> <<>>

(* mutant: the trace file is set when the processor exists *)
MainCallsSetFileLast ==
    DebugOp(GdbProtocolFile) \o ExceptionCalls \o Op("set_trace_file") \o Op("threads")

(* After the options: gdb_init, set_trace_file, arm_create with its reset, *)
(* pthread_create.                                                         *)
MainCalls ==
    DebugOp(GdbProtocolFile) \o Op("set_trace_file") \o ExceptionCalls \o Op("threads")

----------------------------------------------------------------------------
(* main: the options. *)

Option(letter) ==
    /\ exit = "no" /\ script["main"] = Op("options")
    /\ argv # <<>> /\ Head(argv)[1] = letter /\ argv' = Tail(argv)
    /\ UNCHANGED <<threadVars, line, cache>>

(* in_port_t has 16 bits.                                                  *)
OptionPort ==
    /\ \E l \in {<<"g", "gdb">>, <<"i", "irq">>} :
          Option(l[1]) /\ port' = [port EXCEPT ![l[2]] = Head(argv)[2] % Ports]
    /\ UNCHANGED <<debugVars, trace_file, tr, exit>>

OptionHelp ==
    /\ Option("h") /\ exit' = "0"
    /\ UNCHANGED <<debugVars, port, trace_file, tr>>

OptionTraceFile ==
    /\ Option("t")
    /\ \/ trace_file' = Head(argv)[2] /\ exit' = exit
       \/ exit' = "1" /\ UNCHANGED trace_file          \* fopen fails
    /\ UNCHANGED <<debugVars, port, tr>>

OptionTrace ==
    /\ \E l \in {<<"r", "registers">>, <<"m", "memory">>, <<"s", "state">>, <<"p", "position">>} :
          Option(l[1]) /\ tr' = trace_add(tr, l[2])
    /\ UNCHANGED <<debugVars, port, trace_file, exit>>

OptionDebug ==
    /\ Option("d") /\ add_debug_to(Head(argv)[2])
    /\ UNCHANGED <<port, trace_file, tr, exit>>

OptionUnknown ==
    /\ Option("?") /\ exit' = "1"
    /\ UNCHANGED <<debugVars, port, trace_file, tr>>

OptionsEnd ==
    /\ exit = "no" /\ script["main"] = Op("options") /\ argv = <<>>
    /\ script' = [script EXCEPT !["main"] = MainCalls]
    /\ UNCHANGED <<debugVars, mainVars, tr, cache, lock, bound, listening, line, commands, irqs, exit>>

----------------------------------------------------------------------------
(* A thread makes the next call of its script. *)

Ready(t, op) == exit = "no" /\ script[t] # <<>> /\ Head(script[t]).op = op
Pop(t) == script' = [script EXCEPT ![t] = Tail(@)]
Call(t, op) == Ready(t, op) /\ Pop(t)

OtherVars == <<debugVars, mainVars, cache, bound, listening, commands, irqs, exit>>

StartLocation(t) ==
    /\ Call(t, "start") /\ tr' = trace_start_location(tr, Head(script[t]).loc)
    /\ UNCHANGED <<OtherVars, lock, line>>

EndLocation(t) ==
    /\ Call(t, "end") /\ tr' = trace_end_location(tr)
    /\ UNCHANGED <<OtherVars, lock, line>>

TraceAccess(t) ==
    LET a == Head(script[t])
        printed == trace_prints(tr, a.flag)
    IN  /\ Call(t, "access")
        /\ line' = [printed |-> printed, flag |-> a.flag, by |-> a.by, loc |-> a.loc,
                    shown |-> IF printed THEN trace_print_location(tr) ELSE NoLocation,
                    file |-> IF printed THEN tr.output ELSE NoFile]
        /\ UNCHANGED <<OtherVars, tr, lock>>

trace_arm_state(t) ==
    /\ Ready(t, "state")
    /\ script' = [script EXCEPT ![t] =
                    (IF trace_prints(tr, "state") THEN PrintStateCalls ELSE <<>>) \o Tail(@)]
    /\ UNCHANGED <<OtherVars, tr, lock, line>>

TraceSwitch(t) ==
    /\ \/ Call(t, "disable") /\ tr' = trace_disable(tr)
       \/ Call(t, "enable") /\ tr' = trace_enable(tr)
       \/ Call(t, "set_trace_file") /\ tr' = set_trace_file(tr, trace_file)
    /\ UNCHANGED <<OtherVars, lock, line>>

(* debug(...): the answer is searched, or taken from the first search.     *)
DebugSearches(t) ==
    /\ Ready(t, "debug") /\ search = NoSearch
    /\ CACHE_DEBUG_FLAG => cache[Head(script[t]).file] = "unset"
    /\ is_debugged_starts(Head(script[t]).file)
    /\ UNCHANGED <<mainVars, tr, cache, threadVars, line, exit>>

DebugLoops(t) ==
    /\ Ready(t, "debug") /\ (SearchHalves \/ SearchEnds)
    /\ UNCHANGED <<mainVars, tr, cache, threadVars, line, exit>>

(* mutant: one cached answer for all files *)
DebugSharesCache(t) ==
    /\ Call(t, "debug") /\ SearchReturns
    /\ cache' = [f \in DebugFiles |-> search.answer]
    /\ UNCHANGED <<mainVars, tr, lock, bound, listening, commands, irqs, line, exit>>

DebugReturns(t) ==
    /\ Call(t, "debug") /\ SearchReturns
    /\ cache' = [cache EXCEPT ![search.name] = search.answer]
    /\ UNCHANGED <<mainVars, tr, lock, bound, listening, commands, irqs, line, exit>>

DebugCached(t) ==
    /\ Call(t, "debug") /\ CACHE_DEBUG_FLAG /\ search = NoSearch
    /\ cache[Head(script[t]).file] # "unset"
    /\ UNCHANGED <<OtherVars, tr, lock, line>>

(* mutant: the exception is raised without the mutex *)
LockGdbOnly(t) ==
    /\ Call(t, "lock") /\ (t = "gdb" => lock = "free")
    /\ lock' = IF t = "gdb" THEN t ELSE lock
    /\ UNCHANGED <<OtherVars, tr, line>>

Lock(t) ==
    /\ Call(t, "lock") /\ lock = "free" /\ lock' = t
    /\ UNCHANGED <<OtherVars, tr, line>>

Unlock(t) ==
    /\ Call(t, "unlock") /\ lock' = "free"
    /\ UNCHANGED <<OtherVars, tr, line>>

StartThreads(t) ==
    /\ Ready(t, "threads")
    /\ script' = [t2 \in Threads |-> IF t2 = "main" THEN <<>> ELSE Op("bind") \o Op("listen")]
    /\ UNCHANGED <<OtherVars, tr, lock, line>>

(* create_server.  Any of its system calls may fail (unix_error, exit).    *)
(* With SO_REUSEADDR two sockets may be bound to one port, but only one of *)
(* them may listen; port 0 asks for a free one.                            *)
InUse == {bound[t] : t \in listening}
ExitsOr(done) == (done /\ exit' = exit) \/ (exit' = "0" /\ UNCHANGED <<bound, listening>>)

(* mutant: the ports are exchanged *)
CreateServerSwapped(t) ==
    /\ Call(t, "bind")
    /\ bound' = [bound EXCEPT ![t] = port[IF t = "gdb" THEN "irq" ELSE "gdb"]]
    /\ UNCHANGED <<debugVars, mainVars, cache, tr, lock, listening, commands, irqs, line, exit>>

create_server(t) ==
    /\ Call(t, "bind")
    /\ ExitsOr(/\ \E p \in IF port[t] = 0 THEN Ephemeral \ {bound["gdb"], bound["irq"]}
                           ELSE {port[t]} \ InUse :
                     bound' = [bound EXCEPT ![t] = p]
               /\ UNCHANGED listening)
    /\ UNCHANGED <<debugVars, mainVars, cache, tr, lock, commands, irqs, line>>

Listen(t) ==
    /\ Call(t, "listen")
    /\ ExitsOr(/\ bound[t] \notin InUse /\ listening' = listening \cup {t}
               /\ UNCHANGED bound)
    /\ UNCHANGED <<debugVars, mainVars, cache, tr, lock, commands, irqs, line>>

Listening(t) == exit = "no" /\ script[t] = <<>> /\ t \in listening

(* A packet arrives: the debug messages of the scanner and of the packet,  *)
(* the handler with the mutex, and the message of its answer.              *)
GdbCommand(c) ==
    /\ Listening("gdb") /\ commands < MaxCommands /\ commands' = commands + 1
    /\ script' = [script EXCEPT !["gdb"] =
                    DebugOp(ScannerFile) \o DebugOp(GdbProtocolFile) \o Op("lock") \o
                    HandlerCalls(c) \o DebugOp(GdbProtocolFile) \o Op("unlock")]
    /\ UNCHANGED <<debugVars, mainVars, tr, cache, lock, bound, listening, line, irqs, exit>>

(* An exception arrives; only a reset does something.                      *)
IrqArrives(calls) ==
    /\ Listening("irq") /\ irqs < MaxIrqs /\ irqs' = irqs + 1
    /\ script' = [script EXCEPT !["irq"] = Op("lock") \o calls \o Op("unlock")]
    /\ UNCHANGED <<debugVars, mainVars, tr, cache, lock, bound, listening, line, commands, exit>>

ThreadStep(t) ==
    \/ StartLocation(t) \/ EndLocation(t) \/ TraceAccess(t) \/ trace_arm_state(t)
    \/ TraceSwitch(t)
    \/ DebugSearches(t) \/ DebugLoops(t) \/ DebugReturns(t) \/ DebugCached(t)
    \/ Lock(t) \/ Unlock(t) \/ StartThreads(t) \/ create_server(t) \/ Listen(t)

StartNext ==
    \/ OptionPort \/ OptionHelp \/ OptionTraceFile \/ OptionTrace \/ OptionDebug
    \/ OptionUnknown \/ OptionsEnd
    \/ \E t \in Threads : ThreadStep(t)
    \/ \E c \in Commands : GdbCommand(c)
    \/ \E calls \in {<<>>, ExceptionCalls} : IrqArrives(calls)

StartSpec == StartInit /\ [][StartNext]_startVars

----------------------------------------------------------------------------
(* The trace record is well formed: the stack of locations stays inside    *)
(* its arrays.                                                             *)
StartTypeOK ==
    /\ tr \in TraceStates
    /\ debugged_files \in [0..MAX_FILES_NUMBER -> Names \cup {0}]
    /\ exit \in {"no", "0", "1"} /\ lock \in {"free", "gdb", "irq"}
    /\ cache \in [DebugFiles -> {"unset", "yes", "no"}]

(* Whoever takes the mutex finds the trace on and no location entered,     *)
(* whatever the handlers before have switched and entered.                 *)
TraceIsHandedOver ==
    lock = "free" /\ script["main"] = <<>> => tr.enabled /\ tr.top = -1

(* The accesses of the program, the reset at start included, are printed   *)
(* if they were asked for, those of gdb never; a line goes to the file of  *)
(* the last option, and shows the source line of its own call.             *)
TraceIsFaithful ==
    /\ line.by = "program" => line.printed = (line.flag \in tr.flags)
    /\ line.by = "gdb" => ~line.printed
    /\ line.printed => line.file = trace_file
    /\ line.printed /\ "position" \in tr.flags => line.shown = line.loc

(* As long as the process runs, each server listens where it was told to,  *)
(* and the two never accept on one port, in whatever order the threads     *)
(* bind and listen.                                                        *)
ServersApart ==
    exit = "no" =>
        /\ \A t \in listening : port[t] # 0 => bound[t] = port[t]
        /\ listening = {"gdb", "irq"} => bound["gdb"] # bound["irq"]

(* A file's messages are on exactly if its name was among the options: no  *)
(* answer was cached too early or for another file, and no name was        *)
(* missed by the search.  With more options than the array has cells the   *)
(* code drops or overruns.                                                 *)
DebugSelects ==
    additions <= MAX_FILES_NUMBER =>
        \A f \in DebugFiles : cache[f] # "unset" => (cache[f] = "yes") = (f \in named)
============================================================================
