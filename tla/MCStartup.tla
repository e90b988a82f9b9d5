----------------------------- MODULE MCStartup -----------------------------
(* Command lines for Startup: every subset of the trace options, ports     *)
(* that collide and wrap around, exits, and debug names in every order.    *)
EXTENDS Startup

SomeNames == 1..4
AllLocations == {"exception_cpsr", "exception_pc", "fetch", "outer", "inner", "memory", "gdb"}
SomeTraceFiles == {"file"}

Numbers(n) == UNION {[1..k -> SomeNames] : k \in 0..n}
DebugArgvs == {[i \in DOMAIN s |-> <<"d", s[i]>>] : s \in Numbers(4)}

(* -r, -m, -s and -p, each or not, with and without a file.                *)
TraceArgvs ==
    {(IF "r" \in f THEN <<<<"r">>>> ELSE <<>>) \o (IF "m" \in f THEN <<<<"m">>>> ELSE <<>>) \o
     (IF "s" \in f THEN <<<<"s">>>> ELSE <<>>) \o (IF "p" \in f THEN <<<<"p">>>> ELSE <<>>) \o file
        : f \in SUBSET {"r", "m", "s", "p"}, file \in {<<>>} \cup {<<<<"t", name>>>> : name \in SomeTraceFiles}}

PortArgvs ==
    {<<<<"g", p>>, <<"i", q>>>> : p \in {0, 1, 3, 4}, q \in {1, 5}}
    \cup {<<<<"g", 3>>, <<"g", 2>>>>, <<<<"r">>, <<"h">>>>, <<<<"m">>, <<"?">>>>}

AllArgvs == DebugArgvs \cup TraceArgvs \cup PortArgvs

SomeEphemeral == {1, 2, 3}
SomeCommands == {<<"g">>, <<"m">>, <<"s", "data">>, <<"c", "store">>}
============================================================================
