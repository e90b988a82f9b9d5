------------------------------- MODULE Trace -------------------------------
(***************************************************************************)
(* trace.c: the state of the trace as a record, and its functions on it.   *)
(* A location stands for a file and a line.  last_address only matters to  *)
(* the other format (ARM_TRACE_FORMAT), which the build does not select.   *)
(***************************************************************************)
EXTENDS Integers

CONSTANTS Locations,          \* the source lines with a traced call
          MAX_LOCATIONS,      \* 128 in trace.c
          TraceFiles          \* the files a trace is asked for in

ASSUME TraceAssumption == MAX_LOCATIONS \in Nat \ {0}

NoFile     == "null"
NoLocation == "none"
Outputs    == TraceFiles \cup {NoFile, "stdout"}
Flags      == {"memory", "registers", "state", "position"}

(* The static variables of trace.c.                                        *)
TraceStart ==
    [output |-> NoFile, enabled |-> TRUE, flags |-> {}, top |-> -1,
     stack |-> [i \in 0..(MAX_LOCATIONS - 1) |-> NoLocation]]

TraceStates ==
    [output : Outputs, enabled : BOOLEAN, flags : SUBSET Flags, top : -1..(MAX_LOCATIONS - 1),
     stack : [0..(MAX_LOCATIONS - 1) -> Locations \cup {NoLocation}]]

set_trace_file(t, file) == [t EXCEPT !.output = file]
trace_disable(t)        == [t EXCEPT !.enabled = FALSE]
trace_enable(t)         == [t EXCEPT !.enabled = TRUE]
trace_add(t, flag)      == [t EXCEPT !.flags = @ \cup {flag}]

trace_start_location(t, location) ==
    IF t.enabled
    THEN [t EXCEPT !.top = t.top + 1,
                   !.stack = [i \in DOMAIN t.stack |-> IF i = t.top + 1 THEN location ELSE @[i]]]
    ELSE t

(* mutant: the location is removed although it was not entered *)
EndLocationAlways(t) == [t EXCEPT !.top = t.top - 1]

trace_end_location(t) == IF t.enabled THEN [t EXCEPT !.top = t.top - 1] ELSE t

trace_print_location(t) ==
    IF "position" \in t.flags /\ t.top >= 0 THEN t.stack[t.top] ELSE NoLocation

(* trace_register and trace_memory print a line, flag being "registers" or *)
(* "memory".                                                               *)
trace_prints(t, flag) == t.enabled /\ flag \in t.flags
============================================================================
