---------------------------- MODULE RequestReply ----------------------------
(***************************************************************************)
(* What the remote protocol promises to gdb: it asks one request after the *)
(* other, each is executed once, and its answer is what that execution     *)
(* returned.  A stray character outside of every packet may disturb the    *)
(* dialogue: then a request that was asked may be executed again, and an   *)
(* answer may be that of an earlier execution.                             *)
(***************************************************************************)
EXTENDS Naturals, Sequences

CONSTANTS Requests,     \* the contents of the packets that gdb sends
          Answer(_)     \* the answer to the last of a sequence of executions

VARIABLES asked, executed,   \* the requests, in order
          answered,          \* the answers that gdb got
          disturbed

rrVars == <<asked, executed, answered, disturbed>>

RRInit == asked = <<>> /\ executed = <<>> /\ answered = <<>> /\ disturbed = FALSE

Ask(r) ==
    /\ Len(answered) = Len(asked)
    /\ asked' = Append(asked, r)
    /\ UNCHANGED <<executed, answered, disturbed>>

Execute ==
    /\ \/ /\ Len(asked) = Len(executed) + 1 /\ Len(asked) = Len(answered) + 1
          /\ executed' = Append(executed, asked[Len(asked)])
       \/ /\ disturbed
          /\ \E i \in DOMAIN asked : executed' = Append(executed, asked[i])
    /\ UNCHANGED <<asked, answered, disturbed>>

Deliver ==
    /\ Len(asked) = Len(answered) + 1
    /\ \E n \in 1..Len(executed) :
          /\ disturbed \/ (n = Len(executed) /\ n = Len(asked))
          /\ answered' = Append(answered, Answer(SubSeq(executed, 1, n)))
    /\ UNCHANGED <<asked, executed, disturbed>>

Disturb == disturbed' = TRUE /\ UNCHANGED <<asked, executed, answered>>

RRNext == (\E r \in Requests : Ask(r)) \/ Execute \/ Deliver \/ Disturb

RRSpec == RRInit /\ [][RRNext]_rrVars
============================================================================
