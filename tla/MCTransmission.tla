--------------------------- MODULE MCTransmission ---------------------------
(* Small instances of GdbTransmission: a step, a read of memory and a      *)
(* request without handler, with answers that tell executions apart.       *)
EXTENDS GdbTransmission

SomeRequests == {<<115>>, <<109, 49>>, <<122>>}              \* "s", "m1", "z"
StepOnly     == {<<115>>}
SomeHandlers == {115, 109}

(* "S05", or the two digits of a byte that counts the executions.          *)
Answers(executions) ==
    CASE Last(executions) = <<115>> -> <<83, 48, 53>>
      [] Last(executions) = <<109, 49>> -> <<48, HexChar(Len(executions) % 16)>>
      [] OTHER -> <<>>

SomeGarbles == {48, 102}                                     \* "0", "f"
============================================================================
