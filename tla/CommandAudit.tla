----------------------------- MODULE CommandAudit -----------------------------
(***************************************************************************)
(* What the command broker promises about the audit table                  *)
(* command_executions, whatever streams, goroutines and crashes do: a      *)
(* command runs on an agent only after its row exists, a row leaves        *)
(* "pending" only after its command ran, and rows are never deleted.  A    *)
(* later result may replace an earlier one.                                *)
(***************************************************************************)
CONSTANT Cmds

VARIABLES status,    \* command_executions.status, "absent" before the INSERT
          executed   \* commands an agent has been handed

vars == <<status, executed>>

Init == status = [c \in Cmds |-> "absent"] /\ executed = {}

Record(c) ==
  /\ status[c] = "absent"
  /\ status' = [status EXCEPT ![c] = "pending"]
  /\ UNCHANGED executed

Execute(c) ==
  /\ status[c] # "absent"
  /\ executed' = executed \cup {c}
  /\ UNCHANGED status

Settle(c) ==
  /\ c \in executed
  /\ \E o \in {"completed", "failed"} : status' = [status EXCEPT ![c] = o]
  /\ UNCHANGED executed

Next == \E c \in Cmds : Record(c) \/ Execute(c) \/ Settle(c)

Spec == Init /\ [][Next]_vars
=============================================================================
