------------------------------- MODULE TrustRoot -------------------------------
(***************************************************************************)
(* What a certificate authority promises to those who trust it: one root,  *)
(* chosen once and for ever.  Whatever a process signs, shows and hands    *)
(* out is of that root, in this process and in every later one.            *)
(***************************************************************************)
CONSTANTS Agents, Roots,
          None   \* no root chosen

VARIABLES root,     \* the root, once it is chosen
          serves,   \* the roots behind what the running process uses, {} when none runs
          given     \* agent -> the roots behind what it was given, {} before

vars == <<root, serves, given>>

Init == root = None /\ serves = {} /\ given = [a \in Agents |-> {}]

Choose ==
  /\ root = None /\ root' \in Roots
  /\ UNCHANGED <<serves, given>>

Serve ==
  /\ root # None /\ serves' = {root}
  /\ UNCHANGED <<root, given>>

End == serves' = {} /\ UNCHANGED <<root, given>>

Give(a) ==
  /\ serves # {}
  /\ given' = [given EXCEPT ![a] = serves]
  /\ UNCHANGED <<root, serves>>

Next == Choose \/ Serve \/ End \/ \E a \in Agents : Give(a)

Spec == Init /\ [][Next]_vars
=============================================================================
