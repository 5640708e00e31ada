------------------------------- MODULE TokenLife -------------------------------
(***************************************************************************)
(* What the table enrollment_tokens promises about each of its tokens,     *)
(* whoever issues, lists, revokes or presents it, and whatever the clock,  *)
(* concurrent statements and crashes do: a token is good once at most, and *)
(* what was spent or became void never opens the door again.               *)
(***************************************************************************)
CONSTANT Tokens

VARIABLE life   \* token -> "none" (no row), "good", "spent", "void"

Init == life = [t \in Tokens |-> "none"]

\* A token may be issued with a lifetime that is over at once.
Issue(t) ==
  /\ life[t] = "none"
  /\ \E l \in {"good", "void"} : life' = [life EXCEPT ![t] = l]

Spend(t) == life[t] = "good" /\ life' = [life EXCEPT ![t] = "spent"]

\* Revocation concerns one token, an instant of time any number of them.
Void(lost) ==
  /\ \A t \in lost : life[t] = "good"
  /\ life' = [t \in Tokens |-> IF t \in lost THEN "void" ELSE life[t]]

Next ==
  \/ \E t \in Tokens : Issue(t) \/ Spend(t)
  \/ \E lost \in SUBSET Tokens : Void(lost)

Spec == Init /\ [][Next]_life
=============================================================================
