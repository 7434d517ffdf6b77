---------------------------- MODULE RunContract -----------------------------
(***************************************************************************)
(* What a run of the orchestrator promises its caller, without policies,   *)
(* guards, prompts or audit: it makes a bounded number of tool calls, no   *)
(* more than a cap of them may have written, and it ends.                  *)
(***************************************************************************)
EXTENDS Naturals

VARIABLES
  status,   \* "gated" before the loop, "open" in it, "closed" after
  used,     \* tool calls made
  effects,  \* write tools entered
  limit,    \* the step limit of the run
  cap       \* the write budget of the run

vars == <<status, used, effects, limit, cap>>

Init ==
  /\ status = "gated"
  /\ used = 0
  /\ effects = 0
  /\ limit \in Nat
  /\ cap \in Nat

Open ==
  /\ status = "gated"
  /\ status' = "open"
  /\ UNCHANGED <<used, effects, limit, cap>>

Attempt ==
  /\ status = "open"
  /\ used < limit
  /\ used' = used + 1
  /\ effects' \in {effects} \cup {e \in {effects + 1} : e <= cap}
  /\ UNCHANGED <<status, limit, cap>>

Close ==
  /\ status # "closed"
  /\ status' = "closed"
  /\ UNCHANGED <<used, effects, limit, cap>>

Next == Open \/ Attempt \/ Close

Spec == Init /\ [][Next]_vars /\ WF_vars(Next)
=============================================================================
