---------------------------- MODULE DirectCaller ----------------------------
(***************************************************************************)
(* An embedder that calls the public execute() itself (docs/API.md), with  *)
(* a context of its own choosing on every call, and keeps the history it   *)
(* passes back in.                                                         *)
(***************************************************************************)
EXTENDS Executor

CONSTANTS
  Contexts,  \* security inputs the embedder may pass
  Calls,     \* tool calls it makes
  MaxCalls   \* bound on their number

ASSUME ContextsAssumption == Contexts \subseteq Context
ASSUME CallsAssumption == Calls \subseteq Call
ASSUME MaxCallsAssumption == MaxCalls \in Nat

Init ==
  /\ pc = "idle"
  /\ call \in Calls
  /\ ctx \in Contexts
  /\ gi = 1
  /\ reply = [ran |-> FALSE, success |-> FALSE]
  /\ steps = <<>>
  /\ auditStep = NoStep
  /\ log = <<>>

Begin ==
  /\ pc = "idle"
  /\ Len(steps) < MaxCalls
  /\ pc' = "context"
  /\ call' \in Calls
  /\ ctx' \in Contexts
  /\ UNCHANGED <<gi, reply, steps, auditStep, log>>

Record ==
  /\ pc = "returned"
  /\ pc' = "idle"
  /\ steps' = Append(steps, EntryOfCall)
  /\ UNCHANGED <<call, ctx, gi, reply, auditStep, log>>

Enough == pc = "idle" /\ Len(steps) = MaxCalls /\ UNCHANGED execVars

Next == Begin \/ ExecuteStep \/ Record \/ Enough

Spec == Init /\ [][Next]_execVars
=============================================================================
