------------------------------- MODULE Guards -------------------------------
(***************************************************************************)
(* The policy guards of auro_runtime/guards.py, as predicates over a tool  *)
(* call and the run's history, and the reading of a policy rule by the     *)
(* executor: which rules apply to a call and what each may answer.         *)
(*                                                                         *)
(* A call is [tool, path, marks].  "marks" abstracts the arguments and the *)
(* reason to what the guards tell apart:                                   *)
(*   "no_reason"   the reason is empty or blank                            *)
(*   "secret"      a value, key or the reason matches a secret pattern     *)
(*   "sensitive"   a path argument is in the sensitive-path inventory      *)
(*   "credential"  a credential-named argument carries a raw value         *)
(*   "bad_args"    the arguments fail the tool's schema                    *)
(* "path" is the `path` argument; Unhashable stands for a JSON list or     *)
(* object in its place, which no schema accepts but which the run history  *)
(* of a rejected call keeps.                                               *)
(***************************************************************************)
EXTENDS Integers, Sequences, FiniteSets

CONSTANTS
  Tools,         \* tool names a model may utter, registered or not
  Registry,      \* the names registered with the executor
  Paths,         \* values of the `path` argument
  NoPath,        \* the call has no `path` argument
  Unhashable,    \* `path` is a list or an object
  Directives,    \* directive ids
  CustomGuards,  \* guards an embedder registered with @register_guard
  Budget         \* _DEFAULT_WRITE_BUDGET (10 in the source)

ASSUME BudgetAssumption == Budget \in Nat
ASSUME RegistryAssumption == Registry \subseteq Tools /\ Registry # {}

Marks == {"no_reason", "secret", "sensitive", "credential", "bad_args"}

BuiltinGuards == {
  "check_reason_not_empty", "check_no_secrets_in_args",
  "check_sensitive_paths", "check_no_raw_credentials",
  "check_no_bulk_writes", "check_destructive_action", "check_write_budget"}

RegisteredGuards == BuiltinGuards \cup CustomGuards

DestructiveTools == {"delete_file", "restore_file"}
WriteBudgetTools == {"write_file", "delete_file", "restore_file"}

\* Enforcement levels that let a denied call proceed.
PermissiveEnforcement == {"warn", "advisory"}

Call == [tool : Tools, path : Paths \cup {NoPath, Unhashable},
         marks : SUBSET Marks]

\* One entry of `steps`, the history every guard receives.  "ran" says
\* whether the tool body was entered; the source does not store it.
Entry == [tool : Tools, path : Paths \cup {NoPath, Unhashable},
          marks : SUBSET Marks, ran : BOOLEAN, success : BOOLEAN]

\* An enforceable rule: `tools` and `directives` are the full set when the
\* policy file omits the key.
Rule == [guard : STRING, enforcement : STRING, on_error : STRING,
         tools : SUBSET Tools, directives : SUBSET Directives]

-----------------------------------------------------------------------------
(* The guards that look at the history.                                    *)

WriteSteps(hist) == {i \in DOMAIN hist : hist[i].tool \in WriteBudgetTools}

\* Mutant: the budget admits one write too many.
WriteBudgetSpentLate(hist) == Cardinality(WriteSteps(hist)) > Budget

WriteBudgetSpent(hist) == Cardinality(WriteSteps(hist)) >= Budget

PriorWritePaths(hist) ==
  {hist[i].path : i \in {j \in DOMAIN hist : hist[j].tool = "write_file"}}
    \ {NoPath}

BulkWrite(call, hist) ==
  /\ call.tool = "write_file"
  /\ call.path # NoPath
  /\ PriorWritePaths(hist) # {}
  /\ call.path \notin PriorWritePaths(hist)

(* The guards that look at the call alone.                                 *)

ReasonEmpty(call) == "no_reason" \in call.marks
SecretInCall(call) == "secret" \in call.marks
SensitivePath(call) == "sensitive" \in call.marks
RawCredential(call) == "credential" \in call.marks
Destructive(call) == call.tool \in DestructiveTools

\* The verdict a built-in guard returns is a denial; none of them returns an
\* allowing verdict, they return None.
Denies(guard, call, hist) ==
  \/ guard = "check_reason_not_empty" /\ ReasonEmpty(call)
  \/ guard = "check_no_secrets_in_args" /\ SecretInCall(call)
  \/ guard = "check_sensitive_paths" /\ SensitivePath(call)
  \/ guard = "check_no_raw_credentials" /\ RawCredential(call)
  \/ guard = "check_destructive_action" /\ Destructive(call)
  \/ guard = "check_no_bulk_writes" /\ BulkWrite(call, hist)
  \/ /\ guard = "check_write_budget"
     /\ call.tool \in WriteBudgetTools
     /\ WriteBudgetSpent(hist)

\* Collecting the prior write paths into a set raises TypeError when an
\* earlier rejected write_file carried a list or an object as its path.
Raises(guard, call, hist) ==
  /\ guard = "check_no_bulk_writes"
  /\ call.tool = "write_file"
  /\ Unhashable \in PriorWritePaths(hist)

-----------------------------------------------------------------------------
(* How the executor's loop reads one rule.                                 *)

Applies(rule, call, directive) ==
  call.tool \in rule.tools /\ directive \in rule.directives

Answer == {"missing", "raise", "deny", "allow", "none"}

\* What looking up and calling the rule's guard may give.  A custom guard may
\* do anything, and may have replaced a built-in one under the same name.
MayAnswer(rule, answer, call, hist) ==
  \/ rule.guard \notin RegisteredGuards /\ answer = "missing"
  \/ rule.guard \in CustomGuards /\ answer \in Answer \ {"missing"}
  \/ /\ rule.guard \in BuiltinGuards \ CustomGuards
     /\ \/ answer = "raise" /\ Raises(rule.guard, call, hist)
        \/ /\ ~Raises(rule.guard, call, hist)
           /\ answer = "deny" /\ Denies(rule.guard, call, hist)
        \/ /\ ~Raises(rule.guard, call, hist)
           /\ answer = "none" /\ ~Denies(rule.guard, call, hist)

\* Refuse on a denial unless the level is permissive, and on a missing or
\* raising guard unless the rule opts into failing open.
Refuses(rule, answer) ==
  \/ answer = "deny" /\ rule.enforcement \notin PermissiveEnforcement
  \/ answer \in {"missing", "raise"} /\ rule.on_error # "fail_open"

\* The rule stops the call whatever a custom guard would have said.
Stops(rule, call, hist, directive) ==
  /\ Applies(rule, call, directive)
  /\ \A a \in Answer : MayAnswer(rule, a, call, hist) => Refuses(rule, a)

\* Mutant: an event name outside the catalogue.
EventOfTypo == [missing |-> "policy_guard_absent", raise |-> "policy_guard_error",
                deny |-> "policy_check_failed", allow |-> "policy_guard_check"]

\* Audit event of each answer; None is the only silent one.
EventOf == [missing |-> "policy_guard_missing", raise |-> "policy_guard_error",
            deny |-> "policy_guard_check", allow |-> "policy_guard_check"]
=============================================================================
