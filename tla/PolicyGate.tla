----------------------------- MODULE PolicyGate -----------------------------
(***************************************************************************)
(* auro_runtime/policy.py and the profile gate of orchestrator.py: how a   *)
(* rule of a policy file is read, which policy sets validation admits,     *)
(* which rules reach the executor, and what the shipped profile compares.  *)
(*                                                                         *)
(* A loaded policy set is a set of rules, each with the place it was read  *)
(* from, so that equal rules of two places stay two.  The lists under      *)
(* `tools` and `directives` are sets: their order only matters to the      *)
(* posture check, which also refuses a reordered list.                     *)
(***************************************************************************)
EXTENDS Guards

CONSTANTS
  NoGuard,          \* a rule without a `guard` key
  Omitted,          \* any other key that is not there
  WrongArity,       \* registered guards that do not take one argument
  ShippedBindings,  \* _SHIPPED_POLICY_BINDINGS
  ShippedRules,     \* _SHIPPED_POLICY_RULES
  Reviewed          \* SHIPPED_ENFORCEMENT_POSTURE, a function on rule ids

ScopeKey(names) == {Omitted} \cup SUBSET names

\* A rule as a policy file writes it.
RawRule == [id : STRING, guard : {NoGuard} \cup STRING,
            enforcement : {Omitted} \cup STRING,
            on_error : {Omitted} \cup STRING,
            tools : ScopeKey(Tools), directives : ScopeKey(Directives)]

Posture == [guard : STRING, enforcement : STRING, on_error : STRING,
            tools : ScopeKey(Tools)]

ASSUME NoGuardAssumption == NoGuard \notin RegisteredGuards
ASSUME OmittedAssumption ==
  \A names \in SUBSET (Tools \cup Directives) : names # Omitted
ASSUME ReviewedAssumption == Reviewed \in [DOMAIN Reviewed -> Posture]

Default(value, default) == IF value = Omitted THEN default ELSE value

\* `place` is the file and the position in it.
ReadRule(raw, place) ==
  [place |-> place, id |-> raw.id, guard |-> raw.guard,
   enforcement |-> Default(raw.enforcement, "advisory"),
   enforcement_declared |-> raw.enforcement # Omitted,
   on_error |-> Default(raw.on_error, "fail_closed"),
   tools |-> raw.tools, directives |-> raw.directives]

Guarded(rule) == rule.guard # NoGuard

-----------------------------------------------------------------------------
(* validate_policies().                                                    *)

\* Mutant: the checks of a guarded rule that ends up advisory are left out.
ValidRuleOmissible(rule) ==
  /\ rule.enforcement \in {"block"} \cup PermissiveEnforcement
  /\ rule.on_error \in {"fail_closed", "fail_open"}
  /\ rule.enforcement # "advisory" => Guarded(rule)
  /\ Guarded(rule) => rule.guard \in RegisteredGuards \ WrongArity
  /\ rule.tools # {} /\ rule.directives # {}
  /\ rule.tools # Omitted => rule.tools \subseteq Registry

ValidRule(rule) ==
  /\ rule.enforcement \in {"block"} \cup PermissiveEnforcement
  /\ rule.on_error \in {"fail_closed", "fail_open"}
  /\ rule.enforcement # "advisory" => Guarded(rule)
  /\ Guarded(rule) /\ rule.enforcement = "advisory"
       => rule.enforcement_declared
  /\ Guarded(rule) => rule.guard \in RegisteredGuards \ WrongArity
  /\ rule.tools # {} /\ rule.directives # {}
  /\ rule.tools # Omitted => rule.tools \subseteq Registry

ValidPolicies(rules) ==
  /\ \A rule \in rules : ValidRule(rule)
  /\ \A r, s \in rules : r.id = s.id => r = s

-----------------------------------------------------------------------------
(* What reaches the executor.                                              *)

Enforceable(rules) ==
  {rule \in rules : Guarded(rule) /\ rule.enforcement # "advisory"}

Scope(names, all) == IF names = Omitted THEN all ELSE names

\* The rule as the executor's guard loop applies it.
Enforced(rule) ==
  [guard |-> rule.guard, enforcement |-> rule.enforcement,
   on_error |-> rule.on_error, tools |-> Scope(rule.tools, Tools),
   directives |-> Scope(rule.directives, Directives)]

-----------------------------------------------------------------------------
(* The shipped profile.                                                    *)

PostureOf(rule) ==
  [guard |-> rule.guard, enforcement |-> rule.enforcement,
   on_error |-> rule.on_error, tools |-> rule.tools]

Copies(rules, id) == {rule \in Enforceable(rules) : rule.id = id}

\* Mutant: only the names of the reviewed rules are compared.
PostureKeptByName(rules) ==
  DOMAIN Reviewed \subseteq {rule.id : rule \in rules}

\* shipped_posture_drift() is empty.
PostureKept(rules) ==
  \A id \in DOMAIN Reviewed :
    \E rule \in rules :
      Copies(rules, id) = {rule} /\ PostureOf(rule) = Reviewed[id]

\* _policy_profile_error() is None.
ProfileOk(profile, bindings, rules) ==
  \/ profile = "custom"
  \/ /\ profile = "shipped"
     /\ ShippedBindings \subseteq bindings
     /\ ShippedRules \subseteq {rule.id : rule \in rules}
     /\ PostureKept(rules)

\* A reviewed rule as the executor would apply it: none of them is limited
\* to some directives.
ReviewedRule(id) ==
  [guard |-> Reviewed[id].guard, enforcement |-> Reviewed[id].enforcement,
   on_error |-> Reviewed[id].on_error,
   tools |-> Scope(Reviewed[id].tools, Tools), directives |-> Directives]
=============================================================================
