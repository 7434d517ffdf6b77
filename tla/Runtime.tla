------------------------------ MODULE Runtime -------------------------------
(***************************************************************************)
(* One run of the orchestrator: _run_impl of auro_runtime/orchestrator.py. *)
(* First the gates (directive, policies, posture), then the loop that asks *)
(* the model, reads its reply and hands each tool call to the executor.    *)
(***************************************************************************)
EXTENDS Executor

CONSTANTS
  Configs,    \* deployments a run may start in
  Responses,  \* model replies that parse to a non-empty JSON object
  NoCall      \* the `call` of a reply that is not a valid tool call

VARIABLES
  conf,       \* the deployment: directive, policies directory, opt-outs
  phase,      \* where the run is
  step,       \* the loop variable
  turns,      \* generate() calls made
  result      \* the RunResult: event of its meta, success, error set or not

vars == <<execVars, conf, phase, step, turns, result>>

\* policies: what the policies directory holds.  "unreadable" is a file
\* load_policies() raises on.  profileOk: _policy_profile_error() is None.
Config == [loads : BOOLEAN,
           policies : {"missing", "unreadable", "invalid", "ok"},
           rules : Seq(Rule), optOut : BOOLEAN, profileOk : BOOLEAN,
           tools : SUBSET Tools, directive : Directives, maxSteps : Int]

\* How a key of the reply reads: not there, validated true or false, or
\* there and rejected by its schema.
KeyRead == {"absent", "true", "false", "bad"}

Response == [refused : KeyRead, done : KeyRead, call : Call \cup {NoCall}]

ASSUME ConfigsAssumption == Configs \subseteq Config
ASSUME ResponsesAssumption == Responses \subseteq Response
ASSUME NoCallAssumption == NoCall \notin Call

RunPhase == {"gates", "model", "remind", "execute", "ended", "raised"}

NoResult == [event |-> "none", success |-> FALSE, error |-> FALSE]

Result == [event : TerminalEvents \cup {"none", "done"},
           success : BOOLEAN, error : BOOLEAN]

TypeOK ==
  /\ ExecTypeOK
  /\ conf \in Config
  /\ phase \in RunPhase
  /\ step \in Nat
  /\ turns \in Nat
  /\ result \in Result

Unguarded == conf.rules = <<>>

\* Mutant: the loop passes the registry instead of the directive's tools.
RunContextUnscoped(c) ==
  [toolsArg |-> "value", tools |-> Registry,
   rulesArg |-> IF c.rules = <<>> THEN "unrestricted" ELSE "value",
   rules |-> c.rules, historyArg |-> TRUE, directive |-> c.directive]

\* The context the loop passes to execute() on every call.
RunContext(c) ==
  [toolsArg |-> "value", tools |-> c.tools,
   rulesArg |-> IF c.rules = <<>> THEN "unrestricted" ELSE "value",
   rules |-> c.rules, historyArg |-> TRUE, directive |-> c.directive]

Init ==
  /\ conf \in Configs
  /\ phase = "gates"
  /\ step = 0
  /\ turns = 0
  /\ result = NoResult
  /\ pc = "idle"
  /\ call = [tool |-> CHOOSE t \in Tools : TRUE, path |-> NoPath, marks |-> {}]
  /\ ctx = RunContext(conf)
  /\ gi = 1
  /\ reply = [ran |-> FALSE, success |-> FALSE]
  /\ steps = <<>>
  /\ auditStep = NoStep
  /\ log = <<>>

-----------------------------------------------------------------------------
(* Endings.  A run that returns a result writes its ending's audit event,  *)
(* except on completion.                                                   *)

Finish(event, success, error) ==
  /\ phase' = "ended"
  /\ result' = [event |-> event, success |-> success, error |-> error]
  /\ UNCHANGED <<callVars, steps, conf, step>>

Fail(event) ==
  /\ Finish(event, FALSE, TRUE)
  /\ Audit(event)

-----------------------------------------------------------------------------
(* The gates, in order.                                                    *)

AtGates == phase = "gates"

GateFail(event) ==
  /\ AtGates
  /\ Fail(event)
  /\ UNCHANGED <<auditStep, turns>>

DirectiveLoadFailed == ~conf.loads /\ GateFail("directive_load_failed")

PoliciesDirMissing ==
  /\ conf.loads
  /\ conf.policies = "missing"
  /\ GateFail("policies_dir_missing")

\* load_policies() is not in a try: its exception leaves the run.
PoliciesUnreadable ==
  /\ AtGates
  /\ conf.loads
  /\ conf.policies = "unreadable"
  /\ phase' = "raised"
  /\ UNCHANGED <<execVars, conf, step, turns, result>>

PolicyValidationFailed ==
  /\ conf.loads
  /\ conf.policies = "invalid"
  /\ GateFail("policy_validation_failed")

PoliciesLoaded == conf.loads /\ conf.policies = "ok"

NoEnforceablePolicies ==
  /\ PoliciesLoaded
  /\ Unguarded /\ ~conf.optOut
  /\ GateFail("no_enforceable_policies")

IncompletePolicyProfile ==
  /\ PoliciesLoaded
  /\ ~Unguarded /\ ~conf.profileOk
  /\ GateFail("incomplete_policy_profile")

\* Mutant: an empty rule set needs no opt-out.
EnterLoopUngated ==
  /\ AtGates
  /\ PoliciesLoaded
  /\ IF Unguarded THEN Audit("unguarded_mode_enabled")
                  ELSE conf.profileOk /\ UNCHANGED log
  /\ phase' = "model"
  /\ UNCHANGED <<callVars, steps, auditStep, conf, step, turns, result>>

EnterLoop ==
  /\ AtGates
  /\ PoliciesLoaded
  /\ IF Unguarded THEN conf.optOut /\ Audit("unguarded_mode_enabled")
                  ELSE conf.profileOk /\ UNCHANGED log
  /\ phase' = "model"
  /\ UNCHANGED <<callVars, steps, auditStep, conf, step, turns, result>>

-----------------------------------------------------------------------------
(* One model turn.  The reminder is a second turn of the same step.        *)

\* Mutant: the loop runs one step past its limit.
TurnPastLimit ==
  /\ phase \in {"model", "remind"}
  /\ step <= conf.maxSteps
  /\ auditStep' = step
  /\ turns' = turns + 1

\* Mutant: the audit step is not set at the top of the loop.
TurnUnstamped ==
  /\ phase \in {"model", "remind"}
  /\ step < conf.maxSteps
  /\ auditStep' = auditStep
  /\ turns' = turns + 1

Turn ==
  /\ phase \in {"model", "remind"}
  /\ step < conf.maxSteps
  /\ auditStep' = step
  /\ turns' = turns + 1

\* Events of this turn carry the step just set.
TurnEvents(events) ==
  log' = log \o [i \in DOMAIN events |->
                   [event |-> events[i], step |-> step, rule |-> 0,
                    denied |-> FALSE]]

ModelBackendError ==
  /\ Turn
  /\ Finish("model_backend_error", FALSE, TRUE)
  /\ TurnEvents(<<"model_backend_error">>)

\* Mutant: a second unreadable reply earns a second reminder.
RemindFormatAgain ==
  /\ phase \in {"model", "remind"}
  /\ Turn
  /\ phase' = "remind"
  /\ TurnEvents(<<"response_format_reminded">>)
  /\ UNCHANGED <<callVars, steps, conf, step, result>>

RemindFormat ==
  /\ phase = "model"
  /\ Turn
  /\ phase' = "remind"
  /\ TurnEvents(<<"response_format_reminded">>)
  /\ UNCHANGED <<callVars, steps, conf, step, result>>

ParseJsonFailed ==
  /\ phase = "remind"
  /\ Turn
  /\ Finish("parse_json_failed", FALSE, TRUE)
  /\ TurnEvents(<<"parse_json_failed">>)

\* A malformed `refused` or `done` is recorded and the reply read on.
RefusalRejected(r) ==
  IF r.refused = "bad" THEN <<"refusal_shape_rejected">> ELSE <<>>

CompletionRejected(r) ==
  IF r.done = "bad" THEN <<"completion_shape_rejected">> ELSE <<>>

\* Mutant: a refusal ends the run without its event.
ModelRefusedUnrecorded(r) ==
  /\ r.refused = "true"
  /\ Turn
  /\ Finish("model_refused", FALSE, FALSE)
  /\ TurnEvents(<<>>)

ModelRefused(r) ==
  /\ r.refused = "true"
  /\ Turn
  /\ Finish("model_refused", FALSE, FALSE)
  /\ TurnEvents(<<"model_refused">>)

ModelDone(r) ==
  /\ r.refused # "true"
  /\ r.done = "true"
  /\ Turn
  /\ Finish("done", TRUE, FALSE)
  /\ TurnEvents(RefusalRejected(r))

ReadAsToolCall(r) == r.refused # "true" /\ r.done # "true"

InvalidToolCallShape(r) ==
  /\ ReadAsToolCall(r)
  /\ r.call = NoCall
  /\ Turn
  /\ Finish("invalid_tool_call_shape", FALSE, TRUE)
  /\ TurnEvents(RefusalRejected(r) \o CompletionRejected(r)
                  \o <<"invalid_tool_call_shape">>)

CallTool(r) ==
  /\ ReadAsToolCall(r)
  /\ r.call # NoCall
  /\ Turn
  /\ phase' = "execute"
  /\ pc' = "context"
  /\ call' = r.call
  /\ ctx' = RunContext(conf)
  /\ TurnEvents(RefusalRejected(r) \o CompletionRejected(r))
  /\ UNCHANGED <<gi, reply, steps, conf, step, result>>

-----------------------------------------------------------------------------

Execute ==
  /\ phase = "execute"
  /\ ExecuteStep
  /\ UNCHANGED <<conf, phase, step, turns, result>>

\* Every call enters the history, whatever its outcome.
RecordStep ==
  /\ phase = "execute"
  /\ pc = "returned"
  /\ steps' = Append(steps, EntryOfCall)
  /\ step' = step + 1
  /\ phase' = "model"
  /\ pc' = "idle"
  /\ UNCHANGED <<call, ctx, gi, reply, auditStep, log, conf, turns, result>>

MaxStepsReached ==
  /\ phase = "model"
  /\ step >= conf.maxSteps
  /\ auditStep' = conf.maxSteps
  /\ log' = Append(log, [event |-> "max_steps_reached",
                         step |-> conf.maxSteps, rule |-> 0, denied |-> FALSE])
  /\ Finish("max_steps_reached", FALSE, TRUE)
  /\ UNCHANGED turns

Gate ==
  \/ DirectiveLoadFailed
  \/ PoliciesDirMissing
  \/ PoliciesUnreadable
  \/ PolicyValidationFailed
  \/ NoEnforceablePolicies
  \/ IncompletePolicyProfile
  \/ EnterLoop

ModelTurn ==
  \/ ModelBackendError
  \/ RemindFormat
  \/ ParseJsonFailed
  \/ \E r \in Responses :
       \/ ModelRefused(r)
       \/ ModelDone(r)
       \/ InvalidToolCallShape(r)
       \/ CallTool(r)

Over == phase \in {"ended", "raised"} /\ UNCHANGED vars

Next == Gate \/ ModelTurn \/ Execute \/ RecordStep \/ MaxStepsReached \/ Over

Spec == Init /\ [][Next]_vars

\* generate() returns or raises, and a tool body returns or raises: the run
\* is one thread, so some enabled step is always taken.
FairSpec == Spec /\ WF_vars(Next)

-----------------------------------------------------------------------------
(* Safety properties.                                                      *)

EventsOfStep(i) == {j \in DOMAIN log : log[j].step = i - 1}

\* Complete mediation over the whole run: every tool body that ran did so
\* while no rule stopped it under the history of the calls before it.  The
\* executor is given the run's live list, and refused calls count in it.
MediatedHistory ==
  \A i \in DOMAIN steps : steps[i].ran =>
    /\ steps[i].tool \in Registry \cap conf.tools
    /\ "bad_args" \notin steps[i].marks
    /\ \A k \in DOMAIN conf.rules :
         ~Stops(conf.rules[k], steps[i], SubSeq(steps, 1, i - 1),
                conf.directive)

\* What makes MediatedHistory inductive: a call past the guard loop was
\* stopped by no rule, and one inside it by none of the rules already read.
MediatedCall ==
  LET cleared(n) == \A k \in DOMAIN conf.rules :
        k < n => ~Stops(conf.rules[k], call, steps, conf.directive)
      admitted == Registered /\ call.tool \in conf.tools /\ WellFormed
  IN  /\ ctx = RunContext(conf)
      /\ pc = "guards" => admitted /\ cleared(gi)
      /\ pc = "invoke" \/ (pc = "returned" /\ reply.ran) =>
           admitted /\ cleared(Len(conf.rules) + 1)

EnforcesBudget(rule) ==
  /\ rule.guard = "check_write_budget"
  /\ rule.enforcement \notin PermissiveEnforcement
  /\ WriteBudgetTools \cap Tools \subseteq rule.tools
  /\ conf.directive \in rule.directives

BudgetEnforced ==
  /\ "check_write_budget" \notin CustomGuards
  /\ \E k \in DOMAIN conf.rules : EnforcesBudget(conf.rules[k])

\* Calls that may have changed a file, whatever they returned.
EffectSteps == {i \in WriteSteps(steps) : steps[i].ran}

\* The write budget bounds the write tools that were entered in a run, also
\* when some of them failed after their effect (check_write_budget counts
\* every earlier attempt, not the successful ones).
WriteBudgetHolds == BudgetEnforced => Cardinality(EffectSteps) <= Budget

\* The audit trail and the transcript agree: a failed step has an event of
\* its own step that says why, a successful one has none.
FailureEvents == {"unknown_tool", "tool_not_allowed",
                  "argument_validation_failed", "tool_refused",
                  "tool_type_error", "tool_execution_error"}

RuleRefused(e) ==
  \E a \in {"missing", "raise", "deny"} :
    /\ e.event = EventOf[a] /\ e.rule \in DOMAIN conf.rules
    /\ a = "deny" => e.denied
    /\ Refuses(conf.rules[e.rule], a)

TranscriptMatchesAudit ==
  \A i \in DOMAIN steps :
    /\ ~steps[i].success <=>
         \E j \in EventsOfStep(i) :
           log[j].event \in FailureEvents \/ RuleRefused(log[j])
    /\ steps[i].ran =>
         ~ \E j \in EventsOfStep(i) : RuleRefused(log[j])

\* Events are attributed to steps in order: none is written under a step
\* the run has already left or not yet reached, and those no step owns are
\* the first.
AuditInStepOrder ==
  \A i, j \in DOMAIN log :
    i < j => log[i].step = NoStep \/ log[i].step <= log[j].step

\* A run that ended any way but "done" has one terminal event, the last of
\* its trail and the one its result names; a completed or unfinished run has
\* none.
EndingIsRecorded ==
  LET terminal == {i \in DOMAIN log : log[i].event \in TerminalEvents}
  IN  IF phase = "ended" /\ result.event # "done"
      THEN terminal = {Len(log)} /\ log[Len(log)].event = result.event
      ELSE terminal = {}

\* A tool that ran with no rule at all ran in a deployment that opted out,
\* and the run's first event says so.
UnguardedIsAnnounced ==
  (\E i \in DOMAIN steps : steps[i].ran) /\ Unguarded =>
    /\ conf.optOut
    /\ log[1].event = "unguarded_mode_enabled"

\* Writing to a second path leaves a trace under that step: the bulk-write
\* verdict, or the guard's own failure when an earlier malformed call made
\* it raise.
BulkRule(k) ==
  /\ "check_no_bulk_writes" \notin CustomGuards
  /\ conf.rules[k].guard = "check_no_bulk_writes"
  /\ "write_file" \in conf.rules[k].tools
  /\ conf.directive \in conf.rules[k].directives

BulkWriteLeavesTrace ==
  \A i \in DOMAIN steps, k \in DOMAIN conf.rules :
    /\ BulkRule(k)
    /\ steps[i].ran
    /\ BulkWrite(steps[i], SubSeq(steps, 1, i - 1))
    => \E j \in EventsOfStep(i) :
         /\ log[j].rule = k
         /\ log[j].event \in {"policy_guard_check", "policy_guard_error"}

\* docs/FAQ.md: at most two model calls per step.  (README.md, "Current
\* boundaries", says exactly one; the format reminder is the second.)
ModelCallBound ==
  turns <= 2 * step + (IF phase = "model" THEN 0
                       ELSE IF phase = "remind" THEN 1 ELSE 2)

\* Every run ends: max_steps bounds the loop and nothing else can hold it.
RunEnds == <>(phase \in {"ended", "raised"})

-----------------------------------------------------------------------------
(* What a run promises to the caller, as a specification of its own.       *)

NatOf(n) == IF n < 0 THEN 0 ELSE n

Contract == INSTANCE RunContract WITH
  status  <- IF phase = "gates" THEN "gated"
             ELSE IF phase \in {"ended", "raised"} THEN "closed" ELSE "open",
  used    <- Len(steps),
  effects <- Cardinality(EffectSteps),
  limit   <- NatOf(conf.maxSteps),
  cap     <- IF BudgetEnforced THEN Budget ELSE NatOf(conf.maxSteps)

ImplementsContract == Contract!Spec
=============================================================================
