------------------------------ MODULE Executor ------------------------------
(***************************************************************************)
(* execute() of auro_runtime/executor.py: one tool call, from the check of *)
(* the security context to the reply.  The caller (the orchestrator's run  *)
(* loop, or an embedder calling the public function) sets ctx and call and *)
(* pc = "context"; execute() has returned when pc = "returned".            *)
(***************************************************************************)
EXTENDS Guards

CONSTANT NoStep   \* the audit step of an event no orchestrator step owns

ASSUME NoStepAssumption == NoStep \in Int /\ NoStep < 0

VARIABLES
  pc,         \* where the call in progress is
  call,       \* the ToolCallOutput
  ctx,        \* the security inputs: allowed_tools, policy_rules, run_history
  gi,         \* index of the rule the guard loop is at
  reply,      \* the ToolCallResult
  steps,      \* run_history, owned by the caller
  auditStep,  \* the _audit_step context variable
  log         \* the run's audit events

callVars == <<pc, call, ctx, gi, reply>>
execVars == <<pc, call, ctx, gi, reply, steps, auditStep, log>>

\* None, a real value, or the UNRESTRICTED sentinel.
Supplied == {"none", "value", "unrestricted"}

\* directive: the directive_id argument.
Context == [toolsArg : Supplied, tools : SUBSET Tools,
            rulesArg : Supplied, rules : Seq(Rule),
            historyArg : BOOLEAN, directive : Directives]

Phase == {"idle", "context", "guards", "invoke", "returned"}

Reply == [ran : BOOLEAN, success : BOOLEAN]

\* The audit events of one run.  "rule" is the index of the rule a guard
\* event is about, 0 for the others.
ExecutorEvents == {
  "incomplete_execution_context", "unknown_tool", "tool_not_allowed",
  "argument_validation_failed", "policy_guard_missing", "policy_guard_error",
  "policy_guard_check", "tool_refused", "tool_type_error",
  "tool_execution_error"}

TerminalEvents == {
  "directive_load_failed", "policies_dir_missing", "policy_validation_failed",
  "no_enforceable_policies", "incomplete_policy_profile",
  "model_backend_error", "parse_json_failed", "model_refused",
  "invalid_tool_call_shape", "max_steps_reached"}

NoticeEvents == {
  "unguarded_mode_enabled", "response_format_reminded",
  "refusal_shape_rejected", "completion_shape_rejected"}

EventNames == ExecutorEvents \cup TerminalEvents \cup NoticeEvents

Event == [event : EventNames, step : Int, rule : Nat, denied : BOOLEAN]

ExecTypeOK ==
  /\ pc \in Phase
  /\ call \in Call
  /\ ctx \in Context
  /\ gi \in Nat \ {0}
  /\ reply \in Reply
  /\ steps \in Seq(Entry)
  /\ auditStep \in Int
  /\ log \in Seq(Event)

-----------------------------------------------------------------------------
(* Writing one audit event, stamped with the current audit step.           *)

EventAt(event, rule, denied) ==
  [event |-> event, step |-> auditStep, rule |-> rule, denied |-> denied]

Audited(event) == EventAt(event, 0, FALSE)

Audit(event) == log' = Append(log, Audited(event))

Return(ran, success) ==
  /\ pc' = "returned"
  /\ reply' = [ran |-> ran, success |-> success]
  /\ UNCHANGED <<call, ctx, gi, steps, auditStep>>

Proceed(to) ==
  /\ pc' = to
  /\ gi' = 1
  /\ UNCHANGED <<call, ctx, reply, steps, auditStep, log>>

-----------------------------------------------------------------------------
(* Boundary checks, in the order execute() makes them.                     *)

\* An empty tool set is an answer; an empty rule list is not.
ContextComplete ==
  /\ ctx.toolsArg # "none"
  /\ ctx.rulesArg # "none"
  /\ ctx.rulesArg = "value" => ctx.rules # <<>>
  /\ ctx.historyArg

Registered == call.tool \in Registry

Allowed == ctx.toolsArg = "unrestricted" \/ call.tool \in ctx.tools

WellFormed == "bad_args" \notin call.marks

RefuseIncompleteContext ==
  /\ pc = "context"
  /\ ~ContextComplete
  /\ Audit("incomplete_execution_context")
  /\ Return(FALSE, FALSE)

RefuseUnknownTool ==
  /\ pc = "context"
  /\ ContextComplete
  /\ ~Registered
  /\ Audit("unknown_tool")
  /\ Return(FALSE, FALSE)

RefuseToolNotAllowed ==
  /\ pc = "context"
  /\ ContextComplete /\ Registered
  /\ ~Allowed
  /\ Audit("tool_not_allowed")
  /\ Return(FALSE, FALSE)

RefuseArguments ==
  /\ pc = "context"
  /\ ContextComplete /\ Registered /\ Allowed
  /\ ~WellFormed
  /\ Audit("argument_validation_failed")
  /\ Return(FALSE, FALSE)

\* Mutant: the allowed set is not enforced before the guards.
EnterGuardsUnscoped ==
  /\ pc = "context"
  /\ ContextComplete /\ Registered /\ WellFormed
  /\ Proceed(IF ctx.rulesArg = "unrestricted" THEN "invoke" ELSE "guards")

EnterGuards ==
  /\ pc = "context"
  /\ ContextComplete /\ Registered /\ Allowed /\ WellFormed
  /\ Proceed(IF ctx.rulesArg = "unrestricted" THEN "invoke" ELSE "guards")

-----------------------------------------------------------------------------
(* The guard loop: rules in order, first refusal stops.                    *)

AtRule == pc = "guards" /\ gi \in DOMAIN ctx.rules

\* Mutant: the loop does not advance past a rule that does not apply.
SkipRuleStays ==
  /\ AtRule
  /\ ~Applies(ctx.rules[gi], call, ctx.directive)
  /\ UNCHANGED execVars

SkipRule ==
  /\ AtRule
  /\ ~Applies(ctx.rules[gi], call, ctx.directive)
  /\ gi' = gi + 1
  /\ UNCHANGED <<pc, call, ctx, reply, steps, auditStep, log>>

\* Mutant: a guard's own failure is not audited when it does not refuse.
AuditVerdictsOnly(answer) ==
  log' = IF answer \notin {"deny", "allow"} THEN log
         ELSE Append(log, EventAt(EventOf[answer], gi, answer = "deny"))

AuditAnswer(answer) ==
  log' = IF answer = "none" THEN log
         ELSE Append(log, EventAt(EventOf[answer], gi, answer = "deny"))

PassRule ==
  /\ AtRule
  /\ Applies(ctx.rules[gi], call, ctx.directive)
  /\ \E answer \in Answer :
       /\ MayAnswer(ctx.rules[gi], answer, call, steps)
       /\ ~Refuses(ctx.rules[gi], answer)
       /\ AuditAnswer(answer)
  /\ gi' = gi + 1
  /\ UNCHANGED <<pc, call, ctx, reply, steps, auditStep>>

RefuseByRule ==
  /\ AtRule
  /\ Applies(ctx.rules[gi], call, ctx.directive)
  /\ \E answer \in Answer :
       /\ MayAnswer(ctx.rules[gi], answer, call, steps)
       /\ Refuses(ctx.rules[gi], answer)
       /\ AuditAnswer(answer)
  /\ Return(FALSE, FALSE)

GuardsPassed ==
  /\ pc = "guards"
  /\ gi > Len(ctx.rules)
  /\ pc' = "invoke"
  /\ UNCHANGED <<call, ctx, gi, reply, steps, auditStep, log>>

-----------------------------------------------------------------------------
(* The tool body.  It may have had its effect however it ends.             *)

ToolReturns ==
  /\ pc = "invoke"
  /\ Return(TRUE, TRUE)
  /\ UNCHANGED log

\* Mutant: the failure a tool reports writes no event.
ToolRefusesSilently ==
  /\ pc = "invoke"
  /\ Return(TRUE, FALSE)
  /\ UNCHANGED log

\* A result with a truthy top-level `error`.
ToolRefuses ==
  /\ pc = "invoke"
  /\ Audit("tool_refused")
  /\ Return(TRUE, FALSE)

ToolRaises ==
  /\ pc = "invoke"
  /\ \E event \in {"tool_type_error", "tool_execution_error"} : Audit(event)
  /\ Return(TRUE, FALSE)

ExecuteStep ==
  \/ RefuseIncompleteContext
  \/ RefuseUnknownTool
  \/ RefuseToolNotAllowed
  \/ RefuseArguments
  \/ EnterGuards
  \/ SkipRule
  \/ PassRule
  \/ RefuseByRule
  \/ GuardsPassed
  \/ ToolReturns
  \/ ToolRefuses
  \/ ToolRaises

\* What the caller keeps of the call once it returned.  The source keeps the
\* redacted tool and arguments: Tools and Paths are names that redaction does
\* not change.
EntryOfCall == [tool |-> call.tool, path |-> call.path, marks |-> call.marks,
                ran |-> reply.ran, success |-> reply.success]

-----------------------------------------------------------------------------
(* Complete mediation: a tool body is entered only with a complete context,*)
(* a registered and allowed tool, arguments its schema accepts, and no rule*)
(* that stops this call under the history the caller holds at that moment, *)
(* unless the caller named UNRESTRICTED.                                   *)
ClearedToInvoke ==
  pc = "invoke" =>
    /\ ContextComplete /\ Registered /\ Allowed /\ WellFormed
    /\ \/ ctx.rulesArg = "unrestricted"
       \/ \A k \in DOMAIN ctx.rules :
            ~Stops(ctx.rules[k], call, steps, ctx.directive)
=============================================================================
