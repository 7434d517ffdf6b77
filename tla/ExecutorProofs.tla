--------------------------- MODULE ExecutorProofs ---------------------------
(***************************************************************************)
(* What a step of execute() preserves, whoever calls it: the types, and    *)
(* the clearance of the call, for any rules, context and history.          *)
(***************************************************************************)
EXTENDS Executor, TLAPS

\* A step of execute() preserves the executor's types.
LEMMA ExecuteStepTyped ==
  ASSUME ExecTypeOK, ExecuteStep
  PROVE  ExecTypeOK'
<1> USE DEF ExecTypeOK
<1>a. ASSUME NEW e \in EventNames, NEW k \in Nat, NEW d \in BOOLEAN
      PROVE  Append(log, EventAt(e, k, d)) \in Seq(Event)
  BY <1>a DEF EventAt, Event
<1>b. ASSUME NEW ran \in BOOLEAN, NEW success \in BOOLEAN,
             Return(ran, success), log' \in Seq(Event)
      PROVE  ExecTypeOK'
  BY <1>b DEF Return, Phase, Reply
<1>c. ASSUME NEW answer \in Answer, AuditAnswer(answer)
      PROVE  log' \in Seq(Event)
  <2>1. CASE answer = "none"
    BY <1>c, <2>1 DEF AuditAnswer
  <2>2. CASE answer # "none"
    <3>1. EventOf[answer] \in EventNames /\ (answer = "deny") \in BOOLEAN /\ gi \in Nat
      BY <2>2 DEF EventOf, Answer, EventNames, ExecutorEvents
    <3> QED BY <1>a, <1>c, <2>2, <3>1 DEF AuditAnswer
  <2> QED BY <2>1, <2>2
<1>d. ASSUME NEW e \in EventNames, Audit(e)
      PROVE  log' \in Seq(Event)
  BY <1>a, <1>d DEF Audit, Audited
<1>1. CASE RefuseIncompleteContext
  BY <1>1, <1>b, <1>d DEF RefuseIncompleteContext, EventNames, ExecutorEvents
<1>2. CASE RefuseUnknownTool
  BY <1>2, <1>b, <1>d DEF RefuseUnknownTool, EventNames, ExecutorEvents
<1>3. CASE RefuseToolNotAllowed
  BY <1>3, <1>b, <1>d DEF RefuseToolNotAllowed, EventNames, ExecutorEvents
<1>4. CASE RefuseArguments
  BY <1>4, <1>b, <1>d DEF RefuseArguments, EventNames, ExecutorEvents
<1>5. CASE EnterGuards
  BY <1>5 DEF EnterGuards, Proceed, Phase
<1>6. CASE SkipRule
  BY <1>6 DEF SkipRule
<1>7. CASE PassRule
  BY <1>7, <1>c DEF PassRule
<1>8. CASE RefuseByRule
  BY <1>8, <1>b, <1>c DEF RefuseByRule
<1>9. CASE GuardsPassed
  BY <1>9 DEF GuardsPassed, Phase
<1>10. CASE ToolReturns
  BY <1>10, <1>b DEF ToolReturns
<1>11. CASE ToolRefuses
  BY <1>11, <1>b, <1>d DEF ToolRefuses, EventNames, ExecutorEvents
<1>12. CASE ToolRaises
  BY <1>12, <1>b, <1>d DEF ToolRaises, EventNames, ExecutorEvents
<1> QED
  BY <1>1, <1>2, <1>3, <1>4, <1>5, <1>6, <1>7, <1>8, <1>9, <1>10, <1>11,
     <1>12 DEF ExecuteStep

\* A rule that was skipped, or that gave an answer it does not refuse on,
\* does not stop the call.
LEMMA SkipDoesNotStop ==
  ASSUME NEW rule, NEW directive, ~Applies(rule, call, directive)
  PROVE  ~Stops(rule, call, steps, directive)
BY DEF Stops

LEMMA PassDoesNotStop ==
  ASSUME NEW rule, NEW directive, NEW a \in Answer,
         MayAnswer(rule, a, call, steps), ~Refuses(rule, a)
  PROVE  ~Stops(rule, call, steps, directive)
BY DEF Stops

\* What makes ClearedToInvoke inductive: past the context check the call is in
\* scope, and no rule behind the guard loop stops it.
Clearing ==
  /\ pc \in {"guards", "invoke"} => ContextComplete /\ Registered /\ Allowed /\ WellFormed
  /\ pc = "guards" =>
       \A k \in DOMAIN ctx.rules :
         k < gi => ~Stops(ctx.rules[k], call, steps, ctx.directive)
  /\ pc = "invoke" => \/ ctx.rulesArg = "unrestricted"
                     \/ \A k \in DOMAIN ctx.rules :
                          ~Stops(ctx.rules[k], call, steps, ctx.directive)

\* A step of execute() keeps what it was given.
LEMMA ExecuteKeepsInputs ==
  ASSUME ExecuteStep
  PROVE  UNCHANGED <<call, ctx, steps>>
BY DEF ExecuteStep, RefuseIncompleteContext, RefuseUnknownTool,
   RefuseToolNotAllowed, RefuseArguments, EnterGuards, SkipRule, PassRule,
   RefuseByRule, GuardsPassed, ToolReturns, ToolRefuses, ToolRaises, Return,
   Proceed

\* The boundary checks read only the inputs.
LEMMA ChecksKept ==
  ASSUME UNCHANGED <<call, ctx>>,
         ContextComplete, Registered, Allowed, WellFormed
  PROVE  ContextComplete' /\ Registered' /\ Allowed' /\ WellFormed'
BY DEF ContextComplete, Registered, Allowed, WellFormed

\* A step of execute() keeps the clearance.
LEMMA ExecuteClears ==
  ASSUME ExecTypeOK, Clearing, ExecuteStep
  PROVE  Clearing'
<1> DEFINE cleared(n) == \A k \in DOMAIN ctx.rules :
             k < n => ~Stops(ctx.rules[k], call, steps, ctx.directive)
<1>0. UNCHANGED <<call, ctx, steps>>
  BY ExecuteKeepsInputs
<1>1. ctx.rules \in Seq(Rule) /\ gi \in Nat /\ Len(ctx.rules) \in Nat
      /\ DOMAIN ctx.rules = 1 .. Len(ctx.rules)
  BY DEF ExecTypeOK, Context
<1>2. ASSUME pc' = "returned"
      PROVE  Clearing'
  BY <1>2 DEF Clearing
<1>3. CASE EnterGuards
  <2>1. ContextComplete' /\ Registered' /\ Allowed' /\ WellFormed'
    BY <1>0, <1>3, ChecksKept DEF EnterGuards
  <2>2. gi' = 1 /\ pc' = IF ctx.rulesArg = "unrestricted" THEN "invoke" ELSE "guards"
    BY <1>3 DEF EnterGuards, Proceed
  <2>3. cleared(1)
    BY <1>1
  <2> QED
    BY <1>0, <2>1, <2>2, <2>3 DEF Clearing
<1>4. CASE SkipRule \/ PassRule
  <2>1. gi' = gi + 1 /\ pc = "guards" /\ pc' = pc
    BY <1>4 DEF SkipRule, PassRule, AtRule
  <2>2. ~Stops(ctx.rules[gi], call, steps, ctx.directive)
    BY <1>4, SkipDoesNotStop, PassDoesNotStop DEF SkipRule, PassRule
  <2>3. cleared(gi)
    BY <2>1 DEF Clearing
  <2>4. cleared(gi + 1)
    BY <1>1, <2>2, <2>3
  <2>5. ContextComplete' /\ Registered' /\ Allowed' /\ WellFormed'
    BY <1>0, <2>1, ChecksKept DEF Clearing
  <2> QED
    BY <1>0, <2>1, <2>4, <2>5 DEF Clearing
<1>5. CASE GuardsPassed
  <2>1. gi > Len(ctx.rules) /\ pc = "guards" /\ pc' = "invoke"
    BY <1>5 DEF GuardsPassed
  <2>2. cleared(gi)
    BY <2>1 DEF Clearing
  <2>3. \A k \in DOMAIN ctx.rules : ~Stops(ctx.rules[k], call, steps, ctx.directive)
    BY <1>1, <2>1, <2>2
  <2>4. ContextComplete' /\ Registered' /\ Allowed' /\ WellFormed'
    BY <1>0, <2>1, ChecksKept DEF Clearing
  <2> QED
    BY <1>0, <2>1, <2>3, <2>4 DEF Clearing
<1>6. CASE \/ RefuseIncompleteContext \/ RefuseUnknownTool
           \/ RefuseToolNotAllowed \/ RefuseArguments \/ RefuseByRule
           \/ ToolReturns \/ ToolRefuses \/ ToolRaises
  <2>1. pc' = "returned"
    BY <1>6 DEF RefuseIncompleteContext, RefuseUnknownTool, RefuseToolNotAllowed,
       RefuseArguments, RefuseByRule, ToolReturns, ToolRefuses, ToolRaises, Return
  <2> QED
    BY <1>2, <2>1
<1> QED
  BY <1>3, <1>4, <1>5, <1>6 DEF ExecuteStep

LEMMA ClearingClears == Clearing => ClearedToInvoke
BY DEF Clearing, ClearedToInvoke
=============================================================================
