--------------------------- MODULE RuntimeProofs ----------------------------
(***************************************************************************)
(* Theorems about Runtime, for every deployment, every policy and every    *)
(* model: type correctness, complete mediation over the whole run, the     *)
(* bound on writing calls, and the refinement of RunContract's steps.      *)
(***************************************************************************)
EXTENDS Runtime, ExecutorProofs, FiniteSetTheorems, SequenceTheorems, TLAPS

-----------------------------------------------------------------------------
(* Type correctness.                                                       *)

LEMMA EventsTyped ==
  ASSUME NEW events \in Seq(EventNames), NEW n \in Int, NEW l \in Seq(Event)
  PROVE  l \o [i \in DOMAIN events |->
                 [event |-> events[i], step |-> n, rule |-> 0,
                  denied |-> FALSE]] \in Seq(Event)
<1> DEFINE new == [i \in DOMAIN events |->
                     [event |-> events[i], step |-> n, rule |-> 0,
                      denied |-> FALSE]]
<1>1. new \in Seq(Event)
  <2>1. Len(events) \in Nat /\ DOMAIN events = 1 .. Len(events)
    BY LenProperties
  <2>2. \A i \in 1 .. Len(events) : events[i] \in EventNames
    BY <2>1, ElementOfSeq
  <2>3. new \in [1 .. Len(events) -> Event]
    BY <2>1, <2>2 DEF Event
  <2>4. new \in UNION {[1 .. m -> Event] : m \in Nat}
    BY <2>1, <2>3
  <2> QED BY <2>4, SeqDef
<1> HIDE DEF new
<1>2. l \o new \in Seq(Event)
  BY <1>1, ConcatProperties
<1> QED BY <1>2 DEF new

LEMMA RejectionsTyped ==
  ASSUME NEW r
  PROVE  /\ RefusalRejected(r) \in Seq(EventNames)
         /\ RefusalRejected(r) \o CompletionRejected(r) \in Seq(EventNames)
         /\ RefusalRejected(r) \o CompletionRejected(r)
              \o <<"invalid_tool_call_shape">> \in Seq(EventNames)
<1>1. /\ RefusalRejected(r) \in Seq(EventNames)
      /\ CompletionRejected(r) \in Seq(EventNames)
      /\ <<"invalid_tool_call_shape">> \in Seq(EventNames)
  <2>1. "refusal_shape_rejected" \in EventNames
        /\ "completion_shape_rejected" \in EventNames
        /\ "invalid_tool_call_shape" \in EventNames
    BY DEF EventNames, TerminalEvents, NoticeEvents
  <2> QED BY <2>1 DEF RefusalRejected, CompletionRejected
<1>2. RefusalRejected(r) \o CompletionRejected(r) \in Seq(EventNames)
  BY <1>1, ConcatProperties
<1> QED BY <1>1, <1>2, ConcatProperties

LEMMA ContextTyped ==
  ASSUME NEW c \in Config
  PROVE  RunContext(c) \in Context
BY DEF Config, RunContext, Context, Supplied

LEMMA InitTyped == Init => TypeOK
<1> SUFFICES ASSUME Init PROVE TypeOK
  OBVIOUS
<1>1. conf \in Config
  BY ConfigsAssumption DEF Init
<1>2. ctx \in Context
  BY <1>1, ContextTyped DEF Init
<1>3. call \in Call
  BY RegistryAssumption DEF Init, Call
<1>4. auditStep \in Int /\ steps \in Seq(Entry) /\ log \in Seq(Event)
  BY NoStepAssumption DEF Init
<1> QED
  BY <1>1, <1>2, <1>3, <1>4
  DEF Init, TypeOK, ExecTypeOK, RunPhase, Result, NoResult, Reply, Phase

\* A turn of the model preserves the types.
LEMMA ModelTurnTyped ==
  ASSUME TypeOK, ModelTurn
  PROVE  TypeOK'
<1> USE DEF TypeOK, ExecTypeOK
<1>a. ASSUME NEW events \in Seq(EventNames), TurnEvents(events)
      PROVE  log' \in Seq(Event)
  BY <1>a, EventsTyped DEF TurnEvents
<1>b. ASSUME NEW event \in TerminalEvents \cup {"none", "done"},
             NEW success \in BOOLEAN, NEW error \in BOOLEAN,
             Finish(event, success, error), Turn, log' \in Seq(Event)
      PROVE  TypeOK'
  BY <1>b DEF Finish, Turn, RunPhase, Result, callVars
<1>c. \A e \in EventNames : <<e>> \in Seq(EventNames)
  OBVIOUS
<1>1. CASE ModelBackendError
  <2>1. log' \in Seq(Event)
    BY <1>1, <1>a, <1>c DEF ModelBackendError, EventNames, TerminalEvents
  <2> QED BY <1>1, <1>b, <2>1 DEF ModelBackendError, TerminalEvents
<1>2. CASE RemindFormat
  <2>1. log' \in Seq(Event)
    BY <1>2, <1>a, <1>c DEF RemindFormat, EventNames, NoticeEvents
  <2> QED BY <1>2, <2>1 DEF RemindFormat, Turn, RunPhase, callVars
<1>3. CASE ParseJsonFailed
  <2>1. log' \in Seq(Event)
    BY <1>3, <1>a, <1>c DEF ParseJsonFailed, EventNames, TerminalEvents
  <2> QED BY <1>3, <1>b, <2>1 DEF ParseJsonFailed, TerminalEvents
<1>4. ASSUME NEW r \in Responses, ModelRefused(r)
      PROVE  TypeOK'
  <2>1. log' \in Seq(Event)
    BY <1>4, <1>a, <1>c DEF ModelRefused, EventNames, TerminalEvents
  <2> QED BY <1>4, <1>b, <2>1 DEF ModelRefused, TerminalEvents
<1>5. ASSUME NEW r \in Responses, ModelDone(r)
      PROVE  TypeOK'
  <2>1. log' \in Seq(Event)
    BY <1>5, <1>a, RejectionsTyped DEF ModelDone
  <2> QED BY <1>5, <1>b, <2>1 DEF ModelDone
<1>6. ASSUME NEW r \in Responses, InvalidToolCallShape(r)
      PROVE  TypeOK'
  <2>1. log' \in Seq(Event)
    BY <1>6, <1>a, RejectionsTyped DEF InvalidToolCallShape
  <2> QED BY <1>6, <1>b, <2>1 DEF InvalidToolCallShape, TerminalEvents
<1>7. ASSUME NEW r \in Responses, CallTool(r)
      PROVE  TypeOK'
  <2>1. log' \in Seq(Event)
    BY <1>7, <1>a, RejectionsTyped DEF CallTool
  <2>2. call' \in Call
    BY <1>7, ResponsesAssumption DEF CallTool, Response
  <2>3. ctx' \in Context
    BY <1>7, ContextTyped DEF CallTool
  <2> QED BY <1>7, <2>1, <2>2, <2>3 DEF CallTool, Turn, RunPhase, Phase
<1> QED
  BY <1>1, <1>2, <1>3, <1>4, <1>5, <1>6, <1>7 DEF ModelTurn

LEMMA GateTyped ==
  ASSUME TypeOK, Gate
  PROVE  TypeOK'
<1> USE DEF TypeOK, ExecTypeOK
<1>a. ASSUME NEW e \in EventNames, Audit(e)
      PROVE  log' \in Seq(Event)
  <2>1. Audited(e) \in Event
    BY DEF Audited, EventAt, Event
  <2> QED BY <1>a, <2>1 DEF Audit
<1>b. ASSUME NEW e \in TerminalEvents, GateFail(e)
      PROVE  TypeOK'
  <2>1. log' \in Seq(Event)
    BY <1>a, <1>b DEF GateFail, Fail, EventNames
  <2> QED BY <1>b, <2>1 DEF GateFail, Fail, Finish, RunPhase, Result, callVars
<1>1. CASE DirectiveLoadFailed
  BY <1>1, <1>b DEF DirectiveLoadFailed, TerminalEvents
<1>2. CASE PoliciesDirMissing
  BY <1>2, <1>b DEF PoliciesDirMissing, TerminalEvents
<1>3. CASE PoliciesUnreadable
  BY <1>3 DEF PoliciesUnreadable, RunPhase, execVars
<1>4. CASE PolicyValidationFailed
  BY <1>4, <1>b DEF PolicyValidationFailed, TerminalEvents
<1>5. CASE NoEnforceablePolicies
  BY <1>5, <1>b DEF NoEnforceablePolicies, TerminalEvents
<1>6. CASE IncompletePolicyProfile
  BY <1>6, <1>b DEF IncompletePolicyProfile, TerminalEvents
<1>7. CASE EnterLoop
  <2>1. log' \in Seq(Event)
    BY <1>7, <1>a DEF EnterLoop, EventNames, NoticeEvents
  <2> QED BY <1>7, <2>1 DEF EnterLoop, RunPhase, callVars
<1> QED
  BY <1>1, <1>2, <1>3, <1>4, <1>5, <1>6, <1>7 DEF Gate

LEMMA NextTyped == TypeOK /\ [Next]_vars => TypeOK'
<1> SUFFICES ASSUME TypeOK, [Next]_vars PROVE TypeOK'
  OBVIOUS
<1>1. CASE Execute
  BY <1>1, ExecuteStepTyped DEF Execute, TypeOK
<1>2. CASE RecordStep
  <2>1. EntryOfCall \in Entry
    BY DEF TypeOK, ExecTypeOK, EntryOfCall, Entry, Call, Reply
  <2>2. steps' \in Seq(Entry)
    BY <1>2, <2>1 DEF RecordStep, TypeOK, ExecTypeOK
  <2> QED BY <1>2, <2>2 DEF RecordStep, TypeOK, ExecTypeOK, RunPhase, Phase
<1>3. CASE MaxStepsReached
  <2>1. conf.maxSteps \in Int
    BY DEF TypeOK, Config
  <2>2. log' \in Seq(Event)
    BY <1>3, <2>1
    DEF MaxStepsReached, TypeOK, ExecTypeOK, Event, EventNames, TerminalEvents
  <2> QED
    BY <1>3, <2>1, <2>2
    DEF MaxStepsReached, Finish, TypeOK, ExecTypeOK, RunPhase, Result,
        TerminalEvents, callVars
<1>4. CASE UNCHANGED vars
  BY <1>4 DEF vars, execVars, TypeOK, ExecTypeOK
<1> QED
  BY <1>1, <1>2, <1>3, <1>4, GateTyped, ModelTurnTyped DEF Next, Over

\* Every state of a run has the types Runtime declares, whatever the
\* deployment and whatever the model replies.
THEOREM TypeCorrect == Spec => []TypeOK
<1>1. Init => TypeOK
  BY InitTyped
<1>2. TypeOK /\ [Next]_vars => TypeOK'
  BY NextTyped
<1> QED
  BY <1>1, <1>2, PTL DEF Spec

-----------------------------------------------------------------------------
(* Complete mediation.                                                     *)

\* Stops() is about a call's tool, path and marks, which its history entry
\* keeps.
LEMMA StopsOfEntry ==
  ASSUME NEW rule, NEW c, NEW e, NEW hist, NEW directive,
         e.tool = c.tool, e.path = c.path, e.marks = c.marks
  PROVE  Stops(rule, e, hist, directive) = Stops(rule, c, hist, directive)
<1>1. \A g : Denies(g, e, hist) <=> Denies(g, c, hist)
  BY DEF Denies, BulkWrite, ReasonEmpty, SecretInCall, SensitivePath,
     RawCredential, Destructive
<1>2. \A g : Raises(g, e, hist) <=> Raises(g, c, hist)
  BY DEF Raises
<1>3. \A a : MayAnswer(rule, a, e, hist) <=> MayAnswer(rule, a, c, hist)
  BY <1>1, <1>2 DEF MayAnswer
<1>4. Applies(rule, e, directive) <=> Applies(rule, c, directive)
  BY DEF Applies
<1> QED BY <1>3, <1>4, Zenon DEF Stops

\* Adding an entry changes no earlier prefix of the history.
LEMMA PrefixKept ==
  ASSUME NEW S, NEW s \in Seq(S), NEW e \in S, NEW i \in 1 .. Len(s) + 1
  PROVE  SubSeq(Append(s, e), 1, i - 1) = SubSeq(s, 1, i - 1)
<1>1. \A j \in 1 .. i - 1 : Append(s, e)[j] = s[j]
  BY AppendProperties
<1>2. Len(Append(s, e)) = Len(s) + 1 /\ Append(s, e) \in Seq(S)
  BY AppendProperties
<1> QED BY <1>1, <1>2, SubSeqProperties

LEMMA MediatedCallInit == Init => MediatedCall
BY DEF Init, MediatedCall

\* One step of execute() keeps the call's clearance.
LEMMA ExecuteMediated ==
  ASSUME TypeOK, MediatedCall, Execute
  PROVE  MediatedCall'
<1> DEFINE cleared(n) == \A k \in DOMAIN conf.rules :
             k < n => ~Stops(conf.rules[k], call, steps, conf.directive)
<1>0. /\ UNCHANGED <<conf, call, ctx, steps>>
      /\ ExecuteStep
  BY DEF Execute, ExecuteStep, RefuseIncompleteContext, RefuseUnknownTool,
     RefuseToolNotAllowed, RefuseArguments, EnterGuards, SkipRule, PassRule,
     RefuseByRule, GuardsPassed, ToolReturns, ToolRefuses, ToolRaises, Return,
     Proceed
<1>1. /\ ctx = RunContext(conf)
      /\ ctx.rules = conf.rules /\ ctx.directive = conf.directive
      /\ ctx.tools = conf.tools /\ ctx.toolsArg = "value"
      /\ ctx.rulesArg = "unrestricted" <=> conf.rules = <<>>
  BY DEF MediatedCall, RunContext
<1>2. conf.rules \in Seq(Rule) /\ gi \in Nat /\ Len(conf.rules) \in Nat
      /\ DOMAIN conf.rules = 1 .. Len(conf.rules)
  BY DEF TypeOK, ExecTypeOK, Config
<1>3. ASSUME pc' = "returned", reply'.ran = FALSE
      PROVE  MediatedCall'
  BY <1>0, <1>1, <1>3 DEF MediatedCall
<1>4. CASE EnterGuards
  <2>1. Registered /\ call.tool \in conf.tools /\ WellFormed /\ gi' = 1
    BY <1>1, <1>4 DEF EnterGuards, Allowed, Proceed
  <2>2. cleared(1)
    BY <1>2
  <2>3. pc' = "invoke" => conf.rules = <<>>
    BY <1>1, <1>4 DEF EnterGuards, Proceed
  <2>4. conf.rules = <<>> => cleared(Len(conf.rules) + 1)
    BY <1>2
  <2>5. pc' \in {"guards", "invoke"}
    BY <1>4 DEF EnterGuards, Proceed
  <2> QED
    BY <1>0, <1>1, <2>1, <2>2, <2>3, <2>4, <2>5
    DEF MediatedCall, Registered, WellFormed
<1>5. CASE SkipRule
  <2>1. gi \in DOMAIN conf.rules /\ gi' = gi + 1 /\ pc = "guards" /\ pc' = pc
    BY <1>1, <1>5 DEF SkipRule, AtRule
  <2>2. ~Stops(conf.rules[gi], call, steps, conf.directive)
    BY <1>1, <1>5, SkipDoesNotStop DEF SkipRule
  <2>3. cleared(gi)
    BY <2>1 DEF MediatedCall
  <2>4. cleared(gi + 1)
    BY <1>2, <2>2, <2>3
  <2> QED
    BY <1>0, <1>1, <2>1, <2>4 DEF MediatedCall, Registered, WellFormed
<1>6. CASE PassRule
  <2>1. gi \in DOMAIN conf.rules /\ gi' = gi + 1 /\ pc = "guards" /\ pc' = pc
    BY <1>1, <1>6 DEF PassRule, AtRule
  <2>2. ~Stops(conf.rules[gi], call, steps, conf.directive)
    BY <1>1, <1>6, PassDoesNotStop DEF PassRule
  <2>3. cleared(gi)
    BY <2>1 DEF MediatedCall
  <2>4. cleared(gi + 1)
    BY <1>2, <2>2, <2>3
  <2> QED
    BY <1>0, <1>1, <2>1, <2>4 DEF MediatedCall, Registered, WellFormed
<1>7. CASE GuardsPassed
  <2>1. gi > Len(conf.rules) /\ pc = "guards" /\ pc' = "invoke"
    BY <1>1, <1>7 DEF GuardsPassed
  <2>2. cleared(gi)
    BY <2>1 DEF MediatedCall
  <2>3. cleared(Len(conf.rules) + 1)
    BY <1>2, <2>1, <2>2
  <2> QED
    BY <1>0, <1>1, <2>1, <2>3 DEF MediatedCall, Registered, WellFormed
<1>8. CASE ToolReturns \/ ToolRefuses \/ ToolRaises
  <2>1. pc = "invoke" /\ pc' = "returned"
    BY <1>8 DEF ToolReturns, ToolRefuses, ToolRaises, Return
  <2> QED
    BY <1>0, <1>1, <2>1 DEF MediatedCall, Registered, WellFormed
<1>9. CASE \/ RefuseIncompleteContext \/ RefuseUnknownTool
           \/ RefuseToolNotAllowed \/ RefuseArguments \/ RefuseByRule
  <2>1. Return(FALSE, FALSE)
    BY <1>9 DEF RefuseIncompleteContext, RefuseUnknownTool,
       RefuseToolNotAllowed, RefuseArguments, RefuseByRule
  <2>2. pc' = "returned" /\ reply'.ran = FALSE
    BY <2>1 DEF Return
  <2> QED BY <1>3, <2>2
<1> QED
  BY <1>0, <1>4, <1>5, <1>6, <1>7, <1>8, <1>9 DEF ExecuteStep

\* No other step changes the call's clearance: outside execute() the run is
\* between calls, or has just taken one up.
LEMMA OtherMediated ==
  ASSUME TypeOK, MediatedCall, [Next]_vars, ~Execute
  PROVE  MediatedCall'
<1>1. CASE UNCHANGED <<callVars, steps, conf>>
  BY <1>1 DEF MediatedCall, callVars, Registered, WellFormed
<1>2. ASSUME NEW r \in Responses, CallTool(r)
      PROVE  MediatedCall'
  BY <1>2 DEF CallTool, MediatedCall
<1>3. CASE RecordStep
  BY <1>3 DEF RecordStep, MediatedCall
<1>4. CASE Gate
  BY <1>1, <1>4 DEF Gate, DirectiveLoadFailed, PoliciesDirMissing,
     PoliciesUnreadable, PolicyValidationFailed, NoEnforceablePolicies,
     IncompletePolicyProfile, EnterLoop, GateFail, Fail, Finish, execVars,
     callVars
<1>5. CASE ModelTurn
  BY <1>1, <1>2, <1>5 DEF ModelTurn, ModelBackendError, RemindFormat,
     ParseJsonFailed, ModelRefused, ModelDone, InvalidToolCallShape, Finish
<1>6. CASE MaxStepsReached
  BY <1>1, <1>6 DEF MaxStepsReached, Finish
<1>7. CASE UNCHANGED vars
  BY <1>1, <1>7 DEF vars, execVars, callVars
<1> QED BY <1>3, <1>4, <1>5, <1>6, <1>7 DEF Next, Over

LEMMA MediatedCallNext ==
  TypeOK /\ MediatedCall /\ [Next]_vars => MediatedCall'
BY ExecuteMediated, OtherMediated

\* Steps that add nothing to the history.
LEMMA HistoryKept ==
  ASSUME [Next]_vars, ~RecordStep
  PROVE  UNCHANGED <<steps, conf>>
<1>1. CASE Execute
  BY <1>1 DEF Execute, ExecuteStep, RefuseIncompleteContext, RefuseUnknownTool,
     RefuseToolNotAllowed, RefuseArguments, EnterGuards, SkipRule, PassRule,
     RefuseByRule, GuardsPassed, ToolReturns, ToolRefuses, ToolRaises, Return,
     Proceed
<1>2. CASE Gate
  BY <1>2 DEF Gate, DirectiveLoadFailed, PoliciesDirMissing,
     PoliciesUnreadable, PolicyValidationFailed, NoEnforceablePolicies,
     IncompletePolicyProfile, EnterLoop, GateFail, Fail, Finish, execVars
<1>3. CASE ModelTurn
  BY <1>3 DEF ModelTurn, ModelBackendError, RemindFormat, ParseJsonFailed,
     ModelRefused, ModelDone, InvalidToolCallShape, CallTool, Finish
<1>4. CASE MaxStepsReached
  BY <1>4 DEF MaxStepsReached, Finish
<1>5. CASE UNCHANGED vars
  BY <1>5 DEF vars, execVars
<1> QED BY <1>1, <1>2, <1>3, <1>4, <1>5 DEF Next, Over

\* A recorded call that ran was cleared by the loop under the history it is
\* now appended to.
LEMMA MediatedHistoryNext ==
  TypeOK /\ MediatedCall /\ MediatedHistory /\ [Next]_vars => MediatedHistory'
<1> SUFFICES ASSUME TypeOK, MediatedCall, MediatedHistory, [Next]_vars
             PROVE  MediatedHistory'
  OBVIOUS
<1>1. CASE ~RecordStep
  BY <1>1, HistoryKept DEF MediatedHistory
<1>2. CASE RecordStep
  <2> DEFINE mediated(e, h) ==
        /\ e.tool \in Registry \cap conf.tools
        /\ "bad_args" \notin e.marks
        /\ \A k \in DOMAIN conf.rules :
             ~Stops(conf.rules[k], e, h, conf.directive)
  <2>1. steps' = Append(steps, EntryOfCall) /\ conf' = conf /\ pc = "returned"
    BY <1>2 DEF RecordStep
  <2>2. EntryOfCall \in Entry
    BY DEF TypeOK, ExecTypeOK, EntryOfCall, Entry, Call, Reply
  <2>3. steps \in Seq(Entry) /\ Len(steps) \in Nat
        /\ DOMAIN steps = 1 .. Len(steps)
    BY DEF TypeOK, ExecTypeOK
  <2>4. Len(steps') = Len(steps) + 1 /\ DOMAIN steps' = 1 .. Len(steps) + 1
        /\ steps'[Len(steps) + 1] = EntryOfCall
        /\ \A i \in 1 .. Len(steps) : steps'[i] = steps[i]
    BY <2>1, <2>2, <2>3, AppendProperties
  <2>5. \A i \in 1 .. Len(steps) + 1 :
          SubSeq(steps', 1, i - 1) = SubSeq(steps, 1, i - 1)
    BY <2>1, <2>2, <2>3, PrefixKept
  <2>6. ASSUME NEW i \in 1 .. Len(steps), steps'[i].ran
        PROVE  mediated(steps'[i], SubSeq(steps', 1, i - 1))
    <3>1. steps[i].ran /\ i \in DOMAIN steps
      BY <2>3, <2>4, <2>6
    <3>2. mediated(steps[i], SubSeq(steps, 1, i - 1))
      BY <3>1 DEF MediatedHistory
    <3>3. /\ steps'[i] = steps[i]
          /\ SubSeq(steps', 1, i - 1) = SubSeq(steps, 1, i - 1)
      BY <2>3, <2>4, <2>5
    <3> HIDE DEF mediated
    <3> QED BY <3>2, <3>3
  <2>7. ASSUME EntryOfCall.ran
        PROVE  mediated(steps'[Len(steps) + 1],
                        SubSeq(steps', 1, Len(steps) + 1 - 1))
    <3>1. reply.ran
      BY <2>7 DEF EntryOfCall
    <3>2. /\ call.tool \in Registry \cap conf.tools
          /\ "bad_args" \notin call.marks
          /\ \A k \in DOMAIN conf.rules : k < Len(conf.rules) + 1 =>
               ~Stops(conf.rules[k], call, steps, conf.directive)
      BY <2>1, <3>1 DEF MediatedCall, Registered, WellFormed
    <3>3. \A k \in DOMAIN conf.rules : k < Len(conf.rules) + 1
      BY DEF TypeOK, Config
    <3>4. SubSeq(steps, 1, Len(steps)) = steps
      BY <2>3, SubSeqProperties
    <3>5. /\ EntryOfCall.tool = call.tool
          /\ EntryOfCall.path = call.path
          /\ EntryOfCall.marks = call.marks
      BY DEF EntryOfCall
    <3>6. \A k \in DOMAIN conf.rules :
            ~Stops(conf.rules[k], EntryOfCall, steps, conf.directive)
      BY <3>2, <3>3, <3>5, StopsOfEntry
    <3>7. SubSeq(steps', 1, Len(steps) + 1 - 1) = steps
      BY <2>3, <2>5, <3>4
    <3>8. mediated(EntryOfCall, steps)
      BY <3>2, <3>5, <3>6
    <3> HIDE DEF mediated
    <3> QED BY <2>4, <3>7, <3>8
  <2> QED
    BY <2>1, <2>4, <2>6, <2>7, <2>3 DEF MediatedHistory
<1> QED BY <1>1, <1>2

\* Whatever rules a deployment has and whatever the model asks for, a tool
\* body runs only on a call no rule stops under the history before it.
THEOREM HistoryMediated == Spec => []MediatedHistory
<1>1. Init => MediatedHistory
  BY DEF Init, MediatedHistory
<1>2. Init => TypeOK /\ MediatedCall
  BY InitTyped, MediatedCallInit
<1> QED
  BY <1>1, <1>2, NextTyped, MediatedCallNext, MediatedHistoryNext, PTL DEF Spec

-----------------------------------------------------------------------------
(* The write budget.                                                       *)

\* A rule that enforces the budget stops a write tool once it is spent.
LEMMA BudgetStops ==
  ASSUME NEW rule, NEW hist, NEW directive,
         rule.guard = "check_write_budget",
         "check_write_budget" \notin CustomGuards,
         rule.enforcement \notin PermissiveEnforcement,
         WriteBudgetTools \cap Tools \subseteq rule.tools,
         directive \in rule.directives, call.tool \in Tools,
         call.tool \in WriteBudgetTools, WriteBudgetSpent(hist)
  PROVE  Stops(rule, call, hist, directive)
<1>1. Applies(rule, call, directive)
  BY DEF Applies
<1>2. rule.guard \in BuiltinGuards \ CustomGuards
      /\ rule.guard \in RegisteredGuards
  BY DEF BuiltinGuards, RegisteredGuards
<1>3. ~Raises(rule.guard, call, hist) /\ Denies(rule.guard, call, hist)
  BY DEF Raises, Denies
<1>4. \A a \in Answer : MayAnswer(rule, a, call, hist) => a = "deny"
  BY <1>2, <1>3 DEF MayAnswer
<1> QED BY <1>1, <1>4 DEF Stops, Refuses

\* Counting the write tools entered: no more than the writing calls made, no
\* more than the calls made, and one more when a call that ran is recorded.
LEMMA EffectsCounted ==
  ASSUME TypeOK
  PROVE  /\ IsFiniteSet(EffectSteps)
         /\ Cardinality(EffectSteps) \in Nat
         /\ Cardinality(WriteSteps(steps)) \in Nat
         /\ Cardinality(EffectSteps) <= Cardinality(WriteSteps(steps))
         /\ Cardinality(WriteSteps(steps)) <= Len(steps)
<1>1. steps \in Seq(Entry) /\ Len(steps) \in Nat
      /\ DOMAIN steps = 1 .. Len(steps)
  BY DEF TypeOK, ExecTypeOK
<1>2. IsFiniteSet(1 .. Len(steps)) /\ Cardinality(1 .. Len(steps)) = Len(steps)
  BY <1>1, FS_Interval
<1>3. WriteSteps(steps) \subseteq 1 .. Len(steps)
  BY <1>1 DEF WriteSteps
<1>4. EffectSteps \subseteq WriteSteps(steps)
  BY DEF EffectSteps
<1>5. /\ IsFiniteSet(WriteSteps(steps))
      /\ Cardinality(WriteSteps(steps)) <= Len(steps)
  BY <1>2, <1>3, FS_Subset
<1>6. /\ IsFiniteSet(EffectSteps)
      /\ Cardinality(EffectSteps) <= Cardinality(WriteSteps(steps))
  BY <1>4, <1>5, FS_Subset
<1> QED BY <1>5, <1>6, FS_CardinalityType

Writing == reply.ran /\ call.tool \in WriteBudgetTools

LEMMA EffectRecorded ==
  ASSUME TypeOK, RecordStep
  PROVE  Cardinality(EffectSteps') =
           Cardinality(EffectSteps) + (IF Writing THEN 1 ELSE 0)
<1>1. EntryOfCall \in Entry
  BY DEF TypeOK, ExecTypeOK, EntryOfCall, Entry, Call, Reply
<1>2. steps \in Seq(Entry) /\ Len(steps) \in Nat
      /\ DOMAIN steps = 1 .. Len(steps)
  BY DEF TypeOK, ExecTypeOK
<1>3. Len(steps') = Len(steps) + 1 /\ DOMAIN steps' = 1 .. Len(steps) + 1
      /\ steps'[Len(steps) + 1] = EntryOfCall
      /\ \A i \in 1 .. Len(steps) : steps'[i] = steps[i]
  BY <1>1, <1>2, AppendProperties DEF RecordStep
<1>4. CASE Writing
  <2>1. EffectSteps' = EffectSteps \cup {Len(steps) + 1}
    BY <1>2, <1>3, <1>4 DEF EffectSteps, WriteSteps, EntryOfCall, Writing
  <2>2. Len(steps) + 1 \notin EffectSteps
    BY <1>2 DEF EffectSteps, WriteSteps
  <2>3. Cardinality(EffectSteps \cup {Len(steps) + 1})
          = Cardinality(EffectSteps) + 1
    BY <2>2, EffectsCounted, FS_AddElement
  <2> QED BY <1>4, <2>1, <2>3
<1>5. CASE ~Writing
  <2>1. EffectSteps' = EffectSteps
    BY <1>2, <1>3, <1>5 DEF EffectSteps, WriteSteps, EntryOfCall, Writing
  <2> QED BY <1>5, <2>1, EffectsCounted
<1> QED BY <1>4, <1>5

LEMMA BudgetInit == Init => WriteBudgetHolds
<1> SUFFICES ASSUME Init PROVE Cardinality(EffectSteps) <= Budget
  BY DEF WriteBudgetHolds
<1>1. EffectSteps = {}
  BY DEF Init, EffectSteps, WriteSteps
<1> QED BY <1>1, FS_EmptySet, BudgetAssumption

LEMMA BudgetNext ==
  TypeOK /\ MediatedCall /\ WriteBudgetHolds /\ [Next]_vars
    => WriteBudgetHolds'
<1> SUFFICES ASSUME TypeOK, MediatedCall, WriteBudgetHolds, [Next]_vars
             PROVE  WriteBudgetHolds'
  OBVIOUS
<1>1. CASE ~RecordStep
  BY <1>1, HistoryKept
  DEF WriteBudgetHolds, BudgetEnforced, EnforcesBudget, EffectSteps, WriteSteps
<1>2. CASE RecordStep
  <2> SUFFICES ASSUME BudgetEnforced
               PROVE  Cardinality(EffectSteps') <= Budget
    BY <1>2 DEF RecordStep, WriteBudgetHolds, BudgetEnforced, EnforcesBudget
  <2>1. Cardinality(EffectSteps) <= Budget
    BY DEF WriteBudgetHolds
  <2>2. CASE Writing
    <3>1. PICK k \in DOMAIN conf.rules : EnforcesBudget(conf.rules[k])
      BY DEF BudgetEnforced
    <3>2. k < Len(conf.rules) + 1
      BY <3>1 DEF TypeOK, Config
    <3>3. ~Stops(conf.rules[k], call, steps, conf.directive)
      BY <1>2, <2>2, <3>1, <3>2 DEF MediatedCall, RecordStep, Writing
    <3>4. call.tool \in Tools
      BY DEF TypeOK, ExecTypeOK, Call
    <3>5. ~WriteBudgetSpent(steps)
      BY <2>2, <3>1, <3>3, <3>4, BudgetStops DEF EnforcesBudget, BudgetEnforced, Writing
    <3>6. Cardinality(EffectSteps) < Budget
      BY <3>5, EffectsCounted, BudgetAssumption DEF WriteBudgetSpent
    <3> QED
      BY <1>2, <2>2, <3>6, EffectRecorded, EffectsCounted, BudgetAssumption
  <2>3. CASE ~Writing
    BY <1>2, <2>1, <2>3, EffectRecorded, EffectsCounted
  <2> QED BY <2>2, <2>3
<1> QED BY <1>1, <1>2

\* Under a rule that enforces check_write_budget at a blocking level for all
\* write tools, no run enters more than Budget write tool bodies, however
\* many steps it may take and whichever of the calls fail.
THEOREM BudgetHolds == Spec => []WriteBudgetHolds
<1>1. Init => TypeOK /\ MediatedCall
  BY InitTyped, MediatedCallInit
<1> QED
  BY <1>1, BudgetInit, NextTyped, MediatedCallNext, BudgetNext, PTL DEF Spec

-----------------------------------------------------------------------------
(* The refinement of RunContract.                                          *)

\* The loop variable counts the calls recorded, and stays under the limit
\* while a turn or a call is in progress.
StepsCounted ==
  /\ step = Len(steps)
  /\ phase \in {"remind", "execute"} => step < conf.maxSteps

LEMMA StepsCountedNext ==
  TypeOK /\ StepsCounted /\ [Next]_vars => StepsCounted'
<1> SUFFICES ASSUME TypeOK, StepsCounted, [Next]_vars PROVE StepsCounted'
  OBVIOUS
<1>0. steps \in Seq(Entry)
  BY DEF TypeOK, ExecTypeOK
<1>1. CASE RecordStep
  <2>1. Len(steps') = Len(steps) + 1
    BY <1>0, <1>1 DEF RecordStep
  <2> QED BY <1>1, <2>1 DEF RecordStep, StepsCounted
<1>2. CASE ~RecordStep
  <2>1. UNCHANGED <<steps, conf>>
    BY <1>2, HistoryKept
  <2>2. CASE Execute
    BY <2>1, <2>2 DEF Execute, StepsCounted
  <2>3. CASE Gate
    BY <2>1, <2>3 DEF Gate, DirectiveLoadFailed, PoliciesDirMissing,
       PoliciesUnreadable, PolicyValidationFailed, NoEnforceablePolicies,
       IncompletePolicyProfile, EnterLoop, GateFail, Fail, Finish, StepsCounted
  <2>4. CASE ModelTurn
    BY <2>1, <2>4 DEF ModelTurn, ModelBackendError, RemindFormat,
       ParseJsonFailed, ModelRefused, ModelDone, InvalidToolCallShape,
       CallTool, Finish, Turn, StepsCounted
  <2>5. CASE MaxStepsReached
    BY <2>1, <2>5 DEF MaxStepsReached, Finish, StepsCounted
  <2>6. CASE UNCHANGED vars
    BY <2>1, <2>6 DEF vars, StepsCounted
  <2> QED
    BY <1>2, <2>2, <2>3, <2>4, <2>5, <2>6 DEF Next, Over
<1> QED BY <1>1, <1>2

LEMMA ContractInit == Init => Contract!Init
<1> SUFFICES ASSUME Init PROVE Contract!Init
  OBVIOUS
<1>1. conf.maxSteps \in Int
  BY ConfigsAssumption DEF Init, Config
<1>2. NatOf(conf.maxSteps) \in Nat
  BY <1>1 DEF NatOf
<1>3. EffectSteps = {}
  BY DEF Init, EffectSteps, WriteSteps
<1>4. Cardinality(EffectSteps) = 0
  BY <1>3, FS_EmptySet
<1> QED
  BY <1>2, <1>4, BudgetAssumption DEF Init, Contract!Init

\* Recording a step is the contract's Attempt.
LEMMA RecordIsAttempt ==
  ASSUME TypeOK, MediatedCall, WriteBudgetHolds, StepsCounted, RecordStep
  PROVE  Contract!Attempt
<1>0. steps \in Seq(Entry) /\ Len(steps) \in Nat /\ conf.maxSteps \in Int
  BY DEF TypeOK, ExecTypeOK, Config
<1>1. /\ phase = "execute" /\ phase' = "model"
      /\ conf' = conf /\ Len(steps') = Len(steps) + 1
  BY <1>0 DEF RecordStep
<1>2. Len(steps) < conf.maxSteps /\ NatOf(conf.maxSteps) = conf.maxSteps
  BY <1>0, <1>1 DEF StepsCounted, NatOf
<1>3. BudgetEnforced' = BudgetEnforced
  BY <1>1 DEF BudgetEnforced, EnforcesBudget
<1>4. WriteBudgetHolds'
  BY BudgetNext DEF Next
<1>5. CASE Writing
  <2>1. Cardinality(EffectSteps') = Cardinality(EffectSteps) + 1
    BY <1>5, EffectRecorded
  <2>2. Cardinality(EffectSteps) + 1
          <= (IF BudgetEnforced THEN Budget ELSE NatOf(conf.maxSteps))
    <3>1. CASE BudgetEnforced
      BY <1>3, <1>4, <2>1, <3>1 DEF WriteBudgetHolds
    <3>2. CASE ~BudgetEnforced
      BY <1>0, <1>2, <3>2, EffectsCounted
    <3> QED BY <3>1, <3>2
  <2> QED
    BY <1>1, <1>2, <1>3, <2>1, <2>2 DEF Contract!Attempt
<1>6. CASE ~Writing
  <2>1. Cardinality(EffectSteps') = Cardinality(EffectSteps)
    BY <1>6, EffectRecorded, EffectsCounted
  <2> QED
    BY <1>1, <1>2, <1>3, <2>1 DEF Contract!Attempt
<1> QED BY <1>5, <1>6

LEMMA ContractNext ==
  /\ TypeOK /\ MediatedCall /\ WriteBudgetHolds /\ StepsCounted
  /\ [Next]_vars
  => [Contract!Next]_(Contract!vars)
<1> SUFFICES ASSUME TypeOK, MediatedCall, WriteBudgetHolds, StepsCounted,
                    [Next]_vars
             PROVE  [Contract!Next]_(Contract!vars)
  OBVIOUS
<1>1. CASE RecordStep
  BY <1>1, RecordIsAttempt DEF Contract!Next
<1>2. CASE ~RecordStep
  <2>1. UNCHANGED <<steps, conf>>
    BY <1>2, HistoryKept
  <2>2. /\ UNCHANGED Len(steps)
        /\ EffectSteps' = EffectSteps
        /\ BudgetEnforced' = BudgetEnforced
    BY <2>1 DEF EffectSteps, WriteSteps, BudgetEnforced, EnforcesBudget
  <2>3. CASE phase' \in {"ended", "raised"} /\ phase \notin {"ended", "raised"}
    BY <2>1, <2>2, <2>3 DEF Contract!Next, Contract!Close
  <2>4. CASE EnterLoop
    BY <2>1, <2>2, <2>4 DEF EnterLoop, AtGates, Contract!Next, Contract!Open
  <2>5. CASE UNCHANGED phase
    BY <2>1, <2>2, <2>5 DEF Contract!vars
  <2>6. CASE /\ phase \in {"model", "remind", "execute"}
             /\ phase' \in {"model", "remind", "execute"}
    BY <2>1, <2>2, <2>6 DEF Contract!vars
  <2>7. CASE Gate /\ ~EnterLoop
    BY <2>3, <2>7 DEF Gate, DirectiveLoadFailed, PoliciesDirMissing,
       PoliciesUnreadable, PolicyValidationFailed, NoEnforceablePolicies,
       IncompletePolicyProfile, GateFail, AtGates, Fail, Finish
  <2>8. CASE ModelTurn
    BY <2>3, <2>6, <2>8 DEF ModelTurn, ModelBackendError, RemindFormat,
       ParseJsonFailed, ModelRefused, ModelDone, InvalidToolCallShape,
       CallTool, Finish, Turn
  <2>9. CASE MaxStepsReached
    BY <2>3, <2>9 DEF MaxStepsReached, Finish
  <2>10. CASE Execute \/ UNCHANGED vars
    BY <2>5, <2>10 DEF Execute, vars
  <2> QED
    BY <1>2, <2>4, <2>7, <2>8, <2>9, <2>10 DEF Next, Over
<1> QED BY <1>1, <1>2

\* Every step of a run is a step of the contract or leaves it unchanged: the
\* calls stay under the step limit and the writing ones under the cap.
THEOREM ContractSafety ==
  Spec => Contract!Init /\ [][Contract!Next]_(Contract!vars)
<1>1. Init => TypeOK /\ MediatedCall /\ WriteBudgetHolds /\ StepsCounted
  <2>1. Init => StepsCounted
    BY DEF Init, StepsCounted
  <2> QED BY <2>1, BudgetInit, InitTyped, MediatedCallInit
<1> QED
  BY <1>1, ContractInit, ContractNext, NextTyped, MediatedCallNext,
     BudgetNext, StepsCountedNext, PTL DEF Spec
=============================================================================
