------------------------- MODULE RuntimeTrailProofs -------------------------
(***************************************************************************)
(* Theorems about the audit trail of a run, for every deployment, every    *)
(* policy and every model: events are attributed in step order, the trail  *)
(* and the transcript agree, a bulk write and an unguarded run leave their *)
(* event, the ending is recorded once and last, and model calls are        *)
(* bounded.                                                                *)
(***************************************************************************)
EXTENDS RuntimeProofs

-----------------------------------------------------------------------------
(* How a step extends the trail.                                           *)

\* The positions a step adds, and that it keeps the others.
Added == Len(log) + 1 .. Len(log')

Extends ==
  /\ Len(log) <= Len(log')
  /\ \A j \in DOMAIN log : j \in DOMAIN log' /\ log'[j] = log[j]
  /\ DOMAIN log' = DOMAIN log \cup Added

AddedAt(n) == Extends /\ \A j \in Added : log'[j].step = n

LEMMA LogTyped ==
  ASSUME TypeOK
  PROVE  /\ log \in Seq(Event) /\ Len(log) \in Nat
         /\ DOMAIN log = 1 .. Len(log)
         /\ \A j \in DOMAIN log : /\ log[j].step \in Int
                                 /\ log[j].event \in EventNames
<1>1. log \in Seq(Event) /\ Len(log) \in Nat /\ DOMAIN log = 1 .. Len(log)
  BY DEF TypeOK, ExecTypeOK
<1>2. \A j \in DOMAIN log : log[j] \in Event
  BY <1>1, ElementOfSeq
<1> QED BY <1>1, <1>2 DEF Event

LEMMA NoneAdded ==
  ASSUME TypeOK, UNCHANGED log
  PROVE  Extends /\ Added = {}
<1>1. log \in Seq(Event) /\ Len(log) \in Nat /\ DOMAIN log = 1 .. Len(log)
  BY LogTyped
<1> QED BY <1>1 DEF Extends, Added

LEMMA OneAdded ==
  ASSUME TypeOK, NEW e \in Event, log' = Append(log, e)
  PROVE  /\ Extends
         /\ Added = {Len(log')} /\ log'[Len(log')] = e
         /\ Len(log') = Len(log) + 1
<1>1. log \in Seq(Event) /\ Len(log) \in Nat /\ DOMAIN log = 1 .. Len(log)
  BY LogTyped
<1>2. /\ Len(log') = Len(log) + 1 /\ DOMAIN log' = 1 .. Len(log) + 1
      /\ log'[Len(log) + 1] = e
      /\ \A j \in 1 .. Len(log) : log'[j] = log[j]
  BY <1>1, AppendProperties
<1>3. Added = {Len(log) + 1}
  BY <1>1, <1>2 DEF Added
<1> QED BY <1>1, <1>2, <1>3 DEF Extends

\* The events of a turn, all at its step.
LEMMA TurnAdded ==
  ASSUME TypeOK, NEW events \in Seq(EventNames), TurnEvents(events)
  PROVE  /\ AddedAt(step)
         /\ Len(log') = Len(log) + Len(events)
         /\ \A j \in Added :
              /\ j - Len(log) \in 1 .. Len(events)
              /\ log'[j].event = events[j - Len(log)]
              /\ log'[j].rule = 0
<1> DEFINE new == [i \in DOMAIN events |->
                     [event |-> events[i], step |-> step, rule |-> 0,
                      denied |-> FALSE]]
<1>1. log \in Seq(Event) /\ Len(log) \in Nat /\ DOMAIN log = 1 .. Len(log)
  BY LogTyped
<1>2. Len(events) \in Nat /\ DOMAIN events = 1 .. Len(events)
  BY LenProperties
<1>3. new \in Seq(Event)
  <2>1. step \in Int
    BY DEF TypeOK
  <2>2. \A i \in 1 .. Len(events) : events[i] \in EventNames
    BY <1>2, ElementOfSeq
  <2>3. new \in [1 .. Len(events) -> Event]
    BY <1>2, <2>1, <2>2 DEF Event
  <2>4. new \in UNION {[1 .. m -> Event] : m \in Nat}
    BY <1>2, <2>3
  <2> QED BY <2>4, SeqDef
<1>4. Len(new) = Len(events)
  BY <1>2, <1>3, LenProperties
<1>5. \A i \in 1 .. Len(events) :
        new[i].event = events[i] /\ new[i].step = step /\ new[i].rule = 0
  BY <1>2
<1>6. log' = log \o new
  BY DEF TurnEvents
<1> HIDE DEF new
<1>7. /\ Len(log') = Len(log) + Len(events)
      /\ DOMAIN log' = 1 .. Len(log) + Len(events)
      /\ \A j \in 1 .. Len(log) + Len(events) :
           log'[j] = IF j <= Len(log) THEN log[j] ELSE new[j - Len(log)]
  <2>1. /\ log' \in Seq(Event)
        /\ Len(log') = Len(log) + Len(events)
        /\ \A j \in 1 .. Len(log) + Len(events) :
             log'[j] = IF j <= Len(log) THEN log[j] ELSE new[j - Len(log)]
    <3>1. /\ log \o new \in Seq(Event)
          /\ Len(log \o new) = Len(log) + Len(new)
          /\ \A j \in 1 .. Len(log) + Len(new) :
               (log \o new)[j] = IF j <= Len(log) THEN log[j]
                                 ELSE new[j - Len(log)]
      BY <1>1, <1>3, ConcatProperties
    <3> QED BY <1>4, <1>6, <3>1, Zenon
  <2>2. DOMAIN log' = 1 .. Len(log')
    BY <2>1, LenProperties
  <2> QED BY <2>1, <2>2
<1>8. \A j \in Added : j - Len(log) \in 1 .. Len(events)
                       /\ log'[j] = new[j - Len(log)]
  BY <1>1, <1>2, <1>7 DEF Added
<1>9. Extends
  BY <1>1, <1>2, <1>7 DEF Extends, Added
<1> QED BY <1>5, <1>7, <1>8, <1>9 DEF AddedAt

\* What a step of execute() writes: at most one event, of the executor.
LEMMA ExecuteLogs ==
  ASSUME ExecTypeOK, ExecuteStep
  PROVE  \/ UNCHANGED log
         \/ \E e \in ExecutorEvents, k \in Nat, d \in BOOLEAN :
              log' = Append(log, EventAt(e, k, d))
<1>a. ASSUME NEW e \in ExecutorEvents, Audit(e)
      PROVE  \E n \in ExecutorEvents, k \in Nat, d \in BOOLEAN :
               log' = Append(log, EventAt(n, k, d))
  BY <1>a DEF Audit, Audited
<1>b. ASSUME NEW answer \in Answer, AuditAnswer(answer)
      PROVE  \/ UNCHANGED log
             \/ \E e \in ExecutorEvents, k \in Nat, d \in BOOLEAN :
                  log' = Append(log, EventAt(e, k, d))
  <2>1. CASE answer = "none"
    BY <1>b, <2>1 DEF AuditAnswer
  <2>2. CASE answer # "none"
    <3>1. EventOf[answer] \in ExecutorEvents /\ (answer = "deny") \in BOOLEAN
          /\ gi \in Nat
      BY <2>2 DEF EventOf, Answer, ExecutorEvents, ExecTypeOK
    <3> QED BY <1>b, <2>2, <3>1 DEF AuditAnswer
  <2> QED BY <2>1, <2>2
<1>1. CASE RefuseIncompleteContext
  BY <1>1, <1>a DEF RefuseIncompleteContext, ExecutorEvents
<1>2. CASE RefuseUnknownTool
  BY <1>2, <1>a DEF RefuseUnknownTool, ExecutorEvents
<1>3. CASE RefuseToolNotAllowed
  BY <1>3, <1>a DEF RefuseToolNotAllowed, ExecutorEvents
<1>4. CASE RefuseArguments
  BY <1>4, <1>a DEF RefuseArguments, ExecutorEvents
<1>5. CASE EnterGuards \/ SkipRule \/ GuardsPassed \/ ToolReturns
  BY <1>5 DEF EnterGuards, SkipRule, GuardsPassed, ToolReturns, Proceed
<1>6. CASE PassRule \/ RefuseByRule
  BY <1>6, <1>b DEF PassRule, RefuseByRule
<1>7. CASE ToolRefuses \/ ToolRaises
  BY <1>7, <1>a DEF ToolRefuses, ToolRaises, ExecutorEvents
<1> QED
  BY <1>1, <1>2, <1>3, <1>4, <1>5, <1>6, <1>7 DEF ExecuteStep

-----------------------------------------------------------------------------
(* Attribution.                                                            *)

Underway == phase \in {"model", "remind", "execute"}

\* Where the events so far are: before the loop there is none; in it each is
\* of no step or of one the run has reached, and a step about to be asked for
\* has none yet.
Attribution ==
  /\ phase = "gates" => log = <<>> /\ steps = <<>> /\ auditStep = NoStep
  /\ phase \in {"remind", "execute"} => auditStep = step
  /\ Underway => \A j \in DOMAIN log :
       \/ log[j].step = NoStep
       \/ /\ 0 <= log[j].step /\ log[j].step <= step
          /\ phase = "model" => log[j].step < step
  /\ step = 0 \/ step <= conf.maxSteps

LEMMA GateAdds ==
  ASSUME TypeOK, Attribution, Gate
  PROVE  AddedAt(NoStep) /\ UNCHANGED <<steps, conf, step, auditStep>>
<1>1. UNCHANGED <<steps, conf, step, auditStep>> /\ auditStep = NoStep
  BY DEF Gate, DirectiveLoadFailed, PoliciesDirMissing, PoliciesUnreadable,
     PolicyValidationFailed, NoEnforceablePolicies, IncompletePolicyProfile,
     EnterLoop, GateFail, AtGates, Fail, Finish, execVars, Attribution
<1>2. ASSUME NEW e \in EventNames, Audit(e)
      PROVE  AddedAt(NoStep)
  <2>1. Audited(e) \in Event /\ Audited(e).step = NoStep
    BY <1>1, NoStepAssumption DEF Audited, EventAt, Event
  <2>2. log' = Append(log, Audited(e))
    BY <1>2 DEF Audit
  <2> QED BY <2>1, <2>2, OneAdded DEF AddedAt
<1>3. ASSUME UNCHANGED log
      PROVE  AddedAt(NoStep)
  BY <1>3, NoneAdded DEF AddedAt
<1>4. \/ UNCHANGED log
      \/ \E e \in EventNames : Audit(e)
  BY DEF Gate, DirectiveLoadFailed, PoliciesDirMissing, PoliciesUnreadable,
     PolicyValidationFailed, NoEnforceablePolicies, IncompletePolicyProfile,
     EnterLoop, GateFail, Fail, execVars, EventNames, TerminalEvents,
     NoticeEvents
<1> QED BY <1>1, <1>2, <1>3, <1>4

LEMMA ExecuteAdds ==
  ASSUME TypeOK, Attribution, Execute
  PROVE  /\ AddedAt(step)
         /\ \A j \in Added : log'[j].event \in ExecutorEvents
         /\ UNCHANGED <<steps, conf, step, auditStep, phase, turns, result>>
<1>1. auditStep = step /\ ExecuteStep
      /\ UNCHANGED <<steps, conf, step, phase, turns, result>>
  BY ExecuteKeepsInputs DEF Execute, Attribution
<1>2. UNCHANGED auditStep
  BY <1>1 DEF ExecuteStep, RefuseIncompleteContext, RefuseUnknownTool,
     RefuseToolNotAllowed, RefuseArguments, EnterGuards, SkipRule, PassRule,
     RefuseByRule, GuardsPassed, ToolReturns, ToolRefuses, ToolRaises, Return,
     Proceed
<1>3. ASSUME NEW e \in ExecutorEvents, NEW k \in Nat, NEW d \in BOOLEAN,
             log' = Append(log, EventAt(e, k, d))
      PROVE  AddedAt(step) /\ \A j \in Added : log'[j].event \in ExecutorEvents
  <2>1. /\ EventAt(e, k, d) \in Event
        /\ EventAt(e, k, d).step = step /\ EventAt(e, k, d).event = e
    BY <1>1 DEF EventAt, Event, EventNames, TypeOK
  <2> QED BY <1>3, <2>1, OneAdded DEF AddedAt
<1>4. ASSUME UNCHANGED log
      PROVE  AddedAt(step) /\ \A j \in Added : log'[j].event \in ExecutorEvents
  BY <1>4, NoneAdded DEF AddedAt
<1> QED BY <1>1, <1>2, <1>3, <1>4, ExecuteLogs DEF TypeOK

\* The events of a turn are those of its ending or notices about the reply.
LEMMA ModelTurnAdds ==
  ASSUME TypeOK, ModelTurn
  PROVE  /\ AddedAt(step)
         /\ \A j \in Added : /\ log'[j].event \in TerminalEvents \cup NoticeEvents
                             /\ log'[j].rule = 0
         /\ UNCHANGED <<steps, conf, step>> /\ auditStep' = step
         /\ phase \in {"model", "remind"} /\ step < conf.maxSteps
<1> DEFINE Said == TerminalEvents \cup NoticeEvents
<1>1. UNCHANGED <<steps, conf, step>> /\ Turn
  BY DEF ModelTurn, ModelBackendError, RemindFormat, ParseJsonFailed,
     ModelRefused, ModelDone, InvalidToolCallShape, CallTool, Finish
<1>2. ASSUME NEW events \in Seq(Said), TurnEvents(events)
      PROVE  /\ AddedAt(step)
             /\ \A j \in Added : log'[j].event \in Said /\ log'[j].rule = 0
  <2>1. \A i \in 1 .. Len(events) : events[i] \in Said
    BY ElementOfSeq
  <2>2. events \in Seq(EventNames)
    BY DEF EventNames
  <2> HIDE DEF Said
  <2> QED BY <1>2, <2>1, <2>2, TurnAdded
<1>3. \A r : /\ RefusalRejected(r) \in Seq(Said)
             /\ RefusalRejected(r) \o CompletionRejected(r) \in Seq(Said)
             /\ RefusalRejected(r) \o CompletionRejected(r)
                  \o <<"invalid_tool_call_shape">> \in Seq(Said)
  <2>0. /\ "refusal_shape_rejected" \in Said
        /\ "completion_shape_rejected" \in Said
        /\ "invalid_tool_call_shape" \in Said
    BY DEF TerminalEvents, NoticeEvents
  <2> HIDE DEF Said
  <2>1. \A r : /\ RefusalRejected(r) \in Seq(Said)
               /\ CompletionRejected(r) \in Seq(Said)
    BY <2>0 DEF RefusalRejected, CompletionRejected
  <2>2. <<"invalid_tool_call_shape">> \in Seq(Said)
    BY <2>0
  <2> QED BY <2>1, <2>2, ConcatProperties
<1>4. /\ \A e \in Said : <<e>> \in Seq(Said)
      /\ "model_backend_error" \in Said /\ "response_format_reminded" \in Said
      /\ "parse_json_failed" \in Said /\ "model_refused" \in Said
  BY DEF TerminalEvents, NoticeEvents
<1>5. \E events \in Seq(Said) : TurnEvents(events)
  <2> HIDE DEF Said
  <2> QED BY <1>3, <1>4 DEF ModelTurn, ModelBackendError, RemindFormat,
      ParseJsonFailed, ModelRefused, ModelDone, InvalidToolCallShape, CallTool
<1> QED BY <1>1, <1>2, <1>5 DEF Turn

LEMMA MaxStepsAdds ==
  ASSUME TypeOK, MaxStepsReached
  PROVE  /\ AddedAt(conf.maxSteps)
         /\ \A j \in Added : /\ log'[j].event = "max_steps_reached"
                             /\ log'[j].rule = 0
         /\ Len(log') \in Added
         /\ UNCHANGED <<steps, conf, step, turns>>
<1> DEFINE e == [event |-> "max_steps_reached", step |-> conf.maxSteps,
                 rule |-> 0, denied |-> FALSE]
<1>1. log' = Append(log, e) /\ UNCHANGED <<steps, conf, step, turns>>
  BY DEF MaxStepsReached, Finish
<1>2. e \in Event
  BY DEF Event, EventNames, TerminalEvents, TypeOK, Config
<1> QED BY <1>1, <1>2, OneAdded DEF AddedAt

LEMMA RecordAdds ==
  ASSUME TypeOK, RecordStep
  PROVE  /\ Extends /\ Added = {}
         /\ UNCHANGED <<conf, turns, auditStep, result>>
         /\ step' = step + 1 /\ phase = "execute" /\ phase' = "model"
BY NoneAdded DEF RecordStep

LEMMA AttributionInit == Init => Attribution /\ AuditInStepOrder
BY DEF Init, Attribution, Underway, AuditInStepOrder

LEMMA AttributionNext ==
  TypeOK /\ StepsCounted /\ Attribution /\ [Next]_vars => Attribution'
<1> SUFFICES ASSUME TypeOK, StepsCounted, Attribution, [Next]_vars
             PROVE  Attribution'
  OBVIOUS
<1>0. /\ DOMAIN log = 1 .. Len(log) /\ step \in Nat /\ conf.maxSteps \in Int
      /\ NoStep \in Int /\ NoStep < 0
  BY LogTyped, NoStepAssumption DEF TypeOK, Config
<1>1. CASE Gate
  <2>1. log = <<>> /\ phase' # "gates" /\ phase' \notin {"remind", "execute"}
    BY <1>1 DEF Gate, DirectiveLoadFailed, PoliciesDirMissing,
       PoliciesUnreadable, PolicyValidationFailed, NoEnforceablePolicies,
       IncompletePolicyProfile, EnterLoop, GateFail, AtGates, Fail, Finish,
       Attribution
  <2>2. \A j \in DOMAIN log' : log'[j].step = NoStep
    BY <1>1, <2>1, GateAdds DEF AddedAt, Extends
  <2> QED BY <1>1, <2>1, <2>2, GateAdds DEF Attribution
<1>2. CASE ModelTurn
  <2>1. phase' \in {"ended", "remind", "execute"}
    BY <1>2 DEF ModelTurn, ModelBackendError, RemindFormat, ParseJsonFailed,
       ModelRefused, ModelDone, InvalidToolCallShape, CallTool, Finish
  <2>2. /\ AddedAt(step) /\ UNCHANGED <<conf, step>> /\ auditStep' = step
        /\ phase \in {"model", "remind"}
    BY <1>2, ModelTurnAdds
  <2>3. \A j \in DOMAIN log : log[j].step = NoStep
                              \/ (0 <= log[j].step /\ log[j].step <= step)
    BY <2>2 DEF Attribution, Underway
  <2>4. \A j \in DOMAIN log' : log'[j].step = NoStep
                               \/ (0 <= log'[j].step /\ log'[j].step <= step)
    BY <1>0, <2>2, <2>3 DEF AddedAt, Extends
  <2> QED BY <2>1, <2>2, <2>4 DEF Attribution
<1>3. CASE Execute
  <2>1. /\ AddedAt(step) /\ phase = "execute"
        /\ UNCHANGED <<conf, step, auditStep, phase>>
    BY <1>3, ExecuteAdds DEF Execute
  <2>2. \A j \in DOMAIN log : log[j].step = NoStep
                              \/ (0 <= log[j].step /\ log[j].step <= step)
    BY <2>1 DEF Attribution, Underway
  <2>3. \A j \in DOMAIN log' : log'[j].step = NoStep
                               \/ (0 <= log'[j].step /\ log'[j].step <= step)
    BY <1>0, <2>1, <2>2 DEF AddedAt, Extends
  <2> QED BY <2>1, <2>3 DEF Attribution
<1>4. CASE RecordStep
  <2>1. /\ UNCHANGED <<log, conf>> /\ step' = step + 1
        /\ phase = "execute" /\ phase' = "model"
    BY <1>4 DEF RecordStep
  <2>2. step + 1 <= conf.maxSteps
    BY <1>0, <2>1 DEF StepsCounted
  <2>3. \A j \in DOMAIN log : log[j].step = NoStep
                              \/ (0 <= log[j].step /\ log[j].step <= step)
    BY <2>1 DEF Attribution, Underway
  <2>4. \A j \in DOMAIN log' :
          \/ log'[j].step = NoStep
          \/ /\ 0 <= log'[j].step /\ log'[j].step <= step'
             /\ log'[j].step < step'
    <3>1. SUFFICES ASSUME NEW j \in DOMAIN log, log[j].step # NoStep
                   PROVE  /\ 0 <= log[j].step /\ log[j].step <= step + 1
                          /\ log[j].step < step + 1
      BY <2>1
    <3>2. log[j].step \in Int
      BY LogTyped
    <3> QED BY <1>0, <2>3, <3>1, <3>2
  <2> QED BY <1>0, <2>1, <2>2, <2>4 DEF Attribution
<1>5. CASE MaxStepsReached
  BY <1>5 DEF MaxStepsReached, Finish, Attribution, Underway
<1>6. CASE UNCHANGED vars
  BY <1>6 DEF vars, execVars, callVars, Attribution, Underway
<1> QED BY <1>1, <1>2, <1>3, <1>4, <1>5, <1>6 DEF Next, Over

LEMMA OrderKept ==
  ASSUME TypeOK, AuditInStepOrder, NEW n \in Int, AddedAt(n),
         \A j \in DOMAIN log : log[j].step = NoStep \/ log[j].step <= n
  PROVE  AuditInStepOrder'
<1>1. DOMAIN log = 1 .. Len(log) /\ Len(log) \in Nat
  BY LogTyped
<1> SUFFICES ASSUME NEW i \in DOMAIN log', NEW j \in DOMAIN log', i < j,
                    log'[i].step # NoStep
             PROVE  log'[i].step <= log'[j].step
  BY DEF AuditInStepOrder
<1>2. CASE j \in DOMAIN log
  <2>1. i \in DOMAIN log
    BY <1>1, <1>2 DEF AddedAt, Extends, Added
  <2> QED BY <1>2, <2>1 DEF AuditInStepOrder, AddedAt, Extends
<1>3. CASE j \in Added
  BY <1>3 DEF AddedAt, Extends
<1> QED BY <1>2, <1>3 DEF AddedAt, Extends

LEMMA OrderNext ==
  TypeOK /\ StepsCounted /\ Attribution /\ AuditInStepOrder /\ [Next]_vars
    => AuditInStepOrder'
<1> SUFFICES ASSUME TypeOK, StepsCounted, Attribution, AuditInStepOrder,
                    [Next]_vars
             PROVE  AuditInStepOrder'
  OBVIOUS
<1>0. step \in Int /\ NoStep \in Int /\ conf.maxSteps \in Int
  BY NoStepAssumption DEF TypeOK, Config
<1>1. CASE Gate
  <2>1. log = <<>>
    BY <1>1 DEF Gate, DirectiveLoadFailed, PoliciesDirMissing,
       PoliciesUnreadable, PolicyValidationFailed, NoEnforceablePolicies,
       IncompletePolicyProfile, EnterLoop, GateFail, AtGates, Attribution
  <2> QED BY <1>0, <1>1, <2>1, GateAdds, OrderKept
<1>2. CASE ModelTurn \/ Execute
  <2>1. AddedAt(step) /\ Underway
    BY <1>2, ModelTurnAdds, ExecuteAdds DEF Execute, Underway
  <2> QED BY <1>0, <2>1, OrderKept DEF Attribution
<1>3. CASE MaxStepsReached
  <2>1. phase = "model" /\ AddedAt(conf.maxSteps)
    BY <1>3, MaxStepsAdds DEF MaxStepsReached
  <2>2. ASSUME NEW j \in DOMAIN log, log[j].step # NoStep
        PROVE  log[j].step <= conf.maxSteps
    <3>1. 0 <= log[j].step /\ log[j].step < step /\ log[j].step \in Int
      BY <2>1, <2>2, LogTyped DEF Attribution, Underway
    <3> QED BY <1>0, <3>1 DEF Attribution
  <2> QED BY <1>0, <2>1, <2>2, OrderKept
<1>4. CASE RecordStep \/ UNCHANGED vars
  BY <1>4 DEF RecordStep, vars, execVars, AuditInStepOrder
<1> QED BY <1>1, <1>2, <1>3, <1>4 DEF Next, Over

\* Whatever its deployment, its policies and its model, a run's trail never
\* goes back: an event is of no step and before all others, or of the step
\* the run is at, and the exhausted loop's of the limit.
THEOREM TrailInStepOrder == Spec => []AuditInStepOrder
<1>1. Init => TypeOK /\ StepsCounted /\ Attribution /\ AuditInStepOrder
  BY InitTyped, AttributionInit DEF Init, StepsCounted
<1> QED
  BY <1>1, NextTyped, StepsCountedNext, AttributionNext, OrderNext, PTL
  DEF Spec

-----------------------------------------------------------------------------
(* Model calls.                                                            *)

TurnsCounted ==
  /\ phase = "gates" => turns = 0
  /\ ModelCallBound

LEMMA TurnsCountedNext ==
  TypeOK /\ TurnsCounted /\ [Next]_vars => TurnsCounted'
<1> SUFFICES ASSUME TypeOK, TurnsCounted, [Next]_vars PROVE TurnsCounted'
  OBVIOUS
<1> USE DEF TurnsCounted, ModelCallBound
<1>0. step \in Nat /\ turns \in Nat
  BY DEF TypeOK
<1>1. CASE Gate
  <2>1. /\ turns = 0 /\ UNCHANGED <<turns, step>>
        /\ phase' \in {"ended", "raised", "model"}
    BY <1>1 DEF Gate, DirectiveLoadFailed, PoliciesDirMissing,
       PoliciesUnreadable, PolicyValidationFailed, NoEnforceablePolicies,
       IncompletePolicyProfile, EnterLoop, GateFail, AtGates, Fail, Finish
  <2> QED BY <1>0, <2>1
<1>2. CASE ModelTurn
  <2>1. /\ turns' = turns + 1 /\ UNCHANGED step
        /\ \/ phase = "model" /\ phase' = "remind"
           \/ phase \in {"model", "remind"} /\ phase' \in {"ended", "execute"}
    BY <1>2 DEF ModelTurn, ModelBackendError, RemindFormat, ParseJsonFailed,
       ModelRefused, ModelDone, InvalidToolCallShape, CallTool, Finish, Turn
  <2> QED BY <1>0, <2>1
<1>3. CASE Execute \/ UNCHANGED vars
  BY <1>3 DEF Execute, vars
<1>4. CASE RecordStep
  BY <1>0, <1>4 DEF RecordStep
<1>5. CASE MaxStepsReached
  BY <1>0, <1>5 DEF MaxStepsReached, Finish
<1> QED BY <1>1, <1>2, <1>3, <1>4, <1>5 DEF Next, Over

\* A run asks its model at most twice a step, once more only for a reminder
\* of the format, whatever the model replies.
THEOREM ModelCallsBounded == Spec => []ModelCallBound
<1>1. Init => TypeOK /\ TurnsCounted
  BY InitTyped DEF Init, TurnsCounted, ModelCallBound
<1>2. TurnsCounted => ModelCallBound
  BY DEF TurnsCounted
<1> QED
  BY <1>1, <1>2, NextTyped, TurnsCountedNext, PTL DEF Spec

-----------------------------------------------------------------------------
(* The announcement of an unguarded run.                                   *)

\* Past the gates with no rule: the deployment opted out, and said so first.
Announced ==
  Unguarded /\ (Underway \/ steps # <<>>) =>
    /\ conf.optOut
    /\ 1 \in DOMAIN log /\ log[1].event = "unguarded_mode_enabled"

LEMMA AnnouncedNext ==
  TypeOK /\ StepsCounted /\ Attribution /\ Announced /\ [Next]_vars
    => Announced'
<1> SUFFICES ASSUME TypeOK, StepsCounted, Attribution, Announced, [Next]_vars
             PROVE  Announced'
  OBVIOUS
<1>a. ASSUME Extends, UNCHANGED conf, Underway
      PROVE  Announced'
  BY <1>a DEF Announced, Unguarded, Extends
<1>1. CASE EnterLoop
  <2>1. /\ log = <<>> /\ UNCHANGED conf
        /\ Unguarded => conf.optOut /\ Audit("unguarded_mode_enabled")
    BY <1>1 DEF EnterLoop, AtGates, Attribution
  <2>2. CASE Unguarded
    BY <2>1, <2>2 DEF Audit, Audited, EventAt, Announced
  <2>3. CASE ~Unguarded
    BY <2>1, <2>3 DEF Announced, Unguarded
  <2> QED BY <2>2, <2>3
<1>2. CASE Gate /\ ~EnterLoop
  BY <1>2 DEF Gate, DirectiveLoadFailed, PoliciesDirMissing,
     PoliciesUnreadable, PolicyValidationFailed, NoEnforceablePolicies,
     IncompletePolicyProfile, GateFail, AtGates, Fail, Finish, execVars,
     Attribution, Announced, Underway
<1>3. CASE ModelTurn
  BY <1>3, <1>a, ModelTurnAdds DEF AddedAt, Underway
<1>4. CASE Execute
  BY <1>4, <1>a, ExecuteAdds DEF AddedAt, Underway, Execute
<1>5. CASE RecordStep
  BY <1>5, <1>a, RecordAdds DEF Underway
<1>6. CASE MaxStepsReached
  BY <1>6, <1>a, MaxStepsAdds DEF AddedAt, Underway, MaxStepsReached
<1>7. CASE UNCHANGED vars
  BY <1>7 DEF vars, execVars, Announced, Unguarded, Underway
<1> QED BY <1>1, <1>2, <1>3, <1>4, <1>5, <1>6, <1>7 DEF Next, Over

\* No tool runs with no rule at all unless the deployment opted out, and the
\* run's first event says it is unguarded.
THEOREM UnguardedAnnounced == Spec => []UnguardedIsAnnounced
<1>1. Init => TypeOK /\ StepsCounted /\ Attribution /\ Announced
  BY InitTyped, AttributionInit
  DEF Init, StepsCounted, Announced, Underway
<1>2. Announced => UnguardedIsAnnounced
  BY DEF Announced, UnguardedIsAnnounced
<1> QED
  BY <1>1, <1>2, NextTyped, StepsCountedNext, AttributionNext, AnnouncedNext,
     PTL DEF Spec

-----------------------------------------------------------------------------
(* The ending.                                                             *)

Terminal == {i \in DOMAIN log : log[i].event \in TerminalEvents}

EndsOn(event) == Terminal = {Len(log)} /\ log[Len(log)].event = event

LEMMA EndingOf ==
  EndingIsRecorded <=>
    IF phase = "ended" /\ result.event # "done"
    THEN EndsOn(result.event) ELSE Terminal = {}
BY DEF EndingIsRecorded, Terminal, EndsOn

LEMMA NamesApart ==
  /\ TerminalEvents \cap ExecutorEvents = {}
  /\ TerminalEvents \cap NoticeEvents = {}
BY DEF TerminalEvents, ExecutorEvents, NoticeEvents

LEMMA StillOpen ==
  ASSUME Terminal = {}, Extends,
         \A j \in Added : log'[j].event \notin TerminalEvents
  PROVE  Terminal' = {}
BY DEF Terminal, Extends

LEMMA Ending ==
  ASSUME Terminal = {}, Extends, Len(log') \in Added, NEW event \in TerminalEvents,
         log'[Len(log')].event = event,
         \A j \in Added : j # Len(log') => log'[j].event \notin TerminalEvents
  PROVE  EndsOn(event)'
BY DEF Terminal, EndsOn, Extends

LEMMA AuditEnds ==
  ASSUME TypeOK, Terminal = {}, NEW event \in TerminalEvents, Audit(event)
  PROVE  EndsOn(event)'
<1>1. Audited(event) \in Event /\ Audited(event).event = event
  BY DEF Audited, EventAt, Event, EventNames, TypeOK, ExecTypeOK
<1>2. log' = Append(log, Audited(event))
  BY DEF Audit
<1> QED BY <1>1, <1>2, OneAdded, Ending

\* A turn that ends the run says why last, after what it said of the reply.
LEMMA TurnEnds ==
  ASSUME TypeOK, Terminal = {}, NEW said \in Seq(NoticeEvents),
         NEW event \in TerminalEvents, TurnEvents(said \o <<event>>)
  PROVE  EndsOn(event)'
<1> DEFINE events == said \o <<event>>
<1>1. said \in Seq(EventNames) /\ <<event>> \in Seq(EventNames)
      /\ Len(said) \in Nat
  BY DEF EventNames
<1>2. /\ events \in Seq(EventNames) /\ Len(events) = Len(said) + 1
      /\ \A i \in 1 .. Len(said) + 1 :
           events[i] = IF i <= Len(said) THEN said[i] ELSE <<event>>[i - Len(said)]
  BY <1>1, ConcatProperties
<1>3. /\ events[Len(events)] = event
      /\ \A i \in 1 .. Len(events) :
           i # Len(events) => events[i] \in NoticeEvents
  <2>1. \A i \in 1 .. Len(said) : said[i] \in NoticeEvents
    BY ElementOfSeq
  <2> QED BY <1>1, <1>2, <2>1
<1> HIDE DEF events
<1>4. TurnEvents(events)
  BY DEF events
<1>5. /\ Extends /\ Len(log') = Len(log) + Len(events)
      /\ \A j \in Added : /\ j - Len(log) \in 1 .. Len(events)
                          /\ log'[j].event = events[j - Len(log)]
  BY <1>2, <1>4, TurnAdded DEF AddedAt
<1>6. Len(log) \in Nat /\ Len(log') \in Added
      /\ Len(log') - Len(log) = Len(events)
  BY <1>1, <1>2, <1>5, LogTyped DEF Added
<1>7. \A j \in Added : j # Len(log') => j - Len(log) # Len(events)
  BY <1>1, <1>2, <1>5, <1>6 DEF Added
<1>8. \A j \in Added : j # Len(log') => log'[j].event \notin TerminalEvents
  BY <1>3, <1>5, <1>7, NamesApart
<1> QED BY <1>3, <1>5, <1>6, <1>8, Ending

LEMMA TurnGoesOn ==
  ASSUME TypeOK, Terminal = {}, NEW said \in Seq(NoticeEvents),
         TurnEvents(said)
  PROVE  Terminal' = {}
<1>1. said \in Seq(EventNames) /\ \A i \in 1 .. Len(said) : said[i] \in NoticeEvents
  BY ElementOfSeq DEF EventNames
<1>2. Extends /\ \A j \in Added : log'[j].event \in NoticeEvents
  BY <1>1, TurnAdded DEF AddedAt
<1> QED BY <1>2, StillOpen, NamesApart

LEMMA NoticesSaid ==
  ASSUME NEW r
  PROVE  /\ RefusalRejected(r) \in Seq(NoticeEvents)
         /\ RefusalRejected(r) \o CompletionRejected(r) \in Seq(NoticeEvents)
         /\ <<"response_format_reminded">> \in Seq(NoticeEvents)
<1>1. /\ "refusal_shape_rejected" \in NoticeEvents
      /\ "completion_shape_rejected" \in NoticeEvents
      /\ "response_format_reminded" \in NoticeEvents
  BY DEF NoticeEvents
<1>2. /\ RefusalRejected(r) \in Seq(NoticeEvents)
      /\ CompletionRejected(r) \in Seq(NoticeEvents)
  BY <1>1 DEF RefusalRejected, CompletionRejected
<1> QED BY <1>1, <1>2, ConcatProperties

LEMMA EndingNext ==
  TypeOK /\ Attribution /\ EndingIsRecorded /\ [Next]_vars
    => EndingIsRecorded'
<1> SUFFICES ASSUME TypeOK, Attribution, EndingIsRecorded, [Next]_vars
             PROVE  EndingIsRecorded'
  OBVIOUS
<1>1. CASE UNCHANGED vars
  BY <1>1 DEF vars, execVars, EndingIsRecorded
<1> SUFFICES ASSUME Next, phase \notin {"ended", "raised"}
             PROVE  EndingIsRecorded'
  BY <1>1 DEF Next, Over, Gate, ModelTurn, DirectiveLoadFailed,
     PoliciesDirMissing, PoliciesUnreadable, PolicyValidationFailed,
     NoEnforceablePolicies, IncompletePolicyProfile, EnterLoop, GateFail,
     AtGates, ModelBackendError, RemindFormat, ParseJsonFailed, ModelRefused,
     ModelDone, InvalidToolCallShape, CallTool, Turn, Execute, RecordStep,
     MaxStepsReached
<1>0. Terminal = {}
  BY EndingOf
<1>2. EndingIsRecorded' <=>
        IF phase' = "ended" /\ result'.event # "done"
        THEN /\ Terminal' = {Len(log')}
             /\ log'[Len(log')].event = result'.event
        ELSE Terminal' = {}
  BY DEF EndingIsRecorded, Terminal
<1>a. ASSUME NEW event \in TerminalEvents, NEW success, NEW error,
             Finish(event, success, error), EndsOn(event)'
      PROVE  EndingIsRecorded'
  <2>1. event # "done" /\ phase' = "ended" /\ result'.event = event
    BY <1>a DEF Finish, TerminalEvents
  <2> QED BY <1>2, <1>a, <2>1 DEF EndsOn
<1>b. ASSUME Terminal' = {}, phase' # "ended" \/ result'.event = "done"
      PROVE  EndingIsRecorded'
  BY <1>2, <1>b
<1>c. ASSUME NEW event \in TerminalEvents, NEW success, NEW error,
             Finish(event, success, error), TurnEvents(<<event>>)
      PROVE  EndingIsRecorded'
  <2>1. <<>> \o <<event>> = <<event>> /\ <<>> \in Seq(NoticeEvents)
    BY ConcatEmptySeq
  <2>2. EndsOn(event)'
    BY <1>0, <1>c, <2>1, TurnEnds
  <2> QED BY <1>a, <1>c, <2>2
<1>3. ASSUME NEW event \in TerminalEvents, GateFail(event)
      PROVE  EndingIsRecorded'
  BY <1>0, <1>3, <1>a, AuditEnds DEF GateFail, Fail
<1>4. CASE Gate
  <2>1. CASE EnterLoop
    <3>1. Extends /\ \A j \in Added : log'[j].event \notin TerminalEvents
      <4>1. CASE UNCHANGED log
        BY <4>1, NoneAdded
      <4>2. CASE Audit("unguarded_mode_enabled")
        <5>1. /\ Audited("unguarded_mode_enabled") \in Event
              /\ Audited("unguarded_mode_enabled").event \notin TerminalEvents
          BY DEF Audited, EventAt, Event, EventNames, NoticeEvents,
             TerminalEvents, TypeOK, ExecTypeOK
        <5> QED BY <4>2, <5>1, OneAdded DEF Audit
      <4> QED BY <2>1, <4>1, <4>2 DEF EnterLoop
    <3> QED BY <1>0, <1>b, <2>1, <3>1, StillOpen DEF EnterLoop
  <2>2. CASE PoliciesUnreadable
    BY <1>0, <1>b, <2>2 DEF PoliciesUnreadable, execVars, Terminal
  <2>3. CASE ~EnterLoop /\ ~PoliciesUnreadable
    BY <1>3, <1>4, <2>3 DEF Gate, DirectiveLoadFailed, PoliciesDirMissing,
       PolicyValidationFailed, NoEnforceablePolicies,
       IncompletePolicyProfile, TerminalEvents
  <2> QED BY <2>1, <2>2, <2>3
<1>5. CASE ModelTurn
  <2>1. CASE ModelBackendError \/ ParseJsonFailed
    BY <1>c, <2>1 DEF ModelBackendError, ParseJsonFailed, TerminalEvents
  <2>2. CASE RemindFormat
    <3>1. Terminal' = {}
      BY <1>0, <2>2, NoticesSaid, TurnGoesOn DEF RemindFormat
    <3> QED BY <1>b, <2>2, <3>1 DEF RemindFormat
  <2>3. ASSUME NEW r \in Responses, ModelRefused(r)
        PROVE  EndingIsRecorded'
    BY <1>c, <2>3 DEF ModelRefused, TerminalEvents
  <2>4. ASSUME NEW r \in Responses, ModelDone(r)
        PROVE  EndingIsRecorded'
    <3>1. Terminal' = {}
      BY <1>0, <2>4, NoticesSaid, TurnGoesOn DEF ModelDone
    <3> QED BY <1>b, <2>4, <3>1 DEF ModelDone, Finish
  <2>5. ASSUME NEW r \in Responses, InvalidToolCallShape(r)
        PROVE  EndingIsRecorded'
    <3>1. EndsOn("invalid_tool_call_shape")'
      BY <1>0, <2>5, NoticesSaid, TurnEnds
      DEF InvalidToolCallShape, TerminalEvents
    <3> QED BY <1>a, <2>5, <3>1 DEF InvalidToolCallShape, TerminalEvents
  <2>6. ASSUME NEW r \in Responses, CallTool(r)
        PROVE  EndingIsRecorded'
    <3>1. Terminal' = {}
      BY <1>0, <2>6, NoticesSaid, TurnGoesOn DEF CallTool
    <3> QED BY <1>b, <2>6, <3>1 DEF CallTool
  <2> QED BY <1>5, <2>1, <2>2, <2>3, <2>4, <2>5, <2>6 DEF ModelTurn
<1>6. CASE Execute
  <2>1. /\ Extends /\ phase' # "ended"
        /\ \A j \in Added : log'[j].event \notin TerminalEvents
    BY <1>6, ExecuteAdds, NamesApart DEF AddedAt, Execute
  <2> QED BY <1>0, <1>b, <2>1, StillOpen
<1>7. CASE RecordStep
  BY <1>0, <1>b, <1>7, RecordAdds, StillOpen
<1>8. CASE MaxStepsReached
  <2>1. /\ Extends /\ Len(log') \in Added
        /\ log'[Len(log')].event = "max_steps_reached"
        /\ Added = {Len(log')}
    <3>1. /\ AddedAt(conf.maxSteps) /\ Len(log') \in Added
          /\ \A j \in Added : log'[j].event = "max_steps_reached"
      BY <1>8, MaxStepsAdds
    <3>2. Len(log') = Len(log) + 1
      BY <1>8, LogTyped, AppendProperties DEF MaxStepsReached
    <3>3. Added = {Len(log')}
      BY <3>2, LogTyped DEF Added
    <3> QED BY <3>1, <3>3 DEF AddedAt
  <2>2. EndsOn("max_steps_reached")'
    BY <1>0, <2>1, Ending DEF TerminalEvents
  <2> QED BY <1>8, <1>a, <2>2 DEF MaxStepsReached, TerminalEvents
<1> QED BY <1>4, <1>5, <1>6, <1>7, <1>8, <1>1 DEF Next, Over

\* However a run is refused, fails, gives up or is exhausted, its trail has
\* one terminal event, the last, and it is the one the result names; a run
\* that completed or is under way has none.
THEOREM EndingRecorded == Spec => []EndingIsRecorded
<1>1. Init => TypeOK /\ StepsCounted /\ Attribution /\ EndingIsRecorded
  BY InitTyped, AttributionInit DEF Init, StepsCounted, EndingIsRecorded
<1> QED
  BY <1>1, NextTyped, StepsCountedNext, AttributionNext, EndingNext, PTL
  DEF Spec

-----------------------------------------------------------------------------
(* The trail and the transcript.                                           *)

\* An event that says why a call failed, and a step that has one.
Explains(e) == e.event \in FailureEvents \/ RuleRefused(e)

ExplainedAt(n) == \E j \in DOMAIN log : log[j].step = n /\ Explains(log[j])
RefusedAt(n) == \E j \in DOMAIN log : log[j].step = n /\ RuleRefused(log[j])

\* The call in progress has no explanation of a failure until it has failed,
\* and then has one.
CallMatchesAudit ==
  /\ phase = "remind" \/ (phase = "execute" /\ pc # "returned") =>
       ~ExplainedAt(step)
  /\ phase = "execute" /\ pc = "returned" =>
       /\ ~reply.success <=> ExplainedAt(step)
       /\ reply.ran => ~RefusedAt(step)

LEMMA TranscriptAt ==
  TranscriptMatchesAudit <=>
    \A i \in DOMAIN steps : /\ ~steps[i].success <=> ExplainedAt(i - 1)
                            /\ steps[i].ran => ~RefusedAt(i - 1)
BY Zenon DEF TranscriptMatchesAudit, EventsOfStep, ExplainedAt, RefusedAt, Explains

\* Events of another step, or that explain nothing, change neither.
LEMMA ExplanationKept ==
  ASSUME Extends, UNCHANGED conf, NEW n,
         \A j \in Added : log'[j].step # n \/ ~Explains(log'[j])
  PROVE  /\ ExplainedAt(n)' <=> ExplainedAt(n)
         /\ RefusedAt(n)' <=> RefusedAt(n)
<1>1. \A e : RuleRefused(e)' <=> RuleRefused(e)
  BY DEF RuleRefused
<1>2. \A e : Explains(e)' <=> Explains(e)
  BY <1>1 DEF Explains
<1>3. \A j \in DOMAIN log' : log'[j].step = n =>
        /\ Explains(log'[j]) => j \in DOMAIN log
        /\ RuleRefused(log'[j]) => j \in DOMAIN log
  BY DEF Extends, Explains
<1> QED
  BY <1>1, <1>2, <1>3 DEF ExplainedAt, RefusedAt, Extends

\* An explanation of this step, added to it.
LEMMA ExplanationAdded ==
  ASSUME TypeOK, UNCHANGED conf, NEW e \in Event, log' = Append(log, e),
         Explains(e)
  PROVE  ExplainedAt(e.step)'
<1>1. log'[Len(log')] = e /\ Len(log') \in DOMAIN log'
  BY OneAdded DEF Extends
<1>2. Explains(e)'
  BY DEF Explains, RuleRefused
<1> QED BY <1>1, <1>2 DEF ExplainedAt

\* Only executor events explain a failure.
LEMMA SaidExplainsNothing ==
  ASSUME NEW e, e.event \in TerminalEvents \cup NoticeEvents
  PROVE  ~Explains(e)
BY DEF Explains, FailureEvents, RuleRefused, EventOf, TerminalEvents,
   NoticeEvents

\* The outcome of a call that failed for reason e, and of one still going on.
LEMMA CallFailed ==
  ASSUME TypeOK, ~ExplainedAt(step), NEW e \in Event, log' = Append(log, e),
         e.step = step, Explains(e), UNCHANGED <<conf, step, phase>>,
         pc' = "returned", phase = "execute", ~reply'.success,
         reply'.ran => ~RuleRefused(e)
  PROVE  CallMatchesAudit'
<1>1. ExplainedAt(step)'
  BY ExplanationAdded
<1>2. ASSUME ~RuleRefused(e) PROVE ~RefusedAt(step)'
  <2>1. Extends /\ Added = {Len(log')} /\ log'[Len(log')] = e
    BY OneAdded
  <2>2. \A x : RuleRefused(x)' <=> RuleRefused(x)
    BY DEF RuleRefused
  <2>3. ~RefusedAt(step)
    BY DEF ExplainedAt, RefusedAt, Explains
  <2> QED BY <1>2, <2>1, <2>2, <2>3 DEF RefusedAt, Extends
<1> QED BY <1>1, <1>2 DEF CallMatchesAudit

LEMMA CallGoesOn ==
  ASSUME TypeOK, ~ExplainedAt(step), Extends,
         \A j \in Added : ~Explains(log'[j]), UNCHANGED <<conf, step>>,
         pc' = "returned" => reply'.success
  PROVE  CallMatchesAudit'
<1>1. ~ExplainedAt(step)'
  BY ExplanationKept
<1>2. ~RefusedAt(step)'
  BY <1>1 DEF ExplainedAt, RefusedAt, Explains
<1> QED BY <1>1, <1>2 DEF CallMatchesAudit

LEMMA ExecuteMatches ==
  ASSUME TypeOK, MediatedCall, Attribution, CallMatchesAudit, Execute
  PROVE  CallMatchesAudit'
<1>0. /\ phase = "execute" /\ auditStep = step /\ ExecuteStep
      /\ UNCHANGED <<conf, step, phase>>
  BY DEF Execute, Attribution
<1>1. pc # "returned" /\ ~ExplainedAt(step)
  BY <1>0 DEF ExecuteStep, RefuseIncompleteContext, RefuseUnknownTool,
     RefuseToolNotAllowed, RefuseArguments, EnterGuards, SkipRule, PassRule,
     RefuseByRule, GuardsPassed, ToolReturns, ToolRefuses, ToolRaises, AtRule,
     CallMatchesAudit
<1>2. /\ ctx = RunContext(conf) /\ ctx.rules = conf.rules
      /\ ContextComplete
  <2>1. ctx = RunContext(conf)
    BY DEF MediatedCall
  <2> QED BY <2>1 DEF RunContext, ContextComplete
<1>a. ASSUME NEW event \in FailureEvents \cap ExecutorEvents, NEW ran \in BOOLEAN,
             Audit(event), Return(ran, FALSE)
      PROVE  CallMatchesAudit'
  <2>1. /\ Audited(event) \in Event /\ Audited(event).step = step
        /\ Audited(event).event = event /\ Audited(event).rule = 0
    BY <1>0 DEF Audited, EventAt, Event, EventNames, TypeOK, ExecTypeOK
  <2>2. Explains(Audited(event)) /\ ~RuleRefused(Audited(event))
    <3>1. 0 \notin DOMAIN conf.rules
      BY DEF TypeOK, Config
    <3> QED BY <1>a, <2>1, <3>1 DEF Explains, RuleRefused
  <2> QED BY <1>0, <1>1, <1>a, <2>1, <2>2, CallFailed DEF Audit, Return
<1>b. ASSUME NEW answer \in Answer, answer # "none"
      PROVE  LET e == EventAt(EventOf[answer], gi, answer = "deny")
             IN  /\ e \in Event /\ e.step = step /\ e.rule = gi
                 /\ e.event = EventOf[answer] /\ e.denied = (answer = "deny")
  <2>1. EventOf[answer] \in EventNames /\ (answer = "deny") \in BOOLEAN
    BY <1>b DEF EventOf, Answer, EventNames, ExecutorEvents
  <2> QED BY <1>0, <2>1 DEF EventAt, Event, TypeOK, ExecTypeOK
<1>3. CASE RefuseIncompleteContext
  BY <1>2, <1>3 DEF RefuseIncompleteContext
<1>4. CASE RefuseUnknownTool \/ RefuseToolNotAllowed \/ RefuseArguments
  BY <1>4, <1>a DEF RefuseUnknownTool, RefuseToolNotAllowed, RefuseArguments,
     FailureEvents, ExecutorEvents
<1>5. CASE EnterGuards \/ SkipRule \/ GuardsPassed \/ ToolReturns
  <2>1. UNCHANGED log /\ (pc' = "returned" => reply'.success)
    BY <1>5 DEF EnterGuards, SkipRule, GuardsPassed, ToolReturns, Proceed,
       Return, AtRule
  <2> QED BY <1>0, <1>1, <2>1, NoneAdded, CallGoesOn
<1>6. CASE PassRule
  <2>1. PICK answer \in Answer : ~Refuses(ctx.rules[gi], answer)
                                 /\ AuditAnswer(answer)
    BY <1>6 DEF PassRule
  <2>2. pc' # "returned" /\ gi \in DOMAIN conf.rules
    BY <1>2, <1>6 DEF PassRule, AtRule
  <2>3. CASE answer = "none"
    BY <1>0, <1>1, <2>1, <2>2, <2>3, NoneAdded, CallGoesOn DEF AuditAnswer
  <2>4. CASE answer # "none"
    <3> DEFINE e == EventAt(EventOf[answer], gi, answer = "deny")
    <3>1. /\ e \in Event /\ e.rule = gi
          /\ e.event = EventOf[answer] /\ e.denied = (answer = "deny")
      BY <1>b, <2>4
    <3>2. log' = Append(log, e)
      BY <2>1, <2>4 DEF AuditAnswer
    <3> HIDE DEF e
    <3>3. ~Explains(e)
      <4>1. e.event \notin FailureEvents
        BY <2>4, <3>1 DEF FailureEvents, EventOf, Answer
      <4>2. ASSUME NEW a \in {"missing", "raise", "deny"}, e.event = EventOf[a],
                   Refuses(conf.rules[gi], a)
            PROVE  answer = "allow" /\ a = "deny"
        <5>1. a # answer
          BY <1>2, <2>1, <4>2
        <5> QED BY <2>4, <3>1, <4>2, <5>1 DEF EventOf, Answer
      <4>3. answer = "allow" => ~e.denied
        BY <3>1
      <4> QED BY <3>1, <4>1, <4>2, <4>3 DEF Explains, RuleRefused
    <3>4. Extends /\ \A j \in Added : ~Explains(log'[j])
      BY <3>1, <3>2, <3>3, OneAdded
    <3> QED BY <1>0, <1>1, <2>2, <3>4, CallGoesOn
  <2> QED BY <2>3, <2>4
<1>7. CASE RefuseByRule
  <2>1. PICK answer \in Answer : Refuses(ctx.rules[gi], answer)
                                 /\ AuditAnswer(answer)
    BY <1>7 DEF RefuseByRule
  <2>2. /\ gi \in DOMAIN conf.rules /\ answer \in {"missing", "raise", "deny"}
        /\ pc' = "returned" /\ ~reply'.success /\ ~reply'.ran
    BY <1>2, <1>7, <2>1 DEF RefuseByRule, AtRule, Refuses, Return
  <2> DEFINE e == EventAt(EventOf[answer], gi, answer = "deny")
  <2>3. /\ e \in Event /\ e.rule = gi /\ e.step = step
        /\ e.event = EventOf[answer] /\ e.denied = (answer = "deny")
    BY <1>b, <2>2
  <2>4. log' = Append(log, e)
    BY <2>1, <2>2 DEF AuditAnswer
  <2> HIDE DEF e
  <2>5. Explains(e)
    BY <1>2, <2>1, <2>2, <2>3 DEF Explains, RuleRefused
  <2> QED BY <1>0, <1>1, <2>2, <2>3, <2>4, <2>5, CallFailed
<1>8. CASE ToolRefuses \/ ToolRaises
  BY <1>8, <1>a DEF ToolRefuses, ToolRaises, FailureEvents, ExecutorEvents
<1> QED
  BY <1>0, <1>3, <1>4, <1>5, <1>6, <1>7, <1>8 DEF ExecuteStep

LEMMA CallMatchesNext ==
  TypeOK /\ MediatedCall /\ Attribution /\ CallMatchesAudit /\ [Next]_vars
    => CallMatchesAudit'
<1> SUFFICES ASSUME TypeOK, MediatedCall, Attribution, CallMatchesAudit,
                    [Next]_vars
             PROVE  CallMatchesAudit'
  OBVIOUS
<1>1. CASE Gate \/ RecordStep \/ MaxStepsReached
  BY <1>1 DEF Gate, DirectiveLoadFailed, PoliciesDirMissing,
     PoliciesUnreadable, PolicyValidationFailed, NoEnforceablePolicies,
     IncompletePolicyProfile, EnterLoop, GateFail, AtGates, Fail, Finish,
     RecordStep, MaxStepsReached, CallMatchesAudit
<1>2. CASE ModelTurn
  <2>1. /\ AddedAt(step) /\ phase \in {"model", "remind"}
        /\ \A j \in Added : ~Explains(log'[j])
        /\ UNCHANGED <<conf, step>>
    BY <1>2, ModelTurnAdds, SaidExplainsNothing
  <2>2. ~ExplainedAt(step)
    <3>1. CASE phase = "model"
      BY <3>1, LogTyped, NoStepAssumption
      DEF Attribution, Underway, ExplainedAt, TypeOK
    <3>2. CASE phase = "remind"
      BY <3>2 DEF CallMatchesAudit
    <3> QED BY <2>1, <3>1, <3>2
  <2>3. phase' = "execute" => pc' # "returned"
    BY <1>2 DEF ModelTurn, ModelBackendError, RemindFormat, ParseJsonFailed,
       ModelRefused, ModelDone, InvalidToolCallShape, CallTool, Finish
  <2>4. ~ExplainedAt(step)'
    BY <2>1, <2>2, ExplanationKept DEF AddedAt
  <2> QED BY <2>1, <2>3, <2>4 DEF CallMatchesAudit
<1>3. CASE UNCHANGED vars
  <2>1. /\ UNCHANGED <<phase, pc, reply, step>>
        /\ ExplainedAt(step)' <=> ExplainedAt(step)
        /\ RefusedAt(step)' <=> RefusedAt(step)
    BY <1>3 DEF vars, execVars, ExplainedAt, RefusedAt, Explains, RuleRefused
  <2> QED BY <2>1 DEF CallMatchesAudit
<1> QED BY <1>1, <1>2, <1>3, ExecuteMatches DEF Next, Over

LEMMA TranscriptNext ==
  /\ TypeOK /\ StepsCounted /\ Attribution /\ CallMatchesAudit
  /\ TranscriptMatchesAudit /\ [Next]_vars
  => TranscriptMatchesAudit'
<1> SUFFICES ASSUME TypeOK, StepsCounted, Attribution, CallMatchesAudit,
                    TranscriptMatchesAudit, [Next]_vars
             PROVE  TranscriptMatchesAudit'
  OBVIOUS
<1> DEFINE matches(e, i) == /\ ~e.success <=> ExplainedAt(i - 1)
                            /\ e.ran => ~RefusedAt(i - 1)
           Kept(i) == /\ ExplainedAt(i - 1)' <=> ExplainedAt(i - 1)
                      /\ RefusedAt(i - 1)' <=> RefusedAt(i - 1)
<1>0. /\ steps \in Seq(Entry) /\ Len(steps) \in Nat /\ step = Len(steps)
      /\ DOMAIN steps = 1 .. Len(steps)
  BY DEF TypeOK, ExecTypeOK, StepsCounted
<1>1. \A i \in DOMAIN steps : matches(steps[i], i)
  BY TranscriptAt
<1>2. TranscriptMatchesAudit' <=>
        \A i \in DOMAIN steps' :
          /\ ~steps'[i].success <=> ExplainedAt(i - 1)'
          /\ steps'[i].ran => ~RefusedAt(i - 1)'
  BY Zenon DEF TranscriptMatchesAudit, EventsOfStep, ExplainedAt, RefusedAt,
     Explains
<1>3. ASSUME UNCHANGED steps, \A i \in DOMAIN steps : Kept(i)
      PROVE  TranscriptMatchesAudit'
  BY <1>1, <1>2, <1>3
<1>4. CASE ModelTurn \/ Execute
  <2>1. AddedAt(step) /\ UNCHANGED <<steps, conf>>
    BY <1>4, ModelTurnAdds, ExecuteAdds
  <2>2. ASSUME NEW i \in DOMAIN steps
        PROVE  Kept(i)
    <3>1. i - 1 # step
      BY <1>0
    <3>2. Extends /\ \A j \in Added : log'[j].step # i - 1
      BY <2>1, <3>1 DEF AddedAt
    <3> QED BY <2>1, <3>2, ExplanationKept
  <2> HIDE DEF Kept
  <2> QED BY <1>3, <2>1, <2>2
<1>5. CASE MaxStepsReached
  <2>1. /\ Extends /\ UNCHANGED <<steps, conf>>
        /\ \A j \in Added : ~Explains(log'[j])
    BY <1>5, MaxStepsAdds, SaidExplainsNothing DEF AddedAt, TerminalEvents
  <2>2. \A i \in DOMAIN steps : Kept(i)
    BY <2>1, ExplanationKept
  <2> HIDE DEF Kept
  <2> QED BY <1>3, <2>1, <2>2
<1>6. CASE Gate
  <2>1. steps = <<>> /\ UNCHANGED steps
    BY <1>6, GateAdds DEF Gate, DirectiveLoadFailed, PoliciesDirMissing,
       PoliciesUnreadable, PolicyValidationFailed, NoEnforceablePolicies,
       IncompletePolicyProfile, EnterLoop, GateFail, AtGates, Attribution
  <2> QED BY <1>3, <2>1
<1>7. CASE RecordStep
  <2>1. /\ steps' = Append(steps, EntryOfCall) /\ UNCHANGED <<conf, log>>
        /\ phase = "execute" /\ pc = "returned"
    BY <1>7 DEF RecordStep
  <2>2. EntryOfCall \in Entry
    BY DEF TypeOK, ExecTypeOK, EntryOfCall, Entry, Call, Reply
  <2>3. /\ DOMAIN steps' = 1 .. Len(steps) + 1
        /\ steps'[Len(steps) + 1] = EntryOfCall
        /\ \A i \in 1 .. Len(steps) : steps'[i] = steps[i]
    BY <1>0, <2>1, <2>2, AppendProperties
  <2>4. \A i \in DOMAIN steps' : Kept(i)
    BY <2>1 DEF ExplainedAt, RefusedAt, Explains, RuleRefused
  <2>5. matches(EntryOfCall, Len(steps) + 1)
    <3>1. Len(steps) + 1 - 1 = step
      BY <1>0
    <3>2. EntryOfCall.success = reply.success /\ EntryOfCall.ran = reply.ran
      BY DEF EntryOfCall
    <3> QED BY <2>1, <3>1, <3>2 DEF CallMatchesAudit
  <2>6. \A i \in DOMAIN steps' : matches(steps'[i], i)
    <3> HIDE DEF matches
    <3> QED BY <1>0, <1>1, <2>3, <2>5
  <2> QED BY <1>2, <2>4, <2>6
<1>8. CASE UNCHANGED vars
  BY <1>3, <1>8 DEF vars, execVars, ExplainedAt, RefusedAt, Explains, RuleRefused
<1> QED BY <1>4, <1>5, <1>6, <1>7, <1>8 DEF Next, Over

\* Whatever the rules and the calls, a step of the transcript failed exactly
\* when the trail has an event of that step that says why, and no body ran in
\* a step a rule refused.
THEOREM TranscriptMatched == Spec => []TranscriptMatchesAudit
<1>1. Init => TypeOK /\ StepsCounted /\ MediatedCall /\ Attribution
              /\ CallMatchesAudit /\ TranscriptMatchesAudit
  BY InitTyped, MediatedCallInit, AttributionInit
  DEF Init, StepsCounted, CallMatchesAudit, TranscriptMatchesAudit
<1> QED
  BY <1>1, NextTyped, StepsCountedNext, MediatedCallNext, AttributionNext,
     CallMatchesNext, TranscriptNext, PTL DEF Spec

-----------------------------------------------------------------------------
(* The trace of a bulk write.                                              *)

TraceAt(n, k) ==
  \E j \in DOMAIN log :
    /\ log[j].step = n
    /\ log[j].rule = k
    /\ log[j].event \in {"policy_guard_check", "policy_guard_error"}

\* A bulk rule the guard loop has passed left its trace of a bulk write.
CallLeavesTrace ==
  phase = "execute" =>
    \A k \in DOMAIN conf.rules :
      /\ BulkRule(k) /\ BulkWrite(call, steps)
      /\ \/ pc = "guards" /\ k < gi
         \/ pc = "invoke"
         \/ pc = "returned" /\ reply.ran
      => TraceAt(step, k)

LEMMA TraceKept ==
  ASSUME Extends, NEW n, NEW k, TraceAt(n, k)
  PROVE  TraceAt(n, k)'
BY DEF TraceAt, Extends

\* BulkWrite() is about a call's tool and path, which its entry keeps.
LEMMA BulkWriteOfEntry ==
  ASSUME NEW c, NEW e, NEW hist, e.tool = c.tool, e.path = c.path
  PROVE  BulkWrite(e, hist) <=> BulkWrite(c, hist)
BY DEF BulkWrite

\* The built-in guard of a bulk rule answers a bulk write with a denial, or
\* raises; it is never silent.
LEMMA BulkAnswer ==
  ASSUME NEW k \in DOMAIN conf.rules, BulkRule(k), BulkWrite(call, steps)
  PROVE  /\ Applies(conf.rules[k], call, conf.directive)
         /\ \A a \in Answer : MayAnswer(conf.rules[k], a, call, steps)
                                => a \in {"raise", "deny"}
<1>1. Applies(conf.rules[k], call, conf.directive)
  BY DEF BulkRule, BulkWrite, Applies
<1>2. /\ conf.rules[k].guard = "check_no_bulk_writes"
      /\ conf.rules[k].guard \in BuiltinGuards \ CustomGuards
      /\ conf.rules[k].guard \in RegisteredGuards
  BY DEF BulkRule, BuiltinGuards, RegisteredGuards
<1>3. Denies(conf.rules[k].guard, call, steps)
  BY <1>2 DEF Denies
<1> QED BY <1>1, <1>2, <1>3 DEF MayAnswer

LEMMA ExecuteLeavesTrace ==
  ASSUME TypeOK, MediatedCall, Attribution, CallLeavesTrace, Execute
  PROVE  CallLeavesTrace'
<1>0. /\ phase = "execute" /\ auditStep = step /\ ExecuteStep /\ Extends
      /\ UNCHANGED <<conf, step, phase, call, steps>>
      /\ ctx.rules = conf.rules /\ ctx.directive = conf.directive
      /\ ctx.rulesArg = "unrestricted" <=> conf.rules = <<>>
  BY ExecuteAdds, ExecuteKeepsInputs
  DEF Execute, Attribution, AddedAt, MediatedCall, RunContext
<1>1. conf.rules \in Seq(Rule) /\ gi \in Nat /\ Len(conf.rules) \in Nat
      /\ DOMAIN conf.rules = 1 .. Len(conf.rules)
  BY DEF TypeOK, ExecTypeOK, Config
<1>2. \A k : BulkRule(k)' <=> BulkRule(k)
  BY <1>0 DEF BulkRule
<1> DEFINE Behind(k, p, g, r) == \/ p = "guards" /\ k < g
                                 \/ p = "invoke"
                                 \/ p = "returned" /\ r.ran
<1>3. SUFFICES ASSUME NEW k \in DOMAIN conf.rules, BulkRule(k),
                      BulkWrite(call, steps), Behind(k, pc', gi', reply')
               PROVE  TraceAt(step, k)'
  BY <1>0, <1>2 DEF CallLeavesTrace, BulkWrite, PriorWritePaths, TraceAt
<1>4. CASE Behind(k, pc, gi, reply)
  BY <1>0, <1>3, <1>4, TraceKept DEF CallLeavesTrace
<1>5. CASE EnterGuards
  BY <1>0, <1>1, <1>3, <1>5 DEF EnterGuards, Proceed
<1>6. CASE SkipRule
  <2>1. k # gi
    BY <1>0, <1>3, <1>6, BulkAnswer DEF SkipRule
  <2>2. pc = "guards" /\ pc' = pc /\ gi' = gi + 1
    BY <1>6 DEF SkipRule, AtRule
  <2> QED BY <1>1, <1>3, <1>4, <2>1, <2>2
<1>7. CASE PassRule
  <2>1. pc = "guards" /\ pc' = pc /\ gi' = gi + 1
    BY <1>7 DEF PassRule, AtRule
  <2>2. CASE k < gi
    BY <1>4, <2>1, <2>2
  <2>3. CASE k = gi
    <3>1. PICK a \in Answer : /\ MayAnswer(ctx.rules[gi], a, call, steps)
                              /\ AuditAnswer(a)
      BY <1>7 DEF PassRule
    <3>2. a \in {"raise", "deny"}
      BY <1>0, <1>3, <2>3, <3>1, BulkAnswer
    <3> DEFINE e == EventAt(EventOf[a], gi, a = "deny")
    <3>3. /\ e \in Event /\ e.step = step /\ e.rule = k
          /\ e.event \in {"policy_guard_check", "policy_guard_error"}
      <4>1. EventOf[a] \in {"policy_guard_check", "policy_guard_error"}
        BY <3>2 DEF EventOf
      <4>2. (a = "deny") \in BOOLEAN /\ EventOf[a] \in EventNames
        BY <4>1 DEF EventNames, ExecutorEvents
      <4> QED BY <1>0, <2>3, <4>1, <4>2 DEF EventAt, Event, TypeOK, ExecTypeOK
    <3>4. log' = Append(log, e)
      BY <3>1, <3>2 DEF AuditAnswer
    <3> HIDE DEF e
    <3>5. Len(log') \in DOMAIN log' /\ log'[Len(log')] = e
      BY <3>3, <3>4, OneAdded DEF Extends
    <3> QED BY <1>0, <3>3, <3>5 DEF TraceAt
  <2> QED BY <1>1, <1>3, <2>1, <2>2, <2>3
<1>8. CASE GuardsPassed
  <2>1. pc = "guards" /\ k < gi
    BY <1>0, <1>1, <1>8 DEF GuardsPassed
  <2> QED BY <1>4, <2>1
<1>9. CASE ToolReturns \/ ToolRefuses \/ ToolRaises
  BY <1>4, <1>9 DEF ToolReturns, ToolRefuses, ToolRaises
<1>10. CASE \/ RefuseIncompleteContext \/ RefuseUnknownTool
            \/ RefuseToolNotAllowed \/ RefuseArguments \/ RefuseByRule
  BY <1>3, <1>10 DEF RefuseIncompleteContext, RefuseUnknownTool,
     RefuseToolNotAllowed, RefuseArguments, RefuseByRule, Return
<1> QED
  BY <1>0, <1>5, <1>6, <1>7, <1>8, <1>9, <1>10 DEF ExecuteStep

LEMMA CallLeavesTraceNext ==
  TypeOK /\ MediatedCall /\ Attribution /\ CallLeavesTrace /\ [Next]_vars
    => CallLeavesTrace'
<1> SUFFICES ASSUME TypeOK, MediatedCall, Attribution, CallLeavesTrace,
                    [Next]_vars
             PROVE  CallLeavesTrace'
  OBVIOUS
<1>1. CASE Gate \/ RecordStep \/ MaxStepsReached
  BY <1>1 DEF Gate, DirectiveLoadFailed, PoliciesDirMissing,
     PoliciesUnreadable, PolicyValidationFailed, NoEnforceablePolicies,
     IncompletePolicyProfile, EnterLoop, GateFail, AtGates, Fail, Finish,
     RecordStep, MaxStepsReached, CallLeavesTrace
<1>2. CASE ModelTurn
  BY <1>2 DEF ModelTurn, ModelBackendError, RemindFormat, ParseJsonFailed,
     ModelRefused, ModelDone, InvalidToolCallShape, CallTool, Finish,
     CallLeavesTrace
<1>3. CASE UNCHANGED vars
  BY <1>3 DEF vars, execVars, CallLeavesTrace, BulkRule, BulkWrite,
     PriorWritePaths, TraceAt
<1> QED BY <1>1, <1>2, <1>3, ExecuteLeavesTrace DEF Next, Over

LEMMA BulkTraceNext ==
  /\ TypeOK /\ StepsCounted /\ Attribution /\ CallLeavesTrace
  /\ BulkWriteLeavesTrace /\ [Next]_vars
  => BulkWriteLeavesTrace'
<1> SUFFICES ASSUME TypeOK, StepsCounted, Attribution, CallLeavesTrace,
                    BulkWriteLeavesTrace, [Next]_vars
             PROVE  BulkWriteLeavesTrace'
  OBVIOUS
<1> DEFINE before(i) == SubSeq(steps, 1, i - 1)
<1>0. /\ steps \in Seq(Entry) /\ Len(steps) \in Nat /\ step = Len(steps)
      /\ DOMAIN steps = 1 .. Len(steps)
  BY DEF TypeOK, ExecTypeOK, StepsCounted
<1>1. \A i \in DOMAIN steps, k \in DOMAIN conf.rules :
        BulkRule(k) /\ steps[i].ran /\ BulkWrite(steps[i], before(i))
          => TraceAt(i - 1, k)
  BY DEF BulkWriteLeavesTrace, TraceAt, EventsOfStep
<1>2. ASSUME \A i \in DOMAIN steps', k \in DOMAIN conf'.rules :
               BulkRule(k)' /\ steps'[i].ran
                 /\ BulkWrite(steps'[i], SubSeq(steps', 1, i - 1))
                 => TraceAt(i - 1, k)'
      PROVE  BulkWriteLeavesTrace'
  BY <1>2 DEF BulkWriteLeavesTrace, TraceAt, EventsOfStep
<1>3. CASE ~RecordStep
  <2>1. UNCHANGED <<steps, conf>>
    BY <1>3, HistoryKept
  <2>2. Extends
    BY <1>3, GateAdds, ModelTurnAdds, ExecuteAdds, MaxStepsAdds, NoneAdded
    DEF Next, Over, vars, execVars, AddedAt
  <2>3. \A k : BulkRule(k)' <=> BulkRule(k)
    BY <2>1 DEF BulkRule
  <2> QED BY <1>1, <1>2, <2>1, <2>2, <2>3, TraceKept
<1>4. CASE RecordStep
  <2>1. /\ steps' = Append(steps, EntryOfCall) /\ UNCHANGED <<conf, log>>
        /\ phase = "execute" /\ pc = "returned"
    BY <1>4 DEF RecordStep
  <2>2. EntryOfCall \in Entry
    BY DEF TypeOK, ExecTypeOK, EntryOfCall, Entry, Call, Reply
  <2>3. /\ DOMAIN steps' = 1 .. Len(steps) + 1
        /\ steps'[Len(steps) + 1] = EntryOfCall
        /\ \A i \in 1 .. Len(steps) : steps'[i] = steps[i]
    BY <1>0, <2>1, <2>2, AppendProperties
  <2>4. \A i \in 1 .. Len(steps) + 1 : SubSeq(steps', 1, i - 1) = before(i)
    BY <1>0, <2>1, <2>2, PrefixKept
  <2>5. before(Len(steps) + 1) = steps
    BY <1>0, SubSeqProperties
  <2>6. \A k : /\ BulkRule(k)' <=> BulkRule(k)
               /\ \A n : TraceAt(n, k)' <=> TraceAt(n, k)
    BY <2>1 DEF BulkRule, TraceAt
  <2>7. ASSUME NEW k \in DOMAIN conf.rules, BulkRule(k), EntryOfCall.ran,
               BulkWrite(EntryOfCall, steps)
        PROVE  TraceAt(Len(steps) + 1 - 1, k)
    <3>1. BulkWrite(call, steps)
      BY <2>7, BulkWriteOfEntry DEF EntryOfCall
    <3>2. reply.ran /\ Len(steps) + 1 - 1 = step
      BY <1>0, <2>7 DEF EntryOfCall
    <3> QED BY <2>1, <2>7, <3>1, <3>2 DEF CallLeavesTrace
  <2>8. ASSUME NEW i \in 1 .. Len(steps) + 1, NEW k \in DOMAIN conf.rules,
               BulkRule(k), steps'[i].ran,
               BulkWrite(steps'[i], SubSeq(steps', 1, i - 1))
        PROVE  TraceAt(i - 1, k)
    <3>1. SubSeq(steps', 1, i - 1) = before(i)
      BY <2>4
    <3> HIDE DEF before
    <3>2. CASE i \in 1 .. Len(steps)
      <4>1. steps'[i] = steps[i] /\ i \in DOMAIN steps
        BY <1>0, <2>3, <3>2
      <4>2. steps[i].ran /\ BulkWrite(steps[i], before(i))
        BY <2>8, <3>1, <4>1
      <4> QED BY <1>1, <2>8, <4>1, <4>2
    <3>3. CASE i = Len(steps) + 1
      <4>1. steps'[i] = EntryOfCall /\ SubSeq(steps', 1, i - 1) = steps
        BY <2>3, <2>5, <3>1, <3>3
      <4>2. EntryOfCall.ran /\ BulkWrite(EntryOfCall, steps)
        BY <2>8, <4>1
      <4> QED BY <2>7, <2>8, <3>3, <4>2
    <3> QED BY <1>0, <3>2, <3>3
  <2> QED BY <1>2, <2>1, <2>3, <2>6, <2>8
<1> QED BY <1>3, <1>4

\* Where check_no_bulk_writes is the built-in guard, a write to a second path
\* never passes a rule that names it without an event of that rule and step,
\* at whatever level the rule is enforced.
THEOREM BulkWriteTraced == Spec => []BulkWriteLeavesTrace
<1>1. Init => TypeOK /\ StepsCounted /\ MediatedCall /\ Attribution
              /\ CallLeavesTrace /\ BulkWriteLeavesTrace
  BY InitTyped, MediatedCallInit, AttributionInit
  DEF Init, StepsCounted, CallLeavesTrace, BulkWriteLeavesTrace
<1> QED
  BY <1>1, NextTyped, StepsCountedNext, MediatedCallNext, AttributionNext,
     CallLeavesTraceNext, BulkTraceNext, PTL DEF Spec
=============================================================================
