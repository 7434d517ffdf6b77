---------------------------- MODULE StartupProofs ----------------------------
(***************************************************************************)
(* Proofs about Startup, for any directives, policy files, saves, requests *)
(* and reviewed posture.                                                   *)
(***************************************************************************)
EXTENDS Startup, TLAPS

-----------------------------------------------------------------------------
(* Types.                                                                  *)

LEMMA InitTyped == Init => TypeOK
  <1> SUFFICES ASSUME Init PROVE TypeOK
    OBVIOUS
  <1> QED
    BY DirectiveFilesAssumption, PolicyFilesAssumption, MaxSavesAssumption
    DEF Init, TypeOK, Ended, StartEvents

\* A loadable directive is a directive, and is what its name says.
LEMMA LoadableTyped ==
  ASSUME TypeOK, NEW id, Loadable(id)
  PROVE  /\ id \in Directives /\ id \in SafeIds
         /\ directives[id] \in Directive
         /\ directives[id].id = id
  BY SafeIdsAssumption DEF TypeOK, Loadable

LEMMA SaveTyped == TypeOK /\ Save => TypeOK'
  <1> SUFFICES ASSUME TypeOK, Save PROVE TypeOK'
    OBVIOUS
  <1>1. directives' \in [Directives -> {Absent} \cup Directive]
    BY DirectiveFilesAssumption DEF Save, TypeOK
  <1>2. policies' \in [PolicyNames -> {Absent, Unreadable} \cup PolicyFile]
    BY PolicyFilesAssumption DEF Save, TypeOK
  <1>3. saves' \in 0..MaxSaves
    BY MaxSavesAssumption DEF Save, TypeOK
  <1> QED
    BY <1>1, <1>2, <1>3 DEF Save, TypeOK, loading

LEMMA EndingTyped ==
  ASSUME TypeOK
  PROVE  /\ \A name \in StartEvents : Refuse(name) => TypeOK'
         /\ Raise => TypeOK'
  BY DEF TypeOK, Refuse, Raise, Ended, files, loading

LEMMA LoadTyped ==
  ASSUME TypeOK, NEW id, Load(id)
  PROVE  TypeOK'
  <1>1. plan' \in Directive
    BY LoadableTyped DEF Load
  <1> QED
    BY <1>1 DEF TypeOK, Load, Advance, files

LEMMA StepTyped == TypeOK /\ [Next]_vars => TypeOK'
  <1> SUFFICES ASSUME TypeOK, [Next]_vars PROVE TypeOK'
    OBVIOUS
  <1>1. CASE Save
    BY <1>1, SaveTyped
  <1>2. CASE NotExposed
    BY <1>2, EndingTyped DEF NotExposed, StartEvents
  <1>3. CASE PlanOverride
    <2>1. req.override \in {NoPlan} \cup Directive
      BY RequestsAssumption DEF TypeOK, Request
    <2> QED
      BY <1>3, <2>1 DEF PlanOverride, Advance, TypeOK, files
  <1>4. CASE PlanByNameOrRouter
    BY <1>4 DEF PlanByNameOrRouter, Advance, TypeOK, files, loading
  <1>5. CASE NamedIsHidden
    BY <1>5, EndingTyped DEF NamedIsHidden, StartEvents
  <1>6. CASE LoadNamed
    BY <1>6, LoadTyped DEF LoadNamed
  <1>7. CASE NamedFails
    BY <1>7, EndingTyped DEF NamedFails, StartEvents
  <1>8. CASE ListDirectives
    BY <1>8 DEF ListDirectives, Advance, TypeOK, files
  <1>9. CASE ReadListed
    <2> PICK d \in todo : /\ directives[d] # Absent
                          /\ todo' = todo \ {d}
                          /\ shown' = shown \cup {i \in {directives[d].id} : Exposed(i)}
      BY <1>9 DEF ReadListed
    <2>1. \A i : Exposed(i) => i \in Directives
      BY RequestsAssumption DEF Exposed, ExposedIds, TypeOK, Request
    <2> QED
      BY <1>9, <2>1 DEF ReadListed, TypeOK, files
  <1>10. CASE ListedVanished \/ PickedFails \/ ReadFails
    BY <1>10, EndingTyped DEF ListedVanished, PickedFails, ReadFails
  <1>11. CASE NoDirectives
    BY <1>11, EndingTyped DEF NoDirectives, StartEvents
  <1>12. CASE AskRouter
    BY <1>12 DEF AskRouter, Advance, TypeOK, files, loading
  <1>13. CASE RouterDeclines
    BY <1>13, EndingTyped DEF RouterDeclines, StartEvents
  <1>14. CASE RouterInvents
    BY <1>14, EndingTyped DEF RouterInvents, StartEvents
  <1>15. CASE RouterPicks
    BY <1>15, LoadTyped DEF RouterPicks
  <1>16. CASE ListForPlan \/ ListForRun
    BY <1>16 DEF ListForPlan, ListForRun, PresentPolicies, Advance, TypeOK, files
  <1>17. CASE ReadForPlan
    BY <1>17 DEF ReadForPlan, TypeOK, files
  <1>18. CASE HandOver
    BY <1>18 DEF HandOver, Advance, TypeOK, files
  <1>19. CASE PoliciesDirMissing
    BY <1>19, EndingTyped DEF PoliciesDirMissing, StartEvents
  <1>20. CASE ReadForRun
    <2> PICK f \in todo : /\ ~Broken(f)
                          /\ todo' = todo \ {f}
                          /\ bindings' = bindings \cup {policies[f].id}
      BY <1>20 DEF ReadForRun
    <2>1. bindings' \subseteq STRING
      <3>1. policies[f].id \in STRING
        BY <1>20 DEF ReadForRun, Broken, TypeOK, PolicyFile
      <3> QED
        BY <3>1 DEF TypeOK
    <2> QED
      BY <1>20, <2>1 DEF ReadForRun, TypeOK, files
  <1>21. CASE PolicyValidationFailed
    BY <1>21, EndingTyped DEF PolicyValidationFailed, StartEvents
  <1>22. CASE NoEnforceablePolicies
    BY <1>22, EndingTyped DEF NoEnforceablePolicies, StartEvents
  <1>23. CASE IncompletePolicyProfile
    BY <1>23, EndingTyped DEF IncompletePolicyProfile, StartEvents
  <1>24. CASE EnterLoop
    BY <1>24 DEF EnterLoop, TypeOK, files, loading, Ended, StartEvents
  <1>25. CASE Rest \/ UNCHANGED vars
    BY <1>25 DEF Rest, vars, files, loading, TypeOK
  <1> QED
    BY <1>1, <1>2, <1>3, <1>4, <1>5, <1>6, <1>7, <1>8, <1>9, <1>10, <1>11,
       <1>12, <1>13, <1>14, <1>15, <1>16, <1>17, <1>18, <1>19, <1>20, <1>21,
       <1>22, <1>23, <1>24, <1>25 DEF Next

\* Every variable keeps its type.
THEOREM TypeCorrect == Spec => []TypeOK
  BY InitTyped, StepTyped, PTL DEF Spec

-----------------------------------------------------------------------------
(* The inductive invariant: what each stage has established about the      *)
(* directive, the policies directory and the loaded rules.                 *)

Planned == {"plan", "planning", "execute", "loading", "running"}

DirectiveChecked ==
  /\ phase = "named" => req.id # NoId
  /\ phase \in {"list", "listing", "router"} => req.id = NoId
  /\ \A id \in shown : Exposed(id)
  /\ phase \in Planned /\ ~ByOverride =>
       /\ Exposed(plan.id) /\ plan.id \in SafeIds
       /\ req.id # NoId => plan.id = req.id
  /\ phase \in {"execute", "loading", "running"} => run = plan

PoliciesJudged ==
  /\ phase = "loading" => req.policiesExist
  /\ Running => ValidPolicies(loaded)
  /\ Running /\ ~Unguarded => ProfileOk(req.profile, bindings, loaded)
  /\ Running /\ Unguarded => /\ req.optOut /\ req.policiesExist
                            /\ event = "unguarded_mode_enabled"

LEMMA InitChecked == Init => DirectiveChecked /\ PoliciesJudged
  BY DEF Init, DirectiveChecked, PoliciesJudged, Planned, Running

\* A step that only ends the request establishes nothing and needs nothing.
LEMMA EndingChecked ==
  ASSUME DirectiveChecked, NEW name
  PROVE  Refuse(name) \/ Raise => DirectiveChecked'
  BY DEF Refuse, Raise, DirectiveChecked, Planned, Exposed, ExposedIds, loading

LEMMA LoadChecked ==
  ASSUME TypeOK, DirectiveChecked, NEW id, Load(id), Exposed(id),
         req.id # NoId => id = req.id
  PROVE  DirectiveChecked'
  <1>1. plan'.id = id /\ id \in SafeIds
    BY LoadableTyped DEF Load
  <1> QED
    BY <1>1 DEF Load, Advance, DirectiveChecked, Planned, Exposed, ExposedIds

LEMMA StepDirectiveChecked ==
  TypeOK /\ DirectiveChecked /\ [Next]_vars => DirectiveChecked'
  <1> SUFFICES ASSUME TypeOK, DirectiveChecked, [Next]_vars
               PROVE  DirectiveChecked'
    OBVIOUS
  <1> USE DEF DirectiveChecked, Planned, Exposed, ExposedIds, ByOverride
  <1>1. CASE Save
    BY <1>1 DEF Save, loading
  <1>2. CASE PlanOverride
    BY <1>2 DEF PlanOverride, Advance
  <1>3. CASE PlanByNameOrRouter
    BY <1>3 DEF PlanByNameOrRouter, Advance, loading
  <1>4. CASE LoadNamed
    BY <1>4, LoadChecked DEF LoadNamed
  <1>5. CASE ListDirectives
    BY <1>5 DEF ListDirectives, Advance
  <1>6. CASE ReadListed
    BY <1>6 DEF ReadListed
  <1>7. CASE AskRouter
    BY <1>7 DEF AskRouter, Advance, loading
  <1>8. CASE RouterPicks
    BY <1>8, LoadChecked DEF RouterPicks
  <1>9. CASE ListForPlan \/ ReadForPlan \/ HandOver \/ ListForRun \/ ReadForRun
    BY <1>9 DEF ListForPlan, ReadForPlan, HandOver, ListForRun, ReadForRun, Advance
  <1>10. CASE EnterLoop
    BY <1>10 DEF EnterLoop, Loaded, loading
  <1>11. CASE NotExposed \/ NamedIsHidden \/ NamedFails \/ ListedVanished
              \/ NoDirectives \/ RouterDeclines \/ RouterInvents \/ PickedFails
              \/ ReadFails \/ PoliciesDirMissing \/ PolicyValidationFailed
              \/ NoEnforceablePolicies \/ IncompletePolicyProfile
    BY <1>11, EndingChecked
    DEF NotExposed, NamedIsHidden, NamedFails, ListedVanished, NoDirectives,
        RouterDeclines, RouterInvents, PickedFails, ReadFails,
        PoliciesDirMissing, PolicyValidationFailed, NoEnforceablePolicies,
        IncompletePolicyProfile
  <1>12. CASE Rest \/ UNCHANGED vars
    BY <1>12 DEF Rest, vars, loading
  <1> QED
    BY <1>1, <1>2, <1>3, <1>4, <1>5, <1>6, <1>7, <1>8, <1>9, <1>10, <1>11,
       <1>12 DEF Next

LEMMA StepPoliciesJudged ==
  PoliciesJudged /\ [Next]_vars => PoliciesJudged'
  <1> SUFFICES ASSUME PoliciesJudged, [Next]_vars PROVE PoliciesJudged'
    OBVIOUS
  <1>1. CASE phase' \notin {"loading", "running"}
    BY <1>1 DEF PoliciesJudged, Running
  <1>2. CASE EnterLoop
    BY <1>2 DEF EnterLoop, Loaded, PoliciesJudged, Running, Unguarded,
                files, loading
  <1>3. CASE ListForRun \/ ReadForRun
    BY <1>3 DEF ListForRun, ReadForRun, Advance, PoliciesJudged, Running
  <1>4. CASE Save
    BY <1>4 DEF Save, Ended, loading, PoliciesJudged, Running
  <1>5. CASE Rest \/ UNCHANGED vars
    BY <1>5 DEF Rest, vars, loading, PoliciesJudged, Running, Unguarded
  <1>6. CASE /\ phase' \in {"loading", "running"}
             /\ ~(EnterLoop \/ ListForRun \/ ReadForRun \/ Save \/ Rest
                  \/ UNCHANGED vars)
    BY <1>6
    DEF Next, NotExposed, PlanOverride, PlanByNameOrRouter, NamedIsHidden,
        LoadNamed, NamedFails, ListDirectives, ReadListed, ListedVanished,
        NoDirectives, AskRouter, RouterDeclines, RouterInvents, RouterPicks,
        PickedFails, ListForPlan, ReadForPlan, ReadFails, HandOver,
        PoliciesDirMissing, PolicyValidationFailed, NoEnforceablePolicies,
        IncompletePolicyProfile, Refuse, Raise, Advance, Load
  <1> QED
    BY <1>1, <1>2, <1>3, <1>4, <1>5, <1>6

\* Every state of a request satisfies the invariant.
THEOREM StagesChecked == Spec => [](TypeOK /\ DirectiveChecked /\ PoliciesJudged)
  <1>1. Init => TypeOK /\ DirectiveChecked /\ PoliciesJudged
    BY InitTyped, InitChecked
  <1>2. TypeOK /\ DirectiveChecked /\ PoliciesJudged /\ [Next]_vars
          => (TypeOK /\ DirectiveChecked /\ PoliciesJudged)'
    BY StepTyped, StepDirectiveChecked, StepPoliciesJudged
  <1> QED
    BY <1>1, <1>2, PTL DEF Spec

-----------------------------------------------------------------------------
(* What a reviewed rule would stop, its loaded copy stops.                 *)

\* A rule that keeps the posture stops what the reviewed rule stops, in every
\* directive it was not taken out of.
LEMMA PostureStops ==
  ASSUME NEW rule, NEW id \in DOMAIN Reviewed,
         PostureOf(rule) = Reviewed[id],
         NEW call, NEW history, NEW directive,
         directive \in Scope(rule.directives, Directives),
         Stops(ReviewedRule(id), call, history, directive)
  PROVE  Stops(Enforced(rule), call, history, directive)
  <1>1. /\ Enforced(rule).guard = ReviewedRule(id).guard
        /\ Enforced(rule).enforcement = ReviewedRule(id).enforcement
        /\ Enforced(rule).on_error = ReviewedRule(id).on_error
        /\ Enforced(rule).tools = ReviewedRule(id).tools
    BY DEF PostureOf, Enforced, ReviewedRule
  <1>2. Applies(Enforced(rule), call, directive)
    BY <1>1 DEF Stops, Applies, Enforced
  <1>3. ASSUME NEW a \in Answer, MayAnswer(Enforced(rule), a, call, history)
        PROVE  Refuses(Enforced(rule), a)
    <2>1. MayAnswer(ReviewedRule(id), a, call, history)
      BY <1>1, <1>3 DEF MayAnswer
    <2>2. Refuses(ReviewedRule(id), a)
      BY <2>1 DEF Stops
    <2> QED
      BY <1>1, <2>2 DEF Refuses
  <1> QED
    BY <1>2, <1>3 DEF Stops

LEMMA RefusalsFromProfile ==
  PoliciesJudged => ReviewedRefusalsKept
  <1> SUFFICES ASSUME PoliciesJudged, Profiled,
                      NEW id \in DOMAIN Reviewed, NEW p \in Probes,
                      InScope(id), StoppedByReview(id, p)
               PROVE  StoppedInRun(p)
    BY DEF ReviewedRefusalsKept
  <1>1. PostureKept(loaded)
    BY DEF PoliciesJudged, Profiled, ProfileOk
  <1>2. PICK rule \in loaded : /\ Copies(loaded, id) = {rule}
                              /\ PostureOf(rule) = Reviewed[id]
    BY <1>1 DEF PostureKept
  <1>3. rule \in Enforceable(loaded)
    BY <1>2 DEF Copies
  <1>4. run.id \in Scope(rule.directives, Directives)
    BY <1>2 DEF InScope
  <1>5. Stops(Enforced(rule), p.call, p.history, run.id)
    BY <1>2, <1>4, PostureStops DEF StoppedByReview
  <1> QED
    BY <1>3, <1>5 DEF StoppedInRun

\* Under the shipped profile a run refuses whatever the reviewed rules refuse,
\* whatever was added and however the files changed while they were read.
THEOREM RefusalsKept == Spec => []ReviewedRefusalsKept
  BY StagesChecked, RefusalsFromProfile, PTL

\* A validated rule that reaches the executor finds its guard and means what
\* its enforcement says.
LEMMA ValidRuleAnswers ==
  ASSUME NEW rules, ValidPolicies(rules), NEW rule \in Enforceable(rules),
         NEW call, NEW history
  PROVE  /\ ~MayAnswer(Enforced(rule), "missing", call, history)
         /\ Enforced(rule).tools \cap Registry # {}
         /\ Refuses(Enforced(rule), "deny") <=> rule.enforcement = "block"
  <1>1. /\ rule.enforcement \in {"block"} \cup PermissiveEnforcement
        /\ rule.enforcement # "advisory"
        /\ rule.guard \in RegisteredGuards
        /\ rule.tools # {}
        /\ rule.tools # Omitted => rule.tools \subseteq Registry
    BY DEF ValidPolicies, ValidRule, Enforceable
  <1>2. ~MayAnswer(Enforced(rule), "missing", call, history)
    BY <1>1 DEF MayAnswer, Enforced, RegisteredGuards
  <1>3. Enforced(rule).tools \cap Registry # {}
    BY <1>1, RegistryAssumption DEF Enforced, Scope
  <1>4. Refuses(Enforced(rule), "deny") <=> rule.enforcement = "block"
    BY <1>1 DEF Refuses, Enforced, PermissiveEnforcement
  <1> QED
    BY <1>2, <1>3, <1>4

LEMMA RulesLive == PoliciesJudged => NoRuleIsDead
  <1> SUFFICES ASSUME PoliciesJudged, Running PROVE NoRuleIsDead
    BY DEF NoRuleIsDead
  <1>1. ValidPolicies(loaded)
    BY DEF PoliciesJudged
  <1>2. ASSUME NEW rule \in Enforceable(loaded)
        PROVE  /\ \A p \in Probes :
                    ~MayAnswer(Enforced(rule), "missing", p.call, p.history)
               /\ Enforced(rule).tools \cap Registry # {}
               /\ Refuses(Enforced(rule), "deny")
                    <=> Enforced(rule).enforcement = "block"
    BY <1>1, <1>2, ValidRuleAnswers DEF Enforced
  <1>3. ASSUME NEW rule \in loaded \ Enforceable(loaded), Guarded(rule)
        PROVE  rule.enforcement_declared
    BY <1>1, <1>3 DEF Enforceable, ValidPolicies, ValidRule
  <1> QED
    BY <1>2, <1>3 DEF NoRuleIsDead

\* No rule of a run that started is silently off.
THEOREM RulesAreLive == Spec => []NoRuleIsDead
  BY StagesChecked, RulesLive, PTL

\* A run without guards is an operator's choice about a directory that exists.
THEOREM UnguardedChosen == Spec => []UnguardedIsChosen
  <1>1. PoliciesJudged => UnguardedIsChosen
    BY DEF PoliciesJudged, UnguardedIsChosen
  <1> QED
    BY <1>1, StagesChecked, PTL

\* What runs is the exposed directive as it was when it was checked.
THEOREM SnapshotExposed == Spec => []ExposedSnapshot
  <1>1. DirectiveChecked => ExposedSnapshot
    BY DEF DirectiveChecked, ExposedSnapshot, Running, Planned
  <1> QED
    BY <1>1, StagesChecked, PTL
=============================================================================
