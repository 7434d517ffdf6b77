------------------------------- MODULE Startup -------------------------------
(***************************************************************************)
(* From a request to the first model turn: the MCP server's exposure       *)
(* check, the Plan stage (a directive by name or by the router), and the   *)
(* gates of _run_impl up to the loop that module Runtime models.           *)
(*                                                                         *)
(* Directive and policy files are read one at a time while their authors   *)
(* save new versions, so a policy set can be loaded that no moment's       *)
(* directory held.  Files of one directory are read in any order here; the *)
(* code reads them by name.                                                *)
(***************************************************************************)
EXTENDS PolicyGate

CONSTANTS
  SafeIds,         \* directive ids DIRECTIVE_ID_RE matches
  PolicyNames,     \* names of policy files
  NoId,            \* directive_id "" or None: the router chooses
  NoPlan,          \* nothing planned; no override
  AnyDirective,    \* allowed_directive_ids is None
  Absent,          \* no such file
  Unreadable,      \* a policy file load_policy() raises on
  Requests,        \* what callers ask
  DirectiveFiles,  \* the directives directory at the start
  PolicyFiles,     \* the policies directory at the start
  DirectiveSaves,  \* what authors may save: <<name, new content>>
  PolicySaves,
  Probes,          \* calls and histories the properties look at
  MaxSaves         \* bound on the number of saves during one request

VARIABLES
  directives,  \* the directives directory
  policies,    \* the policies directory
  saves,       \* saves made since the request came in
  req,         \* the request
  phase,       \* where it is
  todo,        \* files listed and not yet read
  shown,       \* ids of the directives the router is shown
  plan,        \* the directive of the Plan
  run,         \* the directive the run is given
  loaded,      \* rules read for the run
  bindings,    \* ids of the bindings read for the run
  event        \* event of the result's meta, or the notice of an unguarded run

files == <<directives, policies, saves>>
loading == <<todo, shown, plan, run, loaded, bindings>>
vars == <<files, req, phase, loading, event>>

\* A directive as load_directive() reads it; without a usable front matter it
\* declares its file's name and no tools.
Directive == [id : Directives, tools : SUBSET Tools]

PolicyFile == [id : STRING, rules : Seq(RawRule)]

Request == [entry : {"api", "mcp"}, id : {NoId} \cup Directives,
            override : {NoPlan} \cup Directive,
            allowed : {AnyDirective} \cup SUBSET Directives,
            policiesExist : BOOLEAN, optOut : BOOLEAN, profile : STRING]

Probe == [call : Call, history : Seq(Entry)]

ASSUME SafeIdsAssumption == SafeIds \subseteq Directives
ASSUME NoIdAssumption == NoId \notin Directives
ASSUME NoPlanAssumption == NoPlan \notin Directive
ASSUME AbsentAssumption == Absent \notin Directive
ASSUME AnyDirectiveAssumption == \A ids \in SUBSET Directives : ids # AnyDirective
\* The MCP handler always has its exposure list and no override.
ASSUME RequestsAssumption ==
  /\ Requests \subseteq Request
  /\ \A r \in Requests :
       r.entry = "mcp" => r.allowed # AnyDirective /\ r.override = NoPlan
ASSUME MaxSavesAssumption == MaxSaves \in Nat
ASSUME ProbesAssumption == Probes \subseteq Probe
ASSUME DirectiveFilesAssumption ==
  /\ DirectiveFiles \in [Directives -> {Absent} \cup Directive]
  /\ DirectiveSaves \subseteq Directives \X ({Absent} \cup Directive)
ASSUME PolicyFilesAssumption ==
  /\ PolicyFiles \in [PolicyNames -> {Absent, Unreadable} \cup PolicyFile]
  /\ PolicySaves \subseteq PolicyNames \X ({Absent, Unreadable} \cup PolicyFile)

Ended == {"running", "refused", "raised"}

RouterEvents == {
  "router_backend_error", "router_parse_failed", "router_schema_failed",
  "router_multiple", "router_none", "router_unknown_decision"}

StartEvents == RouterEvents \cup {
  "none", "directive_not_exposed", "router_no_directives",
  "router_missing_directive", "directive_load_failed", "policies_dir_missing",
  "policy_validation_failed", "no_enforceable_policies",
  "incomplete_policy_profile", "unguarded_mode_enabled"}

TypeOK ==
  /\ directives \in [Directives -> {Absent} \cup Directive]
  /\ policies \in [PolicyNames -> {Absent, Unreadable} \cup PolicyFile]
  /\ saves \in 0..MaxSaves
  /\ req \in Requests
  /\ phase \in Ended \cup {"request", "named", "list", "listing", "router",
                           "plan", "planning", "execute", "loading"}
  /\ phase = "listing" => todo \subseteq Directives
  /\ phase \in {"planning", "loading"} => todo \subseteq PolicyNames
  /\ shown \subseteq Directives
  /\ {plan, run} \subseteq {NoPlan} \cup Directive
  /\ bindings \subseteq STRING
  /\ event \in StartEvents

Init ==
  /\ directives = DirectiveFiles
  /\ policies = PolicyFiles
  /\ saves = 0
  /\ req \in Requests
  /\ phase = "request"
  /\ todo = {} /\ shown = {} /\ loaded = {} /\ bindings = {}
  /\ plan = NoPlan /\ run = NoPlan
  /\ event = "none"

-----------------------------------------------------------------------------
(* The authors of the files.                                               *)

Save ==
  /\ phase \notin Ended
  /\ saves < MaxSaves
  /\ saves' = saves + 1
  /\ \/ \E s \in DirectiveSaves :
          /\ directives' = [directives EXCEPT ![s[1]] = s[2]]
          /\ UNCHANGED policies
     \/ \E s \in PolicySaves :
          /\ policies' = [policies EXCEPT ![s[1]] = s[2]]
          /\ UNCHANGED directives
  /\ UNCHANGED <<req, phase, loading, event>>

-----------------------------------------------------------------------------
(* Endings.                                                                *)

Refuse(name) ==
  /\ phase' = "refused"
  /\ event' = name
  /\ UNCHANGED <<files, req, loading>>

\* An exception nobody in the pipeline catches.  The MCP handler answers it
\* with an empty meta; run() and route_and_run() let it through.
Raise ==
  /\ phase' = IF req.entry = "mcp" THEN "refused" ELSE "raised"
  /\ UNCHANGED <<files, req, loading, event>>

Advance(to) ==
  /\ phase' = to
  /\ UNCHANGED <<files, req, event>>

-----------------------------------------------------------------------------
(* Entry.  DefaultPlan looks at directive_id alone: without one the router *)
(* chooses, whatever the override.                                         *)

NotExposed ==
  /\ phase = "request"
  /\ req.entry = "mcp"
  /\ req.id \notin req.allowed
  /\ Refuse("directive_not_exposed")

Accepted ==
  /\ phase = "request"
  /\ req.entry = "mcp" => req.id \in req.allowed

ByOverride == req.id # NoId /\ req.override # NoPlan

PlanOverride ==
  /\ Accepted
  /\ ByOverride
  /\ plan' = req.override
  /\ Advance("plan")
  /\ UNCHANGED <<todo, shown, run, loaded, bindings>>

PlanByNameOrRouter ==
  /\ Accepted
  /\ ~ByOverride
  /\ Advance(IF req.id = NoId THEN "list" ELSE "named")
  /\ UNCHANGED loading

-----------------------------------------------------------------------------
(* load_directive_by_id().                                                 *)

ExposedIds == IF req.allowed = AnyDirective THEN Directives ELSE req.allowed
Exposed(id) == id \in ExposedIds

Loadable(id) ==
  /\ id \in SafeIds
  /\ directives[id] # Absent
  /\ directives[id].id = id

Load(id) ==
  /\ Loadable(id)
  /\ plan' = directives[id]
  /\ Advance("plan")
  /\ UNCHANGED <<todo, shown, run, loaded, bindings>>

(* _plan_from_directive_id().                                              *)

NamedIsHidden ==
  /\ phase = "named"
  /\ ~Exposed(req.id)
  /\ Refuse("router_missing_directive")

LoadNamed ==
  /\ phase = "named"
  /\ Exposed(req.id)
  /\ Load(req.id)

NamedFails ==
  /\ phase = "named"
  /\ Exposed(req.id)
  /\ ~Loadable(req.id)
  /\ Refuse("directive_load_failed")

-----------------------------------------------------------------------------
(* _plan_from_router().                                                    *)

ListDirectives ==
  /\ phase = "list"
  /\ todo' = {d \in Directives : directives[d] # Absent}
  /\ Advance("listing")
  /\ UNCHANGED <<shown, plan, run, loaded, bindings>>

\* The id a file declares is what the filter and the router see.
ReadListed ==
  /\ phase = "listing"
  /\ \E d \in todo :
       /\ directives[d] # Absent
       /\ todo' = todo \ {d}
       /\ shown' = shown \cup {i \in {directives[d].id} : Exposed(i)}
  /\ UNCHANGED <<files, req, phase, plan, run, loaded, bindings, event>>

ListedVanished ==
  /\ phase = "listing"
  /\ \E d \in todo : directives[d] = Absent
  /\ Raise

NoDirectives ==
  /\ phase = "listing" /\ todo = {}
  /\ shown = {}
  /\ Refuse("router_no_directives")

AskRouter ==
  /\ phase = "listing" /\ todo = {}
  /\ shown # {}
  /\ Advance("router")
  /\ UNCHANGED loading

\* The backend fails, or its reply does not name one directive.
RouterDeclines ==
  /\ phase = "router"
  /\ \E name \in RouterEvents : Refuse(name)

RouterInvents ==
  /\ phase = "router"
  /\ Refuse("router_missing_directive")

RouterPicks ==
  /\ phase = "router"
  /\ \E id \in shown : Load(id)

\* Unlike a named directive, a picked one is loaded outside a try.
PickedFails ==
  /\ phase = "router"
  /\ \E id \in shown : ~Loadable(id)
  /\ Raise

-----------------------------------------------------------------------------
(* load_policies().                                                        *)

PresentPolicies ==
  {f \in PolicyNames : req.policiesExist /\ policies[f] # Absent}

Broken(f) == policies[f] \in {Absent, Unreadable}

RulesOf(f) ==
  {ReadRule(policies[f].rules[k], <<f, k>>) : k \in DOMAIN policies[f].rules}

\* The Plan stage reads the policies for Plan.policies_text, which nothing
\* uses afterwards; only an exception matters.
ListForPlan ==
  /\ phase = "plan"
  /\ todo' = PresentPolicies
  /\ Advance("planning")
  /\ UNCHANGED <<shown, plan, run, loaded, bindings>>

ReadForPlan ==
  /\ phase = "planning"
  /\ \E f \in todo : ~Broken(f) /\ todo' = todo \ {f}
  /\ UNCHANGED <<files, req, phase, shown, plan, run, loaded, bindings, event>>

ReadFails ==
  /\ phase \in {"planning", "loading"}
  /\ \E f \in todo : Broken(f)
  /\ Raise

\* Mutant: the Execute stage loads the directive again.
HandOverReloaded ==
  /\ phase = "planning" /\ todo = {}
  /\ run' = IF ~ByOverride /\ Loadable(plan.id) THEN directives[plan.id] ELSE plan
  /\ Advance("execute")
  /\ UNCHANGED <<todo, shown, plan, loaded, bindings>>

\* DefaultExecute hands the planned snapshot over as the override.
HandOver ==
  /\ phase = "planning" /\ todo = {}
  /\ run' = plan
  /\ Advance("execute")
  /\ UNCHANGED <<todo, shown, plan, loaded, bindings>>

-----------------------------------------------------------------------------
(* The gates of _run_impl.                                                 *)

\* Mutant: an event outside the catalogue.
PoliciesDirMisnamed ==
  /\ phase = "execute"
  /\ ~req.policiesExist
  /\ Refuse("policies_missing")

PoliciesDirMissing ==
  /\ phase = "execute"
  /\ ~req.policiesExist
  /\ Refuse("policies_dir_missing")

\* Mutant: a missing directory reads as an empty one.
ListForRunAnywhere ==
  /\ phase = "execute"
  /\ todo' = PresentPolicies
  /\ Advance("loading")
  /\ UNCHANGED <<shown, plan, run, loaded, bindings>>

ListForRun ==
  /\ phase = "execute"
  /\ req.policiesExist
  /\ todo' = PresentPolicies
  /\ Advance("loading")
  /\ UNCHANGED <<shown, plan, run, loaded, bindings>>

ReadForRun ==
  /\ phase = "loading"
  /\ \E f \in todo :
       /\ ~Broken(f)
       /\ todo' = todo \ {f}
       /\ loaded' = loaded \cup RulesOf(f)
       /\ bindings' = bindings \cup {policies[f].id}
  /\ UNCHANGED <<files, req, phase, shown, plan, run, event>>

Loaded == phase = "loading" /\ todo = {}
Unguarded == Enforceable(loaded) = {}

PolicyValidationFailed ==
  /\ Loaded
  /\ ~ValidPolicies(loaded)
  /\ Refuse("policy_validation_failed")

NoEnforceablePolicies ==
  /\ Loaded /\ ValidPolicies(loaded)
  /\ Unguarded /\ ~req.optOut
  /\ Refuse("no_enforceable_policies")

IncompletePolicyProfile ==
  /\ Loaded /\ ValidPolicies(loaded)
  /\ ~Unguarded /\ ~ProfileOk(req.profile, bindings, loaded)
  /\ Refuse("incomplete_policy_profile")

EnterLoop ==
  /\ Loaded /\ ValidPolicies(loaded)
  /\ IF Unguarded THEN req.optOut
                  ELSE ProfileOk(req.profile, bindings, loaded)
  /\ phase' = "running"
  /\ event' = IF Unguarded THEN "unguarded_mode_enabled" ELSE event
  /\ UNCHANGED <<files, req, loading>>

-----------------------------------------------------------------------------

Rest == phase \in Ended /\ UNCHANGED vars

Next ==
  \/ Save
  \/ NotExposed \/ PlanOverride \/ PlanByNameOrRouter
  \/ NamedIsHidden \/ LoadNamed \/ NamedFails
  \/ ListDirectives \/ ReadListed \/ ListedVanished \/ NoDirectives
  \/ AskRouter \/ RouterDeclines \/ RouterInvents \/ RouterPicks \/ PickedFails
  \/ ListForPlan \/ ReadForPlan \/ ReadFails \/ HandOver
  \/ PoliciesDirMissing \/ ListForRun \/ ReadForRun
  \/ PolicyValidationFailed \/ NoEnforceablePolicies \/ IncompletePolicyProfile
  \/ EnterLoop
  \/ Rest

Spec == Init /\ [][Next]_vars

-----------------------------------------------------------------------------
(* What a started run can rely on.                                         *)

Running == phase = "running"
Profiled == Running /\ req.profile = "shipped" /\ ~Unguarded

StoppedByReview(id, p) ==
  Stops(ReviewedRule(id), p.call, p.history, run.id)

StoppedInRun(p) ==
  \E rule \in Enforceable(loaded) :
    Stops(Enforced(rule), p.call, p.history, run.id)

\* No directive the run is for was taken out of the rule's `directives`.
InScope(id) ==
  \A rule \in Copies(loaded, id) :
    run.id \in Scope(rule.directives, Directives)

\* "An added rule can only add a check, it cannot weaken one already there":
\* under the shipped profile, however the files were edited while they were
\* read, a call that a reviewed rule would stop is stopped in the run, if the
\* rule was not limited to other directives.
ReviewedRefusalsKept ==
  Profiled =>
    \A id \in DOMAIN Reviewed, p \in Probes :
      InScope(id) /\ StoppedByReview(id, p) => StoppedInRun(p)

\* docs/API.md: "removing a reviewed rule or editing one so it stops enforcing
\* refuses".  The same without the exception for `directives`.
ReviewedRefusalsHold ==
  Profiled =>
    \A id \in DOMAIN Reviewed, p \in Probes :
      StoppedByReview(id, p) => StoppedInRun(p)

\* Nothing in a policy file is silently off once a run has started: an
\* enforced rule finds its guard and covers a registered tool, a denial of
\* it refuses exactly if it is a `block` rule, and a guarded rule that is not
\* enforced was declared advisory.
NoRuleIsDead ==
  Running =>
    /\ \A rule \in Enforceable(loaded) :
         LET r == Enforced(rule)
         IN  /\ \A p \in Probes : ~MayAnswer(r, "missing", p.call, p.history)
             /\ r.tools \cap Registry # {}
             /\ Refuses(r, "deny") <=> r.enforcement = "block"
    /\ \A rule \in loaded \ Enforceable(loaded) :
         Guarded(rule) => rule.enforcement_declared

\* A run without any guard was asked for by the operator and loaded from a
\* directory that exists: no saves and no mistyped path bring it about.
UnguardedIsChosen ==
  Running /\ Unguarded =>
    /\ req.optOut /\ req.policiesExist
    /\ event = "unguarded_mode_enabled"

\* The comment in DefaultExecute: what runs is the snapshot that passed
\* planning and the exposure check, in spite of later saves, of files that
\* declare another id than their name, and of the router.
ExposedSnapshot ==
  Running /\ ~ByOverride =>
    /\ run = plan
    /\ Exposed(run.id)
    /\ run.id \in SafeIds
    /\ req.id # NoId => run.id = req.id
=============================================================================
