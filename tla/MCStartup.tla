------------------------------ MODULE MCStartup ------------------------------
(* Two directives, three policy files with three of the seven reviewed     *)
(* rules, and the edits the gates tell apart.                              *)
EXTENDS Startup

MCTools == {"write_file", "http_request", "rogue"}
MCRegistry == MCTools \ {"rogue"}
MCDirectives == {"alpha", "beta", "odd name"}
MCSafeIds == {"alpha", "beta"}
MCPolicyNames == {"credential_proxy", "default", "extra"}
MCCustomGuards == {"check_mine", "check_two_args"}
MCWrongArity == {"check_two_args"}
MCShippedBindings == {"credential_proxy", "default"}

RawOf(id, guard, enforcement, onError, tools) ==
  [id |-> id, guard |-> guard, enforcement |-> enforcement,
   on_error |-> onError, tools |-> tools, directives |-> Omitted]

Proxy == RawOf("no_hardcoded_secrets", "check_no_raw_credentials", "block",
               "fail_closed", {"http_request"})
Budgeted == RawOf("write_budget", "check_write_budget", "block", Omitted, Omitted)
Bulk == RawOf("no_bulk_writes", "check_no_bulk_writes", "warn", "fail_open",
              {"write_file"})
Prose == RawOf("no_arbitrary_code", NoGuard, Omitted, Omitted, Omitted)
Mine == RawOf("mine", "check_mine", "block", "fail_closed", {"write_file"})

MCReviewed ==
  [id \in {"no_hardcoded_secrets", "write_budget", "no_bulk_writes"} |->
     CASE id = "no_hardcoded_secrets" ->
            [guard |-> "check_no_raw_credentials", enforcement |-> "block",
             on_error |-> "fail_closed", tools |-> {"http_request"}]
       [] id = "write_budget" ->
            [guard |-> "check_write_budget", enforcement |-> "block",
             on_error |-> "fail_closed", tools |-> Omitted]
       [] id = "no_bulk_writes" ->
            [guard |-> "check_no_bulk_writes", enforcement |-> "warn",
             on_error |-> "fail_open", tools |-> {"write_file"}]]
MCShippedRules == DOMAIN MCReviewed \cup {"no_arbitrary_code"}

DefaultFile(rules) == [id |-> "default", rules |-> rules]
ProxyFile(rules) == [id |-> "credential_proxy", rules |-> rules]
ExtraFile(rules) == [id |-> "extra", rules |-> rules]

MCPolicyFiles ==
  [f \in MCPolicyNames |->
     CASE f = "default" -> DefaultFile(<<Budgeted, Bulk, Prose>>)
       [] f = "credential_proxy" -> ProxyFile(<<Proxy>>)
       [] OTHER -> Absent]

\* One rule edited in each of the ways validation or the posture looks for.
EditedRules == {
  [Budgeted EXCEPT !.enforcement = "advisory"],
  [Budgeted EXCEPT !.enforcement = Omitted],
  [Budgeted EXCEPT !.enforcement = "Block"],
  [Budgeted EXCEPT !.enforcement = "warn"],
  [Budgeted EXCEPT !.guard = "check_absent"],
  [Budgeted EXCEPT !.guard = "check_two_args"],
  [Budgeted EXCEPT !.guard = "check_sensitive_paths"],
  [Budgeted EXCEPT !.guard = NoGuard],
  [Budgeted EXCEPT !.tools = {}], [Budgeted EXCEPT !.tools = {"rogue"}],
  [Budgeted EXCEPT !.tools = {"http_request"}],
  [Budgeted EXCEPT !.directives = {}], [Budgeted EXCEPT !.directives = {"beta"}],
  [Budgeted EXCEPT !.on_error = "fail_open"],
  [Budgeted EXCEPT !.on_error = "open"],
  [Budgeted EXCEPT !.id = "renamed"]}

MCPolicySaves ==
  {<<"default", DefaultFile(<<rule, Bulk, Prose>>)>> : rule \in EditedRules}
    \cup {<<"default", DefaultFile(<<Bulk, Prose>>)>>, <<"default", Unreadable>>,
          <<"default", DefaultFile(<<Prose>>)>>,
          <<"credential_proxy", Absent>>, <<"credential_proxy", ProxyFile(<<>>)>>,
          <<"extra", ExtraFile(<<Budgeted>>)>>, <<"extra", ExtraFile(<<Mine>>)>>}

MCDirectiveFiles ==
  [d \in MCDirectives |->
     IF d = "odd name" THEN Absent ELSE [id |-> d, tools |-> {"write_file"}]]

MCDirectiveSaves == {
  <<"alpha", [id |-> "alpha", tools |-> {"http_request"}]>>,
  <<"alpha", [id |-> "beta", tools |-> {}]>>,
  <<"beta", [id |-> "alpha", tools |-> {}]>>,
  <<"alpha", Absent>>, <<"beta", Absent>>,
  <<"odd name", [id |-> "odd name", tools |-> {}]>>}

Ask(id, allowed) ==
  [entry |-> "api", id |-> id, override |-> NoPlan, allowed |-> allowed,
   policiesExist |-> TRUE, optOut |-> FALSE, profile |-> "shipped"]
InMemory == [id |-> "beta", tools |-> {"write_file"}]

ByDirective == {
  Ask("alpha", AnyDirective), Ask("beta", {"alpha"}), Ask("odd name", AnyDirective),
  Ask(NoId, AnyDirective), Ask(NoId, {"alpha"}), Ask(NoId, {}),
  [Ask("alpha", {"alpha"}) EXCEPT !.override = InMemory],
  [Ask(NoId, {"alpha"}) EXCEPT !.override = InMemory],
  [Ask("alpha", {"alpha"}) EXCEPT !.entry = "mcp"],
  [Ask("beta", {"alpha"}) EXCEPT !.entry = "mcp"]}
ByPolicy ==
  {[Ask("alpha", AnyDirective) EXCEPT !.policiesExist = e, !.optOut = o,
                                      !.profile = p] :
     e \in BOOLEAN, o \in BOOLEAN, p \in {"shipped", "custom", "Shipped"}}
MCRequests == ByDirective \cup ByPolicy

AWrite == [tool |-> "write_file", path |-> "a", marks |-> {}]
ACredential == [tool |-> "http_request", path |-> NoPath, marks |-> {"credential"}]
Written == [tool |-> "write_file", path |-> "a", marks |-> {}, ran |-> TRUE,
            success |-> TRUE]
MCProbes == [call : {AWrite, ACredential}, history : {<<>>, <<Written>>}]
=============================================================================
