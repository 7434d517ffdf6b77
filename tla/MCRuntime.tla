----------------------------- MODULE MCRuntime ------------------------------
(* Small deployments, calls and replies for model-checking Runtime.        *)
EXTENDS Runtime

MCNoStep == -1

ToolNames == {"write_file", "delete_file", "http_request", "rogue"}
RegisteredTools == ToolNames \ {"rogue"}
DirectiveIds == {"here", "elsewhere"}

ARule(guard, enforcement, onError, tools) ==
  [guard |-> guard, enforcement |-> enforcement, on_error |-> onError,
   tools |-> tools, directives |-> DirectiveIds]

\* The seven enforceable rules of policies/*.yaml, in load order.
ShippedRules == <<
  ARule("check_no_raw_credentials", "block", "fail_closed", {"http_request"}),
  ARule("check_destructive_action", "warn", "fail_open", {"delete_file"}),
  ARule("check_reason_not_empty", "warn", "fail_open", ToolNames),
  ARule("check_no_secrets_in_args", "block", "fail_closed", ToolNames),
  ARule("check_sensitive_paths", "block", "fail_closed",
        {"write_file", "delete_file"}),
  ARule("check_no_bulk_writes", "warn", "fail_open", {"write_file"}),
  ARule("check_write_budget", "block", "fail_closed", ToolNames)>>

\* A custom profile with everything validation would have caught left in,
\* since the executor must not depend on it.
CustomRules == <<
  ARule("check_absent", "block", "fail_open", {"http_request"}),
  ARule("check_absent", "warn", "fail_closed", {"delete_file"}),
  ARule("check_mine", "Block", "fail_closed", {"http_request", "write_file"}),
  [ARule("check_sensitive_paths", "block", "fail_closed", ToolNames)
     EXCEPT !.directives = {"elsewhere"}],
  ARule("check_mine", "warn", "fail_open", ToolNames)>>

Deployment(rules, maxSteps) ==
  [loads |-> TRUE, policies |-> "ok", rules |-> rules, optOut |-> FALSE,
   profileOk |-> TRUE, tools |-> ToolNames \ {"rogue"}, directive |-> "here",
   maxSteps |-> maxSteps]

ShippedConfigs == {Deployment(ShippedRules, 3)}
CustomConfigs == {[Deployment(CustomRules, 2) EXCEPT !.tools = ToolNames]}
\* The custom profile with every tool in scope, and everything the gates tell
\* apart with one registered tool out of it.
AnyConfigs == CustomConfigs \cup
  {[Deployment(rules, n) EXCEPT !.loads = l, !.policies = p, !.optOut = o,
                                !.profileOk = ok, !.tools = ToolNames \ {"http_request"}] :
     rules \in {<<>>, SubSeq(ShippedRules, 7, 7)}, n \in {-2, 0, 1, 2},
     l \in BOOLEAN, p \in {"missing", "unreadable", "invalid", "ok"},
     o \in BOOLEAN, ok \in BOOLEAN}

ACall(tool, path, marks) == [tool |-> tool, path |-> path, marks |-> marks]

WriteCalls == {
  ACall("write_file", "a", {}), ACall("write_file", "b", {"no_reason"}),
  ACall("write_file", Unhashable, {"bad_args"}),
  ACall("delete_file", "a", {}), ACall("delete_file", "b", {"sensitive"}),
  ACall("http_request", NoPath, {"credential"})}
MixedCalls == {
  ACall("write_file", "a", {"sensitive"}), ACall("delete_file", "a", {}),
  ACall("http_request", NoPath, {}), ACall("http_request", NoPath, {"bad_args"}),
  ACall("rogue", NoPath, {})}

Reply1(refused, done, c) == [refused |-> refused, done |-> done, call |-> c]

Replies(calls) ==
  {Reply1("absent", "absent", c) : c \in calls}
    \cup {Reply1("absent", "true", NoCall)}
WriteReplies == Replies(WriteCalls)
MixedReplies == Replies(MixedCalls)
\* Every combination of the three keys, around one call.
ShapeReplies ==
  [refused : KeyRead, done : KeyRead,
   call : {ACall("write_file", "a", {}), NoCall}]
    \ {Reply1("absent", "absent", NoCall)}
AnyReplies == MixedReplies \cup ShapeReplies
=============================================================================
