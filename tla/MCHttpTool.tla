----------------------------- MODULE MCHttpTool -----------------------------
(* Two hosts, a name that may answer with public and private addresses, an  *)
(* embedder whose security inputs are absent, empty, real or UNRESTRICTED.  *)
EXTENDS HttpTool

ToolNames == {"write_file", "http_request", "rogue"}
RegisteredTools == {"write_file", "http_request"}
MCNoStep == -1

BudgetRule == [guard |-> "check_write_budget", enforcement |-> "block",
               on_error |-> "fail_closed", tools |-> ToolNames,
               directives |-> {"here"}]
TypoRule == [guard |-> "check_absent", enforcement |-> "warn",
             on_error |-> "Fail_Open", tools |-> {"http_request"},
             directives |-> {"here"}]

Base == [toolsArg |-> "value", tools |-> {"write_file", "http_request"},
         rulesArg |-> "value", rules |-> <<BudgetRule>>,
         historyArg |-> TRUE, directive |-> "here"]

MCContexts ==
  {Base,
   [Base EXCEPT !.toolsArg = "none"],
   [Base EXCEPT !.toolsArg = "unrestricted", !.rulesArg = "unrestricted"],
   [Base EXCEPT !.tools = {}], [Base EXCEPT !.tools = {"write_file"}],
   [Base EXCEPT !.rulesArg = "none"],
   [Base EXCEPT !.rules = <<>>], [Base EXCEPT !.rules = <<TypoRule, BudgetRule>>],
   [Base EXCEPT !.historyArg = FALSE]}

MCCalls ==
  {[tool |-> t, path |-> NoPath, marks |-> {}] : t \in ToolNames}
    \cup {[tool |-> "http_request", path |-> NoPath, marks |-> {"bad_args"}]}

MCAnswers == {{}, {"public1", "public2"}, {"public1", "private"}}

Url(scheme, host) == [scheme |-> scheme, host |-> host]

MCTargets == {Url("http", "host.example"), Url("https", "other.example"),
              Url("http", "other.example"), Url("other", "host.example")}

MCProxySettings == {{Url("https", "other.example")}}

MCCredentials ==
  {[alias |-> FALSE, safe |-> TRUE, request |-> FALSE, env |-> FALSE, backend |-> "unset"],
   [alias |-> TRUE, safe |-> TRUE, request |-> FALSE, env |-> FALSE, backend |-> "empty"],
   [alias |-> TRUE, safe |-> TRUE, request |-> FALSE, env |-> FALSE, backend |-> "broken"]}
=============================================================================
