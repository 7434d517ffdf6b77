------------------------------ MODULE HttpTool ------------------------------
(***************************************************************************)
(* http_request as a tool body of execute(): the executor enters it, the   *)
(* request runs, and the way it ends becomes the call's reply and its      *)
(* audit event.  The caller is DirectCaller's embedder.                    *)
(***************************************************************************)
EXTENDS DirectCaller, Egress

vars == <<execVars, egressVars>>

HttpInit == Init /\ EgressInit

InHttp == pc = "invoke" /\ call.tool = "http_request"

\* Everything but the body of http_request.
CallerStep ==
  /\ ~InHttp
  /\ Begin \/ ExecuteStep \/ Enough
  /\ UNCHANGED egressVars

\* Nothing of a request outlives its call.
CallRecorded ==
  /\ Record
  /\ req' = NoRequest /\ pool' = {} /\ opened' = {}
  /\ UNCHANGED <<dns, rebinds, proxied>>

RequestCode == InHttp /\ EgressCode /\ UNCHANGED execVars
RequestServer == InHttp /\ EgressServer /\ UNCHANGED execVars

\* Mutant: a refusal is returned under a key other than `error`.
BodyReturnsRefusal ==
  /\ InHttp /\ req.phase = "done"
  /\ \/ req.ending \in {"ok", "refused"} /\ ToolReturns
     \/ req.ending \in {"timeout", "failed"} /\ ToolRefuses
     \/ req.ending = "raised" /\ ToolRaises
  /\ req' = [req EXCEPT !.phase = "idle"]
  /\ UNCHANGED <<dns, rebinds, proxied, pool, opened>>

\* The handlers of http_request answer every exception of the exchange with
\* an `error`; one of the secret store's leaves the tool.
BodyEnds ==
  /\ InHttp /\ req.phase = "done"
  /\ \/ req.ending = "ok" /\ ToolReturns
     \/ req.ending \in {"refused", "timeout", "failed"} /\ ToolRefuses
     \/ req.ending = "raised" /\ ToolRaises
  /\ req' = [req EXCEPT !.phase = "idle"]
  /\ UNCHANGED <<dns, rebinds, proxied, pool, opened>>

NamesChange == Rebind /\ UNCHANGED execVars

HttpNext == CallerStep \/ CallRecorded \/ RequestCode \/ RequestServer \/ BodyEnds \/ NamesChange

HttpSpec == HttpInit /\ [][HttpNext]_vars

\* Python runs on, a resolver answers and connecting has a timeout; neither
\* the embedder nor a server that keeps sending must do anything.
CallRuns ==
  \/ ~InHttp /\ ExecuteStep /\ UNCHANGED egressVars
  \/ RequestCode
  \/ BodyEnds

FairHttpSpec == HttpSpec /\ WF_vars(CallRuns)

-----------------------------------------------------------------------------
\* What the model and the audit log are told of a request is how it ended:
\* success only after an answer, a refusal, a timeout or a failure as
\* tool_refused, a broken secret store as the exception it raised; and a
\* request refused before its first connection reached nothing.
RefusalIsTold ==
  pc = "returned" /\ reply.ran /\ call.tool = "http_request" =>
    /\ reply.success <=> req.ending = "ok"
    /\ ~reply.success =>
         /\ log # <<>>
         /\ log[Len(log)].event \in
              IF req.ending = "raised" THEN {"tool_type_error", "tool_execution_error"}
              ELSE {"tool_refused"}
    /\ reply.success => opened # {} \/ req.relayed
    /\ req.ending \in {"refused", "raised"} /\ req.hops = 0 => opened = {}
    /\ pool = {}

\* A call ends, however many addresses refuse the connection and whatever the
\* names answer; only a server that never stops sending can hold it (the
\* timeout is one of each read).
CallEndsOrServerHolds ==
  []<>(pc \in {"idle", "returned"}) \/ <>[](req.phase = "reading")
=============================================================================
