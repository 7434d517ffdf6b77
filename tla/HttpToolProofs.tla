--------------------------- MODULE HttpToolProofs ---------------------------
(***************************************************************************)
(* Proofs about HttpTool, for any hosts, addresses, stores, redirects and  *)
(* DNS changes, and any rules, contexts and calls of the embedder.         *)
(***************************************************************************)
EXTENDS HttpTool, ExecutorProofs

-----------------------------------------------------------------------------
(* Types of the request.                                                   *)

LEMMA AskTyped ==
  /\ \A target \in Targets : Ask(target) \in Request
  /\ NoRequest \in Request
  <1>1. \A target \in Targets : Ask(target) \in Request
    BY LimitsAssumption DEF Ask, Request, Ending
  <1>2. (CHOOSE target \in Targets : TRUE) \in Targets
    BY TargetsAssumption
  <1>3. NoRequest \in Request
    BY <1>1, <1>2 DEF NoRequest, Request
  <1> QED
    BY <1>1, <1>3

LEMMA EgressInitTyped == EgressInit => EgressTypeOK
  BY AskTyped, LimitsAssumption DEF EgressInit, EgressTypeOK

LEMMA EndedTyped ==
  ASSUME NEW r \in Request, NEW ending \in Ending, Ended(r, ending)
  PROVE  req' \in Request /\ pool' = {} /\ req'.phase = "done"
  BY DEF Ended, Request

LEMMA BeginRequestTyped ==
  ASSUME EgressTypeOK, BeginRequest
  PROVE  EgressTypeOK'
  <1>1. PICK target \in Targets, known \in BOOLEAN, credential \in Credentials :
          \/ RefuseRequest(target, known, credential)
          \/ LoseCredential(target, known, credential)
          \/ SendRequest(target, known, credential)
    BY DEF BeginRequest
  <1>2. req' \in Request /\ pool' \subseteq Connection
    BY <1>1, AskTyped, EndedTyped
       DEF RefuseRequest, LoseCredential, SendRequest, Ending, EgressTypeOK
  <1>3. opened' = {} /\ Keep
    BY <1>1 DEF RefuseRequest, LoseCredential, SendRequest, Asked
  <1> QED
    BY <1>2, <1>3 DEF Keep, EgressTypeOK

LEMMA HopTyped ==
  ASSUME EgressTypeOK,
         \/ NoAdapter \/ Relay \/ Reuse \/ LookupFails \/ Blocked \/ Resolve
         \/ Connect \/ DialTimesOut \/ DialFails \/ EgressServer
  PROVE  EgressTypeOK'
  <1> USE DEF EgressTypeOK
  <1>0. Keep
    BY DEF NoAdapter, Relay, Reuse, LookupFails, Blocked, Resolve, Connect, DialTimesOut,
           DialFails, EgressServer, Redirect, Answered, BreaksOff, Direct, Mounted,
           Connecting, Dialling, Reading
  <1>1. CASE NoAdapter \/ LookupFails \/ Blocked \/ DialTimesOut
    BY <1>0, <1>1, EndedTyped DEF NoAdapter, LookupFails, Blocked, DialTimesOut, Ending, Keep
  <1>2. CASE Relay \/ Reuse
    BY <1>0, <1>2 DEF Relay, Reuse, Keep, Request
  <1>3. CASE Resolve
    <2>1. dns[req.target.host] \subseteq Addresses
      BY AnswersAssumption, TargetsAssumption DEF Request
    <2> QED
      BY <1>0, <1>3, <2>1 DEF Resolve, Keep, Request
  <1>4. CASE Connect
    <2>1. PICK addr \in req.left :
            /\ pool' = pool \cup {[target |-> req.target, addr |-> addr, answer |-> req.answer]}
            /\ opened' = opened \cup {[target |-> req.target, addr |-> addr, answer |-> req.answer]}
      BY <1>4 DEF Connect
    <2>2. [target |-> req.target, addr |-> addr, answer |-> req.answer] \in Connection
      BY DEF Connection, Request
    <2>3. req' \in Request
      BY <1>4 DEF Connect, Request
    <2> QED
      BY <1>0, <2>1, <2>2, <2>3 DEF Keep
  <1>5. CASE DialFails
    <2>1. PICK addr \in req.left :
            IF req.left = {addr} THEN Ended(req, "failed")
            ELSE req' = [req EXCEPT !.left = req.left \ {addr}] /\ UNCHANGED pool
      BY <1>5 DEF DialFails
    <2>2. req' \in Request /\ pool' \subseteq Connection
      BY <2>1, EndedTyped DEF Request, Ending
    <2> QED
      BY <1>0, <1>5, <2>2 DEF DialFails, Keep
  <1>6. CASE EgressServer
    <2>1. CASE Redirect
      <3>1. PICK target \in Targets, kept \in SUBSET pool :
              IF req.hops = MaxHops THEN Ended(req, "failed")
              ELSE /\ req' = [req EXCEPT !.phase = "connect", !.target = target,
                                         !.hops = req.hops + 1]
                   /\ pool' = kept
        BY <2>1 DEF Redirect
      <3>2. CASE req.hops = MaxHops
        BY <3>1, <3>2, EndedTyped, <1>0, <2>1 DEF Redirect, Reading, Keep, Ending
      <3>3. CASE req.hops # MaxHops
        <4>1. req.hops + 1 \in 0 .. MaxHops
          BY <3>3, LimitsAssumption DEF Request
        <4>2. req' \in Request
          BY <3>1, <3>3, <4>1 DEF Request
        <4> QED
          BY <3>1, <3>3, <4>2, <1>0, <2>1 DEF Redirect, Reading, Keep
      <3> QED
        BY <3>2, <3>3
    <2>2. CASE Answered \/ BreaksOff
      BY <1>0, <2>2, EndedTyped DEF Answered, BreaksOff, Reading, Ending, Keep
    <2> QED
      BY <1>6, <2>1, <2>2 DEF EgressServer
  <1> QED
    BY <1>1, <1>2, <1>3, <1>4, <1>5, <1>6

LEMMA RebindTyped ==
  ASSUME EgressTypeOK, Rebind
  PROVE  EgressTypeOK'
  BY LimitsAssumption DEF Rebind, EgressTypeOK

LEMMA HttpNextTyped == EgressTypeOK /\ [HttpNext]_vars => EgressTypeOK'
  <1> SUFFICES ASSUME EgressTypeOK, [HttpNext]_vars PROVE EgressTypeOK'
    OBVIOUS
  <1>1. CASE CallerStep \/ UNCHANGED vars
    BY <1>1 DEF CallerStep, vars, egressVars, EgressTypeOK
  <1>2. CASE CallRecorded
    BY <1>2, AskTyped DEF CallRecorded, EgressTypeOK
  <1>3. CASE RequestCode
    BY <1>3, BeginRequestTyped, HopTyped DEF RequestCode, EgressCode
  <1>4. CASE RequestServer
    BY <1>4, HopTyped DEF RequestServer
  <1>5. CASE BodyEnds
    <2>1. req' \in Request
      BY <1>5 DEF BodyEnds, EgressTypeOK, Request
    <2> QED
      BY <1>5, <2>1 DEF BodyEnds, EgressTypeOK
  <1>6. CASE NamesChange
    BY <1>6, RebindTyped DEF NamesChange
  <1> QED
    BY <1>1, <1>2, <1>3, <1>4, <1>5, <1>6 DEF HttpNext

\* Every state of the request, its connections and the DNS has its type, for
\* any hosts, addresses, redirects and changes of the names.
THEOREM HttpTypeCorrect == HttpSpec => []EgressTypeOK
  <1>1. HttpInit => EgressTypeOK
    BY EgressInitTyped DEF HttpInit
  <1> QED
    BY <1>1, HttpNextTyped, PTL DEF HttpSpec

-----------------------------------------------------------------------------
(* Only vetted addresses are reached.                                      *)

\* A connection to an address of its own lookup, which gave no denied one.
VettedConnection(c) == c.addr \in c.answer /\ c.answer \cap Denied = {}

\* What makes OnlyVettedReached inductive: the pool holds connections this
\* request opened, and what is left to dial is part of a vetted answer,
\* whatever the name answers by now.
VetInv ==
  /\ \A c \in opened : VettedConnection(c)
  /\ pool \subseteq opened
  /\ req.phase \in {"idle", "done"} => pool = {}
  /\ req.phase = "dial" => req.left \subseteq req.answer /\ req.answer \cap Denied = {}
  /\ req.phase = "reading" /\ ~req.relayed => \E c \in opened : c.target = req.target

LEMMA EndedVetted ==
  ASSUME NEW r \in Request, NEW ending, Ended(r, ending),
         \A c \in opened' : VettedConnection(c)
  PROVE  VetInv'
  BY DEF Ended, VetInv, Request

LEMMA BeginRequestVetted ==
  ASSUME EgressTypeOK, VetInv, BeginRequest
  PROVE  VetInv'
  <1>1. PICK target \in Targets, known \in BOOLEAN, credential \in Credentials :
          \/ RefuseRequest(target, known, credential)
          \/ LoseCredential(target, known, credential)
          \/ SendRequest(target, known, credential)
    BY DEF BeginRequest
  <1>2. opened' = {} /\ req.phase = "idle"
    BY <1>1 DEF RefuseRequest, LoseCredential, SendRequest, Asked
  <1>3. CASE RefuseRequest(target, known, credential) \/ LoseCredential(target, known, credential)
    BY <1>2, <1>3, AskTyped, EndedVetted DEF RefuseRequest, LoseCredential
  <1>4. CASE SendRequest(target, known, credential)
    BY <1>2, <1>4 DEF SendRequest, VetInv, Ask
  <1> QED
    BY <1>1, <1>3, <1>4

LEMMA HopVetted ==
  ASSUME EgressTypeOK, VetInv,
         \/ NoAdapter \/ Relay \/ Reuse \/ LookupFails \/ Blocked \/ Resolve
         \/ Connect \/ DialTimesOut \/ DialFails \/ EgressServer
  PROVE  VetInv'
  <1>0. req \in Request
    BY DEF EgressTypeOK
  <1>1. CASE NoAdapter \/ LookupFails \/ Blocked \/ DialTimesOut
    BY <1>0, <1>1, EndedVetted DEF NoAdapter, LookupFails, Blocked, DialTimesOut, VetInv
  <1>2. CASE Relay
    BY <1>0, <1>2 DEF Relay, VetInv, Request
  <1>3. CASE Reuse
    BY <1>0, <1>3 DEF Reuse, VetInv, Request
  <1>4. CASE Resolve
    <2>1. /\ req'.phase = "dial"
          /\ req'.left \subseteq req'.answer
          /\ req'.answer \cap Denied = {}
      BY <1>0, <1>4 DEF Resolve, Vetted, Request
    <2> QED
      BY <1>4, <2>1 DEF Resolve, VetInv
  <1>5. CASE Connect
    <2>1. PICK addr \in req.left :
            /\ pool' = pool \cup {[target |-> req.target, addr |-> addr, answer |-> req.answer]}
            /\ opened' = opened \cup {[target |-> req.target, addr |-> addr, answer |-> req.answer]}
      BY <1>5 DEF Connect
    <2>2. VettedConnection([target |-> req.target, addr |-> addr, answer |-> req.answer])
      BY <1>5, <2>1 DEF Connect, Dialling, VetInv, VettedConnection
    <2>3. req'.phase = "reading" /\ req'.target = req.target
      BY <1>0, <1>5 DEF Connect, Request
    <2> QED
      BY <2>1, <2>2, <2>3 DEF VetInv
  <1>6. CASE DialFails
    <2>1. PICK addr \in req.left :
            IF req.left = {addr} THEN Ended(req, "failed")
            ELSE req' = [req EXCEPT !.left = req.left \ {addr}] /\ UNCHANGED pool
      BY <1>6 DEF DialFails
    <2>2. opened' = opened /\ req.phase = "dial"
      BY <1>6 DEF DialFails, Dialling
    <2>3. CASE req.left = {addr}
      BY <1>0, <2>1, <2>2, <2>3, EndedVetted DEF VetInv
    <2>4. CASE req.left # {addr}
      BY <1>0, <2>1, <2>2, <2>4 DEF VetInv, Request
    <2> QED
      BY <2>3, <2>4
  <1>7. CASE EgressServer
    <2>0. opened' = opened /\ req.phase = "reading"
      BY <1>7 DEF EgressServer, Redirect, Answered, BreaksOff, Reading
    <2>1. CASE Redirect
      <3>1. PICK target \in Targets, kept \in SUBSET pool :
              IF req.hops = MaxHops THEN Ended(req, "failed")
              ELSE /\ req' = [req EXCEPT !.phase = "connect", !.target = target,
                                         !.hops = req.hops + 1]
                   /\ pool' = kept
        BY <2>1 DEF Redirect
      <3>2. CASE req.hops = MaxHops
        BY <1>0, <2>0, <3>1, <3>2, EndedVetted DEF VetInv
      <3>3. CASE req.hops # MaxHops
        BY <1>0, <2>0, <3>1, <3>3 DEF VetInv, Request
      <3> QED
        BY <3>2, <3>3
    <2>2. CASE Answered \/ BreaksOff
      BY <1>0, <2>0, <2>2, EndedVetted DEF Answered, BreaksOff, VetInv
    <2> QED
      BY <1>7, <2>1, <2>2 DEF EgressServer
  <1> QED
    BY <1>1, <1>2, <1>3, <1>4, <1>5, <1>6, <1>7

LEMMA HttpNextVetted ==
  EgressTypeOK /\ VetInv /\ [HttpNext]_vars => VetInv'
  <1> SUFFICES ASSUME EgressTypeOK, VetInv, [HttpNext]_vars PROVE VetInv'
    OBVIOUS
  <1>1. CASE CallerStep \/ NamesChange \/ UNCHANGED vars
    BY <1>1 DEF CallerStep, NamesChange, Rebind, vars, egressVars, VetInv
  <1>2. CASE CallRecorded
    BY <1>2 DEF CallRecorded, NoRequest, Ask, VetInv
  <1>3. CASE RequestCode
    BY <1>3, BeginRequestVetted, HopVetted DEF RequestCode, EgressCode
  <1>4. CASE RequestServer
    BY <1>4, HopVetted DEF RequestServer
  <1>5. CASE BodyEnds
    <2>1. req'.phase = "idle" /\ UNCHANGED <<pool, opened>> /\ req.phase = "done"
      BY <1>5 DEF BodyEnds, EgressTypeOK, Request
    <2> QED
      BY <2>1 DEF VetInv
  <1> QED
    BY <1>1, <1>2, <1>3, <1>4, <1>5 DEF HttpNext

\* No request ever reaches an address outside its own vetted lookup, on any
\* chain of redirects and whenever the names change.
THEOREM VettedOnly == HttpSpec => []OnlyVettedReached
  <1>1. HttpInit => VetInv
    BY DEF HttpInit, EgressInit, NoRequest, Ask, VetInv
  <1>2. VetInv => OnlyVettedReached
    BY DEF VetInv, VettedConnection, OnlyVettedReached
  <1> QED
    BY <1>1, <1>2, HttpTypeCorrect, HttpNextVetted, PTL DEF HttpSpec

-----------------------------------------------------------------------------
(* The executor under it: HttpTool's steps are DirectCaller's.             *)

LEMMA CallerInitTyped == Init => ExecTypeOK
  BY NoStepAssumption, ContextsAssumption, CallsAssumption
     DEF Init, ExecTypeOK, Phase, Reply

LEMMA CallerNextTyped == ExecTypeOK /\ [Next]_execVars => ExecTypeOK'
  <1> SUFFICES ASSUME ExecTypeOK, [Next]_execVars PROVE ExecTypeOK'
    OBVIOUS
  <1>1. CASE Begin
    BY <1>1, ContextsAssumption, CallsAssumption DEF Begin, ExecTypeOK, Phase
  <1>2. CASE ExecuteStep
    BY <1>2, ExecuteStepTyped
  <1>3. CASE Record
    <2>1. EntryOfCall \in Entry
      BY DEF ExecTypeOK, EntryOfCall, Entry, Call, Reply
    <2> QED
      BY <1>3, <2>1 DEF Record, ExecTypeOK, Phase
  <1>4. CASE UNCHANGED execVars
    BY <1>4 DEF execVars, ExecTypeOK
  <1> QED
    BY <1>1, <1>2, <1>3, <1>4 DEF Next, Enough

LEMMA CallerNextClears ==
  ExecTypeOK /\ Clearing /\ [Next]_execVars => Clearing'
  <1> SUFFICES ASSUME ExecTypeOK, Clearing, [Next]_execVars PROVE Clearing'
    OBVIOUS
  <1>1. CASE Begin \/ Record
    BY <1>1 DEF Begin, Record, Clearing
  <1>2. CASE ExecuteStep
    BY <1>2, ExecuteClears
  <1>3. CASE UNCHANGED execVars
    BY <1>3 DEF execVars, Clearing, ContextComplete, Registered, Allowed, WellFormed
  <1> QED
    BY <1>1, <1>2, <1>3 DEF Next, Enough

\* A caller of the public execute() enters no tool body uncleared, whatever
\* security inputs, history and calls it makes.
THEOREM CallerCleared == Spec => []ClearedToInvoke
  <1>1. Init => Clearing
    BY DEF Init, Clearing
  <1> QED
    BY <1>1, CallerInitTyped, CallerNextTyped, CallerNextClears, ClearingClears, PTL
       DEF Spec

LEMMA HttpStepIsCallers == [HttpNext]_vars => [Next]_execVars
  <1> SUFFICES ASSUME [HttpNext]_vars PROVE [Next]_execVars
    OBVIOUS
  <1>1. CASE CallerStep
    BY <1>1 DEF CallerStep, Next
  <1>2. CASE CallRecorded
    BY <1>2 DEF CallRecorded, Next
  <1>3. CASE RequestCode \/ RequestServer \/ NamesChange \/ UNCHANGED vars
    BY <1>3 DEF RequestCode, RequestServer, NamesChange, vars
  <1>4. CASE BodyEnds
    BY <1>4 DEF BodyEnds, ExecuteStep, Next
  <1> QED
    BY <1>1, <1>2, <1>3, <1>4 DEF HttpNext

\* The body of http_request does to execute() what any tool body may do: it
\* leaves it alone while the request runs and ends as one of the three ways.
THEOREM HttpImplementsCaller == HttpSpec => Spec
  <1>1. HttpInit => Init
    BY DEF HttpInit
  <1> QED
    BY <1>1, HttpStepIsCallers, PTL DEF HttpSpec, Spec

\* http_request is entered only cleared, whatever the names answer.
THEOREM HttpCleared == HttpSpec => []ClearedToInvoke
  BY CallerCleared, HttpImplementsCaller

-----------------------------------------------------------------------------
(* What is told of a request is how it ended.                              *)

\* How a request that is over ended.
EndedFairly ==
  /\ req.ending \in {"ok", "refused", "timeout", "failed", "raised"}
  /\ req.ending = "ok" => opened # {} \/ req.relayed
  /\ req.ending \in {"refused", "raised"} /\ req.hops = 0 => opened = {}

\* What makes RefusalIsTold inductive: outside the body no request is in
\* progress, nothing is open before the first connection of the first hop, and
\* an exchange ends well only on a connection or a relay.
ToldInv ==
  /\ ~InHttp => req.phase = "idle"
  /\ req.phase \in {"connect", "dial"} /\ req.hops = 0 => opened = {}
  /\ req.phase = "done" => EndedFairly
  /\ RefusalIsTold

LEMMA BeginRequestTold ==
  ASSUME EgressTypeOK, BeginRequest
  PROVE  /\ req'.phase \in {"connect", "done"} /\ opened' = {}
         /\ req'.phase = "done" => EndedFairly'
  <1>1. PICK target \in Targets, known \in BOOLEAN, credential \in Credentials :
          \/ RefuseRequest(target, known, credential)
          \/ LoseCredential(target, known, credential)
          \/ SendRequest(target, known, credential)
    BY DEF BeginRequest
  <1>2. opened' = {}
    BY <1>1 DEF RefuseRequest, LoseCredential, SendRequest, Asked
  <1>3. CASE RefuseRequest(target, known, credential) \/ LoseCredential(target, known, credential)
    <2>1. PICK ending \in {"refused", "raised"} : Ended(Ask(target), ending)
      BY <1>3 DEF RefuseRequest, LoseCredential
    <2>2. req'.phase = "done" /\ req'.ending = ending
      BY <2>1 DEF Ended, Ask
    <2> QED
      BY <1>2, <2>2 DEF EndedFairly
  <1>4. CASE SendRequest(target, known, credential)
    BY <1>2, <1>4 DEF SendRequest, Ask
  <1> QED
    BY <1>1, <1>3, <1>4

LEMMA HopTold ==
  ASSUME EgressTypeOK, VetInv, ToldInv,
         \/ NoAdapter \/ Relay \/ Reuse \/ LookupFails \/ Blocked \/ Resolve
         \/ Connect \/ DialTimesOut \/ DialFails \/ EgressServer
  PROVE  /\ req'.phase \in {"connect", "dial"} /\ req'.hops = 0 => opened' = {}
         /\ req'.phase = "done" => EndedFairly'
  <1>0. req \in Request
    BY DEF EgressTypeOK
  <1>1. CASE NoAdapter \/ LookupFails \/ Blocked \/ DialTimesOut
    <2>1. opened' = opened /\ req.phase \in {"connect", "dial"}
      BY <1>1 DEF NoAdapter, LookupFails, Blocked, DialTimesOut, Connecting, Direct, Mounted,
                  Dialling
    <2>2. PICK ending \in {"failed", "refused", "timeout"} : Ended(req, ending)
      BY <1>1 DEF NoAdapter, LookupFails, Blocked, DialTimesOut
    <2>3. req'.phase = "done" /\ req'.ending = ending /\ req'.hops = req.hops
      BY <1>0, <2>2 DEF Ended, Request
    <2> QED
      BY <2>1, <2>3 DEF ToldInv, EndedFairly
  <1>2. CASE Relay \/ Reuse \/ Connect
    BY <1>0, <1>2 DEF Relay, Reuse, Connect, Request
  <1>3. CASE Resolve
    BY <1>0, <1>3 DEF Resolve, Direct, Mounted, Connecting, ToldInv, Request
  <1>4. CASE DialFails
    <2>1. PICK addr \in req.left :
            IF req.left = {addr} THEN Ended(req, "failed")
            ELSE req' = [req EXCEPT !.left = req.left \ {addr}] /\ UNCHANGED pool
      BY <1>4 DEF DialFails
    <2>2. opened' = opened /\ req.phase = "dial"
      BY <1>4 DEF DialFails, Dialling
    <2>3. CASE req.left = {addr}
      <3>1. req'.phase = "done" /\ req'.ending = "failed"
        BY <1>0, <2>1, <2>3 DEF Ended, Request
      <3> QED
        BY <3>1 DEF EndedFairly
    <2>4. CASE req.left # {addr}
      <3>1. req'.phase = "dial" /\ req'.hops = req.hops
        BY <1>0, <2>1, <2>2, <2>4 DEF Request
      <3> QED
        BY <2>2, <3>1 DEF ToldInv
    <2> QED
      BY <2>3, <2>4
  <1>5. CASE Redirect
    <2>1. req.phase = "reading" /\ opened' = opened
      BY <1>5 DEF Redirect, Reading
    <2>2. CASE req.hops = MaxHops
      <3>1. Ended(req, "failed")
        BY <1>5, <2>2 DEF Redirect
      <3>2. req'.phase = "done" /\ req'.ending = "failed"
        BY <1>0, <3>1 DEF Ended, Request
      <3> QED
        BY <3>2 DEF EndedFairly
    <2>3. CASE req.hops # MaxHops
      <3>1. PICK target \in Targets : req' = [req EXCEPT !.phase = "connect", !.target = target,
                                                        !.hops = req.hops + 1]
        BY <1>5, <2>3 DEF Redirect
      <3>2. req'.phase = "connect" /\ req'.hops = req.hops + 1 /\ req.hops \in Nat
        BY <1>0, <3>1, LimitsAssumption DEF Request
      <3> QED
        BY <3>2
    <2> QED
      BY <2>2, <2>3
  <1>6. CASE Answered \/ BreaksOff
    <2>1. opened' = opened /\ (opened # {} \/ req.relayed)
      BY <1>6 DEF Answered, BreaksOff, Reading, VetInv
    <2>2. PICK ending \in {"ok", "timeout", "failed"} : Ended(req, ending)
      BY <1>6 DEF Answered, BreaksOff
    <2> QED
      BY <1>0, <2>1, <2>2 DEF Ended, EndedFairly, Request
  <1> QED
    BY <1>1, <1>2, <1>3, <1>4, <1>5, <1>6 DEF EgressServer

LEMMA BodyEndsTold ==
  ASSUME ExecTypeOK, EgressTypeOK, VetInv, ToldInv, BodyEnds
  PROVE  ToldInv'
  <1>1. /\ pc' = "returned" /\ reply'.success = (req.ending = "ok")
        /\ UNCHANGED <<opened, pool, call>>
    <2>1. /\ UNCHANGED <<opened, pool>>
          /\ \/ req.ending = "ok" /\ Return(TRUE, TRUE)
             \/ req.ending # "ok" /\ Return(TRUE, FALSE)
      BY DEF BodyEnds, ToolReturns, ToolRefuses, ToolRaises
    <2>2. (Return(TRUE, TRUE) \/ Return(TRUE, FALSE)) => pc' = "returned" /\ UNCHANGED call
      BY DEF Return
    <2>3. CASE req.ending = "ok"
      <3>1. reply' = [ran |-> TRUE, success |-> TRUE]
        BY <2>1, <2>3 DEF Return
      <3> QED
        BY <2>1, <2>2, <2>3, <3>1
    <2>4. CASE req.ending # "ok"
      <3>1. reply' = [ran |-> TRUE, success |-> FALSE]
        BY <2>1, <2>4 DEF Return
      <3> QED
        BY <2>1, <2>2, <2>4, <3>1
    <2> QED
      BY <2>3, <2>4
  <1>2. /\ req'.phase = "idle" /\ req'.ending = req.ending /\ req'.hops = req.hops
        /\ req'.relayed = req.relayed
    BY DEF BodyEnds, EgressTypeOK, Request
  <1>3. EndedFairly /\ pool = {}
    BY DEF BodyEnds, ToldInv, VetInv
  <1>4. ASSUME req.ending # "ok"
        PROVE  /\ log' # <<>>
               /\ log'[Len(log')].event \in
                    IF req.ending = "raised" THEN {"tool_type_error", "tool_execution_error"}
                    ELSE {"tool_refused"}
    <2>1. PICK event \in {"tool_refused", "tool_type_error", "tool_execution_error"} :
            /\ log' = Append(log, [event |-> event, step |-> auditStep, rule |-> 0,
                                  denied |-> FALSE])
            /\ event \in IF req.ending = "raised"
                          THEN {"tool_type_error", "tool_execution_error"}
                          ELSE {"tool_refused"}
      BY <1>4 DEF BodyEnds, ToolRefuses, ToolRaises, Audit, Audited, EventAt
    <2>2. log \in Seq(Event)
      BY DEF ExecTypeOK
    <2>3. /\ Len(log') = Len(log) + 1 /\ Len(log) \in Nat
          /\ log'[Len(log')] = [event |-> event, step |-> auditStep, rule |-> 0,
                               denied |-> FALSE]
      BY <2>1, <2>2
    <2> QED
      BY <2>1, <2>3
  <1> QED
    BY <1>1, <1>2, <1>3, <1>4 DEF ToldInv, RefusalIsTold, EndedFairly, InHttp

\* Only a body that was entered returns as run.
LEMMA OnlyBodiesRan ==
  ASSUME ExecTypeOK, ExecuteStep
  PROVE  pc' = "returned" => ~reply'.ran \/ pc = "invoke"
  <1>1. CASE \/ RefuseIncompleteContext \/ RefuseUnknownTool \/ RefuseToolNotAllowed
             \/ RefuseArguments \/ RefuseByRule
    <2>1. Return(FALSE, FALSE)
      BY <1>1 DEF RefuseIncompleteContext, RefuseUnknownTool, RefuseToolNotAllowed,
         RefuseArguments, RefuseByRule
    <2> QED
      BY <2>1 DEF Return
  <1>2. CASE EnterGuards
    BY <1>2 DEF EnterGuards, Proceed
  <1>3. CASE SkipRule \/ PassRule \/ GuardsPassed
    BY <1>3 DEF SkipRule, PassRule, AtRule, GuardsPassed
  <1>4. CASE ToolReturns \/ ToolRefuses \/ ToolRaises
    BY <1>4 DEF ToolReturns, ToolRefuses, ToolRaises
  <1> QED
    BY <1>1, <1>2, <1>3, <1>4 DEF ExecuteStep

LEMMA HttpNextTold ==
  ExecTypeOK /\ EgressTypeOK /\ VetInv /\ ToldInv /\ [HttpNext]_vars => ToldInv'
  <1> SUFFICES ASSUME ExecTypeOK, EgressTypeOK, VetInv, ToldInv, [HttpNext]_vars
               PROVE  ToldInv'
    OBVIOUS
  <1>1. CASE CallerStep
    <2>1. ~InHttp /\ UNCHANGED <<req, pool, opened>> /\ req.phase = "idle"
      BY <1>1 DEF CallerStep, egressVars, ToldInv
    <2>2. CASE Begin \/ Enough
      BY <2>1, <2>2 DEF Begin, Enough, execVars, ToldInv, EndedFairly, RefusalIsTold, InHttp
    <2>3. CASE ExecuteStep
      <3>1. UNCHANGED call
        BY <2>3, ExecuteKeepsInputs
      <3>2. pc' = "returned" => ~reply'.ran \/ pc = "invoke"
        BY <2>3, OnlyBodiesRan
      <3> QED
        BY <2>1, <3>1, <3>2 DEF ToldInv, EndedFairly, RefusalIsTold, InHttp
    <2> QED
      BY <1>1, <2>2, <2>3 DEF CallerStep
  <1>2. CASE CallRecorded
    BY <1>2 DEF CallRecorded, Record, NoRequest, Ask, ToldInv, RefusalIsTold
  <1>3. CASE RequestCode \/ RequestServer
    <2>1. InHttp /\ UNCHANGED execVars
      BY <1>3 DEF RequestCode, RequestServer
    <2>2. /\ req'.phase \in {"connect", "dial"} /\ req'.hops = 0 => opened' = {}
          /\ req'.phase = "done" => EndedFairly'
      BY <1>3, BeginRequestTold, HopTold DEF RequestCode, RequestServer, EgressCode
    <2> QED
      BY <2>1, <2>2 DEF ToldInv, RefusalIsTold, InHttp, execVars
  <1>4. CASE BodyEnds
    BY <1>4, BodyEndsTold
  <1>5. CASE NamesChange \/ UNCHANGED vars
    BY <1>5 DEF NamesChange, Rebind, vars, execVars, egressVars, ToldInv, EndedFairly,
                RefusalIsTold, InHttp
  <1> QED
    BY <1>1, <1>2, <1>3, <1>4, <1>5 DEF HttpNext

\* The reply and the audit trail of an http_request say how it ended, whatever
\* the stores, the names and the servers do.
THEOREM OutcomeTold == HttpSpec => []RefusalIsTold
  <1>1. HttpInit => ExecTypeOK /\ EgressTypeOK /\ VetInv /\ ToldInv
    BY CallerInitTyped, EgressInitTyped
       DEF HttpInit, EgressInit, Init, NoRequest, Ask, VetInv, ToldInv, RefusalIsTold
  <1>2. ExecTypeOK /\ [HttpNext]_vars => ExecTypeOK'
    BY CallerNextTyped, HttpStepIsCallers
  <1>3. ToldInv => RefusalIsTold
    BY DEF ToldInv
  <1> QED
    BY <1>1, <1>2, <1>3, HttpNextTyped, HttpNextVetted, HttpNextTold, PTL DEF HttpSpec
=============================================================================
