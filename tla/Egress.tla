------------------------------- MODULE Egress -------------------------------
(***************************************************************************)
(* http_request of runtime_tools/http_request_tools.py over the guarded    *)
(* session of auro_runtime/egress.py: from the tool's own refusals to the  *)
(* end of the exchange.  Names are resolved anew for every connection,     *)
(* every address of the answer is vetted, and a vetted one is dialled.     *)
(*                                                                         *)
(* What requests and urllib3 do between those steps is external: they      *)
(* follow redirects, keep connections for reuse within the session, and    *)
(* take the environment's proxies into account on every hop.               *)
(***************************************************************************)
EXTENDS Integers, FiniteSets

CONSTANTS
  Hosts,
  Targets,        \* what a URL or a redirect may name: a scheme and a host
  Addresses,
  Denied,         \* what address_is_denied refuses, or is no IP address
  Answers,        \* what looking a name up may give, when it does not raise
  ProxySettings,  \* the sets of targets the environment's proxies may cover
  Credentials,    \* how auth_alias and the secret stores may stand
  MaxHops,        \* redirects requests follows (30)
  MaxRebinds      \* bound on changes of the DNS during a run

ASSUME AnswersAssumption == Answers \subseteq SUBSET Addresses
ASSUME LimitsAssumption == MaxHops \in Nat /\ MaxRebinds \in Nat

VARIABLES
  dns,      \* what looking a host up gives now
  rebinds,  \* changes of it so far
  proxied,  \* targets a configured proxy would carry
  req,      \* the request in progress
  pool,     \* live connections of its session
  opened    \* history: connections the request opened

egressVars == <<dns, rebinds, proxied, req, pool, opened>>

ASSUME TargetsAssumption ==
  /\ Targets # {}
  /\ Targets \subseteq [scheme : {"http", "https", "other"}, host : Hosts]

ASSUME ProxyAssumption == ProxySettings \subseteq SUBSET Targets

\* "answer" is history: the lookup made for the connection.
Connection == [target : Targets, addr : Addresses, answer : SUBSET Addresses]

Ending == {"none", "ok", "refused", "timeout", "failed", "raised"}

Request == [phase : {"idle", "connect", "dial", "reading", "done"},
            target : Targets, hops : 0 .. MaxHops,
            answer : SUBSET Addresses, left : SUBSET Addresses,
            relayed : BOOLEAN, ending : Ending]

EgressTypeOK ==
  /\ dns \in [Hosts -> Answers]
  /\ rebinds \in 0 .. MaxRebinds
  /\ proxied \in ProxySettings
  /\ req \in Request
  /\ pool \subseteq Connection
  /\ opened \subseteq Connection

Ask(target) == [phase |-> "connect", target |-> target, hops |-> 0, answer |-> {},
                left |-> {}, relayed |-> FALSE, ending |-> "none"]

NoRequest == [Ask(CHOOSE target \in Targets : TRUE) EXCEPT !.phase = "idle"]

EgressInit ==
  /\ dns \in [Hosts -> Answers]
  /\ rebinds = 0
  /\ proxied \in ProxySettings
  /\ req = NoRequest
  /\ pool = {}
  /\ opened = {}

Keep == UNCHANGED <<dns, rebinds, proxied>>

-----------------------------------------------------------------------------
(* get_secret: the request's secrets, then the environment, then the store *)
(* named by AURO_SECRET_BACKEND, whose failure is not an absence.          *)

Credential == [alias : BOOLEAN, safe : BOOLEAN, request : BOOLEAN, env : BOOLEAN,
               backend : {"unset", "empty", "holds", "broken"}]

ASSUME CredentialsAssumption == Credentials \subseteq Credential

\* The backend is asked only for what neither the run nor the environment has.
AsksBackend(c) == c.alias /\ c.safe /\ ~c.request /\ ~c.env

Missing(c) == \/ c.alias /\ ~c.safe
              \/ AsksBackend(c) /\ c.backend \in {"unset", "empty"}

Breaks(c) == AsksBackend(c) /\ c.backend = "broken"

-----------------------------------------------------------------------------
(* The tool's own checks, and the refusal of a configured proxy.           *)

\* guarded_request closes the session whatever happened.
Ended(r, ending) ==
  /\ req' = [r EXCEPT !.phase = "done", !.ending = ending]
  /\ pool' = {}

Asked == req.phase = "idle" /\ opened' = {} /\ Keep

\* "known" says that method and auth_scheme are among the supported ones.
Served(target, known) == target.scheme # "other" /\ known

RefuseRequest(target, known, credential) ==
  /\ Asked
  /\ \/ ~Served(target, known)
     \/ Missing(credential)
     \/ ~Breaks(credential) /\ target \in proxied
  /\ Ended(Ask(target), "refused")

\* The exception leaves the tool: it is raised outside its try.
LoseCredential(target, known, credential) ==
  /\ Asked
  /\ Served(target, known) /\ Breaks(credential)
  /\ Ended(Ask(target), "raised")

SendRequest(target, known, credential) ==
  /\ Asked
  /\ Served(target, known) /\ ~Missing(credential) /\ ~Breaks(credential)
  /\ target \notin proxied
  /\ req' = Ask(target)
  /\ UNCHANGED pool

BeginRequest ==
  \E target \in Targets, known \in BOOLEAN, credential \in Credentials :
    \/ RefuseRequest(target, known, credential)
    \/ LoseCredential(target, known, credential)
    \/ SendRequest(target, known, credential)

-----------------------------------------------------------------------------
(* One hop: the adapter of the scheme, a connection, the answer.           *)

Connecting == req.phase = "connect" /\ Keep

\* Only http and https are mounted; another scheme comes from a redirect.
NoAdapter ==
  /\ Connecting
  /\ req.target.scheme = "other"
  /\ Ended(req, "failed")
  /\ UNCHANGED opened

Mounted == Connecting /\ req.target.scheme # "other"

Direct == Mounted /\ req.target \notin proxied

\* A hop whose URL has a configured proxy goes through requests' proxy manager.
Relay ==
  /\ Mounted
  /\ req.target \in proxied
  /\ req' = [req EXCEPT !.phase = "reading", !.relayed = TRUE]
  /\ UNCHANGED <<pool, opened>>

\* A kept connection to the same scheme, host and port is not dialled again.
Reuse ==
  /\ Direct
  /\ \E c \in pool : c.target = req.target
  /\ req' = [req EXCEPT !.phase = "reading", !.relayed = FALSE]
  /\ UNCHANGED <<pool, opened>>

LookupFails ==
  /\ Direct
  /\ Ended(req, "failed")
  /\ UNCHANGED opened

Vetted(answer) == answer # {} /\ answer \cap Denied = {}

\* No address at all, or one that is denied: the siblings do not count.
Blocked ==
  /\ Direct
  /\ ~Vetted(dns[req.target.host])
  /\ Ended(req, "refused")
  /\ UNCHANGED opened

Resolve ==
  /\ Direct
  /\ Vetted(dns[req.target.host])
  /\ req' = [req EXCEPT !.phase = "dial", !.answer = dns[req.target.host],
                        !.left = dns[req.target.host]]
  /\ UNCHANGED <<pool, opened>>

Dialling == req.phase = "dial" /\ Keep

\* Mutant: the name is handed to the dialler, which looks it up again.
ConnectByName ==
  /\ Dialling
  /\ \E addr \in dns[req.target.host] :
       LET c == [target |-> req.target, addr |-> addr, answer |-> req.answer]
       IN  pool' = pool \cup {c} /\ opened' = opened \cup {c}
  /\ req' = [req EXCEPT !.phase = "reading", !.relayed = FALSE, !.left = {}, !.answer = {}]

Connect ==
  /\ Dialling
  /\ \E addr \in req.left :
       LET c == [target |-> req.target, addr |-> addr, answer |-> req.answer]
       IN  pool' = pool \cup {c} /\ opened' = opened \cup {c}
  /\ req' = [req EXCEPT !.phase = "reading", !.relayed = FALSE, !.left = {}, !.answer = {}]

DialTimesOut ==
  /\ Dialling
  /\ Ended(req, "timeout")
  /\ UNCHANGED opened

\* Mutant: the addresses that could not be dialled stay in the round.
DialAgain ==
  /\ Dialling
  /\ \E addr \in req.left : req' = [req EXCEPT !.left = req.answer \ {addr}]
  /\ UNCHANGED <<pool, opened>>

\* An address cannot be dialled: the next one is, if there is one.
DialFails ==
  /\ Dialling
  /\ \E addr \in req.left :
       IF req.left = {addr} THEN Ended(req, "failed")
       ELSE /\ req' = [req EXCEPT !.left = req.left \ {addr}]
            /\ UNCHANGED pool
  /\ UNCHANGED opened

Reading == req.phase = "reading" /\ Keep /\ UNCHANGED opened

\* A redirect, after which the connection may be kept.
Redirect ==
  /\ Reading
  /\ \E target \in Targets, kept \in SUBSET pool :
       IF req.hops = MaxHops THEN Ended(req, "failed")
       ELSE /\ req' = [req EXCEPT !.phase = "connect", !.target = target,
                                  !.hops = req.hops + 1]
            /\ pool' = kept

Answered == Reading /\ Ended(req, "ok")

\* The exchange breaks off: a read timeout, TLS, a reset, what cannot be read.
BreaksOff ==
  /\ Reading
  /\ \E ending \in {"timeout", "failed"} : Ended(req, ending)

-----------------------------------------------------------------------------

\* The code's own steps, and the dialling, which a timeout bounds.
EgressCode ==
  \/ BeginRequest
  \/ NoAdapter \/ Relay \/ Reuse \/ LookupFails \/ Blocked \/ Resolve
  \/ Connect \/ DialTimesOut \/ DialFails

\* The server's: the timeout of a read starts anew with every byte.
EgressServer == Redirect \/ Answered \/ BreaksOff

Rebind ==
  /\ rebinds < MaxRebinds
  /\ rebinds' = rebinds + 1
  /\ \E host \in Hosts, answer \in Answers : dns' = [dns EXCEPT ![host] = answer]
  /\ UNCHANGED <<proxied, req, pool, opened>>

-----------------------------------------------------------------------------
(* Every address a request reached is one its own lookup gave, in an answer*)
(* without a denied address, whatever the names answer before and after,   *)
(* on the first URL and on every redirect; and what is read was asked of a *)
(* connection opened for that target, unless the hop was relayed.          *)
OnlyVettedReached ==
  /\ \A c \in opened : c.addr \in c.answer /\ c.answer \cap Denied = {}
  /\ req.phase = "reading" /\ ~req.relayed =>
       \E c \in opened : c.target = req.target
=============================================================================
