--------------------------- MODULE GatewayRequest ---------------------------
(***************************************************************************)
(* Requests through the gateway (gateway/handler.rs, gateway_request) over *)
(* the live accounts of ClientManager: selection with session affinity,    *)
(* route resolution, the send and its outcome, retries on the same account *)
(* and failover to another one, while accounts are disabled and re-enabled *)
(* and a restart of the gateway reloads the accounts (load_clients).       *)
(*                                                                         *)
(* A step is the code between two operations on ClientManager's maps, or   *)
(* one answer of the network.  Which account the rotation picks next is    *)
(* left open: its index is shared by all requests and taken modulo the     *)
(* number of accounts each of them may use.                                *)
(***************************************************************************)
EXTENDS RouteResolve, FiniteSets

CONSTANTS
  Requests,
  Accounts,
  Sessions,
  NoAccount,
  NoSession,        \* a request without metadata.user_id
  RouteOf,          \* routing of each account: mode, and whether it has a static proxy
  Transports,       \* transports of the program: "Proxy" and "Vercel" if configured
  MaxRetries,       \* config.max_retries
  MaxProxyRetries,  \* max_proxy_retries (4)
  Reloads,          \* may the gateway be restarted?
  Changes           \* may quotas, tokens and disabled accounts change meanwhile?

ASSUME AccountsAssumption == NoAccount \notin Accounts /\ NoSession \notin Sessions
ASSUME RoutesAssumption ==
  /\ RouteOf \in [Accounts -> [mode : Modes, static : BOOLEAN]]
  /\ Transports \subseteq {"Proxy", "Vercel"}
ASSUME LimitsAssumption == MaxRetries \in Nat /\ MaxProxyRetries \in Nat
ASSUME EnvironmentAssumption == {Reloads, Changes} \subseteq BOOLEAN

VARIABLES
  file,       \* each account's file: "enabled", "userDisabled" or "disabled"
  live,       \* the accounts in ClientManager.clients
  listed,     \* those in ordered_ids
  known,      \* those in runtime_state
  quota,      \* utilization last seen: within the safety watermark, within the alert one, over
  expiring,   \* accounts whose token is about to expire
  sessionOf,  \* session_map
  reload,     \* where load_clients stands
  unread,     \* the account files it has still to read
  req         \* the locals of each request

poolVars == <<live, listed, known, quota>>
reloadVars == <<reload, unread>>
vars == <<file, poolVars, expiring, sessionOf, reloadVars, req>>

(* ProxyMode: Proxied if the dynamic pool is configured, Direct if it is not. *)
Proxied == "Proxy" \in Transports

NoAnswer == "none"
Answers == {NoAnswer, "upstream", "badGateway", "noAccount", "gaveUp"}

PCs == {"idle", "select", "affine", "forget", "rotate", "take", "remember", "context", "route",
        "send", "response", "drop", "unlist", "unmap", "failover", "answered"}

Request == [
  pc : PCs, session : Sessions \cup {NoSession}, account : Accounts \cup {NoAccount},
  attempted : SUBSET Accounts, switches : Nat, backedOff : BOOLEAN, recoverable : BOOLEAN,
  proxyRetries : Nat, timeouts : Nat, route : Routes, answer : Answers,
  sends : Nat, visits : [Accounts -> Nat]]   \* history: attempts made, visits of each account

Idle == [
  pc |-> "idle", session |-> NoSession, account |-> NoAccount,
  attempted |-> {}, switches |-> 0, backedOff |-> FALSE, recoverable |-> FALSE,
  proxyRetries |-> 0, timeouts |-> 0, route |-> "Direct", answer |-> NoAnswer,
  sends |-> 0, visits |-> [a \in Accounts |-> 0]]

-----------------------------------------------------------------------------
Become(r, q) == req' = [req EXCEPT ![r] = q]

Step(r, l) == Become(r, [req[r] EXCEPT !.pc = l])

(* gateway_request returns, and its locals are gone. *)
Answer(r, kind) == Become(r, [Idle EXCEPT !.pc = "answered", !.answer = kind])

Begin(r, s) ==
  /\ req[r].pc = "idle"
  /\ Become(r, [Idle EXCEPT !.pc = "select", !.session = s])
  /\ UNCHANGED <<file, poolVars, expiring, sessionOf, reloadVars>>

(* The outer loop ends after max_retries switches. *)
GiveUp(r) ==
  /\ req[r].pc = "select" /\ req[r].switches > MaxRetries
  /\ Answer(r, "gaveUp")
  /\ UNCHANGED <<file, poolVars, expiring, sessionOf, reloadVars>>

(* get_client_with_session: look the session up. *)
LookUp(r) ==
  /\ req[r].pc = "select" /\ req[r].switches <= MaxRetries
  /\ IF req[r].session # NoSession /\ sessionOf[req[r].session] # NoAccount
       THEN Become(r, [req[r] EXCEPT !.pc = "affine", !.account = sessionOf[req[r].session]])
       ELSE Step(r, "rotate")
  /\ UNCHANGED <<file, poolVars, expiring, sessionOf, reloadVars>>

\* Mutant: the session's account is taken again though it was attempted.
AffineAttempted(r) ==
  /\ req[r].pc = "affine"
  /\ LET a == req[r].account IN
     IF a \in live /\ a \notin expiring /\ ~(a \in known /\ quota[a] = "over")
       THEN Step(r, "remember")
       ELSE Step(r, "forget")
  /\ UNCHANGED <<file, poolVars, expiring, sessionOf, reloadVars>>

(* A session stays on its account up to the alert watermark. *)
Affine(r) ==
  /\ req[r].pc = "affine"
  /\ LET a == req[r].account IN
     IF /\ a \in live /\ a \notin expiring /\ a \notin req[r].attempted
        /\ ~(a \in known /\ quota[a] = "over")
       THEN Step(r, "remember")
       ELSE Step(r, "forget")
  /\ UNCHANGED <<file, poolVars, expiring, sessionOf, reloadVars>>

Forget(r) ==
  /\ req[r].pc = "forget"
  /\ sessionOf' = [sessionOf EXCEPT ![req[r].session] = NoAccount]
  /\ Step(r, "rotate")
  /\ UNCHANGED <<file, poolVars, expiring, reloadVars>>

\* Mutant: the back-off may be repeated.
ExhaustedRepeats(r) ==
  IF req[r].recoverable
    THEN Become(r, [req[r] EXCEPT !.pc = "select", !.backedOff = TRUE, !.attempted = {}])
    ELSE Answer(r, "noAccount")

(* No account to select: after a transient error, back off once and start over. *)
Exhausted(r) ==
  IF req[r].recoverable /\ ~req[r].backedOff
    THEN Become(r, [req[r] EXCEPT !.pc = "select", !.backedOff = TRUE, !.attempted = {}])
    ELSE Answer(r, "noAccount")

(* The accounts get_client would rotate through. *)
Available(r) == {a \in (listed \cap live) \ (expiring \cup req[r].attempted) :
                   a \in known => quota[a] = "safe"}

Rotate(r) ==
  /\ req[r].pc = "rotate"
  /\ \/ \E a \in Available(r) : Become(r, [req[r] EXCEPT !.pc = "take", !.account = a])
     \/ Available(r) = {} /\ Exhausted(r)
  /\ UNCHANGED <<file, poolVars, expiring, sessionOf, reloadVars>>

(* get_client looks the client up once more: it may be gone by now. *)
Take(r) ==
  /\ req[r].pc = "take"
  /\ IF req[r].account \in live
       THEN Step(r, IF req[r].session = NoSession THEN "context" ELSE "remember")
       ELSE Exhausted(r)
  /\ UNCHANGED <<file, poolVars, expiring, sessionOf, reloadVars>>

Remember(r) ==
  /\ req[r].pc = "remember"
  /\ sessionOf' = [sessionOf EXCEPT ![req[r].session] = req[r].account]
  /\ Step(r, "context")
  /\ UNCHANGED <<file, poolVars, expiring, reloadVars>>

(* get_runtime_state, and the start of the middle loop on this account. *)
Context(r) ==
  /\ req[r].pc = "context"
  /\ LET a == req[r].account IN
     IF a \in known
       THEN Become(r, [req[r] EXCEPT !.pc = "route", !.proxyRetries = 0, !.timeouts = 0,
                                     !.visits[a] = @ + 1])
       ELSE Step(r, "failover")
  /\ UNCHANGED <<file, poolVars, expiring, sessionOf, reloadVars>>

(* What the getters return: an account that is not known is routed by default. *)
Routing(a) == IF a \in known THEN RouteOf[a] ELSE [mode |-> "proxy", static |-> FALSE]

PickRoute(a) ==
  IF ~Proxied THEN "Direct"
  ELSE Resolve(Routing(a).mode, Transports \cup (IF Routing(a).static THEN {"Static"} ELSE {}))

(* Each attempt resolves the route anew. *)
ResolveRoute(r) ==
  /\ req[r].pc = "route"
  /\ Become(r, [req[r] EXCEPT !.pc = "send", !.sends = @ + 1,
                              !.route = PickRoute(req[r].account)])
  /\ UNCHANGED <<file, poolVars, expiring, sessionOf, reloadVars>>

-----------------------------------------------------------------------------
(* The send *)

SendOk(r) ==
  /\ req[r].pc = "send"
  /\ req[r].route = "Static" => req[r].account \in known /\ RouteOf[req[r].account].static
  /\ Step(r, "response")
  /\ UNCHANGED <<file, poolVars, expiring, sessionOf, reloadVars>>

(* The pool could not connect: renew the proxy and try again, four times. *)
ProxyFailed(r) ==
  /\ req[r].pc = "send" /\ req[r].route = "Proxy"
  /\ IF req[r].proxyRetries < MaxProxyRetries
       THEN Become(r, [req[r] EXCEPT !.pc = "route", !.proxyRetries = @ + 1])
       ELSE Answer(r, "badGateway")
  /\ UNCHANGED <<file, poolVars, expiring, sessionOf, reloadVars>>

(* The pool has no session for the account, or failed otherwise. *)
ProxyRefused(r) ==
  /\ req[r].pc = "send" /\ req[r].route = "Proxy"
  /\ \E e \in {req[r].recoverable, FALSE} :
       Become(r, [req[r] EXCEPT !.pc = "failover", !.recoverable = e])
  /\ UNCHANGED <<file, poolVars, expiring, sessionOf, reloadVars>>

(* The static proxy's URL is not cached. *)
StaticMissing(r) ==
  /\ req[r].pc = "send" /\ req[r].route = "Static"
  /\ ~(req[r].account \in known /\ RouteOf[req[r].account].static)
  /\ Answer(r, "badGateway")
  /\ UNCHANGED <<file, poolVars, expiring, sessionOf, reloadVars>>

SendFailed(r) ==
  /\ req[r].pc = "send" /\ req[r].route # "Proxy"
  /\ req[r].route = "Static" => req[r].account \in known /\ RouteOf[req[r].account].static
  /\ \E retryable \in BOOLEAN :
       Become(r, [req[r] EXCEPT !.pc = "failover", !.recoverable = retryable])
  /\ UNCHANGED <<file, poolVars, expiring, sessionOf, reloadVars>>

-----------------------------------------------------------------------------
(* The response.  Its headers may carry the account's utilization. *)

Quotas(a) ==
  {quota} \cup IF a \in known
                 THEN {[quota EXCEPT ![a] = u] : u \in {"safe", "alert", "over"}} ELSE {}

(* 200, or an error that concerns the request and not the account. *)
Respond(r) ==
  /\ req[r].pc = "response"
  /\ quota' \in Quotas(req[r].account)
  /\ Answer(r, "upstream")
  /\ UNCHANGED <<file, live, listed, known, expiring, sessionOf, reloadVars>>

\* Mutant: the account is tried again after every first-byte timeout.
FirstByteTimeoutRetries(r) ==
  /\ req[r].pc = "response"
  /\ quota' \in Quotas(req[r].account)
  /\ Become(r, [req[r] EXCEPT !.pc = "route"])
  /\ UNCHANGED <<file, live, listed, known, expiring, sessionOf, reloadVars>>

(* An SSE stream that does not begin: the first time the account is tried again. *)
FirstByteTimeout(r) ==
  /\ req[r].pc = "response"
  /\ quota' \in Quotas(req[r].account)
  /\ Become(r, [req[r] EXCEPT !.timeouts = @ + 1,
                              !.pc = IF req[r].timeouts = 0 THEN "route" ELSE "failover"])
  /\ UNCHANGED <<file, live, listed, known, expiring, sessionOf, reloadVars>>

(* An SSE stream that ends or fails before its first byte. *)
StreamLost(r) ==
  /\ req[r].pc = "response"
  /\ quota' \in Quotas(req[r].account)
  /\ Step(r, "failover")
  /\ UNCHANGED <<file, live, listed, known, expiring, sessionOf, reloadVars>>

(* 401, 402, 403 or "organization has been disabled": set_disabled, or on Vercel
   set_user_disabled, as after 429.  Both write the file before the pool changes. *)
Rejected(r) ==
  /\ req[r].pc = "response"
  /\ quota' \in Quotas(req[r].account)
  /\ \E status \in {"userDisabled"} \cup (IF req[r].route = "Vercel" THEN {} ELSE {"disabled"}) :
       file' = [file EXCEPT ![req[r].account] = IF @ = "disabled" THEN @ ELSE status]
  /\ Become(r, [req[r] EXCEPT !.pc = "drop", !.recoverable = FALSE])
  /\ UNCHANGED <<live, listed, known, expiring, sessionOf, reloadVars>>

(* disable_client *)
Drop(r) ==
  /\ req[r].pc = "drop"
  /\ live' = live \ {req[r].account}
  /\ Step(r, "unlist")
  /\ UNCHANGED <<file, listed, known, quota, expiring, sessionOf, reloadVars>>

Unlist(r) ==
  /\ req[r].pc = "unlist"
  /\ listed' = listed \ {req[r].account}
  /\ Step(r, "unmap")
  /\ UNCHANGED <<file, live, known, quota, expiring, sessionOf, reloadVars>>

Unmap(r) ==
  /\ req[r].pc = "unmap"
  /\ sessionOf' = [s \in Sessions |-> IF sessionOf[s] = req[r].account THEN NoAccount
                                      ELSE sessionOf[s]]
  /\ Step(r, "failover")
  /\ UNCHANGED <<file, poolVars, expiring, reloadVars>>

Failover(r) ==
  /\ req[r].pc = "failover"
  /\ Become(r, [req[r] EXCEPT !.pc = "select", !.switches = @ + 1,
                              !.attempted = @ \cup {req[r].account}])
  /\ UNCHANGED <<file, poolVars, expiring, sessionOf, reloadVars>>

-----------------------------------------------------------------------------
(* What happens to the accounts meanwhile *)

(* The user re-enables an account: add_client, whose steps LiveAccount has. *)
Enable(a) ==
  /\ Changes /\ file[a] = "userDisabled"
  /\ file' = [file EXCEPT ![a] = "enabled"]
  /\ live' = live \cup {a} /\ listed' = listed \cup {a} /\ known' = known \cup {a}
  /\ quota' = IF a \in live THEN quota ELSE [quota EXCEPT ![a] = "safe"]
  /\ UNCHANGED <<expiring, sessionOf, reloadVars, req>>

(* Tokens run out, and AccountMonitor refreshes them. *)
Expire(a) ==
  /\ Changes /\ a \notin expiring
  /\ expiring' = expiring \cup {a}
  /\ UNCHANGED <<file, poolVars, sessionOf, reloadVars, req>>

Refresh(a) ==
  /\ Changes /\ a \in expiring
  /\ expiring' = expiring \ {a}
  /\ UNCHANGED <<file, poolVars, sessionOf, reloadVars, req>>

(* load_clients on a restart: the requests of the old server go on. *)
ReloadClients ==
  /\ Reloads /\ reload = "idle"
  /\ live' = {}
  /\ reload' = "runtime"
  /\ UNCHANGED <<file, listed, known, quota, expiring, sessionOf, unread, req>>

ReloadRuntime ==
  /\ reload = "runtime"
  /\ known' = {}
  /\ quota' = [a \in Accounts |-> "safe"]
  /\ reload' = "files" /\ unread' = Accounts
  /\ UNCHANGED <<file, live, listed, expiring, sessionOf, req>>

ReloadFile(a) ==
  /\ reload = "files" /\ a \in unread
  /\ IF file[a] = "enabled"
       THEN known' = known \cup {a} /\ live' = live \cup {a}
       ELSE UNCHANGED <<known, live>>
  /\ unread' = unread \ {a}
  /\ UNCHANGED <<file, listed, quota, expiring, sessionOf, reload, req>>

ReloadOrder ==
  /\ reload = "files" /\ unread = {}
  /\ listed' = live
  /\ reload' = "sessions"
  /\ UNCHANGED <<file, live, known, quota, expiring, sessionOf, unread, req>>

ReloadSessions ==
  /\ reload = "sessions"
  /\ sessionOf' = [s \in Sessions |-> IF sessionOf[s] \in live THEN sessionOf[s] ELSE NoAccount]
  /\ reload' = "idle"
  /\ UNCHANGED <<file, poolVars, expiring, unread, req>>

-----------------------------------------------------------------------------
Init ==
  /\ file = [a \in Accounts |-> "enabled"]
  /\ live = Accounts /\ listed = Accounts /\ known = Accounts
  /\ quota = [a \in Accounts |-> "safe"] /\ expiring = {}
  /\ sessionOf = [s \in Sessions |-> NoAccount]
  /\ reload = "idle" /\ unread = {}
  /\ req = [r \in Requests |-> Idle]

Select(r) == GiveUp(r) \/ LookUp(r) \/ Affine(r) \/ Forget(r) \/ Rotate(r) \/ Take(r)
               \/ Remember(r) \/ Context(r) \/ ResolveRoute(r)

Send(r) == SendOk(r) \/ ProxyFailed(r) \/ ProxyRefused(r) \/ StaticMissing(r) \/ SendFailed(r)

(* The steps that read the response's body. *)
Read(r) == Respond(r) \/ FirstByteTimeout(r) \/ StreamLost(r) \/ Rejected(r)

Recover(r) == Drop(r) \/ Unlist(r) \/ Unmap(r) \/ Failover(r)

Receive(r) == Read(r) \/ Recover(r)

Work(r) == Select(r) \/ Send(r) \/ Receive(r)

Reload == ReloadClients \/ ReloadRuntime \/ (\E a \in Accounts : ReloadFile(a))
            \/ ReloadOrder \/ ReloadSessions

Change == \E a \in Accounts : Enable(a) \/ Expire(a) \/ Refresh(a)

Next ==
  \/ \E r \in Requests, s \in Sessions \cup {NoSession} : Begin(r, s)
  \/ \E r \in Requests : Work(r)
  \/ Reload
  \/ Change

Spec == Init /\ [][Next]_vars

(* A request never waits for another one: the runtime polls it, and a send ends with
   the response's headers or their timeout.  The body has no such end: a JSON answer
   or an error is collected without a timer, and every SSE comment sets the timer of
   the first byte anew. *)
FairSpec == Spec /\ \A r \in Requests : WF_vars(Select(r) \/ Send(r) \/ Recover(r))

-----------------------------------------------------------------------------
(* Properties *)

TypeOK ==
  /\ file \in [Accounts -> {"enabled", "userDisabled", "disabled"}]
  /\ live \subseteq Accounts /\ listed \subseteq Accounts /\ known \subseteq Accounts
  /\ quota \in [Accounts -> {"safe", "alert", "over"}] /\ expiring \subseteq Accounts
  /\ sessionOf \in [Sessions -> Accounts \cup {NoAccount}]
  /\ reload \in {"idle", "runtime", "files", "sessions"} /\ unread \subseteq Accounts
  /\ req \in [Requests -> Request]

(* One request costs the upstream a bounded number of sends, whatever fails and
   however accounts come and go: on each of max_retries + 1 accounts one send, one
   more after a first-byte timeout, and max_proxy_retries more. *)
SendsBounded ==
  \A r \in Requests : req[r].sends <= (MaxRetries + 1) * (MaxProxyRetries + 2)

(* A request comes back to an account it has failed on only after the back-off, and
   then once: session affinity does not lead it back, nor does the rotation. *)
NoAccountTwiceARound ==
  \A r \in Requests, a \in Accounts :
    req[r].visits[a] <= IF req[r].backedOff THEN 2 ELSE 1

(* Every request is answered, after finitely many accounts and attempts, unless it waits
   for ever for the body of one response. *)
Answered ==
  \A r \in Requests :
    req[r].pc = "select" ~> (req[r].pc = "answered" \/ [](req[r].pc = "response"))

(* An account on the static route that has a static proxy is served through it and
   by no other way out. *)
StaticStaysStatic ==
  \A r \in Requests :
    LET a == req[r].account IN
    req[r].pc = "send" /\ RouteOf[a] = [mode |-> "static", static |-> TRUE]
      => req[r].route = "Static"

(* "Same session_id always routes to the same account": two requests of a session
   that are both about to send for the first time are on the same account. *)
SessionOnOneAccount ==
  \A r1, r2 \in Requests :
    (/\ req[r1].pc = "send" /\ req[r2].pc = "send"
     /\ req[r1].sends = 1 /\ req[r2].sends = 1
     /\ req[r1].session = req[r2].session /\ req[r1].session # NoSession)
      => req[r1].account = req[r2].account
=============================================================================
