--------------------------- MODULE GatewayOutbound ---------------------------
(***************************************************************************)
(* GatewayRequest composed with OutboundRequest: each of the attempts that *)
(* GatewayRequest makes, on the account and the route it is on then, sends *)
(* what OutboundRequest makes of the client's request.  Which request that *)
(* is has no influence on the retries and failovers, so the properties are *)
(* about every one of Inbound.                                             *)
(***************************************************************************)
EXTENDS GatewayRequest, OutboundRequest

(* upstream_host and the URL of an attempt, by its route. *)
HostOf(route) == IF route = "Vercel" THEN "ai-gateway.vercel.sh" ELSE "api.anthropic.com"

Sending == {r \in Requests : req[r].pc = "send"}

(* What every attempt on an account and a route amounts to, for all requests. *)
Owns(a, route) == \A c \in Admitted : Owned(c, a, Attempt(c, a, HostOf(route)))
Merges(a, route) == \A c \in Admitted : Merged(c, Attempt(c, a, HostOf(route)))
Verdicts ==
  {[account |-> a, route |-> route, owned |-> Owns(a, route), merged |-> Merges(a, route)] :
     a \in Accounts, route \in Routes}
AllSettled == \A c \in Admitted : Consistent(c) => Settled(c)

(* Nothing of the client's identity reaches upstream, and every place upstream takes
   the caller from names the one account in use: the bearer token, the session header
   and metadata.user_id, whatever credentials the client sent and in how many lines,
   after whatever retries and failovers. *)
OneIdentity ==
  \A r \in Sending : \E v \in Verdicts :
    v.account = req[r].account /\ v.route = req[r].route /\ v.owned

(* A client that sends its betas in one line keeps them, in their order, and the beta the
   account's token needs is added once if it is missing (ensure_oauth_beta), on every
   route. *)
BetaMerged ==
  \A r \in Sending : \E v \in Verdicts :
    v.account = req[r].account /\ v.route = req[r].route /\ v.merged

(* The gate settles: what it lets through, it would let through again and leave as it
   is, so the version, the fingerprint and the User-Agent that are sent agree with
   each other; for releases of a client that names its version in the User-Agent. *)
GateSettles == Sending # {} => AllSettled
=============================================================================
