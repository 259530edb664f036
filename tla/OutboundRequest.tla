--------------------------- MODULE OutboundRequest ---------------------------
(***************************************************************************)
(* What the gateway sends upstream for a request that passed the gate: its *)
(* body with the identity of the account in use, and its headers with that *)
(* account's credentials instead of the client's (builder.rs, called by    *)
(* gateway_request anew for every attempt).                                *)
(*                                                                         *)
(* The value of a header is a sequence of tokens, each a tuple.  Left out: *)
(* the order of the header lines, the body's other fields, the license.    *)
(***************************************************************************)
EXTENDS VersionPolicy, SequencesExt

CONSTANT Inbound   \* requests clients may make: fields, ua, messages, session, headers

ASSUME InboundAssumption ==
  \A c \in Inbound :
    /\ DOMAIN c = {"fields", "ua", "messages", "session", "headers"}
    /\ \A i \in DOMAIN c.fields : c.fields[i].key = "cc_version" => IsText(c.fields[i].value)
    /\ IsText(c.ua.raw)
    /\ c.headers \in Seq(Range(c.headers))
    /\ \A i \in DOMAIN c.headers : c.headers[i].value \in Seq(Range(c.headers[i].value))

NoMetadata == "no metadata"   \* a body without metadata
Blank == ""               \* metadata without a session_id

Hosts == {"api.anthropic.com", "ai-gateway.vercel.sh"}
Line(name, value) == [name |-> name, value |-> value]

(* compute_mapped_session_uuid: a name-based UUID of the session and the account. *)
MappedSession(request, a) ==
  <<IF request.session = NoMetadata THEN Blank ELSE request.session, a>>

Identity(request, a) ==
  [token |-> <<"token", a>>, device |-> <<"device", a>>, account |-> a,
   session |-> MappedSession(request, a)]

(* apply_metadata_in_place: metadata.user_id, of a body that has metadata. *)
User(request, id) ==
  IF request.session = NoMetadata THEN <<>> ELSE <<id.device, id.account, id.session>>

-----------------------------------------------------------------------------
Removed == {"x-api-key", "authorization", "x-ai-gateway-api-key",
            "x-claude-code-session-id", "host", "content-length", "transfer-encoding"}
Replaced == {"authorization", "x-claude-code-session-id", "host", "x-client-request-id"}

(* ensure_oauth_beta: into the first anthropic-beta line. *)
Required == <<"oauth-2025-04-20">>
ClaudeCode == <<"claude-code-20250219">>
Bearer == <<"Bearer">>

\* Mutant: a line that has betas already is left as it is.
WithRequiredIfEmpty(betas) == IF betas = <<>> THEN <<Required>> ELSE betas

WithRequired(betas) ==
  IF Required \in Range(betas) THEN betas
  ELSE IF betas # <<>> /\ Head(betas) = ClaudeCode
       THEN <<ClaudeCode, Required>> \o Tail(betas)
       ELSE <<Required>> \o betas

EnsureBeta(lines) ==
  LET betas == {i \in DOMAIN lines : lines[i].name = "anthropic-beta"}
  IN IF betas = {} THEN lines
     ELSE LET first == CHOOSE i \in betas : \A j \in betas : i <= j
          IN [lines EXCEPT ![first] = Line("anthropic-beta", WithRequired(@.value))]

(* build_outbound_headers.  The gateway's own headers, none of which is a beta line: *)
Added(id, length, host, key) ==
  {Line("authorization", <<Bearer, id.token>>), Line("host", <<<<host>>>>),
   Line("x-claude-code-session-id", <<id.session>>), Line("content-length", <<length>>)}
    \cup (IF host = "api.anthropic.com" THEN {Line("x-client-request-id", <<<<"new">>>>)}
           ELSE {})
    \cup (IF key = <<>> THEN {} ELSE {Line("x-ai-gateway-api-key", <<Bearer, key>>)})

(* The client's lines that are passed on, at their places. *)
Kept(headers, dropped) ==
  EnsureBeta([i \in {i \in DOMAIN headers : headers[i].name \notin dropped} |-> headers[i]])

(* Of several lines of one name the last one inserted stays, and the added ones come
   last. *)
LastOf(lines, name) ==
  CHOOSE i \in DOMAIN lines :
    lines[i].name = name /\ \A j \in DOMAIN lines : lines[j].name = name => j <= i

Inserted(lines, added) ==
  LET own == {l.name : l \in added}
  IN [name \in own \cup {lines[i].name : i \in DOMAIN lines} |->
        IF name \in own THEN (CHOOSE l \in added : l.name = name).value
        ELSE lines[LastOf(lines, name)].value]

\* Mutant: only what the gateway replaces is taken from the client's headers.
HeadersUnfiltered(headers, id, length, host, key) ==
  Inserted(Kept(headers, Replaced), Added(id, length, host, key))

Headers(headers, id, length, host, key) ==
  Inserted(Kept(headers, Removed \cup Replaced), Added(id, length, host, key))

(* One attempt of gateway_request: the body is rewritten from what the gate made of
   the client's, whatever an earlier attempt sent; only Vercel is shown its key. *)
Attempt(request, a, host) ==
  LET id == Identity(request, a)
      gated == Gated(request)
      key == IF host = "ai-gateway.vercel.sh" THEN <<"vercel key">> ELSE <<>>
  IN [fields |-> gated.fields, ua |-> gated.ua, messages |-> gated.messages,
      user |-> User(request, id), headers |-> Headers(request.headers, id, <<"length">>, host, key)]

-----------------------------------------------------------------------------
(* What is expected of an attempt `sent' for the request c on account a. *)

Admitted == {c \in Inbound : Admits(c)}

Client == <<"client">>
BetaLines(c) == {i \in DOMAIN c.headers : c.headers[i].name = "anthropic-beta"}

(* The bearer token, the session header and metadata.user_id name a, and nothing that
   identifies the client is left. *)
Owned(c, a, sent) ==
  LET id == Identity(c, a)
  IN /\ \A name \in (Removed \cup Replaced) \cap DOMAIN sent.headers :
          sent.headers[name] # <<Client>>
     /\ sent.headers["authorization"] = <<Bearer, id.token>>
     /\ sent.headers["x-claude-code-session-id"] = <<id.session>>
     /\ sent.user \in {<<>>, <<id.device, id.account, id.session>>}

(* Betas sent in one line are kept in their order, with the required one in one place
   if it is not among them. *)
Merged(c, sent) ==
  \A i \in DOMAIN c.headers : BetaLines(c) = {i} =>
    LET asked == c.headers[i].value
        betas == sent.headers["anthropic-beta"]
    IN \/ Required \in Range(asked) /\ betas = asked
       \/ Required \notin Range(asked)
            /\ \E k \in DOMAIN betas : betas[k] = Required /\ RemoveAt(betas, k) = asked

(* The gate would let it through again and leave it as it is. *)
Settled(c) ==
  LET gated == Gated(c)
  IN /\ Admits(gated) /\ Gated(gated) = gated
     /\ ~Newer(Version(Stated(gated.fields)), Supported)

(* A release, named in the User-Agent as well. *)
Consistent(c) == c.ua.is = "cli" /\ ~Version(Stated(c.fields))[1].pre
=============================================================================
