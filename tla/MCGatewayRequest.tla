-------------------------- MODULE MCGatewayRequest --------------------------
(* GatewayRequest with model values for TLC, and the requests that it is given and
   sends on. *)
EXTENDS GatewayOutbound

CONSTANTS r1, r2, a1, a2, s1

OneRequest == {r1}
TwoRequests == {r1, r2}
TwoAccounts == {a1, a2}
OneSession == {s1}

\* One account on its static proxy, one on the dynamic pool.
StaticAndProxy == (a1 :> [mode |-> "static", static |-> TRUE])
                    @@ (a2 :> [mode |-> "proxy", static |-> FALSE])

\* One account on its static proxy, one on Vercel; the dynamic pool serves an account
\* that a reload has made unknown.
StaticAndVercel == (a1 :> [mode |-> "static", static |-> TRUE])
                    @@ (a2 :> [mode |-> "vercel", static |-> FALSE])

AllTransports == {"Proxy", "Vercel"}

\* Versions before, at and after the newest supported one (2), with and without the
\* fingerprint of one of two texts, and malformed ones.
Cores == {<<Release(1)>>, <<Release(2)>>, <<Release(3)>>, <<Prerelease(1)>>, <<Prerelease(3)>>}
Raws == Cores \cup {<<>>, <<Junk>>, <<Release(1), Junk>>}
          \cup {Append(core, Fp(t, core)) : core \in Cores \cup {<<>>}, t \in {"hi", EmptyText}}
CcVersion(raw) == [key |-> "cc_version", value |-> raw]
Cch == [key |-> "cch", value |-> "client"]
Other == [key |-> "cc_entrypoint", value |-> "cli"]
Fields == UNION {{<<CcVersion(raw), Other, Cch>>, <<Cch, CcVersion(raw)>>, <<CcVersion(raw)>>,
                  <<Cch, CcVersion(raw), Cch>>, <<CcVersion(raw), CcVersion(raw), Cch>>}
                   : raw \in Raws} \cup {<<>>}
Agents == {NoAgent, OtherAgent} \cup {Cli(raw) : raw \in Raws}
Parts == {[user |-> TRUE, form |-> "string", text |-> "hi"],
          [user |-> TRUE, form |-> "block", text |-> "bye"],
          [user |-> TRUE, form |-> "reminder", text |-> "hi"],
          [user |-> FALSE, form |-> "string", text |-> "hi"]}

Claude == <<ClaudeCode, <<"context">>>>
Secrets == <<Line("authorization", <<Client>>), Line("x-api-key", <<Client>>),
             Line("x-ai-gateway-api-key", <<Client>>), Line("authorization", <<Client>>),
             Line("x-claude-code-session-id", <<Client>>), Line("host", <<Client>>),
             Line("x-client-request-id", <<Client>>), Line("content-length", <<Client>>)>>
HeaderLists ==
  {<<>>, Secrets} \cup
  {secrets \o <<Line("anthropic-beta", betas)>> :
     secrets \in {<<>>, Secrets},
     betas \in {<<>>, Claude, <<<<"context">>, ClaudeCode>>, <<ClaudeCode, <<"context">>, Required>>}}

\* One request of every version and agent, and one of every form of the headers.
Plain == [fields |-> <<CcVersion(<<Release(1), Fp("hi", <<Release(1)>>)>>), Cch>>,
          ua |-> NoAgent, messages |-> Parts, session |-> NoMetadata, headers |-> <<>>]
Requested ==
  {[Plain EXCEPT !.fields = f, !.ua = ua, !.messages = parts] :
     f \in Fields, ua \in Agents, parts \in SUBSET Parts} \cup
  {[Plain EXCEPT !.session = s, !.headers = h] :
     s \in {NoMetadata, Blank, "session"}, h \in HeaderLists}
=============================================================================
