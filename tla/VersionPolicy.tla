---------------------------- MODULE VersionPolicy ----------------------------
(***************************************************************************)
(* The gate every request on the gateway's path passes before an account   *)
(* is chosen for it (policy.rs): it reads the version the client states in *)
(* its billing header, compares it with the one in the User-Agent, checks  *)
(* the fingerprint that belongs to it against the messages, and caps the   *)
(* version at the newest one supported.                                    *)
(*                                                                         *)
(* All releases are 2.1.N, and a version text is the sequence of what      *)
(* follows "2.1.", between its dots: <<Release(119)>> for "2.1.119".  A    *)
(* text is its fingerprint's class.  Left out: build metadata, blanks,     *)
(* what surrounds the fields.                                              *)
(***************************************************************************)
EXTENDS Naturals, Sequences

CONSTANT Supported   \* N of MAX_SUPPORTED_VERSION

ASSUME SupportedAssumption == Supported \in Nat \ {0}

Release(n) == [n |-> n, pre |-> FALSE]
Prerelease(n) == [n |-> n, pre |-> TRUE]
Junk == [junk |-> TRUE]
IsNumber(s) == "n" \in DOMAIN s

(* A version text: its numbers are natural. *)
IsText(raw) ==
  /\ raw \in Seq({raw[i] : i \in DOMAIN raw})
  /\ \A i \in DOMAIN raw : IsNumber(raw[i]) => raw[i] \in [n : Nat, pre : BOOLEAN]

(* compute_fp of a text and the version before the last dot; this repository has only
   a stub of it. *)
Fp(text, version) == [text |-> text, version |-> version]
EmptyText == "empty"

(* parse_cc_cli_version.  In a pre-release, whatever follows belongs to the version;
   three plain numbers are enough otherwise. *)
Parses(raw) == raw # <<>> /\ IsNumber(raw[1])
Version(raw) == IF raw[1].pre THEN raw ELSE <<raw[1]>>

Newer(version, n) == version[1].n > n

(* extract_cc_version_from_ua: a User-Agent is none, one of another program, or
   claude-cli's with a version text. *)
NoAgent == [is |-> "none", raw |-> <<>>]
OtherAgent == [is |-> "other", raw |-> <<>>]
Cli(raw) == [is |-> "cli", raw |-> raw]

(* clamp_user_agent replaces the first "/<version>" of the User-Agent, if there is
   one; a client that sent none gets "claude-cli/0.0.0". *)
DefaultAgent == Cli(<<Release(0)>>)
ClampedAgent(ua, version) ==
  LET agent == IF ua = NoAgent THEN DefaultAgent ELSE ua
      n == Len(version)
  IN IF agent.is = "cli" /\ Len(agent.raw) >= n /\ SubSeq(agent.raw, 1, n) = version
     THEN Cli(<<Release(Supported)>> \o SubSeq(agent.raw, n + 1, Len(agent.raw)))
     ELSE agent

(* parse_billing_fields: exactly one cc_version and one cch, whatever else is there. *)
Of(fields, key) == {i \in DOMAIN fields : fields[i].key = key}
One(S) == \E i \in S : S = {i}
Stated(fields) == fields[CHOOSE i \in Of(fields, "cc_version") : TRUE].value
WellFormed(fields) ==
  One(Of(fields, "cc_version")) /\ One(Of(fields, "cch")) /\ Stated(fields) # <<>>

(* split_version_fp: the fingerprint is what follows the last dot. *)
Core(raw) == SubSeq(raw, 1, Len(raw) - 1)
Fingerprint(raw) == raw[Len(raw)]

(* find_verified_user_text, of the parts of all messages: a string a user's message
   consists of, or one of its text blocks that is no system reminder; the empty text
   where there is none of these. *)
UserTexts(messages) ==
  {m.text : m \in {m \in messages : m.user /\ m.form \in {"string", "block"}}}
Verifiable(messages) ==
  IF UserTexts(messages) = {} /\ (\E m \in messages : m.user) THEN {EmptyText}
  ELSE UserTexts(messages)
Verified(messages, raw) == {t \in Verifiable(messages) : Fp(t, Core(raw)) = Fingerprint(raw)}

(* rewrite_billing_header: the new version, and a placeholder for the checksum. *)
Placeholder == "00000"

\* Mutant: the fingerprint of the version the client had is kept.
RewriteKeepsFingerprint(fields, version, text) ==
  [i \in DOMAIN fields |->
     CASE fields[i].key = "cc_version" ->
            [key |-> "cc_version", value |-> Append(version, Fingerprint(Stated(fields)))]
       [] fields[i].key = "cch" -> [key |-> "cch", value |-> Placeholder]
       [] OTHER -> fields[i]]

Rewrite(fields, version, text) ==
  [i \in DOMAIN fields |->
     CASE fields[i].key = "cc_version" ->
            [key |-> "cc_version", value |-> Append(version, Fp(text, version))]
       [] fields[i].key = "cch" -> [key |-> "cch", value |-> Placeholder]
       [] OTHER -> fields[i]]

-----------------------------------------------------------------------------
(* gate: what becomes of a request's billing fields and User-Agent. *)

Agrees(ua, version) == ua.is = "cli" => Parses(ua.raw) /\ Version(ua.raw) = version

Admits(request) ==
  /\ WellFormed(request.fields)
  /\ LET raw == Stated(request.fields)
     IN Parses(raw) /\ Agrees(request.ua, Version(raw)) /\ Verified(request.messages, raw) # {}

Gated(request) ==
  LET raw == Stated(request.fields)
      version == Version(raw)
      capped == IF Newer(version, Supported) THEN <<Release(Supported)>> ELSE version
      text == CHOOSE t \in Verified(request.messages, raw) : TRUE
  IN [request EXCEPT
        !.fields = Rewrite(@, capped, text),
        !.ua = IF Newer(version, Supported) THEN ClampedAgent(@, version) ELSE @]
=============================================================================
