----------------------------- MODULE TokenRefresh -----------------------------
(***************************************************************************)
(* The OAuth tokens of one account: TokenAllocator with its refresh lock,  *)
(* the rounds of AccountMonitor, the forced refresh of a Created change,   *)
(* logins that write new credentials, the account file, and crashes.       *)
(*                                                                         *)
(* The token endpoint is external.  It may rotate the refresh token, and   *)
(* then accepts only the new one; a request or its answer may be lost.     *)
(* An account file is updated atomically (AccountStore shows that it is).  *)
(* The renewal of a proxy after a failed connection is ProxyPool's.        *)
(***************************************************************************)
EXTENDS Naturals, FiniteSets

CONSTANTS
  Monitor,      \* the account monitor
  Creators,     \* Created changes under way, each with a forced refresh
  Buffer,       \* TOKEN_REFRESH_BUFFER_MS
  Lifetime,     \* of the tokens that the endpoint issues
  MaxTime,      \* bound: the clock
  MaxLogin,     \* bound: logins
  MaxSerial     \* bound: refresh tokens issued

ASSUME MonitorAssumption == Monitor \notin Creators /\ "free" \notin Creators \cup {Monitor}
ASSUME CreatorsAssumption == IsFiniteSet(Creators)
ASSUME TimeAssumption == Buffer \in Nat /\ Lifetime \in Nat /\ MaxTime \in Nat
ASSUME BoundAssumption == MaxLogin \in Nat \ {0} /\ MaxSerial \in Nat \ {0}

VARIABLES
  now,          \* the clock
  file,         \* the account file: its cli section and `disabled'
  accepted,     \* the endpoint: the refresh token it accepts for each login, 0 before
  issued,       \* the endpoint: refresh tokens issued so far
  lock,         \* who holds the account's refresh lock
  pc,           \* where the monitor and each forced refresh stand
  cli,          \* the credentials each has read or received
  listed,       \* the monitor's copy of the account in this round
  started,      \* now_ms of this round
  stopped,      \* the monitor's cancel token
  lost          \* logins of which a rotated token never reached the file

worldVars == <<now, accepted, issued>>
roundVars == <<listed, started, stopped>>
vars == <<worldVars, file, lock, pc, cli, roundVars, lost>>

Refreshers == Creators \cup {Monitor}
Logins == 1..MaxLogin
Free == "free"

Cli == [login : Logins, serial : 1..MaxSerial, exp : 0..(MaxTime + Lifetime)]
File == [login : Logins, serial : 1..MaxSerial, exp : 0..(MaxTime + Lifetime), disabled : BOOLEAN]
CliOf(f) == [login |-> f.login, serial |-> f.serial, exp |-> f.exp]
NoCli == [login |-> 1, serial |-> 1, exp |-> 0]

(* is_token_expiring *)
Expiring(exp) == now + Buffer >= exp

Goto(r, l) == pc' = [pc EXCEPT ![r] = l]

(* A refresh that is over, whatever came of it, drops the lock's guard.  The monitor
   goes on with the usage, a Created change is done. *)
Finish(r) ==
  /\ Goto(r, IF r = Monitor THEN "usage" ELSE "idle")
  /\ cli' = [cli EXCEPT ![r] = NoCli]
  /\ lock' = IF lock = r THEN Free ELSE lock

-----------------------------------------------------------------------------
(* TokenAllocator *)

(* Created: force_refresh_token, if the token has not expired *)
Created(r) ==
  /\ r \in Creators /\ pc[r] = "idle"
  /\ file.exp > now
  /\ Goto(r, "wait")
  /\ UNCHANGED <<worldVars, file, lock, cli, roundVars, lost>>

(* do_refresh with the lock: read the account again; another one may have refreshed
   it meanwhile, which only a forced refresh disregards.  No proxy url, no refresh. *)
Acquire(r) ==
  /\ pc[r] = "wait" /\ lock = Free
  /\ \/ /\ r \in Creators \/ Expiring(file.exp)
        /\ lock' = r
        /\ cli' = [cli EXCEPT ![r] = CliOf(file)]
        /\ Goto(r, "request")
     \/ Finish(r)
  /\ UNCHANGED <<worldVars, file, roundVars, lost>>

\* Mutant: after the timeout the refresh goes on without the lock.
TimeoutProceeds(r) ==
  /\ pc[r] = "wait" /\ lock # Free
  /\ cli' = [cli EXCEPT ![r] = CliOf(file)]
  /\ Goto(r, "request")
  /\ UNCHANGED <<worldVars, file, lock, roundVars, lost>>

\* Mutant: the lock is waited for as long as it takes.
NoTimeout(r) == FALSE /\ Finish(r) /\ UNCHANGED <<worldVars, file, roundVars, lost>>

(* The lock was not free for 30 s. *)
LockTimeout(r) ==
  /\ pc[r] = "wait" /\ lock # Free
  /\ Finish(r)
  /\ UNCHANGED <<worldVars, file, roundVars, lost>>

(* The endpoint takes CliClient::refresh's request: it rotates the refresh token or
   lets it stand, or refuses one that it has replaced. *)
Request(r) ==
  /\ pc[r] = "request"
  /\ LET c == cli[r]
     IN \/ /\ c.serial = accepted[c.login] /\ issued < MaxSerial
           /\ issued' = issued + 1
           /\ accepted' = [accepted EXCEPT ![c.login] = issued + 1]
           /\ cli' = [cli EXCEPT ![r].serial = issued + 1]
           /\ Goto(r, "reply")
           /\ UNCHANGED lock
        \/ /\ c.serial = accepted[c.login]
           /\ Goto(r, "reply")
           /\ UNCHANGED <<issued, accepted, cli, lock>>
        \/ /\ c.serial # accepted[c.login]
           /\ Finish(r)
           /\ UNCHANGED <<issued, accepted>>
  /\ UNCHANGED <<now, file, roundVars, lost>>

(* No connection: nothing reached the endpoint. *)
RequestFailed(r) ==
  /\ pc[r] = "request"
  /\ Finish(r)
  /\ UNCHANGED <<worldVars, file, roundVars, lost>>

(* A rotation the file does not know of is lost with the reply. *)
Forgotten(r) ==
  IF pc[r] = "reply" /\ accepted[cli[r].login] = cli[r].serial
       /\ ~(file.login = cli[r].login /\ file.serial = cli[r].serial)
    THEN {cli[r].login} ELSE {}

(* The answer does not arrive or cannot be read, or set_cli cannot write the file. *)
ReplyLost(r) ==
  /\ pc[r] = "reply"
  /\ lost' = lost \cup Forgotten(r)
  /\ Finish(r)
  /\ UNCHANGED <<worldVars, file, roundVars>>

\* Mutant: the refresh token of the request is kept.
PersistUnrotated(r) ==
  /\ pc[r] = "reply"
  /\ file' = [file EXCEPT !.login = cli[r].login, !.exp = now + Lifetime]
  /\ Finish(r)
  /\ UNCHANGED <<worldVars, roundVars, lost>>

(* parse_token_response and set_cli without scopes *)
Persist(r) ==
  /\ pc[r] = "reply"
  /\ file' = [file EXCEPT !.login = cli[r].login, !.serial = cli[r].serial, !.exp = now + Lifetime]
  /\ Finish(r)
  /\ UNCHANGED <<worldVars, roundVars, lost>>

-----------------------------------------------------------------------------
(* AccountMonitor *)

(* check_all: the list of accounts *)
Round ==
  /\ pc[Monitor] = "idle" /\ ~stopped
  /\ listed' = [exp |-> file.exp, disabled |-> file.disabled]
  /\ started' = now
  /\ Goto(Monitor, "check")
  /\ UNCHANGED <<worldVars, file, lock, cli, stopped, lost>>

(* The token, as listed; ensure_valid_token reads the file. *)
CheckToken ==
  /\ pc[Monitor] = "check"
  /\ Goto(Monitor, IF /\ ~listed.disabled
                      /\ listed.exp <= started \/ Expiring(listed.exp)
                      /\ Expiring(file.exp)
                     THEN "wait" ELSE "usage")
  /\ UNCHANGED <<worldVars, file, lock, cli, roundVars, lost>>

(* The usage: `disabled' as listed, the expiry read again, both against now_ms of the
   round's start *)
EndRound ==
  /\ Goto(Monitor, "idle")
  /\ listed' = [exp |-> 0, disabled |-> FALSE]
  /\ started' = 0

CheckUsage ==
  /\ pc[Monitor] = "usage"
  /\ IF ~listed.disabled /\ file.exp > started
       THEN /\ Goto(Monitor, "ask")
            /\ cli' = [cli EXCEPT ![Monitor] = CliOf(file)]
            /\ UNCHANGED <<listed, started>>
       ELSE EndRound /\ UNCHANGED cli
  /\ UNCHANGED <<worldVars, file, lock, stopped, lost>>

(* refresh_quota: a usage, or an error of the connection or of parsing *)
Usage ==
  /\ pc[Monitor] = "ask"
  /\ EndRound
  /\ cli' = [cli EXCEPT ![Monitor] = NoCli]
  /\ UNCHANGED <<worldVars, file, lock, stopped, lost>>

(* HTTP 401 or 403: set_disabled, best effort *)
UsageDenied ==
  /\ pc[Monitor] = "ask"
  /\ file' \in {file, [file EXCEPT !.disabled = TRUE]}
  /\ EndRound
  /\ cli' = [cli EXCEPT ![Monitor] = NoCli]
  /\ UNCHANGED <<worldVars, lock, stopped, lost>>

(* stop() only keeps the next round from beginning. *)
Stop ==
  /\ ~stopped
  /\ stopped' = TRUE
  /\ UNCHANGED <<worldVars, file, lock, pc, cli, listed, started, lost>>

-----------------------------------------------------------------------------
(* The rest of the application and of the world *)

(* handle_oauth_result: set_cli with scopes, outside the refresh lock *)
Login ==
  /\ issued < MaxSerial
  /\ issued' = issued + 1
  /\ \E l \in Logins :
        /\ accepted[l] = 0 /\ \A k \in 1..(l - 1) : accepted[k] # 0
        /\ accepted' = [accepted EXCEPT ![l] = issued + 1]
        /\ file' = [file EXCEPT !.login = l, !.serial = issued + 1, !.exp = now + Lifetime]
  /\ UNCHANGED <<now, lock, pc, cli, roundVars, lost>>

SetDisabled ==
  /\ file' = [file EXCEPT !.disabled = ~@]
  /\ UNCHANGED <<worldVars, lock, pc, cli, roundVars, lost>>

Tick ==
  /\ now < MaxTime
  /\ now' = now + 1
  /\ UNCHANGED <<accepted, issued, file, lock, pc, cli, roundVars, lost>>

(* The process ends at any moment; the file is all that is left. *)
Crash ==
  /\ lost' = lost \cup UNION {Forgotten(r) : r \in Refreshers}
  /\ lock' = Free
  /\ pc' = [r \in Refreshers |-> "idle"]
  /\ cli' = [r \in Refreshers |-> NoCli]
  /\ listed' = [exp |-> 0, disabled |-> FALSE]
  /\ started' = 0
  /\ stopped' = FALSE
  /\ UNCHANGED <<worldVars, file>>

-----------------------------------------------------------------------------
Init ==
  /\ now = 0
  /\ file = [login |-> 1, serial |-> 1, exp |-> Lifetime, disabled |-> FALSE]
  /\ accepted = [l \in Logins |-> IF l = 1 THEN 1 ELSE 0]
  /\ issued = 1
  /\ lock = Free
  /\ pc = [r \in Refreshers |-> "idle"]
  /\ cli = [r \in Refreshers |-> NoCli]
  /\ listed = [exp |-> 0, disabled |-> FALSE]
  /\ started = 0
  /\ stopped = FALSE
  /\ lost = {}

Next ==
  \/ \E r \in Refreshers : \/ Created(r) \/ Acquire(r) \/ LockTimeout(r) \/ Request(r)
                           \/ RequestFailed(r) \/ ReplyLost(r) \/ Persist(r)
  \/ Round \/ CheckToken \/ CheckUsage \/ Usage \/ UsageDenied \/ Stop
  \/ Login \/ SetDisabled \/ Tick \/ Crash

Spec == Init /\ [][Next]_vars

(* The timers of the tokio runtime fire.  The endpoint may never answer. *)
FairSpec == Spec /\ \A r \in Refreshers : WF_vars(Acquire(r) \/ LockTimeout(r))

-----------------------------------------------------------------------------
(* Properties *)

(* Every variable has its type; who talks to the endpoint holds the lock, and nobody else. *)
TypeOK ==
  /\ now \in 0..MaxTime
  /\ file \in File
  /\ accepted \in [Logins -> 0..MaxSerial]
  /\ issued \in 1..MaxSerial
  /\ lock \in Refreshers \cup {Free}
  /\ pc \in [Refreshers -> {"idle", "check", "wait", "request", "reply", "usage", "ask"}]
  /\ cli \in [Refreshers -> Cli]
  /\ listed \in [exp : 0..(MaxTime + Lifetime), disabled : BOOLEAN]
  /\ started \in 0..MaxTime
  /\ stopped \in BOOLEAN
  /\ lost \subseteq Logins
  /\ \A r \in Refreshers : lock = r <=> pc[r] \in {"request", "reply"}

(* A refresh token that the endpoint has replaced is not presented again: the monitor
   and forced refreshes take turns and read the file after they have the lock
   (token_allocator.rs:82-100).  Only a rotation that was lost makes it happen. *)
NoReplay ==
  \A r \in Refreshers : pc[r] = "request" =>
    cli[r].serial = accepted[cli[r].login] \/ cli[r].login \in lost

(* The only valid refresh token of the login in the file is in the file or about to be
   written to it, whatever refreshes, logins, timeouts and crashes interleave, unless the
   answer that carried it was lost or could not be written (token_allocator.rs:126-136). *)
TokenKept ==
  \/ file.serial = accepted[file.login]
  \/ file.login \in lost
  \/ \E r \in Refreshers : pc[r] = "reply" /\ cli[r].login = file.login

(* A refresh does not hang behind another one whose request is never answered
   (token_allocator.rs:87-90). *)
WaiterEnds == \A r \in Refreshers : pc[r] = "wait" ~> pc[r] # "wait"

(* The monitor asks for no usage with an expired token, because the answer disables the
   account: "Expired token accounts skip (get_usage returns 401)" (account_monitor.rs:152). *)
ExpiredSkipped ==
  [][pc[Monitor] = "usage" /\ pc'[Monitor] = "ask" => file.exp > now]_vars
=============================================================================
