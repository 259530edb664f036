------------------------------ MODULE ProxyPool ------------------------------
(***************************************************************************)
(* The proxy pool of one account (proxy/pool.rs) between two calls of      *)
(* stop(): the account's AccountProxy entry, the release channel and its   *)
(* consumer, the gateway requests and URL look-ups that use the entry, its *)
(* maintain loop, and the user's enable/disable toggle.                    *)
(*                                                                         *)
(* Accounts share nothing but the release channel, so one account is the   *)
(* general case.  An action is the code between two awaits: a section      *)
(* under the entry's Mutex, one message of the channel, or one answer of   *)
(* the network.  Sessions are numbered as they are allocated for the entry; a  *)
(* connection is the number of the session that carries it.  A request     *)
(* that is dropped with its slot still counted ends in "gone" and is not   *)
(* used again.                                                             *)
(***************************************************************************)
EXTENDS Naturals, Sequences, FiniteSets

CONSTANTS
  Requests,     \* concurrent users of the entry: gateway sends and URL look-ups
  Maintain,     \* the account's maintain loop
  NoOne,        \* "no owner" of a lock
  Countries,    \* target countries a caller may ask for
  AsksFor,      \* those that each of them asks for
  MaxConns,     \* config.max_conns_per_account
  MaxStandby,   \* config.max_standby_per_account
  ChanCap,      \* capacity of the release channel (256 in the code)
  MaxSessions,  \* bound: sessions allocated in a behaviour
  GeoReports,   \* does the IP service in use report a country? (ipify does not)
  Drift,        \* may it report one that is not the session's?
  Disconnects,  \* may a client hang up, which drops the request's future?
  Cycles,       \* does the maintain loop run? (it skips a cold account)
  Rewrites      \* may other commands write the account file's proxy?

ASSUME RequestsAssumption == IsFiniteSet(Requests)
ASSUME ProcessAssumption == Maintain \notin Requests /\ NoOne \notin Requests \cup {Maintain}
ASSUME CountriesAssumption == Countries # {} /\ AsksFor \in [Requests -> SUBSET Countries]
ASSUME BoundsAssumption == /\ MaxConns \in Nat \ {0} /\ MaxStandby \in Nat \ {0}
                           /\ ChanCap \in Nat \ {0} /\ MaxSessions \in Nat
ASSUME EnvironmentAssumption == {GeoReports, Drift, Disconnects, Cycles, Rewrites} \subseteq BOOLEAN

VARIABLES
  \* The AccountProxy entry, under its Mutex.
  present,      \* is the account in the accounts map?
  active,       \* active.session and active.proxy_url
  target,       \* state.country
  idle,         \* active.idle_conns
  checkedOut,   \* active.checked_out
  standby,      \* state.standby; the fastest is "any of them" here
  disabled,     \* state.disabled
  \* The account's JSON file, and a toggle written to it but not yet routed.
  persisted,    \* the pool's session that Account.proxy names, 0 if it names none
  userDisabled, \* Account.user_disabled
  toggle,       \* change that set_user_disabled has still to route
  \* Locks and the channel.
  ensureLock,   \* holder of the account's ensure_lock
  switchLock,   \* holder of the account's switch_lock
  choice,       \* the session that holder is switching to
  releases,     \* the release channel
  sessions,     \* how many sessions were allocated so far
  \* Locals of the processes.
  pc,           \* where each request and the maintain loop stand
  after,        \* where to go on after a switch, or after giving a slot back
  want,         \* the country asked for (request) or snapshot (maintain loop)
  mine,         \* the session a request or the maintain loop works with
  pooled,       \* is_pooled of each request
  seen          \* the standby sessions a maintain cycle set out to probe

entryVars == <<present, active, target, idle, checkedOut, standby, disabled>>
fileVars  == <<persisted, userDisabled, toggle>>
sharedVars == <<ensureLock, switchLock, choice, releases, sessions>>
localVars == <<pc, after, want, mine, pooled, seen>>
vars == <<entryVars, fileVars, sharedVars, localVars>>

Procs == Requests \cup {Maintain}

SessionIds == 0..MaxSessions

(* A session as a proxy URL names it: its id and the country in the URL. *)
Session == [sid : SessionIds, country : Countries]

Message == [kind : {"return", "discard"}, sid : SessionIds, pooled : BOOLEAN]

RequestPCs == {"idle", "ensure", "ensureLock", "allocate", "readFlag", "insert", "insertDisabled",
               "ready", "establish", "giveBack", "sending", "streaming", "renew", "gone"}
MaintainPCs == {"idle", "verify", "reinstall", "probe", "slots", "challenge", "evict"}
SwitchPCs == {"switch", "commit", "commitFresh", "install", "installFresh"}

-----------------------------------------------------------------------------
Free(lock, p) == IF lock = p THEN NoOne ELSE lock

NoSession == [sid |-> 0, country |-> CHOOSE c \in Countries : TRUE]

NoChoice == [session |-> NoSession, country |-> NoSession.country]

Goto(p, l) == pc' = [pc EXCEPT ![p] = l]

(* A process that returns (or is dropped) forgets its locals. *)
Leave(p, l) == /\ Goto(p, l)
               /\ mine' = [mine EXCEPT ![p] = NoSession]
               /\ want' = [want EXCEPT ![p] = NoSession.country]

(* allocate_ephemeral / allocate: the next session, with a URL for country c. *)
Fresh(c) == [sid |-> sessions + 1, country |-> c]
CanAllocate(n) == sessions + n =< MaxSessions

Total == Len(idle) + checkedOut

Room == Len(releases) < ChanCap

Release(kind, r) == Append(releases, [kind |-> kind, sid |-> mine[r].sid, pooled |-> pooled[r]])

(* What may be left of the connections s once the closed and expired ones go. *)
Increasing(n, s) == {f \in [1..n -> DOMAIN s] : \A i, j \in 1..n : i < j => f[i] < f[j]}
Kept(s) == UNION {{[i \in 1..n |-> s[f[i]]] : f \in Increasing(n, s)} : n \in 0..Len(s)}

-----------------------------------------------------------------------------
(* ensure_proxy *)

Start(r, c) ==
  /\ pc[r] = "idle" /\ c \in AsksFor[r]
  /\ Goto(r, "ensure")
  /\ want' = [want EXCEPT ![r] = c]
  /\ UNCHANGED <<entryVars, fileVars, sharedVars, after, mine, pooled, seen>>

(* Fast path on the right country (also re-entered under the ensure_lock). *)
EnsureFast(r) ==
  /\ pc[r] = "ensure" /\ present
  /\ target = want[r]
  /\ Goto(r, "ready")
  /\ ensureLock' = Free(ensureLock, r)
  /\ UNCHANGED <<entryVars, fileVars, switchLock, choice, releases, sessions,
                 after, want, mine, pooled, seen>>

\* Mutant: update_account_country shares the ensure_lock, as disable_in_pool does.
UpdateCountryLocked(r) ==
  /\ pc[r] = "ensure" /\ present
  /\ target # want[r]
  /\ ensureLock = NoOne
  /\ ensureLock' = r
  /\ target' = want[r]
  /\ standby' = {}
  /\ Goto(r, "switch")
  /\ after' = [after EXCEPT ![r] = "ready"]
  /\ UNCHANGED <<present, active, idle, checkedOut, disabled, fileVars, switchLock, choice,
                 releases, sessions, want, mine, pooled, seen>>

(* Fast path on another country: update_account_country, then a renewal. *)
UpdateCountry(r) ==
  /\ pc[r] = "ensure" /\ present
  /\ target # want[r]
  /\ target' = want[r]
  /\ standby' = {}
  /\ Goto(r, "switch")
  /\ after' = [after EXCEPT ![r] = "ready"]
  /\ UNCHANGED <<present, active, idle, checkedOut, disabled, fileVars, sharedVars,
                 want, mine, pooled, seen>>

EnsureMiss(r) ==
  /\ pc[r] = "ensure" /\ ~present
  /\ Goto(r, "ensureLock")
  /\ UNCHANGED <<entryVars, fileVars, sharedVars, after, want, mine, pooled, seen>>

(* Slow path: take the ensure_lock and look again. *)
EnsureLocked(r) ==
  /\ pc[r] = "ensureLock"
  /\ ensureLock = NoOne
  /\ ensureLock' = r
  /\ Goto(r, IF present THEN "ensure" ELSE "allocate")
  /\ UNCHANGED <<entryVars, fileVars, switchLock, choice, releases, sessions,
                 after, want, mine, pooled, seen>>

(* allocator.allocate: verify a fresh session and write it to the account file. *)
EnsureAllocate(r) ==
  /\ pc[r] = "allocate"
  /\ CanAllocate(1)
  /\ mine' = [mine EXCEPT ![r] = Fresh(want[r])]
  /\ sessions' = sessions + 1
  /\ persisted' = sessions + 1
  /\ Goto(r, "readFlag")
  /\ UNCHANGED <<entryVars, userDisabled, toggle, ensureLock, switchLock, choice, releases,
                 after, want, pooled, seen>>

EnsureExhausted(r) ==
  /\ pc[r] = "allocate"
  /\ ensureLock' = NoOne
  /\ Leave(r, "idle")
  /\ UNCHANGED <<entryVars, fileVars, switchLock, choice, releases, sessions,
                 after, pooled, seen>>

(* is_user_disabled awaits the account's read lock; the insert comes after it. *)
EnsureReadFlag(r) ==
  /\ pc[r] = "readFlag"
  /\ Goto(r, IF userDisabled THEN "insertDisabled" ELSE "insert")
  /\ UNCHANGED <<entryVars, fileVars, sharedVars, after, want, mine, pooled, seen>>

(* Insert the entry; its maintain loop starts with it. *)
EnsureInsert(r) ==
  /\ pc[r] \in {"insert", "insertDisabled"}
  /\ present' = TRUE
  /\ active' = mine[r]
  /\ target' = want[r]
  /\ idle' = <<>> /\ checkedOut' = 0 /\ standby' = {}
  /\ disabled' = (pc[r] = "insertDisabled")
  /\ ensureLock' = NoOne
  /\ Goto(r, "ready")
  /\ UNCHANGED <<fileVars, switchLock, choice, releases, sessions,
                 after, want, mine, pooled, seen>>

-----------------------------------------------------------------------------
(* acquire, send and the release of a connection *)

(* get_active_proxy_url: the caller takes the active URL and no connection. *)
ReadUrl(r) ==
  /\ pc[r] = "ready"
  /\ Leave(r, "idle")
  /\ UNCHANGED <<entryVars, fileVars, sharedVars, after, pooled, seen>>

AcquireDisabled(r) ==
  /\ pc[r] = "ready" /\ disabled
  /\ Leave(r, "idle")
  /\ UNCHANGED <<entryVars, fileVars, sharedVars, after, pooled, seen>>

(* Pop idle connections, dropping closed and expired ones, until one is usable. *)
AcquireHit(r) ==
  /\ pc[r] = "ready" /\ ~disabled
  /\ \E n \in DOMAIN idle :
       /\ idle' = SubSeq(idle, 1, n - 1)
       /\ mine' = [mine EXCEPT ![r] = [sid |-> idle[n], country |-> active.country]]
  /\ checkedOut' = checkedOut + 1
  /\ pooled' = [pooled EXCEPT ![r] = TRUE]
  /\ want' = [want EXCEPT ![r] = NoSession.country]
  /\ Goto(r, "sending")
  /\ UNCHANGED <<present, active, target, standby, disabled, fileVars, sharedVars,
                 after, seen>>

(* No usable idle connection: reserve a slot if one is left, and connect. *)
AcquireMiss(r) ==
  /\ pc[r] = "ready" /\ ~disabled
  /\ idle' = <<>>
  /\ pooled' = [pooled EXCEPT ![r] = checkedOut < MaxConns]
  /\ checkedOut' = IF checkedOut < MaxConns THEN checkedOut + 1 ELSE checkedOut
  /\ mine' = [mine EXCEPT ![r] = active]
  /\ want' = [want EXCEPT ![r] = NoSession.country]
  /\ Goto(r, "establish")
  /\ UNCHANGED <<present, active, target, standby, disabled, fileVars, sharedVars,
                 after, seen>>

(* Connected: a pooled connection whose session was switched away meanwhile
   gives its slot back and is used as an overflow connection. *)
Established(r) ==
  /\ pc[r] = "establish"
  /\ IF pooled[r] /\ active.sid # mine[r].sid
       THEN Goto(r, "giveBack") /\ after' = [after EXCEPT ![r] = "sending"]
       ELSE Goto(r, "sending") /\ UNCHANGED after
  /\ UNCHANGED <<entryVars, fileVars, sharedVars, want, mine, pooled, seen>>

EstablishFailed(r) ==
  /\ pc[r] = "establish"
  /\ IF pooled[r]
       THEN Goto(r, "giveBack") /\ after' = [after EXCEPT ![r] = "renew"]
       ELSE Goto(r, "renew") /\ UNCHANGED after
  /\ UNCHANGED <<entryVars, fileVars, sharedVars, want, mine, pooled, seen>>

(* send_on_sender failed: Discard, then try_switch_to_standby. *)
SendFailed(r) ==
  /\ pc[r] = "sending"
  /\ Goto(r, "giveBack")
  /\ after' = [after EXCEPT ![r] = "switch"]
  /\ UNCHANGED <<entryVars, fileVars, sharedVars, want, mine, pooled, seen>>

(* tx.send(Discard).await waits for room in the channel. *)
GiveBack(r) ==
  /\ pc[r] = "giveBack"
  /\ Room
  /\ releases' = Release("discard", r)
  /\ pooled' = [pooled EXCEPT ![r] = FALSE]
  /\ Goto(r, after[r])
  /\ after' = [after EXCEPT ![r] = IF @ = "switch" THEN "renew" ELSE "idle"]
  /\ UNCHANGED <<entryVars, fileVars, ensureLock, switchLock, choice, sessions,
                 want, mine, seen>>

(* After ConnectionFailed the handler renews the proxy and retries, or gives up. *)
Renew(r) ==
  /\ pc[r] = "renew"
  /\ \/ Goto(r, "switch") /\ UNCHANGED <<mine, want>>
     \/ Leave(r, "idle")
  /\ UNCHANGED <<entryVars, fileVars, sharedVars, after, pooled, seen>>

SendOk(r) ==
  /\ pc[r] = "sending"
  /\ Goto(r, "streaming")
  /\ UNCHANGED <<entryVars, fileVars, sharedVars, after, want, mine, pooled, seen>>

(* WrappedBody's drop: Return if the body was read to its end, Discard if not.
   try_send loses the message when the channel is full, and the slot with it. *)
BodyDropped(r, kind) ==
  /\ pc[r] = "streaming"
  /\ IF Room
       THEN /\ releases' = Release(kind, r)
            /\ pooled' = [pooled EXCEPT ![r] = FALSE]
            /\ Leave(r, "idle")
       ELSE /\ Leave(r, IF pooled[r] THEN "gone" ELSE "idle")
            /\ UNCHANGED <<releases, pooled>>
  /\ UNCHANGED <<entryVars, fileVars, ensureLock, switchLock, choice, sessions, after, seen>>

(* The client hangs up at an await before WrappedBody exists: the future is
   dropped with the locks it holds, and nothing returns its slot.  Between
   reading the flag and the insert there is no await. *)
Disconnect(r) ==
  /\ Disconnects
  /\ pc[r] \notin {"idle", "insert", "insertDisabled", "streaming", "gone"}
  /\ Leave(r, IF pooled[r] THEN "gone" ELSE "idle")
  /\ after' = [after EXCEPT ![r] = "idle"]
  /\ ensureLock' = Free(ensureLock, r)
  /\ switchLock' = Free(switchLock, r)
  /\ choice' = IF switchLock = r THEN NoChoice ELSE choice
  /\ UNCHANGED <<entryVars, fileVars, releases, sessions, pooled, seen>>

\* Mutant: the session of a returned connection is not compared.
ConsumeAnySession ==
  /\ releases # <<>>
  /\ releases' = Tail(releases)
  /\ LET m == Head(releases) IN
       /\ idle' = IF m.kind = "return" /\ m.pooled THEN Append(idle, m.sid) ELSE idle
       /\ checkedOut' = IF m.pooled /\ checkedOut > 0 THEN checkedOut - 1 ELSE checkedOut
  /\ UNCHANGED <<present, active, target, standby, disabled, fileVars, ensureLock, switchLock,
                 choice, sessions, localVars>>

\* Mutant: an overflow connection gives back a slot it never took.
ConsumeOverflow ==
  /\ releases # <<>>
  /\ releases' = Tail(releases)
  /\ checkedOut' = checkedOut - 1
  /\ UNCHANGED <<present, active, target, idle, standby, disabled, fileVars, ensureLock,
                 switchLock, choice, sessions, localVars>>

\* Mutant: acquire waits for room in the channel with the entry locked (drop(state) is gone).
ConsumeBehindAcquire ==
  /\ releases # <<>>
  /\ \A r \in Requests : pc[r] = "giveBack" => after[r] # "sending"
  /\ releases' = Tail(releases)
  /\ LET m == Head(releases) IN
       /\ \/ /\ m.kind = "return" /\ m.pooled /\ m.sid = active.sid
             /\ idle' = Append(idle, m.sid)
          \/ UNCHANGED idle
       /\ checkedOut' = IF m.pooled /\ checkedOut > 0 THEN checkedOut - 1 ELSE checkedOut
  /\ UNCHANGED <<present, active, target, standby, disabled, fileVars, ensureLock, switchLock,
                 choice, sessions, localVars>>

(* One message of release_consumer_loop.  The connection may have been closed
   or expired on its way, and is then dropped. *)
Consume ==
  /\ releases # <<>>
  /\ releases' = Tail(releases)
  /\ LET m == Head(releases) IN
       /\ \/ /\ m.kind = "return" /\ m.pooled /\ m.sid = active.sid
             /\ idle' = Append(idle, m.sid)
          \/ UNCHANGED idle
       /\ checkedOut' = IF m.pooled /\ checkedOut > 0 THEN checkedOut - 1 ELSE checkedOut
  /\ UNCHANGED <<present, active, target, standby, disabled, fileVars, ensureLock, switchLock,
                 choice, sessions, localVars>>

-----------------------------------------------------------------------------
(* try_switch_to_standby, for a request or for the maintain loop *)

(* Take the switch_lock and pick the best standby, or none if there is none. *)
SwitchBegin(p) ==
  /\ pc[p] = "switch"
  /\ switchLock = NoOne
  /\ switchLock' = p
  /\ \/ \E s \in standby : choice' = [session |-> s, country |-> target] /\ Goto(p, "commit")
     \/ /\ standby = {}
        /\ choice' = [session |-> active, country |-> target]
        /\ Goto(p, "commitFresh")
  /\ UNCHANGED <<entryVars, fileVars, ensureLock, releases, sessions,
                 after, want, mine, pooled, seen>>

(* commit_session writes the chosen standby to the account file. *)
SwitchCommit(p) ==
  /\ pc[p] = "commit"
  /\ persisted' = choice.session.sid
  /\ Goto(p, "install")
  /\ UNCHANGED <<entryVars, userDisabled, toggle, sharedVars,
                 after, want, mine, pooled, seen>>

(* No standby: allocate_ephemeral for the target country, then commit_session. *)
SwitchCommitFresh(p) ==
  /\ pc[p] = "commitFresh"
  /\ CanAllocate(1)
  /\ choice' = [choice EXCEPT !.session = Fresh(choice.country)]
  /\ sessions' = sessions + 1
  /\ persisted' = sessions + 1
  /\ Goto(p, "installFresh")
  /\ UNCHANGED <<entryVars, userDisabled, toggle, ensureLock, switchLock, releases,
                 after, want, mine, pooled, seen>>

(* The end of a switch: its guard goes, and the ensure_lock if ensure_proxy
   re-entered its fast path under it. *)
SwitchReturn(p) ==
  /\ switchLock' = NoOne
  /\ choice' = NoChoice
  /\ ensureLock' = Free(ensureLock, p)
  /\ IF after[p] = "idle" THEN Leave(p, "idle") ELSE Goto(p, after[p]) /\ UNCHANGED <<mine, want>>
  /\ after' = [after EXCEPT ![p] = "idle"]

(* The allocation or the write of the account file failed. *)
SwitchFailed(p) ==
  /\ pc[p] \in {"commit", "commitFresh"}
  /\ SwitchReturn(p)
  /\ UNCHANGED <<entryVars, fileVars, releases, sessions, pooled, seen>>

\* Mutant: the new ActiveSession starts with checked_out = 0.
InstallResetsCount(p) ==
  /\ pc[p] \in {"install", "installFresh"}
  /\ active' = [sid |-> choice.session.sid, country |-> choice.country]
  /\ idle' = <<>> /\ standby' = standby \ {choice.session} /\ checkedOut' = 0
  /\ SwitchReturn(p)
  /\ UNCHANGED <<present, target, disabled, fileVars, releases, sessions, pooled, seen>>

\* Mutant: a committed standby that was cleared meanwhile is not installed.
InstallListedOnly(p) ==
  /\ pc[p] \in {"install", "installFresh"}
  /\ IF pc[p] = "installFresh" \/ choice.session \in standby
       THEN active' = choice.session /\ idle' = <<>> /\ standby' = standby \ {choice.session}
       ELSE UNCHANGED <<active, idle, standby>>
  /\ SwitchReturn(p)
  /\ UNCHANGED <<present, target, checkedOut, disabled, fileVars, releases, sessions, pooled, seen>>

(* Install the committed session; checked_out is carried over.  A chosen standby
   brings its warm connection, unless standby was cleared during the commit. *)
SwitchInstall(p) ==
  /\ pc[p] \in {"install", "installFresh"}
  /\ IF pc[p] = "install" /\ choice.session \in standby
       THEN /\ active' = choice.session
            /\ standby' = standby \ {choice.session}
            /\ idle' = <<choice.session.sid>>
       ELSE /\ active' = [sid |-> choice.session.sid, country |-> choice.country]
            /\ idle' = <<>>
            /\ UNCHANGED standby
  /\ SwitchReturn(p)
  /\ UNCHANGED <<present, target, checkedOut, disabled, fileVars, releases, sessions, pooled, seen>>

-----------------------------------------------------------------------------
(* run_maintain_cycle.  A cycle that is skipped (network down, cold account)
   does nothing: it is no step. *)

CycleBegin ==
  /\ Cycles
  /\ pc[Maintain] = "idle" /\ present
  /\ Goto(Maintain, IF disabled THEN "verify" ELSE "probe")
  /\ mine' = [mine EXCEPT ![Maintain] = active]
  /\ want' = [want EXCEPT ![Maintain] = target]
  /\ seen' = IF disabled THEN {} ELSE standby
  /\ UNCHANGED <<entryVars, fileVars, sharedVars, after, pooled>>

(* The verified IP may be found outside the target country as the cycle read it. *)
Misplaced == GeoReports /\ (Drift \/ mine[Maintain].country # want[Maintain])

(* The cycle's last step: verified in place, failed, timed out, or evicted. *)
CycleDone ==
  /\ pc[Maintain] \in {"verify", "probe", "evict"}
  /\ Leave(Maintain, "idle")
  /\ seen' = {}
  /\ IF pc[Maintain] = "evict"
       THEN idle' \in Kept(idle)
       ELSE UNCHANGED idle
  /\ UNCHANGED <<present, active, target, checkedOut, standby, disabled, fileVars, sharedVars,
                 after, pooled>>

(* A disabled account on a misplaced IP gets a new session; commit errors are
   ignored, and neither the switch_lock nor the idle connections are touched. *)
DisabledRenew ==
  /\ pc[Maintain] = "verify" /\ Misplaced
  /\ CanAllocate(1)
  /\ mine' = [mine EXCEPT ![Maintain] = Fresh(want[Maintain])]
  /\ sessions' = sessions + 1
  /\ persisted' \in {persisted, sessions + 1}
  /\ Goto(Maintain, "reinstall")
  /\ UNCHANGED <<entryVars, userDisabled, toggle, ensureLock, switchLock, choice, releases,
                 after, want, pooled, seen>>

DisabledReinstall ==
  /\ pc[Maintain] = "reinstall"
  /\ active' = mine[Maintain]
  /\ Leave(Maintain, "idle")
  /\ UNCHANGED <<present, target, idle, checkedOut, standby, disabled, fileVars, sharedVars,
                 after, pooled, seen>>

(* The active session is misplaced, or its probes grew slow or kept failing. *)
ProbeSwitch == Goto(Maintain, "switch") /\ seen' = {}

ProbeMisplaced ==
  /\ pc[Maintain] = "probe" /\ Misplaced
  /\ ProbeSwitch
  /\ UNCHANGED <<entryVars, fileVars, sharedVars, after, want, mine, pooled>>

(* The probe's connection joins the idle ones if its session is still active
   and there is room; it is dropped if it failed, closed or does not fit. *)
ProbeDone ==
  /\ pc[Maintain] = "probe"
  /\ \/ /\ active.sid = mine[Maintain].sid /\ Total < MaxConns
        /\ idle' = Append(idle, active.sid)
     \/ UNCHANGED idle
  /\ \/ ProbeSwitch
     \/ Goto(Maintain, "slots") /\ UNCHANGED seen
  /\ UNCHANGED <<present, active, target, checkedOut, standby, disabled, fileVars, sharedVars,
                 after, want, mine, pooled>>

(* Standby slots: the empty ones bring new sessions while there is room, then
   the probed ones that failed or are misplaced go. *)
StandbySlots ==
  /\ pc[Maintain] = "slots"
  /\ \E bad \in SUBSET seen, n \in 0..(MaxStandby - Cardinality(seen)) :
       /\ Cardinality(standby) + n =< MaxStandby \/ n = 0
       /\ CanAllocate(n)
       /\ standby' = (standby \cup {[sid |-> sessions + i, country |-> want[Maintain]] : i \in 1..n})
                        \ bad
       /\ sessions' = sessions + n
  /\ seen' = {}
  /\ Goto(Maintain, "challenge")
  /\ UNCHANGED <<present, active, target, idle, checkedOut, disabled, fileVars,
                 ensureLock, switchLock, choice, releases, after, want, mine, pooled>>

(* The challenger takes a free slot or that of the slowest standby. *)
ChallengerWins ==
  /\ pc[Maintain] = "challenge"
  /\ CanAllocate(1)
  /\ \E worst \in SUBSET standby :
       /\ Cardinality(worst) = IF Cardinality(standby) >= MaxStandby THEN 1 ELSE 0
       /\ standby' = (standby \ worst) \cup {Fresh(want[Maintain])}
  /\ sessions' = sessions + 1
  /\ Goto(Maintain, "evict")
  /\ UNCHANGED <<present, active, target, idle, checkedOut, disabled, fileVars,
                 ensureLock, switchLock, choice, releases, after, want, mine, pooled, seen>>

ChallengerLoses ==
  /\ pc[Maintain] = "challenge"
  /\ Goto(Maintain, "evict")
  /\ UNCHANGED <<entryVars, fileVars, sharedVars, after, want, mine, pooled, seen>>

-----------------------------------------------------------------------------
(* AccountManager::set_user_disabled: write the file, then route the change to
   the pool.  Toggles are made one at a time here. *)

SetUserDisabled(b) ==
  /\ toggle = "none"
  /\ userDisabled' = b
  /\ toggle' = IF b THEN "disable" ELSE "enable"
  /\ UNCHANGED <<entryVars, persisted, sharedVars, localVars>>

\* Mutant: disable_in_pool does not share the ensure_lock.
DisableUnlocked ==
  /\ toggle = "disable"
  /\ IF present
       THEN disabled' = TRUE /\ idle' = <<>> /\ standby' = {}
       ELSE UNCHANGED <<disabled, idle, standby>>
  /\ toggle' = "none"
  /\ UNCHANGED <<present, active, target, checkedOut, persisted, userDisabled, sharedVars,
                 localVars>>

(* disable_in_pool, which waits for the ensure_lock. *)
DisableInPool ==
  /\ toggle = "disable"
  /\ ensureLock = NoOne
  /\ IF present
       THEN disabled' = TRUE /\ idle' = <<>> /\ standby' = {}
       ELSE UNCHANGED <<disabled, idle, standby>>
  /\ toggle' = "none"
  /\ UNCHANGED <<present, active, target, checkedOut, persisted, userDisabled, sharedVars,
                 localVars>>

(* enable_in_pool, which does not. *)
EnableInPool ==
  /\ toggle = "enable"
  /\ disabled' = IF present THEN FALSE ELSE disabled
  /\ toggle' = "none"
  /\ UNCHANGED <<present, active, target, idle, checkedOut, standby, persisted, userDisabled,
                 sharedVars, localVars>>

(* AccountManager::set_proxy for another caller (a login's result, a tested static
   proxy, a route change): the account file names no session of the pool. *)
WriteSnapshot ==
  /\ Rewrites
  /\ persisted' = 0
  /\ UNCHANGED <<entryVars, userDisabled, toggle, sharedVars, localVars>>

-----------------------------------------------------------------------------
Init ==
  /\ present = FALSE
  /\ active = NoSession /\ target = NoSession.country
  /\ idle = <<>> /\ checkedOut = 0 /\ standby = {} /\ disabled = FALSE
  /\ persisted = 0 /\ userDisabled \in BOOLEAN /\ toggle = "none"
  /\ ensureLock = NoOne /\ switchLock = NoOne
  /\ choice = NoChoice
  /\ releases = <<>> /\ sessions = 0
  /\ pc = [p \in Procs |-> "idle"] /\ after = [p \in Procs |-> "idle"]
  /\ want = [p \in Procs |-> NoSession.country] /\ mine = [p \in Procs |-> NoSession]
  /\ pooled = [r \in Requests |-> FALSE]
  /\ seen = {}

Ensure(r) == \/ EnsureFast(r) \/ UpdateCountry(r) \/ EnsureMiss(r) \/ EnsureLocked(r)
             \/ EnsureAllocate(r) \/ EnsureExhausted(r) \/ EnsureReadFlag(r) \/ EnsureInsert(r)

Send(r) == \/ ReadUrl(r) \/ AcquireDisabled(r) \/ AcquireHit(r) \/ AcquireMiss(r)
           \/ Established(r) \/ EstablishFailed(r)
           \/ SendOk(r) \/ SendFailed(r) \/ GiveBack(r) \/ Renew(r)

Lease(r) == Send(r) \/ BodyDropped(r, "return") \/ BodyDropped(r, "discard")

Switch(p) == \/ SwitchBegin(p) \/ SwitchCommit(p) \/ SwitchCommitFresh(p)
             \/ SwitchFailed(p) \/ SwitchInstall(p)

Cycle == \/ CycleBegin \/ CycleDone \/ DisabledRenew \/ DisabledReinstall
         \/ ProbeMisplaced \/ ProbeDone \/ StandbySlots \/ ChallengerWins \/ ChallengerLoses

Toggle == (\E b \in BOOLEAN : SetUserDisabled(b)) \/ DisableInPool \/ EnableInPool

Next ==
  \/ \E r \in Requests, c \in Countries : Start(r, c)
  \/ \E r \in Requests : Ensure(r) \/ Lease(r) \/ Disconnect(r)
  \/ \E p \in Procs : Switch(p)
  \/ Cycle
  \/ Consume
  \/ Toggle
  \/ WriteSnapshot

Spec == Init /\ [][Next]_vars

(* Tokio schedules every task; a connection, a check of an IP and the headers of a
   response come or time out.  Its Mutex queues those that wait and its channel the
   senders that wait for room: that takes strong fairness, and every other step stays
   enabled until it is taken.  A body may be read for ever: nothing bounds it. *)
Running == Requests \cup {p \in {Maintain} : Cycles}

Advance(p) == Switch(p) \/ (p \in Requests /\ (Ensure(p) \/ Send(p)))

Fairness ==
  /\ \A p \in Running : SF_vars(Advance(p))
  /\ SF_vars(DisableInPool \/ EnableInPool)
  /\ WF_vars(Consume)

FairSpec == Spec /\ Fairness

-----------------------------------------------------------------------------
(* Properties *)

TypeOK ==
  /\ present \in BOOLEAN /\ active \in Session /\ target \in Countries
  /\ idle \in Seq(SessionIds) /\ checkedOut \in Nat
  /\ standby \in SUBSET Session /\ disabled \in BOOLEAN
  /\ persisted \in SessionIds /\ userDisabled \in BOOLEAN
  /\ toggle \in {"none", "disable", "enable"}
  /\ ensureLock \in Requests \cup {NoOne} /\ switchLock \in Procs \cup {NoOne}
  /\ choice \in [session : Session, country : Countries]
  /\ releases \in Seq(Message) /\ sessions \in SessionIds
  /\ pc \in [Procs -> RequestPCs \cup MaintainPCs \cup SwitchPCs]
  /\ after \in [Procs -> {"idle", "ready", "sending", "switch", "renew"}]
  /\ want \in [Procs -> Countries] /\ mine \in [Procs -> Session]
  /\ pooled \in [Requests -> BOOLEAN]
  /\ seen \in SUBSET Session

PooledIn(s) == {i \in DOMAIN s : s[i].pooled}

(* checked_out counts exactly the requests that hold a slot and the slots on
   their way back through the channel: it never underflows, and it leaks only
   the slots of dropped futures and of releases a full channel refused. *)
SlotAccounting ==
  checkedOut = Cardinality({r \in Requests : pooled[r]}) + Cardinality(PooledIn(releases))

(* Once the toggle that disabled an account has been routed, its entry is
   disabled, even if ensure_proxy was creating it meanwhile: disable_in_pool
   shares the ensure_lock with it. *)
DisableSticks == present /\ userDisabled /\ toggle = "none" => disabled

(* An idle connection always belongs to the active session, whatever switches
   raced with the requests that release it. *)
IdleOnActive == \A i \in DOMAIN idle : idle[i] = active.sid

(* Whenever no switch is under way the session that the account file names is the
   active one, never an abandoned one, unless another command wrote over it. *)
PersistedIsActive == present /\ switchLock = NoOne => persisted \in {0, active.sid}

(* Every caller of the pool gets a response, an error or the URL, whoever holds the
   two locks and however full the channel is; nor does it wait for another one's body
   to end.  No lock is asked for by its holder, and nobody who holds what the consumer
   needs waits for room. *)
RequestAnswered ==
  \A r \in Requests : pc[r] = "ensure" ~> pc[r] \in {"idle", "streaming", "gone"}

(* Every toggle reaches the pool, although it waits for an ensure_lock that may be held
   by a request that waits for the switch_lock. *)
ToggleRouted == toggle # "none" ~> toggle = "none"

(* What ensure_proxy's comment guarantees: the acquire that follows it uses a
   session of the country asked for (as long as that is still the target). *)
AcquireOnTarget ==
  [][\A r \in Requests : AcquireHit(r) \/ AcquireMiss(r) =>
       (target = want[r] => active.country = want[r])]_vars

(* What enable_in_pool is for: once routed, the entry is no longer disabled. *)
EnableTakesEffect == present /\ ~userDisabled /\ toggle = "none" => ~disabled
=============================================================================
