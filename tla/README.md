# TLA+ models and proofs for claude-ultra

claude-ultra is a desktop program (Rust backend in `src/src-tauri`, web frontend in
`src/src`) that runs a local HTTP gateway. A client sends its requests to the gateway, which
picks one of the user's accounts, picks a route for that account (residential proxy pool,
static proxy, relay, or the user's own address), sends the request, and moves to another
account when an account fails. Around the gateway there are background tasks which keep each
account's proxy session healthy, refresh tokens, poll quotas and write everything that changed
to JSON files, and commands with which the user edits the accounts while all of this runs.

Everything is one Tokio process with many tasks. The state is in concurrent maps
(`DashMap`), in `Mutex`es held for short sections, and in files; most operations touch several
of these, one after the other. That is where the difficulty is, and what these modules are for.

## 1. Inventory

Paths are relative to `src/src-tauri/src`.

| Component | State | Operations | Talks to |
|---|---|---|---|
| **ProxyPool** `proxy/pool.rs` | per account an `AccountProxy` (active session with `idle_conns`, `checked_out`; standby list; `disabled`; country), `ensure_locks`, `switch_locks`, release channel | `ensure_proxy`, `acquire`, `send_request`, `WrappedBody`, release consumer, `switch_active_session`, `update_account_country`, maintain loop, `disable_in_pool`, `enable_in_pool`, `stop`/restart | allocator, account files, gateway |
| **ProxyAllocator** `proxy/allocator.rs`, `proxy/network.rs` | persisted proxy URL of each account, verification state | allocate, allocate ephemeral, commit, verify | account files, IP services |
| **AccountManager** `modules/account_manager.rs` | JSON files, per-id write locks | one setter per section of an account, `write_new`, `delete`, `route_change` | ClientManager, ProxyPool |
| **ClientManager** `modules/client_manager.rs` | `clients`, `ordered_ids`, `runtime_state`, `session_map`, rotation index, `sessions.json` | `load_clients`, `add_client`, `disable_client`, `get_client`, `get_client_with_session`, cache setters | gateway, AccountManager |
| **Gateway handler** `gateway/handler.rs` | the locals of each request | select, send, stream, retry, fail over, back off | all of the above |
| **Route resolution** `gateway/route.rs` | none | `resolve_route` | handler |
| **TokenAllocator** `modules/token_allocator.rs` | a refresh lock per account | `get_token`, forced refresh | token endpoint, AccountManager |
| **AccountMonitor** `modules/account_monitor.rs` | timer | `check_all`, quota polling | TokenAllocator, AccountManager |
| **SubprocessManager** `subprocess.rs` | task table, child handles, generations | start, stdin, abort, kill all, reader tasks | the CLI's processes |
| **Service lifecycle** `lib.rs`, `gateway/server.rs` | gateway instance, `services_initialized` | init, start/stop gateway, shutdown | all |
| **SecurityState** `gateway/security.rs`, `modules/security_db.rs` | white and black list and the mode, in memory and in tables | add, remove, mode, LAN sharing, verdict on a request | gateway database, both servers |
| **GatewayDb** `modules/gateway_db.rs` | one row per request | save, the two updates at a stream's end, status, clear | handler, through blocking tasks |
| **Request rewriting** `gateway/policy.rs`, `gateway/builder.rs` | none | the gate (version, fingerprint, User-Agent), the request that is sent | handler |
| **Login** `modules/server_client.rs`, `commands/auth.rs` | the login in memory and in `auth.json` | set, clear, renew | lifecycle, license tasks |

Smaller parts: account files and quota snapshots (data), the CLI's and the plain HTTP client,
configuration, account commands, the desktop shell, the frontend and a migration script.
`PROJECT.json` lists each with its status and the reason when it is left out.

What makes each of them correct, and why that is hard:

- *ProxyPool.* `checked_out` must count exactly the connections that will come back; a
  connection of an abandoned session must not be reused; the account file must not name a session
  the pool has left; a disable must not be undone by a creation in flight; no request may wait
  forever. A request's life runs through up to six awaits, and a session switch, the release
  channel, the maintain loop and the user may act at each of them; a client that hangs up drops
  the future at any of them.
- *AccountManager and ClientManager.* The live pool is a second copy of the files (who is
  usable, which token, which route). It is maintained by notifications sent after the file's
  lock is released, each a sequence of map operations.
- *Gateway handler.* Two nested retries, an affinity map, and a back-off that starts over:
  a request must end, with a bounded number of sends, without going back to an account that
  just failed, although accounts vanish and come back meanwhile.
- *Route resolution.* An account with a static proxy must not leave by another address.
- *Token refresh.* Refresh tokens rotate: using an old one, or losing the new one, ends the
  login. The monitor, a forced refresh and a login share the file, and any answer may be lost.
- *Account files.* A setter reads, changes and writes a file in steps that fail or are cut
  short by a crash; a delete forgets the lock other callers may wait for.
- *SubprocessManager.* A process, its reader task and the user's commands race for the status,
  and the process they mean may have been replaced.
- *Lifecycle and login.* Services are started from several places and taken down at a logout; a
  server is bound, stored and stopped in separate steps; the login is in memory and in a file.
- *Access lists.* Each list is in memory and in a table, and each command changes both, in two
  steps.
- *Session affinity.* `sessions.json` trails the map by a debounced flush; nothing but a
  notification says that something is still to be written.
- *Request log.* A request's row is written by tasks nobody waits for, for each account it tries.
- *Request rewriting.* What is sent must carry the identity of the account in use and nothing of
  the client's, in every attempt; what the gate changes must still agree with itself.

The hazards, each at its line and with the properties that cover it, are in `PROJECT.json`.

## 2. Modules

| Module | Contents |
|---|---|
| `ProxyPool` | one account's pool entry, and everything that acts on it |
| `ProxyPoolProofs` | typing, slot accounting, disable; idle connections and account file agree with the active session; the order of the locks |
| `LiveAccount` | one account's file, its live state in ClientManager, its pool entry's flag |
| `RouteResolve` | `resolve_route` as operators |
| `GatewayRequest` | requests over several accounts: selection, sends, failover, reload |
| `GatewayRequestProofs` | typing, bounds on sends and visits, the way out; the gate settles; what is sent has one identity and merged betas |
| `VersionPolicy` | the gate before an account is chosen, as operators |
| `OutboundRequest` | body and headers of the request that is sent, as operators |
| `GatewayOutbound` | composes `GatewayRequest` with `OutboundRequest` |
| `TokenRefresh` | one account's OAuth tokens: refresh lock, monitor, logins, the endpoint, crashes |
| `TokenRefreshProofs` | typing with the lock, no replay, the token is kept |
| `AccountRegister` | what an account's file promises: an atomic register |
| `AccountStore` | locks, temporary file and rename; implements `AccountRegister` |
| `AccountStoreProofs` | mutual exclusion of the callers, the refinement |
| `Subprocess` | one task's helper processes, their readers and the commands on them |
| `SubprocessProofs` | typing with the stdin handle, handle until exit, ended for good |
| `Services` | start and stop of the servers, the monitor and the pool; the login |
| `ServicesProofs` | no orphaned server, quiet after a logout, audit server with the main one, the login in the file |
| `AccessControl` | white and black list, mode and LAN sharing, in memory and in tables |
| `RequestLog` | the log row of one request and the tasks that write it |
| `DatabaseProofs` | about `AccessControl`: memory and tables, bans, what LAN sharing admits; about `RequestLog`: the row and the answer |
| `SessionAffinity` | `session_map`, `sessions.json` and the flush task |
| `ClientManagerProofs` | about `LiveAccount`: typing, live pool and file with one changer; about `SessionAffinity`: nothing of the map is forgotten |
| `MC*` | values of the constants for TLC; `MC<module>_<name>.cfg` is a run, or a configuration of "Statements that are false" |

`ProxyPool`, `LiveAccount` and `GatewayRequest` meet at two interfaces. `LiveAccount` sees a
pool entry as "absent", "enabled" or "disabled" and calls `disable_in_pool` and
`enable_in_pool`, which are single steps there; `ProxyPool` models what happens inside them. `GatewayRequest` sees
a send through the pool as a choice of its outcomes (answer, no connection, pool refused); these
are the ends that a request has in `ProxyPool`.

### ProxyPool

An action is the code between two awaits. Rust tasks interleave only there as far as one
account's entry goes, because the entry is under a `Mutex` whose sections hold no await of the
network. A request's `pc` names the await it stands at:

| Code | Actions |
|---|---|
| `ensure_proxy` | `EnsureFast`, `UpdateCountry` (through `update_account_country`), `EnsureMiss`, `EnsureLocked` (double check), `EnsureAllocate`, `EnsureExhausted`, `EnsureReadFlag`, `EnsureInsert` |
| `acquire`, proxy URL look-up | `ReadUrl`, `AcquireDisabled`, `AcquireHit`, `AcquireMiss`, `Established`, `EstablishFailed` |
| `send_request`, `WrappedBody` | `SendOk`, `SendFailed`, `GiveBack`, `Renew`, `BodyDropped`, `Disconnect` |
| release consumer | `Consume` |
| `switch_active_session` | `SwitchBegin`, `SwitchCommit`, `SwitchCommitFresh`, `SwitchFailed`, `SwitchInstall` (the last two end in `SwitchReturn`) |
| maintain loop | `CycleBegin`, `CycleDone`, `DisabledRenew`, `DisabledReinstall`, `ProbeMisplaced`, `ProbeDone`, `StandbySlots`, `ChallengerWins`, `ChallengerLoses` |
| the user's toggle and other commands | `SetUserDisabled`, `DisableInPool`, `EnableInPool`, `WriteSnapshot` |

Choices made in the abstraction:

- Sessions are numbered in the order of allocation, and a connection is the number of its
  session. Which service verifies a session, and what it answers, is left open.
- `persisted` is the pool's session named by the file's proxy section; it is 0 when the file names
  none, which other commands may bring about at any time (`WriteSnapshot`).
- "Fastest standby" is any standby: the statistics are not modelled, so whatever they are is covered.
- A caller that names no country is one that names the entry's. `AsksFor` restricts the countries a
  request may name; what it named matters until `acquire` has returned, and is forgotten then.
- One toggle is under way at a time. `stop()` and the restart of the tasks are outside the module.
- A request that was dropped while its slot was counted ends in `"gone"`.
- The release channel, `ChanCap` = 256 in the code, has one place in the runs, so that it is
  full often; a dropped body's message is lost then, as in the code, and the slot stays
  counted.

### LiveAccount

`file` is the JSON file, `client`, `listed`, `known` and `runtime` are what `clients`,
`ordered_ids` and `runtime_state` hold for the account, `pool` is the entry's flag. A changer
performs one command at a time: the write under the file's lock is one step
(`WriteRoute`, `SetDisabled`, `SetUserDisabled`, `Delete`, `WriteCli`, `Import`), and the
reaction of `route_change` follows as the separate map operations it consists of
(`ReadRoute`, `CacheMode`, `CacheStatic`, `CacheUrl`; `Drop`, `Unlist`, `DisablePool`;
`ReadEnabled`, `EnablePool`; `ReadCli`, `SyncCli`, `UpdateToken`;
`AddRuntime`, `AddClient`, `AddListed`). `Reload` to `StoreNone` are `load_clients`. A file's write
and its read-back are separate, which is where two changers interleave.

### GatewayRequest and RouteResolve

`req` holds the locals of each request of `gateway_request`: where it stands, the account, the
accounts attempted, the number of switches, of proxy retries and of sends, whether it has backed off.
`Select` is `get_client_with_session` with its separate look-up, rotation, take and
remember steps; the account that the rotation returns is left open among the available ones.
`Send` and `Read` are the outcomes of a route and of the answer; `Recover`, which is `Failover` with
`Drop`, `Unlist`, `Unmap`, is `disable_client` and the failover after it. Meanwhile accounts are re-enabled, tokens expire
and are refreshed, quotas change with the answers, and `load_clients` runs step by step.
`RouteResolve` gives, for each mode, the chain of routes `resolve_route` walks down to the first
that is configured.

### VersionPolicy, OutboundRequest and GatewayOutbound

Pure functions of the code as operators. A version is the sequence of what follows "2.1." between
its dots, a fingerprint is the pair of the text and version it is computed from, a header's value
a sequence of tokens. `Gated` is `policy::gate`, with `Admits` for its refusals and
`Rewrite` for the clamping; `Attempt` is what the handler makes of a request for one attempt,
with `Headers` for `build_outbound_headers` (`Kept` of the client's lines, `Added` of its own), `EnsureBeta`
for `ensure_oauth_beta`, which is applied to the client's lines alone as no added line is a beta line, and `User` for
`apply_metadata_in_place`. `GatewayOutbound` states properties of every send that `GatewayRequest`
makes, of every request in `Inbound`: versions below, at and above the newest supported one, with the
right, a wrong and no fingerprint, malformed ones, five arrangements of the billing header,
eight forms of header lists.

### TokenRefresh

`file` holds the login, the serial of its refresh token, the expiry and whether the account is
disabled; `accepted` is what the endpoint takes. `Created`, `Acquire`, `LockTimeout`, `Request`,
`RequestFailed`, `ReplyLost`, `Persist` are `do_refresh`: the wait of 30 s for the lock, the
double check, the two ways a request may fail (before and after the endpoint has rotated the
token) and the write of the answer. `Round`, `CheckToken`, `CheckUsage`, `Usage`, `UsageDenied`,
`Stop` are a round of the monitor on the list it read at the start. `Login`, `SetDisabled`, `Tick` and
`Crash` come at any time. `lost` records the logins whose answer was lost.

### AccountStore and AccountRegister

`AccountRegister` is a register with calls: a call takes effect at once (`Apply`) or fails
without effect, and then returns. `AccountStore` is `get_lock`, `Acquire`, the read, the change and
the write through `OpenTmp`, `FillTmp`, `Rename`, `Unlock`, and `Forget` for the lock that `delete`
removes from the map; each step of a write may fail, `Crash` may come at any time. The refinement
maps `file` to the register, and `op` and `result` to the call; a call has taken effect when its
result is there, which is at the rename. `list` takes no lock and still reads a whole file.

### Subprocess

One task id; a generation is one spawn. `task` is the `Task` record of each generation, `child`
the process, `reader` its output task, `pc` and `op` the frontend calls, `on` the generation whose stdin a call has taken out.
`TakeStdin` and `WriteStdin` are the two halves of `send_stdin`, `Wait` is the end of the reader
with its check of the generation, `Abort`, `Mark`, `PollFree`, `PollTimeout`, `Kill`, `Spawn` the rest of the commands.

### Services

The calls of the two initializations, the gateway page and the login or settings page, each at
an await, and the license tasks. A server is known by its port: bound (`BindMain`, `BindAudit`),
then in the hand of the call, then in its slot (`StoreMain`, `StoreAudit`); `Stop`, `Stopped` and
`ServerEnds` are its end. `SetFirst` to `ClearSecond` are the two writes of the login.

### AccessControl

`rows` and `ids` are the two tables, `mode` the config row; `mem` and `memMode` what the middlewares read. A
command is a list of steps, `todo`, of which each touches a table or the memory. `shown` are
the rows a page still shows, which a remove names by id and address. `Verdict` is what both
middlewares answer. `LanEntry` and `InCidr` do the arithmetic of addresses on octets.

### RequestLog

One request, on the gateway's or the audit path, with logging on or off, streaming or not, counting or
not. The handler's steps are those of `GatewayRequest`, reduced to what the log can tell apart; `jobs` are the database
jobs that were spawned and have not run, which `RunJob` takes in any order.

### SessionAffinity

`Look` to `ScheduleRecord` are the map operations of `get_client_with_session`, `Disable` to
`CompareRouter` those of `disable_client`, `ClearClients` to `CompareLoader` those of
`load_clients`. `permit` is the one notification that Tokio's `Notify` keeps. A flush task sleeps,
collects the entries one by one while the others go on, and writes; a write may fail. `Restart`
reads the file back. Entries are fresh or stale (older than the TTL).

`RequestLog` and `SessionAffinity` name their variables and specifications apart from the other
modules' (`LogInit`, `LogSpec`, `logRows`; `AffinityInit`, `AffinitySpec`, `sessionsFile`), so that a
proof module extends each together with the component it shares a database or a manager with.

## 3. What is checked

Deadlock checking is on in every run but `log_rows`, where a request that was answered and whose jobs
have run has nothing left to do. Each property of a run has a mutant in `PROJECT.json`: a plausible bug in one
definition that makes the property fail. Every module also states its types (`TypeOK`, `LogTypeOK`,
`AffinityTypeOK`). The run of the pool lists them; they hold in the instances of the others too,
and the invariants of section 4 contain what the proofs need of them.

| Run | Instance | Shows |
|---|---|---|
| `pool_safety` | 2 requests, 1 country, 1 connection, 1 standby, 2 sessions, channel of 1, drifting IPs, hang-ups | typing, `SlotAccounting`, `DisableSticks` |
| `pool_sessions` | 1 request, 2 countries, 3 sessions | `IdleOnActive`, `PersistedIsActive` |
| `pool_progress` | 2 requests, each for its own of 2 countries, 2 sessions, toggles, fairness; no maintain cycles | `RequestAnswered`, `ToggleRouted` |
| `live_serial` | 1 changer, proxy and static configurations, 2 tokens, reloads | `LiveMatchesFile`, `RouteMatchesFile`, `EnabledIsLive` |
| `gateway_failover` | 1 request, 2 accounts (static, vercel), 1 session, both limits 1, reloads and changes, all transports, fairness | `SendsBounded`, `NoAccountTwiceARound`, `OneIdentity`, `BetaMerged`, `GateSettles`, `Answered` |
| `subprocess_tasks` | 2 calls, 2 generations, fairness | `HandleUntilExit`, `EndedStaysEnded`, `KillAllKills`, `ExitNoticed` |
| `token_rotation` | the monitor and one forced refresh, 2 logins, 3 refresh tokens, time to 3, crashes, fairness | `NoReplay`, `TokenKept`, `WaiterEnds` |
| `store_register` | 2 calls, 2 sections, 2 locks, failing steps, crashes, fairness | `ImplementsRegister`, `CallsReturn` |
| `services_lifecycle` | both builds, 3 ports, 1 license task, 2 monitor loops, restarts, fairness | `NoOrphanServer`, `QuietAfterLogout`, `AuditFollowsMain`, `LogoutSurvivesRestart`, `CallsReturn` |
| `access_lists` | 2 commands, 6 addresses, 2 networks, 3 and 1 rows, 1 stale row on a page, restarts | `MemoryMatchesTables`, `BansInForce`, `AutoEntriesStayLocal`, `EnableAdmits` |
| `log_rows` | 1 request on either path, 3 accounts, 3 failovers, 7 jobs, hang-ups, clearing, fairness | `RowOfDelivered`, `UsageOfDeliverer`, `AuditMatchesAnswer`, `StreamRecorded` |
| `session_flush` | 1 session, 2 accounts, 1 request, 1 flush task, failing writes, crashes, fairness | `UnsavedIsPending`, `FileCatchesUp` |

Why these bounds are enough to meet the interesting cases:

- *Pool, slots.* With one connection allowed, two requests compete for it; with a channel of one
  place, a sender waits and a dropped body loses its message; two sessions allow one switch
  while the connection of the first is out, and exhaustion after that. A request is used again after
  it ends, so histories are not limited in length. Requests are interchangeable and
  no property names one, so symmetry is sound.
- *Pool, progress.* Two requests for different countries meet at the ensure lock, and each
  finds the entry on the other's country, so both change it (`UpdateCountry`), and the one that created the entry
  does so on its re-entry, with the ensure lock in its hands: then the switch lock is taken inside it. The
  cycles of the maintain loop (`Cycles`) and rewritten account files (`Rewrites`) are off: the loop takes one lock only, the
  switch lock, and the theorem `LocksAlwaysNested` covers it.
- *Pool, sessions.* Three sessions are an active one, one replaced, and one fresh, which a switch
  chooses while the standby is cleared. Geo drift and hang-ups are off here because the
  two properties do not hold with them; section 6 says why.
- *Live account.* One changer makes any number of changes, one after the other; tokens are
  bounded by `MaxTokens`, and two suffice for "the token in the pool is an older one".
- *Gateway.* Two accounts and one switch give every round: first account, other account,
  exhaustion, back-off, first account again. The theorems extend the bounds to all values.
- *What is sent.* The instances of `Inbound` are the boundaries of the code's case distinctions; the
  properties quantify over them in every attempt.
- *Subprocess.* One call starts and the other does anything; two generations are one that is
  replaced and its replacement, so a late reader of the first meets the Task of the second. A third
  generation does not finish in the time a run has; `HandleUntilExit` and `EndedStaysEnded` are proved for any number.
- *Tokens.* Two holders compete for the lock; two logins and three tokens allow a login and a rotation,
  in either order, while an old token is in somebody's hands. The clock runs past an expiry.
- *Store.* Two calls of any kind, again and again; a second lock is one made after a `delete` forgot the first.
- *Services.* Three ports allow a swap of the two servers' ports, a conflict, and a move to a port that
  is free. With two ports the run missed a behaviour: an audit server that a later store drops was
  always in the way of the one that would have replaced it. The proof of `NoServerOrphaned` found
  that; since then `Patient` also names a stop during an init.
- *Access lists.* The two networks are a private one and one just outside 172.16.0.0/12. Three rows allow a
  page to name a row that is gone and was entered again.
- *Log.* Three failovers put the delivering account after two logged ones and one that was not.
- *Sessions.* One session is recorded, moved, removed and recorded again; entries of different
  sessions meet only in the length of the map, which one session changes too.

### Fairness

`pool_progress` assumes strong fairness of `Advance(p)`, the next step of a request or of the maintain
loop inside a switch: Tokio polls every task that is woken, each await on the network up to
the response's headers has a timeout, so some outcome comes, and where a
task waits its turn Tokio serves the waiters in order of arrival, at a `Mutex` (`EnsureLocked`, `SwitchBegin`) as at
a bounded channel with its senders (`GiveBack`). A task waits for at most one of these at a time, so one condition
per task says it of each. The same holds for the toggle (`DisableInPool` waits for the ensure lock); the
release consumer is polled. Not fair are the user, hang-ups, and `BodyDropped`:
a stream is read until it ends, and a timeout of the read only sends a ping
(`handler.rs:883-918`). `RequestAnswered` therefore ends at the response or the error, and must hold although
connections are never given back.

`gateway_failover` assumes weak fairness of the steps of a request up to the headers and after an
answer (`Select`, `Send`, `Recover`), and none of those that read a body (`Read`): `BoringClient`'s timeout covers the headers,
`read_error_body` (`handler.rs:1016-1021`) and `json_passthrough` (`handler.rs:1042-1047`) collect the body with no timer, and each
SSE comment sets the timer of the first byte anew (`handler.rs:828-834`). `Answered` excepts a request that
waits for one body for ever.

The others follow the same rule. `subprocess_tasks`: the calls and the readers are polled; a process
need not exit and nobody need issue a command. `token_rotation`: only the lock and its timer are
fair, the endpoint may never answer. `store_register`: steps on local files end, and Tokio's
`RwLock` serves its waiters in turn (strong fairness of `Acquire`). `services_lifecycle`: the
same for the locks of the slots; a cancelled server ends. `log_rows`: blocking jobs run, and the
handler goes on after the ones it awaits; the network is not fair. `session_flush`: the flush task,
a selection, a change and a load go on; nobody has to start one.

### Assumptions of single runs

Five constants name an assumption on timing or on the user that the code makes silently. With the
other value the module shows what happens without it.

- `Prompt` (`RequestLog`): a database job ends before the network's next answer, so at most one is outstanding and
  their order is not in question. Nothing in the code orders them otherwise, and no property covers that: with `Prompt` = FALSE
  `RowOfDelivered` fails, as the save of an attempt that was failed over may run after the one of the account that delivered.
- `Patient` (`Services`): nobody logs out while another call is under way, and nobody changes ports
  or stops the gateway during an init. `QuietAfterLogout` then says that a shutdown is complete and in order; a logout
  that overlaps a start is in `MCServices_hasty`.
- `Overlap` = FALSE (`AccessControl`): two commands under way at a time do not change the same entry or
  the mode. With it, `MemoryMatchesTables` fails: two commands write the table in one order and the memory in the other.
- `Recreate` = FALSE (`AccountStore`): an id is not created again after a delete has forgotten its lock.
- `Brief` (`SessionAffinity`): a clean-up, or another task's write, that began before a flush pause of 5 s
  is over when it ends. Without it, an entry a clean-up removes late can stay in the file.

### Statements that are false

These configurations are kept beside the runs. Each checks a statement, taken from a comment or an
evident intention of the code, and TLC finds a behaviour against it:

| Configuration | Property | What happens |
|---|---|---|
| `MCProxyPool_country` | `AcquireOnTarget` | `ensure_proxy` "guarantees caller's next acquire() uses the new-country session" (`pool.rs:352-354`), but `acquire` may use a session of the old country when the renewal failed, or when another request's renewal is still under way |
| `MCProxyPool_enable` | `EnableTakesEffect` | an enable routed between `is_user_disabled` (`pool.rs:400`) and the insert in `ensure_proxy` has no effect, against `pool.rs:338`; the entry stays disabled |
| `MCLiveAccount_served` | `LiveIsServed` | disable, enable without tokens, then log in: the account is in the live pool, "All clients in pool are available" (`client_manager.rs:811`), but its pool entry refuses every request |
| `MCLiveAccount_race` | `RouteMatchesFile` | two route changes interleave after the lock is released and leave a cache that matches neither the file nor either change, against `account_manager.rs:133` |
| `MCGatewayRequest_direct` | `StaticStaysStatic` | without residential credentials a static account goes out over the user's address (`handler.rs:383`), against `route.rs:104-106` and `allocator.rs:114` |
| `MCGatewayRequest_session` | `SessionOnOneAccount` | two concurrent first requests of one session use two accounts, against `client_manager.rs:577` |
| `MCSubprocess_overlap` | `NoLateWriter` | two starts find nothing running at the same time (`abort_if_running`, "ensure no old subprocess is running"); the second replaces the process of the first, whose reader still writes to the account |
| `MCTokenRefresh_expiry` | `ExpiredSkipped` | the monitor compares every expiry with the time at which its round began and asks with a token that has expired since; the 401 disables the account, against `account_monitor.rs:152` |
| `MCAccountStore_recreate` | `ImplementsRegister` | a create after a delete makes a new lock while a caller still waits on the old one: both work on the file |
| `MCServices_hasty` | `QuietAfterLogout` | with `Patient` = FALSE, as the next two (TLC's `-continue` reports all three): a logout stops the server that is in its slot, a start that was already called binds one after that and stores it |
| | `NoOrphanServer` | the ports are changed while an init has a bound server in its hands; a start on the new port is stored first, then the init's store drops it |
| | `AuditFollowsMain` | a stop that comes between the bind and the store of the audit server finds no such server; it goes on listening without the main one |
| `MCAccessControl_expired` | `ExpiredBanEnds` | a ban that has expired stays in force until the next start: the middlewares ask the set in memory (`security.rs:89`), against `security_db::is_blacklisted` (`security_db.rs:322-336`) and its test (633-643), which regard it as over |
| `MCRequestLog_errors` | `ErrorLogged` | after a first-byte timeout the provisional row counts as the log of the attempt; the error that follows is not logged, against `handler.rs:707` |
| `MCSessionAffinity_tasks` | `UnsavedIsPending` | `start_flush_task` "must be called once" (`client_manager.rs:136`), but `init_services_inner` calls it again after a logout and a login (`lib.rs:277`); the older of two writes may come last |

## 4. What is proved

TLAPS checks these for every value of the constants (number of requests, accounts, sessions,
limits, capacities), from the assumptions named in the modules.

**ProxyPool.** `TypeCorrect` is inductive by itself, one step per action; that `checkedOut` stays
natural in `Consume` is the guard of the saturating subtraction. `SlotsAccounted` needs more:
`EntryInv` says that a request between `allocate` and the insert holds the ensure lock and the
entry is absent (`CreatorInv`), that nobody uses an absent entry (`AbsentInv`), and that a slot is
held only at the places where the code will return it (`HolderInv`). Without the first
two, an insert could overwrite an entry with counted slots. `SlotStep` then adds up holders
and messages with lemmas on cardinalities (`HoldersChange`, `PooledAppend`, `PooledTail`).
`DisableAlwaysSticks` is carried by `ToggleInv`: a creator that read the flag before the
disable still holds the lock for which the disable waits.

**ProxyPool, sessions.** `IdleAlwaysOnActive` assumes `~GeoReports`; then the reinstall of a disabled
account's session, the one change of session that keeps the idle list, is not reached (`NoReinstall`).
`FileNamesActive` assumes `~Disconnects` as well. Its invariant `FileInv`: exactly the
process inside a switch holds the switch lock (`LockedInv`); outside the commit the file names the active
session or none (`ActiveInv`); after it, the chosen one (`CommitInv`); a session that is being
created is the one the file names (`CreatedInv`).

**ProxyPool, locks.** `LocksAlwaysNested` is the safe half of `RequestAnswered` and `ToggleRouted`, for all values and with
the maintain loop: exactly the process inside a switch holds the switch lock, where it waits for the network only
(`SwitchHolder`), and who holds the ensure lock is creating the entry or has found it, and can wait for nothing but the
switch lock (`EnsureHolder`). The locks are taken in this one order, so no circle of waiting processes exists.

**GatewayRequest.** `RequestInv` states for each request what its place implies (`PathInv`), how
its counters bound the sends so far (`SendInv`), and how often each account was entered, in terms of
switches and back-off (`VisitInv`). A request's locals change only by its own steps, so
`WorkType` and the `*Inv` lemmas treat one request, and `NextInv` puts them together.
`RequestSendsBounded` gives `(MaxRetries + 1) * (MaxProxyRetries + 2)` sends for all limits,
`VisitsBounded` that an account is entered again only after the back-off, once.
`StaticKept` is `StaticStaysStatic` under the two conditions without which it is false: residential credentials
(`Proxied`, see `MCGatewayRequest_direct`), and no restart (`~Reloads`), during which an account is
unknown for a while and routed by default. `RouteInv` carries it: a request that sends does so by the route its account
asks for now.

**The gate.** `GateAlwaysSettles` is about `VersionPolicy` alone, since `GateSettles` speaks of constants:
what `Gated` returns is admitted again and unchanged. It goes through the clamping of each field that
may name a version, the fingerprint computed from the clamped version, and the User-Agent. Its assumption on
`Inbound` (`InboundAssumption`) is the shape of a parsed request.

**The builder.** `OneIdentityKept` and `BetaAlwaysMerged` combine `RequestInv` (a request that sends has an account
and a route) with what `Attempt` makes of any request. `KeptLine` says which of the client's lines are kept and how:
under their names, which are none of those removed or replaced, and with their values, except the first
beta line. `AddedLines` says that the gateway's own lines have different names and nothing of the client's,
`InsertedValues` that each of them is sent. `RequiredOnce` is `ensure_oauth_beta` on one line. That a first beta line exists
among any number of lines (`Least`) is the one place that needs well-founded induction, which the library states for
sets too (`WFMin`).

**RequestLog.** Proved with `Prompt`. `LogInv` says where a request may stand (`LogPlace`), that at most one job is under way
(`LogJobs`), and what the row says now and will say after that job (`LogRow`, with `Coming`):
`UsageOfDeliverer` and `RowOfDelivered` are what remains of it at the end. Without `Coming` it is not
inductive, for the row lags behind the handler by one job.

**LiveAccount.** `LiveTyped` holds for any number of changers; the other three theorems for one at a time
(`Serial`). `PathInv(c)` says at each step of a change which parts of the live state are already as
in the file: all of them when the change is over, all but the four cached fields while those
are set, all but the rotation after an insert, and so on; likewise for `load_clients`.

**SessionAffinity.** `NoSessionForgotten` is for one flush task, at least one session and `Brief` (`OneFlusher`), for any number of sessions. What the
file lacks is collected as it is in the map, or a flush is to come (`Collected`). The
hard part is the clean-up, which schedules a flush only if the map's length has changed between
its count and its comparison: `Counted` says that the map has not grown since the count, or else the flush
of what was added is held back until the clean-up ends. Without `Brief` it is not: a flush
between count and retain takes the added entry, then one entry is removed, the lengths are equal,
and nothing is scheduled.

**TokenRefresh.** `TokenInv` is the types with "exactly the holder of the lock talks to the endpoint", and then:
an answer under way carries the current token (`AnswerCurrent`), the endpoint knows the logins in use
(`KnownLogins`), and the two properties themselves, which need each other: no replay, because the
holder's copy is the file's or of an older login.

**AccountStore.** `StoreImplementsRegister` is the refinement, for ids that are not created again (`~Recreate`).
`StoreInv`: each caller's locals fit its place (`PathInv`), who works holds the guard of its lock
(`GuardInv`), what is to be written is the change of the file as it is now (`CopyInv`), and a second lock exists only
when the file is gone for good (`DeletedInv`). With these, each step is mapped to a step of
`AccountRegister` or a stutter, action by action.

**Subprocess.** `TaskInv`: generations are spawned in order (`SpawnInv`), a stdin handle that has left its Task is
with one sender (`HandInv`), a call that marks has found a Task (`CallInv`), and
`HandleUntilExit`. `EndedForGood` is an action property, one case per action.

**Services.** `ServicesInv`: which calls exclude each other (`Turns`), who holds the slots' locks
(`Locks`), every server is in one slot or one hand (`Servers`), what is being started is what is
configured (`Configured`), and what is gone at each step of a logout (`Drained`, `Background`). Three theorems assume
`Patient`. `LogoutLasts` assumes nothing: setters write the file first and clearers the memory first, so the last of them leaves no
login in the file if there is none in memory (`AuthInv`).

**AccessControl.** `AutomaticStaysLocal` holds for overlapping commands too: `RowInv` says of rows, pages and
commands under way that an automatic entry is of its network, and that an id on a page
names the entry it named (ids are not used again). The other three theorems assume `~Overlap`. `CommandInv`: the order of
a command's steps (`OrderInv`), its claim on what it touches (`ClaimInv`), what is between a
table and the memory (`PendingInv`), and that LAN sharing's entries are in memory or still to
come (`EnableInv`); `Matches` is the two properties, list by list.

Only model-checked: every liveness property (`RequestAnswered`, `ToggleRouted`, `Answered`, `KillAllKills`,
`ExitNoticed`, `WaiterEnds`, `StreamRecorded`, `FileCatchesUp`, and the two `CallsReturn`), because fairness and `ENABLED` are
beyond the proof system. The theorems with a hypothesis (one changer, `Patient`, `Prompt`, `~Overlap`,
`~Recreate`, `Brief`, `~GeoReports`, `~Reloads`) say nothing without it; where TLC finds a behaviour against the statement
then, "Statements that are false" has it.

## 5. Plan

Modelled and checked: all modules of section 2. To prove next, in this order:

1. Action properties that the invariants already carry: a slot is given back by its owner or the consumer only;
   the token on file changes only under the lock or by a login.

To model, if it pays: what the pool's `stop()` does to requests under way; the merge of quota snapshots
as pure operators against a reference definition; the two-account view of the account monitor.

## 6. Limits

- With an IP service that reports a country, the maintain loop replaces the session of a
  disabled account without the switch lock and leaves the old session's idle connections, so
  `IdleOnActive` and `PersistedIsActive` are stated for the services that do not. With hang-ups in the middle of
  a switch, the file may name the session of the unfinished switch.
- `SlotAccounting` counts a slot whose owner is gone as held: the code never returns it.
- `LiveAccount`'s invariants are for changes that do not overlap; TLC finds that
  they do not hold when they do (`MCLiveAccount_race`).
- `Answered` excepts a request whose upstream body never ends, for which the code has no timeout (see Fairness).
- `BansInForce` admits that an expired ban is enforced until the next start (`MCAccessControl_expired`).
- The rename of an account file is atomic, as on Unix. On Windows the code removes the file and then renames the new
  one (`secure_fs.rs:83-88`, "non-atomic, accepted"); a crash between the two loses the account, which is not modelled.
- The logging flag is read once, when a request begins (`handler.rs:107`, `146`), and so it is in `RequestLog`: turning logging
  on or off in the middle of a request concerns the next one, and is not an action of the model.
- `TokenKept` excepts a rotation whose answer was lost or could not be written: the code cannot
  recover the token then. A login is complete at once; its own exchange of tokens is left out.
- A flush of the sessions that failed is not repeated until the next change of the map (`client_manager.rs:147`);
  both properties of `session_flush` except it, in the variable `failed`.
- The gate, outside what `GateSettles` covers (releases of a client that names its version in the
  User-Agent): a request without User-Agent that is clamped gets "claude-cli/0.0.0", which disagrees with its body; of
  a pre-release the fingerprint is read as part of the version, so clamping makes it longer and its User-Agent
  does not agree.
- The builder, outside what `BetaMerged` covers: of two `anthropic-beta` lines the first gets the required
  beta and the second replaces it. A `metadata` that is no object makes the request panic. Header order and the
  license check are left out.
- Data is not modelled beyond that: URL formats, quota arithmetic, prices, TLS and HTTP. The
  frontend and the desktop shell appear as the order of the calls they make; the migration script holds no state the
  backend relies on.
