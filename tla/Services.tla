------------------------------- MODULE Services -------------------------------
(***************************************************************************)
(* The life of the background services (lib.rs): init_services_inner and   *)
(* shutdown_services_inner, the gateway servers that they and the gateway  *)
(* page start and stop (commands/gateway.rs, server.rs), the account       *)
(* monitor and the pool's background tasks, and the login that they serve, *)
(* which is kept in memory and in auth.json (commands/auth.rs,             *)
(* server_client.rs) and renewed by the license tasks.                     *)
(*                                                                         *)
(* The actors are the calls that can be under way at a time: the init of   *)
(* the setup hook or the login page ("boot") and the one of App.tsx        *)
(* ("app"), one call of the gateway page, one of the login or settings     *)
(* page, and the license tasks.  A server is known by its port, which only *)
(* one can listen on.  Left out: the license itself (a stub in this        *)
(* repository), the network probe, the accounts that are loaded, and the   *)
(* session flush tasks, which nothing stops (SessionAffinity).             *)
(***************************************************************************)
EXTENDS Naturals, FiniteSets

CONSTANTS
  Ports,        \* what the two ports may be configured to
  Tasks,        \* bound: license tasks alive at a time
  MaxLoops,     \* bound: monitor loops started and not cancelled
  Patient       \* nobody changes the ports, logs out or stops the gateway while other calls
                \* are under way

ASSUME PortsAssumption == Ports \subseteq Nat \ {0} /\ IsFiniteSet(Ports)
ASSUME TasksAssumption == IsFiniteSet(Tasks)
ASSUME MaxLoopsAssumption == MaxLoops \in Nat \ {0}
ASSUME PatientAssumption == Patient \in BOOLEAN

Boots == {"boot", "app"}
Callers == Boots \cup {"gateway", "account"}
Procs == Callers \cup Tasks
Slots == {"main", "audit"}

ASSUME NamesAssumption == Tasks \cap Callers = {}

VARIABLES
  internal,     \* the build: internal (no login, audit server) or distribution
  config,       \* gateway_config
  initialized,  \* services_initialized
  slot,         \* instance and transparent_instance: the port of the server, or 0
  lock,         \* who holds the lock of each slot
  listening,    \* ports on which a server of this program listens
  cancelled,    \* servers whose cancel token was cancelled
  hand,         \* the server that a call has bound or taken, not yet stored or stopped
  next,         \* the audit port in the call's copy of config, until it is bound
  pool,         \* background_started
  loops,        \* running monitor loops that were not cancelled
  monitor,      \* account_monitor holds the last of them
  ended,        \* license tasks whose cancel token was cancelled
  page,         \* what the frontend shows
  ready,        \* servicesReady in App.tsx
  auth,         \* whether there is a login in memory ("mem") and in auth.json ("file")
  pc, op        \* where each call or task stands, and what it was asked for

serverVars == <<slot, lock, listening, cancelled, hand, next>>
taskVars == <<pool, loops, monitor, ended>>
uiVars == <<page, ready>>
vars == <<internal, config, initialized, serverVars, taskVars, uiVars, auth, pc, op>>

\* port, auto_start, and transparent_port, 0 unless transparent_enabled
Configs == [port : Ports, auto : BOOLEAN, audit : IF internal THEN Ports \cup {0} ELSE {0}]

Idle(P) == \A p \in P : pc[p] = "idle"
Goto(p, l) == pc' = [pc EXCEPT ![p] = l] /\ UNCHANGED op
Free(s) == lock[s] = "free"

\* Return of call p; onLoginSuccess asks get_auth_status for the page to show.
Return(p) ==
  /\ pc' = [pc EXCEPT ![p] = "idle"]
  /\ op' = [op EXCEPT ![p] = "none"]
  /\ page' = IF p = "boot" /\ ~internal THEN IF auth["mem"] THEN "main" ELSE "login" ELSE page
  /\ ready' = IF p = "app" THEN page = "main" ELSE ready

-----------------------------------------------------------------------------
(* init_services_inner *)

\* The flag first; a repeated call is over at once, whether or not the first is.
InitServices(p) ==
  /\ \/ pc[p] = "init"
     \/ p = "app" /\ pc[p] = "idle" /\ page = "main" /\ ~ready
  /\ initialized' = TRUE
  /\ IF initialized THEN Return(p)
     ELSE /\ pc' = [pc EXCEPT ![p] = "network"]
          /\ op' = [op EXCEPT ![p] = "init"]
          /\ UNCHANGED uiVars
  /\ UNCHANGED <<internal, config, serverVars, taskVars, auth>>

\* start_background_tasks, then the network is probed
StartPool(p) ==
  /\ pc[p] = "network"
  /\ pool' = TRUE
  /\ Goto(p, "monitor")
  /\ UNCHANGED <<internal, config, initialized, serverVars, loops, monitor, ended, uiVars, auth>>

StartMonitor(p) ==
  /\ pc[p] = "monitor" /\ loops < MaxLoops
  /\ loops' = loops + 1
  /\ Goto(p, "keep")
  /\ UNCHANGED <<internal, config, initialized, serverVars, pool, monitor, ended, uiVars, auth>>

\* The monitor that was in the slot, if any, is dropped and runs on.
KeepMonitor(p) ==
  /\ pc[p] = "keep"
  /\ monitor' = TRUE
  /\ Goto(p, "load")
  /\ UNCHANGED <<internal, config, initialized, serverVars, pool, loops, ended, uiVars, auth>>

\* The license task gets the pool's cancel token of the moment; load_clients may fail.
SpawnLicense(p) ==
  /\ pc[p] = "load"
  /\ \E l \in {"bind", "return"} :
       IF internal THEN Goto(p, l) /\ UNCHANGED ended
       ELSE \E t \in Tasks :
              /\ pc[t] = "idle"
              /\ pc' = [pc EXCEPT ![p] = l, ![t] = "fetch"]
              /\ ended' = ended \ {t}
              /\ UNCHANGED op
  /\ UNCHANGED <<internal, config, initialized, serverVars, pool, loops, monitor, uiVars, auth>>

ReturnCall(p) ==
  /\ pc[p] = "return" \/ (pc[p] = "bind" /\ op[p] = "init" /\ ~config.auto)
  /\ Return(p)
  /\ UNCHANGED <<internal, config, initialized, serverVars, taskVars, auth>>

-----------------------------------------------------------------------------
(* Starting and stopping servers *)

\* start_gateway keeps the lock of the slot until the server is in it.
StartGateway(p) ==
  /\ pc[p] = "start" /\ Free("main")
  /\ IF slot["main"] # 0 \/ config.port = config.audit
       THEN Goto(p, "return") /\ UNCHANGED lock
       ELSE \/ Goto(p, "bind") /\ lock' = [lock EXCEPT !["main"] = p]
            \/ Goto(p, "return") /\ UNCHANGED lock
  /\ UNCHANGED <<internal, config, initialized, slot, listening, cancelled, hand, next, taskVars, uiVars, auth>>

\* Mutant: a port that is taken is replaced by one that is free.
BindAny(p, port) ==
  \E q \in IF port \in listening THEN Ports \ listening ELSE {port} :
    /\ listening' = listening \cup {q}
    /\ hand' = [hand EXCEPT ![p] = q]

\* TcpListener::bind, if nobody listens on the port
Bind(p, port) ==
  /\ port \notin listening
  /\ listening' = listening \cup {port}
  /\ hand' = [hand EXCEPT ![p] = port]

\* init skips an audit port that is the main one.
BindMain(p) ==
  /\ pc[p] = "bind" /\ (op[p] = "init" => config.auto)
  /\ Bind(p, config.port)
  /\ next' = [next EXCEPT ![p] = IF op[p] = "init" /\ config.audit = config.port THEN 0 ELSE config.audit]
  /\ Goto(p, "store")
  /\ UNCHANGED <<internal, config, initialized, slot, lock, cancelled, taskVars, uiVars, auth>>

\* The port is taken, if only by another program.
BindFailed(p) ==
  /\ pc[p] = "bindAudit" \/ (pc[p] = "bind" /\ (op[p] = "init" => config.auto))
  /\ lock' = [s \in Slots |-> IF lock[s] = p THEN "free" ELSE lock[s]]
  /\ next' = [next EXCEPT ![p] = 0]
  /\ Goto(p, "return")
  /\ UNCHANGED <<internal, config, initialized, slot, listening, cancelled, hand, taskVars, uiVars, auth>>

\* init takes the lock only now.
StoreMain(p) ==
  /\ pc[p] = "store" /\ lock["main"] \in {"free", p}
  /\ slot' = [slot EXCEPT !["main"] = hand[p]]
  /\ hand' = [hand EXCEPT ![p] = 0]
  /\ lock' = [lock EXCEPT !["main"] = "free"]
  /\ Goto(p, IF next[p] # 0 THEN "bindAudit" ELSE "return")
  /\ UNCHANGED <<internal, config, initialized, listening, cancelled, next, taskVars, uiVars, auth>>

BindAudit(p) ==
  /\ pc[p] = "bindAudit"
  /\ Bind(p, next[p])
  /\ next' = [next EXCEPT ![p] = 0]
  /\ Goto(p, "storeAudit")
  /\ UNCHANGED <<internal, config, initialized, slot, lock, cancelled, taskVars, uiVars, auth>>

StoreAudit(p) ==
  /\ pc[p] = "storeAudit" /\ Free("audit")
  /\ slot' = [slot EXCEPT !["audit"] = hand[p]]
  /\ hand' = [hand EXCEPT ![p] = 0]
  /\ Goto(p, "return")
  /\ UNCHANGED <<internal, config, initialized, lock, listening, cancelled, next, taskVars, uiVars, auth>>

\* Mutant: the audit server is left running when the main gateway is stopped.
AfterStopMainOnly(p, s) == IF op[p] = "logout" THEN "stopMonitor" ELSE "return"

\* What a stop goes on with when the server of slot s is gone
AfterStop(p, s) ==
  IF s = "main" /\ internal THEN "stopAudit"
  ELSE IF op[p] = "logout" THEN "stopMonitor" ELSE "return"

Stopping(s) == IF s = "main" THEN "stop" ELSE "stopAudit"
Awaiting(s) == IF s = "main" THEN "await" ELSE "awaitAudit"

\* Mutant: the server's task is awaited without being told to end.
StopUncancelled(p, s) ==
  /\ pc[p] = Stopping(s) /\ Free(s)
  /\ slot' = [slot EXCEPT ![s] = 0]
  /\ IF slot[s] = 0 THEN Goto(p, AfterStop(p, s)) /\ UNCHANGED <<lock, hand, cancelled>>
     ELSE /\ lock' = [lock EXCEPT ![s] = p]
          /\ hand' = [hand EXCEPT ![p] = slot[s]]
          /\ UNCHANGED cancelled
          /\ Goto(p, Awaiting(s))
  /\ UNCHANGED <<internal, config, initialized, listening, next, taskVars, uiVars, auth>>

\* Mutant: a shutdown that finds no gateway is taken for done.
StopIfRunning(p, s) ==
  /\ pc[p] = Stopping(s) /\ Free(s)
  /\ slot' = [slot EXCEPT ![s] = 0]
  /\ IF slot[s] = 0
       THEN Goto(p, IF op[p] = "logout" THEN "reset" ELSE AfterStop(p, s)) /\ UNCHANGED <<lock, hand, cancelled>>
     ELSE /\ lock' = [lock EXCEPT ![s] = p]
          /\ hand' = [hand EXCEPT ![p] = slot[s]]
          /\ cancelled' = cancelled \cup {slot[s]}
          /\ Goto(p, Awaiting(s))
  /\ UNCHANGED <<internal, config, initialized, listening, next, taskVars, uiVars, auth>>

\* The server is taken out of the slot and cancelled, ...
Stop(p, s) ==
  /\ pc[p] = Stopping(s) /\ Free(s)
  /\ slot' = [slot EXCEPT ![s] = 0]
  /\ IF slot[s] = 0 THEN Goto(p, AfterStop(p, s)) /\ UNCHANGED <<lock, hand, cancelled>>
     ELSE /\ lock' = [lock EXCEPT ![s] = p]
          /\ hand' = [hand EXCEPT ![p] = slot[s]]
          /\ cancelled' = cancelled \cup {slot[s]}
          /\ Goto(p, Awaiting(s))
  /\ UNCHANGED <<internal, config, initialized, listening, next, taskVars, uiVars, auth>>

\* ... and awaited under the lock.
Stopped(p, s) ==
  /\ pc[p] = Awaiting(s) /\ hand[p] = 0
  /\ lock' = [lock EXCEPT ![s] = "free"]
  /\ Goto(p, AfterStop(p, s))
  /\ UNCHANGED <<internal, config, initialized, slot, listening, cancelled, hand, next, taskVars, uiVars, auth>>

\* The server's task sees its token, drops the listener and ends.
ServerEnds(port) ==
  /\ port \in listening \cap cancelled
  /\ listening' = listening \ {port}
  /\ cancelled' = cancelled \ {port}
  /\ hand' = [p \in Callers |-> IF hand[p] = port THEN 0 ELSE hand[p]]
  /\ UNCHANGED <<internal, config, initialized, slot, lock, next, taskVars, uiVars, auth, pc, op>>

-----------------------------------------------------------------------------
(* shutdown_services_inner after the servers *)

StopMonitor(p) ==
  /\ pc[p] = "stopMonitor"
  /\ loops' = IF monitor THEN loops - 1 ELSE loops
  /\ monitor' = FALSE
  /\ Goto(p, "stopPool")
  /\ UNCHANGED <<internal, config, initialized, serverVars, pool, ended, uiVars, auth>>

StopPool(p) ==
  /\ pc[p] = "stopPool"
  /\ pool' = FALSE
  /\ ended' = Tasks
  /\ Goto(p, "reset")
  /\ UNCHANGED <<internal, config, initialized, serverVars, loops, monitor, uiVars, auth>>

Reset(p) ==
  /\ pc[p] = "reset"
  /\ initialized' = FALSE
  /\ Goto(p, "clear1")
  /\ UNCHANGED <<internal, config, serverVars, taskVars, uiVars, auth>>

-----------------------------------------------------------------------------
(* The login, in memory and in auth.json *)

\* Mutant: memory before the file
SetMemoryFirst == <<"mem", "file">>

\* set_auth_state saves the file and then changes the memory, ...
SetOrder == <<"file", "mem">>

\* ... clear_auth_state goes the other way round.
ClearOrder == <<"mem", "file">>

Put(where, b) == auth' = [auth EXCEPT ![where] = b]

SetFirst(p) ==
  /\ pc[p] = "set1"
  /\ Put(SetOrder[1], TRUE)
  /\ Goto(p, "set2")
  /\ UNCHANGED <<internal, config, initialized, serverVars, taskVars, uiVars>>

\* The file could not be written: the login in memory stays as it is.
SetFailed(p) ==
  /\ pc[p] = "set1"
  /\ Goto(p, IF p \in Tasks THEN "sleep" ELSE "return")
  /\ UNCHANGED <<internal, config, initialized, serverVars, taskVars, uiVars, auth>>

\* After a login the login page initializes the services.
SetSecond(p) ==
  /\ pc[p] = "set2"
  /\ Put(SetOrder[2], TRUE)
  /\ pc' = [q \in Procs |-> IF q = p THEN IF p \in Tasks THEN "sleep" ELSE "return"
                            ELSE IF q = "boot" /\ op[p] = "login" THEN "init" ELSE pc[q]]
  /\ UNCHANGED <<internal, config, initialized, serverVars, taskVars, uiVars, op>>

ClearFirst(p) ==
  /\ pc[p] = "clear1"
  /\ Put(ClearOrder[1], FALSE)
  /\ Goto(p, "clear2")
  /\ UNCHANGED <<internal, config, initialized, serverVars, taskVars, uiVars>>

\* After a logout the frontend shows the login page.
ClearSecond(p) ==
  /\ pc[p] = "clear2"
  /\ Put(ClearOrder[2], FALSE)
  /\ pc' = [pc EXCEPT ![p] = "idle"]
  /\ op' = [op EXCEPT ![p] = "none"]
  /\ IF p = "account" THEN page' = "login" /\ ready' = FALSE ELSE UNCHANGED uiVars
  /\ UNCHANGED <<internal, config, initialized, serverVars, taskVars>>

\* refresh_license_once: the login is read only when the answer is there, ...
Refresh(t) ==
  /\ pc[t] = "fetch"
  /\ Goto(t, IF auth["mem"] THEN "set1" ELSE "sleep")
  /\ UNCHANGED <<internal, config, initialized, serverVars, taskVars, uiVars, auth>>

\* ... and cleared if the server rejects it, which ends the task.
RefreshRejected(t) ==
  /\ pc[t] = "fetch"
  /\ Goto(t, "clear1")
  /\ UNCHANGED <<internal, config, initialized, serverVars, taskVars, uiVars, auth>>

RefreshFailed(t) ==
  /\ pc[t] = "fetch"
  /\ Goto(t, "sleep")
  /\ UNCHANGED <<internal, config, initialized, serverVars, taskVars, uiVars, auth>>

\* The token is looked at only between two refreshes.
Tick(t) ==
  /\ pc[t] = "sleep" /\ t \notin ended
  /\ Goto(t, "fetch")
  /\ UNCHANGED <<internal, config, initialized, serverVars, taskVars, uiVars, auth>>

TaskEnds(t) ==
  /\ pc[t] = "sleep" /\ t \in ended
  /\ Goto(t, "idle")
  /\ UNCHANGED <<internal, config, initialized, serverVars, taskVars, uiVars, auth>>

-----------------------------------------------------------------------------
(* The user *)

\* start_gateway, stop_gateway: the page has one call under way (actionLoading).
GatewayPage(o) ==
  /\ pc["gateway"] = "idle" /\ page = "main"
  /\ Patient => op["account"] # "logout" /\ (o = "stop" => Idle(Boots))
  /\ pc' = [pc EXCEPT !["gateway"] = o]
  /\ op' = [op EXCEPT !["gateway"] = o]
  /\ UNCHANGED <<internal, config, initialized, serverVars, taskVars, uiVars, auth>>

\* update_gateway_config refuses equal ports in the internal build.
UpdateConfig ==
  /\ pc["gateway"] = "idle" /\ page = "main"
  /\ Patient => Idle(Boots) /\ ready
  /\ \E c \in Configs : c.port # c.audit /\ config' = c
  /\ UNCHANGED <<internal, initialized, serverVars, taskVars, uiVars, auth, pc, op>>

\* poll_device_flow with a token, activate_subscription, logout
AccountPage(o) ==
  /\ ~internal /\ pc["account"] = "idle"
  /\ IF o = "login" THEN page = "login" /\ pc["boot"] = "idle" ELSE page = "main"
  /\ o = "activate" => auth["mem"]
  /\ o = "logout" /\ Patient => Idle(Callers) /\ ready
  /\ pc' = [pc EXCEPT !["account"] = IF o = "logout" THEN "stop" ELSE "set1"]
  /\ op' = [op EXCEPT !["account"] = o]
  /\ UNCHANGED <<internal, config, initialized, serverVars, taskVars, uiVars, auth>>

-----------------------------------------------------------------------------
(* A start of the program: the setup hook of the internal build initializes the
   services, the distribution build has the login that auth.json has.  A config.json
   edited by hand may have equal ports. *)
Init ==
  /\ internal \in BOOLEAN
  /\ config \in Configs
  /\ initialized = FALSE
  /\ slot = [s \in Slots |-> 0]
  /\ lock = [s \in Slots |-> "free"]
  /\ listening = {} /\ cancelled = {}
  /\ hand = [p \in Callers |-> 0]
  /\ next = [p \in Callers |-> 0]
  /\ pool = FALSE /\ loops = 0 /\ monitor = FALSE /\ ended = {}
  /\ \E b \in BOOLEAN :
       /\ auth = [w \in {"mem", "file"} |-> b /\ ~internal]
       /\ page = IF internal \/ b THEN "main" ELSE "login"
  /\ ready = FALSE
  /\ pc = [p \in Procs |-> IF p = "boot" /\ internal THEN "init" ELSE "idle"]
  /\ op = [p \in Procs |-> "none"]

Boot(p) == InitServices(p) \/ StartPool(p) \/ StartMonitor(p) \/ KeepMonitor(p) \/ SpawnLicense(p)

Serve(p) == \/ StartGateway(p) \/ BindMain(p) \/ BindFailed(p) \/ StoreMain(p) \/ BindAudit(p)
            \/ StoreAudit(p) \/ ReturnCall(p)
            \/ \E s \in Slots : Stop(p, s) \/ Stopped(p, s)

Shutdown(p) == StopMonitor(p) \/ StopPool(p) \/ Reset(p)

Login(p) == SetFirst(p) \/ SetFailed(p) \/ SetSecond(p) \/ ClearFirst(p) \/ ClearSecond(p)

License(t) == Refresh(t) \/ RefreshRejected(t) \/ RefreshFailed(t) \/ TaskEnds(t) \/ Login(t)

Work(p) == Serve(p) \/ (p \in Boots /\ Boot(p)) \/ (p = "account" /\ (Shutdown(p) \/ Login(p)))

Next == \/ \E p \in Callers : Work(p)
        \/ \E t \in Tasks : License(t) \/ Tick(t)
        \/ \E port \in Ports : ServerEnds(port)
        \/ \E o \in {"start", "stop"} : GatewayPage(o)
        \/ \E o \in {"login", "activate", "logout"} : AccountPage(o)
        \/ UpdateConfig

Spec == Init /\ [][Next]_vars

(* Tokio polls every task; its RwLock serves the waiting calls in turn, so none is
   overtaken for ever.  The server answers or the request times out. *)
FairSpec == /\ Spec
            /\ \A p \in Callers : SF_vars(Work(p))
            /\ \A t \in Tasks : WF_vars(License(t))
            /\ \A port \in Ports : WF_vars(ServerEnds(port))

-----------------------------------------------------------------------------
(* Properties *)

(* Every variable has its type. *)
TypeOK ==
  /\ internal \in BOOLEAN /\ config \in Configs /\ initialized \in BOOLEAN
  /\ slot \in [Slots -> Ports \cup {0}]
  /\ lock \in [Slots -> Callers \cup {"free"}]
  /\ cancelled \subseteq listening /\ listening \subseteq Ports
  /\ hand \in [Callers -> Ports \cup {0}]
  /\ next \in [Callers -> Ports \cup {0}]
  /\ pool \in BOOLEAN /\ loops \in 0..MaxLoops /\ monitor \in BOOLEAN
  /\ ended \subseteq Tasks
  /\ page \in {"login", "main"} /\ ready \in BOOLEAN
  /\ auth \in [{"mem", "file"} -> BOOLEAN]
  /\ DOMAIN pc = Procs /\ DOMAIN op = Procs

(* A server that listens can be stopped: it is in its slot, or a call is about to put
   it there or to stop it; no start of another one drops it (lib.rs:425, 486;
   commands/gateway.rs:48, 92). *)
NoOrphanServer ==
  \A port \in listening : (\E s \in Slots : slot[s] = port) \/ (\E p \in Callers : hand[p] = port)

(* Once a logout is through, nothing that init_services started goes on: no server
   listens, no monitor loop runs, the pool's tasks are stopped (lib.rs:480-528). *)
QuietAfterLogout ==
  page = "login" /\ ~initialized /\ Idle(Callers) => listening = {} /\ loops = 0 /\ ~pool

(* A login that is gone from memory is gone from auth.json and does not return with
   the next start, however logins, renewals, rejections and logouts overlap, once
   none is between its two writes (server_client.rs:86-107). *)
LogoutSurvivesRestart ==
  (\A p \in Procs : pc[p] \notin {"set2", "clear2"}) /\ ~auth["mem"] => ~auth["file"]

(* With no call under way, the audit server listens only beside the main one: the
   Stopped UI state never diverges from a silently-listening audit port
   (lib.rs:431-434). *)
AuditFollowsMain == Idle(Callers) /\ slot["audit"] # 0 => slot["main"] # 0

(* Every command returns, whoever holds the slots' locks (lib.rs:425, 486; server.rs:34). *)
CallsReturn == \A p \in Callers : pc[p] # "idle" ~> pc[p] = "idle"
=============================================================================
