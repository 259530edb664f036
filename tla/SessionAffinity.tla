--------------------------- MODULE SessionAffinity ---------------------------
(***************************************************************************)
(* The session map of ClientManager and sessions.json: the look-up, the    *)
(* forgetting and the recording of a mapping by get_client_with_session,   *)
(* the clean-up by disable_client and load_clients, the debounced flush    *)
(* task, and restarts that read the file back.                             *)
(*                                                                         *)
(* Each access to a concurrent map is a step.  A time stamp is only fresh  *)
(* or stale (older than SESSION_TTL_MS); a debounce pause is a state that  *)
(* ends at any time, or, with Brief, after what was already running when   *)
(* the pause began.                                                        *)
(***************************************************************************)
EXTENDS Naturals, FiniteSets

CONSTANTS
  Sessions,     \* session ids
  Accounts,     \* account ids
  Pickers,      \* requests that are selecting a client
  Router,       \* route_change, one account change at a time
  Loader,       \* load_clients
  Flushers,     \* flush tasks: every init_services starts another one
  Nobody,       \* no mapping
  Brief         \* a clean-up or a write is over within the pause of a flush task

ASSUME ActorsAssumption == /\ Router # Loader
                           /\ {Router, Loader} \cap (Pickers \cup Flushers) = {}
                           /\ Pickers \cap Flushers = {}
ASSUME SessionsAssumption == IsFiniteSet(Sessions)
ASSUME BriefAssumption == Brief \in BOOLEAN

VARIABLES
  enabled,      \* accounts whose file makes them eligible
  clients,      \* ClientManager.clients
  map,          \* session_map
  sessionsFile, \* sessions.json
  permit,       \* flush_notify holds a notification
  task,         \* where each flush task stands
  todo,         \* sessions each flush task has still to collect
  records,      \* what each flush task has collected
  failed,       \* the last write of the file failed
  place,        \* where pickers, router and loader stand
  local,        \* their session, account and session count
  serving,      \* the gateway serves
  ahead         \* what was running when each flush task began its pause

mapVars == <<map, sessionsFile, enabled, clients>>
taskVars == <<permit, task, todo, records, failed>>
actorVars == <<place, local>>
affinityVars == <<mapVars, taskVars, actorVars, serving, ahead>>

Actors == Pickers \cup {Router, Loader}
Entry == [aid : Accounts, stale : BOOLEAN]
None == [aid |-> Nobody, stale |-> FALSE]
Mapping(a) == [aid |-> a, stale |-> FALSE]

\* What the time-to-live leaves of a map.
Fresh(m) == [s \in Sessions |-> IF m[s].stale THEN None ELSE m[s]]
Count == Cardinality({s \in Sessions : map[s] # None})

Local == [sid : Sessions, aid : Accounts \cup {Nobody}, len : Nat, valid : SUBSET Accounts]
NoLocal == [sid |-> CHOOSE s \in Sessions : TRUE, aid |-> Nobody, len |-> 0, valid |-> {}]

Move(p, l) == place' = [place EXCEPT ![p] = l]
Advance(p, l) == Move(p, l) /\ UNCHANGED local
Finish(p) == Move(p, "idle") /\ local' = [local EXCEPT ![p] = NoLocal]
Started == \E f \in Flushers : task[f] # "off"

\* The clean-ups and writes under way.
Running == {p \in {Router, Loader} : place[p] # "idle"}
             \cup {f \in Flushers : task[f] \in {"collect", "write"}}

\* What every step means for the pauses under way and for one that it begins.
Pauses == ahead' = [f \in Flushers |->
  IF task'[f] # "sleep" THEN {}
  ELSE IF task[f] = "sleep" THEN ahead[f] \cap Running' ELSE Running']

\* What a step leaves alone.
Rest(v) == UNCHANGED v /\ Pauses

-----------------------------------------------------------------------------
(* The flush task.                                                         *)

Pause(f) == task' = [task EXCEPT ![f] = "sleep"]

\* flush_notify.notified() of a task that comes back to it.
Await(f, t) ==
  /\ permit' = FALSE
  /\ task' = [t EXCEPT ![f] = IF permit THEN "sleep" ELSE "wait"]

\* Mutant: a notification without a waiting task is lost.
ScheduleWaiters ==
  /\ \/ \E f \in Flushers : task[f] = "wait" /\ Pause(f)
     \/ ~(\E f \in Flushers : task[f] = "wait") /\ UNCHANGED task
  /\ UNCHANGED <<permit, todo, records, failed>>

\* schedule_flush: notify_one wakes a waiting task or stores one permit.
Schedule ==
  /\ \/ \E f \in Flushers : task[f] = "wait" /\ Pause(f) /\ UNCHANGED permit
     \/ ~(\E f \in Flushers : task[f] = "wait") /\ permit' = TRUE /\ UNCHANGED task
  /\ UNCHANGED <<todo, records, failed>>

StartTask(f) ==
  /\ ~serving /\ task[f] = "off"
  /\ Await(f, task)
  /\ Rest(<<mapVars, actorVars, todo, records, failed, serving>>)

\* Mutant: the pause starts again with every notification.
WakeQuiet(f) ==
  /\ task[f] = "sleep"
  /\ Brief => ahead[f] = {}
  /\ permit' = FALSE
  /\ task' = IF permit THEN task ELSE [task EXCEPT ![f] = "collect"]
  /\ todo' = [todo EXCEPT ![f] = Sessions]
  /\ Rest(<<mapVars, actorVars, records, failed, serving>>)

\* The pause of SESSION_FLUSH_DEBOUNCE_MS is over.
Wake(f) ==
  /\ task[f] = "sleep"
  /\ Brief => ahead[f] = {}
  /\ task' = [task EXCEPT ![f] = "collect"]
  /\ todo' = [todo EXCEPT ![f] = Sessions]
  /\ Rest(<<mapVars, actorVars, permit, records, failed, serving>>)

\* The iteration of flush_sessions_to_disk comes to a session.
CollectSession(f, s) ==
  /\ task[f] = "collect" /\ s \in todo[f]
  /\ todo' = [todo EXCEPT ![f] = @ \ {s}]
  /\ records' = [records EXCEPT ![f][s] = Fresh(map)[s]]
  /\ task' = IF todo[f] = {s} THEN [task EXCEPT ![f] = "write"] ELSE task
  /\ Rest(<<mapVars, actorVars, permit, failed, serving>>)

\* secure_write_json replaces the file or leaves it as it was.
Write(f) ==
  /\ task[f] = "write"
  /\ Await(f, task)
  /\ records' = [records EXCEPT ![f] = [s \in Sessions |-> None]]
  /\ \/ sessionsFile' = records[f] /\ failed' = FALSE
     \/ failed' = TRUE /\ UNCHANGED sessionsFile
  /\ Rest(<<map, enabled, clients, actorVars, todo, serving>>)

-----------------------------------------------------------------------------
(* get_client_with_session.                                                *)

Look(p, s) ==
  /\ serving /\ place[p] = "idle"
  /\ Move(p, IF map[s] = None THEN "rotate" ELSE "check")
  /\ local' = [local EXCEPT ![p].sid = s, ![p].aid = map[s].aid]
  /\ Rest(<<mapVars, taskVars, serving>>)

\* The mapped account is in the pool, and tokens, quota and the attempts of
\* the request may allow it.
Check(p) ==
  /\ place[p] = "check"
  /\ \/ local[p].aid \in clients /\ Advance(p, "record")
     \/ Advance(p, "forget")
  /\ Rest(<<mapVars, taskVars, serving>>)

Forget(p) ==
  /\ place[p] = "forget"
  /\ map' = [map EXCEPT ![local[p].sid] = None]
  /\ Move(p, "reschedule") /\ local' = [local EXCEPT ![p].aid = Nobody]
  /\ Rest(<<sessionsFile, enabled, clients, taskVars, serving>>)

Reschedule(p) ==
  /\ place[p] = "reschedule"
  /\ Schedule
  /\ Advance(p, "rotate")
  /\ Rest(<<mapVars, serving>>)

\* get_client: the rotation may find any client, or refuse all of them.
Rotate(p) ==
  /\ place[p] = "rotate"
  /\ \/ \E a \in clients : Move(p, "record") /\ local' = [local EXCEPT ![p].aid = a]
     \/ Finish(p)
  /\ Rest(<<mapVars, taskVars, serving>>)

Record(p) ==
  /\ place[p] = "record"
  /\ map' = [map EXCEPT ![local[p].sid] = Mapping(local[p].aid)]
  /\ Advance(p, "schedule")
  /\ Rest(<<sessionsFile, enabled, clients, taskVars, serving>>)

ScheduleRecord(p) ==
  /\ place[p] = "schedule"
  /\ Schedule
  /\ Finish(p)
  /\ Rest(<<mapVars, serving>>)

-----------------------------------------------------------------------------
(* disable_client and add_client, as route_change calls them.              *)

Disable(a) ==
  /\ Started /\ place[Router] = "idle" /\ a \in enabled
  /\ enabled' = enabled \ {a} /\ clients' = clients \ {a}
  /\ Move(Router, "count") /\ local' = [local EXCEPT ![Router].aid = a]
  /\ Rest(<<map, sessionsFile, taskVars, serving>>)

Enable(a) ==
  /\ Started /\ place[Router] = "idle" /\ a \notin enabled
  /\ enabled' = enabled \cup {a} /\ clients' = clients \cup {a}
  /\ Rest(<<map, sessionsFile, taskVars, actorVars, serving>>)

CountSessions ==
  /\ place[Router] = "count"
  /\ Move(Router, "retain") /\ local' = [local EXCEPT ![Router].len = Count]
  /\ Rest(<<mapVars, taskVars, serving>>)

\* Keep the mappings to the accounts in aids.
Keep(aids) == map' = [s \in Sessions |-> IF map[s].aid \in aids THEN map[s] ELSE None]

Retain ==
  /\ place[Router] = "retain"
  /\ Keep(Accounts \ {local[Router].aid})
  /\ Move(Router, "compare") /\ local' = [local EXCEPT ![Router].aid = Nobody]
  /\ Rest(<<sessionsFile, enabled, clients, taskVars, serving>>)

\* A flush is scheduled when the number of sessions has changed.
Compare(p) ==
  /\ place[p] = "compare"
  /\ IF Count = local[p].len THEN UNCHANGED taskVars ELSE Schedule
  /\ Finish(p)
  /\ Rest(mapVars)

CompareRouter == Compare(Router) /\ UNCHANGED serving

-----------------------------------------------------------------------------
(* load_clients, at init_services and start_gateway; restarts.             *)

ClearClients ==
  /\ Started /\ ~serving /\ place[Loader] = "idle"
  /\ clients' = {}
  /\ Advance(Loader, "load")
  /\ Rest(<<map, sessionsFile, enabled, taskVars, serving>>)

LoadFiles ==
  /\ place[Loader] = "load"
  /\ clients' = clients \cup enabled
  /\ Advance(Loader, "count")
  /\ Rest(<<map, sessionsFile, enabled, taskVars, serving>>)

\* valid_aids and the number of sessions before the clean-up.
CollectValid ==
  /\ place[Loader] = "count"
  /\ Move(Loader, "retain")
  /\ local' = [local EXCEPT ![Loader].valid = clients, ![Loader].len = Count]
  /\ Rest(<<mapVars, taskVars, serving>>)

RetainValid ==
  /\ place[Loader] = "retain"
  /\ Keep(local[Loader].valid)
  /\ Move(Loader, "compare") /\ local' = [local EXCEPT ![Loader].valid = {}]
  /\ Rest(<<sessionsFile, enabled, clients, taskVars, serving>>)

\* The gateway is started after the load, or is left stopped.
CompareLoader == Compare(Loader) /\ serving' \in BOOLEAN

StopGateway ==
  /\ serving
  /\ serving' = FALSE
  /\ Rest(<<mapVars, taskVars, actorVars>>)

Off == [f \in Flushers |-> "off"]
Nothing == [f \in Flushers |-> [s \in Sessions |-> None]]
Idle == [p \in Actors |-> "idle"]

\* The process ends at any point and starts again: with_sessions_path.
Restart ==
  /\ map' = Fresh(sessionsFile) /\ clients' = {} /\ serving' = FALSE
  /\ permit' = FALSE /\ task' = Off /\ failed' = FALSE
  /\ todo' = [f \in Flushers |-> {}] /\ records' = Nothing
  /\ place' = Idle /\ local' = [p \in Actors |-> NoLocal]
  /\ Rest(<<sessionsFile, enabled>>)

\* A session is not used for a week; everything else is over long before.
Age(s) ==
  /\ place = Idle /\ ~permit
  /\ \A f \in Flushers : task[f] \in {"off", "wait"}
  /\ map' = [map EXCEPT ![s].stale = map[s] # None]
  /\ sessionsFile' = [sessionsFile EXCEPT ![s].stale = sessionsFile[s] # None]
  /\ Rest(<<enabled, clients, taskVars, actorVars, serving>>)

-----------------------------------------------------------------------------
AffinityInit ==
  /\ enabled \in SUBSET Accounts /\ clients = {}
  /\ map = [s \in Sessions |-> None] /\ sessionsFile = [s \in Sessions |-> None]
  /\ permit = FALSE /\ task = Off /\ todo = [f \in Flushers |-> {}]
  /\ records = Nothing /\ failed = FALSE
  /\ place = Idle /\ local = [p \in Actors |-> NoLocal]
  /\ serving = FALSE /\ ahead = [f \in Flushers |-> {}]

Flush(f) == Wake(f) \/ (\E s \in Sessions : CollectSession(f, s)) \/ Write(f)
Pick(p) == \/ Check(p) \/ Forget(p) \/ Reschedule(p) \/ Rotate(p) \/ Record(p)
           \/ ScheduleRecord(p)
Route == CountSessions \/ Retain \/ CompareRouter
Load == LoadFiles \/ CollectValid \/ RetainValid \/ CompareLoader

AffinityNext ==
  \/ \E f \in Flushers : StartTask(f) \/ Flush(f)
  \/ \E p \in Pickers : Pick(p) \/ \E s \in Sessions : Look(p, s)
  \/ \E a \in Accounts : Disable(a) \/ Enable(a)
  \/ Route
  \/ ClearClients \/ Load \/ StopGateway
  \/ Restart
  \/ \E s \in Sessions : Age(s)

AffinitySpec == AffinityInit /\ [][AffinityNext]_affinityVars

\* The runtime runs what can run: a flush task, a selection, a change, a load.
FairAffinitySpec ==
  /\ AffinitySpec
  /\ \A f \in Flushers : WF_affinityVars(Flush(f))
  /\ \A p \in Pickers : WF_affinityVars(Pick(p))
  /\ WF_affinityVars(Route) /\ WF_affinityVars(Load)

-----------------------------------------------------------------------------
(* Properties.                                                             *)

\* The types of the variables; running actors only while pauses are known.
AffinityTypeOK ==
  /\ enabled \subseteq Accounts /\ clients \subseteq Accounts
  /\ map \in [Sessions -> Entry \cup {None}] /\ sessionsFile \in [Sessions -> Entry \cup {None}]
  /\ permit \in BOOLEAN /\ failed \in BOOLEAN /\ serving \in BOOLEAN
  /\ task \in [Flushers -> {"off", "wait", "sleep", "collect", "write"}]
  /\ todo \in [Flushers -> SUBSET Sessions]
  /\ records \in [Flushers -> [Sessions -> Entry \cup {None}]]
  /\ place \in [Actors -> {"idle", "check", "forget", "reschedule", "rotate", "record",
                        "schedule", "count", "retain", "compare", "load"}]
  /\ local \in [Actors -> Local]
  /\ ahead \in [Flushers -> SUBSET (Actors \cup Flushers)]

\* The file would not give the session back as it is now.
Unsaved(s) == Fresh(map)[s] # Fresh(sessionsFile)[s]

Pending(s) ==
  \/ permit
  \/ \E f \in Flushers : \/ task[f] = "sleep"
                         \/ task[f] \in {"collect", "write"} /\
                            (s \in todo[f] \/ records[f][s] = Fresh(map)[s])
  \/ \E p \in Actors : \/ place[p] \in {"schedule", "reschedule"}
                       \/ place[p] = "compare" /\ Count # local[p].len

\* No change of the session map is forgotten: whatever the file does not say
\* is still to be written by a flush that is under way or scheduled, unless
\* the last write failed (which nothing repeats).
UnsavedIsPending == \A s \in Sessions : Unsaved(s) => failed \/ Pending(s)

\* A mapping that stays is in the file some time later, however often sessions are
\* used and flushes scheduled meanwhile: the debounce delays a flush and never
\* starves it.
FileCatchesUp ==
  \A s \in Sessions, a \in Accounts :
    map[s] = Mapping(a) ~> (sessionsFile[s] = Mapping(a) \/ map[s] # Mapping(a) \/ failed)
=============================================================================
