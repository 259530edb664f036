----------------------------- MODULE LiveAccount -----------------------------
(***************************************************************************)
(* One account between its JSON file and the gateway's live pool: the      *)
(* changes AccountManager writes to the file, the routing of each change   *)
(* to the consumers (ClientManager and ProxyPool) after the file's lock is *)
(* released, and load_clients, which rebuilds the live pool from the file. *)
(*                                                                         *)
(* Every change is made by a changer: a command of the user, the gateway   *)
(* that disables an account on an upstream error, the account monitor, a   *)
(* login.  A step is one section under the account's lock or one operation *)
(* on one of ClientManager's maps, which threads interleave freely.        *)
(***************************************************************************)
EXTENDS Naturals

CONSTANTS
  Changers,   \* tasks that change the account, at most one change each at a time
  Configs,    \* routing configurations the account may have
  Updates,    \* routing updates a caller may ask for
  MaxTokens,  \* bound: access tokens issued in a behaviour
  Reloads     \* may the gateway be restarted, which rebuilds the live pool?

Modes == {"proxy", "static", "vercel", "direct"}

(* route_mode and whether static_proxy is set. *)
Config == [mode : Modes, static : BOOLEAN]

(* What update_account_route is asked to do with each of the two.  A mode of
   "keep" is an absent one, one of "unknown" is none of the four. *)
Update == [mode : Modes \cup {"keep", "unknown"}, static : {"keep", "set", "clear"}]

(* The closure of set_route_bundle: unknown modes are ignored. *)
Apply(u, c) == [mode   |-> IF u.mode \in Modes THEN u.mode ELSE c.mode,
                static |-> IF u.static = "keep" THEN c.static ELSE u.static = "set"]

ASSUME ConfigsAssumption == Configs \subseteq Config /\ Configs # {}
ASSUME UpdatesAssumption ==
  Updates \subseteq Update /\ \A u \in Updates, c \in Configs : Apply(u, c) \in Configs
ASSUME TokensAssumption == MaxTokens \in Nat /\ Reloads \in BOOLEAN

VARIABLES
  file,      \* the account's JSON file
  issued,    \* how many tokens the token endpoint issued so far
  client,    \* ClientManager.clients: the access token of its client, NoToken if absent
  listed,    \* is the account in ordered_ids?
  known,     \* is it in runtime_state?
  runtime,   \* the routing fields cached there
  pool,      \* the account's entry in the proxy pool
  pc,        \* where each changer stands
  after,     \* where it goes on after add_client
  snapshot,  \* the account as it last read it
  request    \* the routing update it is making

liveVars == <<client, listed, known, runtime>>
localVars == <<pc, after, snapshot, request>>
vars == <<file, issued, liveVars, pool, localVars>>

(* Tokens are numbered; the first two are no cli section, and the cli section an
   account was imported with. *)
NoToken == 0
Imported == 1
Tokens == NoToken..(Imported + MaxTokens)

Account == [there : BOOLEAN, disabled : BOOLEAN, userDisabled : BOOLEAN, token : Tokens,
            config : Configs]

AnyConfig == CHOOSE c \in Configs : TRUE
NoFile == [there |-> FALSE, disabled |-> FALSE, userDisabled |-> FALSE, token |-> NoToken,
           config |-> AnyConfig]
NoUpdate == [mode |-> "keep", static |-> "keep"]

(* The routing fields of AccountRuntimeState: route_mode, has_static_proxy and
   whether static_proxy_url is set. *)
Cached(c) == [mode |-> c.mode, static |-> c.static, url |-> c.static]

PCs == {"idle", "writeRoute", "readRoute", "cacheMode", "cacheStatic", "cacheUrl",
        "drop", "unlist", "disablePool", "readEnabled", "enablePool",
        "verify", "readCli", "syncCli", "updateToken",
        "add", "addRuntime", "addClient", "addListed",
        "clearRuntime", "readFile", "collect", "store"}

-----------------------------------------------------------------------------
Goto(c, l) == pc' = [pc EXCEPT ![c] = l]

(* A changer that is done forgets its locals. *)
Done(c) == /\ Goto(c, "idle")
           /\ after' = [after EXCEPT ![c] = "idle"]
           /\ snapshot' = [snapshot EXCEPT ![c] = NoFile]
           /\ request' = [request EXCEPT ![c] = NoUpdate]

Step(c, l) == Goto(c, l) /\ UNCHANGED <<after, snapshot, request>>

(* AccountManager::read: go on at l with what the file says, or stop if it is gone. *)
Read(c, l, usable) ==
  IF file.there /\ usable
    THEN Goto(c, l) /\ snapshot' = [snapshot EXCEPT ![c] = file] /\ UNCHANGED <<after, request>>
    ELSE Done(c)

(* load_clients and add_client take an account that is not disabled and has cli
   (and well-formed ids, which every account here has). *)
Eligible(a) == a.there /\ ~a.disabled /\ ~a.userDisabled /\ a.token # NoToken

-----------------------------------------------------------------------------
(* update_account_route: check the arguments against the file, then set_route_bundle. *)

(* validate_route_update: mode static needs a static proxy, given or on file. *)
BeginRoute(c, u) ==
  /\ pc[c] = "idle"
  /\ u.mode = "static" =>
       u.static = "set" \/ (u.static = "keep" /\ file.there /\ file.config.static)
  /\ Goto(c, "writeRoute")
  /\ request' = [request EXCEPT ![c] = u]
  /\ UNCHANGED <<file, issued, liveVars, pool, after, snapshot>>

WriteRoute(c) ==
  /\ pc[c] = "writeRoute"
  /\ IF file.there
       THEN file' = [file EXCEPT !.config = Apply(request[c], @)] /\ Step(c, "readRoute")
       ELSE UNCHANGED file /\ Done(c)
  /\ UNCHANGED <<issued, liveVars, pool>>

(* RouteUpdated: read the file back, then set the cached fields one by one. *)
ReadRoute(c) ==
  /\ pc[c] = "readRoute"
  /\ Read(c, "cacheMode", TRUE)
  /\ UNCHANGED <<file, issued, liveVars, pool>>

Cache(c, field, value) ==
  /\ runtime' = IF known THEN [runtime EXCEPT ![field] = value] ELSE runtime
  /\ UNCHANGED <<file, issued, client, listed, known, pool>>

CacheMode(c) ==
  pc[c] = "cacheMode" /\ Cache(c, "mode", snapshot[c].config.mode) /\ Step(c, "cacheStatic")

CacheStatic(c) ==
  pc[c] = "cacheStatic" /\ Cache(c, "static", snapshot[c].config.static) /\ Step(c, "cacheUrl")

CacheUrl(c) ==
  pc[c] = "cacheUrl" /\ Cache(c, "url", snapshot[c].config.static) /\ Done(c)

-----------------------------------------------------------------------------
(* set_disabled, set_user_disabled and delete_account *)

\* Mutant: the account is taken out of the proxy pool only.
DisabledKeepsClient(c) ==
  /\ pc[c] = "idle" /\ file.there
  /\ file' = [file EXCEPT !.disabled = TRUE]
  /\ Step(c, "disablePool")
  /\ UNCHANGED <<issued, liveVars, pool>>

SetDisabled(c) ==
  /\ pc[c] = "idle" /\ file.there
  /\ file' = [file EXCEPT !.disabled = TRUE]
  /\ Step(c, "drop")
  /\ UNCHANGED <<issued, liveVars, pool>>

SetUserDisabled(c, b) ==
  /\ pc[c] = "idle" /\ file.there
  /\ file' = [file EXCEPT !.userDisabled = b]
  /\ Step(c, IF b THEN "drop" ELSE "readEnabled")
  /\ UNCHANGED <<issued, liveVars, pool>>

Delete(c) ==
  /\ pc[c] = "idle" /\ file.there
  /\ file' = NoFile
  /\ Step(c, "drop")
  /\ UNCHANGED <<issued, liveVars, pool>>

(* disable_client removes the client, then its place in the rotation. *)
Drop(c) ==
  /\ pc[c] = "drop"
  /\ client' = NoToken
  /\ Step(c, "unlist")
  /\ UNCHANGED <<file, issued, listed, known, runtime, pool>>

Unlist(c) ==
  /\ pc[c] = "unlist"
  /\ listed' = FALSE
  /\ Step(c, "disablePool")
  /\ UNCHANGED <<file, issued, client, known, runtime, pool>>

(* disable_in_pool: nothing to do if the account has no entry. *)
DisablePool(c) ==
  /\ pc[c] = "disablePool"
  /\ pool' = IF pool = "absent" THEN "absent" ELSE "disabled"
  /\ Done(c)
  /\ UNCHANGED <<file, issued, liveVars>>

(* Re-enabled by the user: back into the pools if not disabled and with cli. *)
ReadEnabled(c) ==
  /\ pc[c] = "readEnabled"
  /\ IF file.there /\ ~file.disabled /\ file.token # NoToken
       THEN /\ Goto(c, "add")
            /\ after' = [after EXCEPT ![c] = "enablePool"]
            /\ snapshot' = [snapshot EXCEPT ![c] = file]
            /\ UNCHANGED request
       ELSE Done(c)
  /\ UNCHANGED <<file, issued, liveVars, pool>>

EnablePool(c) ==
  /\ pc[c] = "enablePool"
  /\ pool' = IF pool = "absent" THEN "absent" ELSE "enabled"
  /\ Done(c)
  /\ UNCHANGED <<file, issued, liveVars>>

-----------------------------------------------------------------------------
(* set_cli, and an import, which verifies the cli section it brought *)

NewToken == Imported + issued + 1

WriteCli(c) ==
  /\ issued < MaxTokens
  /\ issued' = issued + 1
  /\ file' = [file EXCEPT !.token = NewToken]
  /\ Step(c, "readCli")
  /\ UNCHANGED <<liveVars, pool>>

(* A login sets the cli section; a refresh renews the tokens of the one there is. *)
SetCli(c) ==
  /\ pc[c] = "idle" /\ file.there
  /\ WriteCli(c)

(* import_accounts: write_new, then Created; tokens that have expired are left alone. *)
Import(c, a) ==
  /\ pc[c] = "idle" /\ ~file.there
  /\ a.there /\ a.token \in {NoToken, Imported}
  /\ file' = a
  /\ \/ a.token # NoToken /\ Step(c, "verify")
     \/ Done(c)
  /\ UNCHANGED <<issued, liveVars, pool>>

(* Created: force_refresh_token renews the tokens, or fails, as it does when the
   static proxy it has to go through is missing. *)
Verified(c) ==
  /\ pc[c] = "verify"
  /\ file.there /\ file.token # NoToken
  /\ file.config.mode = "static" => file.config.static
  /\ WriteCli(c)

VerifyFailed(c) ==
  /\ pc[c] = "verify"
  /\ Done(c)
  /\ UNCHANGED <<file, issued, liveVars, pool>>

(* CliUpdated: read the file back, then renew the client's token or add a client. *)
ReadCli(c) ==
  /\ pc[c] = "readCli"
  /\ Read(c, "syncCli", file.token # NoToken)
  /\ UNCHANGED <<file, issued, liveVars, pool>>

\* Mutant: a login only renews the token of a client that is live.
SyncLiveOnly(c) ==
  /\ pc[c] = "syncCli"
  /\ IF client # NoToken THEN Step(c, "updateToken") ELSE Done(c)
  /\ UNCHANGED <<file, issued, liveVars, pool>>

SyncCli(c) ==
  /\ pc[c] = "syncCli"
  /\ IF client # NoToken THEN Step(c, "updateToken")
     ELSE IF Eligible(snapshot[c]) THEN Step(c, "add")
     ELSE Done(c)
  /\ UNCHANGED <<file, issued, liveVars, pool>>

UpdateToken(c) ==
  /\ pc[c] = "updateToken"
  /\ client' = IF client # NoToken THEN snapshot[c].token ELSE NoToken
  /\ Done(c)
  /\ UNCHANGED <<file, issued, listed, known, runtime, pool>>

-----------------------------------------------------------------------------
(* add_client, and load_clients, which shares its inserts *)

Continue(c) == IF after[c] = "enablePool" THEN Step(c, "enablePool") ELSE Done(c)

Add(c) ==
  /\ pc[c] = "add"
  /\ IF client = NoToken /\ Eligible(snapshot[c]) THEN Step(c, "addRuntime") ELSE Continue(c)
  /\ UNCHANGED <<file, issued, liveVars, pool>>

\* Mutant: add_client leaves the routing cached before.
AddKeepsRuntime(c) ==
  /\ pc[c] = "addRuntime"
  /\ known' = TRUE
  /\ runtime' = IF known THEN runtime ELSE Cached(snapshot[c].config)
  /\ Step(c, "addClient")
  /\ UNCHANGED <<file, issued, client, listed, pool>>

AddRuntime(c) ==
  /\ pc[c] = "addRuntime"
  /\ known' = TRUE
  /\ runtime' = Cached(snapshot[c].config)
  /\ Step(c, "addClient")
  /\ UNCHANGED <<file, issued, client, listed, pool>>

AddClient(c) ==
  /\ pc[c] = "addClient"
  /\ client' = snapshot[c].token
  /\ Step(c, IF after[c] = "collect" THEN "collect" ELSE "addListed")
  /\ UNCHANGED <<file, issued, listed, known, runtime, pool>>

AddListed(c) ==
  /\ pc[c] = "addListed"
  /\ listed' = TRUE
  /\ Continue(c)
  /\ UNCHANGED <<file, issued, client, known, runtime, pool>>

(* load_clients clears the maps one by one, then reads the files without their locks. *)
Reload(c) ==
  /\ pc[c] = "idle" /\ Reloads
  /\ client' = NoToken
  /\ Step(c, "clearRuntime")
  /\ UNCHANGED <<file, issued, listed, known, runtime, pool>>

ClearRuntime(c) ==
  /\ pc[c] = "clearRuntime"
  /\ known' = FALSE
  /\ runtime' = Cached(AnyConfig)
  /\ Step(c, "readFile")
  /\ UNCHANGED <<file, issued, client, listed, pool>>

ReadFile(c) ==
  /\ pc[c] = "readFile"
  /\ after' = [after EXCEPT ![c] = "collect"]
  /\ snapshot' = [snapshot EXCEPT ![c] = file]
  /\ Goto(c, IF Eligible(file) THEN "addRuntime" ELSE "collect")
  /\ UNCHANGED <<file, issued, liveVars, pool, request>>

(* The new ordered_ids are the keys of clients, and then replace the old ones. *)
Collect(c) ==
  /\ pc[c] = "collect"
  /\ Step(c, IF client # NoToken THEN "addListed" ELSE "store")
  /\ UNCHANGED <<file, issued, liveVars, pool>>

StoreNone(c) ==
  /\ pc[c] = "store"
  /\ listed' = FALSE
  /\ Done(c)
  /\ UNCHANGED <<file, issued, client, known, runtime, pool>>

-----------------------------------------------------------------------------
(* ensure_proxy, by a request of a live client or a token refresh: a new entry
   is disabled if the file says the user disabled the account. *)
EnsurePool ==
  /\ pool = "absent"
  /\ client # NoToken \/ file.there
  /\ pool' = IF file.there /\ file.userDisabled THEN "disabled" ELSE "enabled"
  /\ UNCHANGED <<file, issued, liveVars, localVars>>

(* The program has just started and load_clients has run. *)
Init ==
  /\ file \in {a \in Account : IF a.there THEN a.token <= Imported ELSE a = NoFile}
  /\ issued = 0
  /\ client = IF Eligible(file) THEN file.token ELSE NoToken
  /\ listed = Eligible(file)
  /\ known = Eligible(file)
  /\ runtime = Cached(IF Eligible(file) THEN file.config ELSE AnyConfig)
  /\ pool = "absent"
  /\ pc = [c \in Changers |-> "idle"]
  /\ after = [c \in Changers |-> "idle"]
  /\ snapshot = [c \in Changers |-> NoFile]
  /\ request = [c \in Changers |-> NoUpdate]

ChangeRoute(c) ==
  (\E u \in Updates : BeginRoute(c, u)) \/ WriteRoute(c) \/ ReadRoute(c)
    \/ CacheMode(c) \/ CacheStatic(c) \/ CacheUrl(c)

ChangeStatus(c) ==
  SetDisabled(c) \/ (\E b \in BOOLEAN : SetUserDisabled(c, b)) \/ Delete(c)
    \/ Drop(c) \/ Unlist(c) \/ DisablePool(c) \/ ReadEnabled(c) \/ EnablePool(c)

ChangeCli(c) ==
  SetCli(c) \/ (\E a \in Account : Import(c, a)) \/ Verified(c) \/ VerifyFailed(c)
    \/ ReadCli(c) \/ SyncCli(c) \/ UpdateToken(c)

AddOrLoad(c) ==
  Add(c) \/ AddRuntime(c) \/ AddClient(c) \/ AddListed(c)
    \/ Reload(c) \/ ClearRuntime(c) \/ ReadFile(c) \/ Collect(c) \/ StoreNone(c)

Next == EnsurePool \/ \E c \in Changers :
          ChangeRoute(c) \/ ChangeStatus(c) \/ ChangeCli(c) \/ AddOrLoad(c)

Spec == Init /\ [][Next]_vars

-----------------------------------------------------------------------------
(* Every value stored is one the program can store: in particular the mode on
   file is one of the four, whatever set_route_bundle was asked for. *)
TypeOK ==
  /\ file \in Account /\ issued \in 0..MaxTokens
  /\ client \in Tokens /\ listed \in BOOLEAN /\ known \in BOOLEAN
  /\ runtime \in [mode : Modes, static : BOOLEAN, url : BOOLEAN]
  /\ pool \in {"absent", "enabled", "disabled"}
  /\ pc \in [Changers -> PCs]
  /\ after \in [Changers -> {"idle", "enablePool", "collect"}]
  /\ snapshot \in [Changers -> Account]
  /\ request \in [Changers -> Update]

Quiet == \A c \in Changers : pc[c] = "idle"
Live == client # NoToken

(* Whenever no change is under way, a client in the live pool is one its file
   allows, carries the token on file, and takes part in the rotation. *)
LiveMatchesFile ==
  Quiet /\ Live => Eligible(file) /\ client = file.token /\ listed

(* Whenever no change is under way, the routing a request of a live client is
   given (route_mode, has_static_proxy, static_proxy_url) is the one on file. *)
RouteMatchesFile ==
  Quiet /\ Live /\ file.there => known /\ runtime = Cached(file.config)

(* Whenever no change is under way, an account that is enabled and has tokens this
   program obtained is in the live pool: no change loses it. *)
EnabledIsLive == Quiet /\ Eligible(file) /\ file.token # Imported => Live

(* "All clients in pool are available (disabled ones are removed)": whenever no
   change is under way, the proxy pool serves the account of a live client. *)
LiveIsServed == Quiet /\ Live => pool # "disabled"
=============================================================================
