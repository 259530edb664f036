-------------------------- MODULE ClientManagerProofs --------------------------
(* Theorems about LiveAccount, for every set of configurations and updates and every bound
   on the tokens: its types for any number of changers, and for one changer at a time that
   the live pool agrees with the file whenever no change is under way. At the end, about
   SessionAffinity: the flush task brings what the session map holds to sessions.json. *)
EXTENDS LiveAccount, SessionAffinity, FiniteSetTheorems, TLAPS

(* TypeOK, with the update that is about to be written one of those a caller may ask for. *)
Typed ==
  /\ TypeOK
  /\ \A c \in Changers : pc[c] = "writeRoute" => request[c] \in Updates

(* One change at a time, as when the user makes every change. *)
Serial == \E c : Changers = {c}

(* The client is the one the file calls for: in the pool only with an account that is
   allowed there, ... *)
Allowed == Live => Eligible(file) /\ listed
Current == Allowed /\ (Live => client = file.token)
(* ... with the routing on file, ... *)
Routed == Live => known /\ runtime = Cached(file.config)
(* ... and missing only without tokens of this program. *)
Present == Eligible(file) /\ file.token # Imported => Live

Settled == {"idle", "writeRoute", "enablePool"}
Rerouting == {"readRoute", "cacheMode", "cacheStatic", "cacheUrl"}

(* What a change has done to the client by the time it gets to each of its steps. *)
PathInv(c) ==
  /\ pc[c] \in Settled => Current /\ Routed /\ Present
  /\ pc[c] \in Rerouting => Current /\ Present /\ (Live => known)
  /\ pc[c] \in {"cacheMode", "cacheStatic", "cacheUrl", "syncCli", "updateToken", "add",
                "addRuntime", "addClient"} => snapshot[c] = file
  /\ pc[c] \in {"cacheStatic", "cacheUrl"} /\ Live => runtime.mode = file.config.mode
  /\ pc[c] = "cacheUrl" /\ Live => runtime.static = file.config.static
  /\ pc[c] = "drop" => ~Eligible(file)
  /\ pc[c] \in {"unlist", "disablePool", "store"} => ~Live /\ ~Eligible(file)
  /\ pc[c] = "readEnabled" => Current /\ Routed /\ ~file.userDisabled
  /\ pc[c] = "verify" => ~Live /\ file.there /\ file.token = Imported
  /\ pc[c] \in {"readCli", "syncCli", "updateToken"} => Allowed /\ Routed /\ file.there /\ file.token # NoToken
  /\ pc[c] = "updateToken" => Live
  /\ pc[c] = "add" => Current /\ Routed /\ Eligible(file)
  /\ pc[c] \in {"addRuntime", "addClient"} => ~Live /\ Eligible(file)
  /\ pc[c] = "addClient" => known /\ runtime = Cached(file.config)
  /\ pc[c] = "addListed" => Live /\ client = file.token /\ Eligible(file) /\ Routed
  /\ pc[c] \in {"clearRuntime", "readFile"} => ~Live
  /\ pc[c] = "collect" =>
       \/ Live /\ client = file.token /\ Eligible(file) /\ Routed
       \/ ~Live /\ ~Eligible(file)

LiveInv == \A c \in Changers : PathInv(c)

LEMMA Constants ==
  /\ AnyConfig \in Configs
  /\ NoFile \in Account /\ NoFile.there = FALSE /\ NoFile.token = NoToken
  /\ NoUpdate \in Update
  /\ NoToken \in Tokens /\ Imported \in Tokens
<1>1. AnyConfig \in Configs
  BY ConfigsAssumption DEF AnyConfig
<1>2. NoToken \in Tokens /\ Imported \in Tokens
  BY TokensAssumption DEF NoToken, Imported, Tokens
<1> QED
  BY <1>1, <1>2 DEF NoFile, Account, NoUpdate, Update, Modes

Runtime == [mode : Modes, static : BOOLEAN, url : BOOLEAN]

LEMMA FileTypes ==
  ASSUME file \in Account
  PROVE  /\ [file EXCEPT !.disabled = TRUE] \in Account
         /\ \A b \in BOOLEAN : [file EXCEPT !.userDisabled = b] \in Account
         /\ \A k \in Tokens : [file EXCEPT !.token = k] \in Account
         /\ \A k \in Configs : [file EXCEPT !.config = k] \in Account
         /\ file.token \in Tokens /\ file.config \in Configs
BY DEF Account

LEMMA RuntimeTypes ==
  ASSUME runtime \in Runtime, NEW k \in Config
  PROVE  /\ [runtime EXCEPT !["mode"] = k.mode] \in Runtime
         /\ [runtime EXCEPT !["static"] = k.static] \in Runtime
         /\ [runtime EXCEPT !["url"] = k.static] \in Runtime
         /\ Cached(k) \in Runtime
BY DEF Runtime, Cached, Config

LEMMA ApplyTypes ==
  ASSUME file \in Account, NEW u \in Updates
  PROVE  [file EXCEPT !.config = Apply(u, @)] \in Account
BY FileTypes, UpdatesAssumption

LEMMA BeginRouteTyped ==
  ASSUME Typed, NEW c \in Changers, NEW u \in Updates, BeginRoute(c, u)
  PROVE  Typed'
<1>1. u \in Update
  BY UpdatesAssumption
<1> QED
  BY <1>1, Constants DEF BeginRoute, Goto, Typed, TypeOK, PCs, liveVars

LEMMA WriteRouteTyped ==
  ASSUME Typed, NEW c \in Changers, WriteRoute(c)
  PROVE  Typed'
<1>1. file' \in Account
  <2>1. request[c] \in Updates
    BY DEF WriteRoute, Typed
  <2>2. file' = file \/ file' = [file EXCEPT !.config = Apply(request[c], @)]
    BY DEF WriteRoute
  <2> QED
    BY <2>1, <2>2, ApplyTypes DEF Typed, TypeOK
<1>2. /\ pc' \in [Changers -> PCs] /\ after' \in [Changers -> {"idle", "enablePool", "collect"}]
      /\ snapshot' \in [Changers -> Account] /\ request' \in [Changers -> Update]
      /\ \A d \in Changers : pc'[d] = "writeRoute" => request'[d] \in Updates
  BY Constants DEF WriteRoute, Goto, Step, Done, Typed, TypeOK, PCs
<1>3. UNCHANGED <<client, listed, known, runtime, pool>> /\ issued' \in 0..MaxTokens
  BY TokensAssumption DEF WriteRoute, liveVars, Typed, TypeOK
<1> QED
  BY <1>1, <1>2, <1>3 DEF Typed, TypeOK

LEMMA ReadRouteTyped ==
  ASSUME Typed, NEW c \in Changers, ReadRoute(c)
  PROVE  Typed'
BY Constants DEF ReadRoute, Read, Goto, Step, Done, Typed, TypeOK, PCs, liveVars, localVars

LEMMA CacheModeTyped ==
  ASSUME Typed, NEW c \in Changers, CacheMode(c)
  PROVE  Typed'
<1> DEFINE k == snapshot[c].config
<1>1. k \in Config
  BY ConfigsAssumption DEF Typed, TypeOK, Account
<1>2. runtime' = runtime \/ runtime' = [runtime EXCEPT !["mode"] = k.mode]
  BY DEF CacheMode, Cache
<1>3. runtime' \in Runtime
  BY <1>1, <1>2, RuntimeTypes DEF Typed, TypeOK, Runtime
<1> QED
  BY <1>3, Constants DEF CacheMode, Cache, Goto, Step, Done, Typed, TypeOK, PCs, Runtime

LEMMA CacheStaticTyped ==
  ASSUME Typed, NEW c \in Changers, CacheStatic(c)
  PROVE  Typed'
<1> DEFINE k == snapshot[c].config
<1>1. k \in Config
  BY ConfigsAssumption DEF Typed, TypeOK, Account
<1>2. runtime' = runtime \/ runtime' = [runtime EXCEPT !["static"] = k.static]
  BY DEF CacheStatic, Cache
<1>3. runtime' \in Runtime
  BY <1>1, <1>2, RuntimeTypes DEF Typed, TypeOK, Runtime
<1> QED
  BY <1>3, Constants DEF CacheStatic, Cache, Goto, Step, Done, Typed, TypeOK, PCs, Runtime

LEMMA CacheUrlTyped ==
  ASSUME Typed, NEW c \in Changers, CacheUrl(c)
  PROVE  Typed'
<1> DEFINE k == snapshot[c].config
<1>1. k \in Config
  BY ConfigsAssumption DEF Typed, TypeOK, Account
<1>2. runtime' = runtime \/ runtime' = [runtime EXCEPT !["url"] = k.static]
  BY DEF CacheUrl, Cache
<1>3. runtime' \in Runtime
  BY <1>1, <1>2, RuntimeTypes DEF Typed, TypeOK, Runtime
<1> QED
  BY <1>3, Constants DEF CacheUrl, Cache, Goto, Step, Done, Typed, TypeOK, PCs, Runtime

LEMMA SetDisabledTyped ==
  ASSUME Typed, NEW c \in Changers, SetDisabled(c)
  PROVE  Typed'
<1>1. file' \in Account
  BY FileTypes DEF SetDisabled, Typed, TypeOK
<1>2. /\ pc' \in [Changers -> PCs] /\ after' \in [Changers -> {"idle", "enablePool", "collect"}]
      /\ snapshot' \in [Changers -> Account] /\ request' \in [Changers -> Update]
      /\ \A d \in Changers : pc'[d] = "writeRoute" => request'[d] \in Updates
  BY Constants DEF SetDisabled, Goto, Step, Done, Typed, TypeOK, PCs
<1>3. UNCHANGED <<client, listed, known, runtime, pool>> /\ issued' \in 0..MaxTokens
  BY TokensAssumption DEF SetDisabled, liveVars, Typed, TypeOK
<1> QED
  BY <1>1, <1>2, <1>3 DEF Typed, TypeOK

LEMMA SetUserDisabledTyped ==
  ASSUME Typed, NEW c \in Changers, NEW b \in BOOLEAN, SetUserDisabled(c, b)
  PROVE  Typed'
<1>1. file' \in Account
  BY FileTypes DEF SetUserDisabled, Typed, TypeOK
<1>2. /\ pc' \in [Changers -> PCs] /\ after' \in [Changers -> {"idle", "enablePool", "collect"}]
      /\ snapshot' \in [Changers -> Account] /\ request' \in [Changers -> Update]
      /\ \A d \in Changers : pc'[d] = "writeRoute" => request'[d] \in Updates
  BY Constants DEF SetUserDisabled, Goto, Step, Done, Typed, TypeOK, PCs
<1>3. UNCHANGED <<client, listed, known, runtime, pool>> /\ issued' \in 0..MaxTokens
  BY TokensAssumption DEF SetUserDisabled, liveVars, Typed, TypeOK
<1> QED
  BY <1>1, <1>2, <1>3 DEF Typed, TypeOK

LEMMA DeleteTyped ==
  ASSUME Typed, NEW c \in Changers, Delete(c)
  PROVE  Typed'
BY Constants DEF Delete, Goto, Step, Done, Typed, TypeOK, PCs, liveVars, localVars

LEMMA DropTyped ==
  ASSUME Typed, NEW c \in Changers, Drop(c)
  PROVE  Typed'
BY Constants DEF Drop, Goto, Step, Done, Typed, TypeOK, PCs, liveVars, localVars

LEMMA UnlistTyped ==
  ASSUME Typed, NEW c \in Changers, Unlist(c)
  PROVE  Typed'
BY Constants DEF Unlist, Goto, Step, Done, Typed, TypeOK, PCs, liveVars, localVars

LEMMA DisablePoolTyped ==
  ASSUME Typed, NEW c \in Changers, DisablePool(c)
  PROVE  Typed'
BY Constants DEF DisablePool, Goto, Step, Done, Typed, TypeOK, PCs, liveVars, localVars

LEMMA ReadEnabledTyped ==
  ASSUME Typed, NEW c \in Changers, ReadEnabled(c)
  PROVE  Typed'
BY Constants DEF ReadEnabled, Goto, Step, Done, Typed, TypeOK, PCs, liveVars, localVars

LEMMA EnablePoolTyped ==
  ASSUME Typed, NEW c \in Changers, EnablePool(c)
  PROVE  Typed'
BY Constants DEF EnablePool, Goto, Step, Done, Typed, TypeOK, PCs, liveVars, localVars

LEMMA SetCliTyped ==
  ASSUME Typed, NEW c \in Changers, SetCli(c)
  PROVE  Typed'
<1>1. file' \in Account
  <2>1. NewToken \in Tokens
    BY TokensAssumption DEF SetCli, WriteCli, NewToken, Tokens, NoToken, Imported, Typed, TypeOK
  <2>2. file' = [file EXCEPT !.token = NewToken]
    BY DEF SetCli, WriteCli
  <2> QED
    BY <2>1, <2>2, FileTypes DEF Typed, TypeOK
<1>2. /\ pc' \in [Changers -> PCs] /\ after' \in [Changers -> {"idle", "enablePool", "collect"}]
      /\ snapshot' \in [Changers -> Account] /\ request' \in [Changers -> Update]
      /\ \A d \in Changers : pc'[d] = "writeRoute" => request'[d] \in Updates
  BY Constants DEF SetCli, WriteCli, Goto, Step, Done, Typed, TypeOK, PCs
<1>3. UNCHANGED <<client, listed, known, runtime, pool>> /\ issued' \in 0..MaxTokens
  BY TokensAssumption DEF SetCli, WriteCli, liveVars, Typed, TypeOK
<1> QED
  BY <1>1, <1>2, <1>3 DEF Typed, TypeOK

LEMMA ImportTyped ==
  ASSUME Typed, NEW c \in Changers, NEW a \in Account, Import(c, a)
  PROVE  Typed'
BY Constants DEF Import, Goto, Step, Done, Typed, TypeOK, PCs, liveVars, localVars

LEMMA VerifiedTyped ==
  ASSUME Typed, NEW c \in Changers, Verified(c)
  PROVE  Typed'
<1>1. file' \in Account
  <2>1. NewToken \in Tokens
    BY TokensAssumption DEF Verified, WriteCli, NewToken, Tokens, NoToken, Imported, Typed,
      TypeOK
  <2>2. file' = [file EXCEPT !.token = NewToken]
    BY DEF Verified, WriteCli
  <2> QED
    BY <2>1, <2>2, FileTypes DEF Typed, TypeOK
<1>2. /\ pc' \in [Changers -> PCs] /\ after' \in [Changers -> {"idle", "enablePool", "collect"}]
      /\ snapshot' \in [Changers -> Account] /\ request' \in [Changers -> Update]
      /\ \A d \in Changers : pc'[d] = "writeRoute" => request'[d] \in Updates
  BY Constants DEF Verified, WriteCli, Goto, Step, Done, Typed, TypeOK, PCs
<1>3. UNCHANGED <<client, listed, known, runtime, pool>> /\ issued' \in 0..MaxTokens
  BY TokensAssumption DEF Verified, WriteCli, liveVars, Typed, TypeOK
<1> QED
  BY <1>1, <1>2, <1>3 DEF Typed, TypeOK

LEMMA VerifyFailedTyped ==
  ASSUME Typed, NEW c \in Changers, VerifyFailed(c)
  PROVE  Typed'
BY Constants DEF VerifyFailed, Goto, Step, Done, Typed, TypeOK, PCs, liveVars, localVars

LEMMA ReadCliTyped ==
  ASSUME Typed, NEW c \in Changers, ReadCli(c)
  PROVE  Typed'
BY Constants DEF ReadCli, Read, Goto, Step, Done, Typed, TypeOK, PCs, liveVars, localVars

LEMMA SyncCliTyped ==
  ASSUME Typed, NEW c \in Changers, SyncCli(c)
  PROVE  Typed'
BY Constants DEF SyncCli, Goto, Step, Done, Typed, TypeOK, PCs, liveVars, localVars

LEMMA UpdateTokenTyped ==
  ASSUME Typed, NEW c \in Changers, UpdateToken(c)
  PROVE  Typed'
<1>1. client' \in Tokens
  BY FileTypes, Constants DEF UpdateToken, Typed, TypeOK, Account
<1> QED
  BY <1>1, Constants DEF UpdateToken, Goto, Step, Done, Typed, TypeOK, PCs

LEMMA AddTyped ==
  ASSUME Typed, NEW c \in Changers, Add(c)
  PROVE  Typed'
BY Constants DEF Add, Continue, Goto, Step, Done, Typed, TypeOK, PCs, liveVars, localVars

LEMMA AddRuntimeTyped ==
  ASSUME Typed, NEW c \in Changers, AddRuntime(c)
  PROVE  Typed'
<1>1. snapshot[c].config \in Config
  BY ConfigsAssumption DEF Typed, TypeOK, Account
<1>2. runtime' \in Runtime
  BY <1>1, RuntimeTypes DEF AddRuntime, Typed, TypeOK, Runtime
<1> QED
  BY <1>2 DEF AddRuntime, Goto, Step, Typed, TypeOK, PCs, Runtime

LEMMA AddClientTyped ==
  ASSUME Typed, NEW c \in Changers, AddClient(c)
  PROVE  Typed'
<1>1. client' \in Tokens
  BY FileTypes, Constants DEF AddClient, Typed, TypeOK, Account
<1> QED
  BY <1>1, Constants DEF AddClient, Goto, Step, Done, Typed, TypeOK, PCs

LEMMA AddListedTyped ==
  ASSUME Typed, NEW c \in Changers, AddListed(c)
  PROVE  Typed'
BY Constants DEF AddListed, Continue, Goto, Step, Done, Typed, TypeOK, PCs, liveVars, localVars

LEMMA ReloadTyped ==
  ASSUME Typed, NEW c \in Changers, Reload(c)
  PROVE  Typed'
BY Constants DEF Reload, Goto, Step, Done, Typed, TypeOK, PCs, liveVars, localVars

LEMMA ClearRuntimeTyped ==
  ASSUME Typed, NEW c \in Changers, ClearRuntime(c)
  PROVE  Typed'
<1>1. runtime' \in Runtime
  BY ConfigsAssumption, Constants, RuntimeTypes DEF ClearRuntime, Typed, TypeOK, Runtime
<1> QED
  BY <1>1 DEF ClearRuntime, Goto, Step, Typed, TypeOK, PCs, Runtime

LEMMA ReadFileTyped ==
  ASSUME Typed, NEW c \in Changers, ReadFile(c)
  PROVE  Typed'
BY Constants DEF ReadFile, Goto, Step, Done, Typed, TypeOK, PCs, liveVars, localVars

LEMMA CollectTyped ==
  ASSUME Typed, NEW c \in Changers, Collect(c)
  PROVE  Typed'
BY Constants DEF Collect, Goto, Step, Done, Typed, TypeOK, PCs, liveVars, localVars

LEMMA StoreNoneTyped ==
  ASSUME Typed, NEW c \in Changers, StoreNone(c)
  PROVE  Typed'
BY Constants DEF StoreNone, Goto, Step, Done, Typed, TypeOK, PCs, liveVars, localVars

-----------------------------------------------------------------------------
LEMMA OnlyOne ==
  ASSUME Serial, NEW c \in Changers, PathInv(c)'
  PROVE  LiveInv'
BY DEF Serial, LiveInv

LEMMA BeginRouteKept ==
  ASSUME Typed, LiveInv, NEW c \in Changers, NEW u \in Updates, BeginRoute(c, u)
  PROVE  PathInv(c)'
BY Constants, FileTypes DEF BeginRoute, Goto, Step, Done, LiveInv, PathInv, Settled,
  Rerouting, Allowed, Current, Routed, Present, Live, Eligible, Cached, Typed, TypeOK,
  liveVars, localVars

LEMMA WriteRouteKept ==
  ASSUME Typed, LiveInv, NEW c \in Changers, WriteRoute(c)
  PROVE  PathInv(c)'
<1>1. pc[c] = "writeRoute" /\ request[c] \in Updates /\ UNCHANGED <<client, listed, known, runtime>>
  BY DEF WriteRoute, Typed, liveVars
<1>2. CASE file.there
  <2>1. pc'[c] = "readRoute" /\ file' = [file EXCEPT !.config = Apply(request[c], @)]
    BY <1>2 DEF WriteRoute, Step, Goto, Typed, TypeOK
  <2>2. /\ file'.there = file.there /\ file'.disabled = file.disabled /\ file'.token = file.token
        /\ file'.userDisabled = file.userDisabled
    BY <2>1 DEF Typed, TypeOK, Account
  <2> QED
    BY <1>1, <2>1, <2>2 DEF LiveInv, PathInv, Settled, Rerouting, Allowed, Current, Routed,
      Present,
      Live, Eligible
<1>3. CASE ~file.there
  BY <1>1, <1>3, Constants DEF WriteRoute, Goto, Step, Done, LiveInv, PathInv, Settled,
    Rerouting, Allowed,
    Current, Routed, Present, Live, Eligible, Cached, Typed, TypeOK, liveVars, localVars
<1> QED
  BY <1>2, <1>3

LEMMA ReadRouteKept ==
  ASSUME Typed, LiveInv, NEW c \in Changers, ReadRoute(c)
  PROVE  PathInv(c)'
BY Constants, FileTypes DEF ReadRoute, Read, Goto, Step, Done, LiveInv, PathInv, Settled,
  Rerouting, Allowed, Current, Routed, Present, Live, Eligible, Cached, Typed, TypeOK,
  liveVars, localVars

LEMMA CacheModeKept ==
  ASSUME Typed, LiveInv, NEW c \in Changers, CacheMode(c)
  PROVE  PathInv(c)'
BY Constants, FileTypes DEF CacheMode, Cache, Goto, Step, Done, LiveInv, PathInv, Settled,
  Rerouting, Allowed, Current, Routed, Present, Live, Eligible, Cached, Typed, TypeOK,
  liveVars, localVars

LEMMA CacheStaticKept ==
  ASSUME Typed, LiveInv, NEW c \in Changers, CacheStatic(c)
  PROVE  PathInv(c)'
BY Constants, FileTypes DEF CacheStatic, Cache, Goto, Step, Done, LiveInv, PathInv, Settled,
  Rerouting, Allowed, Current, Routed, Present, Live, Eligible, Cached, Typed, TypeOK,
  liveVars, localVars

LEMMA CacheUrlKept ==
  ASSUME Typed, LiveInv, NEW c \in Changers, CacheUrl(c)
  PROVE  PathInv(c)'
BY Constants, FileTypes DEF CacheUrl, Cache, Goto, Step, Done, LiveInv, PathInv, Settled,
  Rerouting, Allowed, Current, Routed, Present, Live, Eligible, Cached, Typed, TypeOK,
  liveVars, localVars

LEMMA SetDisabledKept ==
  ASSUME Typed, LiveInv, NEW c \in Changers, SetDisabled(c)
  PROVE  PathInv(c)'
BY Constants, FileTypes DEF SetDisabled, Goto, Step, Done, LiveInv, PathInv, Settled,
  Rerouting, Allowed, Current, Routed, Present, Live, Eligible, Cached, Typed, TypeOK,
  liveVars, localVars

LEMMA SetUserDisabledKept ==
  ASSUME Typed, LiveInv, NEW c \in Changers, NEW b \in BOOLEAN, SetUserDisabled(c, b)
  PROVE  PathInv(c)'
BY Constants, FileTypes DEF SetUserDisabled, Goto, Step, Done, LiveInv, PathInv, Settled,
  Rerouting, Allowed, Current, Routed, Present, Live, Eligible, Cached, Typed, TypeOK,
  liveVars, localVars

LEMMA DeleteKept ==
  ASSUME Typed, LiveInv, NEW c \in Changers, Delete(c)
  PROVE  PathInv(c)'
BY Constants, FileTypes DEF Delete, Goto, Step, Done, LiveInv, PathInv, Settled, Rerouting,
  Allowed, Current, Routed, Present, Live, Eligible, Cached, Typed, TypeOK, liveVars,
  localVars

LEMMA DropKept ==
  ASSUME Typed, LiveInv, NEW c \in Changers, Drop(c)
  PROVE  PathInv(c)'
BY Constants, FileTypes DEF Drop, Goto, Step, Done, LiveInv, PathInv, Settled, Rerouting,
  Allowed, Current, Routed, Present, Live, Eligible, Cached, Typed, TypeOK, liveVars,
  localVars

LEMMA UnlistKept ==
  ASSUME Typed, LiveInv, NEW c \in Changers, Unlist(c)
  PROVE  PathInv(c)'
BY Constants, FileTypes DEF Unlist, Goto, Step, Done, LiveInv, PathInv, Settled, Rerouting,
  Allowed, Current, Routed, Present, Live, Eligible, Cached, Typed, TypeOK, liveVars,
  localVars

LEMMA DisablePoolKept ==
  ASSUME Typed, LiveInv, NEW c \in Changers, DisablePool(c)
  PROVE  PathInv(c)'
BY Constants, FileTypes DEF DisablePool, Goto, Step, Done, LiveInv, PathInv, Settled,
  Rerouting, Allowed, Current, Routed, Present, Live, Eligible, Cached, Typed, TypeOK,
  liveVars, localVars

LEMMA ReadEnabledKept ==
  ASSUME Typed, LiveInv, NEW c \in Changers, ReadEnabled(c)
  PROVE  PathInv(c)'
BY Constants, FileTypes DEF ReadEnabled, Goto, Step, Done, LiveInv, PathInv, Settled,
  Rerouting, Allowed, Current, Routed, Present, Live, Eligible, Cached, Typed, TypeOK,
  liveVars, localVars

LEMMA EnablePoolKept ==
  ASSUME Typed, LiveInv, NEW c \in Changers, EnablePool(c)
  PROVE  PathInv(c)'
BY Constants, FileTypes DEF EnablePool, Goto, Step, Done, LiveInv, PathInv, Settled,
  Rerouting, Allowed, Current, Routed, Present, Live, Eligible, Cached, Typed, TypeOK,
  liveVars, localVars

LEMMA SetCliKept ==
  ASSUME Typed, LiveInv, NEW c \in Changers, SetCli(c)
  PROVE  PathInv(c)'
<1>1. UNCHANGED <<client, listed, known, runtime>> /\ file.there /\ pc[c] = "idle"
  BY DEF SetCli, WriteCli, liveVars
<1>2. pc'[c] = "readCli" /\ file' = [file EXCEPT !.token = NewToken]
  BY DEF SetCli, WriteCli, Step, Goto, Typed, TypeOK
<1>3. /\ file'.there = file.there /\ file'.disabled = file.disabled /\ file'.token = NewToken
      /\ file'.userDisabled = file.userDisabled /\ file'.config = file.config
  BY <1>2 DEF Typed, TypeOK, Account
<1>4. NewToken # NoToken
  BY DEF NewToken, Imported, NoToken, Typed, TypeOK
<1> QED
  BY <1>1, <1>2, <1>3, <1>4 DEF LiveInv, PathInv, Settled, Rerouting, Allowed, Current,
    Routed, Present,
    Live, Eligible

LEMMA ImportKept ==
  ASSUME Typed, LiveInv, NEW c \in Changers, NEW a \in Account, Import(c, a)
  PROVE  PathInv(c)'
BY Constants, FileTypes DEF Import, Goto, Step, Done, LiveInv, PathInv, Settled, Rerouting,
  Allowed, Current, Routed, Present, Live, Eligible, Cached, Typed, TypeOK, liveVars,
  localVars

LEMMA VerifiedKept ==
  ASSUME Typed, LiveInv, NEW c \in Changers, Verified(c)
  PROVE  PathInv(c)'
<1>1. UNCHANGED <<client, listed, known, runtime>> /\ file.there /\ pc[c] = "verify"
  BY DEF Verified, WriteCli, liveVars
<1>2. pc'[c] = "readCli" /\ file' = [file EXCEPT !.token = NewToken]
  BY DEF Verified, WriteCli, Step, Goto, Typed, TypeOK
<1>3. /\ file'.there = file.there /\ file'.disabled = file.disabled /\ file'.token = NewToken
      /\ file'.userDisabled = file.userDisabled /\ file'.config = file.config
  BY <1>2 DEF Typed, TypeOK, Account
<1>4. NewToken # NoToken
  BY DEF NewToken, Imported, NoToken, Typed, TypeOK
<1> QED
  BY <1>1, <1>2, <1>3, <1>4 DEF LiveInv, PathInv, Settled, Rerouting, Allowed, Current,
    Routed, Present,
    Live, Eligible

LEMMA VerifyFailedKept ==
  ASSUME Typed, LiveInv, NEW c \in Changers, VerifyFailed(c)
  PROVE  PathInv(c)'
BY Constants, FileTypes DEF VerifyFailed, Goto, Step, Done, LiveInv, PathInv, Settled,
  Rerouting, Allowed, Current, Routed, Present, Live, Eligible, Cached, Typed, TypeOK,
  liveVars, localVars

LEMMA ReadCliKept ==
  ASSUME Typed, LiveInv, NEW c \in Changers, ReadCli(c)
  PROVE  PathInv(c)'
BY Constants, FileTypes DEF ReadCli, Read, Goto, Step, Done, LiveInv, PathInv, Settled,
  Rerouting, Allowed, Current, Routed, Present, Live, Eligible, Cached, Typed, TypeOK,
  liveVars, localVars

LEMMA SyncCliKept ==
  ASSUME Typed, LiveInv, NEW c \in Changers, SyncCli(c)
  PROVE  PathInv(c)'
BY Constants, FileTypes DEF SyncCli, Goto, Step, Done, LiveInv, PathInv, Settled, Rerouting,
  Allowed, Current, Routed, Present, Live, Eligible, Cached, Typed, TypeOK, liveVars,
  localVars

LEMMA UpdateTokenKept ==
  ASSUME Typed, LiveInv, NEW c \in Changers, UpdateToken(c)
  PROVE  PathInv(c)'
BY Constants, FileTypes DEF UpdateToken, Goto, Step, Done, LiveInv, PathInv, Settled,
  Rerouting, Allowed, Current, Routed, Present, Live, Eligible, Cached, Typed, TypeOK,
  liveVars, localVars

LEMMA AddKept ==
  ASSUME Typed, LiveInv, NEW c \in Changers, Add(c)
  PROVE  PathInv(c)'
BY Constants, FileTypes DEF Add, Continue, Goto, Step, Done, LiveInv, PathInv, Settled,
  Rerouting, Allowed, Current, Routed, Present, Live, Eligible, Cached, Typed, TypeOK,
  liveVars, localVars

LEMMA AddRuntimeKept ==
  ASSUME Typed, LiveInv, NEW c \in Changers, AddRuntime(c)
  PROVE  PathInv(c)'
BY Constants, FileTypes DEF AddRuntime, Goto, Step, Done, LiveInv, PathInv, Settled,
  Rerouting, Allowed, Current, Routed, Present, Live, Eligible, Cached, Typed, TypeOK,
  liveVars, localVars

LEMMA AddClientKept ==
  ASSUME Typed, LiveInv, NEW c \in Changers, AddClient(c)
  PROVE  PathInv(c)'
BY Constants, FileTypes DEF AddClient, Goto, Step, Done, LiveInv, PathInv, Settled, Rerouting,
  Allowed, Current, Routed, Present, Live, Eligible, Cached, Typed, TypeOK, liveVars,
  localVars

LEMMA AddListedKept ==
  ASSUME Typed, LiveInv, NEW c \in Changers, AddListed(c)
  PROVE  PathInv(c)'
BY Constants, FileTypes DEF AddListed, Continue, Goto, Step, Done, LiveInv, PathInv, Settled,
  Rerouting, Allowed, Current, Routed, Present, Live, Eligible, Cached, Typed, TypeOK,
  liveVars, localVars

LEMMA ReloadKept ==
  ASSUME Typed, LiveInv, NEW c \in Changers, Reload(c)
  PROVE  PathInv(c)'
BY Constants, FileTypes DEF Reload, Goto, Step, Done, LiveInv, PathInv, Settled, Rerouting,
  Allowed, Current, Routed, Present, Live, Eligible, Cached, Typed, TypeOK, liveVars,
  localVars

LEMMA ClearRuntimeKept ==
  ASSUME Typed, LiveInv, NEW c \in Changers, ClearRuntime(c)
  PROVE  PathInv(c)'
BY Constants, FileTypes DEF ClearRuntime, Goto, Step, Done, LiveInv, PathInv, Settled,
  Rerouting, Allowed, Current, Routed, Present, Live, Eligible, Cached, Typed, TypeOK,
  liveVars, localVars

LEMMA ReadFileKept ==
  ASSUME Typed, LiveInv, NEW c \in Changers, ReadFile(c)
  PROVE  PathInv(c)'
BY Constants, FileTypes DEF ReadFile, Goto, Step, Done, LiveInv, PathInv, Settled, Rerouting,
  Allowed, Current, Routed, Present, Live, Eligible, Cached, Typed, TypeOK, liveVars,
  localVars

LEMMA CollectKept ==
  ASSUME Typed, LiveInv, NEW c \in Changers, Collect(c)
  PROVE  PathInv(c)'
BY Constants, FileTypes DEF Collect, Goto, Step, Done, LiveInv, PathInv, Settled, Rerouting,
  Allowed, Current, Routed, Present, Live, Eligible, Cached, Typed, TypeOK, liveVars,
  localVars

LEMMA StoreNoneKept ==
  ASSUME Typed, LiveInv, NEW c \in Changers, StoreNone(c)
  PROVE  PathInv(c)'
BY Constants, FileTypes DEF StoreNone, Goto, Step, Done, LiveInv, PathInv, Settled, Rerouting,
  Allowed, Current, Routed, Present, Live, Eligible, Cached, Typed, TypeOK, liveVars,
  localVars

-----------------------------------------------------------------------------
LEMMA InitTyped == Init => Typed
<1> SUFFICES ASSUME Init
             PROVE  Typed
  OBVIOUS
<1>1. file \in Account
  BY DEF Init
<1>2. client \in Tokens
  BY <1>1, Constants, FileTypes DEF Init
<1>3. runtime \in Runtime
  <2>1. AnyConfig \in Config /\ file.config \in Config
    BY <1>1, FileTypes, Constants, ConfigsAssumption
  <2> QED
    BY <2>1 DEF Init, Cached, Runtime, Config
<1>4. listed \in BOOLEAN /\ known \in BOOLEAN
  BY <1>1 DEF Init, Eligible, Account
<1> QED
  BY <1>1, <1>2, <1>3, <1>4, Constants, TokensAssumption DEF Init, Typed, TypeOK, Runtime, PCs

LEMMA InitLive == Init => LiveInv
<1> SUFFICES ASSUME Init, NEW c \in Changers
             PROVE  PathInv(c)
  BY DEF LiveInv
<1>1. pc[c] = "idle"
  BY DEF Init
<1>2. Current /\ Routed /\ Present
  BY DEF Init, Current, Allowed, Routed, Present, Live, Eligible, NoToken, Imported
<1> QED
  BY <1>1, <1>2 DEF PathInv, Settled, Rerouting

LEMMA TypedStep ==
  ASSUME Typed, [Next]_vars
  PROVE  Typed'
<1>1. ASSUME NEW c \in Changers, ChangeRoute(c)
      PROVE  Typed'
  BY <1>1, BeginRouteTyped, WriteRouteTyped, ReadRouteTyped, CacheModeTyped, CacheStaticTyped,
    CacheUrlTyped DEF ChangeRoute
<1>2. ASSUME NEW c \in Changers, ChangeStatus(c)
      PROVE  Typed'
  BY <1>2, SetDisabledTyped, SetUserDisabledTyped, DeleteTyped, DropTyped, UnlistTyped,
    DisablePoolTyped, ReadEnabledTyped, EnablePoolTyped DEF ChangeStatus
<1>3. ASSUME NEW c \in Changers, ChangeCli(c)
      PROVE  Typed'
  BY <1>3, SetCliTyped, ImportTyped, VerifiedTyped, VerifyFailedTyped, ReadCliTyped,
    SyncCliTyped,
    UpdateTokenTyped DEF ChangeCli
<1>4. ASSUME NEW c \in Changers, AddOrLoad(c)
      PROVE  Typed'
  BY <1>4, AddTyped, AddRuntimeTyped, AddClientTyped, AddListedTyped, ReloadTyped,
    ClearRuntimeTyped,
    ReadFileTyped, CollectTyped, StoreNoneTyped DEF AddOrLoad
<1>5. CASE EnsurePool \/ UNCHANGED vars
  BY <1>5 DEF EnsurePool, vars, liveVars, localVars, Typed, TypeOK
<1> QED
  BY <1>1, <1>2, <1>3, <1>4, <1>5 DEF Next

LEMMA LiveStep ==
  ASSUME Typed, LiveInv, Serial, [Next]_vars
  PROVE  LiveInv'
<1>1. ASSUME NEW c \in Changers, ChangeRoute(c)
      PROVE  LiveInv'
  BY <1>1, OnlyOne, BeginRouteKept, WriteRouteKept, ReadRouteKept, CacheModeKept,
    CacheStaticKept,
    CacheUrlKept DEF ChangeRoute
<1>2. ASSUME NEW c \in Changers, ChangeStatus(c)
      PROVE  LiveInv'
  BY <1>2, OnlyOne, SetDisabledKept, SetUserDisabledKept, DeleteKept, DropKept, UnlistKept,
    DisablePoolKept, ReadEnabledKept, EnablePoolKept DEF ChangeStatus
<1>3. ASSUME NEW c \in Changers, ChangeCli(c)
      PROVE  LiveInv'
  BY <1>3, OnlyOne, SetCliKept, ImportKept, VerifiedKept, VerifyFailedKept, ReadCliKept,
    SyncCliKept,
    UpdateTokenKept DEF ChangeCli
<1>4. ASSUME NEW c \in Changers, AddOrLoad(c)
      PROVE  LiveInv'
  BY <1>4, OnlyOne, AddKept, AddRuntimeKept, AddClientKept, AddListedKept, ReloadKept,
    ClearRuntimeKept, ReadFileKept, CollectKept, StoreNoneKept DEF AddOrLoad
<1>5. CASE EnsurePool \/ UNCHANGED vars
  BY <1>5 DEF EnsurePool, vars, liveVars, localVars, LiveInv, PathInv, Allowed, Current, Routed,
    Present, Live, Eligible
<1> QED
  BY <1>1, <1>2, <1>3, <1>4, <1>5 DEF Next

(* Whatever callers ask for and however changes interleave, the file and the caches hold
   values the program can store: the mode on file is one of the four. *)
THEOREM LiveTyped == Spec => []TypeOK
<1>1. Typed => TypeOK
  BY DEF Typed
<1> QED
  BY <1>1, InitTyped, TypedStep, PTL DEF Spec

LEMMA LiveInvariant ==
  ASSUME Serial
  PROVE  Spec => [](Typed /\ LiveInv)
BY InitTyped, InitLive, TypedStep, LiveStep, PTL DEF Spec

LEMMA QuietSettled ==
  ASSUME LiveInv, Serial, Quiet
  PROVE  Current /\ Routed /\ Present
BY DEF LiveInv, Serial, Quiet, PathInv, Settled

(* Changes one at a time: whenever none is under way, a client in the live pool is one its
   file allows, with the token on file and a place in the rotation, through disables,
   deletes, imports, logins and restarts of the gateway (client_manager.rs, load_clients,
   add_client, disable_client). *)
THEOREM LiveAlwaysMatches ==
  ASSUME Serial
  PROVE  Spec => []LiveMatchesFile
<1>1. LiveInv => LiveMatchesFile
  BY QuietSettled DEF Current, Allowed, LiveMatchesFile
<1> QED
  BY <1>1, LiveInvariant, PTL

(* Changes one at a time: whenever none is under way, a live client's requests are routed
   as its file says, although four cached fields are set in separate steps. *)
THEOREM RouteAlwaysMatches ==
  ASSUME Serial
  PROVE  Spec => []RouteMatchesFile
<1>1. LiveInv => RouteMatchesFile
  BY QuietSettled DEF Routed, RouteMatchesFile
<1> QED
  BY <1>1, LiveInvariant, PTL

(* Changes one at a time: no sequence of them leaves an enabled account that has tokens of
   this program out of the live pool. *)
THEOREM EnabledStaysLive ==
  ASSUME Serial
  PROVE  Spec => []EnabledIsLive
<1>1. LiveInv => EnabledIsLive
  BY QuietSettled DEF Present, EnabledIsLive
<1> QED
  BY <1>1, LiveInvariant, PTL

-----------------------------------------------------------------------------
(* The session map and sessions.json, whose clients come and go with the accounts. *)
(* One flush task, whose pauses outlast what was running when they began. *)
OneFlusher(f) == Flushers = {f} /\ Brief /\ Sessions # {}

(* Where each actor may stand; a flush writes when it has collected every session. *)
Positions ==
  /\ \A q \in Pickers :
       place[q] \in {"idle", "check", "forget", "reschedule", "rotate", "record", "schedule"}
  /\ place[Router] \in {"idle", "count", "retain", "compare"}
  /\ place[Loader] \in {"idle", "load", "count", "retain", "compare"}
  /\ \A f \in Flushers : task[f] = "write" => todo[f] = {}

AffinityTyped == AffinityTypeOK /\ Positions

LEMMA LocalFields ==
  ASSUME NEW l \in Local
  PROVE  /\ l.sid \in Sessions /\ l.aid \in Accounts \cup {Nobody} /\ l.len \in Nat
         /\ l.valid \in SUBSET Accounts
BY DEF Local

LEMMA NoLocalTyped ==
  ASSUME Sessions # {}
  PROVE  NoLocal \in Local
BY DEF NoLocal, Local

LEMMA EntryFields ==
  ASSUME NEW e \in Entry \cup {None}
  PROVE  e.aid \in Accounts \cup {Nobody} /\ e.stale \in BOOLEAN
<1>1. CASE e \in Entry
  BY <1>1 DEF Entry
<1>2. CASE e = None
  BY <1>2 DEF None
<1> QED
  BY <1>1, <1>2

LEMMA NoneKept ==
  ASSUME NEW e, e = None
  PROVE  [e EXCEPT !.stale = FALSE] = None /\ e.stale = FALSE
<1> DEFINE d == [e EXCEPT !.stale = FALSE]
           R == [aid : {Nobody}, stale : BOOLEAN]
<1>1. /\ None \in R /\ e \in R
      /\ None.aid = Nobody /\ None.stale = FALSE
  BY DEF None
<1>2. d \in R /\ d.aid = Nobody /\ d.stale = FALSE
  BY <1>1
<1> HIDE DEF d
<1>3. d = None
  BY <1>1, <1>2
<1> QED
  BY <1>1, <1>3 DEF d

LEMMA MappingTyped ==
  ASSUME NEW a \in Accounts \cup {Nobody}
  PROVE  Mapping(a) \in Entry \cup {None}
BY DEF Entry, None, Mapping

LEMMA FreshTyped ==
  ASSUME NEW m \in [Sessions -> Entry \cup {None}]
  PROVE  Fresh(m) \in [Sessions -> Entry \cup {None}]
BY DEF Fresh

(* The number of mappings, and what becomes of it. *)
Size(m) == Cardinality({s \in Sessions : m[s] # None})

LEMMA SizeFacts ==
  ASSUME IsFiniteSet(Sessions)
  PROVE  /\ \A m : Size(m) \in Nat
         /\ \A m, n : (\A s \in Sessions : n[s] # m[s] => n[s] = None)
              => Size(n) <= Size(m)
         /\ \A m, n, s : /\ \A t \in Sessions : n[t] # m[t] => n[t] = None
                         /\ s \in Sessions /\ n[s] # m[s]
              => Size(n) < Size(m)
<1> DEFINE Set(m) == {s \in Sessions : m[s] # None}
<1>1. \A m : Set(m) \subseteq Sessions /\ IsFiniteSet(Set(m)) /\ Cardinality(Set(m)) \in Nat
  BY FS_Subset, FS_CardinalityType
<1>2. \A m : Size(m) = Cardinality(Set(m))
  BY DEF Size
<1>3. ASSUME NEW m, NEW n, \A t \in Sessions : n[t] # m[t] => n[t] = None
      PROVE  Set(n) \subseteq Set(m)
  BY <1>3
<1>4. ASSUME NEW m, NEW n, NEW s \in Sessions, n[s] # m[s],
             \A t \in Sessions : n[t] # m[t] => n[t] = None
      PROVE  Set(n) # Set(m)
  <2>1. s \notin Set(n) /\ s \in Set(m)
    BY <1>4
  <2> QED
    BY <2>1
<1> HIDE DEF Set
<1>5. \A m, n : Set(n) \subseteq Set(m) => Cardinality(Set(n)) <= Cardinality(Set(m))
        /\ (Cardinality(Set(m)) = Cardinality(Set(n)) => Set(m) = Set(n))
  BY <1>1, FS_Subset
<1> QED
  BY <1>1, <1>2, <1>3, <1>4, <1>5


LEMMA PausesTyped ==
  ASSUME AffinityTypeOK, Pauses
  PROVE  ahead' \in [Flushers -> SUBSET (Actors \cup Flushers)]
<1>1. Running' \subseteq Actors \cup Flushers
  BY DEF Running, Actors
<1>2. ahead \in [Flushers -> SUBSET (Actors \cup Flushers)]
  BY DEF AffinityTypeOK
<1> QED
  BY <1>1, <1>2 DEF Pauses

LEMMA GotoTyped ==
  ASSUME AffinityTypeOK, Positions, NEW p \in Actors,
         NEW l \in {"idle", "check", "forget", "reschedule", "rotate", "record", "schedule",
                    "count", "retain", "compare", "load"},
         Move(p, l), Router # Loader, {Router, Loader} \cap Pickers = {},
         UNCHANGED <<task, todo>>,
         p \in Pickers => l \notin {"count", "retain", "compare", "load"},
         p = Router => l \in {"idle", "count", "retain", "compare"},
         p = Loader => l \in {"idle", "load", "count", "retain", "compare"}
  PROVE  /\ place' \in [Actors -> {"idle", "check", "forget", "reschedule", "rotate",
                     "record", "schedule", "count", "retain", "compare", "load"}]
         /\ Positions'
BY DEF AffinityTypeOK, Move, Positions, Actors

LEMMA ScheduleTyped ==
  ASSUME AffinityTypeOK, Positions, Schedule
  PROVE  /\ permit' \in BOOLEAN /\ UNCHANGED <<todo, records, failed>>
         /\ task' \in [Flushers -> {"off", "wait", "sleep", "collect", "write"}]
         /\ \A f \in Flushers : task'[f] = "write" => todo'[f] = {}
BY DEF AffinityTypeOK, Schedule, Pause, Positions

LEMMA AwaitTyped ==
  ASSUME AffinityTypeOK, NEW f \in Flushers, Await(f, task)
  PROVE  /\ permit' \in BOOLEAN
         /\ task' \in [Flushers -> {"off", "wait", "sleep", "collect", "write"}]
         /\ \A g \in Flushers : task'[g] = "write" => task[g] = "write"
BY DEF AffinityTypeOK, Await

(* The steps of the flush task. *)
LEMMA FlushTyped ==
  ASSUME AffinityTyped, NEW f \in Flushers, StartTask(f) \/ Flush(f)
  PROVE  AffinityTyped'
<1> USE DEF AffinityTyped, Rest, mapVars, actorVars
<1>1. CASE StartTask(f)
  BY <1>1, AwaitTyped, PausesTyped DEF AffinityTypeOK, Positions, StartTask
<1>2. CASE Wake(f)
  BY <1>2, PausesTyped DEF AffinityTypeOK, Positions, Wake
<1>3. ASSUME NEW s \in Sessions, CollectSession(f, s)
      PROVE  AffinityTyped'
  BY <1>3, PausesTyped, FreshTyped DEF AffinityTypeOK, Positions, CollectSession
<1>4. CASE Write(f)
  <2> DEFINE Blank == [s \in Sessions |-> None]
  <2>1. records' = [records EXCEPT ![f] = Blank]
    BY <1>4 DEF Write
  <2>2. Blank \in [Sessions -> Entry \cup {None}]
    OBVIOUS
  <2> HIDE DEF Blank
  <2>3. records' \in [Flushers -> [Sessions -> Entry \cup {None}]]
    BY <2>1, <2>2 DEF AffinityTypeOK
  <2>4. /\ sessionsFile' = records[f] \/ UNCHANGED sessionsFile
        /\ failed' = FALSE \/ failed' = TRUE
    BY <1>4 DEF Write
  <2>5. sessionsFile' \in [Sessions -> Entry \cup {None}] /\ failed' \in BOOLEAN
    BY <2>4 DEF AffinityTypeOK
  <2> QED
    BY <1>4, <2>3, <2>5, AwaitTyped, PausesTyped DEF AffinityTypeOK, Positions, Write
<1> QED
  BY <1>1, <1>2, <1>3, <1>4 DEF Flush

(* The steps of a request that selects a client. *)
LEMMA PickTyped ==
  ASSUME AffinityTyped, NEW f, OneFlusher(f), NEW p \in Pickers,
         Pick(p) \/ \E s \in Sessions : Look(p, s)
  PROVE  AffinityTyped'
<1> USE DEF AffinityTyped, Rest, mapVars, taskVars, Advance,
            Finish
<1>1. p \in Actors /\ Router # Loader /\ {Router, Loader} \cap Pickers = {}
        /\ p # Router /\ p # Loader
  BY ActorsAssumption, SessionsAssumption DEF OneFlusher, Actors
<1>2. /\ local[p] \in Local /\ NoLocal \in Local
      /\ local[p].sid \in Sessions /\ local[p].aid \in Accounts \cup {Nobody}
  BY ActorsAssumption, SessionsAssumption, <1>1, NoLocalTyped, LocalFields DEF OneFlusher,
    AffinityTypeOK
<1>3. ASSUME NEW s \in Sessions, Look(p, s)
      PROVE  AffinityTyped'
  <2>1. map[s].aid \in Accounts \cup {Nobody}
    BY EntryFields DEF AffinityTypeOK
  <2>2. local' \in [Actors -> Local]
    BY <1>1, <1>2, <1>3, <2>1 DEF Look, AffinityTypeOK, Local
  <2>3. /\ place' \in [Actors -> {"idle", "check", "forget", "reschedule", "rotate",
                      "record", "schedule", "count", "retain", "compare", "load"}]
        /\ Positions'
    BY <1>1, <1>3, GotoTyped DEF Look
  <2> QED
    BY <1>3, <2>2, <2>3, PausesTyped DEF Look, AffinityTypeOK
<1>4. CASE Check(p)
  BY <1>1, <1>4, GotoTyped, PausesTyped DEF Check, AffinityTypeOK
<1>5. CASE Forget(p)
  <2>1. local' \in [Actors -> Local]
    BY <1>1, <1>2, <1>5 DEF Forget, AffinityTypeOK, Local
  <2>2. map' \in [Sessions -> Entry \cup {None}]
    BY <1>5 DEF Forget, AffinityTypeOK
  <2>3. /\ place' \in [Actors -> {"idle", "check", "forget", "reschedule", "rotate",
                      "record", "schedule", "count", "retain", "compare", "load"}]
        /\ Positions'
    BY <1>1, <1>5, GotoTyped DEF Forget
  <2> QED
    BY <1>5, <2>1, <2>2, <2>3, PausesTyped DEF Forget, AffinityTypeOK
<1>6. CASE Rotate(p)
  <2>1. local' \in [Actors -> Local]
    <3>1. ASSUME NEW a \in Accounts, local' = [local EXCEPT ![p].aid = a]
          PROVE  local' \in [Actors -> Local]
      BY <1>1, <1>2, <3>1 DEF AffinityTypeOK, Local
    <3>2. ASSUME Finish(p)
          PROVE  local' \in [Actors -> Local]
      BY <1>1, <1>2, <3>2 DEF AffinityTypeOK
    <3> QED
      BY <1>6, <3>1, <3>2 DEF Rotate, AffinityTypeOK
  <2>2. /\ place' \in [Actors -> {"idle", "check", "forget", "reschedule", "rotate",
                      "record", "schedule", "count", "retain", "compare", "load"}]
        /\ Positions'
    BY <1>1, <1>6, GotoTyped DEF Rotate
  <2> QED
    BY <1>6, <2>1, <2>2, PausesTyped DEF Rotate, AffinityTypeOK
<1>7. CASE Record(p)
  <2>1. map' \in [Sessions -> Entry \cup {None}]
    BY <1>2, <1>7, MappingTyped DEF Record, AffinityTypeOK
  <2>2. /\ place' \in [Actors -> {"idle", "check", "forget", "reschedule", "rotate",
                      "record", "schedule", "count", "retain", "compare", "load"}]
        /\ Positions'
    BY <1>1, <1>7, GotoTyped DEF Record
  <2> QED
    BY <1>7, <2>1, <2>2, PausesTyped DEF Record, AffinityTypeOK
<1>8. CASE Reschedule(p) \/ ScheduleRecord(p)
  <2>1. Schedule /\ Rest(<<map, sessionsFile, enabled, clients, serving>>)
    BY <1>8 DEF Reschedule, ScheduleRecord
  <2>2. local' \in [Actors -> Local]
    BY <1>1, <1>2, <1>8 DEF Reschedule, ScheduleRecord, AffinityTypeOK
  <2>3. /\ place' \in [Actors -> {"idle", "check", "forget", "reschedule", "rotate",
                      "record", "schedule", "count", "retain", "compare", "load"}]
        /\ \A q \in Actors : place'[q] = IF q = p THEN place'[p] ELSE place[q]
        /\ place'[p] \in {"rotate", "idle"}
    BY <1>1, <1>8 DEF Reschedule, ScheduleRecord, Move,
      AffinityTypeOK
  <2> QED
    BY <1>1, <2>1, <2>2, <2>3, ScheduleTyped, PausesTyped DEF AffinityTypeOK, Positions,
      Actors
<1> QED
  BY <1>3, <1>4, <1>5, <1>6, <1>7, <1>8 DEF Pick

(* The steps of the clean-ups. *)
LEMMA CompareTyped ==
  ASSUME AffinityTyped, NEW f, OneFlusher(f), NEW p \in {Router, Loader}, Compare(p),
         UNCHANGED serving \/ serving' \in BOOLEAN
  PROVE  AffinityTyped'
<1> USE DEF AffinityTyped, Rest, mapVars, taskVars, Finish
<1>1. p \in Actors /\ NoLocal \in Local
  BY ActorsAssumption, SessionsAssumption, NoLocalTyped DEF OneFlusher, Actors
<1>2. /\ permit' \in BOOLEAN /\ UNCHANGED <<todo, records, failed>>
      /\ task' \in [Flushers -> {"off", "wait", "sleep", "collect", "write"}]
      /\ \A g \in Flushers : task'[g] = "write" => todo'[g] = {}
  BY ScheduleTyped DEF Compare, AffinityTypeOK, Positions
<1>3. local' \in [Actors -> Local]
  BY <1>1 DEF Compare, AffinityTypeOK
<1>4. /\ place' \in [Actors -> {"idle", "check", "forget", "reschedule", "rotate",
                    "record", "schedule", "count", "retain", "compare", "load"}]
      /\ \A q \in Actors : place'[q] = IF q = p THEN "idle" ELSE place[q]
  BY <1>1 DEF Compare, Move, AffinityTypeOK
<1>5. Positions'
  BY <1>2, <1>4 DEF Positions, Actors
<1> QED
  BY <1>2, <1>3, <1>4, <1>5, PausesTyped DEF AffinityTypeOK, Compare

LEMMA KeepTyped ==
  ASSUME AffinityTypeOK, NEW aids, Keep(aids)
  PROVE  map' \in [Sessions -> Entry \cup {None}]
BY DEF Keep, AffinityTypeOK

LEMMA CountTyped ==
  ASSUME NEW f, OneFlusher(f)
  PROVE  Count \in Nat /\ Count = Size(map)
<1>1. Count = Size(map)
  BY Zenon DEF Count, Size, Cardinality, Cardinality
<1> QED
  BY ActorsAssumption, SessionsAssumption, <1>1, SizeFacts DEF OneFlusher

LEMMA RouteTyped ==
  ASSUME AffinityTyped, NEW f, OneFlusher(f),
         Route \/ \E a \in Accounts : Disable(a) \/ Enable(a)
  PROVE  AffinityTyped'
<1> USE DEF AffinityTyped, Rest, mapVars, taskVars,
            actorVars
<1>1. Router \in Actors /\ Router # Loader /\ {Router, Loader} \cap Pickers = {}
  BY ActorsAssumption, SessionsAssumption DEF OneFlusher, Actors
<1>2. ASSUME NEW a \in Accounts, Disable(a)
      PROVE  AffinityTyped'
  <2>1. local' \in [Actors -> Local]
    BY SMTT(60), <1>1, <1>2 DEF Disable, AffinityTypeOK, Local
  <2>2. /\ place' \in [Actors -> {"idle", "check", "forget", "reschedule", "rotate",
                      "record", "schedule", "count", "retain", "compare", "load"}]
        /\ Positions'
    BY <1>1, <1>2, GotoTyped DEF Disable
  <2> QED
    BY <1>2, <2>1, <2>2, PausesTyped DEF Disable, AffinityTypeOK
<1>3. ASSUME NEW a \in Accounts, Enable(a)
      PROVE  AffinityTyped'
  BY <1>3, PausesTyped DEF Enable, AffinityTypeOK, Positions
<1>4. CASE CountSessions
  <2>1. local' \in [Actors -> Local]
    BY ZenonT(60), <1>1, <1>4, CountTyped DEF CountSessions, AffinityTypeOK, Local
  <2>2. /\ place' \in [Actors -> {"idle", "check", "forget", "reschedule", "rotate",
                      "record", "schedule", "count", "retain", "compare", "load"}]
        /\ Positions'
    BY <1>1, <1>4, GotoTyped DEF CountSessions
  <2> QED
    BY <1>4, <2>1, <2>2, PausesTyped DEF CountSessions, AffinityTypeOK
<1>5. CASE Retain
  <2>1. local' \in [Actors -> Local]
    <3>1. local' = [local EXCEPT ![Router].aid = Nobody]
      BY <1>5 DEF Retain
    <3>2. local \in [Actors -> Local] /\ Router \in Actors
      BY <1>1 DEF AffinityTypeOK
    <3>3. [local[Router] EXCEPT !.aid = Nobody] \in Local
      BY <3>2 DEF Local
    <3> QED
      BY <3>1, <3>2, <3>3
  <2>2. /\ place' \in [Actors -> {"idle", "check", "forget", "reschedule", "rotate",
                      "record", "schedule", "count", "retain", "compare", "load"}]
        /\ Positions'
    BY <1>1, <1>5, GotoTyped DEF Retain
  <2>3. map' \in [Sessions -> Entry \cup {None}]
    BY <1>5, KeepTyped DEF Retain
  <2> QED
    BY <1>5, <2>1, <2>2, <2>3, PausesTyped DEF Retain, AffinityTypeOK
<1>6. CASE CompareRouter
  BY <1>6, CompareTyped DEF CompareRouter
<1> QED
  BY <1>2, <1>3, <1>4, <1>5, <1>6 DEF Route

LEMMA LoadTyped ==
  ASSUME AffinityTyped, NEW f, OneFlusher(f), Load \/ ClearClients
  PROVE  AffinityTyped'
<1> USE DEF AffinityTyped, Rest, mapVars, taskVars,
            actorVars, Advance
<1>1. Loader \in Actors /\ Router # Loader /\ {Router, Loader} \cap Pickers = {}
  BY ActorsAssumption, SessionsAssumption DEF OneFlusher, Actors
<1>2. CASE ClearClients
  <2>1. /\ place' \in [Actors -> {"idle", "check", "forget", "reschedule", "rotate",
                      "record", "schedule", "count", "retain", "compare", "load"}]
        /\ Positions'
    BY <1>1, <1>2, GotoTyped DEF ClearClients
  <2> QED
    BY <1>2, <2>1, PausesTyped DEF ClearClients, AffinityTypeOK
<1>3. CASE LoadFiles
  <2>1. /\ place' \in [Actors -> {"idle", "check", "forget", "reschedule", "rotate",
                      "record", "schedule", "count", "retain", "compare", "load"}]
        /\ Positions'
    BY <1>1, <1>3, GotoTyped DEF LoadFiles
  <2> QED
    BY <1>3, <2>1, PausesTyped DEF LoadFiles, AffinityTypeOK
<1>4. CASE CollectValid
  <2>1. local' \in [Actors -> Local]
    <3>1. PICK n \in Nat, v \in SUBSET Accounts :
            local' = [local EXCEPT ![Loader].valid = v, ![Loader].len = n]
      BY <1>4, CountTyped DEF CollectValid, AffinityTypeOK
    <3>2. local[Loader] \in Local
      BY <1>1 DEF AffinityTypeOK
    <3>3. [local[Loader] EXCEPT !.valid = v, !.len = n] \in Local
      BY <3>2 DEF Local
    <3> QED
      BY <1>1, <3>1, <3>3 DEF AffinityTypeOK
  <2>2. /\ place' \in [Actors -> {"idle", "check", "forget", "reschedule", "rotate",
                      "record", "schedule", "count", "retain", "compare", "load"}]
        /\ Positions'
    BY <1>1, <1>4, GotoTyped DEF CollectValid
  <2> QED
    BY <1>4, <2>1, <2>2, PausesTyped DEF CollectValid, AffinityTypeOK
<1>5. CASE RetainValid
  <2>1. local' \in [Actors -> Local]
    BY ZenonT(60), <1>1, <1>5 DEF RetainValid, AffinityTypeOK, Local
  <2>2. /\ place' \in [Actors -> {"idle", "check", "forget", "reschedule", "rotate",
                      "record", "schedule", "count", "retain", "compare", "load"}]
        /\ Positions'
    BY <1>1, <1>5, GotoTyped DEF RetainValid
  <2>3. map' \in [Sessions -> Entry \cup {None}]
    BY <1>5, KeepTyped DEF RetainValid
  <2> QED
    BY <1>5, <2>1, <2>2, <2>3, PausesTyped DEF RetainValid, AffinityTypeOK
<1>6. CASE CompareLoader
  BY <1>6, CompareTyped DEF CompareLoader
<1> QED
  BY <1>2, <1>3, <1>4, <1>5, <1>6 DEF Load

LEMMA OtherTyped ==
  ASSUME AffinityTyped, NEW f, OneFlusher(f),
         StopGateway \/ Restart \/ (\E s \in Sessions : Age(s))
           \/ UNCHANGED affinityVars
  PROVE  AffinityTyped'
<1> USE DEF AffinityTyped, Rest, mapVars, taskVars,
            actorVars
<1>1. CASE StopGateway
  BY <1>1, PausesTyped DEF StopGateway, AffinityTypeOK, Positions
<1>2. CASE Restart
  <2> DEFINE Blank == [s \in Sessions |-> None]
  <2>1. records' = [g \in Flushers |-> Blank] /\ Blank \in [Sessions -> Entry \cup {None}]
    BY <1>2 DEF Restart, Nothing
  <2> HIDE DEF Blank
  <2>2. records' \in [Flushers -> [Sessions -> Entry \cup {None}]]
    BY <2>1
  <2>3. /\ map' \in [Sessions -> Entry \cup {None}] /\ UNCHANGED <<sessionsFile, enabled>>
        /\ clients' = {} /\ serving' = FALSE /\ permit' = FALSE /\ failed' = FALSE
    BY <1>2, FreshTyped DEF Restart, AffinityTypeOK
  <2>4. /\ place' = [p \in Actors |-> "idle"]
        /\ local' = [p \in Actors |-> NoLocal]
        /\ task' = [g \in Flushers |-> "off"] /\ todo' = [g \in Flushers |-> {}]
    BY <1>2 DEF Restart, Idle, Off
  <2>5. NoLocal \in Local
    BY ActorsAssumption, SessionsAssumption, NoLocalTyped DEF OneFlusher
  <2>6. Positions'
    BY <2>4 DEF Positions, Actors
  <2>7. ahead' \in [Flushers -> SUBSET (Actors \cup Flushers)]
    BY <1>2, PausesTyped DEF Restart
  <2> QED
    BY <2>2, <2>3, <2>4, <2>5, <2>6, <2>7 DEF AffinityTypeOK
<1>3. ASSUME NEW s \in Sessions, Age(s)
      PROVE  AffinityTyped'
  <2>1. ASSUME NEW m \in [Sessions -> Entry \cup {None}]
        PROVE  [m EXCEPT ![s].stale = m[s] # None]
                 \in [Sessions -> Entry \cup {None}]
    <3>1. PICK b \in BOOLEAN : b = (m[s] # None)
      OBVIOUS
    <3>2. CASE m[s] \in Entry
      <4>1. [m[s] EXCEPT !.stale = b] \in Entry
        BY <3>1, <3>2 DEF Entry
      <4> QED
        BY <3>1, <4>1
    <3>3. CASE m[s] = None
      BY <3>3, NoneKept
    <3> QED
      BY <3>2, <3>3
  <2>2. /\ map' \in [Sessions -> Entry \cup {None}]
        /\ sessionsFile' \in [Sessions -> Entry \cup {None}]
    BY <1>3, <2>1 DEF Age, AffinityTypeOK
  <2> QED
    BY <1>3, <2>2, PausesTyped DEF Age, AffinityTypeOK, Positions
<1>4. CASE UNCHANGED affinityVars
  BY <1>4 DEF affinityVars, AffinityTypeOK, Positions
<1> QED
  BY <1>1, <1>2, <1>3, <1>4

(* A flush is to come, which collects every session. *)
Due(f) ==
  \/ permit
  \/ task[f] = "sleep"
  \/ \E p \in Actors : \/ place[p] \in {"schedule", "reschedule"}
                       \/ place[p] = "compare" /\ Size(map) # local[p].len

(* A flush is to come that does not begin before the clean-up p is over. *)
Held(f, p) ==
  \/ permit
  \/ \E q \in Pickers : place[q] = "schedule"
  \/ task[f] = "sleep" /\ p \in ahead[f]

(* A clean-up that finds as many sessions as it had counted has removed none, unless a flush
   is held back until it is over. *)
Counted(f) ==
  \A p \in {Router, Loader} :
    place[p] \in {"retain", "compare"} => Held(f, p) \/ Size(map) <= local[p].len

(* What a flush has collected is as in the map, and otherwise the file is, or a flush is to
   come. *)
Collected(f) ==
  IF task[f] \in {"collect", "write"}
  THEN \A s \in Sessions \ todo[f] : records[f][s] = Fresh(map)[s] \/ Due(f)
  ELSE \A s \in Sessions : Unsaved(s) => failed \/ Due(f)

AffinityInv(f) == AffinityTyped /\ Counted(f) /\ Collected(f)

LEMMA CleanersRun ==
  ASSUME AffinityTyped, NEW f, OneFlusher(f), Pauses
  PROVE  \A p \in {Router, Loader} : place'[p] # "idle" /\ task'[f] = "sleep" =>
           p \in ahead'[f] \/ (task[f] = "sleep" /\ p \notin ahead[f])
<1>1. \A p \in {Router, Loader} : place'[p] # "idle" => p \in Running'
  BY DEF Running
<1> QED
  BY ActorsAssumption, SessionsAssumption, <1>1 DEF Pauses, OneFlusher

(* A step that leaves permit and task alone holds back what was held back. *)
LEMMA HeldStays ==
  ASSUME AffinityTyped, NEW f, OneFlusher(f), Pauses, UNCHANGED <<permit, task>>,
         NEW p \in {Router, Loader}, place'[p] # "idle", Held(f, p),
         \A q \in Pickers : place[q] = "schedule" => place'[q] = "schedule"
  PROVE  Held(f, p)'
<1>1. ahead' \in [Flushers -> SUBSET (Actors \cup Flushers)]
  BY PausesTyped DEF AffinityTyped
<1> QED
  BY <1>1, CleanersRun DEF Held

LEMMA ScheduleHolds ==
  ASSUME AffinityTyped, NEW f, OneFlusher(f), Pauses, Schedule
  PROVE  /\ Due(f)'
         /\ \A p \in {Router, Loader} : place'[p] # "idle" => Held(f, p)'
         /\ task'[f] \in {"collect", "write"} => task[f] = task'[f]
<1>1. \/ permit' /\ UNCHANGED task
      \/ task[f] = "wait" /\ task'[f] = "sleep"
  BY ActorsAssumption, SessionsAssumption DEF Schedule, Pause, OneFlusher, AffinityTyped,
    AffinityTypeOK
<1> QED
  BY <1>1, CleanersRun DEF Due, Held

(* Notifications are not lost when the flush task comes back for one. *)
LEMMA AwaitHolds ==
  ASSUME AffinityTyped, NEW f, OneFlusher(f), Pauses, Await(f, task),
         task[f] # "sleep", UNCHANGED <<place, local, map>>
  PROVE  /\ task'[f] \in {"sleep", "wait"}
         /\ Due(f) => Due(f)'
         /\ \A p \in {Router, Loader} : place'[p] # "idle" /\ Held(f, p) => Held(f, p)'
<1>1. permit => task'[f] = "sleep"
  BY ActorsAssumption, SessionsAssumption DEF Await, OneFlusher, AffinityTyped, AffinityTypeOK
<1>2. task'[f] \in {"sleep", "wait"}
  BY ActorsAssumption, SessionsAssumption DEF Await, OneFlusher, AffinityTyped, AffinityTypeOK
<1> QED
  BY <1>1, <1>2, CleanersRun DEF Due, Held

(* A step of p that leaves the map, the file and the flush task alone. *)
LEMMA QuietStep ==
  ASSUME NEW f, OneFlusher(f), AffinityInv(f), Pauses,
         UNCHANGED <<map, sessionsFile, permit, task, todo, records, failed>>,
         NEW p \in Actors,
         place[p] \notin {"schedule", "reschedule", "compare", "retain"},
         \A q \in Actors \ {p} : place'[q] = place[q] /\ local'[q] = local[q],
         place'[p] \in {"retain", "compare"} => local'[p].len = Size(map)
  PROVE  Counted(f)' /\ Collected(f)'
<1> USE DEF AffinityInv
<1>1. Due(f) => Due(f)'
  BY DEF Due
<1>2. {Router, Loader} \subseteq Actors /\ Pickers \subseteq Actors
        /\ Size(map) \in Nat
  BY ActorsAssumption, SessionsAssumption, SizeFacts DEF Actors, OneFlusher
<1>3. \A q \in {Router, Loader} : place'[q] \in {"retain", "compare"} =>
        \/ q = p /\ Size(map') <= local'[q].len
        \/ q # p /\ place[q] \in {"retain", "compare"} /\ place'[q] # "idle" /\ local'[q] = local[q]
  BY <1>2
<1>4. \A q \in Pickers : place[q] = "schedule" => place'[q] = "schedule"
  BY <1>2
<1>5. Counted(f)'
  BY <1>3, <1>4, HeldStays DEF Counted
<1>6. Collected(f)'
  BY <1>1 DEF Collected, Unsaved
<1> QED
  BY <1>5, <1>6

(* A step that asks for a flush. *)
LEMMA ScheduleStep ==
  ASSUME NEW f, OneFlusher(f), AffinityInv(f), Pauses, Schedule,
         UNCHANGED map,
         \A p \in {Router, Loader} : place'[p] \in {"retain", "compare"} =>
           place[p] = place'[p] /\ local'[p] = local[p]
  PROVE  Counted(f)' /\ Collected(f)'
<1>1. Due(f)' /\ \A p \in {Router, Loader} : place'[p] # "idle" => Held(f, p)'
  BY ScheduleHolds DEF AffinityInv
<1> QED
  BY <1>1 DEF Counted, Collected

LEMMA FreshFacts ==
  /\ \A m : Fresh(Fresh(m)) = Fresh(m)
  /\ \A m, n, s : s \in Sessions /\ n[s] = m[s] =>
        Fresh(n)[s] = Fresh(m)[s]
<1>1. None.stale = FALSE
  BY DEF None
<1>2. ASSUME NEW m
      PROVE  Fresh(Fresh(m)) = Fresh(m)
  <2> DEFINE n == Fresh(m)
  <2>1. \A s \in Sessions : n[s] = IF m[s].stale THEN None ELSE m[s]
    BY DEF Fresh
  <2>2. \A s \in Sessions : (IF n[s].stale THEN None ELSE n[s]) = n[s]
    BY <1>1, <2>1
  <2>3. n = [s \in Sessions |-> n[s]]
    BY DEF Fresh
  <2>4. Fresh(n) = [s \in Sessions |-> IF n[s].stale THEN None ELSE n[s]]
    BY DEF Fresh
  <2> HIDE DEF n
  <2>5. Fresh(n) = n
    BY <2>2, <2>3, <2>4
  <2> QED
    BY <2>5 DEF n
<1>3. ASSUME NEW m, NEW n, NEW s \in Sessions, n[s] = m[s]
      PROVE  Fresh(n)[s] = Fresh(m)[s]
  BY <1>3 DEF Fresh
<1> QED
  BY <1>2, <1>3

(* The steps of the flush task. *)
LEMMA FlushKept ==
  ASSUME NEW f, OneFlusher(f), AffinityInv(f), StartTask(f) \/ Flush(f)
  PROVE  Counted(f)' /\ Collected(f)'
<1> USE DEF AffinityInv, Rest, mapVars, actorVars
<1>0. f \in Flushers /\ AffinityTypeOK /\ Brief
  BY ActorsAssumption, SessionsAssumption DEF OneFlusher, AffinityTyped
<1>1. CASE StartTask(f)
  <2>1. /\ Await(f, task) /\ task[f] = "off" /\ Pauses
        /\ UNCHANGED <<map, sessionsFile, place, local, failed>>
    BY <1>1 DEF StartTask
  <2>2. /\ task'[f] \in {"sleep", "wait"}
        /\ Due(f) => Due(f)'
        /\ \A p \in {Router, Loader} : place'[p] # "idle" /\ Held(f, p) => Held(f, p)'
    BY <2>1, AwaitHolds
  <2>3. Counted(f)'
    BY <2>1, <2>2 DEF Counted
  <2>4. Collected(f)'
    BY <2>1, <2>2 DEF Collected, Unsaved
  <2> QED
    BY <2>3, <2>4
<1>2. CASE Wake(f)
  <2>1. /\ task[f] = "sleep" /\ ahead[f] = {} /\ UNCHANGED <<map, place, local, permit>>
        /\ task'[f] = "collect" /\ todo'[f] = Sessions
    BY <1>0, <1>2 DEF Wake, AffinityTypeOK
  <2>2. Counted(f)'
    BY <2>1 DEF Counted, Held
  <2>3. Collected(f)'
    BY <2>1 DEF Collected
  <2> QED
    BY <2>2, <2>3
<1>3. ASSUME NEW s \in Sessions, CollectSession(f, s)
      PROVE  Counted(f)' /\ Collected(f)'
  <2>1. /\ task[f] = "collect" /\ task'[f] \in {"collect", "write"}
        /\ UNCHANGED <<map, place, local, permit>>
        /\ todo'[f] = todo[f] \ {s}
        /\ \A t \in Sessions : records'[f][t] = IF t = s THEN Fresh(map)[s] ELSE records[f][t]
    BY <1>0, <1>3 DEF CollectSession, AffinityTypeOK
  <2>2. Counted(f)'
    BY <2>1 DEF Counted, Held
  <2>3. Due(f) => Due(f)'
    BY <2>1 DEF Due
  <2>4. Collected(f)'
    BY <2>1, <2>3 DEF Collected
  <2> QED
    BY <2>2, <2>4
<1>4. CASE Write(f)
  <2>1. /\ Await(f, task) /\ task[f] = "write" /\ Pauses
        /\ UNCHANGED <<map, place, local>> /\ todo[f] = {}
        /\ sessionsFile' = records[f] \/ failed'
    BY <1>0, <1>4 DEF Write, AffinityTyped, Positions
  <2>2. /\ task'[f] \in {"sleep", "wait"}
        /\ Due(f) => Due(f)'
        /\ \A p \in {Router, Loader} : place'[p] # "idle" /\ Held(f, p) => Held(f, p)'
    BY <2>1, AwaitHolds
  <2>3. Counted(f)'
    BY <2>1, <2>2 DEF Counted
  <2>4. ASSUME NEW s \in Sessions, sessionsFile' = records[f], records[f][s] = Fresh(map)[s]
        PROVE  ~Unsaved(s)'
    <3>1. Fresh(sessionsFile')[s] = Fresh(Fresh(map))[s]
      BY <2>4, FreshFacts
    <3> QED
      BY <2>1, <3>1, FreshFacts DEF Unsaved
  <2>5. Collected(f)'
    BY <2>1, <2>2, <2>4 DEF Collected
  <2> QED
    BY <2>3, <2>5
<1> QED
  BY <1>1, <1>2, <1>3, <1>4 DEF Flush

(* The steps of a request. *)
LEMMA PickKept ==
  ASSUME NEW f, OneFlusher(f), AffinityInv(f), NEW p \in Pickers,
         Pick(p) \/ \E s \in Sessions : Look(p, s)
  PROVE  Counted(f)' /\ Collected(f)'
<1> USE DEF AffinityInv, Rest, mapVars, taskVars, Advance,
            Finish, Move
<1>1. /\ p \in Actors /\ p # Router /\ p # Loader /\ AffinityTypeOK
      /\ {Router, Loader} \subseteq Actors /\ Pickers \subseteq Actors
  BY ActorsAssumption, SessionsAssumption DEF OneFlusher, Actors, AffinityTyped
<1>2. /\ place = [q \in Actors |-> place[q]]
      /\ local = [q \in Actors |-> local[q]]
  BY <1>1 DEF AffinityTypeOK
<1>3. ASSUME NEW s \in Sessions, Look(p, s)
      PROVE  Counted(f)' /\ Collected(f)'
  <2>1. /\ Pauses /\ UNCHANGED <<map, sessionsFile, permit, task, todo, records, failed>>
        /\ place[p] = "idle" /\ place'[p] \in {"rotate", "check"}
        /\ \A q \in Actors \ {p} : place'[q] = place[q] /\ local'[q] = local[q]
    BY <1>1, <1>2, <1>3 DEF Look
  <2> QED
    BY <1>1, <2>1, QuietStep
<1>4. CASE Check(p) \/ Rotate(p)
  <2>1. /\ Pauses /\ UNCHANGED <<map, sessionsFile, permit, task, todo, records, failed>>
        /\ place[p] \in {"check", "rotate"} /\ place'[p] \in {"record", "forget", "idle"}
        /\ \A q \in Actors \ {p} : place'[q] = place[q] /\ local'[q] = local[q]
    BY <1>1, <1>2, <1>4 DEF Check, Rotate
  <2> QED
    BY <1>1, <2>1, QuietStep
<1>5. CASE Reschedule(p) \/ ScheduleRecord(p)
  <2>1. /\ Pauses /\ Schedule /\ UNCHANGED map
        /\ place'[p] \in {"rotate", "idle"}
        /\ \A q \in Actors \ {p} : place'[q] = place[q] /\ local'[q] = local[q]
    BY <1>1, <1>2, <1>5 DEF Reschedule, ScheduleRecord
  <2> QED
    BY <1>1, <2>1, ScheduleStep
<1>6. CASE Record(p)
  <2>1. /\ place'[p] = "schedule" /\ UNCHANGED <<sessionsFile, permit, task, todo, records, failed>>
        /\ \A q \in Actors \ {p} : place'[q] = place[q] /\ local'[q] = local[q]
    BY <1>1, <1>2, <1>6 DEF Record
  <2>2. Due(f)' /\ \A q : Held(f, q)'
    BY <1>1, <2>1 DEF Due, Held
  <2> QED
    BY <2>2 DEF Counted, Collected
<1>7. CASE Forget(p)
  <2>1. /\ place[p] = "forget" /\ place'[p] = "reschedule"
        /\ Pauses /\ UNCHANGED <<sessionsFile, permit, task, todo, records, failed>>
        /\ \A q \in Actors \ {p} : place'[q] = place[q] /\ local'[q] = local[q]
        /\ map' = [map EXCEPT ![local[p].sid] = None]
    BY <1>1, <1>2, <1>7 DEF Forget
  <2>2. Due(f)'
    BY <1>1, <2>1 DEF Due
  <2>3. Size(map') <= Size(map) /\ Size(map') \in Nat /\ Size(map) \in Nat
    <3>1. \A s \in Sessions : map'[s] # map[s] => map'[s] = None
      BY <1>1, <2>1 DEF AffinityTypeOK
    <3> QED
      BY ActorsAssumption, SessionsAssumption, <3>1, SizeFacts DEF OneFlusher
  <2>4. \A q \in {Router, Loader} : place'[q] = place[q] /\ local'[q].len = local[q].len
          /\ local[q].len \in Nat
    BY <1>1, <2>1, LocalFields DEF AffinityTypeOK
  <2>5. \A q \in {Router, Loader} : place'[q] # "idle" /\ Held(f, q) => Held(f, q)'
    BY <1>1, <2>1, HeldStays
  <2>6. Counted(f)'
    BY <2>3, <2>4, <2>5 DEF Counted
  <2> QED
    BY <2>2, <2>6 DEF Collected
<1> QED
  BY <1>3, <1>4, <1>5, <1>6, <1>7 DEF Pick

(* What a clean-up drops it will notice. *)
LEMMA RetainStep ==
  ASSUME NEW f, OneFlusher(f), AffinityInv(f), Pauses,
         UNCHANGED <<sessionsFile, permit, task, todo, records, failed>>,
         NEW p \in {Router, Loader}, place[p] = "retain", place'[p] = "compare",
         local'[p].len = local[p].len,
         \A q \in Actors \ {p} : place'[q] = place[q] /\ local'[q] = local[q],
         NEW aids, Keep(aids)
  PROVE  Counted(f)' /\ Collected(f)'
<1> USE DEF AffinityInv
<1>1. /\ {Router, Loader} \subseteq Actors /\ Pickers \subseteq Actors
      /\ p \notin Pickers /\ AffinityTypeOK
  BY ActorsAssumption, SessionsAssumption DEF OneFlusher, Actors, AffinityTyped
<1>2. \A s \in Sessions : map'[s] # map[s] => map'[s] = None
  BY DEF Keep
<1>3. /\ Size(map') <= Size(map) /\ Size(map') \in Nat /\ Size(map) \in Nat
      /\ \A s \in Sessions : map'[s] # map[s] => Size(map') < Size(map)
  BY ActorsAssumption, SessionsAssumption, <1>2, SizeFacts DEF OneFlusher
<1>4. \A q \in {Router, Loader} : local'[q].len = local[q].len /\ local[q].len \in Nat
  BY <1>1, LocalFields DEF AffinityTypeOK
<1>5. \A q \in {Router, Loader} : place'[q] # "idle" /\ Held(f, q) => Held(f, q)'
  <2>1. \A q \in Pickers : place[q] = "schedule" => place'[q] = "schedule"
    BY <1>1
  <2> QED
    BY <2>1, HeldStays
<1>6. Counted(f)'
  BY <1>1, <1>3, <1>4, <1>5 DEF Counted
<1>7. \A q \in {Router, Loader} : Held(f, q)' => Due(f)'
  BY <1>1 DEF Held, Due, Actors
<1>8. Due(f) => Due(f)'
  <2>1. ASSUME NEW q \in Actors, place[q] = "compare", Size(map) # local[q].len
        PROVE  Due(f)'
    <3>1. q \in {Router, Loader} /\ q # p /\ place'[q] = "compare" /\ local'[q] = local[q]
      BY <2>1 DEF AffinityTyped, Positions, Actors
    <3>2. CASE Held(f, q)
      BY <1>5, <1>7, <3>1, <3>2
    <3>3. CASE Size(map) <= local[q].len
      <4>1. Size(map') # local'[q].len
        BY <1>3, <1>4, <2>1, <3>1, <3>3
      <4> QED
        BY <2>1, <3>1, <4>1 DEF Due
    <3> QED
      BY <2>1, <3>1, <3>2, <3>3 DEF Counted
  <2> QED
    BY <2>1 DEF Due
<1>9. ASSUME NEW s \in Sessions, map'[s] # map[s]
      PROVE  Due(f)'
  <2>1. CASE Held(f, p)
    BY <1>5, <1>7, <2>1
  <2>2. CASE Size(map) <= local[p].len
    <3>1. Size(map') # local'[p].len
      BY <1>3, <1>4, <1>9, <2>2
    <3> QED
      BY <1>1, <3>1 DEF Due
  <2> QED
    BY <2>1, <2>2 DEF Counted
<1>10. \A s \in Sessions : map'[s] = map[s] => Fresh(map')[s] = Fresh(map)[s]
  BY FreshFacts
<1>11. Collected(f)'
  BY <1>8, <1>9, <1>10 DEF Collected, Unsaved
<1> QED
  BY <1>6, <1>11

LEMMA CompareKept ==
  ASSUME NEW f, OneFlusher(f), AffinityInv(f), NEW p \in {Router, Loader}, Compare(p)
  PROVE  Counted(f)' /\ Collected(f)'
<1> USE DEF AffinityInv, Rest, mapVars, taskVars, Finish,
            Move
<1>1. /\ {Router, Loader} \subseteq Actors /\ Pickers \subseteq Actors
      /\ p \notin Pickers
  BY ActorsAssumption, SessionsAssumption DEF OneFlusher, Actors
<1>2. /\ Pauses /\ UNCHANGED <<map, sessionsFile>> /\ place[p] = "compare" /\ place'[p] = "idle"
      /\ \A q \in Actors \ {p} : place'[q] = place[q] /\ local'[q] = local[q]
  BY <1>1 DEF Compare, AffinityTyped, AffinityTypeOK
<1>3. CASE Schedule
  BY <1>1, <1>2, <1>3, ScheduleStep
<1>4. CASE ~Schedule
  <2>1. Size(map) = local[p].len /\ UNCHANGED <<permit, task, todo, records, failed>>
    BY <1>4, CountTyped DEF Compare
  <2>2. Due(f) => Due(f)'
    BY <1>2, <2>1 DEF Due
  <2>3. \A q \in {Router, Loader} : place'[q] # "idle" /\ Held(f, q) => Held(f, q)'
    <3>1. \A q \in Pickers : place[q] = "schedule" => place'[q] = "schedule"
      BY <1>1, <1>2
    <3> QED
      BY <1>2, <2>1, <3>1, HeldStays
  <2>4. Counted(f)'
    BY <1>1, <1>2, <2>3 DEF Counted
  <2>5. Collected(f)'
    BY <1>2, <2>1, <2>2 DEF Collected, Unsaved
  <2> QED
    BY <2>4, <2>5
<1> QED
  BY <1>3, <1>4

LEMMA RouteKept ==
  ASSUME NEW f, OneFlusher(f), AffinityInv(f),
         Route \/ \E a \in Accounts : Disable(a) \/ Enable(a)
  PROVE  Counted(f)' /\ Collected(f)'
<1> USE DEF AffinityInv, Rest, mapVars, taskVars,
            actorVars, Move
<1>1. /\ Router \in Actors /\ AffinityTypeOK
      /\ place = [q \in Actors |-> place[q]]
      /\ local = [q \in Actors |-> local[q]]
  BY DEF Actors, AffinityTyped, AffinityTypeOK
<1>2. ASSUME NEW a \in Accounts, Disable(a) \/ Enable(a)
      PROVE  Counted(f)' /\ Collected(f)'
  <2>1. /\ Pauses /\ UNCHANGED <<map, sessionsFile, permit, task, todo, records, failed>>
        /\ place[Router] = "idle" /\ place'[Router] \in {"count", "idle"}
        /\ \A q \in Actors \ {Router} : place'[q] = place[q] /\ local'[q] = local[q]
    BY <1>1, <1>2 DEF Disable, Enable
  <2> QED
    BY <1>1, <2>1, QuietStep
<1>3. CASE CountSessions
  <2>1. /\ Pauses /\ UNCHANGED <<map, sessionsFile, permit, task, todo, records, failed>>
        /\ place[Router] = "count" /\ place'[Router] = "retain"
        /\ \A q \in Actors \ {Router} : place'[q] = place[q] /\ local'[q] = local[q]
    BY <1>1, <1>3 DEF CountSessions
  <2>2. local'[Router] = [local[Router] EXCEPT !.len = Size(map)]
    BY <1>1, <1>3, CountTyped DEF CountSessions
  <2>3. local[Router] \in Local
    BY <1>1 DEF AffinityTypeOK
  <2>4. local'[Router].len = Size(map)
    BY <2>2, <2>3 DEF Local
  <2> QED
    BY <1>1, <2>1, <2>4, QuietStep
<1>4. CASE Retain
  <2>1. /\ Pauses /\ UNCHANGED <<sessionsFile, permit, task, todo, records, failed>>
        /\ place[Router] = "retain" /\ place'[Router] = "compare"
        /\ \A q \in Actors \ {Router} : place'[q] = place[q] /\ local'[q] = local[q]
        /\ Keep(Accounts \ {local[Router].aid})
    BY <1>1, <1>4 DEF Retain
  <2>2. local'[Router].len = local[Router].len
    BY <1>1, <1>4 DEF Retain, AffinityTypeOK, Local
  <2> QED
    BY <1>1, <2>1, <2>2, RetainStep
<1>5. CASE CompareRouter
  BY <1>5, CompareKept DEF CompareRouter
<1> QED
  BY <1>2, <1>3, <1>4, <1>5 DEF Route

LEMMA LoadKept ==
  ASSUME NEW f, OneFlusher(f), AffinityInv(f), Load \/ ClearClients
  PROVE  Counted(f)' /\ Collected(f)'
<1> USE DEF AffinityInv, Rest, mapVars, taskVars,
            actorVars, Move, Advance
<1>1. /\ Loader \in Actors /\ AffinityTypeOK
      /\ place = [q \in Actors |-> place[q]]
      /\ local = [q \in Actors |-> local[q]]
  BY DEF Actors, AffinityTyped, AffinityTypeOK
<1>2. CASE ClearClients \/ LoadFiles
  <2>1. /\ Pauses /\ UNCHANGED <<map, sessionsFile, permit, task, todo, records, failed>>
        /\ place[Loader] \in {"idle", "load"} /\ place'[Loader] \in {"load", "count"}
        /\ \A q \in Actors \ {Loader} : place'[q] = place[q] /\ local'[q] = local[q]
    BY <1>1, <1>2 DEF ClearClients, LoadFiles
  <2> QED
    BY <1>1, <2>1, QuietStep
<1>3. CASE CollectValid
  <2>1. /\ Pauses /\ UNCHANGED <<map, sessionsFile, permit, task, todo, records, failed>>
        /\ place[Loader] = "count" /\ place'[Loader] = "retain"
        /\ \A q \in Actors \ {Loader} : place'[q] = place[q] /\ local'[q] = local[q]
    BY <1>1, <1>3 DEF CollectValid
  <2>2. local'[Loader] = [local[Loader] EXCEPT !.valid = clients, !.len = Size(map)]
    BY <1>1, <1>3, CountTyped DEF CollectValid
  <2>3. local[Loader] \in Local
    BY <1>1 DEF AffinityTypeOK
  <2>4. local'[Loader].len = Size(map)
    BY <2>2, <2>3 DEF Local
  <2> QED
    BY <1>1, <2>1, <2>4, QuietStep
<1>4. CASE RetainValid
  <2>1. /\ Pauses /\ UNCHANGED <<sessionsFile, permit, task, todo, records, failed>>
        /\ place[Loader] = "retain" /\ place'[Loader] = "compare"
        /\ \A q \in Actors \ {Loader} : place'[q] = place[q] /\ local'[q] = local[q]
        /\ Keep(local[Loader].valid)
    BY <1>1, <1>4 DEF RetainValid
  <2>2. local'[Loader].len = local[Loader].len
    BY <1>1, <1>4 DEF RetainValid, AffinityTypeOK, Local
  <2> QED
    BY <1>1, <2>1, <2>2, RetainStep
<1>5. CASE CompareLoader
  BY <1>5, CompareKept DEF CompareLoader
<1> QED
  BY <1>2, <1>3, <1>4, <1>5 DEF Load

LEMMA OtherKept ==
  ASSUME NEW f, OneFlusher(f), AffinityInv(f),
         StopGateway \/ Restart \/ (\E s \in Sessions : Age(s))
           \/ UNCHANGED affinityVars
  PROVE  Counted(f)' /\ Collected(f)'
<1> USE DEF AffinityInv, Rest, mapVars, taskVars,
            actorVars
<1>0. /\ f \in Flushers /\ AffinityTypeOK /\ {Router, Loader} \subseteq Actors
      /\ Pickers \subseteq Actors
  BY ActorsAssumption, SessionsAssumption DEF OneFlusher, AffinityTyped, Actors
<1>1. CASE StopGateway
  <2>1. /\ Pauses
        /\ UNCHANGED <<map, sessionsFile, permit, task, todo, records, failed, place, local>>
    BY <1>1 DEF StopGateway
  <2>2. \A p \in {Router, Loader} : place'[p] # "idle" /\ Held(f, p) => Held(f, p)'
    BY <2>1, HeldStays
  <2>3. Due(f) => Due(f)'
    BY <2>1 DEF Due
  <2> QED
    BY <2>1, <2>2, <2>3 DEF Counted, Collected, Unsaved
<1>2. CASE Restart
  <2>1. /\ task'[f] = "off" /\ map' = Fresh(sessionsFile) /\ UNCHANGED sessionsFile
        /\ \A p \in {Router, Loader} : place'[p] = "idle"
    BY <1>0, <1>2 DEF Restart, Idle, Off
  <2>2. \A s \in Sessions : ~Unsaved(s)'
    BY <2>1, FreshFacts DEF Unsaved
  <2> QED
    BY <2>1, <2>2 DEF Counted, Collected
<1>3. ASSUME NEW s \in Sessions, Age(s)
      PROVE  Counted(f)' /\ Collected(f)'
  <2>1. /\ UNCHANGED <<permit, task, todo, records, failed, place, local>>
        /\ task[f] \in {"off", "wait"} /\ ~permit
        /\ \A p \in Actors : place[p] = "idle"
        /\ map' = [map EXCEPT ![s].stale = map[s] # None]
        /\ sessionsFile' = [sessionsFile EXCEPT ![s].stale = sessionsFile[s] # None]
    BY <1>0, <1>3 DEF Age, Idle
  <2>2. Counted(f)'
    BY <1>0, <2>1 DEF Counted
  <2>3. ASSUME NEW m \in [Sessions -> Entry \cup {None}], NEW n,
               n = [m EXCEPT ![s].stale = m[s] # None]
        PROVE  Fresh(n)[s] = None
    <3>1. PICK b \in BOOLEAN : b = (m[s] # None)
      OBVIOUS
    <3>2. n[s] = [m[s] EXCEPT !.stale = b]
      BY <2>3, <3>1
    <3>3. CASE m[s] = None
      <4>1. n[s].stale = FALSE /\ n[s] = None
        BY <3>1, <3>2, <3>3, NoneKept
      <4> QED
        BY <4>1 DEF Fresh
    <3>4. CASE m[s] # None
      <4>1. n[s].stale
        BY <3>1, <3>2, <3>4 DEF Entry
      <4> QED
        BY <4>1 DEF Fresh
    <3> QED
      BY <3>3, <3>4
  <2>4. /\ Fresh(map')[s] = None
        /\ Fresh(sessionsFile')[s] = None
    BY <2>1, <2>3, <1>0 DEF AffinityTypeOK
  <2>5. \A t \in Sessions \ {s} : /\ Fresh(map')[t] = Fresh(map)[t]
                                 /\ Fresh(sessionsFile')[t] = Fresh(sessionsFile)[t]
    <3>1. \A t \in Sessions \ {s} : map'[t] = map[t] /\ sessionsFile'[t] = sessionsFile[t]
      BY <2>1, <1>0 DEF AffinityTypeOK
    <3> QED
      BY <3>1, FreshFacts
  <2>6. ~Due(f)
    BY <2>1 DEF Due
  <2>7. Collected(f)'
    BY ZenonT(60), <2>1, <2>4, <2>5, <2>6 DEF Collected, Unsaved
  <2> QED
    BY <2>2, <2>7
<1>4. CASE UNCHANGED affinityVars
  <2>1. UNCHANGED <<map, sessionsFile, permit, task, todo, records, failed, place, local, ahead>>
    BY <1>4 DEF affinityVars
  <2>2. (Due(f) <=> Due(f)') /\ \A p \in {Router, Loader} : Held(f, p) <=> Held(f, p)'
    BY <2>1 DEF Due, Held
  <2> QED
    BY <2>1, <2>2 DEF Counted, Collected, Unsaved
<1> QED
  BY <1>1, <1>2, <1>3, <1>4

LEMMA AffinityInitially ==
  ASSUME NEW f, OneFlusher(f), AffinityInit
  PROVE  AffinityInv(f)
<1>1. /\ f \in Flushers /\ NoLocal \in Local
  BY ActorsAssumption, SessionsAssumption, NoLocalTyped DEF OneFlusher
<1>2. records \in [Flushers -> [Sessions -> Entry \cup {None}]]
  <2> DEFINE Blank == [s \in Sessions |-> None]
  <2>1. records = [g \in Flushers |-> Blank]
        /\ Blank \in [Sessions -> Entry \cup {None}]
    BY DEF AffinityInit, Nothing
  <2> HIDE DEF Blank
  <2> QED
    BY <2>1
<1>3. AffinityTypeOK
  BY <1>1, <1>2 DEF AffinityInit, AffinityTypeOK, Off, Idle
<1>4. Positions
  BY DEF AffinityInit, Positions, Off, Idle, Actors
<1>5. Counted(f)
  BY DEF AffinityInit, Counted, Idle, Actors
<1>6. Collected(f)
  BY <1>1 DEF AffinityInit, Collected, Off, Unsaved
<1> QED
  BY <1>3, <1>4, <1>5, <1>6 DEF AffinityInv, AffinityTyped

LEMMA AffinityStep ==
  ASSUME NEW f, OneFlusher(f), AffinityInv(f), [AffinityNext]_affinityVars
  PROVE  AffinityInv(f)'
<1>1. AffinityTyped'
  BY FlushTyped, PickTyped, RouteTyped, LoadTyped, OtherTyped DEF AffinityNext, AffinityInv
<1>2. Counted(f)' /\ Collected(f)'
  BY ActorsAssumption, SessionsAssumption, FlushKept, PickKept, RouteKept, LoadKept, OtherKept
    DEF AffinityNext, OneFlusher
<1> QED
  BY <1>1, <1>2 DEF AffinityInv

(* For any number of sessions, accounts and requests, with one flush task: what the file does
   not say is to be written by a flush under way or to come, unless the last write failed
   (client_manager.rs, schedule_flush and flush_sessions_to_disk). *)
THEOREM NoSessionForgotten ==
  ASSUME NEW f, OneFlusher(f)
  PROVE  AffinitySpec => []UnsavedIsPending
<1>1. AffinityInit => AffinityInv(f)
  BY AffinityInitially
<1>2. AffinityInv(f) /\ [AffinityNext]_affinityVars => AffinityInv(f)'
  BY AffinityStep
<1>3. AffinityInv(f) => UnsavedIsPending
  <2> SUFFICES ASSUME AffinityInv(f), NEW s \in Sessions, Unsaved(s), ~failed
               PROVE  Pending(s)
    BY DEF UnsavedIsPending
  <2>1. f \in Flushers /\ Count = Size(map)
    BY ActorsAssumption, SessionsAssumption, CountTyped DEF OneFlusher
  <2>2. Due(f) => Pending(s)
    BY <2>1 DEF Due, Pending
  <2>3. CASE task[f] \in {"collect", "write"}
    BY <2>1, <2>2, <2>3 DEF AffinityInv, Collected, Pending
  <2>4. CASE task[f] \notin {"collect", "write"}
    BY <2>2, <2>4 DEF AffinityInv, Collected
  <2> QED
    BY <2>3, <2>4
<1> QED
  BY <1>1, <1>2, <1>3, PTL DEF AffinitySpec
================================================================================
