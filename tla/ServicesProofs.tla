---------------------------- MODULE ServicesProofs ----------------------------
(* Theorems about Services, for every set of ports and license tasks. *)
EXTENDS Services, TLAPS

Steps == {"idle", "init", "network", "monitor", "keep", "load", "bind", "store", "bindAudit",
          "storeAudit", "return", "start", "stop", "await", "stopAudit", "awaitAudit",
          "stopMonitor", "stopPool", "reset", "set1", "set2", "clear1", "clear2",
          "fetch", "sleep"}
Ops == {"none", "init", "start", "stop", "login", "activate", "logout"}

InitSteps == {"network", "monitor", "keep", "load", "bind", "store", "bindAudit", "storeAudit", "return"}
StartSteps == {"start", "bind", "store", "bindAudit", "storeAudit", "return"}
StopSteps == {"stop", "await", "stopAudit", "awaitAudit", "return"}
Emptied == {"stopMonitor", "stopPool", "reset", "clear1", "clear2"}  \* no server is left
LogoutSteps == {"stop", "await"} \cup Emptied

(* Where each call and task stands, by what it was asked for. *)
Places ==
  /\ pc \in [Procs -> Steps] /\ op \in [Procs -> Ops]
  /\ \A p \in Boots : \/ pc[p] = "idle" /\ op[p] = "none"
                      \/ pc[p] = "init" /\ op[p] = "none" /\ p = "boot"
                      \/ pc[p] \in InitSteps /\ op[p] = "init"
  /\ \/ pc["gateway"] = "idle" /\ op["gateway"] = "none"
     \/ pc["gateway"] \in StartSteps /\ op["gateway"] = "start"
     \/ pc["gateway"] \in StopSteps /\ op["gateway"] = "stop"
  /\ \/ pc["account"] = "idle" /\ op["account"] = "none"
     \/ ~internal /\ pc["account"] \in {"set1", "set2", "return"} /\ op["account"] \in {"login", "activate"}
     \/ ~internal /\ pc["account"] \in LogoutSteps /\ op["account"] = "logout"
  /\ \A t \in Tasks : op[t] = "none" /\ pc[t] \in {"idle", "fetch", "set1", "set2", "clear1", "clear2", "sleep"}
  /\ ~internal => \A p \in Callers : pc[p] \notin {"bindAudit", "storeAudit", "stopAudit", "awaitAudit"}

Initing == \E p \in Boots : op[p] = "init"
Logout == op["account"] = "logout"

(* Which calls exclude which: one init at a time, a logout alone. *)
Turns ==
  /\ op["boot"] = "init" => op["app"] # "init"
  /\ Initing => initialized
  /\ internal /\ ~initialized => pc["boot"] = "init"
  /\ internal /\ op["gateway"] = "stop" => initialized /\ ~Initing
  /\ Logout => ready /\ page = "main" /\ Idle(Callers \ {"account"})
  /\ ready => initialized \/ (Logout /\ pc["account"] \in {"clear1", "clear2"})
  /\ page = "login" => ~internal /\ ~ready /\ Idle({"app", "gateway"})
  /\ ~internal /\ pc["boot"] # "idle" => page = "login"
  /\ op["account"] = "login" /\ pc["account"] # "return" => page = "login" /\ pc["boot"] = "idle"

(* Who holds the locks of the slots. *)
Locks ==
  /\ lock \in [Slots -> Callers \cup {"free"}]
  /\ \A p \in Callers :
       /\ lock["main"] = p <=> pc[p] = "await" \/ (p = "gateway" /\ pc[p] \in {"bind", "store"})
       /\ lock["audit"] = p <=> pc[p] = "awaitAudit"

(* Every server is in one place: a slot, or the hand of the call that stores or stops it. *)
Servers ==
  /\ slot \in [Slots -> Ports \cup {0}] /\ hand \in [Callers -> Ports \cup {0}]
  /\ cancelled \subseteq listening /\ listening \subseteq Ports
  /\ \A s \in Slots : slot[s] # 0 => slot[s] \in listening \ cancelled
  /\ slot["main"] # 0 => slot["main"] # slot["audit"]
  /\ \A p \in Callers :
       /\ hand[p] # 0 => pc[p] \in {"store", "storeAudit", "await", "awaitAudit"}
       /\ hand[p] # 0 => hand[p] \in listening
       /\ hand[p] # 0 => \A s \in Slots : slot[s] # hand[p]
       /\ hand[p] # 0 => \A q \in Callers \ {p} : hand[q] # hand[p]
       /\ pc[p] \in {"store", "storeAudit"} => hand[p] # 0 /\ hand[p] \notin cancelled
       /\ pc[p] \in {"await", "awaitAudit"} /\ hand[p] # 0 => hand[p] \in cancelled

(* The ports of servers that are being started, and of those that stand in their way. *)
Configured ==
  /\ internal \in BOOLEAN /\ config \in Configs
  /\ next \in [Callers -> Ports \cup {0}]
  /\ ~internal => slot["audit"] = 0
  /\ \A p \in Callers :
       /\ pc[p] = "store" => hand[p] = config.port /\ next[p] \in {0, config.audit}
       /\ pc[p] = "bindAudit" => next[p] # 0 /\ next[p] = config.audit
       /\ pc[p] = "storeAudit" => hand[p] = config.audit
       /\ pc[p] \in {"bindAudit", "storeAudit"} => slot["main"] # 0
  /\ ~initialized \/ Initing => slot["main"] \in {0, config.port} /\ slot["audit"] \in {0, config.audit}
  /\ pc["gateway"] \in {"bind", "store"} => slot["main"] = 0
  /\ pc["gateway"] \in {"bind", "store", "bindAudit", "storeAudit"} => slot["audit"] \in {0, config.audit}
  /\ slot["audit"] # 0 => slot["main"] # 0 \/ pc["gateway"] \in {"await", "stopAudit"}

(* The servers are gone when a logout goes on to the monitor, and until the next init. *)
Drained ==
  /\ Logout /\ pc["account"] # "stop" => slot["main"] = 0
  /\ Logout /\ pc["account"] \in Emptied => listening = {}
  /\ page = "login" /\ ~initialized => listening = {}

(* The monitor's loops and the pool's tasks: none before an init and after a logout. *)
Background ==
  /\ initialized \in BOOLEAN /\ pool \in BOOLEAN /\ monitor \in BOOLEAN
  /\ loops = (IF monitor THEN 1 ELSE 0) + (IF \E p \in Boots : pc[p] = "keep" THEN 1 ELSE 0)
  /\ \A p \in Boots : pc[p] \in {"network", "monitor", "keep"} => ~monitor
  /\ Logout /\ pc["account"] \in Emptied \ {"stopMonitor"} => ~monitor
  /\ Logout /\ pc["account"] \in Emptied \ {"stopMonitor", "stopPool"} => ~pool
  /\ ~initialized => ~monitor /\ ~pool

ServicesInv == Places /\ Turns /\ Locks /\ Servers /\ Configured /\ Drained /\ Background /\ NoOrphanServer

(* A call that binds a port nobody listens on has a new server in its hand. *)
LEMMA ServerBound ==
  ASSUME Servers, NEW p \in Callers, NEW port \in Ports \ listening, NEW l \in {"store", "storeAudit"},
         pc \in [Procs -> Steps], pc' = [pc EXCEPT ![p] = l],
         hand' = [hand EXCEPT ![p] = port], listening' = listening \cup {port},
         UNCHANGED <<slot, cancelled>>
  PROVE  Servers'
<1>1. port # 0 /\ p \in Procs
  BY PortsAssumption DEF Procs
<1>2. hand' \in [Callers -> Ports \cup {0}] /\ slot' \in [Slots -> Ports \cup {0}]
  BY DEF Servers
<1>3. pc'[p] = l /\ hand'[p] = port /\ \A q \in Callers \ {p} : pc'[q] = pc[q] /\ hand'[q] = hand[q]
  BY <1>1 DEF Servers, Procs
<1>4. \A s \in Slots : slot[s] # port
  BY <1>1 DEF Servers
<1>5. \A q \in Callers : hand[q] # port
  BY <1>1 DEF Servers
<1>6. port \notin cancelled
  BY DEF Servers
<1>7. ASSUME NEW q \in Callers, hand'[q] # 0
      PROVE  /\ pc'[q] \in {"store", "storeAudit", "await", "awaitAudit"}
             /\ hand'[q] \in listening'
             /\ \A s \in Slots : slot'[s] # hand'[q]
             /\ \A r \in Callers \ {q} : hand'[r] # hand'[q]
  BY <1>3, <1>4, <1>5, <1>7 DEF Servers
<1>8. \A q \in Callers :
        /\ pc'[q] \in {"store", "storeAudit"} => hand'[q] # 0 /\ hand'[q] \notin cancelled'
        /\ pc'[q] \in {"await", "awaitAudit"} /\ hand'[q] # 0 => hand'[q] \in cancelled'
  BY <1>1, <1>3, <1>6 DEF Servers
<1> QED
  BY <1>2, <1>7, <1>8 DEF Servers

(* A call that takes a server out of its slot has it in its hand, cancelled. *)
LEMMA ServerTaken ==
  ASSUME Servers, NEW p \in Callers, NEW s \in Slots, slot[s] # 0, hand[p] = 0,
         NEW l \in {"await", "awaitAudit"}, pc \in [Procs -> Steps], pc' = [pc EXCEPT ![p] = l],
         hand' = [hand EXCEPT ![p] = slot[s]], slot' = [slot EXCEPT ![s] = 0],
         cancelled' = cancelled \cup {slot[s]}, UNCHANGED listening
  PROVE  Servers'
<1> DEFINE port == slot[s]
<1>1. port \in Ports /\ port \in listening \ cancelled
  BY DEF Servers
<1>2. hand' \in [Callers -> Ports \cup {0}] /\ slot' \in [Slots -> Ports \cup {0}]
  BY <1>1 DEF Servers
<1>3. pc'[p] = l /\ hand'[p] = port /\ \A q \in Callers \ {p} : pc'[q] = pc[q] /\ hand'[q] = hand[q]
  BY DEF Servers, Procs
<1>4. slot'[s] = 0 /\ \A x \in Slots \ {s} : slot'[x] = slot[x] /\ slot[x] # port
  BY DEF Servers, Slots
<1>5. \A q \in Callers : hand[q] # port
  BY DEF Servers
<1>6. \A x \in Slots : slot'[x] # 0 => slot'[x] \in listening' \ cancelled'
  BY <1>4 DEF Servers
<1>7. ASSUME NEW q \in Callers, hand'[q] # 0
      PROVE  /\ pc'[q] \in {"store", "storeAudit", "await", "awaitAudit"}
             /\ hand'[q] \in listening'
             /\ \A x \in Slots : slot'[x] # hand'[q]
             /\ \A r \in Callers \ {q} : hand'[r] # hand'[q]
  BY <1>1, <1>3, <1>4, <1>5, <1>7 DEF Servers
<1>8. \A q \in Callers :
        /\ pc'[q] \in {"store", "storeAudit"} => hand'[q] # 0 /\ hand'[q] \notin cancelled'
        /\ pc'[q] \in {"await", "awaitAudit"} /\ hand'[q] # 0 => hand'[q] \in cancelled'
  BY <1>3, <1>5 DEF Servers
<1>9. slot'["main"] # 0 => slot'["main"] # slot'["audit"]
  BY <1>4 DEF Servers, Slots
<1>10. cancelled' \subseteq listening' /\ listening' \subseteq Ports
  BY <1>1 DEF Servers
<1> QED
  BY <1>2, <1>6, <1>7, <1>8, <1>9, <1>10 DEF Servers

LEMMA InitServicesKept ==
  ASSUME ServicesInv, Patient, NEW p \in Boots, InitServices(p)
  PROVE  ServicesInv'
<1> USE NamesAssumption, PortsAssumption DEF ServicesInv, Procs, Callers, Boots, Slots,
    serverVars, taskVars, uiVars, Steps, Ops, InitSteps, StartSteps, StopSteps, Emptied, LogoutSteps
<1>1. Places'
  <2>1. PICK l \in {"idle", "network"}, o \in {"none", "init"} :
          /\ pc' = [pc EXCEPT ![p] = l] /\ op' = [op EXCEPT ![p] = o]
          /\ l = "idle" <=> o = "none"
    BY DEF InitServices, Return
  <2>2. UNCHANGED internal
    BY DEF InitServices
  <2> QED
    BY <2>1, <2>2 DEF Places
<1>2. Turns'
  BY DEF InitServices, Return, Places, Turns, Initing, Logout, Idle
<1>3. Locks'
  BY DEF InitServices, Return, Places, Locks, Logout, Idle, Turns
<1>4. Servers'
  BY DEF InitServices, Return, Places, Locks, Servers, Configured, Turns, Initing
<1>5. Configured'
  BY DEF InitServices, Return, Places, Turns, Locks, Servers, Configured, Initing, Logout,
    Idle, Configs, Drained
<1>6. Drained'
  BY DEF InitServices, Return, Places, Turns, Servers, Drained, NoOrphanServer, Configured,
    Idle, Logout, Initing, Locks
<1>7. Background'
  BY DEF InitServices, Return, Places, Turns, Background, Logout, Idle, Initing
<1>8. NoOrphanServer'
  BY DEF InitServices, Return, Places, Servers, Configured, NoOrphanServer, Turns, Initing,
    Locks, Idle
<1> QED
  BY <1>1, <1>2, <1>3, <1>4, <1>5, <1>6, <1>7, <1>8

LEMMA StartPoolKept ==
  ASSUME ServicesInv, Patient, NEW p \in Boots, StartPool(p)
  PROVE  ServicesInv'
<1> USE NamesAssumption, PortsAssumption DEF ServicesInv, Procs, Callers, Boots, Slots,
    serverVars, taskVars, uiVars, Steps, Ops, InitSteps, StartSteps, StopSteps, Emptied, LogoutSteps
<1>1. Places'
  BY DEF StartPool, Goto, Places
<1>2. Turns'
  BY DEF StartPool, Goto, Places, Turns, Initing, Logout, Idle
<1>3. Locks'
  BY DEF StartPool, Goto, Places, Locks, Logout, Idle, Turns
<1>4. Servers'
  BY DEF StartPool, Goto, Places, Locks, Servers, Configured, Turns, Initing
<1>5. Configured'
  BY DEF StartPool, Goto, Places, Turns, Locks, Servers, Configured, Initing, Logout, Idle,
    Configs, Drained
<1>6. Drained'
  BY DEF StartPool, Goto, Places, Turns, Servers, Drained, NoOrphanServer, Configured, Idle,
    Logout, Initing, Locks
<1>7. Background'
  BY DEF StartPool, Goto, Places, Turns, Background, Logout, Idle, Initing
<1>8. NoOrphanServer'
  BY DEF StartPool, Goto, Places, Servers, Configured, NoOrphanServer, Turns, Initing, Locks,
    Idle
<1> QED
  BY <1>1, <1>2, <1>3, <1>4, <1>5, <1>6, <1>7, <1>8

LEMMA StartMonitorKept ==
  ASSUME ServicesInv, Patient, NEW p \in Boots, StartMonitor(p)
  PROVE  ServicesInv'
<1> USE NamesAssumption, PortsAssumption DEF ServicesInv, Procs, Callers, Boots, Slots,
    serverVars, taskVars, uiVars, Steps, Ops, InitSteps, StartSteps, StopSteps, Emptied, LogoutSteps
<1>1. Places'
  BY DEF StartMonitor, Goto, Places
<1>2. Turns'
  BY DEF StartMonitor, Goto, Places, Turns, Initing, Logout, Idle
<1>3. Locks'
  BY DEF StartMonitor, Goto, Places, Locks, Logout, Idle, Turns
<1>4. Servers'
  BY DEF StartMonitor, Goto, Places, Locks, Servers, Configured, Turns, Initing
<1>5. Configured'
  BY DEF StartMonitor, Goto, Places, Turns, Locks, Servers, Configured, Initing, Logout, Idle,
    Configs, Drained
<1>6. Drained'
  BY DEF StartMonitor, Goto, Places, Turns, Servers, Drained, NoOrphanServer, Configured,
    Idle, Logout, Initing, Locks
<1>7. Background'
  BY DEF StartMonitor, Goto, Places, Turns, Background, Logout, Idle, Initing
<1>8. NoOrphanServer'
  BY DEF StartMonitor, Goto, Places, Servers, Configured, NoOrphanServer, Turns, Initing,
    Locks, Idle
<1> QED
  BY <1>1, <1>2, <1>3, <1>4, <1>5, <1>6, <1>7, <1>8

LEMMA KeepMonitorKept ==
  ASSUME ServicesInv, Patient, NEW p \in Boots, KeepMonitor(p)
  PROVE  ServicesInv'
<1> USE NamesAssumption, PortsAssumption DEF ServicesInv, Procs, Callers, Boots, Slots,
    serverVars, taskVars, uiVars, Steps, Ops, InitSteps, StartSteps, StopSteps, Emptied, LogoutSteps
<1>1. Places'
  BY DEF KeepMonitor, Goto, Places
<1>2. Turns'
  BY DEF KeepMonitor, Goto, Places, Turns, Initing, Logout, Idle
<1>3. Locks'
  BY DEF KeepMonitor, Goto, Places, Locks, Logout, Idle, Turns
<1>4. Servers'
  BY DEF KeepMonitor, Goto, Places, Locks, Servers, Configured, Turns, Initing
<1>5. Configured'
  BY DEF KeepMonitor, Goto, Places, Turns, Locks, Servers, Configured, Initing, Logout, Idle,
    Configs, Drained
<1>6. Drained'
  BY DEF KeepMonitor, Goto, Places, Turns, Servers, Drained, NoOrphanServer, Configured, Idle,
    Logout, Initing, Locks
<1>7. Background'
  BY DEF KeepMonitor, Goto, Places, Turns, Background, Logout, Idle, Initing
<1>8. NoOrphanServer'
  BY DEF KeepMonitor, Goto, Places, Servers, Configured, NoOrphanServer, Turns, Initing,
    Locks, Idle
<1> QED
  BY <1>1, <1>2, <1>3, <1>4, <1>5, <1>6, <1>7, <1>8

LEMMA SpawnLicenseKept ==
  ASSUME ServicesInv, Patient, NEW p \in Boots, SpawnLicense(p)
  PROVE  ServicesInv'
<1> USE NamesAssumption, PortsAssumption DEF ServicesInv, Procs, Callers, Boots, Slots,
    serverVars, taskVars, uiVars, Steps, Ops, InitSteps, StartSteps, StopSteps, Emptied, LogoutSteps
<1>1. Places'
  <2>1. PICK l \in {"bind", "return"} :
          /\ pc' \in [Procs -> Steps] /\ pc'[p] = l
          /\ \A q \in Callers \ {p} : pc'[q] = pc[q]
          /\ \A t \in Tasks : pc'[t] \in {pc[t], "fetch"}
    <3>1. CASE internal
      BY ZenonT(60), <3>1 DEF SpawnLicense, Goto, Places, Steps
    <3>2. CASE ~internal
      <4>1. PICK l \in {"bind", "return"}, t \in Tasks : pc' = [pc EXCEPT ![p] = l, ![t] = "fetch"]
        BY <3>2 DEF SpawnLicense
      <4> QED
        <5>1. p \in Procs /\ t \in Procs /\ p # t /\ \A q \in Callers : q # t
          BY NamesAssumption
        <5>2. pc \in [Procs -> Steps]
          BY DEF Places
        <5> QED
          BY <4>1, <5>1, <5>2
    <3> QED
      BY <3>1, <3>2
  <2>2. UNCHANGED <<internal, op>> /\ pc[p] = "load"
    BY DEF SpawnLicense, Goto
  <2> QED
    BY <2>1, <2>2 DEF Places
<1>2. Turns'
  BY DEF SpawnLicense, Goto, Places, Turns, Initing, Logout, Idle
<1>3. Locks'
  BY DEF SpawnLicense, Goto, Places, Locks, Logout, Idle, Turns
<1>4. Servers'
  BY DEF SpawnLicense, Goto, Places, Locks, Servers, Configured, Turns, Initing
<1>5. Configured'
  BY DEF SpawnLicense, Goto, Places, Turns, Locks, Servers, Configured, Initing, Logout, Idle,
    Configs, Drained
<1>6. Drained'
  BY DEF SpawnLicense, Goto, Places, Turns, Servers, Drained, NoOrphanServer, Configured,
    Idle, Logout, Initing, Locks
<1>7. Background'
  BY DEF SpawnLicense, Goto, Places, Turns, Background, Logout, Idle, Initing
<1>8. NoOrphanServer'
  BY DEF SpawnLicense, Goto, Places, Servers, Configured, NoOrphanServer, Turns, Initing,
    Locks, Idle
<1> QED
  BY <1>1, <1>2, <1>3, <1>4, <1>5, <1>6, <1>7, <1>8

LEMMA StartGatewayKept ==
  ASSUME ServicesInv, Patient, NEW p \in Callers, StartGateway(p)
  PROVE  ServicesInv'
<1> USE NamesAssumption, PortsAssumption DEF ServicesInv, Procs, Callers, Boots, Slots,
    serverVars, taskVars, uiVars, Steps, Ops, InitSteps, StartSteps, StopSteps, Emptied, LogoutSteps
<1>1. Places'
  BY DEF StartGateway, Goto, Free, Places
<1>2. Turns'
  BY DEF StartGateway, Goto, Free, Places, Turns, Initing, Logout, Idle
<1>3. Locks'
  BY DEF StartGateway, Goto, Free, Places, Locks, Logout, Idle, Turns
<1>4. Servers'
  BY DEF StartGateway, Goto, Free, Places, Locks, Servers, Configured, Turns, Initing
<1>5. Configured'
  BY DEF StartGateway, Goto, Free, Places, Turns, Locks, Servers, Configured, Initing, Logout,
    Idle, Configs, Drained
<1>6. Drained'
  BY DEF StartGateway, Goto, Free, Places, Turns, Servers, Drained, NoOrphanServer,
    Configured, Idle, Logout, Initing, Locks
<1>7. Background'
  BY DEF StartGateway, Goto, Free, Places, Turns, Background, Logout, Idle, Initing
<1>8. NoOrphanServer'
  BY DEF StartGateway, Goto, Free, Places, Servers, Configured, NoOrphanServer, Turns,
    Initing, Locks, Idle
<1> QED
  BY <1>1, <1>2, <1>3, <1>4, <1>5, <1>6, <1>7, <1>8

LEMMA BindMainKept ==
  ASSUME ServicesInv, Patient, NEW p \in Callers, BindMain(p)
  PROVE  ServicesInv'
<1> USE NamesAssumption, PortsAssumption DEF ServicesInv, Procs, Callers, Boots, Slots,
    serverVars, taskVars, uiVars, Steps, Ops, InitSteps, StartSteps, StopSteps, Emptied, LogoutSteps
<1>1. Places'
  BY DEF BindMain, Goto, Bind, Places
<1>2. Turns'
  BY DEF BindMain, Goto, Bind, Places, Turns, Initing, Logout, Idle
<1>3. Locks'
  BY DEF BindMain, Goto, Bind, Places, Locks, Logout, Idle, Turns
<1>4. Servers'
  <2>1. /\ pc' = [pc EXCEPT ![p] = "store"] /\ config.port \in Ports \ listening
        /\ hand' = [hand EXCEPT ![p] = config.port] /\ listening' = listening \cup {config.port}
        /\ UNCHANGED <<slot, cancelled>>
    BY DEF BindMain, Bind, Goto, Configured, Configs
  <2> QED
    BY <2>1, ServerBound DEF Places
<1>5. Configured'
  BY DEF BindMain, Goto, Bind, Places, Turns, Locks, Servers, Configured, Initing, Logout,
    Idle, Configs, Drained
<1>6. Drained'
  BY DEF BindMain, Goto, Bind, Places, Turns, Servers, Drained, NoOrphanServer, Configured,
    Idle, Logout, Initing, Locks
<1>7. Background'
  BY DEF BindMain, Goto, Bind, Places, Turns, Background, Logout, Idle, Initing
<1>8. NoOrphanServer'
  BY DEF BindMain, Goto, Bind, Places, Servers, Configured, NoOrphanServer, Turns, Initing,
    Locks, Idle
<1> QED
  BY <1>1, <1>2, <1>3, <1>4, <1>5, <1>6, <1>7, <1>8

LEMMA BindFailedKept ==
  ASSUME ServicesInv, Patient, NEW p \in Callers, BindFailed(p)
  PROVE  ServicesInv'
<1> USE NamesAssumption, PortsAssumption DEF ServicesInv, Procs, Callers, Boots, Slots,
    serverVars, taskVars, uiVars, Steps, Ops, InitSteps, StartSteps, StopSteps, Emptied, LogoutSteps
<1>1. Places'
  BY DEF BindFailed, Goto, Places
<1>2. Turns'
  BY DEF BindFailed, Goto, Places, Turns, Initing, Logout, Idle
<1>3. Locks'
  BY DEF BindFailed, Goto, Places, Locks, Logout, Idle, Turns
<1>4. Servers'
  BY DEF BindFailed, Goto, Places, Locks, Servers, Configured, Turns, Initing
<1>5. Configured'
  BY DEF BindFailed, Goto, Places, Turns, Locks, Servers, Configured, Initing, Logout, Idle,
    Configs, Drained
<1>6. Drained'
  BY DEF BindFailed, Goto, Places, Turns, Servers, Drained, NoOrphanServer, Configured, Idle,
    Logout, Initing, Locks
<1>7. Background'
  BY DEF BindFailed, Goto, Places, Turns, Background, Logout, Idle, Initing
<1>8. NoOrphanServer'
  BY DEF BindFailed, Goto, Places, Servers, Configured, NoOrphanServer, Turns, Initing, Locks,
    Idle
<1> QED
  BY <1>1, <1>2, <1>3, <1>4, <1>5, <1>6, <1>7, <1>8

LEMMA StoreMainKept ==
  ASSUME ServicesInv, Patient, NEW p \in Callers, StoreMain(p)
  PROVE  ServicesInv'
<1> USE NamesAssumption, PortsAssumption DEF ServicesInv, Procs, Callers, Boots, Slots,
    serverVars, taskVars, uiVars, Steps, Ops, InitSteps, StartSteps, StopSteps, Emptied, LogoutSteps
<1>1. Places'
  <2>1. pc[p] = "store" /\ UNCHANGED <<internal, op>>
    BY DEF StoreMain, Goto
  <2>2. PICK l \in {"bindAudit", "return"} :
          pc' = [pc EXCEPT ![p] = l] /\ (l = "bindAudit" => internal)
    BY <2>1 DEF StoreMain, Goto, Configured, Configs
  <2> QED
    BY <2>1, <2>2 DEF Places
<1>2. Turns'
  BY DEF StoreMain, Goto, Places, Turns, Initing, Logout, Idle
<1>3. Locks'
  BY DEF StoreMain, Goto, Places, Locks, Logout, Idle, Turns
<1>4. Servers'
  BY DEF StoreMain, Goto, Places, Locks, Servers, Configured, Turns, Initing
<1>5. Configured'
  BY DEF StoreMain, Goto, Places, Turns, Locks, Servers, Configured, Initing, Logout, Idle,
    Configs, Drained
<1>6. Drained'
  BY DEF StoreMain, Goto, Places, Turns, Servers, Drained, NoOrphanServer, Configured, Idle,
    Logout, Initing, Locks
<1>7. Background'
  BY DEF StoreMain, Goto, Places, Turns, Background, Logout, Idle, Initing
<1>8. NoOrphanServer'
  BY DEF StoreMain, Goto, Places, Servers, Configured, NoOrphanServer, Turns, Initing, Locks,
    Idle
<1> QED
  BY <1>1, <1>2, <1>3, <1>4, <1>5, <1>6, <1>7, <1>8

LEMMA BindAuditKept ==
  ASSUME ServicesInv, Patient, NEW p \in Callers, BindAudit(p)
  PROVE  ServicesInv'
<1> USE NamesAssumption, PortsAssumption DEF ServicesInv, Procs, Callers, Boots, Slots,
    serverVars, taskVars, uiVars, Steps, Ops, InitSteps, StartSteps, StopSteps, Emptied, LogoutSteps
<1>1. Places'
  BY DEF BindAudit, Goto, Bind, Places
<1>2. Turns'
  BY DEF BindAudit, Goto, Bind, Places, Turns, Initing, Logout, Idle
<1>3. Locks'
  BY DEF BindAudit, Goto, Bind, Places, Locks, Logout, Idle, Turns
<1>4. Servers'
  <2>1. /\ pc' = [pc EXCEPT ![p] = "storeAudit"] /\ next[p] \in Ports \ listening
        /\ hand' = [hand EXCEPT ![p] = next[p]] /\ listening' = listening \cup {next[p]}
        /\ UNCHANGED <<slot, cancelled>>
    BY DEF BindAudit, Bind, Goto, Configured
  <2> QED
    BY <2>1, ServerBound DEF Places
<1>5. Configured'
  BY DEF BindAudit, Goto, Bind, Places, Turns, Locks, Servers, Configured, Initing, Logout,
    Idle, Configs, Drained
<1>6. Drained'
  BY DEF BindAudit, Goto, Bind, Places, Turns, Servers, Drained, NoOrphanServer, Configured,
    Idle, Logout, Initing, Locks
<1>7. Background'
  BY DEF BindAudit, Goto, Bind, Places, Turns, Background, Logout, Idle, Initing
<1>8. NoOrphanServer'
  BY DEF BindAudit, Goto, Bind, Places, Servers, Configured, NoOrphanServer, Turns, Initing,
    Locks, Idle
<1> QED
  BY <1>1, <1>2, <1>3, <1>4, <1>5, <1>6, <1>7, <1>8

LEMMA StoreAuditKept ==
  ASSUME ServicesInv, Patient, NEW p \in Callers, StoreAudit(p)
  PROVE  ServicesInv'
<1> USE NamesAssumption, PortsAssumption DEF ServicesInv, Procs, Callers, Boots, Slots,
    serverVars, taskVars, uiVars, Steps, Ops, InitSteps, StartSteps, StopSteps, Emptied, LogoutSteps
<1>1. Places'
  BY DEF StoreAudit, Goto, Free, Places
<1>2. Turns'
  BY DEF StoreAudit, Goto, Free, Places, Turns, Initing, Logout, Idle
<1>3. Locks'
  BY DEF StoreAudit, Goto, Free, Places, Locks, Logout, Idle, Turns
<1>4. Servers'
  BY DEF StoreAudit, Goto, Free, Places, Locks, Servers, Configured, Turns, Initing
<1>5. Configured'
  BY DEF StoreAudit, Goto, Free, Places, Turns, Locks, Servers, Configured, Initing, Logout,
    Idle, Configs, Drained
<1>6. Drained'
  BY DEF StoreAudit, Goto, Free, Places, Turns, Servers, Drained, NoOrphanServer, Configured,
    Idle, Logout, Initing, Locks
<1>7. Background'
  BY DEF StoreAudit, Goto, Free, Places, Turns, Background, Logout, Idle, Initing
<1>8. NoOrphanServer'
  BY DEF StoreAudit, Goto, Free, Places, Servers, Configured, NoOrphanServer, Turns, Initing,
    Locks, Idle
<1> QED
  BY <1>1, <1>2, <1>3, <1>4, <1>5, <1>6, <1>7, <1>8

LEMMA ReturnCallKept ==
  ASSUME ServicesInv, Patient, NEW p \in Callers, ReturnCall(p)
  PROVE  ServicesInv'
<1> USE NamesAssumption, PortsAssumption DEF ServicesInv, Procs, Callers, Boots, Slots,
    serverVars, taskVars, uiVars, Steps, Ops, InitSteps, StartSteps, StopSteps, Emptied, LogoutSteps
<1>1. Places'
  BY DEF ReturnCall, Return, Places
<1>2. Turns'
  BY DEF ReturnCall, Return, Places, Turns, Initing, Logout, Idle
<1>3. Locks'
  BY DEF ReturnCall, Return, Places, Locks, Logout, Idle, Turns
<1>4. Servers'
  BY DEF ReturnCall, Return, Places, Locks, Servers, Configured, Turns, Initing
<1>5. Configured'
  BY DEF ReturnCall, Return, Places, Turns, Locks, Servers, Configured, Initing, Logout, Idle,
    Configs, Drained
<1>6. Drained'
  BY DEF ReturnCall, Return, Places, Turns, Servers, Drained, NoOrphanServer, Configured,
    Idle, Logout, Initing, Locks
<1>7. Background'
  BY DEF ReturnCall, Return, Places, Turns, Background, Logout, Idle, Initing
<1>8. NoOrphanServer'
  BY DEF ReturnCall, Return, Places, Servers, Configured, NoOrphanServer, Turns, Initing,
    Locks, Idle
<1> QED
  BY <1>1, <1>2, <1>3, <1>4, <1>5, <1>6, <1>7, <1>8

LEMMA StopKept ==
  ASSUME ServicesInv, Patient, NEW p \in Callers, NEW s \in Slots, Stop(p, s)
  PROVE  ServicesInv'
<1> USE NamesAssumption, PortsAssumption DEF ServicesInv, Procs, Callers, Boots, Slots,
    serverVars, taskVars, uiVars, Steps, Ops, InitSteps, StartSteps, StopSteps, Emptied, LogoutSteps
<1>1. Places'
  <2>1. pc[p] = Stopping(s) /\ UNCHANGED <<internal, op>>
    BY DEF Stop, Goto
  <2>2. CASE p = "gateway"
    <3>1. PICK l \in {"await", "awaitAudit", "stopAudit", "return"} :
            pc' = [pc EXCEPT ![p] = l] /\ (l \in {"awaitAudit", "stopAudit"} => internal)
      BY <2>1, <2>2 DEF Stop, Goto, Stopping, Awaiting, AfterStop, Places, StartSteps, StopSteps
    <3> QED
      BY <2>1, <2>2, <3>1 DEF Places, Stopping
  <2>3. CASE p # "gateway"
    <3>1. p = "account" /\ s = "main" /\ op[p] = "logout" /\ ~internal
      BY <2>1, <2>3 DEF Stopping, Places
    <3>2. PICK l \in {"await", "stopMonitor"} : pc' = [pc EXCEPT ![p] = l]
      BY <3>1 DEF Stop, Goto, Awaiting, AfterStop
    <3> QED
      BY <2>1, <3>1, <3>2 DEF Places
  <2> QED
    BY <2>2, <2>3
<1>2. Turns'
  BY DEF Stop, Goto, Free, Stopping, Awaiting, AfterStop, Places, Turns, Initing, Logout, Idle
<1>3. Locks'
  BY DEF Stop, Goto, Free, Stopping, Awaiting, AfterStop, Places, Locks, Logout, Idle, Turns
<1>4. Servers'
  <2>1. pc[p] \in {"stop", "stopAudit"} /\ UNCHANGED listening
    BY DEF Stop, Stopping
  <2>2. hand[p] = 0
    BY <2>1 DEF Servers
  <2>3. CASE slot[s] = 0
    <3>1. slot' = slot /\ UNCHANGED <<hand, cancelled>>
      BY <2>3 DEF Stop, Servers
    <3>2. PICK l \in {"return", "stopAudit", "stopMonitor"} : pc' = [pc EXCEPT ![p] = l]
      BY <2>3 DEF Stop, Goto, AfterStop
    <3> QED
      BY <2>1, <2>2, <3>1, <3>2 DEF Servers, Places
  <2>4. CASE slot[s] # 0
    <3>1. /\ pc' = [pc EXCEPT ![p] = Awaiting(s)] /\ hand' = [hand EXCEPT ![p] = slot[s]]
          /\ slot' = [slot EXCEPT ![s] = 0] /\ cancelled' = cancelled \cup {slot[s]}
      BY <2>4 DEF Stop, Goto
    <3>2. Awaiting(s) \in {"await", "awaitAudit"}
      BY DEF Awaiting
    <3> QED
      BY ZenonT(60), <2>1, <2>2, <2>4, <3>1, <3>2, ServerTaken DEF Places
  <2> QED
    BY <2>3, <2>4
<1>5. Configured'
  BY DEF Stop, Goto, Free, Stopping, Awaiting, AfterStop, Places, Turns, Locks, Servers,
    Configured, Initing, Logout, Idle, Configs, Drained
<1>6. Drained'
  BY DEF Stop, Goto, Free, Stopping, Awaiting, AfterStop, Places, Turns, Servers, Drained,
    NoOrphanServer, Configured, Idle, Logout, Initing, Locks
<1>7. Background'
  BY DEF Stop, Goto, Free, Stopping, Awaiting, AfterStop, Places, Turns, Background, Logout,
    Idle, Initing
<1>8. NoOrphanServer'
  BY DEF Stop, Goto, Free, Stopping, Awaiting, AfterStop, Places, Servers, Configured,
    NoOrphanServer, Turns, Initing, Locks, Idle
<1> QED
  BY <1>1, <1>2, <1>3, <1>4, <1>5, <1>6, <1>7, <1>8

LEMMA StoppedKept ==
  ASSUME ServicesInv, Patient, NEW p \in Callers, NEW s \in Slots, Stopped(p, s)
  PROVE  ServicesInv'
<1> USE NamesAssumption, PortsAssumption DEF ServicesInv, Procs, Callers, Boots, Slots,
    serverVars, taskVars, uiVars, Steps, Ops, InitSteps, StartSteps, StopSteps, Emptied, LogoutSteps
<1>1. Places'
  BY DEF Stopped, Goto, Awaiting, AfterStop, Places
<1>2. Turns'
  BY DEF Stopped, Goto, Awaiting, AfterStop, Places, Turns, Initing, Logout, Idle
<1>3. Locks'
  BY DEF Stopped, Goto, Awaiting, AfterStop, Places, Locks, Logout, Idle, Turns
<1>4. Servers'
  BY DEF Stopped, Goto, Awaiting, AfterStop, Places, Locks, Servers, Configured, Turns, Initing
<1>5. Configured'
  BY DEF Stopped, Goto, Awaiting, AfterStop, Places, Turns, Locks, Servers, Configured,
    Initing, Logout, Idle, Configs, Drained
<1>6. Drained'
  BY DEF Stopped, Goto, Awaiting, AfterStop, Places, Turns, Servers, Drained, NoOrphanServer,
    Configured, Idle, Logout, Initing, Locks
<1>7. Background'
  BY DEF Stopped, Goto, Awaiting, AfterStop, Places, Turns, Background, Logout, Idle, Initing
<1>8. NoOrphanServer'
  BY DEF Stopped, Goto, Awaiting, AfterStop, Places, Servers, Configured, NoOrphanServer,
    Turns, Initing, Locks, Idle
<1> QED
  BY <1>1, <1>2, <1>3, <1>4, <1>5, <1>6, <1>7, <1>8

LEMMA StopMonitorKept ==
  ASSUME ServicesInv, Patient, StopMonitor("account")
  PROVE  ServicesInv'
<1> USE NamesAssumption, PortsAssumption DEF ServicesInv, Procs, Callers, Boots, Slots,
    serverVars, taskVars, uiVars, Steps, Ops, InitSteps, StartSteps, StopSteps, Emptied, LogoutSteps
<1>1. Places'
  BY DEF StopMonitor, Goto, Places
<1>2. Turns'
  BY DEF StopMonitor, Goto, Places, Turns, Initing, Logout, Idle
<1>3. Locks'
  BY DEF StopMonitor, Goto, Places, Locks, Logout, Idle, Turns
<1>4. Servers'
  BY DEF StopMonitor, Goto, Places, Locks, Servers, Configured, Turns, Initing
<1>5. Configured'
  BY DEF StopMonitor, Goto, Places, Turns, Locks, Servers, Configured, Initing, Logout, Idle,
    Configs, Drained
<1>6. Drained'
  BY DEF StopMonitor, Goto, Places, Turns, Servers, Drained, NoOrphanServer, Configured, Idle,
    Logout, Initing, Locks
<1>7. Background'
  <2>1. /\ Logout /\ pc["account"] = "stopMonitor"
        /\ \A p \in Boots : pc[p] = "idle"
    BY DEF StopMonitor, Turns, Logout, Idle, Places
  <2>2. pc' = [pc EXCEPT !["account"] = "stopPool"] /\ monitor' = FALSE
        /\ UNCHANGED <<op, initialized, pool>>
    BY DEF StopMonitor, Goto
  <2>3. loops' = 0
    BY <2>1 DEF StopMonitor, Background
  <2>4. \A p \in Boots : pc'[p] = "idle"
    BY <2>1, <2>2 DEF Places
  <2>5. pc'["account"] = "stopPool"
    BY <2>2 DEF Places
  <2>6. loops' = (IF monitor' THEN 1 ELSE 0) + (IF \E p \in Boots : pc'[p] = "keep" THEN 1 ELSE 0)
    BY <2>2, <2>3, <2>4
  <2> QED
    BY <2>2, <2>4, <2>5, <2>6 DEF Background, Emptied, Logout
<1>8. NoOrphanServer'
  BY DEF StopMonitor, Goto, Places, Servers, Configured, NoOrphanServer, Turns, Initing,
    Locks, Idle
<1> QED
  BY <1>1, <1>2, <1>3, <1>4, <1>5, <1>6, <1>7, <1>8

LEMMA StopPoolKept ==
  ASSUME ServicesInv, Patient, StopPool("account")
  PROVE  ServicesInv'
<1> USE NamesAssumption, PortsAssumption DEF ServicesInv, Procs, Callers, Boots, Slots,
    serverVars, taskVars, uiVars, Steps, Ops, InitSteps, StartSteps, StopSteps, Emptied, LogoutSteps
<1>1. Places'
  BY DEF StopPool, Goto, Places
<1>2. Turns'
  BY DEF StopPool, Goto, Places, Turns, Initing, Logout, Idle
<1>3. Locks'
  BY DEF StopPool, Goto, Places, Locks, Logout, Idle, Turns
<1>4. Servers'
  BY DEF StopPool, Goto, Places, Locks, Servers, Configured, Turns, Initing
<1>5. Configured'
  BY DEF StopPool, Goto, Places, Turns, Locks, Servers, Configured, Initing, Logout, Idle,
    Configs, Drained
<1>6. Drained'
  BY DEF StopPool, Goto, Places, Turns, Servers, Drained, NoOrphanServer, Configured, Idle,
    Logout, Initing, Locks
<1>7. Background'
  BY DEF StopPool, Goto, Places, Turns, Background, Logout, Idle, Initing
<1>8. NoOrphanServer'
  BY DEF StopPool, Goto, Places, Servers, Configured, NoOrphanServer, Turns, Initing, Locks,
    Idle
<1> QED
  BY <1>1, <1>2, <1>3, <1>4, <1>5, <1>6, <1>7, <1>8

LEMMA ResetKept ==
  ASSUME ServicesInv, Patient, Reset("account")
  PROVE  ServicesInv'
<1> USE NamesAssumption, PortsAssumption DEF ServicesInv, Procs, Callers, Boots, Slots,
    serverVars, taskVars, uiVars, Steps, Ops, InitSteps, StartSteps, StopSteps, Emptied, LogoutSteps
<1>1. Places'
  BY DEF Reset, Goto, Places
<1>2. Turns'
  BY DEF Reset, Goto, Places, Turns, Initing, Logout, Idle
<1>3. Locks'
  BY DEF Reset, Goto, Places, Locks, Logout, Idle, Turns
<1>4. Servers'
  BY DEF Reset, Goto, Places, Locks, Servers, Configured, Turns, Initing
<1>5. Configured'
  BY DEF Reset, Goto, Places, Turns, Locks, Servers, Configured, Initing, Logout, Idle,
    Configs, Drained
<1>6. Drained'
  BY DEF Reset, Goto, Places, Turns, Servers, Drained, NoOrphanServer, Configured, Idle,
    Logout, Initing, Locks
<1>7. Background'
  BY DEF Reset, Goto, Places, Turns, Background, Logout, Idle, Initing
<1>8. NoOrphanServer'
  BY DEF Reset, Goto, Places, Servers, Configured, NoOrphanServer, Turns, Initing, Locks, Idle
<1> QED
  BY <1>1, <1>2, <1>3, <1>4, <1>5, <1>6, <1>7, <1>8

LEMMA SetFirstKept ==
  ASSUME ServicesInv, Patient, SetFirst("account")
  PROVE  ServicesInv'
<1> USE NamesAssumption, PortsAssumption DEF ServicesInv, Procs, Callers, Boots, Slots,
    serverVars, taskVars, uiVars, Steps, Ops, InitSteps, StartSteps, StopSteps, Emptied, LogoutSteps
<1>1. Places'
  BY DEF SetFirst, Goto, Put, Places
<1>2. Turns'
  BY DEF SetFirst, Goto, Put, Places, Turns, Initing, Logout, Idle
<1>3. Locks'
  BY DEF SetFirst, Goto, Put, Places, Locks, Logout, Idle, Turns
<1>4. Servers'
  BY DEF SetFirst, Goto, Put, Places, Locks, Servers, Configured, Turns, Initing
<1>5. Configured'
  BY DEF SetFirst, Goto, Put, Places, Turns, Locks, Servers, Configured, Initing, Logout,
    Idle, Configs, Drained
<1>6. Drained'
  BY DEF SetFirst, Goto, Put, Places, Turns, Servers, Drained, NoOrphanServer, Configured,
    Idle, Logout, Initing, Locks
<1>7. Background'
  BY DEF SetFirst, Goto, Put, Places, Turns, Background, Logout, Idle, Initing
<1>8. NoOrphanServer'
  BY DEF SetFirst, Goto, Put, Places, Servers, Configured, NoOrphanServer, Turns, Initing,
    Locks, Idle
<1> QED
  BY <1>1, <1>2, <1>3, <1>4, <1>5, <1>6, <1>7, <1>8

LEMMA SetFailedKept ==
  ASSUME ServicesInv, Patient, SetFailed("account")
  PROVE  ServicesInv'
<1> USE NamesAssumption, PortsAssumption DEF ServicesInv, Procs, Callers, Boots, Slots,
    serverVars, taskVars, uiVars, Steps, Ops, InitSteps, StartSteps, StopSteps, Emptied, LogoutSteps
<1>1. Places'
  BY DEF SetFailed, Goto, Places
<1>2. Turns'
  BY DEF SetFailed, Goto, Places, Turns, Initing, Logout, Idle
<1>3. Locks'
  BY DEF SetFailed, Goto, Places, Locks, Logout, Idle, Turns
<1>4. Servers'
  BY DEF SetFailed, Goto, Places, Locks, Servers, Configured, Turns, Initing
<1>5. Configured'
  BY DEF SetFailed, Goto, Places, Turns, Locks, Servers, Configured, Initing, Logout, Idle,
    Configs, Drained
<1>6. Drained'
  BY DEF SetFailed, Goto, Places, Turns, Servers, Drained, NoOrphanServer, Configured, Idle,
    Logout, Initing, Locks
<1>7. Background'
  BY DEF SetFailed, Goto, Places, Turns, Background, Logout, Idle, Initing
<1>8. NoOrphanServer'
  BY DEF SetFailed, Goto, Places, Servers, Configured, NoOrphanServer, Turns, Initing, Locks,
    Idle
<1> QED
  BY <1>1, <1>2, <1>3, <1>4, <1>5, <1>6, <1>7, <1>8

LEMMA SetSecondKept ==
  ASSUME ServicesInv, Patient, SetSecond("account")
  PROVE  ServicesInv'
<1> USE NamesAssumption, PortsAssumption DEF ServicesInv, Procs, Callers, Boots, Slots,
    serverVars, taskVars, uiVars, Steps, Ops, InitSteps, StartSteps, StopSteps, Emptied, LogoutSteps
<1>1. Places'
  <2>1. UNCHANGED <<internal, op>> /\ pc["account"] = "set2"
    BY DEF SetSecond
  <2>2. op["account"] = "login" => pc["boot"] = "idle" /\ op["boot"] = "none"
    BY <2>1 DEF Turns, Places
  <2>3. /\ pc' \in [Procs -> Steps] /\ pc'["account"] = "return"
        /\ \A q \in Tasks \cup {"app", "gateway"} : pc'[q] = pc[q]
        /\ pc'["boot"] \in {pc["boot"], "init"}
        /\ op["account"] # "login" => pc'["boot"] = pc["boot"]
    BY DEF SetSecond, Places, Steps
  <2> QED
    BY <2>1, <2>2, <2>3 DEF Places
<1>2. Turns'
  BY DEF SetSecond, Put, Places, Turns, Initing, Logout, Idle
<1>3. Locks'
  BY DEF SetSecond, Put, Places, Locks, Logout, Idle, Turns
<1>4. Servers'
  BY DEF SetSecond, Put, Places, Locks, Servers, Configured, Turns, Initing
<1>5. Configured'
  BY DEF SetSecond, Put, Places, Turns, Locks, Servers, Configured, Initing, Logout, Idle,
    Configs, Drained
<1>6. Drained'
  BY DEF SetSecond, Put, Places, Turns, Servers, Drained, NoOrphanServer, Configured, Idle,
    Logout, Initing, Locks
<1>7. Background'
  BY DEF SetSecond, Put, Places, Turns, Background, Logout, Idle, Initing
<1>8. NoOrphanServer'
  BY DEF SetSecond, Put, Places, Servers, Configured, NoOrphanServer, Turns, Initing, Locks,
    Idle
<1> QED
  BY <1>1, <1>2, <1>3, <1>4, <1>5, <1>6, <1>7, <1>8

LEMMA ClearFirstKept ==
  ASSUME ServicesInv, Patient, ClearFirst("account")
  PROVE  ServicesInv'
<1> USE NamesAssumption, PortsAssumption DEF ServicesInv, Procs, Callers, Boots, Slots,
    serverVars, taskVars, uiVars, Steps, Ops, InitSteps, StartSteps, StopSteps, Emptied, LogoutSteps
<1>1. Places'
  BY DEF ClearFirst, Goto, Put, Places
<1>2. Turns'
  BY DEF ClearFirst, Goto, Put, Places, Turns, Initing, Logout, Idle
<1>3. Locks'
  BY DEF ClearFirst, Goto, Put, Places, Locks, Logout, Idle, Turns
<1>4. Servers'
  BY DEF ClearFirst, Goto, Put, Places, Locks, Servers, Configured, Turns, Initing
<1>5. Configured'
  BY DEF ClearFirst, Goto, Put, Places, Turns, Locks, Servers, Configured, Initing, Logout,
    Idle, Configs, Drained
<1>6. Drained'
  BY DEF ClearFirst, Goto, Put, Places, Turns, Servers, Drained, NoOrphanServer, Configured,
    Idle, Logout, Initing, Locks
<1>7. Background'
  BY DEF ClearFirst, Goto, Put, Places, Turns, Background, Logout, Idle, Initing
<1>8. NoOrphanServer'
  BY DEF ClearFirst, Goto, Put, Places, Servers, Configured, NoOrphanServer, Turns, Initing,
    Locks, Idle
<1> QED
  BY <1>1, <1>2, <1>3, <1>4, <1>5, <1>6, <1>7, <1>8

LEMMA ClearSecondKept ==
  ASSUME ServicesInv, Patient, ClearSecond("account")
  PROVE  ServicesInv'
<1> USE NamesAssumption, PortsAssumption DEF ServicesInv, Procs, Callers, Boots, Slots,
    serverVars, taskVars, uiVars, Steps, Ops, InitSteps, StartSteps, StopSteps, Emptied, LogoutSteps
<1>1. Places'
  BY DEF ClearSecond, Put, Places
<1>2. Turns'
  BY DEF ClearSecond, Put, Places, Turns, Initing, Logout, Idle
<1>3. Locks'
  BY DEF ClearSecond, Put, Places, Locks, Logout, Idle, Turns
<1>4. Servers'
  BY DEF ClearSecond, Put, Places, Locks, Servers, Configured, Turns, Initing
<1>5. Configured'
  BY DEF ClearSecond, Put, Places, Turns, Locks, Servers, Configured, Initing, Logout, Idle,
    Configs, Drained
<1>6. Drained'
  BY DEF ClearSecond, Put, Places, Turns, Servers, Drained, NoOrphanServer, Configured, Idle,
    Logout, Initing, Locks
<1>7. Background'
  BY DEF ClearSecond, Put, Places, Turns, Background, Logout, Idle, Initing
<1>8. NoOrphanServer'
  BY DEF ClearSecond, Put, Places, Servers, Configured, NoOrphanServer, Turns, Initing, Locks,
    Idle
<1> QED
  BY <1>1, <1>2, <1>3, <1>4, <1>5, <1>6, <1>7, <1>8

LEMMA ServerEndsKept ==
  ASSUME ServicesInv, Patient, NEW port \in Ports, ServerEnds(port)
  PROVE  ServicesInv'
<1> USE NamesAssumption, PortsAssumption DEF ServicesInv, Procs, Callers, Boots, Slots,
    serverVars, taskVars, uiVars, Steps, Ops, InitSteps, StartSteps, StopSteps, Emptied, LogoutSteps
<1>1. Places'
  BY DEF ServerEnds, Places
<1>2. Turns'
  BY DEF ServerEnds, Places, Turns, Initing, Logout, Idle
<1>3. Locks'
  BY DEF ServerEnds, Places, Locks, Logout, Idle, Turns
<1>4. Servers'
  BY DEF ServerEnds, Places, Locks, Servers, Configured, Turns, Initing
<1>5. Configured'
  BY DEF ServerEnds, Places, Turns, Locks, Servers, Configured, Initing, Logout, Idle,
    Configs, Drained
<1>6. Drained'
  BY DEF ServerEnds, Places, Turns, Servers, Drained, NoOrphanServer, Configured, Idle,
    Logout, Initing, Locks
<1>7. Background'
  BY DEF ServerEnds, Places, Turns, Background, Logout, Idle, Initing
<1>8. NoOrphanServer'
  BY DEF ServerEnds, Places, Servers, Configured, NoOrphanServer, Turns, Initing, Locks, Idle
<1> QED
  BY <1>1, <1>2, <1>3, <1>4, <1>5, <1>6, <1>7, <1>8

LEMMA GatewayPageKept ==
  ASSUME ServicesInv, Patient, NEW o \in {"start", "stop"}, GatewayPage(o)
  PROVE  ServicesInv'
<1> USE NamesAssumption, PortsAssumption DEF ServicesInv, Procs, Callers, Boots, Slots,
    serverVars, taskVars, uiVars, Steps, Ops, InitSteps, StartSteps, StopSteps, Emptied, LogoutSteps
<1>1. Places'
  BY DEF GatewayPage, Places, Idle
<1>2. Turns'
  BY DEF GatewayPage, Places, Turns, Initing, Logout, Idle
<1>3. Locks'
  BY DEF GatewayPage, Places, Locks, Logout, Idle, Turns
<1>4. Servers'
  BY DEF GatewayPage, Places, Locks, Servers, Configured, Turns, Initing, Idle
<1>5. Configured'
  BY DEF GatewayPage, Places, Turns, Locks, Servers, Configured, Initing, Logout, Idle,
    Configs, Drained
<1>6. Drained'
  BY DEF GatewayPage, Places, Turns, Servers, Drained, NoOrphanServer, Configured, Idle,
    Logout, Initing, Locks
<1>7. Background'
  BY DEF GatewayPage, Places, Turns, Background, Logout, Idle, Initing
<1>8. NoOrphanServer'
  BY DEF GatewayPage, Places, Servers, Configured, NoOrphanServer, Turns, Initing, Locks, Idle
<1> QED
  BY <1>1, <1>2, <1>3, <1>4, <1>5, <1>6, <1>7, <1>8

LEMMA AccountPageKept ==
  ASSUME ServicesInv, Patient, NEW o \in {"login", "activate", "logout"}, AccountPage(o)
  PROVE  ServicesInv'
<1> USE NamesAssumption, PortsAssumption DEF ServicesInv, Procs, Callers, Boots, Slots,
    serverVars, taskVars, uiVars, Steps, Ops, InitSteps, StartSteps, StopSteps, Emptied, LogoutSteps
<1>1. Places'
  BY DEF AccountPage, Places, Idle
<1>2. Turns'
  BY DEF AccountPage, Places, Turns, Initing, Logout, Idle
<1>3. Locks'
  BY DEF AccountPage, Places, Locks, Logout, Idle, Turns
<1>4. Servers'
  BY DEF AccountPage, Places, Locks, Servers, Configured, Turns, Initing, Idle
<1>5. Configured'
  BY DEF AccountPage, Places, Turns, Locks, Servers, Configured, Initing, Logout, Idle,
    Configs, Drained
<1>6. Drained'
  BY DEF AccountPage, Places, Turns, Servers, Drained, NoOrphanServer, Configured, Idle,
    Logout, Initing, Locks
<1>7. Background'
  BY DEF AccountPage, Places, Turns, Background, Logout, Idle, Initing
<1>8. NoOrphanServer'
  BY DEF AccountPage, Places, Servers, Configured, NoOrphanServer, Turns, Initing, Locks, Idle
<1> QED
  BY <1>1, <1>2, <1>3, <1>4, <1>5, <1>6, <1>7, <1>8

LEMMA UpdateConfigKept ==
  ASSUME ServicesInv, Patient, UpdateConfig
  PROVE  ServicesInv'
<1> USE NamesAssumption, PortsAssumption DEF ServicesInv, Procs, Callers, Boots, Slots,
    serverVars, taskVars, uiVars, Steps, Ops, InitSteps, StartSteps, StopSteps, Emptied, LogoutSteps
<1>1. Places'
  BY DEF UpdateConfig, Places, Idle
<1>2. Turns'
  BY DEF UpdateConfig, Places, Turns, Initing, Logout, Idle
<1>3. Locks'
  BY DEF UpdateConfig, Places, Locks, Logout, Idle, Turns
<1>4. Servers'
  BY DEF UpdateConfig, Places, Locks, Servers, Configured, Turns, Initing, Idle
<1>5. Configured'
  <2>1. PICK c \in Configs : config' = c
    BY DEF UpdateConfig
  <2>2. UNCHANGED <<internal, slot, hand, next, pc, op, initialized>> /\ ready /\ Idle(Boots) /\ pc["gateway"] = "idle"
    BY DEF UpdateConfig
  <2>3. config' \in Configs'
    BY <2>1, <2>2 DEF Configs
  <2>4. \A p \in Callers : pc[p] \notin {"store", "bindAudit", "storeAudit"}
    BY <2>2 DEF Idle, Places
  <2>5. ~Initing'
    BY <2>2 DEF Initing, Idle, Places
  <2>6. ~initialized => slot["main"] = 0 /\ slot["audit"] = 0
    BY <2>2, <2>5 DEF Turns, Idle, Drained, Configured, Places, Logout, Servers
  <2> QED
    BY <2>2, <2>3, <2>4, <2>5, <2>6 DEF Configured
<1>6. Drained'
  BY DEF UpdateConfig, Places, Turns, Servers, Drained, NoOrphanServer, Configured, Idle,
    Logout, Initing, Locks
<1>7. Background'
  BY DEF UpdateConfig, Places, Turns, Background, Logout, Idle, Initing
<1>8. NoOrphanServer'
  BY DEF UpdateConfig, Places, Servers, Configured, NoOrphanServer, Turns, Initing, Locks, Idle
<1> QED
  BY <1>1, <1>2, <1>3, <1>4, <1>5, <1>6, <1>7, <1>8

-----------------------------------------------------------------------------
(* The license tasks change the login and their own places only. *)
LEMMA TaskMovesKept ==
  ASSUME ServicesInv, NEW t \in Tasks, UNCHANGED <<internal, config, initialized, serverVars, taskVars, uiVars, op>>,
         NEW l \in {"idle", "fetch", "set1", "set2", "clear1", "clear2", "sleep"}, pc' = [pc EXCEPT ![t] = l]
  PROVE  ServicesInv'
<1> USE DEF ServicesInv, serverVars, taskVars, uiVars
<1>1. \A p \in Callers : pc'[p] = pc[p]
  BY NamesAssumption DEF Places, Procs
<1>2. Places'
  BY <1>1 DEF Places, Procs, Callers, Boots, Steps
<1>3. Turns' /\ Locks' /\ Servers'
  BY <1>1 DEF Turns, Locks, Servers, Initing, Logout, Idle, Callers, Boots
<1>4. Configured' /\ Drained' /\ Background' /\ NoOrphanServer'
  BY <1>1 DEF Configured, Configs, Drained, Background, NoOrphanServer, Initing, Logout,
    Callers, Boots
<1> QED
  BY <1>2, <1>3, <1>4

LEMMA TasksKept ==
  ASSUME ServicesInv, NEW t \in Tasks, License(t) \/ Tick(t)
  PROVE  ServicesInv'
<1> DEFINE Own == {"idle", "fetch", "set1", "set2", "clear1", "clear2", "sleep"}
<1>1. op[t] = "none" /\ t # "account" /\ t # "boot" /\ t \in Procs /\ pc \in [Procs -> Steps] /\ op \in [Procs -> Ops]
  BY NamesAssumption DEF ServicesInv, Places, Callers, Boots, Procs
<1>2. CASE SetSecond(t)
  <2>1. pc' = [pc EXCEPT ![t] = "sleep"]
    BY <1>1, <1>2 DEF SetSecond
  <2> QED
    BY <1>2, <2>1, TaskMovesKept DEF SetSecond
<1>3. CASE ClearSecond(t)
  <2>1. op' = op
    BY <1>1, <1>3 DEF ClearSecond
  <2> QED
    BY <1>1, <1>3, <2>1, TaskMovesKept DEF ClearSecond, uiVars
<1>4. CASE ~SetSecond(t) /\ ~ClearSecond(t)
  <2>1. UNCHANGED <<internal, config, initialized, serverVars, taskVars, uiVars, op>>
    BY <1>4 DEF License, Login, Refresh, RefreshRejected, RefreshFailed, TaskEnds, Tick,
      SetFirst,
      SetFailed, ClearFirst, Goto
  <2>2. PICK l \in Own : pc' = [pc EXCEPT ![t] = l]
    BY <1>4 DEF License, Login, Refresh, RefreshRejected, RefreshFailed, TaskEnds, Tick,
      SetFirst,
      SetFailed, ClearFirst, Goto
  <2> QED
    BY <2>1, <2>2, TaskMovesKept
<1> QED
  BY <1>2, <1>3, <1>4

LEMMA InitServicesInv ==
  ASSUME Init
  PROVE  ServicesInv
<1> USE DEF Init, Procs, Callers, Boots, Slots
<1>1. Places
  BY NamesAssumption DEF Places, Steps, Ops
<1>2. Turns
  BY NamesAssumption DEF Turns, Initing, Logout, Idle
<1>3. Locks /\ Servers /\ NoOrphanServer
  BY DEF Locks, Servers, NoOrphanServer
<1>4. Configured
  BY NamesAssumption DEF Configured, Initing
<1>5. Drained
  BY DEF Drained, Logout
<1>6. Background
  <2>1. \A p \in Boots : pc[p] \in {"init", "idle"}
    OBVIOUS
  <2>2. ~\E p \in Boots : pc[p] = "keep"
    BY <2>1
  <2>3. op["account"] = "none"
    OBVIOUS
  <2>4. loops = (IF monitor THEN 1 ELSE 0) + (IF \E p \in Boots : pc[p] = "keep" THEN 1 ELSE 0)
    <3>1. loops = 0 /\ monitor = FALSE
      OBVIOUS
    <3> HIDE DEF Init, Boots
    <3> QED
      BY <2>2, <3>1
  <2>5. monitor = FALSE /\ initialized = FALSE /\ pool = FALSE
    OBVIOUS
  <2> HIDE DEF Init
  <2> QED
    BY <2>3, <2>4, <2>5 DEF Background, Logout
<1> QED
  BY <1>1, <1>2, <1>3, <1>4, <1>5, <1>6 DEF ServicesInv

LEMMA StutterKept ==
  ASSUME ServicesInv, UNCHANGED vars
  PROVE  ServicesInv'
BY DEF ServicesInv, vars, serverVars, taskVars, uiVars, Places, Turns, Locks, Servers,
  Configured, Configs,
  Drained, Background, NoOrphanServer, Initing, Logout, Idle

LEMMA ServicesStep ==
  ASSUME ServicesInv, Patient, [Next]_vars
  PROVE  ServicesInv'
<1>1. ASSUME NEW p \in Callers, Serve(p)
      PROVE  ServicesInv'
  BY <1>1, StartGatewayKept, BindMainKept, BindFailedKept, StoreMainKept, BindAuditKept,
    StoreAuditKept,
    ReturnCallKept, StopKept, StoppedKept DEF Serve
<1>2. ASSUME NEW p \in Boots, Boot(p)
      PROVE  ServicesInv'
  BY <1>2, InitServicesKept, StartPoolKept, StartMonitorKept, KeepMonitorKept,
    SpawnLicenseKept DEF Boot
<1>3. CASE Shutdown("account")
  BY <1>3, StopMonitorKept, StopPoolKept, ResetKept DEF Shutdown
<1>4. CASE Login("account")
  BY <1>4, SetFirstKept, SetFailedKept, SetSecondKept, ClearFirstKept, ClearSecondKept DEF Login
<1>5. ASSUME NEW p \in Callers, Work(p)
      PROVE  ServicesInv'
  BY <1>1, <1>2, <1>3, <1>4, <1>5 DEF Work
<1>6. ASSUME NEW t \in Tasks, License(t) \/ Tick(t)
      PROVE  ServicesInv'
  BY <1>6, TasksKept
<1> QED
  BY <1>5, <1>6, ServerEndsKept, GatewayPageKept, AccountPageKept, UpdateConfigKept,
    StutterKept DEF Next

LEMMA ServicesInvariant ==
  ASSUME Patient
  PROVE  Spec => []ServicesInv
BY InitServicesInv, ServicesStep, PTL DEF Spec

(* If nobody changes ports, stops the gateway or logs out while other calls are under way,
   every server that listens is in its slot or in the hands of the call that stores or
   stops it: no start of another one drops it (lib.rs:425, 486; commands/gateway.rs:48, 92). *)
THEOREM NoServerOrphaned ==
  ASSUME Patient
  PROVE  Spec => []NoOrphanServer
BY ServicesInvariant, PTL DEF ServicesInv

(* A logout then leaves no server, no monitor loop and no task of the pool behind, however
   many inits, starts and stops came before it (lib.rs:480-528). *)
THEOREM LogoutQuiets ==
  ASSUME Patient
  PROVE  Spec => []QuietAfterLogout
<1>1. ServicesInv => QuietAfterLogout
  <2> SUFFICES ASSUME ServicesInv, page = "login", ~initialized, Idle(Callers)
               PROVE  listening = {} /\ loops = 0 /\ ~pool
    BY DEF QuietAfterLogout
  <2>1. \A p \in Boots : pc[p] # "keep"
    BY DEF Idle, Callers
  <2> QED
    BY <2>1 DEF ServicesInv, Drained, Background
<1> QED
  BY <1>1, ServicesInvariant, PTL

(* The audit server then listens only beside the main one, but for the moment in which a
   stop is between the two (lib.rs:431-434). *)
THEOREM AuditBesideMain ==
  ASSUME Patient
  PROVE  Spec => []AuditFollowsMain
<1>1. ServicesInv => AuditFollowsMain
  BY DEF ServicesInv, Configured, AuditFollowsMain, Idle, Callers
<1> QED
  BY <1>1, ServicesInvariant, PTL

-----------------------------------------------------------------------------
(* Set writes auth.json first and clear the memory first: the last of them to write leaves
   the file without a login if the memory is. *)
Between == \E p \in Procs : pc[p] \in {"set2", "clear2"}
AuthInv ==
  /\ auth \in [{"mem", "file"} -> BOOLEAN]
  /\ DOMAIN pc = Procs
  /\ ~Between /\ ~auth["mem"] => ~auth["file"]

LEMMA InitAuth == Init => AuthInv
<1> SUFFICES ASSUME Init
             PROVE  AuthInv
  OBVIOUS
<1>1. PICK b \in BOOLEAN : auth = [w \in {"mem", "file"} |-> b /\ ~internal]
  BY DEF Init
<1>2. internal \in BOOLEAN /\ DOMAIN pc = Procs
  BY DEF Init
<1> QED
  BY <1>1, <1>2 DEF AuthInv

(* A step that leaves the login alone leaves those alone who are between the two writes. *)
LEMMA AuthUnmoved ==
  ASSUME AuthInv, UNCHANGED auth, DOMAIN pc' = Procs,
         \A q \in Procs : pc[q] \in {"set2", "clear2"} => pc'[q] = pc[q]
  PROVE  AuthInv'
BY DEF AuthInv, Between

LEMMA LoginKeepsAuth ==
  ASSUME AuthInv, NEW p \in Procs, Login(p)
  PROVE  AuthInv'
<1> USE DEF AuthInv, Put
<1>1. CASE SetFirst(p)
  <2>1. pc' = [pc EXCEPT ![p] = "set2"] /\ auth' = [auth EXCEPT !["file"] = TRUE]
    BY <1>1 DEF SetFirst, SetOrder, Goto
  <2>2. Between'
    BY <2>1 DEF Between
  <2> QED
    BY <2>1, <2>2
<1>2. CASE SetSecond(p)
  <2>1. auth' = [auth EXCEPT !["mem"] = TRUE] /\ DOMAIN pc' = Procs
    BY <1>2 DEF SetSecond, SetOrder
  <2> QED
    BY <2>1
<1>3. CASE ClearFirst(p)
  <2>1. pc' = [pc EXCEPT ![p] = "clear2"] /\ auth' = [auth EXCEPT !["mem"] = FALSE]
    BY <1>3 DEF ClearFirst, ClearOrder, Goto
  <2>2. Between'
    BY <2>1 DEF Between
  <2> QED
    BY <2>1, <2>2
<1>4. CASE ClearSecond(p)
  <2>1. auth' = [auth EXCEPT !["file"] = FALSE] /\ DOMAIN pc' = Procs
    BY <1>4 DEF ClearSecond, ClearOrder
  <2> QED
    BY <2>1
<1>5. CASE SetFailed(p)
  BY <1>5, AuthUnmoved DEF SetFailed, Goto
<1> QED
  BY <1>1, <1>2, <1>3, <1>4, <1>5 DEF Login

LEMMA AuthStep ==
  ASSUME AuthInv, [Next]_vars
  PROVE  AuthInv'
<1> USE DEF AuthInv, Goto
<1>1. ASSUME NEW p \in Callers, Serve(p) \/ Shutdown(p)
      PROVE  AuthInv'
  <2>1. UNCHANGED auth /\ DOMAIN pc' = Procs
    BY <1>1 DEF Serve, Shutdown, StartGateway, BindMain, BindFailed, StoreMain, BindAudit,
      StoreAudit,
      ReturnCall, Return, Stop, Stopped, StopMonitor, StopPool, Reset
  <2>2. \A q \in Procs : pc[q] \in {"set2", "clear2"} => pc'[q] = pc[q]
    BY <1>1 DEF Serve, Shutdown, StartGateway, BindMain, BindFailed, StoreMain, BindAudit,
      StoreAudit,
      ReturnCall, Return, Stop, Stopped, StopMonitor, StopPool, Reset, Stopping, Awaiting
  <2> QED
    BY <2>1, <2>2, AuthUnmoved
<1>2. ASSUME NEW p \in Boots, Boot(p)
      PROVE  AuthInv'
  <2>1. UNCHANGED auth /\ DOMAIN pc' = Procs
    BY <1>2 DEF Boot, InitServices, Return, StartPool, StartMonitor, KeepMonitor, SpawnLicense
  <2>2. \A q \in Procs : pc[q] \in {"set2", "clear2"} => pc'[q] = pc[q]
    BY <1>2 DEF Boot, InitServices, Return, StartPool, StartMonitor, KeepMonitor, SpawnLicense
  <2> QED
    BY <2>1, <2>2, AuthUnmoved
<1>3. ASSUME NEW p \in Callers, Work(p)
      PROVE  AuthInv'
  BY <1>1, <1>2, <1>3, LoginKeepsAuth DEF Work, Procs, Callers
<1>4. ASSUME NEW t \in Tasks, License(t) \/ Tick(t)
      PROVE  AuthInv'
  <2>1. CASE Login(t)
    BY <2>1, LoginKeepsAuth DEF Procs
  <2>2. CASE ~Login(t)
    BY <1>4, <2>2, AuthUnmoved DEF License, Refresh, RefreshRejected, RefreshFailed, TaskEnds,
      Tick
  <2> QED
    BY <2>1, <2>2
<1>5. ASSUME NEW port \in Ports, ServerEnds(port)
      PROVE  AuthInv'
  BY <1>5, AuthUnmoved DEF ServerEnds
<1>6. ASSUME NEW o, GatewayPage(o) \/ AccountPage(o)
      PROVE  AuthInv'
  BY <1>6, AuthUnmoved DEF GatewayPage, AccountPage
<1>7. CASE UpdateConfig \/ UNCHANGED vars
  BY <1>7, AuthUnmoved DEF UpdateConfig, vars
<1> QED
  BY <1>3, <1>4, <1>5, <1>6, <1>7 DEF Next

(* However logins, activations, renewals, rejections and logouts overlap, once none of
   them is between its two writes, a login that is gone from memory is gone from
   auth.json, and the next start does not bring it back (server_client.rs:86-107). *)
THEOREM LogoutLasts == Spec => []LogoutSurvivesRestart
<1>1. AuthInv => LogoutSurvivesRestart
  BY DEF AuthInv, Between, LogoutSurvivesRestart
<1> QED
  BY <1>1, InitAuth, AuthStep, PTL DEF Spec
=============================================================================
