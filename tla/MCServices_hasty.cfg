SPECIFICATION Spec
CONSTANTS
  t1 = t1
  Ports <- ThreePorts
  Tasks <- OneTask
  MaxLoops = 2
  Patient = FALSE
INVARIANTS
  NoOrphanServer
  QuietAfterLogout
  AuditFollowsMain
