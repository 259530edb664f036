SPECIFICATION FairSpec
CONSTANTS
  t1 = t1
  Ports <- ThreePorts
  Tasks <- OneTask
  MaxLoops = 2
  Patient = TRUE
INVARIANTS
  NoOrphanServer
  QuietAfterLogout
  AuditFollowsMain
  LogoutSurvivesRestart
PROPERTIES
  CallsReturn
