SPECIFICATION FairLogSpec
CONSTANTS
  Accounts = {a1, a2, a3}
  Pseudo = pseudo
  MaxSwitches = 3
  MaxJobs = 7
  Prompt = TRUE
INVARIANTS RowOfDelivered UsageOfDeliverer AuditMatchesAnswer
PROPERTIES StreamRecorded
CHECK_DEADLOCK FALSE
