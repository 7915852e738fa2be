SPECIFICATION Spec
CONSTANTS
    GovernanceEvents = {e1, e2}
    MaxChain = 4
    MaxWrites = 5
    Files = {f1, f2}
    Texts = {1, 2}
    Absent = 0
    BackupIds = {b1, b2}
    MaxBackups = 2
    MaxChanges = 2
    Assessments <- MCAssessments
    Flaws <- MCFlaws
    Roles = {analyst, final}
    Incidents = {i1}
    Happenings = {"brokerTick", "signal", "stale", "malformed",
                  "killSwitch", "realOrder", "drift", "reconciled",
                  "disconnected", "gain", "deepLoss"}
    LastDay = 2
    MaxHappened = 3
    MinDays = 1
    MinSignals = 1
    MaxBadData = 0
    MinUptime = 95
    MaxRiskBlocks = 1
    MaxDrawdown = 15
  
PROPERTIES RestoreSound 
CHECK_DEADLOCK FALSE
