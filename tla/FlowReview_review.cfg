CONSTANTS
  Before <- MCBefore
  Values <- MCValues
  New <- MCNew
  NewIds <- MCNewIds
  Invocations <- MCInvocations
  Malformed <- MCMalformed
  OutOfRange <- MCOutOfRange
  Unreadable = {"absent"}
  NotFlows = {"notflow"}
  WarningCodes <- MCWarningCodes
  IssuesOf <- MCIssuesOf
  DefaultsFail <- MCDefaultsFail
  PlanFails <- MCPlanFails
  MaxEdits = 2
SPECIFICATION Spec
INVARIANTS VisualChangesKeepBehaviour RevertIsSeen ReportIsSound
CHECK_DEADLOCK FALSE
