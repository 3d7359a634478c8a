CONSTANTS
  t1 = t1
  t2 = t2
  r1 = r1
  r2 = r2
  Tokens = {t1, t2}
  Requests = {r1, r2}
  Roles = {"digest", "unknown"}
  KnownRoles = {"digest"}
  Tools <- ToolsVal
  Mounted <- MountVal
  AllowTools <- AllowVal
  DenyTools <- DenyVal
  HasPolicyEngine = TRUE
  Static = Static
  Admin = Admin
  TTL = 1
  CallCap = 2
  MaxCalls = 3
  MaxTime = 2
SYMMETRY Perms
SPECIFICATION Spec
INVARIANTS
  TypeOK
  TicketsWithinCap
  DispatchPermitted
  AdminOnlyByStaticToken
  CapReplyJustified
PROPERTIES
  ChargedWhileLive
