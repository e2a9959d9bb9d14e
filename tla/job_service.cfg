SPECIFICATION FairServiceSpec
CONSTANTS
  acme = acme
  zenith = zenith
  disp = disp
  ag = ag
  ag1 = ag1
  ag2 = ag2
  cust = cust
  NoUser = NoUser
  NoOrg = NoOrg
  NoRequest = NoRequest
  Absent = Absent
  Users <- MCUsers
  Orgs = {acme, zenith}
  Role <- MCRole
  OrgOf <- MCOrgOf
  Superusers = {}
  Jobs = {j1}
  Requests = {r1, r2}
  Targets = {"assigned", "en_route", "cancelled"}
  MaxFaults = 1
INVARIANTS
  ServiceTypeOK
  AuditTrail
  EntitledActor
  TenantIsolation
  FanoutFollowsCommit
  FanoutComplete
  StillPermitted
  ValidatedRowIsCurrent
PROPERTIES
  LedgerSpec
  NoOverwrite
  RequestAnswered
  ChangeAnnounced
