SPECIFICATION FairNotifierSpec
CONSTANTS
  acme = acme
  disp = disp
  ag = ag
  cust = cust
  NoUser = NoUser
  NoOrg = NoOrg
  NoRequest = NoRequest
  NoTask = NoTask
  Absent = Absent
  Users <- MCUsers
  Orgs = {acme}
  Role <- MCRole
  OrgOf <- MCOrgOf
  Superusers = {}
  Jobs = {j1}
  Requests = {r1}
  Targets = {"en_route", "cancelled"}
  MaxFaults = 1
  Workers = {w1, w2}
  MaxRetries = 2
  MaxErrors = 2
INVARIANTS
  NotifierTypeOK
  CurrentStatusNotified
  LostByFailure
PROPERTIES
  NotificationPromise
  EndIsNotified
