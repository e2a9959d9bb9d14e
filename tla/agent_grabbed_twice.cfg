SPECIFICATION ServiceSpec
CONSTANTS
  acme = acme
  zenith = zenith
  disp = disp
  ag = ag
  ag1 = ag1
  ag2 = ag2
  cust = cust
  NoUser = NoUser
  NoOrg = NoOrg
  NoRequest = NoRequest
  Absent = Absent
  Users <- MCUsersOneAgent
  Orgs = {acme}
  Role <- MCRole
  OrgOf <- MCOrgOf
  Superusers = {}
  Jobs = {j1, j2}
  Requests = {r1, r2}
  Targets = {}
  MaxFaults = 0
INVARIANT
  NoConcurrentGrab
