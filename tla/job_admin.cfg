SPECIFICATION AdminSpec
CONSTANTS
  acme = acme
  disp = disp
  ag = ag
  cust = cust
  NoUser = NoUser
  NoOrg = NoOrg
  NoRequest = NoRequest
  NoForm = NoForm
  Absent = Absent
  Users <- MCUsers
  Orgs = {acme}
  Role <- MCRole
  OrgOf <- MCOrgOf
  Superusers = {}
  Jobs = {j1}
  MaxFaults = 0
  Staff = {tab1, tab2}
  MaxPosts = 1
  Requests = {r1, r2}
  Targets = {"en_route"}
  Edits = {"status"}
  Picked = {cust}
INVARIANT
  AdminTypeOK
PROPERTIES
  EventsTellTruth
  OnlyFormsRevive
SYMMETRY Symmetry
CHECK_DEADLOCK FALSE
