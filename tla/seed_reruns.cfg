SPECIFICATION SeedSpec
CONSTANTS
  riverside = riverside
  dana = dana
  alex = alex
  cory = cory
  NoUser = NoUser
  NoOrg = NoOrg
  Absent = Absent
  Profile = profile
  Demo = riverside
  Dispatcher = dana
  Agent = alex
  Customer = cory
  Users <- MCUsers
  Orgs = {riverside}
  Role <- MCRole
  OrgOf <- MCOrgOf
  Superusers = {}
  Jobs = {j1, j2, j3, j4, j5, j6, j7, j8, j9}
  MaxCrashes = 1
  MaxRequests = 2
INVARIANTS
  SeededOnce
PROPERTY
  LedgerSpec
