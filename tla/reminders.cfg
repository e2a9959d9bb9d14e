SPECIFICATION RemindersSpec
CONSTANTS
  acme = acme
  disp = disp
  ag = ag
  cust = cust
  NoUser = NoUser
  NoOrg = NoOrg
  Absent = Absent
  Unscheduled = Unscheduled
  None = None
  Users <- MCUsers
  Orgs = {acme}
  Role <- MCRole
  OrgOf <- MCOrgOf
  Superusers = {}
  Jobs = {j1}
  Workers = {w1, w2}
  Window = 8
  Period = 2
  MaxLate = 1
  MaxLead = 9
  MaxFaults = 2
INVARIANTS
  RemindedInTime
PROPERTIES
  ReminderPromise
  NoLateReminder
