SPECIFICATION FairPresenceSpec
CONSTANTS
  acme = acme
  zenith = zenith
  disp = disp
  ag = ag
  ag2 = ag2
  cust = cust
  sd = sd
  sa = sa
  sb = sb
  sz = sz
  sc = sc
  NoUser = NoUser
  NoOrg = NoOrg
  Never = Never
  Users <- MCUsers
  Orgs = {acme, zenith}
  Role <- MCRole
  OrgOf <- MCOrgOf
  Superusers = {}
  UserOf <- MCUserOf
  Sockets = {sd, sa, sb, sz, sc}
  StaleAfter = 5
  SweepEvery = 2
  MaxLate = 1
  Entered = {5, 9}
INVARIANTS
  PresenceTypeOK
  OnlineIsFresh
  LocationStaysInTenant
PROPERTIES
  SilentGoesOffline
