SPECIFICATION FeedSpec
CONSTANTS
  acme = acme
  beta = beta
  disp = disp
  ag = ag
  ag2 = ag2
  cust = cust
  dispB = dispB
  agB = agB
  custB = custB
  ag2_feed = ag2_feed
  ag_room = ag_room
  no_token = no_token
  NoUser = NoUser
  NoOrg = NoOrg
  NoRequest = NoRequest
  Absent = Absent
  Fleet = Fleet
  Role <- MCRole
  OrgOf <- MCOrgOf
  Path <- MCPath
  TokenUser <- MCTokenUser
  Users <- MCUsers
  Orgs = {acme, beta}
  Superusers = {}
  Jobs = {j1}
  Requests = {r1, r2}
  Targets = {"en_route"}
  MaxFaults = 0
  Sockets = {ag2_feed, ag_room, no_token}
INVARIANTS
  FeedTypeOK
  RoomIsForParticipants
  HeardInTenant
  NothingMissed
SYMMETRY ThreadSymmetry
