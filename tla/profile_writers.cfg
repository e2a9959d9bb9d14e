SPECIFICATION FairWritersSpec
CONSTANTS
  Never = Never
  NoForm = NoForm
  StaleAfter = 3
  Connections = {c1, c2}
  Staff = {tab}
  MaxStall = 1
  MaxAhead = 1
INVARIANTS
  LastPingKept
  HeardIsOnline
  NeverTooFresh
PROPERTIES
  ExpiredAllTheSame
