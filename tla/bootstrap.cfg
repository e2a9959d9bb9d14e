SPECIFICATION BootSpec
CONSTANTS
  raw = raw
  plain = plain
  other = other
  r1 = r1
  r2 = r2
  r3 = r3
  r4 = r4
  Emails <- MCEmails
  Normalize <- MCNormalize
  Wanted <- MCWanted
  Runs = {r1, r2, r3, r4}
  MaxCrashes = 2
INVARIANTS
  AccountIsThere
  RerunIsSafe
