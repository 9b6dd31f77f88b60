SPECIFICATION ResourceFairSpec
CONSTANTS
  r1 = r1
  r2 = r2
  Req = {r1, r2}
  RequestPageSize = 2
  n1 = n1
  n2 = n2
  n3 = n3
  Entry = {n1}
  Name = {n1, n2, n3}
  MaxHeld = 1
INVARIANTS
  NoRequestLost
  CrashOnlyBeyondRoom
  HandlesResolve
PROPERTIES
  LoadsAnswered
CHECK_DEADLOCK FALSE
