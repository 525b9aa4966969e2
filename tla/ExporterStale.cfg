SPECIFICATION FairSpec
CONSTANTS
  k1 = k1  k2 = k2  e1 = e1  e2 = e2  f1 = f1
  None = None
  Keys = {k1}
  Endpoints = {e1, e2}
  Foreign = {}
  Services <- MCHeadless
  MaxChanges = 2
  MaxFaults = 0
  MaxRestarts = 0
PROPERTIES HubFollowsServices
