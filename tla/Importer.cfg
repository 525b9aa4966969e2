SPECIFICATION FairSpec
CONSTANTS
  k1 = k1  k2 = k2  s1 = s1  s2 = s2
  Absent = Absent  None = None
  Keys = {k1}
  Specs = {s1, s2}
  Slots = {1, 2}
  AllowCreateNamespace = TRUE
  MaxVersions = 4
  MaxFaults = 1
  MaxRestarts = 1
INVARIANTS ImporterTypeOK
PROPERTIES ImplementsReplica CopyConverges
