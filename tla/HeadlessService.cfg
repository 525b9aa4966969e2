SPECIFICATION Spec
CONSTANTS
  None = None
  Clusters = {"chaoyang", "haidian"}
  Host = "chaoyang"
  Topology <- MCTopology
  SliceLists <- MCSliceLists
  Key <- MCKey
  Hostnames = {"mysql-0", "mysql-1"}
  Labels = {"svc", "mysql", "default", "mysql-0", "mysql-1", "chaoyang", "haidian",
            "beijing", "north", "global"}
  SVC = "svc"
  Zones = {"global"}
  Addresses = {"v4a", "v4b", "v4c", "v6a", "v6b", "name"}
  FamilyOf <- MCFamilyOf
  MaxVersions = 4
INVARIANTS HeadlessTypeOK PodsExportedOnce PodNamesResolve
