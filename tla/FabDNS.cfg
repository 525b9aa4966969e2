SPECIFICATION Spec
CONSTANTS
  None = None
  Labels = {"svc", "nginx", "default", "other", "pod", "pod2", "chaoyang", "haidian",
            "shijiazhuang", "pudong", "beijing", "hebei", "shanghai", "north", "east",
            "global", "fall", "elsewhere"}
  SVC = "svc"
  Zones = {"global", "fall"}
  FallZones = {"fall"}
  Cluster <- MCCluster
  Addresses = {"v4a", "v4b", "v4c", "v4d", "v6a", "v6b", "v6d", "bad"}
  FamilyOf <- MCFamilyOf
  DNSEndpoints <- MCEndpoints
  Names <- MCNames
  Services <- MCServices
INVARIANTS FabDNSTypeOK NearestAnswer PodNameDenotesPod SpellingsAgree RepliedOnce
