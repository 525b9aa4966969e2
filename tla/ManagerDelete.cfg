SPECIFICATION Spec
CONSTANTS
  c1 = c1  c2 = c2  k1 = k1  k2 = k2  a1 = a1  a2 = a2
  d1 = d1  d2 = d2  ns1 = ns1  ns2 = ns2  p1 = p1  p2 = p2
  Absent = Absent  None = None
  Procs = {p1, p2}
  Clusters = {c1, c2}
  Keys = {k1}
  Addrs = {a1, a2}
  Defs = {d1, d2}
  Exports <- MCSameDef
  Namespaces = {ns1, ns2}
  NamespaceOf <- MCNamespaceOf
  InitNamespaces = {ns1}
  CachedReads = TRUE
  AllowCreateNamespace = FALSE
  MaxMerges = 2
  MaxFaults = 0
  MaxRestarts = 0
PROPERTIES DeleteLosesNobody
