SPECIFICATION HubSpec
CONSTANTS
  m1 = m1  m2 = m2  k1 = k1  k2 = k2  a1 = a1  d1 = d1  d2 = d2  ns1 = ns1  h1 = h1  h2 = h2
  Absent = Absent  None = None
  Host = host  Cleaner = cleaner  HostExporter = exporter
  HostWorkers = {exporter}
  Members = {m1}
  Clusters = {m1, host}
  Keys = {k1, k2}
  Handlers = {h1}
  Procs = {h1, cleaner, exporter}
  Addrs = {a1}
  Defs = {d1}
  Portless = {}
  Exports <- MCExports
  Namespaces = {ns1}
  NamespaceOf <- MCNamespaceOf
  InitNamespaces = {ns1}
  AllowCreateNamespace = FALSE
  CachedReads = FALSE
  Overlap = FALSE
  MaxMerges = 2
  MaxFaults = 0
  MaxRestarts = 1
INVARIANTS RecorderComplete
