SPECIFICATION Spec
CONSTANTS
  p = p  h1 = h1  h2 = h2  n1 = n1  n2 = n2
  s1 = s1  s2 = s2  o1 = o1  o2 = o2  x1 = x1
  m1 = m1  m2 = m2  k1 = k1  k2 = k2  k3 = k3
  Host = {h1, h2}
  Name = {n1}
  Path = {s1, o1, o2, x1}
  Plain = {"v1", "v2"}
  MasterKey = {m1, m2}
  PluginKey = {}
  HostKey = {k1, k2, k3}
  Nonce = {1, 2, 3, 4, 5}
  Editable = {s1}
  Empty = "v1"
  Configs <- SourceInStorage
  InitFiles <- StoredSource
  MaxEvents = 0
  Absent = Absent
  Junk = Junk
  None = None
  Proc = {p}
  Commands <- RekeyOnly
  Selections <- AllHosts
  Meddling = FALSE
INVARIANTS SweepSparesSources
