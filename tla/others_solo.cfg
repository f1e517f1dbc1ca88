SPECIFICATION Spec
CONSTANTS
  p = p  h1 = h1  h2 = h2  n1 = n1  n2 = n2
  s1 = s1  s2 = s2  o1 = o1  o2 = o2  x1 = x1
  m1 = m1  m2 = m2  k1 = k1  k2 = k2  k3 = k3
  Host = {h1, h2}
  Name = {n1}
  Path = {s1, s2, o1, o2}
  Plain = {"v1", "none"}
  MasterKey = {m1, m2}
  PluginKey = {m1, m2}
  HostKey = {k1, k2, k3}
  Nonce = {1, 2, 3, 4, 5}
  Editable = {s1, s2}
  Empty = "none"
  Configs <- SmallConfigs
  InitFiles <- TwoSources
  MaxEvents = 2
  Absent = Absent
  Junk = Junk
  None = None
  Proc = {p}
  Commands <- OtherCommands
  Selections <- AllOrFirst
  Meddling = FALSE
INVARIANTS ResealSkipIsSafe
PROPERTIES ResealKeepsPlaintext GcKeepsSkips OthersUntouched
  EditSealsForConsumers EditIsDeployed StaysInStorage
