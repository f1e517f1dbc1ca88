SPECIFICATION Spec
CONSTANTS
  p = p  h1 = h1  h2 = h2  n1 = n1  n2 = n2
  s1 = s1  s2 = s2  o1 = o1  o2 = o2  x1 = x1
  m1 = m1  m2 = m2  k1 = k1  k2 = k2  k3 = k3
  Host = {h1, h2}
  Name = {n1}
  Path = {s1, o1}
  Plain = {"v1", "v2"}
  MasterKey = {m1, m2}
  PluginKey = {}
  HostKey = {k1, k2, k3}
  Nonce = {e1, e2, e3, e4}
  Editable = {s1}
  Empty = "v1"
  Configs <- AloneSmall
  InitFiles <- FreshCheckout
  MaxEvents = 1
  Absent = Absent
  Junk = Junk
  None = None
  Proc = {p, q}
  Commands <- Apart
  Selections <- AllHosts
  Meddling = TRUE
INVARIANTS Truthful SkipIsSafe ResealSkipIsSafe
PROPERTIES StaysInStorage
SYMMETRY NoncesAlike
