\* Every command over 1,152 pairs of plans and three values of $PATH.
CONSTANTS
  bin = bin
  d1 = d1
  d2 = d2
  p1 = p1
  p2 = p2
  s1 = s1
  s2 = s2
  Unset = Unset
  Dir = {bin, d1, d2}
  Plugin = {p1, p2}
  Source = {s1, s2}
  Ships <- ShipsOf
  Inputs <- AnyInputs
  Homes <- AnyHomes
SPECIFICATION Spec
INVARIANTS TypeOK PluginsAtHand PathIsKept
CHECK_DEADLOCK FALSE
