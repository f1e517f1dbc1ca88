SPECIFICATION Spec
CONSTANTS
  t1 = t1
  t2 = t2
  n = n
  Count = 3
  Token = {t1, t2}
  Native = {n}
  Inputs <- AnyBatch
  Wrong = Wrong
  None = None
  NotYet = NotYet
INVARIANTS TypeOK KeysGoHome UnwrapsAll
PROPERTIES OpeningSpec
CHECK_DEADLOCK FALSE
