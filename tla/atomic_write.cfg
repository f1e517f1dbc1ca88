SPECIFICATION Spec
CONSTANTS
  Writer = {w1, w2, w3}
  Old = Old
  Torn = Torn
INVARIANTS TypeOK
PROPERTIES OkIsDurable FileSpec
CHECK_DEADLOCK FALSE
