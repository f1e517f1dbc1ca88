SPECIFICATION Spec
CONSTANTS
  Inputs <- AnyInputs
  Command = {"edit"}
  UserPaths <- AnyUserPaths
  Nobody = Nobody
INVARIANTS EditFindsMastersOfNew
CHECK_DEADLOCK FALSE
