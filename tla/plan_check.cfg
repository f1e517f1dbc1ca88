SPECIFICATION Spec
CONSTANTS
  Inputs <- AnyInputs
  Command = {"gc", "edit"}
  UserPaths <- AnyUserPaths
  Nobody = Nobody
INVARIANTS TypeOK AcceptedIsSound RejectedForCause EditFindsMasters
CHECK_DEADLOCK FALSE
