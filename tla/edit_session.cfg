SPECIFICATION Spec
CONSTANTS
  Text = {"old", "new", "empty"}
  Original = "old"
  Empty = "empty"
  Zeros = "zeros"
  Absent = "absent"
INVARIANTS TypeOK HeedsSignals SignalsNeverTear
PROPERTIES SavesWhatEditorLeft WipedBeforeUnlink SessionSpec
CHECK_DEADLOCK FALSE
