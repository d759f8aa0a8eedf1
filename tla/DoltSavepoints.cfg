SPECIFICATION Spec
CONSTANTS
  Keys = {k1}
  Rows = {r1}
  NoRow = NoRow
  NoTable = NoTable
  Avoided = {"late", "nested", "cleared", "dropped", "kept"}
  MaxDepth = 2
  MaxUndo = 2
  MaxBase = 1
INVARIANTS TypeOK LevelsFit AsPromised
CHECK_DEADLOCK FALSE
