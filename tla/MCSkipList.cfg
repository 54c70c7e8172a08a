SPECIFICATION Spec
CONSTANTS
  Keys = {1, 2, 3}
  Values = {v1, v2}
  Absent = Absent
  Nodes = {n1, n2, n3}
  Header = Header
  Nil = Nil
  MaxLevel = 2
  Searched = {2}
SYMMETRY Symmetry
INVARIANTS TypeOK LevelsInOrder LevelsComplete SearchIsExact
PROPERTIES IsMap
CHECK_DEADLOCK FALSE
