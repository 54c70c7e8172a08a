SPECIFICATION Spec
CONSTANTS
  Keys = {1, 2}
  Values = {v1}
  Absent = Absent
  Nodes = {n1, n2}
  Header = Header
  Nil = Nil
  MaxLevel = 1
  Searched = {1, 2}
SYMMETRY Symmetry
INVARIANTS SearchReadsLiveNodes
CHECK_DEADLOCK FALSE
