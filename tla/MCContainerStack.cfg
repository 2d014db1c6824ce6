CONSTANTS
  s1 = s1
  s2 = s2
  Sources = {s1, s2}
  Timeout = 1
  Wallclocks = {9}
  MaxTime = 2
  MaxContainers = 3
  MaxModes = 2
  Multi = {2}
SYMMETRY SourceSymmetry
SPECIFICATION Spec
INVARIANTS
  AlwaysFound CacheFresh NoneStranded
PROPERTY
  ClosedLate
