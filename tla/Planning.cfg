SPECIFICATION MCSpec
CONSTANTS
  s1 = s1  s2 = s2  s3 = s3  s4 = s4  p = p  q = q  r = r  t1 = t1  t2 = t2
  Calls = {c1, c2}
  Requests <- Asked
  MaxVersion = 3
INVARIANTS PlanStaysWhole ComposedToolsRunRight
SYMMETRY Sym
CHECK_DEADLOCK FALSE
