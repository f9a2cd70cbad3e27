CONSTANTS
  m1 = m1
  m2 = m2
  m3 = m3
  s1 = s1
  s2 = s2
  s3 = s3
  Modules = {m1, m2, m3}
  Sources = {s1, s2, s3}
  None = None
SPECIFICATION MCSpec
INVARIANTS CyclesAreRemoved ImportIsComplete 
PROPERTY Ends
CHECK_DEADLOCK FALSE
