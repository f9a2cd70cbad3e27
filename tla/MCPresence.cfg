CONSTANTS
  s1 = s1
  s2 = s2
  Sessions = {s1, s2}
  Backlog = 1
SPECIFICATION FairSpec
INVARIANTS GoneIsShown
  
