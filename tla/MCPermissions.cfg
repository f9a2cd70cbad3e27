CONSTANTS
  s1 = s1
  s2 = s2
  r1 = r1
  r2 = r2
  x1 = x1
  Servers = {s1, s2}
  Rules = {r1, r2, x1}
  Whitelist = {r1, r2}
  Allow = Allow
  Deny = Deny
  Inherit = Inherit
  NoRule = NoRule
SPECIFICATION Spec
SYMMETRY Symmetry
INVARIANTS CacheAgrees 
PROPERTY WritesOnlyGranted
