CONSTANTS
  r1 = r1
  r2 = r2
  i1 = i1
  Roles = {r1, r2}
  Everyone = Everyone
  IDs = {i1}
  Wildcard = Wildcard
  NoID = NoID
  Service = Service
  Allow = Allow
  Deny = Deny
  Inherit = Inherit
  MaxStale = 1
SPECIFICATION CheckSpec
INVARIANTS FirstLevelDecides FilterDiffersOnlyOnEveryone
