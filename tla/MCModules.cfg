CONSTANTS
  q1 = q1
  q2 = q2
  h1 = h1
  NoHandle = NoHandle
  n1 = n1
  n2 = n2
  k1 = k1
  k2 = k2
  None = None
  Requests = {q1, q2}
  Handles = {h1}
  Names = {n1, n2}
  Kinds = {k1, k2}
  MaxFields = 3
  MaxList = 2
  MaxShort = 0
  Long = {q1}
  MaxTime = 1
  MaxValues = 1
SPECIFICATION ModulesSpec
SYMMETRY Symmetry
PROPERTIES FieldsAreTheList ValuesKeepTheirFields 
