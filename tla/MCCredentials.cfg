CONSTANTS
  q1 = q1
  q2 = q2
  t1 = t1
  None = None
  Requests = {q1, q2}
  Tokens = {t1}
  MaxPasswords = 3
SPECIFICATION Spec
SYMMETRY Symmetry
INVARIANTS OldPasswordsAreGone 
PROPERTIES UsedTokensAreGone 
