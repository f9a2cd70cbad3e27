CONSTANTS
  u1 = u1
  u2 = u2
  q1 = q1
  q2 = q2
  Nobody = Nobody
  Users = {u1, u2}
  Requests = {q1, q2}
  MaxMessages = 3
SPECIFICATION Spec
SYMMETRY Symmetry
INVARIANTS  NobodyMissesAThread CountsReplies
