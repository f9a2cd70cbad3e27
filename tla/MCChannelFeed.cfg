CONSTANTS
  u1 = u1
  s1 = s1
  s2 = s2
  q1 = q1
  q2 = q2
  Users = {u1}
  Sessions = {s1, s2}
  UserOf <- MCUserOf
  Requests = {q1, q2}
  Backlog = 2
  Nobody = Nobody
SPECIFICATION Spec
SYMMETRY Symmetry
INVARIANTS SubscribedAsMember
