SPECIFICATION Spec
CONSTANTS
  u1 = u1
  u2 = u2
  u3 = u3
  Users = {u1, u2, u3}
  Workers = {w1}
  ChatIds = {c1, c2}
  NoUser = NoUser
  NoChat = NoChat
  Friends <- MCFriends
  Ops <- MCAllOps
  MaxFaults = 1
SYMMETRY MCSymmetry
CHECK_DEADLOCK FALSE
INVARIANTS TypeOK ConsistentAtRest ServerSurvives DamageIsLocal
PROPERTY HandlersAreAtomic
