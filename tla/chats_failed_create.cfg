SPECIFICATION Spec
CONSTANTS
  u1 = u1
  u2 = u2
  u3 = u3
  Users = {u1, u2, u3}
  Workers = {w1}
  ChatIds = {c1}
  NoUser = NoUser
  NoChat = NoChat
  Friends <- MCFriends
  Ops <- MCCreate
  MaxFaults = 0
CHECK_DEADLOCK FALSE
PROPERTY FailedCreateLeavesNoChat
