SPECIFICATION FairSpec
CONSTANTS
  u1 = u1
  u2 = u2
  u3 = u3
  Users = {u1, u2, u3}
  Workers = {w1, w2}
  ChatIds = {c1}
  NoUser = NoUser
  NoChat = NoChat
  Friends <- MCFriends
  Ops <- MCDepartures
  MaxFaults = 0
INVARIANT DeletedChatsAreEmpty
PROPERTIES HandoverToMember EmptyChatIsDeleted
