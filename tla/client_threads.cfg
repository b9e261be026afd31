SPECIFICATION FairSpec
CONSTANTS
  Names = {n1}
  NoName = NoName
  ChatIds <- MCChatIds
  MaxEvents = 2
CHECK_DEADLOCK FALSE
INVARIANTS TypeOK ListsAreExclusive NoDeadlock GhostRequestsAreExcused
  MissingChatsAreOlder ThreadEndsBeforeLists
PROPERTIES JoinEnds PendingIsFetched
