SPECIFICATION Spec
CONSTANTS
  u1 = u1
  u2 = u2
  Users = {u1, u2}
  Senders = {u1}
  Joined = 1
  MaxTime = 4
  MaxMessages = 2
  Prompt = TRUE
  Relogin = FALSE
  MaxFaults = 0
INVARIANTS NoneSkipped
CHECK_DEADLOCK FALSE
