SPECIFICATION Spec
CONSTANTS
  u1 = u1
  u2 = u2
  Users = {u1, u2}
  Senders = {u1, u2}
  Joined = 1
  MaxTime = 3
  MaxMessages = 2
  Prompt = FALSE
  Relogin = TRUE
  MaxFaults = 0
SYMMETRY MCSymmetry
INVARIANTS TypeOK CursorNotAhead
PROPERTIES FetchSkipsNothing
CHECK_DEADLOCK FALSE
