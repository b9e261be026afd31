SPECIFICATION Spec
CONSTANTS
  u1 = u1
  u2 = u2
  Users = {u1, u2}
  Senders = {u1}
  Joined = 2
  MaxTime = 5
  MaxMessages = 1
  Prompt = TRUE
  Relogin = FALSE
  MaxFaults = 1
INVARIANTS UnfetchedIsAnnounced SpacedNeverSkipped ConfirmedBehindCursors
PROPERTIES ReadTimeMonotonic
CHECK_DEADLOCK FALSE
