SPECIFICATION Spec
CONSTANTS
  Users = {u1, u2}
  Workers = {w1, w2}
  NoUser = NoUser
  MaxFaults = 2
SYMMETRY MCSymmetry
INVARIANTS TypeOK FriendshipWasAskedFor OneRowUnlessCrossed
PROPERTY ApartHandlersAreAtomic
