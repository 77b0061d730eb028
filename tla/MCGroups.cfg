\* Two workers: deletion, joins, messages and codes interleave.
SPECIFICATION Spec
CONSTANTS
  Workers = {w1, w2}
  Users = {u1, u2}
  Groups = {g1}
  Msgs = {m1}
  Codes = {k1}
  None = None
  MaxUses = {0}
  MaxPipe = 1
SYMMETRY Symmetry
INVARIANTS
  TypeOK
  NoOrphans
  DeletionIsolated
  MessageReachesMembers
  MemberIsShownGroup
PROPERTY DeletedByRight
CHECK_DEADLOCK FALSE
