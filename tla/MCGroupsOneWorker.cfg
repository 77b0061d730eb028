\* One worker (--thread-pool=1): statements never interleave.
SPECIFICATION Spec
CONSTANTS
  Workers = {w1}
  Users = {u1, u2, u3}
  Groups = {g1}
  Msgs = {m1}
  Codes = {k1}
  None = None
  MaxUses = {0, 2}
  MaxPipe = 2
SYMMETRY Symmetry
INVARIANTS
  CodeUsesBounded
  DeletedLeavesView
CHECK_DEADLOCK FALSE
