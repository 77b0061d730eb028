\* One worker (--thread-pool=1): shared files, changing pictures, expiring tokens,
\* a deleted group, one crash or disk error.
SPECIFICATION Spec
CONSTANTS
  Workers = {w1}
  Users = {u1}
  Tokens = {t1, t2}
  Hashes = {h1, h2}
  Msgs = {m1, m2}
  None = None
  Total = 2
  MaxPipe = 2
  MaxFaults = 1
SYMMETRY Symmetry
INVARIANTS
  TypeOK
  RefCountCovers
  FilesMatchReferences
CHECK_DEADLOCK FALSE
