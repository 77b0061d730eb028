\* Two workers, reconnecting users, second logins, logins at the same time.
SPECIFICATION Spec
CONSTANTS
  Workers = {w1, w2}
  Clients = {c1, c2}
  Users = {u1, u2}
  SessionIds = {s1}
  None = None
  MaxPending = 1
SYMMETRY Symmetry
INVARIANTS
  TypeOK
  NoEntryOutlivesClient
  LoggedInReachable
  NoTimerWhileConnected
CHECK_DEADLOCK FALSE
