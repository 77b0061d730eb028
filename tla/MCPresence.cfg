\* One worker (--thread-pool=1): a user leaves and comes back while another
\* watches and a group is joined and deleted.
SPECIFICATION Spec
CONSTANTS
  Workers = {w1}
  Users = {u1, u2}
  Conns = {c1, c2, c3}
  Groups = {g1}
  None = None
  MaxPipe = 2
INVARIANTS LastBroadcastIsTrue WrongIsCorrected
CHECK_DEADLOCK FALSE
