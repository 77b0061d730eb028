\* Two workers; two descriptors for two clients and two timers, so that they run out.
SPECIFICATION Spec
CONSTANTS
  Workers = {w1, w2}
  Clients = {c1, c2}
  Timers = {t1, t2}
  Fds = {f1, f2}
  Listener = Listener
  EventFd = EventFd
  None = None
  MaxEvents = 2
SYMMETRY Symmetry
INVARIANTS
  TypeOK
  OneWorkerPerEvent
  ClientTableExact
  LiveIsEntered
  
CHECK_DEADLOCK FALSE
