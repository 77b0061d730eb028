\* More descriptors than clients; one client leaves while another connects.
SPECIFICATION Spec
CONSTANTS
  Workers = {w1, w2}
  Clients = {c1, c2}
  Timers = {}
  Fds = {f1, f2, f3}
  Listener = Listener
  EventFd = EventFd
  None = None
  MaxEvents = 1
SYMMETRY Symmetry
INVARIANT ListenerKept
CHECK_DEADLOCK FALSE
