\* Two workers, one of which may wait for a client while the other waits in epoll.
SPECIFICATION FairSpec
CONSTANTS
  Workers = {w1, w2}
  Clients = {c1, c2}
  Timers = {}
  Fds = {f1, f2}
  Listener = Listener
  EventFd = EventFd
  None = None
  MaxEvents = 2
PROPERTY StopsUnlessPeerSilent
CHECK_DEADLOCK FALSE
