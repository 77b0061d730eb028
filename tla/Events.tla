------------------------------- MODULE Events -------------------------------
(***************************************************************************)
(* Events, descriptors and the end of the server.                            *)
(*   server_events.c   event_ht and epoll: add, rearm, dispatch, delete,     *)
(*   server_client.c   accepting and freeing a client, client_ht,            *)
(*   server_timer.c    the descriptor and the event of a timer,              *)
(*   server_eworker.c  the workers' loop around epoll_wait,                  *)
(*   server_tm.c, server_signal.c, server.c, server_init.c                   *)
(*                     start, signal, waking and joining the workers,        *)
(*                     clearing the tables.                                  *)
(*                                                                           *)
(* An object is what an event belongs to: the listening socket, the eventfd, *)
(* a client, a timer.  The kernel gives a closed descriptor out again, and   *)
(* the tables know objects by their descriptor, and their deletions may take *)
(* other entries along (HashTable, LossyMap): that is what can go wrong.     *)
(* What a request does is in the other modules; here it may open a timer or  *)
(* cancel one.                                                               *)
(***************************************************************************)
EXTENDS Integers, FiniteSets

CONSTANTS Workers, Clients, Timers,
          Fds,        \* descriptors for clients and timers
          Listener,   \* server->sock, the object and its descriptor
          EventFd,    \* server->eventfd, likewise
          None,
          MaxEvents   \* EWORKER_MAX_EVENTS

Objects == Clients \cup Timers \cup {Listener, EventFd}
Keys    == Fds \cup {Listener, EventFd}

ASSUME ObjectsAssumption ==
  /\ Listener # EventFd /\ {Listener, EventFd} \cap (Clients \cup Timers) = {}
  /\ Clients \cap Timers = {} /\ None \notin Objects
ASSUME FdsAssumption ==
  /\ {Listener, EventFd} \cap Fds = {} /\ None \notin Keys
ASSUME MaxEventsAssumption == MaxEvents \in Nat \ {0}

VARIABLES
  state,      \* of an object: "new", "queued" (backlog), "open", "freed"
  fd,         \* its descriptor
  event_ht,   \* descriptor -> object whose server_event_t is entered
  client_ht,  \* descriptor -> client
  armed,      \* objects epoll may report
  worker,     \* the workers
  running,    \* server->running
  shutdown,   \* TM_STATE_SHUTDOWN
  main,       \* where the main thread stands
  ub,         \* history: freed or missing memory has been used
  late,       \* history: an event was deleted while running was false
  twice,      \* history: an object was freed a second time
  lostEvents, \* history: objects whose entry in event_ht the deletion of
              \* another key or a refused registration took
  lostClients \* history: likewise, clients whose entry in client_ht was taken

tables  == <<event_ht, client_ht>>
process == <<running, shutdown, main>>
lost    == <<lostEvents, lostClients>>
history == <<ub, late, twice, lost>>
vars    == <<state, fd, tables, armed, worker, process, history>>

Report == [obj : Objects, ev : {"in", "hup"}]

(* A worker: its place, the reports it still has to process, the object      *)
(* whose event it handles, the one it deletes, the one it opens.             *)
Idle == [pc |-> "batch", batch |-> {}, obj |-> None, del |-> None, new |-> None,
         back |-> "batch"]

Free == Fds \ {fd[o] : o \in {x \in Clients \cup Timers : state[x] = "open"}}

(* server_init: the workers run before running is set.                       *)
Init ==
  /\ state = [o \in Objects |-> IF o \in {Listener, EventFd} THEN "open" ELSE "new"]
  /\ fd = [o \in Objects |-> IF o \in {Listener, EventFd} THEN o ELSE None]
  /\ event_ht = [k \in Keys |-> IF k \in Fds THEN None ELSE k]
  /\ client_ht = [f \in Fds |-> None]
  /\ armed = {Listener, EventFd}
  /\ worker = [w \in Workers |-> Idle]
  /\ running = FALSE /\ shutdown = FALSE /\ main = "init"
  /\ ub = FALSE /\ late = FALSE /\ twice = FALSE
  /\ lostEvents = {} /\ lostClients = {}

(* A peer connects; the connection waits in the backlog.                     *)
Connect(c) ==
  /\ state[c] = "new" /\ state[Listener] = "open"
  /\ state' = [state EXCEPT ![c] = "queued"]
  /\ UNCHANGED <<fd, tables, armed, worker, process, history>>

(* server_ght_del: what a table may be after key k is deleted; the entries   *)
(* behind it in its bucket go with it (LossyMap!Delete).                     *)
server_ght_del(ht, k) ==
  IF ht[k] = None THEN {ht}
  ELSE {[x \in DOMAIN ht |-> IF x \in kept THEN ht[x] ELSE None] :
          kept \in SUBSET {x \in DOMAIN ht \ {k} : ht[x] # None}}

(* Objects other than o whose entry a deletion has taken.                    *)
Taken(ht, after, o) ==
  {ht[x] : x \in {y \in DOMAIN ht : ht[y] \notin {after[y], o}}}

-----------------------------------------------------------------------------
(* eworker_wait_for_events                                                   *)

At(w, pc) == worker[w].pc = pc
Goto(w, pc) == worker' = [worker EXCEPT ![w].pc = pc]

(* The event is done; the next one of the batch follows.                     *)
Finish(w) ==
  worker' = [worker EXCEPT ![w] = [Idle EXCEPT !.batch = worker[w].batch]]

(* With the batch done, or none yet, the flag is looked at; then the results  *)
(* of queries, if there are any, are handed to their callbacks.              *)
Loop(w) ==
  /\ At(w, "batch") /\ worker[w].batch = {}
  /\ \E pc \in IF shutdown THEN {"ended"} ELSE {"callback", "wait"} : Goto(w, pc)
  /\ UNCHANGED <<state, fd, tables, armed, process, history>>

(* The callbacks have returned from the last SSL_write.                      *)
CallbacksDone(w) ==
  /\ At(w, "callback")
  /\ Goto(w, "wait")
  /\ UNCHANGED <<state, fd, tables, armed, process, history>>

(* The eventfd is readable from the write on: nobody reads it.               *)
EventFdWritten == main \notin {"init", "signals", "flag", "write"}

(* What epoll may report: peers send and leave and timers expire at any time.*)
Ready ==
  {r \in Report :
     /\ r.obj \in armed
     /\ r.ev = "hup" => r.obj \in Clients
     /\ r.obj = Listener => \E c \in Clients : state[c] = "queued"
     /\ r.obj = EventFd => EventFdWritten}

(* Mutant: every event stays armed while it is handled.                      *)
NothingOneShot == {}

(* Mutant: the eventfd is registered like the others.                        *)
AllOneShot == Objects

(* EPOLLONESHOT: reported once, until rearmed.                               *)
OneShot == Objects \ {EventFd}

EpollWait(w) ==
  /\ At(w, "wait")
  /\ \E batch \in SUBSET Ready :
       /\ Cardinality(batch) \in 1 .. MaxEvents
       /\ \A r, s \in batch : r.obj = s.obj => r = s
       /\ worker' = [worker EXCEPT ![w] = [@ EXCEPT !.batch = batch, !.pc = "batch"]]
       /\ armed' = armed \ ({r.obj : r \in batch} \cap OneShot)
  /\ UNCHANGED <<state, fd, tables, process, history>>

(* server_process_event: take the next report of the batch.                  *)
Handles(w, r, pc) ==
  /\ At(w, "batch") /\ r \in worker[w].batch
  /\ worker' = [worker EXCEPT ![w] =
       [@ EXCEPT !.batch = worker[w].batch \ {r}, !.obj = r.obj, !.pc = pc,
                 !.del = IF pc = "del" THEN r.obj ELSE None]]

(* A client's data; a timer, whose read ends in SE_CLOSE; eventfd_dummy_read.*)
DispatchRead(w) ==
  /\ \E r \in worker[w].batch :
       /\ r.ev = "in"
       /\ \/ r.obj \in Clients /\ Handles(w, r, "read")
          \/ r.obj \in Timers /\ Handles(w, r, "del")
          \/ /\ r.obj = EventFd /\ At(w, "batch")
             /\ worker' = [worker EXCEPT ![w].batch = @ \ {r}]
  /\ UNCHANGED <<state, fd, tables, armed, process, history>>

DispatchHangup(w) ==
  /\ \E r \in worker[w].batch : r.ev = "hup" /\ Handles(w, r, "del")
  /\ UNCHANGED <<state, fd, tables, armed, process, history>>

-----------------------------------------------------------------------------
(* server_accept_client, server_new_event                                    *)

(* Mutant: the result of accept() is not tested.                             *)
AcceptUntested(w) ==
  \E r \in worker[w].batch, c \in Clients :
    /\ r.obj = Listener /\ At(w, "batch") /\ state[c] = "queued"
    /\ state' = [state EXCEPT ![c] = "open"]
    /\ \E f \in IF Free = {} THEN {None} ELSE Free : fd' = [fd EXCEPT ![c] = f]
    /\ worker' = [worker EXCEPT ![w] = [@ EXCEPT !.batch = worker[w].batch \ {r},
                                                 !.obj = Listener, !.new = c, !.pc = "handshake"]]
    /\ UNCHANGED <<tables, armed, process, history>>

(* accept() fails when no descriptor is left; then the event of the          *)
(* listening socket is deleted (SE_ERROR).                                   *)
Accept(w) ==
  \E r \in worker[w].batch :
    /\ r.obj = Listener /\ At(w, "batch")
    /\ IF Free = {}
       THEN /\ Handles(w, r, "del")
            /\ UNCHANGED <<state, fd>>
       ELSE \E c \in Clients, f \in Free :
              /\ state[c] = "queued"
              /\ state' = [state EXCEPT ![c] = "open"]
              /\ fd' = [fd EXCEPT ![c] = f]
              /\ worker' = [worker EXCEPT ![w] = [@ EXCEPT !.batch = worker[w].batch \ {r},
                                                           !.obj = Listener, !.new = c, !.pc = "handshake"]]
    /\ UNCHANGED <<tables, armed, process, history>>

(* SSL_accept blocks until the peer answers; failing is not looked at here.  *)
Handshake(w) ==
  /\ At(w, "handshake")
  /\ Goto(w, "insert")
  /\ UNCHANGED <<state, fd, tables, armed, process, history>>

InsertClient(w) ==
  /\ At(w, "insert")
  /\ LET f == fd[worker[w].new] IN
       client_ht' = [client_ht EXCEPT ![f] = IF @ = None THEN worker[w].new ELSE @]
  /\ worker' = [worker EXCEPT ![w] = [@ EXCEPT !.pc = "register", !.back = "accepted"]]
  /\ UNCHANGED <<state, fd, event_ht, armed, process, history>>

(* server_new_event, or server_addtimer, returns.                            *)
Opened(w) ==
  worker' = [worker EXCEPT ![w] = [@ EXCEPT !.new = None, !.pc = worker[w].back]]

(* Mutant: an entry under the descriptor is replaced.                        *)
NewEventReplaces(w) ==
  /\ At(w, "register")
  /\ LET o == worker[w].new IN
       /\ event_ht' = [event_ht EXCEPT ![fd[o]] = o]
       /\ armed' = armed \cup {o}
  /\ Opened(w)
  /\ UNCHANGED <<state, fd, client_ht, process, history>>

(* server_new_event: enter the event and hand it to epoll; if the descriptor *)
(* is already entered, that entry is deleted and the event given up.         *)
server_new_event(w) ==
  /\ At(w, "register")
  /\ LET o == worker[w].new IN
     IF event_ht[fd[o]] = None
     THEN /\ event_ht' = [event_ht EXCEPT ![fd[o]] = o]
          /\ armed' = armed \cup {o}
          /\ Opened(w)
          /\ UNCHANGED lostEvents
     ELSE /\ event_ht' \in server_ght_del(event_ht, fd[o])
          /\ lostEvents' = lostEvents \cup Taken(event_ht, event_ht', None)
          /\ Goto(w, "undo")
          /\ UNCHANGED armed
  /\ UNCHANGED <<state, fd, client_ht, process, ub, late, twice, lostClients>>

(* A client that could not be registered is freed, and then the event of the *)
(* listening socket is deleted; a timer is closed.                           *)
UndoClient(w) ==
  /\ At(w, "undo") /\ worker[w].new \in Clients
  /\ client_ht' \in server_ght_del(client_ht, fd[worker[w].new])
  /\ lostClients' = lostClients \cup Taken(client_ht, client_ht', worker[w].new)
  /\ Goto(w, "undone")
  /\ UNCHANGED <<state, fd, event_ht, armed, process, ub, late, twice, lostEvents>>

Undone(w) ==
  /\ \/ /\ At(w, "undone")
        /\ worker' = [worker EXCEPT ![w] = [@ EXCEPT !.pc = "del", !.del = Listener,
                                                        !.new = None]]
     \/ At(w, "undo") /\ worker[w].new \in Timers /\ Opened(w)
  /\ state' = [state EXCEPT ![worker[w].new] = "freed"]
  /\ UNCHANGED <<fd, tables, armed, process, history>>

(* se_accept_conn writes a log line about the client, which another worker   *)
(* may have freed already, and the listening socket is rearmed.              *)
Accepted(w) ==
  /\ At(w, "accepted")
  /\ armed' = armed \cup {Listener}
  /\ Finish(w)
  /\ UNCHANGED <<state, fd, tables, process, history>>

-----------------------------------------------------------------------------
(* A client's event                                                          *)

(* se_read_client, which may block in SSL_read or SSL_write: the client is   *)
(* rearmed or, if the read fails or says so, closed.                         *)
ReadClient(w) ==
  /\ At(w, "read")
  /\ \/ armed' = armed \cup {worker[w].obj} /\ Finish(w)
     \/ /\ worker' = [worker EXCEPT ![w] = [@ EXCEPT !.pc = "del", !.del = worker[w].obj]]
        /\ UNCHANGED armed
  /\ UNCHANGED <<state, fd, tables, process, history>>

(* server_addtimer: for an upload token in a request, for the session of a   *)
(* client that is closed.  When no descriptor is left its error path reads   *)
(* the session of a timer that has none yet.                                 *)
AddTimer(w) ==
  /\ \/ At(w, "read")
     \/ At(w, "close") /\ worker[w].del \in Clients /\ running
  /\ \E t \in Timers :
       /\ state[t] = "new"
       /\ IF Free = {}
          THEN /\ ub' = TRUE
               /\ UNCHANGED <<state, fd, worker>>
          ELSE \E f \in Free :
                 /\ state' = [state EXCEPT ![t] = "open"]
                 /\ fd' = [fd EXCEPT ![t] = f]
                 /\ worker' = [worker EXCEPT ![w] = [@ EXCEPT !.new = t, !.back = worker[w].pc,
                                                              !.pc = "register"]]
                 /\ UNCHANGED ub
  /\ UNCHANGED <<tables, armed, process, late, twice, lost>>

(* The objects whose events a worker has: reported to it, handled, deleted.  *)
Busy(w) == {r.obj : r \in worker[w].batch} \cup ({worker[w].obj, worker[w].del} \ {None})

(* The handler or the callback of another object, a login or an upload, has  *)
(* the event of a timer deleted that it finds in event_ht.  Nothing keeps it *)
(* from doing so while the timer has been reported, to this worker or to     *)
(* another one, which then uses an event that is freed.                      *)
CancelTimer(w) ==
  /\ worker[w].pc \in {"read", "callback"}
  /\ \E t \in Timers :
       /\ state[t] = "open" /\ event_ht[fd[t]] = t
       /\ ub' = (\E v \in Workers : t \in Busy(v))
       /\ armed' = armed \ {t}
       /\ worker' = [worker EXCEPT ![w] = [@ EXCEPT !.del = t, !.back = worker[w].pc,
                                                    !.pc = "close"]]
  /\ UNCHANGED <<state, fd, tables, process, late, twice, lost>>

-----------------------------------------------------------------------------
(* server_del_event                                                          *)

(* Mutant: the client stays in client_ht.                                    *)
ForgetNobody(o) == {client_ht}

(* server_ght_del in server_free_client                                      *)
Forget(o) ==
  IF o \in Clients THEN server_ght_del(client_ht, fd[o]) ELSE {client_ht}

DelEvent(w) ==
  /\ At(w, "del")
  /\ armed' = armed \ {worker[w].del}
  /\ client_ht' \in Forget(worker[w].del)
  /\ lostClients' = lostClients \cup Taken(client_ht, client_ht', worker[w].del)
  /\ Goto(w, "close")
  /\ UNCHANGED <<state, fd, event_ht, process, ub, late, twice, lostEvents>>

(* close(fd): the number is free from here on.                               *)
CloseFd(w) ==
  /\ At(w, "close")
  /\ state' = [state EXCEPT ![worker[w].del] = "freed"]
  /\ twice' = (twice \/ state[worker[w].del] = "freed")
  /\ Goto(w, "erase")
  /\ UNCHANGED <<fd, tables, armed, process, ub, late, lost>>

(* After the handled event has been deleted the next one follows; after      *)
(* another object's, the handler or callback goes on.                        *)
Deleted(w) ==
  IF worker[w].del = worker[w].obj THEN Finish(w)
  ELSE worker' = [worker EXCEPT ![w] = [@ EXCEPT !.del = None, !.pc = worker[w].back]]

(* Mutant: entries stay until the end.                                       *)
EraseNever(w) ==
  /\ At(w, "erase")
  /\ Deleted(w)
  /\ UNCHANGED <<state, fd, tables, armed, process, history>>

(* The entry is deleted, by descriptor, unless the server is stopping or not *)
(* yet running; if it was lost, the descriptor may be another object's now.  *)
EraseEvent(w) ==
  /\ At(w, "erase")
  /\ IF running
     THEN LET f == fd[worker[w].del] IN
          /\ event_ht' \in server_ght_del(event_ht, f)
          /\ lostEvents' = lostEvents \cup Taken(event_ht, event_ht', event_ht[f])
          /\ UNCHANGED late
     ELSE /\ late' = TRUE
          /\ UNCHANGED <<event_ht, lostEvents>>
  /\ Deleted(w)
  /\ UNCHANGED <<state, fd, client_ht, armed, process, ub, twice, lostClients>>

-----------------------------------------------------------------------------
(* The main thread                                                           *)

MainGoes(from, to) == main = from /\ main' = to

Started ==
  /\ MainGoes("init", "signals")
  /\ running' = TRUE
  /\ UNCHANGED <<state, fd, tables, armed, worker, shutdown, history>>

(* SIGINT or SIGTERM                                                         *)
server_handle_signal ==
  /\ MainGoes("signals", "flag")
  /\ running' = FALSE
  /\ UNCHANGED <<state, fd, tables, armed, worker, shutdown, history>>

(* server_tm_shutdown_threads: the flag, the eventfd, joining.               *)
SetShutdown ==
  /\ MainGoes("flag", "write")
  /\ shutdown' = TRUE
  /\ UNCHANGED <<state, fd, tables, armed, worker, running, history>>

WriteEventFd ==
  /\ MainGoes("write", "join")
  /\ UNCHANGED <<state, fd, tables, armed, worker, running, shutdown, history>>

Ended == \A w \in Workers : At(w, "ended")

Join ==
  /\ MainGoes("join", "events") /\ Ended
  /\ UNCHANGED <<state, fd, tables, armed, worker, running, shutdown, history>>

(* server_del_event for every entry; entries stay, running being false.  The *)
(* clients among them leave client_ht, perhaps with others.                  *)
server_del_all_events ==
  /\ MainGoes("events", "clients")
  /\ LET entered == {event_ht[k] : k \in Keys} \ {None}
         others  == {f \in Fds : client_ht[f] # None /\ client_ht[f] \notin entered} IN
       /\ twice' = (twice \/ \E o \in entered : state[o] = "freed")
       /\ state' = [o \in Objects |-> IF o \in entered THEN "freed" ELSE state[o]]
       /\ armed' = armed \ entered
       /\ \E kept \in SUBSET others :
            /\ client_ht' = [f \in Fds |-> IF f \in kept THEN client_ht[f] ELSE None]
            /\ lostClients' = lostClients \cup {client_ht[f] : f \in others \ kept}
  /\ UNCHANGED <<fd, event_ht, worker, running, shutdown, ub, late, lostEvents>>

(* server_free_client for the clients that are left; closing its descriptor  *)
(* takes a client out of epoll.  The walk over the table deletes the bucket  *)
(* it stands on and misses the ones that this moves or cuts off.             *)
server_del_all_clients ==
  /\ MainGoes("clients", "done")
  /\ LET entered == {client_ht[f] : f \in Fds} \ {None} IN
     \E met \in SUBSET entered :
       /\ met = {} => entered = {}
       /\ twice' = (twice \/ \E o \in met : state[o] = "freed")
       /\ state' = [o \in Objects |-> IF o \in met THEN "freed" ELSE state[o]]
       /\ armed' = armed \ met
       /\ lostClients' = lostClients \cup (entered \ met)
  /\ client_ht' = [f \in Fds |-> None]
  /\ UNCHANGED <<fd, event_ht, worker, running, shutdown, ub, late, lostEvents>>

-----------------------------------------------------------------------------
(* After the use of freed or missing memory nothing is claimed of a worker.  *)
WorkerStep(w) ==
  /\ ~ub
  /\ \/ Loop(w) \/ EpollWait(w) \/ DispatchRead(w) \/ DispatchHangup(w)
     \/ Accept(w) \/ InsertClient(w) \/ server_new_event(w) \/ UndoClient(w) \/ Undone(w)
     \/ Accepted(w) \/ DelEvent(w) \/ CloseFd(w) \/ EraseEvent(w)

(* What waits for a peer, and what a handler or a callback may choose to do. *)
PeerStep(w) ==
  /\ ~ub
  /\ CallbacksDone(w) \/ Handshake(w) \/ ReadClient(w) \/ AddTimer(w) \/ CancelTimer(w)

Cleanup == SetShutdown \/ WriteEventFd \/ Join \/ server_del_all_events \/ server_del_all_clients

Next ==
  \/ \E c \in Clients : Connect(c)
  \/ \E w \in Workers : WorkerStep(w) \/ PeerStep(w)
  \/ Started \/ server_handle_signal \/ Cleanup

Spec == Init /\ [][Next]_vars

(* Threads run; peers and signals may never come.                            *)
FairSpec == Spec /\ WF_vars(Cleanup) /\ \A w \in Workers : WF_vars(WorkerStep(w))

-----------------------------------------------------------------------------
(* Properties                                                                *)

TypeOK ==
  /\ state \in [Objects -> {"new", "queued", "open", "freed"}]
  /\ fd \in [Objects -> Keys \cup {None}]
  /\ \A o \in Objects : state[o] = "open" => fd[o] \in Keys
  /\ event_ht \in [Keys -> Objects \cup {None}]
  /\ client_ht \in [Fds -> Clients \cup {None}]
  /\ armed \subseteq Objects
  /\ \A w \in Workers :
       /\ worker[w].batch \subseteq Report
       /\ {worker[w].obj, worker[w].del, worker[w].new} \subseteq Objects \cup {None}
  /\ {running, shutdown, ub, late, twice} \subseteq BOOLEAN
  /\ lostEvents \subseteq Objects /\ lostClients \subseteq Clients

(* An event is handled or deleted by one worker at a time, and epoll does not *)
(* report it meanwhile: nobody frees a client that another worker reads       *)
(* (EPOLLONESHOT, server_event_rearm).  The one way out is a timer that a     *)
(* login or an upload cancels after it was reported; a client and the         *)
(* listening socket have none.                                                *)
OneWorkerPerEvent ==
  \A w \in Workers : \A o \in Busy(w) \ {EventFd} :
    \/ /\ o \notin armed
       /\ \A v \in Workers \ {w} : o \notin Busy(v)
    \/ o \in Timers /\ ub

(* client_ht names live clients under their own descriptors, though the      *)
(* kernel gives descriptors out again at once (server_free_client forgets    *)
(* the client before it closes).                                             *)
ClientTableExact ==
  \A f \in Fds : client_ht[f] # None => state[client_ht[f]] = "open" /\ fd[client_ht[f]] = f

(* Why an open object may be missing in event_ht: its own entry was taken    *)
(* along by a deletion, or that of an object which had the same descriptor   *)
(* before it and whose late deletion then hit it (server_ht.c).              *)
EventLost(o) == \E p \in lostEvents : fd[p] = fd[o]

(* A client that epoll may report, or that is being read, is in client_ht    *)
(* and in event_ht, whatever the other workers close and accept, unless its  *)
(* entry was lost: a late deletion by descriptor hits no later owner of it   *)
(* otherwise (server_del_event, server_free_client).                         *)
LiveIsEntered ==
  \A c \in Clients :
    c \in armed \/ (\E w \in Workers : At(w, "read") /\ worker[w].obj = c) =>
      /\ client_ht[fd[c]] = c \/ c \in lostClients
      /\ event_ht[fd[c]] = c \/ EventLost(c)

(* "Cleanup: disconnecting connected clients, freeing up memory": when the   *)
(* main thread is done everything that was opened is freed, and once, unless *)
(* an event was deleted outside of running; except what its table has lost,  *)
(* a client only if both have (server_cleanup).                              *)
CleanupFreesOnce ==
  main = "done" /\ ~late =>
    /\ ~twice
    /\ \A o \in Objects :
         state[o] = "open" => EventLost(o) /\ (o \in Clients => o \in lostClients)

(* After a signal all workers end, however they are spread over waiting and  *)
(* handling, unless one of them waits for a silent peer in a handshake, a    *)
(* handler or a callback, or has used freed memory                           *)
(* (server_tm_shutdown_threads, eventfd_dummy_read).                         *)
StopsUnlessPeerSilent ==
  shutdown ~> (Ended \/ ub \/ \E w \in Workers : worker[w].pc \in {"handshake", "read", "callback"})

(* "Encounters unexpected errors when multiple clients disconnect            *)
(* simultaneously. Fixed.": as long as descriptors are left, connections     *)
(* and disconnections do not end the accepting of connections.               *)
ListenerKept == (running /\ ~late /\ ~ub /\ Free # {}) => state[Listener] = "open"
=============================================================================
