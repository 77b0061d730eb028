---------------------------- MODULE EventsProofs ----------------------------
(***************************************************************************)
(* Proofs about Events, for every number of workers, clients, timers and    *)
(* descriptors.                                                             *)
(***************************************************************************)
EXTENDS Events, TLAPS

Rest == {"batch", "ended", "callback", "wait"}
Pcs  == Rest \cup {"read", "del", "close", "erase", "handshake", "insert", "register",
                   "undo", "undone", "accepted"}

(* The stages between opening a client or a timer and entering its event.   *)
Opening == {"handshake", "insert", "register", "undo", "undone"}

WorkerType == [pc : Pcs, batch : SUBSET Report, obj : Objects \cup {None},
               del : Objects \cup {None}, new : Objects \cup {None},
               back : {"batch", "accepted", "read", "close", "callback"}]

Types ==
  /\ state \in [Objects -> {"new", "queued", "open", "freed"}]
  /\ fd \in [Objects -> Keys \cup {None}]
  /\ event_ht \in [Keys -> Objects \cup {None}]
  /\ client_ht \in [Fds -> Clients \cup {None}]
  /\ armed \subseteq Objects
  /\ worker \in [Workers -> WorkerType]
  /\ running \in BOOLEAN /\ shutdown \in BOOLEAN
  /\ ub \in BOOLEAN /\ late \in BOOLEAN /\ twice \in BOOLEAN
  /\ lostEvents \subseteq Objects /\ lostClients \subseteq Clients

(* A worker that deletes has the event it handles deleted, or a timer's in   *)
(* the middle of a read or a callback.                                      *)
DeletesOwn(w) == worker[w].del = worker[w].obj /\ worker[w].del \in Objects \ {EventFd}

DeletesTimer(w) ==
  /\ worker[w].pc # "del" /\ worker[w].del \in Timers
  /\ \/ worker[w].back = "read" /\ worker[w].obj \in Clients
     \/ worker[w].back = "callback" /\ worker[w].obj = None /\ worker[w].batch = {}

(* A worker that opens was called by the listening socket's handler, in a    *)
(* client's request, or while it closes a client.                           *)
OpensClient(w) ==
  /\ worker[w].new \in Clients /\ worker[w].obj = Listener
  /\ worker[w].del = None /\ worker[w].back = "accepted"

OpensTimer(w) ==
  /\ worker[w].new \in Timers /\ worker[w].obj \in Clients
  /\ \/ worker[w].del = None /\ worker[w].back = "read"
     \/ worker[w].del = worker[w].obj /\ worker[w].back = "close"

(* What a worker at a stage of a handler holds.                             *)
Stage(w) ==
  /\ worker[w].pc \in {"ended", "callback", "wait"} => worker[w].batch = {}
  /\ \A r \in worker[w].batch : r.ev = "hup" => r.obj \in Clients
  /\ \A r, s \in worker[w].batch : r.obj = s.obj => r = s
  /\ \A r \in worker[w].batch : r.obj # worker[w].obj /\ (~ub => r.obj # worker[w].del)
  /\ worker[w].pc \in Rest => worker[w].obj = None /\ worker[w].del = None
  /\ worker[w].pc = "read" => worker[w].obj \in Clients /\ worker[w].del = None
  /\ worker[w].pc \in {"del", "close", "erase"} => DeletesOwn(w) \/ DeletesTimer(w)
  /\ worker[w].pc \in {"handshake", "insert", "undone"} =>
       worker[w].obj = Listener /\ worker[w].new \in Clients /\ worker[w].del = None
  /\ worker[w].pc = "accepted" => worker[w].obj = Listener /\ worker[w].del = None
  /\ worker[w].pc \in {"register", "undo"} => OpensClient(w) \/ OpensTimer(w)
Stages == \A w \in Workers : Stage(w)

(* What epoll may report and what is handled is open, until close().        *)
HandledIsOpen ==
  /\ \A o \in armed : state[o] = "open"
  /\ \A w \in Workers :
       /\ \A r \in worker[w].batch : state[r.obj] = "open"
       /\ worker[w].obj # None /\ ~(worker[w].pc = "erase" /\ worker[w].del = worker[w].obj)
            => state[worker[w].obj] = "open"
       /\ worker[w].del # None
            => state[worker[w].del] = IF worker[w].pc = "erase" THEN "freed" ELSE "open"

(* An object being opened is known to the worker that opens it alone.       *)
NewIsPrivate ==
  \A w \in Workers : worker[w].pc \in Opening =>
    /\ state[worker[w].new] = "open" /\ worker[w].new \notin armed
    /\ \A k \in Keys : event_ht[k] # worker[w].new
    /\ \A v \in Workers :
         /\ worker[w].new \notin Busy(v)
         /\ v # w /\ worker[v].pc \in Opening => worker[v].new # worker[w].new

(* Open objects have descriptors of their own.                              *)
Descriptors ==
  /\ fd[Listener] = Listener /\ fd[EventFd] = EventFd
  /\ \A o \in Clients \cup Timers : state[o] \in {"open", "freed"} => fd[o] \in Fds
  /\ \A o, p \in Objects : state[o] = "open" /\ state[p] = "open" /\ fd[o] = fd[p] => o = p
  /\ state[Listener] \in {"open", "freed"} /\ state[EventFd] \in {"open", "freed"}

(* From InsertClient to DelEvent a client is in client_ht, if its entry was  *)
(* not lost; before and after it is not.                                    *)
Listed(c) == client_ht[fd[c]] = c \/ c \in lostClients

Closing(w) == worker[w].pc \in {"close", "register", "undo"} /\ worker[w].del = worker[w].obj

ClientsListed ==
  /\ \A c \in Clients : c \in armed => Listed(c)
  /\ \A w \in Workers :
       /\ \A r \in worker[w].batch : r.obj \in Clients => Listed(r.obj)
       /\ worker[w].obj \in Clients /\ ~Closing(w)
            /\ ~(worker[w].pc = "erase" /\ worker[w].del = worker[w].obj) => Listed(worker[w].obj)
       /\ worker[w].pc \in {"register", "undo"} /\ worker[w].new \in Clients
            => Listed(worker[w].new)

ClientsUnlisted ==
  \A w \in Workers, f \in Fds :
    /\ worker[w].pc \in {"handshake", "insert", "undone"} => client_ht[f] # worker[w].new
    /\ Closing(w) => client_ht[f] # worker[w].obj

OpenListed ==
  \A c \in Clients : state[c] = "open" =>
    \/ Listed(c)
    \/ \E w \in Workers : worker[w].pc \in {"handshake", "insert", "undone"} /\ worker[w].new = c
    \/ \E w \in Workers : Closing(w) /\ worker[w].obj = c

(* An entry of event_ht stands under its object's descriptor.               *)
EntryKeys ==
  /\ \A k \in Keys : event_ht[k] # None =>
       fd[event_ht[k]] = k /\ state[event_ht[k]] \in {"open", "freed"}
  /\ \A o \in lostEvents : state[o] \in {"open", "freed"}

(* Whatever is armed or handled is entered, and everything open is, or is    *)
(* being opened, but for what the table has lost.                           *)
Entered(o) == event_ht[fd[o]] = o \/ EventLost(o)

HandledEntered ==
  /\ \A o \in armed : Entered(o)
  /\ \A w \in Workers : \A o \in Busy(w) : Entered(o)

OpenEntered ==
  \A o \in Objects : state[o] = "open" =>
    \/ Entered(o)
    \/ \E w \in Workers : worker[w].pc \in Opening /\ worker[w].new = o

RefusedLost ==
  \A w \in Workers : worker[w].pc \in {"undo", "undone"} => EventLost(worker[w].new)

(* As long as no event was deleted outside of running, what is entered is    *)
(* open, or a worker is about to delete the entry.                          *)
EnteredOpen ==
  ~late =>
    \A k \in Keys : event_ht[k] # None =>
      \/ state[event_ht[k]] = "open"
      \/ main \in {"clients", "done"}
      \/ \E w \in Workers : worker[w].pc = "erase" /\ worker[w].del = event_ht[k]

(* The tables are cleared after the workers have ended.                     *)
EndOfMain ==
  /\ main \in {"events", "clients", "done"} => Ended
  /\ main = "done" => \A f \in Fds : client_ht[f] = None
  /\ ~late =>
       /\ ~twice
       /\ main \in {"clients", "done"} =>
            \A o \in Objects : state[o] = "open" => EventLost(o) /\ (o \in Clients => Listed(o))

IInv ==
  /\ Types /\ Stages /\ HandledIsOpen /\ NewIsPrivate /\ Descriptors
  /\ OneWorkerPerEvent /\ ClientTableExact /\ ClientsListed /\ ClientsUnlisted /\ OpenListed
  /\ EntryKeys /\ HandledEntered /\ OpenEntered /\ EnteredOpen /\ EndOfMain

-----------------------------------------------------------------------------
(* Busy, spelled out: here and in the next state.                           *)
LEMMA BusyMember ==
  ASSUME NEW w \in Workers, NEW o
  PROVE  /\ o \in Busy(w) <=>
              \/ \E r \in worker[w].batch : r.obj = o
              \/ o # None /\ (o = worker[w].obj \/ o = worker[w].del)
         /\ o \in Busy(w)' <=>
              \/ \E r \in worker'[w].batch : r.obj = o
              \/ o # None /\ (o = worker'[w].obj \/ o = worker'[w].del)
BY DEF Busy

(* A step that moves one worker leaves the others where they are.           *)
LEMMA Moves ==
  ASSUME Types, NEW w \in Workers, NEW x \in WorkerType, worker' = [worker EXCEPT ![w] = x]
  PROVE  /\ worker' \in [Workers -> WorkerType] /\ worker'[w] = x
         /\ \A v \in Workers : v # w => worker'[v] = worker[v]
         /\ \A v \in Workers : v # w => Busy(v)' = Busy(v)
BY DEF Types, Busy

(* To another stage with everything it holds.                               *)
LEMMA GotoMoves ==
  ASSUME Types, NEW w \in Workers, NEW pc \in Pcs, Goto(w, pc)
  PROVE  /\ worker' \in [Workers -> WorkerType]
         /\ \A v \in Workers : v # w => worker'[v] = worker[v]
         /\ \A v \in Workers : Busy(v)' = Busy(v)
         /\ worker'[w].pc = pc /\ worker'[w].batch = worker[w].batch
         /\ worker'[w].obj = worker[w].obj /\ worker'[w].new = worker[w].new
         /\ worker'[w].del = worker[w].del /\ worker'[w].back = worker[w].back
<1>1. /\ worker' \in [Workers -> WorkerType]
      /\ \A v \in Workers : v # w => worker'[v] = worker[v]
      /\ worker'[w].pc = pc /\ worker'[w].batch = worker[w].batch
      /\ worker'[w].obj = worker[w].obj /\ worker'[w].new = worker[w].new
      /\ worker'[w].del = worker[w].del /\ worker'[w].back = worker[w].back
  BY DEF Types, Goto, WorkerType
<1>2. \A v \in Workers : Busy(v)' = Busy(v)  BY <1>1 DEF Busy
<1>3. QED  BY <1>1, <1>2

(* The worker goes on to the rest of its batch.                             *)
LEMMA FinishMoves ==
  ASSUME Types, NEW w \in Workers, Finish(w)
  PROVE  /\ worker' \in [Workers -> WorkerType]
         /\ \A v \in Workers : v # w => worker'[v] = worker[v]
         /\ \A v \in Workers : v # w => Busy(v)' = Busy(v)
         /\ worker'[w].pc = "batch" /\ worker'[w].batch = worker[w].batch
         /\ worker'[w].obj = None /\ worker'[w].del = None
         /\ \A o : o \in Busy(w)' <=> \E r \in worker[w].batch : r.obj = o
<1>1. /\ worker' \in [Workers -> WorkerType]
      /\ \A v \in Workers : v # w => worker'[v] = worker[v]
      /\ worker'[w].pc = "batch" /\ worker'[w].batch = worker[w].batch
      /\ worker'[w].obj = None /\ worker'[w].del = None
  BY DEF Types, Finish, Idle, WorkerType, Pcs, Rest
<1>2. QED  BY <1>1 DEF Busy

(* epoll_wait has returned a batch.                                         *)
LEMMA EpollMoves ==
  ASSUME Types, NEW w \in Workers, NEW batch \in SUBSET Report,
         worker' = [worker EXCEPT ![w] = [@ EXCEPT !.batch = batch, !.pc = "batch"]]
  PROVE  /\ worker' \in [Workers -> WorkerType]
         /\ \A v \in Workers : v # w => worker'[v] = worker[v]
         /\ worker'[w].pc = "batch" /\ worker'[w].batch = batch
         /\ worker'[w].obj = worker[w].obj /\ worker'[w].del = worker[w].del
         /\ worker'[w].new = worker[w].new
<1>1. /\ worker[w] \in WorkerType
      /\ [worker[w] EXCEPT !.batch = batch, !.pc = "batch"] \in WorkerType
  BY DEF Types, WorkerType, Pcs, Rest
<1>2. PICK x \in WorkerType :
        /\ x = [worker[w] EXCEPT !.batch = batch, !.pc = "batch"] /\ x.pc = "batch" /\ x.batch = batch
        /\ x.obj = worker[w].obj /\ x.del = worker[w].del /\ x.new = worker[w].new
  BY <1>1 DEF WorkerType
<1>3. worker' = [worker EXCEPT ![w] = x] /\ worker \in [Workers -> WorkerType]
  BY <1>2 DEF Types
<1>4. QED  BY <1>2, <1>3

(* server_process_event takes a report out of the batch.                    *)
LEMMA HandlesMoves ==
  ASSUME Types, NEW w \in Workers, NEW r, NEW pc \in Pcs, Handles(w, r, pc)
  PROVE  /\ worker[w].pc = "batch" /\ r \in worker[w].batch /\ r \in Report /\ r.obj \in Objects
         /\ worker' \in [Workers -> WorkerType]
         /\ \A v \in Workers : v # w => worker'[v] = worker[v]
         /\ worker'[w].pc = pc /\ worker'[w].batch = worker[w].batch \ {r}
         /\ worker'[w].obj = r.obj /\ worker'[w].new = worker[w].new
         /\ worker'[w].del = IF pc = "del" THEN r.obj ELSE None
<1>1. worker[w].pc = "batch" /\ r \in worker[w].batch /\ r \in Report
  BY DEF Types, WorkerType, Handles, At
<1>2. r.obj \in Objects  BY <1>1 DEF Report
<1>3. /\ worker[w] \in WorkerType
      /\ [worker[w] EXCEPT !.batch = worker[w].batch \ {r}, !.obj = r.obj, !.pc = pc,
                           !.del = IF pc = "del" THEN r.obj ELSE None] \in WorkerType
  BY <1>1, <1>2 DEF Types, WorkerType
<1>4. PICK x \in WorkerType :
        /\ x = [worker[w] EXCEPT !.batch = worker[w].batch \ {r}, !.obj = r.obj, !.pc = pc,
                                 !.del = IF pc = "del" THEN r.obj ELSE None]
        /\ x.pc = pc /\ x.batch = worker[w].batch \ {r} /\ x.obj = r.obj
        /\ x.new = worker[w].new /\ x.del = IF pc = "del" THEN r.obj ELSE None
  BY <1>3 DEF WorkerType
<1>5. worker' = [worker EXCEPT ![w] = x] /\ worker \in [Workers -> WorkerType]
  BY <1>4 DEF Types, Handles
<1>6. QED  BY <1>1, <1>2, <1>4, <1>5

(* The worker goes on to server_new_event.                                  *)
LEMMA RegisterMoves ==
  ASSUME Types, NEW w \in Workers, NEW t \in Objects \cup {None},
         NEW back \in {"accepted", "read", "close"},
         worker' = [worker EXCEPT ![w] = [@ EXCEPT !.new = t, !.back = back, !.pc = "register"]]
  PROVE  /\ worker' \in [Workers -> WorkerType]
         /\ \A v \in Workers : v # w => worker'[v] = worker[v]
         /\ \A v \in Workers : Busy(v)' = Busy(v)
         /\ worker'[w].pc = "register" /\ worker'[w].batch = worker[w].batch
         /\ worker'[w].obj = worker[w].obj /\ worker'[w].new = t
         /\ worker'[w].del = worker[w].del /\ worker'[w].back = back
<1>1. /\ worker' \in [Workers -> WorkerType]
      /\ \A v \in Workers : v # w => worker'[v] = worker[v]
      /\ worker'[w].pc = "register" /\ worker'[w].batch = worker[w].batch
      /\ worker'[w].obj = worker[w].obj /\ worker'[w].new = t
      /\ worker'[w].del = worker[w].del /\ worker'[w].back = back
  BY DEF Types, WorkerType, Pcs
<1>2. QED  BY <1>1 DEF Busy

(* After InsertClient, too.                                                 *)
LEMMA InsertMoves ==
  ASSUME Types, NEW w \in Workers,
         worker' = [worker EXCEPT ![w] = [@ EXCEPT !.pc = "register", !.back = "accepted"]]
  PROVE  /\ worker' \in [Workers -> WorkerType]
         /\ \A v \in Workers : v # w => worker'[v] = worker[v]
         /\ \A v \in Workers : Busy(v)' = Busy(v)
         /\ worker'[w].pc = "register" /\ worker'[w].batch = worker[w].batch
         /\ worker'[w].obj = worker[w].obj /\ worker'[w].new = worker[w].new
         /\ worker'[w].del = worker[w].del /\ worker'[w].back = "accepted"
<1>1. /\ worker' \in [Workers -> WorkerType]
      /\ \A v \in Workers : v # w => worker'[v] = worker[v]
      /\ worker'[w].pc = "register" /\ worker'[w].batch = worker[w].batch
      /\ worker'[w].obj = worker[w].obj /\ worker'[w].new = worker[w].new
      /\ worker'[w].del = worker[w].del /\ worker'[w].back = "accepted"
  BY DEF Types, WorkerType, Pcs
<1>2. QED  BY <1>1 DEF Busy

(* server_new_event or server_addtimer returns to where it was called.      *)
LEMMA OpenedMoves ==
  ASSUME Types, NEW w \in Workers, Opened(w), worker[w].back \in Pcs
  PROVE  /\ worker' \in [Workers -> WorkerType]
         /\ \A v \in Workers : v # w => worker'[v] = worker[v]
         /\ \A v \in Workers : Busy(v)' = Busy(v)
         /\ worker'[w].pc = worker[w].back /\ worker'[w].batch = worker[w].batch
         /\ worker'[w].obj = worker[w].obj /\ worker'[w].new = None
         /\ worker'[w].del = worker[w].del /\ worker'[w].back = worker[w].back
<1>1. /\ worker' \in [Workers -> WorkerType]
      /\ \A v \in Workers : v # w => worker'[v] = worker[v]
      /\ worker'[w].pc = worker[w].back /\ worker'[w].batch = worker[w].batch
      /\ worker'[w].obj = worker[w].obj /\ worker'[w].new = None
      /\ worker'[w].del = worker[w].del /\ worker'[w].back = worker[w].back
  BY DEF Types, Opened, WorkerType
<1>2. QED  BY <1>1 DEF Busy

(* A handler or a callback has the event of a timer deleted.                *)
LEMMA CancelMoves ==
  ASSUME Types, NEW w \in Workers, NEW t \in Objects, NEW back \in {"read", "callback"},
         worker' = [worker EXCEPT ![w] = [@ EXCEPT !.del = t, !.back = back, !.pc = "close"]]
  PROVE  /\ worker' \in [Workers -> WorkerType]
         /\ \A v \in Workers : v # w => worker'[v] = worker[v]
         /\ \A v \in Workers : v # w => Busy(v)' = Busy(v)
         /\ worker'[w].pc = "close" /\ worker'[w].batch = worker[w].batch
         /\ worker'[w].obj = worker[w].obj /\ worker'[w].del = t
         /\ worker'[w].new = worker[w].new /\ worker'[w].back = back
<1>1. /\ worker' \in [Workers -> WorkerType]
      /\ \A v \in Workers : v # w => worker'[v] = worker[v]
      /\ worker'[w].pc = "close" /\ worker'[w].batch = worker[w].batch
      /\ worker'[w].obj = worker[w].obj /\ worker'[w].del = t
      /\ worker'[w].new = worker[w].new /\ worker'[w].back = back
  BY DEF Types, WorkerType, Pcs
<1>2. QED  BY <1>1 DEF Busy

(* After the deletion the handler or the callback goes on.                  *)
LEMMA BackMoves ==
  ASSUME Types, NEW w \in Workers, worker[w].back \in Pcs,
         worker' = [worker EXCEPT ![w] = [@ EXCEPT !.del = None, !.pc = worker[w].back]]
  PROVE  /\ worker' \in [Workers -> WorkerType]
         /\ \A v \in Workers : v # w => worker'[v] = worker[v]
         /\ \A v \in Workers : v # w => Busy(v)' = Busy(v)
         /\ worker'[w].pc = worker[w].back /\ worker'[w].batch = worker[w].batch
         /\ worker'[w].obj = worker[w].obj /\ worker'[w].del = None
<1>1. /\ worker' \in [Workers -> WorkerType]
      /\ \A v \in Workers : v # w => worker'[v] = worker[v]
      /\ worker'[w].pc = worker[w].back /\ worker'[w].batch = worker[w].batch
      /\ worker'[w].obj = worker[w].obj /\ worker'[w].del = None
  BY DEF Types, WorkerType
<1>2. QED  BY <1>1 DEF Busy

(* What a deletion does to a table: the key's entry goes, others may.       *)
LEMMA GhtDel ==
  ASSUME NEW K, NEW S, None \notin S, NEW ht \in [K -> S \cup {None}], NEW k \in K,
         NEW after \in server_ght_del(ht, k)
  PROVE  /\ after \in [K -> S \cup {None}] /\ after[k] = None
         /\ \A x \in K : after[x] = ht[x] \/ after[x] = None
         /\ ht[k] = None => after = ht
<1>1. CASE ht[k] = None  BY <1>1 DEF server_ght_del
<1>2. CASE ht[k] # None
  <2>1. PICK kept \in SUBSET {x \in DOMAIN ht \ {k} : ht[x] # None} :
          after = [x \in DOMAIN ht |-> IF x \in kept THEN ht[x] ELSE None]
    BY <1>2 DEF server_ght_del
  <2>2. QED  BY <1>2, <2>1
<1>3. QED  BY <1>1, <1>2

(* A deletion from event_ht.                                                *)
LEMMA EventDel ==
  ASSUME Types, None \notin Objects, NEW k \in Keys, NEW o,
         event_ht' \in server_ght_del(event_ht, k),
         lostEvents' = lostEvents \cup Taken(event_ht, event_ht', o)
  PROVE  /\ event_ht' \in [Keys -> Objects \cup {None}] /\ event_ht'[k] = None
         /\ \A x \in Keys : event_ht'[x] = event_ht[x] \/ event_ht'[x] = None
         /\ \A x \in Keys : event_ht[x] # None /\ event_ht'[x] = None =>
              event_ht[x] \in lostEvents' \/ event_ht[x] = o
         /\ lostEvents \subseteq lostEvents' /\ lostEvents' \subseteq Objects
         /\ \A p \in lostEvents' : p \in lostEvents \/ \E x \in Keys : event_ht[x] = p /\ p # None
<1>1. event_ht \in [Keys -> Objects \cup {None}] /\ lostEvents \subseteq Objects  BY DEF Types
<1>2. /\ event_ht' \in [Keys -> Objects \cup {None}] /\ event_ht'[k] = None
      /\ \A x \in Keys : event_ht'[x] = event_ht[x] \/ event_ht'[x] = None
  BY <1>1, GhtDel
<1>3. \A p : p \in Taken(event_ht, event_ht', o) <=>
              \E x \in Keys : p = event_ht[x] /\ event_ht[x] # event_ht'[x] /\ event_ht[x] # o
  BY <1>1 DEF Taken
<1>4. QED  BY <1>1, <1>2, <1>3

(* A deletion from client_ht.                                               *)
LEMMA ClientDel ==
  ASSUME Types, None \notin Objects, NEW k \in Fds, NEW o,
         client_ht' \in server_ght_del(client_ht, k),
         lostClients' = lostClients \cup Taken(client_ht, client_ht', o)
  PROVE  /\ client_ht' \in [Fds -> Clients \cup {None}] /\ client_ht'[k] = None
         /\ \A x \in Fds : client_ht'[x] = client_ht[x] \/ client_ht'[x] = None
         /\ \A x \in Fds : client_ht[x] # None /\ client_ht'[x] = None /\ client_ht[x] # o =>
              client_ht[x] \in lostClients'
         /\ lostClients \subseteq lostClients' /\ lostClients' \subseteq Clients
<1>1. client_ht \in [Fds -> Clients \cup {None}] /\ lostClients \subseteq Clients /\ None \notin Clients
  BY DEF Types, Objects
<1>2. /\ client_ht' \in [Fds -> Clients \cup {None}] /\ client_ht'[k] = None
      /\ \A x \in Fds : client_ht'[x] = client_ht[x] \/ client_ht'[x] = None
  BY <1>1, GhtDel
<1>3. \A p : p \in Taken(client_ht, client_ht', o) <=>
              \E x \in Fds : p = client_ht[x] /\ client_ht[x] # client_ht'[x] /\ client_ht[x] # o
  BY <1>1 DEF Taken
<1>4. QED  BY <1>1, <1>2, <1>3

USE ObjectsAssumption, FdsAssumption, MaxEventsAssumption DEF Objects, Keys

(* What a worker handles is an object with a descriptor.                    *)
LEMMA BusyIsObject ==
  ASSUME IInv, NEW w \in Workers, NEW o \in Busy(w)
  PROVE  o \in Objects /\ fd[o] \in Keys /\ state[o] \in {"open", "freed"}
<1>1. o \in Objects /\ state[o] \in {"open", "freed"}
  <2>1. CASE \E r \in worker[w].batch : r.obj = o
    BY <2>1 DEF IInv, Types, WorkerType, Report, HandledIsOpen
  <2>2. CASE o # None /\ o = worker[w].del
    BY <2>2 DEF IInv, Types, WorkerType, HandledIsOpen
  <2>3. CASE o # None /\ o = worker[w].obj
    BY <2>2, <2>3 DEF IInv, Types, WorkerType, HandledIsOpen
  <2>4. QED  BY <2>1, <2>2, <2>3, BusyMember
<1>2. QED  BY <1>1 DEF IInv, Descriptors

(* What it opens or closes is an object.                                    *)
LEMMA NewIsObject ==
  ASSUME IInv, NEW w \in Workers, worker[w].pc \in Opening
  PROVE  worker[w].new \in Clients \cup Timers /\ worker[w].new # None
BY DEF IInv, Stages, Stage, Opening, OpensClient, OpensTimer

LEMMA ClosingIsObject ==
  ASSUME IInv, NEW w \in Workers, Closing(w)
  PROVE  worker[w].obj \in Objects /\ worker[w].obj # None
BY DEF IInv, Stages, Stage, Closing, DeletesOwn, DeletesTimer, OpensClient, OpensTimer

(* While nothing undefined has happened, what a worker has is not armed and  *)
(* nobody else's.                                                           *)
LEMMA Alone ==
  ASSUME IInv, ~ub, NEW w \in Workers, NEW o \in Busy(w), o # EventFd
  PROVE  o \notin armed /\ \A v \in Workers : v # w => o \notin Busy(v)
BY DEF IInv, OneWorkerPerEvent

(* The workers' loop.                                                       *)
LEMMA LoopStep ==
  ASSUME IInv, ~ub, NEW w \in Workers, Loop(w)
  PROVE  IInv'
<1> USE DEF IInv
<1>1. /\ worker[w].pc = "batch" /\ worker[w].batch = {}
      /\ UNCHANGED <<state, fd, event_ht, client_ht, armed, running, shutdown, main, ub, late, twice, lostEvents, lostClients>>
  BY DEF Loop, At, tables, process, history, lost
<1>2. PICK to \in {"ended", "callback", "wait"} : Goto(w, to)
  BY DEF Loop
<1>3. /\ worker' \in [Workers -> WorkerType]
      /\ \A v \in Workers : v # w => worker'[v] = worker[v]
      /\ \A v \in Workers : Busy(v)' = Busy(v)
      /\ worker'[w].pc = to /\ worker'[w].batch = worker[w].batch
      /\ worker'[w].obj = worker[w].obj /\ worker'[w].new = worker[w].new
      /\ worker'[w].del = worker[w].del /\ worker'[w].back = worker[w].back
  BY <1>2, GotoMoves DEF Pcs, Rest
<1>4. Types'  BY <1>1, <1>2, <1>3 DEF Types
<1>5. Stages'
  BY <1>1, <1>2, <1>3
  DEF Stages, Stage, Rest, DeletesOwn, DeletesTimer, OpensClient, OpensTimer
<1>6. HandledIsOpen'  BY <1>1, <1>2, <1>3 DEF HandledIsOpen, Rest
<1>7. NewIsPrivate'  BY <1>1, <1>2, <1>3 DEF NewIsPrivate, Opening
<1>8. Descriptors'  BY <1>1, <1>2, <1>3 DEF Descriptors
<1>9. OneWorkerPerEvent'  BY <1>1, <1>2, <1>3 DEF OneWorkerPerEvent
<1>10. ClientTableExact'  BY <1>1, <1>2, <1>3 DEF ClientTableExact
<1>11. ClientsListed'  BY <1>1, <1>2, <1>3 DEF ClientsListed, Listed, Closing
<1>12. ClientsUnlisted'  BY <1>1, <1>2, <1>3 DEF ClientsUnlisted, Closing
<1>13. OpenListed'  BY <1>1, <1>2, <1>3 DEF OpenListed, Listed, Closing
<1>14. EntryKeys'  BY <1>1, <1>2, <1>3 DEF EntryKeys
<1>15. HandledEntered'  BY <1>1, <1>2, <1>3 DEF HandledEntered, Entered, EventLost
<1>16. OpenEntered'  BY <1>1, <1>2, <1>3 DEF OpenEntered, Entered, EventLost, Opening
<1>17. EnteredOpen'  BY <1>1, <1>2, <1>3 DEF EnteredOpen
<1>18. EndOfMain'  BY <1>1, <1>2, <1>3 DEF EndOfMain, Ended, At, EventLost, Listed
<1>19. QED  BY <1>4, <1>5, <1>6, <1>7, <1>8, <1>9, <1>10, <1>11, <1>12, <1>13, <1>14,
               <1>15, <1>16, <1>17, <1>18

(* The callbacks of the last results have returned.                         *)
LEMMA CallbacksDoneStep ==
  ASSUME IInv, ~ub, NEW w \in Workers, CallbacksDone(w)
  PROVE  IInv'
<1> USE DEF IInv
<1>1. /\ worker[w].pc = "callback" /\ Goto(w, "wait")
      /\ UNCHANGED <<state, fd, event_ht, client_ht, armed, running, shutdown, main, ub, late, twice, lostEvents, lostClients>>
  BY DEF CallbacksDone, At, tables, process, history, lost
<1>2. /\ worker' \in [Workers -> WorkerType]
      /\ \A v \in Workers : v # w => worker'[v] = worker[v]
      /\ \A v \in Workers : Busy(v)' = Busy(v)
      /\ worker'[w].pc = "wait" /\ worker'[w].batch = worker[w].batch
      /\ worker'[w].obj = worker[w].obj /\ worker'[w].new = worker[w].new
      /\ worker'[w].del = worker[w].del /\ worker'[w].back = worker[w].back
  BY <1>1, GotoMoves DEF Pcs, Rest
<1>3. Types'  BY <1>1, <1>2 DEF Types
<1>4. Stages'
  BY <1>1, <1>2
  DEF Stages, Stage, Rest, DeletesOwn, DeletesTimer, OpensClient, OpensTimer
<1>5. HandledIsOpen'  BY <1>1, <1>2 DEF HandledIsOpen, Rest
<1>6. NewIsPrivate'  BY <1>1, <1>2 DEF NewIsPrivate, Opening
<1>7. Descriptors'  BY <1>1, <1>2 DEF Descriptors
<1>8. OneWorkerPerEvent'  BY <1>1, <1>2 DEF OneWorkerPerEvent
<1>9. ClientTableExact'  BY <1>1, <1>2 DEF ClientTableExact
<1>10. ClientsListed'  BY <1>1, <1>2 DEF ClientsListed, Listed, Closing
<1>11. ClientsUnlisted'  BY <1>1, <1>2 DEF ClientsUnlisted, Closing
<1>12. OpenListed'  BY <1>1, <1>2 DEF OpenListed, Listed, Closing
<1>13. EntryKeys'  BY <1>1, <1>2 DEF EntryKeys
<1>14. HandledEntered'  BY <1>1, <1>2 DEF HandledEntered, Entered, EventLost
<1>15. OpenEntered'  BY <1>1, <1>2 DEF OpenEntered, Entered, EventLost, Opening
<1>16. EnteredOpen'  BY <1>1, <1>2 DEF EnteredOpen
<1>17. EndOfMain'  BY <1>1, <1>2 DEF EndOfMain, Ended, At, EventLost, Listed
<1>18. QED  BY <1>3, <1>4, <1>5, <1>6, <1>7, <1>8, <1>9, <1>10, <1>11, <1>12, <1>13, <1>14,
               <1>15, <1>16, <1>17

(* SSL_accept has returned.                                                 *)
LEMMA HandshakeStep ==
  ASSUME IInv, ~ub, NEW w \in Workers, Handshake(w)
  PROVE  IInv'
<1> USE DEF IInv
<1>1. /\ worker[w].pc = "handshake" /\ Goto(w, "insert")
      /\ UNCHANGED <<state, fd, event_ht, client_ht, armed, running, shutdown, main, ub, late, twice, lostEvents, lostClients>>
  BY DEF Handshake, At, tables, process, history, lost
<1>2. /\ worker' \in [Workers -> WorkerType]
      /\ \A v \in Workers : v # w => worker'[v] = worker[v]
      /\ \A v \in Workers : Busy(v)' = Busy(v)
      /\ worker'[w].pc = "insert" /\ worker'[w].batch = worker[w].batch
      /\ worker'[w].obj = worker[w].obj /\ worker'[w].new = worker[w].new
      /\ worker'[w].del = worker[w].del /\ worker'[w].back = worker[w].back
  BY <1>1, GotoMoves DEF Pcs, Rest
<1>3. Types'  BY <1>1, <1>2 DEF Types
<1>4. Stages'
  BY <1>1, <1>2
  DEF Stages, Stage, Rest, DeletesOwn, DeletesTimer, OpensClient, OpensTimer
<1>5. HandledIsOpen'  BY <1>1, <1>2 DEF HandledIsOpen, Rest
<1>6. NewIsPrivate'  BY <1>1, <1>2 DEF NewIsPrivate, Opening
<1>7. Descriptors'  BY <1>1, <1>2 DEF Descriptors
<1>8. OneWorkerPerEvent'  BY <1>1, <1>2 DEF OneWorkerPerEvent
<1>9. ClientTableExact'  BY <1>1, <1>2 DEF ClientTableExact
<1>10. ClientsListed'  BY <1>1, <1>2 DEF ClientsListed, Listed, Closing
<1>11. ClientsUnlisted'  BY <1>1, <1>2 DEF ClientsUnlisted, Closing
<1>12. OpenListed'  BY <1>1, <1>2 DEF OpenListed, Listed, Closing
<1>13. EntryKeys'  BY <1>1, <1>2 DEF EntryKeys
<1>14. HandledEntered'  BY <1>1, <1>2 DEF HandledEntered, Entered, EventLost
<1>15. OpenEntered'  BY <1>1, <1>2 DEF OpenEntered, Entered, EventLost, Opening
<1>16. EnteredOpen'  BY <1>1, <1>2 DEF EnteredOpen
<1>17. EndOfMain'  BY <1>1, <1>2 DEF EndOfMain, Ended, At, EventLost, Listed
<1>18. QED  BY <1>3, <1>4, <1>5, <1>6, <1>7, <1>8, <1>9, <1>10, <1>11, <1>12, <1>13, <1>14,
               <1>15, <1>16, <1>17

(* epoll_wait hands out armed objects, and disarms them but for the eventfd.*)
LEMMA EpollWaitStep ==
  ASSUME IInv, ~ub, NEW w \in Workers, EpollWait(w)
  PROVE  IInv'
<1> USE DEF IInv
<1>1. /\ worker[w].pc = "wait" /\ worker[w].batch = {}
      /\ worker[w].obj = None /\ worker[w].del = None
      /\ UNCHANGED <<state, fd, event_ht, client_ht, running, shutdown, main, ub, late, twice, lostEvents, lostClients>>
  BY DEF EpollWait, At, Stages, Stage, Rest, tables, process, history, lost
<1>2. PICK batch \in SUBSET Ready :
        /\ \A r, s \in batch : r.obj = s.obj => r = s
        /\ worker' = [worker EXCEPT ![w] = [@ EXCEPT !.batch = batch, !.pc = "batch"]]
        /\ armed' = armed \ ({r.obj : r \in batch} \cap OneShot)
  BY DEF EpollWait
<1>3. /\ batch \subseteq Report
      /\ \A r \in batch : r.obj # None /\ r.obj \in armed /\ (r.ev = "hup" => r.obj \in Clients)
      /\ \A o : o \in armed' <=> o \in armed /\ (o # EventFd => \A r \in batch : r.obj # o)
  BY <1>2 DEF Ready, OneShot, Types
<1>4. /\ worker' \in [Workers -> WorkerType]
      /\ \A v \in Workers : v # w => worker'[v] = worker[v]
      /\ worker'[w].pc = "batch" /\ worker'[w].batch = batch
      /\ worker'[w].obj = None /\ worker'[w].del = None /\ worker'[w].new = worker[w].new
  BY <1>1, <1>2, <1>3, EpollMoves
<1>5. /\ \A v \in Workers : v # w => Busy(v)' = Busy(v)
      /\ \A o : o \in Busy(w)' <=> \E r \in batch : r.obj = o
  BY <1>4 DEF Busy
<1>6. Types'  BY <1>1, <1>2, <1>3, <1>4, <1>5 DEF Types
<1>7. Stages'
  <2> SUFFICES ASSUME NEW v \in Workers PROVE Stage(v)'
    BY DEF Stages
  <2>1. CASE v # w  BY <2>1, <1>1, <1>2, <1>3, <1>4 DEF Stages, Stage, DeletesOwn, DeletesTimer, OpensClient, OpensTimer
  <2>2. CASE v = w  BY <2>2, <1>1, <1>2, <1>3, <1>4 DEF Stages, Stage, Rest, DeletesOwn, DeletesTimer, OpensClient, OpensTimer
  <2>3. QED  BY <2>1, <2>2
<1>8. HandledIsOpen'  BY <1>1, <1>2, <1>3, <1>4, <1>5 DEF HandledIsOpen, Rest
<1>9. NewIsPrivate'  BY <1>1, <1>2, <1>3, <1>4, <1>5 DEF NewIsPrivate, Opening, HandledIsOpen
<1>10. Descriptors'  BY <1>1, <1>2, <1>3, <1>4, <1>5 DEF Descriptors
<1>11. OneWorkerPerEvent'  BY <1>1, <1>2, <1>3, <1>4, <1>5 DEF OneWorkerPerEvent
<1>12. ClientTableExact'  BY <1>1, <1>2, <1>3, <1>4, <1>5 DEF ClientTableExact
<1>13. ClientsListed'  BY <1>1, <1>2, <1>3, <1>4, <1>5 DEF ClientsListed, Listed, Closing
<1>14. ClientsUnlisted'  BY <1>1, <1>2, <1>3, <1>4, <1>5 DEF ClientsUnlisted, Closing
<1>15. OpenListed'  BY <1>1, <1>2, <1>3, <1>4, <1>5 DEF OpenListed, Listed, Closing
<1>16. EntryKeys'  BY <1>1, <1>2, <1>3, <1>4, <1>5 DEF EntryKeys
<1>17. HandledEntered'  BY <1>1, <1>2, <1>3, <1>4, <1>5 DEF HandledEntered, Entered, EventLost
<1>18. OpenEntered'
  BY <1>1, <1>2, <1>3, <1>4, <1>5
  DEF OpenEntered, Entered, EventLost, Opening
<1>19. EnteredOpen'  BY <1>1, <1>2, <1>3, <1>4, <1>5 DEF EnteredOpen
<1>20. EndOfMain'  BY <1>1, <1>2, <1>3, <1>4, <1>5 DEF EndOfMain, Ended, At, EventLost, Listed
<1>21. QED  BY <1>6, <1>7, <1>8, <1>9, <1>10, <1>11, <1>12, <1>13, <1>14, <1>15, <1>16,
               <1>17, <1>18, <1>19, <1>20

(* A report is taken out of the batch and its handler starts.               *)
LEMMA HandlesStep ==
  ASSUME IInv, ~ub, NEW w \in Workers, NEW r \in worker[w].batch, NEW to \in {"read", "del"},
         Handles(w, r, to), to = "read" => r.obj \in Clients, r.obj # EventFd,
         UNCHANGED <<state, fd, tables, armed, process, history>>
  PROVE  IInv'
<1> USE DEF IInv
<1>1. UNCHANGED <<state, fd, event_ht, client_ht, armed, running, shutdown, main, ub, late, twice, lostEvents, lostClients>>
  BY DEF tables, process, history, lost
<1>2. /\ worker[w].pc = "batch" /\ r \in Report /\ r.obj \in Objects
      /\ worker[w].obj = None /\ worker[w].del = None
      /\ worker' \in [Workers -> WorkerType]
      /\ \A v \in Workers : v # w => worker'[v] = worker[v]
      /\ worker'[w].pc = to /\ worker'[w].batch = worker[w].batch \ {r}
      /\ worker'[w].obj = r.obj /\ worker'[w].new = worker[w].new
      /\ worker'[w].del = IF to = "del" THEN r.obj ELSE None
  BY HandlesMoves DEF Pcs, Rest, Stages, Stage
<1>3. /\ \A v \in Workers : v # w => Busy(v)' = Busy(v)
      /\ \A o : o \in Busy(w)' => o \in Busy(w)
  BY <1>2 DEF Busy
<1>4. Types'  BY <1>1, <1>2, <1>3 DEF Types
<1>5. Stages'
  BY <1>1, <1>2, <1>3
  DEF Stages, Stage, Rest, DeletesOwn, DeletesTimer, OpensClient, OpensTimer
<1>6. HandledIsOpen'  BY <1>1, <1>2, <1>3 DEF HandledIsOpen, Rest
<1>7. NewIsPrivate'  BY <1>1, <1>2, <1>3 DEF NewIsPrivate, Opening
<1>8. Descriptors'  BY <1>1, <1>2, <1>3 DEF Descriptors
<1>9. OneWorkerPerEvent'  BY <1>1, <1>2, <1>3 DEF OneWorkerPerEvent
<1>10. ClientTableExact'  BY <1>1, <1>2, <1>3 DEF ClientTableExact
<1>11. ClientsListed'  BY <1>1, <1>2, <1>3 DEF ClientsListed, Listed, Closing
<1>12. ClientsUnlisted'  BY <1>1, <1>2, <1>3 DEF ClientsUnlisted, Closing
<1>13. OpenListed'  BY <1>1, <1>2, <1>3 DEF OpenListed, Listed, Closing
<1>14. EntryKeys'  BY <1>1, <1>2, <1>3 DEF EntryKeys
<1>15. HandledEntered'  BY <1>1, <1>2, <1>3 DEF HandledEntered, Entered, EventLost
<1>16. OpenEntered'  BY <1>1, <1>2, <1>3 DEF OpenEntered, Entered, EventLost, Opening
<1>17. EnteredOpen'  BY <1>1, <1>2, <1>3 DEF EnteredOpen
<1>18. EndOfMain'  BY <1>1, <1>2, <1>3 DEF EndOfMain, Ended, At, EventLost, Listed
<1>19. QED  BY <1>4, <1>5, <1>6, <1>7, <1>8, <1>9, <1>10, <1>11, <1>12, <1>13, <1>14,
               <1>15, <1>16, <1>17, <1>18

(* eventfd_dummy_read reads nothing.                                        *)
LEMMA EventFdStep ==
  ASSUME IInv, ~ub, NEW w \in Workers, NEW r \in worker[w].batch, At(w, "batch"),
         worker' = [worker EXCEPT ![w].batch = @ \ {r}],
         UNCHANGED <<state, fd, tables, armed, process, history>>
  PROVE  IInv'
<1> USE DEF IInv
<1>1. UNCHANGED <<state, fd, event_ht, client_ht, armed, running, shutdown, main, ub, late, twice, lostEvents, lostClients>>
  BY DEF tables, process, history, lost
<1>2. /\ worker[w].pc = "batch"
      /\ worker' \in [Workers -> WorkerType]
      /\ \A v \in Workers : v # w => worker'[v] = worker[v]
      /\ worker'[w].pc = worker[w].pc /\ worker'[w].batch = worker[w].batch \ {r}
      /\ worker'[w].obj = worker[w].obj /\ worker'[w].new = worker[w].new
      /\ worker'[w].del = worker[w].del
  BY DEF At, Types, WorkerType
<1>3. /\ \A v \in Workers : v # w => Busy(v)' = Busy(v)
      /\ \A o : o \in Busy(w)' => o \in Busy(w)
  BY <1>2 DEF Busy
<1>4. Types'  BY <1>1, <1>2, <1>3 DEF Types
<1>5. Stages'
  BY <1>1, <1>2, <1>3
  DEF Stages, Stage, Rest, DeletesOwn, DeletesTimer, OpensClient, OpensTimer
<1>6. HandledIsOpen'  BY <1>1, <1>2, <1>3 DEF HandledIsOpen, Rest
<1>7. NewIsPrivate'  BY <1>1, <1>2, <1>3 DEF NewIsPrivate, Opening
<1>8. Descriptors'  BY <1>1, <1>2, <1>3 DEF Descriptors
<1>9. OneWorkerPerEvent'  BY <1>1, <1>2, <1>3 DEF OneWorkerPerEvent
<1>10. ClientTableExact'  BY <1>1, <1>2, <1>3 DEF ClientTableExact
<1>11. ClientsListed'  BY <1>1, <1>2, <1>3 DEF ClientsListed, Listed, Closing
<1>12. ClientsUnlisted'  BY <1>1, <1>2, <1>3 DEF ClientsUnlisted, Closing
<1>13. OpenListed'  BY <1>1, <1>2, <1>3 DEF OpenListed, Listed, Closing
<1>14. EntryKeys'  BY <1>1, <1>2, <1>3 DEF EntryKeys
<1>15. HandledEntered'  BY <1>1, <1>2, <1>3 DEF HandledEntered, Entered, EventLost
<1>16. OpenEntered'  BY <1>1, <1>2, <1>3 DEF OpenEntered, Entered, EventLost, Opening
<1>17. EnteredOpen'  BY <1>1, <1>2, <1>3 DEF EnteredOpen
<1>18. EndOfMain'  BY <1>1, <1>2, <1>3 DEF EndOfMain, Ended, At, EventLost, Listed
<1>19. QED  BY <1>4, <1>5, <1>6, <1>7, <1>8, <1>9, <1>10, <1>11, <1>12, <1>13, <1>14,
               <1>15, <1>16, <1>17, <1>18

(* A descriptor the kernel gives out is not in use.                         *)
LEMMA FreeIsUnused ==
  ASSUME IInv, NEW f \in Free
  PROVE  /\ f \in Fds /\ f # None /\ f # Listener /\ f # EventFd
         /\ \A o \in Objects : state[o] = "open" => fd[o] # f
         /\ client_ht[f] = None
<1>1. f \in Fds /\ f # None /\ f # Listener /\ f # EventFd
  BY DEF Free
<1>2. \A o \in Objects : state[o] = "open" => fd[o] # f
  BY <1>1 DEF Free, IInv, Descriptors
<1>3. QED  BY <1>1, <1>2 DEF IInv, ClientTableExact, Types

(* accept() opens a client that only this worker knows.                     *)
LEMMA AcceptClientStep ==
  ASSUME IInv, ~ub, NEW w \in Workers, NEW r \in worker[w].batch, NEW c \in Clients, NEW f \in Free,
         r.obj = Listener, At(w, "batch"), state[c] = "queued",
         state' = [state EXCEPT ![c] = "open"], fd' = [fd EXCEPT ![c] = f],
         worker' = [worker EXCEPT ![w] = [@ EXCEPT !.batch = worker[w].batch \ {r},
                       !.obj = Listener, !.new = c, !.pc = "handshake"]],
         UNCHANGED <<tables, armed, process, history>>
  PROVE  IInv'
<1> USE DEF IInv
<1>1. /\ worker[w].pc = "batch" /\ worker[w].obj = None /\ worker[w].del = None
      /\ c \in Objects /\ Listener \in Objects
      /\ UNCHANGED <<event_ht, client_ht, armed, running, shutdown, main, ub, late, twice, lostEvents, lostClients>>
  BY DEF At, Stages, Stage, Rest, tables, process, history, lost
<1>2. /\ state' = [state EXCEPT ![c] = "open"] /\ fd' = [fd EXCEPT ![c] = f]
      /\ state'[c] = "open" /\ fd'[c] = f /\ state[c] \in {"new", "queued"}
      /\ \A o \in Objects : o # c => state'[o] = state[o] /\ fd'[o] = fd[o]
  BY DEF Types
<1>3. /\ worker' \in [Workers -> WorkerType]
      /\ \A v \in Workers : v # w => worker'[v] = worker[v]
      /\ worker'[w].pc = "handshake" /\ worker'[w].batch = worker[w].batch \ {r}
      /\ worker'[w].obj = Listener /\ worker'[w].new = c /\ worker'[w].del = None
  <2>1. Types  OBVIOUS
  <2> HIDE DEF IInv
  <2>2. worker[w] \in WorkerType /\ worker \in [Workers -> WorkerType]  BY <2>1 DEF Types
  <2>3. [worker[w] EXCEPT !.batch = worker[w].batch \ {r}, !.obj = Listener,
                                   !.new = c, !.pc = "handshake"] \in WorkerType
    BY <1>1, <2>2 DEF WorkerType, Pcs
  <2>4. worker'[w] = [worker[w] EXCEPT !.batch = worker[w].batch \ {r}, !.obj = Listener,
                                   !.new = c, !.pc = "handshake"]
    BY <1>1, <2>2
  <2>5. worker' \in [Workers -> WorkerType] /\ \A v \in Workers : v # w => worker'[v] = worker[v]
    BY <1>1, <2>2, <2>3
  <2>6. /\ worker'[w].pc = "handshake" /\ worker'[w].batch = worker[w].batch \ {r} /\ worker'[w].obj = Listener
         /\ worker'[w].new = c /\ worker'[w].del = None
    BY <1>1, <2>2, <2>4 DEF WorkerType
  <2>7. QED  BY <1>1, <2>5, <2>6
<1>4. /\ \A v \in Workers : v # w => Busy(v)' = Busy(v)
      /\ \A o : o \in Busy(w)' => o \in Busy(w)
  BY <1>1, <1>3 DEF Busy
<1>5. /\ f \in Fds /\ f # None
      /\ \A o \in Objects : state[o] = "open" => fd[o] # f
      /\ c \notin armed /\ \A v \in Workers : c \notin Busy(v)
      /\ \A k \in Keys : event_ht[k] # c
      /\ c \notin lostEvents
  BY <1>2, FreeIsUnused, BusyIsObject DEF HandledIsOpen, EntryKeys, Types
<1>6. Types'  BY <1>1, <1>2, <1>3, <1>4, <1>5 DEF Types
<1>7. Stages'
  BY <1>1, <1>2, <1>3, <1>4, <1>5
  DEF Stages, Stage, Rest, DeletesOwn, DeletesTimer, OpensClient, OpensTimer
<1>8. HandledIsOpen'
  BY <1>1, <1>2, <1>3, <1>4, <1>5
  DEF HandledIsOpen, Rest, Types, WorkerType, Report
<1>9. NewIsPrivate'  BY <1>1, <1>2, <1>3, <1>4, <1>5 DEF NewIsPrivate, Opening, Types
<1>10. Descriptors'  BY <1>1, <1>2, <1>3, <1>4, <1>5 DEF Descriptors
<1>11. OneWorkerPerEvent'  BY <1>1, <1>2, <1>3, <1>4, <1>5 DEF OneWorkerPerEvent
<1>12. ClientTableExact'  BY <1>1, <1>2, <1>3, <1>4, <1>5 DEF ClientTableExact, Types
<1>13. ClientsListed'
  BY <1>1, <1>2, <1>3, <1>4, <1>5
  DEF ClientsListed, Listed, Closing, HandledIsOpen, NewIsPrivate, Opening
<1>14. ClientsUnlisted'
  BY <1>1, <1>2, <1>3, <1>4, <1>5
  DEF ClientsUnlisted, Closing, ClientTableExact
<1>15. OpenListed'  BY <1>1, <1>2, <1>3, <1>4, <1>5 DEF OpenListed, Listed, Closing
<1>16. EntryKeys'  BY <1>1, <1>2, <1>3, <1>4, <1>5 DEF EntryKeys, Types
<1>17. HandledEntered'
  BY <1>1, <1>2, <1>3, <1>4, <1>5, BusyIsObject
  DEF HandledEntered, Entered, EventLost, HandledIsOpen, Types
<1>18. OpenEntered'
  BY <1>1, <1>2, <1>3, <1>4, <1>5
  DEF OpenEntered, Entered, EventLost, Opening
<1>19. EnteredOpen'  BY <1>1, <1>2, <1>3, <1>4, <1>5 DEF EnteredOpen
<1>20. EndOfMain'
  BY <1>1, <1>2, <1>3, <1>4, <1>5
  DEF EndOfMain, Ended, At, EventLost, Listed, Types
<1>21. QED  BY <1>6, <1>7, <1>8, <1>9, <1>10, <1>11, <1>12, <1>13, <1>14, <1>15, <1>16,
               <1>17, <1>18, <1>19, <1>20

(* The new client is entered in client_ht, where its descriptor is free.    *)
LEMMA InsertClientStep ==
  ASSUME IInv, ~ub, NEW w \in Workers, InsertClient(w)
  PROVE  IInv'
<1> USE DEF IInv
<1>1. /\ worker[w].pc = "insert"
      /\ UNCHANGED <<state, fd, event_ht, armed, running, shutdown, main, ub, late, twice, lostEvents, lostClients>>
  BY DEF InsertClient, At, tables, process, history, lost
<1>2. /\ worker[w].new \in Clients /\ state[worker[w].new] = "open"
      /\ fd[worker[w].new] \in Fds /\ worker[w].obj = Listener /\ worker[w].del = None
  BY <1>1 DEF Stages, Stage, NewIsPrivate, Opening, Descriptors
<1>3. /\ client_ht[fd[worker[w].new]] = None
      /\ client_ht' = [client_ht EXCEPT ![fd[worker[w].new]] = worker[w].new]
  <2>1. client_ht[fd[worker[w].new]] = None
    BY <1>1, <1>2 DEF ClientTableExact, ClientsUnlisted, Descriptors, Types
  <2>2. QED  BY <2>1 DEF InsertClient
<1>4. /\ worker' \in [Workers -> WorkerType]
      /\ \A v \in Workers : v # w => worker'[v] = worker[v]
      /\ \A v \in Workers : Busy(v)' = Busy(v)
      /\ worker'[w].pc = "register" /\ worker'[w].batch = worker[w].batch
      /\ worker'[w].obj = worker[w].obj /\ worker'[w].new = worker[w].new
      /\ worker'[w].del = worker[w].del /\ worker'[w].back = "accepted"
  BY InsertMoves DEF InsertClient
<1>5. \A c \in Clients : state[c] = "open" /\ c # worker[w].new => fd[c] # fd[worker[w].new]
  BY <1>2 DEF Descriptors
<1>6. Types'  BY <1>1, <1>2, <1>3, <1>4, <1>5 DEF Types
<1>7. Stages'
  BY <1>1, <1>2, <1>3, <1>4, <1>5
  DEF Stages, Stage, Rest, DeletesOwn, DeletesTimer, OpensClient, OpensTimer
<1>8. HandledIsOpen'  BY <1>1, <1>2, <1>3, <1>4, <1>5 DEF HandledIsOpen, Rest
<1>9. NewIsPrivate'  BY <1>1, <1>2, <1>3, <1>4, <1>5 DEF NewIsPrivate, Opening
<1>10. Descriptors'  BY <1>1, <1>2, <1>3, <1>4, <1>5 DEF Descriptors
<1>11. OneWorkerPerEvent'  BY <1>1, <1>2, <1>3, <1>4, <1>5 DEF OneWorkerPerEvent
<1>12. ClientTableExact'  BY <1>1, <1>2, <1>3, <1>4, <1>5 DEF ClientTableExact, Types
<1>13. ClientsListed'
  BY <1>1, <1>2, <1>3, <1>4, <1>5
  DEF ClientsListed, Listed, Closing, Types, Descriptors, HandledIsOpen, NewIsPrivate, Opening
<1>14. ClientsUnlisted'
  BY <1>1, <1>2, <1>3, <1>4, <1>5, NewIsObject, BusyMember
  DEF ClientsUnlisted, Closing, Types, NewIsPrivate, Opening
<1>15. OpenListed'
  BY <1>1, <1>2, <1>3, <1>4, <1>5
  DEF OpenListed, Listed, Closing, Types, Descriptors
<1>16. EntryKeys'  BY <1>1, <1>2, <1>3, <1>4, <1>5 DEF EntryKeys
<1>17. HandledEntered'  BY <1>1, <1>2, <1>3, <1>4, <1>5 DEF HandledEntered, Entered, EventLost
<1>18. OpenEntered'
  BY <1>1, <1>2, <1>3, <1>4, <1>5
  DEF OpenEntered, Entered, EventLost, Opening
<1>19. EnteredOpen'  BY <1>1, <1>2, <1>3, <1>4, <1>5 DEF EnteredOpen
<1>20. EndOfMain'
  BY <1>1, <1>2, <1>3, <1>4, <1>5
  DEF EndOfMain, Ended, At, EventLost, Listed, Types
<1>21. QED  BY <1>6, <1>7, <1>8, <1>9, <1>10, <1>11, <1>12, <1>13, <1>14, <1>15, <1>16,
               <1>17, <1>18, <1>19, <1>20

(* server_new_event: the event is entered and handed to epoll.              *)
LEMMA NewEventEnteredStep ==
  ASSUME IInv, ~ub, NEW w \in Workers, server_new_event(w),
         event_ht[fd[worker[w].new]] = None
  PROVE  IInv'
<1> USE DEF IInv
<1>1. /\ worker[w].pc = "register" /\ UNCHANGED <<state, fd, client_ht, running, shutdown, main, ub, late, twice, lostEvents, lostClients>>
      /\ event_ht' = [event_ht EXCEPT ![fd[worker[w].new]] = worker[w].new]
      /\ armed' = armed \cup {worker[w].new} /\ Opened(w)
  BY DEF server_new_event, At, process
<1>2. /\ worker[w].new \in Clients \cup Timers /\ state[worker[w].new] = "open"
      /\ fd[worker[w].new] \in Fds /\ worker[w].back \in {"accepted", "read", "close"}
      /\ OpensClient(w) \/ OpensTimer(w)
  BY <1>1 DEF Stages, Stage, NewIsPrivate, Opening, Descriptors, OpensClient, OpensTimer
<1>3. /\ worker' \in [Workers -> WorkerType]
      /\ \A v \in Workers : v # w => worker'[v] = worker[v]
      /\ \A v \in Workers : Busy(v)' = Busy(v)
      /\ worker'[w].pc = worker[w].back /\ worker'[w].batch = worker[w].batch
      /\ worker'[w].obj = worker[w].obj /\ worker'[w].new = None
      /\ worker'[w].del = worker[w].del /\ worker'[w].back = worker[w].back
  BY <1>1, <1>2, OpenedMoves DEF Pcs
<1>4. Types'  BY <1>1, <1>2, <1>3 DEF Types
<1>5. Stages'
  BY <1>1, <1>2, <1>3
  DEF Stages, Stage, Rest, DeletesOwn, DeletesTimer, OpensClient, OpensTimer
<1>6. HandledIsOpen'  BY <1>1, <1>2, <1>3 DEF HandledIsOpen, Rest, OpensClient, OpensTimer
<1>7. NewIsPrivate'  BY <1>1, <1>2, <1>3 DEF NewIsPrivate, Opening, Types
<1>8. Descriptors'  BY <1>1, <1>2, <1>3 DEF Descriptors
<1>9. OneWorkerPerEvent'  BY <1>1, <1>2, <1>3 DEF OneWorkerPerEvent, NewIsPrivate, Opening
<1>10. ClientTableExact'  BY <1>1, <1>2, <1>3 DEF ClientTableExact
<1>11. ClientsListed'
  BY <1>1, <1>2, <1>3
  DEF ClientsListed, Listed, Closing, OpensClient, OpensTimer
<1>12. ClientsUnlisted'
  BY <1>1, <1>2, <1>3
  DEF ClientsUnlisted, Closing, OpensClient, OpensTimer
<1>13. OpenListed'  BY <1>1, <1>2, <1>3 DEF OpenListed, Listed, Closing, OpensClient, OpensTimer
<1>14. EntryKeys'  BY <1>1, <1>2, <1>3 DEF EntryKeys, Types
<1>15. HandledEntered'
  BY <1>1, <1>2, <1>3, BusyIsObject
  DEF HandledEntered, Entered, EventLost, Types, HandledIsOpen, Descriptors
<1>16. OpenEntered'
  BY <1>1, <1>2, <1>3
  DEF OpenEntered, Entered, EventLost, Opening, Types, Descriptors
<1>17. EnteredOpen'  BY <1>1, <1>2, <1>3 DEF EnteredOpen, Types, EntryKeys
<1>18. EndOfMain'  BY <1>1, <1>2, <1>3 DEF EndOfMain, Ended, At, EventLost, Listed, OpensClient
<1>19. QED  BY <1>4, <1>5, <1>6, <1>7, <1>8, <1>9, <1>10, <1>11, <1>12, <1>13, <1>14,
               <1>15, <1>16, <1>17, <1>18

(* server_new_event finds the descriptor entered and deletes that entry.    *)
LEMMA NewEventRefusedStep ==
  ASSUME IInv, ~ub, NEW w \in Workers, server_new_event(w),
         event_ht[fd[worker[w].new]] # None
  PROVE  IInv'
<1> USE DEF IInv
<1>1. /\ worker[w].pc = "register" /\ UNCHANGED <<state, fd, client_ht, armed, running, shutdown, main, ub, late, twice, lostClients>>
      /\ event_ht' \in server_ght_del(event_ht, fd[worker[w].new])
      /\ lostEvents' = lostEvents \cup Taken(event_ht, event_ht', None)
      /\ Goto(w, "undo")
  BY DEF server_new_event, At, process
<1>2. /\ worker[w].new \in Clients \cup Timers /\ state[worker[w].new] = "open"
      /\ fd[worker[w].new] \in Fds /\ worker[w].back \in {"accepted", "read", "close"}
      /\ OpensClient(w) \/ OpensTimer(w)
  BY <1>1 DEF Stages, Stage, NewIsPrivate, Opening, Descriptors, OpensClient, OpensTimer
<1>3. /\ worker' \in [Workers -> WorkerType]
      /\ \A v \in Workers : v # w => worker'[v] = worker[v]
      /\ \A v \in Workers : Busy(v)' = Busy(v)
      /\ worker'[w].pc = "undo" /\ worker'[w].batch = worker[w].batch
      /\ worker'[w].obj = worker[w].obj /\ worker'[w].new = worker[w].new
      /\ worker'[w].del = worker[w].del /\ worker'[w].back = worker[w].back
  BY <1>1, GotoMoves DEF Pcs
<1>4. /\ event_ht' \in [Keys -> Objects \cup {None}]
      /\ \A k \in Keys : event_ht'[k] = event_ht[k] \/ event_ht'[k] = None
      /\ \A k \in Keys : event_ht[k] # None /\ event_ht'[k] = None => event_ht[k] \in lostEvents'
      /\ \A p \in lostEvents' : p \in lostEvents \/ \E k \in Keys : event_ht[k] = p /\ p # None
  BY <1>1, <1>2, EventDel
<1>5. Types'  BY <1>1, <1>2, <1>3, <1>4 DEF Types
<1>6. Stages'
  BY <1>1, <1>2, <1>3, <1>4
  DEF Stages, Stage, Rest, DeletesOwn, DeletesTimer, OpensClient, OpensTimer
<1>7. HandledIsOpen'  BY <1>1, <1>2, <1>3, <1>4 DEF HandledIsOpen, Rest
<1>8. NewIsPrivate'  BY <1>1, <1>2, <1>3, <1>4, NewIsObject DEF NewIsPrivate, Opening
<1>9. Descriptors'  BY <1>1, <1>2, <1>3, <1>4 DEF Descriptors
<1>10. OneWorkerPerEvent'  BY <1>1, <1>2, <1>3, <1>4 DEF OneWorkerPerEvent
<1>11. ClientTableExact'  BY <1>1, <1>2, <1>3, <1>4 DEF ClientTableExact
<1>12. ClientsListed'  BY <1>1, <1>2, <1>3, <1>4 DEF ClientsListed, Listed, Closing
<1>13. ClientsUnlisted'  BY <1>1, <1>2, <1>3, <1>4 DEF ClientsUnlisted, Closing
<1>14. OpenListed'  BY <1>1, <1>2, <1>3, <1>4 DEF OpenListed, Listed, Closing
<1>15. EntryKeys'  BY <1>1, <1>2, <1>3, <1>4 DEF EntryKeys, Types
<1>16. HandledEntered'
  BY <1>1, <1>2, <1>3, <1>4, BusyIsObject
  DEF HandledEntered, Entered, EventLost, Types, HandledIsOpen, Descriptors
<1>17. OpenEntered'
  BY <1>1, <1>2, <1>3, <1>4
  DEF OpenEntered, Entered, EventLost, Opening, Types, Descriptors
<1>18. EnteredOpen'  BY <1>1, <1>2, <1>3, <1>4 DEF EnteredOpen
<1>19. EndOfMain'  BY <1>1, <1>2, <1>3, <1>4 DEF EndOfMain, Ended, At, EventLost, Listed
<1>20. QED  BY <1>5, <1>6, <1>7, <1>8, <1>9, <1>10, <1>11, <1>12, <1>13, <1>14, <1>15,
               <1>16, <1>17, <1>18, <1>19

(* The client that could not be registered leaves client_ht.                *)
LEMMA UndoClientStep ==
  ASSUME IInv, ~ub, NEW w \in Workers, UndoClient(w)
  PROVE  IInv'
<1> USE DEF IInv
<1>1. /\ worker[w].pc = "undo" /\ worker[w].new \in Clients
      /\ UNCHANGED <<state, fd, event_ht, armed, running, shutdown, main, ub, late, twice, lostEvents>>
      /\ client_ht' \in server_ght_del(client_ht, fd[worker[w].new])
      /\ lostClients' = lostClients \cup Taken(client_ht, client_ht', worker[w].new)
      /\ Goto(w, "undone")
  BY DEF UndoClient, At, tables, process, history, lost
<1>2. /\ worker[w].obj = Listener /\ worker[w].del = None
      /\ state[worker[w].new] = "open" /\ fd[worker[w].new] \in Fds
  BY <1>1 DEF Stages, Stage, NewIsPrivate, Opening, Descriptors, OpensClient, OpensTimer
<1>3. /\ worker' \in [Workers -> WorkerType]
      /\ \A v \in Workers : v # w => worker'[v] = worker[v]
      /\ \A v \in Workers : Busy(v)' = Busy(v)
      /\ worker'[w].pc = "undone" /\ worker'[w].batch = worker[w].batch
      /\ worker'[w].obj = worker[w].obj /\ worker'[w].new = worker[w].new
      /\ worker'[w].del = worker[w].del /\ worker'[w].back = worker[w].back
  BY <1>1, GotoMoves DEF Pcs
<1>4. /\ client_ht' \in [Fds -> Clients \cup {None}]
      /\ \A f \in Fds : client_ht'[f] = client_ht[f] \/ client_ht'[f] = None
      /\ \A f \in Fds : client_ht[f] # None /\ client_ht'[f] = None /\ client_ht[f] # worker[w].new => client_ht[f] \in lostClients'
      /\ lostClients \subseteq lostClients' /\ lostClients' \subseteq Clients
      /\ client_ht'[fd[worker[w].new]] = None
  BY <1>1, <1>2, ClientDel
<1>5. \A f \in Fds : client_ht'[f] # worker[w].new
  BY <1>1, <1>2, <1>4 DEF ClientTableExact, Types
<1>6. Types'  BY <1>1, <1>2, <1>3, <1>4, <1>5 DEF Types
<1>7. Stages'
  BY <1>1, <1>2, <1>3, <1>4, <1>5
  DEF Stages, Stage, Rest, DeletesOwn, DeletesTimer, OpensClient, OpensTimer
<1>8. HandledIsOpen'  BY <1>1, <1>2, <1>3, <1>4, <1>5 DEF HandledIsOpen, Rest
<1>9. NewIsPrivate'  BY <1>1, <1>2, <1>3, <1>4, <1>5 DEF NewIsPrivate, Opening
<1>10. Descriptors'  BY <1>1, <1>2, <1>3, <1>4, <1>5 DEF Descriptors
<1>11. OneWorkerPerEvent'  BY <1>1, <1>2, <1>3, <1>4, <1>5 DEF OneWorkerPerEvent
<1>12. ClientTableExact'  BY <1>1, <1>2, <1>3, <1>4, <1>5 DEF ClientTableExact
<1>13. ClientsListed'
  BY <1>1, <1>2, <1>3, <1>4, <1>5, BusyMember
  DEF ClientsListed, Listed, Closing, Types, Descriptors, HandledIsOpen, NewIsPrivate, Opening
<1>14. ClientsUnlisted'
  BY <1>1, <1>2, <1>3, <1>4, <1>5, NewIsObject, ClosingIsObject
  DEF ClientsUnlisted, Closing, Opening
<1>15. OpenListed'
  BY <1>1, <1>2, <1>3, <1>4, <1>5
  DEF OpenListed, Listed, Closing, Types, Descriptors
<1>16. EntryKeys'  BY <1>1, <1>2, <1>3, <1>4, <1>5 DEF EntryKeys
<1>17. HandledEntered'  BY <1>1, <1>2, <1>3, <1>4, <1>5 DEF HandledEntered, Entered, EventLost
<1>18. OpenEntered'
  BY <1>1, <1>2, <1>3, <1>4, <1>5
  DEF OpenEntered, Entered, EventLost, Opening
<1>19. EnteredOpen'  BY <1>1, <1>2, <1>3, <1>4, <1>5 DEF EnteredOpen
<1>20. EndOfMain'
  BY <1>1, <1>2, <1>3, <1>4, <1>5
  DEF EndOfMain, Ended, At, EventLost, Listed, Types, Descriptors
<1>21. QED  BY <1>6, <1>7, <1>8, <1>9, <1>10, <1>11, <1>12, <1>13, <1>14, <1>15, <1>16,
               <1>17, <1>18, <1>19, <1>20

(* The object that could not be registered is closed.                       *)
LEMMA UndoneStep ==
  ASSUME IInv, ~ub, NEW w \in Workers, NEW x \in Clients \cup Timers,
         x = worker[w].new, worker[w].pc \in {"undo", "undone"},
         state' = [state EXCEPT ![x] = "freed"],
         UNCHANGED <<fd, tables, armed, process, history>>,
         \/ /\ worker[w].pc = "undone"
            /\ worker' = [worker EXCEPT ![w] = [@ EXCEPT !.pc = "del", !.del = Listener,
                                                          !.new = None]]
         \/ worker[w].pc = "undo" /\ x \in Timers /\ Opened(w)
  PROVE  IInv'
<1> USE DEF IInv
<1>1. UNCHANGED <<fd, event_ht, client_ht, armed, running, shutdown, main, ub, late, twice, lostEvents, lostClients>>
  BY DEF tables, process, history, lost
<1>2. /\ state[x] = "open" /\ state'[x] = "freed" /\ fd[x] \in Fds
      /\ \A o \in Objects : o # x => state'[o] = state[o]
      /\ x \notin armed /\ \A v \in Workers : x \notin Busy(v)
      /\ \A v \in Workers : v # w /\ worker[v].pc \in Opening => worker[v].new # x
      /\ \A k \in Keys : event_ht[k] # x
  BY DEF NewIsPrivate, Opening, Types, Descriptors
<1>3. \/ worker[w].pc = "undone" /\ worker[w].obj = Listener /\ worker[w].del = None /\ x \in Clients
      \/ worker[w].pc = "undo" /\ OpensTimer(w)
  BY DEF Stages, Stage, OpensClient, OpensTimer
<1>4. /\ worker' \in [Workers -> WorkerType]
      /\ \A v \in Workers : v # w => worker'[v] = worker[v]
      /\ \A v \in Workers : \A o : o \in Busy(v)' <=> o \in Busy(v)
      /\ worker'[w].batch = worker[w].batch /\ worker'[w].obj = worker[w].obj
      /\ \/ worker[w].pc = "undone" /\ worker'[w].pc = "del" /\ worker'[w].del = Listener
         \/ /\ worker[w].pc = "undo" /\ worker'[w].pc = worker[w].back
            /\ worker'[w].del = worker[w].del
  <2>1. CASE worker[w].pc = "undone"
    <3>1. /\ worker' \in [Workers -> WorkerType]
          /\ \A v \in Workers : v # w => worker'[v] = worker[v]
          /\ worker'[w].pc = "del" /\ worker'[w].batch = worker[w].batch
          /\ worker'[w].obj = worker[w].obj /\ worker'[w].del = Listener
      <4>1. Types  OBVIOUS
      <4> HIDE DEF IInv
      <4>2. worker[w] \in WorkerType /\ worker \in [Workers -> WorkerType]  BY <4>1 DEF Types
      <4>3. [worker[w] EXCEPT !.pc = "del", !.del = Listener, !.new = None] \in WorkerType
        BY <2>1, <1>3, <4>2 DEF WorkerType, Pcs
      <4>4. worker'[w] = [worker[w] EXCEPT !.pc = "del", !.del = Listener, !.new = None]
        BY <2>1, <1>3, <4>2
      <4>5. worker' \in [Workers -> WorkerType] /\ \A v \in Workers : v # w => worker'[v] = worker[v]
        BY <2>1, <1>3, <4>2, <4>3
      <4>6. /\ worker'[w].pc = "del" /\ worker'[w].batch = worker[w].batch
             /\ worker'[w].obj = worker[w].obj /\ worker'[w].del = Listener
        BY <2>1, <1>3, <4>2, <4>4 DEF WorkerType
      <4>7. QED  BY <2>1, <1>3, <4>5, <4>6
    <3>2. QED  BY <2>1, <3>1, <1>3 DEF Busy
  <2>2. CASE worker[w].pc = "undo"
    BY <2>2, <1>3, OpenedMoves DEF OpensTimer, Pcs
  <2>3. QED  BY <2>1, <2>2
<1>5. Types'  BY <1>1, <1>2, <1>3, <1>4 DEF Types
<1>6. Stages'
  BY <1>1, <1>2, <1>3, <1>4
  DEF Stages, Stage, Rest, DeletesOwn, DeletesTimer, OpensClient, OpensTimer
<1>7. HandledIsOpen'
  BY <1>1, <1>2, <1>3, <1>4, BusyMember
  DEF HandledIsOpen, Rest, OpensTimer, Types, WorkerType, Report
<1>8. NewIsPrivate'  BY <1>1, <1>2, <1>3, <1>4 DEF NewIsPrivate, Opening, OpensTimer
<1>9. Descriptors'  BY <1>1, <1>2, <1>3, <1>4 DEF Descriptors
<1>10. OneWorkerPerEvent'  BY <1>1, <1>2, <1>3, <1>4 DEF OneWorkerPerEvent
<1>11. ClientTableExact'  BY <1>1, <1>2, <1>3, <1>4 DEF ClientTableExact, Types, ClientsUnlisted
<1>12. ClientsListed'
  BY <1>1, <1>2, <1>3, <1>4
  DEF ClientsListed, Listed, Closing, OpensClient, OpensTimer
<1>13. ClientsUnlisted'
  BY <1>1, <1>2, <1>3, <1>4
  DEF ClientsUnlisted, Closing, OpensClient, OpensTimer
<1>14. OpenListed'
  BY <1>1, <1>2, <1>3, <1>4
  DEF OpenListed, Listed, Closing, OpensClient, OpensTimer
<1>15. EntryKeys'  BY <1>1, <1>2, <1>3, <1>4 DEF EntryKeys, Types
<1>16. HandledEntered'  BY <1>1, <1>2, <1>3, <1>4 DEF HandledEntered, Entered, EventLost
<1>17. OpenEntered'
  BY <1>1, <1>2, <1>3, <1>4
  DEF OpenEntered, Entered, EventLost, Opening, OpensClient, OpensTimer, Types
<1>18. EnteredOpen'  BY <1>1, <1>2, <1>3, <1>4 DEF EnteredOpen, Types
<1>19. EndOfMain'  BY <1>1, <1>2, <1>3, <1>4 DEF EndOfMain, Ended, At, EventLost, Listed
<1>20. QED  BY <1>5, <1>6, <1>7, <1>8, <1>9, <1>10, <1>11, <1>12, <1>13, <1>14, <1>15,
               <1>16, <1>17, <1>18, <1>19

(* The handled client, or the listening socket, is rearmed.                 *)
LEMMA RearmStep ==
  ASSUME IInv, ~ub, NEW w \in Workers, NEW x \in Clients \cup {Listener},
         x = worker[w].obj, worker[w].pc \in {"read", "accepted"},
         armed' = armed \cup {x}, Finish(w),
         UNCHANGED <<state, fd, tables, process, history>>
  PROVE  IInv'
<1> USE DEF IInv
<1>1. /\ worker[w].del = None /\ UNCHANGED <<state, fd, event_ht, client_ht, running, shutdown, main, ub, late, twice, lostEvents, lostClients>>
  BY DEF Stages, Stage, tables, process, history, lost
<1>2. /\ worker' \in [Workers -> WorkerType]
      /\ \A v \in Workers : v # w => worker'[v] = worker[v]
      /\ \A v \in Workers : v # w => Busy(v)' = Busy(v)
      /\ worker'[w].pc = "batch" /\ worker'[w].batch = worker[w].batch
      /\ worker'[w].obj = None /\ worker'[w].del = None
      /\ \A o : o \in Busy(w)' <=> \E r \in worker[w].batch : r.obj = o
  BY FinishMoves
<1>3. /\ state[x] = "open" /\ x \in Busy(w) /\ \A r \in worker[w].batch : r.obj # x
      /\ \A v \in Workers : v # w => x \notin Busy(v)
      /\ x \in Clients => Listed(x)
  BY BusyMember, Alone DEF Stages, Stage, HandledIsOpen, ClientsListed, Closing
<1>4. \A v \in Workers : \A o : o \in Busy(v)' => o \in Busy(v) /\ o # x
  BY <1>2, <1>3, BusyMember
<1>5. Types'  BY <1>1, <1>2, <1>3, <1>4 DEF Types
<1>6. Stages'
  BY <1>1, <1>2, <1>3, <1>4
  DEF Stages, Stage, Rest, DeletesOwn, DeletesTimer, OpensClient, OpensTimer
<1>7. HandledIsOpen'  BY <1>1, <1>2, <1>3, <1>4 DEF HandledIsOpen, Rest
<1>8. NewIsPrivate'  BY <1>1, <1>2, <1>3, <1>4 DEF NewIsPrivate, Opening
<1>9. Descriptors'  BY <1>1, <1>2, <1>3, <1>4 DEF Descriptors
<1>10. OneWorkerPerEvent'  BY <1>1, <1>2, <1>3, <1>4 DEF OneWorkerPerEvent
<1>11. ClientTableExact'  BY <1>1, <1>2, <1>3, <1>4 DEF ClientTableExact
<1>12. ClientsListed'  BY <1>1, <1>2, <1>3, <1>4 DEF ClientsListed, Listed, Closing
<1>13. ClientsUnlisted'  BY <1>1, <1>2, <1>3, <1>4 DEF ClientsUnlisted, Closing
<1>14. OpenListed'  BY <1>1, <1>2, <1>3, <1>4 DEF OpenListed, Listed, Closing
<1>15. EntryKeys'  BY <1>1, <1>2, <1>3, <1>4 DEF EntryKeys
<1>16. HandledEntered'  BY <1>1, <1>2, <1>3, <1>4 DEF HandledEntered, Entered, EventLost
<1>17. OpenEntered'  BY <1>1, <1>2, <1>3, <1>4 DEF OpenEntered, Entered, EventLost, Opening
<1>18. EnteredOpen'  BY <1>1, <1>2, <1>3, <1>4 DEF EnteredOpen
<1>19. EndOfMain'  BY <1>1, <1>2, <1>3, <1>4 DEF EndOfMain, Ended, At, EventLost, Listed
<1>20. QED  BY <1>5, <1>6, <1>7, <1>8, <1>9, <1>10, <1>11, <1>12, <1>13, <1>14, <1>15,
               <1>16, <1>17, <1>18, <1>19

(* A client whose read failed is going to be closed.                        *)
LEMMA ReadClosesStep ==
  ASSUME IInv, ~ub, NEW w \in Workers, At(w, "read"),
         worker' = [worker EXCEPT ![w] = [@ EXCEPT !.pc = "del", !.del = worker[w].obj]],
         UNCHANGED <<state, fd, tables, armed, process, history>>
  PROVE  IInv'
<1> USE DEF IInv
<1>1. /\ worker[w].pc = "read" /\ worker[w].obj \in Clients /\ worker[w].del = None
      /\ UNCHANGED <<state, fd, event_ht, client_ht, armed, running, shutdown, main, ub, late, twice, lostEvents, lostClients>>
  BY DEF At, Stages, Stage, tables, process, history, lost
<1>2. /\ worker' \in [Workers -> WorkerType]
      /\ \A v \in Workers : v # w => worker'[v] = worker[v]
      /\ worker'[w].pc = "del" /\ worker'[w].batch = worker[w].batch
      /\ worker'[w].obj = worker[w].obj /\ worker'[w].del = worker[w].obj
  <2>1. Types  OBVIOUS
  <2> HIDE DEF IInv
  <2>2. worker[w] \in WorkerType /\ worker \in [Workers -> WorkerType]  BY <2>1 DEF Types
  <2>3. [worker[w] EXCEPT !.pc = "del", !.del = worker[w].obj] \in WorkerType
    BY <1>1, <2>2 DEF WorkerType, Pcs
  <2>4. worker'[w] = [worker[w] EXCEPT !.pc = "del", !.del = worker[w].obj]
    BY <1>1, <2>2
  <2>5. worker' \in [Workers -> WorkerType] /\ \A v \in Workers : v # w => worker'[v] = worker[v]
    BY <1>1, <2>2, <2>3
  <2>6. /\ worker'[w].pc = "del" /\ worker'[w].batch = worker[w].batch
         /\ worker'[w].obj = worker[w].obj /\ worker'[w].del = worker[w].obj
    BY <1>1, <2>2, <2>4 DEF WorkerType
  <2>7. QED  BY <1>1, <2>5, <2>6
<1>3. \A v \in Workers : \A o : o \in Busy(v)' <=> o \in Busy(v)
  BY <1>1, <1>2 DEF Busy
<1>4. Types'  BY <1>1, <1>2, <1>3 DEF Types
<1>5. Stages'
  BY <1>1, <1>2, <1>3
  DEF Stages, Stage, Rest, DeletesOwn, DeletesTimer, OpensClient, OpensTimer
<1>6. HandledIsOpen'  BY <1>1, <1>2, <1>3 DEF HandledIsOpen, Rest
<1>7. NewIsPrivate'  BY <1>1, <1>2, <1>3 DEF NewIsPrivate, Opening
<1>8. Descriptors'  BY <1>1, <1>2, <1>3 DEF Descriptors
<1>9. OneWorkerPerEvent'  BY <1>1, <1>2, <1>3 DEF OneWorkerPerEvent
<1>10. ClientTableExact'  BY <1>1, <1>2, <1>3 DEF ClientTableExact
<1>11. ClientsListed'  BY <1>1, <1>2, <1>3 DEF ClientsListed, Listed, Closing
<1>12. ClientsUnlisted'  BY <1>1, <1>2, <1>3 DEF ClientsUnlisted, Closing
<1>13. OpenListed'  BY <1>1, <1>2, <1>3 DEF OpenListed, Listed, Closing
<1>14. EntryKeys'  BY <1>1, <1>2, <1>3 DEF EntryKeys
<1>15. HandledEntered'  BY <1>1, <1>2, <1>3 DEF HandledEntered, Entered, EventLost
<1>16. OpenEntered'  BY <1>1, <1>2, <1>3 DEF OpenEntered, Entered, EventLost, Opening
<1>17. EnteredOpen'  BY <1>1, <1>2, <1>3 DEF EnteredOpen
<1>18. EndOfMain'  BY <1>1, <1>2, <1>3 DEF EndOfMain, Ended, At, EventLost, Listed
<1>19. QED  BY <1>4, <1>5, <1>6, <1>7, <1>8, <1>9, <1>10, <1>11, <1>12, <1>13, <1>14,
               <1>15, <1>16, <1>17, <1>18

(* server_addtimer opens a timer that only this worker knows.               *)
LEMMA AddTimerStep ==
  ASSUME IInv, ~ub, NEW w \in Workers, AddTimer(w), Free # {}
  PROVE  IInv'
<1> USE DEF IInv
<1>1. /\ worker[w].pc \in {"read", "close"} /\ worker[w].obj \in Clients
      /\ \/ worker[w].pc = "read" /\ worker[w].del = None
         \/ worker[w].pc = "close" /\ worker[w].del = worker[w].obj
      /\ UNCHANGED <<event_ht, client_ht, armed, running, shutdown, main, ub, late, twice, lostEvents, lostClients>>
  BY DEF AddTimer, At, Stages, Stage, DeletesOwn, DeletesTimer, tables, process, history, lost
<1>2. PICK t \in Timers, f \in Free :
        /\ state[t] = "new" /\ state' = [state EXCEPT ![t] = "open"]
        /\ fd' = [fd EXCEPT ![t] = f]
        /\ worker' = [worker EXCEPT ![w] = [@ EXCEPT !.new = t, !.back = worker[w].pc, !.pc = "register"]]
  BY DEF AddTimer
<1>3. /\ state' = [state EXCEPT ![t] = "open"] /\ fd' = [fd EXCEPT ![t] = f]
      /\ state'[t] = "open" /\ fd'[t] = f /\ state[t] \in {"new", "queued"}
      /\ \A o \in Objects : o # t => state'[o] = state[o] /\ fd'[o] = fd[o]
  BY <1>2 DEF Types
<1>4. /\ worker' \in [Workers -> WorkerType]
      /\ \A v \in Workers : v # w => worker'[v] = worker[v]
      /\ \A v \in Workers : Busy(v)' = Busy(v)
      /\ worker'[w].pc = "register" /\ worker'[w].batch = worker[w].batch
      /\ worker'[w].obj = worker[w].obj /\ worker'[w].new = t
      /\ worker'[w].del = worker[w].del /\ worker'[w].back = worker[w].pc
  BY <1>1, <1>2, RegisterMoves
<1>5. /\ f \in Fds /\ f # None
      /\ \A o \in Objects : state[o] = "open" => fd[o] # f
      /\ t \notin armed /\ \A v \in Workers : t \notin Busy(v)
      /\ \A k \in Keys : event_ht[k] # t
      /\ t \notin lostEvents
  BY <1>2, FreeIsUnused, BusyIsObject DEF HandledIsOpen, EntryKeys, Types
<1>6. Types'  BY <1>1, <1>2, <1>3, <1>4, <1>5 DEF Types
<1>7. Stages'
  BY <1>1, <1>2, <1>3, <1>4, <1>5
  DEF Stages, Stage, Rest, DeletesOwn, DeletesTimer, OpensClient, OpensTimer
<1>8. HandledIsOpen'
  BY <1>1, <1>2, <1>3, <1>4, <1>5
  DEF HandledIsOpen, Rest, Types, WorkerType, Report
<1>9. NewIsPrivate'  BY <1>1, <1>2, <1>3, <1>4, <1>5 DEF NewIsPrivate, Opening, Types
<1>10. Descriptors'  BY <1>1, <1>2, <1>3, <1>4, <1>5 DEF Descriptors
<1>11. OneWorkerPerEvent'  BY <1>1, <1>2, <1>3, <1>4, <1>5 DEF OneWorkerPerEvent
<1>12. ClientTableExact'  BY <1>1, <1>2, <1>3, <1>4, <1>5 DEF ClientTableExact, Types
<1>13. ClientsListed'
  <2>1. \A c \in Clients : c # t /\ Listed(c) => Listed(c)'  BY <1>1, <1>3, <1>4, <1>5 DEF Listed
  <2>2. \A v \in Workers : Closing(v)' => Closing(v)
    BY <1>1, <1>3, <1>4, <1>5 DEF Closing
  <2>3. \A v \in Workers : ~Closing(v)' => ~Closing(v)
    BY <1>1, <1>3, <1>4, <1>5 DEF Closing
  <2>4. QED  BY <1>1, <1>3, <1>4, <1>5, <2>1, <2>2, <2>3, BusyMember DEF ClientsListed, HandledIsOpen, NewIsPrivate, Opening
<1>14. ClientsUnlisted'
  BY <1>1, <1>2, <1>3, <1>4, <1>5
  DEF ClientsUnlisted, Closing, ClientTableExact
<1>15. OpenListed'  BY <1>1, <1>2, <1>3, <1>4, <1>5 DEF OpenListed, Listed, Closing
<1>16. EntryKeys'  BY <1>1, <1>2, <1>3, <1>4, <1>5 DEF EntryKeys, Types
<1>17. HandledEntered'
  BY <1>1, <1>2, <1>3, <1>4, <1>5, BusyIsObject
  DEF HandledEntered, Entered, EventLost, HandledIsOpen, Types
<1>18. OpenEntered'
  BY <1>1, <1>2, <1>3, <1>4, <1>5
  DEF OpenEntered, Entered, EventLost, Opening
<1>19. EnteredOpen'  BY <1>1, <1>2, <1>3, <1>4, <1>5 DEF EnteredOpen
<1>20. EndOfMain'
  BY <1>1, <1>2, <1>3, <1>4, <1>5
  DEF EndOfMain, Ended, At, EventLost, Listed, Types
<1>21. QED  BY <1>6, <1>7, <1>8, <1>9, <1>10, <1>11, <1>12, <1>13, <1>14, <1>15, <1>16,
               <1>17, <1>18, <1>19, <1>20

(* No descriptor is left for the timer.                                     *)
LEMMA AddTimerFailsStep ==
  ASSUME IInv, ~ub, NEW w \in Workers, AddTimer(w), Free = {}
  PROVE  IInv'
<1> USE DEF IInv
<1>1. /\ ub' = TRUE /\ worker' = worker
      /\ UNCHANGED <<state, fd, event_ht, client_ht, armed, running, shutdown, main, late, twice, lostEvents, lostClients>>
  BY DEF AddTimer, tables, process, history, lost
<1>2. \A v \in Workers : Busy(v)' = Busy(v)
  BY <1>1 DEF Busy
<1>3. Types'  BY <1>1, <1>2 DEF Types
<1>4. Stages'
  BY <1>1, <1>2
  DEF Stages, Stage, Rest, DeletesOwn, DeletesTimer, OpensClient, OpensTimer
<1>5. HandledIsOpen'  BY <1>1, <1>2 DEF HandledIsOpen, Rest
<1>6. NewIsPrivate'  BY <1>1, <1>2 DEF NewIsPrivate, Opening
<1>7. Descriptors'  BY <1>1, <1>2 DEF Descriptors
<1>8. OneWorkerPerEvent'  BY <1>1, <1>2 DEF OneWorkerPerEvent
<1>9. ClientTableExact'  BY <1>1, <1>2 DEF ClientTableExact
<1>10. ClientsListed'  BY <1>1, <1>2 DEF ClientsListed, Listed, Closing
<1>11. ClientsUnlisted'  BY <1>1, <1>2 DEF ClientsUnlisted, Closing
<1>12. OpenListed'  BY <1>1, <1>2 DEF OpenListed, Listed, Closing
<1>13. EntryKeys'  BY <1>1, <1>2 DEF EntryKeys
<1>14. HandledEntered'  BY <1>1, <1>2 DEF HandledEntered, Entered, EventLost
<1>15. OpenEntered'  BY <1>1, <1>2 DEF OpenEntered, Entered, EventLost, Opening
<1>16. EnteredOpen'  BY <1>1, <1>2 DEF EnteredOpen
<1>17. EndOfMain'  BY <1>1, <1>2 DEF EndOfMain, Ended, At, EventLost, Listed
<1>18. QED  BY <1>3, <1>4, <1>5, <1>6, <1>7, <1>8, <1>9, <1>10, <1>11, <1>12, <1>13, <1>14,
               <1>15, <1>16, <1>17

(* A timer that is entered is going to be deleted.                          *)
LEMMA CancelTimerStep ==
  ASSUME IInv, ~ub, NEW w \in Workers, CancelTimer(w)
  PROVE  IInv'
<1> USE DEF IInv
<1>1. /\ worker[w].pc \in {"read", "callback"} /\ worker[w].del = None
      /\ worker[w].pc = "read" => worker[w].obj \in Clients
      /\ worker[w].pc = "callback" => worker[w].obj = None /\ worker[w].batch = {}
      /\ UNCHANGED <<state, fd, event_ht, client_ht, running, shutdown, main, late, twice, lostEvents, lostClients>>
  BY DEF CancelTimer, At, Stages, Stage, Rest, tables, process, history, lost
<1>2. PICK t \in Timers :
        /\ state[t] = "open" /\ event_ht[fd[t]] = t
        /\ ub' = (\E v \in Workers : t \in Busy(v))
        /\ armed' = armed \ {t}
        /\ worker' = [worker EXCEPT ![w] = [@ EXCEPT !.del = t, !.back = worker[w].pc, !.pc = "close"]]
  BY DEF CancelTimer
<1>3. /\ worker' \in [Workers -> WorkerType]
      /\ \A v \in Workers : v # w => worker'[v] = worker[v]
      /\ \A v \in Workers : v # w => Busy(v)' = Busy(v)
      /\ worker'[w].pc = "close" /\ worker'[w].batch = worker[w].batch
      /\ worker'[w].obj = worker[w].obj /\ worker'[w].del = t
      /\ worker'[w].new = worker[w].new /\ worker'[w].back = worker[w].pc
  BY <1>1, <1>2, CancelMoves
<1>4. /\ \A o : o \in Busy(w)' <=> o \in Busy(w) \/ o = t
      /\ ~ub' => \A v \in Workers : t \notin Busy(v)
      /\ \A r \in worker[w].batch : r.obj \in Busy(w)
  BY <1>1, <1>2, <1>3, BusyMember
<1>5. fd[t] \in Keys /\ \A v \in Workers : worker[v].pc \in Opening => worker[v].new # t
  BY <1>2 DEF NewIsPrivate, Descriptors
<1>6. Types'  BY <1>1, <1>2, <1>3, <1>4, <1>5 DEF Types
<1>7. Stages'
  BY <1>1, <1>2, <1>3, <1>4, <1>5
  DEF Stages, Stage, Rest, DeletesOwn, DeletesTimer, OpensClient, OpensTimer
<1>8. HandledIsOpen'  BY <1>1, <1>2, <1>3, <1>4, <1>5 DEF HandledIsOpen, Rest
<1>9. NewIsPrivate'  BY <1>1, <1>2, <1>3, <1>4, <1>5 DEF NewIsPrivate, Opening
<1>10. Descriptors'  BY <1>1, <1>2, <1>3, <1>4, <1>5 DEF Descriptors
<1>11. OneWorkerPerEvent'  BY <1>1, <1>2, <1>3, <1>4, <1>5 DEF OneWorkerPerEvent
<1>12. ClientTableExact'  BY <1>1, <1>2, <1>3, <1>4, <1>5 DEF ClientTableExact
<1>13. ClientsListed'  BY <1>1, <1>2, <1>3, <1>4, <1>5 DEF ClientsListed, Listed, Closing
<1>14. ClientsUnlisted'  BY <1>1, <1>2, <1>3, <1>4, <1>5 DEF ClientsUnlisted, Closing
<1>15. OpenListed'  BY <1>1, <1>2, <1>3, <1>4, <1>5 DEF OpenListed, Listed, Closing
<1>16. EntryKeys'  BY <1>1, <1>2, <1>3, <1>4, <1>5 DEF EntryKeys
<1>17. HandledEntered'  BY <1>1, <1>2, <1>3, <1>4, <1>5 DEF HandledEntered, Entered, EventLost
<1>18. OpenEntered'
  BY <1>1, <1>2, <1>3, <1>4, <1>5
  DEF OpenEntered, Entered, EventLost, Opening
<1>19. EnteredOpen'  BY <1>1, <1>2, <1>3, <1>4, <1>5 DEF EnteredOpen
<1>20. EndOfMain'  BY <1>1, <1>2, <1>3, <1>4, <1>5 DEF EndOfMain, Ended, At, EventLost, Listed
<1>21. QED  BY <1>6, <1>7, <1>8, <1>9, <1>10, <1>11, <1>12, <1>13, <1>14, <1>15, <1>16,
               <1>17, <1>18, <1>19, <1>20

(* server_del_event: out of epoll, and a client out of client_ht.           *)
LEMMA DelEventStep ==
  ASSUME IInv, ~ub, NEW w \in Workers, DelEvent(w)
  PROVE  IInv'
<1> USE DEF IInv
<1>1. /\ worker[w].pc = "del" /\ UNCHANGED <<state, fd, event_ht, running, shutdown, main, ub, late, twice, lostEvents>>
      /\ armed' = armed \ {worker[w].del} /\ client_ht' \in Forget(worker[w].del)
      /\ lostClients' = lostClients \cup Taken(client_ht, client_ht', worker[w].del)
      /\ Goto(w, "close")
  BY DEF DelEvent, At, tables, process, history, lost
<1>2. /\ worker[w].del = worker[w].obj /\ worker[w].obj \in Objects \ {EventFd}
      /\ worker[w].obj \in Busy(w)
      /\ state[worker[w].obj] = "open" /\ (worker[w].obj \in Clients => fd[worker[w].obj] \in Fds)
  BY <1>1, BusyMember DEF Stages, Stage, HandledIsOpen, DeletesOwn, DeletesTimer, Descriptors
<1>3. /\ worker' \in [Workers -> WorkerType]
      /\ \A v \in Workers : v # w => worker'[v] = worker[v]
      /\ \A v \in Workers : Busy(v)' = Busy(v)
      /\ worker'[w].pc = "close" /\ worker'[w].batch = worker[w].batch
      /\ worker'[w].obj = worker[w].obj /\ worker'[w].new = worker[w].new
      /\ worker'[w].del = worker[w].del /\ worker'[w].back = worker[w].back
  BY <1>1, GotoMoves DEF Pcs
<1>4. /\ client_ht' \in [Fds -> Clients \cup {None}]
      /\ \A f \in Fds : client_ht'[f] = client_ht[f] \/ client_ht'[f] = None
      /\ \A f \in Fds : client_ht[f] # None /\ client_ht'[f] = None /\ client_ht[f] # worker[w].obj => client_ht[f] \in lostClients'
      /\ lostClients \subseteq lostClients' /\ lostClients' \subseteq Clients
  <2>1. CASE worker[w].obj \in Clients
    BY <2>1, <1>1, <1>2, ClientDel DEF Forget
  <2>2. CASE worker[w].obj \notin Clients
    BY <2>2, <1>1, <1>2 DEF Types, Forget, Taken
  <2>3. QED  BY <2>1, <2>2
<1>5. \A f \in Fds : client_ht'[f] # worker[w].obj
  <2>1. CASE worker[w].obj \in Clients
    <3>1. client_ht'[fd[worker[w].obj]] = None
      BY <2>1, <1>1, <1>2, ClientDel DEF Forget
    <3>2. QED  BY <2>1, <3>1, <1>2, <1>4 DEF ClientTableExact, Types
  <2>2. QED  BY <2>1, <1>2, <1>4
<1>6. /\ \A c \in Clients : state[c] = "open" /\ c # worker[w].obj /\ Listed(c) => Listed(c)'
      /\ \A v \in Workers : v # w => worker[w].obj \notin Busy(v)
      /\ \A r \in worker[w].batch : r.obj # worker[w].obj
      /\ \A v \in Workers : worker[v].pc \in Opening => worker[v].new # worker[w].obj /\ state[worker[v].new] = "open"
  BY <1>1, <1>2, <1>4, Alone DEF Listed, Descriptors, Stages, Stage, NewIsPrivate
<1>7. Types'  BY <1>1, <1>2, <1>3, <1>4, <1>5, <1>6 DEF Types
<1>8. Stages'
  BY <1>1, <1>2, <1>3, <1>4, <1>5, <1>6
  DEF Stages, Stage, Rest, DeletesOwn, DeletesTimer, OpensClient, OpensTimer
<1>9. HandledIsOpen'  BY <1>1, <1>2, <1>3, <1>4, <1>5, <1>6 DEF HandledIsOpen, Rest
<1>10. NewIsPrivate'  BY <1>1, <1>2, <1>3, <1>4, <1>5, <1>6 DEF NewIsPrivate, Opening
<1>11. Descriptors'  BY <1>1, <1>2, <1>3, <1>4, <1>5, <1>6 DEF Descriptors
<1>12. OneWorkerPerEvent'  BY <1>1, <1>2, <1>3, <1>4, <1>5, <1>6 DEF OneWorkerPerEvent
<1>13. ClientTableExact'  BY <1>1, <1>2, <1>3, <1>4, <1>5, <1>6 DEF ClientTableExact
<1>14. ClientsListed'
  <2>1. \A c \in Clients : c \in armed' => Listed(c)'
    BY <1>1, <1>2, <1>6 DEF ClientsListed, HandledIsOpen
  <2>2. ASSUME NEW v \in Workers, NEW r \in worker'[v].batch, r.obj \in Clients
        PROVE  Listed(r.obj)'
    <3>1. r \in worker[v].batch /\ r.obj \in Busy(v)  BY <2>2, <1>3, BusyMember
    <3>2. r.obj # worker[w].obj  BY <3>1, <1>6
    <3>3. QED  BY <3>1, <3>2, <2>2, <1>6 DEF ClientsListed, HandledIsOpen
  <2>3. ASSUME NEW v \in Workers, worker'[v].obj \in Clients, ~Closing(v)',
               ~(worker'[v].pc = "erase" /\ worker'[v].del = worker'[v].obj)
        PROVE  Listed(worker[v].obj)'
    <3>1. v # w  BY <2>3, <1>2, <1>3 DEF Closing
    <3>2. worker[v].obj \in Busy(v) /\ worker'[v] = worker[v] /\ ~Closing(v)
      BY <3>1, <2>3, <1>3, BusyMember DEF Closing
    <3>3. worker[v].obj # worker[w].obj  BY <3>1, <3>2, <1>6
    <3>4. QED  BY <3>2, <3>3, <2>3, <1>6 DEF ClientsListed, HandledIsOpen
  <2>4. ASSUME NEW v \in Workers, worker'[v].pc \in {"register", "undo"}, worker'[v].new \in Clients
        PROVE  Listed(worker[v].new)'
    <3>1. worker'[v] = worker[v]  BY <2>4, <1>3
    <3>2. QED  BY <3>1, <2>4, <1>6 DEF ClientsListed, Opening
  <2>5. QED  BY <2>1, <2>2, <2>3, <2>4 DEF ClientsListed
<1>15. ClientsUnlisted'
  BY <1>1, <1>2, <1>3, <1>4, <1>5, <1>6, NewIsObject, ClosingIsObject
  DEF ClientsUnlisted, Closing, Opening
<1>16. OpenListed'
  <2> SUFFICES ASSUME NEW c \in Clients, state[c] = "open"
               PROVE  \/ Listed(c)'
                      \/ \E v \in Workers : /\ worker'[v].pc \in {"handshake", "insert", "undone"}
                                            /\ worker'[v].new = c
                      \/ \E v \in Workers : Closing(v)' /\ worker'[v].obj = c
    BY <1>1 DEF OpenListed
  <2>1. CASE c = worker[w].obj  BY <2>1, <1>2, <1>3 DEF Closing
  <2>2. CASE c # worker[w].obj  BY <2>2, <1>1, <1>2, <1>3, <1>6 DEF OpenListed, Closing
  <2>3. QED  BY <2>1, <2>2
<1>17. EntryKeys'  BY <1>1, <1>2, <1>3, <1>4, <1>5, <1>6 DEF EntryKeys
<1>18. HandledEntered'
  BY <1>1, <1>2, <1>3, <1>4, <1>5, <1>6
  DEF HandledEntered, Entered, EventLost
<1>19. OpenEntered'
  BY <1>1, <1>2, <1>3, <1>4, <1>5, <1>6
  DEF OpenEntered, Entered, EventLost, Opening
<1>20. EnteredOpen'  BY <1>1, <1>2, <1>3, <1>4, <1>5, <1>6 DEF EnteredOpen
<1>21. EndOfMain'
  BY <1>1, <1>2, <1>3, <1>4, <1>5, <1>6
  DEF EndOfMain, Ended, At, EventLost, Listed, Types, Descriptors
<1>22. QED  BY <1>7, <1>8, <1>9, <1>10, <1>11, <1>12, <1>13, <1>14, <1>15, <1>16, <1>17,
               <1>18, <1>19, <1>20, <1>21

(* close(fd): the object was open, and nobody else has to do with it.       *)
LEMMA CloseFdStep ==
  ASSUME IInv, ~ub, NEW w \in Workers, CloseFd(w)
  PROVE  IInv'
<1> USE DEF IInv
<1>1. /\ worker[w].pc = "close" /\ UNCHANGED <<fd, event_ht, client_ht, armed, running, shutdown, main, ub, late, lostEvents, lostClients>>
      /\ state' = [state EXCEPT ![worker[w].del] = "freed"]
      /\ twice' = (twice \/ state[worker[w].del] = "freed") /\ Goto(w, "erase")
  BY DEF CloseFd, At, tables, process, history, lost
<1>2. /\ worker[w].del \in Objects \ {EventFd} /\ state[worker[w].del] = "open"
      /\ worker[w].del \in Busy(w) /\ twice' = twice
      /\ DeletesOwn(w) \/ DeletesTimer(w)
  BY <1>1, BusyMember DEF Stages, Stage, HandledIsOpen, DeletesOwn, DeletesTimer, Types
<1>3. /\ state'[worker[w].del] = "freed"
      /\ \A o \in Objects : o # worker[w].del => state'[o] = state[o]
  BY <1>1, <1>2 DEF Types
<1>4. /\ worker' \in [Workers -> WorkerType]
      /\ \A v \in Workers : v # w => worker'[v] = worker[v]
      /\ \A v \in Workers : Busy(v)' = Busy(v)
      /\ worker'[w].pc = "erase" /\ worker'[w].batch = worker[w].batch
      /\ worker'[w].obj = worker[w].obj /\ worker'[w].new = worker[w].new
      /\ worker'[w].del = worker[w].del /\ worker'[w].back = worker[w].back
  BY <1>1, GotoMoves DEF Pcs
<1>5. /\ worker[w].del \notin armed /\ \A v \in Workers : v # w => worker[w].del \notin Busy(v)
      /\ \A r \in worker[w].batch : r.obj # worker[w].del
      /\ \A v \in Workers : worker[v].pc \in Opening => worker[v].new # worker[w].del
      /\ \A f \in Fds : client_ht[f] # worker[w].del
  <2>1. \A f \in Fds : client_ht[f] # worker[w].del
    BY <1>1, <1>2 DEF ClientsUnlisted, Closing, DeletesOwn, DeletesTimer, Types
  <2>2. QED  BY <2>1, <1>2, Alone DEF NewIsPrivate, Stages, Stage
<1>6. \A v \in Workers : \A r \in worker[v].batch : r.obj # worker[w].del
  BY <1>5, BusyMember
<1>7. Types'  BY <1>1, <1>2, <1>3, <1>4, <1>5, <1>6 DEF Types
<1>8. Stages'
  BY <1>1, <1>2, <1>3, <1>4, <1>5, <1>6
  DEF Stages, Stage, Rest, DeletesOwn, DeletesTimer, OpensClient, OpensTimer
<1>9. HandledIsOpen'
  BY <1>1, <1>2, <1>3, <1>4, <1>5, <1>6, BusyMember
  DEF HandledIsOpen, Rest, Types, WorkerType, Report
<1>10. NewIsPrivate'  BY <1>1, <1>2, <1>3, <1>4, <1>5, <1>6 DEF NewIsPrivate, Opening, Types
<1>11. Descriptors'  BY <1>1, <1>2, <1>3, <1>4, <1>5, <1>6 DEF Descriptors
<1>12. OneWorkerPerEvent'  BY <1>1, <1>2, <1>3, <1>4, <1>5, <1>6 DEF OneWorkerPerEvent
<1>13. ClientTableExact'  BY <1>1, <1>2, <1>3, <1>4, <1>5, <1>6 DEF ClientTableExact, Types
<1>14. ClientsListed'
  BY <1>1, <1>2, <1>3, <1>4, <1>5, <1>6
  DEF ClientsListed, Listed, Closing, DeletesOwn, DeletesTimer
<1>15. ClientsUnlisted'  BY <1>1, <1>2, <1>3, <1>4, <1>5, <1>6 DEF ClientsUnlisted, Closing
<1>16. OpenListed'
  BY <1>1, <1>2, <1>3, <1>4, <1>5, <1>6
  DEF OpenListed, Listed, Closing, DeletesOwn, DeletesTimer
<1>17. EntryKeys'  BY <1>1, <1>2, <1>3, <1>4, <1>5, <1>6 DEF EntryKeys, Types
<1>18. HandledEntered'
  BY <1>1, <1>2, <1>3, <1>4, <1>5, <1>6
  DEF HandledEntered, Entered, EventLost
<1>19. OpenEntered'
  BY <1>1, <1>2, <1>3, <1>4, <1>5, <1>6
  DEF OpenEntered, Entered, EventLost, Opening
<1>20. EnteredOpen'  BY <1>1, <1>2, <1>3, <1>4, <1>5, <1>6 DEF EnteredOpen, Types
<1>21. EndOfMain'
  BY <1>1, <1>2, <1>3, <1>4, <1>5, <1>6
  DEF EndOfMain, Ended, At, EventLost, Listed
<1>22. QED  BY <1>7, <1>8, <1>9, <1>10, <1>11, <1>12, <1>13, <1>14, <1>15, <1>16, <1>17,
               <1>18, <1>19, <1>20, <1>21

(* The entry is deleted by descriptor: it is the closed object's own, or the*)
(* own was lost.                                                            *)
LEMMA EraseEventStep ==
  ASSUME IInv, ~ub, NEW w \in Workers, EraseEvent(w)
  PROVE  IInv'
<1> USE DEF IInv
<1>1. /\ worker[w].pc = "erase" /\ UNCHANGED <<state, fd, client_ht, armed, running, shutdown, main, ub, twice, lostClients>>
      /\ late' \in BOOLEAN
      /\ \/ /\ event_ht' \in server_ght_del(event_ht, fd[worker[w].del]) /\ late' = late
            /\ lostEvents' = lostEvents \cup Taken(event_ht, event_ht', event_ht[fd[worker[w].del]])
         \/ event_ht' = event_ht /\ lostEvents' = lostEvents /\ late' = TRUE
      /\ Deleted(w)
  BY DEF EraseEvent, At, Types, tables, process, history, lost
<1>2. /\ worker[w].del \in Objects /\ state[worker[w].del] = "freed"
      /\ fd[worker[w].del] \in Keys /\ worker[w].del # None
      /\ worker[w].del \in Busy(w) /\ worker[w].del # EventFd
      /\ \A r \in worker[w].batch : r.obj # None
      /\ DeletesOwn(w) \/ DeletesTimer(w)
  BY <1>1, BusyMember DEF Stages, Stage, HandledIsOpen, DeletesOwn, DeletesTimer, Descriptors, Types, WorkerType, Report
<1>3. /\ event_ht' \in [Keys -> Objects \cup {None}]
      /\ \A k \in Keys : event_ht'[k] = event_ht[k] \/ event_ht'[k] = None
      /\ \A k \in Keys : event_ht[k] # None /\ event_ht'[k] = None =>
           event_ht[k] \in lostEvents' \/ event_ht[k] = event_ht[fd[worker[w].del]]
      /\ ~late' => event_ht'[fd[worker[w].del]] = None
      /\ ~late' => ~late
      /\ lostEvents \subseteq lostEvents'
      /\ \A p \in lostEvents' : p \in lostEvents \/ \E k \in Keys : event_ht[k] = p /\ p # None
  <2>1. CASE event_ht' = event_ht /\ lostEvents' = lostEvents /\ late' = TRUE
    BY <2>1 DEF Types
  <2>2. CASE /\ event_ht' \in server_ght_del(event_ht, fd[worker[w].del]) /\ late' = late
             /\ lostEvents' = lostEvents \cup Taken(event_ht, event_ht', event_ht[fd[worker[w].del]])
    <3> DEFINE q == event_ht[fd[worker[w].del]]
    <3>1. lostEvents' = lostEvents \cup Taken(event_ht, event_ht', q)  BY <2>2
    <3> HIDE DEF q
    <3>2. /\ event_ht' \in [Keys -> Objects \cup {None}] /\ event_ht'[fd[worker[w].del]] = None
          /\ \A x \in Keys : event_ht'[x] = event_ht[x] \/ event_ht'[x] = None
          /\ \A x \in Keys : event_ht[x] # None /\ event_ht'[x] = None =>
               event_ht[x] \in lostEvents' \/ event_ht[x] = q
          /\ lostEvents \subseteq lostEvents'
          /\ \A p \in lostEvents' : p \in lostEvents \/ \E x \in Keys : event_ht[x] = p /\ p # None
      BY <2>2, <3>1, <1>2, EventDel
    <3>3. QED  BY <2>2, <3>2 DEF q
  <2>3. QED  BY <1>1, <2>1, <2>2
<1>4. /\ worker' \in [Workers -> WorkerType]
      /\ \A v \in Workers : v # w => worker'[v] = worker[v]
      /\ \A v \in Workers : v # w => Busy(v)' = Busy(v)
      /\ worker'[w].batch = worker[w].batch /\ worker'[w].del = None
      /\ \/ worker[w].del = worker[w].obj /\ worker'[w].pc = "batch" /\ worker'[w].obj = None
         \/ /\ worker[w].del # worker[w].obj /\ worker'[w].pc = worker[w].back
            /\ worker'[w].obj = worker[w].obj
  <2>1. CASE worker[w].del = worker[w].obj
    BY <2>1, <1>1, FinishMoves DEF Deleted
  <2>2. CASE worker[w].del # worker[w].obj
    BY <2>2, <1>1, <1>2, BackMoves DEF Deleted, DeletesOwn, DeletesTimer, Pcs, Rest
  <2>3. QED  BY <2>1, <2>2
<1>5. /\ worker[w].del \notin armed
      /\ \A v \in Workers : \A o \in Busy(v)' : o \in Busy(v) /\ o # worker[w].del
  <2>1. worker[w].del \notin armed /\ \A v \in Workers : v # w => worker[w].del \notin Busy(v)
    BY <1>2, Alone
  <2>2. \A r \in worker[w].batch : r.obj # worker[w].del  BY DEF Stages, Stage
  <2>3. \A o \in Busy(w)' : o \in Busy(w) /\ o # worker[w].del
    BY <1>2, <1>4, <2>2, BusyMember
  <2>4. QED  BY <2>1, <2>3, <1>4
<1>6. \A o \in Objects : fd[o] \in Keys /\ Entered(o) /\ o # worker[w].del => Entered(o)'
  <2>1. Entered(worker[w].del)  BY <1>2 DEF HandledEntered
  <2> SUFFICES ASSUME NEW o \in Objects, fd[o] \in Keys, Entered(o), o # worker[w].del
               PROVE  Entered(o)'
    OBVIOUS
  <2>2. CASE EventLost(o)  BY <2>2, <1>1, <1>3 DEF Entered, EventLost
  <2>3. CASE event_ht[fd[o]] = o /\ event_ht'[fd[o]] = None /\ o \notin lostEvents'
    <3>1. event_ht[fd[worker[w].del]] = o  BY <2>3, <1>3 DEF Types
    <3>2. fd[o] = fd[worker[w].del]  BY <3>1, <1>2, <2>3 DEF EntryKeys, Types
    <3>3. EventLost(worker[w].del)  BY <2>1, <3>1 DEF Entered
    <3>4. EventLost(o)  BY <3>2, <3>3 DEF EventLost
    <3>5. QED  BY <3>4, <2>2
  <2>4. QED  BY <2>2, <2>3, <1>1, <1>3 DEF Entered, EventLost
<1>7. Types'  BY <1>1, <1>2, <1>3, <1>4, <1>5, <1>6 DEF Types
<1>8. Stages'
  <2> SUFFICES ASSUME NEW v \in Workers PROVE Stage(v)'
    BY DEF Stages
  <2>1. CASE v # w  BY <2>1, <1>1, <1>2, <1>4 DEF Stages, Stage, DeletesOwn, DeletesTimer, OpensClient, OpensTimer
  <2>2. CASE v = w  BY <2>2, <1>1, <1>2, <1>4 DEF Stages, Stage, Rest, DeletesOwn, DeletesTimer, OpensClient, OpensTimer
  <2>3. QED  BY <2>1, <2>2
<1>9. HandledIsOpen'
  BY <1>1, <1>2, <1>3, <1>4, <1>5, <1>6
  DEF HandledIsOpen, Rest, DeletesOwn, DeletesTimer
<1>10. NewIsPrivate'
  BY <1>1, <1>2, <1>3, <1>4, <1>5, <1>6, NewIsObject
  DEF NewIsPrivate, Opening, DeletesOwn, DeletesTimer
<1>11. Descriptors'  BY <1>1, <1>2, <1>3, <1>4, <1>5, <1>6 DEF Descriptors
<1>12. OneWorkerPerEvent'  BY <1>1, <1>2, <1>3, <1>4, <1>5, <1>6 DEF OneWorkerPerEvent
<1>13. ClientTableExact'  BY <1>1, <1>2, <1>3, <1>4, <1>5, <1>6 DEF ClientTableExact
<1>14. ClientsListed'
  BY <1>1, <1>2, <1>3, <1>4, <1>5, <1>6
  DEF ClientsListed, Listed, Closing, DeletesOwn, DeletesTimer
<1>15. ClientsUnlisted'
  BY <1>1, <1>2, <1>3, <1>4, <1>5, <1>6
  DEF ClientsUnlisted, Closing, DeletesOwn, DeletesTimer
<1>16. OpenListed'  BY <1>1, <1>2, <1>3, <1>4, <1>5, <1>6 DEF OpenListed, Listed, Closing
<1>17. EntryKeys'  BY <1>1, <1>2, <1>3, <1>4, <1>5, <1>6 DEF EntryKeys, Types
<1>18. HandledEntered'
  <2>1. \A o \in armed : Entered(o)'
    BY <1>1, <1>5, <1>6 DEF HandledEntered, HandledIsOpen, Descriptors, Types
  <2>2. \A v \in Workers : \A o \in Busy(v)' : Entered(o)'
    BY <1>5, <1>6, BusyIsObject DEF HandledEntered
  <2>3. QED  BY <2>1, <2>2, <1>1 DEF HandledEntered
<1>19. OpenEntered'
  <2> SUFFICES ASSUME NEW o \in Objects, state[o] = "open"
               PROVE  Entered(o)' \/ \E v \in Workers : worker'[v].pc \in Opening /\ worker'[v].new = o
    BY <1>1 DEF OpenEntered
  <2>1. fd[o] \in Keys /\ o # worker[w].del  BY <1>2 DEF Descriptors
  <2>2. CASE Entered(o)  BY <2>1, <2>2, <1>6
  <2>3. CASE \E v \in Workers : worker[v].pc \in Opening /\ worker[v].new = o
    BY <2>3, <1>1, <1>4 DEF Opening
  <2>4. QED  BY <2>2, <2>3 DEF OpenEntered
<1>20. EnteredOpen'  BY <1>1, <1>2, <1>3, <1>4, <1>5, <1>6 DEF EnteredOpen, EntryKeys
<1>21. EndOfMain'
  BY <1>1, <1>2, <1>3, <1>4, <1>5, <1>6
  DEF EndOfMain, Ended, At, EventLost, Listed
<1>22. QED  BY <1>7, <1>8, <1>9, <1>10, <1>11, <1>12, <1>13, <1>14, <1>15, <1>16, <1>17,
               <1>18, <1>19, <1>20, <1>21

(* A connection in the backlog is nobody's yet.                             *)
LEMMA ConnectStep ==
  ASSUME IInv, NEW c \in Clients, Connect(c)
  PROVE  IInv'
<1> USE DEF IInv
<1>1. /\ state[c] = "new" /\ state' = [state EXCEPT ![c] = "queued"]
      /\ worker' = worker
      /\ UNCHANGED <<fd, event_ht, client_ht, armed, running, shutdown, main, ub, late, twice,
                     lostEvents, lostClients>>
  BY DEF Connect, tables, process, history, lost
<1>2. /\ state'[c] = "queued" /\ \A v \in Workers : Busy(v)' = Busy(v)
      /\ \A o \in Objects : o # c => state'[o] = state[o]
  BY <1>1 DEF Types, Busy
<1>3. /\ c \notin armed /\ c \notin lostEvents /\ \A v \in Workers : c \notin Busy(v)
      /\ \A v \in Workers : worker[v].pc \in Opening => worker[v].new # c
      /\ \A k \in Keys : event_ht[k] # c
  BY <1>1, BusyIsObject DEF HandledIsOpen, EntryKeys, NewIsPrivate
<1>4. Types'  BY <1>1 DEF Types
<1>5. Stages'  BY <1>1 DEF Stages, Stage, DeletesOwn, DeletesTimer, OpensClient, OpensTimer
<1>6. HandledIsOpen'
  BY <1>1, <1>2, <1>3, BusyMember DEF HandledIsOpen, Types, WorkerType, Report
<1>7. NewIsPrivate'
  BY <1>1, <1>2, <1>3, NewIsObject DEF NewIsPrivate, Opening
<1>8. Descriptors'  BY <1>1, <1>2 DEF Descriptors
<1>9. OneWorkerPerEvent'  BY <1>1, <1>2 DEF OneWorkerPerEvent
<1>10. ClientTableExact'  BY <1>1, <1>2 DEF ClientTableExact, Types
<1>11. ClientsListed' /\ ClientsUnlisted'
  BY <1>1 DEF ClientsListed, ClientsUnlisted, Closing, Listed
<1>12. OpenListed'  BY <1>1, <1>2 DEF OpenListed, Closing, Listed
<1>13. EntryKeys'  BY <1>1, <1>2, <1>3 DEF EntryKeys, Types
<1>14. HandledEntered'  BY <1>1, <1>2 DEF HandledEntered, Entered, EventLost
<1>15. OpenEntered'  BY <1>1, <1>2 DEF OpenEntered, Entered, EventLost
<1>16. EnteredOpen'  BY <1>1, <1>2, <1>3 DEF EnteredOpen, Types
<1>17. EndOfMain'  BY <1>1, <1>2 DEF EndOfMain, Ended, At, EventLost, Listed
<1>18. QED  BY <1>4, <1>5, <1>6, <1>7, <1>8, <1>9, <1>10, <1>11, <1>12, <1>13, <1>14, <1>15,
               <1>16, <1>17

(* Until the workers are joined the main thread leaves the tables alone.     *)
LEMMA MainStep ==
  ASSUME IInv, Started \/ server_handle_signal \/ SetShutdown \/ WriteEventFd \/ Join
  PROVE  IInv'
<1> USE DEF IInv
<1>1. /\ UNCHANGED <<state, fd, event_ht, client_ht, armed, worker, ub, late, twice,
                     lostEvents, lostClients>>
      /\ main \notin {"clients", "done"} /\ main' \notin {"clients", "done"}
      /\ main' = "events" => Ended
      /\ running' \in BOOLEAN /\ shutdown' \in BOOLEAN
  BY DEF Started, server_handle_signal, SetShutdown, WriteEventFd, Join, MainGoes,
         tables, history, lost, Types
<1>2. /\ \A v \in Workers : Busy(v)' = Busy(v)
      /\ Ended' <=> Ended
      /\ \A o : EventLost(o)' <=> EventLost(o)
  BY <1>1 DEF Busy, Ended, At, EventLost
<1>3. Types'  BY <1>1 DEF Types
<1>4. Stages'  BY <1>1 DEF Stages, Stage, DeletesOwn, DeletesTimer, OpensClient, OpensTimer
<1>5. HandledIsOpen' /\ Descriptors' /\ ClientTableExact' /\ EntryKeys'
  BY <1>1 DEF HandledIsOpen, Descriptors, ClientTableExact, EntryKeys
<1>6. NewIsPrivate' /\ OneWorkerPerEvent' /\ HandledEntered' /\ OpenEntered'
  BY <1>1, <1>2 DEF NewIsPrivate, OneWorkerPerEvent, HandledEntered, OpenEntered, Entered
<1>7. ClientsListed' /\ ClientsUnlisted' /\ OpenListed'
  BY <1>1 DEF ClientsListed, ClientsUnlisted, OpenListed, Closing, Listed
<1>8. EnteredOpen' /\ EndOfMain'
  BY <1>1, <1>2 DEF EnteredOpen, EndOfMain
<1>9. QED  BY <1>3, <1>4, <1>5, <1>6, <1>7, <1>8

(* The workers have ended: nothing is handled any more.                      *)
LEMMA NothingHandled ==
  ASSUME IInv, main \in {"events", "clients"}
  PROVE  /\ \A w \in Workers : worker[w].pc = "ended" /\ worker[w].batch = {}
         /\ \A w \in Workers : worker[w].obj = None /\ worker[w].del = None
         /\ \A w \in Workers : Busy(w) = {}
<1>1. /\ \A w \in Workers : worker[w].pc = "ended" /\ worker[w].batch = {}
      /\ \A w \in Workers : worker[w].obj = None /\ worker[w].del = None
  BY DEF IInv, EndOfMain, Ended, At, Stages, Stage, Rest
<1>2. QED  BY <1>1 DEF Busy

(* server_del_all_events frees what is entered, once.                        *)
LEMMA DelAllEventsStep ==
  ASSUME IInv, server_del_all_events
  PROVE  IInv'
<1> USE DEF IInv
<1> DEFINE entered == {event_ht[k] : k \in Keys} \ {None}
           others  == {f \in Fds : client_ht[f] # None /\ client_ht[f] \notin entered}
<1>1. /\ main = "events" /\ main' = "clients"
      /\ UNCHANGED <<fd, event_ht, worker, running, shutdown, ub, late, lostEvents>>
      /\ twice' = (twice \/ \E o \in entered : state[o] = "freed")
      /\ state' = [o \in Objects |-> IF o \in entered THEN "freed" ELSE state[o]]
      /\ armed' = armed \ entered
  BY DEF server_del_all_events, MainGoes
<1>2. PICK kept \in SUBSET others :
        /\ client_ht' = [f \in Fds |-> IF f \in kept THEN client_ht[f] ELSE None]
        /\ lostClients' = lostClients \cup {client_ht[f] : f \in others \ kept}
  BY DEF server_del_all_events
<1>3. /\ \A w \in Workers : worker[w].pc = "ended" /\ worker[w].batch = {}
      /\ \A w \in Workers : worker[w].obj = None /\ worker[w].del = None
      /\ \A w \in Workers : Busy(w) = {} /\ Busy(w)' = {}
  <2>1. \A w \in Workers : Busy(w)' = Busy(w)  BY <1>1 DEF Busy
  <2>2. QED  BY <2>1, <1>1, NothingHandled
<1>4. /\ \A o \in entered : o \in Objects /\ \E k \in Keys : event_ht[k] = o /\ o # None
      /\ \A k \in Keys : event_ht[k] # None => event_ht[k] \in entered
  BY DEF Types
<1>5. \A o \in Objects : state'[o] = IF o \in entered THEN "freed" ELSE state[o]
  BY <1>1
<1>6. /\ client_ht' \in [Fds -> Clients \cup {None}] /\ lostClients' \subseteq Clients
      /\ \A f \in Fds : client_ht'[f] # None =>
           client_ht'[f] = client_ht[f] /\ client_ht[f] \notin entered
      /\ \A c \in Clients : Listed(c) /\ fd[c] \in Fds /\ c \notin entered => Listed(c)'
  <2>1. client_ht \in [Fds -> Clients \cup {None}] /\ lostClients \subseteq Clients /\ None \notin Clients
    BY DEF Types
  <2>2. \A f \in Fds : client_ht'[f] = IF f \in kept THEN client_ht[f] ELSE None
    BY <1>2
  <2>3. \A f \in kept : f \in Fds /\ client_ht[f] # None /\ client_ht[f] \notin entered
    OBVIOUS
  <2>4. ASSUME NEW c \in Clients, client_ht[fd[c]] = c, fd[c] \in Fds, c \notin entered
        PROVE  client_ht'[fd[c]] = c \/ c \in lostClients'
    <3>1. CASE fd[c] \in kept  BY <3>1, <2>2, <2>4
    <3>2. CASE fd[c] \notin kept
      <4>1. fd[c] \in others \ kept  BY <3>2, <2>4, <2>1
      <4>2. QED  BY <4>1, <1>2, <2>4
    <3>3. QED  BY <3>1, <3>2
  <2>5. lostClients' \subseteq Clients
    <3>1. \A f \in others : client_ht[f] \in Clients  BY <2>1
    <3>2. QED  BY <3>1, <2>1, <1>2
  <2>6. client_ht' \in [Fds -> Clients \cup {None}]  BY <1>2, <2>1
  <2>7. QED
    <3>1. \A f \in Fds : client_ht'[f] # None =>
            client_ht'[f] = client_ht[f] /\ client_ht[f] \notin entered
      BY <2>2, <2>3
    <3>2. \A c \in Clients : Listed(c) /\ fd[c] \in Fds /\ c \notin entered => Listed(c)'
      BY <2>4, <1>1, <1>2 DEF Listed
    <3>3. QED  BY <3>1, <3>2, <2>5, <2>6
<1> HIDE DEF entered, others
<1>7. Types'
  <2>1. state' \in [Objects -> {"new", "queued", "open", "freed"}]
    BY <1>1, <1>5 DEF Types
  <2>2. QED  BY <2>1, <1>1, <1>6 DEF Types
<1>8. Stages'
  BY <1>1, <1>3 DEF Stages, Stage, Rest, DeletesOwn, DeletesTimer, OpensClient, OpensTimer
<1>9. HandledIsOpen'  BY <1>1, <1>3, <1>5 DEF HandledIsOpen, Types
<1>10. NewIsPrivate' /\ OneWorkerPerEvent'
  BY <1>1, <1>3 DEF NewIsPrivate, OneWorkerPerEvent, Opening
<1>11. /\ \A o \in Objects : state'[o] = "open" => state[o] = "open" /\ o \notin entered
       /\ \A o \in Objects : state'[o] \in {"open", "freed"} <=> state[o] \in {"open", "freed"}
  <2>1. \A o \in entered : state[o] \in {"open", "freed"}  BY <1>4 DEF EntryKeys
  <2>2. QED  BY <2>1, <1>4, <1>5
<1>12. Descriptors'
  <2>1. state'[Listener] \in {"open", "freed"} /\ state'[EventFd] \in {"open", "freed"}
    BY <1>5 DEF Descriptors
  <2>2. QED  BY <2>1, <1>11, <1>1 DEF Descriptors
<1>13. ClientTableExact'
  BY <1>1, <1>5, <1>6 DEF ClientTableExact, Types
<1>14. ClientsListed'
  <2>1. \A c \in Clients : c \in armed' => Listed(c)'
    BY <1>1, <1>6 DEF ClientsListed, HandledIsOpen, Descriptors
  <2>2. QED  BY <2>1, <1>1, <1>3 DEF ClientsListed
<1>15. ClientsUnlisted'  BY <1>1, <1>3 DEF ClientsUnlisted, Closing
<1>16. OpenListed'
  BY <1>1, <1>3, <1>6, <1>11 DEF OpenListed, Closing, Descriptors
<1>17. EntryKeys'  BY <1>1, <1>11 DEF EntryKeys, Types
<1>18. HandledEntered'  BY <1>1, <1>3 DEF HandledEntered, Entered, EventLost
<1>19. OpenEntered'  BY <1>1, <1>3, <1>11 DEF OpenEntered, Entered, EventLost
<1>20. EnteredOpen'  BY <1>1 DEF EnteredOpen
<1>21. EndOfMain'
  <2>1. Ended'  BY <1>1, <1>3 DEF Ended, At
  <2>2. ASSUME ~late
        PROVE  ~twice' /\ \A o \in Objects : state'[o] = "open" =>
                            EventLost(o)' /\ (o \in Clients => Listed(o)')
    <3>1. \A o \in entered : state[o] = "open"
      BY <2>2, <1>1, <1>3, <1>4 DEF EnteredOpen
    <3>2. \A o \in Objects : state'[o] = "open" => EventLost(o)'
      <4>1. \A o \in Objects : state[o] = "open" => fd[o] \in Keys /\ Entered(o)
        BY <1>3 DEF OpenEntered, Opening, Descriptors
      <4>2. QED  BY <4>1, <1>1, <1>4, <1>11 DEF Entered, EventLost
    <3>3. \A c \in Clients : state'[c] = "open" => Listed(c)'
      BY <1>3, <1>6, <1>11 DEF OpenListed, Closing, Descriptors
    <3>4. QED  BY <3>1, <3>2, <3>3, <2>2, <1>1 DEF EndOfMain
  <2>3. QED  BY <2>1, <2>2, <1>1 DEF EndOfMain
<1>22. QED
  BY <1>7, <1>8, <1>9, <1>10, <1>12, <1>13, <1>14, <1>15, <1>16, <1>17, <1>18, <1>19, <1>20, <1>21

(* server_del_all_clients frees the clients its walk meets.                  *)
LEMMA DelAllClientsStep ==
  ASSUME IInv, server_del_all_clients
  PROVE  IInv'
<1> USE DEF IInv
<1> DEFINE entered == {client_ht[f] : f \in Fds} \ {None}
<1>1. /\ main = "clients" /\ main' = "done"
      /\ UNCHANGED <<fd, event_ht, worker, running, shutdown, ub, late, lostEvents>>
      /\ client_ht' = [f \in Fds |-> None]
  BY DEF server_del_all_clients, MainGoes
<1>2. PICK met \in SUBSET entered :
        /\ twice' = (twice \/ \E o \in met : state[o] = "freed")
        /\ state' = [o \in Objects |-> IF o \in met THEN "freed" ELSE state[o]]
        /\ armed' = armed \ met
        /\ lostClients' = lostClients \cup (entered \ met)
  BY DEF server_del_all_clients
<1>3. /\ \A w \in Workers : worker[w].pc = "ended" /\ worker[w].batch = {}
      /\ \A w \in Workers : worker[w].obj = None /\ worker[w].del = None
      /\ \A w \in Workers : Busy(w) = {} /\ Busy(w)' = {}
  <2>1. \A w \in Workers : Busy(w)' = Busy(w)  BY <1>1 DEF Busy
  <2>2. QED  BY <2>1, <1>1, NothingHandled
<1>4. /\ \A o \in entered : o \in Clients /\ state[o] = "open"
      /\ \A f \in Fds : client_ht[f] # None => client_ht[f] \in entered
  BY DEF Types, ClientTableExact
<1>5. /\ \A o \in Objects : state'[o] = IF o \in met THEN "freed" ELSE state[o]
      /\ \A o \in met : o \in Clients /\ state[o] = "open"
      /\ lostClients' \subseteq Clients
  BY <1>2, <1>4 DEF Types
<1>6. \A c \in Clients : Listed(c) /\ fd[c] \in Fds /\ c \notin met => c \in lostClients'
  BY <1>2, <1>4 DEF Listed
<1> HIDE DEF entered
<1>7. twice' = twice  BY <1>2, <1>5 DEF Types
<1>8. Types'
  <2>1. state' \in [Objects -> {"new", "queued", "open", "freed"}]
    BY <1>2 DEF Types
  <2>2. QED  BY <2>1, <1>1, <1>2, <1>5, <1>7 DEF Types
<1>9. Stages'
  BY <1>1, <1>3 DEF Stages, Stage, Rest, DeletesOwn, DeletesTimer, OpensClient, OpensTimer
<1>10. HandledIsOpen'  BY <1>1, <1>2, <1>3, <1>5 DEF HandledIsOpen, Types
<1>11. NewIsPrivate' /\ OneWorkerPerEvent'
  BY <1>1, <1>3 DEF NewIsPrivate, OneWorkerPerEvent, Opening
<1>12. /\ \A o \in Objects : state'[o] = "open" => state[o] = "open" /\ o \notin met
       /\ \A o \in Objects : state'[o] \in {"open", "freed"} <=> state[o] \in {"open", "freed"}
  BY <1>5
<1>13. Descriptors'
  <2>1. state'[Listener] \in {"open", "freed"} /\ state'[EventFd] \in {"open", "freed"}
    BY <1>12 DEF Descriptors
  <2>2. QED  BY <2>1, <1>12, <1>1 DEF Descriptors
<1>14. ClientTableExact'  BY <1>1 DEF ClientTableExact
<1>15. \A c \in Clients : state'[c] = "open" => Listed(c)'
  <2>1. \A c \in Clients : state[c] = "open" => Listed(c) /\ fd[c] \in Fds
    BY <1>3 DEF OpenListed, Closing, Descriptors
  <2>2. QED  BY <2>1, <1>6, <1>12 DEF Listed
<1>16. ClientsListed'
  <2>1. \A c \in Clients : c \in armed' => Listed(c)'
    BY <1>2, <1>15, <1>5 DEF HandledIsOpen
  <2>2. QED  BY <2>1, <1>1, <1>3 DEF ClientsListed
<1>17. ClientsUnlisted'  BY <1>1, <1>3 DEF ClientsUnlisted, Closing
<1>18. OpenListed'  BY <1>15 DEF OpenListed
<1>19. EntryKeys'  BY <1>1, <1>12 DEF EntryKeys, Types
<1>20. HandledEntered'  BY <1>1, <1>2, <1>3 DEF HandledEntered, Entered, EventLost
<1>21. OpenEntered'  BY <1>1, <1>3, <1>12 DEF OpenEntered, Entered, EventLost
<1>22. EnteredOpen'  BY <1>1 DEF EnteredOpen
<1>23. EndOfMain'
  BY <1>1, <1>3, <1>7, <1>12, <1>15 DEF EndOfMain, Ended, At, EventLost
<1>24. QED
  BY <1>8, <1>9, <1>10, <1>11, <1>13, <1>14, <1>16, <1>17, <1>18, <1>19, <1>20, <1>21, <1>22, <1>23

(* The tables of server_init.                                               *)
LEMMA InitIInv == Init => IInv
<1> SUFFICES ASSUME Init PROVE IInv  OBVIOUS
<1>1. \A w \in Workers : worker[w] = Idle  BY DEF Init
<1>2. Idle \in WorkerType  BY DEF Idle, WorkerType, Pcs, Rest
<1>3. Types  BY <1>1, <1>2 DEF Init, Types
<1>4. /\ \A w \in Workers : worker[w].pc = "batch" /\ worker[w].batch = {}
      /\ \A w \in Workers : worker[w].obj = None /\ worker[w].del = None
  BY <1>1 DEF Idle
<1>5. \A w \in Workers : Busy(w) = {}  BY <1>4 DEF Busy
<1>6. Stages /\ HandledIsOpen /\ NewIsPrivate
  BY <1>4, <1>5 DEF Init, Stages, Stage, HandledIsOpen, NewIsPrivate, Rest, Opening,
                    DeletesOwn, DeletesTimer, OpensClient, OpensTimer
<1>7. Descriptors  BY DEF Init, Descriptors
<1>8. OneWorkerPerEvent /\ ClientTableExact /\ ClientsListed /\ ClientsUnlisted /\ OpenListed
  BY <1>4, <1>5 DEF Init, OneWorkerPerEvent, ClientTableExact, ClientsListed, ClientsUnlisted,
                    OpenListed, Closing
<1>9. EntryKeys /\ HandledEntered /\ OpenEntered /\ EnteredOpen /\ EndOfMain
  BY <1>4, <1>5 DEF Init, EntryKeys, HandledEntered, OpenEntered, EnteredOpen, EndOfMain,
                    Entered, EventLost
<1>10. QED  BY <1>3, <1>6, <1>7, <1>8, <1>9 DEF IInv

(* Taking a report: a client's data, a timer, the eventfd.                   *)
LEMMA DispatchReadStep ==
  ASSUME IInv, ~ub, NEW w \in Workers, DispatchRead(w)
  PROVE  IInv'
<1>1. PICK r \in worker[w].batch :
        \/ r.obj \in Clients /\ Handles(w, r, "read")
        \/ r.obj \in Timers /\ Handles(w, r, "del")
        \/ At(w, "batch") /\ worker' = [worker EXCEPT ![w].batch = @ \ {r}]
  BY DEF DispatchRead
<1>2. UNCHANGED <<state, fd, tables, armed, process, history>>
  BY DEF DispatchRead
<1>3. CASE r.obj \in Clients /\ Handles(w, r, "read")
  BY <1>2, <1>3, HandlesStep
<1>4. CASE r.obj \in Timers /\ Handles(w, r, "del")
  BY <1>2, <1>4, HandlesStep
<1>5. CASE At(w, "batch") /\ worker' = [worker EXCEPT ![w].batch = @ \ {r}]
  BY <1>2, <1>5, EventFdStep
<1>6. QED  BY <1>1, <1>3, <1>4, <1>5

(* A client that hung up: its event is going to be deleted.                 *)
LEMMA DispatchHangupStep ==
  ASSUME IInv, ~ub, NEW w \in Workers, DispatchHangup(w)
  PROVE  IInv'
<1>1. PICK r \in worker[w].batch : r.ev = "hup" /\ Handles(w, r, "del")
  BY DEF DispatchHangup
<1>2. r.obj # EventFd
  BY <1>1 DEF IInv, Stages, Stage
<1>3. QED  BY <1>1, <1>2, HandlesStep DEF DispatchHangup

(* Accepting a connection, or failing to.                                    *)
LEMMA AcceptStep ==
  ASSUME IInv, ~ub, NEW w \in Workers, Accept(w)
  PROVE  IInv'
<1>1. PICK r \in worker[w].batch :
        /\ r.obj = Listener /\ At(w, "batch")
        /\ IF Free = {}
           THEN Handles(w, r, "del") /\ UNCHANGED <<state, fd>>
           ELSE \E c \in Clients, f \in Free :
                  /\ state[c] = "queued"
                  /\ state' = [state EXCEPT ![c] = "open"]
                  /\ fd' = [fd EXCEPT ![c] = f]
                  /\ worker' = [worker EXCEPT ![w] = [@ EXCEPT !.batch = worker[w].batch \ {r},
                                                               !.obj = Listener, !.new = c,
                                                               !.pc = "handshake"]]
        /\ UNCHANGED <<tables, armed, process, history>>
  BY DEF Accept
<1>2. CASE Free = {}
  <2>1. Handles(w, r, "del") /\ UNCHANGED <<state, fd, tables, armed, process, history>>
    BY <1>1, <1>2
  <2>2. QED  BY <1>1, <2>1, HandlesStep
<1>3. CASE Free # {}
  <2>1. PICK c \in Clients, f \in Free :
          /\ state[c] = "queued"
          /\ state' = [state EXCEPT ![c] = "open"]
          /\ fd' = [fd EXCEPT ![c] = f]
          /\ worker' = [worker EXCEPT ![w] = [@ EXCEPT !.batch = worker[w].batch \ {r},
                                                       !.obj = Listener, !.new = c,
                                                       !.pc = "handshake"]]
    BY <1>1, <1>3
  <2>2. QED  BY <1>1, <2>1, AcceptClientStep
<1>4. QED  BY <1>2, <1>3

(* Giving up what could not be registered.                                   *)
LEMMA UndoStep ==
  ASSUME IInv, ~ub, NEW w \in Workers, Undone(w)
  PROVE  IInv'
<1>1. worker[w].pc \in {"undo", "undone"} /\ worker[w].new \in Clients \cup Timers
  BY NewIsObject DEF Undone, At, Opening
<1>2. QED  BY <1>1, UndoneStep DEF Undone, At

(* The end of a handler that keeps the event.                                *)
LEMMA AcceptedStep ==
  ASSUME IInv, ~ub, NEW w \in Workers, Accepted(w)
  PROVE  IInv'
<1>1. worker[w].pc = "accepted" /\ worker[w].obj = Listener
  BY DEF Accepted, At, IInv, Stages, Stage
<1>2. QED  BY <1>1, RearmStep DEF Accepted

LEMMA ReadClientStep ==
  ASSUME IInv, ~ub, NEW w \in Workers, ReadClient(w)
  PROVE  IInv'
<1>1. worker[w].pc = "read" /\ worker[w].obj \in Clients
  BY DEF ReadClient, At, IInv, Stages, Stage
<1>2. CASE armed' = armed \cup {worker[w].obj} /\ Finish(w)
  BY <1>1, <1>2, RearmStep DEF ReadClient
<1>3. CASE /\ worker' = [worker EXCEPT ![w] = [@ EXCEPT !.pc = "del", !.del = worker[w].obj]]
           /\ UNCHANGED armed
  BY <1>3, ReadClosesStep DEF ReadClient
<1>4. QED  BY <1>2, <1>3 DEF ReadClient

(* Every step keeps the invariant.                                           *)
LEMMA NextIInv == IInv /\ [Next]_vars => IInv'
<1> SUFFICES ASSUME IInv, [Next]_vars PROVE IInv'  OBVIOUS
<1>1. ASSUME NEW c \in Clients, Connect(c) PROVE IInv'
  BY <1>1, ConnectStep
<1>2. ASSUME NEW w \in Workers, WorkerStep(w) PROVE IInv'
  <2> ~ub  BY <1>2 DEF WorkerStep
  <2>1. CASE Loop(w)  BY <2>1, LoopStep
  <2>2. CASE EpollWait(w)  BY <2>2, EpollWaitStep
  <2>3. CASE DispatchRead(w)  BY <2>3, DispatchReadStep
  <2>4. CASE DispatchHangup(w)  BY <2>4, DispatchHangupStep
  <2>5. CASE Accept(w)  BY <2>5, AcceptStep
  <2>6. CASE InsertClient(w)  BY <2>6, InsertClientStep
  <2>7. CASE server_new_event(w)  BY <2>7, NewEventEnteredStep, NewEventRefusedStep
  <2>8. CASE UndoClient(w)  BY <2>8, UndoClientStep
  <2>9. CASE Undone(w)  BY <2>9, UndoStep
  <2>10. CASE Accepted(w)  BY <2>10, AcceptedStep
  <2>11. CASE DelEvent(w)  BY <2>11, DelEventStep
  <2>12. CASE CloseFd(w)  BY <2>12, CloseFdStep
  <2>13. CASE EraseEvent(w)  BY <2>13, EraseEventStep
  <2>14. QED
    BY <1>2, <2>1, <2>2, <2>3, <2>4, <2>5, <2>6, <2>7, <2>8, <2>9, <2>10, <2>11, <2>12,
       <2>13 DEF WorkerStep
<1>3. ASSUME NEW w \in Workers, PeerStep(w) PROVE IInv'
  <2> ~ub  BY <1>3 DEF PeerStep
  <2>1. CASE CallbacksDone(w)  BY <2>1, CallbacksDoneStep
  <2>2. CASE Handshake(w)  BY <2>2, HandshakeStep
  <2>3. CASE ReadClient(w)  BY <2>3, ReadClientStep
  <2>4. CASE AddTimer(w)  BY <2>4, AddTimerStep, AddTimerFailsStep
  <2>5. CASE CancelTimer(w)  BY <2>5, CancelTimerStep
  <2>6. QED  BY <1>3, <2>1, <2>2, <2>3, <2>4, <2>5 DEF PeerStep
<1>4. CASE Started \/ server_handle_signal \/ SetShutdown \/ WriteEventFd \/ Join
  BY <1>4, MainStep
<1>5. CASE server_del_all_events  BY <1>5, DelAllEventsStep
<1>6. CASE server_del_all_clients  BY <1>6, DelAllClientsStep
<1>7. CASE UNCHANGED vars
  <2>1. /\ UNCHANGED <<state, fd, event_ht, client_ht, armed, worker, main, ub, late, twice>>
        /\ UNCHANGED <<running, shutdown, lostEvents, lostClients>>
    BY <1>7 DEF vars, tables, process, history, lost
  <2>2. Types' /\ Stages' /\ HandledIsOpen' /\ Descriptors'
    BY <2>1 DEF IInv, Types, Stages, Stage, HandledIsOpen, Descriptors,
                DeletesOwn, DeletesTimer, OpensClient, OpensTimer
  <2>3. NewIsPrivate' /\ OneWorkerPerEvent' /\ HandledEntered'
    BY <2>1 DEF IInv, NewIsPrivate, OneWorkerPerEvent, HandledEntered, Busy, Entered, EventLost
  <2>4. ClientTableExact' /\ ClientsListed' /\ ClientsUnlisted' /\ OpenListed'
    BY <2>1 DEF IInv, ClientTableExact, ClientsListed, ClientsUnlisted, OpenListed, Closing, Listed
  <2>5. EntryKeys' /\ OpenEntered' /\ EnteredOpen' /\ EndOfMain'
    BY <2>1 DEF IInv, EntryKeys, OpenEntered, EnteredOpen, EndOfMain, Ended, At, Entered,
                EventLost, Listed
  <2>6. QED  BY <2>2, <2>3, <2>4, <2>5 DEF IInv
<1>8. QED
  BY <1>1, <1>2, <1>3, <1>4, <1>5, <1>6, <1>7 DEF Next, Cleanup

(* The inductive invariant holds in every reachable state.                   *)
LEMMA InvariantHolds == Spec => []IInv
BY InitIInv, NextIInv, PTL DEF Spec

(* Types, and an open object has a descriptor.                               *)
THEOREM TypeCorrect == Spec => []TypeOK
<1>1. IInv => TypeOK
  <2> SUFFICES ASSUME IInv PROVE TypeOK  OBVIOUS
  <2>1. \A o \in Objects : state[o] = "open" => fd[o] \in Keys
    BY DEF IInv, Descriptors
  <2>2. \A w \in Workers : worker[w] \in WorkerType  BY DEF IInv, Types
  <2>3. QED  BY <2>1, <2>2 DEF IInv, Types, TypeOK, WorkerType
<1>2. QED  BY <1>1, InvariantHolds, PTL

(* However many workers wait on epoll, an event is handled or deleted by one *)
(* of them at a time and is not reported meanwhile (EPOLLONESHOT,            *)
(* server_event_rearm); but for a timer that another object's handler or     *)
(* callback has cancelled although it was reported.                          *)
THEOREM OneWorkerPerEventHolds == Spec => []OneWorkerPerEvent
<1>1. IInv => OneWorkerPerEvent  BY DEF IInv
<1>2. QED  BY <1>1, InvariantHolds, PTL

(* client_ht names live clients under their own descriptors, however many    *)
(* workers close and accept at the same time (server_free_client).           *)
THEOREM ClientTableExactHolds == Spec => []ClientTableExact
<1>1. IInv => ClientTableExact  BY DEF IInv
<1>2. QED  BY <1>1, InvariantHolds, PTL

(* A live client is in client_ht and in event_ht, but for the entries that   *)
(* deletions of other keys have taken along: no deletion by descriptor hits  *)
(* the wrong client otherwise (server_del_event, server_new_event).          *)
THEOREM LiveIsEnteredHolds == Spec => []LiveIsEntered
<1>1. IInv => LiveIsEntered
  <2> SUFFICES ASSUME IInv, NEW c \in Clients,
                      c \in armed \/ \E w \in Workers : At(w, "read") /\ worker[w].obj = c
               PROVE  Listed(c) /\ Entered(c)
    BY DEF LiveIsEntered, Listed, Entered
  <2>1. CASE c \in armed
    BY <2>1 DEF IInv, ClientsListed, HandledEntered
  <2>2. CASE \E w \in Workers : At(w, "read") /\ worker[w].obj = c
    <3>1. PICK w \in Workers : worker[w].pc = "read" /\ worker[w].obj = c
      BY <2>2 DEF At
    <3>2. c \in Busy(w)  BY <3>1, BusyMember
    <3>3. QED  BY <3>1, <3>2 DEF IInv, ClientsListed, HandledEntered, Closing
  <2>3. QED  BY <2>1, <2>2
<1>2. QED  BY <1>1, InvariantHolds, PTL

(* server_cleanup frees everything that was opened, once, unless an event    *)
(* was deleted outside of running; but for what its table has lost, a client *)
(* only if both tables have.                                                 *)
THEOREM CleanupFreesOnceHolds == Spec => []CleanupFreesOnce
<1>1. IInv => CleanupFreesOnce
  <2> SUFFICES ASSUME IInv, main = "done", ~late PROVE CleanupFreesOnce  BY DEF CleanupFreesOnce
  <2>1. \A c \in Clients : Listed(c) /\ state[c] = "open" => c \in lostClients
    BY DEF IInv, EndOfMain, Listed, Descriptors
  <2>2. QED  BY <2>1 DEF IInv, EndOfMain, CleanupFreesOnce
<1>2. QED  BY <1>1, InvariantHolds, PTL
=============================================================================
