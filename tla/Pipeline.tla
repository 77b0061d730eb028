------------------------------ MODULE Pipeline ------------------------------
(***************************************************************************)
(* The asynchronous database pipeline of one event worker:                  *)
(*   server_eworker.c     the worker's loop (poll, results, epoll events),  *)
(*   chat/db_pipeline.c   the chain being built (db->ctx), the ring of      *)
(*                        queued chains (db->queue), db_process_results,    *)
(*   server_events.c      what an event of a client does to the pipeline.   *)
(*                                                                          *)
(* Every query is followed by its own PQpipelineSync, so the connection     *)
(* answers with the stream  R1 S1 R2 S2 ...  (result, sync).  Commands are  *)
(* numbered by the order in which they are sent: cmds[i] is the i-th        *)
(* dbcmd_ctx_t, Ri its result.  A chain is a run of consecutive commands.   *)
(*                                                                          *)
(* libpq and PostgreSQL are external and modelled by what db_pipeline.c     *)
(* relies on: PQgetResult parses what is already buffered, reads all of the *)
(* socket when it needs more, blocks while nothing has arrived, returns     *)
(* NULL after the result of each query and when nothing is outstanding; the *)
(* backend answers in order and flushes Ri and Si together.                 *)
(***************************************************************************)
EXTENDS Integers, Sequences

CONSTANTS Clients,      \* the client_t a worker may serve
          NoClient,     \* the NULL client pointer
          Size,         \* DB_PIPELINE_QUEUE_SIZE: slots of the ring
          MaxQueries,   \* bound: queries sent in one behaviour
          Coalesce      \* may two answers be in the socket at the same time?

ASSUME SizeAssumption == Size \in Nat \ {0}
ASSUME MaxQueriesAssumption == MaxQueries \in Nat
ASSUME NoClientAssumption == NoClient \notin Clients
ASSUME CoalesceAssumption == Coalesce \in BOOLEAN

VARIABLES
  q,         \* db->queue.begin[]: a copy of the head of each queued chain
  rd, wr,    \* db->queue.read, db->queue.write (indices)
  count,     \* db->queue.count
  cur,       \* number of commands of the chain db->ctx.head .. tail
  ctxClient, \* db->ctx.client
  cmds,      \* every dbcmd_ctx_t sent so far
  nres,      \* results PQgetResult has returned
  nsync,     \* PGRES_PIPELINE_SYNCs PQgetResult has returned
  arrived,   \* answers (Ri Si) that reached the socket
  buffered,  \* answers that libpq has read from the socket
  lq,        \* libpq's asyncStatus: "idle", "busy" or "pidle"
  pc,        \* where the worker is
  run,       \* the dequeued chain: [next, last]
  ev,        \* the client whose event is being processed
  served,    \* clients whose events of this epoll_wait are processed
  conn,      \* each client: "none", "open" or "freed"
  lost       \* history: the ring has dropped or overwritten a chain

ring  == <<q, rd, wr, count>>
libpq == <<nres, nsync, arrived, buffered, lq>>
vars  == <<q, rd, wr, count, cur, ctxClient, cmds, nres, nsync, arrived,
           buffered, lq, pc, run, ev, served, conn, lost>>

Slots   == 0 .. Size - 1
Pointer == Clients \cup {NoClient}

(* dbcmd_ctx_t: the client to answer and whether it has an exec callback.  *)
Cmd == [client : Pointer, exec : BOOLEAN]

(* A slot of the ring: head of the chain, its length, the number of its     *)
(* commands whose ret is no longer DB_ASYNC_BUSY.                           *)
Slot == [exec : BOOLEAN, client : Pointer, first : Nat, len : Nat, done : Nat]

(* A zeroed slot (calloc, memset).                                          *)
EmptySlot == [exec |-> FALSE, client |-> NoClient,
              first |-> 0, len |-> 0, done |-> 0]

PCs == {"poll", "results", "exec", "callback", "wait", "batch", "event",
        "close", "free"}

(* server_eworker_init: an open connection with nothing outstanding.        *)
Init ==
  /\ q = [s \in Slots |-> EmptySlot]
  /\ rd = 0 /\ wr = 0 /\ count = 0
  /\ cur = 0 /\ ctxClient = NoClient
  /\ cmds = <<>>
  /\ nres = 0 /\ nsync = 0 /\ arrived = 0 /\ buffered = 0 /\ lq = "idle"
  /\ pc = "poll"
  /\ run = [next |-> 1, last |-> 0]
  /\ ev = NoClient /\ served = {}
  /\ conn = [c \in Clients |-> "none"]
  /\ lost = FALSE

-----------------------------------------------------------------------------
(* The ring: db_pipeline_enqueue, db_pipeline_peek, db_pipeline_dequeue     *)

(* Mutant: the cursor may point one past the last slot.                     *)
AdvancePastEnd(p) == IF p >= Size THEN 0 ELSE p + 1

(* Both cursors move as  if (p++ >= end) p = begin.                         *)
Advance(p) == IF p >= Size - 1 THEN 0 ELSE p + 1

(* Mutant: the tail of the chain is copied instead of its head.             *)
CopiesTail ==
  [exec |-> cmds[Len(cmds)].exec, client |-> cmds[Len(cmds)].client,
   first |-> Len(cmds), len |-> cur, done |-> 0]

(* The chain under construction, as it is copied into the ring.             *)
CurrentChain ==
  LET first == Len(cmds) - cur + 1 IN
  [exec |-> cmds[first].exec, client |-> cmds[first].client,
   first |-> first, len |-> cur, done |-> 0]

(* Mutant: the ring is taken for full while one slot is free.               *)
EnqueueKeepsOneFree(chain) ==
  \/ /\ q[Advance(wr)].client # NoClient
     /\ lost' = TRUE
     /\ UNCHANGED ring
  \/ /\ q[Advance(wr)].client = NoClient
     /\ lost' = (lost \/ q[wr].exec)
     /\ q' = [q EXCEPT ![wr] = chain]
     /\ wr' = Advance(wr)
     /\ count' = count + 1
     /\ UNCHANGED rd

(* A slot is taken for occupied when its client is set; otherwise it is     *)
(* overwritten, whatever it holds.                                          *)
db_pipeline_enqueue(chain) ==
  \/ /\ q[wr].client # NoClient
     /\ lost' = TRUE
     /\ UNCHANGED ring
  \/ /\ q[wr].client = NoClient
     /\ lost' = (lost \/ q[wr].exec)
     /\ q' = [q EXCEPT ![wr] = chain]
     /\ wr' = Advance(wr)
     /\ count' = count + 1
     /\ UNCHANGED rd

(* Mutant: the current chain is not reset.                                  *)
CurrentNotReset ==
  \/ /\ cur = 0
     /\ UNCHANGED <<ring, cur, ctxClient, lost>>
  \/ /\ cur > 0
     /\ db_pipeline_enqueue(CurrentChain)
     /\ ctxClient' = NoClient
     /\ UNCHANGED cur

(* With no current chain nothing happens, and db->ctx.client stays as it is. *)
db_pipeline_current_done ==
  \/ /\ cur = 0
     /\ UNCHANGED <<ring, cur, ctxClient, lost>>
  \/ /\ cur > 0
     /\ db_pipeline_enqueue(CurrentChain)
     /\ cur' = 0
     /\ ctxClient' = NoClient

-----------------------------------------------------------------------------
(* Sending a query                                                          *)

(* PQsendQueryParams; PQpipelineSync; db_pipeline_enqueue_current: a        *)
(* command without a client of its own takes db->ctx.client.                *)
db_async_params(client, exec) ==
  /\ Len(cmds) < MaxQueries
  /\ cmds' = Append(cmds, [client |-> IF client = NoClient THEN ctxClient ELSE client,
                           exec |-> exec])
  /\ cur' = cur + 1
  /\ lq' = IF lq = "idle" THEN "busy" ELSE lq
  /\ UNCHANGED <<ring, ctxClient, nres, nsync, arrived, buffered, run, ev, served, conn, lost>>

(* Only a command that is not the head of its chain may lack a callback     *)
(* (COMMIT, the later steps of the file and group deletions).               *)
HandlerQuery ==
  /\ pc = "event"
  /\ \E exec \in BOOLEAN :
        /\ exec \/ cur > 0
        /\ db_async_params(NoClient, exec)
  /\ UNCHANGED pc

(* A callback may name the client of the command it belongs to.             *)
CallbackQuery ==
  /\ pc = "callback"
  /\ \E exec \in BOOLEAN, client \in {NoClient, cmds[run.next].client} :
        /\ exec \/ cur > 0
        /\ db_async_params(client, exec)
  /\ UNCHANGED pc

-----------------------------------------------------------------------------
(* server_eworker_async_run and db_process_results                          *)

Outstanding(r, s) == r < Len(cmds) \/ s < Len(cmds)

(* poll() with timeout 0: results are looked for only if the socket is      *)
(* readable, whatever libpq has already buffered.                           *)
PollDb ==
  /\ pc = "poll"
  /\ pc' = IF arrived > buffered THEN "results" ELSE "wait"
  /\ UNCHANGED <<ring, cur, ctxClient, cmds, libpq, run, ev, served, conn, lost>>

(* PQgetResult returns NULL and ends the loop.                              *)
NoMoreResults ==
  /\ pc = "results"
  /\ lq \in {"idle", "pidle"}
  /\ lq' = IF Outstanding(nres, nsync) THEN "busy" ELSE "idle"
  /\ pc' = "wait"
  /\ UNCHANGED <<ring, cur, ctxClient, cmds, nres, nsync, arrived, buffered,
                 run, ev, served, conn, lost>>

(* PQgetResult needs a result that is not buffered: it reads the socket,    *)
(* and waits for it while it is empty.                                      *)
ReadSocket ==
  /\ pc = "results"
  /\ lq = "busy"
  /\ nsync = nres /\ nres = buffered
  /\ buffered < arrived
  /\ buffered' = arrived
  /\ UNCHANGED <<ring, cur, ctxClient, cmds, nres, nsync, arrived, lq, pc,
                 run, ev, served, conn, lost>>

(* PGRES_PIPELINE_SYNC: skipped; the next query's result follows at once.   *)
SyncResult ==
  /\ pc = "results"
  /\ lq = "busy"
  /\ nsync < nres
  /\ nsync' = nsync + 1
  /\ lq' = IF Outstanding(nres, nsync') THEN "busy" ELSE "idle"
  /\ UNCHANGED <<ring, cur, ctxClient, cmds, nres, arrived, buffered, pc, run,
                 ev, served, conn, lost>>

(* Mutant: a chain runs when its first command has a result.                *)
QueryResultAtOnce ==
  /\ pc = "results"
  /\ lq = "busy"
  /\ nsync = nres /\ nres < buffered
  /\ nres' = nres + 1
  /\ lq' = "pidle"
  /\ LET head == q[rd] IN
     \/ /\ ~head.exec
        /\ UNCHANGED <<ring, pc, run>>
     \/ /\ head.exec
        /\ q' = [q EXCEPT ![rd] = EmptySlot]
        /\ rd' = Advance(rd)
        /\ count' = count - 1
        /\ run' = [next |-> head.first, last |-> head.first + head.len - 1]
        /\ pc' = "exec"
        /\ UNCHANGED wr
  /\ UNCHANGED <<cur, ctxClient, cmds, nsync, arrived, buffered, ev, served, conn, lost>>

(* A result meets the first busy command of the chain at the read cursor;   *)
(* the last one dequeues the chain and runs it.  With an empty slot there   *)
(* the result is thrown away ("Nothing in pipeline!").                      *)
QueryResult ==
  /\ pc = "results"
  /\ lq = "busy"
  /\ nsync = nres /\ nres < buffered
  /\ nres' = nres + 1
  /\ lq' = "pidle"
  /\ LET head == q[rd] IN
     \/ /\ ~head.exec
        /\ UNCHANGED <<ring, pc, run>>
     \/ /\ head.exec
        /\ head.done + 1 < head.len
        /\ q' = [q EXCEPT ![rd].done = @ + 1]
        /\ UNCHANGED <<rd, wr, count, pc, run>>
     \/ /\ head.exec
        /\ head.done + 1 >= head.len
        /\ q' = [q EXCEPT ![rd] = EmptySlot]
        /\ rd' = Advance(rd)
        /\ count' = count - 1
        /\ run' = [next |-> head.first, last |-> head.first + head.len - 1]
        /\ pc' = "exec"
        /\ UNCHANGED wr
  /\ UNCHANGED <<cur, ctxClient, cmds, nsync, arrived, buffered, ev, served, conn, lost>>

(* db_exec_cmd_chain walks the chain; commands without a callback are       *)
(* stepped over, and the chain is freed at its end.                         *)
ExecNext ==
  /\ pc = "exec"
  /\ \/ /\ run.next > run.last
        /\ pc' = "results"
        /\ UNCHANGED run
     \/ /\ run.next <= run.last
        /\ cmds[run.next].exec
        /\ pc' = "callback"
        /\ UNCHANGED run
     \/ /\ run.next <= run.last
        /\ ~cmds[run.next].exec
        /\ run' = [run EXCEPT !.next = @ + 1]
        /\ UNCHANGED pc
  /\ UNCHANGED <<ring, cur, ctxClient, cmds, libpq, ev, served, conn, lost>>

(* Mutant: the queries of a callback are left for a later chain.            *)
ExecLeavesChain ==
  /\ pc = "callback"
  /\ run' = [run EXCEPT !.next = @ + 1]
  /\ pc' = "exec"
  /\ UNCHANGED <<ring, cur, ctxClient, cmds, libpq, ev, served, conn, lost>>

(* db_exec_cmd: the callback has returned; its queries become a chain.      *)
ExecDone ==
  /\ pc = "callback"
  /\ db_pipeline_current_done
  /\ run' = [run EXCEPT !.next = @ + 1]
  /\ pc' = "exec"
  /\ UNCHANGED <<cmds, libpq, ev, served, conn>>

-----------------------------------------------------------------------------
(* eworker_wait_for_events, server_process_event                            *)

(* Mutant: epoll_wait blocks although one chain is waiting.                 *)
EpollBlocksWithOne ==
  /\ pc = "wait"
  /\ count > 1
  /\ pc' = "poll"
  /\ UNCHANGED <<ring, cur, ctxClient, cmds, libpq, run, ev, served, conn, lost>>

(* epoll_wait blocks while the ring is empty and polls otherwise.           *)
EpollTimeout ==
  /\ pc = "wait"
  /\ count # 0
  /\ pc' = "poll"
  /\ UNCHANGED <<ring, cur, ctxClient, cmds, libpq, run, ev, served, conn, lost>>

(* se_read_client: db->ctx.client becomes the client before it is read.     *)
ReadEvent(c) ==
  /\ pc \in {"wait", "batch"}
  /\ conn[c] = "open"
  /\ ctxClient' = c
  /\ ev' = c
  /\ c \notin served
  /\ served' = served \cup {c}
  /\ pc' = "event"
  /\ UNCHANGED <<ring, cur, cmds, libpq, run, conn, lost>>

(* EPOLLERR or EPOLLHUP: the client is closed without being read.           *)
HangupEvent(c) ==
  /\ pc \in {"wait", "batch"}
  /\ conn[c] = "open"
  /\ ev' = c
  /\ c \notin served
  /\ served' = served \cup {c}
  /\ pc' = "close"
  /\ UNCHANGED <<ring, cur, ctxClient, cmds, libpq, run, conn, lost>>

(* The handler returned SE_CLOSE or SE_ERROR: server_del_event.             *)
ReadFailed ==
  /\ pc = "event"
  /\ pc' = "close"
  /\ UNCHANGED <<ring, cur, ctxClient, cmds, libpq, run, ev, served, conn, lost>>

(* eworker_prep_event: the chain of the event is queued after it.           *)
EventDone ==
  /\ pc = "event"
  /\ db_pipeline_current_done
  /\ ev' = NoClient
  /\ pc' = "batch"
  /\ UNCHANGED <<cmds, libpq, run, served, conn>>

(* se_close_client: a logged-in client's friends are looked up first.       *)
DisconnectQuery ==
  /\ pc = "close"
  /\ db_async_params(NoClient, TRUE)
  /\ pc' = "free"

(* server_free_client, then the same db_pipeline_current_done.              *)
CloseDone ==
  /\ pc \in {"close", "free"}
  /\ conn' = [conn EXCEPT ![ev] = "freed"]
  /\ db_pipeline_current_done
  /\ ev' = NoClient
  /\ pc' = "batch"
  /\ UNCHANGED <<cmds, libpq, run, served>>

(* All the events of this epoll_wait are processed.                         *)
BatchDone ==
  /\ pc = "batch"
  /\ pc' = "poll"
  /\ served' = {}
  /\ UNCHANGED <<ring, cur, ctxClient, cmds, libpq, run, ev, conn, lost>>

-----------------------------------------------------------------------------
(* The environment                                                          *)

(* Some worker accepts a connection.                                        *)
Accept(c) ==
  /\ conn[c] = "none"
  /\ conn' = [conn EXCEPT ![c] = "open"]
  /\ UNCHANGED <<ring, cur, ctxClient, cmds, libpq, pc, run, ev, served, lost>>

(* Another worker processes the event that closes c.  EPOLLONESHOT keeps    *)
(* the client this worker is reading from being closed under it.            *)
OtherWorkerCloses(c) ==
  /\ conn[c] = "open"
  /\ ev # c
  /\ conn' = [conn EXCEPT ![c] = "freed"]
  /\ UNCHANGED <<ring, cur, ctxClient, cmds, libpq, pc, run, ev, served, lost>>

(* The backend answers the next query.                                      *)
Answer ==
  /\ arrived < Len(cmds)
  /\ Coalesce \/ buffered = arrived
  /\ arrived' = arrived + 1
  /\ UNCHANGED <<ring, cur, ctxClient, cmds, nres, nsync, buffered, lq, pc,
                 run, ev, served, conn, lost>>

(* The worker's own steps, which it takes without waiting for a client.     *)
WorkerStep ==
  \/ PollDb \/ NoMoreResults \/ ReadSocket \/ SyncResult \/ QueryResult
  \/ ExecNext \/ EpollTimeout \/ BatchDone

(* Where the worker runs a handler, a callback or the closing of a client,   *)
(* all of which use the client's blocking socket (SSL_accept, SSL_read,      *)
(* SSL_write, SSL_shutdown).                                                 *)
WithPeer == pc \in {"event", "callback", "close", "free"}

(* The ends of these; a peer that stays silent delays them for ever.         *)
PeerStep == ExecDone \/ EventDone \/ CloseDone

Next ==
  \/ WorkerStep \/ PeerStep
  \/ HandlerQuery \/ CallbackQuery \/ DisconnectQuery \/ ReadFailed
  \/ \E c \in Clients :
       ReadEvent(c) \/ HangupEvent(c) \/ Accept(c) \/ OtherWorkerCloses(c)
  \/ Answer

Spec == Init /\ [][Next]_vars

(* The worker's thread keeps running and the database keeps answering.      *)
(* Nothing is assumed of the clients: a handler, a callback or a closing    *)
(* that waits for one (PeerStep) need not end.                              *)
Fairness == WF_vars(WorkerStep) /\ WF_vars(Answer)

FairSpec == Spec /\ Fairness

-----------------------------------------------------------------------------
(* Properties                                                               *)

TypeOK ==
  /\ q \in [Slots -> Slot]
  /\ rd \in Slots /\ wr \in Slots
  /\ count \in Int
  /\ cmds \in Seq(Cmd)
  /\ cur \in 0 .. Len(cmds)
  /\ ctxClient \in Pointer
  /\ nres \in Nat /\ nsync \in Nat /\ arrived \in Nat /\ buffered \in Nat
  /\ lq \in {"idle", "busy", "pidle"}
  /\ pc \in PCs
  /\ run \in [next : Nat, last : Int]
  /\ ev \in Pointer
  /\ served \subseteq Clients
  /\ conn \in [Clients -> {"none", "open", "freed"}]
  /\ lost \in BOOLEAN

(* Distance of slot k from the read cursor.                                  *)
Off(k) == IF k >= rd THEN k - rd ELSE k - rd + Size

(* As long as no chain has been lost, the ring holds, from the read to the    *)
(* write cursor and around its end, the unanswered commands in the order in   *)
(* which their queries were sent, without a gap: the slot after a chain       *)
(* starts with the next command, the read cursor is at the next result's      *)
(* command, the write cursor just before the chain under construction, and    *)
(* every other slot is zero.                                                  *)
RingInSendOrder ==
  ~lost =>
    /\ count \in 0 .. Size
    /\ wr = IF rd + count < Size THEN rd + count ELSE rd + count - Size
    /\ \A k \in Slots :
         IF Off(k) < count
         THEN /\ q[k].exec
              /\ q[k].done < q[k].len
              /\ Off(k) > 0 => q[k].done = 0
         ELSE q[k] = EmptySlot
    /\ \A j, k \in Slots :
         (Off(k) < count /\ Off(k) = Off(j) + 1)
           => q[k].first = q[j].first + q[j].len
    /\ count > 0 => q[rd].first + q[rd].done = nres + 1
    /\ \A k \in Slots :
         Off(k) = count - 1 => q[k].first + q[k].len = Len(cmds) - cur + 1
    /\ count = 0 => nres = Len(cmds) - cur

(* As long as the ring has lost no chain, the command that db_process_results *)
(* hands the next result to is the command whose query produced it: results  *)
(* and callbacks never get out of step, across wrap-around, chains of several *)
(* queries and queries sent from within callbacks.                           *)
ResultMeetsItsCommand ==
  (pc = "results" /\ ~lost /\ nsync = nres /\ nres < buffered) =>
    /\ q[rd].exec
    /\ q[rd].first + q[rd].done = nres + 1

(* The test of queue.count in eworker_wait_for_events is sound: a worker that *)
(* has lost no chain blocks in epoll_wait only when every query it has sent,  *)
(* nested ones included, has been answered and its callback has run.          *)
BlocksOnlyWhenDrained ==
  (pc = "wait" /\ count = 0 /\ ~lost) => nres = Len(cmds)

(* The callbacks of a chain run when all of its commands have their results,  *)
(* not when the first one has (db_exec_cmd_chain in db_process_results).      *)
ChainRunsComplete ==
  (pc \in {"exec", "callback"} /\ ~lost) => run.last = nres

(* A chain is dropped or overwritten only when the ring already holds as many *)
(* chains as it has slots: the client pointer that db_pipeline_enqueue tests  *)
(* never makes it give up a slot too early.                                   *)
LossOnlyWhenFull ==
  [][(~lost /\ lost') => count = Size]_vars

(* The worker looks for events while a result is inside libpq and the socket  *)
(* is empty: poll() will not see it.                                          *)
ResultOverlooked == pc = "wait" /\ nres < buffered /\ buffered = arrived

(* Unless a silent peer keeps the worker in one of its handlers, callbacks or *)
(* closings for ever, a query that the ring keeps is eventually matched with  *)
(* a result, or its answer was read from the socket together with another one *)
(* and is overlooked: blocking in epoll_wait, polling and processing leave    *)
(* none behind (server_eworker_async_run, eworker_wait_for_events).           *)
HandledOrOverlooked ==
  []<>~WithPeer =>
    \A i \in 1 .. MaxQueries :
      (Len(cmds) >= i) ~> (nres >= i \/ lost \/ ResultOverlooked)

(* The chains from the read to the write cursor.                              *)
Queue == [i \in 1 .. count |->
            q[IF rd + i - 1 < Size THEN rd + i - 1 ELSE rd + i - 1 - Size].len]

(* Until a chain is lost, the ring, the counter, the copies of chain heads    *)
(* and libpq's one result at a time together are a queue of chains: results   *)
(* belong to the chain at its head, which runs when it has all of them, and   *)
(* the queries of a callback go to its end.                                   *)
Fifo == INSTANCE QueryFifo WITH
  building <- IF lost THEN 0 ELSE cur,
  queue    <- IF lost THEN <<>> ELSE Queue,
  got      <- IF lost \/ count = 0 THEN 0 ELSE q[rd].done,
  ran      <- IF lost THEN 0 ELSE run.last,
  broken   <- lost
ImplementsQueryFifo == Fifo!Spec

(* tests/dc_af_req.py: a request of a client that disconnects is processed    *)
(* without memory errors: no callback runs for a client that has been freed.  *)
CallbackClientAlive ==
  pc = "callback" => (cmds[run.next].client = NoClient
                      \/ conn[cmds[run.next].client] # "freed")
=============================================================================
