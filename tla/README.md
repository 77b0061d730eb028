# A TLA+ model of the chitychat server

chitychat is a chat server in C (`src/server`) with a browser client
(`src/client`). The server is a pool of event-worker threads around one epoll
instance; every worker has its own pipelined connection to PostgreSQL and
answers its clients from callbacks. This directory models the parts of the
server whose correctness depends on the order of events and checks them with
TLC on small instances. The safety of the database pipeline, the event
registry, sessions, groups, uploads, user status, the hash table and the
receive buffer is proved with TLAPS for instances of every size.

## Inventory

Paths are relative to `src/server/`.

| component | state | operations | what makes it correct |
|---|---|---|---|
| database pipeline and event worker (`src/chat/db_pipeline.c`, `src/server_eworker.c`) | chain under construction (`db->ctx`), ring of chains (`db->queue`), libpq's own state | send a query, end of handler or callback, process results, run a chain, wait | each result reaches the command that asked for it; a worker never blocks on an unanswered query; every query is answered |
| sessions and login (`chat/user_login.c`, `chat/user_session.c`) | `user_ht`, `session_ht`, `client->dbuser/session/state` | login, register, session login, logout by closing | whoever is logged in is found under the user id; what is found is alive |
| session timer (`server_timer.c`) | `session->timerfd`, a timerfd event per session | arm, cancel, expire | never runs for a session that is in use |
| client life cycle (`server_client.c`) | `client_ht`, `client_t` | accept, free | nothing refers to a freed client |
| event registry (`server_events.c`) | `event_ht`, epoll set | add, delete, rearm, dispatch | one event per descriptor; a closed one is gone |
| hash table (`server_ht.c`) | array of chains, count, size | init, insert, get, delete, resize | a map; load between 0.2 and 0.7 |
| groups, messages, invite codes (`chat/group.c`, `chat/db_group.c`, `sql/`) | tables Groups, GroupMembers, Messages, GroupCodes; what clients have been shown | create, join, join by code, write, delete message, code or group, list | no orphaned rows; members see what happens in their groups |
| uploads, stored files (`chat/user_upload.c`, `chat/upload_token.c`, `chat/user_file.c`, `chat/db_userfile.c`) | upload tokens, attachment counters, `UserFiles.ref_count`, files on disk | create token, post, finish, delete | a file exists exactly while it is referred to |
| user status (`chat/rtusm.c`) | `rtusm` of a client | connect, change, disconnect | pages that show a wrong status are about to be told |
| command dispatch (`chat/cmd.c`, `chat/ws_text_frame.c`) | table of commands | look up, test permission, call | a command needs its permission |
| HTTP, WebSocket (`server_http*.c`, `server_websocket.c`) | receive buffer and partial frame of a client | parse, upgrade, send | a frame split over reads is one frame |
| threads, signals, shutdown (`server_tm.c`, `server_signal.c`, `server.c`, `server_init.c`) | `server->running`, `tm->state`, the eventfd | start, signal, wake, join, clear | every worker ends, then everything is freed once |
| start-up, logging, cryptography, utilities; web client, bots | - | - | - |

How they interact. A worker takes an event from epoll; the handler parses it,
dispatches a command, and the command *sends queries and returns*. The queries
of one handler form a chain, which `db_pipeline_current_done` puts into the
worker's ring. When the results arrive the worker runs the callbacks of the
chain, which answer clients, change the shared tables (`user_ht`,
`session_ht`, `client_ht`, `event_ht`, upload tokens) and may send more
queries. Other workers do the same at the same time: they share the tables,
each behind its own mutex for one operation at a time, and the database. A
client is closed by whichever worker gets its event.

What is hard here: results carry no identity and are matched by position; a
client, a session or a token may be freed between a query and its callback;
two operations on a table, or two statements on the database, are not one;
timers race with reconnections; a bounded ring may overflow; a thread decides
from a counter whether it may sleep. `PROJECT.json` lists each hazard at its
line with the properties that address it.

Three things run through all of the modules. A deletion from a hash table may
take other keys along (`HashTable`, `LossyMap`); `Events`, `Sessions` and
`Presence` delete in this way, and history variables say whose entry was lost,
so that each property excepts those and no others. A peer may hold a worker for
ever in a handler or a callback, so no fairness is assumed of their ends. And
the use of freed memory is undefined behaviour: `ub` ends the behaviour, and
nothing is claimed after it.

## Modules

| module | models | composed with |
|---|---|---|
| `Pipeline` | one worker's loop, pipeline and clients | implements `QueryFifo` |
| `QueryFifo` | what handlers can rely on when they send queries: a queue of chains | - |
| `Events` | descriptors, `event_ht`, `client_ht`, epoll, several workers; start, signal, shutdown | - |
| `Receive` | what the server makes of the bytes of a connection: HTTP and WebSocket | - |
| `Sessions` | logins, sessions, timers over several workers | a worker's pipeline is a queue, as `QueryFifo` says |
| `Presence` | the status of users as pages show it | as `Sessions` |
| `HashTable` | `server_ht.c` | implements `LossyMap` |
| `LossyMap` | what the callers of `server_ht.h` can rely on | - |
| `Groups` | groups, messages, codes over several database connections | as `Sessions` |
| `Uploads` | upload tokens, attachments, profile pictures, shared files, crashes | as `Sessions`, with whole chains |
| `PipelineProofs`, `EventsProofs`, `ReceiveProofs`, `SessionsProofs`, `PresenceProofs`, `HashTableProofs`, `GroupsProofs`, `UploadsProofs` | theorems about the module in the name | extend it |
| `UploadsInv` | the inductive invariants of `Uploads` and the words they are stated in | extends `Uploads`; `UploadsProofs` extends it |
| `MC...` | instances, scripts and symmetry sets for TLC | extend their module |

Definitions have the names of the functions they stand for where there is one;
`PROJECT.json` maps every definition to its lines. Definitions introduced by
"Mutant:" are not part of the model; they are plausible mistakes in the code,
and each property is known to fail when one of them is put in place of the
definition that follows.

### Pipeline

`q`, `rd`, `wr`, `count` are `db->queue`; `cur` commands at the end of `cmds`
are the chain of `db->ctx`. Commands are numbered in the order of sending, so
a chain is an interval and "this result belongs to that command" is an
equation between numbers. A slot keeps the *copy* of the chain's head that the
code makes, and `q[wr].client # NoClient` is the code's test for a full ring.
`pc` is where the worker stands: `poll` (database socket), `results` (in
`db_process_results`), `exec` and `callback` (in `db_exec_cmd_chain`), `wait`
(in `epoll_wait`), `batch`, `event`, `close`, `free` (processing the events of
one `epoll_wait`). Handlers and callbacks send any number of queries, with and
without callback of their own; only the head of a chain always has one, as in
all callers. `lost` is history: the ring has dropped or overwritten a chain.

libpq is external and modelled from its use: every query is followed by
`PQpipelineSync`; `PQgetResult` returns the result, then NULL, then - at the
next call - the sync, without a NULL after it; it reads all of the socket when
it needs input. `Answer` puts an answer into the socket. With `Coalesce =
FALSE` it does so only when the previous one has been read.

`QueryFifo` has none of this: the queries of a handler form a chain, chains
queue up, results belong to the chain at the head, and the chain runs with its
last result. `ImplementsQueryFifo` maps the slots between the cursors to the
queue and the copied head's `done` to the results so far. Once a chain is lost
nothing is promised.

Handlers, callbacks and closings (`WithPeer`) use blocking sockets, so their
ends (`PeerStep`) are steps without fairness.

Left out: a failing `PQsendQueryParams`, a lost connection, and that strings of
a result may be freed before the callbacks of a long chain run.

### Events

An object is what an event belongs to: the listening socket, the eventfd, a
client or a timer. Objects are never reused; descriptors are, by the kernel, as
soon as they are closed (`Free`). `event_ht` and `client_ht` map descriptors to
objects; `armed` is what epoll may report, and a report disarms it
(`EPOLLONESHOT`), except for the eventfd. A worker takes a batch of reports
(`EpollWait`) and handles one at a time; `pc` is where in the handler it stands,
with a step wherever shared state is touched: accepting is `Accept`,
`Handshake`, `InsertClient`, `server_new_event`; deleting is `DelEvent`
(disarm, forget the client), `CloseFd` and `EraseEvent`. When a registration is
refused, the entry that is in the way is deleted, as in the code, and the
client or timer is freed. What a request does is left to the other modules,
except that a handler may open a timer (`AddTimer`), and a handler or a callback
delete the event of one (`CancelTimer`), as a login does with the timer of a
session and an upload with that of its token. Nothing in the code keeps a timer
from being cancelled while its event has been reported, to another worker or
for a later place of the same batch; what then uses the freed event sets `ub`.

The deletion of a key takes any other entries with it (`server_ght_del`), a
superset of what may share its bucket. `lostEvents` and `lostClients` are
history: whose entry went that way, or was in the way of a registration.

The main thread sets `running` after the workers have been started, and after a
signal clears it, sets the flag, writes the eventfd, joins the workers and
frees what `event_ht` and `client_ht` still name; the walk over `client_ht`
deletes the bucket it stands on and may miss others. `twice` records a second
free, `late` a deletion outside of `running`. `MCEventsListener` shows what a
refused registration does.

### Receive

A connection carries a script of messages. A byte is its position in that
stream, so a buffer shows exactly which bytes it holds, and "the frame was
handled whole" is an equation; a record in the socket and a message are known
by their last byte. The client cuts the stream into TLS records of
any sizes; `SSL_read` gives bytes of one record, and what the caller has no
room for stays in OpenSSL (`pend`). `ReadRequest`, `ReadBody` and `ReadFrames`
are the three ways through `se_read_client`; `server_ws_parse` handles one frame
per step, as its recursion does. Where the code computes a length from bytes
that have not arrived, any length of `Garbage` may come out (`TotalSizes`).

Two things do not keep the stream as it is. `parse_http` splits all of the
buffer at CR LF CR LF, the part of the body in it included: `BodyTaken` zeroes
a second one, and drops a part that begins with NUL, whose bytes the request
then waits for; `mangled` notes the request. And `server_ws_parse` gives a frame
that is cut off behind another one its room but not its place (`overrun`): the
next read goes over the frames before it, and they are parsed again
(`LostSizes`, `LostFrame`), on a connection that stays open.

Assumed of clients: an HTTP header is in one record, and the next request or
the first frame waits for the answer, as browsers do; behind the request for
the upgrade, and only there, come frames (`ScriptsAssumption`). Layout, URLs, header
lines and the content of payloads are left out.

### Presence

`page` is what the page of a connection shows of each user. `get_user` answers
at once from memory for users who are logged in and queries the database for
the others, whose rows have no status; a broadcast is a query for the users to
tell. Groups are joined and deleted by queries of the same pipelines, so who is
told depends on when the query of the broadcast runs; a page may know a user
before they share a group. Logging in is one step here. With one worker,
handlers and callbacks are atomic. Four cases in which nobody tells a page are
recorded: users who left by `EPIPE` (`silent`), users and pages whose entry in
`user_ht` was lost (`missed`), and pages that shared no group with the user when
a broadcast was handled (`untold`).

### Sessions

`client`, `session`, `timer` and `user_ht` are the structures of the same
names; `pending` is what a worker has sent and not yet answered. A callback is
split where it returns to shared state: looking the user up (`CheckUser`),
entering it (`SetLoggedIn`), cancelling the timer (`CancelTimer`); so is
closing a client (`ArmTimer`, `FreeClient`) and an expiring timer
(`TimerEvent`, `TimerExpires`). Touching a freed client, session or timer sets
`ub` and ends the behaviour. `missed` are users who logged in and are not found,
because the insertion of their entry was refused or another user's deletion
took it. A session may be lost to `session_ht` too, and a timer to `event_ht`: a
timer that cannot be found cannot be cancelled (`stray`) and expires under the
user (`StrayExpires`).

### HashTable and LossyMap

A bucket is the sequence of entries reachable from its slot. Every operation
holds the table's mutex and is one step, including the resize it may cause,
which moves entries one `ght_insert` at a time. A slot without an entry has key
0, as zeroed memory has; `count` is unsigned with modulus `CountMod`.
`LossyMap` is the abstract specification: return values are truthful, no value
changes, no key returns, insertion disturbs nothing, but a deletion may take
other keys along. `ImplementsLossyMap` maps a table to the keys that
`server_ght_get` finds.

### Groups

Four tables, a queue of queries per worker, an open transaction per worker,
and what each client has been shown. `Request` is a command of a client,
`Execute` the first query of a worker together with its callback. PostgreSQL is
external: READ COMMITTED, foreign keys that lock what they refer to, row locks
of an uncommitted deletion, a failed transaction that skips the rest, and
deadlock detection that fails either party. The seven statements that delete a
group are seven steps. Joining with a code is two, because the statement reads
the code before it locks it. Limits and offsets are left out, and attachments
are in `Uploads`.

### Uploads

`token` holds the upload tokens with `msg_state.current` and the hashes put
into the message so far; `row` is `UserFiles.ref_count`, `disk` the image
directory, `cached` the `pfp_hash` of the connected user, `pfp` the column.
`pipe` holds a worker's chains: the database executes their queries in order
(`db_async_...`), ahead of the callbacks (`do_...`, `..._result`), which run
when the chain has all its results. That distance is what makes counting
references delicate: a callback decides to write or unlink a file from a count
that was read while later queries may already have changed it. Counting the
attachments of a message takes no lock and is three steps (`SaveAttach`,
`CountAttach`, `TestAttach`). The trigger that deletes a row at 0, and the
foreign key of `Users.pfp` that prevents it, are part of the statements.
Using a token after it was freed sets `ub`,
and so does the callback of a changed picture when the WebSocket of the user was
closed since the POST, whose pointer it has kept (`OwnerGone`).

Deleting the group selects the attachments of all messages, in any order, and
deletes the messages in one transaction; the callback releases the files.

Faults: `Crash` ends the process anywhere; tokens, timers and queues are gone,
the database and the disk stay. A query that the old connection's backend still
executes after the crash is one that was executed just before. `DiskFails` is a
write or unlink whose error is logged and forgotten. Both note in `doubt` which
files the interrupted work was about: these may be left with a count too high,
with a row and no file, or with a file and no row, and nothing repairs them.

Left out: posts that are not images, and an attachment posted twice.

## Runs

| run | expect | what it shows |
|---|---|---|
| `pipeline` | pass | Ring of 2 slots, 4 queries: it wraps, fills and overflows. Cursors stay in the ring; until a chain is lost the ring holds the unanswered commands in order, every result meets its command, and the whole implements `QueryFifo`; a chain runs when complete; the worker blocks only when drained; chains are lost only when all slots are used; every query is handled unless a silent peer holds the worker or its answer is overlooked (below). |
| `pipeline_disconnect` | violation | A client closes while its query is outstanding; the callback gets the freed pointer. `include/chat/db_pipeline.h:8` names this as a potential issue; `tests/dc_af_req.py` expects it not to happen. |
| `events` | pass | Two workers, two clients, two timers and two descriptors: an event is with one worker at a time, but for timers that are cancelled after they were reported; `client_ht` names only live clients, under their own descriptors; a client that can be reported is entered in both tables unless its entry was lost; the cleanup frees everything the tables still have, and once. |
| `events_stop` | pass | Two workers, two clients: after a signal all workers end unless one waits for a silent peer. |
| `events_listener` | violation | Worker 1 closes a descriptor; worker 2 accepts a connection with that number before worker 1 has removed the event; the new event is refused, and `SE_ERROR` makes worker 2 delete the event of the listening socket. Nobody can connect any more. |
| `receive` | pass | Records smaller and larger than the page: messages are handled whole, in order and once; the buffer holds exactly what is unhandled; what is sent is handled. The exceptions are stated: bodies that `parse_http` changes or cuts, everything after an overrun, bytes that stay in OpenSSL. |
| `sessions` | pass | Two workers: a logged-in connection is found in `user_ht` unless its entry was refused or lost; `user_ht` keeps no freed client but for one that logged in again; no timer that can be found runs for a session in use. |
| `presence` | pass | One worker, a user who leaves and comes back while another watches, a group that is joined and deleted: the last broadcast on its way is true, and a page that shows a wrong status has the true one on its way. |
| `hash_table` | pass | Everything listed is found, once, in the right bucket, through growing and shrinking; the load stays below 0.7; the table implements `LossyMap`. |
| `groups` | pass | Two workers: whatever happens during a deletion, no row is left without its group, a deletion that has reached the group's row holds everything that refers to it, and only those entitled delete; a message has reached its members or its broadcast is queued and will find them, and a group those who join it. |
| `groups_one_worker` | pass | One worker: codes admit at most `max_uses`, and a deleted message leaves all views. |
| `uploads` | pass | One worker, one crash or disk error: `ref_count` never falls below the number of references; when all is answered, row, references and disk agree for every file that the fault did not interrupt. |

The pool has as many threads as there are CPUs by default. The runs with one
worker (`presence`, `groups_one_worker`, `uploads`) cover the configuration
`--thread-pool=1`; what fails with more is listed under "Observations".

### Bounds

- `Size = 2` (128 in the code) is the smallest ring in which read and write
  cursor differ, wrap and meet again; with `MaxQueries = 4` chains of several
  queries, nested queries and an overflow occur together. The theorems hold for
  every size and number.
- Events: two workers and two descriptors for two clients and two timers, so
  that a number is given out again while its old event is still entered, a timer
  is cancelled while it is reported, and descriptors run out; `MaxEvents = 2`
  (16 in the code) makes a worker hold one report while it handles another.
- Receive: a page of 10 bytes (4095 in the code), records of 1, 4, 7 and 13
  bytes, frames of 6 to 12 bytes, a body of 9: frames end before, at and behind
  the page, headers are cut off in every place, several frames share a read, and
  a body has a CR LF CR LF in the part that comes with the header, across its
  end, or a NUL in front. At
  most `MaxUnread = 2` records wait in the socket; a script has at most
  `MaxScript` messages.
- Presence: three connections for two users, so that one may leave and come
  back while the other watches, and a group that may be theirs from the
  beginning, be joined and be deleted; `MaxPipe = 2` queries of pages.
- `Keys = {1, 2, 4, 7, 13}` collide at 3 and 6 and 12 slots in different ways;
  five entries grow the table twice and deleting them shrinks it back to
  `MinSize = 3`. `CountMod = 65536` stands for 2^64; both are far from the
  counts.
- Sessions: two workers, two clients, two users, one session let a user log in,
  lose the connection and come back on the other, two log in at the same time
  as one user or as two, and one log in twice. `MaxPending = 1` command of each
  worker waits for the database.
- Groups: one group, message and code, two or three users. Ids are never used
  again, as with SERIAL columns; when the set is exhausted an insertion fails.
  A client's command waits while `MaxPipe` queries are queued: 1 with two
  workers, where the interleaving is between connections, and 2 with one, where
  it is in the queue; the queries of callbacks and transactions come on top.
- Uploads: two attachments for a message, two tokens, two hashes and two
  messages, so that a file is shared within a message, between messages and
  with a profile picture, and is released and stored again. A message or the
  group is deleted while fewer than `MaxPipe = 2` chains are queued; posts are
  bounded by the tokens. `MaxFaults = 1` crash or disk error.
- `CHECK_DEADLOCK FALSE` where behaviours end: when clients, queries or scripts
  are used up, after shutdown, and in `Sessions`, `Receive` and `Uploads` when
  memory was misused.

### Fairness

Two specifications have fairness. `Pipeline`: weak fairness of the worker's own
steps (`WorkerStep`), a thread in an endless loop, and of `Answer`, the database
answering what it was sent. Not of the ends of handlers, callbacks and closings
(`PeerStep`), which may wait for a peer for ever; `HandledOrOverlooked` has as a
premise that the worker leaves them again and again. Nothing is assumed of
clients, nor that handlers send queries. `Events`: weak fairness of each worker's steps, except
those that wait for a peer or that a handler may choose to take (`Handshake`,
`ReadClient`, `CallbacksDone`, `AddTimer`, `CancelTimer`), and of the main thread
after the signal.

The other modules have none. That a message reaches its members or a status
the pages is stated there as an invariant: what has not arrived is queued, in a
pipeline where nothing before it takes away its effect. Whether a queued query
is answered is the matter of `Pipeline`.

## Proofs

The theorems hold for every value of the constants that satisfies the named
assumptions of the module: that constants are numbers or sets of the right
kind, that `None` and the kinds of objects are distinct. TLC evaluates the same
assumptions in the runs.

| module | theorem | statement |
|---|---|---|
| `PipelineProofs` | `PipelineInvariant` | `Spec => []IInv` |
| | `TypeCorrect` | `Spec => []TypeOK` |
| | `RingOrder` | `Spec => []RingInSendOrder` |
| | `ResultsMatch` | `Spec => []ResultMeetsItsCommand` |
| | `BlockingIsSafe` | `Spec => []BlocksOnlyWhenDrained` |
| | `ChainsRunComplete` | `Spec => []ChainRunsComplete` |
| | `NoEarlyLoss` | `Spec => LossOnlyWhenFull` |
| | `FifoImplemented` | `Spec => ImplementsQueryFifo` |
| `EventsProofs` | `TypeCorrect` | `Spec => []TypeOK` |
| | `OneWorkerPerEventHolds` | `Spec => []OneWorkerPerEvent` |
| | `ClientTableExactHolds` | `Spec => []ClientTableExact` |
| | `LiveIsEnteredHolds` | `Spec => []LiveIsEntered` |
| | `CleanupFreesOnceHolds` | `Spec => []CleanupFreesOnce` |
| `ReceiveProofs` | `HandledInOrderHolds` | `NoLongFrames` implies `Spec => []HandledInOrder` |
| | `BufferHoldsUnhandledHolds` | `NoLongFrames` implies `Spec => []BufferHoldsUnhandled` |
| | `SentIsHandledOrPendingHolds` | `NoLongFrames` implies `Spec => []SentIsHandledOrPending` |
| `SessionsProofs` | `TypeCorrect` | `Spec => []TypeOK` |
| | `LoggedInReachableHolds` | `Spec => []LoggedInReachable` |
| | `NoEntryOutlivesClientHolds` | `Spec => []NoEntryOutlivesClient` |
| | `NoTimerWhileConnectedHolds` | `Spec => []NoTimerWhileConnected` |
| `PresenceProofs` | `LastBroadcastIsTrueHolds` | `OneWorker` implies `Spec => []LastBroadcastIsTrue` |
| | `WrongIsCorrectedHolds` | `OneWorker` implies `Spec => []WrongIsCorrected` |
| `HashTableProofs` | `ListedIsFoundHolds` | `Spec => []ListedIsFound` |
| | `TableIsLossyMap` | `NoZeroKey` implies `Spec => ImplementsLossyMap` |
| | `LoadBoundedHolds` | `NoZeroKey` and `RoomToCount` imply `Spec => []LoadBounded` |
| | `TypeCorrect` | `NoZeroKey` and `RoomToCount` imply `Spec => []TypeOK` |
| | `ArrayBounded` | `NoZeroKey` and `RoomToCount` imply `Spec => [](ht.size <= SizeBound)` |
| `GroupsProofs` | `TypeCorrect` | `Spec => []TypeOK` |
| | `NoOrphansHolds` | `Spec => []NoOrphans` |
| | `DeletionIsolatedHolds` | `Spec => []DeletionIsolated` |
| | `DeletedByRightHolds` | `Spec => DeletedByRight` |
| | `MessageReachesMembersHolds` | `Spec => []MessageReachesMembers` |
| | `MemberIsShownGroupHolds` | `Spec => []MemberIsShownGroup` |
| | `CodeUsesBoundedHolds` | `OneWorker` implies `Spec => []CodeUsesBounded` |
| | `DeletedLeavesViewHolds` | `OneWorker` implies `Spec => []DeletedLeavesView` |
| `UploadsProofs` | `TypeCorrect` | `Spec => []TypeOK` |
| | `RefCountCoversHolds` | `OneWorker` implies `Spec => []RefCountCovers` |
| | `FilesMatchReferencesHolds` | `OneWorker` implies `Spec => []FilesMatchReferences` |

Four hypotheses are not assumptions of a module, because the code does not
guarantee them; the theorems say what holds when they do.

- `OneWorker`: the pool has one thread. With two, the statements are false, and
  "Observations" below says how each fails: a code is used that another use has
  just removed; broadcasts of different pipelines overtake one another; two
  changes of one user's picture are answered in one order and remembered in the
  other; two uploads of a file read the count after both have increased it.
- `NoLongFrames`: no frame has a 64-bit length, which the code reads as 0.
- `NoZeroKey`: no entry has key 0. Descriptors of connections and user ids never
  are 0, a random session id or token may be; an empty slot has this key as well,
  so that inserting it is refused and deleting it takes one from `count`.
- `RoomToCount`: there are finitely many keys, few enough for `count` not to
  wrap: 0.7 of `2 * MinSize + 10 * (|Keys| + 1)` is less than `CountMod`, which
  is 2^64 in the program.

### Pipeline

`IInv` is `RingInSendOrder` with what makes it inductive:

- `TypeOK`;
- `AnswersInOrder`: syncs, results, buffered and arrived answers and commands
  are ordered counts, so a result that is read belongs to a sent command;
- `SlotsNameCommands`, `RunNamesCommands`: slots and the running chain refer to
  commands that exist;
- `HeadHasCallback`: the first command of the chain under construction has a
  callback, because `exec` is what marks a slot as used;
- `ChainOnlyInHandler`: there is a chain under construction only inside a
  handler, callback or close; outside, everything sent is in the ring, which is
  why the worker may trust `count`;
- `ChainRunsComplete`.

The argument: positions in the ring are distances from the read cursor (`Off`);
enqueueing writes at distance `count`, dequeueing shifts all distances by one,
and both keep the intervals of commands adjacent. As the result number is
`first + done` of the first slot, results cannot get out of step. Each action
is one step of the proof; lemmas cover enqueueing, dequeueing and the moving of
the cursors. `NoEarlyLoss` follows because, until the first loss, a slot at
distance `count` is empty whenever `count < Size`.

`FifoImplemented` maps each step to a step of `QueryFifo` or to a stutter. It
needs one fact more, `RunBeforeHead`: the chain that runs has left the ring, and
its commands come before those of the first slot.

### Events

Whether an object is entered, armed or handled is known only by where workers
stand, so the invariant follows an object through its life: `Stages` says what
a worker holds at each stage, `NewIsPrivate` that an object being opened is
known to its worker alone, `HandledIsOpen` that what is armed or handled is
open until `close()`, `Descriptors` that open objects have descriptors of their
own. `ClientsListed` and `ClientsUnlisted` are the interval from `InsertClient`
to `DelEvent` in which a client is in `client_ht`, if its entry was not lost;
that the interval ends before `CloseFd`, while the number cannot be given out
again, is why `ClientTableExact` holds, lossy deletions or not. `EntryKeys`,
`HandledEntered` and `OpenEntered` do the same for `event_ht`, up to the entries
it has lost. An entry may also be hit by the late deletion of an object whose
own entry was lost and whose descriptor it has got since: `EventLost` asks for
any lost object with the same descriptor, and `EnteredOpen` says that there is
no other way. `DeletesOwn` and `DeletesTimer` are the two reasons for which a
worker deletes an event, its own or a timer's in the middle of a handler; the
second disarms a timer that may be with another worker, which is where `ub`
comes from. `EndOfMain` is the cleanup.

### Receive

`Current` is the first message not handled, `Base` the byte it begins behind.
`Stream` says that the records in the socket continue what OpenSSL holds and
end with the last byte sent; `Request` that before the upgrade nothing is sent
beyond the current request, that a header not yet looked at is in one record,
and that the body so far (`BodyUpTo`) is what was read; `Waiting` and `Parsing`
where the buffer stands between events and during parsing. That the first byte
of a message identifies it needs `Increasing`: a message begins behind all
earlier ones, shown by the least counterexample. A request that is mangled has
a body that is shorter than what was read, or changed: `BodyUpTo` says that it
then stays where it is, or is handled as a message that was not sent. After an
overrun only `Stream` and the order of what was handled before are kept. `SizeOfFrame` is the point
that is easily wrong in the code: a size computed from bytes that have not
arrived always exceeds what has arrived, so the frame is waited for and no
false length is acted upon.

### Sessions and Presence

Sessions, for any number of workers: `UserEntered` and `SessionEntered` tie a
client's fields to `user_ht`, up to the users who are `missed`; a second login
that passed the test as well is refused by the insertion and so noted there.
`SessionUnshared` and `TasksHold` say that two connections share a session only
if its id was sent, so that both are the same user's and one of them at most
has the entry; and `TimerDetached` makes the timer harmless: while it runs, the
session is nobody's, or the login that cancels it is under way, or its user is
missed. Presence: `Entered` says who is in `user_ht`. `AllSettled` says of each
pipeline that a query which would leave a page with another status - an older
broadcast, a row without a status - is followed by a broadcast of the true one,
and `AllCorrected` that a page shows the true status or has it coming; each is
needed for the other when an answer is handled.

### HashTable

`Entries` and `Moved` are recursive functions, so what they compute needs
induction, which `AllNumbers` provides in the form of the least counterexample:
a set of numbers that contains 0 and the successor of each of its numbers
contains all. `Recursion` says that a function with such equations exists,
`EntriesAt` where in the list each place of each bucket is, and `MovedRuns`
what the table is after n entries have moved.

`Good` is the inductive invariant behind `ListedIsFound`: every entry is in the
bucket of its key (`Sound`), and its key is there once. It holds for key 0 too.
For the refinement, `Same` says that two tables hold the same entries:
`MovedSame` shows by induction that a resize keeps them, because no key is
listed twice and so no insertion into the new table is refused. A table
determines its map (`SameMap`), so each step only has to be followed on entries.

The load needs more than `LoadBounded`. Deletions lose entries which `count`
still counts, so the table may double although few entries are left; `Loaded`
adds that either the size is small or `count` is at most the number of keys,
which a resize restores by counting anew. With it the size stays below
`SizeBound` and `count` never wraps.

### Groups

The seven statements of a deletion are queued one behind the other: `Shape`
says that they stay so and `SentByOwner` that the group still has the owner who
was looked up. `TxStages` says how far a transaction is from the statement that
is next, `RowsHeld` that the rows it has deleted are there for the others and
are no one else's, and `Isolated` that from the deletion of the group's row on
it holds every row of the group, which gives `NoOrphans` at `COMMIT`.
`Delivered` and `ShownOrQueued` are the two properties about what is on its
way, with the very query that is queued: a member in the audience of a live
message stays one, because the deletion of members is blocked by their messages
or takes them along, and a removal from the views is only queued for messages
that are gone (`RemovesGone`).

With one worker: nothing comes between the statements of a transaction
(`IdsSelected`), `CodeRead` and `UsesCounted` (a code that was read is there when
its use is counted, and memberships are counted), and for the pages
`AudienceStays`, `NewsMatch`, `SeenIsPending` and `NewsFollowed`: a broadcast of
a message that has been deleted since is followed by one that removes it.

### Uploads

The types say of each query which parameter is there (`GoodQuery`), so that a
statement or a callback never meets a hash, user or message that is None.
`Counts` relates, for each token, `msg_state.current`, what was posted, how
often the message was sent and where the worker is (`Sound`): the count lags
behind by the attachment that is being handled, and what was read before the
increment is still right at the comparison. The lemma `IndexCount` turns
"as many as there are attachments" into "all of them".

That `ref_count` covers the references is not inductive: it depends on what is
in the pipeline. For each file and each chain `FilesInv` counts what the chain
still owes (`Owed`: releases not executed, files of messages it has deleted,
the picture it has replaced), what its last query will refer to (`Due`) and
what its first will count up (`Coming`). `Covers` says that the count covers
references and debts now and, for every K, when the database is through with K
more chains: `Coming` and `Due` stand in one chain, in this order.
`CoversHeld` adds, for the end of the queue, the files held for a message whose
attachments are not complete: their counts are ahead of it in the queue. The
pictures are counted as the server remembers them, and `Claimed` relates these
to `Users.pfp`: they are the same but for changes whose callback has not run,
the last of which is the column's. `Selected` says that the attachments a
deletion of the group has selected are still those of stored messages when it
deletes them. The sums over chains, messages and tokens are cardinalities of
sets of pairs (`Size`), of which a step changes one slice (`SizeChange`). A
crash empties the queue; `Covers` for K = 0 is what is left. The sets of users,
tokens and messages are assumed to be finite.

That row, references and disk agree in the end needs two more invariants, both
only about the files that no crash or disk error has touched (`doubt`). All the
invariants of this section are defined in `UploadsInv`.

`DiskInv` is about the callbacks that will write or unlink a file. In a chain
the query that reads the count comes right behind the one that changes it
(`Tidy`), so what a callback will do (`Effect`: write, unlink or nothing) is
settled when both are executed. `Right` says that the last of these effects in
the queue is the one the row asks for: a file with a row is there and no unlink
is queued, or a write is queued with no unlink behind it; for one without a row
it is the other way round (`Outcome`). It survives a callback, because the
effect that runs is the first, and a query, because its effect is behind all
others.

`EqualInv` is `CoversHeld` as an equation (`Balanced`): references, debts, what
will be referred to and what is kept add up to the count and what will be
counted. For that, what is kept must be exact: `KeptFiles` are the files of the
tokens whose message is neither stored nor queued (`Underway`), and `Backed`
says that a queued message has the files of its token, is the only one of it
and was sent. `Filled` excludes that an attachment is saved twice in a message,
which would keep one file and count two. A callback hands over what its chain
owed to the chain it sends (`Hands`), to the last reference. After a crash
nothing is queued; for a file that was not in flight nothing was owed
(`Spares`), the picture in memory was the column's, and no queued message had
the file, so that what is kept stays the same (`CrashKept`).

### Only model-checked

Liveness, for which fairness and `ENABLED` are out of the prover's reach:
`HandledOrOverlooked` and `StopsUnlessPeerSilent`. Every other property of a
passing run is stated by a theorem.

## Not modelled

Parsing of configuration, JSON, header lines and URLs; the layout of answers;
logging, cryptography and utilities, which keep no state. Reading the
configuration runs once in one thread. The browser client and the bots appear
only as what they show and send. At shutdown, freeing the sessions and tokens
that are left happens in one thread after the workers have ended. Changing
names in an account is commented out in the code.

## Observations

What the models contain and no run has as its subject. The properties that meet
one of these except it by name.

Pipeline and workers:

- Two answers of the database that arrive together: the first read takes both
  from the socket, `PQgetResult` returns NULL between them, and `poll()` on the
  empty socket does not see the second. Its callback runs only after some later
  answer (`ResultOverlooked`).
- A silent peer holds its worker in `SSL_accept`, `SSL_read` or `SSL_write`, with
  all queries of that worker, and at shutdown the join.

Tables, events and timers:

- Deleting an entry behind the head of a chain of a hash table sets the
  predecessor's `next` to NULL (`server_ht.c:262`): the entries behind it are
  unreachable, and the count is too high from then on.
- A key 0 is refused by an empty slot of a hash table, and deleting it lets
  `count` wrap. Session ids and upload tokens are random 32-bit numbers.
- A timer's event is deleted by a login or an upload although it was reported
  already, to another worker or for a later place of the same batch, which then
  uses a freed event (`user_login.c:47-51`, `upload_token.c:83-87`,
  `user_upload.c:170-171`, `268-271`).
- A session timer whose event was lost to `event_ht` cannot be cancelled and
  expires under the user (`StrayExpires`).
- If the event of a token's timer is refused, `server_close_timer` frees the
  token, and `server_new_upload_token` returns it all the same.
- If `timerfd_create` fails, the error path reads the session of a timer that
  has none yet (`server_timer.c:137-140`).
- When descriptors run out, `accept` fails and the listening socket is closed
  for good.
- An event deleted while `running` is false - before start-up has ended, or
  between the signal and the end of its worker - stays in `event_ht`, and the
  cleanup frees it a second time (`late`).
- The walk of `server_del_all_clients` deletes the bucket it stands on: of
  clients that share a bucket it misses some, and with three or more it reads a
  bucket that was freed.

Sessions and status:

- With two workers, two connections may log in as one user: both find the user
  absent before either enters it, and the refused insertion goes unnoticed.
- A connection may log in twice. `dbuser` is overwritten and closing removes
  only the last user from `user_ht`; the first user's entry stays, with a
  pointer to freed memory, and the user is answered "Someone else already logged
  in" from then on.
- A user whose connection ends with `EPIPE` stays online on other pages.
- A user who is in no group is not among those whom the broadcast of the own
  status is told to, so that the own page goes on showing "offline".
- With two workers two broadcasts of a status can arrive in reverse order.

Requests and frames:

- `parse_http` zeroes a CR LF CR LF in the part of a body that came with the
  header, and drops such a part that begins with NUL; the request then waits for
  bytes that have come (`mangled`). Images may contain both.
- The rest of a TLS record that did not fit into the buffer stays in OpenSSL
  until another record arrives.
- A frame that is cut off behind another one is not moved to the beginning of
  the buffer; its bytes are lost and the next read continues in the wrong place
  (`overrun`), on a connection that stays open.
- A frame with a 64-bit length is read as one of length 0, so a message of
  64 KiB or more ends the connection.

Groups:

- With two workers, a user who joins after a deletion has selected the member
  ids loses the group without being told.
- With two workers a user may become a member by a code that another use has
  removed since it was read; the statement then returns no row and the user is
  told "Failed to join group". More users than `max_uses` may get in this way.
- With two workers the broadcast of a deletion may overtake that of the message.

Uploads:

- With two workers, the attachments of a message are counted without a lock:
  both may read the same number, and the message, which is to be inserted when
  all have arrived (`group.c:466-471`), is sent never or twice. `SaveAttach`,
  `CountAttach` and `TestAttach` show it; with one worker they cannot interleave,
  so no run has a property about it.
- A token's timer may free it while its message is on the way to the database;
  the callback then reads freed memory, with one worker too.
- If the WebSocket of a user is closed before the callback of a changed picture,
  the callback uses the freed user (`user_upload.c:67-75`).
- With two workers, two changes of one user's picture may be answered in one
  order and called back in the other; the second callback releases the picture
  that is in use, and if a message has the same file its count is too low.
- With two workers, both may count a file up before either reads the count;
  both read 2 and neither writes the file.
- After a crash between counting a file up and writing it, the row has no file,
  and no later upload of the image writes it.
- Files of a message that is never stored keep their reference for ever.

## Plan

Done: 1. `Pipeline` and its proofs. 2. `Sessions`. 3. `HashTable` with its
abstract specification. 4. `Groups`. 5. `Uploads`, with crashes, disk errors
and deleted groups. 6. `Events`, with start and shutdown. 7. `Receive`.
8. `Presence`. 9. `QueryFifo`, implemented by `Pipeline`. 10. The safety
properties of `Events`, `Sessions`, `Presence`, `Groups` and `Receive` and the
refinement of `QueryFifo`, proved. 11. The types of `Uploads`, proved.
12. `RefCountCovers` of `Uploads`, with crashes, proved. 13. `HashTable`: its
invariants, the bound of its size and the refinement of `LossyMap`, proved. 14. `FilesMatchReferences` of `Uploads`, with
crashes and disk errors, proved. 15. Tables that lose entries in
`Events`, `Sessions` and `Presence`, cancelled timers, changing groups behind
statuses, changed bodies and what follows an overrun; `Sessions` for any number
of workers; the delivery of messages, groups and statuses as invariants, proved.

Possible next: several workers in `Presence` and `Uploads`, with properties
that name what still holds there; a lost database connection.
