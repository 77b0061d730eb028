------------------------------ MODULE Uploads ------------------------------
(***************************************************************************)
(* Uploaded images: upload tokens, messages with attachments, profile        *)
(* pictures, and the files behind them.                                      *)
(*   chat/upload_token.c  tokens and their 10-second timer,                  *)
(*   chat/user_upload.c   the POST that carries an image,                    *)
(*   chat/user_file.c     files on disk, shared by their hash,               *)
(*   chat/db_userfile.c   UserFiles.ref_count, and its trigger.              *)
(*                                                                           *)
(* A handler or callback puts its queries into one chain of its worker's     *)
(* pipeline (module Pipeline).  The database executes the queries of a       *)
(* worker in order, ahead of the worker, which runs the callbacks of a chain  *)
(* when all of its results are there.  Counting the attachments of a message *)
(* takes no lock: it is a read, a write and a test.                          *)
(*                                                                           *)
(* The process may crash and start again, and writing or unlinking a file    *)
(* may fail.  Only images are posted, every attachment once, as              *)
(* handle_packet.js does.  A token is freed by its timer or by the code that *)
(* is done with it, which takes the timer along; a user is freed when its    *)
(* WebSocket closes.  Using one of them afterwards sets ub, after which      *)
(* nothing is claimed.                                                       *)
(***************************************************************************)
EXTENDS Integers, FiniteSets, SequencesExt

CONSTANTS Workers, Users, Tokens, Hashes, Msgs, None,
          Total,    \* attachments of a message
          MaxPipe,  \* bound: a deletion is asked for while fewer chains are queued
          MaxFaults \* bound: crashes and disk errors

ASSUME TotalAssumption == Total \in Nat \ {0}
ASSUME MaxPipeAssumption == MaxPipe \in Nat
ASSUME MaxFaultsAssumption == MaxFaults \in Nat
ASSUME MsgsAssumption == IsFiniteSet(Msgs)
ASSUME UsersAssumption == IsFiniteSet(Users)
ASSUME TokensAssumption == IsFiniteSet(Tokens)
ASSUME NoneAssumption == None \notin Users \cup Tokens \cup Hashes \cup Msgs

VARIABLES
  token,   \* upload_token_t, with msg_state.current and the hashes so far
  row,     \* UserFiles.ref_count (0: no row)
  disk,    \* the files in img_dir
  msg,     \* Messages with their attachments
  group,   \* the group of the messages exists
  pfp,     \* Users.pfp
  cached,  \* dbuser->pfp_hash of the connected user
  pipe,    \* per worker: its chains
  task,    \* per worker: the POST it is in the middle of
  posted,  \* history: the attachments of a token that were posted
  sent,    \* history: how often a token's message was sent to the database
  doubt,   \* history: the files a crash or a failing disk may have harmed
  faults,  \* crashes and disk errors so far
  ub       \* a freed token or user was used

vars == <<token, row, disk, msg, group, pfp, cached, pipe, task,
          posted, sent, doubt, faults, ub>>
db   == <<row, msg, group, pfp>>
hist == <<posted, sent>>
fault == <<doubt, faults>>

Index == 1 .. Total
Hash  == Hashes \cup {None}
NoFiles == [i \in Index |-> None]

Token == [life : {"none", "live", "freed"}, type : {"attach", "pfp"},
          user : Users \cup {None}, current : Nat, files : [Index -> Hash]]

(* A query, with its result once it is executed: success, the ref_count that *)
(* was selected, the attachments of the deleted messages.                    *)
Ops == {"insert_file", "refcount", "release", "insert_msg", "update_pfp", "delete_msg",
        "select_attachs", "delete_msgs"}
Cmd(op, hash, arg, files) ==
  [op |-> op, hash |-> hash, arg |-> arg, files |-> files, ok |-> TRUE, n |-> 0]

(* done: queries executed; ran: callbacks that have run.                     *)
Chain(cmds) == [cmds |-> cmds, done |-> 0, ran |-> 0]

Idle == [step |-> "idle", token |-> None, index |-> 1, hash |-> None, read |-> 0]

Init ==
  /\ token = [t \in Tokens |-> [life |-> "none", type |-> "attach", user |-> None,
                                current |-> 0, files |-> NoFiles]]
  /\ row = [h \in Hashes |-> 0] /\ disk = {}
  /\ msg = [m \in Msgs |-> [life |-> "none", token |-> None, files |-> NoFiles]]
  /\ group = TRUE
  /\ pfp = [u \in Users |-> None] /\ cached = [u \in Users |-> None]
  /\ pipe = [w \in Workers |-> <<>>]
  /\ task = [w \in Workers |-> Idle]
  /\ posted = [t \in Tokens |-> {}] /\ sent = [t \in Tokens |-> 0]
  /\ doubt = {} /\ faults = 0 /\ ub = FALSE

(* The worker is in its loop: in no handler and between two chains.          *)
Free(w) == /\ ~ub /\ task[w] = Idle
           /\ pipe[w] # <<>> => pipe[w][1].ran = 0

UsesFreed ==
  ub' = TRUE /\ UNCHANGED <<token, db, disk, cached, pipe, task, hist, fault>>

-----------------------------------------------------------------------------
(* user_file.c                                                               *)

(* server_save_file_img: insert or count up, then read the count.            *)
server_save_file_img(h) ==
  <<Cmd("insert_file", h, None, NoFiles), Cmd("refcount", h, None, NoFiles)>>

(* server_delete_file: count down (a trigger deletes at 0), read the count.  *)
server_delete_file(h) ==
  <<Cmd("release", h, None, NoFiles), Cmd("refcount", h, None, NoFiles)>>

(* server_delete_attachments_json: the two queries for each file.            *)
server_delete_attachments_json(files) ==
  [j \in 1 .. 2 * Len(files) |-> server_delete_file(files[(j + 1) \div 2])[2 - (j % 2)]]

-----------------------------------------------------------------------------
(* Handlers: tokens and posts                                                *)

Queue(w, cmds) == pipe' = [pipe EXCEPT ![w] = Append(@, Chain(cmds))]

(* server_new_upload_token, for a message with attachments or for a profile  *)
(* picture; its timer is running.                                            *)
server_new_upload_token(w, t) ==
  /\ Free(w)
  /\ token[t].life = "none"
  /\ \/ token' = [token EXCEPT ![t] = [@ EXCEPT !.life = "live"]]
     \/ \E u \in Users :
          token' = [token EXCEPT ![t] = [@ EXCEPT !.life = "live", !.type = "pfp", !.user = u]]
  /\ UNCHANGED <<db, disk, cached, pipe, task, hist, fault, ub>>

(* timer_ut: the token expires.                                              *)
timer_ut(w, t) ==
  /\ Free(w)
  /\ token[t].life = "live"
  /\ token' = [token EXCEPT ![t] = [@ EXCEPT !.life = "freed"]]
  /\ UNCHANGED <<db, disk, cached, pipe, task, hist, fault, ub>>

(* server_check_upload_token finds the token of a posted attachment.         *)
PostAttach(w, t, i, h) ==
  /\ Free(w)
  /\ token[t].life = "live" /\ token[t].type = "attach"
  /\ i \notin posted[t]
  /\ posted' = [posted EXCEPT ![t] = @ \cup {i}]
  /\ task' = [task EXCEPT ![w] = [Idle EXCEPT !.step = "save", !.token = t,
                                              !.index = i, !.hash = h]]
  /\ UNCHANGED <<token, db, disk, cached, pipe, sent, fault, ub>>

(* server_handle_msg_attach puts the hash into the message and reads         *)
(* msg_state.current ...                                                     *)
SaveAttach(w) ==
  /\ ~ub /\ task[w].step = "save"
  /\ LET t == task[w].token IN
     \/ /\ token[t].life = "live"
        /\ token' = [token EXCEPT ![t] =
                       [@ EXCEPT !.files = [token[t].files EXCEPT ![task[w].index] = task[w].hash]]]
        /\ task' = [task EXCEPT ![w] = [@ EXCEPT !.step = "count", !.read = token[t].current]]
        /\ UNCHANGED <<db, disk, cached, pipe, hist, fault, ub>>
     \/ token[t].life = "freed" /\ UsesFreed

(* ... writes it one higher ...                                              *)
CountAttach(w) ==
  /\ ~ub /\ task[w].step = "count"
  /\ LET t == task[w].token IN
     \/ /\ token[t].life = "live"
        /\ token' = [token EXCEPT ![t] = [@ EXCEPT !.current = task[w].read + 1]]
        /\ task' = [task EXCEPT ![w] = [@ EXCEPT !.step = "test"]]
        /\ UNCHANGED <<db, disk, cached, pipe, hist, fault, ub>>
     \/ token[t].life = "freed" /\ UsesFreed

AllReceived(current) == current >= Total

(* ... and compares it, as written or as read again: the last attachment     *)
(* sends the message to the database.                                        *)
TestAttach(w) ==
  /\ ~ub /\ task[w].step = "test"
  /\ LET t == task[w].token
         save == server_save_file_img(task[w].hash)
     IN
     \/ /\ token[t].life = "live"
        /\ \E current \in {task[w].read + 1, token[t].current} :
             IF AllReceived(current)
             THEN /\ Queue(w, Append(save, Cmd("insert_msg", None, t, token[t].files)))
                  /\ sent' = [sent EXCEPT ![t] = @ + 1]
             ELSE /\ Queue(w, save)
                  /\ UNCHANGED sent
        /\ task' = [task EXCEPT ![w] = Idle]
        /\ UNCHANGED <<token, db, disk, cached, posted, fault, ub>>
     \/ token[t].life = "freed" /\ UsesFreed

(* server_handle_user_pfp_update, then the token goes.  A URL that is not    *)
(* that of an image, or a user who is not connected, is refused.             *)
PostPfp(w, t, h) ==
  /\ Free(w)
  /\ token[t].life = "live" /\ token[t].type = "pfp"
  /\ token' = [token EXCEPT ![t] = [@ EXCEPT !.life = "freed"]]
  /\ \/ Queue(w, Append(server_save_file_img(h),
                        Cmd("update_pfp", h, token[t].user, NoFiles)))
     \/ UNCHANGED pipe
  /\ UNCHANGED <<db, disk, cached, task, hist, fault, ub>>

(* Mutant: the files are released before the message is deleted.             *)
ReleasesFilesFirst(w, m) ==
  /\ Free(w)
  /\ Len(pipe[w]) < MaxPipe /\ msg[m].life = "live"
  /\ Queue(w, Append(server_delete_attachments_json(msg[m].files),
                     Cmd("delete_msg", None, m, NoFiles)))
  /\ UNCHANGED <<token, db, disk, cached, task, hist, fault, ub>>

server_delete_group_msg(w, m) ==
  /\ Free(w)
  /\ Len(pipe[w]) < MaxPipe
  /\ Queue(w, <<Cmd("delete_msg", None, m, NoFiles)>>)
  /\ UNCHANGED <<token, db, disk, cached, task, hist, fault, ub>>

(* db_async_delete_group, sent by get_group_owner: the attachments of all    *)
(* messages are selected and the messages deleted in one transaction, whose  *)
(* other statements are in module Groups.                                    *)
db_async_delete_group(w) ==
  /\ Free(w)
  /\ Len(pipe[w]) < MaxPipe
  /\ group
  /\ Queue(w, <<Cmd("select_attachs", None, None, NoFiles),
                Cmd("delete_msgs", None, None, NoFiles)>>)
  /\ UNCHANGED <<token, db, disk, cached, task, hist, fault, ub>>

-----------------------------------------------------------------------------
(* The database                                                              *)

(* The first chain of w with a query that is not executed.                   *)
Current(w, k) ==
  /\ k \in DOMAIN pipe[w]
  /\ pipe[w][k].done < Len(pipe[w][k].cmds)
  /\ \A j \in 1 .. k - 1 : pipe[w][j].done = Len(pipe[w][j].cmds)

(* A chain whose next query has been executed: cmd, with its result.         *)
Answered(ch, cmd) ==
  [cmds |-> [ch.cmds EXCEPT ![ch.done + 1] = cmd], done |-> ch.done + 1, ran |-> ch.ran]

Result(w, k, cmd) == pipe' = [pipe EXCEPT ![w] = [@ EXCEPT ![k] = Answered(pipe[w][k], cmd)]]

(* The query of w that is executed next, and its chain.                      *)
Executes(w, k, op) ==
  /\ ~ub
  /\ Current(w, k)
  /\ pipe[w][k].cmds[pipe[w][k].done + 1].op = op

Executed(w, k) == pipe[w][k].cmds[pipe[w][k].done + 1]

(* insert_userfiles.sql: a new row has ref_count 1, an old one counts up.    *)
db_async_insert_userfile(w) ==
  \E k \in DOMAIN pipe[w] :
    /\ Executes(w, k, "insert_file")
    /\ row' = [row EXCEPT ![Executed(w, k).hash] = @ + 1]
    /\ Result(w, k, Executed(w, k))
    /\ UNCHANGED <<token, msg, group, pfp, disk, cached, task, hist, fault, ub>>

(* Without a row the count is taken for 0.                                   *)
db_async_userfile_refcount(w) ==
  \E k \in DOMAIN pipe[w] :
    /\ Executes(w, k, "refcount")
    /\ LET c == Executed(w, k) IN
       Result(w, k, [c EXCEPT !.n = IF c.hash = None THEN 0 ELSE row[c.hash]])
    /\ UNCHANGED <<token, db, disk, cached, task, hist, fault, ub>>

(* The trigger cannot delete the row of a profile picture.                   *)
CannotRelease(h) == h # None /\ row[h] = 1 /\ \E u \in Users : pfp[u] = h

(* The count goes down; at 0 a trigger deletes the row.                      *)
Released(h) ==
  IF h = None \/ row[h] = 0 \/ CannotRelease(h) THEN row ELSE [row EXCEPT ![h] = @ - 1]

db_async_delete_userfile(w) ==
  \E k \in DOMAIN pipe[w] :
    /\ Executes(w, k, "release")
    /\ LET c == Executed(w, k) IN
       /\ row' = Released(c.hash)
       /\ Result(w, k, [c EXCEPT !.ok = ~CannotRelease(c.hash)])
    /\ UNCHANGED <<token, msg, group, pfp, disk, cached, task, hist, fault, ub>>

(* A message is refused when its author is no member, so when there is no    *)
(* group.  (The result is noted in the token; do_insert_msg_after, right     *)
(* behind it, stands for both.)                                              *)
db_async_insert_group_msg(w) ==
  \E k \in DOMAIN pipe[w] :
    /\ Executes(w, k, "insert_msg")
    /\ LET c == Executed(w, k) IN
       \/ /\ \E m \in Msgs :
               /\ group /\ msg[m].life = "none"
               /\ msg' = [msg EXCEPT ![m] = [life |-> "live", token |-> c.arg,
                                             files |-> c.files]]
          /\ Result(w, k, c)
       \/ /\ Result(w, k, [c EXCEPT !.ok = FALSE])
          /\ UNCHANGED msg
    /\ UNCHANGED <<token, row, group, pfp, disk, cached, task, hist, fault, ub>>

(* update_user.sql: Users.pfp must be a hash of UserFiles.                   *)
db_async_update_user(w) ==
  \E k \in DOMAIN pipe[w] :
    /\ Executes(w, k, "update_pfp")
    /\ LET c == Executed(w, k) IN
       /\ pfp' = IF row[c.hash] = 0 THEN pfp ELSE [pfp EXCEPT ![c.arg] = c.hash]
       /\ Result(w, k, [c EXCEPT !.ok = row[c.hash] > 0])
    /\ UNCHANGED <<token, row, msg, group, disk, cached, task, hist, fault, ub>>

(* delete_msg.sql returns the attachments.                                   *)
db_async_delete_msg(w) ==
  \E k \in DOMAIN pipe[w] :
    /\ Executes(w, k, "delete_msg")
    /\ LET c == Executed(w, k) IN
       \/ /\ msg[c.arg].life = "live"
          /\ msg' = [msg EXCEPT ![c.arg] = [@ EXCEPT !.life = "gone"]]
          /\ Result(w, k, [c EXCEPT !.files = msg[c.arg].files])
       \/ /\ msg[c.arg].life # "live"
          /\ Result(w, k, [c EXCEPT !.ok = FALSE])
          /\ UNCHANGED msg
    /\ UNCHANGED <<token, row, group, pfp, disk, cached, task, hist, fault, ub>>

LiveMsgs == {m \in Msgs : msg[m].life = "live"}

(* The attachments of messages, one message after the other.                 *)
Attachments(ms) ==
  [j \in 1 .. Total * Len(ms) |-> msg[ms[((j - 1) \div Total) + 1]].files[((j - 1) % Total) + 1]]

(* The rows come in any order.                                               *)
SelectAttachs(w) ==
  \E k \in DOMAIN pipe[w] :
    /\ Executes(w, k, "select_attachs")
    /\ \E ms \in SetToSeqs(LiveMsgs) :
         Result(w, k, [Executed(w, k) EXCEPT !.files = Attachments(ms)])
    /\ UNCHANGED <<token, db, disk, cached, task, hist, fault, ub>>

(* With its COMMIT: messages and group are gone.                             *)
DeleteMsgs(w) ==
  \E k \in DOMAIN pipe[w] :
    /\ Executes(w, k, "delete_msgs")
    /\ msg' = [m \in Msgs |-> [msg[m] EXCEPT !.life = IF @ = "live" THEN "gone" ELSE @]]
    /\ group' = FALSE
    /\ Result(w, k, Executed(w, k))
    /\ UNCHANGED <<token, row, pfp, disk, cached, task, hist, fault, ub>>

-----------------------------------------------------------------------------
(* Callbacks                                                                 *)

(* The next command of the first chain of w, all of whose results are there. *)
Running(w, op) ==
  /\ ~ub /\ task[w] = Idle
  /\ pipe[w] # <<>>
  /\ LET ch == pipe[w][1] IN ch.done = Len(ch.cmds) /\ ch.cmds[ch.ran + 1].op = op

This(w) == pipe[w][1].cmds[pipe[w][1].ran + 1]
That(w) == pipe[w][1].cmds[pipe[w][1].ran + 2]

(* A chain one more of whose callbacks has run.                              *)
CalledBack(ch) == [ch EXCEPT !.ran = @ + 1]

(* Mutant: the chain stays when its last callback has run.                   *)
RanKeepsChain(w, more) ==
  LET rest == [pipe[w] EXCEPT ![1] = CalledBack(@)]
  IN pipe' = [pipe EXCEPT ![w] = IF more = <<>> THEN rest ELSE Append(rest, Chain(more))]

(* The callback is over; what it sent is a chain, and a chain whose last     *)
(* callback has run is gone.                                                 *)
Ran(w, more) ==
  LET last == pipe[w][1].ran + 1 = Len(pipe[w][1].cmds)
      rest == IF last THEN Tail(pipe[w]) ELSE [pipe[w] EXCEPT ![1] = CalledBack(@)]
  IN pipe' = [pipe EXCEPT ![w] = IF more = <<>> THEN rest ELSE Append(rest, Chain(more))]

(* do_save_file_img: the first reference writes the file.                    *)
do_save_file_img(w) ==
  /\ Running(w, "insert_file")
  /\ disk' = IF That(w).n = 1 THEN disk \cup {This(w).hash} ELSE disk
  /\ Ran(w, <<>>)
  /\ UNCHANGED <<token, db, cached, task, hist, fault, ub>>

(* Mutant: a shared file is unlinked with the first message that goes.       *)
UnlinkAlways(w) ==
  /\ Running(w, "release")
  /\ disk' = disk \ {This(w).hash}
  /\ Ran(w, <<>>)
  /\ UNCHANGED <<token, db, cached, task, hist, fault, ub>>

(* do_delete_file: the last reference unlinks it.                            *)
do_delete_file(w) ==
  /\ Running(w, "release")
  /\ disk' = IF This(w).ok /\ That(w).n <= 0 THEN disk \ {This(w).hash} ELSE disk
  /\ Ran(w, <<>>)
  /\ UNCHANGED <<token, db, cached, task, hist, fault, ub>>

(* A disk that is full or failing: server_write_file's and unlink's errors   *)
(* are logged and forgotten.                                                 *)
DiskFails(w) ==
  /\ faults < MaxFaults
  /\ \/ Running(w, "insert_file") /\ That(w).n = 1
     \/ Running(w, "release") /\ This(w).ok /\ That(w).n <= 0 /\ This(w).hash # None
  /\ doubt' = doubt \cup {This(w).hash}
  /\ faults' = faults + 1
  /\ Ran(w, <<>>)
  /\ UNCHANGED <<token, db, disk, cached, task, hist, ub>>

(* The commands that read a count or delete messages have no callback.       *)
NoCallback(w) ==
  /\ Running(w, "refcount") \/ Running(w, "delete_msgs")
  /\ Ran(w, <<>>)
  /\ UNCHANGED <<token, db, disk, cached, task, hist, fault, ub>>

(* do_insert_msg_after: stored or not, the token goes.                       *)
do_insert_msg_after(w) ==
  /\ Running(w, "insert_msg")
  /\ LET t == This(w).arg IN
     \/ /\ token[t].life = "live"
        /\ token' = [token EXCEPT ![t] = [@ EXCEPT !.life = "freed"]]
        /\ Ran(w, <<>>)
        /\ UNCHANGED <<db, disk, cached, task, hist, fault, ub>>
     \/ token[t].life = "freed" /\ UsesFreed

(* The old picture is released, the new one remembered.                      *)
OwnerTold(w) ==
  /\ Running(w, "update_pfp")
  /\ LET u == This(w).arg IN
     \/ /\ This(w).ok
        /\ cached' = [cached EXCEPT ![u] = This(w).hash]
        /\ Ran(w, server_delete_file(cached[u]))
     \/ /\ ~This(w).ok
        /\ Ran(w, <<>>)
        /\ UNCHANGED cached
  /\ UNCHANGED <<token, db, disk, task, hist, fault, ub>>

(* The user whose pointer the POST has kept may be gone: its WebSocket was   *)
(* closed since.                                                             *)
OwnerGone(w) == Running(w, "update_pfp") /\ This(w).ok /\ UsesFreed

update_pfp_result(w) == OwnerTold(w) \/ OwnerGone(w)

(* delete_msg_result                                                         *)
delete_msg_result(w) ==
  /\ Running(w, "delete_msg")
  /\ Ran(w, IF This(w).ok THEN server_delete_attachments_json(This(w).files) ELSE <<>>)
  /\ UNCHANGED <<token, db, disk, cached, task, hist, fault, ub>>

(* delete_group_result                                                       *)
delete_group_result(w) ==
  /\ Running(w, "select_attachs")
  /\ Ran(w, server_delete_attachments_json(This(w).files))
  /\ UNCHANGED <<token, db, disk, cached, task, hist, fault, ub>>

-----------------------------------------------------------------------------
(* Crash and restart                                                         *)

(* The files a query stores or releases, and the picture it replaces.        *)
Names(c) ==
  {c.hash} \cup ToSet(c.files) \cup (IF c.op = "update_pfp" THEN {cached[c.arg]} ELSE {})

(* The files that unfinished work of w is about.                             *)
InFlight(w) ==
  {task[w].hash}
    \cup UNION {UNION {Names(c) : c \in ToSet(pipe[w][k].cmds)} : k \in DOMAIN pipe[w]}

Interrupted == (UNION {InFlight(w) : w \in Workers}) \cap Hashes

(* The process ends anywhere and is started again: tokens, timers and        *)
(* pipelines are gone, the database and the disk stay as they are, and a     *)
(* user who comes back has the pfp_hash of its row.                          *)
Crash ==
  /\ ~ub
  /\ faults < MaxFaults
  /\ faults' = faults + 1
  /\ doubt' = doubt \cup Interrupted
  /\ token' = [t \in Tokens |-> [token[t] EXCEPT !.life = IF @ = "live" THEN "freed" ELSE @]]
  /\ posted' = [t \in Tokens |-> IF \E w \in Workers : task[w].token = t THEN {} ELSE posted[t]]
  /\ pipe' = [w \in Workers |-> <<>>]
  /\ task' = [w \in Workers |-> Idle]
  /\ cached' = pfp
  /\ UNCHANGED <<db, disk, sent, ub>>

Next ==
  \/ Crash
  \/ \E w \in Workers :
    \/ \E t \in Tokens :
         \/ server_new_upload_token(w, t) \/ timer_ut(w, t)
         \/ \E h \in Hashes : PostPfp(w, t, h) \/ \E i \in Index : PostAttach(w, t, i, h)
    \/ SaveAttach(w) \/ CountAttach(w) \/ TestAttach(w)
    \/ \E m \in Msgs : server_delete_group_msg(w, m)
    \/ db_async_insert_userfile(w) \/ db_async_userfile_refcount(w)
    \/ db_async_delete_userfile(w) \/ db_async_insert_group_msg(w)
    \/ db_async_update_user(w) \/ db_async_delete_msg(w)
    \/ do_save_file_img(w) \/ do_delete_file(w) \/ NoCallback(w)
    \/ do_insert_msg_after(w) \/ update_pfp_result(w) \/ delete_msg_result(w)
    \/ db_async_delete_group(w) \/ SelectAttachs(w) \/ DeleteMsgs(w)
    \/ delete_group_result(w) \/ DiskFails(w)

Spec == Init /\ [][Next]_vars

-----------------------------------------------------------------------------
(* Properties                                                                *)

TypeOK ==
  /\ token \in [Tokens -> Token]
  /\ row \in [Hashes -> Nat] /\ disk \subseteq Hashes
  /\ msg \in [Msgs -> [life : {"none", "live", "gone"}, token : Tokens \cup {None},
                       files : [Index -> Hash]]]
  /\ pfp \in [Users -> Hash] /\ cached \in [Users -> Hash]
  /\ \A w \in Workers : \A k \in DOMAIN pipe[w] :
       LET ch == pipe[w][k] IN
       /\ ch.done \in 0 .. Len(ch.cmds) /\ ch.ran \in 0 .. Len(ch.cmds) - 1
       /\ \A i \in DOMAIN ch.cmds : ch.cmds[i].op \in Ops /\ ch.cmds[i].hash \in Hash
  /\ \A t \in Tokens : posted[t] \subseteq Index
  /\ group \in BOOLEAN /\ doubt \subseteq Hashes /\ faults \in 0 .. MaxFaults /\ ub \in BOOLEAN

(* What refers to a file: attachments of stored messages, profile pictures.  *)
References(h) ==
  Cardinality({x \in Msgs \X Index : msg[x[1]].life = "live" /\ msg[x[1]].files[x[2]] = h})
    + Cardinality({u \in Users : pfp[u] = h})

(* Files posted for a message that is not (or never will be) stored.         *)
Held(h) ==
  Cardinality({x \in Tokens \X Index :
                 /\ token[x[1]].files[x[2]] = h
                 /\ \A m \in Msgs : msg[m].token # x[1]})

Drained == ~ub /\ \A w \in Workers : pipe[w] = <<>> /\ task[w] = Idle

(* Files are counted up before anything refers to them and counted down      *)
(* after the last reference is gone, so ref_count never falls below the      *)
(* number of references, whatever else is in the pipeline (server_save_file  *)
(* before the message, server_delete_file in the callback of its deletion)   *)
(* and wherever the process crashes, until a freed token or user is used.    *)
RefCountCovers == ~ub => \A h \in Hashes : row[h] >= References(h)

(* When everything is answered a file's row, its references and the disk     *)
(* agree: ref_count is the number of references (plus the files of messages  *)
(* that were never stored, which are never released), and the file is there  *)
(* exactly if it has a row, though callbacks write and unlink by counts that *)
(* were read earlier and release the picture they remember.  A crash or a    *)
(* failing disk harms only the files of the work it interrupted.             *)
FilesMatchReferences ==
  Drained => \A h \in Hashes \ doubt :
    /\ row[h] = References(h) + Held(h)
    /\ h \in disk <=> row[h] > 0
=============================================================================
