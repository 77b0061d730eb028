------------------------------ MODULE Presence ------------------------------
(***************************************************************************)
(* The status of users as other users' pages show it.                        *)
(*   chat/rtusm.c      the broadcasts of a status ("Real-Time User Status    *)
(*                     Management"),                                         *)
(*   chat/user.c       get_user and client_user_info,                        *)
(*   server_events.c   se_close_client,                                      *)
(*   and of the web client what it keeps of a user (handle_packet.js).       *)
(*                                                                           *)
(* A page learns of a user by get_user: at once and from memory if the user  *)
(* is logged in, otherwise by a query, without a status.  A broadcast is a   *)
(* query for the users to tell; status and user are those of the time it was *)
(* sent, the connections those of the time its result arrives.  A worker's   *)
(* pipeline is the queue that module Pipeline implements; whether a result    *)
(* is handled at all is said there.  Joining and deleting groups are         *)
(* statements of the same pipelines (module Groups has the details), so that *)
(* a broadcast is told to those who shared a group when its query ran.       *)
(*                                                                           *)
(* Logging in is one step (module Sessions has the details), and a page logs *)
(* in once.  Handlers and callbacks are atomic, as they are with one worker. *)
(***************************************************************************)
EXTENDS Naturals, Sequences

CONSTANTS Workers, Users,
          Conns,      \* connections, each with its page
          Groups, None,
          MaxPipe     \* bound: queries a page may have queued

ASSUME NoneAssumption == None \notin Users \cup Conns
ASSUME MaxPipeAssumption == MaxPipe \in Nat

VARIABLES
  life,     \* of a connection: "none", "open", "freed"
  dbuser,   \* the user a connection is logged in as
  status,   \* dbuser->rtusm.status of a connection
  user_ht,  \* user -> connection
  members,  \* the table GroupMembers: group -> users
  page,     \* per connection: what its page shows of each user
  pipe,     \* per worker: queries sent and not yet answered
  silent,   \* history: users who left by EPIPE and have not come back since
  missed,   \* history: users whose entry in user_ht another deletion took away
  untold    \* history: <<connection, user>>: what the page last heard of the
            \* user is older than a broadcast it was not sent, sharing no group

clients == <<life, dbuser, status, user_ht>>
vars == <<clients, members, page, pipe, silent, missed, untold>>

Status == {"offline", "online"}

Query ==
  [kind : {"rtusm"}, user : Users, status : Status]
    \cup [kind : {"get_user"}, conn : Conns, users : SUBSET Users]
    \cup [kind : {"join"}, user : Users, group : Groups]
    \cup [kind : {"delete"}, group : Groups]

NewPage == [u \in Users |-> "unknown"]

Init ==
  /\ life = [c \in Conns |-> "none"]
  /\ dbuser = [c \in Conns |-> None]
  /\ status = [c \in Conns |-> "offline"]
  /\ user_ht = [u \in Users |-> None]
  /\ members \in [Groups -> SUBSET Users]
  /\ page = [c \in Conns |-> NewPage]
  /\ pipe = [w \in Workers |-> <<>>]
  /\ silent = {} /\ missed = {} /\ untold = {}

Push(w, q) == pipe' = [pipe EXCEPT ![w] = Append(@, q)]

LoggedIn(c) == life[c] = "open" /\ dbuser[c] # None

(* server_set_client_logged_in: a user who is found in user_ht is refused.   *)
Login(c, u) ==
  /\ life[c] = "none" /\ user_ht[u] = None
  /\ life' = [life EXCEPT ![c] = "open"]
  /\ dbuser' = [dbuser EXCEPT ![c] = u]
  /\ user_ht' = [user_ht EXCEPT ![u] = c]
  /\ UNCHANGED <<status, members, page, pipe, silent, missed, untold>>

-----------------------------------------------------------------------------
(* Commands                                                                  *)

(* Mutant: the broadcast is sent before the status is set.                   *)
BroadcastsOldStatus(w, c, new) ==
  /\ status' = [status EXCEPT ![c] = new]
  /\ Push(w, [kind |-> "rtusm", user |-> dbuser[c], status |-> status[c]])

(* rtusm_broadcast                                                           *)
SetStatus(w, c, new) ==
  /\ status' = [status EXCEPT ![c] = new]
  /\ Push(w, [kind |-> "rtusm", user |-> dbuser[c], status |-> new])

(* The page is told of its own user, with the status from before.            *)
server_client_user_info(w, c) ==
  /\ LoggedIn(c) /\ Len(pipe[w]) < MaxPipe
  /\ page' = [page EXCEPT ![c][dbuser[c]] = status[c]]
  /\ SetStatus(w, c, "online")
  /\ silent' = silent \ {dbuser[c]}
  /\ untold' = untold \ {<<c, dbuser[c]>>}
  /\ UNCHANGED <<life, dbuser, user_ht, members, missed>>

(* server_get_user: whoever is in user_ht is answered for at once, the rest  *)
(* is asked of the database.                                                 *)
server_get_user(w, c, users) ==
  LET online == {u \in users : user_ht[u] # None} IN
  /\ LoggedIn(c) /\ Len(pipe[w]) < MaxPipe
  /\ page' = [page EXCEPT ![c] = [u \in Users |->
                IF u \in online THEN status[user_ht[u]] ELSE @[u]]]
  /\ IF users = online
     THEN UNCHANGED pipe
     ELSE Push(w, [kind |-> "get_user", conn |-> c, users |-> users \ online])
  /\ untold' = untold \ {<<c, u>> : u \in online}
  /\ UNCHANGED <<clients, members, silent, missed>>

(* create_group, server_join_group, by id or by a code.                      *)
server_join_group(w, c, g) ==
  /\ LoggedIn(c) /\ Len(pipe[w]) < MaxPipe
  /\ Push(w, [kind |-> "join", user |-> dbuser[c], group |-> g])
  /\ UNCHANGED <<clients, members, page, silent, missed, untold>>

server_delete_group(w, c, g) ==
  /\ LoggedIn(c) /\ Len(pipe[w]) < MaxPipe
  /\ Push(w, [kind |-> "delete", group |-> g])
  /\ UNCHANGED <<clients, members, page, silent, missed, untold>>

(* server_ght_del: deleting a user's entry may take others' with it (module  *)
(* HashTable).                                                               *)
ForgetUser(u) ==
  \E lost \in SUBSET {v \in Users \ {u} : user_ht[v] # None} :
    /\ user_ht' = [v \in Users |-> IF v \in {u} \cup lost THEN None ELSE user_ht[v]]
    /\ missed' = missed \cup lost

(* se_close_client, server_free_client: after EPIPE nobody is told.  Nothing *)
(* is left of the connection and its page.                                   *)
Close(w, c) ==
  /\ life[c] = "open"
  /\ life' = [life EXCEPT ![c] = "freed"]
  /\ ForgetUser(dbuser[c])
  /\ dbuser' = [dbuser EXCEPT ![c] = None]
  /\ page' = [page EXCEPT ![c] = NewPage]
  /\ \/ /\ SetStatus(w, c, "offline")
        /\ UNCHANGED silent
     \/ /\ status' = [status EXCEPT ![c] = "offline"]
        /\ silent' = silent \cup {dbuser[c]}
        /\ UNCHANGED pipe
  /\ untold' = {p \in untold : p[1] # c}
  /\ UNCHANGED members

-----------------------------------------------------------------------------
(* Results                                                                   *)

Pop(w) == pipe' = [pipe EXCEPT ![w] = Tail(@)]

(* select_connected_users.sql: whoever is in a group with u, u included.     *)
Friends(u) == UNION {members[g] : g \in {h \in Groups : u \in members[h]}}

(* Mutant: only the user's own page is told.                                 *)
ReachedSelf(u) == {user_ht[v] : v \in Friends(u) \cap {u}} \ {None}

(* The pages that a broadcast about u reaches.                               *)
Reached(u) == {user_ht[v] : v \in Friends(u)} \ {None}

(* handle_packet.js, rtusm: a page ignores users it does not know.           *)
Shows(c, u, new) == IF page[c][u] = "unknown" THEN "unknown" ELSE new

(* The pages that know u and are not among the broadcast's receivers.        *)
PassedBy(u) ==
  {<<c, u>> : c \in {d \in Conns : /\ LoggedIn(d) /\ page[d][u] # "unknown"
                                  /\ dbuser[d] \notin Friends(u)}}

do_rtusm_broadcast(w) ==
  /\ pipe[w] # <<>> /\ Head(pipe[w]).kind = "rtusm"
  /\ LET q == Head(pipe[w]) IN
       page' = [c \in Conns |->
         IF c \in Reached(q.user)
         THEN [page[c] EXCEPT ![q.user] = Shows(c, q.user, q.status)] ELSE page[c]]
  /\ LET u == Head(pipe[w]).user IN
       untold' = {p \in untold : p[2] # u} \cup PassedBy(u)
  /\ Pop(w)
  /\ UNCHANGED <<clients, members, silent, missed>>

(* Rows of the table have no status; the page takes that for offline.        *)
RowStatus == "offline"

(* The page makes a new object of every user it is sent.  (The answer to a   *)
(* connection that was freed is what CallbackClientAlive in Pipeline is      *)
(* about; here it is lost.)                                                  *)
do_get_users(w) ==
  /\ pipe[w] # <<>> /\ Head(pipe[w]).kind = "get_user"
  /\ LET q == Head(pipe[w]) IN
       page' = IF life[q.conn] # "open" THEN page
               ELSE [page EXCEPT ![q.conn] = [u \in Users |->
                       IF u \in q.users THEN RowStatus ELSE @[u]]]
  /\ LET q == Head(pipe[w]) IN untold' = untold \ ({q.conn} \X q.users)
  /\ Pop(w)
  /\ UNCHANGED <<clients, members, silent, missed>>

(* Who is in a group is what the statements before have made of it.          *)
MembersChange(w) ==
  /\ pipe[w] # <<>>
  /\ LET q == Head(pipe[w]) IN
       \/ q.kind = "join" /\ members' = [members EXCEPT ![q.group] = @ \cup {q.user}]
       \/ q.kind = "delete" /\ members' = [members EXCEPT ![q.group] = {}]
  /\ Pop(w)
  /\ UNCHANGED <<clients, page, silent, missed, untold>>

Result(w) == do_rtusm_broadcast(w) \/ do_get_users(w) \/ MembersChange(w)

Next ==
  \/ \E c \in Conns, u \in Users : Login(c, u)
  \/ \E w \in Workers :
       \/ \E c \in Conns :
            \/ server_client_user_info(w, c) \/ Close(w, c)
            \/ \E users \in SUBSET Users \ {{}} : server_get_user(w, c, users)
            \/ \E g \in Groups : server_join_group(w, c, g) \/ server_delete_group(w, c, g)
       \/ Result(w)

Spec == Init /\ [][Next]_vars

-----------------------------------------------------------------------------
(* Properties                                                                *)

TrueStatus(u) == IF user_ht[u] = None THEN "offline" ELSE status[user_ht[u]]

(* Users of whom the broadcasts say all: they neither left by EPIPE nor have *)
(* lost their entry in user_ht.                                              *)
Announced == Users \ (silent \cup missed)

IsAbout(q, u) == q.kind = "rtusm" /\ q.user = u

(* What is still on its way ends with the truth: the last broadcast about a  *)
(* user, if there is one, carries the status the user has now.               *)
LastBroadcastIsTrue ==
  \A u \in Announced, w \in Workers : \A i \in DOMAIN pipe[w] :
    (IsAbout(pipe[w][i], u) /\ \A k \in i + 1 .. Len(pipe[w]) : ~IsAbout(pipe[w][k], u))
      => pipe[w][i].status = TrueStatus(u)

(* A page that knows a user, can be reached, and was not passed by.          *)
Watches(c, u) ==
  LoggedIn(c) /\ page[c][u] # "unknown" /\ dbuser[c] \notin missed /\ <<c, u>> \notin untold

(* A page that shows a wrong status has the true one coming, though answers  *)
(* from memory overtake broadcasts and rows of the database say nothing of a *)
(* status (rtusm_broadcast, server_get_user).  Excepted are users who left   *)
(* by EPIPE, users and pages whose entry in user_ht was lost, and pages that *)
(* shared no group with the user when an earlier broadcast was handled.      *)
WrongIsCorrected ==
  \A c \in Conns, u \in Announced :
    Watches(c, u) /\ page[c][u] # TrueStatus(u) =>
      \E w \in Workers : \E i \in DOMAIN pipe[w] :
        IsAbout(pipe[w][i], u) /\ pipe[w][i].status = TrueStatus(u)
=============================================================================
